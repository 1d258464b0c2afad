--------------------------- MODULE MCJepsenClient ---------------------------
(* JepsenClient with symmetric operations and values: neither are compared *)
(* but for equality, and what is checked are safety properties.            *)
EXTENDS JepsenClient, TLC

Symmetry == Permutations(Ops) \cup Permutations(Values)

=============================================================================
