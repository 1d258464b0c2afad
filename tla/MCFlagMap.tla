----------------------------- MODULE MCFlagMap -----------------------------
(* FlagMap with two names and indexes 0 and 1, up to two steps of a slice. *)
EXTENDS FlagMap

CONSTANTS a, b  \* names

MCKeys ==
  {<<Name(a)>>, <<Name(b)>>, <<Name(a), Name(b)>>,
   <<Name(a), Index(0)>>, <<Name(a), Index(1)>>, <<Name(a), Index(2)>>,
   <<Name(a), Index(0), Name(b)>>, <<Name(a), Index(1), Name(b)>>,
   <<Name(a), Index(0), Index(0)>>, <<Name(a), Index(0), Index(1)>>,
   <<Name(b), Name(a), Index(1)>>,
   << >>, <<Name(a), Junk>>, <<Index(0)>>}

=============================================================================
