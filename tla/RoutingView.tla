---------------------------- MODULE RoutingView ----------------------------
(***************************************************************************)
(* What GatewayCache promises about the gateway configuration, without     *)
(* replicas, queries, subscriptions or notifications: there is one growing *)
(* sequence of published configurations, and each node looks at one of     *)
(* them.  It may skip some, but while it runs it only ever moves to a      *)
(* later one; when it stops it is back to none.                            *)
(***************************************************************************)
EXTENDS Integers, Sequences

CONSTANTS
  Nodes,
  Configs,  \* what may be published
  Seed      \* what a node looks at before it has seen any

VARIABLES
  published,  \* the configurations published so far
  at,         \* at[n]: the index of the one n looks at, 0 for none
  view        \* view[n]: what n looks at

vars == <<published, at, view>>

Init ==
  /\ published = << >>
  /\ at = [n \in Nodes |-> 0]
  /\ view = [n \in Nodes |-> Seed]

Publish ==
  /\ \E c \in Configs : published' = Append(published, c)
  /\ UNCHANGED <<at, view>>

Advance(n) ==
  \E i \in at[n] + 1 .. Len(published) :
    /\ at' = [at EXCEPT ![n] = i]
    /\ view' = [view EXCEPT ![n] = published[i]]
    /\ UNCHANGED published

Reset(n) ==
  /\ at' = [at EXCEPT ![n] = 0]
  /\ view' = [view EXCEPT ![n] = Seed]
  /\ UNCHANGED published

Next == Publish \/ \E n \in Nodes : Advance(n) \/ Reset(n)

Spec == Init /\ [][Next]_vars

=============================================================================
