---------------------------- MODULE CasRegister ----------------------------
(***************************************************************************)
(* What a history of the Jepsen test says to its checker: operations on    *)
(* one register, each of which takes effect at most once, at one moment    *)
(* after its call: a read looks at the register, a change replaces what it *)
(* holds.  A report of "ok" says that the operation has taken effect, and  *)
(* for a read what it saw at that moment; "fail" says that a write or a    *)
(* compare-and-set never did and never will, and "info" says nothing.      *)
(***************************************************************************)
CONSTANTS
  Ops,      \* the operations of the history
  Values,   \* what a register may hold
  Null      \* what it holds before the first write: nil

VARIABLES
  value,    \* the register
  call,     \* call[o]: what o asks for
  taken,    \* taken[o]: o took effect
  seen,     \* seen[o]: what o, a read, saw
  report,   \* report[o]: what the client reported of o
  result    \* result[o]: the value it reported

vars == <<value, call, taken, seen, report, result>>

NoCall == [f |-> "none", old |-> Null, new |-> Null]
Reads == [f : {"read"}, old : {Null}, new : {Null}]
Writes == [f : {"write"}, old : {Null}, new : Values]
Swaps == [f : {"cas"}, old : Values, new : Values]
Calls == Reads \cup Writes \cup Swaps

Init ==
  /\ value = Null
  /\ call = [o \in Ops |-> NoCall]
  /\ taken = [o \in Ops |-> FALSE]
  /\ seen = [o \in Ops |-> Null]
  /\ report = [o \in Ops |-> "none"]
  /\ result = [o \in Ops |-> Null]

Invoke(o) ==
  /\ call[o] = NoCall
  /\ \E c \in Calls : call' = [call EXCEPT ![o] = c]
  /\ UNCHANGED <<value, taken, seen, report, result>>

Read(o) ==
  /\ call[o].f = "read"
  /\ ~taken[o]
  /\ seen' = [seen EXCEPT ![o] = value]
  /\ taken' = [taken EXCEPT ![o] = TRUE]
  /\ UNCHANGED <<value, call, report, result>>

Change(o) ==
  /\ call[o].f \in {"write", "cas"}
  /\ call[o].f = "cas" => value = call[o].old
  /\ ~taken[o]
  /\ report[o] \in {"none", "info"}
  /\ value' = call[o].new
  /\ taken' = [taken EXCEPT ![o] = TRUE]
  /\ UNCHANGED <<call, seen, report, result>>

Report(o, r) ==
  /\ call[o] # NoCall
  /\ report[o] = "none"
  /\ r = "ok" => taken[o]
  /\ r = "fail" /\ call[o].f # "read" => ~taken[o]
  /\ report' = [report EXCEPT ![o] = r]
  /\ result' = [result EXCEPT ![o] = IF r = "ok" THEN seen[o] ELSE Null]
  /\ UNCHANGED <<value, call, taken, seen>>

Next ==
  \E o \in Ops : Invoke(o) \/ Read(o) \/ Change(o)
                 \/ \E r \in {"ok", "fail", "info"} : Report(o, r)

Spec == Init /\ [][Next]_vars

=============================================================================
