---------------------------- MODULE JepsenProofs ----------------------------
(***************************************************************************)
(* The history of the Jepsen test's client implements CasRegister, for any *)
(* operations and values.                                                  *)
(***************************************************************************)
EXTENDS JepsenClient, TLAPS

\* What a request that the service still has says of its operation.
RequestInv(o) ==
  /\ request[o].verb = "GET" => call[o].f \in {"read", "cas"}
  /\ request[o].verb = "POST" => call[o].f = "write"
  /\ request[o].verb = "PATCH" =>
       /\ call[o].f = "cas"
       /\ value # Null
       /\ request[o].version <= version
       /\ request[o].version = version => value = call[o].old
  /\ taken[o] => call[o] # NoCall /\ request[o].verb = "none"

\* What an answer to a GET says while its operation waits for it.
GetInv(o) ==
  awaits[o] = "GET" =>
    /\ call[o].f \in {"read", "cas"}
    /\ call[o].f = "cas" => ~taken[o]
    /\ request[o].verb \in {"none", "GET"}
    /\ answer[o].status # 0 => request[o].verb = "none"
    /\ answer[o].status = 200 =>
         /\ value # Null
         /\ answer[o].version <= version
         /\ answer[o].version = version => value = answer[o].value
         /\ call[o].f = "read" => taken[o] /\ seen[o] = answer[o].value
    /\ (answer[o].status = 404 /\ call[o].f = "read") => taken[o] /\ seen[o] = Null

\* What an answer to a change says.
ChangeInv(o) ==
  /\ awaits[o] = "POST" => call[o].f = "write"
  /\ awaits[o] = "PATCH" => call[o].f = "cas"
  /\ awaits[o] \in {"POST", "PATCH"} =>
       /\ request[o].verb # "GET"
       /\ answer[o].status = 200 => taken[o]
       /\ answer[o].status \in {400, 404, 409} =>
            ~taken[o] /\ request[o].verb = "none"

\* What was reported.
ReportInv(o) ==
  /\ call[o] = NoCall =>
       request[o].verb = "none" /\ answer[o].status = 0 /\ report[o] = "none"
  /\ report[o] = "none" => result[o] = Null
  /\ doubt[o] => report[o] = "fail"
  /\ (call[o].f \in Changes /\ report[o] = "ok") => taken[o]
  /\ (call[o].f \in Changes /\ report[o] = "fail" /\ ~doubt[o]) =>
       ~taken[o] /\ request[o].verb = "none"
  /\ call[o].f # "read" => seen[o] = Null
  /\ answer[o].status # 200 => answer[o].value = Null

OpInv(o) == RequestInv(o) /\ GetInv(o) /\ ChangeInv(o) /\ ReportInv(o)
IInv == TypeOK /\ \A o \in Ops : OpInv(o)

-----------------------------------------------------------------------------
(***************************************************************************)
(* The states of a call and the constants of the wire have their types.    *)
(***************************************************************************)
LEMMA ConstantTypes ==
  /\ NoRequest \in [verb : Verbs \cup {"none"}, version : Nat, answered : BOOLEAN]
  /\ NoAnswer \in [status : Errors \cup {0, 200}, value : Values \cup {Null}, version : Nat]
  /\ \A s \in Errors \cup {0, 200} :
       Answer(s) \in [status : Errors \cup {0, 200}, value : Values \cup {Null}, version : Nat]
  /\ Get \in [verb : Verbs, version : Nat, answered : BOOLEAN]
  /\ Post \in [verb : Verbs, version : Nat, answered : BOOLEAN]
  /\ \A v \in Nat : StrictPatch(v) \in [verb : Verbs, version : Nat, answered : BOOLEAN]
  /\ NoCall \notin Calls
  /\ \A c \in Calls : /\ c.f \in {"read", "write", "cas"}
                      /\ c.old \in Values \cup {Null}
                      /\ c.new \in Values \cup {Null}
                      /\ c.f \in Changes => c.new \in Values
  <1>1. NoCall.f = "none"
    BY DEF NoCall
  <1>2. \A c \in Calls : c.f \in {"read", "write", "cas"}
    BY DEF Calls, Reads, Writes, Swaps
  <1>3. NoCall \notin Calls
    BY <1>1, <1>2
  <1>4. \A c \in Calls : /\ c.old \in Values \cup {Null}
                         /\ c.new \in Values \cup {Null}
                         /\ c.f \in Changes => c.new \in Values
    BY DEF Calls, Reads, Writes, Swaps, Changes
  <1> QED
    BY <1>2, <1>3, <1>4
    DEF NoRequest, NoAnswer, Answer, Get, Post, StrictPatch, Verbs, Errors

(***************************************************************************)
(* What is reported is one of the types Jepsen knows.                      *)
(***************************************************************************)
LEMMA OutcomeType ==
  ASSUME NEW f, NEW s \in Errors \cup {200}
  PROVE  /\ Outcome(f, s) \in {"ok", "fail", "info"}
         /\ Outcome(f, s) = "ok" <=> s = 200
         /\ Outcome(f, s) = "fail" => s # 200
         /\ s \in {404, 408, 409, 500} => Outcome(f, s) = "fail"
  BY DEF Outcome, Errors

(***************************************************************************)
(* The initial states satisfy the invariant.                               *)
(***************************************************************************)
LEMMA InitInv == Init => IInv
  <1> SUFFICES ASSUME Init PROVE IInv
    OBVIOUS
  <1>1. TypeOK
    BY ConstantTypes DEF Init, TypeOK
  <1>2. ASSUME NEW o \in Ops PROVE OpInv(o)
    BY DEF Init, OpInv, RequestInv, GetInv, ChangeInv, ReportInv, NoCall, NoRequest,
           NoAnswer, Changes
  <1> QED
    BY <1>1, <1>2 DEF IInv

(***************************************************************************)
(* Completing an operation keeps the types.                                *)
(***************************************************************************)
LEMMA CompleteType ==
  ASSUME TypeOK, NEW o \in Ops, NEW r \in {"ok", "fail", "info"},
         NEW v \in Values \cup {Null},
         awaits[o] # "none", Complete(o, r, v)
  PROVE  /\ value' = value /\ version' = version /\ call' = call
         /\ taken' = taken /\ seen' = seen
         /\ report' \in [Ops -> {"none", "ok", "fail", "info"}]
         /\ result' \in [Ops -> Values \cup {Null}]
         /\ awaits' \in [Ops -> Verbs \cup {"none"}]
         /\ \A p \in Ops : awaits'[p] # "none" <=> call'[p] # NoCall /\ report'[p] = "none"
  BY DEF TypeOK, Complete, document, history

(***************************************************************************)
(* Sending a request keeps the types.                                      *)
(***************************************************************************)
LEMMA SendType ==
  ASSUME TypeOK, NEW o \in Ops,
         NEW q \in [verb : Verbs, version : Nat, answered : BOOLEAN], Send(o, q)
  PROVE  /\ awaits' \in [Ops -> Verbs \cup {"none"}]
         /\ request' \in [Ops -> [verb : Verbs \cup {"none"}, version : Nat, answered : BOOLEAN]]
         /\ \A p \in Ops : awaits'[p] # "none" <=> (p = o \/ awaits[p] # "none")
  <1>1. q.verb \in Verbs /\ q.verb # "none"
    BY DEF Verbs
  <1>2. q \in [verb : Verbs \cup {"none"}, version : Nat, answered : BOOLEAN]
    OBVIOUS
  <1> HIDE DEF Verbs
  <1> QED
    BY <1>1, <1>2 DEF TypeOK, Send

(***************************************************************************)
(* Every step keeps the types.                                             *)
(***************************************************************************)
LEMMA TypeStep == IInv /\ [Next]_vars => TypeOK'
  <1> SUFFICES ASSUME IInv, [Next]_vars PROVE TypeOK'
    OBVIOUS
  <1> USE ConstantTypes
  <1>0. TypeOK /\ \A o \in Ops : OpInv(o)
    BY DEF IInv
  <1>1. ASSUME NEW o \in Ops, Invoke(o) PROVE TypeOK'
    <2>1. PICK c \in Calls : /\ call' = [call EXCEPT ![o] = c]
                             /\ Send(o, IF c.f = "write" THEN Post ELSE Get)
      BY <1>0, <1>1 DEF Invoke
    <2> DEFINE q == IF c.f = "write" THEN Post ELSE Get
    <2>2. q \in [verb : Verbs, version : Nat, answered : BOOLEAN]
      OBVIOUS
    <2>3. Send(o, q)
      BY <2>1
    <2> HIDE DEF q
    <2>4. report[o] = "none"
      BY <1>0, <1>1 DEF Invoke, OpInv, ReportInv
    <2>5. c # NoCall
      OBVIOUS
    <2> QED
      BY <1>0, <1>1, <2>1, <2>2, <2>3, <2>4, <2>5, SendType
      DEF TypeOK, Invoke, document, outcome, history
  <1>2. ASSUME NEW o \in Ops, ReadAnswered(o) PROVE TypeOK'
    <2>1. answer[o].status \in Errors \cup {200} /\ answer[o].value \in Values \cup {Null}
      BY <1>0, <1>2 DEF TypeOK, ReadAnswered
    <2>2. PICK r \in {"ok", "fail", "info"}, v \in Values \cup {Null} : Complete(o, r, v)
      BY <1>0, <1>2, <2>1, OutcomeType DEF ReadAnswered
    <2>3. answer' \in [Ops -> [status : Errors \cup {0, 200},
                               value : Values \cup {Null}, version : Nat]]
      BY <1>0, <1>2 DEF TypeOK, ReadAnswered
    <2>4. awaits[o] # "none"
      BY <1>0, <1>2 DEF ReadAnswered
    <2> QED
      BY <1>0, <1>2, <2>2, <2>3, <2>4, CompleteType DEF TypeOK, ReadAnswered
  <1>3. ASSUME NEW o \in Ops, CasMatches(o) PROVE TypeOK'
    <2> DEFINE q == StrictPatch(answer[o].version)
    <2>1. q \in [verb : Verbs, version : Nat, answered : BOOLEAN]
      BY <1>0 DEF TypeOK
    <2>2. Send(o, q)
      BY <1>3 DEF CasMatches
    <2> HIDE DEF q
    <2>3. /\ awaits' \in [Ops -> Verbs \cup {"none"}]
          /\ request' \in [Ops -> [verb : Verbs \cup {"none"}, version : Nat, answered : BOOLEAN]]
          /\ \A p \in Ops : awaits'[p] # "none" <=> (p = o \/ awaits[p] # "none")
      BY <1>0, <2>1, <2>2, SendType
    <2>4. awaits[o] # "none"
      BY <1>3 DEF CasMatches
    <2>5. answer' \in [Ops -> [status : Errors \cup {0, 200},
                               value : Values \cup {Null}, version : Nat]]
      BY <1>0, <1>3 DEF TypeOK, CasMatches
    <2>6. UNCHANGED <<document, call, outcome, history>>
      BY <1>3 DEF CasMatches
    <2> QED
      BY <1>0, <2>3, <2>4, <2>5, <2>6 DEF TypeOK, document, outcome, history
  <1>4. ASSUME NEW o \in Ops, CasDiffers(o) PROVE TypeOK'
    <2>1. Complete(o, "fail", Null) /\ awaits[o] # "none"
      BY <1>0, <1>4 DEF CasDiffers
    <2> QED
      BY <1>0, <1>4, <2>1, CompleteType DEF TypeOK, CasDiffers
  <1>5. ASSUME NEW o \in Ops, ChangeAnswered(o) PROVE TypeOK'
    <2>1. answer[o].status \in Errors \cup {200}
      BY <1>0, <1>5 DEF TypeOK, ChangeAnswered
    <2>2. PICK r \in {"ok", "fail", "info"} : Complete(o, r, Null)
      BY <1>0, <1>5, <2>1, OutcomeType DEF ChangeAnswered
    <2>3. awaits[o] # "none"
      BY <1>0, <1>5 DEF ChangeAnswered
    <2> QED
      BY <1>0, <1>5, <2>2, <2>3, CompleteType DEF TypeOK, ChangeAnswered
  <1>6. ASSUME NEW o \in Ops, TimesOut(o) PROVE TypeOK'
    <2>1. PICK r \in {"ok", "fail", "info"} : Complete(o, r, Null)
      BY <1>0, <1>6 DEF TimesOut, TimeoutOutcome
    <2> QED
      BY <1>0, <1>6, <2>1, CompleteType DEF TypeOK, TimesOut, wire
  <1>7. ASSUME NEW o \in Ops, ConnectionFails(o) PROVE TypeOK'
    BY <1>0, <1>7, CompleteType DEF TypeOK, ConnectionFails, wire
  <1>8. ASSUME NEW o \in Ops, ServeGet(o) PROVE TypeOK'
    <2> DEFINE a == IF value = Null THEN Answer(404)
                    ELSE [status |-> 200, value |-> value, version |-> version]
    <2>1. a \in [status : Errors \cup {0, 200}, value : Values \cup {Null}, version : Nat]
      BY <1>0 DEF TypeOK, Errors
    <2>2. Done(o, a)
      BY <1>0, <1>8 DEF ServeGet
    <2>3. taken' \in [Ops -> BOOLEAN] /\ seen' \in [Ops -> Values \cup {Null}]
      <3>1. /\ taken \in [Ops -> BOOLEAN]
            /\ seen \in [Ops -> Values \cup {Null}]
            /\ value \in Values \cup {Null}
        BY <1>0 DEF TypeOK
      <3>2. CASE call[o].f = "read"
        <4>1. taken' = [taken EXCEPT ![o] = TRUE] /\ seen' = [seen EXCEPT ![o] = value]
          BY <1>8, <3>2 DEF ServeGet
        <4> QED
          BY <3>1, <4>1
      <3>3. CASE call[o].f # "read"
        BY <1>8, <3>1, <3>3 DEF ServeGet, history
      <3> QED
        BY <3>2, <3>3
    <2>4. UNCHANGED <<document, call, awaits, outcome>>
      BY <1>8 DEF ServeGet
    <2> HIDE DEF a
    <2> QED
      BY <1>0, <2>1, <2>2, <2>3, <2>4 DEF TypeOK, Done, document, outcome
  <1>9. ASSUME NEW o \in Ops, Perform(o) PROVE TypeOK'
    <2>1. call[o].new \in Values
      <3>1. call[o].f \in Changes
        BY <1>0, <1>9 DEF Perform, Applies, OpInv, RequestInv, Changes
      <3>2. call[o] \in Calls
        BY <1>0, <3>1 DEF TypeOK, NoCall, Changes
      <3> QED
        BY <3>1, <3>2
    <2>2. NextVersion \in Nat
      BY <1>0 DEF TypeOK, NextVersion
    <2> QED
      BY <1>0, <1>9, <2>1, <2>2 DEF TypeOK, Perform, Done, outcome, Errors
  <1>10. ASSUME NEW o \in Ops, Refuse(o) PROVE TypeOK'
    <2>1. PICK s \in Errors : Done(o, Answer(s))
      BY <1>0, <1>10 DEF Refuse, Errors
    <2>2. Answer(s) \in [status : Errors \cup {0, 200}, value : Values \cup {Null}, version : Nat]
      OBVIOUS
    <2> DEFINE a == Answer(s)
    <2>3. answer' \in [Ops -> [status : Errors \cup {0, 200},
                               value : Values \cup {Null}, version : Nat]]
      <3> HIDE DEF a
      <3> QED
        BY <1>0, <2>1, <2>2 DEF TypeOK, Done
    <2>4. request' \in [Ops -> [verb : Verbs \cup {"none"}, version : Nat, answered : BOOLEAN]]
      BY <1>0, <2>1 DEF TypeOK, Done
    <2>5. UNCHANGED <<document, call, awaits, outcome, history>>
      BY <1>10 DEF Refuse
    <2> QED
      BY <1>0, <2>3, <2>4, <2>5 DEF TypeOK, document, outcome, history
  <1>11. ASSUME NEW o \in Ops, Fail(o) PROVE TypeOK'
    <2>1. PICK s \in {408, 500} : answer' = [answer EXCEPT ![o] = Answer(s)]
      BY <1>11 DEF Fail
    <2>2. Answer(s) \in [status : Errors \cup {0, 200}, value : Values \cup {Null}, version : Nat]
      BY DEF Errors
    <2>3. request' \in [Ops -> [verb : Verbs \cup {"none"}, version : Nat, answered : BOOLEAN]]
      <3>1. request[o] \in [verb : Verbs \cup {"none"}, version : Nat, answered : BOOLEAN]
        BY <1>0 DEF TypeOK
      <3>2. [request[o] EXCEPT !.answered = TRUE]
              \in [verb : Verbs \cup {"none"}, version : Nat, answered : BOOLEAN]
        BY <3>1
      <3> QED
        BY <1>0, <1>11, <3>2 DEF TypeOK, Fail
    <2>4. answer' \in [Ops -> [status : Errors \cup {0, 200},
                               value : Values \cup {Null}, version : Nat]]
      BY <1>0, <2>1, <2>2 DEF TypeOK
    <2>5. UNCHANGED <<document, call, awaits, outcome, history>>
      BY <1>11 DEF Fail
    <2> QED
      BY <1>0, <2>3, <2>4, <2>5 DEF TypeOK, document, outcome, history
  <1>12. CASE UNCHANGED vars
    BY <1>0, <1>12 DEF TypeOK, vars, document, wire, outcome, history
  <1> QED
    BY <1>1, <1>2, <1>3, <1>4, <1>5, <1>6, <1>7, <1>8, <1>9, <1>10, <1>11, <1>12 DEF Next

-----------------------------------------------------------------------------
\* What another operation's step leaves of p.
Untouched(p) ==
  /\ call'[p] = call[p] /\ awaits'[p] = awaits[p]
  /\ request'[p] = request[p] /\ answer'[p] = answer[p]
  /\ report'[p] = report[p] /\ result'[p] = result[p] /\ doubt'[p] = doubt[p]
  /\ taken'[p] = taken[p] /\ seen'[p] = seen[p]

(***************************************************************************)
(* A step that leaves an operation alone keeps its invariant, also when it *)
(* changes the document: a new version is greater than any that was read.  *)
(***************************************************************************)
LEMMA Frame ==
  ASSUME TypeOK, NEW p \in Ops, OpInv(p), Untouched(p),
         \/ UNCHANGED document
         \/ value' # Null /\ version' = NextVersion
            /\ version' \in Nat
  PROVE  OpInv(p)'
  <1>1. CASE UNCHANGED document
    BY <1>1 DEF OpInv, RequestInv, GetInv, ChangeInv, ReportInv, Untouched, document
  <1>2. CASE value' # Null /\ version' = NextVersion
    <2>1. version \in Nat /\ request[p].version \in Nat /\ answer[p].version \in Nat
      BY DEF TypeOK
    <2>2. value # Null => version' = version + 1
      BY <1>2 DEF NextVersion
    <2>3. RequestInv(p)'
      BY <1>2, <2>1, <2>2 DEF OpInv, RequestInv, Untouched
    <2>4. GetInv(p)'
      BY <1>2, <2>1, <2>2 DEF OpInv, GetInv, Untouched
    <2> QED
      BY <2>3, <2>4 DEF OpInv, ChangeInv, ReportInv, Untouched
  <1> QED
    BY <1>1, <1>2

(***************************************************************************)
(* A step of one operation leaves every other one alone.                   *)
(***************************************************************************)
LEMMA OthersUntouched ==
  ASSUME TypeOK, NEW o \in Ops, NEW p \in Ops, p # o,
         \/ Invoke(o) \/ ReadAnswered(o) \/ CasMatches(o) \/ CasDiffers(o)
         \/ ChangeAnswered(o) \/ TimesOut(o) \/ ConnectionFails(o)
         \/ ServeGet(o) \/ Perform(o) \/ Refuse(o) \/ Fail(o)
  PROVE  Untouched(p)
  <1> USE DEF TypeOK, Untouched, document, wire, outcome, history
  <1>1. CASE Invoke(o)
    BY <1>1 DEF Invoke, Send
  <1>2. CASE ReadAnswered(o)
    BY <1>2 DEF ReadAnswered, Complete
  <1>3. CASE CasMatches(o)
    BY <1>3 DEF CasMatches, Send
  <1>4. CASE CasDiffers(o)
    BY <1>4 DEF CasDiffers, Complete
  <1>5. CASE ChangeAnswered(o)
    BY <1>5 DEF ChangeAnswered, Complete
  <1>6. CASE TimesOut(o)
    BY <1>6 DEF TimesOut, Complete
  <1>7. CASE ConnectionFails(o)
    BY <1>7 DEF ConnectionFails, Complete
  <1>8. CASE ServeGet(o)
    BY <1>8 DEF ServeGet, Done
  <1>9. CASE Perform(o)
    BY <1>9 DEF Perform, Done
  <1>10. CASE Refuse(o)
    BY <1>10 DEF Refuse, Done
  <1>11. CASE Fail(o)
    BY <1>11 DEF Fail
  <1> QED
    BY <1>1, <1>2, <1>3, <1>4, <1>5, <1>6, <1>7, <1>8, <1>9, <1>10, <1>11

-----------------------------------------------------------------------------
(***************************************************************************)
(* A step of an operation keeps its own invariant.                         *)
(***************************************************************************)
LEMMA OwnStep ==
  ASSUME TypeOK, NEW o \in Ops, OpInv(o),
         \/ Invoke(o) \/ ReadAnswered(o) \/ CasMatches(o) \/ CasDiffers(o)
         \/ ChangeAnswered(o) \/ TimesOut(o) \/ ConnectionFails(o)
         \/ ServeGet(o) \/ Perform(o) \/ Refuse(o) \/ Fail(o)
  PROVE  OpInv(o)'
  <1> USE DEF document, wire, outcome, history
  <1>1. CASE Invoke(o)
    <2>1. PICK c \in Calls : /\ call'[o] = c
                             /\ request'[o] = IF c.f = "write" THEN Post ELSE Get
                             /\ awaits'[o] = request'[o].verb
      BY <1>1 DEF Invoke, Send, TypeOK
    <2>2. /\ call[o] = NoCall /\ report[o] = "none" /\ answer[o].status = 0
          /\ answer'[o] = answer[o] /\ report'[o] = report[o]
          /\ result'[o] = result[o] /\ doubt'[o] = doubt[o]
          /\ taken'[o] = taken[o] /\ seen'[o] = seen[o]
      BY <1>1 DEF Invoke, OpInv, ReportInv
    <2>3. /\ NoCall.f = "none" /\ c # NoCall
          /\ c.f \in {"read", "write", "cas"}
      BY ConstantTypes DEF NoCall
    <2>4. ~taken[o] /\ seen[o] = Null /\ ~doubt[o]
      BY <2>2, <2>3 DEF OpInv, RequestInv, ReportInv, TypeOK, Changes
    <2>5. CASE c.f = "write"
      BY <2>1, <2>2, <2>3, <2>4, <2>5
      DEF OpInv, RequestInv, GetInv, ChangeInv, ReportInv, Post, Changes
    <2>6. CASE c.f \in {"read", "cas"}
      BY <2>1, <2>2, <2>3, <2>4, <2>6
      DEF OpInv, RequestInv, GetInv, ChangeInv, ReportInv, Get, Changes
    <2> QED
      BY <2>3, <2>5, <2>6
  <1>2. CASE ReadAnswered(o)
    <2>1. /\ answer'[o] = NoAnswer /\ awaits'[o] = "none" /\ report'[o] # "none"
          /\ call'[o] = call[o] /\ request'[o] = request[o] /\ doubt'[o] = doubt[o]
          /\ taken'[o] = taken[o] /\ seen'[o] = seen[o]
          /\ value' = value /\ version' = version
      <3>1. answer[o].status \in Errors \cup {200}
        BY <1>2 DEF ReadAnswered, TypeOK
      <3>2. \E r \in {"ok", "fail", "info"} : \E v : Complete(o, r, v)
        BY <1>2, <3>1, OutcomeType DEF ReadAnswered
      <3>3. PICK r \in {"ok", "fail", "info"} : \E v : Complete(o, r, v)
        BY <3>2
      <3>4. PICK v : Complete(o, r, v)
        BY <3>3
      <3> QED
        BY <1>2, <3>4 DEF ReadAnswered, Complete, TypeOK
    <2>2. call[o].f = "read" /\ report[o] = "none"
      BY <1>2 DEF ReadAnswered, TypeOK
    <2> QED
      BY <2>1, <2>2 DEF OpInv, RequestInv, GetInv, ChangeInv, ReportInv, Changes,
                        NoAnswer, NoCall
  <1>3. CASE CasMatches(o)
    BY <1>3 DEF CasMatches, Send, StrictPatch, TypeOK,
                OpInv, RequestInv, GetInv, ChangeInv, ReportInv, Changes, NoAnswer, NoCall
  <1>4. CASE CasDiffers(o)
    BY <1>4 DEF CasDiffers, Complete, TypeOK,
                OpInv, RequestInv, GetInv, ChangeInv, ReportInv, Changes, NoAnswer, NoCall
  <1>5. CASE ChangeAnswered(o)
    <2>1. /\ answer'[o] = NoAnswer /\ awaits'[o] = "none"
          /\ report'[o] = Outcome(call[o].f, answer[o].status)
          /\ doubt'[o] <=> answer[o].status \in {408, 500}
          /\ call'[o] = call[o] /\ request'[o] = request[o]
          /\ taken'[o] = taken[o] /\ seen'[o] = seen[o]
          /\ value' = value /\ version' = version
      <3>1. doubt'[o] <=> answer[o].status \in {408, 500}
        <4> DEFINE b == answer[o].status \in {408, 500}
        <4>1. doubt' = [doubt EXCEPT ![o] = b]
          BY <1>5, Zenon DEF ChangeAnswered
        <4>2. doubt \in [Ops -> BOOLEAN]
          BY DEF TypeOK
        <4> HIDE DEF b
        <4>3. doubt'[o] = b
          BY <4>1, <4>2
        <4> QED
          BY <4>3 DEF b
      <3> QED
        BY <1>5, <3>1 DEF ChangeAnswered, Complete, TypeOK
    <2>2. answer[o].status \in Errors \cup {200} /\ awaits[o] \in {"POST", "PATCH"}
      BY <1>5 DEF ChangeAnswered, TypeOK
    <2>3. /\ report'[o] = "ok" <=> answer[o].status = 200
          /\ report'[o] \in {"ok", "fail", "info"}
          /\ answer[o].status \in {408, 500} => report'[o] = "fail"
          /\ answer[o].status \in {200, 400, 404, 408, 409, 500}
      BY <2>1, <2>2, OutcomeType DEF Errors
    <2>4. RequestInv(o)' /\ GetInv(o)' /\ ChangeInv(o)'
      BY <2>1 DEF OpInv, RequestInv, GetInv, ChangeInv
    <2>5. call[o].f \in Changes /\ call[o] # NoCall
      BY <2>2 DEF OpInv, ChangeInv, Changes, NoCall
    <2>6. report'[o] = "ok" => taken'[o]
      BY <2>1, <2>2, <2>3 DEF OpInv, ChangeInv
    <2>7. report'[o] = "fail" /\ ~doubt'[o] => ~taken'[o] /\ request'[o].verb = "none"
      BY <2>1, <2>2, <2>3 DEF OpInv, ChangeInv
    <2>8. call'[o].f # "read" => seen'[o] = Null
      BY <2>1 DEF OpInv, ReportInv
    <2>9. doubt'[o] => report'[o] = "fail"
      BY <2>1, <2>3
    <2>10. report'[o] # "none" /\ answer'[o].value = Null
      BY <2>1, <2>3 DEF NoAnswer
    <2>11. ReportInv(o)'
      BY <2>1, <2>5, <2>6, <2>7, <2>8, <2>9, <2>10 DEF ReportInv
    <2> QED
      BY <2>4, <2>11 DEF OpInv
  <1>6. CASE TimesOut(o)
    BY <1>6 DEF TimesOut, Complete, TimeoutOutcome, TypeOK,
                OpInv, RequestInv, GetInv, ChangeInv, ReportInv, Changes, NoAnswer, NoCall
  <1>7. CASE ConnectionFails(o)
    BY <1>7 DEF ConnectionFails, Complete, TypeOK,
                OpInv, RequestInv, GetInv, ChangeInv, ReportInv, Changes, NoAnswer, NoCall
  <1>8. CASE ServeGet(o)
    BY <1>8 DEF ServeGet, Done, Answer, TypeOK, NoRequest,
                OpInv, RequestInv, GetInv, ChangeInv, ReportInv, Changes, NoAnswer, NoCall
  <1>9. CASE Perform(o)
    BY <1>9 DEF Perform, Done, Applies, Answer, TypeOK, NoRequest,
                OpInv, RequestInv, GetInv, ChangeInv, ReportInv, Changes, NoAnswer, NoCall
  <1>10. CASE Refuse(o)
    BY <1>10 DEF Refuse, Done, Answer, TypeOK, NoRequest,
                OpInv, RequestInv, GetInv, ChangeInv, ReportInv, Changes, NoAnswer, NoCall
  <1>11. CASE Fail(o)
    BY <1>11 DEF Fail, Answer, TypeOK, NoRequest,
                OpInv, RequestInv, GetInv, ChangeInv, ReportInv, Changes, NoAnswer, NoCall
  <1> QED
    BY <1>1, <1>2, <1>3, <1>4, <1>5, <1>6, <1>7, <1>8, <1>9, <1>10, <1>11

-----------------------------------------------------------------------------
(***************************************************************************)
(* The invariant is inductive.                                             *)
(***************************************************************************)
LEMMA NextInv == IInv /\ [Next]_vars => IInv'
  <1> SUFFICES ASSUME IInv, [Next]_vars PROVE IInv'
    OBVIOUS
  <1>1. TypeOK /\ \A o \in Ops : OpInv(o)
    BY DEF IInv
  <1>2. TypeOK'
    BY TypeStep
  <1>3. ASSUME NEW p \in Ops PROVE OpInv(p)'
    <2>1. CASE UNCHANGED vars
      <3>1. Untouched(p) /\ UNCHANGED document
        BY <2>1 DEF vars, Untouched, document, wire, outcome, history
      <3> QED
        BY <1>1, <3>1, Frame
    <2>2. CASE Next
      <3>1. PICK o \in Ops :
              \/ Invoke(o) \/ ReadAnswered(o) \/ CasMatches(o) \/ CasDiffers(o)
              \/ ChangeAnswered(o) \/ TimesOut(o) \/ ConnectionFails(o)
              \/ ServeGet(o) \/ Perform(o) \/ Refuse(o) \/ Fail(o)
        BY <2>2 DEF Next
      <3>2. CASE p = o
        BY <1>1, <3>1, <3>2, OwnStep
      <3>3. CASE p # o
        <4>1. Untouched(p)
          BY <1>1, <3>1, <3>3, OthersUntouched
        <4>2. CASE Perform(o)
          <5>1. call[o].f \in Changes
            BY <1>1, <4>2 DEF Perform, Applies, OpInv, RequestInv, Changes
          <5>2. call[o] \in Calls
            BY <1>1, <5>1 DEF TypeOK, NoCall, Changes
          <5>3. value' \in Values /\ version' = NextVersion
            BY <4>2, <5>1, <5>2, ConstantTypes DEF Perform
          <5> QED
            BY <1>1, <1>2, <4>1, <5>3, Frame, JepsenAssumption DEF TypeOK
        <4>3. CASE ~Perform(o)
          <5>1. UNCHANGED document
            BY <3>1, <4>3
            DEF Invoke, ReadAnswered, CasMatches, CasDiffers, ChangeAnswered, TimesOut,
                ConnectionFails, ServeGet, Refuse, Fail, Complete
          <5> QED
            BY <1>1, <4>1, <5>1, Frame
        <4> QED
          BY <4>2, <4>3
      <3> QED
        BY <3>2, <3>3
    <2> QED
      BY <2>1, <2>2
  <1> QED
    BY <1>2, <1>3 DEF IInv

(***************************************************************************)
(* The inductive invariant holds in every state of the client and service. *)
(***************************************************************************)
LEMMA InvAlways == Spec => []IInv
  BY InitInv, NextInv, PTL DEF Spec

(***************************************************************************)
(* Type correctness, for any operations and values.                        *)
(***************************************************************************)
THEOREM JepsenTypeCorrect == Spec => []TypeOK
  <1>1. IInv => TypeOK
    BY DEF IInv
  <1> QED
    BY <1>1, InvAlways, PTL

(***************************************************************************)
(* A reported failure that does not rest on a 408 or a 500 is one.         *)
(***************************************************************************)
THEOREM FailuresReliable == Spec => []FailureIsReliable
  <1>1. IInv => FailureIsReliable
    BY DEF IInv, OpInv, ReportInv, FailureIsReliable
  <1> QED
    BY <1>1, InvAlways, PTL

(***************************************************************************)
(* A conditional PATCH that applies meets the value its cas! has read.     *)
(***************************************************************************)
THEOREM PatchesMeetWhatTheyRead == Spec => []PatchMeetsWhatItRead
  <1>1. IInv => PatchMeetsWhatItRead
    BY DEF IInv, OpInv, RequestInv, PatchMeetsWhatItRead, Applies
  <1> QED
    BY <1>1, InvAlways, PTL

-----------------------------------------------------------------------------
\* What the checker would have to be told.
told == [o \in Ops |-> IF doubt[o] THEN "info" ELSE report[o]]

(***************************************************************************)
(* Completing an operation with an outcome it is entitled to is a report   *)
(* of the abstract register.                                               *)
(***************************************************************************)
LEMMA CompleteReports ==
  ASSUME IInv, NEW o \in Ops, NEW r \in {"ok", "fail", "info"}, NEW v, NEW s,
         awaits[o] # "none", Complete(o, r, v),
         doubt' = [doubt EXCEPT ![o] = s], s \in BOOLEAN,
         v = IF r = "ok" THEN seen[o] ELSE Null,
         s => r = "fail",
         r = "ok" => taken[o],
         call[o].f # "read" /\ r = "fail" /\ ~s => ~taken[o]
  PROVE  Register!Next
  <1> DEFINE t == IF s THEN "info" ELSE r
  <1>1. TypeOK /\ OpInv(o)
    BY DEF IInv
  <1>2. call[o] # Register!NoCall /\ report[o] = "none" /\ ~doubt[o]
    BY <1>1 DEF TypeOK, OpInv, ReportInv, NoCall, Register!NoCall
  <1>3. told[o] = "none"
    BY <1>2 DEF told
  <1>4. told' = [told EXCEPT ![o] = t]
    BY <1>1 DEF told, TypeOK, Complete
  <1>5. result' = [result EXCEPT ![o] = IF t = "ok" THEN seen[o] ELSE Null]
    BY DEF Complete
  <1>6. UNCHANGED <<value, call, taken, seen>>
    BY DEF Complete, document, history
  <1>7. t \in {"ok", "fail", "info"}
    OBVIOUS
  <1>8. (t = "ok" => taken[o]) /\ (t = "fail" /\ call[o].f # "read" => ~taken[o])
    OBVIOUS
  <1>9. Register!Report(o, t)
    BY <1>2, <1>3, <1>4, <1>5, <1>6, <1>8 DEF Register!Report, told
  <1> QED
    BY <1>7, <1>9 DEF Register!Next

(***************************************************************************)
(* Every step of client and service is one of the abstract register, or a  *)
(* stutter of it.                                                          *)
(***************************************************************************)
LEMMA StepImplements == IInv /\ [Next]_vars => [Register!Next]_(Register!vars)
  <1> SUFFICES ASSUME IInv, [Next]_vars PROVE [Register!Next]_(Register!vars)
    OBVIOUS
  <1>0. TypeOK /\ \A o \in Ops : OpInv(o)
    BY DEF IInv
  <1> DEFINE Stutter == UNCHANGED <<value, call, taken, seen, report, result, doubt>>
  <1>s. ASSUME Stutter PROVE UNCHANGED Register!vars
    BY <1>s DEF Register!vars
  <1>1. ASSUME NEW o \in Ops, Invoke(o) PROVE Register!Next
    <2>1. Register!Invoke(o)
      BY <1>1 DEF Invoke, Register!Invoke, Register!Calls, Calls, Register!Reads, Reads,
                  Register!Writes, Writes, Register!Swaps, Swaps, Register!NoCall, NoCall,
                  document, outcome, history
    <2> QED
      BY <2>1 DEF Register!Next
  <1>2. ASSUME NEW o \in Ops, ReadAnswered(o) PROVE Register!Next
    <2>1. /\ call[o].f = "read" /\ awaits[o] = "GET" /\ doubt[o] = FALSE
          /\ answer[o].status \in Errors \cup {200}
      BY <1>0, <1>2 DEF ReadAnswered, TypeOK, OpInv, ReportInv
    <2>2. doubt' = [doubt EXCEPT ![o] = FALSE]
      BY <1>0, <1>2, <2>1 DEF ReadAnswered, TypeOK
    <2>3. CASE answer[o].status = 404
      BY <1>0, <1>2, <2>1, <2>2, <2>3, CompleteReports DEF ReadAnswered, OpInv, GetInv
    <2>4. CASE answer[o].status # 404
      <3> DEFINE r == Outcome("read", answer[o].status)
      <3>1. r \in {"ok", "fail", "info"} /\ (r = "ok" <=> answer[o].status = 200)
        BY <2>1, OutcomeType
      <3>2. Complete(o, r, answer[o].value)
        BY <1>2, <2>4 DEF ReadAnswered
      <3>3. (r = "ok" => taken[o]) /\ answer[o].value = IF r = "ok" THEN seen[o] ELSE Null
        BY <1>0, <2>1, <3>1 DEF OpInv, GetInv, ReportInv
      <3> HIDE DEF r
      <3> QED
        BY <2>1, <2>2, <3>1, <3>2, <3>3, CompleteReports
    <2> QED
      BY <2>3, <2>4
  <1>3. ASSUME NEW o \in Ops, CasMatches(o) PROVE Stutter
    BY <1>3 DEF CasMatches, document, outcome, history
  <1>4. ASSUME NEW o \in Ops, CasDiffers(o) PROVE Register!Next
    <2>1. awaits[o] = "GET" /\ doubt[o] = FALSE /\ ~taken[o] /\ Complete(o, "fail", Null)
      BY <1>0, <1>4 DEF CasDiffers, TypeOK, OpInv, GetInv, ReportInv
    <2>2. doubt' = [doubt EXCEPT ![o] = FALSE]
      BY <1>0, <1>4, <2>1 DEF CasDiffers, TypeOK
    <2> QED
      BY <2>1, <2>2, CompleteReports
  <1>5. ASSUME NEW o \in Ops, ChangeAnswered(o) PROVE Register!Next
    <2> DEFINE s == answer[o].status \in {408, 500}
               r == Outcome(call[o].f, answer[o].status)
    <2>1. /\ awaits[o] \in {"POST", "PATCH"} /\ answer[o].status \in Errors \cup {200}
          /\ Complete(o, r, Null)
      BY <1>0, <1>5 DEF ChangeAnswered, TypeOK
    <2>2. doubt' = [doubt EXCEPT ![o] = s]
      BY <1>5, Zenon DEF ChangeAnswered
    <2>3. call[o].f # "read" /\ seen[o] = Null
      BY <1>0, <2>1 DEF OpInv, ChangeInv, ReportInv
    <2>4. /\ r \in {"ok", "fail", "info"} /\ (r = "ok" <=> answer[o].status = 200)
          /\ (answer[o].status \in {404, 408, 409, 500} => r = "fail")
      BY <2>1, OutcomeType
    <2>5. (r = "ok" => taken[o]) /\ (r = "fail" /\ ~s => ~taken[o])
      BY <1>0, <2>1, <2>4 DEF OpInv, ChangeInv, Errors
    <2>6. s => r = "fail"
      BY <2>4
    <2>7. s \in BOOLEAN
      OBVIOUS
    <2>8. r \in {"ok", "fail", "info"} /\ awaits[o] # "none" /\ Complete(o, r, Null)
      BY <2>1, <2>4
    <2> HIDE DEF s, r
    <2>9. Null = IF r = "ok" THEN seen[o] ELSE Null
      BY <2>3
    <2>10. (r = "ok" => taken[o]) /\ (call[o].f # "read" /\ r = "fail" /\ ~s => ~taken[o])
      BY <2>5
    <2> QED
      BY <2>2, <2>6, <2>7, <2>8, <2>9, <2>10, CompleteReports
  <1>6. ASSUME NEW o \in Ops, TimesOut(o) PROVE Register!Next
    <2> DEFINE r == TimeoutOutcome(call[o].f)
    <2>1. awaits[o] # "none" /\ Complete(o, r, Null)
      BY <1>6 DEF TimesOut
    <2>2. r \in {"fail", "info"} /\ (r = "fail" => call[o].f = "read")
      BY DEF TimeoutOutcome
    <2>3. doubt[o] = FALSE
      BY <1>0, <2>1 DEF TypeOK, OpInv, ReportInv
    <2>4. doubt' = [doubt EXCEPT ![o] = FALSE]
      BY <1>0, <1>6, <2>3 DEF TimesOut, TypeOK
    <2> HIDE DEF r
    <2> QED
      BY <2>1, <2>2, <2>4, CompleteReports
  <1>7. ASSUME NEW o \in Ops, ConnectionFails(o) PROVE Register!Next
    <2>1. awaits[o] # "none" /\ Complete(o, "info", Null)
      BY <1>7 DEF ConnectionFails
    <2>2. doubt[o] = FALSE
      BY <1>0, <2>1 DEF TypeOK, OpInv, ReportInv
    <2>3. doubt' = [doubt EXCEPT ![o] = FALSE]
      BY <1>0, <1>7, <2>2 DEF ConnectionFails, TypeOK
    <2> QED
      BY <2>1, <2>3, CompleteReports
  <1>8. ASSUME NEW o \in Ops, ServeGet(o) PROVE Register!Next \/ Stutter
    <2>1. CASE call[o].f = "read"
      <3>1. /\ ~taken[o]
            /\ seen' = [seen EXCEPT ![o] = value]
            /\ taken' = [taken EXCEPT ![o] = TRUE]
        BY <1>0, <1>8, <2>1 DEF ServeGet, OpInv, RequestInv
      <3>2. UNCHANGED <<value, call, report, result, doubt>>
        BY <1>8 DEF ServeGet, document, outcome
      <3>3. Register!Read(o)
        BY <2>1, <3>1, <3>2 DEF Register!Read
      <3> QED
        BY <3>3 DEF Register!Next
    <2>2. CASE call[o].f # "read"
      BY <1>8, <2>2 DEF ServeGet, document, outcome, history
    <2> QED
      BY <2>1, <2>2
  <1>9. ASSUME NEW o \in Ops, Perform(o) PROVE Register!Next
    <2>1. /\ call[o].f \in {"write", "cas"}
          /\ call[o].f = "cas" => value = call[o].old
          /\ ~taken[o]
      BY <1>0, <1>9 DEF Perform, Applies, OpInv, RequestInv
    <2>2. told[o] \in {"none", "info"}
      BY <1>0, <1>9, <2>1 DEF Perform, Applies, OpInv, RequestInv, ReportInv, Changes, told, TypeOK
    <2>3. Register!Change(o)
      BY <1>9, <2>1, <2>2 DEF Perform, Register!Change, outcome, told
    <2> QED
      BY <2>3 DEF Register!Next
  <1>10. ASSUME NEW o \in Ops, Refuse(o) PROVE Stutter
    BY <1>10 DEF Refuse, document, outcome, history
  <1>11. ASSUME NEW o \in Ops, Fail(o) PROVE Stutter
    BY <1>11 DEF Fail, document, outcome, history
  <1>12. CASE UNCHANGED vars
    BY <1>12 DEF vars, document, outcome, history, Register!vars
  <1> QED
    BY <1>s, <1>1, <1>2, <1>3, <1>4, <1>5, <1>6, <1>7, <1>8, <1>9, <1>10, <1>11, <1>12
    DEF Next

(***************************************************************************)
(* The test's history, with doubtful failures read as "info", is one of an *)
(* atomic compare-and-set register.                                        *)
(***************************************************************************)
THEOREM HistoryIsAtomic == Spec => ImplementsRegister
  <1>1. Init => Register!Init
    BY DEF Init, Register!Init, Register!NoCall, NoCall
  <1> QED
    BY <1>1, InvAlways, StepImplements, PTL DEF Spec, ImplementsRegister, Register!Spec

=============================================================================
