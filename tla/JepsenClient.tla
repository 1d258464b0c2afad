---------------------------- MODULE JepsenClient ----------------------------
(***************************************************************************)
(* invoke! of xenon.clj and the calls of xenonclient.clj below it: reads,  *)
(* writes and compare-and-sets of one document of the example service, and *)
(* what the test reports of each.                                          *)
(*                                                                         *)
(* The service is outside the repository and taken to be right: it handles *)
(* each request once, at any later moment, or never.  It may answer 408 or *)
(* 500 before it is done with a change, and no answer needs to arrive.     *)
(* Operations share nothing but the document, so those of one process and  *)
(* of several are treated alike.                                           *)
(***************************************************************************)
EXTENDS Integers

CONSTANTS
  Ops,      \* the operations that are invoked
  Values,   \* the values they write
  Null      \* Clojure's nil

ASSUME JepsenAssumption == Null \notin Values

VARIABLES
  value,    \* the document's name field, Null before the document exists
  version,  \* its documentVersion
  call,     \* call[o]: the function and arguments of o
  awaits,   \* awaits[o]: the request whose answer o's thread waits for
  request,  \* request[o]: o's request, until the service is done with it
  answer,   \* answer[o]: the answer on its way to o
  report,   \* report[o]: the :type of o's completion
  result,   \* result[o]: the value of a read
  doubt,    \* history: o, a change, was reported failed for a 408 or a 500
  taken,    \* history: o took effect: a change was made, or a read looked
  seen      \* history: what the service found for o, a read, when it looked

document == <<value, version>>
wire == <<request, answer>>
outcome == <<report, result, doubt>>
history == <<taken, seen>>
vars == <<document, call, awaits, wire, outcome, history>>

Verbs == {"GET", "POST", "PATCH"}
Changes == {"write", "cas"}
Errors == {400, 404, 408, 409, 500}

NoCall == [f |-> "none", old |-> Null, new |-> Null]
Reads == [f : {"read"}, old : {Null}, new : {Null}]
Writes == [f : {"write"}, old : {Null}, new : Values]
Swaps == [f : {"cas"}, old : Values, new : Values]
Calls == Reads \cup Writes \cup Swaps

NoRequest == [verb |-> "none", version |-> 0, answered |-> FALSE]
Get == [verb |-> "GET", version |-> 0, answered |-> FALSE]
\* Mutant: reset! puts, as to a document that exists.
Put == [verb |-> "PUT", version |-> 0, answered |-> FALSE]
Post == [verb |-> "POST", version |-> 0, answered |-> FALSE]
\* Mutant: a PATCH that does not name the version it read is unconditional, like a POST.
Unconditional(ver) == Post
StrictPatch(ver) == [verb |-> "PATCH", version |-> ver, answered |-> FALSE]

NoAnswer == [status |-> 0, value |-> Null, version |-> 0]
Answer(status) == [status |-> status, value |-> Null, version |-> 0]

(***************************************************************************)
(* Type invariant; and an operation is reported once, when it no longer    *)
(* waits for an answer.                                                    *)
(***************************************************************************)
TypeOK ==
  /\ value \in Values \cup {Null}
  /\ version \in Nat
  /\ call \in [Ops -> Calls \cup {NoCall}]
  /\ awaits \in [Ops -> Verbs \cup {"none"}]
  /\ request \in [Ops -> [verb : Verbs \cup {"none"}, version : Nat, answered : BOOLEAN]]
  /\ answer \in [Ops -> [status : Errors \cup {0, 200},
                         value : Values \cup {Null}, version : Nat]]
  /\ report \in [Ops -> {"none", "ok", "fail", "info"}]
  /\ result \in [Ops -> Values \cup {Null}]
  /\ doubt \in [Ops -> BOOLEAN]
  /\ taken \in [Ops -> BOOLEAN]
  /\ seen \in [Ops -> Values \cup {Null}]
  /\ \A o \in Ops : awaits[o] # "none" <=> call[o] # NoCall /\ report[o] = "none"

Init ==
  /\ value = Null
  /\ version = 0
  /\ call = [o \in Ops |-> NoCall]
  /\ awaits = [o \in Ops |-> "none"]
  /\ request = [o \in Ops |-> NoRequest]
  /\ answer = [o \in Ops |-> NoAnswer]
  /\ report = [o \in Ops |-> "none"]
  /\ result = [o \in Ops |-> Null]
  /\ doubt = [o \in Ops |-> FALSE]
  /\ taken = [o \in Ops |-> FALSE]
  /\ seen = [o \in Ops |-> Null]

-----------------------------------------------------------------------------
(* The client.                                                             *)

\* o's thread sends q and waits for its answer.
Send(o, q) ==
  /\ request' = [request EXCEPT ![o] = q]
  /\ awaits' = [awaits EXCEPT ![o] = q.verb]

\* invoke!: a read or a compare-and-set first gets the document, a write posts it.
Invoke(o) ==
  /\ call[o] = NoCall
  /\ \E c \in Calls :
       /\ call' = [call EXCEPT ![o] = c]
       /\ Send(o, IF c.f = "write" THEN Post ELSE Get)
  /\ UNCHANGED <<document, answer, outcome, history>>

Complete(o, r, v) ==
  /\ report' = [report EXCEPT ![o] = r]
  /\ result' = [result EXCEPT ![o] = v]
  /\ awaits' = [awaits EXCEPT ![o] = "none"]
  /\ UNCHANGED <<document, call, history>>

\* Mutant: a read takes every error for a document that does not exist, as get takes 404.
MissingIfUnanswered(f, status) ==
  IF f = "read" \/ status = 200 THEN "ok"
  ELSE IF f = "write" /\ status = 400 THEN "info" ELSE "fail"

\* The catch clauses of invoke! and, for 400, of cas!; any other exception
\* leaves invoke!, and Jepsen records an :info.
Outcome(f, status) ==
  CASE status = 200 -> "ok"
    [] status \in {404, 408, 409, 500} -> "fail"
    [] status = 400 -> IF f = "cas" THEN "fail" ELSE "info"

\* get: a document that does not exist reads as nil.
ReadAnswered(o) ==
  /\ call[o].f = "read"
  /\ awaits[o] = "GET"
  /\ answer[o].status # 0
  /\ answer' = [answer EXCEPT ![o] = NoAnswer]
  /\ IF answer[o].status = 404
       THEN Complete(o, "ok", Null)
       ELSE Complete(o, Outcome("read", answer[o].status), answer[o].value)
  /\ UNCHANGED <<request, doubt>>

\* cas!: the document is as expected, and is patched on condition of its version.
CasMatches(o) ==
  /\ call[o].f = "cas"
  /\ awaits[o] = "GET"
  /\ answer[o].status = 200
  /\ answer[o].value = call[o].old
  /\ answer' = [answer EXCEPT ![o] = NoAnswer]
  /\ Send(o, StrictPatch(answer[o].version))
  /\ UNCHANGED <<document, call, outcome, history>>

\* cas!: it is not, does not exist, or could not be read.
CasDiffers(o) ==
  /\ call[o].f = "cas"
  /\ awaits[o] = "GET"
  /\ answer[o].status # 0
  /\ answer[o].status = 200 => answer[o].value # call[o].old
  /\ answer' = [answer EXCEPT ![o] = NoAnswer]
  /\ Complete(o, "fail", Null)
  /\ UNCHANGED <<request, doubt>>

ChangeAnswered(o) ==
  /\ awaits[o] \in {"POST", "PATCH"}
  /\ answer[o].status # 0
  /\ answer' = [answer EXCEPT ![o] = NoAnswer]
  /\ Complete(o, Outcome(call[o].f, answer[o].status), Null)
  /\ doubt' = [doubt EXCEPT ![o] = answer[o].status \in {408, 500}]
  /\ UNCHANGED request

\* Mutant: the catch clause does not ask for the function.
FailedIfTimedOut(f) == "fail"
TimeoutOutcome(f) == IF f = "read" THEN "fail" ELSE "info"

\* A SocketTimeoutException, at any wait.
TimesOut(o) ==
  /\ awaits[o] # "none"
  /\ Complete(o, TimeoutOutcome(call[o].f), Null)
  /\ UNCHANGED <<wire, doubt>>

\* Any other exception.
ConnectionFails(o) ==
  /\ awaits[o] # "none"
  /\ Complete(o, "info", Null)
  /\ UNCHANGED <<wire, doubt>>

-----------------------------------------------------------------------------
(* The service.                                                            *)

\* The service is done with o's request, and answers a unless it has before.
\* An answer that nobody waits for goes nowhere.
Done(o, a) ==
  /\ request' = [request EXCEPT ![o] = NoRequest]
  /\ answer' = IF request[o].answered \/ awaits[o] = "none"
                 THEN answer ELSE [answer EXCEPT ![o] = a]

ServeGet(o) ==
  /\ request[o].verb = "GET"
  /\ Done(o, IF value = Null THEN Answer(404)
             ELSE [status |-> 200, value |-> value, version |-> version])
  /\ IF call[o].f = "read"
       THEN /\ seen' = [seen EXCEPT ![o] = value]
            /\ taken' = [taken EXCEPT ![o] = TRUE]
       ELSE UNCHANGED history
  /\ UNCHANGED <<document, call, awaits, outcome>>

\* A POST creates or replaces the document, a strict PATCH wants its version.
Applies(o) ==
  \/ request[o].verb = "POST"
  \/ request[o].verb = "PATCH" /\ value # Null /\ version = request[o].version

\* Mutant: an update keeps the version.
SameVersion == version
NextVersion == IF value = Null THEN 0 ELSE version + 1

Perform(o) ==
  /\ Applies(o)
  /\ Done(o, Answer(200))
  /\ value' = call[o].new
  /\ version' = NextVersion
  /\ taken' = [taken EXCEPT ![o] = TRUE]
  /\ UNCHANGED <<call, awaits, outcome, seen>>

\* A change that does not apply, or meets a conflict, is refused for good.
Refuse(o) ==
  /\ request[o].verb \in {"POST", "PATCH"}
  /\ \/ /\ ~Applies(o)
        /\ Done(o, Answer(IF value = Null THEN 404 ELSE 400))
     \/ Done(o, Answer(409))
  /\ UNCHANGED <<document, call, awaits, outcome, history>>

\* 408 or 500: a change may still take effect, or may have, unknown to the answer.
Fail(o) ==
  /\ request[o].verb # "none"
  /\ ~request[o].answered
  /\ awaits[o] # "none"
  /\ \E s \in {408, 500} : answer' = [answer EXCEPT ![o] = Answer(s)]
  /\ request' = [request EXCEPT ![o] = IF @.verb = "GET" THEN NoRequest
                                       ELSE [@ EXCEPT !.answered = TRUE]]
  /\ UNCHANGED <<document, call, awaits, outcome, history>>

-----------------------------------------------------------------------------
Next ==
  \E o \in Ops :
    \/ Invoke(o) \/ ReadAnswered(o) \/ CasMatches(o) \/ CasDiffers(o)
    \/ ChangeAnswered(o) \/ TimesOut(o) \/ ConnectionFails(o)
    \/ ServeGet(o) \/ Perform(o) \/ Refuse(o) \/ Fail(o)

Spec == Init /\ [][Next]_vars

-----------------------------------------------------------------------------
(***************************************************************************)
(* A write or compare-and-set that is reported failed has not taken effect *)
(* and never will, unless the report rests on a 408 or a 500 (the catch    *)
(* clauses at xenon.clj:132 and :140), which say nothing of that.          *)
(***************************************************************************)
FailureIsReliable ==
  \A o \in Ops :
    (call[o].f \in Changes /\ report[o] = "fail" /\ ~doubt[o]) =>
      ~taken[o] /\ request[o].verb = "none"

(***************************************************************************)
(* A change that waits to be applied on condition of a version overwrites  *)
(* nothing but what its cas! read: as long as the version is still the     *)
(* current one, the document holds the value that was expected.            *)
(***************************************************************************)
PatchMeetsWhatItRead ==
  \A o \in Ops :
    (request[o].verb = "PATCH" /\ Applies(o)) => value = call[o].old

(***************************************************************************)
(* The history is one of an atomic compare-and-set register, provided that *)
(* a failure that rests on a 408 or a 500 is read as "info": each change   *)
(* happens at most once, after its call and before an "ok", a successful   *)
(* compare-and-set replaces what it expected though it reads and patches   *)
(* in two calls, and a read that reports a value, or nil, found it in the  *)
(* register at a moment between its call and its report.                   *)
(***************************************************************************)
Register == INSTANCE CasRegister WITH
  report <- [o \in Ops |-> IF doubt[o] THEN "info" ELSE report[o]]
ImplementsRegister == Register!Spec

=============================================================================
