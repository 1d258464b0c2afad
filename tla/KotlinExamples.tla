---------------------------- MODULE KotlinExamples ----------------------------
(***************************************************************************)
(* The Kotlin examples: the documents of KotlinExampleService.kt, of which *)
(* only the counter matters here, and ExampleAggregatorService.kt, whose   *)
(* GET sums them up and, for as long as its query takes, keeps the thread  *)
(* that runs it (runBlocking), one of those that also run the query and    *)
(* every other handler of the host.                                        *)
(*                                                                         *)
(* All documents here have names that begin with "a" and are fewer than    *)
(* the query's limit.  Requests that a handler rejects change nothing and  *)
(* are not steps.  The index, the query and the expiry of an operation are *)
(* the framework's.                                                        *)
(***************************************************************************)
EXTENDS Integers, FiniteSets, FiniteSetsExt

CONSTANTS
  Docs,      \* the documents of the example service
  Gets,      \* the GETs of the aggregator
  Counters,  \* the counters that clients send
  MaxInt,    \* Int.MAX_VALUE
  Threads,   \* the number of threads of the host
  MaxPuts,   \* bound: PUTs and deletions
  None       \* null; no document

ASSUME KotlinAssumption ==
  /\ IsFiniteSet(Docs)
  /\ Counters \subseteq Int /\ None \notin Int
  /\ None \notin [counter : Counters \cup {None}]
  /\ MaxInt \in Nat /\ Threads \in Nat \ {0} /\ MaxPuts \in Nat

VARIABLES
  doc,     \* doc[d]: the state of d
  at,      \* at[g]: "idle", "waiting", "answered" or "errored" (in runBlocking), "done", "failed"
  result,  \* result[g]: the documents in the query's answer
  total,   \* total[g]: the totalCount that g was answered
  puts,    \* the number of PUTs and deletions
  sent,    \* history: sent[d]: the counters that d was sent since one update had none
  told     \* history: told[g]: `sent` when g's query ran

history == <<sent, told>>
vars == <<doc, at, result, total, puts, history>>

State == [counter : Counters \cup {None}]

\* A handler runs on a thread that no GET keeps.
ThreadFree ==
  Cardinality({g \in Gets : at[g] \in {"waiting", "answered", "errored"}}) < Threads

Init ==
  /\ doc = [d \in Docs |-> None]
  /\ at = [g \in Gets |-> "idle"]
  /\ result = [g \in Gets |-> << >>]
  /\ total = [g \in Gets |-> None]
  /\ puts = 0
  /\ sent = [d \in Docs |-> {}]
  /\ told = [g \in Gets |-> sent]

-----------------------------------------------------------------------------
(* KotlinExampleService                                                    *)

\* A POST to the factory; handleStart takes the state as it is.
Create(d) ==
  /\ ThreadFree
  /\ doc[d] = None
  /\ \E s \in State :
       /\ doc' = [doc EXCEPT ![d] = s]
       /\ sent' = [sent EXCEPT ![d] = {s.counter} \ {None}]
  /\ UNCHANGED <<at, result, total, puts, told>>

\* Mutant: the counter is taken from the body, late or not.
Replaced(body, current) == body

\* The counter that handlePut stores.
UpdateCounter(body, current) ==
  IF body.counter = None \/ current.counter = None THEN body
  ELSE [body EXCEPT !.counter = Max({@, current.counter})]

HandlePut(d) ==
  /\ ThreadFree
  /\ doc[d] # None
  /\ puts < MaxPuts
  /\ \E body \in State :
       /\ doc' = [doc EXCEPT ![d] = UpdateCounter(body, @)]
       /\ sent' = [sent EXCEPT ![d] = IF body.counter = None THEN {} ELSE @ \cup {body.counter}]
  /\ puts' = puts + 1
  /\ UNCHANGED <<at, result, total, told>>

HandleDelete(d) ==
  /\ ThreadFree
  /\ doc[d] # None
  /\ puts < MaxPuts
  /\ doc' = [doc EXCEPT ![d] = None]
  /\ sent' = [sent EXCEPT ![d] = {}]
  /\ puts' = puts + 1
  /\ UNCHANGED <<at, result, total, told>>

-----------------------------------------------------------------------------
(* ExampleAggregatorService                                                *)

\* handleGet, up to sendAsync: the thread now waits for the query.
HandleGet(g) ==
  /\ ThreadFree
  /\ at[g] = "idle"
  /\ at' = [at EXCEPT ![g] = "waiting"]
  /\ UNCHANGED <<doc, result, total, puts, history>>

\* The query task runs, on a thread of its own.
Query(g) ==
  /\ ThreadFree
  /\ at[g] = "waiting"
  /\ at' = [at EXCEPT ![g] = "answered"]
  /\ result' = [result EXCEPT ![g] = [d \in {e \in Docs : doc[e] # None} |-> doc[d].counter]]
  /\ told' = [told EXCEPT ![g] = sent]
  /\ UNCHANGED <<doc, total, puts, sent>>

\* The query fails, or is not answered in time.
QueryFails(g) ==
  /\ at[g] = "waiting"
  /\ at' = [at EXCEPT ![g] = "errored"]
  /\ UNCHANGED <<doc, result, total, puts, history>>

\* asInt: the lower half of a Long.
AsInt(n) == ((n + MaxInt + 1) % (2 * (MaxInt + 1))) - (MaxInt + 1)

\* Mutant: the last counter, instead of the sum of all.
LastCounter(counters) ==
  IF DOMAIN counters = {} THEN 0 ELSE counters[CHOOSE d \in DOMAIN counters : TRUE]

TotalCount(counters) == MapThenSumSet(LAMBDA d : counters[d], DOMAIN counters)

AsInts(counters) == [d \in DOMAIN counters |-> AsInt(counters[d])]

\* Mutant: the exception is lost, and the GET completed without a body.
AggregateQuietly(g) ==
  /\ at[g] = "answered"
  /\ at' = [at EXCEPT ![g] = "done"]
  /\ IF \E d \in DOMAIN result[g] : result[g][d] = None
       THEN UNCHANGED total
       ELSE total' = [total EXCEPT ![g] = TotalCount(AsInts(result[g]))]
  /\ UNCHANGED <<doc, result, puts, history>>

\* The rest of handleGet: a document without a counter makes it throw.  The
\* documents of the answer are JSON, read by asInt, or of the service's class.
Aggregate(g) ==
  /\ at[g] = "answered"
  /\ IF \E d \in DOMAIN result[g] : result[g][d] = None
       THEN at' = [at EXCEPT ![g] = "failed"] /\ UNCHANGED total
       ELSE /\ at' = [at EXCEPT ![g] = "done"]
            /\ \E counters \in {result[g], AsInts(result[g])} :
                 total' = [total EXCEPT ![g] = TotalCount(counters)]
  /\ UNCHANGED <<doc, result, puts, history>>

\* Mutant: an error does not resume the coroutine.
NotResumed(g) == FALSE /\ UNCHANGED vars

\* sendAsync throws what the query's completion was handed.
ResumeWithException(g) ==
  /\ at[g] = "errored"
  /\ at' = [at EXCEPT ![g] = "failed"]
  /\ UNCHANGED <<doc, result, total, puts, history>>

-----------------------------------------------------------------------------
Next ==
  \/ \E d \in Docs : Create(d) \/ HandlePut(d) \/ HandleDelete(d)
  \/ \E g \in Gets :
       HandleGet(g) \/ Query(g) \/ QueryFails(g) \/ Aggregate(g) \/ ResumeWithException(g)

(***************************************************************************)
(* A thread that is woken runs on, and an operation that is not answered   *)
(* expires.  That the query runs is not assumed: there may be no thread.   *)
(***************************************************************************)
Fairness ==
  \A g \in Gets :
    WF_vars(QueryFails(g)) /\ WF_vars(Aggregate(g)) /\ WF_vars(ResumeWithException(g))

Spec == Init /\ [][Next]_vars /\ Fairness

-----------------------------------------------------------------------------
(***************************************************************************)
(* Type invariant.                                                         *)
(***************************************************************************)
TypeOK ==
  /\ doc \in [Docs -> State \cup {None}]
  /\ at \in [Gets -> {"idle", "waiting", "answered", "errored", "done", "failed"}]
  /\ \A g \in Gets : /\ DOMAIN result[g] \subseteq Docs
                     /\ \A d \in DOMAIN result[g] : result[g][d] \in Counters \cup {None}
                     /\ total[g] \in Int \cup {None}
                     /\ total[g] # None <=> at[g] = "done"
  /\ puts \in 0 .. MaxPuts
  /\ sent \in [Docs -> SUBSET Counters]
  /\ told \in [Gets -> [Docs -> SUBSET Counters]]

(***************************************************************************)
(* Updates that arrive out of order, or twice, leave the highest counter:  *)
(* the comment at KotlinExampleService.kt:64.  It holds from one update    *)
(* without a counter to the next: such a PUT clears the counter, and a     *)
(* late one that follows it is not told to be late.                        *)
(***************************************************************************)
CounterIsHighest ==
  \A d \in Docs : doc[d] # None =>
    doc[d].counter = IF sent[d] = {} THEN None ELSE Max(sent[d])

(***************************************************************************)
(* An answered GET adds up, over all documents that had been sent a        *)
(* counter at one moment, the highest they had been sent, and misses none; *)
(* if each fits into an Int: asInt cuts off what does not                  *)
(* (ExampleAggregatorService.kt:76).                                       *)
(***************************************************************************)
TotalIsOfTheHighest ==
  \A g \in Gets :
    (at[g] = "done" /\ \A d \in Docs : told[g][d] \subseteq -MaxInt .. MaxInt) =>
      LET counted == {d \in Docs : told[g][d] # {}}
          highest == [d \in counted |-> Max(told[g][d])]
      IN  total[g] = MapThenSumSet(LAMBDA d : highest[d], counted)

(***************************************************************************)
(* Every GET that has begun is answered, also when all threads are kept by *)
(* GETs whose queries find no thread to run on: their operations expire.   *)
(***************************************************************************)
EveryGetAnswered ==
  \A g \in Gets : at[g] = "waiting" ~> at[g] \in {"done", "failed"}

=============================================================================
