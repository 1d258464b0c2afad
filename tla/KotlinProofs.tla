----------------------------- MODULE KotlinProofs -----------------------------
(***************************************************************************)
(* The counter of the Kotlin example under updates in any order, and the   *)
(* sums of its aggregator, for any documents, counters, GETs, threads and  *)
(* number of updates.                                                      *)
(***************************************************************************)
EXTENDS KotlinExamples, FiniteSetTheorems, WellFoundedInduction, TLAPS

(***************************************************************************)
(* The highest of a set of counters, without the CHOOSE of Max: which is   *)
(* what an update has to compare with to keep it.                          *)
(***************************************************************************)
IsHighest(n, counters) == n \in counters /\ \A m \in counters : m <= n

CounterInv ==
  /\ doc \in [Docs -> State \cup {None}]
  /\ sent \in [Docs -> SUBSET Counters]
  /\ \A d \in Docs :
       IF doc[d] = None THEN sent[d] = {}
       ELSE IF sent[d] = {} THEN doc[d].counter = None
       ELSE IsHighest(doc[d].counter, sent[d])

(***************************************************************************)
(* What the aggregator holds of one document: nothing of one that was not  *)
(* there, or else the counter it showed then.                              *)
(***************************************************************************)
Heard(g, d) ==
  IF d \notin DOMAIN result[g] THEN told[g][d] = {}
  ELSE IF told[g][d] = {} THEN result[g][d] = None
  ELSE IsHighest(result[g][d], told[g][d])

Counted(g) == {d \in Docs : told[g][d] # {}}
HighestOf(g) == [d \in Counted(g) |-> Max(told[g][d])]
Fits(g) == \A d \in Docs : told[g][d] \subseteq -MaxInt .. MaxInt

Results == UNION {[S -> Counters \cup {None}] : S \in SUBSET Docs}

SumOf(g) ==
  /\ at[g] = "answered" => result[g] \in Results /\ \A d \in Docs : Heard(g, d)
  /\ (at[g] = "done" /\ Fits(g)) => total[g] = TotalCount(HighestOf(g))

SumInv ==
  /\ at \in [Gets -> {"idle", "waiting", "answered", "errored", "done", "failed"}]
  /\ result \in [Gets -> Results \cup {<< >>}]
  /\ told \in [Gets -> [Docs -> SUBSET Counters]]
  /\ DOMAIN total = Gets
  /\ \A g \in Gets : SumOf(g)

-----------------------------------------------------------------------------
(***************************************************************************)
(* Max finds the highest counter, where there is one.                      *)
(***************************************************************************)
LEMMA MaxIsHighest ==
  ASSUME NEW counters \in SUBSET Int, NEW n, IsHighest(n, counters)
  PROVE  Max(counters) = n
<1>1. n \in Int /\ \E m \in counters : \A y \in counters : m >= y
  BY DEF IsHighest
<1>2. Max(counters) \in counters /\ \A y \in counters : Max(counters) >= y
  BY <1>1 DEF Max
<1>3. Max(counters) \in Int /\ Max(counters) <= n /\ n <= Max(counters)
  BY <1>1, <1>2 DEF IsHighest
<1> QED BY <1>1, <1>3

(***************************************************************************)
(* What handlePut stores is the highest counter of those before it and its *)
(* own; or, after one without a counter, its own.                          *)
(***************************************************************************)
LEMMA UpdateKeepsHighest ==
  ASSUME NEW body \in State, NEW current \in State, NEW counters \in SUBSET Counters,
         IF counters = {} THEN current.counter = None ELSE IsHighest(current.counter, counters)
  PROVE  /\ UpdateCounter(body, current) \in State
         /\ body.counter = None => UpdateCounter(body, current).counter = None
         /\ body.counter # None =>
              IsHighest(UpdateCounter(body, current).counter, counters \cup {body.counter})
<1>1. /\ body.counter \in Counters \cup {None} /\ current.counter \in Counters \cup {None}
      /\ Counters \subseteq Int /\ None \notin Counters
  BY KotlinAssumption DEF State
<1>2. CASE body.counter = None \/ current.counter = None
  <2>1. UpdateCounter(body, current) = body
    BY <1>2 DEF UpdateCounter
  <2>2. current.counter = None => counters = {}
    BY <1>1 DEF IsHighest
  <2> QED BY <1>1, <1>2, <2>1, <2>2 DEF IsHighest
<1>3. CASE body.counter # None /\ current.counter # None
  <2> DEFINE b == body.counter
             c == current.counter
             top == Max({b, c})
  <2>1. b \in Int /\ c \in Int /\ counters # {} /\ IsHighest(c, counters)
    BY <1>1, <1>3
  <2>2. top = IF b >= c THEN b ELSE c
    <3>1. IsHighest(IF b >= c THEN b ELSE c, {b, c})
      BY <2>1 DEF IsHighest
    <3> QED BY <2>1, <3>1, MaxIsHighest
  <2>3. UpdateCounter(body, current) = [body EXCEPT !.counter = top]
    BY <1>3 DEF UpdateCounter
  <2>4. UpdateCounter(body, current).counter = top /\ UpdateCounter(body, current) \in State
    BY <1>1, <1>3, <2>2, <2>3 DEF State
  <2>5. \A m \in counters : m \in Int
    BY <1>1
  <2>6. IsHighest(top, counters \cup {b})
    BY <2>1, <2>2, <2>5 DEF IsHighest
  <2> QED BY <1>3, <2>4, <2>6
<1> QED BY <1>2, <1>3

(***************************************************************************)
(* The counter is None or the highest that was sent, in every state that   *)
(* can be reached.                                                         *)
(***************************************************************************)
LEMMA CounterAlways == Spec => []CounterInv
<1>1. Init => CounterInv
  BY DEF Init, CounterInv, State
<1>2. CounterInv /\ [Next]_vars => CounterInv'
  <2> SUFFICES ASSUME CounterInv, [Next]_vars PROVE CounterInv'
    OBVIOUS
  <2>1. CASE UNCHANGED <<doc, sent>>
    BY <2>1 DEF CounterInv
  <2>2. ASSUME NEW d \in Docs, Create(d) PROVE CounterInv'
    <3>1. PICK s \in State : /\ doc' = [doc EXCEPT ![d] = s]
                             /\ sent' = [sent EXCEPT ![d] = {s.counter} \ {None}]
      BY <2>2 DEF Create
    <3>2. s.counter \in Counters \cup {None} /\ Counters \subseteq Int
      BY KotlinAssumption DEF State
    <3>3. s # None
      BY KotlinAssumption DEF State
    <3> QED BY <3>1, <3>2, <3>3 DEF CounterInv, IsHighest
  <2>3. ASSUME NEW d \in Docs, HandlePut(d) PROVE CounterInv'
    <3>1. PICK body \in State :
            /\ doc' = [doc EXCEPT ![d] = UpdateCounter(body, doc[d])]
            /\ sent' = [sent EXCEPT ![d] = IF body.counter = None THEN {}
                                           ELSE sent[d] \cup {body.counter}]
      BY <2>3 DEF HandlePut
    <3>2. /\ UpdateCounter(body, doc[d]) \in State
          /\ body.counter = None => UpdateCounter(body, doc[d]).counter = None
          /\ body.counter # None =>
               IsHighest(UpdateCounter(body, doc[d]).counter, sent[d] \cup {body.counter})
      <4>1. doc[d] # None /\ doc[d] \in State /\ sent[d] \in SUBSET Counters
        BY <2>3 DEF HandlePut, CounterInv
      <4>2. IF sent[d] = {} THEN doc[d].counter = None ELSE IsHighest(doc[d].counter, sent[d])
        BY <4>1 DEF CounterInv
      <4> QED BY <4>1, <4>2, UpdateKeepsHighest
    <3>3. body.counter \in Counters \cup {None}
      BY DEF State
    <3> DEFINE new == UpdateCounter(body, doc[d])
               all == IF body.counter = None THEN {} ELSE sent[d] \cup {body.counter}
    <3>4. /\ all \in SUBSET Counters
          /\ IF all = {} THEN new.counter = None ELSE IsHighest(new.counter, all)
      BY <3>2, <3>3 DEF CounterInv
    <3>5. doc' = [doc EXCEPT ![d] = new] /\ sent' = [sent EXCEPT ![d] = all] /\ new \in State
      BY <3>1, <3>2
    <3>6. new # None
      BY <3>5, KotlinAssumption DEF State
    <3> HIDE DEF new, all
    <3> QED BY <3>4, <3>5, <3>6 DEF CounterInv
  <2>4. ASSUME NEW d \in Docs, HandleDelete(d) PROVE CounterInv'
    BY <2>4 DEF HandleDelete, CounterInv
  <2>5. ASSUME NEW g \in Gets,
               \/ HandleGet(g) \/ Query(g) \/ QueryFails(g) \/ Aggregate(g)
               \/ ResumeWithException(g)
        PROVE  UNCHANGED <<doc, sent>>
    BY <2>5 DEF HandleGet, Query, QueryFails, Aggregate, ResumeWithException, history
  <2>6. CASE UNCHANGED vars
    BY <2>1, <2>6 DEF vars, history
  <2> QED BY <2>1, <2>2, <2>3, <2>4, <2>5, <2>6 DEF Next
<1> QED BY <1>1, <1>2, PTL DEF Spec

(***************************************************************************)
(* Updates in any order leave the highest counter sent since the last one  *)
(* that had none.                                                          *)
(***************************************************************************)
THEOREM CounterOnlyUp == Spec => []CounterIsHighest
<1>1. CounterInv => CounterIsHighest
  <2> SUFFICES ASSUME CounterInv, NEW d \in Docs, doc[d] # None
      PROVE  doc[d].counter = IF sent[d] = {} THEN None ELSE Max(sent[d])
    BY DEF CounterIsHighest
  <2>1. sent[d] \in SUBSET Int
    BY KotlinAssumption DEF CounterInv
  <2> QED BY <2>1, MaxIsHighest DEF CounterInv
<1> QED BY <1>1, CounterAlways, PTL

-----------------------------------------------------------------------------
(***************************************************************************)
(* A counter that fits into an Int is not changed by asInt.                *)
(***************************************************************************)
LEMMA AsIntKeeps == ASSUME NEW n \in -MaxInt .. MaxInt PROVE AsInt(n) = n
<1>1. n \in Int /\ MaxInt \in Int /\ MaxInt >= 0
  BY KotlinAssumption
<1>2. ASSUME NEW a \in Int, NEW m \in Int, m > 0, 0 <= a, a < m PROVE a % m = a
  BY <1>2
<1>3. (n + MaxInt + 1) % (2 * (MaxInt + 1)) = n + MaxInt + 1
  <2>1. n + MaxInt + 1 \in Int /\ 2 * (MaxInt + 1) \in Int
    BY <1>1
  <2>2. /\ 0 <= n + MaxInt + 1 /\ n + MaxInt + 1 < 2 * (MaxInt + 1)
        /\ 2 * (MaxInt + 1) > 0
    BY <1>1
  <2> QED BY <1>2, <2>1, <2>2
<1> QED BY <1>1, <1>3 DEF AsInt

(***************************************************************************)
(* The total is the sum of a function's values.                            *)
(***************************************************************************)
LEMMA TotalIsSum ==
  ASSUME NEW f, NEW S, S = DOMAIN f
  PROVE  TotalCount(f) = MapThenSumSet(LAMBDA d : f[d], S)
BY DEF TotalCount

(***************************************************************************)
(* An answer without gaps that fits is, read by asInt or not, the highest  *)
(* counter of every document that was sent one.                            *)
(***************************************************************************)
LEMMA ResultIsHighest ==
  ASSUME NEW g \in Gets, result[g] \in Results, \A d \in Docs : Heard(g, d),
         told[g] \in [Docs -> SUBSET Counters], Fits(g),
         \A d \in DOMAIN result[g] : result[g][d] # None
  PROVE  result[g] = HighestOf(g) /\ AsInts(result[g]) = HighestOf(g)
<1>1. PICK S \in SUBSET Docs : result[g] \in [S -> Counters \cup {None}]
  BY DEF Results
<1>2. \A d \in Docs : told[g][d] \in SUBSET Int
  BY KotlinAssumption
<1>3. S = Counted(g)
  BY <1>1 DEF Heard, Counted
<1>4. ASSUME NEW d \in S
      PROVE  /\ result[g][d] = Max(told[g][d])
             /\ result[g][d] \in -MaxInt .. MaxInt
  <2>1. IsHighest(result[g][d], told[g][d])
    BY <1>1, <1>4 DEF Heard
  <2>2. Max(told[g][d]) = result[g][d]
    BY <1>2, <2>1, MaxIsHighest
  <2> QED BY <2>1, <2>2 DEF IsHighest, Fits
<1>5. result[g] = HighestOf(g)
  BY <1>1, <1>3, <1>4 DEF HighestOf
<1>6. AsInts(result[g]) = result[g]
  <2>1. \A d \in S : AsInt(result[g][d]) = result[g][d]
    BY <1>4, AsIntKeeps
  <2> QED BY <1>1, <2>1 DEF AsInts
<1> QED BY <1>5, <1>6

(***************************************************************************)
(* A GET that a step does not touch keeps what it has.                     *)
(***************************************************************************)
LEMMA SumStays ==
  ASSUME SumInv, NEW h \in Gets,
         at'[h] \in {"answered", "done"} => at'[h] = at[h],
         result'[h] = result[h], told'[h] = told[h], total'[h] = total[h]
  PROVE  SumOf(h)'
<1>1. SumOf(h)
  BY DEF SumInv
<1>2. CASE at'[h] = "answered"
  BY <1>1, <1>2 DEF SumOf, Heard
<1>3. CASE at'[h] = "done"
  <2>1. HighestOf(h)' = HighestOf(h) /\ Fits(h)' = Fits(h)
    BY DEF HighestOf, Counted, Fits
  <2> QED BY <1>1, <1>3, <2>1 DEF SumOf
<1> QED BY <1>2, <1>3 DEF SumOf

(***************************************************************************)
(* A query hears of every document what the document shows.                *)
(***************************************************************************)
LEMMA QueryHears ==
  ASSUME CounterInv, SumInv, NEW g \in Gets, Query(g)
  PROVE  SumInv'
<1> DEFINE there == {e \in Docs : doc[e] # None}
           found == [d \in there |-> doc[d].counter]
<1>1. /\ at' = [at EXCEPT ![g] = "answered"]
      /\ result' = [result EXCEPT ![g] = found]
      /\ told' = [told EXCEPT ![g] = sent]
      /\ total' = total
  BY DEF Query
<1>2. found \in Results
  <2>1. \A d \in there : doc[d].counter \in Counters \cup {None}
    BY DEF CounterInv, State
  <2>2. found \in [there -> Counters \cup {None}] /\ there \in SUBSET Docs
    BY <2>1
  <2> HIDE DEF found, there
  <2> QED BY <2>2 DEF Results
<1>3. result'[g] = found /\ told'[g] = sent /\ at'[g] = "answered"
  BY <1>1 DEF SumInv
<1>4. \A d \in Docs : Heard(g, d)'
  <2> SUFFICES ASSUME NEW d \in Docs PROVE Heard(g, d)'
    OBVIOUS
  <2>1. CASE doc[d] = None
    BY <1>3, <2>1 DEF CounterInv, Heard
  <2>2. CASE doc[d] # None
    BY <1>3, <2>2 DEF CounterInv, Heard
  <2> QED BY <2>1, <2>2
<1>5. ASSUME NEW h \in Gets, h # g
      PROVE  /\ at'[h] = at[h] /\ result'[h] = result[h] /\ told'[h] = told[h]
             /\ total'[h] = total[h]
  BY <1>1, <1>5 DEF SumInv
<1>6. sent \in [Docs -> SUBSET Counters]
  BY DEF CounterInv
<1> HIDE DEF found
<1>7. /\ at' \in [Gets -> {"idle", "waiting", "answered", "errored", "done", "failed"}]
      /\ result' \in [Gets -> Results \cup {<< >>}]
      /\ told' \in [Gets -> [Docs -> SUBSET Counters]]
      /\ DOMAIN total' = Gets
  BY <1>1, <1>2, <1>6 DEF SumInv
<1>8. ASSUME NEW h \in Gets PROVE SumOf(h)'
  <2>1. CASE h = g
    BY <1>2, <1>3, <1>4, <2>1 DEF SumOf
  <2>2. CASE h # g
    BY <1>5, <2>2, SumStays
  <2> QED BY <2>1, <2>2
<1> QED BY <1>7, <1>8 DEF SumInv

(***************************************************************************)
(* The rest of handleGet sums up what was heard.                           *)
(***************************************************************************)
LEMMA AggregateSums ==
  ASSUME SumInv, NEW g \in Gets, Aggregate(g)
  PROVE  SumInv'
<1>1. at[g] = "answered" /\ result' = result /\ told' = told
  BY DEF Aggregate, history
<1>2. /\ at' \in [Gets -> {"idle", "waiting", "answered", "errored", "done", "failed"}]
      /\ DOMAIN total' = Gets
      /\ \A h \in Gets : h # g => at'[h] = at[h] /\ total'[h] = total[h]
      /\ at'[g] \in {"done", "failed"}
  BY DEF Aggregate, SumInv
<1>3. (at'[g] = "done" /\ Fits(g)) => total'[g] = TotalCount(HighestOf(g))
  <2> SUFFICES ASSUME at'[g] = "done", Fits(g) PROVE total'[g] = TotalCount(HighestOf(g))
    OBVIOUS
  <2>1. \A d \in DOMAIN result[g] : result[g][d] # None
    BY DEF Aggregate, SumInv
  <2>2. PICK counters \in {result[g], AsInts(result[g])} :
          total' = [total EXCEPT ![g] = TotalCount(counters)]
    BY <2>1 DEF Aggregate
  <2>3. counters = HighestOf(g)
    BY <1>1, <2>1, <2>2, ResultIsHighest DEF SumInv, SumOf
  <2> QED BY <2>2, <2>3 DEF SumInv
<1>4. ASSUME NEW h \in Gets PROVE SumOf(h)'
  <2>1. CASE h = g
    BY <1>1, <1>2, <1>3, <2>1 DEF SumOf, Fits, HighestOf, Counted
  <2>2. CASE h # g
    BY <1>1, <1>2, <2>2, SumStays
  <2> QED BY <2>1, <2>2
<1> QED BY <1>1, <1>2, <1>4 DEF SumInv

(***************************************************************************)
(* What the aggregator holds, and what it has answered, is of one moment.  *)
(***************************************************************************)
LEMMA SumAlways == Spec => []SumInv
<1>1. Init => SumInv
  BY DEF Init, SumInv, SumOf
<1>2. CounterInv /\ SumInv /\ [Next]_vars => SumInv'
  <2> SUFFICES ASSUME CounterInv, SumInv, [Next]_vars PROVE SumInv'
    OBVIOUS
  <2>1. CASE UNCHANGED <<at, result, total, told>>
    BY <2>1, SumStays DEF SumInv
  <2>2. ASSUME NEW d \in Docs, Create(d) \/ HandlePut(d) \/ HandleDelete(d)
        PROVE  UNCHANGED <<at, result, total, told>>
    BY <2>2 DEF Create, HandlePut, HandleDelete
  <2>3. ASSUME NEW g \in Gets, HandleGet(g) \/ QueryFails(g) \/ ResumeWithException(g)
        PROVE  SumInv'
    <3>1. /\ \E place \in {"waiting", "errored", "failed"} : at' = [at EXCEPT ![g] = place]
          /\ UNCHANGED <<result, total, told>>
      BY <2>3 DEF HandleGet, QueryFails, ResumeWithException, history
    <3>2. PICK place \in {"waiting", "errored", "failed"} : at' = [at EXCEPT ![g] = place]
      BY <3>1
    <3>3. at' \in [Gets -> {"idle", "waiting", "answered", "errored", "done", "failed"}]
      BY <3>2 DEF SumInv
    <3>4. ASSUME NEW h \in Gets, at'[h] \in {"answered", "done"} PROVE at[h] = at'[h]
      BY <3>2, <3>4 DEF SumInv
    <3>5. ASSUME NEW h \in Gets PROVE SumOf(h)'
      BY <3>1, <3>4, SumStays
    <3> QED BY <3>1, <3>3, <3>5 DEF SumInv
  <2>4. CASE UNCHANGED vars
    BY <2>1, <2>4 DEF vars, history
  <2> QED BY <2>1, <2>2, <2>3, <2>4, QueryHears, AggregateSums DEF Next
<1> QED BY <1>1, <1>2, CounterAlways, PTL DEF Spec

(***************************************************************************)
(* A GET is answered with the sum of the highest counters of one moment.   *)
(***************************************************************************)
THEOREM TotalsAreOfTheHighest == Spec => []TotalIsOfTheHighest
<1>1. SumInv => TotalIsOfTheHighest
  <2> SUFFICES ASSUME SumInv, NEW g \in Gets, at[g] = "done", Fits(g)
      PROVE  total[g] = MapThenSumSet(LAMBDA d : HighestOf(g)[d], Counted(g))
    BY DEF TotalIsOfTheHighest, Fits, HighestOf, Counted
  <2>1. total[g] = TotalCount(HighestOf(g))
    BY DEF SumInv, SumOf
  <2>2. Counted(g) = DOMAIN HighestOf(g)
    BY DEF HighestOf
  <2> DEFINE highest == HighestOf(g)
             counted == Counted(g)
  <2>3. TotalCount(highest) = MapThenSumSet(LAMBDA d : highest[d], counted)
    <3>1. counted = DOMAIN highest
      BY <2>2
    <3> HIDE DEF highest, counted
    <3> QED BY <3>1, TotalIsSum DEF TotalCount
  <2> QED BY <2>1, <2>3
<1> QED BY <1>1, SumAlways, PTL

-----------------------------------------------------------------------------
(***************************************************************************)
(* Induction over the natural numbers, for a set of them.                  *)
(***************************************************************************)
LEMMA SetInduction ==
  ASSUME NEW S, 0 \in S, \A n \in Nat : n \in S => n + 1 \in S
  PROVE  Nat \subseteq S
<1> DEFINE T == Nat \ S
<1>1. SUFFICES ASSUME T # {} PROVE FALSE
  OBVIOUS
<1>2. PICK x \in T : \A y \in T : ~ (<<y, x>> \in OpToRel(<, Nat))
  <2>1. T \subseteq Nat
    OBVIOUS
  <2>2. IsWellFoundedOn(OpToRel(<, Nat), Nat)
    BY NatLessThanWellFounded
  <2> HIDE DEF T
  <2> QED BY <1>1, <2>1, <2>2, WFMin
<1>3. \A y \in T : ~ (y < x)
  BY <1>2 DEF OpToRel
<1>4. x # 0 /\ x \in Nat
  OBVIOUS
<1>5. x - 1 \in Nat /\ x - 1 < x
  BY <1>4
<1>6. x - 1 \in S
  BY <1>3, <1>5
<1> QED BY <1>4, <1>5, <1>6

(***************************************************************************)
(* The recursive function of MapThenSumSet exists for a finite domain, and *)
(* takes its elements away one at a time: by induction on the cardinality. *)
(***************************************************************************)
LEMMA TotalSteps ==
  ASSUME NEW f, IsFiniteSet(DOMAIN f)
  PROVE  \E iter :
           /\ TotalCount(f) = iter[DOMAIN f]
           /\ \A s \in SUBSET DOMAIN f :
                iter[s] = IF s = {} THEN 0
                          ELSE LET d == CHOOSE x \in s : TRUE IN f[d] + iter[s \ {d}]
<1> DEFINE D == DOMAIN f
           Pick(s) == CHOOSE x \in s : TRUE
           Step(h, s) == IF s = {} THEN 0 ELSE f[Pick(s)] + h[s \ {Pick(s)}]
           Table(h) == [s \in SUBSET D |-> Step(h, s)]
           iter == CHOOSE h : h = Table(h)
           Upto(h, n) == \A s \in SUBSET D : Cardinality(s) <= n => h[s] = Step(h, s)
           S == {n \in Nat : \E h : Upto(h, n)}
<1>1. TotalCount(f) = iter[D]
  BY DEF TotalCount, MapThenSumSet, MapThenFoldSet
<1>2. ASSUME NEW s \in SUBSET D
      PROVE  /\ Cardinality(s) \in Nat
             /\ Cardinality(s) = 0 <=> s = {}
             /\ s # {} => /\ s \ {Pick(s)} \in SUBSET D
                          /\ Cardinality(s \ {Pick(s)}) = Cardinality(s) - 1
             /\ Cardinality(s) <= Cardinality(D)
  <2>1. IsFiniteSet(s) /\ Cardinality(s) <= Cardinality(D)
    BY FS_Subset
  <2>2. s # {} => Pick(s) \in s
    OBVIOUS
  <2> HIDE DEF Pick, D
  <2> QED BY <2>1, <2>2, FS_CardinalityType, FS_EmptySet, FS_RemoveElement
<1> HIDE DEF D, Pick
<1>3. 0 \in S
  <2>1. ASSUME NEW s \in SUBSET D, Cardinality(s) <= 0 PROVE s = {}
    <3>1. Cardinality(s) \in Nat /\ (Cardinality(s) = 0 <=> s = {})
      BY <1>2
    <3> QED BY <2>1, <3>1
  <2>2. Upto([s \in SUBSET D |-> 0], 0)
    BY <2>1
  <2> HIDE DEF Upto
  <2> QED BY <2>2
<1>4. ASSUME NEW n \in S PROVE n + 1 \in S
  <2>1. PICK h : Upto(h, n)
    OBVIOUS
  <2> DEFINE g == Table(h)
  <2>2. ASSUME NEW s \in SUBSET D, Cardinality(s) <= n PROVE g[s] = h[s]
    BY <2>1, <2>2
  <2>3. ASSUME NEW s \in SUBSET D, Cardinality(s) <= n + 1 PROVE g[s] = Step(g, s)
    <3>1. CASE s = {}
      BY <3>1
    <3>2. CASE s # {}
      <4>1. s \ {Pick(s)} \in SUBSET D /\ Cardinality(s \ {Pick(s)}) <= n
        BY <1>2, <2>3, <3>2
      <4>2. g[s \ {Pick(s)}] = h[s \ {Pick(s)}]
        BY <2>2, <4>1
      <4>3. g[s] = f[Pick(s)] + h[s \ {Pick(s)}]
        BY <3>2
      <4> HIDE DEF g
      <4> QED BY <3>2, <4>2, <4>3
    <3> QED BY <3>1, <3>2
  <2>4. Upto(g, n + 1)
    BY <2>3
  <2> HIDE DEF g, Upto
  <2> QED BY <2>4
<1> HIDE DEF S
<1>5. Cardinality(D) \in Nat
  BY <1>2
<1>6. Cardinality(D) \in S
  BY <1>3, <1>4, <1>5, SetInduction
<1>7. \E h : h = Table(h)
  <2>1. PICK h : Upto(h, Cardinality(D))
    BY <1>6 DEF S
  <2>2. \A s \in SUBSET D : h[s] = Step(h, s)
    BY <1>2, <2>1
  <2> DEFINE g == [s \in SUBSET D |-> h[s]]
  <2>3. ASSUME NEW s \in SUBSET D PROVE g[s] = Step(g, s)
    <3>1. s # {} => s \ {Pick(s)} \in SUBSET D
      BY <1>2
    <3> QED BY <2>2, <3>1
  <2>4. g = Table(g)
    BY <2>3
  <2> QED BY <2>4
<1>8. iter = Table(iter)
  BY <1>7
<1> HIDE DEF iter
<1>9. \A s \in SUBSET D : iter[s] = Step(iter, s)
  BY <1>8
<1> QED BY <1>1, <1>9 DEF D, Pick

(***************************************************************************)
(* The sum of finitely many integers is an integer.                        *)
(***************************************************************************)
LEMMA TotalIsInt ==
  ASSUME NEW f, IsFiniteSet(DOMAIN f), \A d \in DOMAIN f : f[d] \in Int
  PROVE  TotalCount(f) \in Int
<1> DEFINE D == DOMAIN f
<1>1. PICK iter :
        /\ TotalCount(f) = iter[D]
        /\ \A s \in SUBSET D :
             iter[s] = IF s = {} THEN 0
                       ELSE LET d == CHOOSE x \in s : TRUE IN f[d] + iter[s \ {d}]
  BY TotalSteps
<1> HIDE DEF D
<1> DEFINE S == {n \in Nat : \A s \in SUBSET D : Cardinality(s) = n => iter[s] \in Int}
<1>2. ASSUME NEW s \in SUBSET D
      PROVE  /\ IsFiniteSet(s) /\ Cardinality(s) \in Nat
             /\ Cardinality(s) = 0 <=> s = {}
  <2>1. IsFiniteSet(s)
    BY FS_Subset DEF D
  <2> QED BY <2>1, FS_CardinalityType, FS_EmptySet
<1>3. 0 \in S
  BY <1>1, <1>2
<1>4. ASSUME NEW n \in S PROVE n + 1 \in S
  <2>1. ASSUME NEW s \in SUBSET D, Cardinality(s) = n + 1 PROVE iter[s] \in Int
    <3> DEFINE d == CHOOSE x \in s : TRUE
    <3>1. s # {} /\ n \in Nat
      BY <1>2, <2>1
    <3>2. d \in s /\ f[d] \in Int
      BY <3>1 DEF D
    <3>3. iter[s] = f[d] + iter[s \ {d}]
      BY <1>1, <3>1
    <3> HIDE DEF d
    <3>4. Cardinality(s \ {d}) = n /\ s \ {d} \in SUBSET D
      BY <1>2, <2>1, <3>1, <3>2, FS_RemoveElement
    <3>5. iter[s \ {d}] \in Int
      BY <3>4
    <3> QED BY <3>2, <3>3, <3>5
  <2> QED BY <2>1
<1> HIDE DEF S
<1>5. Cardinality(D) \in S
  BY <1>2, <1>3, <1>4, SetInduction
<1> QED BY <1>1, <1>5 DEF S

(***************************************************************************)
(* asInt returns an integer.                                               *)
(***************************************************************************)
LEMMA AsIntIsInt == ASSUME NEW n \in Int PROVE AsInt(n) \in Int
<1>1. ASSUME NEW a \in Int, NEW m \in Int, m > 0 PROVE a % m \in Int
  BY <1>1
<1>2. n + MaxInt + 1 \in Int /\ 2 * (MaxInt + 1) \in Int /\ 2 * (MaxInt + 1) > 0
  BY KotlinAssumption
<1>3. (n + MaxInt + 1) % (2 * (MaxInt + 1)) \in Int
  BY <1>1, <1>2
<1> QED BY <1>3, KotlinAssumption DEF AsInt

(***************************************************************************)
(* A total is there exactly when the GET is done, and is an integer.       *)
(***************************************************************************)
TotalInv ==
  /\ puts \in 0 .. MaxPuts
  /\ \A g \in Gets : total[g] \in Int \cup {None} /\ (total[g] # None <=> at[g] = "done")

(***************************************************************************)
(* Aggregate adds up integers, in an answer without gaps.                  *)
(***************************************************************************)
LEMMA AggregateTotals ==
  ASSUME SumInv, NEW g \in Gets, Aggregate(g), at'[g] = "done"
  PROVE  total'[g] \in Int /\ total'[g] # None
<1>1. \A d \in DOMAIN result[g] : result[g][d] # None
  BY DEF Aggregate, SumInv
<1>2. PICK counters \in {result[g], AsInts(result[g])} :
        total' = [total EXCEPT ![g] = TotalCount(counters)]
  BY <1>1 DEF Aggregate
<1>3. PICK S \in SUBSET Docs : result[g] \in [S -> Counters \cup {None}]
  BY DEF Aggregate, SumInv, SumOf, Results
<1>4. DOMAIN counters = S /\ \A d \in S : counters[d] \in Int
  BY <1>1, <1>2, <1>3, AsIntIsInt, KotlinAssumption DEF AsInts
<1>5. IsFiniteSet(S)
  BY FS_Subset, KotlinAssumption
<1>6. TotalCount(counters) \in Int
  BY <1>4, <1>5, TotalIsInt
<1> QED BY <1>2, <1>6, KotlinAssumption DEF SumInv

(***************************************************************************)
(* The invariant holds in every reachable state.                           *)
(***************************************************************************)
LEMMA TotalAlways == Spec => []TotalInv
<1>1. Init => TotalInv
  BY KotlinAssumption DEF Init, TotalInv
<1>2. SumInv /\ TotalInv /\ [Next]_vars => TotalInv'
  <2> SUFFICES ASSUME SumInv, TotalInv, [Next]_vars PROVE TotalInv'
    OBVIOUS
  <2>1. ASSUME NEW d \in Docs, Create(d) \/ HandlePut(d) \/ HandleDelete(d) PROVE TotalInv'
    <3>1. UNCHANGED <<at, total>> /\ puts' \in 0 .. MaxPuts
      BY <2>1, KotlinAssumption DEF Create, HandlePut, HandleDelete, TotalInv
    <3> QED BY <3>1 DEF TotalInv
  <2>2. ASSUME NEW g \in Gets,
               HandleGet(g) \/ Query(g) \/ QueryFails(g) \/ ResumeWithException(g)
        PROVE  TotalInv'
    <3>1. /\ \E place \in {"waiting", "answered", "errored", "failed"} :
                at' = [at EXCEPT ![g] = place]
          /\ at[g] # "done" /\ UNCHANGED <<total, puts>>
      BY <2>2 DEF HandleGet, Query, QueryFails, ResumeWithException
    <3> QED BY <3>1 DEF TotalInv, SumInv
  <2>3. ASSUME NEW g \in Gets, Aggregate(g) PROVE TotalInv'
    <3>1. /\ at[g] = "answered" /\ puts' = puts
          /\ \A h \in Gets : h # g => at'[h] = at[h] /\ total'[h] = total[h]
          /\ at'[g] = "done" \/ (at'[g] = "failed" /\ total' = total)
      BY <2>3 DEF Aggregate, SumInv
    <3>2. at'[g] = "done" => total'[g] \in Int /\ total'[g] # None
      BY <2>3, AggregateTotals
    <3> QED BY <3>1, <3>2 DEF TotalInv
  <2>4. CASE UNCHANGED vars
    BY <2>4 DEF vars, TotalInv
  <2> QED BY <2>1, <2>2, <2>3, <2>4 DEF Next
<1> QED BY <1>1, <1>2, SumAlways, PTL DEF Spec

(***************************************************************************)
(* The variables keep their types; a total is an integer, however many     *)
(* documents there are.                                                    *)
(***************************************************************************)
THEOREM KotlinTypeCorrect == Spec => []TypeOK
<1>1. CounterInv /\ SumInv /\ TotalInv => TypeOK
  <2> SUFFICES ASSUME CounterInv, SumInv, TotalInv PROVE TypeOK
    OBVIOUS
  <2>1. ASSUME NEW g \in Gets
        PROVE  /\ DOMAIN result[g] \subseteq Docs
               /\ \A d \in DOMAIN result[g] : result[g][d] \in Counters \cup {None}
    <3>1. CASE result[g] = << >>
      BY <3>1
    <3>2. CASE result[g] \in Results
      <4>1. PICK S \in SUBSET Docs : result[g] \in [S -> Counters \cup {None}]
        BY <3>2 DEF Results
      <4> QED BY <4>1
    <3> QED BY <3>1, <3>2 DEF SumInv
  <2> QED BY <2>1 DEF CounterInv, SumInv, TotalInv, TypeOK
<1> QED BY <1>1, CounterAlways, SumAlways, TotalAlways, PTL

=============================================================================
