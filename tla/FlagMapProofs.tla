--------------------------- MODULE FlagMapProofs ---------------------------
(***************************************************************************)
(* Proofs about FlagMap: its type invariant, that a flag never takes away  *)
(* what an earlier one has set, that the result is what the first flag of  *)
(* every path says, and that unrelated flags make the same in any order.   *)
(*                                                                         *)
(* The third rests on Fits below, which ties every slot of the result, the *)
(* lengths of the slices in slices included, to the flags that go through  *)
(* it, for paths of any length.  AssignChanges says what one flag does to  *)
(* the slot at every path.  The fourth adds Exact, how many names and      *)
(* indexes there are at a path: with Fits it leaves no choice of a result. *)
(***************************************************************************)
EXTENDS FlagMap, SequenceTheorems, WellFoundedInduction, TLAPS

(* Induction over the natural numbers, for a set. *)
LEMMA SetInduction ==
  ASSUME NEW S, 0 \in S, \A n \in Nat : n \in S => n + 1 \in S
  PROVE  Nat \subseteq S
<1> DEFINE T == Nat \ S
<1>1. SUFFICES ASSUME T # {} PROVE FALSE
  OBVIOUS
<1>2. PICK x \in T : \A y \in T : ~ (<<y, x>> \in OpToRel(<, Nat))
  <2>1. T \subseteq Nat
    OBVIOUS
  <2>2. IsWellFoundedOn(OpToRel(<, Nat), Nat)
    BY NatLessThanWellFounded
  <2> HIDE DEF T
  <2> QED BY <1>1, <2>1, <2>2, WFMin
<1>3. \A y \in T : ~ (y < x)
  BY <1>2 DEF OpToRel
<1>4. x # 0 /\ x \in Nat
  OBVIOUS
<1>5. x - 1 \in Nat /\ x - 1 < x
  BY <1>4
<1>6. x - 1 \in S
  BY <1>3, <1>5
<1> QED BY <1>4, <1>5, <1>6

(* Every sequence of steps, a key of a flag or not. *)
Paths == Seq(Steps)

(***************************************************************************)
(* The recursive function of Slots exists: a slot is the child of the one  *)
(* before it.                                                              *)
(***************************************************************************)
LEMMA SlotsFacts ==
  ASSUME NEW slot, NEW key \in Paths
  PROVE  /\ Slots(slot, key)[0] = slot
         /\ \A i \in 1 .. Len(key) : Slots(slot, key)[i] = Child(Slots(slot, key)[i - 1], key[i])
<1> DEFINE n == Len(key)
           Table(f, m) == [i \in 0 .. m |-> IF i = 0 THEN slot ELSE Child(f[i - 1], key[i])]
           S == {m \in Nat : \E f : f = Table(f, m)}
           slots == CHOOSE f : f = Table(f, n)
<1>1. n \in Nat
  BY LenProperties DEF Paths
<1>2. Slots(slot, key) = slots
  BY DEF Slots
<1> HIDE DEF n
<1>3. 0 \in S
  <2>1. [i \in 0 .. 0 |-> slot] = Table([i \in 0 .. 0 |-> slot], 0)
    OBVIOUS
  <2> QED BY <2>1
<1>4. ASSUME NEW m \in S PROVE m + 1 \in S
  <2>1. PICK f : f = Table(f, m)
    OBVIOUS
  <2> DEFINE g == [i \in 0 .. m + 1 |-> IF i = m + 1 THEN Child(f[m], key[m + 1]) ELSE f[i]]
  <2>2. \A i \in 0 .. m + 1 : g[i] = IF i = 0 THEN slot ELSE Child(g[i - 1], key[i])
    <3>1. g[0] = slot
      BY <2>1
    <3>2. g[m + 1] = Child(g[m], key[m + 1])
      OBVIOUS
    <3>3. ASSUME NEW i \in 1 .. m PROVE g[i] = Child(g[i - 1], key[i])
      BY <2>1
    <3>4. m \in Nat
      OBVIOUS
    <3>5. \A i \in 0 .. m + 1 : i = 0 \/ (i = m + 1 /\ i # 0 /\ i - 1 = m) \/ (i \in 1 .. m /\ i # 0)
      BY <3>4
    <3> HIDE DEF g
    <3> QED BY <3>1, <3>2, <3>3, <3>5
  <2>3. g = Table(g, m + 1) /\ m + 1 \in Nat
    BY <2>2
  <2> HIDE DEF g, Table
  <2> QED BY <2>3
<1> HIDE DEF S
<1>5. n \in S
  BY <1>1, <1>3, <1>4, SetInduction
<1>6. slots = Table(slots, n)
  BY <1>5 DEF S
<1> HIDE DEF slots
<1>7. slots[0] = slot /\ \A i \in 1 .. n : slots[i] = Child(slots[i - 1], key[i])
  BY <1>1, <1>6
<1> QED BY <1>2, <1>7 DEF n

(***************************************************************************)
(* The recursive function of assign exists: what it leaves in the slots on *)
(* its way, from the last to the first.                                    *)
(***************************************************************************)
LEMMA AssignSteps ==
  ASSUME NEW slot, NEW key \in Paths, NEW t
  PROVE  \E kept :
           /\ assign(slot, key, t)
                = IF \E i \in 1 .. Len(key) : ~Takes(Slots(slot, key)[i - 1], key[i])
                  THEN Error ELSE kept[0]
           /\ kept[Len(key)] = Filled(SlotAt(slot, key), t)
           /\ \A i \in 0 .. Len(key) - 1 :
                kept[i] = IF Dropped(Slots(slot, key), key, i) THEN Slots(slot, key)[i]
                          ELSE SetAt(Slots(slot, key)[i], key[i + 1], kept[i + 1])
<1> DEFINE n == Len(key)
           slots == Slots(slot, key)
           Step(v, i) == IF i = n THEN Filled(slots[i], t)
                         ELSE IF Dropped(slots, key, i) THEN slots[i]
                         ELSE SetAt(slots[i], key[i + 1], v)
           Table(f, m) == [i \in m .. n |-> Step(f[i + 1], i)]
           S == {m \in Nat : m <= n => \E f : f = Table(f, n - m)}
           kept == CHOOSE f : f = Table(f, 0)
<1>1. n \in Nat
  BY LenProperties DEF Paths
<1>2. assign(slot, key, t) = IF \E i \in 1 .. n : ~Takes(slots[i - 1], key[i])
                             THEN Error ELSE kept[0]
  BY DEF assign
<1>9. \A v, w : Step(v, n) = Step(w, n)
  OBVIOUS
<1> HIDE DEF n, slots, Step
<1>3. 0 \in S
  <2> DEFINE f == [i \in n .. n |-> Step(0, n)]
  <2>1. f = Table(f, n)
    BY <1>1, <1>9
  <2> HIDE DEF Table, f
  <2> QED BY <1>1, <2>1
<1>4. ASSUME NEW m \in S PROVE m + 1 \in S
  <2>1. SUFFICES ASSUME m + 1 <= n PROVE \E f : f = Table(f, n - (m + 1))
    OBVIOUS
  <2> DEFINE k == n - (m + 1)
  <2>2. k \in Nat /\ n - m = k + 1 /\ k < n
    BY <1>1, <2>1
  <2>3. PICK f : f = Table(f, k + 1)
    BY <1>1, <2>1, <2>2
  <2> HIDE DEF k
  <2> DEFINE g == [i \in k .. n |-> IF i = k THEN Step(f[k + 1], k) ELSE f[i]]
  <2>4. ASSUME NEW i \in k .. n PROVE g[i] = Step(g[i + 1], i)
    <3>1. CASE i = k
      <4>1. g[k + 1] = f[k + 1]
        BY <1>1, <2>2
      <4> QED BY <2>2, <3>1, <4>1
    <3>2. CASE i # k
      <4>1. i \in k + 1 .. n /\ g[i] = f[i] /\ f[i] = Step(f[i + 1], i)
        BY <1>1, <2>2, <2>3, <3>2
      <4>2. CASE i = n
        BY <1>9, <4>1, <4>2
      <4>3. CASE i # n
        <5>1. g[i + 1] = f[i + 1]
          BY <1>1, <2>2, <4>1, <4>3
        <5> QED BY <4>1, <5>1
      <4> QED BY <4>2, <4>3
    <3> QED BY <3>1, <3>2
  <2>5. g = Table(g, k)
    BY <2>4
  <2> HIDE DEF g, Table
  <2> QED BY <2>5 DEF k
<1> HIDE DEF S
<1>5. n \in S
  BY <1>1, <1>3, <1>4, SetInduction
<1>6. \E f : f = Table(f, 0)
  <2>1. n - n = 0 /\ n <= n
    BY <1>1
  <2> HIDE DEF Table
  <2> QED BY <1>5, <2>1 DEF S
<1>7. kept = Table(kept, 0)
  BY <1>6
<1> HIDE DEF kept
<1>8. \A i \in 0 .. n : kept[i] = Step(kept[i + 1], i)
  BY <1>1, <1>7
<1> QED BY <1>1, <1>2, <1>8 DEF n, slots, Step, SlotAt

(* The slot after i steps of a key is the slot at the prefix of i steps. *)
LEMMA SlotsOfPrefix ==
  ASSUME NEW slot, NEW key \in Paths, NEW i \in 0 .. Len(key)
  PROVE  /\ SubSeq(key, 1, i) \in Paths /\ Len(SubSeq(key, 1, i)) = i
         /\ Slots(slot, key)[i] = SlotAt(slot, SubSeq(key, 1, i))
<1> DEFINE q == SubSeq(key, 1, i)
           S == {m \in Nat : m <= i => Slots(slot, q)[m] = Slots(slot, key)[m]}
<1>1. Len(key) \in Nat /\ i \in Nat
  BY LenProperties DEF Paths
<1>2. q \in Paths /\ Len(q) = i /\ \A j \in 1 .. i : q[j] = key[j]
  <2>1. SubSeq(key, 1, i) \in Seq(Steps) /\ Len(SubSeq(key, 1, i)) = i
    BY <1>1 DEF Paths
  <2>2. \A j \in 1 .. i : SubSeq(key, 1, i)[j] = key[j]
    BY <1>1 DEF Paths
  <2> QED BY <2>1, <2>2 DEF Paths
<1> HIDE DEF q
<1>3. 0 \in S
  BY <1>2, SlotsFacts
<1>4. ASSUME NEW m \in S PROVE m + 1 \in S
  <2>1. SUFFICES ASSUME m + 1 <= i PROVE Slots(slot, q)[m + 1] = Slots(slot, key)[m + 1]
    OBVIOUS
  <2>2. /\ m \in Nat /\ m + 1 \in 1 .. i /\ m + 1 \in 1 .. Len(key) /\ (m + 1) - 1 = m
        /\ Slots(slot, q)[m] = Slots(slot, key)[m]
    BY <1>1, <2>1
  <2>3. /\ Slots(slot, q)[m + 1] = Child(Slots(slot, q)[m], q[m + 1])
        /\ Slots(slot, key)[m + 1] = Child(Slots(slot, key)[m], key[m + 1])
    <3> HIDE DEF S
    <3> QED BY <1>2, <2>2, SlotsFacts
  <2> QED BY <1>2, <2>2, <2>3
<1> HIDE DEF S
<1>5. i \in S
  BY <1>1, <1>3, <1>4, SetInduction
<1> QED BY <1>2, <1>5 DEF S, q, SlotAt

LEMMA SlotAtEmpty ==
  ASSUME NEW slot
  PROVE  SlotAt(slot, << >>) = slot
<1>1. << >> \in Paths /\ Len(<< >>) = 0
  BY EmptySeq DEF Paths
<1> QED BY <1>1, SlotsFacts DEF SlotAt

LEMMA SlotAtAppend ==
  ASSUME NEW slot, NEW q \in Paths, NEW s \in Steps
  PROVE  SlotAt(slot, Append(q, s)) = Child(SlotAt(slot, q), s)
<1> DEFINE p == Append(q, s)
           n == Len(q)
<1>1. n \in Nat /\ p \in Paths /\ Len(p) = n + 1 /\ p[n + 1] = s
  BY AppendProperties, LenProperties DEF Paths
<1>2. SubSeq(p, 1, n) = q
  <2>1. SubSeq(p, 1, n) \in Paths /\ Len(SubSeq(p, 1, n)) = n
    <3>1. n \in 0 .. Len(p)
      BY <1>1
    <3> HIDE DEF p, n
    <3> QED BY <1>1, <3>1, SlotsOfPrefix
  <2>2. \A i \in 1 .. n : SubSeq(p, 1, n)[i] = q[i]
    BY <1>1 DEF Paths
  <2> HIDE DEF p
  <2> QED BY <2>1, <2>2, SeqEqual DEF Paths
<1> HIDE DEF p, n
<1>3. SlotAt(slot, p) = Child(Slots(slot, p)[n], s)
  <2>1. n + 1 \in 1 .. Len(p) /\ (n + 1) - 1 = n
    BY <1>1
  <2> QED BY <1>1, <2>1, SlotsFacts DEF SlotAt
<1>4. Slots(slot, p)[n] = SlotAt(slot, q)
  <2>1. n \in 0 .. Len(p)
    BY <1>1
  <2> QED BY <1>1, <1>2, <2>1, SlotsOfPrefix
<1> QED BY <1>3, <1>4 DEF p

(* What a slot can be; the items of a slice are numbered from 1. *)
IsSlot(slot) ==
  \/ slot = Nil
  \/ \E t : slot = String(t)
  \/ \E entries : slot = MapOf(entries)
  \/ \E n \in Nat : \E items :
       slot = SliceOf(items) /\ DOMAIN items = 1 .. n /\ Len(items) = n

LEMMA LenOfFunction ==
  ASSUME NEW n \in Nat, NEW f, DOMAIN f = 1 .. n, f = [i \in 1 .. n |-> f[i]]
  PROVE  Len(f) = n
<1>1. f \in Seq({f[i] : i \in 1 .. n})
  BY SeqDef
<1> QED BY <1>1, LenProperties

(***************************************************************************)
(* A slot that takes a step can be set there: the kind and the length of   *)
(* what it becomes, its child at the step, and that the other children are *)
(* as they were.                                                           *)
(***************************************************************************)
LEMMA SetAtFacts ==
  ASSUME NEW slot, IsSlot(slot), NEW step \in Steps, Takes(slot, step), NEW value
  PROVE  LET new == SetAt(slot, step, value)
         IN /\ IsSlot(new)
            /\ new.kind = IF step.kind = "name" THEN "map" ELSE "slice"
            /\ new.kind = "slice" =>
                 LET old == IF slot = Nil THEN 0 ELSE Len(slot.items)
                 IN Len(new.items) = IF step.at + 1 > old THEN step.at + 1 ELSE old
            /\ Child(new, step) = value
            /\ \A other \in Steps : other # step => Child(new, other) = Child(slot, other)
<1> DEFINE new == SetAt(slot, step, value)
<1>1. CASE step.kind = "name"
  <2> DEFINE old == IF slot = Nil THEN << >> ELSE slot.entries
             entries == [n \in DOMAIN old \cup {step.at} |-> IF n = step.at THEN value ELSE old[n]]
  <2>1. step \in [kind : {"name"}, at : Names]
    BY <1>1 DEF Steps, Junk
  <2>2. new = MapOf(entries)
    BY <1>1 DEF SetAt
  <2>3. slot = Nil \/ slot.kind = "map"
    BY <1>1 DEF IsSlot, Takes, Nil, String, MapOf, SliceOf
  <2>4. Child(new, step) = value
    BY <1>1, <2>2 DEF Child, Found, MapOf
  <2>5. ASSUME NEW other \in Steps, other # step PROVE Child(new, other) = Child(slot, other)
    <3>1. CASE other.kind = "name"
      <4>1. other \in [kind : {"name"}, at : Names]
        BY <3>1 DEF Steps, Junk
      <4>2. other.at # step.at
        BY <2>1, <2>5, <4>1
      <4> QED BY <2>2, <2>3, <3>1, <4>2 DEF Child, Found, MapOf, Nil
    <3>2. CASE other.kind # "name"
      BY <2>2, <2>3, <3>2 DEF Child, Found, MapOf, Nil
    <3> QED BY <3>1, <3>2
  <2> HIDE DEF entries
  <2>6. IsSlot(new) /\ new.kind = "map"
    <3> HIDE DEF new
    <3>1. IsSlot(new)
      BY <2>2 DEF IsSlot
    <3> QED BY <2>2, <3>1 DEF MapOf
  <2> QED BY <1>1, <2>4, <2>5, <2>6
<1>2. CASE step.kind # "name"
  <2> DEFINE old == IF slot = Nil THEN << >> ELSE slot.items
             k == step.at + 1
             m == IF k > Len(old) THEN k ELSE Len(old)
             grown == GrownTo(old, k)
             items == [grown EXCEPT ![k] = value]
  <2>1. step.kind = "index" /\ step.at \in Nat
    BY <1>2 DEF Steps, Takes, Junk
  <2>2. new = SliceOf(items)
    BY <2>1 DEF SetAt
  <2>3. slot = Nil \/ slot.kind = "slice"
    BY <1>2 DEF IsSlot, Takes, Nil, String, MapOf, SliceOf
  <2>4. Len(old) \in Nat /\ DOMAIN old = 1 .. Len(old)
    <3>1. CASE slot = Nil
      BY <3>1, EmptySeq
    <3>2. CASE slot # Nil
      BY <2>3, <3>2 DEF IsSlot, Nil, String, MapOf, SliceOf
    <3> QED BY <3>1, <3>2
  <2> HIDE DEF old
  <2>5. m \in Nat /\ k \in 1 .. m
    BY <2>1, <2>4
  <2>6. grown = [i \in 1 .. m |-> IF i <= Len(old) THEN old[i] ELSE Nil]
    BY DEF GrownTo
  <2> HIDE DEF grown, m
  <2>7. /\ items = [i \in 1 .. m |-> items[i]] /\ DOMAIN items = 1 .. m
        /\ items[k] = value
        /\ \A i \in 1 .. m : i # k => items[i] = IF i <= Len(old) THEN old[i] ELSE Nil
    BY <2>5, <2>6
  <2> HIDE DEF items
  <2>8. Len(items) = m
    BY <2>5, <2>7, LenOfFunction
  <2>9. new.kind = "slice" /\ new.items = items
    BY <2>2 DEF SliceOf
  <2>10. IsSlot(new)
    BY <2>2, <2>5, <2>7, <2>8 DEF IsSlot
  <2>11. Child(new, step) = value
    BY <2>1, <2>5, <2>7, <2>8, <2>9 DEF Child, Found
  <2>12. ASSUME NEW other \in Steps, other # step PROVE Child(new, other) = Child(slot, other)
    <3>1. CASE other.kind = "index"
      <4>1. other \in [kind : {"index"}, at : Nat] /\ step \in [kind : {"index"}, at : Nat]
        BY <2>1, <3>1 DEF Steps, Junk
      <4>2. other.at # step.at /\ other.at \in Nat
        BY <2>12, <4>1
      <4>3. Child(slot, other) = IF other.at < Len(old) THEN old[other.at + 1] ELSE Nil
        <5>1. CASE slot = Nil
          BY <4>2, <5>1, EmptySeq DEF Child, Found, Nil, old
        <5>2. CASE slot # Nil
          BY <2>3, <3>1, <5>2 DEF Child, Found, old
        <5> QED BY <5>1, <5>2
      <4>4. Child(new, other) = IF other.at < m THEN items[other.at + 1] ELSE Nil
        BY <2>8, <2>9, <3>1 DEF Child, Found
      <4>5. CASE other.at < m
        <5>1. other.at + 1 \in 1 .. m /\ other.at + 1 # k
          BY <2>1, <2>5, <4>2, <4>5
        <5>2. items[other.at + 1] = IF other.at + 1 <= Len(old) THEN old[other.at + 1] ELSE Nil
          BY <2>7, <5>1
        <5> QED BY <2>4, <4>2, <4>3, <4>4, <4>5, <5>2
      <4>6. CASE ~(other.at < m)
        BY <2>4, <2>5, <4>2, <4>3, <4>4, <4>6 DEF m
      <4> QED BY <4>5, <4>6
    <3>2. CASE other.kind # "index"
      BY <2>3, <2>9, <3>2 DEF Child, Found, Nil
    <3> QED BY <3>1, <3>2
  <2>13. Len(new.items) = LET before == IF slot = Nil THEN 0 ELSE Len(slot.items)
                          IN IF step.at + 1 > before THEN step.at + 1 ELSE before
    BY <2>8, <2>9, EmptySeq DEF m, old
  <2> HIDE DEF new
  <2> QED BY <1>2, <2>9, <2>10, <2>11, <2>12, <2>13 DEF new
<1> QED BY <1>1, <1>2

LEMMA PrefixAppend ==
  ASSUME NEW key \in Paths, NEW m \in Nat, m < Len(key)
  PROVE  SubSeq(key, 1, m + 1) = Append(SubSeq(key, 1, m), key[m + 1])
<1> DEFINE p == SubSeq(key, 1, m)
           q == SubSeq(key, 1, m + 1)
<1>1. Len(key) \in Nat /\ m \in 0 .. Len(key) /\ m + 1 \in 0 .. Len(key) /\ key[m + 1] \in Steps
  BY LenProperties, ElementOfSeq DEF Paths
<1>2. p \in Seq(Steps) /\ Len(p) = m /\ q \in Seq(Steps) /\ Len(q) = m + 1
  BY <1>1, SlotsOfPrefix DEF Paths
<1>3. (\A i \in 1 .. m : p[i] = key[i]) /\ (\A i \in 1 .. m + 1 : q[i] = key[i])
  BY <1>1 DEF Paths
<1> HIDE DEF p, q
<1>4. /\ Append(p, key[m + 1]) \in Seq(Steps) /\ Len(Append(p, key[m + 1])) = m + 1
      /\ \A i \in 1 .. m + 1 : Append(p, key[m + 1])[i] = key[i]
  BY <1>1, <1>2, <1>3, AppendProperties
<1>5. q = Append(p, key[m + 1])
  BY <1>2, <1>3, <1>4, SeqEqual
<1> QED BY <1>5 DEF p, q

(* Maps and slices of slots all the way down. *)
IsTree(d) == \A q \in Paths : IsSlot(SlotAt(d, q))

(***************************************************************************)
(* q is on the way of assign: no slot before the one at q has been         *)
(* dropped.                                                                *)
(***************************************************************************)
OnWay(d, key, q) ==
  \E i \in 0 .. Len(key) :
    q = SubSeq(key, 1, i) /\ \A j \in 1 .. i - 1 : ~Dropped(Slots(d, key), key, j)

(***************************************************************************)
(* The way of a key goes on with its next step unless the slot is dropped. *)
(***************************************************************************)
LEMMA OnWayAppend ==
  ASSUME NEW d, NEW key \in Paths, NEW p \in Paths, NEW s \in Steps
  PROVE  OnWay(d, key, Append(p, s))
           <=> /\ OnWay(d, key, p) /\ Len(p) < Len(key) /\ s = key[Len(p) + 1]
               /\ ~Dropped(Slots(d, key), key, Len(p))
<1> DEFINE m == Len(p)
           q == Append(p, s)
           D(j) == Dropped(Slots(d, key), key, j)
<1>1. Len(key) \in Nat /\ m \in Nat /\ q \in Paths /\ Len(q) = m + 1
  BY LenProperties, AppendProperties DEF Paths
<1>2. ~D(0)
  BY DEF Dropped
<1> HIDE DEF m, D
<1>3. ASSUME OnWay(d, key, q) PROVE OnWay(d, key, p) /\ m < Len(key) /\ s = key[m + 1] /\ ~D(m)
  <2>1. PICK i \in 0 .. Len(key) : q = SubSeq(key, 1, i) /\ \A j \in 1 .. i - 1 : ~D(j)
    BY <1>3 DEF OnWay, D
  <2>2. i = m + 1
    <3> HIDE DEF q
    <3> QED BY <1>1, <2>1, SlotsOfPrefix
  <2>3. m < Len(key) /\ m \in 0 .. Len(key)
    BY <1>1, <2>2
  <2>4. q = Append(SubSeq(key, 1, m), key[m + 1])
    BY <1>1, <2>1, <2>2, <2>3, PrefixAppend
  <2>5. key[m + 1] \in Steps /\ SubSeq(key, 1, m) \in Seq(Steps)
    BY <1>1, <2>3, SlotsOfPrefix, ElementOfSeq DEF Paths
  <2> DEFINE u == SubSeq(key, 1, m)
             e == key[m + 1]
  <2>6. p = u /\ s = e
    <3>1. p \in Seq(Steps) /\ s \in Steps /\ u \in Seq(Steps) /\ e \in Steps
      BY <2>5 DEF Paths
    <3>2. Append(p, s) = Append(u, e)
      BY <2>4
    <3> HIDE DEF u, e, q
    <3> QED BY <3>1, <3>2, AppendInjective
  <2>7. (\A j \in 1 .. m - 1 : ~D(j)) /\ ~D(m)
    <3>1. CASE m = 0
      BY <1>2, <3>1
    <3>2. CASE m # 0
      BY <1>1, <2>1, <2>2, <3>2
    <3> QED BY <3>1, <3>2
  <2> QED BY <2>3, <2>6, <2>7 DEF OnWay, D
<1>4. ASSUME OnWay(d, key, p), m < Len(key), s = key[m + 1], ~D(m) PROVE OnWay(d, key, q)
  <2>1. PICK i \in 0 .. Len(key) : p = SubSeq(key, 1, i) /\ \A j \in 1 .. i - 1 : ~D(j)
    BY <1>4 DEF OnWay, D
  <2>2. i = m
    BY <2>1, SlotsOfPrefix DEF m
  <2>3. q = SubSeq(key, 1, m + 1)
    BY <1>1, <1>4, <2>1, <2>2, PrefixAppend
  <2>4. \A j \in 1 .. (m + 1) - 1 : ~D(j)
    BY <1>1, <1>4, <2>1, <2>2
  <2>5. m + 1 \in 0 .. Len(key)
    BY <1>1, <1>4
  <2> HIDE DEF q
  <2> QED BY <2>3, <2>4, <2>5 DEF OnWay, D
<1> QED BY <1>3, <1>4 DEF m, D

LEMMA FilledFacts ==
  ASSUME NEW slot, IsSlot(slot), NEW t
  PROVE  /\ IsSlot(Filled(slot, t))
         /\ \A s \in Steps : Child(Filled(slot, t), s) = Child(slot, s)
         /\ slot # Nil => Filled(slot, t) = slot
<1>1. CASE slot = Nil
  <2>1. Filled(slot, t) = String(t)
    BY <1>1 DEF Filled
  <2>2. \A s : Child(String(t), s) = Nil /\ Child(Nil, s) = Nil
    BY DEF Child, Found, String, Nil
  <2> QED BY <1>1, <2>1, <2>2 DEF IsSlot
<1>2. CASE slot # Nil
  <2>1. Filled(slot, t) = slot
    BY <1>2 DEF Filled
  <2> QED BY <2>1
<1> QED BY <1>1, <1>2

(* What becomes of the slot after i steps of a key that is on its way. *)
Changed(old, new, d, key, i, t) ==
  IF i = Len(key) THEN new = Filled(old, t)
  ELSE IF Dropped(Slots(d, key), key, i) THEN new = old
  ELSE \E v : new = SetAt(old, key[i + 1], v)

(***************************************************************************)
(* What a flag does to the slot at every path: on the way of its key it is *)
(* filled, dropped or set at the next step, elsewhere it stays.  By        *)
(* induction on the length of the path.                                    *)
(***************************************************************************)
LEMMA AssignChanges ==
  ASSUME NEW d, IsTree(d), NEW key \in Paths, NEW t, assign(d, key, t) # Error
  PROVE  /\ \A i \in 1 .. Len(key) : Takes(Slots(d, key)[i - 1], key[i])
         /\ \A q \in Paths :
              LET new == SlotAt(assign(d, key, t), q)
              IN IF OnWay(d, key, q) THEN Changed(SlotAt(d, q), new, d, key, Len(q), t)
                 ELSE new = SlotAt(d, q)
<1> DEFINE n == Len(key)
           slots == Slots(d, key)
           tree == assign(d, key, t)
<1>1. PICK kept :
        /\ tree = IF \E i \in 1 .. n : ~Takes(slots[i - 1], key[i]) THEN Error ELSE kept[0]
        /\ kept[n] = Filled(SlotAt(d, key), t)
        /\ \A i \in 0 .. n - 1 :
             kept[i] = IF Dropped(slots, key, i) THEN slots[i]
                       ELSE SetAt(slots[i], key[i + 1], kept[i + 1])
  BY AssignSteps
<1>2. (\A i \in 1 .. n : Takes(slots[i - 1], key[i])) /\ tree = kept[0]
  BY <1>1
<1>3. n \in Nat /\ slots[n] = SlotAt(d, key)
  BY LenProperties DEF Paths, SlotAt
<1> HIDE DEF n, slots, tree
<1>4. ASSUME NEW q \in Paths, OnWay(d, key, q)
      PROVE  /\ Len(q) \in 0 .. n /\ SlotAt(d, q) = slots[Len(q)] /\ IsSlot(slots[Len(q)])
             /\ Changed(SlotAt(d, q), kept[Len(q)], d, key, Len(q), t)
  <2>1. PICK i \in 0 .. n : q = SubSeq(key, 1, i)
    BY <1>4 DEF OnWay, n
  <2>2. Len(q) = i /\ slots[i] = SlotAt(d, q)
    BY <2>1, SlotsOfPrefix DEF n, slots
  <2>3. IsSlot(slots[i])
    BY <2>2 DEF IsTree
  <2>4. Changed(slots[i], kept[i], d, key, i, t)
    <3>1. CASE i = n
      BY <1>1, <1>3, <3>1 DEF Changed, n
    <3>2. CASE i # n
      <4>1. i \in 0 .. n - 1
        BY <1>3, <3>2
      <4>2. kept[i] = IF Dropped(slots, key, i) THEN slots[i]
                      ELSE SetAt(slots[i], key[i + 1], kept[i + 1])
        BY <1>1, <4>1
      <4>3. i # Len(key)
        BY <3>2 DEF n
      <4> QED BY <4>2, <4>3 DEF Changed, slots
    <3> QED BY <3>1, <3>2
  <2> QED BY <2>2, <2>3, <2>4
<1> DEFINE Claim(q) == SlotAt(tree, q) = IF OnWay(d, key, q) THEN kept[Len(q)] ELSE SlotAt(d, q)
           S == {m \in Nat : \A q \in Paths : Len(q) = m => Claim(q)}
<1>5. 0 \in S
  <2>1. ASSUME NEW q \in Paths, Len(q) = 0 PROVE Claim(q)
    <3>1. q = << >>
      BY <2>1 DEF Paths
    <3>5. 0 \in 0 .. Len(key)
      BY <1>3 DEF n
    <3>2. Len(SubSeq(key, 1, 0)) = 0 /\ SubSeq(key, 1, 0) \in Paths
      BY <3>5, SlotsOfPrefix
    <3>3. SubSeq(key, 1, 0) = << >>
      BY <3>2 DEF Paths
    <3>4. OnWay(d, key, q)
      BY <3>1, <3>3, <3>5 DEF OnWay
    <3> QED BY <1>2, <2>1, <3>1, <3>4, SlotAtEmpty
  <2> QED BY <2>1
<1>6. ASSUME NEW m \in S PROVE m + 1 \in S
  <2>1. ASSUME NEW q \in Paths, Len(q) = m + 1 PROVE Claim(q)
    <3>1. PICK p \in Seq(Steps), s \in Steps : q = Append(p, s)
      <4>1. q # << >>
        BY <2>1
      <4> QED BY <4>1, SequenceEmptyOrAppend DEF Paths
    <3>2. p \in Paths /\ Len(p) = m /\ m \in Nat
      BY <2>1, <3>1, AppendProperties, LenProperties DEF Paths
    <3>3. Claim(p)
      BY <3>2
    <3>4. /\ SlotAt(tree, q) = Child(SlotAt(tree, p), s)
          /\ SlotAt(d, q) = Child(SlotAt(d, p), s)
      BY <3>1, <3>2, SlotAtAppend
    <3>5. OnWay(d, key, q) <=> /\ OnWay(d, key, p) /\ m < n /\ s = key[m + 1]
                               /\ ~Dropped(slots, key, m)
      <4>1. OnWay(d, key, Append(p, s))
              <=> /\ OnWay(d, key, p) /\ Len(p) < Len(key) /\ s = key[Len(p) + 1]
                  /\ ~Dropped(Slots(d, key), key, Len(p))
        BY <3>2, OnWayAppend
      <4> QED BY <3>1, <3>2, <4>1 DEF n, slots
    <3> HIDE DEF S
    <3>6. CASE ~OnWay(d, key, p)
      BY <3>3, <3>4, <3>5, <3>6
    <3>7. CASE OnWay(d, key, p)
      <4>1. /\ m \in 0 .. n /\ SlotAt(d, p) = slots[m] /\ IsSlot(slots[m])
            /\ SlotAt(tree, p) = kept[m]
        BY <1>4, <3>2, <3>3, <3>7
      <4>2. CASE m = n
        BY <1>1, <1>3, <3>4, <3>5, <4>1, <4>2, FilledFacts
      <4>3. CASE m # n /\ Dropped(slots, key, m)
        BY <1>1, <1>3, <3>4, <3>5, <4>1, <4>3
      <4>4. CASE m # n /\ ~Dropped(slots, key, m)
        <5>1. /\ m \in 0 .. n - 1 /\ m + 1 \in 1 .. n /\ (m + 1) - 1 = m
              /\ key[m + 1] \in Steps
          BY <1>3, <4>1, <4>4, ElementOfSeq DEF n, Paths
        <5>2. kept[m] = SetAt(slots[m], key[m + 1], kept[m + 1]) /\ Takes(slots[m], key[m + 1])
          BY <1>1, <1>2, <4>4, <5>1
        <5>3. /\ Child(kept[m], key[m + 1]) = kept[m + 1]
              /\ s # key[m + 1] => Child(kept[m], s) = Child(slots[m], s)
          BY <4>1, <5>1, <5>2, SetAtFacts
        <5>6. m < n
          BY <1>3, <5>1
        <5>4. OnWay(d, key, q) <=> s = key[m + 1]
          BY <3>5, <3>7, <4>4, <5>6
        <5>5. SlotAt(tree, q) = IF s = key[m + 1] THEN kept[m + 1] ELSE SlotAt(d, q)
          BY <3>4, <4>1, <5>3
        <5> QED BY <2>1, <5>4, <5>5
      <4> QED BY <4>2, <4>3, <4>4
    <3> QED BY <3>6, <3>7
  <2>2. m + 1 \in Nat
    OBVIOUS
  <2> HIDE DEF Claim
  <2> QED BY <2>1, <2>2
<1>7. ASSUME NEW q \in Paths PROVE Claim(q)
  <2>1. Nat \subseteq S
    <3> HIDE DEF S
    <3> QED BY <1>5, <1>6, SetInduction
  <2>2. Len(q) \in S
    BY <2>1, LenProperties DEF Paths
  <2> QED BY <2>2
<1> QED BY <1>2, <1>4, <1>7 DEF n, slots, tree

-----------------------------------------------------------------------------
(* From paths to types. *)

LEMMA StepKinds ==
  ASSUME NEW s \in Steps
  PROVE  /\ s.kind \in {"name", "index", "junk"}
         /\ s.kind = "junk" <=> s = Junk
         /\ s.kind = "index" => s.at \in Nat
BY DEF Steps, Junk

(* assign fails if and only if one of the slots does not take its step. *)
LEMMA AssignOrError ==
  ASSUME NEW d, IsTree(d), d.kind = "map", NEW key \in Paths, NEW t
  PROVE  assign(d, key, t) = Error
           <=> \E i \in 1 .. Len(key) : ~Takes(Slots(d, key)[i - 1], key[i])
<1> DEFINE refused == \E i \in 1 .. Len(key) : ~Takes(Slots(d, key)[i - 1], key[i])
<1>1. PICK kept :
        /\ assign(d, key, t) = IF refused THEN Error ELSE kept[0]
        /\ kept[Len(key)] = Filled(SlotAt(d, key), t)
        /\ \A i \in 0 .. Len(key) - 1 :
             kept[i] = IF Dropped(Slots(d, key), key, i) THEN Slots(d, key)[i]
                       ELSE SetAt(Slots(d, key)[i], key[i + 1], kept[i + 1])
  BY AssignSteps
<1>2. Len(key) \in Nat
  BY LenProperties DEF Paths
<1>3. CASE Len(key) = 0
  <2>1. key = << >>
    BY <1>3 DEF Paths
  <2>2. SlotAt(d, key) = d
    BY <2>1, SlotAtEmpty
  <2>3. kept[0] = d
    BY <1>1, <1>3, <2>2 DEF Filled, Nil
  <2> QED BY <1>1, <1>3, <2>3 DEF Error
<1>4. CASE Len(key) # 0
  <2>1. ~Dropped(Slots(d, key), key, 0)
    BY DEF Dropped
  <2>2. kept[0] = SetAt(Slots(d, key)[0], key[0 + 1], kept[0 + 1])
    BY <1>1, <1>2, <1>4, <2>1
  <2>3. kept[0] # Error
    BY <2>2 DEF SetAt, MapOf, SliceOf, Error
  <2> QED BY <1>1, <2>3
<1> QED BY <1>3, <1>4

(* AssignChanges, by the cases that the proofs below need. *)
LEMMA AssignOnWay ==
  ASSUME NEW d, IsTree(d), NEW key \in Paths, NEW t, assign(d, key, t) # Error,
         NEW q \in Paths
  PROVE  LET old == SlotAt(d, q)
             new == SlotAt(assign(d, key, t), q)
             m == Len(q)
         IN /\ ~OnWay(d, key, q) => new = old
            /\ OnWay(d, key, q) => m \in 0 .. Len(key) /\ q = SubSeq(key, 1, m)
                                  /\ old = Slots(d, key)[m]
            /\ OnWay(d, key, q) /\ m = Len(key) => new = Filled(old, t)
            /\ OnWay(d, key, q) /\ m # Len(key) =>
                 /\ m + 1 \in 1 .. Len(key) /\ key[m + 1] \in Steps
                 /\ Takes(old, key[m + 1])
                 /\ Dropped(Slots(d, key), key, m) => new = old
                 /\ ~Dropped(Slots(d, key), key, m) => \E v : new = SetAt(old, key[m + 1], v)
<1> DEFINE tree == assign(d, key, t)
           old == SlotAt(d, q)
           new == SlotAt(tree, q)
           m == Len(q)
<1>1. /\ \A i \in 1 .. Len(key) : Takes(Slots(d, key)[i - 1], key[i])
      /\ IF OnWay(d, key, q) THEN Changed(old, new, d, key, m, t) ELSE new = old
  BY AssignChanges
<1> HIDE DEF tree
<1>2. Len(key) \in Nat
  BY LenProperties DEF Paths
<1>3. ASSUME OnWay(d, key, q)
      PROVE  m \in 0 .. Len(key) /\ q = SubSeq(key, 1, m) /\ old = Slots(d, key)[m]
  <2>1. PICK i \in 0 .. Len(key) : q = SubSeq(key, 1, i)
    BY <1>3 DEF OnWay
  <2> QED BY <2>1, SlotsOfPrefix
<1>4. ASSUME OnWay(d, key, q), m = Len(key) PROVE new = Filled(old, t)
  BY <1>1, <1>4 DEF Changed
<1>5. ASSUME OnWay(d, key, q), m # Len(key)
      PROVE  /\ m + 1 \in 1 .. Len(key) /\ key[m + 1] \in Steps
             /\ Takes(old, key[m + 1])
             /\ Dropped(Slots(d, key), key, m) => new = old
             /\ ~Dropped(Slots(d, key), key, m) => \E v : new = SetAt(old, key[m + 1], v)
  <2>1. m + 1 \in 1 .. Len(key) /\ (m + 1) - 1 = m /\ old = Slots(d, key)[m]
    BY <1>2, <1>3, <1>5
  <2>2. key[m + 1] \in Steps
    BY <2>1, ElementOfSeq DEF Paths
  <2>3. Takes(old, key[m + 1])
    BY <1>1, <2>1
  <2>4. Changed(old, new, d, key, m, t)
    BY <1>1, <1>5
  <2> HIDE DEF old, new, m
  <2> QED BY <1>5, <2>1, <2>2, <2>3, <2>4 DEF Changed
<1> HIDE DEF old, new, m
<1>6. ~OnWay(d, key, q) => new = old
  BY <1>1
<1> QED BY <1>3, <1>4, <1>5, <1>6 DEF old, new, m, tree

(***************************************************************************)
(* What assign returns is again maps and slices of slots, with a map at    *)
(* the top.                                                                *)
(***************************************************************************)
LEMMA AssignIsTree ==
  ASSUME NEW d, IsTree(d), d.kind = "map", NEW key \in Paths, NEW t, assign(d, key, t) # Error
  PROVE  /\ IsTree(assign(d, key, t))
         /\ assign(d, key, t).kind = "map"
<1> DEFINE tree == assign(d, key, t)
<1>4. ASSUME NEW q \in Paths PROVE IsSlot(SlotAt(tree, q))
  <2>1. IsSlot(SlotAt(d, q))
    BY DEF IsTree
  <2>2. CASE ~OnWay(d, key, q)
    BY <2>1, <2>2, AssignOnWay
  <2>3. CASE OnWay(d, key, q) /\ Len(q) = Len(key)
    <3>1. SlotAt(tree, q) = Filled(SlotAt(d, q), t)
      BY <2>3, AssignOnWay
    <3> HIDE DEF tree
    <3> QED BY <2>1, <3>1, FilledFacts
  <2>4. CASE OnWay(d, key, q) /\ Len(q) # Len(key) /\ Dropped(Slots(d, key), key, Len(q))
    BY <2>1, <2>4, AssignOnWay
  <2>5. CASE OnWay(d, key, q) /\ Len(q) # Len(key) /\ ~Dropped(Slots(d, key), key, Len(q))
    <3>1. /\ key[Len(q) + 1] \in Steps /\ Takes(SlotAt(d, q), key[Len(q) + 1])
          /\ \E v : SlotAt(tree, q) = SetAt(SlotAt(d, q), key[Len(q) + 1], v)
      BY <2>5, AssignOnWay
    <3> HIDE DEF tree
    <3> QED BY <2>1, <3>1, SetAtFacts
  <2> QED BY <2>2, <2>3, <2>4, <2>5
<1>5. tree.kind = "map"
  <2>1. << >> \in Paths /\ Len(<< >>) = 0 /\ SlotAt(tree, << >>) = tree /\ SlotAt(d, << >>) = d
    BY SlotAtEmpty, EmptySeq DEF Paths
  <2>2. IsSlot(d) /\ ~Dropped(Slots(d, key), key, 0)
    BY <2>1 DEF IsTree, Dropped
  <2>3. CASE ~OnWay(d, key, << >>)
    BY <2>1, <2>3, AssignOnWay
  <2>4. CASE OnWay(d, key, << >>) /\ Len(key) = 0
    <3>1. tree = Filled(d, t)
      BY <2>1, <2>4, AssignOnWay
    <3> QED BY <3>1 DEF Filled, Nil
  <2>5. CASE OnWay(d, key, << >>) /\ Len(key) # 0
    <3>1. /\ key[0 + 1] \in Steps /\ Takes(d, key[0 + 1])
          /\ \E v : tree = SetAt(d, key[0 + 1], v)
      BY <2>1, <2>2, <2>5, AssignOnWay
    <3>2. key[0 + 1].kind = "name"
      BY <3>1 DEF Takes
    <3> HIDE DEF tree
    <3> QED BY <2>2, <3>1, <3>2, SetAtFacts
  <2> QED BY <2>3, <2>4, <2>5
<1> QED BY <1>4, <1>5 DEF IsTree, tree

LEMMA EmptyHasNothing ==
  \A q \in Paths : SlotAt(EmptyMap, q) = IF q = << >> THEN EmptyMap ELSE Nil
<1>2. \A s \in Steps : Child(EmptyMap, s) = Nil /\ Child(Nil, s) = Nil
  BY EmptySeq DEF EmptyMap, MapOf, Nil, Child, Found
<1> DEFINE S == {m \in Nat : \A q \in Paths :
                   Len(q) = m => SlotAt(EmptyMap, q) = IF q = << >> THEN EmptyMap ELSE Nil}
<1>3. 0 \in S
  BY SlotAtEmpty DEF Paths
<1>4. ASSUME NEW m \in S PROVE m + 1 \in S
  <2>1. ASSUME NEW q \in Paths, Len(q) = m + 1 PROVE q # << >> /\ SlotAt(EmptyMap, q) = Nil
    <3>1. q # << >>
      BY <2>1
    <3>2. PICK p \in Seq(Steps), s \in Steps : q = Append(p, s)
      BY <3>1, SequenceEmptyOrAppend DEF Paths
    <3>3. p \in Paths /\ Len(p) = m
      BY <2>1, <3>2, AppendProperties, LenProperties DEF Paths
    <3>4. SlotAt(EmptyMap, p) = EmptyMap \/ SlotAt(EmptyMap, p) = Nil
      BY <3>3
    <3>5. SlotAt(EmptyMap, q) = Child(SlotAt(EmptyMap, p), s)
      BY <3>2, <3>3, SlotAtAppend
    <3> QED BY <1>2, <3>1, <3>4, <3>5
  <2> QED BY <2>1
<1>5. Nat \subseteq S
  <2> HIDE DEF S
  <2> QED BY <1>3, <1>4, SetInduction
<1>6. ASSUME NEW q \in Paths PROVE Len(q) \in S
  BY <1>5, LenProperties DEF Paths
<1> QED BY <1>6

LEMMA EmptyIsTree == IsTree(EmptyMap) /\ EmptyMap.kind = "map"
<1>1. EmptyMap.kind = "map" /\ IsSlot(EmptyMap) /\ IsSlot(Nil)
  BY DEF EmptyMap, MapOf, IsSlot
<1>2. \A q \in Paths : SlotAt(EmptyMap, q) \in {EmptyMap, Nil}
  BY EmptyHasNothing
<1> QED BY <1>1, <1>2 DEF IsTree

Flags == [key : Keys, text : Texts \cup Args]

(***************************************************************************)
(* The type invariant that the proofs need: the flags read are whole       *)
(* records, and the result is made of maps and slices throughout.          *)
(***************************************************************************)
FlagTypeInv ==
  /\ TypeOK
  /\ read \in Seq(Flags)
  /\ IsTree(data)

LEMMA KeysArePaths == Keys \subseteq Paths
BY FlagAssumption DEF Paths

LEMMA FlagInitTyped == Init => FlagTypeInv
<1>1. SUFFICES ASSUME Init PROVE FlagTypeInv
  OBVIOUS
<1>2. PICK n \in 0 .. MaxArgs : args \in [1 .. n -> Args]
  BY <1>1 DEF Init
<1>3. n \in Nat /\ args \in Seq(Args) /\ Len(args) = n
  <2>1. n \in Nat
    BY FlagAssumption
  <2> QED BY <1>2, <2>1, SeqDef, LenProperties
<1>4. read \in Seq(Flags) /\ Len(read) = 0 /\ DOMAIN read = {}
  BY <1>1, EmptySeq DEF Init
<1>5. Len(args) + Len(read) <= MaxArgs
  BY <1>2, <1>3, <1>4, FlagAssumption
<1>6. IsTree(data) /\ data.kind = "map"
  BY <1>1, EmptyIsTree DEF Init
<1>7. outcome = "running"
  BY <1>1 DEF Init
<1> QED BY <1>3, <1>4, <1>5, <1>6, <1>7 DEF FlagTypeInv, TypeOK

LEMMA ArgsTyped ==
  ASSUME NEW a \in Args
  PROVE  /\ a.form \in {"pair", "bare", "word", "short"}
         /\ a.form \in {"pair", "bare"} => a.key \in Keys
         /\ a.form = "pair" => a.text \in Texts
BY DEF Args

(* The two kinds of step: one that ends Map, and one that handles a flag. *)
Handles(key, text) ==
  /\ outcome = "running"
  /\ key \in Keys /\ text \in Texts \cup Args
  /\ args' \in Seq(Args) /\ Len(args') + 1 <= Len(args)
  /\ Assign(key, text)

LEMMA StepsOfMap ==
  ASSUME args \in Seq(Args), Next
  PROVE  \/ /\ outcome' \in {"done", "panic", "invalid flag", "expected parameter"}
            /\ outcome = "running"
            /\ UNCHANGED <<args, data, read>>
         \/ \E key, text : Handles(key, text)
<1>1. args # << >> => /\ Head(args) \in Args /\ Tail(args) \in Seq(Args)
                      /\ Len(args) \in Nat /\ Len(Tail(args)) = Len(args) - 1
  BY HeadTailProperties, LenProperties
<1>2. CASE NoMore \/ TooShort \/ Invalid \/ NoParameter
  BY <1>2 DEF Next, NoMore, TooShort, Invalid, NoParameter, Ends
<1>3. CASE Pair
  <2>1. Head(args).key \in Keys /\ Head(args).text \in Texts
    BY <1>1, <1>3, ArgsTyped DEF Pair
  <2>2. args' \in Seq(Args) /\ Len(args') + 1 <= Len(args)
    BY <1>1, <1>3 DEF Pair
  <2>3. Handles(Head(args).key, Head(args).text)
    BY <1>3, <2>1, <2>2 DEF Handles, Pair, Next
  <2> QED BY <2>3
<1>4. CASE Bare
  <2>1. Len(args) \in Nat /\ Len(args) > 1 /\ args # << >>
    BY <1>4, LenProperties, EmptySeq DEF Bare
  <2>2. Head(args).key \in Keys /\ args[2] \in Args
    BY <1>1, <1>4, <2>1, ArgsTyped, ElementOfSeq DEF Bare
  <2>3. args' \in Seq(Args) /\ Len(args') + 1 <= Len(args)
    <3>1. args' = SubSeq(args, 3, Len(args))
      BY <1>4 DEF Bare
    <3>2. CASE Len(args) = 2
      BY <2>1, <3>1, <3>2
    <3>3. CASE Len(args) # 2
      BY <2>1, <3>1, <3>3
    <3> QED BY <3>2, <3>3
  <2>4. Handles(Head(args).key, args[2])
    BY <1>4, <2>2, <2>3 DEF Handles, Bare, Next
  <2> QED BY <2>4
<1> QED BY <1>2, <1>3, <1>4 DEF Next

LEMMA FlagStepTyped == FlagTypeInv /\ [Next]_vars => FlagTypeInv'
<1>1. SUFFICES ASSUME FlagTypeInv, [Next]_vars PROVE FlagTypeInv'
  OBVIOUS
<1>2. CASE UNCHANGED vars
  BY <1>1, <1>2 DEF FlagTypeInv, TypeOK, vars, IsTree
<1>3. CASE Next
  <2>1. /\ args \in Seq(Args) /\ read \in Seq(Flags) /\ IsTree(data) /\ data.kind = "map"
        /\ Len(args) + Len(read) <= MaxArgs /\ Len(args) \in Nat /\ Len(read) \in Nat
    BY <1>1, LenProperties DEF FlagTypeInv, TypeOK
  <2>2. CASE /\ outcome' \in {"done", "panic", "invalid flag", "expected parameter"}
             /\ UNCHANGED <<args, data, read>>
    BY <1>1, <2>2 DEF FlagTypeInv, TypeOK, IsTree
  <2>3. CASE \E key, text : Handles(key, text)
    <3>1. PICK key, text : Handles(key, text)
      BY <2>3
    <3> DEFINE new == assign(data, key, text)
               flag == [key |-> key, text |-> text]
    <3>2. read' = Append(read, flag) /\ flag \in Flags
      BY <3>1 DEF Handles, Assign, Flags
    <3>3. read' \in Seq(Flags) /\ Len(read') = Len(read) + 1
      BY <2>1, <3>2, AppendProperties
    <3>4. \A i \in DOMAIN read' : read'[i] \in Flags
      BY <3>3, ElementOfSeq, LenProperties
    <3>5. Len(args') + Len(read') <= MaxArgs
      <4>1. Len(args') \in Nat /\ Len(args') + 1 <= Len(args)
        BY <3>1, LenProperties DEF Handles
      <4> QED BY <2>1, <3>3, <4>1, FlagAssumption
    <3>6. IsTree(data') /\ (data.kind = "map")' /\ outcome' \in {"running", "error"}
      <4>1. CASE new = Error
        BY <2>1, <3>1, <4>1 DEF Handles, Assign, IsTree
      <4>2. CASE new # Error
        <5>1. IsTree(new) /\ new.kind = "map"
          BY <2>1, <3>1, <4>2, AssignIsTree, KeysArePaths DEF Handles
        <5>2. data' = new /\ outcome' = "running"
          BY <3>1, <4>2 DEF Handles, Assign
        <5> QED BY <5>1, <5>2
      <4> QED BY <4>1, <4>2
    <3>7. args' \in Seq(Args)
      BY <3>1 DEF Handles
    <3>8. \A i \in DOMAIN read' : read'[i].key \in Keys /\ read'[i].text \in Texts \cup Args
      BY <3>4 DEF Flags
    <3>9. (IsTree(data))'
      BY <3>6 DEF IsTree
    <3> QED BY <3>3, <3>5, <3>6, <3>7, <3>8, <3>9 DEF FlagTypeInv, TypeOK
  <2> QED BY <1>3, <2>1, <2>2, <2>3, StepsOfMap
<1> QED BY <1>1, <1>2, <1>3

LEMMA FlagTypes == Spec => []FlagTypeInv
BY FlagInitTyped, FlagStepTyped, PTL DEF Spec

(***************************************************************************)
(* The type invariant: Map never reads more flags than there are           *)
(* arguments, every flag it has read has a key and a text, and the result  *)
(* is a map.                                                               *)
(***************************************************************************)
THEOREM FlagTypeCorrect == Spec => []TypeOK
<1>1. FlagTypeInv => TypeOK
  BY DEF FlagTypeInv
<1> QED BY <1>1, FlagTypes, PTL

-----------------------------------------------------------------------------
(* Earlier flags are kept. *)

(* A string that an earlier flag has set is not changed by assign. *)
LEMMA AssignKeepsStrings ==
  ASSUME NEW d, IsTree(d), NEW key \in Paths, NEW t, assign(d, key, t) # Error,
         NEW q \in Paths, SlotAt(d, q).kind = "string"
  PROVE  SlotAt(assign(d, key, t), q) = SlotAt(d, q)
<1> DEFINE old == SlotAt(d, q)
           new == SlotAt(assign(d, key, t), q)
<1>1. old # Nil /\ \A s \in Steps : ~Takes(old, s)
  BY DEF Takes, Nil
<1>2. CASE ~OnWay(d, key, q)
  BY <1>2, AssignOnWay
<1>3. CASE OnWay(d, key, q) /\ Len(q) = Len(key)
  <2>1. new = Filled(old, t)
    BY <1>3, AssignOnWay
  <2> QED BY <1>1, <2>1 DEF Filled
<1>4. CASE OnWay(d, key, q) /\ Len(q) # Len(key)
  <2>1. key[Len(q) + 1] \in Steps /\ Takes(old, key[Len(q) + 1])
    BY <1>4, AssignOnWay
  <2> QED BY <1>1, <2>1
<1> QED BY <1>2, <1>3, <1>4

(***************************************************************************)
(* KeepsEarlierFlags for keys of any length and any depth of maps and      *)
(* slices: a value that a flag has set stays, whatever flags come after    *)
(* it, also when a slice on its path is copied to grow.                    *)
(***************************************************************************)
THEOREM EarlierFlagsKept == Spec => KeepsEarlierFlags
<1>1. ASSUME FlagTypeInv, [Next]_vars PROVE [Leaves \subseteq Leaves']_vars
  <2>1. SUFFICES ASSUME Next PROVE Leaves \subseteq Leaves'
    BY <1>1
  <2>2. args \in Seq(Args) /\ IsTree(data)
    BY <1>1 DEF FlagTypeInv, TypeOK
  <2>3. CASE data' = data
    BY <2>3 DEF Leaves
  <2>4. CASE data' # data
    <3>1. PICK key, text : Handles(key, text)
      BY <2>1, <2>2, <2>4, StepsOfMap
    <3>2. data' = assign(data, key, text) /\ data' # Error /\ key \in Paths
      BY <2>4, <3>1, KeysArePaths DEF Handles, Assign
    <3>3. ASSUME NEW l \in Keys, SlotAt(data, l).kind = "string"
          PROVE  SlotAt(data', l) = SlotAt(data, l)
      BY <2>2, <3>2, <3>3, AssignKeepsStrings, KeysArePaths
    <3> QED BY <3>3 DEF Leaves
  <2> QED BY <2>3, <2>4
<1> QED BY <1>1, FlagTypes, PTL DEF KeepsEarlierFlags, Spec

-----------------------------------------------------------------------------
(* Prefixes, and the flags that have an effect. *)

LEMMA PrefixFacts ==
  ASSUME NEW p \in Paths, NEW key \in Paths
  PROVE  /\ IsPrefix(p, key) <=> Len(p) \in 0 .. Len(key) /\ p = SubSeq(key, 1, Len(p))
         /\ IsPrefix(p, key) /\ Len(p) = Len(key) => p = key
         /\ IsPrefix(p, key) /\ Len(p) # Len(key) => Len(p) < Len(key)
<1>1. Len(p) \in Nat /\ Len(key) \in Nat /\ SubSeq(p, 1, Len(p)) = p /\ SubSeq(key, 1, Len(key)) = key
  <2>1. \A s \in Paths : Len(s) \in Nat /\ SubSeq(s, 1, Len(s)) = s
    <3> SUFFICES ASSUME NEW s \in Paths PROVE Len(s) \in Nat /\ SubSeq(s, 1, Len(s)) = s
      OBVIOUS
    <3>1. Len(s) \in Nat /\ Len(s) \in 0 .. Len(s)
      BY LenProperties DEF Paths
    <3>2. SubSeq(s, 1, Len(s)) \in Seq(Steps) /\ Len(SubSeq(s, 1, Len(s))) = Len(s)
      BY <3>1, SlotsOfPrefix DEF Paths
    <3>3. \A i \in 1 .. Len(s) : SubSeq(s, 1, Len(s))[i] = s[i]
      BY <3>1 DEF Paths
    <3> QED BY <3>1, <3>2, <3>3, SeqEqual DEF Paths
  <2> QED BY <2>1
<1>2. IsPrefix(p, key) <=> Len(p) <= Len(key) /\ p = SubSeq(key, 1, Len(p))
  BY <1>1 DEF IsPrefix
<1>3. Len(p) <= Len(key) <=> Len(p) \in 0 .. Len(key)
  BY <1>1
<1>4. IsPrefix(p, key) /\ Len(p) = Len(key) => p = key
  BY <1>1, <1>2
<1>5. IsPrefix(p, key) /\ Len(p) # Len(key) => Len(p) < Len(key)
  <2>1. ASSUME NEW a \in Nat, NEW b \in Nat, a <= b, a # b PROVE a < b
    BY <2>1
  <2> QED BY <1>1, <1>2, <2>1
<1> QED BY <1>2, <1>3, <1>4, <1>5

LEMMA PrefixIsPrefix ==
  ASSUME NEW key \in Paths, NEW i \in 0 .. Len(key)
  PROVE  IsPrefix(SubSeq(key, 1, i), key)
<1>1. SubSeq(key, 1, i) \in Paths /\ Len(SubSeq(key, 1, i)) = i
  BY SlotsOfPrefix
<1> DEFINE p == SubSeq(key, 1, i)
<1>2. p \in Paths /\ Len(p) = i /\ p = SubSeq(key, 1, Len(p))
  BY <1>1
<1> HIDE DEF p
<1>3. IsPrefix(p, key)
  BY <1>2, PrefixFacts
<1> QED BY <1>3 DEF p

(* A shorter prefix of key is a prefix of whatever a longer one is a prefix of. *)
LEMMA ShorterPrefix ==
  ASSUME NEW key \in Paths, NEW other \in Paths, NEW i \in 0 .. Len(key), NEW m \in 0 .. i,
         IsPrefix(SubSeq(key, 1, i), other)
  PROVE  /\ IsPrefix(SubSeq(key, 1, m), other)
         /\ m < i => other[m + 1] = key[m + 1]
         /\ i <= Len(other)
<1> DEFINE p == SubSeq(key, 1, i)
           q == SubSeq(key, 1, m)
<1>1. Len(key) \in Nat /\ Len(other) \in Nat /\ i \in Nat /\ m \in Nat /\ m \in 0 .. Len(key)
  BY LenProperties DEF Paths
<1>2. p \in Paths /\ Len(p) = i /\ q \in Paths /\ Len(q) = m
  BY <1>1, SlotsOfPrefix
<1>3. p = SubSeq(other, 1, i) /\ i \in 0 .. Len(other)
  <2>1. IsPrefix(p, other)
    OBVIOUS
  <2> HIDE DEF p
  <2> QED BY <1>2, <2>1, PrefixFacts
<1>4. \A j \in 1 .. i : p[j] = key[j] /\ p[j] = other[j]
  <2>1. \A j \in 1 .. i : p[j] = key[j]
    BY <1>1 DEF Paths
  <2>2. \A j \in 1 .. i : SubSeq(other, 1, i)[j] = other[j]
    BY <1>1, <1>3 DEF Paths
  <2> HIDE DEF p
  <2> QED BY <1>3, <2>1, <2>2
<1>5. SubSeq(other, 1, m) \in Paths /\ Len(SubSeq(other, 1, m)) = m
  <2>1. m \in 0 .. Len(other)
    BY <1>1, <1>3
  <2> QED BY <2>1, SlotsOfPrefix
<1>6. q = SubSeq(other, 1, m)
  <2>1. \A j \in 1 .. m : q[j] = key[j]
    BY <1>1 DEF Paths
  <2>2. \A j \in 1 .. m : SubSeq(other, 1, m)[j] = other[j]
    BY <1>1, <1>3 DEF Paths
  <2>3. \A j \in 1 .. m : key[j] = other[j]
    BY <1>1, <1>4
  <2> DEFINE o == SubSeq(other, 1, m)
  <2>4. o \in Seq(Steps) /\ Len(o) = m /\ q \in Seq(Steps) /\ Len(q) = m
    BY <1>2, <1>5 DEF Paths
  <2>5. \A j \in 1 .. m : q[j] = o[j]
    BY <2>1, <2>2, <2>3
  <2> HIDE DEF q, o
  <2>6. q = o
    BY <2>4, <2>5, SeqEqual
  <2> QED BY <2>6 DEF o
<1>7. IsPrefix(q, other)
  <2>1. m \in 0 .. Len(other)
    BY <1>1, <1>3
  <2> HIDE DEF q
  <2> QED BY <1>2, <1>6, <2>1, PrefixFacts
<1>8. m < i => other[m + 1] = key[m + 1]
  <2>1. m < i => m + 1 \in 1 .. i
    BY <1>1
  <2> HIDE DEF p
  <2> QED BY <1>4, <2>1
<1> QED BY <1>1, <1>3, <1>7, <1>8

(* The flags that have an effect, one more at a time. *)
Lost(flags, done, key) ==
  key = << >> \/ Through(flags, done, key) # {} \/ OutgrowsElement(flags, done, key)

With(flags, done, i) == IF Lost(flags, done, flags[i].key) THEN done ELSE done \cup {i}

(* The recursive function of Effective exists. *)
LEMMA EffectiveSteps ==
  ASSUME NEW flags \in Seq(Flags)
  PROVE  \E upTo : /\ Effective(flags) = upTo[Len(flags)]
                   /\ upTo[0] = {}
                   /\ \A i \in 1 .. Len(flags) : upTo[i] = With(flags, upTo[i - 1], i)
<1> DEFINE n == Len(flags)
           Table(f, m) == [i \in 0 .. m |->
                            IF i = 0 THEN {} ELSE With(flags, f[i - 1], i)]
           S == {m \in Nat : \E f : f = Table(f, m)}
           upTo == CHOOSE f : f = Table(f, n)
<1>1. n \in Nat
  BY LenProperties
<1>2. Effective(flags) = upTo[n]
  BY DEF Effective, With, Lost
<1> HIDE DEF n
<1>3. 0 \in S
  <2> DEFINE f == [i \in 0 .. 0 |-> {}]
  <2>1. f = Table(f, 0)
    OBVIOUS
  <2> HIDE DEF Table, f
  <2> QED BY <2>1
<1>4. ASSUME NEW m \in S PROVE m + 1 \in S
  <2>1. PICK f : f = Table(f, m)
    OBVIOUS
  <2> DEFINE g == [i \in 0 .. m + 1 |-> IF i = m + 1 THEN With(flags, f[m], m + 1) ELSE f[i]]
  <2>2. \A i \in 0 .. m + 1 : g[i] = IF i = 0 THEN {} ELSE With(flags, g[i - 1], i)
    <3>1. g[0] = {}
      BY <2>1
    <3>2. g[m + 1] = With(flags, g[m], m + 1)
      OBVIOUS
    <3>3. ASSUME NEW i \in 1 .. m PROVE g[i] = With(flags, g[i - 1], i)
      BY <2>1
    <3>4. m \in Nat
      OBVIOUS
    <3>5. \A i \in 0 .. m + 1 : i = 0 \/ (i = m + 1 /\ i # 0 /\ i - 1 = m) \/ (i \in 1 .. m /\ i # 0)
      BY <3>4
    <3> HIDE DEF g
    <3> QED BY <3>1, <3>2, <3>3, <3>5
  <2>3. g = Table(g, m + 1) /\ m + 1 \in Nat
    BY <2>2
  <2> HIDE DEF g, Table
  <2> QED BY <2>3
<1> HIDE DEF S
<1>5. n \in S
  BY <1>1, <1>3, <1>4, SetInduction
<1>6. upTo = Table(upTo, n)
  BY <1>5 DEF S
<1> HIDE DEF upTo
<1>7. upTo[0] = {} /\ \A i \in 1 .. n : upTo[i] = With(flags, upTo[i - 1], i)
  <2>1. upTo = [i \in 0 .. n |-> IF i = 0 THEN {} ELSE With(flags, upTo[i - 1], i)]
    BY <1>6
  <2>2. \A i \in 0 .. n : upTo[i] = IF i = 0 THEN {} ELSE With(flags, upTo[i - 1], i)
    BY <2>1, Zenon
  <2>3. 0 \in 0 .. n /\ \A i \in 1 .. n : i \in 0 .. n /\ i # 0
    BY <1>1
  <2> HIDE DEF Table
  <2> QED BY <2>2, <2>3
<1> QED BY <1>2, <1>7 DEF n

LEMMA EffectiveOfNone == Effective(<< >>) = {}
<1>1. << >> \in Seq(Flags) /\ Len(<< >>) = 0
  BY EmptySeq
<1> QED BY <1>1, EffectiveSteps

(* One more flag changes nothing that is said of the flags before it. *)
LEMMA SameThrough ==
  ASSUME NEW flags \in Seq(Flags), NEW f \in Flags,
         NEW done \in SUBSET (1 .. Len(flags)), NEW key
  PROVE  /\ \A q : Through(Append(flags, f), done, q) = Through(flags, done, q)
         /\ Lost(Append(flags, f), done, key) <=> Lost(flags, done, key)
         /\ Conflicts(Append(flags, f), done, key) <=> Conflicts(flags, done, key)
<1> DEFINE more == Append(flags, f)
<1>1. \A j \in done : more[j] = flags[j]
  <2>1. Len(flags) \in Nat
    BY LenProperties
  <2>2. \A j \in 1 .. Len(flags) : more[j] = flags[j]
    BY <2>1, AppendProperties
  <2> QED BY <2>2
<1> HIDE DEF more
<1>2. \A q : Through(more, done, q) = Through(flags, done, q)
  BY <1>1 DEF Through
<1>3. \A q : \A j \in Through(flags, done, q) : more[j] = flags[j]
  BY <1>1 DEF Through
<1>4. OutgrowsElement(more, done, key) <=> OutgrowsElement(flags, done, key)
  BY <1>2, <1>3 DEF OutgrowsElement
<1>5. Conflicts(more, done, key) <=> Conflicts(flags, done, key)
  BY <1>2, <1>3 DEF Conflicts
<1> QED BY <1>2, <1>4, <1>5 DEF more, Lost

(***************************************************************************)
(* The flags with an effect among one more flag: those before it, and it   *)
(* if it is not lost.                                                      *)
(***************************************************************************)
LEMMA EffectiveAppend ==
  ASSUME NEW flags \in Seq(Flags), NEW f \in Flags
  PROVE  LET done == Effective(flags)
         IN /\ done \subseteq 1 .. Len(flags)
            /\ Effective(Append(flags, f))
                 = IF Lost(flags, done, f.key) THEN done ELSE done \cup {Len(flags) + 1}
<1> DEFINE more == Append(flags, f)
           n == Len(flags)
<1>1. /\ n \in Nat /\ more \in Seq(Flags) /\ Len(more) = n + 1 /\ more[n + 1] = f
      /\ \A i \in 1 .. n : more[i] = flags[i]
  BY LenProperties, AppendProperties
<1>2. PICK u : /\ Effective(flags) = u[n] /\ u[0] = {}
               /\ \A i \in 1 .. n : u[i] = With(flags, u[i - 1], i)
  BY EffectiveSteps
<1>3. PICK w : /\ Effective(more) = w[n + 1] /\ w[0] = {}
               /\ \A i \in 1 .. n + 1 : w[i] = With(more, w[i - 1], i)
  <2> HIDE DEF more
  <2>1. PICK w : /\ Effective(more) = w[Len(more)] /\ w[0] = {}
                 /\ \A i \in 1 .. Len(more) : w[i] = With(more, w[i - 1], i)
    BY <1>1, EffectiveSteps
  <2> QED BY <1>1, <2>1
<1> DEFINE S == {m \in Nat : m <= n => w[m] = u[m] /\ u[m] \subseteq 1 .. m}
<1> HIDE DEF more, n
<1>4. 0 \in S
  BY <1>2, <1>3
<1>5. ASSUME NEW m \in S PROVE m + 1 \in S
  <2>1. SUFFICES ASSUME m + 1 <= n PROVE w[m + 1] = u[m + 1] /\ u[m + 1] \subseteq 1 .. m + 1
    OBVIOUS
  <2>2. m \in Nat /\ m + 1 \in 1 .. n /\ m + 1 \in 1 .. n + 1 /\ (m + 1) - 1 = m
    BY <1>1, <2>1
  <2>3. w[m] = u[m] /\ u[m] \subseteq 1 .. m /\ 1 .. m \subseteq 1 .. n
    BY <1>1, <2>1, <2>2
  <2>4. u[m + 1] = With(flags, u[m], m + 1) /\ w[m + 1] = With(more, u[m], m + 1)
    BY <1>2, <1>3, <2>2, <2>3
  <2>5. more[m + 1] = flags[m + 1]
    BY <1>1, <2>2
  <2>6. Lost(more, u[m], flags[m + 1].key) <=> Lost(flags, u[m], flags[m + 1].key)
    <3>1. u[m] \in SUBSET (1 .. Len(flags))
      BY <2>3 DEF n
    <3> HIDE DEF S
    <3> QED BY <3>1, SameThrough DEF more
  <2>7. u[m + 1] = w[m + 1]
    BY <2>4, <2>5, <2>6 DEF With
  <2>8. u[m + 1] \subseteq u[m] \cup {m + 1}
    BY <2>4 DEF With
  <2>9. 1 .. m \subseteq 1 .. m + 1 /\ m + 1 \in 1 .. m + 1
    BY <2>2
  <2> HIDE DEF S
  <2> QED BY <2>3, <2>7, <2>8, <2>9
<1> HIDE DEF S
<1>6. n \in S
  BY <1>1, <1>4, <1>5, SetInduction
<1>7. w[n] = u[n] /\ u[n] \subseteq 1 .. n
  BY <1>1, <1>6 DEF S
<1>8. w[n + 1] = With(more, u[n], n + 1)
  <2>1. n + 1 \in 1 .. n + 1 /\ (n + 1) - 1 = n
    BY <1>1
  <2> QED BY <1>3, <1>7, <2>1
<1>9. Lost(more, u[n], f.key) <=> Lost(flags, u[n], f.key)
  BY <1>7, SameThrough DEF n, more
<1> QED BY <1>1, <1>2, <1>3, <1>7, <1>8, <1>9 DEF With, n, more

-----------------------------------------------------------------------------
(* The invariant that ties every slot of the result to the flags. *)

(* The earliest of the flags through q. *)
First(flags, done, q) ==
  {j \in Through(flags, done, q) : \A k \in Through(flags, done, q) : j <= k}

(* What a flag that goes through a path of m steps finds there. *)
Holds(slot, flag, m) ==
  IF m = Len(flag.key) THEN slot = String(flag.text)
  ELSE slot.kind = IF flag.key[m + 1].kind = "name" THEN "map" ELSE "slice"

(* Nothing in the key is refused by itself. *)
Readable(key) ==
  /\ key # << >> /\ key[1].kind = "name"
  /\ \A i \in 1 .. Len(key) : key[i] # Junk

(***************************************************************************)
(* Where no flag goes there is nothing; a flag finds its containers and    *)
(* its text; and a slice that is an element of a slice has the length that *)
(* the earliest flag through it gave it.                                   *)
(***************************************************************************)
Fits(d, flags, done) ==
  /\ done \subseteq 1 .. Len(flags)
  /\ \A j \in done : Readable(flags[j].key)
  /\ \A q \in Paths : q # << >> /\ Through(flags, done, q) = {} => SlotAt(d, q) = Nil
  /\ \A q \in Paths : \A j \in Through(flags, done, q) : Holds(SlotAt(d, q), flags[j], Len(q))
  /\ \A q \in Paths :
       q # << >> /\ q[Len(q)].kind = "index" /\ SlotAt(d, q).kind = "slice" =>
         \A j \in First(flags, done, q) :
           Len(SlotAt(d, q).items) = flags[j].key[Len(q) + 1].at + 1

LEMMA FlagsFacts ==
  ASSUME NEW flags \in Seq(Flags), NEW j \in 1 .. Len(flags)
  PROVE  /\ flags[j] \in Flags /\ flags[j].key \in Paths /\ Len(flags[j].key) \in Nat
         /\ \A i \in 1 .. Len(flags[j].key) : flags[j].key[i] \in Steps
<1>1. flags[j] \in Flags
  BY ElementOfSeq
<1>2. flags[j].key \in Paths
  BY <1>1, KeysArePaths DEF Flags
<1> DEFINE key == flags[j].key
<1> HIDE DEF key
<1>3. key \in Paths
  BY <1>2 DEF key
<1>4. Len(key) \in Nat /\ \A i \in 1 .. Len(key) : key[i] \in Steps
  BY <1>3, LenProperties, ElementOfSeq DEF Paths
<1> QED BY <1>1, <1>3, <1>4 DEF key

LEMMA FirstExists ==
  ASSUME NEW flags, NEW done, NEW n \in Nat, done \subseteq 1 .. n, NEW q,
         Through(flags, done, q) # {}
  PROVE  First(flags, done, q) # {}
<1> DEFINE T == Through(flags, done, q)
<1>1. T \subseteq Nat /\ T # {}
  <2>1. T \subseteq done
    BY DEF Through
  <2>2. done \subseteq Nat
    OBVIOUS
  <2> QED BY <2>1, <2>2
<1> HIDE DEF T
<1>2. PICK x \in T : \A y \in T : ~ (<<y, x>> \in OpToRel(<, Nat))
  <2>1. IsWellFoundedOn(OpToRel(<, Nat), Nat)
    BY NatLessThanWellFounded
  <2> QED BY <1>1, <2>1, WFMin
<1>3. \A y \in T : ~ (y < x)
  BY <1>1, <1>2 DEF OpToRel
<1>4. \A y \in T : x <= y
  BY <1>1, <1>3
<1> QED BY <1>4 DEF First, T

(* What assign finds after i - 1 steps takes the next one if no flag disagrees. *)
LEMMA TakesOrDisagrees ==
  ASSUME NEW d, IsTree(d), d.kind = "map", NEW flags \in Seq(Flags), NEW done,
         Fits(d, flags, done), NEW key \in Paths, NEW i \in 1 .. Len(key) - 1
  PROVE  ~Takes(Slots(d, key)[i], key[i + 1])
           <=> \/ key[i + 1] = Junk
               \/ \E j \in Through(flags, done, SubSeq(key, 1, i)) :
                    Len(flags[j].key) = i \/ flags[j].key[i + 1].kind # key[i + 1].kind
<1> DEFINE p == SubSeq(key, 1, i)
           T == Through(flags, done, p)
           slot == Slots(d, key)[i]
           s == key[i + 1]
<1>1. Len(key) \in Nat /\ i \in 0 .. Len(key) /\ i + 1 \in 1 .. Len(key) /\ i \in Nat /\ i # 0
  BY LenProperties DEF Paths
<1>2. p \in Paths /\ Len(p) = i /\ slot = SlotAt(d, p)
  BY <1>1, SlotsOfPrefix
<1>3. s \in Steps
  BY <1>1, ElementOfSeq DEF Paths
<1>4. p # << >>
  BY <1>1, <1>2
<1>5. T = {} => slot = Nil
  BY <1>2, <1>4 DEF Fits
<1>6. ASSUME NEW j \in T
      PROVE  /\ flags[j].key \in Paths /\ Holds(slot, flags[j], i)
             /\ Len(flags[j].key) \in Nat /\ Len(flags[j].key) >= i
             /\ Len(flags[j].key) # i => flags[j].key[i + 1].kind \in {"name", "index"}
  <2>1. j \in done /\ IsPrefix(p, flags[j].key) /\ j \in 1 .. Len(flags)
    BY DEF Through, Fits
  <2>2. flags[j].key \in Paths /\ Len(flags[j].key) \in Nat
        /\ \A k \in 1 .. Len(flags[j].key) : flags[j].key[k] \in Steps
    BY <2>1, FlagsFacts
  <2>3. i \in 0 .. Len(flags[j].key)
    <3> HIDE DEF p
    <3> QED BY <1>2, <2>1, <2>2, PrefixFacts
  <2>4. Holds(slot, flags[j], i)
    BY <1>2 DEF Fits
  <2>5. ASSUME Len(flags[j].key) # i PROVE flags[j].key[i + 1].kind \in {"name", "index"}
    <3>1. i + 1 \in 1 .. Len(flags[j].key)
      BY <1>1, <2>2, <2>3, <2>5
    <3>2. flags[j].key[i + 1] # Junk
      BY <2>1, <3>1 DEF Fits, Readable
    <3> QED BY <2>2, <3>1, <3>2, StepKinds
  <2> QED BY <1>1, <2>2, <2>3, <2>4, <2>5
<1> HIDE DEF p, T, slot, s
<1>7. ASSUME s = Junk PROVE ~Takes(slot, s)
  BY <1>7 DEF Takes, Junk
<1>8. ASSUME NEW j \in T, Len(flags[j].key) = i PROVE ~Takes(slot, s)
  BY <1>6, <1>8 DEF Holds, String, Takes
<1>9. ASSUME NEW j \in T, Len(flags[j].key) # i
      PROVE  Takes(slot, s) <=> flags[j].key[i + 1].kind = s.kind
  <2>1. slot.kind = IF flags[j].key[i + 1].kind = "name" THEN "map" ELSE "slice"
    BY <1>6, <1>9 DEF Holds
  <2>2. flags[j].key[i + 1].kind \in {"name", "index"}
    BY <1>6, <1>9
  <2> QED BY <2>1, <2>2 DEF Takes
<1>10. ASSUME T = {}, s # Junk PROVE Takes(slot, s)
  <2>1. s.kind \in {"name", "index"}
    BY <1>3, <1>10, StepKinds
  <2> QED BY <1>5, <1>10, <2>1 DEF Takes, Nil
<1>11. ~Takes(slot, s)
         <=> \/ s = Junk
             \/ \E j \in T : Len(flags[j].key) = i \/ flags[j].key[i + 1].kind # s.kind
  <2>1. CASE T = {}
    BY <1>7, <1>10, <2>1
  <2>2. CASE T # {}
    <3>1. PICK j \in T : TRUE
      BY <2>2
    <3>2. CASE Takes(slot, s)
      BY <1>7, <1>8, <1>9, <3>2
    <3>3. CASE ~Takes(slot, s)
      BY <1>9, <3>1, <3>3
    <3> QED BY <3>2, <3>3
  <2> QED BY <2>1, <2>2
<1> QED BY <1>11 DEF p, T, slot, s

(***************************************************************************)
(* Map fails at a flag if and only if it conflicts with one that has an    *)
(* effect.                                                                 *)
(***************************************************************************)
LEMMA ErrorIffConflict ==
  ASSUME NEW d, IsTree(d), d.kind = "map", NEW flags \in Seq(Flags), NEW done,
         Fits(d, flags, done), NEW key \in Paths, NEW t
  PROVE  assign(d, key, t) = Error <=> Conflicts(flags, done, key)
<1> DEFINE Refused(i) == ~Takes(Slots(d, key)[i - 1], key[i])
           Disagrees(i) == \E j \in Through(flags, done, SubSeq(key, 1, i)) :
                             Len(flags[j].key) = i \/ flags[j].key[i + 1].kind # key[i + 1].kind
<1>1. Len(key) \in Nat /\ DOMAIN key = 1 .. Len(key)
  BY LenProperties DEF Paths
<1>2. assign(d, key, t) = Error <=> \E i \in 1 .. Len(key) : Refused(i)
  BY AssignOrError
<1>3. ASSUME key # << >> PROVE Refused(1) <=> key[1].kind # "name"
  <2>1. Slots(d, key)[1 - 1] = d
    BY SlotsFacts
  <2> QED BY <2>1 DEF Takes
<1>4. ASSUME NEW i \in 1 .. Len(key) - 1
      PROVE  Refused(i + 1) <=> key[i + 1] = Junk \/ Disagrees(i)
  <2>1. (i + 1) - 1 = i
    OBVIOUS
  <2> QED BY <2>1, TakesOrDisagrees
<1>5. Conflicts(flags, done, key) <=> \/ \E i \in 1 .. Len(key) : key[i] = Junk
                                      \/ key # << >> /\ key[1].kind # "name"
                                      \/ \E i \in 1 .. Len(key) - 1 : Disagrees(i)
  BY <1>1 DEF Conflicts
<1> HIDE DEF Refused, Disagrees
<1>6. key # << >> <=> 1 \in 1 .. Len(key)
  <2>1. key = << >> <=> Len(key) = 0
    BY EmptySeq DEF Paths
  <2> QED BY <1>1, <2>1
<1>7. \A i \in 1 .. Len(key) : i = 1 \/ (i - 1 \in 1 .. Len(key) - 1 /\ (i - 1) + 1 = i)
  BY <1>1
<1>8. \A i \in 1 .. Len(key) - 1 : i + 1 \in 1 .. Len(key)
  BY <1>1
<1>9. ASSUME NEW i \in 1 .. Len(key), Refused(i) PROVE Conflicts(flags, done, key)
  <2>1. CASE i = 1
    BY <1>3, <1>5, <1>6, <1>9, <2>1
  <2>2. CASE i # 1
    <3>1. i - 1 \in 1 .. Len(key) - 1 /\ (i - 1) + 1 = i
      BY <1>7, <2>2
    <3>2. key[i] = Junk \/ Disagrees(i - 1)
      BY <1>4, <1>9, <3>1
    <3> QED BY <1>5, <3>1, <3>2
  <2> QED BY <2>1, <2>2
<1>10. ASSUME Conflicts(flags, done, key) PROVE \E i \in 1 .. Len(key) : Refused(i)
  <2>1. CASE key # << >> /\ key[1].kind # "name"
    BY <1>3, <1>6, <2>1
  <2>2. CASE \E i \in 1 .. Len(key) - 1 : Disagrees(i)
    BY <1>4, <1>8, <2>2
  <2>3. CASE \E i \in 1 .. Len(key) : key[i] = Junk
    <3>1. PICK i \in 1 .. Len(key) : key[i] = Junk
      BY <2>3
    <3>2. CASE i = 1
      BY <1>3, <1>6, <3>1, <3>2 DEF Junk
    <3>3. CASE i # 1
      <4>1. i - 1 \in 1 .. Len(key) - 1 /\ (i - 1) + 1 = i
        BY <1>7, <3>3
      <4> QED BY <1>4, <3>1, <4>1
    <3> QED BY <3>2, <3>3
  <2> QED BY <1>5, <1>10, <2>1, <2>2, <2>3
<1> QED BY <1>2, <1>9, <1>10

(***************************************************************************)
(* A value is dropped if and only if the key would lengthen a slice in a   *)
(* slice.                                                                  *)
(***************************************************************************)
LEMMA DroppedIffOutgrows ==
  ASSUME NEW d, IsTree(d), d.kind = "map", NEW flags \in Seq(Flags), NEW done,
         Fits(d, flags, done), NEW key \in Paths, NEW t, assign(d, key, t) # Error
  PROVE  (\E i \in 1 .. Len(key) - 1 : Dropped(Slots(d, key), key, i))
           <=> OutgrowsElement(flags, done, key)
<1>1. Len(key) \in Nat
  BY LenProperties DEF Paths
<1>2. ASSUME NEW i \in 1 .. Len(key) - 1
      PROVE  Dropped(Slots(d, key), key, i)
               <=> /\ key[i].kind = "index" /\ key[i + 1].kind = "index"
                   /\ \E j \in First(flags, done, SubSeq(key, 1, i)) :
                        key[i + 1].at > flags[j].key[i + 1].at
  <2> DEFINE p == SubSeq(key, 1, i)
             slot == Slots(d, key)[i]
             s == key[i + 1]
  <2>1. i \in 0 .. Len(key) /\ i + 1 \in 1 .. Len(key) /\ i \in Nat /\ i # 0 /\ (i + 1) - 1 = i
        /\ i \in 1 .. i
    BY <1>1
  <2>2. p \in Paths /\ Len(p) = i /\ slot = SlotAt(d, p) /\ p[Len(p)] = key[i] /\ p # << >>
    <3>1. p \in Paths /\ Len(p) = i /\ slot = SlotAt(d, p)
      BY <2>1, SlotsOfPrefix
    <3>2. p[i] = key[i]
      BY <1>1, <2>1 DEF Paths
    <3>3. p # << >>
      BY <2>1, <3>1
    <3> HIDE DEF p
    <3> QED BY <3>1, <3>2, <3>3
  <2>3. s \in Steps /\ Takes(slot, s)
    <3>1. s \in Steps
      BY <2>1, ElementOfSeq DEF Paths
    <3>2. ~ \E k \in 1 .. Len(key) : ~Takes(Slots(d, key)[k - 1], key[k])
      BY AssignOrError
    <3> QED BY <2>1, <3>1, <3>2
  <2>4. Dropped(Slots(d, key), key, i) <=> /\ key[i].kind = "index" /\ slot.kind = "slice"
                                           /\ s.at >= Len(slot.items)
    BY DEF Dropped
  <2>5. ASSUME NEW j \in First(flags, done, p)
        PROVE  /\ j \in Through(flags, done, p) /\ Holds(slot, flags[j], i)
               /\ Len(flags[j].key) # i /\ flags[j].key[i + 1].kind = "index" =>
                    flags[j].key[i + 1].at \in Nat
    <3>1. j \in Through(flags, done, p) /\ j \in done /\ j \in 1 .. Len(flags)
          /\ IsPrefix(p, flags[j].key)
      BY DEF First, Through, Fits
    <3>2. Holds(slot, flags[j], i)
      BY <2>2, <3>1 DEF Fits
    <3>3. ASSUME Len(flags[j].key) # i, flags[j].key[i + 1].kind = "index"
          PROVE flags[j].key[i + 1].at \in Nat
      <4>1. flags[j].key \in Paths /\ Len(flags[j].key) \in Nat
            /\ \A k \in 1 .. Len(flags[j].key) : flags[j].key[k] \in Steps
        BY <3>1, FlagsFacts
      <4>2. i \in 0 .. Len(flags[j].key)
        <5> HIDE DEF p
        <5> QED BY <2>2, <3>1, <4>1, PrefixFacts
      <4>3. i + 1 \in 1 .. Len(flags[j].key)
        BY <2>1, <3>3, <4>1, <4>2
      <4> QED BY <3>3, <4>1, <4>3, StepKinds
    <3> QED BY <3>1, <3>2, <3>3
  <2>6. slot.kind = "slice" /\ key[i].kind = "index" =>
          /\ s.kind = "index" /\ s.at \in Nat
          /\ First(flags, done, p) # {}
          /\ \A j \in First(flags, done, p) : Len(slot.items) = flags[j].key[i + 1].at + 1
    <3> SUFFICES ASSUME slot.kind = "slice", key[i].kind = "index"
                 PROVE  /\ s.kind = "index" /\ s.at \in Nat
                        /\ First(flags, done, p) # {}
                        /\ \A j \in First(flags, done, p) :
                             Len(slot.items) = flags[j].key[i + 1].at + 1
      OBVIOUS
    <3>1. s.kind = "index"
      BY <2>3 DEF Takes
    <3>2. s.at \in Nat
      BY <2>3, <3>1, StepKinds
    <3>3. Through(flags, done, p) # {}
      <4>1. slot # Nil
        BY DEF Nil
      <4> HIDE DEF p, slot
      <4> QED BY <2>2, <4>1 DEF Fits
    <3>4. First(flags, done, p) # {}
      <4> HIDE DEF p
      <4>1. Len(flags) \in Nat
        BY LenProperties
      <4> QED BY <3>3, <4>1, FirstExists DEF Fits
    <3>5. \A j \in First(flags, done, p) : Len(slot.items) = flags[j].key[i + 1].at + 1
      <4> HIDE DEF p, slot
      <4> QED BY <2>2 DEF Fits
    <3> QED BY <3>1, <3>2, <3>4, <3>5
  <2>7. ASSUME NEW j \in First(flags, done, p), key[i].kind = "index", s.kind = "index"
        PROVE  slot.kind = "slice" /\ flags[j].key[i + 1].at \in Nat
    <3>1. Holds(slot, flags[j], i)
      BY <2>5
    <3>2. slot.kind \in {"nil", "slice"}
      BY <2>3, <2>7 DEF Takes
    <3>3. Len(flags[j].key) # i
      BY <3>1, <3>2 DEF Holds, String
    <3>4. slot.kind = "slice" /\ flags[j].key[i + 1].kind # "name"
      BY <3>1, <3>2, <3>3 DEF Holds
    <3>5. flags[j].key[i + 1].kind = "index"
      <4>1. j \in done /\ j \in 1 .. Len(flags) /\ IsPrefix(p, flags[j].key)
        BY DEF First, Through, Fits
      <4>2. flags[j].key \in Paths /\ Len(flags[j].key) \in Nat
            /\ \A k \in 1 .. Len(flags[j].key) : flags[j].key[k] \in Steps
        BY <4>1, FlagsFacts
      <4>3. i \in 0 .. Len(flags[j].key)
        <5> HIDE DEF p
        <5> QED BY <2>2, <4>1, <4>2, PrefixFacts
      <4>4. i + 1 \in 1 .. Len(flags[j].key)
        BY <2>1, <3>3, <4>2, <4>3
      <4>5. flags[j].key[i + 1] # Junk
        BY <4>1, <4>4 DEF Fits, Readable
      <4> QED BY <3>4, <4>2, <4>4, <4>5, StepKinds
    <3> QED BY <2>5, <3>3, <3>4, <3>5
  <2> HIDE DEF p, slot, s
  <2>8. ASSUME Dropped(Slots(d, key), key, i)
        PROVE  /\ key[i].kind = "index" /\ s.kind = "index"
               /\ \E j \in First(flags, done, p) : s.at > flags[j].key[i + 1].at
    <3>1. key[i].kind = "index" /\ slot.kind = "slice" /\ s.at >= Len(slot.items)
      BY <2>4, <2>8
    <3>2. PICK j \in First(flags, done, p) : Len(slot.items) = flags[j].key[i + 1].at + 1
      BY <2>6, <3>1
    <3>3. s.kind = "index" /\ s.at \in Nat
      BY <2>6, <3>1
    <3>4. flags[j].key[i + 1].at \in Nat
      BY <2>7, <3>1, <3>3
    <3> QED BY <3>1, <3>2, <3>3, <3>4
  <2>9. ASSUME key[i].kind = "index", s.kind = "index",
               NEW j \in First(flags, done, p), s.at > flags[j].key[i + 1].at
        PROVE  Dropped(Slots(d, key), key, i)
    <3>1. slot.kind = "slice" /\ flags[j].key[i + 1].at \in Nat
      BY <2>7, <2>9
    <3>2. s.at \in Nat /\ Len(slot.items) = flags[j].key[i + 1].at + 1
      BY <2>6, <2>9, <3>1
    <3> QED BY <2>4, <2>9, <3>1, <3>2
  <2>10. Dropped(Slots(d, key), key, i)
           <=> /\ key[i].kind = "index" /\ s.kind = "index"
               /\ \E j \in First(flags, done, p) : s.at > flags[j].key[i + 1].at
    BY <2>8, <2>9
  <2> QED BY <2>10 DEF p, s
<1> QED BY <1>2 DEF OutgrowsElement, First

(* What stays the same of a slot on the way of a flag that is lost. *)
Alike(old, new) ==
  /\ new.kind = old.kind
  /\ old.kind \notin {"map", "slice"} => new = old
  /\ old.kind = "slice" => Len(new.items) = Len(old.items)

-----------------------------------------------------------------------------
(* A flag that is lost. *)

LEMMA HoldsSomething ==
  ASSUME NEW slot, NEW flag, NEW m, Holds(slot, flag, m)
  PROVE  slot.kind \in {"string", "map", "slice"} /\ slot # Nil
<1>1. slot.kind \in {"string", "map", "slice"}
  BY DEF Holds, String
<1> QED BY <1>1 DEF Nil

LEMMA SetInOld ==
  ASSUME NEW old, IsSlot(old), NEW s \in Steps, Takes(old, s), NEW v,
         old # Nil, s.kind = "index" => s.at < Len(old.items)
  PROVE  Alike(old, SetAt(old, s, v))
<1> DEFINE new == SetAt(old, s, v)
<1>1. old.kind # "nil"
  BY DEF IsSlot, Nil, String, MapOf, SliceOf
<1>2. /\ new.kind = IF s.kind = "name" THEN "map" ELSE "slice"
      /\ new.kind = "slice" =>
           Len(new.items) = IF s.at + 1 > Len(old.items) THEN s.at + 1 ELSE Len(old.items)
  BY SetAtFacts
<1> HIDE DEF new
<1>3. CASE s.kind = "name"
  <2>1. old.kind = "map"
    BY <1>1, <1>3 DEF Takes
  <2> QED BY <1>2, <1>3, <2>1 DEF Alike, new
<1>4. CASE s.kind = "index"
  <2>1. old.kind = "slice" /\ new.kind = "slice"
    BY <1>1, <1>2, <1>4 DEF Takes
  <2>2. Len(old.items) \in Nat /\ s.at \in Nat
    BY <1>4, <2>1, StepKinds DEF IsSlot, Nil, String, MapOf, SliceOf
  <2>3. Len(new.items) = Len(old.items)
    BY <1>2, <1>4, <2>1, <2>2
  <2> QED BY <2>1, <2>3 DEF Alike, new
<1> QED BY <1>3, <1>4 DEF Takes

LEMMA OnWayIsUndropped ==
  ASSUME NEW d, NEW key \in Paths, NEW q \in Paths, OnWay(d, key, q)
  PROVE  \A i \in 1 .. Len(q) - 1 : ~Dropped(Slots(d, key), key, i)
<1>1. PICK i \in 0 .. Len(key) :
        q = SubSeq(key, 1, i) /\ \A j \in 1 .. i - 1 : ~Dropped(Slots(d, key), key, j)
  BY DEF OnWay
<1>2. Len(q) = i
  BY <1>1, SlotsOfPrefix
<1> QED BY <1>1, <1>2

LEMMA WholePrefix ==
  ASSUME NEW key \in Paths
  PROVE  Len(key) \in 0 .. Len(key) /\ SubSeq(key, 1, Len(key)) = key
<1>1. Len(key) \in 0 .. Len(key)
  BY LenProperties DEF Paths
<1> DEFINE p == SubSeq(key, 1, Len(key))
<1>2. p \in Paths /\ Len(p) = Len(key) /\ IsPrefix(p, key)
  BY <1>1, SlotsOfPrefix, PrefixIsPrefix
<1> HIDE DEF p
<1>3. p = key
  BY <1>2, PrefixFacts
<1> QED BY <1>1, <1>3 DEF p

(* Where assign goes on for a flag that is lost, an earlier one has been. *)
LEMMA LostFollows ==
  ASSUME NEW d, IsTree(d), d.kind = "map", NEW flags \in Seq(Flags), NEW done,
         Fits(d, flags, done), NEW key \in Paths, NEW t, assign(d, key, t) # Error,
         Lost(flags, done, key), NEW q \in Paths, OnWay(d, key, q), Len(q) # Len(key),
         ~Dropped(Slots(d, key), key, Len(q))
  PROVE  Through(flags, done, SubSeq(key, 1, Len(q) + 1)) # {}
<1> DEFINE m == Len(q)
           slots == Slots(d, key)
<1>1. m \in Nat /\ Len(key) \in Nat /\ m \in 0 .. Len(key) /\ m # Len(key)
  BY AssignOnWay, LenProperties DEF Paths
<1>6. SUFFICES Through(flags, done, SubSeq(key, 1, m + 1)) # {}
  OBVIOUS
<1> HIDE DEF m
<1>2. ASSUME NEW i \in 0 .. Len(key), m + 1 <= i, NEW j \in Through(flags, done, SubSeq(key, 1, i))
      PROVE  Through(flags, done, SubSeq(key, 1, m + 1)) # {}
  <2>1. j \in done /\ j \in 1 .. Len(flags) /\ IsPrefix(SubSeq(key, 1, i), flags[j].key)
    BY DEF Through, Fits
  <2>2. flags[j].key \in Paths /\ m + 1 \in 0 .. i
    BY <1>1, <1>2, <2>1, FlagsFacts
  <2>3. IsPrefix(SubSeq(key, 1, m + 1), flags[j].key)
    BY <2>1, <2>2, ShorterPrefix
  <2> QED BY <2>1, <2>3 DEF Through
<1>3. CASE key = << >>
  BY <1>1, <1>3, EmptySeq
<1>4. CASE Through(flags, done, key) # {}
  <2>1. PICK j : j \in Through(flags, done, key)
    BY <1>4
  <2>2. Len(key) \in 0 .. Len(key) /\ SubSeq(key, 1, Len(key)) = key /\ m + 1 <= Len(key)
    BY <1>1, WholePrefix
  <2>3. j \in Through(flags, done, SubSeq(key, 1, Len(key)))
    BY <2>1, <2>2
  <2> QED BY <1>2, <2>2, <2>3
<1>5. CASE OutgrowsElement(flags, done, key)
  <2>1. PICK i \in 1 .. Len(key) - 1 : Dropped(slots, key, i)
    BY <1>5, DroppedIffOutgrows
  <2>2. i \in 0 .. Len(key) /\ i \in Nat /\ i # 0
    BY <1>1
  <2>3. m + 1 <= i
    <3>1. \A k \in 1 .. m - 1 : ~Dropped(slots, key, k)
      BY OnWayIsUndropped DEF m
    <3>2. i # m /\ ~(i \in 1 .. m - 1)
      BY <2>1, <3>1 DEF m
    <3> QED BY <1>1, <2>2, <3>2
  <2> DEFINE p == SubSeq(key, 1, i)
  <2>4. p \in Paths /\ Len(p) = i /\ SlotAt(d, p) = slots[i]
    BY <2>2, SlotsOfPrefix
  <2>5. slots[i] # Nil
    BY <2>1 DEF Dropped, Nil
  <2>6. Through(flags, done, p) # {}
    <3>1. p # << >>
      BY <2>2, <2>4
    <3> HIDE DEF p, slots
    <3> QED BY <2>4, <2>5, <3>1 DEF Fits
  <2>7. PICK j : j \in Through(flags, done, SubSeq(key, 1, i))
    BY <2>6
  <2> QED BY <1>2, <2>2, <2>3, <2>7
<1> QED BY <1>3, <1>4, <1>5 DEF Lost

(***************************************************************************)
(* A flag that is lost leaves every slot as it was, but for what           *)
(* containers hold.                                                        *)
(***************************************************************************)
LEMMA LostIsAlike ==
  ASSUME NEW d, IsTree(d), d.kind = "map", NEW flags \in Seq(Flags), NEW done,
         Fits(d, flags, done), NEW key \in Paths, NEW t, assign(d, key, t) # Error,
         Lost(flags, done, key), NEW q \in Paths
  PROVE  Alike(SlotAt(d, q), SlotAt(assign(d, key, t), q))
<1> DEFINE old == SlotAt(d, q)
           new == SlotAt(assign(d, key, t), q)
           m == Len(q)
           s == key[m + 1]
<1>1. Alike(old, old)
  BY DEF Alike
<1>2. IsSlot(old)
  BY DEF IsTree
<1>3. CASE ~OnWay(d, key, q)
  BY <1>1, <1>3, AssignOnWay
<1>4. CASE OnWay(d, key, q) /\ m = Len(key)
  <2>1. new = Filled(old, t) /\ q = SubSeq(key, 1, m)
    BY <1>4, AssignOnWay
  <2>2. q = key
    BY <1>4, <2>1, WholePrefix
  <2>3. old # Nil
    <3>1. CASE key = << >>
      BY <2>2, <3>1, SlotAtEmpty DEF Nil
    <3>2. CASE Through(flags, done, key) # {}
      <4>1. PICK j : j \in Through(flags, done, q)
        BY <2>2, <3>2
      <4>2. Holds(old, flags[j], Len(q))
        BY <4>1 DEF Fits
      <4> QED BY <4>2, HoldsSomething
    <3>3. CASE OutgrowsElement(flags, done, key)
      <4>1. PICK i \in 1 .. Len(key) - 1 : Dropped(Slots(d, key), key, i)
        BY <3>3, DroppedIffOutgrows
      <4>2. \A k \in 1 .. Len(q) - 1 : ~Dropped(Slots(d, key), key, k)
        BY <1>4, OnWayIsUndropped
      <4> QED BY <2>2, <4>1, <4>2
    <3> QED BY <3>1, <3>2, <3>3 DEF Lost
  <2>4. new = old
    BY <2>1, <2>3 DEF Filled
  <2> QED BY <1>1, <2>4
<1>5. CASE OnWay(d, key, q) /\ m # Len(key) /\ Dropped(Slots(d, key), key, m)
  <2>1. new = old
    BY <1>5, AssignOnWay
  <2> QED BY <1>1, <2>1
<1>6. CASE OnWay(d, key, q) /\ m # Len(key) /\ ~Dropped(Slots(d, key), key, m)
  <2>1. /\ m \in 0 .. Len(key) /\ q = SubSeq(key, 1, m) /\ m + 1 \in 1 .. Len(key)
        /\ s \in Steps /\ Takes(old, s) /\ \E v : new = SetAt(old, s, v)
    BY <1>6, AssignOnWay
  <2>2. Through(flags, done, SubSeq(key, 1, m + 1)) # {}
    BY <1>6, LostFollows
  <2> DEFINE p == SubSeq(key, 1, m + 1)
  <2>3. p \in Paths /\ p = Append(q, s)
    <3>1. Len(key) \in Nat /\ m \in Nat /\ m < Len(key) /\ m + 1 \in 0 .. Len(key)
      BY <2>1, LenProperties DEF Paths
    <3>2. p = Append(SubSeq(key, 1, m), s)
      BY <3>1, PrefixAppend
    <3>3. p \in Paths
      BY <3>1, SlotsOfPrefix
    <3> QED BY <2>1, <3>2, <3>3
  <2> HIDE DEF p, new, old, m, s
  <2>4. PICK j : j \in Through(flags, done, p)
    BY <2>2 DEF p
  <2>5. SlotAt(d, p) # Nil
    <3>1. Holds(SlotAt(d, p), flags[j], Len(p))
      BY <2>3, <2>4 DEF Fits
    <3> QED BY <3>1, HoldsSomething
  <2>6. SlotAt(d, p) = Child(old, s)
    BY <2>1, <2>3, SlotAtAppend DEF old
  <2>7. Found(old, s)
    BY <2>5, <2>6 DEF Child
  <2>8. old # Nil /\ (s.kind = "index" => s.at < Len(old.items))
    BY <2>7 DEF Found, Nil
  <2>9. \A v : Alike(old, SetAt(old, s, v))
    BY <1>2, <2>1, <2>8, SetInOld
  <2> QED BY <2>1, <2>9 DEF old, new
<1> QED BY <1>3, <1>4, <1>5, <1>6

LEMMA AlikeFits ==
  ASSUME NEW d, NEW new, NEW flags, NEW done, Fits(d, flags, done),
         \A q \in Paths : Alike(SlotAt(d, q), SlotAt(new, q))
  PROVE  Fits(new, flags, done)
<1>1. ASSUME NEW q \in Paths, q # << >>, Through(flags, done, q) = {}
      PROVE  SlotAt(new, q) = Nil
  <2>1. SlotAt(d, q) = Nil
    BY <1>1 DEF Fits
  <2> QED BY <2>1 DEF Alike, Nil
<1>2. ASSUME NEW q \in Paths, NEW j \in Through(flags, done, q)
      PROVE  Holds(SlotAt(new, q), flags[j], Len(q))
  <2>1. Holds(SlotAt(d, q), flags[j], Len(q)) /\ Alike(SlotAt(d, q), SlotAt(new, q))
    BY DEF Fits
  <2> QED BY <2>1 DEF Holds, Alike, String
<1>3. ASSUME NEW q \in Paths, q # << >>, q[Len(q)].kind = "index",
             SlotAt(new, q).kind = "slice", NEW j \in First(flags, done, q)
      PROVE  Len(SlotAt(new, q).items) = flags[j].key[Len(q) + 1].at + 1
  <2>1. Alike(SlotAt(d, q), SlotAt(new, q))
    OBVIOUS
  <2>2. SlotAt(d, q).kind = "slice" /\ Len(SlotAt(new, q).items) = Len(SlotAt(d, q).items)
    BY <1>3, <2>1 DEF Alike
  <2>3. Len(SlotAt(d, q).items) = flags[j].key[Len(q) + 1].at + 1
    BY <1>3, <2>2 DEF Fits
  <2> QED BY <2>2, <2>3
<1>4. done \subseteq 1 .. Len(flags) /\ \A j \in done : Readable(flags[j].key)
  BY DEF Fits
<1> QED BY <1>1, <1>2, <1>3, <1>4 DEF Fits

LEMMA FitsWithMore ==
  ASSUME NEW d, NEW flags \in Seq(Flags), NEW f \in Flags, NEW done, Fits(d, flags, done)
  PROVE  Fits(d, Append(flags, f), done)
<1> DEFINE more == Append(flags, f)
<1>1. done \subseteq 1 .. Len(flags) /\ Len(flags) \in Nat /\ Len(more) = Len(flags) + 1
  BY LenProperties, AppendProperties DEF Fits
<1>2. \A j \in 1 .. Len(flags) : more[j] = flags[j]
  BY <1>1, AppendProperties
<1>3. \A q : Through(more, done, q) = Through(flags, done, q)
  BY <1>1, SameThrough
<1> HIDE DEF more
<1>4. \A q : First(more, done, q) = First(flags, done, q)
  BY <1>3 DEF First
<1>5. \A q : \A j \in Through(flags, done, q) : more[j] = flags[j]
  BY <1>1, <1>2 DEF Through
<1>6. \A q : \A j \in First(flags, done, q) : more[j] = flags[j]
  BY <1>5 DEF First
<1>7. done \subseteq 1 .. Len(more)
  <2>1. 1 .. Len(flags) \subseteq 1 .. Len(more)
    BY <1>1
  <2> QED BY <1>1, <2>1
<1>8. \A j \in done : more[j] = flags[j]
  BY <1>1, <1>2
<1>9. Fits(d, more, done)
  BY <1>3, <1>4, <1>5, <1>6, <1>7, <1>8 DEF Fits
<1> QED BY <1>9 DEF more

-----------------------------------------------------------------------------
(* A flag that has an effect. *)

(***************************************************************************)
(* Nothing is dropped on the way of such a flag, so it reaches the end of  *)
(* its key.                                                                *)
(***************************************************************************)
LEMMA OnWayIsPrefix ==
  ASSUME NEW d, NEW key \in Paths, \A i \in 1 .. Len(key) - 1 : ~Dropped(Slots(d, key), key, i),
         NEW q \in Paths
  PROVE  OnWay(d, key, q) <=> IsPrefix(q, key)
<1>1. ASSUME OnWay(d, key, q) PROVE IsPrefix(q, key)
  BY <1>1, PrefixIsPrefix DEF OnWay
<1>2. ASSUME IsPrefix(q, key) PROVE OnWay(d, key, q)
  <2>1. Len(q) \in 0 .. Len(key) /\ q = SubSeq(key, 1, Len(q))
    BY <1>2, PrefixFacts
  <2>2. \A j \in 1 .. Len(q) - 1 : j \in 1 .. Len(key) - 1
    BY <2>1, LenProperties DEF Paths
  <2> QED BY <2>1, <2>2 DEF OnWay
<1> QED BY <1>1, <1>2

LEMMA ThroughOneMore ==
  ASSUME NEW flags \in Seq(Flags), NEW f \in Flags, NEW done, done \subseteq 1 .. Len(flags)
  PROVE  LET more == Append(flags, f)
             n == Len(flags) + 1
         IN /\ Len(flags) \in Nat /\ Len(more) = n /\ more[n] = f
            /\ \A j \in done : more[j] = flags[j] /\ j < n
            /\ \A q : Through(more, done \cup {n}, q)
                        = Through(flags, done, q) \cup (IF IsPrefix(q, f.key) THEN {n} ELSE {})
<1> DEFINE more == Append(flags, f)
           n == Len(flags) + 1
<1>1. Len(flags) \in Nat /\ Len(more) = n /\ more[n] = f
      /\ \A j \in 1 .. Len(flags) : more[j] = flags[j]
  BY LenProperties, AppendProperties
<1> HIDE DEF more
<1>2. \A j \in done : more[j] = flags[j] /\ j < n
  BY <1>1
<1>3. \A q : Through(more, done \cup {n}, q)
               = Through(flags, done, q) \cup (IF IsPrefix(q, f.key) THEN {n} ELSE {})
  BY <1>1, <1>2 DEF Through
<1> QED BY <1>1, <1>2, <1>3 DEF more

LEMMA NoConflictWithItself ==
  ASSUME NEW flags \in Seq(Flags), NEW f \in Flags, NEW done, done \subseteq 1 .. Len(flags),
         ~Conflicts(flags, done, f.key)
  PROVE  ~Conflicts(Append(flags, f), done \cup {Len(flags) + 1}, f.key)
<1> DEFINE more == Append(flags, f)
           n == Len(flags) + 1
           key == f.key
<1>1. key \in Paths /\ Len(key) \in Nat
  <2>1. key \in Paths
    BY KeysArePaths DEF Flags
  <2> HIDE DEF key
  <2> QED BY <2>1, LenProperties DEF Paths
<1>2. /\ Len(flags) \in Nat /\ more[n] = f /\ \A j \in done : more[j] = flags[j]
      /\ \A q : Through(more, done \cup {n}, q)
                  = Through(flags, done, q) \cup (IF IsPrefix(q, f.key) THEN {n} ELSE {})
  <2>1. \A j \in done : more[j] = flags[j] /\ j < n
    BY ThroughOneMore
  <2>2. \A q : Through(more, done \cup {n}, q)
                 = Through(flags, done, q) \cup (IF IsPrefix(q, f.key) THEN {n} ELSE {})
    BY ThroughOneMore
  <2>3. Len(flags) \in Nat /\ more[n] = f
    BY ThroughOneMore
  <2> QED BY <2>1, <2>2, <2>3
<1>3. ~Conflicts(flags, done, key)
  OBVIOUS
<1> HIDE DEF more, n
<1>4. ASSUME NEW i \in 1 .. Len(key) - 1, NEW j \in Through(more, done \cup {n}, SubSeq(key, 1, i))
      PROVE  ~(Len(more[j].key) = i \/ more[j].key[i + 1].kind # key[i + 1].kind)
  <2>1. j = n \/ j \in Through(flags, done, SubSeq(key, 1, i))
    BY <1>2
  <2>2. CASE j = n
    BY <1>1, <1>2, <2>2
  <2>3. CASE j \in Through(flags, done, SubSeq(key, 1, i))
    <3>1. more[j] = flags[j]
      BY <1>2, <2>3 DEF Through
    <3> HIDE DEF key
    <3> QED BY <1>3, <2>3, <3>1 DEF Conflicts
  <2> QED BY <2>1, <2>2, <2>3
<1> HIDE DEF key
<1>5. ~Conflicts(more, done \cup {n}, key)
  BY <1>3, <1>4 DEF Conflicts
<1> QED BY <1>5 DEF more, n, key

(* The result fits the flags with one more that has an effect. *)
LEMMA EffectiveFits ==
  ASSUME NEW d, IsTree(d), d.kind = "map", NEW flags \in Seq(Flags), NEW f \in Flags, NEW done,
         Fits(d, flags, done), assign(d, f.key, f.text) # Error, ~Lost(flags, done, f.key)
  PROVE  Fits(assign(d, f.key, f.text), Append(flags, f), done \cup {Len(flags) + 1})
<1> DEFINE key == f.key
           tree == assign(d, key, f.text)
           more == Append(flags, f)
           n == Len(flags) + 1
           all == done \cup {n}
<1>1. done \subseteq 1 .. Len(flags)
  BY DEF Fits
<1>2. /\ Len(flags) \in Nat /\ Len(more) = n /\ more[n] = f
      /\ \A j \in done : more[j] = flags[j] /\ j < n
      /\ \A q : Through(more, all, q)
                  = Through(flags, done, q) \cup (IF IsPrefix(q, key) THEN {n} ELSE {})
  BY <1>1, ThroughOneMore
<1>3. key \in Paths
  BY KeysArePaths DEF Flags
<1>4. tree # Error /\ f.key = key
  OBVIOUS
<1>5. key # << >> /\ Through(flags, done, key) = {} /\ ~OutgrowsElement(flags, done, key)
  BY DEF Lost
<1> HIDE DEF key, more, n, all
<1>6. Len(key) \in Nat /\ DOMAIN key = 1 .. Len(key)
  BY <1>3, LenProperties DEF Paths
<1>18. \A i \in 0 .. Len(key) : i = Len(key) \/ i = 0 \/ i \in 1 .. Len(key) - 1
  <2>1. ASSUME NEW l \in Nat PROVE \A i \in 0 .. l : i = l \/ i = 0 \/ i \in 1 .. l - 1
    OBVIOUS
  <2> QED BY <1>6, <2>1
<1>7. \A i \in 1 .. Len(key) - 1 : ~Dropped(Slots(d, key), key, i)
  BY <1>3, <1>4, <1>5, DroppedIffOutgrows
<1>8. Readable(key)
  <2>1. ~Conflicts(flags, done, key)
    BY <1>3, <1>4, ErrorIffConflict
  <2> QED BY <1>5, <1>6, <2>1 DEF Conflicts, Readable
<1>9. ASSUME NEW q \in Paths, ~IsPrefix(q, key)
      PROVE  SlotAt(tree, q) = SlotAt(d, q) /\ Through(more, all, q) = Through(flags, done, q)
  <2>1. ~OnWay(d, key, q)
    BY <1>3, <1>7, <1>9, OnWayIsPrefix
  <2>2. SlotAt(tree, q) = SlotAt(d, q)
    BY <1>3, <1>4, <2>1, AssignOnWay
  <2>3. Through(more, all, q) = Through(flags, done, q)
    BY <1>2, <1>9
  <2> QED BY <2>2, <2>3
<1>10. ASSUME NEW q \in Paths, IsPrefix(q, key)
       PROVE  /\ q = SubSeq(key, 1, Len(q)) /\ Len(q) \in 0 .. Len(key)
              /\ Through(more, all, q) = Through(flags, done, q) \cup {n}
              /\ Len(q) = Len(key) => Through(flags, done, q) = {}
                                      /\ SlotAt(tree, q) = String(f.text)
              /\ Len(q) # Len(key) =>
                   /\ Len(q) + 1 \in 1 .. Len(key) /\ key[Len(q) + 1] \in Steps
                   /\ SlotAt(d, q) = Slots(d, key)[Len(q)]
                   /\ Takes(SlotAt(d, q), key[Len(q) + 1])
                   /\ \E v : SlotAt(tree, q) = SetAt(SlotAt(d, q), key[Len(q) + 1], v)
  <2>1. q = SubSeq(key, 1, Len(q)) /\ Len(q) \in 0 .. Len(key)
    BY <1>3, <1>10, PrefixFacts
  <2>2. OnWay(d, key, q)
    BY <1>3, <1>7, <1>10, OnWayIsPrefix
  <2>3. Through(more, all, q) = Through(flags, done, q) \cup {n}
    BY <1>2, <1>10
  <2>4. ASSUME Len(q) = Len(key)
        PROVE  Through(flags, done, q) = {} /\ SlotAt(tree, q) = String(f.text)
    <3>1. q = key
      BY <1>3, <1>10, <2>4, PrefixFacts
    <3>2. SlotAt(d, q) = Nil
      BY <1>3, <1>5, <3>1 DEF Fits
    <3>3. SlotAt(tree, q) = Filled(SlotAt(d, q), f.text)
      BY <1>3, <1>4, <2>2, <2>4, AssignOnWay
    <3> QED BY <1>5, <3>1, <3>2, <3>3 DEF Filled
  <2>5. ASSUME Len(q) # Len(key)
        PROVE  /\ Len(q) + 1 \in 1 .. Len(key) /\ key[Len(q) + 1] \in Steps
               /\ SlotAt(d, q) = Slots(d, key)[Len(q)]
               /\ Takes(SlotAt(d, q), key[Len(q) + 1])
               /\ \E v : SlotAt(tree, q) = SetAt(SlotAt(d, q), key[Len(q) + 1], v)
    <3>1. ~Dropped(Slots(d, key), key, Len(q))
      <4>1. Len(q) = 0 \/ Len(q) \in 1 .. Len(key) - 1
        BY <1>18, <2>1, <2>5
      <4> QED BY <1>7, <4>1 DEF Dropped
    <3> QED BY <1>3, <1>4, <2>2, <2>5, <3>1, AssignOnWay
  <2> QED BY <2>1, <2>3, <2>4, <2>5
<1> HIDE DEF tree
<1>11. ASSUME NEW q \in Paths, q # << >>, Through(more, all, q) = {}
       PROVE  SlotAt(tree, q) = Nil
  <2>1. ~IsPrefix(q, key)
    BY <1>10, <1>11
  <2>2. SlotAt(d, q) = SlotAt(tree, q) /\ Through(flags, done, q) = {}
    BY <1>9, <1>11, <2>1
  <2> QED BY <1>11, <2>2 DEF Fits
<1>12. ASSUME NEW q \in Paths, NEW j \in Through(more, all, q)
       PROVE  Holds(SlotAt(tree, q), more[j], Len(q))
  <2>1. CASE ~IsPrefix(q, key)
    <3>1. SlotAt(tree, q) = SlotAt(d, q) /\ j \in Through(flags, done, q)
      BY <1>9, <2>1
    <3>2. more[j] = flags[j]
      BY <1>2, <3>1 DEF Through
    <3> QED BY <3>1, <3>2 DEF Fits
  <2>2. CASE IsPrefix(q, key) /\ Len(q) = Len(key)
    <3>1. j = n /\ SlotAt(tree, q) = String(f.text)
      BY <1>10, <2>2
    <3> QED BY <1>2, <1>4, <2>2, <3>1 DEF Holds
  <2>3. CASE IsPrefix(q, key) /\ Len(q) # Len(key)
    <3> DEFINE m == Len(q)
               s == key[m + 1]
               old == SlotAt(d, q)
               new == SlotAt(tree, q)
    <3>1. s \in Steps /\ Takes(old, s) /\ (\E v : new = SetAt(old, s, v)) /\ IsSlot(old)
      BY <1>10, <2>3 DEF IsTree
    <3>2. j = n \/ j \in Through(flags, done, q)
      BY <1>10, <2>3
    <3>3. m # Len(key)
      BY <2>3
    <3>7. j \in Through(flags, done, q) => Holds(old, flags[j], m) /\ more[j] = flags[j]
      BY <1>2 DEF Fits, Through
    <3> HIDE DEF m, s, old, new
    <3>4. new.kind = IF s.kind = "name" THEN "map" ELSE "slice"
      BY <3>1, SetAtFacts
    <3>5. CASE j = n
      BY <1>2, <1>4, <3>3, <3>4, <3>5 DEF Holds, m, s, new
    <3>6. CASE j \in Through(flags, done, q)
      <4>1. Holds(old, flags[j], m) /\ more[j] = flags[j]
        BY <3>6, <3>7
      <4>2. m # Len(flags[j].key)
        BY <3>1, <4>1 DEF Holds, Takes, String
      <4>3. old.kind = IF flags[j].key[m + 1].kind = "name" THEN "map" ELSE "slice"
        BY <4>1, <4>2 DEF Holds
      <4>4. old.kind = new.kind
        BY <3>1, <3>4, <4>3 DEF Takes
      <4>5. Holds(new, more[j], m)
        BY <4>1, <4>2, <4>3, <4>4 DEF Holds
      <4> QED BY <4>5 DEF m, new
    <3> QED BY <3>2, <3>5, <3>6
  <2> QED BY <2>1, <2>2, <2>3
<1>13. ASSUME NEW q \in Paths, q # << >>, q[Len(q)].kind = "index",
              SlotAt(tree, q).kind = "slice", NEW j \in First(more, all, q)
       PROVE  Len(SlotAt(tree, q).items) = more[j].key[Len(q) + 1].at + 1
  <2> DEFINE m == Len(q)
             s == key[m + 1]
             old == SlotAt(d, q)
             new == SlotAt(tree, q)
  <2>1. CASE ~IsPrefix(q, key)
    <3>1. new = old /\ j \in First(flags, done, q) /\ old.kind = "slice"
      BY <1>9, <1>13, <2>1 DEF First
    <3>2. more[j] = flags[j]
      BY <1>2, <3>1 DEF First, Through
    <3>3. Len(old.items) = flags[j].key[m + 1].at + 1
      BY <1>13, <3>1 DEF Fits
    <3> QED BY <3>1, <3>2, <3>3
  <2>2. CASE IsPrefix(q, key) /\ m = Len(key)
    BY <1>10, <1>13, <2>2 DEF String
  <2>3. CASE IsPrefix(q, key) /\ m # Len(key)
    <3>1. /\ m \in 0 .. Len(key) /\ m + 1 \in 1 .. Len(key) /\ q = SubSeq(key, 1, m)
          /\ s \in Steps /\ Takes(old, s) /\ (\E v : new = SetAt(old, s, v)) /\ IsSlot(old)
          /\ old = Slots(d, key)[m]
      BY <1>10, <2>3 DEF IsTree
    <3>2. /\ new.kind = IF s.kind = "name" THEN "map" ELSE "slice"
          /\ new.kind = "slice" =>
               LET before == IF old = Nil THEN 0 ELSE Len(old.items)
               IN Len(new.items) = IF s.at + 1 > before THEN s.at + 1 ELSE before
      <4> HIDE DEF m, s, old, new
      <4> QED BY <3>1, SetAtFacts
    <3>3. s.kind = "index" /\ s.at \in Nat
      <4>1. s.kind # "name" /\ s.kind \in {"name", "index"}
        BY <1>13, <3>1, <3>2 DEF Takes
      <4> QED BY <3>1, <4>1, StepKinds
    <3>4. Through(more, all, q) = Through(flags, done, q) \cup {n}
      BY <1>10, <2>3
    <3>5. CASE Through(flags, done, q) = {}
      <4>1. j = n /\ old = Nil
        BY <1>13, <3>4, <3>5 DEF First, Fits
      <4>2. Len(new.items) = s.at + 1
        BY <1>13, <3>2, <3>3, <4>1
      <4> QED BY <1>2, <1>4, <4>1, <4>2
    <3>6. CASE Through(flags, done, q) # {}
      <4>1. PICK k \in Through(flags, done, q) : TRUE
        BY <3>6
      <4>2. k < n /\ j <= k /\ k \in Nat /\ n \in Nat
        BY <1>1, <1>2, <3>4 DEF First, Through, n
      <4>3. j # n
        BY <4>2
      <4>4. j \in First(flags, done, q)
        BY <3>4, <4>3 DEF First
      <4>5. more[j] = flags[j]
        BY <1>2, <4>4 DEF First, Through
      <4>6. old.kind = "slice" /\ old # Nil
        <5>1. Holds(old, flags[k], m)
          BY <4>1 DEF Fits
        <5> QED BY <3>1, <3>3, <5>1, HoldsSomething DEF Takes
      <4>7. Len(old.items) = flags[j].key[m + 1].at + 1
        BY <1>13, <4>4, <4>6 DEF Fits
      <4>8. s.at < Len(old.items) /\ Len(old.items) \in Nat
        <5>1. m \in 1 .. Len(key) - 1
          <6>1. m # 0
            BY <1>13 DEF Paths
          <6> QED BY <1>18, <2>3, <3>1, <6>1
        <5>2. ~Dropped(Slots(d, key), key, m)
          BY <1>7, <5>1
        <5>3. key[m].kind = "index"
          <6>1. \A i \in 1 .. m : SubSeq(key, 1, m)[i] = key[i]
            BY <1>3, <1>6, <3>1 DEF Paths
          <6>2. m \in 1 .. m
            BY <5>1
          <6>3. SubSeq(key, 1, m)[m] = key[m]
            BY <6>1, <6>2
          <6> QED BY <1>13, <3>1, <6>3
        <5>4. ~(s.at >= Len(old.items))
          BY <3>1, <4>6, <5>1, <5>2, <5>3 DEF Dropped
        <5>5. Len(old.items) \in Nat
          <6> HIDE DEF old
          <6> QED BY <3>1, <4>6 DEF IsSlot, Nil, String, MapOf, SliceOf
        <5> QED BY <3>3, <5>4, <5>5
      <4>9. Len(new.items) = Len(old.items)
        BY <1>13, <3>2, <3>3, <4>6, <4>8
      <4> QED BY <4>5, <4>7, <4>9
    <3> QED BY <3>5, <3>6
  <2> QED BY <2>1, <2>2, <2>3
<1>14. all \subseteq 1 .. Len(more)
  <2>1. 1 .. Len(flags) \subseteq 1 .. n /\ n \in 1 .. n
    BY <1>2 DEF n
  <2> QED BY <1>1, <1>2, <2>1 DEF all
<1>15. \A j \in all : Readable(more[j].key)
  <2>1. \A j \in done : Readable(flags[j].key)
    BY DEF Fits
  <2> QED BY <1>2, <1>4, <1>8, <2>1 DEF all
<1>16. Fits(tree, more, all)
  BY <1>11, <1>12, <1>13, <1>14, <1>15 DEF Fits
<1> QED BY <1>16 DEF tree, more, all, n, key

-----------------------------------------------------------------------------
(* The result is what the first flags say. *)

LEMMA FitsNothing == Fits(EmptyMap, << >>, {})
<1>1. ASSUME NEW q \in Paths, q # << >> PROVE SlotAt(EmptyMap, q) = Nil
  BY <1>1, EmptyHasNothing
<1>2. \A q : Through(<< >>, {}, q) = {}
  BY DEF Through
<1>3. \A q : First(<< >>, {}, q) = {}
  BY <1>2 DEF First
<1> QED BY <1>1, <1>2, <1>3 DEF Fits

(* The leaves of a result that fits are the flags that have an effect. *)
LEMMA LeavesOfFit ==
  ASSUME IsTree(data), data.kind = "map", NEW flags \in Seq(Flags), NEW done,
         Fits(data, flags, done)
  PROVE  Leaves = {flags[j] : j \in done}
<1>1. ASSUME NEW j \in done
      PROVE  flags[j] \in Leaves
  <2>1. j \in 1 .. Len(flags) /\ flags[j] \in Flags /\ flags[j].key \in Paths
    BY FlagsFacts DEF Fits
  <2> DEFINE key == flags[j].key
  <2>2. key \in Paths
    BY <2>1
  <2>3. IsPrefix(key, key)
    <3> HIDE DEF key
    <3>1. Len(key) \in 0 .. Len(key) /\ SubSeq(key, 1, Len(key)) = key
      BY <2>2, WholePrefix
    <3> QED BY <2>2, <3>1, PrefixFacts
  <2>4. Holds(SlotAt(data, key), flags[j], Len(key))
    BY <2>2, <2>3 DEF Fits, Through
  <2>5. SlotAt(data, key) = String(flags[j].text)
    BY <2>4 DEF Holds
  <2>6. flags[j] = [key |-> key, text |-> SlotAt(data, key).text] /\ key \in Keys
    BY <2>1, <2>5 DEF Flags, String
  <2>7. SlotAt(data, key).kind = "string"
    BY <2>5 DEF String
  <2> HIDE DEF key
  <2> QED BY <2>6, <2>7 DEF Leaves
<1>2. ASSUME NEW k \in Keys, SlotAt(data, k).kind = "string"
      PROVE  \E j \in done : flags[j] = [key |-> k, text |-> SlotAt(data, k).text]
  <2>1. k \in Paths
    BY KeysArePaths
  <2>2. k # << >>
    BY <1>2, SlotAtEmpty
  <2>3. SlotAt(data, k) # Nil
    BY <1>2 DEF Nil
  <2>4. PICK j : j \in Through(flags, done, k)
    BY <2>1, <2>2, <2>3 DEF Fits
  <2>5. /\ j \in done /\ j \in 1 .. Len(flags) /\ IsPrefix(k, flags[j].key)
        /\ flags[j] \in Flags /\ flags[j].key \in Paths
    BY <2>4, FlagsFacts DEF Through, Fits
  <2>6. Holds(SlotAt(data, k), flags[j], Len(k))
    BY <2>1, <2>4 DEF Fits
  <2>7. Len(k) = Len(flags[j].key) /\ SlotAt(data, k) = String(flags[j].text)
    BY <1>2, <2>6 DEF Holds
  <2>8. k = flags[j].key
    BY <2>1, <2>5, <2>7, PrefixFacts
  <2>9. flags[j] = [key |-> k, text |-> SlotAt(data, k).text]
    BY <2>5, <2>7, <2>8 DEF Flags, String
  <2> QED BY <2>5, <2>9
<1>3. Leaves \subseteq {flags[j] : j \in done}
  BY <1>2 DEF Leaves
<1> QED BY <1>1, <1>3

(* The flags the result is made of: all but one that ended Map. *)
Before == IF outcome = "error" THEN Front(read) ELSE read

(* The inductive invariant: the flags handled so far explain the result and the outcome. *)
Explained ==
  /\ Before \in Seq(Flags)
  /\ Fits(data, Before, Effective(Before))
  /\ outcome = "error" <=> read # << >> /\ Conflicts(Before, Effective(Before), Last(read).key)

LEMMA InitExplained == Init => Explained
<1>1. SUFFICES ASSUME Init PROVE Explained
  OBVIOUS
<1>2. Before = << >> /\ data = EmptyMap /\ outcome = "running" /\ read = << >>
  BY <1>1 DEF Init, Before
<1>3. << >> \in Seq(Flags)
  BY EmptySeq
<1> QED BY <1>2, <1>3, FitsNothing, EffectiveOfNone DEF Explained

LEMMA StepExplained == FlagTypeInv /\ Explained /\ [Next]_vars => Explained'
<1>1. SUFFICES ASSUME FlagTypeInv, Explained, [Next]_vars PROVE Explained'
  OBVIOUS
<1>2. CASE UNCHANGED vars
  BY <1>1, <1>2 DEF Explained, Before, vars
<1>3. CASE Next
  <2>1. /\ args \in Seq(Args) /\ read \in Seq(Flags) /\ IsTree(data) /\ data.kind = "map"
        /\ outcome = "running"
    BY <1>1, <1>3 DEF FlagTypeInv, TypeOK, Next
  <2>2. Before = read
    BY <2>1 DEF Before
  <2> DEFINE done == Effective(read)
  <2>3. Fits(data, read, done) /\ done \subseteq 1 .. Len(read)
    BY <1>1, <2>2 DEF Explained, Fits
  <2>4. CASE /\ outcome' \in {"done", "panic", "invalid flag", "expected parameter"}
             /\ UNCHANGED <<args, data, read>>
    <3>1. Before' = read /\ outcome' # "error" /\ outcome # "error"
      BY <2>1, <2>4 DEF Before
    <3> QED BY <1>1, <2>2, <2>4, <3>1 DEF Explained
  <2>5. CASE \E key, text : Handles(key, text)
    <3>1. PICK key, text : Handles(key, text)
      BY <2>5
    <3> DEFINE f == [key |-> key, text |-> text]
               new == assign(data, key, text)
               more == Append(read, f)
    <3>2. f \in Flags /\ f.key = key /\ f.text = text /\ read' = more /\ key \in Paths
      BY <3>1, KeysArePaths DEF Handles, Assign, Flags
    <3>3. /\ Len(read) \in Nat /\ more \in Seq(Flags) /\ Len(more) = Len(read) + 1
          /\ more[Len(read) + 1] = f /\ more # << >>
      BY <2>1, <3>2, LenProperties, AppendProperties
    <3>4. Last(more) = f
      BY <3>3 DEF Last
    <3>5. Front(more) = read
      <4>1. \A i \in 1 .. Len(read) : more[i] = read[i]
        BY <2>1, <3>2, <3>3, AppendProperties
      <4>2. Len(more) - 1 = Len(read)
        BY <3>3
      <4> HIDE DEF more
      <4>3. SubSeq(more, 1, Len(read)) \in Seq(Flags) /\ Len(SubSeq(more, 1, Len(read))) = Len(read)
            /\ \A i \in 1 .. Len(read) : SubSeq(more, 1, Len(read))[i] = more[i]
        BY <3>3
      <4>4. SubSeq(more, 1, Len(read)) = read
        BY <2>1, <4>1, <4>3, SeqEqual
      <4> QED BY <4>2, <4>4 DEF Front
    <3>6. CASE new = Error
      <4>1. outcome' = "error" /\ data' = data
        BY <3>1, <3>6 DEF Handles, Assign
      <4>2. Before' = read
        BY <3>2, <3>5, <4>1 DEF Before
      <4>3. Conflicts(read, done, key)
        BY <2>1, <2>3, <3>2, <3>6, ErrorIffConflict
      <4>4. Conflicts(read, done, Last(more).key)
        BY <3>2, <3>4, <4>3
      <4> HIDE DEF more, f, new
      <4> QED BY <2>1, <2>3, <3>2, <3>3, <4>1, <4>2, <4>4 DEF Explained
    <3>7. CASE new # Error
      <4>1. outcome' = "running" /\ data' = new
        BY <2>1, <3>1, <3>7 DEF Handles, Assign
      <4>2. Before' = more
        BY <3>2, <4>1 DEF Before
      <4>3. ~Conflicts(read, done, key)
        BY <2>1, <2>3, <3>2, <3>7, ErrorIffConflict
      <4>4. CASE Lost(read, done, key)
        <5>1. Effective(more) = done
          BY <2>1, <3>2, <4>4, EffectiveAppend
        <5>2. Fits(new, read, done)
          <6>1. \A q \in Paths : Alike(SlotAt(data, q), SlotAt(new, q))
            BY <2>1, <2>3, <3>2, <3>7, <4>4, LostIsAlike
          <6> HIDE DEF new, done
          <6> QED BY <2>3, <6>1, AlikeFits
        <5>3. Fits(new, more, done)
          <6> HIDE DEF new, done, f
          <6> QED BY <2>1, <3>2, <5>2, FitsWithMore
        <5>4. ~Conflicts(more, done, key)
          <6> HIDE DEF done, f
          <6>1. done \in SUBSET (1 .. Len(read))
            BY <2>3
          <6> QED BY <2>1, <3>2, <4>3, <6>1, SameThrough
        <5>5. Last(more).key = key
          BY <3>2, <3>4
        <5> HIDE DEF more, f, new, done
        <5> QED BY <3>3, <4>1, <4>2, <5>1, <5>3, <5>4, <5>5, <3>2 DEF Explained
      <4>5. CASE ~Lost(read, done, key)
        <5> DEFINE all == done \cup {Len(read) + 1}
        <5>1. Effective(more) = all
          BY <2>1, <3>2, <4>5, EffectiveAppend
        <5>2. Fits(new, more, all)
          <6>1. Fits(assign(data, f.key, f.text), Append(read, f), done \cup {Len(read) + 1})
            <7> HIDE DEF f, done
            <7> QED BY <2>1, <2>3, <3>2, <3>7, <4>5, EffectiveFits
          <6> QED BY <6>1
        <5>3. ~Conflicts(more, all, key)
          <6>1. ~Conflicts(Append(read, f), done \cup {Len(read) + 1}, f.key)
            <7> HIDE DEF f, done
            <7> QED BY <2>1, <2>3, <3>2, <4>3, NoConflictWithItself
          <6> QED BY <6>1
        <5>4. Last(more).key = key
          BY <3>2, <3>4
        <5> HIDE DEF more, f, new, done, all
        <5> QED BY <3>3, <4>1, <4>2, <5>1, <5>2, <5>3, <5>4, <3>2 DEF Explained
      <4> QED BY <4>4, <4>5
    <3> QED BY <3>6, <3>7
  <2> QED BY <1>3, <2>1, <2>4, <2>5, StepsOfMap
<1> QED BY <1>1, <1>2, <1>3

(***************************************************************************)
(* ResultIsFirstFlags for every number of flags and keys of any length:    *)
(* the leaves of the result are the values of the flags that Effective     *)
(* picks, no more and no less, and Map ends with an error exactly at a     *)
(* flag that conflicts with one of them.                                   *)
(***************************************************************************)
THEOREM ResultExplained == Spec => []ResultIsFirstFlags
<1>1. ASSUME FlagTypeInv, Explained PROVE ResultIsFirstFlags
  <2>1. IsTree(data) /\ data.kind = "map"
    BY <1>1 DEF FlagTypeInv, TypeOK
  <2> DEFINE done == Effective(Before)
  <2>2. Leaves = {Before[j] : j \in done} /\ done \subseteq 1 .. Len(Before)
    BY <1>1, <2>1, LeavesOfFit DEF Explained, Fits
  <2>3. \A j \in done : Before[j] = read[j]
    <3>1. CASE outcome # "error"
      BY <3>1 DEF Before
    <3>2. CASE outcome = "error"
      <4>1. read \in Seq(Flags) /\ read # << >> /\ Before = SubSeq(read, 1, Len(read) - 1)
        BY <1>1, <3>2 DEF Explained, FlagTypeInv, Before, Front
      <4>2. Len(read) \in Nat /\ Len(read) > 0
        BY <4>1, LenProperties
      <4>3. Len(SubSeq(read, 1, Len(read) - 1)) = Len(read) - 1
            /\ \A j \in 1 .. Len(read) - 1 : SubSeq(read, 1, Len(read) - 1)[j] = read[j]
        <5>1. PICK m \in Nat : Len(read) = m + 1
          <6>1. Len(read) - 1 \in Nat /\ Len(read) = (Len(read) - 1) + 1
            BY <4>2
          <6> QED BY <6>1
        <5>2. Len(SubSeq(read, 1, m)) = m /\ \A j \in 1 .. m : SubSeq(read, 1, m)[j] = read[j]
          BY <4>1, <5>1
        <5>3. Len(read) - 1 = m
          BY <5>1
        <5> QED BY <5>2, <5>3
      <4> HIDE DEF done
      <4> QED BY <2>2, <4>1, <4>3
    <3> QED BY <3>1, <3>2
  <2>4. Leaves = {read[j] : j \in done}
    <3> HIDE DEF done
    <3> QED BY <2>2, <2>3
  <2>5. outcome = "error" <=> read # << >> /\ Conflicts(Before, done, Last(read).key)
    BY <1>1 DEF Explained
  <2> QED BY <2>4, <2>5 DEF ResultIsFirstFlags, Before
<1>2. Spec => []Explained
  <2>1. Init => Explained
    BY InitExplained
  <2>2. FlagTypeInv /\ Explained /\ [Next]_vars => Explained'
    BY StepExplained
  <2> QED BY <2>1, <2>2, FlagTypes, PTL DEF Spec
<1> QED BY <1>1, <1>2, FlagTypes, PTL

-----------------------------------------------------------------------------
(* Unrelated flags in any order: what they make, one flag after the other. *)

(* Result, one flag more at a time. *)
LEMMA ResultSteps ==
  ASSUME NEW flags \in Seq(Flags)
  PROVE  \E upTo : /\ Result(flags) = upTo[Len(flags)]
                   /\ upTo[0] = EmptyMap
                   /\ \A i \in 1 .. Len(flags) :
                        upTo[i] = assign(upTo[i - 1], flags[i].key, flags[i].text)
<1> DEFINE n == Len(flags)
           Step(d, i) == assign(d, flags[i].key, flags[i].text)
           Table(f, m) == [i \in 0 .. m |-> IF i = 0 THEN EmptyMap ELSE Step(f[i - 1], i)]
           S == {m \in Nat : \E f : f = Table(f, m)}
           upTo == CHOOSE f : f = Table(f, n)
<1>1. n \in Nat
  BY LenProperties
<1>2. Result(flags) = upTo[n]
  BY DEF Result
<1> HIDE DEF n, Step
<1>3. 0 \in S
  <2> DEFINE f == [i \in 0 .. 0 |-> EmptyMap]
  <2>1. f = Table(f, 0)
    OBVIOUS
  <2> HIDE DEF Table, f
  <2> QED BY <2>1
<1>4. ASSUME NEW m \in S PROVE m + 1 \in S
  <2>1. PICK f : f = Table(f, m)
    OBVIOUS
  <2> DEFINE g == [i \in 0 .. m + 1 |-> IF i = m + 1 THEN Step(f[m], m + 1) ELSE f[i]]
  <2>2. \A i \in 0 .. m + 1 : g[i] = IF i = 0 THEN EmptyMap ELSE Step(g[i - 1], i)
    <3>1. g[0] = EmptyMap
      BY <2>1
    <3>2. g[m + 1] = Step(g[m], m + 1)
      OBVIOUS
    <3>3. ASSUME NEW i \in 1 .. m PROVE g[i] = Step(g[i - 1], i)
      BY <2>1
    <3>4. m \in Nat
      OBVIOUS
    <3>5. \A i \in 0 .. m + 1 : i = 0 \/ (i = m + 1 /\ i # 0 /\ i - 1 = m) \/ (i \in 1 .. m /\ i # 0)
      BY <3>4
    <3> HIDE DEF g
    <3> QED BY <3>1, <3>2, <3>3, <3>5
  <2>3. g = Table(g, m + 1) /\ m + 1 \in Nat
    BY <2>2
  <2> HIDE DEF g, Table
  <2> QED BY <2>3
<1> HIDE DEF S
<1>5. n \in S
  BY <1>1, <1>3, <1>4, SetInduction
<1>6. upTo = Table(upTo, n)
  BY <1>5 DEF S
<1> HIDE DEF upTo
<1>7. upTo[0] = EmptyMap /\ \A i \in 1 .. n : upTo[i] = Step(upTo[i - 1], i)
  BY <1>1, <1>6
<1> QED BY <1>2, <1>7 DEF n, Step

(* No flags make an empty map, and a flag is assigned to what those before it make. *)
LEMMA ResultOfNone == Result(<< >>) = EmptyMap
<1>1. << >> \in Seq(Flags) /\ Len(<< >>) = 0
  BY EmptySeq
<1> QED BY <1>1, ResultSteps

LEMMA ResultAppend ==
  ASSUME NEW flags \in Seq(Flags), NEW f \in Flags
  PROVE  Result(Append(flags, f)) = assign(Result(flags), f.key, f.text)
<1> DEFINE more == Append(flags, f)
           n == Len(flags)
           Step(d, g) == assign(d, g.key, g.text)
<1>1. /\ n \in Nat /\ more \in Seq(Flags) /\ Len(more) = n + 1 /\ more[n + 1] = f
      /\ \A i \in 1 .. n : more[i] = flags[i]
  BY LenProperties, AppendProperties
<1>2. PICK u : /\ Result(flags) = u[n] /\ u[0] = EmptyMap
               /\ \A i \in 1 .. n : u[i] = Step(u[i - 1], flags[i])
  BY ResultSteps
<1>3. PICK w : /\ Result(more) = w[n + 1] /\ w[0] = EmptyMap
               /\ \A i \in 1 .. n + 1 : w[i] = Step(w[i - 1], more[i])
  <2> HIDE DEF more
  <2>1. PICK w : /\ Result(more) = w[Len(more)] /\ w[0] = EmptyMap
                 /\ \A i \in 1 .. Len(more) : w[i] = Step(w[i - 1], more[i])
    BY <1>1, ResultSteps
  <2> QED BY <1>1, <2>1
<1> DEFINE S == {m \in Nat : m <= n => w[m] = u[m]}
<1> HIDE DEF more, n, Step
<1>4. 0 \in S
  BY <1>2, <1>3
<1>5. ASSUME NEW m \in S PROVE m + 1 \in S
  <2>1. SUFFICES ASSUME m + 1 <= n PROVE w[m + 1] = u[m + 1]
    OBVIOUS
  <2>2. m \in Nat /\ m + 1 \in 1 .. n /\ m + 1 \in 1 .. n + 1 /\ (m + 1) - 1 = m /\ w[m] = u[m]
    BY <1>1, <2>1
  <2>3. u[m + 1] = Step(u[m], flags[m + 1]) /\ w[m + 1] = Step(w[m], more[m + 1])
    BY <1>2, <1>3, <2>2
  <2> HIDE DEF S
  <2> QED BY <1>1, <2>2, <2>3
<1> HIDE DEF S
<1>6. n \in S
  BY <1>1, <1>4, <1>5, SetInduction
<1>7. w[n] = u[n]
  BY <1>1, <1>6 DEF S
<1>8. w[n + 1] = Step(w[n], more[n + 1])
  <2>1. n + 1 \in 1 .. n + 1 /\ (n + 1) - 1 = n
    BY <1>1
  <2> QED BY <1>3, <2>1
<1> QED BY <1>1, <1>2, <1>3, <1>7, <1>8 DEF Step, n, more

(* Two keys that want different containers at one path. *)
Disagree(a, b) ==
  \E i \in 1 .. Len(a) - 1 :
    IsPrefix(SubSeq(a, 1, i), b) /\ i < Len(b) /\ b[i + 1].kind # a[i + 1].kind

(* Every key can be read, and no two of them disagree. *)
Agreeing(flags) ==
  /\ \A j \in 1 .. Len(flags) : flags[j].key = << >> \/ Readable(flags[j].key)
  /\ \A j, k \in 1 .. Len(flags) : ~Disagree(flags[j].key, flags[k].key)

(* The flags that name something. *)
Proper(flags) == {j \in 1 .. Len(flags) : flags[j].key # << >>}

(* Two keys disagree with each other or not at all. *)
LEMMA DisagreeSymmetric ==
  ASSUME NEW a \in Paths, NEW b \in Paths, Disagree(a, b)
  PROVE  Disagree(b, a)
<1>1. PICK i \in 1 .. Len(a) - 1 :
        IsPrefix(SubSeq(a, 1, i), b) /\ i < Len(b) /\ b[i + 1].kind # a[i + 1].kind
  BY DEF Disagree
<1>2. Len(a) \in Nat /\ Len(b) \in Nat /\ i \in 0 .. Len(a) /\ i \in 1 .. Len(b) - 1
      /\ i \in 0 .. Len(b) /\ i < Len(a)
  BY <1>1, LenProperties DEF Paths
<1> DEFINE p == SubSeq(a, 1, i)
<1>3. p \in Paths /\ Len(p) = i /\ IsPrefix(p, b) /\ IsPrefix(p, a)
  BY <1>1, <1>2, SlotsOfPrefix, PrefixIsPrefix
<1> HIDE DEF p
<1>4. p = SubSeq(b, 1, i)
  BY <1>3, PrefixFacts
<1> QED BY <1>1, <1>2, <1>3, <1>4 DEF Disagree

(* Flags in front of another are unrelated and agree if all do. *)
LEMMA UnrelatedAppend ==
  ASSUME NEW flags \in Seq(Flags), NEW f \in Flags, Unrelated(Append(flags, f))
  PROVE  /\ Unrelated(flags)
         /\ \A j \in 1 .. Len(flags) : /\ ~IsPrefix(flags[j].key, f.key)
                                       /\ ~IsPrefix(f.key, flags[j].key)
         /\ \A k \in 1 .. Len(f.key) - 1 : ~(f.key[k].kind = "index" /\ f.key[k + 1].kind = "index")
<1> DEFINE more == Append(flags, f)
           n == Len(flags) + 1
<1>1. /\ Len(flags) \in Nat /\ more[n] = f /\ DOMAIN more = 1 .. n /\ DOMAIN flags = 1 .. Len(flags)
      /\ \A j \in 1 .. Len(flags) : more[j] = flags[j] /\ j \in 1 .. n /\ j # n
      /\ n \in 1 .. n
  BY LenProperties, AppendProperties
<1>2. Unrelated(more)
  OBVIOUS
<1> HIDE DEF more, n
<1> QED BY <1>1, <1>2 DEF Unrelated

(* One more flag agrees with unrelated ones iff it conflicts with none of them. *)
LEMMA AgreeAppend ==
  ASSUME NEW flags \in Seq(Flags), NEW f \in Flags, Unrelated(Append(flags, f))
  PROVE  Agreeing(Append(flags, f))
           <=> Agreeing(flags) /\ (f.key # << >> => ~Conflicts(flags, Proper(flags), f.key))
<1> DEFINE more == Append(flags, f)
           n == Len(flags) + 1
           key == f.key
           done == Proper(flags)
<1>1. /\ Len(flags) \in Nat /\ more[n] = f /\ Len(more) = n
      /\ \A j \in 1 .. Len(flags) : more[j] = flags[j] /\ j \in 1 .. n
      /\ n \in 1 .. n /\ \A j \in 1 .. n : j = n \/ j \in 1 .. Len(flags)
  BY LenProperties, AppendProperties
<1>2. key \in Paths /\ \A j \in 1 .. Len(flags) : flags[j].key \in Paths
  BY KeysArePaths, FlagsFacts DEF Flags
<1>3. \A j \in 1 .. Len(flags) : ~IsPrefix(flags[j].key, key)
  BY UnrelatedAppend
<1> HIDE DEF more, n, key, done
<1>4. Len(key) \in Nat /\ DOMAIN key = 1 .. Len(key)
  BY <1>2, LenProperties DEF Paths
<1>5. ~Disagree(key, key)
  BY <1>2 DEF Disagree
<1>6. ASSUME NEW j \in 1 .. Len(flags), NEW i \in 1 .. Len(key) - 1,
             IsPrefix(SubSeq(key, 1, i), flags[j].key)
      PROVE  i < Len(flags[j].key) /\ flags[j].key # << >>
  <2>1. i \in 0 .. Len(key) /\ i \in Nat /\ i # 0
    BY <1>4
  <2> DEFINE p == SubSeq(key, 1, i)
  <2>2. p \in Paths /\ Len(p) = i /\ IsPrefix(p, key) /\ IsPrefix(p, flags[j].key)
    BY <1>2, <1>6, <2>1, SlotsOfPrefix, PrefixIsPrefix
  <2> HIDE DEF p
  <2>3. Len(p) # Len(flags[j].key)
    BY <1>2, <1>3, <2>2, PrefixFacts
  <2>4. i < Len(flags[j].key)
    BY <1>2, <2>2, <2>3, PrefixFacts
  <2>5. flags[j].key # << >>
    BY <2>1, <2>4, EmptySeq
  <2> QED BY <2>4, <2>5
<1>7. ASSUME key # << >>
      PROVE  ~Conflicts(flags, done, key)
               <=> Readable(key) /\ \A j \in 1 .. Len(flags) : ~Disagree(key, flags[j].key)
  <2>1. Conflicts(flags, done, key)
          <=> \/ ~Readable(key)
              \/ \E i \in 1 .. Len(key) - 1 : \E j \in Through(flags, done, SubSeq(key, 1, i)) :
                   Len(flags[j].key) = i \/ flags[j].key[i + 1].kind # key[i + 1].kind
    BY <1>4, <1>7 DEF Conflicts, Readable
  <2>2. ASSUME NEW i \in 1 .. Len(key) - 1, NEW j \in Through(flags, done, SubSeq(key, 1, i)),
               Len(flags[j].key) = i \/ flags[j].key[i + 1].kind # key[i + 1].kind
        PROVE  j \in 1 .. Len(flags) /\ Disagree(key, flags[j].key)
    <3>1. j \in 1 .. Len(flags) /\ IsPrefix(SubSeq(key, 1, i), flags[j].key)
      BY DEF Through, done, Proper
    <3>2. i < Len(flags[j].key)
      BY <1>6, <3>1
    <3> QED BY <2>2, <3>1, <3>2 DEF Disagree
  <2>3. ASSUME NEW j \in 1 .. Len(flags), Disagree(key, flags[j].key)
        PROVE  \E i \in 1 .. Len(key) - 1 : \E k \in Through(flags, done, SubSeq(key, 1, i)) :
                 Len(flags[k].key) = i \/ flags[k].key[i + 1].kind # key[i + 1].kind
    <3>1. PICK i \in 1 .. Len(key) - 1 :
            IsPrefix(SubSeq(key, 1, i), flags[j].key) /\ flags[j].key[i + 1].kind # key[i + 1].kind
      BY <2>3 DEF Disagree
    <3>2. j \in Through(flags, done, SubSeq(key, 1, i))
      BY <1>6, <3>1 DEF Through, done, Proper
    <3> QED BY <3>1, <3>2
  <2> QED BY <2>1, <2>2, <2>3
<1>8. ASSUME Agreeing(more)
      PROVE  Agreeing(flags) /\ (key # << >> => ~Conflicts(flags, done, key))
  <2>1. Agreeing(flags)
    BY <1>1, <1>8 DEF Agreeing
  <2>2. ASSUME key # << >> PROVE ~Conflicts(flags, done, key)
    <3>1. Readable(key)
      BY <1>1, <1>8, <2>2 DEF Agreeing, key
    <3>2. \A j \in 1 .. Len(flags) : ~Disagree(key, flags[j].key)
      BY <1>1, <1>8 DEF Agreeing, key
    <3> QED BY <1>7, <2>2, <3>1, <3>2
  <2> QED BY <2>1, <2>2
<1>9. ASSUME Agreeing(flags), key # << >> => ~Conflicts(flags, done, key)
      PROVE  Agreeing(more)
  <2>1. key = << >> \/ Readable(key)
    BY <1>7, <1>9
  <2>2. \A j \in 1 .. Len(flags) : ~Disagree(key, flags[j].key)
    <3>1. CASE key = << >>
      BY <3>1, EmptySeq DEF Disagree
    <3>2. CASE key # << >>
      BY <1>7, <1>9, <3>2
    <3> QED BY <3>1, <3>2
  <2>3. \A j \in 1 .. Len(flags) : ~Disagree(flags[j].key, key)
    BY <1>2, <2>2, DisagreeSymmetric
  <2>4. \A j \in 1 .. n : more[j].key = << >> \/ Readable(more[j].key)
    BY <1>1, <1>9, <2>1 DEF Agreeing, key
  <2>5. ASSUME NEW j \in 1 .. n, NEW k \in 1 .. n PROVE ~Disagree(more[j].key, more[k].key)
    BY <1>1, <1>5, <1>9, <2>2, <2>3 DEF Agreeing, key
  <2> QED BY <1>1, <2>4, <2>5 DEF Agreeing
<1> QED BY <1>8, <1>9 DEF more, key, done

(* A function that is nothing but its values. *)
Extensional(f) == f = [x \in DOMAIN f |-> f[x]]

(* A slice reaches as far as the flags through it need; a map has no other names. *)
Exact(d, flags, done) ==
  \A q \in Paths :
    LET slot == SlotAt(d, q)
    IN /\ slot.kind = "map" =>
            /\ Extensional(slot.entries)
            /\ DOMAIN slot.entries = {n \in Names : Through(flags, done, Append(q, Name(n))) # {}}
       /\ slot.kind = "slice" =>
            /\ Extensional(slot.items)
            /\ \A i \in Nat : i < Len(slot.items)
                                <=> \E k \in Nat : i <= k /\ Through(flags, done, Append(q, Index(k))) # {}

(* The steps are names, indexes and what is neither. *)
LEMMA NamesAndIndexes ==
  /\ \A n \in Names : Name(n) \in Steps /\ Name(n).kind = "name" /\ Name(n).at = n
  /\ \A k \in Nat : Index(k) \in Steps /\ Index(k).kind = "index" /\ Index(k).at = k
  /\ \A s \in Steps : s.kind = "name" => s.at \in Names /\ s = Name(s.at)
  /\ \A s \in Steps : s.kind = "index" => s.at \in Nat /\ s = Index(s.at)
<1>1. \A n \in Names : Name(n) \in Steps /\ Name(n).kind = "name" /\ Name(n).at = n
  BY DEF Name, Steps
<1>2. \A k \in Nat : Index(k) \in Steps /\ Index(k).kind = "index" /\ Index(k).at = k
  BY DEF Index, Steps
<1>3. ASSUME NEW s \in Steps, s.kind = "name" PROVE s.at \in Names /\ s = Name(s.at)
  <2>1. s \in [kind : {"name"}, at : Names]
    BY <1>3 DEF Steps, Junk
  <2> QED BY <2>1 DEF Name
<1>4. ASSUME NEW s \in Steps, s.kind = "index" PROVE s.at \in Nat /\ s = Index(s.at)
  <2>1. s \in [kind : {"index"}, at : Nat]
    BY <1>4 DEF Steps, Junk
  <2> QED BY <2>1 DEF Index
<1> QED BY <1>1, <1>2, <1>3, <1>4

(* Setting a step adds its name to a map, and leaves functions. *)
LEMMA SetAtName ==
  ASSUME NEW old, NEW s \in Steps, s.kind = "name", NEW value
  PROVE  LET new == SetAt(old, s, value)
         IN /\ new.kind = "map" /\ Extensional(new.entries)
            /\ DOMAIN new.entries = (IF old = Nil THEN {} ELSE DOMAIN old.entries) \cup {s.at}
<1> DEFINE entries == IF old = Nil THEN << >> ELSE old.entries
           E == [n \in DOMAIN entries \cup {s.at} |-> IF n = s.at THEN value ELSE entries[n]]
<1>1. DOMAIN entries = IF old = Nil THEN {} ELSE DOMAIN old.entries
  <2>1. DOMAIN << >> = {}
    BY EmptySeq
  <2> QED BY <2>1
<1>2. SetAt(old, s, value) = MapOf(E)
  BY DEF SetAt
<1>3. Extensional(E) /\ DOMAIN E = DOMAIN entries \cup {s.at}
  BY DEF Extensional
<1> HIDE DEF entries, E
<1>4. MapOf(E).kind = "map" /\ MapOf(E).entries = E
  BY DEF MapOf
<1> QED BY <1>1, <1>2, <1>3, <1>4

LEMMA SetAtIndex ==
  ASSUME NEW old, NEW s \in Steps, s.kind = "index", NEW value
  PROVE  SetAt(old, s, value).kind = "slice" /\ Extensional(SetAt(old, s, value).items)
<1> DEFINE items == IF old = Nil THEN << >> ELSE old.items
           grown == GrownTo(items, s.at + 1)
           new == [grown EXCEPT ![s.at + 1] = value]
<1>1. SetAt(old, s, value) = SliceOf(new)
  BY DEF SetAt
<1>2. grown = [i \in DOMAIN grown |-> grown[i]]
  BY DEF GrownTo
<1> HIDE DEF grown
<1>3. Extensional(new)
  BY <1>2 DEF Extensional
<1> HIDE DEF new
<1> QED BY <1>1, <1>3 DEF SliceOf

(* Flags go through a step of q only if they go through q. *)
LEMMA ThroughStep ==
  ASSUME NEW q \in Paths, NEW s \in Steps, NEW key \in Paths
  PROVE  /\ IsPrefix(Append(q, s), key) => IsPrefix(q, key)
         /\ IsPrefix(q, key) /\ Len(q) # Len(key) =>
              (IsPrefix(Append(q, s), key) <=> s = key[Len(q) + 1])
<1> DEFINE p == Append(q, s)
           m == Len(q)
<1>1. m \in Nat /\ p \in Paths /\ Len(p) = m + 1 /\ Len(key) \in Nat
  BY AppendProperties, LenProperties DEF Paths
<1>2. ASSUME m < Len(key)
      PROVE  /\ SubSeq(key, 1, m + 1) = Append(SubSeq(key, 1, m), key[m + 1])
             /\ SubSeq(key, 1, m) \in Seq(Steps) /\ key[m + 1] \in Steps
  <2>1. m \in 0 .. Len(key) /\ m + 1 \in 1 .. Len(key)
    BY <1>1, <1>2
  <2>2. SubSeq(key, 1, m + 1) = Append(SubSeq(key, 1, m), key[m + 1])
    BY <1>1, <1>2, PrefixAppend
  <2>3. SubSeq(key, 1, m) \in Seq(Steps) /\ key[m + 1] \in Steps
    BY <2>1, SlotsOfPrefix, ElementOfSeq DEF Paths
  <2> QED BY <2>2, <2>3
<1>3. ASSUME IsPrefix(p, key) PROVE IsPrefix(q, key) /\ s = key[m + 1]
  <2>1. m + 1 \in 0 .. Len(key) /\ p = SubSeq(key, 1, m + 1)
    <3> HIDE DEF p
    <3> QED BY <1>1, <1>3, PrefixFacts
  <2>2. m < Len(key) /\ m \in 0 .. Len(key)
    BY <1>1, <2>1
  <2> DEFINE u == SubSeq(key, 1, m)
             e == key[m + 1]
  <2>3. Append(q, s) = Append(u, e) /\ u \in Seq(Steps) /\ e \in Steps
    BY <1>2, <2>1, <2>2
  <2>4. q = u /\ s = e
    <3> HIDE DEF u, e, p
    <3>1. q \in Seq(Steps)
      BY DEF Paths
    <3> QED BY <2>3, <3>1, AppendInjective
  <2> QED BY <2>2, <2>4, PrefixIsPrefix
<1>4. ASSUME IsPrefix(q, key), m # Len(key), s = key[m + 1] PROVE IsPrefix(p, key)
  <2>1. m < Len(key) /\ q = SubSeq(key, 1, m)
    BY <1>4, PrefixFacts
  <2>2. p = SubSeq(key, 1, m + 1) /\ m + 1 \in 0 .. Len(key)
    BY <1>1, <1>2, <1>4, <2>1
  <2> HIDE DEF p
  <2> QED BY <2>2, PrefixIsPrefix
<1> QED BY <1>3, <1>4

(***************************************************************************)
(* A flag that is not lost keeps the result exact: on its way a map gets   *)
(* its next name and a slice grows to its next index, elsewhere nothing    *)
(* changes.                                                                *)
(***************************************************************************)
LEMMA ExactStep ==
  ASSUME NEW d, IsTree(d), d.kind = "map", NEW flags \in Seq(Flags), NEW f \in Flags, NEW done,
         Fits(d, flags, done), Exact(d, flags, done),
         assign(d, f.key, f.text) # Error, ~Lost(flags, done, f.key)
  PROVE  Exact(assign(d, f.key, f.text), Append(flags, f), done \cup {Len(flags) + 1})
<1> DEFINE key == f.key
           tree == assign(d, key, f.text)
           more == Append(flags, f)
           n == Len(flags) + 1
           all == done \cup {n}
<1>1. done \subseteq 1 .. Len(flags)
  BY DEF Fits
<1>2. \A q : Through(more, all, q)
               = Through(flags, done, q) \cup (IF IsPrefix(q, key) THEN {n} ELSE {})
  BY <1>1, ThroughOneMore
<1>3. key \in Paths
  BY KeysArePaths DEF Flags
<1>4. tree # Error /\ f.key = key
  OBVIOUS
<1>5. key # << >> /\ Through(flags, done, key) = {} /\ ~OutgrowsElement(flags, done, key)
  BY DEF Lost
<1> HIDE DEF key, more, n, all
<1>6. \A i \in 1 .. Len(key) - 1 : ~Dropped(Slots(d, key), key, i)
  BY <1>3, <1>4, <1>5, DroppedIffOutgrows
<1>7. ~Dropped(Slots(d, key), key, 0)
  BY DEF Dropped
<1>8. \A i \in 0 .. Len(key) : i = Len(key) \/ i = 0 \/ i \in 1 .. Len(key) - 1
  <2>1. ASSUME NEW l \in Nat PROVE \A i \in 0 .. l : i = l \/ i = 0 \/ i \in 1 .. l - 1
    OBVIOUS
  <2> QED BY <1>3, <2>1, LenProperties DEF Paths
<1> DEFINE Goes(fl, dn, q, s) == Through(fl, dn, Append(q, s)) # {}
           Right(slot, fl, dn, q) ==
             /\ slot.kind = "map" =>
                  /\ Extensional(slot.entries)
                  /\ DOMAIN slot.entries = {a \in Names : Goes(fl, dn, q, Name(a))}
             /\ slot.kind = "slice" =>
                  /\ Extensional(slot.items)
                  /\ \A i \in Nat : i < Len(slot.items)
                                      <=> \E k \in Nat : i <= k /\ Goes(fl, dn, q, Index(k))
<1>9. \A q \in Paths : Right(SlotAt(d, q), flags, done, q)
  BY DEF Exact
<1> SUFFICES ASSUME NEW q \in Paths PROVE Right(SlotAt(tree, q), more, all, q)
  BY DEF Exact, tree, more, all, n, key
<1> DEFINE old == SlotAt(d, q)
           new == SlotAt(tree, q)
           m == Len(q)
           s == key[m + 1]
<1> HIDE DEF tree, Goes, Right
<1>10. CASE ~IsPrefix(q, key)
  <2>1. \A x \in Steps : Goes(more, all, q, x) <=> Goes(flags, done, q, x)
    <3>1. \A x \in Steps : ~IsPrefix(Append(q, x), key)
      BY <1>3, <1>10, ThroughStep
    <3> QED BY <1>2, <3>1 DEF Goes
  <2>2. \A a \in Names : Goes(more, all, q, Name(a)) <=> Goes(flags, done, q, Name(a))
    BY <2>1, NamesAndIndexes
  <2>3. \A k \in Nat : Goes(more, all, q, Index(k)) <=> Goes(flags, done, q, Index(k))
    BY <2>1, NamesAndIndexes
  <2>4. new = old
    <3>1. ~OnWay(d, key, q)
      BY <1>3, <1>6, <1>10, OnWayIsPrefix
    <3> QED BY <1>3, <1>4, <3>1, AssignOnWay DEF tree
  <2>5. Right(old, flags, done, q)
    BY <1>9
  <2>6. {a \in Names : Goes(more, all, q, Name(a))} = {a \in Names : Goes(flags, done, q, Name(a))}
    BY <2>2
  <2> HIDE DEF old, new
  <2>7. Right(old, more, all, q)
    BY <2>3, <2>5, <2>6 DEF Right
  <2> QED BY <2>4, <2>7 DEF new
<1>11. CASE IsPrefix(q, key) /\ m = Len(key)
  <2>1. q = key
    BY <1>3, <1>11, PrefixFacts
  <2>2. old = Nil
    BY <1>3, <1>5, <2>1 DEF Fits
  <2>3. OnWay(d, key, q)
    BY <1>3, <1>6, <1>11, OnWayIsPrefix
  <2>4. new = Filled(old, f.text)
    BY <1>3, <1>4, <1>11, <2>3, AssignOnWay DEF tree
  <2>5. new.kind = "string"
    BY <2>2, <2>4 DEF Filled, String
  <2> HIDE DEF new
  <2> QED BY <2>5 DEF Right, new
<1>12. CASE IsPrefix(q, key) /\ m # Len(key)
  <2>1. m \in 0 .. Len(key) /\ OnWay(d, key, q)
    BY <1>3, <1>6, <1>12, OnWayIsPrefix, PrefixFacts
  <2>2. ~Dropped(Slots(d, key), key, m)
    BY <1>6, <1>7, <1>8, <1>12, <2>1
  <2>3. s \in Steps /\ Takes(old, s) /\ (\E v : new = SetAt(old, s, v)) /\ IsSlot(old)
    <3>1. IsSlot(old)
      BY DEF IsTree
    <3>2. LET was == SlotAt(d, q)
              now == SlotAt(assign(d, key, f.text), q)
              k == Len(q)
          IN OnWay(d, key, q) /\ k # Len(key) =>
               /\ k + 1 \in 1 .. Len(key) /\ key[k + 1] \in Steps
               /\ Takes(was, key[k + 1])
               /\ ~Dropped(Slots(d, key), key, k) => \E v : now = SetAt(was, key[k + 1], v)
      <4>1. assign(d, key, f.text) # Error
        BY <1>4 DEF tree
      <4> QED BY <1>3, <4>1, AssignOnWay
    <3>3. tree = assign(d, key, f.text)
      BY DEF tree
    <3> QED BY <1>12, <2>1, <2>2, <3>1, <3>2, <3>3
  <2>4. \A x \in Steps : Goes(more, all, q, x) <=> x = s \/ Goes(flags, done, q, x)
    <3>1. \A x \in Steps : IsPrefix(Append(q, x), key) <=> x = s
      BY <1>3, <1>12, ThroughStep
    <3> QED BY <1>2, <3>1 DEF Goes
  <2>5. old = Nil => \A x \in Steps : ~Goes(flags, done, q, x)
    <3> SUFFICES ASSUME old = Nil, NEW x \in Steps, NEW j \in Through(flags, done, Append(q, x))
                 PROVE  FALSE
      BY DEF Goes
    <3>1. j \in done /\ IsPrefix(Append(q, x), flags[j].key) /\ flags[j].key \in Paths
      BY <1>1, FlagsFacts DEF Through
    <3>2. IsPrefix(q, flags[j].key)
      BY <3>1, ThroughStep
    <3>3. Holds(old, flags[j], m)
      BY <3>1, <3>2 DEF Fits, Through
    <3> QED BY <3>3, HoldsSomething
  <2>6. Right(old, flags, done, q)
    BY <1>9
  <2> HIDE DEF old, new, s, m
  <2>7. PICK v : new = SetAt(old, s, v)
    BY <2>3
  <2>8. CASE s.kind = "name"
    <3>1. s.at \in Names /\ s = Name(s.at)
      BY <2>3, <2>8, NamesAndIndexes
    <3>2. \A a \in Names : Goes(more, all, q, Name(a)) <=> a = s.at \/ Goes(flags, done, q, Name(a))
      <4>1. \A a \in Names : Name(a) = s <=> a = s.at
        BY <3>1 DEF Name
      <4> QED BY <2>4, <4>1, NamesAndIndexes
    <3>3. (IF old = Nil THEN {} ELSE DOMAIN old.entries) = {a \in Names : Goes(flags, done, q, Name(a))}
      <4>1. CASE old = Nil
        <5>1. {a \in Names : Goes(flags, done, q, Name(a))} = {}
          BY <2>5, <4>1, NamesAndIndexes
        <5> QED BY <4>1, <5>1
      <4>2. CASE old # Nil
        <5>1. old.kind = "map"
          BY <2>3, <2>8, <4>2 DEF Takes, IsSlot, Nil, String, MapOf, SliceOf
        <5> QED BY <2>6, <4>2, <5>1 DEF Right
      <4> QED BY <4>1, <4>2
    <3>4. /\ new.kind = "map" /\ Extensional(new.entries)
          /\ DOMAIN new.entries = (IF old = Nil THEN {} ELSE DOMAIN old.entries) \cup {s.at}
      BY <2>3, <2>7, <2>8, SetAtName
    <3>5. DOMAIN new.entries = {a \in Names : Goes(more, all, q, Name(a))}
      BY <3>1, <3>2, <3>3, <3>4
    <3>8. Right(new, more, all, q)
      BY <3>4, <3>5 DEF Right
    <3> QED BY <3>8 DEF new
  <2>9. CASE s.kind = "index"
    <3>1. s.at \in Nat /\ s = Index(s.at)
      BY <2>3, <2>9, NamesAndIndexes
    <3>2. \A k \in Nat : Goes(more, all, q, Index(k)) <=> k = s.at \/ Goes(flags, done, q, Index(k))
      <4>1. \A k \in Nat : Index(k) = s <=> k = s.at
        BY <3>1 DEF Index
      <4> QED BY <2>4, <4>1, NamesAndIndexes
    <3> DEFINE L == IF old = Nil THEN 0 ELSE Len(old.items)
    <3>3. new.kind = "slice" /\ Extensional(new.items)
      BY <2>3, <2>7, <2>9, SetAtIndex
    <3>4. Len(new.items) = IF s.at + 1 > L THEN s.at + 1 ELSE L
      BY <2>3, <2>7, <3>3, SetAtFacts
    <3>5. L \in Nat /\ \A i \in Nat : i < L <=> \E k \in Nat : i <= k /\ Goes(flags, done, q, Index(k))
      <4>1. CASE old = Nil
        <5>1. \A k \in Nat : ~Goes(flags, done, q, Index(k))
          BY <2>5, <4>1, NamesAndIndexes
        <5> QED BY <4>1, <5>1
      <4>2. CASE old # Nil
        <5>1. old.kind = "slice" /\ Len(old.items) \in Nat
          BY <2>3, <2>9, <4>2 DEF Takes, IsSlot, Nil, String, MapOf, SliceOf
        <5> QED BY <2>6, <4>2, <5>1 DEF Right
      <4> QED BY <4>1, <4>2
    <3> HIDE DEF L
    <3>6. \A i \in Nat : i < Len(new.items) <=> i <= s.at \/ i < L
      BY <3>1, <3>4, <3>5
    <3>7. \A i \in Nat : i < Len(new.items)
                           <=> \E k \in Nat : i <= k /\ Goes(more, all, q, Index(k))
      BY <3>1, <3>2, <3>5, <3>6
    <3>8. Right(new, more, all, q)
      BY <3>3, <3>7 DEF Right
    <3> QED BY <3>8 DEF new
  <2> QED BY <2>3, <2>8, <2>9 DEF Takes
<1> QED BY <1>10, <1>11, <1>12

(* A sequence of flags is empty or has a last one. *)
LEMMA LastFlag ==
  ASSUME NEW n \in Nat, NEW flags \in Seq(Flags), Len(flags) = n + 1
  PROVE  \E before \in Seq(Flags) : \E f \in Flags : Len(before) = n /\ flags = Append(before, f)
<1>1. flags # << >>
  BY EmptySeq
<1>2. PICK before \in Seq(Flags), f \in Flags : flags = Append(before, f)
  BY <1>1, SequenceEmptyOrAppend
<1>3. Len(flags) = Len(before) + 1 /\ Len(before) \in Nat
  BY <1>2, AppendProperties, LenProperties
<1> QED BY <1>2, <1>3

(* An empty key changes nothing, and after an error everything is one. *)
LEMMA NothingToAssign ==
  ASSUME NEW d, NEW t
  PROVE  d # Nil => assign(d, << >>, t) = d
<1>1. << >> \in Paths /\ Len(<< >>) = 0
  BY EmptySeq DEF Paths
<1>2. PICK kept :
        /\ assign(d, << >>, t)
             = IF \E i \in 1 .. Len(<< >>) : ~Takes(Slots(d, << >>)[i - 1], << >>[i])
               THEN Error ELSE kept[0]
        /\ kept[Len(<< >>)] = Filled(SlotAt(d, << >>), t)
  BY <1>1, AssignSteps
<1>3. assign(d, << >>, t) = Filled(SlotAt(d, << >>), t)
  <2>1. ~ \E i \in 1 .. 0 : TRUE
    OBVIOUS
  <2> QED BY <1>1, <1>2, <2>1
<1> QED BY <1>3, SlotAtEmpty DEF Filled

LEMMA ErrorStays ==
  ASSUME NEW key \in Paths, NEW t
  PROVE  assign(Error, key, t) = Error
<1>1. Error # Nil
  BY DEF Error, Nil
<1>2. CASE key = << >>
  BY <1>1, <1>2, NothingToAssign
<1>3. CASE key # << >>
  <2>1. 1 \in 1 .. Len(key)
    BY <1>3, LenProperties, EmptySeq DEF Paths
  <2>2. PICK slot : slot = Error
    OBVIOUS
  <2>3. Slots(slot, key)[1 - 1] = Error
    BY <2>2, SlotsFacts
  <2>4. ~Takes(Slots(slot, key)[1 - 1], key[1])
    BY <2>3 DEF Takes, Error
  <2>5. PICK kept :
          /\ assign(slot, key, t)
               = IF \E i \in 1 .. Len(key) : ~Takes(Slots(slot, key)[i - 1], key[i])
                 THEN Error ELSE kept[0]
          /\ kept[Len(key)] = Filled(SlotAt(slot, key), t)
          /\ \A i \in 0 .. Len(key) - 1 :
               kept[i] = IF Dropped(Slots(slot, key), key, i) THEN Slots(slot, key)[i]
                         ELSE SetAt(Slots(slot, key)[i], key[i + 1], kept[i + 1])
    BY AssignSteps
  <2> QED BY <2>1, <2>2, <2>4, <2>5
<1> QED BY <1>2, <1>3

(* What unrelated flags make. *)
Replayed(flags) ==
  IF Agreeing(flags)
  THEN /\ IsTree(Result(flags)) /\ Result(flags).kind = "map"
       /\ Fits(Result(flags), flags, Proper(flags))
       /\ Exact(Result(flags), flags, Proper(flags))
  ELSE Result(flags) = Error

LEMMA ExactNothing == Exact(EmptyMap, << >>, {})
<1> SUFFICES ASSUME NEW q \in Paths
             PROVE  LET slot == SlotAt(EmptyMap, q)
                    IN /\ slot.kind = "map" =>
                            /\ Extensional(slot.entries)
                            /\ DOMAIN slot.entries = {n \in Names : Through(<< >>, {}, Append(q, Name(n))) # {}}
                       /\ slot.kind # "slice"
  BY DEF Exact
<1>1. \A p : Through(<< >>, {}, p) = {}
  BY DEF Through
<1>2. SlotAt(EmptyMap, q) = EmptyMap \/ SlotAt(EmptyMap, q) = Nil
  BY EmptyHasNothing
<1>3. EmptyMap.kind = "map" /\ EmptyMap.entries = << >> /\ Nil.kind = "nil"
  BY DEF EmptyMap, MapOf, Nil
<1>4. Extensional(<< >>) /\ DOMAIN << >> = {}
  <2>1. DOMAIN << >> = {}
    BY EmptySeq
  <2>2. << >> = [x \in DOMAIN << >> |-> << >>[x]]
    BY EmptySeq
  <2> QED BY <2>1, <2>2 DEF Extensional
<1> QED BY <1>1, <1>2, <1>3, <1>4

(* One unrelated flag more: an error if it disagrees, and else it fits. *)
LEMMA ReplayOne ==
  ASSUME NEW flags \in Seq(Flags), NEW f \in Flags, Unrelated(Append(flags, f)), Replayed(flags)
  PROVE  Replayed(Append(flags, f))
<1> DEFINE more == Append(flags, f)
           n == Len(flags) + 1
           d == Result(flags)
           done == Proper(flags)
<1>1. f.key \in Paths
  BY KeysArePaths DEF Flags
<1>2. Result(more) = assign(d, f.key, f.text)
  BY ResultAppend
<1>3. Agreeing(more) <=> Agreeing(flags) /\ (f.key # << >> => ~Conflicts(flags, done, f.key))
  BY AgreeAppend
<1>4. done \subseteq 1 .. Len(flags) /\ done \in SUBSET (1 .. Len(flags))
  BY DEF Proper
<1>5. Proper(more) = IF f.key = << >> THEN done ELSE done \cup {n}
  <2>1. /\ Len(flags) \in Nat /\ more[n] = f /\ Len(more) = n
        /\ \A j \in 1 .. Len(flags) : more[j] = flags[j]
    BY LenProperties, AppendProperties
  <2>2. \A j : j \in 1 .. n <=> j = n \/ j \in 1 .. Len(flags)
    BY <2>1
  <2> HIDE DEF more, n
  <2> QED BY <2>1, <2>2 DEF Proper
<1> HIDE DEF n, d, done, more
<1>6. CASE ~Agreeing(flags)
  <2>1. d = Error
    BY <1>6 DEF Replayed, d
  <2>2. Result(more) = Error
    BY <1>1, <1>2, <2>1, ErrorStays
  <2>3. Replayed(more)
    BY <1>3, <1>6, <2>2 DEF Replayed
  <2> QED BY <2>3 DEF more
<1>7. CASE Agreeing(flags)
  <2>1. IsTree(d) /\ d.kind = "map" /\ Fits(d, flags, done) /\ Exact(d, flags, done)
    BY <1>7 DEF Replayed, d, done
  <2>2. CASE f.key = << >>
    <3>1. d # Nil
      BY <2>1 DEF Nil
    <3>2. Result(more) = d
      BY <1>2, <2>2, <3>1, NothingToAssign
    <3>3. Fits(d, more, done)
      BY <2>1, FitsWithMore DEF more
    <3>4. \A q : Through(more, done, q) = Through(flags, done, q)
      <4>1. \A q : Through(Append(flags, f), done, q) = Through(flags, done, q)
        BY <1>4, SameThrough
      <4> QED BY <4>1 DEF more
    <3>5. Exact(d, more, done)
      BY <2>1, <3>4 DEF Exact
    <3>6. Replayed(more)
      BY <1>3, <1>5, <1>7, <2>1, <2>2, <3>2, <3>3, <3>5 DEF Replayed
    <3> QED BY <3>6 DEF more
  <2>3. CASE f.key # << >> /\ Conflicts(flags, done, f.key)
    <3>1. Result(more) = Error
      BY <1>1, <1>2, <2>1, <2>3, ErrorIffConflict
    <3>2. Replayed(more)
      BY <1>3, <2>3, <3>1 DEF Replayed
    <3> QED BY <3>2 DEF more
  <2>4. CASE f.key # << >> /\ ~Conflicts(flags, done, f.key)
    <3>1. assign(d, f.key, f.text) # Error
      BY <1>1, <2>1, <2>4, ErrorIffConflict
    <3>2. ~Lost(flags, done, f.key)
      <4>1. \A j \in 1 .. Len(flags) : ~IsPrefix(f.key, flags[j].key)
        BY UnrelatedAppend
      <4>2. \A k \in 1 .. Len(f.key) - 1 : ~(f.key[k].kind = "index" /\ f.key[k + 1].kind = "index")
        BY UnrelatedAppend
      <4>3. Through(flags, done, f.key) = {}
        BY <1>4, <4>1 DEF Through
      <4>4. ~OutgrowsElement(flags, done, f.key)
        BY <4>2 DEF OutgrowsElement
      <4> QED BY <2>4, <4>3, <4>4 DEF Lost
    <3>3. IsTree(assign(d, f.key, f.text)) /\ assign(d, f.key, f.text).kind = "map"
      BY <1>1, <2>1, <3>1, AssignIsTree
    <3>4. Fits(assign(d, f.key, f.text), Append(flags, f), done \cup {Len(flags) + 1})
      BY <2>1, <3>1, <3>2, EffectiveFits
    <3>5. Exact(assign(d, f.key, f.text), Append(flags, f), done \cup {Len(flags) + 1})
      BY <2>1, <3>1, <3>2, ExactStep
    <3>6. /\ IsTree(Result(more)) /\ Result(more).kind = "map"
          /\ Fits(Result(more), more, Proper(more)) /\ Exact(Result(more), more, Proper(more))
      BY <1>2, <1>5, <2>4, <3>3, <3>4, <3>5 DEF more, n
    <3>7. Replayed(more)
      BY <1>3, <1>7, <2>4, <3>6 DEF Replayed
    <3> QED BY <3>7 DEF more
  <2> QED BY <2>2, <2>3, <2>4
<1> QED BY <1>6, <1>7

(* By induction on the number of flags. *)
LEMMA Replay ==
  ASSUME NEW flags \in Seq(Flags), Unrelated(flags)
  PROVE  Replayed(flags)
<1> DEFINE S == {n \in Nat : \A s \in Seq(Flags) : Len(s) = n /\ Unrelated(s) => Replayed(s)}
<1>1. 0 \in S
  <2> SUFFICES ASSUME NEW s \in Seq(Flags), Len(s) = 0, Unrelated(s) PROVE Replayed(s)
    OBVIOUS
  <2>1. s = << >>
    BY EmptySeq
  <2>2. Proper(<< >>) = {} /\ Agreeing(<< >>)
    <3>1. ~ \E j \in 1 .. Len(<< >>) : TRUE
      BY EmptySeq
    <3> QED BY <3>1 DEF Proper, Agreeing
  <2> QED BY <2>1, <2>2, ResultOfNone, EmptyIsTree, FitsNothing, ExactNothing DEF Replayed
<1>2. ASSUME NEW n \in S PROVE n + 1 \in S
  <2>1. n \in Nat /\ n + 1 \in Nat
    OBVIOUS
  <2> SUFFICES ASSUME NEW s \in Seq(Flags), Len(s) = n + 1, Unrelated(s) PROVE Replayed(s)
    BY <2>1
  <2>2. PICK before \in Seq(Flags) : \E f \in Flags : Len(before) = n /\ s = Append(before, f)
    BY <2>1, LastFlag
  <2>3. PICK f \in Flags : Len(before) = n /\ s = Append(before, f)
    BY <2>2
  <2>4. Unrelated(before)
    BY <2>3, UnrelatedAppend
  <2>5. Replayed(before)
    BY <2>3, <2>4
  <2> QED BY <2>3, <2>5, ReplayOne
<1> HIDE DEF S
<1>3. Nat \subseteq S
  BY <1>1, <1>2, SetInduction
<1>4. Len(flags) \in Nat
  BY LenProperties
<1> QED BY <1>3, <1>4 DEF S

-----------------------------------------------------------------------------
(* What unrelated flags make does not depend on their order. *)

(* Two containers are the same if they are as large and have the same children. *)
LEMMA SameMaps ==
  ASSUME NEW a, IsSlot(a), a.kind = "map", Extensional(a.entries),
         NEW b, IsSlot(b), b.kind = "map", Extensional(b.entries),
         DOMAIN a.entries = DOMAIN b.entries, DOMAIN a.entries \subseteq Names,
         \A s \in Steps : Child(a, s) = Child(b, s)
  PROVE  a = b
<1>1. a = MapOf(a.entries) /\ b = MapOf(b.entries)
  BY DEF IsSlot, Nil, String, MapOf, SliceOf
<1>2. ASSUME NEW n \in DOMAIN a.entries PROVE a.entries[n] = b.entries[n]
  <2>1. Name(n) \in Steps /\ Name(n).kind = "name" /\ Name(n).at = n
    BY NamesAndIndexes
  <2>2. Child(a, Name(n)) = a.entries[n] /\ Child(b, Name(n)) = b.entries[n]
    BY <2>1 DEF Child, Found
  <2> QED BY <2>1, <2>2
<1>3. a.entries = b.entries
  BY <1>2 DEF Extensional
<1> QED BY <1>1, <1>3

LEMMA SameSlices ==
  ASSUME NEW a, IsSlot(a), a.kind = "slice", Extensional(a.items),
         NEW b, IsSlot(b), b.kind = "slice", Extensional(b.items),
         \A i \in Nat : i < Len(a.items) <=> i < Len(b.items),
         \A s \in Steps : Child(a, s) = Child(b, s)
  PROVE  a = b
<1>1. /\ a = SliceOf(a.items) /\ Len(a.items) \in Nat /\ DOMAIN a.items = 1 .. Len(a.items)
      /\ b = SliceOf(b.items) /\ Len(b.items) \in Nat /\ DOMAIN b.items = 1 .. Len(b.items)
  BY DEF IsSlot, Nil, String, MapOf, SliceOf
<1>2. Len(a.items) = Len(b.items)
  <2>1. ASSUME NEW l \in Nat, NEW m \in Nat, \A i \in Nat : i < l <=> i < m PROVE l = m
    BY <2>1
  <2> QED BY <1>1, <2>1
<1>3. ASSUME NEW i \in Nat, i < Len(a.items) PROVE a.items[i + 1] = b.items[i + 1]
  <2>1. Index(i) \in Steps /\ Index(i).kind = "index" /\ Index(i).at = i
    BY NamesAndIndexes
  <2>2. i < Len(b.items)
    BY <1>3
  <2>3. Child(a, Index(i)) = a.items[i + 1]
    BY <1>3, <2>1 DEF Child, Found
  <2>4. Child(b, Index(i)) = b.items[i + 1]
    BY <2>1, <2>2 DEF Child, Found
  <2> QED BY <2>1, <2>3, <2>4
<1>4. \A k \in 1 .. Len(a.items) : a.items[k] = b.items[k]
  <2>1. ASSUME NEW l \in Nat, NEW k \in 1 .. l PROVE k - 1 \in Nat /\ k - 1 < l /\ (k - 1) + 1 = k
    OBVIOUS
  <2>2. ASSUME NEW k \in 1 .. Len(a.items) PROVE a.items[k] = b.items[k]
    <3>1. k - 1 \in Nat /\ k - 1 < Len(a.items) /\ (k - 1) + 1 = k
      BY <1>1, <2>1
    <3>2. a.items[(k - 1) + 1] = b.items[(k - 1) + 1]
      BY <1>3, <3>1
    <3> QED BY <3>1, <3>2
  <2> QED BY <2>2
<1>5. a.items = b.items
  BY <1>1, <1>2, <1>4 DEF Extensional
<1> QED BY <1>1, <1>5

(* The keys of some flags have a longest. *)
LEMMA LongestKey ==
  ASSUME NEW flags \in Seq(Flags)
  PROVE  \E most \in Nat : \A j \in 1 .. Len(flags) : Len(flags[j].key) <= most
<1> DEFINE S == {n \in Nat : n <= Len(flags) =>
                   \E most \in Nat : \A j \in 1 .. n : Len(flags[j].key) <= most}
<1>1. 0 \in S
  BY LenProperties
<1>2. ASSUME NEW n \in S PROVE n + 1 \in S
  <2>1. n \in Nat /\ n + 1 \in Nat
    OBVIOUS
  <2>2. Len(flags) \in Nat
    BY LenProperties
  <2> SUFFICES ASSUME n + 1 <= Len(flags)
               PROVE  \E most \in Nat : \A j \in 1 .. n + 1 : Len(flags[j].key) <= most
    BY <2>1
  <2>3. n + 1 \in 1 .. Len(flags) /\ n <= Len(flags) /\ \A j \in 1 .. n : j \in 1 .. Len(flags)
    BY <2>1, <2>2
  <2>4. PICK most \in Nat : \A j \in 1 .. n : Len(flags[j].key) <= most
    BY <2>3
  <2> DEFINE last == Len(flags[n + 1].key)
  <2>5. last \in Nat
    BY <2>3, FlagsFacts
  <2>6. \A j \in 1 .. n : Len(flags[j].key) \in Nat
    BY <2>3, FlagsFacts
  <2>7. most + last \in Nat /\ last <= most + last
    BY <2>5
  <2>8. \A j \in 1 .. n + 1 : j = n + 1 \/ j \in 1 .. n
    BY <2>1
  <2> HIDE DEF last
  <2>9. ASSUME NEW j \in 1 .. n PROVE Len(flags[j].key) <= most + last
    <3>1. Len(flags[j].key) \in Nat /\ Len(flags[j].key) <= most
      BY <2>4, <2>6
    <3> QED BY <2>5, <3>1
  <2>10. \A j \in 1 .. n + 1 : Len(flags[j].key) <= most + last
    BY <2>7, <2>8, <2>9 DEF last
  <2> QED BY <2>7, <2>10
<1> HIDE DEF S
<1>3. Len(flags) \in S
  BY <1>1, <1>2, SetInduction, LenProperties
<1>4. Len(flags) <= Len(flags)
  BY LenProperties
<1> QED BY <1>3, <1>4 DEF S

(* Each of some flags is one of the others. *)
Among(flags, done, others, rest) == \A j \in done : \E k \in rest : flags[j] = others[k]

(***************************************************************************)
(* Two results of the same flags hold the same at a path where no flag     *)
(* goes, and at one after whose every step they do.                        *)
(***************************************************************************)
LEMMA SameSlots ==
  ASSUME NEW a, IsTree(a), a.kind = "map", NEW flags \in Seq(Flags), NEW done,
         Fits(a, flags, done), Exact(a, flags, done),
         NEW b, IsTree(b), b.kind = "map", NEW others \in Seq(Flags), NEW rest,
         Fits(b, others, rest), Exact(b, others, rest),
         Among(flags, done, others, rest), Among(others, rest, flags, done),
         NEW q \in Paths
  PROVE  /\ Through(flags, done, q) = {} /\ q # << >> => SlotAt(a, q) = SlotAt(b, q)
         /\ (\A s \in Steps : SlotAt(a, Append(q, s)) = SlotAt(b, Append(q, s)))
              => SlotAt(a, q) = SlotAt(b, q)
<1>1. \A p : Through(flags, done, p) = {} <=> Through(others, rest, p) = {}
  BY DEF Through, Among
<1>2. Through(flags, done, q) = {} /\ q # << >> => SlotAt(a, q) = Nil /\ SlotAt(b, q) = Nil
  BY <1>1 DEF Fits
<1>3. SUFFICES ASSUME \A s \in Steps : SlotAt(a, Append(q, s)) = SlotAt(b, Append(q, s)),
                      Through(flags, done, q) # {} \/ q = << >>
               PROVE  SlotAt(a, q) = SlotAt(b, q)
  BY <1>2
<1> DEFINE old == SlotAt(a, q)
           new == SlotAt(b, q)
<1>4. IsSlot(old) /\ IsSlot(new)
  BY DEF IsTree
<1>5. \A s \in Steps : Child(old, s) = Child(new, s)
  BY <1>3, SlotAtAppend
<1>6. \/ old = new
      \/ old.kind = "map" /\ new.kind = "map"
      \/ old.kind = "slice" /\ new.kind = "slice"
  <2>1. CASE q = << >>
    BY <2>1, SlotAtEmpty
  <2>2. CASE Through(flags, done, q) # {}
    <3>1. PICK j : j \in Through(flags, done, q)
      BY <2>2
    <3>2. PICK k \in rest : flags[j] = others[k]
      BY <3>1 DEF Through, Among
    <3>3. k \in Through(others, rest, q)
      BY <3>1, <3>2 DEF Through
    <3>4. Holds(old, flags[j], Len(q)) /\ Holds(new, flags[j], Len(q))
      BY <3>1, <3>2, <3>3 DEF Fits
    <3> HIDE DEF old, new
    <3> QED BY <3>4 DEF Holds
  <2> QED BY <1>3, <2>1, <2>2
<1>7. CASE old.kind = "map" /\ new.kind = "map"
  <2>1. /\ Extensional(old.entries) /\ Extensional(new.entries)
        /\ DOMAIN old.entries = {n \in Names : Through(flags, done, Append(q, Name(n))) # {}}
        /\ DOMAIN new.entries = {n \in Names : Through(others, rest, Append(q, Name(n))) # {}}
    BY <1>7 DEF Exact
  <2>2. DOMAIN old.entries = DOMAIN new.entries /\ DOMAIN old.entries \subseteq Names
    BY <1>1, <2>1
  <2> HIDE DEF old, new
  <2> QED BY <1>4, <1>5, <1>7, <2>1, <2>2, SameMaps DEF old, new
<1>8. CASE old.kind = "slice" /\ new.kind = "slice"
  <2>1. Extensional(old.items) /\ Extensional(new.items)
    BY <1>8 DEF Exact
  <2>2. \A i \in Nat : i < Len(old.items)
                         <=> \E k \in Nat : i <= k /\ Through(flags, done, Append(q, Index(k))) # {}
    BY <1>8 DEF Exact
  <2>3. \A i \in Nat : i < Len(new.items)
                         <=> \E k \in Nat : i <= k /\ Through(others, rest, Append(q, Index(k))) # {}
    BY <1>8 DEF Exact
  <2>4. \A i \in Nat : i < Len(old.items) <=> i < Len(new.items)
    <3> HIDE DEF old, new
    <3> QED BY <1>1, <2>2, <2>3
  <2> HIDE DEF old, new
  <2> QED BY <1>4, <1>5, <1>8, <2>1, <2>4, SameSlices DEF old, new
<1> QED BY <1>6, <1>7, <1>8

(* Slots that are the same from some depth on are the same up to the root. *)
LEMMA SameTrees ==
  ASSUME NEW a, IsTree(a), a.kind = "map", NEW flags \in Seq(Flags), NEW done,
         Fits(a, flags, done), Exact(a, flags, done),
         NEW b, IsTree(b), b.kind = "map", NEW others \in Seq(Flags), NEW rest,
         Fits(b, others, rest), Exact(b, others, rest),
         Among(flags, done, others, rest), Among(others, rest, flags, done)
  PROVE  a = b
<1>1. PICK most \in Nat : \A j \in 1 .. Len(flags) : Len(flags[j].key) <= most
  BY LongestKey
<1> DEFINE S == {m \in Nat : \A q \in Paths : Len(q) + m > most => SlotAt(a, q) = SlotAt(b, q)}
<1>2. 0 \in S
  <2> SUFFICES ASSUME NEW q \in Paths, Len(q) + 0 > most PROVE SlotAt(a, q) = SlotAt(b, q)
    OBVIOUS
  <2>1. Len(q) \in Nat /\ Len(q) > most
    BY LenProperties DEF Paths
  <2>2. q # << >>
    BY <2>1, EmptySeq
  <2>3. ASSUME NEW j \in Through(flags, done, q) PROVE FALSE
    <3>1. j \in 1 .. Len(flags) /\ IsPrefix(q, flags[j].key)
      BY DEF Through, Fits
    <3>2. flags[j].key \in Paths /\ Len(flags[j].key) \in Nat
      BY <3>1, FlagsFacts
    <3>3. Len(q) \in 0 .. Len(flags[j].key)
      BY <3>1, <3>2, PrefixFacts
    <3> QED BY <1>1, <2>1, <3>1, <3>2, <3>3
  <2> QED BY <2>2, <2>3, SameSlots
<1>3. ASSUME NEW m \in S PROVE m + 1 \in S
  <2>1. m \in Nat /\ m + 1 \in Nat
    OBVIOUS
  <2> SUFFICES ASSUME NEW q \in Paths, Len(q) + (m + 1) > most PROVE SlotAt(a, q) = SlotAt(b, q)
    BY <2>1
  <2>2. ASSUME NEW s \in Steps PROVE SlotAt(a, Append(q, s)) = SlotAt(b, Append(q, s))
    <3>1. Append(q, s) \in Paths /\ Len(Append(q, s)) = Len(q) + 1 /\ Len(q) \in Nat
      BY AppendProperties, LenProperties DEF Paths
    <3>2. Len(Append(q, s)) + m > most
      BY <2>1, <3>1
    <3> QED BY <3>1, <3>2
  <2> HIDE DEF S
  <2> QED BY <2>2, SameSlots
<1> HIDE DEF S
<1>4. most + 1 \in S
  BY <1>2, <1>3, SetInduction
<1>5. << >> \in Paths /\ Len(<< >>) = 0
  BY EmptySeq DEF Paths
<1>6. SlotAt(a, << >>) = SlotAt(b, << >>)
  BY <1>4, <1>5 DEF S
<1> QED BY <1>6, SlotAtEmpty

(* The flags in another order: each is one of the others, and they are as unrelated as before. *)
LEMMA Reordered ==
  ASSUME NEW flags \in Seq(Flags), NEW p \in Bijection(DOMAIN flags, DOMAIN flags)
  PROVE  LET others == [i \in DOMAIN flags |-> flags[p[i]]]
         IN /\ others \in Seq(Flags) /\ Len(others) = Len(flags)
            /\ Among(others, Proper(others), flags, Proper(flags))
            /\ Among(flags, Proper(flags), others, Proper(others))
            /\ Unrelated(flags) => Unrelated(others)
            /\ Agreeing(flags) => Agreeing(others)
<1> DEFINE D == 1 .. Len(flags)
           others == [i \in D |-> flags[p[i]]]
<1>1. Len(flags) \in Nat /\ DOMAIN flags = D
  BY LenProperties
<1>2. p \in [D -> D] /\ \A j \in D : \E i \in D : p[i] = j
  BY <1>1 DEF Bijection, Surjection
<1>3. \A i, j \in D : i # j => p[i] # p[j]
  BY <1>1 DEF Bijection, Injection, IsInjective
<1>4. \A i \in D : p[i] \in D /\ flags[p[i]] \in Flags /\ others[i] = flags[p[i]]
  BY <1>1, <1>2, ElementOfSeq
<1>5. others \in Seq(Flags) /\ Len(others) = Len(flags) /\ DOMAIN others = D
  <2>1. others \in [1 .. Len(flags) -> Flags]
    BY <1>4
  <2>2. others \in Seq(Flags)
    BY <1>1, <2>1, SeqDef
  <2>3. DOMAIN others = D
    OBVIOUS
  <2> HIDE DEF others
  <2>4. DOMAIN others = 1 .. Len(others) /\ Len(others) \in Nat
    BY <2>2, LenProperties
  <2>5. Len(others) = Len(flags)
    BY <1>1, <2>3, <2>4
  <2> QED BY <2>2, <2>3, <2>5
<1> HIDE DEF others
<1>6. Proper(others) = {i \in D : p[i] \in Proper(flags)}
  BY <1>4, <1>5 DEF Proper
<1>7. Among(others, Proper(others), flags, Proper(flags))
  BY <1>4, <1>6 DEF Among
<1>8. Among(flags, Proper(flags), others, Proper(others))
  <2> SUFFICES ASSUME NEW j \in Proper(flags)
               PROVE  \E k \in Proper(others) : flags[j] = others[k]
    BY DEF Among
  <2>1. PICK i \in D : p[i] = j
    BY <1>2 DEF Proper
  <2> QED BY <1>4, <1>6, <2>1
<1>9. Unrelated(flags) => Unrelated(others)
  <2> SUFFICES ASSUME Unrelated(flags) PROVE Unrelated(others)
    OBVIOUS
  <2> HIDE DEF D
  <2>1. ASSUME NEW i \in D, NEW j \in D, i # j PROVE ~IsPrefix(others[i].key, others[j].key)
    <3>1. p[i] \in D /\ p[j] \in D /\ p[i] # p[j]
      BY <1>2, <1>3, <2>1
    <3> QED BY <1>1, <1>4, <3>1 DEF Unrelated
  <2>2. ASSUME NEW i \in D, NEW k \in 1 .. Len(others[i].key) - 1
        PROVE  ~(others[i].key[k].kind = "index" /\ others[i].key[k + 1].kind = "index")
    BY <1>1, <1>4 DEF Unrelated
  <2> QED BY <1>5, <2>1, <2>2 DEF Unrelated
<1>10. Agreeing(flags) => Agreeing(others)
  BY <1>4, <1>5 DEF Agreeing
<1> QED BY <1>1, <1>5, <1>7, <1>8, <1>9, <1>10 DEF others

(* Until an error, the result is what the flags handled so far make. *)
FromRead == outcome = "running" => data = Result(read)

LEMMA FlagsMakeResult == Spec => []FromRead
<1>1. Init => FromRead
  BY ResultOfNone DEF Init, FromRead
<1>2. FlagTypeInv /\ FromRead /\ [Next]_vars => FromRead'
  <2>1. SUFFICES ASSUME FlagTypeInv, FromRead, [Next]_vars PROVE FromRead'
    OBVIOUS
  <2>2. args \in Seq(Args) /\ read \in Seq(Flags)
    BY <2>1 DEF FlagTypeInv, TypeOK
  <2>3. CASE UNCHANGED vars
    BY <2>1, <2>3 DEF FromRead, vars
  <2>4. CASE outcome' \in {"done", "panic", "invalid flag", "expected parameter"}
    BY <2>4 DEF FromRead
  <2>5. CASE \E key, text : Handles(key, text)
    <3>1. PICK key, text : Handles(key, text)
      BY <2>5
    <3> DEFINE f == [key |-> key, text |-> text]
    <3>2. f \in Flags /\ f.key = key /\ f.text = text /\ read' = Append(read, f)
      BY <3>1 DEF Handles, Assign, Flags
    <3>3. outcome' = "running" => data' = assign(data, key, text)
      BY <3>1 DEF Handles, Assign
    <3>4. data = Result(read)
      BY <2>1, <3>1 DEF FromRead, Handles
    <3> HIDE DEF f
    <3>5. Result(Append(read, f)) = assign(Result(read), f.key, f.text)
      BY <2>2, <3>2, ResultAppend
    <3> QED BY <3>2, <3>3, <3>4, <3>5 DEF FromRead
  <2> QED BY <2>1, <2>2, <2>3, <2>4, <2>5, StepsOfMap
<1> QED BY <1>1, <1>2, FlagTypes, PTL DEF Spec

(***************************************************************************)
(* OrderIsIrrelevant for every number of flags and keys of any length: all *)
(* orders of unrelated flags make the same maps and slices.  A tree that   *)
(* Fits and is Exact is determined by the set of its flags, and both hold  *)
(* whatever the order, as no flag is lost.                                 *)
(***************************************************************************)
THEOREM AnyOrder == Spec => []OrderIsIrrelevant
<1>1. ASSUME FlagTypeInv, FromRead PROVE OrderIsIrrelevant
  <2> SUFFICES ASSUME outcome = "running", Unrelated(read), NEW p \in Bijection(DOMAIN read, DOMAIN read)
               PROVE  Result([i \in DOMAIN read |-> read[p[i]]]) = data
    BY DEF OrderIsIrrelevant
  <2> DEFINE others == [i \in DOMAIN read |-> read[p[i]]]
  <2>1. read \in Seq(Flags) /\ data = Result(read) /\ data.kind = "map"
    BY <1>1 DEF FlagTypeInv, TypeOK, FromRead
  <2>2. /\ others \in Seq(Flags) /\ Unrelated(others) /\ (Agreeing(read) => Agreeing(others))
        /\ Among(others, Proper(others), read, Proper(read))
        /\ Among(read, Proper(read), others, Proper(others))
    BY <2>1, Reordered
  <2> HIDE DEF others
  <2>3. Agreeing(read)
    <3>1. data # Error
      BY <2>1 DEF Error
    <3> QED BY <2>1, <3>1, Replay DEF Replayed
  <2>4. /\ IsTree(data) /\ Fits(data, read, Proper(read)) /\ Exact(data, read, Proper(read))
    BY <2>1, <2>3, Replay DEF Replayed
  <2>5. /\ IsTree(Result(others)) /\ Result(others).kind = "map"
        /\ Fits(Result(others), others, Proper(others))
        /\ Exact(Result(others), others, Proper(others))
    BY <2>2, <2>3, Replay DEF Replayed
  <2>6. Result(others) = data
    BY <2>1, <2>2, <2>4, <2>5, SameTrees
  <2> QED BY <2>6 DEF others
<1> QED BY <1>1, FlagTypes, FlagsMakeResult, PTL

=============================================================================
