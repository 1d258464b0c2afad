------------------------------- MODULE FlagMap -------------------------------
(***************************************************************************)
(* flags.go of xenonc: Map turns the arguments behind METHOD and SERVICE   *)
(* into nested maps and slices, one flag at a time.                        *)
(*                                                                         *)
(* A key is the sequence of the steps that the two patterns of assign find *)
(* in it: ".name", "[index]", or something neither understands.            *)
(***************************************************************************)
EXTENDS Integers, Sequences, FiniteSetsExt, SequencesExt

CONSTANTS
  Names,    \* the names in keys
  Keys,     \* the keys of flags
  Texts,    \* the values behind "="
  MaxArgs   \* bound: the number of arguments

Name(n) == [kind |-> "name", at |-> n]
Index(i) == [kind |-> "index", at |-> i]
Junk == [kind |-> "junk"]
Steps == [kind : {"name"}, at : Names] \cup [kind : {"index"}, at : Nat] \cup {Junk}

ASSUME FlagAssumption ==
  /\ Keys \subseteq Seq(Steps)
  /\ MaxArgs \in Nat

\* "--k=v", "--k", any other text, and one of fewer than two characters.
Args == [form : {"pair"}, key : Keys, text : Texts]
        \cup [form : {"bare"}, key : Keys]
        \cup [form : {"word", "short"}]

\* What a slot of the result can hold.
Nil == [kind |-> "nil"]
String(t) == [kind |-> "string", text |-> t]
MapOf(entries) == [kind |-> "map", entries |-> entries]
SliceOf(items) == [kind |-> "slice", items |-> items]
EmptyMap == MapOf(<< >>)
Error == [kind |-> "error"]

VARIABLES
  args,     \* flags.s: the arguments not looked at yet
  data,     \* m, the result so far
  outcome,  \* "running", or how Map ended
  read      \* history: the flags handled, as key and text

vars == <<args, data, outcome, read>>

-----------------------------------------------------------------------------
(***************************************************************************)
(* What a step of a key finds in a slot, and where the steps of a key lead *)
(* from one: Slots(slot, key)[i] is the slot after the first i of them.    *)
(***************************************************************************)
Found(slot, step) ==
  \/ slot.kind = "map" /\ step.kind = "name" /\ step.at \in DOMAIN slot.entries
  \/ slot.kind = "slice" /\ step.kind = "index" /\ step.at < Len(slot.items)

Child(slot, step) ==
  IF ~Found(slot, step) THEN Nil
  ELSE IF slot.kind = "map" THEN slot.entries[step.at] ELSE slot.items[step.at + 1]

Slots(slot, key) ==
  LET slots[i \in 0 .. Len(key)] == IF i = 0 THEN slot ELSE Child(slots[i - 1], key[i])
  IN slots

SlotAt(slot, key) == Slots(slot, key)[Len(key)]

\* A step goes on from its own kind of container, or from nothing.
Takes(slot, step) ==
  \/ step.kind = "name" /\ slot.kind \in {"nil", "map"}
  \/ step.kind = "index" /\ slot.kind \in {"nil", "slice"}

\* Mutant: the elements are not copied.
FreshTo(items, n) == [i \in 1 .. IF n > Len(items) THEN n ELSE Len(items) |->
                       IF n <= Len(items) THEN items[i] ELSE Nil]
GrownTo(items, n) == [i \in 1 .. IF n > Len(items) THEN n ELSE Len(items) |->
                       IF i <= Len(items) THEN items[i] ELSE Nil]

\* A slot with a value at a step; a slice grows as far as it has to.
SetAt(slot, step, value) ==
  IF step.kind = "index"
  THEN LET items == GrownTo(IF slot = Nil THEN << >> ELSE slot.items, step.at + 1)
       IN SliceOf([items EXCEPT ![step.at + 1] = value])
  ELSE LET entries == IF slot = Nil THEN << >> ELSE slot.entries
       IN MapOf([n \in DOMAIN entries \cup {step.at} |->
                  IF n = step.at THEN value ELSE entries[n]])

(***************************************************************************)
(* An element of a slice is set and changed in place, and what assign      *)
(* returns of it is dropped: if the element is a slice that has to be      *)
(* copied to grow, it stays as it was.                                     *)
(***************************************************************************)
Dropped(slots, key, i) ==
  /\ i \in 1 .. Len(key) - 1
  /\ key[i].kind = "index"
  /\ slots[i].kind = "slice"
  /\ key[i + 1].at >= Len(slots[i].items)

\* Mutant: a value that is there is replaced.
Replaced(slot, t) == String(t)
Filled(slot, t) == IF slot = Nil THEN String(t) ELSE slot

(***************************************************************************)
(* assign: what it returns for the value of a slot, Nil if there is none.  *)
(* kept[i] is what it leaves in the slot after i steps.                    *)
(***************************************************************************)
assign(slot, key, t) ==
  LET slots == Slots(slot, key)
      kept[i \in 0 .. Len(key)] ==
        IF i = Len(key) THEN Filled(slots[i], t)
        ELSE IF Dropped(slots, key, i) THEN slots[i]
        ELSE SetAt(slots[i], key[i + 1], kept[i + 1])
  IN IF \E i \in 1 .. Len(key) : ~Takes(slots[i - 1], key[i]) THEN Error ELSE kept[0]

-----------------------------------------------------------------------------
Init ==
  /\ args \in UNION {[1 .. n -> Args] : n \in 0 .. MaxArgs}
  /\ data = EmptyMap
  /\ outcome = "running"
  /\ read = << >>

Ends(why) == outcome' = why /\ UNCHANGED <<args, data, read>>

\* The loop of Map with a key and a text.
Assign(key, t) ==
  LET new == assign(data, key, t)
  IN /\ read' = Append(read, [key |-> key, text |-> t])
     /\ IF new = Error
          THEN outcome' = "error" /\ UNCHANGED data
          ELSE data' = new /\ UNCHANGED outcome

NoMore == args = << >> /\ Ends("done")

\* Fewer than two characters: the slice expression panics.
TooShort == args # << >> /\ Head(args).form = "short" /\ Ends("panic")

Invalid == args # << >> /\ Head(args).form = "word" /\ Ends("invalid flag")

Pair ==
  /\ args # << >>
  /\ Head(args).form = "pair"
  /\ args' = Tail(args)
  /\ Assign(Head(args).key, Head(args).text)

NoParameter == Len(args) = 1 /\ Head(args).form = "bare" /\ Ends("expected parameter")

\* The value is the next argument, whatever it looks like.
Bare ==
  /\ Len(args) > 1
  /\ Head(args).form = "bare"
  /\ args' = SubSeq(args, 3, Len(args))
  /\ Assign(Head(args).key, args[2])

Next ==
  /\ outcome = "running"
  /\ NoMore \/ TooShort \/ Invalid \/ Pair \/ NoParameter \/ Bare

Spec == Init /\ [][Next]_vars

-----------------------------------------------------------------------------
(***************************************************************************)
(* What the result should be, without maps and slices: the flags that have *)
(* an effect, each the value of one path.                                  *)
(***************************************************************************)
Leaves ==
  {[key |-> k, text |-> SlotAt(data, k).text] :
     k \in {l \in Keys : SlotAt(data, l).kind = "string"}}

\* Those of some flags whose keys go through q.
Through(flags, some, q) == {j \in some : IsPrefix(q, flags[j].key)}

\* A key cannot be read, or disagrees with one of them about what is at q.
Conflicts(flags, some, key) ==
  \/ \E i \in DOMAIN key : key[i] = Junk
  \/ key # << >> /\ key[1].kind # "name"
  \/ \E i \in 1 .. Len(key) - 1 :
       \E j \in Through(flags, some, SubSeq(key, 1, i)) :
         Len(flags[j].key) = i \/ flags[j].key[i + 1].kind # key[i + 1].kind

\* A slice that is an element of a slice keeps the length its first flag gave it.
OutgrowsElement(flags, some, key) ==
  \E i \in 1 .. Len(key) - 1 :
    /\ key[i].kind = "index" /\ key[i + 1].kind = "index"
    /\ \E j \in Through(flags, some, SubSeq(key, 1, i)) :
         /\ \A k \in Through(flags, some, SubSeq(key, 1, i)) : j <= k
         /\ key[i + 1].at > flags[j].key[i + 1].at

\* The flags among the given ones that are found in the result.
Effective(flags) ==
  LET upTo[i \in 0 .. Len(flags)] ==
        IF i = 0 THEN {}
        ELSE LET done == upTo[i - 1]
                 key == flags[i].key
             IN IF \/ key = << >>
                   \/ Through(flags, done, key) # {}
                   \/ OutgrowsElement(flags, done, key)
                THEN done ELSE done \cup {i}
  IN upTo[Len(flags)]

(***************************************************************************)
(* The first flag of a path has its value in the result, whatever other    *)
(* flags come before and after it, and Map fails at the first flag that    *)
(* cannot be read or wants to be in a value or in the wrong kind of        *)
(* container.  The exceptions are flags that come after a longer one, and  *)
(* those that would lengthen a slice in a slice: they are lost without an  *)
(* error.                                                                  *)
(***************************************************************************)
ResultIsFirstFlags ==
  LET before == IF outcome = "error" THEN Front(read) ELSE read
      done == Effective(before)
  IN /\ Leaves = {read[j] : j \in done}
     /\ outcome = "error" <=> read # << >> /\ Conflicts(before, done, Last(read).key)

(***************************************************************************)
(* Flags with unrelated keys may be given in any order, also those for the *)
(* elements of a slice: the result is the same, to the length of every     *)
(* slice.  (Not for slices in slices, see above.)                          *)
(***************************************************************************)
Unrelated(flags) ==
  /\ \A i, j \in DOMAIN flags : i # j => ~IsPrefix(flags[i].key, flags[j].key)
  /\ \A i \in DOMAIN flags : \A k \in 1 .. Len(flags[i].key) - 1 :
       ~(flags[i].key[k].kind = "index" /\ flags[i].key[k + 1].kind = "index")

Result(flags) ==
  LET upTo[i \in 0 .. Len(flags)] ==
        IF i = 0 THEN EmptyMap ELSE assign(upTo[i - 1], flags[i].key, flags[i].text)
  IN upTo[Len(flags)]

OrderIsIrrelevant ==
  (outcome = "running" /\ Unrelated(read)) =>
    \A p \in Bijection(DOMAIN read, DOMAIN read) :
      Result([i \in DOMAIN read |-> read[p[i]]]) = data

(***************************************************************************)
(* A flag never takes away what an earlier one has set, also when a slice  *)
(* has to be copied for it.                                                *)
(***************************************************************************)
KeepsEarlierFlags == [][Leaves \subseteq Leaves']_vars

(***************************************************************************)
(* Type invariant.                                                         *)
(***************************************************************************)
TypeOK ==
  /\ args \in Seq(Args)
  /\ Len(args) + Len(read) <= MaxArgs
  /\ outcome \in {"running", "done", "error", "panic", "invalid flag", "expected parameter"}
  /\ \A i \in DOMAIN read : read[i].key \in Keys /\ read[i].text \in Texts \cup Args
  /\ data.kind = "map"

=============================================================================
