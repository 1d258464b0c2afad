----------------------------- MODULE SwaggerProofs -----------------------------
(***************************************************************************)
(* The documents of the Swagger adapter, for any services, lists of them,  *)
(* templates, kinds and prefixes: what the registry keeps of the kinds it  *)
(* has named, what a document refers to, and from these what completion    *)
(* makes of the answers of a GET.                                          *)
(***************************************************************************)
EXTENDS SwaggerAssembler, SequenceTheorems, WellFoundedInduction, TLAPS

\* Names are full or stripped, and two kinds share one only if confusable.
NamesFit(names) ==
  /\ DOMAIN names \subseteq Kinds
  /\ \A k \in DOMAIN names :
       names[k] \in Seq(Segments) /\ (names[k] = k \/ Stripped(k, names[k]))
  /\ \A k, l \in DOMAIN names : names[k] = names[l] => k = l \/ Confusable(k, l)

\* A model is under the name of the kind it was loaded from.
Sound(registry) ==
  /\ NamesFit(registry.names)
  /\ \A n \in DOMAIN registry.byKind :
       /\ registry.byKind[n] \in DOMAIN registry.names
       /\ registry.names[registry.byKind[n]] = n

\* A registry only grows: names stay, and so do the models' names.
Extends(old, new) ==
  /\ \A k \in DOMAIN old.names : k \in DOMAIN new.names /\ new.names[k] = old.names[k]
  /\ DOMAIN old.byKind \subseteq DOMAIN new.byKind

-----------------------------------------------------------------------------
(***************************************************************************)
(* What is left of a kind is a sequence of segments.                       *)
(***************************************************************************)
LEMMA ShortType ==
  ASSUME NEW prefix \in Seq(Segments), NEW kind \in Seq(Segments), IsPrefix(prefix, kind)
  PROVE  Short(prefix, kind) \in Seq(Segments)
<1>1. Len(prefix) \in Nat /\ Len(kind) \in Nat /\ Len(prefix) <= Len(kind)
  BY LenProperties DEF IsPrefix
<1> QED BY <1>1 DEF Short

(***************************************************************************)
(* Induction over the natural numbers, for a set of them.                  *)
(***************************************************************************)
LEMMA SetInduction ==
  ASSUME NEW S, 0 \in S, \A n \in Nat : n \in S => n + 1 \in S
  PROVE  Nat \subseteq S
<1> DEFINE T == Nat \ S
<1>1. SUFFICES ASSUME T # {} PROVE FALSE
  OBVIOUS
<1>2. PICK x \in T : \A y \in T : ~ (<<y, x>> \in OpToRel(<, Nat))
  <2>1. T \subseteq Nat
    OBVIOUS
  <2>2. IsWellFoundedOn(OpToRel(<, Nat), Nat)
    BY NatLessThanWellFounded
  <2> HIDE DEF T
  <2> QED BY <1>1, <2>1, <2>2, WFMin
<1>3. \A y \in T : ~ (y < x)
  BY <1>2 DEF OpToRel
<1>4. x # 0 /\ x \in Nat
  OBVIOUS
<1>5. x - 1 \in Nat /\ x - 1 < x
  BY <1>4
<1>6. x - 1 \in S
  BY <1>3, <1>5
<1> QED BY <1>4, <1>5, <1>6

(***************************************************************************)
(* Of the prefixes that match a kind there is a last one.                  *)
(***************************************************************************)
LEMMA LastMatchFacts ==
  ASSUME NEW kind, Matching(kind) # {}
  PROVE  \E i \in DOMAIN StripPrefixes :
           LastMatch(kind) = StripPrefixes[i] /\ IsPrefix(StripPrefixes[i], kind)
<1> DEFINE M == Matching(kind)
           Below(n) == M \cap 1 .. n
           S == {n \in Nat : Below(n) # {} => \E i \in Below(n) : \A j \in Below(n) : j <= i}
<1>1. 0 \in S
  OBVIOUS
<1>2. ASSUME NEW n \in S PROVE n + 1 \in S
  <2>1. n \in Nat /\ 1 .. n + 1 = (1 .. n) \cup {n + 1}
    OBVIOUS
  <2>2. CASE n + 1 \in M
    <3>1. n + 1 \in Below(n + 1) /\ \A j \in Below(n + 1) : j <= n + 1
      BY <2>1, <2>2
    <3> QED BY <2>1, <3>1
  <2>3. CASE n + 1 \notin M
    <3>1. Below(n + 1) = Below(n)
      BY <2>1, <2>3
    <3> HIDE DEF Below
    <3> QED BY <2>1, <3>1
  <2> QED BY <2>2, <2>3
<1> HIDE DEF S
<1>3. Nat \subseteq S
  BY <1>1, <1>2, SetInduction
<1> USE DEF S
<1>4. Len(StripPrefixes) \in Nat /\ M \subseteq 1 .. Len(StripPrefixes)
  BY SwaggerAssumption, LenProperties DEF Matching
<1>5. Below(Len(StripPrefixes)) = M
  BY <1>4
<1>6. \E i \in M : \A j \in M : j <= i
  <2> HIDE DEF Below
  <2> QED BY <1>3, <1>4, <1>5
<1> QED BY <1>6 DEF Matching, LastMatch

(***************************************************************************)
(* The name getStrippedKind finds for a new kind fits those before it: it  *)
(* is taken already only when it is the full name, and the kind that has   *)
(* it is confusable with this one.                                         *)
(***************************************************************************)
LEMMA SimplifiedFits ==
  ASSUME NEW names, NamesFit(names), NEW kind \in Kinds \ DOMAIN names
  PROVE  NamesFit(With(names, kind, Simplified(names, kind)))
<1> DEFINE name == Simplified(names, kind)
           new == With(names, kind, name)
<1>1. name \in Seq(Segments) /\ (name = kind \/ Stripped(kind, name))
  <2>1. CASE name = kind
    BY <2>1, SwaggerAssumption
  <2>2. CASE name # kind
    <3>1. Matching(kind) # {} /\ name = Short(LastMatch(kind), kind)
      BY <2>2 DEF Simplified
    <3>2. PICK i \in DOMAIN StripPrefixes :
            LastMatch(kind) = StripPrefixes[i] /\ IsPrefix(StripPrefixes[i], kind)
      BY <3>1, LastMatchFacts
    <3>3. StripPrefixes[i] \in Seq(Segments) /\ kind \in Seq(Segments)
      BY SwaggerAssumption, ElementOfSeq
    <3>4. name \in Seq(Segments) /\ Stripped(kind, name)
      <4> HIDE DEF name
      <4> QED BY <3>1, <3>2, <3>3, ShortType DEF Stripped
    <3> QED BY <3>4
  <2> QED BY <2>1, <2>2
<1>2. /\ DOMAIN new = DOMAIN names \cup {kind}
      /\ new[kind] = name
      /\ \A k \in DOMAIN names : new[k] = names[k]
  <2> HIDE DEF name
  <2> QED BY DEF With
<1>3. ASSUME NEW k \in DOMAIN names, names[k] = name PROVE Confusable(k, kind)
  <2>1. name = kind
    BY <1>3 DEF Simplified
  <2>2. names[k] # k
    BY <2>1, <1>3
  <2> QED BY <1>3, <2>1, <2>2 DEF NamesFit, Stripped, Confusable
<1>4. \A k \in DOMAIN names : names[k] = name => Confusable(k, kind) /\ Confusable(kind, k)
  BY <1>3 DEF Confusable
<1> HIDE DEF name, new
<1>5. DOMAIN new \subseteq Kinds
  BY <1>2 DEF NamesFit
<1>6. \A k \in DOMAIN new : new[k] \in Seq(Segments) /\ (new[k] = k \/ Stripped(k, new[k]))
  BY <1>1, <1>2 DEF NamesFit
<1>7. \A k, l \in DOMAIN new : new[k] = new[l] => k = l \/ Confusable(k, l)
  BY <1>2, <1>4 DEF NamesFit
<1>8. NamesFit(new)
  BY <1>5, <1>6, <1>7 DEF NamesFit
<1> QED BY <1>8 DEF new, name

(***************************************************************************)
(* Naming a kind keeps a registry sound.                                   *)
(***************************************************************************)
LEMMA NamedSound ==
  ASSUME NEW registry, Sound(registry), NEW kind \in Kinds
  PROVE  /\ Sound(Named(registry, kind)) /\ Extends(registry, Named(registry, kind))
         /\ kind \in DOMAIN Named(registry, kind).names
<1> DEFINE names == registry.names
           name == StrippedKind(registry, kind)
           new == With(names, kind, name)
           named == Named(registry, kind)
<1>1. /\ DOMAIN new = DOMAIN names \cup {kind}
      /\ \A k \in DOMAIN names : new[k] = names[k]
  BY DEF With, StrippedKind
<1>2. NamesFit(new)
  <2>1. CASE kind \in DOMAIN names
    <3> HIDE DEF new
    <3> QED BY <1>1, <2>1 DEF Sound, NamesFit
  <2>2. CASE kind \notin DOMAIN names
    BY <2>2, SimplifiedFits DEF Sound, StrippedKind
  <2> QED BY <2>1, <2>2
<1>3. named.names = new /\ named.byKind = registry.byKind
  BY DEF Named
<1> HIDE DEF new, named
<1> QED BY <1>1, <1>2, <1>3 DEF Sound, Extends, named

(***************************************************************************)
(* So does putting a model under the name of its kind.                     *)
(***************************************************************************)
LEMMA PutSound ==
  ASSUME NEW registry, Sound(registry), NEW kind \in DOMAIN registry.names
  PROVE  /\ Sound(Put(registry, kind)) /\ Extends(registry, Put(registry, kind))
         /\ Put(registry, kind).names = registry.names
         /\ registry.names[kind] \in DOMAIN Put(registry, kind).byKind
<1> DEFINE put == Put(registry, kind)
           name == registry.names[kind]
<1>1. put.names = registry.names /\ put.byKind = With(registry.byKind, name, kind)
  BY DEF Put
<1>2. /\ DOMAIN put.byKind = DOMAIN registry.byKind \cup {name}
      /\ put.byKind[name] = kind
      /\ \A n \in DOMAIN registry.byKind : n # name => put.byKind[n] = registry.byKind[n]
  BY <1>1 DEF With
<1> HIDE DEF put
<1> QED BY <1>1, <1>2 DEF Sound, Extends, put

\* The name of a kind, under which there is a model.
Refers(registry, kind, name) ==
  /\ kind \in DOMAIN registry.names /\ registry.names[kind] = name
  /\ name \in DOMAIN registry.byKind

(***************************************************************************)
(* So does loading a kind, with what it puts for its field.                *)
(***************************************************************************)
LEMMA LoadSound ==
  ASSUME NEW registry, Sound(registry), NEW kind \in Kinds
  PROVE  Sound(Load(registry, kind)) /\ Extends(registry, Load(registry, kind))
<1>1. CASE Fields[kind] = None
  BY <1>1 DEF Load, Extends
<1>2. CASE Fields[kind] # None
  <2> DEFINE field == Fields[kind]
             named == Named(registry, field)
  <2>1. field \in Kinds
    BY <1>2, SwaggerAssumption
  <2>2. Load(registry, kind) = IF named.names[field] \in DOMAIN named.byKind THEN named
                               ELSE Put(named, field)
    BY <1>2 DEF Load, RefProperty, Bound
  <2> HIDE DEF field
  <2>3. Sound(named) /\ Extends(registry, named) /\ field \in DOMAIN named.names
    BY <2>1, NamedSound
  <2> HIDE DEF named
  <2>4. Sound(Put(named, field)) /\ Extends(named, Put(named, field))
    BY <2>3, PutSound
  <2> QED BY <2>2, <2>3, <2>4 DEF Extends
<1> QED BY <1>1, <1>2

(***************************************************************************)
(* After getModel the kind has a name and a model under it.                *)
(***************************************************************************)
LEMMA GetModelSound ==
  ASSUME NEW registry, Sound(registry), NEW kind \in Kinds
  PROVE  LET new == GetModel(registry, kind)
         IN /\ Sound(new) /\ Extends(registry, new)
            /\ Refers(new, kind, new.names[kind])
<1> DEFINE named == Named(registry, kind)
           loaded == Load(named, kind)
           new == GetModel(registry, kind)
<1>1. new = IF named.names[kind] \in DOMAIN named.byKind THEN named ELSE Put(loaded, kind)
  BY DEF GetModel, Bound
<1>2. Sound(named) /\ Extends(registry, named) /\ kind \in DOMAIN named.names
  BY NamedSound
<1> HIDE DEF named
<1>3. Sound(loaded) /\ Extends(named, loaded) /\ kind \in DOMAIN loaded.names
  BY <1>2, LoadSound DEF Extends
<1> HIDE DEF loaded
<1>4. /\ Sound(Put(loaded, kind)) /\ Extends(loaded, Put(loaded, kind))
      /\ Put(loaded, kind).names = loaded.names
      /\ loaded.names[kind] \in DOMAIN Put(loaded, kind).byKind
  BY <1>3, PutSound
<1> HIDE DEF new
<1> QED BY <1>1, <1>2, <1>3, <1>4 DEF Extends, Refers, new

-----------------------------------------------------------------------------
\* A path has the names of the first kinds of its template.
SoundDocument(doc) ==
  /\ Sound(doc.registry)
  /\ \A s \in DOMAIN doc.paths : \A i \in DOMAIN doc.paths[s] :
       i \in DOMAIN Describes[s] /\ Refers(doc.registry, Describes[s][i], doc.paths[s][i])

(***************************************************************************)
(* The next kind of a template, added to the path of its service.          *)
(***************************************************************************)
LEMMA ReferringFacts ==
  ASSUME NEW doc, SoundDocument(doc), NEW s \in DOMAIN doc.paths \cap Services, NEW n \in Nat,
         n + 1 \in DOMAIN Describes[s],
         doc.paths[s] \in Seq(Seq(Segments)), Len(doc.paths[s]) = n
  PROVE  LET new == Referring(doc, s, Describes[s][n + 1])
         IN /\ SoundDocument(new) /\ DOMAIN new.paths = DOMAIN doc.paths
            /\ new.paths[s] \in Seq(Seq(Segments)) /\ Len(new.paths[s]) = n + 1
<1> DEFINE kind == Describes[s][n + 1]
           registry == GetModel(doc.registry, kind)
           name == registry.names[kind]
           path == Append(doc.paths[s], name)
           new == Referring(doc, s, kind)
<1>1. new.paths = With(doc.paths, s, path) /\ new.registry = registry
  <2> HIDE DEF kind
  <2> DEFINE Built(r) == [paths |-> With(doc.paths, s, Append(doc.paths[s], r.names[kind])),
                          registry |-> r]
  <2>1. new = Bound(Built, registry)
    BY DEF Referring
  <2> HIDE DEF Built, registry
  <2>2. new = Built(registry)
    BY <2>1 DEF Bound
  <2> QED BY <2>2 DEF Built
<1>2. kind \in Kinds
  BY SwaggerAssumption, ElementOfSeq DEF Services
<1>3. Sound(registry) /\ Extends(doc.registry, registry) /\ Refers(registry, kind, name)
  <2> HIDE DEF kind
  <2> QED BY <1>2, GetModelSound DEF SoundDocument
<1> HIDE DEF kind, registry
<1>4. name \in Seq(Segments)
  BY <1>3 DEF Sound, NamesFit, Refers
<1> HIDE DEF name
<1>5. /\ path \in Seq(Seq(Segments)) /\ Len(path) = n + 1 /\ path[n + 1] = name
      /\ DOMAIN path = DOMAIN doc.paths[s] \cup {n + 1}
      /\ \A i \in DOMAIN doc.paths[s] : path[i] = doc.paths[s][i]
  BY <1>4
<1> HIDE DEF path
<1>6. /\ DOMAIN new.paths = DOMAIN doc.paths
      /\ new.paths[s] = path
      /\ \A t \in DOMAIN doc.paths : t # s => new.paths[t] = doc.paths[t]
  BY <1>1 DEF With
<1> HIDE DEF new
<1>7. ASSUME NEW k, NEW m, Refers(doc.registry, k, m) PROVE Refers(registry, k, m)
  BY <1>3, <1>7 DEF Extends, Refers
<1>8. ASSUME NEW t \in DOMAIN new.paths, NEW i \in DOMAIN new.paths[t]
      PROVE  i \in DOMAIN Describes[t] /\ Refers(registry, Describes[t][i], new.paths[t][i])
  <2>1. CASE t # s
    BY <1>6, <1>7, <2>1 DEF SoundDocument
  <2>2. CASE t = s /\ i = n + 1
    BY <1>3, <1>5, <1>6, <2>2 DEF kind
  <2>3. CASE t = s /\ i \in DOMAIN doc.paths[s]
    BY <1>5, <1>6, <1>7, <2>3 DEF SoundDocument
  <2> QED BY <1>5, <1>6, <2>1, <2>2, <2>3
<1>9. SoundDocument(new)
  BY <1>1, <1>3, <1>8 DEF SoundDocument
<1> QED BY <1>5, <1>6, <1>9 DEF new, kind

(***************************************************************************)
(* The recursive function of Described exists, and takes the kinds of the  *)
(* template in turn.                                                       *)
(***************************************************************************)
LEMMA DescribedSteps ==
  ASSUME NEW doc, NEW s \in Services
  PROVE  \E added :
           /\ Described(doc, s) = added[Len(Describes[s])]
           /\ added[0] = [paths |-> With(doc.paths, s, << >>), registry |-> doc.registry]
           /\ \A i \in 1 .. Len(Describes[s]) :
                added[i] = Referring(added[i - 1], s, Describes[s][i])
<1> DEFINE n == Len(Describes[s])
           First == [paths |-> With(doc.paths, s, << >>), registry |-> doc.registry]
           Step(d, i) == Bound(LAMBDA x : Referring(x, s, Describes[s][i]), d)
           Table(f, m) == [i \in 0 .. m |-> IF i = 0 THEN First ELSE Step(f[i - 1], i)]
           S == {m \in Nat : \E f : f = Table(f, m)}
           added == CHOOSE f : f = Table(f, n)
<1>1. n \in Nat
  BY SwaggerAssumption, LenProperties DEF Services
<1>2. Described(doc, s) = added[n]
  BY DEF Described
<1>3. \A d, i : Step(d, i) = Referring(d, s, Describes[s][i])
  BY DEF Bound
<1> HIDE DEF n, First, Step
<1>4. 0 \in S
  <2>1. [i \in 0 .. 0 |-> First] = Table([i \in 0 .. 0 |-> First], 0)
    OBVIOUS
  <2> QED BY <2>1
<1>5. ASSUME NEW m \in S PROVE m + 1 \in S
  <2>1. PICK f : f = Table(f, m)
    OBVIOUS
  <2> DEFINE g == [i \in 0 .. m + 1 |-> IF i = m + 1 THEN Step(f[m], m + 1) ELSE f[i]]
  <2>2. \A i \in 0 .. m + 1 : g[i] = IF i = 0 THEN First ELSE Step(g[i - 1], i)
    <3>1. g[0] = First
      BY <2>1
    <3>2. g[m + 1] = Step(g[m], m + 1)
      OBVIOUS
    <3>3. ASSUME NEW i \in 1 .. m PROVE g[i] = Step(g[i - 1], i)
      BY <2>1
    <3> HIDE DEF g
    <3> QED BY <3>1, <3>2, <3>3
  <2>3. g = Table(g, m + 1) /\ m + 1 \in Nat
    BY <2>2
  <2> HIDE DEF g, Table
  <2> QED BY <2>3
<1> HIDE DEF S
<1>6. n \in S
  BY <1>1, <1>4, <1>5, SetInduction
<1>7. added = Table(added, n)
  BY <1>6 DEF S
<1> HIDE DEF added
<1>8. /\ added[0] = First
      /\ \A i \in 1 .. n : added[i] = Step(added[i - 1], i)
  BY <1>1, <1>7
<1> QED BY <1>2, <1>3, <1>8 DEF First, n

(***************************************************************************)
(* A template keeps a document sound and adds one path.                    *)
(***************************************************************************)
LEMMA DescribedFacts ==
  ASSUME NEW doc, SoundDocument(doc), NEW s \in Services
  PROVE  /\ SoundDocument(Described(doc, s))
         /\ DOMAIN Described(doc, s).paths = DOMAIN doc.paths \cup {s}
<1> DEFINE n == Len(Describes[s])
<1>1. n \in Nat /\ DOMAIN Describes[s] = 1 .. n
  BY SwaggerAssumption, LenProperties DEF Services
<1>2. PICK added :
        /\ Described(doc, s) = added[n]
        /\ added[0] = [paths |-> With(doc.paths, s, << >>), registry |-> doc.registry]
        /\ \A i \in 1 .. n : added[i] = Referring(added[i - 1], s, Describes[s][i])
  BY DescribedSteps
<1> HIDE DEF n
<1> DEFINE Good(i) == /\ SoundDocument(added[i])
                      /\ DOMAIN added[i].paths = DOMAIN doc.paths \cup {s}
                      /\ added[i].paths[s] \in Seq(Seq(Segments))
                      /\ Len(added[i].paths[s]) = i
           S == {i \in Nat : i <= n => Good(i)}
<1>3. 0 \in S
  <2>1. /\ DOMAIN added[0].paths = DOMAIN doc.paths \cup {s}
        /\ added[0].paths[s] = << >>
        /\ \A t \in DOMAIN doc.paths : t # s => added[0].paths[t] = doc.paths[t]
        /\ added[0].registry = doc.registry
    BY <1>2 DEF With
  <2>2. SoundDocument(added[0])
    BY <2>1 DEF SoundDocument
  <2>3. << >> \in Seq(Seq(Segments)) /\ Len(<< >>) = 0
    BY EmptySeq
  <2>4. Good(0)
    BY <2>1, <2>2, <2>3
  <2> HIDE DEF Good
  <2> QED BY <2>4
<1>4. ASSUME NEW i \in S PROVE i + 1 \in S
  <2>1. SUFFICES ASSUME i + 1 <= n PROVE Good(i + 1)
    OBVIOUS
  <2>2. i \in Nat /\ Good(i) /\ i + 1 \in 1 .. n /\ (i + 1) - 1 = i
    BY <1>1, <2>1
  <2>3. added[i + 1] = Referring(added[i], s, Describes[s][i + 1])
    BY <1>2, <2>2
  <2>4. s \in DOMAIN added[i].paths \cap Services
    BY <2>2
  <2> QED BY <1>1, <2>2, <2>3, <2>4, ReferringFacts
<1> HIDE DEF S
<1>5. n \in S
  BY <1>1, <1>3, <1>4, SetInduction
<1> QED BY <1>1, <1>2, <1>5 DEF S

(***************************************************************************)
(* The recursive function of Document exists, and takes the services in    *)
(* turn.                                                                   *)
(***************************************************************************)
LEMMA DocumentSteps ==
  ASSUME NEW ops, NEW given
  PROVE  \E upTo :
           /\ Document(Uris, ops, given) = upTo[Len(Uris)]
           /\ upTo[0] = EmptySwagger
           /\ \A i \in 1 .. Len(Uris) :
                upTo[i] = IF Uris[i] \in ops THEN AddOperation(upTo[i - 1], Uris[i], given[Uris[i]])
                          ELSE upTo[i - 1]
<1> DEFINE n == Len(Uris)
           Step(d, i) == IF Uris[i] \in ops
                         THEN Bound(LAMBDA doc : AddOperation(doc, Uris[i], given[Uris[i]]), d)
                         ELSE d
           Table(f, m) == [i \in 0 .. m |-> IF i = 0 THEN EmptySwagger ELSE Step(f[i - 1], i)]
           S == {m \in Nat : \E f : f = Table(f, m)}
           upTo == CHOOSE f : f = Table(f, n)
<1>1. n \in Nat
  BY SwaggerAssumption, LenProperties
<1>2. Document(Uris, ops, given) = upTo[n]
  BY DEF Document
<1>3. \A d, i : Step(d, i) = IF Uris[i] \in ops 
                   THEN AddOperation(d, Uris[i], given[Uris[i]]) ELSE d
  BY DEF Bound
<1> HIDE DEF n, Step
<1>4. 0 \in S
  <2>1. [i \in 0 .. 0 |-> EmptySwagger] = Table([i \in 0 .. 0 |-> EmptySwagger], 0)
    OBVIOUS
  <2> QED BY <2>1
<1>5. ASSUME NEW m \in S PROVE m + 1 \in S
  <2>1. PICK f : f = Table(f, m)
    OBVIOUS
  <2> DEFINE g == [i \in 0 .. m + 1 |-> IF i = m + 1 THEN Step(f[m], m + 1) ELSE f[i]]
  <2>2. \A i \in 0 .. m + 1 : g[i] = IF i = 0 THEN EmptySwagger ELSE Step(g[i - 1], i)
    <3>1. g[0] = EmptySwagger
      BY <2>1
    <3>2. g[m + 1] = Step(g[m], m + 1)
      OBVIOUS
    <3>3. ASSUME NEW i \in 1 .. m PROVE g[i] = Step(g[i - 1], i)
      BY <2>1
    <3> HIDE DEF g
    <3> QED BY <3>1, <3>2, <3>3
  <2>3. g = Table(g, m + 1) /\ m + 1 \in Nat
    BY <2>2
  <2> HIDE DEF g, Table
  <2> QED BY <2>3
<1> HIDE DEF S
<1>6. n \in S
  BY <1>1, <1>4, <1>5, SetInduction
<1>7. upTo = Table(upTo, n)
  BY <1>6 DEF S
<1> HIDE DEF upTo
<1>8. /\ upTo[0] = EmptySwagger
      /\ \A i \in 1 .. n : upTo[i] = Step(upTo[i - 1], i)
  BY <1>1, <1>7
<1> QED BY <1>2, <1>3, <1>8 DEF n

\* The services of ops that have something to describe.
Shown(ops, given) == {s \in ops : given[s] # "bare"}

(***************************************************************************)
(* A document of some services is sound, and has the paths of those that   *)
(* have something to describe.                                             *)
(***************************************************************************)
LEMMA DocumentFacts ==
  ASSUME NEW ops \in SUBSET Services, NEW given
  PROVE  /\ SoundDocument(Document(Uris, ops, given))
         /\ DOMAIN Document(Uris, ops, given).paths = Shown(ops, given)
<1> DEFINE n == Len(Uris)
<1>1. n \in Nat /\ DOMAIN Uris = 1 .. n
  BY SwaggerAssumption, LenProperties
<1>2. PICK upTo :
        /\ Document(Uris, ops, given) = upTo[n]
        /\ upTo[0] = EmptySwagger
        /\ \A i \in 1 .. n :
             upTo[i] = IF Uris[i] \in ops
                       THEN AddOperation(upTo[i - 1], Uris[i], given[Uris[i]])
                       ELSE upTo[i - 1]
  BY DocumentSteps
<1> HIDE DEF n
<1> DEFINE Added(i) == {Uris[j] : j \in 1 .. i} \cap Shown(ops, given)
           Good(i) == SoundDocument(upTo[i]) /\ DOMAIN upTo[i].paths = Added(i)
           S == {i \in Nat : i <= n => Good(i)}
<1>3. 0 \in S
  BY <1>2 DEF EmptySwagger, EmptyRegistry, SoundDocument, Sound, NamesFit
<1>4. ASSUME NEW i \in S PROVE i + 1 \in S
  <2>1. SUFFICES ASSUME i + 1 <= n PROVE Good(i + 1)
    OBVIOUS
  <2>2. i \in Nat /\ Good(i) /\ i + 1 \in 1 .. n /\ (i + 1) - 1 = i
    BY <1>1, <2>1
  <2>3. Added(i + 1) = IF Uris[i + 1] \in Shown(ops, given)
                       THEN Added(i) \cup {Uris[i + 1]} ELSE Added(i)
    BY <2>2
  <2>4. CASE Uris[i + 1] \in Shown(ops, given)
    <3>1. upTo[i + 1] = Described(upTo[i], Uris[i + 1])
      BY <1>2, <2>2, <2>4 DEF AddOperation, Shown
    <3>2. Uris[i + 1] \in Services
      BY <2>4 DEF Shown
    <3> HIDE DEF Added
    <3> QED BY <2>2, <2>3, <2>4, <3>1, <3>2, DescribedFacts
  <2>5. CASE Uris[i + 1] \notin Shown(ops, given)
    <3>1. upTo[i + 1] = upTo[i]
      BY <1>2, <2>2, <2>5 DEF AddOperation, Shown
    <3> HIDE DEF Added
    <3> QED BY <2>2, <2>3, <2>5, <3>1
  <2> QED BY <2>4, <2>5
<1> HIDE DEF S
<1>5. n \in S
  BY <1>1, <1>3, <1>4, SetInduction
<1>6. Added(n) = Shown(ops, given)
  BY <1>1 DEF Services, ToSet, Shown
<1>7. Good(n)
  BY <1>1, <1>5 DEF S
<1> HIDE DEF Added
<1> QED BY <1>2, <1>6, <1>7

(***************************************************************************)
(* A document depends on those alone.                                      *)
(***************************************************************************)
LEMMA DocumentOfTheShown ==
  ASSUME NEW ops1, NEW given1, NEW ops2, NEW given2, Shown(ops1, given1) = Shown(ops2, given2)
  PROVE  Document(Uris, ops1, given1) = Document(Uris, ops2, given2)
<1> DEFINE n == Len(Uris)
<1>1. n \in Nat
  BY SwaggerAssumption, LenProperties
<1>2. PICK f :
        /\ Document(Uris, ops1, given1) = f[n]
        /\ f[0] = EmptySwagger
        /\ \A i \in 1 .. n :
             f[i] = IF Uris[i] \in ops1
                    THEN AddOperation(f[i - 1], Uris[i], given1[Uris[i]]) ELSE f[i - 1]
  BY DocumentSteps
<1>3. PICK h :
        /\ Document(Uris, ops2, given2) = h[n]
        /\ h[0] = EmptySwagger
        /\ \A i \in 1 .. n :
             h[i] = IF Uris[i] \in ops2
                    THEN AddOperation(h[i - 1], Uris[i], given2[Uris[i]]) ELSE h[i - 1]
  BY DocumentSteps
<1> HIDE DEF n
<1> DEFINE S == {i \in Nat : i <= n => f[i] = h[i]}
<1>4. 0 \in S
  BY <1>2, <1>3
<1>5. ASSUME NEW i \in S PROVE i + 1 \in S
  <2>1. SUFFICES ASSUME i + 1 <= n PROVE f[i + 1] = h[i + 1]
    OBVIOUS
  <2>2. f[i] = h[i] /\ i + 1 \in 1 .. n /\ (i + 1) - 1 = i
    BY <1>1, <2>1
  <2>3. f[i + 1] = IF Uris[i + 1] \in Shown(ops1, given1) THEN Described(f[i], Uris[i + 1])
                   ELSE f[i]
    BY <1>2, <2>2 DEF AddOperation, Shown
  <2>4. h[i + 1] = IF Uris[i + 1] \in Shown(ops2, given2) THEN Described(h[i], Uris[i + 1])
                   ELSE h[i]
    BY <1>3, <2>2 DEF AddOperation, Shown
  <2> QED BY <2>2, <2>3, <2>4
<1> HIDE DEF S
<1>6. n \in S
  BY <1>1, <1>4, <1>5, SetInduction
<1> QED BY <1>1, <1>2, <1>3, <1>6 DEF S

-----------------------------------------------------------------------------
(***************************************************************************)
(* What holds of one GET; the last three conjuncts make it inductive: no   *)
(* answer comes in before the requests are sent or after the last, and a   *)
(* GET fails if and only if it has met a template it cannot handle.        *)
(***************************************************************************)
GetOK(g) ==
  /\ links[g] \in Lists \cup {<< >>}
  /\ DOMAIN answer[g] \subseteq Asked(g)
  /\ \A s \in DOMAIN answer[g] : answer[g][s] \in Answers
  /\ at[g] \in {"new", "querying"} => DOMAIN answer[g] = {}
  /\ IF at[g] = "answered"
     THEN /\ DOMAIN answer[g] = Asked(g) /\ swagger[g] = Assembled(g)
          /\ \A s \in DOMAIN answer[g] : answer[g][s] # "broken"
     ELSE swagger[g] = EmptySwagger
  /\ at[g] = "failed" => \E s \in DOMAIN answer[g] : answer[g][s] = "broken"

(***************************************************************************)
(* The inductive invariant: every GET is as it should be.                  *)
(***************************************************************************)
SwaggerInv ==
  /\ at \in [Gets -> {"new", "querying", "joining", "answered", "failed"}]
  /\ DOMAIN links = Gets /\ DOMAIN answer = Gets /\ DOMAIN swagger = Gets
  /\ \A g \in Gets : GetOK(g)

(***************************************************************************)
(* Build asks services that it does not skip.                              *)
(***************************************************************************)
LEMMA AskedAreServices ==
  ASSUME SwaggerInv, NEW g \in Gets
  PROVE  Asked(g) \subseteq Services
<1>1. ToSet(<< >>) = {}
  BY DEF ToSet
<1>2. \A list \in Lists : ToSet(list) \subseteq ToSet(Uris)
  BY SwaggerAssumption
<1>3. links[g] \in Lists \cup {<< >>}
  BY DEF SwaggerInv, GetOK
<1> QED BY <1>1, <1>2, <1>3 DEF Asked, Services

(***************************************************************************)
(* A GET that a step does not touch stays as it should be.                 *)
(***************************************************************************)
LEMMA GetStays ==
  ASSUME NEW g, GetOK(g),
         at'[g] = at[g], links'[g] = links[g], answer'[g] = answer[g], swagger'[g] = swagger[g]
  PROVE  GetOK(g)'
BY DEF GetOK, Asked, Assembled, SucceededOps

(***************************************************************************)
(* The invariant holds in every reachable state.                           *)
(***************************************************************************)
LEMMA SwaggerAlways == Spec => []SwaggerInv
<1>1. Init => SwaggerInv
  BY DEF Init, SwaggerInv, GetOK
<1>2. SwaggerInv /\ [Next]_vars => SwaggerInv'
  <2> SUFFICES ASSUME SwaggerInv, [Next]_vars PROVE SwaggerInv'
    OBVIOUS
  <2>1. ASSUME NEW g \in Gets, HandleGet(g) PROVE SwaggerInv'
    <3>1. /\ at[g] = "new" /\ at' = [at EXCEPT ![g] = "querying"]
          /\ UNCHANGED <<links, answer, swagger>>
      BY <2>1 DEF HandleGet
    <3>2. GetOK(g)'
      BY <3>1 DEF SwaggerInv, GetOK, Asked
    <3>3. ASSUME NEW h \in Gets, h # g PROVE GetOK(h)'
      BY <3>1, <3>3, GetStays DEF SwaggerInv
    <3> QED BY <3>1, <3>2, <3>3 DEF SwaggerInv
  <2>2. ASSUME NEW g \in Gets, Build(g) PROVE SwaggerInv'
    <3>1. PICK list \in Lists :
            /\ at[g] = "querying" /\ at' = [at EXCEPT ![g] = "joining"]
            /\ links' = [links EXCEPT ![g] = list]
            /\ UNCHANGED <<answer, swagger>>
      BY <2>2 DEF Build
    <3>2. GetOK(g)'
      BY <3>1 DEF SwaggerInv, GetOK
    <3>3. ASSUME NEW h \in Gets, h # g PROVE GetOK(h)'
      BY <3>1, <3>3, GetStays DEF SwaggerInv
    <3> QED BY <3>1, <3>2, <3>3 DEF SwaggerInv
  <2>3. ASSUME NEW g \in Gets, NEW s \in ToSet(Uris), Answered(g, s) PROVE SwaggerInv'
    <3>1. PICK a \in Answers :
            /\ at[g] = "joining" /\ s \in Asked(g)
            /\ answer' = [answer EXCEPT ![g] = With(answer[g], s, a)]
            /\ UNCHANGED <<at, links, swagger>>
      BY <2>3 DEF Answered
    <3>2. GetOK(g)'
      <4>1. answer'[g] = With(answer[g], s, a)
        BY <3>1 DEF SwaggerInv
      <4>2. /\ DOMAIN answer'[g] = DOMAIN answer[g] \cup {s}
            /\ \A t \in DOMAIN answer'[g] : answer'[g][t] = IF t = s THEN a ELSE answer[g][t]
        BY <4>1 DEF With
      <4> QED BY <3>1, <4>2 DEF SwaggerInv, GetOK, Asked
    <3>3. ASSUME NEW h \in Gets, h # g PROVE GetOK(h)'
      BY <3>1, <3>3, GetStays DEF SwaggerInv
    <3> QED BY <3>1, <3>2, <3>3 DEF SwaggerInv
  <2>4. ASSUME NEW g \in Gets, Completion(g) PROVE SwaggerInv'
    <3>1. /\ at[g] = "joining" /\ DOMAIN answer[g] = Asked(g)
          /\ UNCHANGED <<links, answer>>
          /\ \/ /\ \E s \in SucceededOps(g) : answer[g][s] = "broken"
                /\ at' = [at EXCEPT ![g] = "failed"] /\ swagger' = swagger
             \/ /\ \A s \in SucceededOps(g) : answer[g][s] # "broken"
                /\ at' = [at EXCEPT ![g] = "answered"]
                /\ swagger' = [swagger EXCEPT ![g] = Assembled(g)]
      BY <2>4 DEF Completion
    <3>2. Asked(g)' = Asked(g) /\ Assembled(g)' = Assembled(g)
      BY <3>1 DEF Asked, Assembled, SucceededOps
    <3>3. GetOK(g)'
      <4>1. CASE /\ \E s \in SucceededOps(g) : answer[g][s] = "broken"
                 /\ at' = [at EXCEPT ![g] = "failed"] /\ swagger' = swagger
        BY <3>1, <3>2, <4>1 DEF SwaggerInv, GetOK, SucceededOps
      <4>2. CASE /\ \A s \in SucceededOps(g) : answer[g][s] # "broken"
                 /\ at' = [at EXCEPT ![g] = "answered"]
                 /\ swagger' = [swagger EXCEPT ![g] = Assembled(g)]
        BY <3>1, <3>2, <4>2 DEF SwaggerInv, GetOK, SucceededOps
      <4> QED BY <3>1, <4>1, <4>2
    <3>4. ASSUME NEW h \in Gets, h # g PROVE GetOK(h)'
      BY <3>1, <3>4, GetStays DEF SwaggerInv
    <3> QED BY <3>1, <3>3, <3>4 DEF SwaggerInv
  <2>5. CASE UNCHANGED vars
    BY <2>5, GetStays DEF vars, SwaggerInv
  <2> QED BY <2>1, <2>2, <2>3, <2>4, <2>5 DEF Next
<1> QED BY <1>1, <1>2, PTL DEF Spec

(***************************************************************************)
(* What an answered GET shows are the templates it was given.              *)
(***************************************************************************)
LEMMA ShownAreTemplates ==
  ASSUME SwaggerInv, NEW g \in Gets, at[g] = "answered"
  PROVE  Shown(SucceededOps(g), answer[g]) = Templates(g)
BY DEF SwaggerInv, GetOK, Shown, SucceededOps, Templates, Answers

(***************************************************************************)
(* The document of an answered GET.                                        *)
(***************************************************************************)
LEMMA AssembledFacts ==
  ASSUME SwaggerInv, NEW g \in Gets, at[g] = "answered"
  PROVE  /\ SoundDocument(swagger[g])
         /\ DOMAIN swagger[g].paths = Templates(g)
         /\ DOMAIN answer[g] = Asked(g)
<1>1. /\ swagger[g] = Document(Uris, SucceededOps(g), answer[g])
      /\ SucceededOps(g) \subseteq Asked(g)
      /\ DOMAIN answer[g] = Asked(g)
  BY DEF SwaggerInv, GetOK, Assembled, SucceededOps
<1>2. SucceededOps(g) \in SUBSET Services
  BY <1>1, AskedAreServices
<1>3. Shown(SucceededOps(g), answer[g]) = Templates(g)
  BY ShownAreTemplates
<1> QED BY <1>1, <1>2, <1>3, DocumentFacts

(***************************************************************************)
(* Every GET keeps its types: it asks what is listed and not skipped, and  *)
(* a document has no other paths.                                          *)
(***************************************************************************)
THEOREM SwaggerTypeCorrect == Spec => []TypeOK
<1>1. SwaggerInv => TypeOK
  <2> SUFFICES ASSUME SwaggerInv PROVE TypeOK
    OBVIOUS
  <2>1. ASSUME NEW g \in Gets PROVE DOMAIN swagger[g].paths \subseteq Asked(g)
    <3>1. CASE at[g] = "answered"
      BY <3>1, AssembledFacts DEF Templates
    <3>2. CASE at[g] # "answered"
      BY <3>2 DEF SwaggerInv, GetOK, EmptySwagger
    <3> QED BY <3>1, <3>2
  <2> QED BY <2>1 DEF SwaggerInv, GetOK, TypeOK, Asked
<1> QED BY <1>1, SwaggerAlways, PTL

(***************************************************************************)
(* Two GETs with the same templates give the same document, in whatever    *)
(* order the services were listed and their answers came, and whatever     *)
(* the other services answered.                                            *)
(***************************************************************************)
THEOREM SameDocuments == Spec => []SameTemplatesSameDocument
<1>1. SwaggerInv => SameTemplatesSameDocument
  <2> SUFFICES ASSUME SwaggerInv, NEW g \in Gets, NEW h \in Gets,
                      at[g] = "answered", at[h] = "answered", Templates(g) = Templates(h)
               PROVE  swagger[g] = swagger[h]
    BY DEF SameTemplatesSameDocument
  <2>1. Shown(SucceededOps(g), answer[g]) = Shown(SucceededOps(h), answer[h])
    BY ShownAreTemplates
  <2>2. Assembled(g) = Assembled(h)
    BY <2>1, DocumentOfTheShown DEF Assembled
  <2> QED BY <2>2 DEF SwaggerInv, GetOK
<1> QED BY <1>1, SwaggerAlways, PTL

(***************************************************************************)
(* A document has the paths of exactly the services that gave a template;  *)
(* a GET fails only of a template that it cannot handle.                   *)
(***************************************************************************)
THEOREM PathsFit == Spec => []PathsAreOfTheTemplates
<1>1. SwaggerInv => PathsAreOfTheTemplates
  <2> SUFFICES ASSUME SwaggerInv, NEW g \in Gets
               PROVE  /\ at[g] = "answered" =>
                           DOMAIN swagger[g].paths
                             = {s \in ToSet(links[g]) \ Skipped : answer[g][s] = "template"}
                      /\ at[g] = "failed" => \E s \in DOMAIN answer[g] : answer[g][s] = "broken"
    BY DEF PathsAreOfTheTemplates
  <2>1. CASE at[g] = "answered"
    BY <2>1, AssembledFacts DEF Templates, Asked
  <2> QED BY <2>1 DEF SwaggerInv, GetOK
<1> QED BY <1>1, SwaggerAlways, PTL

(***************************************************************************)
(* In every document a kind goes by one name, that name is defined, and    *)
(* its definition is that of the kind or of one confusable with it.        *)
(***************************************************************************)
THEOREM ModelsFit == Spec => []ModelsAreOfTheirKind
<1>1. SwaggerInv => ModelsAreOfTheirKind
  <2> SUFFICES ASSUME SwaggerInv, NEW g \in Gets, at[g] = "answered",
                      NEW s \in DOMAIN swagger[g].paths, NEW t \in DOMAIN swagger[g].paths,
                      NEW i \in DOMAIN swagger[g].paths[s], NEW j \in DOMAIN swagger[g].paths[t]
               PROVE  LET doc == swagger[g]
                          byKind == doc.registry.byKind
                          kind == byKind[doc.paths[s][i]]
                      IN /\ Describes[s][i] = Describes[t][j] =>
                              doc.paths[s][i] = doc.paths[t][j]
                         /\ doc.paths[s][i] \in DOMAIN byKind
                         /\ kind = Describes[s][i] \/ Confusable(kind, Describes[s][i])
    BY DEF ModelsAreOfTheirKind
  <2> DEFINE doc == swagger[g]
  <2>1. SoundDocument(doc)
    BY AssembledFacts
  <2>2. /\ Refers(doc.registry, Describes[s][i], doc.paths[s][i])
        /\ Refers(doc.registry, Describes[t][j], doc.paths[t][j])
    BY <2>1 DEF SoundDocument
  <2> HIDE DEF doc
  <2> QED BY <2>1, <2>2 DEF Refers, SoundDocument, Sound, NamesFit, doc
<1> QED BY <1>1, SwaggerAlways, PTL
=============================================================================
