--------------------------- MODULE SwaggerAssembler ---------------------------
(***************************************************************************)
(* The Swagger adapter: each GET of the descriptor (handleGet of           *)
(* SwaggerDescriptorService.java) asks the services of the host for their  *)
(* templates and joins the answers to a document (SwaggerAssembler.java),  *)
(* in which kinds go by simplified names (ModelRegistry.java).             *)
(*                                                                         *)
(* A kind and a prefix are sequences of package segments.  Of a template,  *)
(* the kinds that addOperation meets in it are kept, in order; of the      *)
(* document, the model each of them refers to.  The list of services, the  *)
(* requests and their join are the framework's; a join of no requests at   *)
(* all and an error of the query are left out, since what they come to is  *)
(* not in the repository.                                                  *)
(***************************************************************************)
EXTENDS Naturals, Sequences, SequencesExt, TLC

CONSTANTS
  Gets,       \* the GETs of the descriptor
  Uris,       \* the services of the host, as TreeMap sorts their paths
  Lists,      \* the lists of them that a query may give
  Skipped,    \* those that build does not ask, for their path
  Segments,   \* the segments of kinds and prefixes
  Kinds,      \* every kind
  Describes,  \* Describes[s]: the kinds in the template of s
  Fields,     \* Fields[k]: the kind of a field of k, without fields of its own, or None
  StripPrefixes,  \* stripPackagePrefixes, in the order of the HashSet
  None

ASSUME SwaggerAssumption ==
  /\ Uris \in Seq(ToSet(Uris)) /\ IsInjective(Uris)
  /\ \A list \in Lists : IsInjective(list) /\ ToSet(list) \subseteq ToSet(Uris)
  /\ Skipped \subseteq ToSet(Uris)
  /\ Kinds \subseteq Seq(Segments)
  /\ StripPrefixes \in Seq(Seq(Segments))
  /\ Describes \in [ToSet(Uris) \ Skipped -> Seq(Kinds)]
  /\ Fields \in [Kinds -> Kinds \cup {None}]
  /\ None \notin Kinds

Services == ToSet(Uris) \ Skipped

VARIABLES
  at,      \* at[g]: "new", then "querying", "joining", "answered", "failed"
  links,   \* links[g]: documentLinks of the query result
  answer,  \* answer[g]: the answers to g's requests so far
  swagger  \* swagger[g]: the document

vars == <<at, links, answer, swagger>>

-----------------------------------------------------------------------------
(***************************************************************************)
(* ModelRegistry: strippedNames, and byKind with the kind that each model  *)
(* was loaded from.                                                        *)
(***************************************************************************)
EmptyRegistry == [names |-> << >>, byKind |-> << >>]

With(f, arg, val) ==
  [x \in DOMAIN f \cup {arg} |-> IF x = arg THEN val ELSE f[x]]

\* F(x), of an x that TLC evaluates once.
Bound(F(_), x) == CHOOSE r \in {F(v) : v \in {x}} : TRUE

\* What is left of a kind without a prefix.
Short(prefix, kind) == SubSeq(kind, Len(prefix) + 1, Len(kind))

Matching(kind) == {i \in DOMAIN StripPrefixes : IsPrefix(StripPrefixes[i], kind)}

\* The last prefix that matches decides.
LastMatch(kind) ==
  StripPrefixes[CHOOSE i \in Matching(kind) : \A j \in Matching(kind) : j <= i]

\* Mutant: a name that is taken is not noticed.
ShortName(names, kind) ==
  IF Matching(kind) = {} THEN kind ELSE Short(LastMatch(kind), kind)

\* A kind that no prefix matches keeps its name, as does one whose short name is taken.
Simplified(names, kind) ==
  IF \/ Matching(kind) = {}
     \/ \E k \in DOMAIN names : names[k] = Short(LastMatch(kind), kind)
  THEN kind
  ELSE Short(LastMatch(kind), kind)

StrippedKind(registry, kind) ==
  IF kind \in DOMAIN registry.names THEN registry.names[kind]
  ELSE Simplified(registry.names, kind)

Named(registry, kind) ==
  [names |-> With(registry.names, kind, StrippedKind(registry, kind)),
   byKind |-> registry.byKind]

\* A model under the name of its kind.
Put(registry, kind) ==
  [names |-> registry.names,
   byKind |-> With(registry.byKind, registry.names[kind], kind)]

\* refProperty: what load adds for the field of a kind.
RefProperty(registry, field) ==
  Bound(LAMBDA named : IF named.names[field] \in DOMAIN named.byKind THEN named
                       ELSE Put(named, field),
        Named(registry, field))

Load(registry, kind) ==
  IF Fields[kind] = None THEN registry ELSE RefProperty(registry, Fields[kind])

\* getModel: the kind itself is put after what load has found in it.
GetModel(registry, kind) ==
  Bound(LAMBDA named : IF named.names[kind] \in DOMAIN named.byKind THEN named
                       ELSE Bound(LAMBDA loaded : Put(loaded, kind), Load(named, kind)),
        Named(registry, kind))

-----------------------------------------------------------------------------
(***************************************************************************)
(* SwaggerAssembler: a document has the paths of services, each with the   *)
(* names of the models it refers to, and the definitions of these.         *)
(***************************************************************************)
EmptySwagger == [paths |-> << >>, registry |-> EmptyRegistry]

\* The path of s refers to one more kind.
Referring(doc, s, kind) ==
  Bound(LAMBDA registry :
          [paths |-> With(doc.paths, s, Append(doc.paths[s], registry.names[kind])),
           registry |-> registry],
        GetModel(doc.registry, kind))

\* The path of s, with the kinds of its template.
Described(doc, s) ==
  LET added[i \in 0 .. Len(Describes[s])] ==
        IF i = 0 THEN [paths |-> With(doc.paths, s, << >>), registry |-> doc.registry]
        ELSE Bound(LAMBDA d : Referring(d, s, Describes[s][i]), added[i - 1])
  IN added[Len(Describes[s])]

\* Mutant: every service gets a path.
AddAnyOperation(doc, s, given) == Described(doc, s)

\* A service that gave neither documents nor routes adds nothing.
AddOperation(doc, s, given) == IF given = "bare" THEN doc ELSE Described(doc, s)

\* Mutant: build asks every service.
AskedAll(g) == ToSet(links[g])

\* What build asks: the links it does not skip.
Asked(g) == ToSet(links[g]) \ Skipped

\* Mutant: failed operations are not left out.
AllOps(g) == DOMAIN answer[g]

\* The operations that succeeded.
SucceededOps(g) == {s \in DOMAIN answer[g] : answer[g][s] # "failed"}

\* The operations that are in ops, with the answers given, added in an order.
Document(order, ops, given) ==
  LET upTo[i \in 0 .. Len(order)] ==
        IF i = 0 THEN EmptySwagger
        ELSE IF order[i] \in ops
             THEN Bound(LAMBDA doc : AddOperation(doc, order[i], given[order[i]]), upTo[i - 1])
             ELSE upTo[i - 1]
  IN upTo[Len(order)]

\* Mutant: the operations are added in the order in which they were asked.
AssembledAsListed(g) == Document(links[g], SucceededOps(g), answer[g])

\* A TreeMap sorts the operations by their paths.
Assembled(g) == Document(Uris, SucceededOps(g), answer[g])

-----------------------------------------------------------------------------
Init ==
  /\ at = [g \in Gets |-> "new"]
  /\ links = [g \in Gets |-> << >>]
  /\ answer = [g \in Gets |-> << >>]
  /\ swagger = [g \in Gets |-> EmptySwagger]

HandleGet(g) ==
  /\ at[g] = "new"
  /\ at' = [at EXCEPT ![g] = "querying"]
  /\ UNCHANGED <<links, answer, swagger>>

\* The query result lists the services there are, in any order; build asks them.
Build(g) ==
  /\ at[g] = "querying"
  /\ \E list \in Lists :
       /\ ToSet(list) \ Skipped # {}
       /\ links' = [links EXCEPT ![g] = list]
  /\ at' = [at EXCEPT ![g] = "joining"]
  /\ UNCHANGED <<answer, swagger>>

Answers == {"template", "bare", "broken", "failed"}

\* A template, one that describes nothing, one that addOperation cannot handle, or an error.
Answered(g, s) ==
  /\ at[g] = "joining"
  /\ s \in Asked(g) \ DOMAIN answer[g]
  /\ \E a \in Answers :
       answer' = [answer EXCEPT ![g] = With(@, s, a)]
  /\ UNCHANGED <<at, links, swagger>>

\* Mutant: what addOperation throws is not caught.
CompleteIfSound(g) ==
  /\ at[g] = "joining"
  /\ DOMAIN answer[g] = Asked(g)
  /\ \A s \in SucceededOps(g) : answer[g][s] # "broken"
  /\ at' = [at EXCEPT ![g] = "answered"]
  /\ swagger' = [swagger EXCEPT ![g] = Assembled(g)]
  /\ UNCHANGED <<links, answer>>

\* completion, when the last answer is in.
Completion(g) ==
  /\ at[g] = "joining"
  /\ DOMAIN answer[g] = Asked(g)
  /\ IF \E s \in SucceededOps(g) : answer[g][s] = "broken"
       THEN at' = [at EXCEPT ![g] = "failed"] /\ UNCHANGED swagger
       ELSE /\ at' = [at EXCEPT ![g] = "answered"]
            /\ swagger' = [swagger EXCEPT ![g] = Assembled(g)]
  /\ UNCHANGED <<links, answer>>

Next ==
  \E g \in Gets :
    HandleGet(g) \/ Build(g) \/ (\E s \in ToSet(Uris) : Answered(g, s)) \/ Completion(g)

\* The framework runs every handler, and every request is answered or expires.
Fairness ==
  \A g \in Gets :
    /\ WF_vars(Build(g))
    /\ \A s \in ToSet(Uris) : WF_vars(Answered(g, s))
    /\ WF_vars(Completion(g))

Spec == Init /\ [][Next]_vars /\ Fairness

-----------------------------------------------------------------------------
(***************************************************************************)
(* Type invariant.                                                         *)
(***************************************************************************)
TypeOK ==
  /\ at \in [Gets -> {"new", "querying", "joining", "answered", "failed"}]
  /\ DOMAIN links = Gets /\ DOMAIN answer = Gets /\ DOMAIN swagger = Gets
  /\ \A g \in Gets :
       /\ links[g] \in Lists \cup {<< >>}
       /\ DOMAIN answer[g] \subseteq ToSet(links[g]) \ Skipped
       /\ \A s \in DOMAIN answer[g] : answer[g][s] \in Answers
       /\ at[g] # "answered" => swagger[g] = EmptySwagger
       /\ DOMAIN swagger[g].paths \subseteq ToSet(links[g]) \ Skipped

Templates(g) == {s \in DOMAIN answer[g] : answer[g][s] = "template"}

(***************************************************************************)
(* Two GETs to which the same services gave their templates give the same  *)
(* document, whatever the order of the links and of the answers, and       *)
(* whatever became of the other services: though the name of a kind        *)
(* depends on the kinds before it, completion sorts what it adds.          *)
(***************************************************************************)
SameTemplatesSameDocument ==
  \A g, h \in Gets :
    (at[g] = "answered" /\ at[h] = "answered" /\ Templates(g) = Templates(h)) =>
      swagger[g] = swagger[h]

\* What is left of kind k when its prefix is stripped.
Stripped(k, name) == Matching(k) # {} /\ name = Short(LastMatch(k), k)

\* The full name of one kind is what is left of the other.
Confusable(k, l) == Stripped(k, l) \/ Stripped(l, k)

(***************************************************************************)
(* In a document a kind always goes by one name, and that name is defined. *)
(* Its definition is that of the kind, but for a case that getStrippedKind *)
(* does not look for: a kind that keeps its full name, which was given to  *)
(* another kind as its simplified one.                                     *)
(***************************************************************************)
ModelsAreOfTheirKind ==
  \A g \in Gets : at[g] = "answered" =>
    LET doc == swagger[g]
        byKind == doc.registry.byKind
    IN \A s, t \in DOMAIN doc.paths :
         \A i \in DOMAIN doc.paths[s], j \in DOMAIN doc.paths[t] :
           /\ Describes[s][i] = Describes[t][j] => doc.paths[s][i] = doc.paths[t][j]
           /\ doc.paths[s][i] \in DOMAIN byKind
           /\ LET kind == byKind[doc.paths[s][i]]
              IN kind = Describes[s][i] \/ Confusable(kind, Describes[s][i])

(***************************************************************************)
(* The document has the paths of exactly the services that gave a template *)
(* and were asked: one that failed, or had neither documents nor routes to *)
(* show, is missing, with nobody else.  Only a template that cannot be     *)
(* handled fails the whole GET.                                            *)
(***************************************************************************)
PathsAreOfTheTemplates ==
  \A g \in Gets :
    /\ at[g] = "answered" =>
         DOMAIN swagger[g].paths =
           {s \in ToSet(links[g]) \ Skipped : answer[g][s] = "template"}
    /\ at[g] = "failed" => \E s \in DOMAIN answer[g] : answer[g][s] = "broken"

(***************************************************************************)
(* Every GET is answered, whatever the services answer: completion passes  *)
(* on every exception.                                                     *)
(***************************************************************************)
EveryGetAnswered ==
  \A g \in Gets : at[g] = "querying" ~> at[g] \in {"answered", "failed"}

=============================================================================
