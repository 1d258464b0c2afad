-------------------------- MODULE GatewayCacheProofs --------------------------
(***************************************************************************)
(* What the handlers of the cache return: shared by the proofs about the   *)
(* nodes and about the requests.                                           *)
(***************************************************************************)
EXTENDS GatewayCache, TLAPS

(***************************************************************************)
(* createSeedConfig is a configuration the cache may hold.                 *)
(***************************************************************************)
LEMMA SeedType == SeedConfig \in CachedConfig
BY DEF SeedConfig, CachedConfig, Status

(***************************************************************************)
(* A version of the default document becomes a configuration the cache may *)
(* hold, numbered like the version.                                        *)
(***************************************************************************)
LEMMA ConfigOfType ==
  ASSUME NEW doc \in ConfigState, NEW v \in Int
  PROVE  /\ ConfigOf(doc, v) \in CachedConfig
         /\ ConfigOf(doc, v).version = v
<1>1. CASE doc.deleted
  BY <1>1 DEF ConfigOf, SeedConfig, CachedConfig, Status
<1>2. CASE ~ doc.deleted
  BY <1>2 DEF ConfigOf, CachedConfig, ConfigState
<1> QED BY <1>1, <1>2

(***************************************************************************)
(* A version of a path document becomes an entry of the white list, or     *)
(* none.                                                                   *)
(***************************************************************************)
LEMMA EntryOfType ==
  ASSUME NEW doc \in PathState, NEW v \in Nat
  PROVE  /\ EntryOf(doc, v) \in {NoEntry} \cup PathEntry
         /\ doc.deleted => EntryOf(doc, v) = NoEntry
         /\ ~ doc.deleted => EntryOf(doc, v) # NoEntry /\ EntryOf(doc, v).version = v
BY DEF EntryOf, NoEntry, PathEntry, PathState

(***************************************************************************)
(* What the cache makes of a notification has its type.                    *)
(***************************************************************************)
LEMMA HandlersType ==
  ASSUME NEW v \in Nat
  PROVE  /\ \A config \in CachedConfig, doc \in ConfigState :
              HandleConfigUpdate(config, DefaultConfig, doc, v) \in CachedConfig
         /\ \A entry \in {NoEntry} \cup PathEntry, doc \in PathState :
              HandlePathUpdate(entry, doc, v) \in {NoEntry} \cup PathEntry
<1>1. /\ \A doc \in ConfigState : ConfigOf(doc, v) \in CachedConfig
      /\ \A doc \in PathState : EntryOf(doc, v) \in {NoEntry} \cup PathEntry
  BY ConfigOfType, EntryOfType
<1> QED BY <1>1 DEF HandleConfigUpdate, HandlePathUpdate

(***************************************************************************)
(* A path is without actions exactly if it is not listed.                  *)
(***************************************************************************)
LEMMA EntryActions ==
  ASSUME NEW c \in CachedState, NEW p \in Paths
  PROVE  c.paths[p].actions = Null <=> c.paths[p] = NoEntry
<1>1. c.paths[p] = NoEntry \/ c.paths[p] \in PathEntry
  BY DEF CachedState
<1>2. ASSUME NEW entry \in PathEntry PROVE entry.actions # Null /\ entry # NoEntry
  <2>1. entry.actions \in SUBSET Actions
    BY DEF PathEntry
  <2>2. entry.actions # Null
    BY <2>1, TypesAssumption
  <2> QED BY <2>2 DEF NoEntry
<1> QED BY <1>1, <1>2 DEF NoEntry

=============================================================================
