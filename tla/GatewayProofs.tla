---------------------------- MODULE GatewayProofs ----------------------------
(***************************************************************************)
(* Proofs about Gateway, for every set of nodes, documents, bodies and     *)
(* every bound.                                                            *)
(***************************************************************************)
EXTENDS Gateway, GatewayCacheProofs, SequenceTheorems, TLAPS

-----------------------------------------------------------------------------
(* The documents *)

(***************************************************************************)
(* Every version of a document is one of the right kind.                   *)
(***************************************************************************)
LEMMA ContentType ==
  ASSUME DocumentsTypeOK
  PROVE  /\ \A l \in ConfigLinks : \A v \in 0 .. LastVersion(l) : Content(l, v) \in ConfigState
         /\ \A p \in Paths : \A v \in 0 .. LastVersion(p) : Content(p, v) \in PathState
         /\ \A d \in Docs : LastVersion(d) \in Int /\ LastVersion(d) >= -1
BY DEF DocumentsTypeOK, Content, LastVersion, Docs

(***************************************************************************)
(* Every version there is stays what it is.                                *)
(***************************************************************************)
HistoryGrows ==
  \A d \in Docs :
    /\ LastVersion(d)' \in Int
    /\ LastVersion(d)' >= LastVersion(d)
    /\ \A v \in 0 .. LastVersion(d) : Content(d, v)' = Content(d, v)

(***************************************************************************)
(* Committing a state of the right kind adds a version and changes none.   *)
(***************************************************************************)
LEMMA CommitGrows ==
  ASSUME DocumentsTypeOK,
         NEW d \in Docs, NEW state,
         d \in ConfigLinks => state \in ConfigState,
         d \in Paths => state \in PathState,
         Commit(d, state)
  PROVE  DocumentsTypeOK' /\ HistoryGrows
<1>1. /\ history' = [history EXCEPT ![d] = Append(@, state)]
      /\ DOMAIN history' = Docs
  BY DEF Commit, DocumentsTypeOK
<1>2. \A e \in Docs : e # d => history'[e] = history[e]
  BY <1>1 DEF DocumentsTypeOK
<1>3. history'[d] = Append(history[d], state)
  BY <1>1 DEF DocumentsTypeOK
<1>4. DocumentsTypeOK'
  BY <1>1, <1>2, <1>3 DEF DocumentsTypeOK, Docs
<1>5. ASSUME NEW S, history[d] \in Seq(S), state \in S
      PROVE  /\ Len(history'[d]) = Len(history[d]) + 1
             /\ Len(history[d]) \in Nat
             /\ \A i \in 1 .. Len(history[d]) : history'[d][i] = history[d][i]
  BY <1>3, <1>5
<1>6. /\ Len(history'[d]) = Len(history[d]) + 1
      /\ Len(history[d]) \in Nat
      /\ \A i \in 1 .. Len(history[d]) : history'[d][i] = history[d][i]
  <2>1. CASE d \in ConfigLinks BY <1>5, <2>1 DEF DocumentsTypeOK
  <2>2. CASE d \in Paths BY <1>5, <2>2 DEF DocumentsTypeOK
  <2> QED BY <2>1, <2>2 DEF Docs
<1>7. \A e \in Docs : Len(history[e]) \in Nat
  BY DEF DocumentsTypeOK, Docs
<1>8. HistoryGrows
  BY <1>2, <1>6, <1>7 DEF HistoryGrows, LastVersion, Content
<1> QED BY <1>4, <1>8

(***************************************************************************)
(* Whatever a client writes, documents keep their type and their versions. *)
(***************************************************************************)
LEMMA WriteGrows ==
  ASSUME DocumentsTypeOK, WriteDocuments
  PROVE  DocumentsTypeOK' /\ HistoryGrows
<1> USE TypesAssumption, DocumentsAssumption
<1>0. \A d \in Docs : Exists(d) => /\ d \in ConfigLinks => Current(d) \in ConfigState
                                   /\ d \in Paths => Current(d) \in PathState
  BY ContentType DEF Exists, Current, Docs
<1>1. ASSUME NEW l \in ConfigLinks, NEW sent \in ConfigBodies, CreateConfig(l, sent)
      PROVE  DocumentsTypeOK' /\ HistoryGrows
  <2> DEFINE body == Deserialised(sent)
  <2>1. /\ body.status \in {Null} \cup Status
        /\ body.forwardingUri \in {Null} \cup Uris
        /\ body.filterRequests \in {Null} \cup BOOLEAN
    BY DEF Deserialised, ConfigBody
  <2> DEFINE state == [deleted |-> FALSE,
                       status |-> body.status,
                       forwardingUri |-> body.forwardingUri,
                       filterRequests |-> body.filterRequests]
  <2>2. Commit(l, state) /\ state \in ConfigState
    BY <1>1, <2>1 DEF CreateConfig, ConfigState
  <2> HIDE DEF state
  <2> QED BY <2>2, CommitGrows DEF Docs
<1>2. ASSUME NEW l \in ConfigLinks, NEW sent \in ConfigBodies, UpdateConfig(l, sent)
      PROVE  DocumentsTypeOK' /\ HistoryGrows
  <2> DEFINE body == Deserialised(sent)
  <2>1. /\ body.status \in {Null} \cup Status
        /\ body.forwardingUri \in {Null} \cup Uris
        /\ body.filterRequests \in {Null} \cup BOOLEAN
    BY DEF Deserialised, ConfigBody
  <2> DEFINE state == [deleted |-> FALSE,
                       status |-> Merged(Current(l).status, body.status),
                       forwardingUri |->
                         Merged(Current(l).forwardingUri, body.forwardingUri),
                       filterRequests |->
                         Merged(Current(l).filterRequests, body.filterRequests)]
  <2>2. Commit(l, state) /\ Current(l) \in ConfigState
    BY <1>0, <1>2 DEF UpdateConfig, Docs
  <2>3. state \in ConfigState
    BY <2>1, <2>2 DEF ConfigState, Merged
  <2> HIDE DEF state
  <2> QED BY <2>2, <2>3, CommitGrows DEF Docs
<1>3. ASSUME NEW p \in Paths, NEW body \in PathBodies, CreatePath(p, body)
      PROVE  DocumentsTypeOK' /\ HistoryGrows
  <2> DEFINE state == [deleted |-> FALSE, actions |-> body.actions]
  <2>1. Commit(p, state) /\ state \in PathState
    BY <1>3 DEF CreatePath, PathBody, PathState
  <2> HIDE DEF state
  <2> QED BY <2>1, CommitGrows DEF Docs
<1>4. ASSUME NEW p \in Paths, NEW body \in PathBodies, UpdatePath(p, body)
      PROVE  DocumentsTypeOK' /\ HistoryGrows
  <2> DEFINE state == [deleted |-> FALSE,
                       actions |-> MergedActions(Current(p).actions, body.actions)]
  <2>1. Commit(p, state) /\ Current(p) \in PathState
    BY <1>0, <1>4 DEF UpdatePath, Docs
  <2>2. body.actions \in SUBSET Actions
    BY <1>4 DEF UpdatePath, PathBody
  <2>3. state \in PathState
    BY <2>1, <2>2 DEF PathState, MergedActions
  <2> HIDE DEF state
  <2> QED BY <2>1, <2>3, CommitGrows DEF Docs
<1>5. ASSUME NEW d \in Docs, DeleteDocument(d)
      PROVE  DocumentsTypeOK' /\ HistoryGrows
  <2> DEFINE state == [Current(d) EXCEPT !.deleted = TRUE]
  <2>1. Commit(d, state) /\ Exists(d)
    BY <1>5 DEF DeleteDocument
  <2>2. d \in ConfigLinks => state \in ConfigState
    BY <1>0, <2>1 DEF ConfigState
  <2>3. d \in Paths => state \in PathState
    BY <1>0, <2>1 DEF PathState
  <2> HIDE DEF state
  <2> QED BY <2>1, <2>2, <2>3, CommitGrows
<1> QED BY <1>1, <1>2, <1>3, <1>4, <1>5 DEF WriteDocuments

-----------------------------------------------------------------------------
(* Type correctness, and what the cache holds *)

Safe ==
  /\ TypeOK
  /\ ReplicasFollow
  /\ CachedConfigIsOneVersion
  /\ CachedPathsAreVersions

(***************************************************************************)
(* Before anything is written or started, Safe holds.                      *)
(***************************************************************************)
LEMMA SafeInit == Init => Safe
<1> SUFFICES ASSUME Init PROVE Safe
  OBVIOUS
<1> USE TypesAssumption, DocumentsAssumption, GatewayAssumption
<1>1. DocumentsTypeOK
  BY DEF Init, DocumentsInit, DocumentsTypeOK, Docs
<1>2. EmptyCache \in CachedState
  BY SeedType DEF EmptyCache, CachedState
<1>3. TypeOK
  BY <1>1, <1>2 DEF Init, TypeOK, Phases
<1>4. ReplicasFollow
  BY DEF Init, DocumentsInit, ReplicasFollow, LastVersion
<1>5. CachedConfigIsOneVersion /\ CachedPathsAreVersions
  BY DEF Init, EmptyCache, CachedConfigIsOneVersion, CachedPathsAreVersions
<1> QED BY <1>3, <1>4, <1>5 DEF Safe

(***************************************************************************)
(* A client's update leaves every version a node refers to in place.       *)
(***************************************************************************)
LEMMA SafeWrite == Safe /\ Write => Safe'
<1> SUFFICES ASSUME Safe, Write PROVE Safe'
  OBVIOUS
<1>1. DocumentsTypeOK' /\ HistoryGrows
  BY WriteGrows DEF Safe, TypeOK, Write
<1>2. UNCHANGED nodeVars
  BY DEF Write
<1>3. \A d \in Docs : LastVersion(d) \in Int
  BY ContentType DEF Safe, TypeOK
<1>4. TypeOK'
  BY <1>1, <1>2 DEF Safe, TypeOK, nodeVars
<1>5. ReplicasFollow'
  BY <1>1, <1>2, <1>3 DEF Safe, ReplicasFollow, HistoryGrows, nodeVars
<1>6. \A n \in Nodes, d \in Docs : \A v \in 0 .. local[n][d] :
        Content(d, v)' = Content(d, v)
  BY <1>1, <1>3 DEF Safe, ReplicasFollow, HistoryGrows
<1>7. CachedConfigIsOneVersion'
  BY <1>2, <1>6, TypesAssumption DEF Safe, CachedConfigIsOneVersion, nodeVars, Docs
<1>8. CachedPathsAreVersions'
  BY <1>2, <1>6 DEF Safe, CachedPathsAreVersions, nodeVars, Docs
<1> QED BY <1>4, <1>5, <1>7, <1>8 DEF Safe

(***************************************************************************)
(* A replica only moves forward.                                           *)
(***************************************************************************)
LEMMA SafeReplicate ==
  ASSUME Safe, NEW n \in Nodes, NEW d \in Docs, Replicate(n, d)
  PROVE  Safe'
<1>1. PICK v \in local[n][d] + 1 .. LastVersion(d) :
        local' = [local EXCEPT ![n][d] = v]
  BY DEF Replicate
<1>2. UNCHANGED <<history, phase, cache, restarts>>
  BY DEF Replicate
<1>3. local \in [Nodes -> [Docs -> Int]] /\ local[n][d] \in Int /\ local[n][d] >= -1
  BY DEF Safe, TypeOK, ReplicasFollow
<1>4. LastVersion(d) \in Int
  BY ContentType DEF Safe, TypeOK
<1>5. v \in Int /\ v > local[n][d] /\ v >= 0 /\ v <= LastVersion(d)
  BY <1>1, <1>3, <1>4
<1>6. \A m \in Nodes, e \in Docs : local'[m][e] = IF m = n /\ e = d THEN v ELSE local[m][e]
  BY <1>1, <1>3
<1>7. \A m \in Nodes, e \in Docs : local'[m][e] \in Int /\ local'[m][e] >= local[m][e]
  BY <1>3, <1>5, <1>6
<1>8. local' \in [Nodes -> [Docs -> Int]]
  BY <1>1, <1>3, <1>5
<1>9. pending' \in [Nodes -> SUBSET (Docs \X Nat)]
  BY <1>3, <1>4 DEF Replicate, Safe, TypeOK
<1>10. TypeOK'
  BY <1>2, <1>8, <1>9 DEF Safe, TypeOK, DocumentsTypeOK
<1>11. ReplicasFollow'
  BY <1>2, <1>5, <1>6 DEF Safe, ReplicasFollow, LastVersion
<1>12. CachedConfigIsOneVersion'
  BY <1>2, <1>3, <1>7, TypesAssumption
     DEF Safe, TypeOK, CachedState, CachedConfig, CachedConfigIsOneVersion, Content, Docs
<1>13. CachedPathsAreVersions'
  BY <1>2, <1>3, <1>7
     DEF Safe, TypeOK, CachedState, PathEntry, CachedPathsAreVersions, Content, Docs
<1> QED BY <1>10, <1>11, <1>12, <1>13 DEF Safe

(***************************************************************************)
(* The steps that set the cache aside: starting and stopping.              *)
(***************************************************************************)
LEMMA SafeReset ==
  ASSUME Safe, NEW n \in Nodes, StartGateway(n) \/ Stop(n)
  PROVE  Safe'
<1>1. cache' = [cache EXCEPT ![n] = EmptyCache] /\ UNCHANGED <<history, local>>
  BY DEF StartGateway, Stop
<1>2. EmptyCache \in CachedState
  BY SeedType DEF EmptyCache, CachedState
<1>3. /\ phase' \in [Nodes -> Phases]
      /\ pending' \in [Nodes -> SUBSET (Docs \X Nat)]
      /\ restarts' \in [Nodes -> 0 .. MaxRestarts]
  <2>1. CASE StartGateway(n)
    BY <2>1 DEF StartGateway, Safe, TypeOK, Phases
  <2>2. CASE Stop(n)
    <3>1. restarts[n] \in 0 .. MaxRestarts /\ restarts[n] < MaxRestarts
      BY <2>2 DEF Stop, Safe, TypeOK
    <3>2. restarts[n] + 1 \in 0 .. MaxRestarts
      BY <3>1, GatewayAssumption
    <3> QED BY <2>2, <3>2 DEF Stop, Safe, TypeOK, Phases
  <2> QED BY <2>1, <2>2
<1>4. TypeOK'
  BY <1>1, <1>2, <1>3 DEF Safe, TypeOK, DocumentsTypeOK
<1>5. ReplicasFollow'
  BY <1>1 DEF Safe, ReplicasFollow, LastVersion
<1>6. \A m \in Nodes : cache'[m] = IF m = n THEN EmptyCache ELSE cache[m]
  BY <1>1 DEF Safe, TypeOK
<1>7. CachedConfigIsOneVersion'
  BY <1>1, <1>6 DEF Safe, CachedConfigIsOneVersion, EmptyCache, Content
<1>8. CachedPathsAreVersions'
  BY <1>1, <1>6 DEF Safe, CachedPathsAreVersions, EmptyCache, Content
<1> QED BY <1>4, <1>5, <1>7, <1>8 DEF Safe

(***************************************************************************)
(* The steps of starting that leave the cache alone.                       *)
(***************************************************************************)
LEMMA SafePhase ==
  ASSUME Safe, NEW n \in Nodes,
         \/ QueryTaskCreated(n)
         \/ Subscribe(n)
         \/ SubscriptionCompleted(n)
         \/ StartFailed(n)
  PROVE  Safe'
<1>1. UNCHANGED <<history, local, cache, restarts>>
  BY DEF QueryTaskCreated, Subscribe, SubscriptionCompleted, StartFailed
<1>2. phase' \in [Nodes -> Phases]
  BY DEF QueryTaskCreated, Subscribe, SubscriptionCompleted, StartFailed,
         Safe, TypeOK, Phases
<1>3. Replayed(n) \subseteq Docs \X Nat
  BY DEF Replayed, Safe, TypeOK
<1>4. pending' \in [Nodes -> SUBSET (Docs \X Nat)]
  BY <1>3 DEF QueryTaskCreated, Subscribe, SubscriptionCompleted, StartFailed, Safe, TypeOK
<1>5. TypeOK'
  BY <1>1, <1>2, <1>4 DEF Safe, TypeOK, DocumentsTypeOK
<1>6. ReplicasFollow' /\ CachedConfigIsOneVersion' /\ CachedPathsAreVersions'
  BY <1>1 DEF Safe, ReplicasFollow, LastVersion, CachedConfigIsOneVersion,
              CachedPathsAreVersions, Content
<1> QED BY <1>5, <1>6 DEF Safe

-----------------------------------------------------------------------------
(* Handling a notification *)

(***************************************************************************)
(* A step in which node n handles version v of document d.                 *)
(***************************************************************************)
Handles(n, d, v) ==
  /\ <<d, v>> \in pending[n]
  /\ pending' = [pending EXCEPT ![n] = @ \ {<<d, v>>}]
  /\ cache' =
       IF d \in ConfigLinks
       THEN [cache EXCEPT ![n].config =
               HandleConfigUpdate(@, d, Content(d, v), v)]
       ELSE [cache EXCEPT ![n].paths[d] =
               HandlePathUpdate(@, Content(d, v), v)]
  /\ UNCHANGED <<history, local, phase, restarts>>

(***************************************************************************)
(* What such a step does to each part of each cache.                       *)
(***************************************************************************)
LEMMA HandlesConfig ==
  ASSUME Safe, NEW n \in Nodes, NEW d \in ConfigLinks, NEW v, Handles(n, d, v)
  PROVE  /\ cache'[n].config = HandleConfigUpdate(cache[n].config, d, Content(d, v), v)
         /\ cache'[n].paths = cache[n].paths
         /\ \A m \in Nodes : m # n => cache'[m] = cache[m]
BY DEF Safe, TypeOK, CachedState, Handles

(***************************************************************************)
(* Likewise for the entries of the white list.                             *)
(***************************************************************************)
LEMMA HandlesPath ==
  ASSUME Safe, NEW n \in Nodes, NEW d \in Paths, NEW v, Handles(n, d, v)
  PROVE  /\ cache'[n].config = cache[n].config
         /\ cache'[n].paths =
              [cache[n].paths EXCEPT ![d] = HandlePathUpdate(@, Content(d, v), v)]
         /\ \A m \in Nodes : m # n => cache'[m] = cache[m]
BY TypesAssumption DEF Safe, TypeOK, CachedState, Handles

(***************************************************************************)
(* The configuration and the entries a notification leaves are versions of *)
(* their documents again.                                                  *)
(***************************************************************************)
LEMMA SafeHandle ==
  ASSUME Safe, NEW n \in Nodes, NEW d \in Docs, NEW v \in 0 .. local[n][d],
         Handles(n, d, v)
  PROVE  Safe'
<1>1. UNCHANGED <<history, local, phase, restarts>>
  BY DEF Handles
<1>2. /\ local[n][d] \in Int
      /\ LastVersion(d) \in Int
      /\ v \in Nat
      /\ v \in 0 .. LastVersion(d)
  BY ContentType DEF Safe, TypeOK, ReplicasFollow
<1>3. pending' \in [Nodes -> SUBSET (Docs \X Nat)]
  BY DEF Handles, Safe, TypeOK
<1>4. ReplicasFollow'
  BY <1>1 DEF Safe, ReplicasFollow, LastVersion
<1>5. CASE d \in ConfigLinks
  <2>1. Content(d, v) \in ConfigState
    BY <1>2, <1>5, ContentType DEF Safe, TypeOK
  <2>2. \/ cache'[n].config = cache[n].config
        \/ /\ d = DefaultConfig
           /\ cache'[n].config = ConfigOf(Content(d, v), v)
    BY <1>5, HandlesConfig DEF HandleConfigUpdate
  <2>3. /\ ConfigOf(Content(d, v), v) \in CachedConfig
        /\ ConfigOf(Content(d, v), v).version = v
    BY <1>2, <2>1, ConfigOfType
  <2>4. cache'[n].config \in CachedConfig
    BY <2>2, <2>3 DEF Safe, TypeOK, CachedState
  <2>5. cache' = [cache EXCEPT ![n].config = cache'[n].config]
    BY <1>5 DEF Handles, Safe, TypeOK, CachedState
  <2>6. cache' \in [Nodes -> CachedState]
    BY <2>4, <2>5 DEF Safe, TypeOK, CachedState
  <2>7. TypeOK'
    BY <1>1, <1>3, <2>6 DEF Safe, TypeOK, DocumentsTypeOK
  <2>8. CachedConfigIsOneVersion'
    BY <1>1, <1>2, <1>5, <2>2, <2>3, HandlesConfig
       DEF Safe, CachedConfigIsOneVersion, Content
  <2>9. CachedPathsAreVersions'
    BY <1>1, <1>5, HandlesConfig DEF Safe, CachedPathsAreVersions, Content
  <2> QED BY <1>4, <2>7, <2>8, <2>9 DEF Safe
<1>6. CASE d \in Paths
  <2>1. Content(d, v) \in PathState
    BY <1>2, <1>6, ContentType DEF Safe, TypeOK
  <2>2. cache[n].paths \in [Paths -> {NoEntry} \cup PathEntry]
    BY DEF Safe, TypeOK, CachedState
  <2>3. /\ \/ cache'[n].paths[d] = cache[n].paths[d]
           \/ cache'[n].paths[d] = EntryOf(Content(d, v), v)
        /\ \A p \in Paths : p # d => cache'[n].paths[p] = cache[n].paths[p]
    <3>1. cache'[n].paths =
            [cache[n].paths EXCEPT ![d] = HandlePathUpdate(@, Content(d, v), v)]
      BY <1>6, HandlesPath
    <3>2. cache'[n].paths[d] = HandlePathUpdate(cache[n].paths[d], Content(d, v), v)
      BY <1>6, <2>2, <3>1
    <3>3. \A p \in Paths : p # d => cache'[n].paths[p] = cache[n].paths[p]
      BY <1>6, <2>2, <3>1
    <3> QED BY <3>2, <3>3 DEF HandlePathUpdate
  <2>4. EntryOf(Content(d, v), v) \in {NoEntry} \cup PathEntry
    BY <1>2, <2>1, EntryOfType
  <2>6. cache' = [cache EXCEPT ![n].paths[d] =
                    HandlePathUpdate(@, Content(d, v), v)]
    BY <1>6, TypesAssumption DEF Handles
  <2>7. cache' \in [Nodes -> CachedState]
    <3> DEFINE entry == HandlePathUpdate(cache[n].paths[d], Content(d, v), v)
    <3>1. entry \in {NoEntry} \cup PathEntry
      BY <1>6, <2>2, <2>4 DEF HandlePathUpdate
    <3>2. cache' = [cache EXCEPT ![n] =
                      [cache[n] EXCEPT !.paths = [cache[n].paths EXCEPT ![d] = entry]]]
      BY <2>6
    <3> HIDE DEF entry
    <3>3. [cache[n].paths EXCEPT ![d] = entry] \in [Paths -> {NoEntry} \cup PathEntry]
      BY <2>2, <3>1
    <3>4. [cache[n] EXCEPT !.paths = [cache[n].paths EXCEPT ![d] = entry]] \in CachedState
      BY <3>3 DEF Safe, TypeOK, CachedState
    <3> QED BY <3>2, <3>4 DEF Safe, TypeOK
  <2>8. TypeOK'
    BY <1>1, <1>3, <2>7 DEF Safe, TypeOK, DocumentsTypeOK
  <2>9. CachedConfigIsOneVersion'
    BY <1>1, <1>6, HandlesPath DEF Safe, CachedConfigIsOneVersion, Content
  <2>10. \A p \in Paths :
           LET entry == cache'[n].paths[p] IN
             entry # NoEntry => /\ entry.version \in 0 .. local[n][p]
                                /\ entry = EntryOf(Content(p, entry.version), entry.version)
                                /\ ~ Content(p, entry.version).deleted
    <3> SUFFICES ASSUME NEW p \in Paths, cache'[n].paths[p] # NoEntry
                 PROVE  LET entry == cache'[n].paths[p] IN
                          /\ entry.version \in 0 .. local[n][p]
                          /\ entry = EntryOf(Content(p, entry.version), entry.version)
                          /\ ~ Content(p, entry.version).deleted
      OBVIOUS
    <3>1. CASE cache'[n].paths[p] = cache[n].paths[p]
      BY <3>1 DEF Safe, CachedPathsAreVersions
    <3>2. CASE cache'[n].paths[p] # cache[n].paths[p]
      <4>1. p = d /\ cache'[n].paths[p] = EntryOf(Content(p, v), v)
        BY <2>3, <3>2
      <4>2. ~ Content(p, v).deleted /\ cache'[n].paths[p].version = v
        BY <1>2, <2>1, <4>1, EntryOfType
      <4> QED BY <4>1, <4>2
    <3> QED BY <3>1, <3>2
  <2>11. CachedPathsAreVersions'
    <3>1. \A m \in Nodes : m # n => cache'[m] = cache[m]
      BY <1>6, HandlesPath
    <3> QED BY <1>1, <2>10, <3>1 DEF Safe, CachedPathsAreVersions, Content
  <2> QED BY <1>4, <2>8, <2>9, <2>11 DEF Safe
<1> QED BY <1>5, <1>6 DEF Docs

-----------------------------------------------------------------------------
(* Theorems on what the cache holds *)

(***************************************************************************)
(* Every step of a client, of replication or of a node keeps Safe.         *)
(***************************************************************************)
LEMMA SafeNext == Safe /\ [Next]_vars => Safe'
<1> SUFFICES ASSUME Safe, [Next]_vars PROVE Safe'
  OBVIOUS
<1>1. CASE Write
  BY <1>1, SafeWrite
<1>2. ASSUME NEW n \in Nodes, NodeStep(n) PROVE Safe'
  <2>1. CASE StartGateway(n) \/ Stop(n)
    BY <2>1, SafeReset
  <2>2. CASE QueryTaskCreated(n) \/ Subscribe(n) \/ SubscriptionCompleted(n) \/ StartFailed(n)
    BY <2>2, SafePhase
  <2>3. CASE HandleNotification(n)
    <3>1. PICK d \in Docs : \E v \in 0 .. local[n][d] : Handles(n, d, v)
      BY <2>3 DEF HandleNotification, Handles
    <3> QED BY <3>1, SafeHandle
  <2>4. ASSUME NEW d \in Docs, Replicate(n, d) PROVE Safe'
    BY <2>4, SafeReplicate
  <2> QED BY <1>2, <2>1, <2>2, <2>3, <2>4 DEF NodeStep, Starting
<1>3. CASE UNCHANGED vars
  BY <1>3 DEF vars, Safe, TypeOK, DocumentsTypeOK, ReplicasFollow, LastVersion,
              CachedConfigIsOneVersion, CachedPathsAreVersions, Content
<1> QED BY <1>1, <1>2, <1>3 DEF Next

(***************************************************************************)
(* Every reachable state is one of the right type, replicas never run      *)
(* ahead of the documents, and what a cache holds are versions of          *)
(* documents.                                                              *)
(***************************************************************************)
THEOREM SafeAlways == Spec => []Safe
<1>1. Init => Safe
  BY SafeInit
<1>2. Safe /\ [Next]_vars => Safe'
  BY SafeNext
<1> QED BY <1>1, <1>2, PTL DEF Spec

(***************************************************************************)
(* The variables of a gateway keep their types.                            *)
(***************************************************************************)
THEOREM TypeCorrect == Spec => []TypeOK
<1>1. Safe => TypeOK
  BY DEF Safe
<1> QED BY <1>1, SafeAlways, PTL

(***************************************************************************)
(* The cached configuration is never a mixture: handleConfigUpdate assigns *)
(* its fields one by one, but the result is always one version of the      *)
(* default document, or the seed.                                          *)
(***************************************************************************)
THEOREM ConfigNeverMixed == Spec => []CachedConfigIsOneVersion
<1>1. Safe => CachedConfigIsOneVersion
  BY DEF Safe
<1> QED BY <1>1, SafeAlways, PTL

(***************************************************************************)
(* Every white-listed path carries the actions of one version of its       *)
(* document that is not a deletion.                                        *)
(***************************************************************************)
THEOREM PathsNeverMixed == Spec => []CachedPathsAreVersions
<1>1. Safe => CachedPathsAreVersions
  BY DEF Safe
<1> QED BY <1>1, SafeAlways, PTL

-----------------------------------------------------------------------------
(* Convergence *)

(***************************************************************************)
(* Before any node has subscribed there is nothing it ought to know.       *)
(***************************************************************************)
LEMMA KnownInit == Init => KnownOrComing
<1> SUFFICES ASSUME Init PROVE KnownOrComing
  OBVIOUS
<1>1. ReplicasFollow
  BY SafeInit DEF Safe
<1>2. StartsEmpty /\ NewestConfigKnown /\ NewestPathsKnown
  BY DEF Init, StartsEmpty, NewestConfigKnown, NewestPathsKnown, Subscribed
<1> QED BY <1>1, <1>2 DEF KnownOrComing

(***************************************************************************)
(* A client's update is not in any replica yet, so nobody need know of it. *)
(***************************************************************************)
LEMMA KnownWrite == Safe /\ KnownOrComing /\ Write => KnownOrComing'
<1> SUFFICES ASSUME Safe, KnownOrComing, Write PROVE KnownOrComing'
  OBVIOUS
<1>1. HistoryGrows /\ UNCHANGED nodeVars
  BY WriteGrows DEF Safe, TypeOK, Write
<1>2. \A n \in Nodes, d \in Docs : local[n][d] >= 0 =>
        Content(d, local[n][d])' = Content(d, local[n][d])
  BY <1>1, ContentType DEF Safe, TypeOK, ReplicasFollow, HistoryGrows, nodeVars
<1>3. ReplicasFollow'
  BY SafeWrite DEF Safe
<1>4. StartsEmpty'
  BY <1>1 DEF KnownOrComing, StartsEmpty, nodeVars
<1>5. NewestConfigKnown'
  BY <1>1, <1>2, TypesAssumption
     DEF KnownOrComing, NewestConfigKnown, Subscribed, Told, nodeVars, Docs
<1>6. NewestPathsKnown'
  BY <1>1, <1>2 DEF KnownOrComing, NewestPathsKnown, Subscribed, nodeVars, Docs
<1> QED BY <1>3, <1>4, <1>5, <1>6 DEF KnownOrComing

(***************************************************************************)
(* A subscriber is told of the version its replica takes in.               *)
(***************************************************************************)
LEMMA KnownReplicate ==
  ASSUME Safe, KnownOrComing, NEW n \in Nodes, NEW d \in Docs, Replicate(n, d)
  PROVE  KnownOrComing'
<1>1. PICK v \in local[n][d] + 1 .. LastVersion(d) :
        /\ local' = [local EXCEPT ![n][d] = v]
        /\ pending' = IF Subscribed(n)
                      THEN [pending EXCEPT ![n] = @ \cup {<<d, v>>}]
                      ELSE pending
  BY DEF Replicate
<1>2. UNCHANGED <<history, phase, cache, restarts>>
  BY DEF Replicate
<1>3. /\ local \in [Nodes -> [Docs -> Int]]
      /\ pending \in [Nodes -> SUBSET (Docs \X Nat)]
  BY DEF Safe, TypeOK
<1>4. \A m \in Nodes, e \in Docs : local'[m][e] = IF m = n /\ e = d THEN v ELSE local[m][e]
  BY <1>1, <1>3
<1>5. \A m \in Nodes :
        pending'[m] = IF m = n /\ Subscribed(n) THEN pending[m] \cup {<<d, v>>} ELSE pending[m]
  BY <1>1, <1>3
<1>6. ReplicasFollow'
  BY SafeReplicate DEF Safe
<1>7. StartsEmpty'
  BY <1>2, <1>5 DEF KnownOrComing, StartsEmpty, Subscribed
<1>8. NewestConfigKnown'
  <2> SUFFICES ASSUME NEW m \in Nodes, Subscribed(m), local'[m][DefaultConfig] >= 0
               PROVE  \/ cache[m].config.version = local'[m][DefaultConfig]
                      \/ <<DefaultConfig, local'[m][DefaultConfig]>> \in pending'[m]
                      \/ /\ Content(DefaultConfig, local'[m][DefaultConfig]).deleted
                         /\ cache[m].config = SeedConfig
                         /\ Told(m, DefaultConfig)'
    BY <1>2 DEF NewestConfigKnown, Subscribed, Content
  <2>1. CASE m = n /\ d = DefaultConfig
    BY <1>4, <1>5, <2>1
  <2>2. CASE ~ (m = n /\ d = DefaultConfig)
    <3>1. /\ local'[m][DefaultConfig] = local[m][DefaultConfig]
          /\ pending[m] \subseteq pending'[m]
          /\ \A u : <<DefaultConfig, u>> \in pending'[m] => <<DefaultConfig, u>> \in pending[m]
      <4>1. local'[m][DefaultConfig] = local[m][DefaultConfig]
        BY <1>4, <2>2, TypesAssumption DEF Docs
      <4>2. \/ pending'[m] = pending[m]
            \/ d # DefaultConfig /\ pending'[m] = pending[m] \cup {<<d, v>>}
        BY <1>5, <2>2
      <4>3. d # DefaultConfig => \A u : <<DefaultConfig, u>> # <<d, v>>
        OBVIOUS
      <4> QED BY <4>1, <4>2, <4>3
    <3>2. Told(m, DefaultConfig) => Told(m, DefaultConfig)'
      BY <1>2, <3>1 DEF Told, Subscribed
    <3> QED BY <3>1, <3>2 DEF KnownOrComing, NewestConfigKnown
  <2> QED BY <2>1, <2>2
<1>9. NewestPathsKnown'
  <2> SUFFICES ASSUME NEW m \in Nodes, NEW p \in Paths, Subscribed(m), local'[m][p] >= 0,
                      ~ Content(p, local'[m][p]).deleted
               PROVE  \/ cache[m].paths[p].version = local'[m][p]
                      \/ <<p, local'[m][p]>> \in pending'[m]
    BY <1>2 DEF NewestPathsKnown, Subscribed, Content
  <2>1. CASE m = n /\ d = p
    BY <1>4, <1>5, <2>1
  <2>2. CASE ~ (m = n /\ d = p)
    <3>1. local'[m][p] = local[m][p] /\ pending[m] \subseteq pending'[m]
      BY <1>4, <1>5, <2>2 DEF Docs
    <3> QED BY <3>1 DEF KnownOrComing, NewestPathsKnown
  <2> QED BY <2>1, <2>2
<1> QED BY <1>6, <1>7, <1>8, <1>9 DEF KnownOrComing

(***************************************************************************)
(* Starting and stopping: a node that subscribes knows nothing yet, and    *)
(* what exists is replayed to it.                                          *)
(***************************************************************************)
LEMMA KnownStart ==
  ASSUME Safe, KnownOrComing, NEW n \in Nodes,
         \/ StartGateway(n)
         \/ Stop(n)
         \/ QueryTaskCreated(n)
         \/ Subscribe(n)
         \/ SubscriptionCompleted(n)
         \/ StartFailed(n)
  PROVE  KnownOrComing'
<1> USE DEF Safe, TypeOK, KnownOrComing
<1>1. UNCHANGED <<history, local>>
  BY DEF StartGateway, Stop, QueryTaskCreated, Subscribe, SubscriptionCompleted, StartFailed
<1>2. ReplicasFollow'
  BY <1>1 DEF ReplicasFollow, LastVersion
<1>3. \A m \in Nodes : m # n => /\ phase'[m] = phase[m]
                                /\ cache'[m] = cache[m]
                                /\ pending'[m] = pending[m]
  BY DEF StartGateway, Stop, QueryTaskCreated, Subscribe, SubscriptionCompleted, StartFailed
<1>4. ASSUME phase'[n] \in {"stopped", "creatingTask", "subscribing"}
      PROVE  cache'[n] = EmptyCache /\ pending'[n] = {}
  BY <1>4 DEF StartGateway, Stop, QueryTaskCreated, Subscribe, SubscriptionCompleted,
              StartFailed, StartsEmpty
<1>5. StartsEmpty'
  BY <1>3, <1>4 DEF StartsEmpty
<1>6. ASSUME Subscribed(n)'
      PROVE  \/ Subscribe(n)
             \/ SubscriptionCompleted(n)
  BY <1>6 DEF Subscribed, StartGateway, Stop, QueryTaskCreated, StartFailed
<1>7. ASSUME Subscribe(n)
      PROVE  cache'[n] = EmptyCache /\ pending'[n] = Replayed(n)
  BY <1>7 DEF Subscribe, StartsEmpty
<1>8. ASSUME SubscriptionCompleted(n)
      PROVE  Subscribed(n) /\ cache'[n] = cache[n] /\ pending'[n] = pending[n]
  BY <1>8 DEF SubscriptionCompleted, Subscribed
<1>9. NewestConfigKnown'
  <2> SUFFICES ASSUME NEW m \in Nodes, Subscribed(m)', local[m][DefaultConfig] >= 0
               PROVE  \/ cache'[m].config.version = local[m][DefaultConfig]
                      \/ <<DefaultConfig, local[m][DefaultConfig]>> \in pending'[m]
                      \/ /\ Content(DefaultConfig, local[m][DefaultConfig]).deleted
                         /\ cache'[m].config = SeedConfig
                         /\ \A v \in 0 .. local[m][DefaultConfig] :
                              <<DefaultConfig, v>> \notin pending'[m]
    BY <1>1 DEF NewestConfigKnown, Content, Told
  <2>1. CASE m = n /\ Subscribe(n)
    <3> DEFINE w == local[n][DefaultConfig]
    <3>1. CASE ~ Content(DefaultConfig, w).deleted
      BY <1>7, <2>1, <3>1, TypesAssumption DEF Replayed, Docs
    <3>2. CASE Content(DefaultConfig, w).deleted
      <4>1. \A v : <<DefaultConfig, v>> \notin Replayed(n)
        BY <3>2 DEF Replayed
      <4> QED BY <1>7, <2>1, <3>2, <4>1 DEF EmptyCache
    <3> QED BY <3>1, <3>2
  <2>2. CASE m = n /\ SubscriptionCompleted(n)
    BY <1>8, <2>2 DEF NewestConfigKnown, Told
  <2>3. CASE m # n
    BY <1>3, <2>3 DEF NewestConfigKnown, Told, Subscribed
  <2> QED BY <1>6, <2>1, <2>2, <2>3
<1>10. NewestPathsKnown'
  <2> SUFFICES ASSUME NEW m \in Nodes, NEW p \in Paths, Subscribed(m)', local[m][p] >= 0,
                      ~ Content(p, local[m][p]).deleted
               PROVE  \/ cache'[m].paths[p].version = local[m][p]
                      \/ <<p, local[m][p]>> \in pending'[m]
    BY <1>1 DEF NewestPathsKnown, Content
  <2>1. CASE m = n /\ Subscribe(n)
    BY <1>7, <2>1 DEF Replayed, Docs
  <2>2. CASE m = n /\ SubscriptionCompleted(n)
    BY <1>8, <2>2 DEF NewestPathsKnown
  <2>3. CASE m # n
    BY <1>3, <2>3 DEF NewestPathsKnown, Subscribed
  <2> QED BY <1>6, <2>1, <2>2, <2>3
<1> QED BY <1>2, <1>5, <1>9, <1>10

(***************************************************************************)
(* Handling a notification: the newest version replaces whatever is        *)
(* cached, and no other version replaces the newest.                       *)
(***************************************************************************)
LEMMA KnownHandle ==
  ASSUME Safe, KnownOrComing,
         NEW n \in Nodes, NEW d \in Docs, NEW v \in 0 .. local[n][d],
         Handles(n, d, v)
  PROVE  KnownOrComing'
<1>1. UNCHANGED <<history, local, phase, restarts>>
  BY DEF Handles
<1>2. /\ local[n][d] \in Int
      /\ v \in Nat
      /\ v <= local[n][d]
      /\ v \in 0 .. LastVersion(d)
  BY ContentType DEF Safe, TypeOK, ReplicasFollow
<1>3. /\ pending'[n] = pending[n] \ {<<d, v>>}
      /\ <<d, v>> \in pending[n]
      /\ \A m \in Nodes : m # n => pending'[m] = pending[m]
  BY DEF Handles, Safe, TypeOK
<1>4. \A m \in Nodes : m # n => cache'[m] = cache[m]
  BY HandlesConfig, HandlesPath DEF Docs
<1>5. ReplicasFollow'
  BY <1>1 DEF KnownOrComing, ReplicasFollow, LastVersion
<1>6. phase[n] \notin {"stopped", "creatingTask", "subscribing"}
  BY <1>3 DEF KnownOrComing, StartsEmpty
<1>7. StartsEmpty'
  BY <1>1, <1>3, <1>4, <1>6 DEF KnownOrComing, StartsEmpty
<1>8. NewestConfigKnown'
  <2> SUFFICES ASSUME NEW m \in Nodes, Subscribed(m), local[m][DefaultConfig] >= 0
               PROVE  \/ cache'[m].config.version = local[m][DefaultConfig]
                      \/ <<DefaultConfig, local[m][DefaultConfig]>> \in pending'[m]
                      \/ /\ Content(DefaultConfig, local[m][DefaultConfig]).deleted
                         /\ cache'[m].config = SeedConfig
                         /\ \A u \in 0 .. local[m][DefaultConfig] :
                              <<DefaultConfig, u>> \notin pending'[m]
    BY <1>1 DEF NewestConfigKnown, Subscribed, Content, Told
  <2>1. CASE m # n
    BY <1>3, <1>4, <2>1 DEF KnownOrComing, NewestConfigKnown, Told
  <2>2. CASE m = n /\ d # DefaultConfig
    <3>1. cache'[n].config = cache[n].config
      BY <2>2, HandlesConfig, HandlesPath DEF HandleConfigUpdate, Docs
    <3>2. \A u : <<DefaultConfig, u>> \in pending'[n] <=> <<DefaultConfig, u>> \in pending[n]
      BY <1>3, <2>2
    <3> QED BY <2>2, <3>1, <3>2 DEF KnownOrComing, NewestConfigKnown, Told
  <2>3. CASE m = n /\ d = DefaultConfig
    <3>1. cache'[n].config =
            HandleConfigUpdate(cache[n].config, d, Content(d, v), v)
      BY <2>3, HandlesConfig, TypesAssumption
    <3>2. cache[n].config.version \in -1 .. local[n][d]
      BY <1>2, <2>3 DEF Safe, CachedConfigIsOneVersion, SeedConfig
    <3>3. ConfigOf(Content(d, v), v).version = v
      BY <1>2, <2>3, ContentType, ConfigOfType, TypesAssumption DEF Safe, TypeOK
    <3>4. CASE cache[n].config.version = local[n][d]
      BY <1>2, <2>3, <3>1, <3>4 DEF HandleConfigUpdate
    <3>5. CASE <<d, local[n][d]>> \in pending[n] /\ v # local[n][d]
      BY <1>3, <2>3, <3>5
    <3>6. CASE v = local[n][d]
      BY <1>2, <2>3, <3>1, <3>2, <3>3, <3>6 DEF HandleConfigUpdate
    <3>7. ~ Told(n, d)
      BY <1>3 DEF Told
    <3> QED BY <2>3, <3>4, <3>5, <3>6, <3>7 DEF KnownOrComing, NewestConfigKnown
  <2> QED BY <2>1, <2>2, <2>3
<1>9. NewestPathsKnown'
  <2> SUFFICES ASSUME NEW m \in Nodes, NEW p \in Paths, Subscribed(m), local[m][p] >= 0,
                      ~ Content(p, local[m][p]).deleted
               PROVE  \/ cache'[m].paths[p].version = local[m][p]
                      \/ <<p, local[m][p]>> \in pending'[m]
    BY <1>1 DEF NewestPathsKnown, Subscribed, Content
  <2>0. cache[m].paths \in [Paths -> {NoEntry} \cup PathEntry]
    BY DEF Safe, TypeOK, CachedState
  <2>1. CASE m # n
    BY <1>3, <1>4, <2>1 DEF KnownOrComing, NewestPathsKnown
  <2>2. CASE m = n /\ d # p
    <3>1. cache'[n].paths[p] = cache[n].paths[p]
      <4>1. CASE d \in ConfigLinks
        BY <2>2, <4>1, HandlesConfig
      <4>2. CASE d \in Paths
        <5>1. cache'[n].paths =
                [cache[n].paths EXCEPT ![d] = HandlePathUpdate(@, Content(d, v), v)]
          BY <4>2, HandlesPath
        <5> QED BY <2>0, <2>2, <5>1
      <4> QED BY <4>1, <4>2 DEF Docs
    <3>2. \A u : <<p, u>> \in pending'[n] <=> <<p, u>> \in pending[n]
      BY <1>3, <2>2
    <3> QED BY <2>2, <3>1, <3>2 DEF KnownOrComing, NewestPathsKnown
  <2>3. CASE m = n /\ d = p
    <3>1. cache'[n].paths[p] = HandlePathUpdate(cache[n].paths[p], Content(p, v), v)
      <4>1. cache'[n].paths =
              [cache[n].paths EXCEPT ![d] = HandlePathUpdate(@, Content(d, v), v)]
        BY <2>3, HandlesPath
      <4> QED BY <2>0, <2>3, <4>1
    <3>2. cache[n].paths[p].version \in -1 .. local[n][p]
      BY <1>2, <2>3 DEF Safe, CachedPathsAreVersions, NoEntry
    <3>3. ~ Content(p, v).deleted => EntryOf(Content(p, v), v).version = v
      BY <1>2, <2>3, ContentType, EntryOfType DEF Safe, TypeOK
    <3>4. CASE cache[n].paths[p].version = local[n][p]
      BY <1>2, <2>3, <3>1, <3>4 DEF HandlePathUpdate
    <3>5. CASE <<p, local[n][p]>> \in pending[n] /\ v # local[n][p]
      BY <1>3, <2>3, <3>5
    <3>6. CASE v = local[n][p]
      BY <1>2, <2>3, <3>1, <3>2, <3>3, <3>6 DEF HandlePathUpdate
    <3> QED BY <2>3, <3>4, <3>5, <3>6 DEF KnownOrComing, NewestPathsKnown
  <2> QED BY <2>1, <2>2, <2>3
<1> QED BY <1>5, <1>7, <1>8, <1>9 DEF KnownOrComing

(***************************************************************************)
(* Every step keeps what a subscriber knows, or is about to be told.       *)
(***************************************************************************)
LEMMA KnownNext == Safe /\ KnownOrComing /\ [Next]_vars => KnownOrComing'
<1> SUFFICES ASSUME Safe, KnownOrComing, [Next]_vars PROVE KnownOrComing'
  OBVIOUS
<1>1. CASE Write
  BY <1>1, KnownWrite
<1>2. ASSUME NEW n \in Nodes, NodeStep(n) PROVE KnownOrComing'
  <2>1. CASE Starting(n) \/ StartFailed(n) \/ Stop(n)
    BY <2>1, KnownStart DEF Starting
  <2>2. CASE HandleNotification(n)
    <3>1. PICK d \in Docs : \E v \in 0 .. local[n][d] : Handles(n, d, v)
      BY <2>2 DEF HandleNotification, Handles
    <3> QED BY <3>1, KnownHandle
  <2>3. ASSUME NEW d \in Docs, Replicate(n, d) PROVE KnownOrComing'
    BY <2>3, KnownReplicate
  <2> QED BY <1>2, <2>1, <2>2, <2>3 DEF NodeStep
<1>3. CASE UNCHANGED vars
  BY <1>3 DEF vars, KnownOrComing, ReplicasFollow, StartsEmpty, NewestConfigKnown,
              NewestPathsKnown, Subscribed, Told, Content, LastVersion
<1> QED BY <1>1, <1>2, <1>3 DEF Next

(***************************************************************************)
(* From the moment a node subscribes, the newest version its replica has   *)
(* of the configuration and of every path is in its cache or on its way.   *)
(***************************************************************************)
THEOREM KnownAlways == Spec => []KnownOrComing
<1>1. Init => KnownOrComing
  BY KnownInit
<1>2. Safe /\ KnownOrComing /\ [Next]_vars => KnownOrComing'
  BY KnownNext
<1> QED BY <1>1, <1>2, SafeAlways, PTL DEF Spec

(***************************************************************************)
(* In whatever order notifications are handled, and whenever the node      *)
(* subscribed: once none about the configuration is under way, the node    *)
(* routes by the newest configuration of its replica.                      *)
(***************************************************************************)
THEOREM ConfigConvergence == Spec => []ConfigConverges
<1>1. Safe /\ KnownOrComing => ConfigConverges
  <2> SUFFICES ASSUME Safe, KnownOrComing, NEW n \in Nodes, Told(n, DefaultConfig)
               PROVE  Routing(cache[n].config) = Routing(RouteConfig(n))
    BY DEF ConfigConverges
  <2> DEFINE w == local[n][DefaultConfig]
  <2>1. w \in Int /\ w >= -1
    BY TypesAssumption DEF Safe, TypeOK, ReplicasFollow, Docs
  <2>2. \/ cache[n].config = SeedConfig
        \/ /\ cache[n].config.version \in 0 .. w
           /\ cache[n].config =
                ConfigOf(Content(DefaultConfig, cache[n].config.version),
                         cache[n].config.version)
    BY DEF Safe, CachedConfigIsOneVersion
  <2>3. CASE w = -1
    BY <2>2, <2>3 DEF RouteConfig
  <2>4. CASE w >= 0
    <3>1. \/ cache[n].config.version = w
          \/ Content(DefaultConfig, w).deleted /\ cache[n].config = SeedConfig
      <4>1. w \in 0 .. w
        BY <2>1, <2>4
      <4>2. Subscribed(n) /\ <<DefaultConfig, w>> \notin pending[n]
        BY <4>1 DEF Told
      <4> QED BY <2>4, <4>2 DEF KnownOrComing, NewestConfigKnown
    <3>2. CASE cache[n].config.version = w
      BY <2>2, <2>4, <3>2 DEF RouteConfig, SeedConfig
    <3>3. CASE Content(DefaultConfig, w).deleted /\ cache[n].config = SeedConfig
      BY <2>4, <3>3 DEF RouteConfig, ConfigOf, Routing, SeedConfig
    <3> QED BY <3>1, <3>2, <3>3
  <2> QED BY <2>1, <2>3, <2>4
<1> QED BY <1>1, SafeAlways, KnownAlways, PTL

(***************************************************************************)
(* Likewise every path whose document exists is white-listed with the      *)
(* actions of its newest version.                                          *)
(***************************************************************************)
THEOREM LivePathsConvergence == Spec => []LivePathsConverge
<1>1. Safe /\ KnownOrComing => LivePathsConverge
  <2> SUFFICES ASSUME Safe, KnownOrComing, NEW n \in Nodes, NEW p \in Paths,
                      Told(n, p), local[n][p] >= 0, ~ Content(p, local[n][p]).deleted
               PROVE  cache[n].paths[p] = EntryOf(Content(p, local[n][p]), local[n][p])
    BY DEF LivePathsConverge
  <2>1. local[n][p] \in Int
    BY DEF Safe, TypeOK, Docs
  <2>2. cache[n].paths[p].version = local[n][p]
    <3>1. local[n][p] \in 0 .. local[n][p]
      BY <2>1
    <3>2. Subscribed(n) /\ <<p, local[n][p]>> \notin pending[n]
      BY <3>1 DEF Told
    <3> QED BY <3>2 DEF KnownOrComing, NewestPathsKnown
  <2>3. cache[n].paths[p] # NoEntry
    BY <2>1, <2>2 DEF NoEntry
  <2> QED BY <2>2, <2>3 DEF Safe, CachedPathsAreVersions
<1> QED BY <1>1, SafeAlways, KnownAlways, PTL

-----------------------------------------------------------------------------
(* What a step may never do *)

(***************************************************************************)
(* While a node runs, no step takes a white-listed path back to an older   *)
(* version, or off the list unless a newer version deletes it.             *)
(***************************************************************************)
THEOREM PathsOnlyForward == Spec => PathsMoveForward
<1>1. Safe /\ KnownOrComing /\ [Next]_vars => PathsForward
  <2> SUFFICES ASSUME Safe, KnownOrComing, [Next]_vars,
                      NEW n \in Nodes, NEW p \in Paths,
                      phase'[n] # "stopped",
                      cache[n].paths[p] # NoEntry,
                      cache'[n].paths[p] # cache[n].paths[p]
               PROVE  IF cache'[n].paths[p] # NoEntry
                      THEN cache'[n].paths[p].version > cache[n].paths[p].version
                      ELSE \E v \in cache[n].paths[p].version + 1 .. local[n][p] :
                             Content(p, v).deleted
    BY DEF PathsForward
  <2>1. CASE Write \/ UNCHANGED vars
    BY <2>1 DEF Write, nodeVars, vars
  <2>2. ASSUME NEW m \in Nodes,
               \/ QueryTaskCreated(m) \/ Subscribe(m) \/ SubscriptionCompleted(m)
               \/ StartFailed(m) \/ \E d \in Docs : Replicate(m, d)
        PROVE  FALSE
    BY <2>2 DEF QueryTaskCreated, Subscribe, SubscriptionCompleted, StartFailed, Replicate
  <2>3. ASSUME NEW m \in Nodes, StartGateway(m) \/ Stop(m) PROVE FALSE
    <3>1. CASE m # n
      BY <2>3, <3>1 DEF StartGateway, Stop, Safe, TypeOK
    <3>2. CASE m = n /\ StartGateway(m)
      BY <3>2 DEF StartGateway, KnownOrComing, StartsEmpty, EmptyCache
    <3>3. CASE m = n /\ Stop(m)
      BY <3>3 DEF Stop, Safe, TypeOK
    <3> QED BY <2>3, <3>1, <3>2, <3>3
  <2>4. ASSUME NEW m \in Nodes, HandleNotification(m)
        PROVE  IF cache'[n].paths[p] # NoEntry
               THEN cache'[n].paths[p].version > cache[n].paths[p].version
               ELSE \E v \in cache[n].paths[p].version + 1 .. local[n][p] :
                      Content(p, v).deleted
    <3>1. PICK d \in Docs : \E v \in 0 .. local[m][d] : Handles(m, d, v)
      BY <2>4 DEF HandleNotification, Handles
    <3>2. PICK v \in 0 .. local[m][d] : Handles(m, d, v)
      BY <3>1
    <3>3. d \in Paths
      BY <3>2, HandlesConfig DEF Docs
    <3>4. cache'[m].paths = [cache[m].paths EXCEPT ![d] = HandlePathUpdate(@, Content(d, v), v)]
          /\ \A k \in Nodes : k # m => cache'[k] = cache[k]
      BY <3>2, <3>3, HandlesPath
    <3>5. cache[m].paths \in [Paths -> {NoEntry} \cup PathEntry]
      BY DEF Safe, TypeOK, CachedState
    <3>6. m = n /\ d = p
      BY <3>3, <3>4, <3>5
    <3>7. cache'[n].paths[p] = HandlePathUpdate(cache[n].paths[p], Content(p, v), v)
      BY <3>3, <3>4, <3>5, <3>6
    <3>8. /\ v > cache[n].paths[p].version
          /\ cache'[n].paths[p] = EntryOf(Content(p, v), v)
      BY <3>7 DEF HandlePathUpdate
    <3>9. /\ local[n][p] \in Int
          /\ cache[n].paths[p].version \in Int
          /\ v \in 0 .. LastVersion(p)
          /\ v \in Nat
      BY <3>3, <3>6, ContentType DEF Safe, TypeOK, ReplicasFollow, CachedPathsAreVersions
    <3>10. Content(p, v) \in PathState
      BY <3>9, ContentType DEF Safe, TypeOK
    <3> QED BY <3>6, <3>8, <3>9, <3>10, EntryOfType
  <2> QED BY <2>1, <2>2, <2>3, <2>4 DEF Next, NodeStep, Starting
<1> QED BY <1>1, SafeAlways, KnownAlways, PTL DEF Spec, PathsMoveForward

-----------------------------------------------------------------------------
(* Gateway implements RoutingView *)

(***************************************************************************)
(* The versions of the default document as RoutingView sees them.          *)
(***************************************************************************)
Published ==
  [i \in 1 .. Len(history[DefaultConfig]) |->
     Routing(ConfigOf(history[DefaultConfig][i], i - 1))]

Configs == [status : Status, forwardingUri : {Null} \cup Uris, filterRequests : BOOLEAN]

(***************************************************************************)
(* A client's update publishes a configuration, or nothing.                *)
(***************************************************************************)
LEMMA WritePublishes ==
  ASSUME Safe, Write
  PROVE  Published' = Published \/ \E c \in Configs : Published' = Append(Published, c)
<1> DEFINE old == history[DefaultConfig]
           new == history'[DefaultConfig]
<1>1. PICK d \in Docs : \E state : Commit(d, state)
  BY DEF Write, WriteDocuments, CreateConfig, UpdateConfig, CreatePath, UpdatePath,
         DeleteDocument, Docs
<1>2. PICK state : Commit(d, state)
  BY <1>1
<1>3. history' = [history EXCEPT ![d] = Append(@, state)] /\ DOMAIN history = Docs
  BY <1>2 DEF Commit, Safe, TypeOK, DocumentsTypeOK
<1>4. DefaultConfig \in Docs
  BY TypesAssumption DEF Docs
<1>5. CASE d # DefaultConfig
  <2>1. new = old
    BY <1>3, <1>4, <1>5
  <2> QED BY <2>1 DEF Published
<1>6. CASE d = DefaultConfig
  <2>1. new = Append(old, state)
    BY <1>3, <1>4, <1>6
  <2>2. old \in Seq(ConfigState) /\ new \in Seq(ConfigState)
    BY WriteGrows, TypesAssumption DEF Safe, TypeOK, DocumentsTypeOK, Write
  <2>3. /\ Len(new) = Len(old) + 1
        /\ Len(old) \in Nat
        /\ \A i \in 1 .. Len(old) : new[i] = old[i]
        /\ new[Len(new)] \in ConfigState
    <3>1. Len(old) \in Nat /\ DOMAIN old = 1 .. Len(old)
      BY <2>2
    <3>2. state \in ConfigState
      <4>1. new[Len(old) + 1] = state /\ Len(new) = Len(old) + 1
        BY <2>1, <2>2
      <4> QED BY <2>2, <3>1, <4>1
    <3> QED BY <2>1, <2>2, <3>1, <3>2
  <2> DEFINE f(s, i) == Routing(ConfigOf(s[i], i - 1))
             c == f(new, Len(new))
  <2>4. /\ Published = [i \in 1 .. Len(old) |-> f(old, i)]
        /\ Published' = [i \in 1 .. Len(new) |-> f(new, i)]
    BY DEF Published
  <2>5. \A doc \in ConfigState, v \in Int : Routing(ConfigOf(doc, v)) \in Configs
    BY ConfigOfType DEF Routing, Configs, CachedConfig
  <2>6. /\ \A i \in 1 .. Len(old) : f(old, i) \in Configs /\ f(new, i) = f(old, i)
        /\ c \in Configs
    BY <2>2, <2>3, <2>5
  <2> HIDE DEF f
  <2>7. Published \in Seq(Configs) /\ Len(Published) = Len(old)
    BY <2>3, <2>4, <2>6, SeqDef
  <2>8. Published' \in Seq(Configs) /\ Len(Published') = Len(new)
    <3>1. \A i \in 1 .. Len(new) : f(new, i) \in Configs
      BY <2>3, <2>6
    <3> QED BY <2>3, <2>4, <3>1, SeqDef
  <2>9. Published' = Append(Published, c)
    <3>1. /\ Append(Published, c) \in Seq(Configs)
          /\ Len(Append(Published, c)) = Len(old) + 1
          /\ \A i \in 1 .. Len(old) : Append(Published, c)[i] = f(old, i)
          /\ Append(Published, c)[Len(old) + 1] = c
      BY <2>3, <2>4, <2>6, <2>7, AppendProperties
    <3>2. \A i \in 1 .. Len(new) : Published'[i] = Append(Published, c)[i]
      BY <2>3, <2>4, <2>6, <3>1
    <3> QED BY <2>3, <2>8, <3>1, <3>2, SeqEqual
  <2> QED BY <2>6, <2>9
<1> QED BY <1>5, <1>6

At == [n \in Nodes |-> cache[n].config.version + 1]
Views == [n \in Nodes |-> Routing(cache[n].config)]

(***************************************************************************)
(* A step that changes at most the configuration n holds.                  *)
(***************************************************************************)
LEMMA ViewChange ==
  ASSUME NEW n \in Nodes, \A m \in Nodes : m # n => cache'[m].config = cache[m].config
  PROVE  /\ At' = [At EXCEPT ![n] = cache'[n].config.version + 1]
         /\ Views' = [Views EXCEPT ![n] = Routing(cache'[n].config)]
BY DEF At, Views

(***************************************************************************)
(* Every step of a gateway is a step of RoutingView, or none.              *)
(***************************************************************************)
LEMMA StepImplements ==
  Safe /\ [Next]_vars => \/ UNCHANGED <<Published, At, Views>>
                         \/ View!Next
<1> SUFFICES ASSUME Safe, [Next]_vars,
                    ~ UNCHANGED <<Published, At, Views>>
             PROVE  View!Next
  OBVIOUS
<1> USE DEF View!Next
<1>1. CASE Write
  <2>1. UNCHANGED <<At, Views>>
    BY <1>1 DEF Write, nodeVars, At, Views
  <2>2. \E c \in Configs : Published' = Append(Published, c)
    BY <1>1, <2>1, WritePublishes
  <2> QED BY <2>1, <2>2 DEF View!Publish, Published, At, Views, Configs
<1>2. ASSUME NEW n \in Nodes, NodeStep(n) PROVE View!Next
  <2>1. UNCHANGED Published
    BY <1>2 DEF NodeStep, Starting, StartGateway, QueryTaskCreated, Subscribe,
                SubscriptionCompleted, StartFailed, HandleNotification, Stop, Replicate,
                Published
  <2>2. CASE StartGateway(n) \/ Stop(n)
    <3>1. cache'[n].config = SeedConfig /\ \A m \in Nodes : m # n => cache'[m] = cache[m]
      BY <2>2 DEF StartGateway, Stop, EmptyCache, Safe, TypeOK
    <3>2. At' = [At EXCEPT ![n] = 0] /\ Views' = [Views EXCEPT ![n] = Routing(SeedConfig)]
      <4>1. SeedConfig.version + 1 = 0
        BY DEF SeedConfig
      <4> QED BY <3>1, <4>1, ViewChange
    <3>3. View!Reset(n)
      BY <2>1, <3>2 DEF View!Reset, Published, At, Views
    <3> QED BY <3>3
  <2>3. CASE HandleNotification(n)
    <3>1. PICK d \in Docs : \E v \in 0 .. local[n][d] : Handles(n, d, v)
      BY <2>3 DEF HandleNotification, Handles
    <3>2. PICK v \in 0 .. local[n][d] : Handles(n, d, v)
      BY <3>1
    <3>3. \A m \in Nodes : m # n => cache'[m].config = cache[m].config
      BY <3>2, HandlesConfig, HandlesPath DEF Docs
    <3>4. cache'[n].config # cache[n].config
      BY <2>1, <3>3 DEF At, Views
    <3>5. /\ d = DefaultConfig
          /\ v > cache[n].config.version
          /\ cache'[n].config = ConfigOf(Content(d, v), v)
      <4>1. d \in ConfigLinks
        BY <3>2, <3>4, HandlesPath DEF Docs
      <4> QED BY <3>2, <3>4, <4>1, HandlesConfig DEF HandleConfigUpdate
    <3>6. /\ local[n][d] \in Int
          /\ v \in 0 .. LastVersion(d)
          /\ v \in Nat
          /\ LastVersion(d) = Len(history[d]) - 1
          /\ Len(history[d]) \in Nat
      BY <3>5, TypesAssumption
         DEF Safe, TypeOK, DocumentsTypeOK, ReplicasFollow, LastVersion, Docs
    <3>7. cache'[n].config.version = v
      <4>1. Content(d, v) \in ConfigState
        BY <3>5, <3>6, ContentType, TypesAssumption DEF Safe, TypeOK
      <4> QED BY <3>5, <3>6, <4>1, ConfigOfType
    <3>8. cache[n].config.version \in Int
      BY DEF Safe, TypeOK, CachedState, CachedConfig
    <3>9. v + 1 \in At[n] + 1 .. Len(Published)
      <4>1. Len(Published) = Len(history[d])
        BY <3>5, <3>6 DEF Published
      <4> QED BY <3>5, <3>6, <3>8, <4>1 DEF At
    <3>10. Published[v + 1] = Routing(cache'[n].config)
      BY <3>5, <3>6 DEF Published, Content
    <3>11. /\ At' = [At EXCEPT ![n] = v + 1]
           /\ Views' = [Views EXCEPT ![n] = Published[v + 1]]
      BY <3>3, <3>7, <3>10, ViewChange
    <3>12. View!Advance(n)
      BY <2>1, <3>9, <3>11 DEF View!Advance, Published, At, Views
    <3> QED BY <3>12
  <2>4. ASSUME \/ QueryTaskCreated(n) \/ Subscribe(n) \/ SubscriptionCompleted(n)
               \/ StartFailed(n) \/ \E d \in Docs : Replicate(n, d)
        PROVE  FALSE
    BY <2>1, <2>4 DEF QueryTaskCreated, Subscribe, SubscriptionCompleted, StartFailed,
                      Replicate, At, Views
  <2> QED BY <1>2, <2>2, <2>3, <2>4 DEF NodeStep, Starting
<1>3. CASE UNCHANGED vars
  BY <1>3 DEF vars, Published, At, Views
<1> QED BY <1>1, <1>2, <1>3 DEF Next

(***************************************************************************)
(* To a client of its cache, a gateway is a RoutingView: each node looks   *)
(* at one published configuration and, until it stops, only moves to later *)
(* ones.                                                                   *)
(***************************************************************************)
THEOREM GatewayImplementsRoutingView == Spec => ImplementsRoutingView
<1>1. Init => View!Init
  <2> SUFFICES ASSUME Init PROVE View!Init
    OBVIOUS
  <2>1. history[DefaultConfig] = << >>
    BY TypesAssumption DEF Init, DocumentsInit, Docs
  <2>2. Published = << >>
    BY <2>1 DEF Published
  <2>3. At = [n \in Nodes |-> 0] /\ Views = [n \in Nodes |-> Routing(SeedConfig)]
    BY DEF Init, At, Views, EmptyCache, SeedConfig
  <2> QED BY <2>2, <2>3 DEF View!Init, Published, At, Views
<1>2. Safe /\ [Next]_vars => [View!Next]_(View!vars)
  BY StepImplements DEF View!vars, Published, At, Views
<1> QED BY <1>1, <1>2, SafeAlways, PTL DEF Spec, View!Spec, ImplementsRoutingView

=============================================================================
