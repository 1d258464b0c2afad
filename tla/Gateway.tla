------------------------------ MODULE Gateway ------------------------------
(***************************************************************************)
(* How configuration reaches the nodes of a gateway.                       *)
(*                                                                         *)
(* Every node has a GatewayConfigHost, which holds a replica of the        *)
(* documents, and a GatewayDispatchHost, whose GatewayService routes by a  *)
(* GatewayCache.  The cache is filled by a continuous query on the node's  *)
(* own replica: each version the replica takes in is one notification, and *)
(* subscribing replays the documents that exist.  Notifications travel and *)
(* are handled independently, so they arrive in any order, or never.       *)
(*                                                                         *)
(* Replication, the continuous query and the subscription belong to the    *)
(* Xenon framework, which is not in this repository; they are modelled     *)
(* from the way GatewayCache uses them.                                    *)
(***************************************************************************)
EXTENDS GatewayDocuments, GatewayCache

CONSTANTS
  Nodes,
  MaxRestarts   \* bound: how often each node is stopped

ASSUME GatewayAssumption == MaxRestarts \in Nat

VARIABLES
  local,     \* local[n][d]: the version of d in the replica of n, -1 for none
  phase,     \* phase[n]: how far GatewayService.handleStart of n has come
  cache,     \* cache[n]: the GatewayCache of n
  pending,   \* pending[n]: <<d, version>> of each notification under way to n
  restarts   \* restarts[n]: how often n was stopped

vars == <<history, local, phase, cache, pending, restarts>>

(***************************************************************************)
(* While a node is "stopped" its config host may be running: it starts     *)
(* first, and its replica may take in versions before the cache exists.    *)
(***************************************************************************)
Phases == {"stopped", "creatingTask", "subscribing", "subscribed",
           "available", "failed"}

(***************************************************************************)
(* Type invariant.                                                         *)
(***************************************************************************)
TypeOK ==
  /\ DocumentsTypeOK
  /\ local \in [Nodes -> [Docs -> Int]]
  /\ phase \in [Nodes -> Phases]
  /\ cache \in [Nodes -> CachedState]
  /\ pending \in [Nodes -> SUBSET (Docs \X Nat)]
  /\ restarts \in [Nodes -> 0 .. MaxRestarts]

Init ==
  /\ DocumentsInit
  /\ local = [n \in Nodes |-> [d \in Docs |-> -1]]
  /\ phase = [n \in Nodes |-> "stopped"]
  /\ cache = [n \in Nodes |-> EmptyCache]
  /\ pending = [n \in Nodes |-> {}]
  /\ restarts = [n \in Nodes |-> 0]

nodeVars == <<local, phase, cache, pending, restarts>>

(***************************************************************************)
(* The owner of a document commits a client's update.                      *)
(***************************************************************************)
Write == WriteDocuments /\ UNCHANGED nodeVars

(***************************************************************************)
(* Is the subscription of n registered with its query task?                *)
(***************************************************************************)
Subscribed(n) == phase[n] \in {"subscribed", "available"}

(***************************************************************************)
(* The replica of n moves to a newer version of d, by replication or by    *)
(* synchronization, which skips the versions in between.  The continuous   *)
(* query tells the subscriber.                                             *)
(***************************************************************************)
Replicate(n, d) ==
  \E v \in local[n][d] + 1 .. LastVersion(d) :
    /\ local' = [local EXCEPT ![n][d] = v]
    /\ pending' = IF Subscribed(n)
                  THEN [pending EXCEPT ![n] = @ \cup {<<d, v>>}]
                  ELSE pending
    /\ UNCHANGED <<history, phase, cache, restarts>>

(***************************************************************************)
(* GatewayService.handleStart: a new cache, whose start posts the          *)
(* continuous query task.                                                  *)
(***************************************************************************)
StartGateway(n) ==
  /\ phase[n] = "stopped"
  /\ cache' = [cache EXCEPT ![n] = EmptyCache]
  /\ phase' = [phase EXCEPT ![n] = "creatingTask"]
  /\ UNCHANGED <<history, local, pending, restarts>>

(***************************************************************************)
(* The query task exists; createSubscription posts the subscription.       *)
(***************************************************************************)
QueryTaskCreated(n) ==
  /\ phase[n] = "creatingTask"
  /\ phase' = [phase EXCEPT ![n] = "subscribing"]
  /\ UNCHANGED <<history, local, cache, pending, restarts>>

(***************************************************************************)
(* Mutant: the subscription does not ask for the state to be replayed.     *)
(***************************************************************************)
NotReplayed(n) == {}

(***************************************************************************)
(* The documents of the replica of n that exist, as the query finds them.  *)
(***************************************************************************)
Replayed(n) ==
  {<<d, local[n][d]>> : d \in {e \in Docs : /\ local[n][e] >= 0
                                            /\ ~ Content(e, local[n][e]).deleted}}

(***************************************************************************)
(* The task takes the subscription and replays its state to it.            *)
(***************************************************************************)
Subscribe(n) ==
  /\ phase[n] = "subscribing"
  /\ phase' = [phase EXCEPT ![n] = "subscribed"]
  /\ pending' = [pending EXCEPT ![n] = @ \cup Replayed(n)]
  /\ UNCHANGED <<history, local, cache, restarts>>

(***************************************************************************)
(* The subscription's completion completes the start of the service, which *)
(* does not wait for what was replayed.                                    *)
(***************************************************************************)
SubscriptionCompleted(n) ==
  /\ phase[n] = "subscribed"
  /\ phase' = [phase EXCEPT ![n] = "available"]
  /\ UNCHANGED <<history, local, cache, pending, restarts>>

(***************************************************************************)
(* The task or the subscription is refused, or its answer is lost: the     *)
(* start of the service fails, nothing retries it, and no request is       *)
(* routed by its cache.                                                    *)
(***************************************************************************)
StartFailed(n) ==
  /\ phase[n] \in {"creatingTask", "subscribing", "subscribed"}
  /\ phase' = [phase EXCEPT ![n] = "failed"]
  /\ UNCHANGED <<history, local, cache, pending, restarts>>

(***************************************************************************)
(* handleConfigUpdates: one document of a notification is applied.         *)
(***************************************************************************)
HandleNotification(n) ==
  \E d \in Docs : \E v \in 0 .. local[n][d] :
    /\ <<d, v>> \in pending[n]
    /\ pending' = [pending EXCEPT ![n] = @ \ {<<d, v>>}]
    /\ cache' =
         IF d \in ConfigLinks
         THEN [cache EXCEPT ![n].config =
                 HandleConfigUpdate(@, d, Content(d, v), v)]
         ELSE [cache EXCEPT ![n].paths[d] =
                 HandlePathUpdate(@, Content(d, v), v)]
    /\ UNCHANGED <<history, local, phase, restarts>>

(***************************************************************************)
(* The node stops or crashes.  The cache is only in memory and the         *)
(* subscription goes with it; the replica is on disk.                      *)
(***************************************************************************)
Stop(n) ==
  /\ phase[n] # "stopped"
  /\ restarts[n] < MaxRestarts
  /\ restarts' = [restarts EXCEPT ![n] = @ + 1]
  /\ phase' = [phase EXCEPT ![n] = "stopped"]
  /\ cache' = [cache EXCEPT ![n] = EmptyCache]
  /\ pending' = [pending EXCEPT ![n] = {}]
  /\ UNCHANGED <<history, local>>

Starting(n) ==
  StartGateway(n) \/ QueryTaskCreated(n) \/ Subscribe(n) \/ SubscriptionCompleted(n)

NodeStep(n) ==
  \/ Starting(n)
  \/ StartFailed(n)
  \/ HandleNotification(n)
  \/ Stop(n)
  \/ \E d \in Docs : Replicate(n, d)

Next == Write \/ \E n \in Nodes : NodeStep(n)

Spec == Init /\ [][Next]_vars

(***************************************************************************)
(* The framework eventually replicates every document, answers every       *)
(* request of the gateway and runs every handler it has scheduled.         *)
(***************************************************************************)
Fairness ==
  \A n \in Nodes :
    /\ \A d \in Docs : WF_vars(Replicate(n, d))
    /\ WF_vars(Starting(n))
    /\ WF_vars(HandleNotification(n))

FairSpec == Spec /\ Fairness

-----------------------------------------------------------------------------
(* Properties *)

(***************************************************************************)
(* The cached configuration is, field by field, what the cache makes of    *)
(* the one version of the default document whose number it carries: never  *)
(* a mixture of two versions, of another document, or of what was there    *)
(* before a deletion.                                                      *)
(***************************************************************************)
CachedConfigIsOneVersion ==
  \A n \in Nodes :
    LET config == cache[n].config IN
      \/ config = SeedConfig
      \/ /\ config.version \in 0 .. local[n][DefaultConfig]
         /\ config = ConfigOf(Content(DefaultConfig, config.version), config.version)

(***************************************************************************)
(* A white-listed path carries the actions of the version of its document  *)
(* that its entry names, and that version is not a deletion.               *)
(***************************************************************************)
CachedPathsAreVersions ==
  \A n \in Nodes, p \in Paths :
    LET entry == cache[n].paths[p] IN
      entry # NoEntry => /\ entry.version \in 0 .. local[n][p]
                         /\ entry = EntryOf(Content(p, entry.version), entry.version)
                         /\ ~ Content(p, entry.version).deleted

(***************************************************************************)
(* The configuration a node ought to route by, given its replica.          *)
(***************************************************************************)
RouteConfig(n) ==
  LET v == local[n][DefaultConfig]
  IN  IF v = -1 THEN SeedConfig ELSE ConfigOf(Content(DefaultConfig, v), v)

(***************************************************************************)
(* What a request sees of a configuration: all but the version.            *)
(***************************************************************************)
Routing(config) == [status |-> config.status,
                    forwardingUri |-> config.forwardingUri,
                    filterRequests |-> config.filterRequests]

(***************************************************************************)
(* Has n handled everything it was, and will be, told of d so far?         *)
(***************************************************************************)
Told(n, d) == Subscribed(n) /\ \A v \in 0 .. local[n][d] : <<d, v>> \notin pending[n]

(***************************************************************************)
(* Whatever the order in which notifications were handled, and whenever    *)
(* the subscription was made: a node with no notification of it under way  *)
(* routes by the newest configuration its replica has.                     *)
(***************************************************************************)
ConfigConverges ==
  \A n \in Nodes :
    Told(n, DefaultConfig) => Routing(cache[n].config) = Routing(RouteConfig(n))

(***************************************************************************)
(* Likewise every path whose document exists is white-listed with the      *)
(* actions of its newest version.                                          *)
(***************************************************************************)
LivePathsConverge ==
  \A n \in Nodes, p \in Paths :
    LET v == local[n][p] IN
      (Told(n, p) /\ v >= 0 /\ ~ Content(p, v).deleted) =>
        cache[n].paths[p] = EntryOf(Content(p, v), v)

(***************************************************************************)
(* And a path whose document was deleted is not white-listed: the list is  *)
(* exactly the paths whose documents exist.  verifyGatewayState of         *)
(* TestGatewayManager waits for it (cache.paths.size() !=                  *)
(* this.paths.size()).                                                     *)
(***************************************************************************)
DeletedPathsConverge ==
  \A n \in Nodes, p \in Paths :
    LET v == local[n][p] IN
      (Told(n, p) /\ v >= 0 /\ Content(p, v).deleted) => cache[n].paths[p] = NoEntry

(***************************************************************************)
(* Why the two above hold.  A replica never runs ahead of the documents;   *)
(* nothing reaches the cache of a node before it subscribes; and from then *)
(* on the newest version a replica has of a document is in the cache, or   *)
(* on its way there, or is a deletion of what the node never heard of.     *)
(***************************************************************************)
ReplicasFollow ==
  \A n \in Nodes, d \in Docs : local[n][d] \in -1 .. LastVersion(d)

StartsEmpty ==
  \A n \in Nodes :
    phase[n] \in {"stopped", "creatingTask", "subscribing"} =>
      cache[n] = EmptyCache /\ pending[n] = {}

NewestConfigKnown ==
  \A n \in Nodes :
    LET v == local[n][DefaultConfig] IN
      (Subscribed(n) /\ v >= 0) =>
        \/ cache[n].config.version = v
        \/ <<DefaultConfig, v>> \in pending[n]
        \/ /\ Content(DefaultConfig, v).deleted
           /\ cache[n].config = SeedConfig
           /\ Told(n, DefaultConfig)

NewestPathsKnown ==
  \A n \in Nodes, p \in Paths :
    LET v == local[n][p] IN
      (Subscribed(n) /\ v >= 0 /\ ~ Content(p, v).deleted) =>
        \/ cache[n].paths[p].version = v
        \/ <<p, v>> \in pending[n]

KnownOrComing ==
  /\ ReplicasFollow
  /\ StartsEmpty
  /\ NewestConfigKnown
  /\ NewestPathsKnown

(***************************************************************************)
(* While a node runs, a white-listed path is never replaced by an older    *)
(* version of itself, and is taken off the list only for a deletion newer  *)
(* than its entry.                                                         *)
(***************************************************************************)
PathsForward ==
  \A n \in Nodes, p \in Paths :
    LET old == cache[n].paths[p]
        new == cache'[n].paths[p]
    IN  (phase'[n] # "stopped" /\ old # NoEntry /\ new # old) =>
          IF new # NoEntry
          THEN new.version > old.version
          ELSE \E v \in old.version + 1 .. local[n][p] : Content(p, v).deleted

PathsMoveForward == [][PathsForward]_vars

(***************************************************************************)
(* Once clients stop writing and nodes stop restarting, every node either  *)
(* failed to start or serves by the latest committed configuration.        *)
(***************************************************************************)
GatewayEventuallyCurrent ==
  \A n \in Nodes :
    <>[](\/ phase[n] = "failed"
         \/ /\ phase[n] = "available"
            /\ local[n][DefaultConfig] = LastVersion(DefaultConfig)
            /\ Routing(cache[n].config) = Routing(RouteConfig(n)))

(***************************************************************************)
(* A gateway implements RoutingView: the versions of the default document  *)
(* are what is published, and a node looks at the one its cache carries.   *)
(***************************************************************************)
View == INSTANCE RoutingView WITH
  Configs <- [status : Status,
              forwardingUri : {Null} \cup Uris,
              filterRequests : BOOLEAN],
  Seed <- Routing(SeedConfig),
  published <- [i \in 1 .. Len(history[DefaultConfig]) |->
                  Routing(ConfigOf(history[DefaultConfig][i], i - 1))],
  at <- [n \in Nodes |-> cache[n].config.version + 1],
  view <- [n \in Nodes |-> Routing(cache[n].config)]

ImplementsRoutingView == View!Spec

(***************************************************************************)
(* An update of the configuration that leaves filterRequests out leaves    *)
(* filtering switched off where it was: the property is                    *)
(* AUTO_MERGE_IF_NOT_NULL.                                                 *)
(***************************************************************************)
UpdateKeepsFilter ==
  [][ \A l \in ConfigLinks, sent \in ConfigBodies :
        (/\ UpdateConfig(l, sent)
         /\ sent.filterRequests = Absent
         /\ Current(l).filterRequests = FALSE) => Current(l)'.filterRequests = FALSE
    ]_vars

=============================================================================
