--------------------------- MODULE GatewayService ---------------------------
(***************************************************************************)
(* GatewayService.handleRequest: what becomes of the requests a node of    *)
(* the gateway intercepts.                                                 *)
(*                                                                         *)
(* Requests are handled concurrently with each other and with the          *)
(* notifications that change the cache.  handleRequest looks at the cache  *)
(* up to six times, and each look is a synchronized block of its own: here *)
(* a step is one look and what the handler does until the next one.        *)
(***************************************************************************)
EXTENDS GatewayCache

CONSTANTS
  Requests,
  SelfLink,     \* the path of the GatewayService itself
  Operations,   \* what requests may ask for
  ParentPath,   \* UriUtils.getParentPath, Null for a path without a parent
  Responses,    \* the status codes a backend answers with
  ConfigStates, PathStates,  \* versions of documents the cache is told of
  MaxUpdates    \* bound: how often the cache is told of one

(***************************************************************************)
(* "noIndexUpdate" is PRAGMA_DIRECTIVE_NO_INDEX_UPDATE, with which a host  *)
(* stops its services.                                                     *)
(***************************************************************************)
Operation == [path : Paths \cup {SelfLink}, action : Actions, noIndexUpdate : BOOLEAN]

ASSUME ServiceAssumption ==
  /\ {SelfLink, Null} \cap Paths = {}
  /\ Operations \subseteq Operation
  /\ ParentPath \in [Paths -> Paths \cup {Null}]
  /\ Responses \subseteq Nat
  /\ ConfigStates \subseteq ConfigState
  /\ PathStates \subseteq PathState
  /\ MaxUpdates \in Nat

VARIABLES
  cache,    \* the GatewayCache of the node
  updates,  \* how often it was told of a version
  op,       \* op[r]: what r asks for, which never changes
  at,       \* at[r]: the line of handleRequest that r has come to
  status,   \* status[r]: the code r was answered with, Null before
  target,   \* target[r]: the backend r was forwarded to, Null before
  seen      \* history: the states of the cache while r was being decided

vars == <<cache, updates, op, at, status, target, seen>>

Places == {"sent", "checkStatus", "checkFilter", "checkPath", "checkParent",
           "checkPaused", "chooseNode", "forwarded", "answered"}

(***************************************************************************)
(* Type invariant.                                                         *)
(***************************************************************************)
TypeOK ==
  /\ cache \in CachedState
  /\ updates \in 0 .. MaxUpdates
  /\ op \in [Requests -> Operations]
  /\ at \in [Requests -> Places]
  /\ status \in [Requests -> {Null, 200, 404, 405, 503} \cup Responses]
  /\ target \in [Requests -> {Null} \cup Uris]
  /\ seen \in [Requests -> SUBSET CachedState]

Init ==
  /\ cache = EmptyCache
  /\ updates = 0
  /\ op \in [Requests -> Operations]
  /\ at = [r \in Requests |-> "sent"]
  /\ status = [r \in Requests |-> Null]
  /\ target = [r \in Requests |-> Null]
  /\ seen = [r \in Requests |-> {}]

-----------------------------------------------------------------------------
(* The cache changes under the requests *)

Deciding(r) == at[r] \notin {"sent", "forwarded", "answered"}

Tell(newCache) ==
  /\ updates < MaxUpdates
  /\ updates' = updates + 1
  /\ cache' = newCache
  /\ seen' = [r \in Requests |-> IF Deciding(r) THEN seen[r] \cup {newCache} ELSE seen[r]]
  /\ UNCHANGED <<op, at, status, target>>

(***************************************************************************)
(* A notification; each carries a newer version than those before.         *)
(***************************************************************************)
ConfigNotified ==
  \E doc \in ConfigStates :
    Tell([cache EXCEPT !.config = HandleConfigUpdate(@, DefaultConfig, doc, updates)])

PathNotified ==
  \E p \in Paths, doc \in PathStates :
    Tell([cache EXCEPT !.paths[p] = HandlePathUpdate(@, doc, updates)])

-----------------------------------------------------------------------------
(* GatewayCache's getters *)

GetGatewayStatus == cache.config.status
FilterRequests == cache.config.filterRequests
GetForwardingUri == cache.config.forwardingUri
GetSupportedActions(path) == IF path = Null THEN Null ELSE cache.paths[path].actions

-----------------------------------------------------------------------------
(* handleRequest *)

GoTo(r, place) ==
  /\ at' = [at EXCEPT ![r] = place]
  /\ UNCHANGED <<cache, updates, op, status, target, seen>>

Answer(r, code) ==
  /\ at' = [at EXCEPT ![r] = "answered"]
  /\ status' = [status EXCEPT ![r] = code]
  /\ UNCHANGED <<cache, updates, op, target, seen>>

(***************************************************************************)
(* A request for another path is intercepted.                              *)
(***************************************************************************)
HandleRequest(r) ==
  /\ at[r] = "sent"
  /\ op[r].path # SelfLink
  /\ at' = [at EXCEPT ![r] = "checkStatus"]
  /\ seen' = [seen EXCEPT ![r] = {cache}]
  /\ UNCHANGED <<cache, updates, op, status, target>>

CheckStatus(r) ==
  /\ at[r] = "checkStatus"
  /\ IF GetGatewayStatus = "UNAVAILABLE"
     THEN Answer(r, 503)
     ELSE GoTo(r, "checkFilter")

(***************************************************************************)
(* Mutant: every request is filtered, whatever the configuration says.     *)
(***************************************************************************)
AlwaysFilter(r) ==
  /\ at[r] = "checkFilter"
  /\ GoTo(r, "checkPath")

CheckFilter(r) ==
  /\ at[r] = "checkFilter"
  /\ GoTo(r, IF FilterRequests THEN "checkPath" ELSE "checkPaused")

(***************************************************************************)
(* Mutant: a listed path allows every action.                              *)
(***************************************************************************)
AllowAction(r, actions) == GoTo(r, "checkPaused")

(***************************************************************************)
(* The requested action against the actions found, which are not Null.     *)
(***************************************************************************)
CheckAction(r, actions) ==
  IF op[r].action \in actions THEN GoTo(r, "checkPaused") ELSE Answer(r, 405)

(***************************************************************************)
(* Mutant: the parent of the path is not looked up.                        *)
(***************************************************************************)
CheckPathOnly(r) ==
  LET actions == GetSupportedActions(op[r].path) IN
  /\ at[r] = "checkPath"
  /\ IF actions = Null THEN Answer(r, 404) ELSE CheckAction(r, actions)

CheckPath(r) ==
  LET actions == GetSupportedActions(op[r].path) IN
  /\ at[r] = "checkPath"
  /\ IF actions = Null THEN GoTo(r, "checkParent") ELSE CheckAction(r, actions)

CheckParent(r) ==
  LET actions == GetSupportedActions(ParentPath[op[r].path]) IN
  /\ at[r] = "checkParent"
  /\ IF actions = Null THEN Answer(r, 404) ELSE CheckAction(r, actions)

(***************************************************************************)
(* Mutant: a request stays queued for as long as the gateway is PAUSED.    *)
(***************************************************************************)
QueueWhilePaused(r) ==
  /\ at[r] = "checkPaused"
  /\ GetGatewayStatus # "PAUSED"
  /\ GoTo(r, "chooseNode")

CheckPaused(r) ==
  /\ at[r] = "checkPaused"
  /\ IF GetGatewayStatus = "PAUSED"
     THEN Answer(r, 503)
     ELSE GoTo(r, "chooseNode")

Forward(r) ==
  /\ at[r] = "chooseNode"
  /\ IF GetForwardingUri = Null
     THEN Answer(r, 503)
     ELSE /\ at' = [at EXCEPT ![r] = "forwarded"]
          /\ target' = [target EXCEPT ![r] = GetForwardingUri]
          /\ UNCHANGED <<cache, updates, op, status, seen>>

(***************************************************************************)
(* The completion of the outbound operation, successful or not, answers    *)
(* with the status it came back with.                                      *)
(***************************************************************************)
BackendAnswered(r) ==
  /\ at[r] = "forwarded"
  /\ \E code \in Responses : Answer(r, code)

-----------------------------------------------------------------------------
(* Requests for the GatewayService itself *)

HandleGet(r) ==
  /\ at[r] = "sent"
  /\ op[r].path = SelfLink
  /\ op[r].action = "GET"
  /\ Answer(r, 200)

HandleDelete(r) ==
  /\ at[r] = "sent"
  /\ op[r].path = SelfLink
  /\ op[r].action = "DELETE"
  /\ Answer(r, IF op[r].noIndexUpdate THEN 200 ELSE 405)

-----------------------------------------------------------------------------
Handle(r) ==
  \/ HandleRequest(r)
  \/ CheckStatus(r)
  \/ CheckFilter(r)
  \/ CheckPath(r)
  \/ CheckParent(r)
  \/ CheckPaused(r)
  \/ Forward(r)
  \/ BackendAnswered(r)
  \/ HandleGet(r)
  \/ HandleDelete(r)

Next ==
  \/ ConfigNotified
  \/ PathNotified
  \/ \E r \in Requests : Handle(r)

(***************************************************************************)
(* The host runs every handler it has scheduled, and completes every       *)
(* operation it has sent, if only because it expires.                      *)
(***************************************************************************)
Fairness == \A r \in Requests : WF_vars(Handle(r))

Spec == Init /\ [][Next]_vars /\ Fairness

-----------------------------------------------------------------------------
(* Properties *)

Decided(r) == op[r].path # SelfLink /\ at[r] \in {"forwarded", "answered"}

(***************************************************************************)
(* The actions a state of the cache allows on a path: its own, or else     *)
(* those of its parent.                                                    *)
(***************************************************************************)
ActionsOn(c, path) ==
  IF c.paths[path] # NoEntry THEN c.paths[path].actions
  ELSE IF ParentPath[path] # Null /\ c.paths[ParentPath[path]] # NoEntry
       THEN c.paths[ParentPath[path]].actions
       ELSE Null

(***************************************************************************)
(* What a request deserves in a given state of the cache: an answer, or    *)
(* to be forwarded.  An unavailable gateway says nothing about its paths,  *)
(* a paused one does.                                                      *)
(***************************************************************************)
Verdict(c, r) ==
  LET allowed == ActionsOn(c, op[r].path)
      answer(code) == [forward |-> Null, code |-> code]
  IN  CASE c.config.status = "UNAVAILABLE" -> answer(503)
        [] c.config.status # "UNAVAILABLE" /\ c.config.filterRequests /\ allowed = Null
             -> answer(404)
        [] /\ c.config.status # "UNAVAILABLE"
           /\ c.config.filterRequests
           /\ allowed # Null
           /\ op[r].action \notin allowed
             -> answer(405)
        [] OTHER -> IF c.config.status = "PAUSED" \/ c.config.forwardingUri = Null
                    THEN answer(503)
                    ELSE [forward |-> c.config.forwardingUri, code |-> Null]

(***************************************************************************)
(* A request during which the cache stands still gets what it deserves.    *)
(***************************************************************************)
SteadyRequestsGetTheirVerdict ==
  \A r \in Requests : \A c \in seen[r] :
    (Decided(r) /\ seen[r] = {c}) =>
      /\ target[r] = Verdict(c, r).forward
      /\ target[r] = Null => status[r] = Verdict(c, r).code

(***************************************************************************)
(* A request during which the cache changes is still only forwarded on     *)
(* grounds that held while it was decided: at some moment the gateway was  *)
(* not unavailable, at some moment not paused, at some moment the request  *)
(* was not filtered or its path or the parent of that allowed it, and at   *)
(* some moment the configuration named the backend it went to.             *)
(***************************************************************************)
ForwardedOnGrounds ==
  \A r \in Requests :
    (Decided(r) /\ target[r] # Null) =>
      /\ \E c \in seen[r] : c.config.status # "UNAVAILABLE"
      /\ \E c \in seen[r] : c.config.status # "PAUSED"
      /\ \E c \in seen[r] :
           \/ ~ c.config.filterRequests
           \/ \E p \in Paths \cap {op[r].path, ParentPath[op[r].path]} :
                c.paths[p] # NoEntry /\ op[r].action \in c.paths[p].actions
      /\ \E c \in seen[r] : c.config.forwardingUri = target[r]

(***************************************************************************)
(* A request is refused only on grounds that held, too: as unknown only if *)
(* at some moment its path was not listed and at some moment the parent    *)
(* was not, as not allowed only if at some moment one of them was listed   *)
(* without its action, the gateway filtering and not unavailable; and as   *)
(* unavailable only if at some moment it was not available or named no     *)
(* backend.                                                                *)
(***************************************************************************)
RefusedOnGrounds ==
  \A r \in Requests :
    (Decided(r) /\ target[r] = Null) =>
      /\ status[r] = 503 =>
           \E c \in seen[r] :
             c.config.status # "AVAILABLE" \/ c.config.forwardingUri = Null
      /\ status[r] # 503 =>
           /\ \E c \in seen[r] : c.config.status # "UNAVAILABLE"
           /\ \E c \in seen[r] : c.config.filterRequests
      /\ status[r] = 404 =>
           \A p \in Paths \cap {op[r].path, ParentPath[op[r].path]} :
             \E c \in seen[r] : c.paths[p] = NoEntry
      /\ status[r] = 405 =>
           \E p \in Paths \cap {op[r].path, ParentPath[op[r].path]}, c \in seen[r] :
             c.paths[p] # NoEntry /\ op[r].action \notin c.paths[p].actions

(***************************************************************************)
(* A request is forwarded only if the gateway was AVAILABLE at some moment *)
(* while it was decided: an UNAVAILABLE gateway is "not ready to serve     *)
(* requests" and a PAUSED one queues or discards them (GatewayStatus).     *)
(***************************************************************************)
ForwardedByAvailableGateway ==
  \A r \in Requests :
    (Decided(r) /\ target[r] # Null) =>
      \E c \in seen[r] : c.config.status = "AVAILABLE"

(***************************************************************************)
(* Every request is answered, whatever the cache does meanwhile.           *)
(***************************************************************************)
EveryRequestAnswered == \A r \in Requests : <>(at[r] = "answered")

=============================================================================
