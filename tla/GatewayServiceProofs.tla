------------------------- MODULE GatewayServiceProofs -------------------------
(***************************************************************************)
(* What becomes of a request rests on what the cache showed while it was   *)
(* decided, for any requests, paths, documents and number of changes.      *)
(***************************************************************************)
EXTENDS GatewayService, GatewayCacheProofs, TLAPS

(***************************************************************************)
(* The grounds of a decision, each of them something that some state in a  *)
(* set S of states of the cache shows.                                     *)
(***************************************************************************)
NotUnavailable(S) == \E c \in S : c.config.status # "UNAVAILABLE"
NotPaused(S) == \E c \in S : c.config.status # "PAUSED"
Filtering(S) == \E c \in S : c.config.filterRequests
Unlisted(S, p) == \E c \in S : c.paths[p] = NoEntry
Allows(S, p, action) == \E c \in S : c.paths[p] # NoEntry /\ action \in c.paths[p].actions
Forbids(S, p, action) == \E c \in S : c.paths[p] # NoEntry /\ action \notin c.paths[p].actions

ParentAnd(S, o, Says(_, _, _)) ==
  /\ Unlisted(S, o.path)
  /\ ParentPath[o.path] # Null
  /\ Says(S, ParentPath[o.path], o.action)

Allowed(S, o) ==
  \/ \E c \in S : ~ c.config.filterRequests
  \/ Allows(S, o.path, o.action)
  \/ ParentAnd(S, o, Allows)

Forbidden(S, o) == Forbids(S, o.path, o.action) \/ ParentAnd(S, o, Forbids)

Unknown(S, o) ==
  Unlisted(S, o.path) /\ (ParentPath[o.path] # Null => Unlisted(S, ParentPath[o.path]))

Unready(S) ==
  \E c \in S : c.config.status = "PAUSED" \/ c.config.forwardingUri = Null

\* What a request that is forwarded to t, or refused with a code, rests on.
ForwardGrounds(S, o, t) ==
  /\ NotUnavailable(S) /\ NotPaused(S) /\ Allowed(S, o)
  /\ \E c \in S : c.config.forwardingUri = t

RefusalGrounds(S, o, code) ==
  \/ code = 503 /\ \E c \in S : c.config.status = "UNAVAILABLE"
  \/ code = 503 /\ NotUnavailable(S) /\ Allowed(S, o) /\ Unready(S)
  \/ code = 404 /\ NotUnavailable(S) /\ Filtering(S) /\ Unknown(S, o)
  \/ code = 405 /\ NotUnavailable(S) /\ Filtering(S) /\ Forbidden(S, o)

\* What is known on the way there.
WayGrounds(S, o, place) ==
  /\ place \notin {"checkStatus"} => NotUnavailable(S)
  /\ place \in {"checkPath", "checkParent"} => Filtering(S)
  /\ place = "checkParent" => Unlisted(S, o.path)
  /\ place \in {"checkPaused", "chooseNode"} => Allowed(S, o)
  /\ place = "chooseNode" => NotPaused(S)

Undecided == {"checkStatus", "checkFilter", "checkPath", "checkParent", "checkPaused",
              "chooseNode"}

ReqInv(r) ==
  /\ op[r].path = SelfLink => at[r] \in {"sent", "answered"}
  /\ at[r] \in Undecided => /\ cache \in seen[r]
                            /\ target[r] = Null
                            /\ WayGrounds(seen[r], op[r], at[r])
  /\ at[r] = "sent" => target[r] = Null
  /\ at[r] = "forwarded" => target[r] # Null
  /\ Decided(r) => IF target[r] # Null
                     THEN ForwardGrounds(seen[r], op[r], target[r])
                     ELSE RefusalGrounds(seen[r], op[r], status[r])

IInv == TypeOK /\ \A r \in Requests : ReqInv(r)

-----------------------------------------------------------------------------
(***************************************************************************)
(* Grounds stay when more is seen.                                         *)
(***************************************************************************)
LEMMA GroundsStay ==
  ASSUME NEW S, NEW T, S \subseteq T, NEW o
  PROVE  /\ \A t : ForwardGrounds(S, o, t) => ForwardGrounds(T, o, t)
         /\ \A code : RefusalGrounds(S, o, code) => RefusalGrounds(T, o, code)
         /\ \A place : WayGrounds(S, o, place) => WayGrounds(T, o, place)
<1>1. /\ NotUnavailable(S) => NotUnavailable(T)
      /\ NotPaused(S) => NotPaused(T)
      /\ Filtering(S) => Filtering(T)
      /\ Unready(S) => Unready(T)
      /\ \A p : Unlisted(S, p) => Unlisted(T, p)
      /\ \A p, a : Allows(S, p, a) => Allows(T, p, a)
      /\ \A p, a : Forbids(S, p, a) => Forbids(T, p, a)
  BY DEF NotUnavailable, NotPaused, Filtering, Unready, Unlisted, Allows, Forbids
<1>2. Allowed(S, o) => Allowed(T, o)
  BY <1>1 DEF Allowed, ParentAnd
<1>3. Forbidden(S, o) => Forbidden(T, o)
  BY <1>1 DEF Forbidden, ParentAnd
<1>4. Unknown(S, o) => Unknown(T, o)
  BY <1>1 DEF Unknown
<1>5. \A t : ForwardGrounds(S, o, t) => ForwardGrounds(T, o, t)
  BY <1>1, <1>2 DEF ForwardGrounds
<1>6. \A code : RefusalGrounds(S, o, code) => RefusalGrounds(T, o, code)
  BY <1>1, <1>2, <1>3, <1>4 DEF RefusalGrounds
<1>7. \A place : WayGrounds(S, o, place) => WayGrounds(T, o, place)
  BY <1>1, <1>2 DEF WayGrounds
<1> QED BY <1>5, <1>6, <1>7

-----------------------------------------------------------------------------
(***************************************************************************)
(* Before anything is sent or seen, the invariant holds.                   *)
(***************************************************************************)
LEMMA InitInv == Init => IInv
<1> SUFFICES ASSUME Init PROVE IInv
  OBVIOUS
<1>1. SeedConfig \in CachedConfig
  BY DEF SeedConfig, CachedConfig, Status
<1>2. EmptyCache \in CachedState
  BY <1>1 DEF EmptyCache, CachedState
<1>3. TypeOK
  BY <1>2, ServiceAssumption DEF Init, TypeOK, Places
<1>4. ASSUME NEW r \in Requests PROVE ReqInv(r)
  BY <1>4 DEF Init, ReqInv, Decided, Undecided
<1> QED BY <1>3, <1>4 DEF IInv

(***************************************************************************)
(* A change of the cache takes no ground away, and is seen by the requests *)
(* that are being decided.                                                 *)
(***************************************************************************)
LEMMA TellInv ==
  ASSUME IInv, NEW newCache \in CachedState, Tell(newCache)
  PROVE  IInv'
<1>1. TypeOK'
  BY ServiceAssumption DEF IInv, TypeOK, Tell
<1>2. ASSUME NEW r \in Requests PROVE ReqInv(r)'
  <2>1. /\ op'[r] = op[r] /\ at'[r] = at[r] /\ target'[r] = target[r]
        /\ status'[r] = status[r] /\ cache' = newCache
        /\ seen[r] \subseteq seen'[r]
        /\ at[r] \in Undecided => newCache \in seen'[r]
    BY <1>2 DEF Tell, Deciding, Undecided
  <2>2. ReqInv(r)
    BY <1>2 DEF IInv
  <2>3. /\ \A t : ForwardGrounds(seen[r], op[r], t) => ForwardGrounds(seen'[r], op[r], t)
        /\ \A code : RefusalGrounds(seen[r], op[r], code)
                       => RefusalGrounds(seen'[r], op[r], code)
        /\ \A place : WayGrounds(seen[r], op[r], place) => WayGrounds(seen'[r], op[r], place)
    BY <2>1, GroundsStay
  <2>4. Decided(r)' <=> Decided(r)
    BY <2>1 DEF Decided
  <2> QED BY <2>1, <2>2, <2>3, <2>4 DEF ReqInv
<1> QED BY <1>1, <1>2 DEF IInv

(***************************************************************************)
(* A step of one request leaves the others alone.                          *)
(***************************************************************************)
LEMMA OthersInv ==
  ASSUME IInv, NEW r \in Requests, NEW q \in Requests, q # r,
         cache' = cache, op' = op,
         at'[q] = at[q], status'[q] = status[q], target'[q] = target[q], seen'[q] = seen[q]
  PROVE  ReqInv(q)'
BY DEF IInv, ReqInv, Decided

(***************************************************************************)
(* handleRequest goes on, on the grounds of the place it comes to.         *)
(***************************************************************************)
LEMMA GoToInv ==
  ASSUME IInv, NEW r \in Requests, NEW place \in Undecided, at[r] \in Undecided,
         GoTo(r, place), WayGrounds(seen[r], op[r], place)
  PROVE  IInv'
<1>1. TypeOK'
  BY DEF IInv, TypeOK, GoTo, Undecided, Places
<1>2. at'[r] = place
  BY DEF IInv, TypeOK, GoTo
<1>3. ReqInv(r)'
  BY <1>2 DEF IInv, ReqInv, GoTo, Decided, Undecided
<1>4. ASSUME NEW q \in Requests, q # r PROVE ReqInv(q)'
  BY <1>4, OthersInv DEF IInv, TypeOK, GoTo
<1> QED BY <1>1, <1>3, <1>4 DEF IInv

(***************************************************************************)
(* handleRequest refuses a request, on the grounds of the code.            *)
(***************************************************************************)
LEMMA RefuseInv ==
  ASSUME IInv, NEW r \in Requests, NEW code \in {404, 405, 503}, at[r] \in Undecided,
         Answer(r, code), RefusalGrounds(seen[r], op[r], code)
  PROVE  IInv'
<1>1. TypeOK'
  BY DEF IInv, TypeOK, Answer, Places
<1>2. at'[r] = "answered" /\ status'[r] = code
  BY DEF IInv, TypeOK, Answer
<1>3. ReqInv(r)'
  BY <1>2 DEF IInv, ReqInv, Answer, Decided, Undecided
<1>4. ASSUME NEW q \in Requests, q # r PROVE ReqInv(q)'
  BY <1>4, OthersInv DEF IInv, TypeOK, Answer
<1> QED BY <1>1, <1>3, <1>4 DEF IInv

(***************************************************************************)
(* What a request that is being decided sees of the cache.                 *)
(***************************************************************************)
LEMMA Looks ==
  ASSUME IInv, NEW r \in Requests, at[r] \in Undecided
  PROVE  /\ cache \in seen[r] /\ cache \in CachedState
         /\ WayGrounds(seen[r], op[r], at[r])
         /\ op[r].path \in Paths
         /\ ParentPath[op[r].path] \in Paths \cup {Null}
         /\ op[r].path # Null
<1>1. op[r] \in Operation
  BY ServiceAssumption DEF IInv, TypeOK
<1>2. op[r].path \in Paths \cup {SelfLink}
  BY <1>1 DEF Operation
<1>3. op[r].path # SelfLink
  BY DEF IInv, ReqInv, Undecided
<1> QED BY <1>2, <1>3, ServiceAssumption DEF IInv, TypeOK, ReqInv

(***************************************************************************)
(* Before the path is checked: the status and the filter.                  *)
(***************************************************************************)
LEMMA EarlyChecks ==
  ASSUME IInv, NEW r \in Requests, CheckStatus(r) \/ CheckFilter(r)
  PROVE  IInv'
<1>1. CASE CheckStatus(r) /\ GetGatewayStatus = "UNAVAILABLE"
  <2>1. at[r] \in Undecided /\ Answer(r, 503)
    BY <1>1 DEF CheckStatus, Undecided
  <2>2. RefusalGrounds(seen[r], op[r], 503)
    BY <1>1, <2>1, Looks DEF RefusalGrounds, GetGatewayStatus
  <2> QED BY <2>1, <2>2, RefuseInv
<1>2. CASE CheckStatus(r) /\ GetGatewayStatus # "UNAVAILABLE"
  <2>1. at[r] \in Undecided /\ GoTo(r, "checkFilter")
    BY <1>2 DEF CheckStatus, Undecided
  <2>2. WayGrounds(seen[r], op[r], "checkFilter")
    BY <1>2, <2>1, Looks DEF WayGrounds, NotUnavailable, GetGatewayStatus
  <2> QED BY <2>1, <2>2, GoToInv DEF Undecided
<1>3. CASE CheckFilter(r) /\ FilterRequests
  <2>1. at[r] = "checkFilter" /\ at[r] \in Undecided /\ GoTo(r, "checkPath")
    BY <1>3 DEF CheckFilter, Undecided
  <2>2. WayGrounds(seen[r], op[r], "checkPath")
    BY <1>3, <2>1, Looks DEF WayGrounds, Filtering, FilterRequests
  <2> QED BY <2>1, <2>2, GoToInv DEF Undecided
<1>4. CASE CheckFilter(r) /\ ~ FilterRequests
  <2>1. at[r] = "checkFilter" /\ at[r] \in Undecided /\ GoTo(r, "checkPaused")
    BY <1>4 DEF CheckFilter, Undecided
  <2>2. WayGrounds(seen[r], op[r], "checkPaused")
    BY <1>4, <2>1, Looks DEF WayGrounds, Allowed, FilterRequests
  <2> QED BY <2>1, <2>2, GoToInv DEF Undecided
<1> QED BY <1>1, <1>2, <1>3, <1>4

(***************************************************************************)
(* The path, and then its parent, with the actions found for them.         *)
(***************************************************************************)
LEMMA PathChecks ==
  ASSUME IInv, NEW r \in Requests, CheckPath(r) \/ CheckParent(r)
  PROVE  IInv'
<1> DEFINE path == op[r].path
           parent == ParentPath[path]
           S == seen[r]
<1>1. /\ at[r] \in Undecided
      /\ cache \in S /\ cache \in CachedState
      /\ path \in Paths /\ path # Null /\ parent \in Paths \cup {Null}
      /\ NotUnavailable(S) /\ Filtering(S)
      /\ at[r] = "checkParent" => Unlisted(S, path)
  BY Looks DEF CheckPath, CheckParent, Undecided, WayGrounds
<1>2. \A p \in Paths :
        /\ GetSupportedActions(p) = cache.paths[p].actions
        /\ GetSupportedActions(p) = Null <=> cache.paths[p] = NoEntry
  BY <1>1, EntryActions, ServiceAssumption DEF GetSupportedActions
<1>3. ASSUME NEW p \in Paths, cache.paths[p] # NoEntry,
             CheckAction(r, GetSupportedActions(p)),
             p = path \/ (p = parent /\ Unlisted(S, path))
      PROVE  IInv'
  <2>1. CASE op[r].action \in GetSupportedActions(p)
    <3>1. GoTo(r, "checkPaused")
      BY <1>3, <2>1 DEF CheckAction
    <3>2. Allows(S, p, op[r].action)
      BY <1>1, <1>2, <1>3, <2>1 DEF Allows
    <3>3. Allowed(S, op[r])
      BY <1>1, <1>3, <3>2, ServiceAssumption DEF Allowed, ParentAnd
    <3>4. WayGrounds(S, op[r], "checkPaused")
      BY <1>1, <3>3 DEF WayGrounds
    <3> QED BY <1>1, <3>1, <3>4, GoToInv DEF Undecided
  <2>2. CASE op[r].action \notin GetSupportedActions(p)
    <3>1. Answer(r, 405)
      BY <1>3, <2>2 DEF CheckAction
    <3>2. Forbids(S, p, op[r].action)
      BY <1>1, <1>2, <1>3, <2>2 DEF Forbids
    <3>3. Forbidden(S, op[r])
      BY <1>1, <1>3, <3>2, ServiceAssumption DEF Forbidden, ParentAnd
    <3>4. RefusalGrounds(S, op[r], 405)
      BY <1>1, <3>3 DEF RefusalGrounds
    <3> QED BY <1>1, <3>1, <3>4, RefuseInv
  <2> QED BY <2>1, <2>2
<1>4. CASE CheckPath(r)
  <2>1. CASE GetSupportedActions(path) = Null
    <3>1. GoTo(r, "checkParent")
      BY <1>4, <2>1 DEF CheckPath
    <3>2. WayGrounds(S, op[r], "checkParent")
      BY <1>1, <1>2, <2>1 DEF WayGrounds, Unlisted
    <3> QED BY <1>1, <3>1, <3>2, GoToInv DEF Undecided
  <2>2. CASE GetSupportedActions(path) # Null
    BY <1>1, <1>2, <1>3, <1>4, <2>2 DEF CheckPath
  <2> QED BY <2>1, <2>2
<1>5. CASE CheckParent(r)
  <2>1. CASE GetSupportedActions(parent) = Null
    <3>1. Answer(r, 404)
      BY <1>5, <2>1 DEF CheckParent
    <3>2. RefusalGrounds(S, op[r], 404)
      BY <1>1, <1>2, <1>5, <2>1 DEF RefusalGrounds, Unknown, Unlisted, CheckParent
    <3> QED BY <1>1, <3>1, <3>2, RefuseInv
  <2>2. CASE GetSupportedActions(parent) # Null
    <3>1. parent \in Paths
      BY <1>1, <2>2 DEF GetSupportedActions
    <3> QED BY <1>1, <1>2, <1>3, <1>5, <2>2, <3>1 DEF CheckParent
  <2> QED BY <2>1, <2>2
<1> QED BY <1>4, <1>5

(***************************************************************************)
(* After the path: whether the gateway is paused, and where it forwards.   *)
(***************************************************************************)
LEMMA LateChecks ==
  ASSUME IInv, NEW r \in Requests, CheckPaused(r) \/ Forward(r)
  PROVE  IInv'
<1> DEFINE S == seen[r]
<1>1. /\ at[r] \in Undecided
      /\ cache \in S /\ cache \in CachedState
      /\ NotUnavailable(S) /\ Allowed(S, op[r])
      /\ at[r] = "chooseNode" => NotPaused(S)
      /\ target[r] = Null
      /\ op[r].path # SelfLink
  <2>1. at[r] \in Undecided /\ at[r] \in {"checkPaused", "chooseNode"}
    BY DEF CheckPaused, Forward, Undecided
  <2>2. op[r].path # SelfLink /\ target[r] = Null
    BY <2>1 DEF IInv, ReqInv, Undecided
  <2> QED BY <2>1, <2>2, Looks DEF WayGrounds
<1>2. ASSUME Answer(r, 503), Unready(S) PROVE IInv'
  <2>1. RefusalGrounds(S, op[r], 503)
    BY <1>1, <1>2 DEF RefusalGrounds
  <2> QED BY <1>1, <1>2, <2>1, RefuseInv
<1>3. CASE CheckPaused(r) /\ GetGatewayStatus = "PAUSED"
  BY <1>1, <1>2, <1>3 DEF CheckPaused, Unready, GetGatewayStatus
<1>4. CASE CheckPaused(r) /\ GetGatewayStatus # "PAUSED"
  <2>1. GoTo(r, "chooseNode")
    BY <1>4 DEF CheckPaused
  <2>2. WayGrounds(S, op[r], "chooseNode")
    BY <1>1, <1>4 DEF WayGrounds, NotPaused, GetGatewayStatus
  <2> QED BY <1>1, <2>1, <2>2, GoToInv DEF Undecided
<1>5. CASE Forward(r) /\ GetForwardingUri = Null
  BY <1>1, <1>2, <1>5 DEF Forward, Unready, GetForwardingUri
<1>6. CASE Forward(r) /\ GetForwardingUri # Null
  <2>1. /\ at' = [at EXCEPT ![r] = "forwarded"]
        /\ target' = [target EXCEPT ![r] = GetForwardingUri]
        /\ UNCHANGED <<cache, updates, op, status, seen>>
        /\ at[r] = "chooseNode"
    BY <1>6 DEF Forward
  <2>2. GetForwardingUri \in {Null} \cup Uris
    BY <1>1 DEF GetForwardingUri, CachedState, CachedConfig
  <2>3. TypeOK'
    BY <2>1, <2>2 DEF IInv, TypeOK, Places
  <2>4. at'[r] = "forwarded" /\ target'[r] = GetForwardingUri
    BY <2>1 DEF IInv, TypeOK
  <2>5. ForwardGrounds(S, op[r], GetForwardingUri)
    BY <1>1, <2>1 DEF ForwardGrounds, GetForwardingUri
  <2>6. ReqInv(r)'
    BY <1>1, <1>6, <2>1, <2>4, <2>5 DEF ReqInv, Decided, Undecided
  <2>7. ASSUME NEW q \in Requests, q # r PROVE ReqInv(q)'
    BY <2>1, <2>7, OthersInv DEF IInv, TypeOK
  <2> QED BY <2>3, <2>6, <2>7 DEF IInv
<1> QED BY <1>3, <1>4, <1>5, <1>6

(***************************************************************************)
(* A request comes in, is answered by its backend, or is one for the       *)
(* GatewayService itself.                                                  *)
(***************************************************************************)
LEMMA EndsInv ==
  ASSUME IInv, NEW r \in Requests,
         HandleRequest(r) \/ BackendAnswered(r) \/ HandleGet(r) \/ HandleDelete(r)
  PROVE  IInv'
<1>1. CASE HandleRequest(r)
  <2>1. /\ at' = [at EXCEPT ![r] = "checkStatus"]
        /\ seen' = [seen EXCEPT ![r] = {cache}]
        /\ UNCHANGED <<cache, updates, op, status, target>>
        /\ at[r] = "sent" /\ op[r].path # SelfLink
    BY <1>1 DEF HandleRequest
  <2>2. TypeOK'
    BY <2>1 DEF IInv, TypeOK, Places
  <2>3. at'[r] = "checkStatus" /\ seen'[r] = {cache}
    BY <2>1 DEF IInv, TypeOK
  <2>4. ReqInv(r)'
    BY <2>1, <2>3 DEF IInv, ReqInv, Decided, Undecided, WayGrounds
  <2>5. ASSUME NEW q \in Requests, q # r PROVE ReqInv(q)'
    BY <2>1, <2>5, OthersInv DEF IInv, TypeOK
  <2> QED BY <2>2, <2>4, <2>5 DEF IInv
<1>2. ASSUME NEW code \in {200, 405} \cup Responses, Answer(r, code),
             at[r] = "forwarded" \/ (at[r] = "sent" /\ op[r].path = SelfLink)
      PROVE  IInv'
  <2>1. /\ at' = [at EXCEPT ![r] = "answered"]
        /\ status' = [status EXCEPT ![r] = code]
        /\ UNCHANGED <<cache, updates, op, target, seen>>
    BY <1>2 DEF Answer
  <2>2. TypeOK'
    BY <2>1 DEF IInv, TypeOK, Places
  <2>3. at'[r] = "answered"
    BY <2>1 DEF IInv, TypeOK
  <2>4. ReqInv(r)'
    BY <1>2, <2>1, <2>3 DEF IInv, ReqInv, Decided, Undecided
  <2>5. ASSUME NEW q \in Requests, q # r PROVE ReqInv(q)'
    BY <2>1, <2>5, OthersInv DEF IInv, TypeOK
  <2> QED BY <2>2, <2>4, <2>5 DEF IInv
<1>3. CASE BackendAnswered(r)
  BY <1>2, <1>3 DEF BackendAnswered
<1>4. CASE HandleGet(r)
  BY <1>2, <1>4 DEF HandleGet
<1>5. CASE HandleDelete(r)
  BY <1>2, <1>5 DEF HandleDelete
<1> QED BY <1>1, <1>3, <1>4, <1>5

(***************************************************************************)
(* A notification leaves the cache one of its states.                      *)
(***************************************************************************)
LEMMA NotifiedInv == IInv /\ (ConfigNotified \/ PathNotified) => IInv'
<1> SUFFICES ASSUME IInv, ConfigNotified \/ PathNotified PROVE IInv'
  OBVIOUS
<1>1. cache \in CachedState /\ updates \in Nat
  BY ServiceAssumption DEF IInv, TypeOK
<1>2. CASE ConfigNotified
  <2>1. PICK doc \in ConfigStates :
          Tell([cache EXCEPT !.config = HandleConfigUpdate(@, DefaultConfig, doc, updates)])
    BY <1>2 DEF ConfigNotified
  <2>2. HandleConfigUpdate(cache.config, DefaultConfig, doc, updates) \in CachedConfig
    BY <1>1, HandlersType, ServiceAssumption DEF CachedState
  <2>3. [cache EXCEPT !.config = HandleConfigUpdate(@, DefaultConfig, doc, updates)]
          \in CachedState
    BY <1>1, <2>2 DEF CachedState
  <2> QED BY <2>1, <2>3, TellInv
<1>3. CASE PathNotified
  <2>1. PICK p \in Paths, doc \in PathStates :
          Tell([cache EXCEPT !.paths[p] = HandlePathUpdate(@, doc, updates)])
    BY <1>3 DEF PathNotified
  <2>2. HandlePathUpdate(cache.paths[p], doc, updates) \in {NoEntry} \cup PathEntry
    BY <1>1, HandlersType, ServiceAssumption DEF CachedState
  <2>3. [cache EXCEPT !.paths[p] = HandlePathUpdate(@, doc, updates)] \in CachedState
    BY <1>1, <2>2 DEF CachedState
  <2> QED BY <2>1, <2>3, TellInv
<1> QED BY <1>2, <1>3

(***************************************************************************)
(* The invariant is inductive.                                             *)
(***************************************************************************)
LEMMA NextInv == IInv /\ [Next]_vars => IInv'
<1> SUFFICES ASSUME IInv, [Next]_vars PROVE IInv'
  OBVIOUS
<1>1. CASE ConfigNotified \/ PathNotified
  BY <1>1, NotifiedInv
<1>2. ASSUME NEW r \in Requests, Handle(r) PROVE IInv'
  BY <1>2, EarlyChecks, PathChecks, LateChecks, EndsInv DEF Handle
<1>3. CASE UNCHANGED vars
  BY <1>3 DEF vars, IInv, TypeOK, ReqInv, Decided
<1> QED BY <1>1, <1>2, <1>3 DEF Next

(***************************************************************************)
(* The invariant holds in every state that can be reached.                 *)
(***************************************************************************)
LEMMA InvAlways == Spec => []IInv
BY InitInv, NextInv, PTL DEF Spec

-----------------------------------------------------------------------------
(* Theorems *)

(***************************************************************************)
(* The variables keep their types: the cache is told of nothing but its    *)
(* states, a request is answered with a known code or that of a backend.   *)
(***************************************************************************)
THEOREM ServiceTypeCorrect == Spec => []TypeOK
<1>1. IInv => TypeOK
  BY DEF IInv
<1> QED BY <1>1, InvAlways, PTL

(***************************************************************************)
(* Whatever the cache does meanwhile, a request is forwarded only on       *)
(* grounds that each held while it was decided.                            *)
(***************************************************************************)
THEOREM ForwardsRestOnGrounds == Spec => []ForwardedOnGrounds
<1>1. IInv => ForwardedOnGrounds
  <2> SUFFICES ASSUME IInv, NEW r \in Requests, Decided(r), target[r] # Null
      PROVE  /\ \E c \in seen[r] : c.config.status # "UNAVAILABLE"
             /\ \E c \in seen[r] : c.config.status # "PAUSED"
             /\ \E c \in seen[r] :
                  \/ ~ c.config.filterRequests
                  \/ \E p \in Paths \cap {op[r].path, ParentPath[op[r].path]} :
                       c.paths[p] # NoEntry /\ op[r].action \in c.paths[p].actions
             /\ \E c \in seen[r] : c.config.forwardingUri = target[r]
    BY DEF ForwardedOnGrounds
  <2>1. ForwardGrounds(seen[r], op[r], target[r])
    BY DEF IInv, ReqInv
  <2>2. op[r].path \in Paths
    BY ServiceAssumption DEF IInv, TypeOK, Operation, Decided
  <2>3. ParentPath[op[r].path] \in Paths \cup {Null}
    BY <2>2, ServiceAssumption
  <2>4. \E c \in seen[r] :
          \/ ~ c.config.filterRequests
          \/ \E p \in Paths \cap {op[r].path, ParentPath[op[r].path]} :
               c.paths[p] # NoEntry /\ op[r].action \in c.paths[p].actions
    BY <2>1, <2>2, <2>3 DEF ForwardGrounds, Allowed, Allows, ParentAnd
  <2> QED BY <2>1, <2>4 DEF ForwardGrounds, NotUnavailable, NotPaused
<1> QED BY <1>1, InvAlways, PTL

(***************************************************************************)
(* Whatever the cache does meanwhile, a request is refused only on grounds *)
(* that each held while it was decided.                                    *)
(***************************************************************************)
THEOREM RefusalsRestOnGrounds == Spec => []RefusedOnGrounds
<1>1. IInv => RefusedOnGrounds
  <2> SUFFICES ASSUME IInv, NEW r \in Requests, Decided(r), target[r] = Null
      PROVE  /\ status[r] = 503 =>
                  \E c \in seen[r] :
                    c.config.status # "AVAILABLE" \/ c.config.forwardingUri = Null
             /\ status[r] # 503 =>
                  /\ \E c \in seen[r] : c.config.status # "UNAVAILABLE"
                  /\ \E c \in seen[r] : c.config.filterRequests
             /\ status[r] = 404 =>
                  \A p \in Paths \cap {op[r].path, ParentPath[op[r].path]} :
                    \E c \in seen[r] : c.paths[p] = NoEntry
             /\ status[r] = 405 =>
                  \E p \in Paths \cap {op[r].path, ParentPath[op[r].path]}, c \in seen[r] :
                    c.paths[p] # NoEntry /\ op[r].action \notin c.paths[p].actions
    BY DEF RefusedOnGrounds
  <2>1. RefusalGrounds(seen[r], op[r], status[r])
    BY DEF IInv, ReqInv
  <2>2. op[r].path \in Paths
    BY ServiceAssumption DEF IInv, TypeOK, Operation, Decided
  <2>3. ParentPath[op[r].path] \in Paths \cup {Null}
    BY <2>2, ServiceAssumption
  <2>4. CASE status[r] = 503
    BY <2>1, <2>4 DEF RefusalGrounds, Unready
  <2>5. CASE status[r] = 404
    BY <2>1, <2>2, <2>3, <2>5, ServiceAssumption
       DEF RefusalGrounds, NotUnavailable, Filtering, Unknown, Unlisted
  <2>6. CASE status[r] = 405
    BY <2>1, <2>2, <2>3, <2>6
       DEF RefusalGrounds, NotUnavailable, Filtering, Forbidden, Forbids, ParentAnd
  <2> QED BY <2>1, <2>4, <2>5, <2>6 DEF RefusalGrounds
<1> QED BY <1>1, InvAlways, PTL

(***************************************************************************)
(* A request during which the cache stands still gets the one answer that  *)
(* state of the cache gives it: looking at the cache in several steps then *)
(* makes no difference.                                                    *)
(***************************************************************************)
THEOREM SteadyVerdicts == Spec => []SteadyRequestsGetTheirVerdict
<1>1. IInv => SteadyRequestsGetTheirVerdict
  <2> SUFFICES ASSUME IInv, NEW r \in Requests, NEW c \in seen[r],
                      Decided(r), seen[r] = {c}
      PROVE  /\ target[r] = Verdict(c, r).forward
             /\ target[r] = Null => status[r] = Verdict(c, r).code
    BY DEF SteadyRequestsGetTheirVerdict
  <2> DEFINE o == op[r]
             parent == ParentPath[o.path]
             allowed == ActionsOn(c, o.path)
  <2>1. o.path \in Paths /\ parent \in Paths \cup {Null} /\ c \in CachedState
    BY ServiceAssumption DEF IInv, TypeOK, Operation, Decided
  <2>2. \A p \in Paths : c.paths[p].actions = Null <=> c.paths[p] = NoEntry
    BY <2>1, EntryActions
  <2>3. CASE target[r] # Null
    <3>1. /\ c.config.status # "UNAVAILABLE" /\ c.config.status # "PAUSED"
          /\ Allowed({c}, o) /\ c.config.forwardingUri = target[r]
      BY <2>3 DEF IInv, ReqInv, ForwardGrounds, NotUnavailable, NotPaused
    <3>2. ~ c.config.filterRequests \/ (allowed # Null /\ o.action \in allowed)
      BY <2>1, <2>2, <3>1 DEF Allowed, Allows, ParentAnd, Unlisted, ActionsOn
    <3> QED BY <2>3, <3>1, <3>2 DEF Verdict
  <2>4. CASE target[r] = Null
    <3>1. RefusalGrounds({c}, o, status[r])
      BY <2>4 DEF IInv, ReqInv
    <3>2. CASE status[r] = 503 /\ c.config.status = "UNAVAILABLE"
      BY <2>4, <3>2 DEF Verdict
    <3>3. CASE /\ status[r] = 503 /\ c.config.status # "UNAVAILABLE"
               /\ Allowed({c}, o) /\ Unready({c})
      <4>1. ~ c.config.filterRequests \/ (allowed # Null /\ o.action \in allowed)
        BY <2>1, <2>2, <3>3 DEF Allowed, Allows, ParentAnd, Unlisted, ActionsOn
      <4> QED BY <2>4, <3>3, <4>1 DEF Verdict, Unready
    <3>4. CASE /\ status[r] = 404 /\ c.config.status # "UNAVAILABLE"
               /\ c.config.filterRequests /\ Unknown({c}, o)
      <4>1. allowed = Null
        BY <3>4 DEF Unknown, Unlisted, ActionsOn
      <4> QED BY <2>4, <3>4, <4>1 DEF Verdict
    <3>5. CASE /\ status[r] = 405 /\ c.config.status # "UNAVAILABLE"
               /\ c.config.filterRequests /\ Forbidden({c}, o)
      <4>1. allowed # Null /\ o.action \notin allowed
        BY <2>1, <2>2, <3>5 DEF Forbidden, Forbids, ParentAnd, Unlisted, ActionsOn
      <4> QED BY <2>4, <3>5, <4>1 DEF Verdict
    <3> QED BY <3>1, <3>2, <3>3, <3>4, <3>5
            DEF RefusalGrounds, NotUnavailable, Filtering
  <2> QED BY <2>3, <2>4
<1> QED BY <1>1, InvAlways, PTL

=============================================================================
