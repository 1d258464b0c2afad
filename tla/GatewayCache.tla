---------------------------- MODULE GatewayCache ----------------------------
(***************************************************************************)
(* GatewayCache.java: the in-memory copy of the configuration that every   *)
(* gateway node routes by, and what one document of a notification does to *)
(* it.  Every operator here is one "synchronized (this.cachedState)" block *)
(* and is therefore atomic.                                                *)
(*                                                                         *)
(* Versions are numbered as in the source: 0, 1, 2, ... with -1 for "none  *)
(* seen yet" (createSeedConfig).                                           *)
(***************************************************************************)
EXTENDS GatewayTypes

CachedConfig == [version : Int,
                 status : Status,
                 forwardingUri : {Null} \cup Uris,
                 filterRequests : BOOLEAN]

PathEntry == [version : Int, actions : SUBSET Actions]

(***************************************************************************)
(* The value of HashMap.get for a path that is not white-listed.           *)
(***************************************************************************)
NoEntry == [version |-> -1, actions |-> Null]

(***************************************************************************)
(* createSeedConfig: the configuration before any is known, or once the    *)
(* document has been deleted.                                              *)
(***************************************************************************)
SeedConfig == [version |-> -1,
               status |-> "UNAVAILABLE",
               forwardingUri |-> Null,
               filterRequests |-> TRUE]

(***************************************************************************)
(* CachedState, and the one a new GatewayCache starts from.  "paths" has   *)
(* an entry for every path: NoEntry where the HashMap of the source has    *)
(* none.                                                                   *)
(***************************************************************************)
CachedState == [config : CachedConfig, paths : [Paths -> {NoEntry} \cup PathEntry]]

EmptyCache == [config |-> SeedConfig, paths |-> [p \in Paths |-> NoEntry]]

(***************************************************************************)
(* Mutant: a deleted configuration leaves no version behind either.        *)
(***************************************************************************)
ForgetfulConfigOf(doc, version) ==
  IF doc.deleted
  THEN SeedConfig
  ELSE [version |-> version,
        status |-> doc.status,
        forwardingUri |-> doc.forwardingUri,
        filterRequests |-> IF doc.filterRequests # Null
                           THEN doc.filterRequests ELSE TRUE]

(***************************************************************************)
(* Mutant: a missing filterRequests is taken over as it is.                *)
(***************************************************************************)
BareConfigOf(doc, version) ==
  IF doc.deleted
  THEN [SeedConfig EXCEPT !.version = version]
  ELSE [version |-> version,
        status |-> doc.status,
        forwardingUri |-> doc.forwardingUri,
        filterRequests |-> doc.filterRequests]

(***************************************************************************)
(* What the cache makes of one version of a document.                      *)
(***************************************************************************)
ConfigOf(doc, version) ==
  IF doc.deleted
  THEN [SeedConfig EXCEPT !.version = version]
  ELSE [version |-> version,
        status |-> doc.status,
        forwardingUri |-> doc.forwardingUri,
        filterRequests |-> IF doc.filterRequests # Null
                           THEN doc.filterRequests ELSE TRUE]

EntryOf(doc, version) ==
  IF doc.deleted
  THEN NoEntry
  ELSE [version |-> version,
        actions |-> IF doc.actions \in {Null, {}} THEN Actions ELSE doc.actions]

(***************************************************************************)
(* Mutants of handleConfigUpdate: it applies the document of any           *)
(* configuration; or an outdated notification.                             *)
(***************************************************************************)
AnyConfigUpdate(config, link, doc, version) ==
  IF version > config.version THEN ConfigOf(doc, version) ELSE config

LatestConfigUpdate(config, link, doc, version) ==
  IF link = DefaultConfig THEN ConfigOf(doc, version) ELSE config

(***************************************************************************)
(* Mutants of handlePathUpdate: it applies an outdated notification; or    *)
(* adds the actions of the document to those of the entry.                 *)
(***************************************************************************)
LatestPathUpdate(entry, doc, version) == EntryOf(doc, version)

MergingPathUpdate(entry, doc, version) ==
  IF version <= entry.version THEN entry
  ELSE IF doc.deleted \/ entry = NoEntry THEN EntryOf(doc, version)
  ELSE [EntryOf(doc, version) EXCEPT !.actions = @ \cup entry.actions]

(***************************************************************************)
(* handleConfigUpdate and handlePathUpdate: the new value of the cached    *)
(* configuration, or of the entry of a path, when one version of a         *)
(* document arrives.  A deleted configuration leaves its version behind; a *)
(* deleted path leaves nothing.                                            *)
(***************************************************************************)
HandleConfigUpdate(config, link, doc, version) ==
  IF link = DefaultConfig /\ version > config.version
  THEN ConfigOf(doc, version)
  ELSE config

HandlePathUpdate(entry, doc, version) ==
  IF version > entry.version /\ (doc.deleted => entry # NoEntry)
  THEN EntryOf(doc, version)
  ELSE entry

=============================================================================
