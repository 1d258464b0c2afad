-------------------------- MODULE GatewayDocuments --------------------------
(***************************************************************************)
(* The stateful services that hold the gateway's configuration:            *)
(* GatewayConfigService, and GatewayPathService with its factory.          *)
(*                                                                         *)
(* The owner of a document runs the handlers of its service one at a time  *)
(* and commits each accepted update as the next version, so a document is  *)
(* the sequence of its versions.  A request a handler rejects (no status,  *)
(* another path, no actions in an update) changes nothing and is not a     *)
(* step.                                                                   *)
(***************************************************************************)
EXTENDS GatewayTypes, Sequences

CONSTANTS
  ConfigBodies, PathBodies,  \* the bodies clients send
  MaxVersions                \* bound: versions per document

ASSUME DocumentsAssumption ==
  /\ ConfigBodies \subseteq ConfigBody
  /\ PathBodies \subseteq PathBody
  /\ MaxVersions \in [ConfigLinks \cup Paths -> Nat]

VARIABLE history  \* history[d]: every version of document d, oldest first

Docs == ConfigLinks \cup Paths

DocumentsTypeOK ==
  /\ DOMAIN history = Docs
  /\ \A l \in ConfigLinks : history[l] \in Seq(ConfigState)
  /\ \A p \in Paths : history[p] \in Seq(PathState)

LastVersion(d) == Len(history[d]) - 1
Content(d, version) == history[d][version + 1]
Exists(d) == LastVersion(d) >= 0 /\ ~ Content(d, LastVersion(d)).deleted

(***************************************************************************)
(* What a client reads of a document that Exists.                          *)
(***************************************************************************)
Current(d) == Content(d, LastVersion(d))

Commit(d, state) ==
  /\ Len(history[d]) < MaxVersions[d]
  /\ history' = [history EXCEPT ![d] = Append(@, state)]

DocumentsInit == history = [d \in Docs |-> << >>]

-----------------------------------------------------------------------------
(* GatewayConfigService *)

(***************************************************************************)
(* POST to the factory: handleStart and validateStartState.                *)
(***************************************************************************)
CreateConfig(l, sent) ==
  LET body == Deserialised(sent) IN
  /\ ~ Exists(l)
  /\ body.status # Null
  /\ Commit(l, [deleted |-> FALSE,
                status |-> body.status,
                forwardingUri |-> body.forwardingUri,
                filterRequests |-> body.filterRequests])

(***************************************************************************)
(* Utils.mergeWithState on an AUTO_MERGE_IF_NOT_NULL property.             *)
(***************************************************************************)
Merged(current, given) == IF given # Null THEN given ELSE current

(***************************************************************************)
(* handlePatch and handlePut, which do the same: updateState merges the    *)
(* deserialised body into the current state.                               *)
(***************************************************************************)
UpdateConfig(l, sent) ==
  LET body == Deserialised(sent) IN
  /\ Exists(l)
  /\ Commit(l, [deleted |-> FALSE,
                status |-> Merged(Current(l).status, body.status),
                forwardingUri |->
                  Merged(Current(l).forwardingUri, body.forwardingUri),
                filterRequests |->
                  Merged(Current(l).filterRequests, body.filterRequests)])

-----------------------------------------------------------------------------
(* GatewayPathService *)

CreatePath(p, body) ==
  /\ body.path = p
  /\ ~ Exists(p)
  /\ Commit(p, [deleted |-> FALSE, actions |-> body.actions])

(***************************************************************************)
(* mergeWithState adds the given actions to the current ones; updateState  *)
(* then lets an empty set replace them.                                    *)
(***************************************************************************)
MergedActions(current, given) ==
  IF given = {} \/ current = Null THEN given ELSE current \cup given

(***************************************************************************)
(* handlePatch and handlePut.  validateUpdateState refuses another path;   *)
(* updateState dereferences the actions of the body, so an update without  *)
(* them fails with a NullPointerException.                                 *)
(***************************************************************************)
UpdatePath(p, body) ==
  /\ Exists(p)
  /\ body.path \in {Null, p}
  /\ body.actions # Null
  /\ Commit(p, [deleted |-> FALSE,
                actions |-> MergedActions(Current(p).actions, body.actions)])

-----------------------------------------------------------------------------
(***************************************************************************)
(* DELETE of either document, handled by StatefulService.  The deletion is *)
(* a version of its own, and a document created again under the same link  *)
(* carries on from there.                                                  *)
(***************************************************************************)
DeleteDocument(d) ==
  /\ Exists(d)
  /\ Commit(d, [Current(d) EXCEPT !.deleted = TRUE])

WriteDocuments ==
  \/ \E l \in ConfigLinks, sent \in ConfigBodies :
       CreateConfig(l, sent) \/ UpdateConfig(l, sent)
  \/ \E p \in Paths, body \in PathBodies :
       CreatePath(p, body) \/ UpdatePath(p, body)
  \/ \E d \in Docs : DeleteDocument(d)

=============================================================================
