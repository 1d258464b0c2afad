---------------------------- MODULE GatewayTypes ----------------------------
(***************************************************************************)
(* The vocabulary of the Xenon gateway: the documents an administrator     *)
(* writes (GatewayConfigService.State, GatewayPathService.State), and the  *)
(* bodies clients send to change them.                                     *)
(***************************************************************************)
EXTENDS Integers

CONSTANTS
  ConfigLinks,    \* self links of the gateway configuration documents
  DefaultConfig,  \* the one the gateway listens to (DEFAULT_CONFIG_PATH)
  Paths,          \* URI paths that may be white-listed, one document each
  Actions,        \* the HTTP actions (Service.Action)
  Uris,           \* endpoints a configuration may forward to
  Null,           \* the Java null
  Absent          \* a property left out of a JSON body

(***************************************************************************)
(* GatewayStatus.                                                          *)
(***************************************************************************)
Status == {"UNAVAILABLE", "PAUSED", "AVAILABLE"}

ASSUME TypesAssumption ==
  /\ DefaultConfig \in ConfigLinks
  /\ ConfigLinks \cap Paths = {}
  /\ Null \notin Status
  /\ Null \notin BOOLEAN
  /\ Null \notin Uris
  /\ \A allowed \in SUBSET Actions : allowed # Null
  /\ Absent \notin BOOLEAN

(***************************************************************************)
(* A stored version of a configuration document.  "deleted" stands for     *)
(* documentUpdateAction = DELETE; documentVersion is not kept here, it is  *)
(* the place of the version in the document's history.                     *)
(***************************************************************************)
ConfigState == [deleted : BOOLEAN,
                status : Status,
                forwardingUri : {Null} \cup Uris,
                filterRequests : {Null} \cup BOOLEAN]

(***************************************************************************)
(* A stored version of a path document.  Its "path" never changes and is   *)
(* the document's name in Paths.                                           *)
(***************************************************************************)
PathState == [deleted : BOOLEAN, actions : {Null} \cup SUBSET Actions]

(***************************************************************************)
(* What clients send.  A property left out of the JSON keeps the value its *)
(* Java initializer gives it: null, except filterRequests, which is TRUE.  *)
(***************************************************************************)
ConfigBody == [status : {Null} \cup Status,
               forwardingUri : {Null} \cup Uris,
               filterRequests : {Null, Absent} \cup BOOLEAN]

Deserialised(sent) ==
  [sent EXCEPT !.filterRequests = IF @ = Absent THEN TRUE ELSE @]

PathBody == [path : Paths \cup {Null}, actions : {Null} \cup SUBSET Actions]

=============================================================================
