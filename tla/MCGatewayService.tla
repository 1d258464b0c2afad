-------------------------- MODULE MCGatewayService --------------------------
(***************************************************************************)
(* Requests and documents for checking GatewayService with TLC.            *)
(***************************************************************************)
EXTENDS GatewayService

CONSTANTS factory, child  \* paths, the first the parent of the second

MCParentPath == [p \in Paths |-> IF p = child THEN factory ELSE Null]

(***************************************************************************)
(* A request for a service and for its factory, and each request the       *)
(* GatewayService handles itself.                                          *)
(***************************************************************************)
Op(path, action, noIndexUpdate) ==
  [path |-> path, action |-> action, noIndexUpdate |-> noIndexUpdate]

MCOperations ==
  {Op(child, "GET", FALSE), Op(factory, "GET", FALSE), Op(SelfLink, "GET", FALSE)}
    \cup {Op(SelfLink, "DELETE", b) : b \in BOOLEAN}

SomeUri == CHOOSE u \in Uris : TRUE

Doc(status_, uri, filter) ==
  [deleted |-> FALSE, status |-> status_, forwardingUri |-> uri, filterRequests |-> filter]

(***************************************************************************)
(* Every status, with and without filter and backend, and a deletion.      *)
(***************************************************************************)
MCConfigStates ==
  {Doc("AVAILABLE", u, TRUE) : u \in Uris}
    \cup {Doc("PAUSED", SomeUri, FALSE), Doc("UNAVAILABLE", SomeUri, Null)}
    \cup {Doc("AVAILABLE", Null, FALSE)}
    \cup {[Doc("AVAILABLE", Null, TRUE) EXCEPT !.deleted = TRUE]}

(***************************************************************************)
(* All actions, one that is not asked for, and a deletion.                 *)
(***************************************************************************)
MCPathStates ==
  {[deleted |-> FALSE, actions |-> a] : a \in {Null, {"DELETE"}}}
    \cup {[deleted |-> TRUE, actions |-> Null]}

=============================================================================
