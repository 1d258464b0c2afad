----------------------------- MODULE MCGateway -----------------------------
(***************************************************************************)
(* Bodies and bounds for checking Gateway with TLC.                        *)
(***************************************************************************)
EXTENDS Gateway, TLC

CONSTANTS OtherConfig

ConfigBodyOf(status, uri, filter) ==
  [status |-> status, forwardingUri |-> uri, filterRequests |-> filter]

(***************************************************************************)
(* Everything given, with the filter switched off; an explicit null; and   *)
(* an empty object, which only an update accepts.                          *)
(***************************************************************************)
MCConfigBodies ==
  {ConfigBodyOf("AVAILABLE", u, FALSE) : u \in Uris}
    \cup {ConfigBodyOf("PAUSED", Null, Null), ConfigBodyOf(Null, Null, Absent)}

MCPathBodies ==
  {[path |-> p, actions |-> a] : p \in Paths, a \in {Null} \cup {{x} : x \in Actions}}

(***************************************************************************)
(* How often each document is written: a configuration that is created,    *)
(* deleted and created again, next to one the gateway must ignore; or a    *)
(* path that is also updated after that, next to a configuration.          *)
(***************************************************************************)
MCConfigMaxVersions == [d \in Docs |-> IF d = DefaultConfig THEN 3 ELSE 1]
MCPathMaxVersions == [d \in Docs |-> IF d \in Paths THEN 4 ELSE 1]

=============================================================================
