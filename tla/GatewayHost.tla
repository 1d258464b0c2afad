----------------------------- MODULE GatewayHost -----------------------------
(***************************************************************************)
(* GatewayHost.java: starting and stopping the two hosts of a gateway.     *)
(*                                                                         *)
(* Its owner (main and its shutdown hook, or TestGatewayHost) calls start  *)
(* and stop in turn.  start only registers for the availability of the     *)
(* configuration factories; startDispatchHost runs later, on a thread of   *)
(* the framework, without a lock, so a stop can overtake it at any line.   *)
(* Hosts are named after the call of start that created them.              *)
(***************************************************************************)
EXTENDS Integers, Sequences, FiniteSets

CONSTANTS
  Starts,     \* the calls of start
  MaxStops,   \* bound: the calls of stop
  Factories,  \* the services start waits for
  None        \* the Java null

ASSUME HostAssumption ==
  /\ None \notin Starts
  /\ MaxStops \in Nat
  /\ IsFiniteSet(Factories)
  /\ Factories # {}

VARIABLES
  configHost,    \* the fields of GatewayHost: a call, or None
  dispatchHost,
  config,        \* config[c], dispatch[c]: the state of the hosts made by c
  dispatch,
  owner,         \* where the owner is
  stops,         \* how often it called stop
  registered,    \* registered[c]: the config host that c waits for
  factory,       \* factory[c][f]: what c has been told of f
  count,         \* count[c]: the AtomicInteger of start
  at,            \* at[c]: the line c has come to
  reports,       \* reports[c]: the calls of its completionCallback
  overtaken      \* history: the calls still under way when stop was called

hosts == <<configHost, dispatchHost, config, dispatch>>
waits == <<registered, factory, count>>
vars == <<hosts, owner, stops, waits, at, reports, overtaken>>

HostState == {"none", "created", "running", "stopped"}
Ended == {"idle", "returned", "threw"}
Places == Ended \cup {"waiting", "enter", "create", "initialize", "start",
                      "log", "catch", "complete"}

(***************************************************************************)
(* Type invariant.                                                         *)
(***************************************************************************)
TypeOK ==
  /\ {configHost, dispatchHost} \subseteq Starts \cup {None}
  /\ {config, dispatch} \subseteq [Starts -> HostState]
  /\ owner \in {"stopped", "started", "clearDispatch", "stopConfig", "clearConfig"}
  /\ stops \in 0 .. MaxStops
  /\ registered \in [Starts -> Starts \cup {None}]
  /\ factory \in [Starts -> [Factories -> {"unknown", "available", "error"}]]
  /\ count \in [Starts -> 0 .. Cardinality(Factories)]
  /\ at \in [Starts -> Places]
  /\ reports \in [Starts -> Seq({"success", "failure"})]
  /\ overtaken \subseteq Starts

Init ==
  /\ configHost = None
  /\ dispatchHost = None
  /\ config = [c \in Starts |-> "none"]
  /\ dispatch = [c \in Starts |-> "none"]
  /\ owner = "stopped"
  /\ stops = 0
  /\ registered = [c \in Starts |-> None]
  /\ factory = [c \in Starts |-> [f \in Factories |-> "unknown"]]
  /\ count = [c \in Starts |-> Cardinality(Factories)]
  /\ at = [c \in Starts |-> "idle"]
  /\ reports = [c \in Starts |-> << >>]
  /\ overtaken = {}

-----------------------------------------------------------------------------
(* start *)

(***************************************************************************)
(* The config host is created and started unless there is one, and the     *)
(* call registers with it for the availability of the factories.           *)
(***************************************************************************)
Start(c) ==
  LET h == IF configHost = None THEN c ELSE configHost IN
  /\ owner = "stopped"
  /\ at[c] = "idle"
  /\ owner' = "started"
  /\ configHost' = h
  /\ config' = IF configHost = None THEN [config EXCEPT ![c] = "running"] ELSE config
  /\ registered' = [registered EXCEPT ![c] = h]
  /\ at' = [at EXCEPT ![c] = "waiting"]
  /\ UNCHANGED <<dispatchHost, dispatch, stops, factory, count, reports, overtaken>>

(***************************************************************************)
(* The config host cannot be initialized or started, for instance because  *)
(* its index is locked.  start throws, and the field keeps the host.       *)
(***************************************************************************)
StartThrows(c) ==
  /\ owner = "stopped"
  /\ at[c] = "idle"
  /\ configHost = None
  /\ owner' = "started"
  /\ configHost' = c
  /\ config' = [config EXCEPT ![c] = "created"]
  /\ at' = [at EXCEPT ![c] = "threw"]
  /\ UNCHANGED <<dispatchHost, dispatch, stops, waits, reports, overtaken>>

(***************************************************************************)
(* The framework reports a factory: available, which takes a running       *)
(* host, or an error, because the wait expired or the host stopped.        *)
(***************************************************************************)
Reported(c, f) ==
  \E outcome \in {"available", "error"} :
    /\ outcome = "available" => config[registered[c]] = "running"
    /\ factory' = [factory EXCEPT ![c][f] = outcome]

(***************************************************************************)
(* Mutant: an error is not counted.                                        *)
(***************************************************************************)
CountAvailable(c, f) ==
  /\ at[c] = "waiting"
  /\ factory[c][f] = "unknown"
  /\ Reported(c, f)
  /\ count' = [count EXCEPT ![c] = IF factory'[c][f] = "error" THEN @ ELSE @ - 1]
  /\ at' = IF count'[c] = 0 THEN [at EXCEPT ![c] = "enter"] ELSE at
  /\ UNCHANGED <<hosts, owner, stops, registered, reports, overtaken>>

(***************************************************************************)
(* Mutant: the dispatch host is started for the first factory.             *)
(***************************************************************************)
EnterAtOnce(c, f) ==
  /\ at[c] = "waiting"
  /\ factory[c][f] = "unknown"
  /\ Reported(c, f)
  /\ count' = [count EXCEPT ![c] = @ - 1]
  /\ at' = [at EXCEPT ![c] = "enter"]
  /\ UNCHANGED <<hosts, owner, stops, registered, reports, overtaken>>

(***************************************************************************)
(* Mutant: a factory that is reported again is counted again.              *)
(***************************************************************************)
CountAgain(c, f) ==
  /\ registered[c] # None
  /\ Reported(c, f)
  /\ count' = [count EXCEPT ![c] = @ - 1]
  /\ at' = IF count'[c] = 0 THEN [at EXCEPT ![c] = "enter"] ELSE at
  /\ UNCHANGED <<hosts, owner, stops, registered, reports, overtaken>>

(***************************************************************************)
(* The availability callback, which ignores errors: the last one calls     *)
(* startDispatchHost.                                                      *)
(***************************************************************************)
FactoryCallback(c, f) ==
  /\ at[c] = "waiting"
  /\ factory[c][f] = "unknown"
  /\ Reported(c, f)
  /\ count' = [count EXCEPT ![c] = @ - 1]
  /\ at' = IF count'[c] = 0 THEN [at EXCEPT ![c] = "enter"] ELSE at
  /\ UNCHANGED <<hosts, owner, stops, registered, reports, overtaken>>

-----------------------------------------------------------------------------
(* startDispatchHost *)

GoTo(c, place) ==
  /\ at' = [at EXCEPT ![c] = place]
  /\ UNCHANGED <<owner, stops, waits, reports, overtaken>>

Enter(c) ==
  /\ at[c] = "enter"
  /\ GoTo(c, IF dispatchHost = None THEN "create" ELSE "complete")
  /\ UNCHANGED hosts

(***************************************************************************)
(* GatewayDispatchHost.create(configHost.getUri()): without a configHost,  *)
(* a NullPointerException.                                                 *)
(***************************************************************************)
Create(c) ==
  /\ at[c] = "create"
  /\ IF configHost = None
     THEN GoTo(c, "catch") /\ UNCHANGED hosts
     ELSE /\ GoTo(c, "initialize")
          /\ dispatch' = [dispatch EXCEPT ![c] = "created"]
          /\ dispatchHost' = c
          /\ UNCHANGED <<configHost, config>>

(***************************************************************************)
(* The lines that go on through the field: they fail if a stop has cleared *)
(* it, and initializing and starting may fail for reasons of their own.    *)
(***************************************************************************)
Initialize(c) ==
  /\ at[c] = "initialize"
  /\ \/ GoTo(c, "catch")
     \/ dispatchHost # None /\ GoTo(c, "start")
  /\ UNCHANGED hosts

StartHost(c) ==
  /\ at[c] = "start"
  /\ \/ /\ GoTo(c, "catch")
        /\ UNCHANGED hosts
     \/ /\ dispatchHost # None
        /\ GoTo(c, "log")
        /\ dispatch' = [dispatch EXCEPT ![dispatchHost] = "running"]
        /\ UNCHANGED <<configHost, dispatchHost, config>>

LogStarted(c) ==
  /\ at[c] = "log"
  /\ GoTo(c, IF dispatchHost = None THEN "catch" ELSE "complete")
  /\ UNCHANGED hosts

(***************************************************************************)
(* Mutant: a failure is not reported.                                      *)
(***************************************************************************)
CatchQuietly(c) ==
  /\ at[c] = "catch"
  /\ GoTo(c, IF configHost = None THEN "threw" ELSE "complete")
  /\ UNCHANGED hosts

(***************************************************************************)
(* The catch block logs through configHost; without one it throws itself,  *)
(* and nobody is told.                                                     *)
(***************************************************************************)
Catch(c) ==
  /\ at[c] = "catch"
  /\ at' = [at EXCEPT ![c] = IF configHost = None THEN "threw" ELSE "complete"]
  /\ reports' = IF configHost = None THEN reports
                ELSE [reports EXCEPT ![c] = Append(@, "failure")]
  /\ UNCHANGED <<hosts, owner, stops, waits, overtaken>>

(***************************************************************************)
(* The last lines report success, whether or not a failure was reported.   *)
(***************************************************************************)
Complete(c) ==
  /\ at[c] = "complete"
  /\ at' = [at EXCEPT ![c] = "returned"]
  /\ reports' = [reports EXCEPT ![c] = Append(@, "success")]
  /\ UNCHANGED <<hosts, owner, stops, waits, overtaken>>

StartDispatchHost(c) ==
  \/ Enter(c)
  \/ Create(c)
  \/ Initialize(c)
  \/ StartHost(c)
  \/ LogStarted(c)
  \/ Catch(c)
  \/ Complete(c)

-----------------------------------------------------------------------------
(* stop *)

(***************************************************************************)
(* ServiceHost.stop, which does nothing to a host that is not started.     *)
(***************************************************************************)
StopIfRunning(state, h) ==
  IF h # None /\ state[h] = "running" THEN [state EXCEPT ![h] = "stopped"] ELSE state

UnderWay == {c \in Starts : at[c] \notin Ended}

(***************************************************************************)
(* Mutant: the dispatch host is let go of, but not stopped.                *)
(***************************************************************************)
LetGo ==
  /\ owner = "started"
  /\ stops < MaxStops
  /\ stops' = stops + 1
  /\ owner' = IF dispatchHost # None THEN "clearDispatch" ELSE "stopConfig"
  /\ overtaken' = overtaken \cup UnderWay
  /\ UNCHANGED <<hosts, waits, at, reports>>

(***************************************************************************)
(* stop looks for a dispatch host once: it stops the one it finds, and     *)
(* then clears the field; then it does the same with the config host.      *)
(***************************************************************************)
Stop ==
  /\ owner = "started"
  /\ stops < MaxStops
  /\ stops' = stops + 1
  /\ owner' = IF dispatchHost # None THEN "clearDispatch" ELSE "stopConfig"
  /\ dispatch' = StopIfRunning(dispatch, dispatchHost)
  /\ overtaken' = overtaken \cup UnderWay
  /\ UNCHANGED <<configHost, dispatchHost, config, waits, at, reports>>

ClearDispatch ==
  /\ owner = "clearDispatch"
  /\ owner' = "stopConfig"
  /\ dispatchHost' = None
  /\ UNCHANGED <<configHost, config, dispatch, stops, waits, at, reports, overtaken>>

StopConfig ==
  /\ owner = "stopConfig"
  /\ owner' = "clearConfig"
  /\ config' = StopIfRunning(config, configHost)
  /\ UNCHANGED <<configHost, dispatchHost, dispatch, stops, waits, at, reports, overtaken>>

ClearConfig ==
  /\ owner = "clearConfig"
  /\ owner' = "stopped"
  /\ configHost' = None
  /\ UNCHANGED <<dispatchHost, config, dispatch, stops, waits, at, reports, overtaken>>

Stopping == ClearDispatch \/ StopConfig \/ ClearConfig

-----------------------------------------------------------------------------
CallStep(c) ==
  \/ Start(c)
  \/ StartThrows(c)
  \/ \E f \in Factories : FactoryCallback(c, f)
  \/ StartDispatchHost(c)

Next == (\E c \in Starts : CallStep(c)) \/ Stop \/ Stopping

(***************************************************************************)
(* Threads that have been started run on.  A config host that runs calls   *)
(* back for every factory, if only because the wait expires; nothing of    *)
(* the kind is assumed of one that was stopped.                            *)
(***************************************************************************)
CalledBack(c, f) ==
  /\ at[c] = "waiting"
  /\ config[registered[c]] = "running"
  /\ FactoryCallback(c, f)

Fairness ==
  /\ \A c \in Starts : WF_vars(StartDispatchHost(c))
  /\ \A c \in Starts, f \in Factories : WF_vars(CalledBack(c, f))
  /\ WF_vars(Stopping)

Spec == Init /\ [][Next]_vars /\ Fairness

-----------------------------------------------------------------------------
(* Properties *)

(***************************************************************************)
(* A dispatch host is only created for a call of start that has been told  *)
(* of every factory (not that each is available: errors count, too).       *)
(***************************************************************************)
DispatchAfterCallbacks ==
  \A c \in Starts :
    dispatch[c] # "none" => \A f \in Factories : factory[c][f] # "unknown"

(***************************************************************************)
(* As long as no stop overtook a start: the first report of the start in   *)
(* force says whether its dispatch host runs.  (After a failure there is a *)
(* second report, of success.)                                             *)
(***************************************************************************)
FirstReportIsTrue ==
  \A c \in Starts :
    (/\ owner = "started"
     /\ overtaken = {}
     /\ at[c] = "returned"
     /\ registered[c] = configHost) =>
      (reports[c][1] = "success" <=> dispatch[c] = "running")

(***************************************************************************)
(* After stop no config host runs, and as long as no stop overtook a       *)
(* start, no dispatch host does.                                           *)
(***************************************************************************)
CleanStop ==
  owner = "stopped" =>
    /\ \A c \in Starts : config[c] # "running"
    /\ overtaken = {} => \A c \in Starts : dispatch[c] # "running"

(***************************************************************************)
(* After stop, and once every start has ended, neither host runs: the      *)
(* class "is responsible for starting and stopping both Gateway hosts".    *)
(***************************************************************************)
StopsBothHosts ==
  (owner = "stopped" /\ UnderWay = {}) =>
    \A c \in Starts : config[c] # "running" /\ dispatch[c] # "running"

(***************************************************************************)
(* A start that was registered comes to its end and reports, unless a stop *)
(* overtook it.                                                            *)
(***************************************************************************)
StartsReturn ==
  \A c \in Starts :
    at[c] = "waiting" ~> (c \in overtaken \/ (at[c] = "returned" /\ reports[c] # << >>))

=============================================================================
