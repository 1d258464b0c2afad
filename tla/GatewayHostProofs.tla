-------------------------- MODULE GatewayHostProofs --------------------------
(***************************************************************************)
(* Starting and stopping the hosts of a gateway: what holds for any number *)
(* of calls, stops and factories.                                          *)
(***************************************************************************)
EXTENDS GatewayHost, FiniteSetTheorems, TLAPS

(***************************************************************************)
(* The latch of start counts the factories it has not been told of, and    *)
(* startDispatchHost runs once there is none left.                         *)
(***************************************************************************)
Untold(c) == {f \in Factories : factory[c][f] = "unknown"}

LatchInv ==
  /\ \A c \in Starts :
       /\ count[c] = Cardinality(Untold(c))
       /\ at[c] \notin {"idle", "waiting", "threw"} => Untold(c) = {}
       /\ dispatch[c] # "none" => Untold(c) = {}
  /\ dispatchHost # None => dispatch[dispatchHost] # "none"

(***************************************************************************)
(* The one config host that runs is the one of the field.                  *)
(***************************************************************************)
ConfigInv ==
  /\ owner = "stopped" => configHost = None
  /\ owner = "started" => configHost # None
  /\ \A c \in Starts :
       /\ config[c] = "running" =>
            configHost = c /\ owner \in {"started", "clearDispatch", "stopConfig"}
       /\ registered[c] \in {None, c}

(***************************************************************************)
(* As long as no stop has overtaken a start, one call is under way at      *)
(* most, the field holds its host, and a host that runs is in the field.   *)
(***************************************************************************)
Before == {"waiting", "enter", "create"}
Within == {"initialize", "start", "log"}

QuietInv ==
  /\ owner # "started" => UnderWay = {}
  /\ \A c, d \in UnderWay : c = d
  /\ owner \in {"stopped", "stopConfig", "clearConfig"} => dispatchHost = None
  /\ \A c \in Starts :
       /\ at[c] \in Before => dispatchHost = None
       /\ at[c] \in Within => dispatchHost = c
       /\ at[c] \in Before \cup {"initialize", "start", "catch"} => dispatch[c] # "running"
       /\ at[c] = "log" => dispatch[c] = "running"
       /\ dispatch[c] = "running" => dispatchHost = c /\ owner = "started"

(***************************************************************************)
(* And what a call reports first is what has become of its host.           *)
(***************************************************************************)
TrueReport(c) ==
  /\ reports[c] # << >>
  /\ reports[c][1] = "success" <=> dispatch[c] = "running"

ReportInv ==
  \A c \in Starts :
    /\ at[c] = "complete" =>
         \/ reports[c] = << >> /\ dispatch[c] = "running"
         \/ reports[c] = <<"failure">> /\ dispatch[c] # "running"
    /\ at[c] = "returned" /\ owner = "started" /\ registered[c] = configHost => TrueReport(c)

Silent ==
  \A c \in Starts : at[c] \notin {"complete", "returned", "threw"} => reports[c] = << >>

IInv ==
  /\ TypeOK
  /\ LatchInv
  /\ ConfigInv
  /\ Silent
  /\ overtaken = {} => QuietInv /\ ReportInv

-----------------------------------------------------------------------------
(***************************************************************************)
(* Before the first start, the invariant holds.                            *)
(***************************************************************************)
LEMMA InitInv == Init => IInv
<1> SUFFICES ASSUME Init PROVE IInv
  OBVIOUS
<1>1. Cardinality(Factories) \in Nat
  BY HostAssumption, FS_CardinalityType
<1>2. TypeOK
  BY <1>1, HostAssumption DEF Init, TypeOK, HostState, Places, Ended
<1>3. LatchInv
  <2>1. ASSUME NEW c \in Starts PROVE Untold(c) = Factories
    BY <2>1 DEF Init, Untold
  <2> QED BY <2>1 DEF Init, LatchInv
<1>4. ConfigInv /\ Silent /\ QuietInv /\ ReportInv
  BY HostAssumption
     DEF Init, ConfigInv, Silent, QuietInv, ReportInv, UnderWay, Ended, Before, Within
<1> QED BY <1>2, <1>3, <1>4 DEF IInv

(***************************************************************************)
(* start is only called once everything of the calls before it is over, or *)
(* a stop has overtaken one.                                               *)
(***************************************************************************)
LEMMA StartInv ==
  ASSUME IInv, NEW c \in Starts, Start(c) \/ StartThrows(c)
  PROVE  IInv'
<1> USE DEF IInv
<1>1. /\ owner = "stopped" /\ owner' = "started" /\ at[c] = "idle"
      /\ configHost = None /\ configHost' = c
      /\ \E state \in {"created", "running"} : config' = [config EXCEPT ![c] = state]
      /\ \E h \in {registered[c], c} : registered' = [registered EXCEPT ![c] = h]
      /\ \E place \in {"waiting", "threw"} : at' = [at EXCEPT ![c] = place]
      /\ UNCHANGED <<dispatchHost, dispatch, stops, factory, count, reports, overtaken>>
  <2>1. owner = "stopped" /\ configHost = None
    BY DEF Start, StartThrows, ConfigInv
  <2>2. registered = [registered EXCEPT ![c] = registered[c]]
    BY DEF TypeOK
  <2> QED BY <2>1, <2>2 DEF Start, StartThrows, waits
<1>2. TypeOK'
  <2>1. registered' \in [Starts -> Starts \cup {None}]
    BY <1>1 DEF TypeOK
  <2>2. config' \in [Starts -> HostState] /\ at' \in [Starts -> Places]
    BY <1>1 DEF TypeOK, HostState, Places, Ended
  <2> QED BY <1>1, <2>1, <2>2 DEF TypeOK
<1>3. LatchInv'
  <2>1. \A d \in Starts : Untold(d)' = Untold(d)
    BY <1>1 DEF Untold
  <2>2. \A d \in Starts : at'[d] \notin {"idle", "waiting", "threw"} => at'[d] = at[d]
    BY <1>1 DEF TypeOK
  <2> QED BY <1>1, <2>1, <2>2 DEF LatchInv
<1>4. ConfigInv'
  BY <1>1, HostAssumption DEF ConfigInv, TypeOK
<1>5. Silent'
  BY <1>1 DEF Silent, TypeOK
<1>6. ASSUME overtaken' = {} PROVE QuietInv' /\ ReportInv'
  <2>1. overtaken = {} /\ QuietInv /\ ReportInv
    BY <1>1, <1>6
  <2>2. UnderWay = {} /\ dispatchHost = None
    BY <1>1, <2>1 DEF QuietInv
  <2>3. UnderWay' \subseteq {c}
    BY <1>1, <2>2 DEF UnderWay, TypeOK, Ended
  <2>4. \A d \in Starts : dispatch[d] # "running"
    BY <2>1, <2>2, HostAssumption DEF QuietInv
  <2>5. \A d \in Starts : d # c => at'[d] = at[d] /\ at[d] \in Ended
    BY <1>1, <2>2 DEF UnderWay, TypeOK
  <2>6. at'[c] \in {"waiting", "threw"}
    BY <1>1 DEF TypeOK
  <2>7. QuietInv'
    BY <1>1, <2>2, <2>3, <2>4, <2>5, <2>6 DEF QuietInv, Before, Within, Ended
  <2>8. \A d \in Starts : d # c => registered'[d] # configHost'
    BY <1>1, HostAssumption DEF ConfigInv, TypeOK
  <2>9. ReportInv'
    BY <2>5, <2>6, <2>8 DEF ReportInv, Ended
  <2> QED BY <2>7, <2>9
<1> QED BY <1>2, <1>3, <1>4, <1>5, <1>6

(***************************************************************************)
(* A callback takes one factory from those the call waits for.             *)
(***************************************************************************)
LEMMA CallbackInv ==
  ASSUME IInv, NEW c \in Starts, NEW f \in Factories, FactoryCallback(c, f)
  PROVE  IInv'
<1> USE DEF IInv
<1>1. PICK outcome \in {"available", "error"} :
        factory' = [factory EXCEPT ![c][f] = outcome]
  BY DEF FactoryCallback, Reported
<1>2. /\ at[c] = "waiting" /\ factory[c][f] = "unknown"
      /\ count' = [count EXCEPT ![c] = @ - 1]
      /\ at' = IF count'[c] = 0 THEN [at EXCEPT ![c] = "enter"] ELSE at
      /\ UNCHANGED <<hosts, owner, stops, registered, reports, overtaken>>
  BY DEF FactoryCallback
<1>3. /\ Untold(c)' = Untold(c) \ {f} /\ f \in Untold(c)
      /\ \A d \in Starts : d # c => Untold(d)' = Untold(d)
  BY <1>1, <1>2 DEF Untold, TypeOK
<1>4. /\ IsFiniteSet(Untold(c)) /\ Cardinality(Untold(c)) \in Nat
      /\ Cardinality(Untold(c)) <= Cardinality(Factories)
      /\ IsFiniteSet(Untold(c)') /\ Cardinality(Untold(c)') = Cardinality(Untold(c)) - 1
      /\ Cardinality(Untold(c)') \in Nat
      /\ Cardinality(Untold(c)') = 0 => Untold(c)' = {}
  <2>1. /\ IsFiniteSet(Untold(c)) /\ Cardinality(Untold(c)) \in Nat
        /\ Cardinality(Untold(c)) <= Cardinality(Factories)
    BY HostAssumption, FS_Subset, FS_CardinalityType DEF Untold
  <2>2. /\ IsFiniteSet(Untold(c) \ {f})
        /\ Cardinality(Untold(c) \ {f}) = Cardinality(Untold(c)) - 1
    BY <1>3, <2>1, FS_RemoveElement
  <2>3. /\ Cardinality(Untold(c) \ {f}) \in Nat
        /\ Cardinality(Untold(c) \ {f}) = 0 => Untold(c) \ {f} = {}
    BY <2>2, FS_CardinalityType, FS_EmptySet
  <2> QED BY <1>3, <2>1, <2>2, <2>3
<1>5. /\ count'[c] = Cardinality(Untold(c)')
      /\ \A d \in Starts : d # c => count'[d] = count[d]
  BY <1>2, <1>4 DEF LatchInv, TypeOK
<1>6. /\ at'[c] \in {"waiting", "enter"}
      /\ at'[c] = "enter" => Untold(c)' = {}
      /\ \A d \in Starts : d # c => at'[d] = at[d]
      /\ at' \in [Starts -> Places]
  BY <1>2, <1>4, <1>5 DEF TypeOK, Places, Ended
<1>7. TypeOK'
  <2>1. count' \in [Starts -> 0 .. Cardinality(Factories)]
    <3>1. Cardinality(Factories) \in Nat
      BY HostAssumption, FS_CardinalityType
    <3>2. Cardinality(Untold(c)') \in 0 .. Cardinality(Factories)
      BY <1>4, <3>1
    <3> QED BY <1>2, <1>5, <3>2 DEF TypeOK
  <2>2. factory' \in [Starts -> [Factories -> {"unknown", "available", "error"}]]
    BY <1>1 DEF TypeOK
  <2> QED BY <1>2, <1>6, <2>1, <2>2 DEF TypeOK, hosts
<1>8. LatchInv'
  <2>1. ASSUME NEW d \in Starts
        PROVE  /\ count'[d] = Cardinality(Untold(d)')
               /\ at'[d] \notin {"idle", "waiting", "threw"} => Untold(d)' = {}
               /\ dispatch[d] # "none" => Untold(d)' = {}
    BY <1>3, <1>5, <1>6 DEF LatchInv
  <2> QED BY <1>2, <2>1 DEF LatchInv, hosts
<1>9. ConfigInv' /\ Silent'
  BY <1>2, <1>6 DEF ConfigInv, Silent, hosts
<1>10. ASSUME overtaken' = {} PROVE QuietInv' /\ ReportInv'
  <2>1. overtaken = {} /\ QuietInv /\ ReportInv
    BY <1>2, <1>10
  <2>2. UnderWay' = UnderWay
    BY <1>2, <1>6 DEF UnderWay, Ended
  <2>3. QuietInv'
    BY <1>2, <1>6, <2>1, <2>2 DEF QuietInv, Before, Within, hosts
  <2>4. ReportInv'
    BY <1>2, <1>6, <2>1 DEF ReportInv, TrueReport, hosts
  <2> QED BY <2>3, <2>4
<1> QED BY <1>7, <1>8, <1>9, <1>10

-----------------------------------------------------------------------------
(* startDispatchHost *)

Running == {"enter", "create", "initialize", "start", "log", "catch", "complete"}

(***************************************************************************)
(* As long as no stop has overtaken it, a call is alone.                   *)
(***************************************************************************)
LEMMA Alone ==
  ASSUME IInv, NEW c \in Starts, at[c] \in Running, overtaken = {}
  PROVE  /\ QuietInv /\ ReportInv
         /\ owner = "started" /\ configHost # None
         /\ UnderWay = {c}
         /\ \A d \in Starts : d # c => at[d] \in Ended
<1>1. QuietInv /\ ReportInv
  BY DEF IInv
<1>2. c \in UnderWay
  BY DEF UnderWay, Running, Ended
<1>3. UnderWay = {c} /\ owner = "started"
  BY <1>1, <1>2 DEF QuietInv
<1> QED BY <1>1, <1>3 DEF IInv, ConfigInv, UnderWay

(***************************************************************************)
(* Whatever a line of startDispatchHost does to the dispatch hosts and the *)
(* reports, it keeps the types, the config hosts and the latches.          *)
(***************************************************************************)
LEMMA LineKeeps ==
  ASSUME IInv, NEW c \in Starts, at[c] \in Running,
         NEW place \in (Running \ {"enter"}) \cup {"returned", "threw"},
         at' = [at EXCEPT ![c] = place],
         UNCHANGED <<configHost, config, owner, stops, waits, overtaken>>,
         dispatchHost' \in Starts \cup {None},
         dispatch' \in [Starts -> HostState],
         \A d \in Starts : (d # c /\ dispatch'[d] # "none") => dispatch[d] # "none",
         dispatchHost' # None => dispatch'[dispatchHost'] # "none",
         reports' \in [Starts -> Seq({"success", "failure"})]
  PROVE  /\ TypeOK' /\ ConfigInv' /\ LatchInv'
         /\ at'[c] = place
         /\ \A d \in Starts : d # c => at'[d] = at[d]
<1>1. at'[c] = place /\ \A d \in Starts : d # c => at'[d] = at[d]
  BY DEF IInv, TypeOK
<1>2. TypeOK'
  BY DEF IInv, TypeOK, waits, Running, Places, Ended
<1>3. ConfigInv'
  BY DEF IInv, ConfigInv, waits
<1>4. LatchInv'
  <2>1. \A d \in Starts : Untold(d)' = Untold(d)
    BY DEF Untold, waits
  <2>2. Untold(c) = {}
    BY DEF IInv, LatchInv, Running
  <2>3. ASSUME NEW d \in Starts
        PROVE  /\ count'[d] = Cardinality(Untold(d))
               /\ at'[d] \notin {"idle", "waiting", "threw"} => Untold(d) = {}
               /\ dispatch'[d] # "none" => Untold(d) = {}
    BY <1>1, <2>2 DEF IInv, LatchInv, waits
  <2> QED BY <2>1, <2>3 DEF LatchInv
<1> QED BY <1>1, <1>2, <1>3, <1>4

(***************************************************************************)
(* A line that leaves the hosts alone.                                     *)
(***************************************************************************)
LEMMA GoToInv ==
  ASSUME IInv, NEW c \in Starts, at[c] \in Running,
         NEW place \in Running \ {"enter"},
         GoTo(c, place), UNCHANGED hosts,
         overtaken = {} =>
           \/ at[c] = "enter" /\ place = "create"
           \/ at[c] \in {"initialize", "start"} /\ place \in {"start", "catch"}
           \/ at[c] = "log" /\ place = "complete",
         at[c] \notin {"catch", "complete"}
  PROVE  IInv'
<1>1. /\ TypeOK' /\ ConfigInv' /\ LatchInv'
      /\ at'[c] = place /\ \A d \in Starts : d # c => at'[d] = at[d]
  BY LineKeeps DEF GoTo, hosts, IInv, TypeOK, LatchInv
<1>2. Silent'
  BY <1>1 DEF IInv, Silent, GoTo, Running
<1>3. ASSUME overtaken' = {} PROVE QuietInv' /\ ReportInv'
  <2>1. overtaken = {}
    BY <1>3 DEF GoTo
  <2>2. /\ QuietInv /\ ReportInv /\ owner = "started" /\ UnderWay = {c}
        /\ \A d \in Starts : d # c => at[d] \in Ended
    BY <2>1, Alone
  <2>3. UnderWay' \subseteq {c}
    BY <1>1, <2>2 DEF UnderWay
  <2>4. UNCHANGED <<configHost, dispatchHost, dispatch, owner, registered, reports>>
    BY DEF GoTo, hosts, waits
  <2>5. QuietInv'
    BY <1>1, <2>1, <2>2, <2>3, <2>4 DEF QuietInv, Before, Within, Ended
  <2>6. at[c] = "log" => reports[c] = << >> /\ dispatch[c] = "running"
    BY <2>2 DEF IInv, Silent, QuietInv
  <2>7. ReportInv'
    BY <1>1, <2>1, <2>2, <2>4, <2>6 DEF ReportInv, TrueReport, Running
  <2> QED BY <2>5, <2>7
<1> QED BY <1>1, <1>2, <1>3 DEF IInv

(***************************************************************************)
(* A dispatch host is created: until then, and until it is started, none   *)
(* of the call runs.                                                       *)
(***************************************************************************)
LEMMA CreateInv == ASSUME IInv, NEW c \in Starts, Create(c) PROVE IInv'
<1>1. CASE configHost = None
  <2>1. at[c] = "create" /\ GoTo(c, "catch") /\ UNCHANGED hosts
    BY <1>1 DEF Create
  <2>2. overtaken # {}
    BY <1>1, <2>1, Alone DEF Running
  <2> QED BY <2>1, <2>2, GoToInv DEF Running
<1>2. CASE configHost # None
  <2>1. /\ at[c] = "create" /\ GoTo(c, "initialize")
        /\ dispatch' = [dispatch EXCEPT ![c] = "created"] /\ dispatchHost' = c
        /\ UNCHANGED <<configHost, config>>
    BY <1>2 DEF Create
  <2>2. /\ dispatch' \in [Starts -> HostState] /\ dispatch'[c] = "created"
        /\ \A d \in Starts : d # c => dispatch'[d] = dispatch[d]
    BY <2>1 DEF IInv, TypeOK, HostState
  <2>3. /\ TypeOK' /\ ConfigInv' /\ LatchInv'
        /\ at'[c] = "initialize" /\ \A d \in Starts : d # c => at'[d] = at[d]
    BY <2>1, <2>2, LineKeeps DEF GoTo, Running, IInv, TypeOK
  <2>4. Silent'
    BY <2>1, <2>3 DEF IInv, Silent, GoTo
  <2>5. ASSUME overtaken' = {} PROVE QuietInv' /\ ReportInv'
    <3>1. overtaken = {} /\ UNCHANGED <<owner, registered, reports>>
      BY <2>1, <2>5 DEF GoTo, waits
    <3>2. /\ QuietInv /\ ReportInv /\ owner = "started" /\ UnderWay = {c}
          /\ \A d \in Starts : d # c => at[d] \in Ended
      BY <2>1, <3>1, Alone DEF Running
    <3>3. UnderWay' \subseteq {c}
      BY <2>3, <3>2 DEF UnderWay
    <3>4. \A d \in Starts : dispatch'[d] # "running"
      BY <2>1, <2>2, <3>2, HostAssumption DEF QuietInv, Before
    <3>5. QuietInv'
      BY <2>1, <2>3, <3>1, <3>2, <3>3, <3>4 DEF QuietInv, Before, Within, Ended
    <3>6. \A d \in Starts : dispatch[d] # "running"
      BY <2>1, <3>2, HostAssumption DEF QuietInv, Before
    <3>7. ReportInv'
      BY <2>1, <2>3, <3>1, <3>2, <3>4, <3>6 DEF ReportInv, TrueReport
    <3> QED BY <3>5, <3>7
  <2> QED BY <2>3, <2>4, <2>5 DEF IInv
<1> QED BY <1>1, <1>2

(***************************************************************************)
(* A dispatch host is started: the one of the field, which is that of the  *)
(* call unless a stop has overtaken it.                                    *)
(***************************************************************************)
LEMMA StartHostInv == ASSUME IInv, NEW c \in Starts, StartHost(c) PROVE IInv'
<1>1. CASE GoTo(c, "catch") /\ UNCHANGED hosts
  BY <1>1, GoToInv DEF StartHost, Running
<1>2. CASE /\ dispatchHost # None /\ GoTo(c, "log")
           /\ dispatch' = [dispatch EXCEPT ![dispatchHost] = "running"]
           /\ UNCHANGED <<configHost, dispatchHost, config>>
  <2>1. at[c] = "start" /\ dispatchHost \in Starts /\ dispatch[dispatchHost] # "none"
    BY <1>2 DEF StartHost, IInv, TypeOK, LatchInv
  <2>2. /\ dispatch' \in [Starts -> HostState] /\ dispatch'[dispatchHost] = "running"
        /\ \A d \in Starts : d # dispatchHost => dispatch'[d] = dispatch[d]
    BY <1>2, <2>1 DEF IInv, TypeOK, HostState
  <2>3. /\ TypeOK' /\ ConfigInv' /\ LatchInv'
        /\ at'[c] = "log" /\ \A d \in Starts : d # c => at'[d] = at[d]
    BY <1>2, <2>1, <2>2, LineKeeps DEF GoTo, Running, IInv, TypeOK
  <2>4. Silent'
    BY <1>2, <2>1, <2>3 DEF IInv, Silent, GoTo
  <2>5. ASSUME overtaken' = {} PROVE QuietInv' /\ ReportInv'
    <3>1. overtaken = {} /\ UNCHANGED <<owner, registered, reports>>
      BY <1>2, <2>5 DEF GoTo, waits
    <3>2. /\ QuietInv /\ ReportInv /\ owner = "started" /\ UnderWay = {c}
          /\ \A d \in Starts : d # c => at[d] \in Ended
      BY <2>1, <3>1, Alone DEF Running
    <3>3. UnderWay' \subseteq {c}
      BY <2>3, <3>2 DEF UnderWay
    <3>4. dispatchHost = c
      BY <2>1, <3>2 DEF QuietInv, Within
    <3>5. QuietInv'
      BY <1>2, <2>2, <2>3, <3>1, <3>2, <3>3, <3>4 DEF QuietInv, Before, Within, Ended
    <3>6. ReportInv'
      BY <1>2, <2>2, <2>3, <3>1, <3>2, <3>4 DEF ReportInv, TrueReport
    <3> QED BY <3>5, <3>6
  <2> QED BY <2>3, <2>4, <2>5 DEF IInv
<1> QED BY <1>1, <1>2 DEF StartHost

(***************************************************************************)
(* A report: of a failure, if the host of the call does not run, and then  *)
(* of success.                                                             *)
(***************************************************************************)
LEMMA ReportingInv ==
  ASSUME IInv, NEW c \in Starts, Catch(c) \/ Complete(c)
  PROVE  IInv'
<1> DEFINE place == at'[c]
<1>1. /\ at[c] = "catch" => /\ at' = [at EXCEPT ![c] = place]
                            /\ place = IF configHost = None THEN "threw" ELSE "complete"
                            /\ reports' = IF configHost = None THEN reports
                                 ELSE [reports EXCEPT ![c] = Append(@, "failure")]
      /\ at[c] # "catch" => /\ at[c] = "complete"
                            /\ at' = [at EXCEPT ![c] = place]
                            /\ place = "returned"
                            /\ reports' = [reports EXCEPT ![c] = Append(@, "success")]
      /\ UNCHANGED <<hosts, owner, stops, waits, overtaken>>
  BY DEF Catch, Complete, IInv, TypeOK
<1>2. reports \in [Starts -> Seq({"success", "failure"})]
  BY DEF IInv, TypeOK
<1>3. reports' \in [Starts -> Seq({"success", "failure"})]
  <2>1. \A s \in Seq({"success", "failure"}), x \in {"success", "failure"} :
          Append(s, x) \in Seq({"success", "failure"})
    OBVIOUS
  <2> HIDE DEF place
  <2> QED BY <1>1, <1>2, <2>1
<1>4. /\ TypeOK' /\ ConfigInv' /\ LatchInv'
      /\ \A d \in Starts : d # c => at'[d] = at[d]
  <2>1. at[c] \in Running /\ place \in (Running \ {"enter"}) \cup {"returned", "threw"}
    BY <1>1 DEF Running
  <2>2. at' = [at EXCEPT ![c] = place]
    BY <1>1
  <2>3. /\ dispatchHost' \in Starts \cup {None} /\ dispatch' \in [Starts -> HostState]
        /\ dispatch' = dispatch /\ dispatchHost' = dispatchHost
        /\ UNCHANGED <<configHost, config, owner, stops, waits, overtaken>>
        /\ dispatchHost # None => dispatch[dispatchHost] # "none"
    BY <1>1 DEF hosts, IInv, TypeOK, LatchInv
  <2> HIDE DEF place
  <2> QED BY <1>3, <2>1, <2>2, <2>3, LineKeeps
<1>5. \A d \in Starts : d # c => reports'[d] = reports[d]
  BY <1>1, <1>2
<1>6. Silent'
  BY <1>1, <1>4, <1>5 DEF IInv, Silent
<1>7. ASSUME overtaken' = {} PROVE QuietInv' /\ ReportInv'
  <2>1. overtaken = {} /\ UNCHANGED <<configHost, dispatchHost, dispatch, owner, registered>>
    BY <1>1, <1>7 DEF hosts, waits
  <2>2. /\ QuietInv /\ ReportInv /\ owner = "started" /\ UnderWay = {c}
        /\ configHost # None /\ \A d \in Starts : d # c => at[d] \in Ended
    BY <1>1, <2>1, Alone DEF Running
  <2>3. UnderWay' \subseteq {c}
    BY <1>4, <2>2 DEF UnderWay
  <2>4. QuietInv'
    BY <1>1, <1>4, <2>1, <2>2, <2>3 DEF QuietInv, Before, Within, Ended
  <2>5. CASE at[c] = "catch"
    <3>1. reports[c] = << >> /\ dispatch[c] # "running"
      BY <2>2, <2>5 DEF IInv, Silent, QuietInv
    <3>2. reports'[c] = <<"failure">> /\ at'[c] = "complete"
      BY <1>1, <1>2, <2>2, <2>5, <3>1
    <3> QED BY <1>4, <1>5, <2>1, <2>2, <2>4, <3>1, <3>2 DEF ReportInv, TrueReport
  <2>6. CASE at[c] = "complete"
    <3>1. /\ reports'[c] = Append(reports[c], "success") /\ at'[c] = "returned"
          /\ reports[c] \in Seq({"success", "failure"})
      BY <1>1, <1>2, <2>6
    <3>2. CASE reports[c] = << >> /\ dispatch[c] = "running"
      <4>1. reports'[c] # << >> /\ reports'[c][1] = "success"
        BY <3>1, <3>2
      <4> QED BY <2>1, <3>2, <4>1, <1>4, <1>5, <2>2, <2>4, <3>1 DEF ReportInv, TrueReport
    <3>3. CASE reports[c] = <<"failure">> /\ dispatch[c] # "running"
      <4>1. reports'[c] # << >> /\ reports'[c][1] = "failure"
        BY <3>1, <3>3
      <4> QED BY <2>1, <3>3, <4>1, <1>4, <1>5, <2>2, <2>4, <3>1 DEF ReportInv, TrueReport
    <3> QED BY <2>2, <2>6, <3>2, <3>3 DEF ReportInv
  <2> QED BY <1>1, <2>5, <2>6
<1> QED BY <1>4, <1>6, <1>7 DEF IInv

(***************************************************************************)
(* Every line of startDispatchHost keeps the invariant.                    *)
(***************************************************************************)
LEMMA LinesInv == ASSUME IInv, NEW c \in Starts, StartDispatchHost(c) PROVE IInv'
<1>1. CASE Enter(c)
  <2>1. CASE dispatchHost = None
    BY <1>1, <2>1, GoToInv DEF Enter, Running
  <2>2. CASE dispatchHost # None
    <3>1. overtaken # {}
      BY <1>1, <2>2, Alone DEF Enter, Running, QuietInv, Before
    <3> QED BY <1>1, <2>2, <3>1, GoToInv DEF Enter, Running
  <2> QED BY <2>1, <2>2
<1>2. CASE Initialize(c)
  BY <1>2, GoToInv DEF Initialize, Running
<1>3. CASE LogStarted(c)
  <2>1. CASE dispatchHost # None
    BY <1>3, <2>1, GoToInv DEF LogStarted, Running
  <2>2. CASE dispatchHost = None
    <3>1. overtaken # {}
      BY <1>3, <2>2, Alone, HostAssumption DEF LogStarted, Running, QuietInv, Within
    <3> QED BY <1>3, <2>2, <3>1, GoToInv DEF LogStarted, Running
  <2> QED BY <2>1, <2>2
<1> QED BY <1>1, <1>2, <1>3, CreateInv, StartHostInv, ReportingInv DEF StartDispatchHost

-----------------------------------------------------------------------------
(* stop *)

(***************************************************************************)
(* stop stops the host of the field, which is the one that runs, and then  *)
(* clears the field, for each of the two.                                  *)
(***************************************************************************)
LEMMA StopInv == IInv /\ (Stop \/ Stopping) => IInv'
<1> SUFFICES ASSUME IInv, Stop \/ Stopping PROVE IInv'
  OBVIOUS
<1>1. UNCHANGED <<waits, at, reports>> /\ (Stopping => UNCHANGED <<stops, overtaken>>)
  BY DEF Stop, Stopping, ClearDispatch, StopConfig, ClearConfig
<1>2. /\ dispatch' \in [Starts -> HostState] /\ config' \in [Starts -> HostState]
      /\ \A c \in Starts : /\ dispatch'[c] # "none" => dispatch[c] # "none"
                           /\ dispatch[c] # "none" => dispatch'[c] # "none"
                           /\ dispatch'[c] = "running" => dispatch[c] = "running"
                           /\ config'[c] = "running" => config[c] = "running"
  BY DEF Stop, Stopping, ClearDispatch, StopConfig, ClearConfig, StopIfRunning, IInv, TypeOK,
         HostState
<1>3. TypeOK'
  <2>1. stops' \in 0 .. MaxStops
    BY <1>1, HostAssumption DEF Stop, IInv, TypeOK
  <2>2. /\ owner' \in {"stopped", "started", "clearDispatch", "stopConfig", "clearConfig"}
        /\ configHost' \in {configHost, None} /\ dispatchHost' \in {dispatchHost, None}
    BY DEF Stop, Stopping, ClearDispatch, StopConfig, ClearConfig
  <2>3. overtaken' \subseteq Starts
    BY <1>1 DEF Stop, UnderWay, IInv, TypeOK
  <2> QED BY <1>1, <1>2, <2>1, <2>2, <2>3 DEF IInv, TypeOK, waits
<1>4. LatchInv'
  <2>1. dispatchHost' \in {None, dispatchHost}
    BY DEF Stop, Stopping, ClearDispatch, StopConfig, ClearConfig
  <2>2. \A c \in Starts : Untold(c)' = Untold(c)
    BY <1>1 DEF Untold, waits
  <2>3. dispatchHost' # None => dispatch'[dispatchHost'] # "none"
    <3>1. dispatchHost \in Starts \cup {None}
      BY DEF IInv, TypeOK
    <3>2. dispatchHost # None => dispatch[dispatchHost] # "none"
      BY DEF IInv, LatchInv
    <3>3. \A c \in Starts : dispatch[c] # "none" => dispatch'[c] # "none"
      BY <1>2
    <3> QED BY <2>1, <3>1, <3>2, <3>3
  <2>4. ASSUME NEW c \in Starts
        PROVE  /\ count'[c] = Cardinality(Untold(c))
               /\ at'[c] \notin {"idle", "waiting", "threw"} => Untold(c) = {}
               /\ dispatch'[c] # "none" => Untold(c) = {}
    <3>1. LatchInv /\ count' = count /\ at' = at
      BY <1>1 DEF IInv, waits
    <3>2. dispatch'[c] # "none" => dispatch[c] # "none"
      BY <1>2
    <3> QED BY <3>1, <3>2 DEF LatchInv
  <2> QED BY <2>2, <2>3, <2>4 DEF LatchInv
<1>5. ConfigInv'
  <2>1. CASE Stop \/ ClearDispatch
    BY <1>1, <2>1 DEF Stop, ClearDispatch, IInv, ConfigInv, waits
  <2>2. CASE StopConfig
    <3>1. \A c \in Starts : config'[c] # "running"
      BY <2>2, HostAssumption DEF StopConfig, StopIfRunning, IInv, TypeOK, ConfigInv
    <3> QED BY <1>1, <2>2, <3>1 DEF StopConfig, IInv, ConfigInv, waits
  <2>3. CASE ClearConfig
    BY <1>1, <2>3 DEF ClearConfig, IInv, ConfigInv, waits
  <2> QED BY <2>1, <2>2, <2>3 DEF Stopping
<1>6. Silent'
  BY <1>1 DEF IInv, Silent
<1>7. ASSUME overtaken' = {} PROVE QuietInv' /\ ReportInv'
  <2>1. overtaken = {} /\ UnderWay = {} /\ owner' # "started"
    BY <1>7 DEF Stop, Stopping, ClearDispatch, StopConfig, ClearConfig, IInv, QuietInv
  <2>2. QuietInv /\ ReportInv
    BY <2>1 DEF IInv
  <2>3. UnderWay' = {}
    BY <1>1, <2>1 DEF UnderWay
  <2>4. \A c \in Starts : dispatch'[c] # "running"
    <3>1. CASE Stop
      BY <2>2, <3>1, HostAssumption DEF Stop, StopIfRunning, IInv, TypeOK, QuietInv
    <3>2. CASE Stopping
      BY <2>2, <3>2, <1>2 DEF Stopping, ClearDispatch, StopConfig, ClearConfig, QuietInv
    <3> QED BY <3>1, <3>2
  <2>5. owner' \in {"stopped", "stopConfig", "clearConfig"} => dispatchHost' = None
    BY <2>2 DEF Stop, Stopping, ClearDispatch, StopConfig, ClearConfig, QuietInv
  <2>6. \A c \in Starts : at'[c] \in Ended
    BY <2>3 DEF UnderWay
  <2>7. QuietInv'
    BY <2>1, <2>3, <2>4, <2>5, <2>6 DEF QuietInv, Before, Within, Ended
  <2>8. ReportInv'
    BY <2>1, <2>6 DEF ReportInv, Ended
  <2> QED BY <2>7, <2>8
<1> QED BY <1>3, <1>4, <1>5, <1>6, <1>7 DEF IInv

(***************************************************************************)
(* The invariant is inductive.                                             *)
(***************************************************************************)
LEMMA NextInv == IInv /\ [Next]_vars => IInv'
<1> SUFFICES ASSUME IInv, [Next]_vars PROVE IInv'
  OBVIOUS
<1>1. ASSUME NEW c \in Starts, CallStep(c) PROVE IInv'
  BY <1>1, StartInv, CallbackInv, LinesInv DEF CallStep
<1>2. CASE UNCHANGED vars
  BY <1>2 DEF vars, hosts, waits, IInv, TypeOK, LatchInv, Untold, ConfigInv, Silent, QuietInv,
              UnderWay, ReportInv, TrueReport
<1> QED BY <1>1, <1>2, StopInv DEF Next

(***************************************************************************)
(* The invariant holds in every state that can be reached.                 *)
(***************************************************************************)
LEMMA InvAlways == Spec => []IInv
BY InitInv, NextInv, PTL DEF Spec

-----------------------------------------------------------------------------
(* Theorems *)

(***************************************************************************)
(* The variables keep their types; that the latch never falls below zero   *)
(* is the part that takes the invariant.                                   *)
(***************************************************************************)
THEOREM HostTypeCorrect == Spec => []TypeOK
<1>1. IInv => TypeOK
  BY DEF IInv
<1> QED BY <1>1, InvAlways, PTL

(***************************************************************************)
(* No call creates a dispatch host before it was told of every factory.    *)
(***************************************************************************)
THEOREM DispatchWaits == Spec => []DispatchAfterCallbacks
<1>1. IInv => DispatchAfterCallbacks
  BY DEF IInv, LatchInv, Untold, DispatchAfterCallbacks
<1> QED BY <1>1, InvAlways, PTL

(***************************************************************************)
(* As long as no stop overtook a start, the first report of the start in   *)
(* force tells whether its dispatch host runs.                             *)
(***************************************************************************)
THEOREM FirstReportsAreTrue == Spec => []FirstReportIsTrue
<1>1. IInv => FirstReportIsTrue
  BY DEF IInv, ReportInv, TrueReport, FirstReportIsTrue
<1> QED BY <1>1, InvAlways, PTL

(***************************************************************************)
(* After stop no config host runs; nor a dispatch host, as long as no stop *)
(* overtook a start.                                                       *)
(***************************************************************************)
THEOREM StopsAreClean == Spec => []CleanStop
<1>1. IInv => CleanStop
  BY DEF IInv, ConfigInv, QuietInv, CleanStop
<1> QED BY <1>1, InvAlways, PTL

=============================================================================
