------------------------------- MODULE Sidecar -------------------------------
(***************************************************************************)
(* The sidecars.  Each runs beside one instance of a CSI driver, and every *)
(* instance of a driver has its own: during a rolling update, or with      *)
(* several replicas, they write the same ProvisionerCapability.            *)
(*                                                                         *)
(* A sidecar asks its driver for its capabilities with four calls, reads   *)
(* the ProvisionerCapability, and creates or updates it; then it waits for *)
(* its period.  It ends when it loses the connection to its driver, and is *)
(* restarted.                                                              *)
(***************************************************************************)
EXTENDS Plugin

CONSTANTS
  Sidecars,       \* the sidecar containers, each with a driver beside it
  None            \* no such object, or nothing read yet

ASSUME SidecarAssumption == None \notin Specs

VARIABLES
  pcap,       \* pcap[p]: the spec of the ProvisionerCapability named p
  driver,     \* driver[s]: the release of the driver beside sidecar s
  connected,  \* connected[s]: s is connected to the driver that runs now
  sidecar     \* sidecar[s]: the program counter and the locals of s

vars == <<pcap, driver, connected, sidecar>>

PCs == {"down", "waiting", "getInfo", "getIdentity", "getController", "getNode",
        "getPcap", "create", "update"}

Calls == {"getInfo", "getIdentity", "getController", "getNode"}

\* fresh: nothing was written to the ProvisionerCapability since it was read.
\* An Update with an older resourceVersion is rejected.
Locals == [pc : PCs,
           info : [name : Provisioners, version : Versions] \cup {None},
           identity : Identities \cup {None},
           controller : (SUBSET ControllerRpcs) \cup {None},
           spec : Specs \cup {None},
           fresh : BOOLEAN]

At(pc) == [pc |-> pc, info |-> None, identity |-> None, controller |-> None,
           spec |-> None, fresh |-> FALSE]

TypeOK ==
  /\ pcap \in [Provisioners -> Specs \cup {None}]
  /\ driver \in [Sidecars -> Releases]
  /\ connected \in [Sidecars -> BOOLEAN]
  /\ sidecar \in [Sidecars -> Locals]

Init ==
  /\ pcap = [p \in Provisioners |-> None]
  /\ driver \in [Sidecars -> Releases]
  /\ connected = [s \in Sidecars |-> FALSE]
  /\ sidecar = [s \in Sidecars |-> At("down")]

Becomes(s, locals) == sidecar' = [sidecar EXCEPT ![s] = locals]

-----------------------------------------------------------------------------
(* The process, its connection and its driver.                             *)

\* main connects to the driver and starts contentWorker, which runs at once
\* and then after every period.
Start(s) ==
  /\ sidecar[s].pc = "down"
  /\ connected' = [connected EXCEPT ![s] = TRUE]
  /\ Becomes(s, At("waiting"))
  /\ UNCHANGED <<pcap, driver>>

Crash(s) ==
  /\ sidecar[s].pc # "down"
  /\ connected' = [connected EXCEPT ![s] = FALSE]
  /\ Becomes(s, At("down"))
  /\ UNCHANGED <<pcap, driver>>

\* The driver beside s ends and is started again, perhaps with another release.
\* The connection is lost and never opened again.
DriverRestarts(s, release) ==
  /\ Reports[release].name = Reports[driver[s]].name
  /\ driver' = [driver EXCEPT ![s] = release]
  /\ connected' = [connected EXCEPT ![s] = FALSE]
  /\ UNCHANGED <<pcap, sidecar>>

\* A mistake: the connection is opened again, as gRPC does by default.
ConnectionLostReopened(s) ==
  /\ ~connected[s]
  /\ sidecar[s].pc # "down"
  /\ connected' = [connected EXCEPT ![s] = TRUE]
  /\ UNCHANGED <<pcap, driver, sidecar>>

\* ExitOnConnectionLoss: when gRPC notices the loss the process exits.
ConnectionLost(s) ==
  /\ ~connected[s]
  /\ Crash(s)

Tick(s) ==
  /\ sidecar[s].pc = "waiting"
  /\ Becomes(s, At("getInfo"))
  /\ UNCHANGED <<pcap, driver, connected>>

-----------------------------------------------------------------------------
(* GetFullCapability.                                                      *)

Report(s) == Reports[driver[s]]

GetPluginInfo(s) ==
  /\ sidecar[s].pc = "getInfo"
  /\ connected[s]
  /\ Becomes(s, [At("getIdentity") EXCEPT
                   !.info = [name |-> Report(s).name, version |-> Report(s).version]])
  /\ UNCHANGED <<pcap, driver, connected>>

GetIdentityCapability(s) ==
  /\ sidecar[s].pc = "getIdentity"
  /\ connected[s]
  /\ Becomes(s, [sidecar[s] EXCEPT !.pc = "getController",
                                   !.identity = IdentityCapability(Report(s).plugin)])
  /\ UNCHANGED <<pcap, driver, connected>>

GetControllerCapabilities(s) ==
  /\ sidecar[s].pc = "getController"
  /\ connected[s]
  /\ Becomes(s, [sidecar[s] EXCEPT !.pc = "getNode",
                                   !.controller = Report(s).controller])
  /\ UNCHANGED <<pcap, driver, connected>>

GetNodeCapabilities(s) ==
  /\ sidecar[s].pc = "getNode"
  /\ connected[s]
  /\ Becomes(s, [At("getPcap") EXCEPT
                   !.info = sidecar[s].info,
                   !.spec = FullCapability(sidecar[s].info, sidecar[s].identity,
                                           sidecar[s].controller, Report(s).node)])
  /\ UNCHANGED <<pcap, driver, connected>>

\* A mistake: a driver without a node service is taken for one without node
\* capabilities, whatever the error.
CallFailsIgnored(s) ==
  /\ sidecar[s].pc = "getNode"
  /\ Becomes(s, [At("getPcap") EXCEPT
                   !.info = sidecar[s].info,
                   !.spec = FullCapability(sidecar[s].info, sidecar[s].identity,
                                           sidecar[s].controller, {})])
  /\ UNCHANGED <<pcap, driver, connected>>

\* A call to the driver fails or times out: contentWorker returns.
CallFails(s) ==
  /\ sidecar[s].pc \in Calls
  /\ Becomes(s, At("waiting"))
  /\ UNCHANGED <<pcap, driver, connected>>

-----------------------------------------------------------------------------
(* createOrUpdateProvisionerCRD.                                           *)

\* A mistake: what is found is taken for equal.
DeepEqualAlways(found, spec) == TRUE

\* The found spec is compared with a pointer to the new one, and a struct and a
\* pointer are never DeepEqual.
DeepEqual(found, spec) == FALSE

Name(s) == sidecar[s].info.name

\* The requests of the generated client: what Get finds, and what the server does
\* when it executes the Post of Create or the Put of Update.

Found(s) == pcap[Name(s)]

Created(s) ==
  /\ Found(s) = None
  /\ pcap' = [pcap EXCEPT ![Name(s)] = sidecar[s].spec]

\* The ProvisionerCapability of p is written: what others read of it is outdated.
Outdate(p) ==
  [t \in Sidecars |->
     IF sidecar[t].pc = "update" /\ Name(t) = p
       THEN [sidecar[t] EXCEPT !.fresh = FALSE]
       ELSE sidecar[t]]

Returns(s, others) == sidecar' = [others EXCEPT ![s] = At("waiting")]

\* An Update that changes nothing does not give the object a new version.
Updated(s) ==
  /\ sidecar[s].fresh
  /\ pcap' = [pcap EXCEPT ![Name(s)] = sidecar[s].spec]
  /\ Returns(s, IF pcap' = pcap THEN sidecar ELSE Outdate(Name(s)))

\* The error of Get is only logged: the object is empty then, its name is not the
\* name of the driver, and the sidecar goes on as if there were none.
GetCapability(s, reply) ==
  /\ sidecar[s].pc = "getPcap"
  /\ \/ /\ reply = "ok" /\ Found(s) # None
        /\ ~DeepEqual(Found(s), sidecar[s].spec)
        /\ Becomes(s, [sidecar[s] EXCEPT !.pc = "update", !.fresh = TRUE])
     \/ /\ reply = "ok" /\ Found(s) # None
        /\ DeepEqual(Found(s), sidecar[s].spec)
        /\ Becomes(s, At("waiting"))
     \/ /\ reply = "ok" => Found(s) = None
        /\ Becomes(s, [sidecar[s] EXCEPT !.pc = "create"])
  /\ UNCHANGED <<pcap, driver, connected>>

\* Whatever the reply, contentWorker is over; a "lost" call may have been
\* executed.
CreateCapability(s, reply) ==
  /\ sidecar[s].pc = "create"
  /\ \/ reply = "ok" /\ Created(s)
     \/ reply = "rejected" /\ Found(s) # None /\ UNCHANGED pcap
     \/ reply = "lost" /\ (Created(s) \/ UNCHANGED pcap)
  /\ Returns(s, sidecar)
  /\ UNCHANGED <<driver, connected>>

UpdateCapability(s, reply) ==
  LET notUpdated == UNCHANGED pcap /\ Returns(s, sidecar) IN
  /\ sidecar[s].pc = "update"
  /\ \/ reply = "ok" /\ Updated(s)
     \/ reply = "rejected" /\ ~sidecar[s].fresh /\ notUpdated
     \/ reply = "lost" /\ (Updated(s) \/ notUpdated)
  /\ UNCHANGED <<driver, connected>>

\* An administrator deletes the ProvisionerCapability of p.
AdminDeletes(p) ==
  /\ pcap[p] # None
  /\ pcap' = [pcap EXCEPT ![p] = None]
  /\ sidecar' = Outdate(p)
  /\ UNCHANGED <<driver, connected>>

-----------------------------------------------------------------------------

Environment ==
  \/ \E p \in Provisioners : AdminDeletes(p)
  \/ \E s \in Sidecars :
       \/ Crash(s)
       \/ \E release \in Releases : DriverRestarts(s, release)
       \/ connected[s] /\ CallFails(s)
       \/ GetCapability(s, "lost")
       \/ CreateCapability(s, "lost")
       \/ UpdateCapability(s, "lost")

\* The steps of contentWorker when nothing fails that need not.
SidecarStep(s) ==
  \/ Tick(s)
  \/ GetPluginInfo(s)
  \/ GetIdentityCapability(s)
  \/ GetControllerCapabilities(s)
  \/ GetNodeCapabilities(s)
  \/ ~connected[s] /\ CallFails(s)
  \/ GetCapability(s, "ok")
  \/ \E reply \in {"ok", "rejected"} :
       CreateCapability(s, reply) \/ UpdateCapability(s, reply)

System == \E s \in Sidecars : Start(s) \/ ConnectionLost(s) \/ SidecarStep(s)

Next == Environment \/ System

Spec == Init /\ [][Next]_vars

=============================================================================
