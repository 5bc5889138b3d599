---------------------------- MODULE SidecarProofs ----------------------------
(***************************************************************************)
(* Proofs of the safety properties of the sidecars, for any number of      *)
(* sidecars, drivers and releases.                                         *)
(*                                                                         *)
(* Until the last theorems it does not matter what GetIdentityCapability   *)
(* computes: it is the same whenever the same release answers.             *)
(***************************************************************************)
EXTENDS SidecarProperties, PluginProofs

-----------------------------------------------------------------------------
(* Facts about the operators the actions are built from.                   *)

\* A sidecar that has read nothing has well formed locals (At).
LEMMA AtType == \A pc \in PCs : At(pc) \in ReportedLocals
  BY DEF At, ReportedLocals

\* A ProvisionerCapability is written under the name of a driver (GetPluginInfo).
LEMMA NameType == \A r \in Releases : InfoOf(r).name \in Provisioners
  BY PluginAssumption DEF InfoOf, DriverReports

\* The spec is put together from the answers to the four calls
\* (GetFullCapability).
LEMMA FullOf ==
  ASSUME NEW r \in Releases
  PROVE  FullCapability(InfoOf(r), IdentityOf(r), Reports[r].controller, Reports[r].node)
           = Full(r)
  BY DEF FullCapability, InfoOf, IdentityOf, Full

\* Only the sidecar that takes a step changes its locals (Becomes).
LEMMA BecomesType ==
  ASSUME sidecar \in [Sidecars -> ReportedLocals],
         NEW s \in Sidecars,
         NEW locals \in ReportedLocals,
         Becomes(s, locals)
  PROVE  /\ sidecar' \in [Sidecars -> ReportedLocals]
         /\ sidecar'[s] = locals
         /\ \A t \in Sidecars : t # s => sidecar'[t] = sidecar[t]
  BY DEF Becomes

\* An outdated copy does not change what was read from the driver (Outdate).
LEMMA OutdateType ==
  ASSUME sidecar \in [Sidecars -> ReportedLocals], NEW p
  PROVE  /\ Outdate(p) \in [Sidecars -> ReportedLocals]
         /\ \A t \in Sidecars :
              \E b \in BOOLEAN : Outdate(p)[t] = [sidecar[t] EXCEPT !.fresh = b]
  <1>1. ASSUME NEW t \in Sidecars
        PROVE  \E b \in BOOLEAN : Outdate(p)[t] = [sidecar[t] EXCEPT !.fresh = b]
    <2>1. sidecar[t] = [sidecar[t] EXCEPT !.fresh = sidecar[t].fresh]
          /\ sidecar[t].fresh \in BOOLEAN
      BY DEF ReportedLocals
    <2> QED
      BY <2>1 DEF Outdate
  <1>2. ASSUME NEW t \in Sidecars PROVE Outdate(p)[t] \in ReportedLocals
    <2>1. PICK b \in BOOLEAN : Outdate(p)[t] = [sidecar[t] EXCEPT !.fresh = b]
      BY <1>1
    <2> QED
      BY <2>1 DEF ReportedLocals
  <1>3. DOMAIN Outdate(p) = Sidecars
        /\ Outdate(p) = [t \in Sidecars |-> Outdate(p)[t]]
    BY DEF Outdate
  <1> QED
    BY <1>1, <1>2, <1>3

\* A sidecar that starts over has read nothing, so whatever runs beside it will
\* do.
LEMMA StartsOver ==
  ASSUME NEW s \in Sidecars, driver' \in [Sidecars -> Releases],
         NEW pc \in {"down", "waiting", "getInfo"}, sidecar'[s] = At(pc)
  PROVE  \E r \in Releases : ReadsFrom(s, r)'
  <1>1. PICK r \in Releases : r = driver'[s]
    OBVIOUS
  <1>2. ReadsFrom(s, r)'
    BY <1>1 DEF ReadsFrom, At
  <1> QED
    BY <1>2

\* A sidecar that does nothing, except that its driver or its copy of the
\* ProvisionerCapability may be outdated, has still read all from one release.
LEMMA KeepsReading ==
  ASSUME NEW s \in Sidecars, \E r \in Releases : ReadsFrom(s, r),
         sidecar[s] \in ReportedLocals,
         connected'[s] => connected[s] /\ driver'[s] = driver[s],
         \E b \in BOOLEAN : sidecar'[s] = [sidecar[s] EXCEPT !.fresh = b]
  PROVE  \E r \in Releases : ReadsFrom(s, r)'
  <1>1. PICK r \in Releases : ReadsFrom(s, r)
    OBVIOUS
  <1>2. ReadsFrom(s, r)'
    BY <1>1 DEF ReadsFrom, ReportedLocals
  <1> QED
    BY <1>2

\* A sidecar whose locals are the same has read the same (KeepsReading without
\* writes).
LEMMA KeepsReadingSame ==
  ASSUME NEW s \in Sidecars, \E r \in Releases : ReadsFrom(s, r),
         connected'[s] => connected[s] /\ driver'[s] = driver[s],
         sidecar'[s] = sidecar[s]
  PROVE  \E r \in Releases : ReadsFrom(s, r)'
  <1>1. PICK r \in Releases : ReadsFrom(s, r)
    OBVIOUS
  <1>2. ReadsFrom(s, r)'
    BY <1>1 DEF ReadsFrom
  <1> QED
    BY <1>2

-----------------------------------------------------------------------------
(* The inductive invariant.                                                *)

ReadsOK == \A s \in Sidecars : \E r \in Releases : ReadsFrom(s, r)

\* At first nothing is published and nothing has been read.
LEMMA InitInv == Init => SidecarInv
  <1> SUFFICES ASSUME Init PROVE SidecarInv
    OBVIOUS
  <1>1. ReportedOK
    BY AtType DEF Init, ReportedOK, PCs
  <1>2. ASSUME NEW s \in Sidecars PROVE \E r \in Releases : ReadsFrom(s, r)
    <2>1. ReadsFrom(s, driver[s])
      BY DEF Init, ReadsFrom, At
    <2> QED
      BY <2>1 DEF Init
  <1>3. Whole
    BY DEF Init, Whole
  <1> QED
    BY <1>1, <1>2, <1>3 DEF SidecarInv

\* The steps that do not write: the life of the process, the calls to the driver
\* and the Get.  Sidecar s changes its locals, and everything else stays.
LEMMA ReadStep ==
  ASSUME SidecarInv, NEW s \in Sidecars, NEW locals \in ReportedLocals,
         Becomes(s, locals), UNCHANGED <<pcap, driver>>,
         connected' \in [Sidecars -> BOOLEAN],
         \A t \in Sidecars : t # s => connected'[t] = connected[t],
         \E r \in Releases : ReadsFrom(s, r)'
  PROVE  SidecarInv'
  <1>1. ReportedOK'
    BY BecomesType DEF SidecarInv, ReportedOK
  <1>2. ASSUME NEW t \in Sidecars PROVE \E r \in Releases : ReadsFrom(t, r)'
    <2>1. CASE t = s
      BY <2>1
    <2>2. CASE t # s
      BY <2>2, KeepsReadingSame, BecomesType DEF SidecarInv, ReportedOK
    <2> QED
      BY <2>1, <2>2
  <1>3. Whole'
    BY DEF SidecarInv, Whole
  <1> QED
    BY <1>1, <1>2, <1>3 DEF SidecarInv

\* A sidecar that starts over leaves the invariant alone.
LEMMA StartOverStep ==
  ASSUME SidecarInv, NEW s \in Sidecars, NEW pc \in {"down", "waiting", "getInfo"},
         Becomes(s, At(pc)), UNCHANGED <<pcap, driver>>,
         connected' \in [Sidecars -> BOOLEAN],
         \A t \in Sidecars : t # s => connected'[t] = connected[t]
  PROVE  SidecarInv'
  <1>1. At(pc) \in ReportedLocals
    BY AtType DEF PCs
  <1>2. \E r \in Releases : ReadsFrom(s, r)'
    BY <1>1, BecomesType, StartsOver DEF SidecarInv, ReportedOK
  <1> QED
    BY <1>1, <1>2, ReadStep

\* The steps of process and connection preserve the invariant.
LEMMA ProcessInv ==
  ASSUME SidecarInv, NEW s \in Sidecars,
         Start(s) \/ Crash(s) \/ ConnectionLost(s) \/ Tick(s) \/ CallFails(s)
  PROVE  SidecarInv'
  <1> USE DEF SidecarInv, ReportedOK
  <1>1. CASE Start(s)
    BY <1>1, StartOverStep DEF Start
  <1>2. CASE Crash(s) \/ ConnectionLost(s)
    BY <1>2, StartOverStep DEF Crash, ConnectionLost
  <1>3. CASE Tick(s)
    BY <1>3, StartOverStep DEF Tick
  <1>4. CASE CallFails(s)
    BY <1>4, StartOverStep DEF CallFails
  <1> QED
    BY <1>1, <1>2, <1>3, <1>4

\* A driver that is replaced can no more be read through the old connection.
LEMMA DriverInv ==
  ASSUME SidecarInv, NEW s \in Sidecars, NEW release \in Releases,
         DriverRestarts(s, release)
  PROVE  SidecarInv'
  <1>1. ReportedOK'
    BY DEF SidecarInv, ReportedOK, DriverRestarts
  <1>2. ASSUME NEW t \in Sidecars PROVE \E r \in Releases : ReadsFrom(t, r)'
    <2>1. connected'[t] => connected[t] /\ driver'[t] = driver[t]
      BY DEF SidecarInv, ReportedOK, DriverRestarts
    <2> QED
      BY <2>1, KeepsReadingSame DEF SidecarInv, DriverRestarts
  <1>3. Whole'
    BY DEF SidecarInv, Whole, DriverRestarts
  <1> QED
    BY <1>1, <1>2, <1>3 DEF SidecarInv

\* A sidecar that goes on having read from one release keeps the invariant.
LEMMA GoesOn ==
  ASSUME SidecarInv, NEW s \in Sidecars, NEW r \in Releases,
         NEW locals \in ReportedLocals, Becomes(s, locals),
         UNCHANGED <<pcap, driver, connected>>,
         sidecar'[s] = locals => ReadsFrom(s, r)'
  PROVE  SidecarInv'
  <1>1. sidecar'[s] = locals
    BY BecomesType DEF SidecarInv, ReportedOK
  <1>2. \E q \in Releases : ReadsFrom(s, q)'
    BY <1>1
  <1>3. connected' \in [Sidecars -> BOOLEAN]
    BY DEF SidecarInv, ReportedOK
  <1> QED
    BY <1>2, <1>3, ReadStep

\* Each answer of the driver comes from the release the others came from.
LEMMA CallInv ==
  ASSUME SidecarInv, NEW s \in Sidecars,
         \/ GetPluginInfo(s) \/ GetIdentityCapability(s)
         \/ GetControllerCapabilities(s) \/ GetNodeCapabilities(s)
  PROVE  SidecarInv'
  <1>1. PICK r \in Releases : ReadsFrom(s, r)
    BY DEF SidecarInv
  <1>2. connected[s] /\ UNCHANGED <<pcap, driver, connected>>
    BY DEF GetPluginInfo, GetIdentityCapability, GetControllerCapabilities, GetNodeCapabilities
  <1>3. r = driver[s] /\ Report(s) = Reports[r]
    BY <1>1, <1>2 DEF ReadsFrom, Report
  <1>4. sidecar[s] \in ReportedLocals
    BY DEF SidecarInv, ReportedOK
  <1>5. CASE GetPluginInfo(s)
    <2> DEFINE locals == [At("getIdentity") EXCEPT !.info = InfoOf(r)]
    <2>1. locals \in ReportedLocals
      BY DEF At, ReportedLocals, PCs
    <2>2. Becomes(s, locals)
      BY <1>5, <1>3 DEF GetPluginInfo, InfoOf
    <2>3. sidecar'[s] = locals => ReadsFrom(s, r)'
      BY <1>2, <1>3 DEF ReadsFrom, At
    <2> QED
      BY <1>2, <2>1, <2>2, <2>3, GoesOn
  <1>6. CASE GetIdentityCapability(s)
    <2> DEFINE locals == [sidecar[s] EXCEPT !.pc = "getController",
                                            !.identity = IdentityOf(r)]
    <2>1. locals \in ReportedLocals
      BY <1>4 DEF ReportedLocals, PCs
    <2>2. Becomes(s, locals)
      BY <1>6, <1>3 DEF GetIdentityCapability, IdentityOf
    <2>3. sidecar'[s] = locals => ReadsFrom(s, r)'
      BY <1>1, <1>2, <1>3, <1>4, <1>6 DEF ReadsFrom, ReportedLocals, GetIdentityCapability
    <2> QED
      BY <1>2, <2>1, <2>2, <2>3, GoesOn
  <1>7. CASE GetControllerCapabilities(s)
    <2> DEFINE locals == [sidecar[s] EXCEPT !.pc = "getNode",
                                            !.controller = Reports[r].controller]
    <2>1. locals \in ReportedLocals
      BY <1>4 DEF ReportedLocals, PCs
    <2>2. Becomes(s, locals)
      BY <1>7, <1>3 DEF GetControllerCapabilities
    <2>3. sidecar'[s] = locals => ReadsFrom(s, r)'
      BY <1>1, <1>2, <1>3, <1>4, <1>7 DEF ReadsFrom, ReportedLocals, GetControllerCapabilities
    <2> QED
      BY <1>2, <2>1, <2>2, <2>3, GoesOn
  <1>8. CASE GetNodeCapabilities(s)
    <2> DEFINE locals == [At("getPcap") EXCEPT !.info = InfoOf(r), !.spec = Full(r)]
    <2>1. locals \in ReportedLocals
      BY DEF At, ReportedLocals, PCs
    <2>2. /\ sidecar[s].info = InfoOf(r)
          /\ sidecar[s].identity = IdentityOf(r)
          /\ sidecar[s].controller = Reports[r].controller
      BY <1>1, <1>8 DEF ReadsFrom, GetNodeCapabilities
    <2>3. FullCapability(sidecar[s].info, sidecar[s].identity, sidecar[s].controller,
                         Report(s).node) = Full(r)
      BY <1>3, <2>2, FullOf
    <2>4. Becomes(s, locals)
      BY <1>8, <2>2, <2>3 DEF GetNodeCapabilities
    <2>5. sidecar'[s] = locals => ReadsFrom(s, r)'
      BY <1>2, <1>3 DEF ReadsFrom, At
    <2> QED
      BY <1>2, <2>1, <2>4, <2>5, GoesOn
  <1> QED
    BY <1>5, <1>6, <1>7, <1>8

\* The Get does not change what was read from the driver.
LEMMA GetCapabilityInv ==
  ASSUME SidecarInv, NEW s \in Sidecars, NEW reply, GetCapability(s, reply)
  PROVE  SidecarInv'
  <1>1. PICK r \in Releases : ReadsFrom(s, r)
    BY DEF SidecarInv
  <1>2. sidecar[s] \in ReportedLocals
    BY DEF SidecarInv, ReportedOK
  <1>3. UNCHANGED <<pcap, driver, connected>> /\ sidecar[s].pc = "getPcap"
    BY DEF GetCapability, Found
  <1>4. CASE Becomes(s, At("waiting"))
    <2>1. connected' \in [Sidecars -> BOOLEAN]
      BY <1>3 DEF SidecarInv, ReportedOK
    <2> QED
      BY <1>3, <1>4, <2>1, StartOverStep
  <1>5. ASSUME NEW pc \in {"update", "create"}, NEW fresh \in BOOLEAN,
               Becomes(s, [sidecar[s] EXCEPT !.pc = pc, !.fresh = fresh])
        PROVE  SidecarInv'
    <2> DEFINE locals == [sidecar[s] EXCEPT !.pc = pc, !.fresh = fresh]
    <2>1. locals \in ReportedLocals
      BY <1>2 DEF ReportedLocals, PCs
    <2>2. sidecar'[s] = locals => ReadsFrom(s, r)'
      BY <1>1, <1>2, <1>3 DEF ReadsFrom, ReportedLocals
    <2> QED
      BY <1>3, <1>5, <2>1, <2>2, GoesOn
  <1>6. [sidecar[s] EXCEPT !.pc = "create"]
          = [sidecar[s] EXCEPT !.pc = "create", !.fresh = sidecar[s].fresh]
        /\ sidecar[s].fresh \in BOOLEAN
    BY <1>2 DEF ReportedLocals
  <1> QED
    BY <1>4, <1>5, <1>6 DEF GetCapability, Found

-----------------------------------------------------------------------------
(* Writes.                                                                 *)

\* What sidecar s is about to write is what some release of the named driver
\* reports.
LEMMA Writes ==
  ASSUME SidecarInv, NEW s \in Sidecars, sidecar[s].pc \in {"create", "update"}
  PROVE  /\ Name(s) \in Provisioners
         /\ \E r \in ReleasesOf(Name(s)) : sidecar[s].spec = Full(r)
  <1>1. PICK r \in Releases : ReadsFrom(s, r)
    BY DEF SidecarInv
  <1>2. sidecar[s].info = InfoOf(r) /\ sidecar[s].spec = Full(r)
    BY <1>1 DEF ReadsFrom
  <1> QED
    BY <1>2, NameType DEF Name, InfoOf, ReleasesOf

\* A write of a whole spec, or a deletion, preserves the invariant when the
\* locals of every sidecar are reset or only outdated.
LEMMA WriteStep ==
  ASSUME SidecarInv, UNCHANGED <<driver, connected>>,
         NEW p \in Provisioners, NEW new,
         new = None \/ \E r \in ReleasesOf(p) : new = Full(r),
         pcap' = [pcap EXCEPT ![p] = new] \/ pcap' = pcap,
         sidecar' \in [Sidecars -> ReportedLocals],
         \A t \in Sidecars :
           \/ sidecar'[t] = At("waiting")
           \/ \E b \in BOOLEAN : sidecar'[t] = [sidecar[t] EXCEPT !.fresh = b]
  PROVE  SidecarInv'
  <1>1. ReportedOK'
    BY DEF SidecarInv, ReportedOK, ReleasesOf
  <1>2. ASSUME NEW t \in Sidecars PROVE \E r \in Releases : ReadsFrom(t, r)'
    <2>1. CASE sidecar'[t] = At("waiting")
      BY <1>1, <2>1, StartsOver DEF ReportedOK
    <2>2. CASE \E b \in BOOLEAN : sidecar'[t] = [sidecar[t] EXCEPT !.fresh = b]
      BY <2>2, KeepsReading DEF SidecarInv, ReportedOK
    <2> QED
      BY <2>1, <2>2
  <1>3. Whole'
    BY DEF SidecarInv, ReportedOK, Whole
  <1> QED
    BY <1>1, <1>2, <1>3 DEF SidecarInv

\* When contentWorker returns, its sidecar has read nothing and the others keep
\* their locals (Returns).
LEMMA ReturnsType ==
  ASSUME NEW others \in [Sidecars -> ReportedLocals], NEW s \in Sidecars,
         \A t \in Sidecars : \E b \in BOOLEAN : others[t] = [sidecar[t] EXCEPT !.fresh = b],
         Returns(s, others)
  PROVE  /\ sidecar' \in [Sidecars -> ReportedLocals]
         /\ \A t \in Sidecars :
              \/ sidecar'[t] = At("waiting")
              \/ \E b \in BOOLEAN : sidecar'[t] = [sidecar[t] EXCEPT !.fresh = b]
  <1>1. At("waiting") \in ReportedLocals
    BY AtType DEF PCs
  <1>2. sidecar' = [others EXCEPT ![s] = At("waiting")]
    BY DEF Returns
  <1>3. \A t \in Sidecars : sidecar'[t] = IF t = s THEN At("waiting") ELSE others[t]
    BY <1>2
  <1>4. sidecar' \in [Sidecars -> ReportedLocals]
    BY <1>1, <1>2
  <1> QED
    BY <1>3, <1>4

\* Nothing is outdated by a step that does not write.
LEMMA SameLocals ==
  ASSUME sidecar \in [Sidecars -> ReportedLocals]
  PROVE  \A t \in Sidecars : \E b \in BOOLEAN : sidecar[t] = [sidecar[t] EXCEPT !.fresh = b]
  <1> TAKE t \in Sidecars
  <1>1. sidecar[t].fresh \in BOOLEAN
        /\ sidecar[t] = [sidecar[t] EXCEPT !.fresh = sidecar[t].fresh]
    BY DEF ReportedLocals
  <1> QED
    BY <1>1

\* Create, whatever the reply.
LEMMA CreateInv ==
  ASSUME SidecarInv, NEW s \in Sidecars, NEW reply, CreateCapability(s, reply)
  PROVE  SidecarInv'
  <1>1. sidecar \in [Sidecars -> ReportedLocals]
    BY DEF SidecarInv, ReportedOK
  <1>2. Returns(s, sidecar) /\ UNCHANGED <<driver, connected>> /\ sidecar[s].pc = "create"
        /\ (pcap' = [pcap EXCEPT ![Name(s)] = sidecar[s].spec] \/ pcap' = pcap)
    BY DEF CreateCapability, Found, Created
  <1>3. /\ sidecar' \in [Sidecars -> ReportedLocals]
        /\ \A t \in Sidecars :
             \/ sidecar'[t] = At("waiting")
             \/ \E b \in BOOLEAN : sidecar'[t] = [sidecar[t] EXCEPT !.fresh = b]
    <2>1. \A t \in Sidecars : \E b \in BOOLEAN : sidecar[t] = [sidecar[t] EXCEPT !.fresh = b]
      BY <1>1, SameLocals
    <2> QED
      BY <1>1, <1>2, <2>1, ReturnsType
  <1> QED
    BY <1>2, <1>3, Writes, WriteStep

\* Update, whatever the reply.
LEMMA UpdateInv ==
  ASSUME SidecarInv, NEW s \in Sidecars, NEW reply, UpdateCapability(s, reply)
  PROVE  SidecarInv'
  <1>1. sidecar \in [Sidecars -> ReportedLocals]
    BY DEF SidecarInv, ReportedOK
  <1>2. /\ Returns(s, sidecar) \/ Returns(s, Outdate(Name(s)))
        /\ UNCHANGED <<driver, connected>> /\ sidecar[s].pc = "update"
        /\ pcap' = [pcap EXCEPT ![Name(s)] = sidecar[s].spec] \/ pcap' = pcap
    BY DEF UpdateCapability, Updated
  <1>3. /\ sidecar' \in [Sidecars -> ReportedLocals]
        /\ \A t \in Sidecars :
             \/ sidecar'[t] = At("waiting")
             \/ \E b \in BOOLEAN : sidecar'[t] = [sidecar[t] EXCEPT !.fresh = b]
    <2>1. CASE Returns(s, sidecar)
      <3>1. \A t \in Sidecars : \E b \in BOOLEAN : sidecar[t] = [sidecar[t] EXCEPT !.fresh = b]
        BY <1>1, SameLocals
      <3> QED
        BY <1>1, <2>1, <3>1, ReturnsType
    <2>2. CASE Returns(s, Outdate(Name(s)))
      <3>1. /\ Outdate(Name(s)) \in [Sidecars -> ReportedLocals]
            /\ \A t \in Sidecars :
                 \E b \in BOOLEAN : Outdate(Name(s))[t] = [sidecar[t] EXCEPT !.fresh = b]
        BY <1>1, OutdateType
      <3> QED
        BY <2>2, <3>1, ReturnsType
    <2> QED
      BY <1>2, <2>1, <2>2
  <1> QED
    BY <1>2, <1>3, Writes, WriteStep

\* The deletion by an administrator.
LEMMA AdminInv ==
  ASSUME SidecarInv, NEW p \in Provisioners, AdminDeletes(p)
  PROVE  SidecarInv'
  <1>1. /\ pcap' = [pcap EXCEPT ![p] = None]
        /\ sidecar' = Outdate(p)
        /\ UNCHANGED <<driver, connected>>
    BY DEF AdminDeletes
  <1>2. sidecar \in [Sidecars -> ReportedLocals]
    BY DEF SidecarInv, ReportedOK
  <1> QED
    BY <1>1, <1>2, OutdateType, WriteStep

-----------------------------------------------------------------------------
(* The theorems.                                                           *)

\* Every step preserves the invariant.
LEMMA NextInv == SidecarInv /\ [Next]_vars => SidecarInv'
  <1> SUFFICES ASSUME SidecarInv, [Next]_vars PROVE SidecarInv'
    OBVIOUS
  <1>1. CASE \E p \in Provisioners : AdminDeletes(p)
    BY <1>1, AdminInv
  <1>2. CASE \E s \in Sidecars, release \in Releases : DriverRestarts(s, release)
    BY <1>2, DriverInv
  <1>3. CASE \E s \in Sidecars : \/ Start(s) \/ Crash(s) \/ ConnectionLost(s)
                               \/ Tick(s) \/ CallFails(s)
    BY <1>3, ProcessInv
  <1>4. CASE \E s \in Sidecars :
               \/ GetPluginInfo(s) \/ GetIdentityCapability(s)
               \/ GetControllerCapabilities(s) \/ GetNodeCapabilities(s)
    BY <1>4, CallInv
  <1>5. CASE \E s \in Sidecars, reply \in {"ok", "rejected", "lost"} :
               \/ GetCapability(s, reply) \/ CreateCapability(s, reply)
               \/ UpdateCapability(s, reply)
    BY <1>5, GetCapabilityInv, CreateInv, UpdateInv
  <1>6. CASE UNCHANGED vars
    BY <1>6 DEF vars, SidecarInv, ReportedOK, ReadsFrom, Whole
  <1> QED
    BY <1>1, <1>2, <1>3, <1>4, <1>5, <1>6 DEF Next, Environment, System, SidecarStep

\* The invariant of the sidecars (contentWorker): what a sidecar has read was read
\* from one release.
THEOREM ReadFromOneRelease == Spec => []SidecarInv
  BY InitInv, NextInv, PTL DEF Spec

\* No ProvisionerCapability mixes two releases of a driver
\* (GetFullCapability and ExitOnConnectionLoss).
THEOREM PublishedWhole == Spec => []Whole
  <1>1. SidecarInv => Whole
    BY DEF SidecarInv
  <1> QED
    BY <1>1, ReadFromOneRelease, PTL

\* What a release reports, and what is made of it, is of the types of the API
\* (GetFullCapability).
LEMMA FullType ==
  ASSUME NEW r \in Releases
  PROVE  /\ InfoOf(r) \in [name : Provisioners, version : Versions]
         /\ IdentityOf(r) \in Identities
         /\ Reports[r].controller \in SUBSET ControllerRpcs
         /\ Full(r) \in Specs
  <1>1. Reports[r] \in DriverReports
    BY PluginAssumption
  <1>2. InfoOf(r) \in [name : Provisioners, version : Versions]
        /\ Reports[r].controller \in SUBSET ControllerRpcs
    BY <1>1 DEF InfoOf, DriverReports
  <1>3. IdentityOf(r) \in Identities
    <2>1. Reports[r].plugin \in Seq(PluginCapabilities)
      BY <1>1 DEF DriverReports
    <2> QED
      BY <2>1, IdentityType DEF IdentityOf
  <1>4. Full(r) = FullCapability(InfoOf(r), IdentityOf(r), Reports[r].controller,
                                 Reports[r].node)
    BY FullOf
  <1>5. FullCapability(InfoOf(r), IdentityOf(r), Reports[r].controller, Reports[r].node)
          \in Specs
    BY <1>2, <1>3 DEF FullCapability, Specs, Features, FlagSets, Identities
  <1> QED
    BY <1>2, <1>3, <1>4, <1>5

\* Everything a sidecar holds and everything that is published is of its type,
\* however many entries the drivers list, and in whatever order.
THEOREM TypeCorrect == Spec => []TypeOK
  <1>1. ReportedLocals \subseteq Locals
    BY FullType DEF ReportedLocals, Locals
  <1>2. SidecarInv => TypeOK
    BY <1>1, FullType DEF SidecarInv, ReportedOK, TypeOK
  <1> QED
    BY <1>2, ReadFromOneRelease, PTL

\* The published mode of expansion is the one of the last expansion that a release
\* of the driver lists (the loop of GetIdentityCapability), and none of the defined
\* modes when it lists none.
THEOREM LastExpansionIsPublished == Spec => []LastExpansionCounts
  <1>1. ASSUME NEW r \in Releases
        PROVE  /\ Full(r).version = Reports[r].version
               /\ Full(r).features.expand \in DefinedModes <=> ListsExpansion(r)
               /\ Full(r).features.expand = LastExpansion(Reports[r].plugin)
    <2> DEFINE plugin == Reports[r].plugin
               expansions == {i \in DOMAIN plugin : plugin[i] \in Expansions}
    <2>1. plugin \in Seq(PluginCapabilities)
      BY PluginAssumption DEF DriverReports
    <2>2. /\ Full(r).version = Reports[r].version
          /\ Full(r).features.expand = IdentityCapability(plugin).expand
      BY DEF Full, FullCapability
    <2>3. Full(r).features.expand = LastExpansion(plugin)
      BY <2>1, <2>2, LastExpansionReturned
    <2>4. ListsExpansion(r) <=> expansions # {}
      BY DEF ListsExpansion
    <2>5. LastExpansion(plugin) =
            IF expansions = {} THEN "" ELSE ExpandMode(plugin[Max(expansions)])
      BY DEF LastExpansion
    <2>6. "" \notin DefinedModes /\ ExpandMode(plugin[Max(expansions)]) \in DefinedModes
      BY DEF ExpandMode, DefinedModes
    <2> HIDE DEF expansions
    <2> QED
      BY <2>2, <2>3, <2>4, <2>5, <2>6
  <1>2. Whole => LastExpansionCounts
    BY <1>1 DEF Whole, LastExpansionCounts, ReleasesOf
  <1> QED
    BY <1>2, PublishedWhole, PTL

\* Nothing is written but what a release of the named driver reports, or a
\* deletion.
LEMMA NextWrites ==
  ASSUME SidecarInv, [Next]_vars
  PROVE  \/ pcap' = pcap
         \/ \E p \in Provisioners : \E new :
              /\ new = None \/ \E r \in ReleasesOf(p) : new = Full(r)
              /\ pcap' = [pcap EXCEPT ![p] = new]
  <1>1. CASE \E p \in Provisioners : AdminDeletes(p)
    BY <1>1 DEF AdminDeletes
  <1>2. CASE \E s \in Sidecars, reply \in {"ok", "rejected", "lost"} :
               CreateCapability(s, reply) \/ UpdateCapability(s, reply)
    BY <1>2, Writes DEF CreateCapability, Found, Created, UpdateCapability, Updated
  <1>3. CASE UNCHANGED vars
    BY <1>3 DEF vars
  <1> QED
    BY <1>1, <1>2, <1>3
    DEF Next, Environment, System, SidecarStep, Start, Crash, ConnectionLost, Tick,
        CallFails, DriverRestarts, GetPluginInfo, GetIdentityCapability,
        GetControllerCapabilities, GetNodeCapabilities, GetCapability, Found

\* A write of the sidecars is a SetProvisionerCapability of the environment the
\* controller is verified in, or changes no feature.
LEMMA NextUsers ==
  ASSUME SidecarInv, [Next]_vars
  PROVE  [\E p \in Provisioners : \E new \in PublishedOrNone(p) :
            Controllers!SetProvisionerCapability(p, new)]_features
  <1>1. CASE pcap' = pcap
    BY <1>1 DEF features
  <1>2. ASSUME NEW p \in Provisioners, NEW new,
               new = None \/ \E r \in ReleasesOf(p) : new = Full(r),
               pcap' = [pcap EXCEPT ![p] = new]
        PROVE  [\E q \in Provisioners : \E f \in PublishedOrNone(q) :
                  Controllers!SetProvisionerCapability(q, f)]_features
    <2> DEFINE written == IF new = None THEN None ELSE new.features
    <2>1. written \in PublishedOrNone(p)
      BY <1>2 DEF PublishedOrNone, PublishedFeatures
    <2>2. features' = [features EXCEPT ![p] = written]
      BY <1>2 DEF features, SidecarInv, ReportedOK
    <2>3. CASE written = features[p]
      BY <2>2, <2>3 DEF features
    <2>4. CASE written # features[p]
      BY <2>1, <2>2, <2>4 DEF Controllers!SetProvisionerCapability
    <2> QED
      BY <2>3, <2>4
  <1> QED
    BY <1>1, <1>2, NextWrites

\* What the ProvisionerCapabilities say is always something the controller is
\* prepared for.
LEMMA InvFeatures == SidecarInv => \A p \in Provisioners : features[p] \in PublishedOrNone(p)
  BY DEF SidecarInv, Whole, PublishedOrNone, PublishedFeatures, features, ReleasesOf

\* The sidecars implement the part of the controller's environment that
\* publishes capabilities (createOrUpdateProvisionerCRD).
THEOREM SidecarsImplementUsers == Spec => ImplementsUsers
  <1>1. Init => \A p \in Provisioners : features[p] \in PublishedOrNone(p)
    BY InitInv, InvFeatures
  <1>2. SidecarInv /\ [Next]_vars
          => [\E p \in Provisioners : \E new \in PublishedOrNone(p) :
                Controllers!SetProvisionerCapability(p, new)]_features
    BY NextUsers
  <1> QED
    BY <1>1, <1>2, ReadFromOneRelease, PTL DEF Spec, ImplementsUsers

=============================================================================
