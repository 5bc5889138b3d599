---------------------------- MODULE Composition ----------------------------
(***************************************************************************)
(* The sidecars and the controller together.  They share the API server:   *)
(* what the sidecars write into the ProvisionerCapabilities is what the    *)
(* controller derives the StorageClassCapabilities from.  A step is one of *)
(* a sidecar, its driver or an administrator, or one of the controller or  *)
(* of the users of classes.                                                *)
(***************************************************************************)
EXTENDS SidecarProperties

CONSTANTS
  ClassNames, ClassSpecs, SnapDrivers,                   \* as in Cluster
  Workers, CapabilityEdits, WatchMayBreak, ApiMayFail    \* as in Controller

VARIABLES
  sc, snap, sccap,               \* the other objects of the API server
  dirty, processing, delayed,    \* the queue of the controller
  phase, synced, scCache, snapCache, pcapCache, sccapCache, pending, worker

\* Of a ProvisionerCapability, the controller uses the features.
Ctl == INSTANCE ControllerProperties WITH
  pcap <- features, Published <- PublishedFeatures,
  Bases <- FlagSets, Snapshots <- SUBSET SnapshotRpcs, NoSnapshot <- {}

\* The controller's assumptions; that only features of the right type are
\* published is not one here.
ASSUME CompositionAssumption ==
  /\ None \notin ClassNames
  /\ None \notin Provisioners
  /\ None \notin Ctl!StorageClasses
  /\ None \notin Ctl!ProvisionerCapabilities
  /\ None \notin Ctl!Features
  /\ None \notin Ctl!StorageClassCapabilities
  /\ ClassSpecs \subseteq Ctl!StorageClasses
  /\ SnapDrivers \subseteq Provisioners
  /\ CapabilityEdits \subseteq Ctl!StorageClassCapabilities \cup {None}
  /\ WatchMayBreak \in BOOLEAN
  /\ ApiMayFail \in BOOLEAN

sidecarVars == <<pcap, driver, connected, sidecar>>

controllerVars ==
  <<sc, snap, sccap, dirty, processing, delayed, phase, synced, scCache, snapCache,
    pcapCache, sccapCache, pending, worker>>

allVars == <<sidecarVars, controllerVars>>

AllInit == Init /\ Ctl!Init

\* A step of one of the two.
OfSidecars(A) == A /\ UNCHANGED controllerVars
OfController(A) == UNCHANGED sidecarVars /\ A

\* What users do to classes and to what the controller derived for them.  The
\* users of Controller who set a ProvisionerCapability are the sidecars here.
ClassUsers ==
  \/ /\ \/ \E c \in ClassNames, new \in ClassSpecs \cup {None} :
             Ctl!SetStorageClass(c, new)
        \/ \E c \in ClassNames, new \in SnapDrivers \cup {None} :
             Ctl!SetSnapshotClass(c, new)
     /\ UNCHANGED <<dirty, processing, delayed, phase, synced, scCache, snapCache,
                    pcapCache, sccapCache, pending, worker>>
  \/ \E c \in ClassNames, new \in CapabilityEdits : Ctl!EditCapability(c, new)

AllEnvironment ==
  \/ OfSidecars(Environment)
  \/ OfController(ClassUsers)
  \/ OfController(Ctl!Faults)

Work ==
  \/ OfSidecars(System)
  \/ OfController(Ctl!System)

AllNext == AllEnvironment \/ Work

AllSpec == AllInit /\ [][AllNext]_allVars

-----------------------------------------------------------------------------
(* What they promise together.                                             *)

\* The controller, checked and proved in an environment that may publish
\* anything at any time, behaves beside the real sidecars as it was checked:
\* composed with them it implements its own specification.
ImplementsController == Ctl!Init /\ [][Ctl!Next]_(Ctl!vars)

\* From the driver to the class: what a StorageClassCapability says was reported
\* by one release of the driver it names, although the driver is replaced between
\* the calls of a sidecar, the ProvisionerCapability between the reads of a
\* worker, and the class at any time.
ReportedByOneRelease ==
  \A c \in ClassNames : sccap[c] # None =>
    \E r \in ReleasesOf(sccap[c].provisioner) :
      /\ sccap[c].base = Full(r).features.base
      /\ sccap[c].expand \in {Full(r).features.expand, "UNKNOWN"}
      /\ sccap[c].snapshot \in {Full(r).features.snapshot, {}}

\* What class c should say of a driver of release r.
DerivedFrom(c, r) ==
  Ctl!newSccap(sc[c], snap[c], [name |-> Reports[r].name, features |-> Full(r).features])

\* When nothing is under way for a class in the controller, whatever the sidecars are
\* at, its StorageClassCapability says what the class and its snapshot class say now
\* and what one release of their driver reports, though drivers, sidecars and the
\* controller were replaced and restarted on the way.
QuietIsReported ==
  \A c \in ClassNames :
    Ctl!Settled(c) /\ Ctl!Derivable(c)
      => \E r \in ReleasesOf(sc[c].provisioner) : sccap[c] = DerivedFrom(c, r)

-----------------------------------------------------------------------------
(* Fairness: that of the sidecars, and of that of the controller what it   *)
(* needs as long as no watch breaks: neither the resync nor tombstones.    *)

\* What is grouped cannot keep each other from happening.
ControllerFairness ==
  /\ WF_allVars(OfController(Ctl!StartInformers \/ Ctl!StartWorkers))
  /\ WF_allVars(OfController(\E kind \in Ctl!Kinds : Ctl!InitialList(kind)))
  /\ WF_allVars(OfController(
       \/ \E c \in ClassNames :
            \/ Ctl!DeliverClass(c, FALSE)
            \/ Ctl!DeliverSnapshotClass(c, FALSE)
            \/ Ctl!DeliverCapability(c, FALSE)
       \/ \E p \in Provisioners : Ctl!DeliverProvisionerCapability(p, FALSE)))
  /\ \A kind \in Ctl!Kinds : \A name \in ClassNames \cup Provisioners :
       WF_allVars(OfController(Ctl!Handle(kind, Ctl!Notice(name, FALSE))))
  /\ \A c \in ClassNames :
       /\ WF_allVars(OfController(Ctl!RateLimitExpires(c)))
       /\ SF_allVars(OfController(\E w \in Workers : Ctl!ProcessNextWorkItem(w, c)))
  /\ \A w \in Workers : WF_allVars(OfController(Ctl!WorkerStep(w)))

SidecarFairness ==
  \A s \in Sidecars :
    /\ WF_allVars(OfSidecars(Start(s) \/ SidecarStep(s)))
    /\ WF_allVars(OfSidecars(ConnectionLost(s)))

\* Class c says what a driver that runs reports, and nothing without a class.
EndToEnd(c) ==
  LET running(p) == {driver[s] : s \in {t \in Sidecars : Reports[driver[t]].name = p}}
  IN  IF sc[c] = None
        THEN sccap[c] = None
        ELSE running(sc[c].provisioner) # {} =>
               \E r \in running(sc[c].provisioner) : sccap[c] = DerivedFrom(c, r)

\* Once the users, the drivers and the faults leave the system alone, every
\* StorageClassCapability settles on what a running driver reports.
Delivers == <>[](\A c \in ClassNames : EndToEnd(c))

=============================================================================
