------------------------- MODULE CompositionProofs -------------------------
(***************************************************************************)
(* Proofs about the composition, for any number of sidecars, releases,     *)
(* classes and workers: the controller beside the sidecars implements its  *)
(* own specification, so whatever is proved of it holds there.             *)
(***************************************************************************)
EXTENDS Composition, SidecarProofs

LEMMA NextIsOneOfThem ==
  ASSUME AllNext
  PROVE  \/ UNCHANGED sidecarVars /\ (ClassUsers \/ Ctl!Faults \/ Ctl!System)
         \/ Next /\ UNCHANGED controllerVars
BY Zenon DEF AllNext, AllEnvironment, Work, OfSidecars, OfController, Next

\* In a step of the composition the sidecars take a step of theirs or none.
LEMMA SidecarsStep == [AllNext]_allVars => [Next]_vars
<1>1. UNCHANGED sidecarVars => UNCHANGED vars
  BY DEF sidecarVars, vars
<1>2. QED
  BY <1>1, NextIsOneOfThem, Zenon DEF allVars

\* The sidecars keep their invariant beside the controller.
LEMMA SidecarsKeepInv == AllSpec => []SidecarInv
<1>1. AllInit => SidecarInv
  BY InitInv DEF AllInit
<1>2. QED
  BY <1>1, SidecarsStep, NextInv, PTL DEF AllSpec

\* What users do to classes is what the users of the controller may do.
LEMMA ClassUsersAreUsers == ClassUsers => Ctl!Users
BY Zenon DEF ClassUsers, Ctl!Users, Ctl!queueVars, Ctl!cacheVars

\* What a sidecar does is what the users of the controller may do, or nothing to
\* the controller.
LEMMA SidecarsAreUsers ==
  ASSUME SidecarInv, Next, UNCHANGED controllerVars
  PROVE  [Ctl!Users]_(Ctl!vars)
<1>1. [\E p \in Provisioners : \E new \in PublishedOrNone(p) :
         Controllers!SetProvisionerCapability(p, new)]_features
  BY NextUsers
<1>2. CASE UNCHANGED features
  BY <1>2 DEF controllerVars, Ctl!vars, Ctl!clusterVars, Ctl!queueVars, Ctl!cacheVars
<1>3. ASSUME NEW p \in Provisioners, NEW new \in PublishedOrNone(p),
             Controllers!SetProvisionerCapability(p, new)
      PROVE  Ctl!Users
  <2>1. Ctl!SetProvisionerCapability(p, new)
    BY <1>3 DEF Controllers!SetProvisionerCapability, Ctl!SetProvisionerCapability,
                controllerVars
  <2>2. new \in PublishedFeatures[p] \cup {None}
    BY DEF PublishedOrNone
  <2>3. QED
    BY <2>1, <2>2 DEF Ctl!Users, controllerVars, Ctl!queueVars, Ctl!cacheVars
<1>4. QED
  BY <1>1, <1>2, <1>3

\* Composed with the sidecars, the controller behaves as it was specified in an
\* environment that may publish anything at any time.
THEOREM ControllerIsImplemented == AllSpec => ImplementsController
<1>1. AllInit => Ctl!Init
  BY DEF AllInit
<1>2. SidecarInv /\ [AllNext]_allVars => [Ctl!Next]_(Ctl!vars)
  <2> SUFFICES ASSUME SidecarInv, [AllNext]_allVars
               PROVE  [Ctl!Next]_(Ctl!vars)
    OBVIOUS
  <2>1. CASE UNCHANGED sidecarVars /\ (ClassUsers \/ Ctl!Faults \/ Ctl!System)
    BY <2>1, ClassUsersAreUsers, Zenon DEF Ctl!Next
  <2>2. CASE Next /\ UNCHANGED controllerVars
    BY <2>2, SidecarsAreUsers, Zenon DEF Ctl!Next
  <2>3. CASE UNCHANGED allVars
    <3>1. UNCHANGED features
      BY <2>3 DEF allVars, sidecarVars, features
    <3>2. QED
      BY <2>3, <3>1 DEF allVars, controllerVars, Ctl!vars, Ctl!clusterVars,
                        Ctl!queueVars, Ctl!cacheVars
  <2>4. QED
    BY <2>1, <2>2, <2>3, NextIsOneOfThem, Zenon
<1>3. QED
  BY <1>1, <1>2, SidecarsKeepInv, PTL DEF AllSpec, ImplementsController

-----------------------------------------------------------------------------
(* What is proved of the controller holds beside the sidecars.             *)

\* The controller with what is proved of it.
Proved == INSTANCE ControllerProofs WITH
  pcap <- features, Published <- PublishedFeatures,
  Bases <- FlagSets, Snapshots <- SUBSET SnapshotRpcs, NoSnapshot <- {}

\* What is assumed of the controller's constants holds of those it has here
\* (GetFullCapability returns features of their type).
LEMMA AssumptionsHold ==
  /\ Proved!NoneAssumption
  /\ Proved!ClusterAssumption
  /\ Proved!ControllerAssumption
<1>1. Proved!Features = Features /\ Ctl!Features = Features
  BY DEF Proved!Features, Ctl!Features, Features, Proved!ExpandModes, Ctl!ExpandModes,
         ExpandModes
<1>2. /\ Proved!StorageClasses = Ctl!StorageClasses
      /\ Proved!ProvisionerCapabilities = Ctl!ProvisionerCapabilities
      /\ Proved!StorageClassCapabilities = Ctl!StorageClassCapabilities
  BY <1>1 DEF Proved!StorageClasses, Ctl!StorageClasses, Proved!ProvisionerCapabilities,
         Ctl!ProvisionerCapabilities, Proved!StorageClassCapabilities,
         Ctl!StorageClassCapabilities, Proved!ExpandModes, Ctl!ExpandModes
<1>3. PublishedFeatures \in [Provisioners -> SUBSET Features]
  <2>1. \A r \in Releases : Full(r).features \in Features
    BY FullType DEF Specs
  <2>2. QED
    BY <2>1 DEF PublishedFeatures, ReleasesOf
<1>4. QED
  BY <1>1, <1>2, <1>3, CompositionAssumption
  DEF Proved!NoneAssumption, Proved!ClusterAssumption, Proved!ControllerAssumption

\* The two instances are of one specification.
LEMMA SameSpecification ==
  /\ Ctl!Init => Proved!Init
  /\ Ctl!Next => Proved!Next
  /\ UNCHANGED Ctl!vars => UNCHANGED Proved!vars
  /\ Proved!OneDriver <=> Ctl!OneDriver
  /\ \A c : Ctl!Settled(c) /\ Ctl!Derivable(c) => Proved!Settled(c) /\ Proved!Derivable(c)
  /\ \A c : Proved!Desired(c) = Ctl!Desired(c)
BY Zenon DEF Ctl!DereferencesNil, Proved!DereferencesNil, Ctl!newSccap, Proved!newSccap,
             Ctl!updateSccap, Proved!updateSccap, Ctl!clusterVars, Proved!clusterVars,
             Ctl!ClusterInit, Proved!ClusterInit, Ctl!SetStorageClass,
             Proved!SetStorageClass, Ctl!SetSnapshotClass, Proved!SetSnapshotClass,
             Ctl!SetProvisionerCapability, Proved!SetProvisionerCapability,
             Ctl!queueVars, Proved!queueVars, Ctl!QueueInit, Proved!QueueInit, Ctl!Add,
             Proved!Add, Ctl!GetProcessing, Proved!GetProcessing, Ctl!Get, Proved!Get,
             Ctl!ForgetAndDone, Proved!ForgetAndDone, Ctl!RetryAndDone,
             Proved!RetryAndDone, Ctl!DelayExpires, Proved!DelayExpires, Ctl!QueueReset,
             Proved!QueueReset, Ctl!cacheVars, Proved!cacheVars, Ctl!vars, Proved!vars,
             Ctl!Kinds, Proved!Kinds, Ctl!Notifications, Proved!Notifications,
             Ctl!NotificationsOf, Proved!NotificationsOf, Ctl!Copies, Proved!Copies,
             Ctl!NoCopy, Proved!NoCopy, Ctl!Idle, Proved!Idle, Ctl!NothingPending,
             Proved!NothingPending, Ctl!Init, Proved!Init, Ctl!StartInformers,
             Proved!StartInformers, Ctl!StartWorkers, Proved!StartWorkers,
             Ctl!ProcessExits, Proved!ProcessExits, Ctl!Crash, Proved!Crash, Ctl!Notice,
             Proved!Notice, Ctl!Notify, Proved!Notify, Ctl!Outdated, Proved!Outdated,
             Ctl!LatestCopy, Proved!LatestCopy, Ctl!EditCapability,
             Proved!EditCapability, Ctl!Announcements, Proved!Announcements,
             Ctl!InitialList, Proved!InitialList, Ctl!DeliverClass, Proved!DeliverClass,
             Ctl!DeliverSnapshotClass, Proved!DeliverSnapshotClass,
             Ctl!DeliverProvisionerCapability, Proved!DeliverProvisionerCapability,
             Ctl!DeliverCapability, Proved!DeliverCapability,
             Ctl!ResyncProvisionerCapability, Proved!ResyncProvisionerCapability,
             Ctl!ResyncCapability, Proved!ResyncCapability, Ctl!enqueueSccap,
             Proved!enqueueSccap, Ctl!enqueuePcap, Proved!enqueuePcap,
             Ctl!handleScObject, Proved!handleScObject, Ctl!Handle, Proved!Handle,
             Ctl!RateLimitExpires, Proved!RateLimitExpires, Ctl!Becomes, Proved!Becomes,
             Ctl!ProcessNextWorkItem, Proved!ProcessNextWorkItem, Ctl!Succeed,
             Proved!Succeed, Ctl!Retry, Proved!Retry, Ctl!GetStorageClass,
             Proved!GetStorageClass, Ctl!Provisioner, Proved!Provisioner,
             Ctl!GetProvisionerCapability, Ctl!pcapLister,
             Proved!GetProvisionerCapability, Proved!pcapLister, Ctl!GetSnapshotClass,
             Proved!GetSnapshotClass, Ctl!GetStorageClassCapability, Ctl!sccapLister,
             Proved!GetStorageClassCapability, Proved!sccapLister, Ctl!CreateCapability,
             Ctl!Created, Proved!CreateCapability, Proved!Created, Ctl!UpdateCapability,
             Ctl!Updated, Proved!UpdateCapability, Proved!Updated, Ctl!DerivePanics,
             Proved!DerivePanics, Ctl!DeleteCapability, Ctl!Deleted,
             Proved!DeleteCapability, Proved!Deleted, Ctl!Users, Proved!Users,
             Ctl!Faults, Proved!Faults, Ctl!WorkerStep, Proved!WorkerStep, Ctl!System,
             Proved!System, Ctl!Next, Proved!Next, Ctl!OneDriver, Proved!OneDriver,
             Ctl!Settled, Proved!Settled, Ctl!CachesCurrent, Proved!CachesCurrent,
             Ctl!Scheduled, Proved!Scheduled, Ctl!Announced, Proved!Announced,
             Ctl!Derivable, Proved!Derivable, Ctl!Desired, Proved!Desired

\* The invariant behind OneDriver is kept beside any sidecars.
LEMMA OneDriverInvHolds ==
  ASSUME CapabilityEdits \subseteq {None} PROVE AllSpec => []Proved!OneDriverInv
<1>1. AllSpec => Ctl!Init /\ [][Ctl!Next]_(Ctl!vars)
  BY ControllerIsImplemented, PTL DEF ImplementsController
<1>2. Ctl!Init => Proved!OneDriverInv
  BY AssumptionsHold, SameSpecification, Proved!InitOneDriver
<1>3. Proved!OneDriverInv /\ [Ctl!Next]_(Ctl!vars) => Proved!OneDriverInv'
  <2>1. Proved!OneDriverInv /\ [Proved!Next]_(Proved!vars) => Proved!OneDriverInv'
    BY AssumptionsHold, Proved!NextOneDriver
  <2>2. [Ctl!Next]_(Ctl!vars) => [Proved!Next]_(Proved!vars)
    BY SameSpecification
  <2>3. QED
    BY <2>1, <2>2
<1>4. QED
  BY <1>1, <1>2, <1>3, PTL

\* A class that says what was published for a driver says what one release of
\* the driver reports.
LEMMA PublishedIsReported == Proved!OneDriverInv => ReportedByOneRelease
<1> SUFFICES ASSUME Proved!OneDriverInv, NEW c \in ClassNames, sccap[c] # None
             PROVE  \E r \in ReleasesOf(sccap[c].provisioner) :
                      /\ sccap[c].base = Full(r).features.base
                      /\ sccap[c].expand \in {Full(r).features.expand, "UNKNOWN"}
                      /\ sccap[c].snapshot \in {Full(r).features.snapshot, {}}
  BY DEF ReportedByOneRelease
<1>1. sccap[c].provisioner \in Provisioners
  BY DEF Proved!OneDriverInv, Proved!TypeOK, Proved!ClusterTypeOK,
         Proved!StorageClassCapabilities
<1>2. PICK f \in PublishedFeatures[sccap[c].provisioner] :
        /\ sccap[c].base = f.base
        /\ sccap[c].expand \in {f.expand, "UNKNOWN"}
        /\ sccap[c].snapshot \in {f.snapshot, {}}
  BY DEF Proved!OneDriverInv, Proved!OneDriver
<1>3. PICK r \in ReleasesOf(sccap[c].provisioner) : f = Full(r).features
  BY <1>1, <1>2 DEF PublishedFeatures
<1>4. QED
  BY <1>2, <1>3

\* From the driver to the class, for any number of everything: if users write no
\* StorageClassCapabilities, what each of them says was reported by one release of
\* the driver it names.
THEOREM ReportsAreWhole ==
  ASSUME CapabilityEdits \subseteq {None} PROVE AllSpec => []ReportedByOneRelease
BY OneDriverInvHolds, PublishedIsReported, PTL

-----------------------------------------------------------------------------
(* Nothing is lost on the way from the driver to the class.                *)

\* The invariant behind NoLostUpdate is kept beside any sidecars.
LEMMA UpdateInvHolds ==
  ASSUME ~WatchMayBreak PROVE AllSpec => []Proved!UpdateInv
<1>1. AllSpec => Ctl!Init /\ [][Ctl!Next]_(Ctl!vars)
  BY ControllerIsImplemented, PTL DEF ImplementsController
<1>2. Ctl!Init => Proved!UpdateInv
  BY AssumptionsHold, SameSpecification, Proved!InitUpdateInv
<1>3. Proved!UpdateInv /\ [Ctl!Next]_(Ctl!vars) => Proved!UpdateInv'
  <2>1. Proved!UpdateInv /\ [Proved!Next]_(Proved!vars) => Proved!UpdateInv'
    BY AssumptionsHold, Proved!NextUpdateInv
  <2>2. [Ctl!Next]_(Ctl!vars) => [Proved!Next]_(Proved!vars)
    BY SameSpecification
  <2>3. QED
    BY <2>1, <2>2
<1>4. QED
  BY <1>1, <1>2, <1>3, PTL

\* What is published and whole is reported by one release, so what the controller
\* derives from it is.
LEMMA UpdatedIsReported ==
  SidecarInv /\ Proved!UpdateInv => QuietIsReported
<1> SUFFICES ASSUME SidecarInv, Proved!UpdateInv, NEW c \in ClassNames,
                    Ctl!Settled(c), Ctl!Derivable(c)
             PROVE  \E r \in ReleasesOf(sc[c].provisioner) : sccap[c] = DerivedFrom(c, r)
  BY DEF QuietIsReported
<1>1. Proved!NoLostUpdate
  BY AssumptionsHold, Proved!AttendedIsUpdated
<1>2. sccap[c] = Ctl!Desired(c)
  BY <1>1, SameSpecification DEF Proved!NoLostUpdate
<1>3. PICK p \in Provisioners : p = sc[c].provisioner /\ features[p] # None
  <2>1. sc[c] # None /\ sc[c] \in ClassSpecs \cup {None}
    BY DEF Ctl!Derivable, Proved!UpdateInv, Proved!TypeOK, Proved!ClusterTypeOK
  <2>2. sc[c].provisioner \in Provisioners
    BY <2>1, AssumptionsHold DEF Proved!ClusterAssumption, Proved!StorageClasses
  <2>3. QED
    BY <2>2 DEF Ctl!Derivable
<1>4. PICK r \in ReleasesOf(p) : features[p] = Full(r).features
  BY <1>3 DEF SidecarInv, Whole, features
<1>5. Ctl!Desired(c) = DerivedFrom(c, r)
  BY <1>3, <1>4 DEF Ctl!Desired, DerivedFrom, ReleasesOf
<1>6. QED
  BY <1>2, <1>3, <1>4, <1>5

\* From the driver to the class, when all is quiet there: as long as no watch breaks,
\* every StorageClassCapability says what its class says now and what one release of
\* its driver reports, for any number of everything and however often anything fails.
THEOREM NothingReportedIsLost ==
  ASSUME ~WatchMayBreak PROVE AllSpec => []QuietIsReported
BY SidecarsKeepInv, UpdateInvHolds, UpdatedIsReported, PTL

=============================================================================
