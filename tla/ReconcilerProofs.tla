-------------------------- MODULE ReconcilerProofs --------------------------
(***************************************************************************)
(* Proof that the controller implements the reconciler, step by step.      *)
(*                                                                         *)
(* The abstract specification says nothing of a class that is not in the   *)
(* cache or that is scheduled after a step.  So the proof is about the     *)
(* steps after which a cached class is not scheduled: each of them leaves  *)
(* the class at rest, takes it, settles it, or lets a user overwrite it.   *)
(***************************************************************************)
EXTENDS ControllerProofs

\* What class c is derived from is the same in the caches.
SameCaches(c) ==
  /\ scCache'[c] = scCache[c]
  /\ snapCache'[c] = snapCache[c]
  /\ pcapCache'[scCache[c].provisioner] = pcapCache[scCache[c].provisioner]

\* The same workers handle class c, and know as much as before.
SameHandling(c) ==
  \A w \in Workers :
    /\ worker'[w].key = c => worker[w].key = c
    /\ UpToDate(w, c)' <=> UpToDate(w, c)

\* The four ways in which a step leaves a cached class unscheduled.
RestStep(c) ==
  /\ SameCaches(c) /\ SameHandling(c) /\ ~Scheduled(c)
  /\ sccap'[c] = sccap[c]
  /\ sccapCache'[c].latest = sccapCache[c].latest

OverwriteStep(c) ==
  /\ SameCaches(c) /\ SameHandling(c) /\ ~Scheduled(c)
  /\ sccap'[c] \in CapabilityEdits
  /\ ~sccapCache'[c].latest

TakeStep(c) ==
  /\ SameCaches(c) /\ Scheduled(c)
  /\ sccap'[c] = sccap[c]
  /\ \E w \in Workers : UpToDate(w, c)'
  /\ \A w \in Workers : worker'[w].key = c => UpToDate(w, c)'

SettleStep(c) ==
  /\ SameCaches(c) /\ ~Scheduled(c)
  /\ \E w \in Workers : UpToDate(w, c)
  /\ \A w \in Workers : worker'[w].key # c
  /\ sccap'[c] = IF WantedOf(c) = None THEN sccap[c] ELSE WantedOf(c)

UnscheduledStep(c) ==
  RestStep(c) \/ OverwriteStep(c) \/ TakeStep(c) \/ SettleStep(c)

-----------------------------------------------------------------------------
(* The steps of users and informers.                                       *)

\* A worker that does not move knows as much as before, when the caches say the
\* same of its class.
LEMMA HandlingStays ==
  ASSUME NEW c, SameLocals, SameCaches(c)
  PROVE  SameHandling(c)
  BY DEF SameLocals, SameCaches, SameHandling, UpToDate

\* Users, who write the StorageClassCapability of one class at a time.
LEMMA UsersUnscheduled ==
  ASSUME UpdateInv, Users, NEW c \in ClassNames, ~Scheduled(c)'
  PROVE  RestStep(c) \/ OverwriteStep(c)
  <1>0. SameLocals
    BY OthersKeepLocals DEF UpdateInv, LocalsOKAll
  <1>1. ASSUME NEW d \in ClassNames, NEW new \in CapabilityEdits, EditCapability(d, new)
        PROVE  RestStep(c) \/ OverwriteStep(c)
    <2>1. UNCHANGED <<queueVars, scCache, snapCache, pcapCache, phase, pending>>
      BY <1>1 DEF EditCapability
    <2>2. SameCaches(c) /\ ~Scheduled(c)
      BY <2>1, GrowingSchedule DEF queueVars, SameCaches
    <2>3. SameHandling(c)
      BY <1>0, <2>2, HandlingStays
    <2>4. CASE c = d
      <3>1. ~sccapCache'[c].latest /\ sccap'[c] = new
        BY <1>1, <2>4, OutdatedType
        DEF EditCapability, UpdateInv, TypeOK, CacheTypeOK, ClusterTypeOK, Outdated, Copies
      <3> QED BY <2>2, <2>3, <3>1 DEF OverwriteStep
    <2>5. CASE c # d
      <3>1. sccapCache'[c] = sccapCache[c] /\ sccap'[c] = sccap[c]
        BY <1>1, <2>5
        DEF EditCapability, UpdateInv, TypeOK, CacheTypeOK, ClusterTypeOK
      <3> QED BY <2>2, <2>3, <3>1 DEF RestStep
    <2> QED BY <2>4, <2>5
  <1>2. CASE UNCHANGED <<queueVars, cacheVars, phase, pending, sccap>>
    <2>1. SameCaches(c) /\ ~Scheduled(c)
      BY <1>2, GrowingSchedule DEF queueVars, cacheVars, SameCaches
    <2> QED BY <1>0, <1>2, <2>1, HandlingStays DEF RestStep, cacheVars
  <1> QED
    BY <1>1, <1>2
    DEF Users, SetStorageClass, SetSnapshotClass, SetProvisionerCapability

\* An informer that catches up with something class c is derived from schedules
\* it; another one leaves it at rest.
LEMMA DeliveryUnscheduled ==
  ASSUME UpdateInv, ~WatchMayBreak, NEW c \in ClassNames, scCache'[c] # None, ~Scheduled(c)',
         \/ \E d \in ClassNames, t \in BOOLEAN :
              \/ DeliverClass(d, t)
              \/ DeliverSnapshotClass(d, t)
              \/ DeliverCapability(d, t)
         \/ \E p \in Provisioners, t \in BOOLEAN : DeliverProvisionerCapability(p, t)
  PROVE  RestStep(c)
  <1>0. SameLocals
    BY OthersKeepLocals DEF UpdateInv, LocalsOKAll
  <1> USE DEF UpdateInv, TypeOK, CacheTypeOK, PendingTypeOK, queueVars, Kinds
  <1>1. ASSUME NEW d \in ClassNames, DeliverClass(d, FALSE) PROVE RestStep(c)
    <2>1. Notice(d, FALSE) \in pending'["sc"]
      BY <1>1 DEF DeliverClass, Notify
    <2>2. c # d
      BY <2>1 DEF Scheduled, Announced
    <2>3. SameCaches(c) /\ sccap'[c] = sccap[c] /\ sccapCache' = sccapCache
      BY <1>1, <2>2 DEF DeliverClass, SameCaches, clusterVars
    <2>4. ~Scheduled(c)
      BY <1>1, <2>3, GrowingSchedule DEF DeliverClass, Notify, SameCaches
    <2> QED BY <1>0, <2>3, <2>4, HandlingStays DEF RestStep
  <1>2. ASSUME NEW d \in ClassNames, DeliverSnapshotClass(d, FALSE) PROVE RestStep(c)
    <2>1. Notice(d, FALSE) \in pending'["snap"]
      BY <1>2 DEF DeliverSnapshotClass, Notify
    <2>2. c # d
      BY <2>1 DEF Scheduled, Announced
    <2>3. SameCaches(c) /\ sccap'[c] = sccap[c] /\ sccapCache' = sccapCache
      BY <1>2, <2>2 DEF DeliverSnapshotClass, SameCaches, clusterVars
    <2>4. ~Scheduled(c)
      BY <1>2, <2>3, GrowingSchedule DEF DeliverSnapshotClass, Notify, SameCaches
    <2> QED BY <1>0, <2>3, <2>4, HandlingStays DEF RestStep
  <1>3. ASSUME NEW d \in ClassNames, DeliverCapability(d, FALSE) PROVE RestStep(c)
    <2>1. Notice(d, FALSE) \in pending'["sccap"]
      <3> DEFINE notices == {n \in {Notice(d, FALSE)} : n.tombstone => sccapCache[d].there}
      <3>1. Notice(d, FALSE) \in notices
        BY DEF Notice
      <3>2. Notify("sccap", notices)
        BY <1>3 DEF DeliverCapability
      <3> HIDE DEF notices
      <3>3. pending'["sccap"] = pending["sccap"] \cup notices
        BY <3>2, NotifyAdds
      <3> QED BY <3>1, <3>3
    <2>2. c # d
      BY <2>1 DEF Scheduled, Announced
    <2>3. SameCaches(c) /\ sccap'[c] = sccap[c] /\ sccapCache'[c] = sccapCache[c]
      BY <1>3, <2>2 DEF DeliverCapability, SameCaches, clusterVars
    <2>4. ~Scheduled(c)
      BY <1>3, <2>3, GrowingSchedule DEF DeliverCapability, Notify, SameCaches
    <2> QED BY <1>0, <2>3, <2>4, HandlingStays DEF RestStep
  <1>4. ASSUME NEW p \in Provisioners, DeliverProvisionerCapability(p, FALSE)
        PROVE  RestStep(c)
    <2>1. Notice(p, FALSE) \in pending'["pcap"] /\ scCache' = scCache
      BY <1>4 DEF DeliverProvisionerCapability, Notify
    <2>2. scCache[c].provisioner # p
      BY <2>1 DEF Scheduled, Announced
    <2>3. SameCaches(c) /\ sccap'[c] = sccap[c] /\ sccapCache' = sccapCache
      BY <1>4, <2>2 DEF DeliverProvisionerCapability, SameCaches, clusterVars
    <2>4. ~Scheduled(c)
      BY <1>4, <2>3, GrowingSchedule DEF DeliverProvisionerCapability, Notify, SameCaches
    <2> QED BY <1>0, <2>3, <2>4, HandlingStays DEF RestStep
  <1>5. \/ \E d \in ClassNames : \/ DeliverClass(d, FALSE)
                               \/ DeliverSnapshotClass(d, FALSE)
                               \/ DeliverCapability(d, FALSE)
        \/ \E p \in Provisioners : DeliverProvisionerCapability(p, FALSE)
    <2>1. ASSUME NEW d \in ClassNames, NEW t \in BOOLEAN,
                 DeliverClass(d, t) \/ DeliverSnapshotClass(d, t) \/ DeliverCapability(d, t)
          PROVE  t = FALSE
      BY <2>1 DEF DeliverClass, DeliverSnapshotClass, DeliverCapability
    <2>2. ASSUME NEW p \in Provisioners, NEW t \in BOOLEAN, DeliverProvisionerCapability(p, t)
          PROVE  t = FALSE
      BY <2>2 DEF DeliverProvisionerCapability
    <2> QED BY <2>1, <2>2, Zenon
  <1> QED BY <1>1, <1>2, <1>3, <1>4, <1>5

\* An initial list never leaves a cached class unscheduled.
LEMMA ListSchedules ==
  ASSUME UpdateInv, NEW c \in ClassNames, scCache'[c] # None,
         NEW kind \in Kinds, InitialList(kind)
  PROVE  Scheduled(c)'
  <1>1. phase' # "running" /\ (scCache[c] # None => Attended(c))
    BY DEF InitialList, UpdateInv
  <1> QED BY <1>1, ListAttended DEF Attended

\* Handlers, back-off and resync unschedule no class.
LEMMA HandleUnscheduled ==
  ASSUME UpdateInv, NEW c \in ClassNames, ~Scheduled(c)',
         \/ \E kind \in Kinds : \E notice \in pending[kind] : Handle(kind, notice)
         \/ \E d \in ClassNames : ResyncCapability(d) \/ RateLimitExpires(d)
         \/ \E p \in Provisioners : ResyncProvisionerCapability(p)
  PROVE  RestStep(c)
  <1>0. SameLocals
    BY OthersKeepLocals DEF UpdateInv, LocalsOKAll
  <1>1. UNCHANGED <<clusterVars, cacheVars>>
    BY DEF Handle, ResyncCapability, ResyncProvisionerCapability, RateLimitExpires
  <1>2. ~Scheduled(c)
    BY HandleSchedule DEF UpdateInv
  <1>3. SameCaches(c)
    BY <1>1 DEF SameCaches, cacheVars
  <1> QED
    BY <1>0, <1>1, <1>2, <1>3, HandlingStays DEF RestStep, cacheVars, clusterVars

-----------------------------------------------------------------------------
(* The steps of the workers.                                               *)

\* A worker that has class c is up to date, unless the class is scheduled.
LEMMA HolderKnows ==
  ASSUME ReconcilerInv, NEW c \in ClassNames, scCache[c] # None, ~Scheduled(c),
         NEW w \in Workers, worker[w].key = c
  PROVE  UpToDate(w, c)
  BY DEF ReconcilerInv

\* No other worker has the class of worker w.
LEMMA OnlyHolder ==
  ASSUME UpdateInv, NEW c \in ClassNames, NEW w \in Workers, worker[w].key = c,
         NEW v \in Workers, v # w
  PROVE  worker[v].key # c
  BY NoneAssumption DEF UpdateInv, KeyExclusive, LocalsOK

\* The workers take a class, read for it, or give it up.
LEMMA ReadUnscheduled ==
  ASSUME ReconcilerInv, NEW c \in ClassNames, scCache'[c] # None, ~Scheduled(c)',
         NEW w \in Workers,
         \/ \E d \in ClassNames : ProcessNextWorkItem(w, d)
         \/ GetStorageClass(w)
         \/ GetProvisionerCapability(w)
         \/ GetSnapshotClass(w)
         \/ GetStorageClassCapability(w)
  PROVE  UnscheduledStep(c)
  <1>0. /\ worker[w] \in WorkerStates /\ LocalsOK(w)
        /\ worker \in [Workers -> WorkerStates]
        /\ UpdateInv /\ TypeOK
    BY DEF ReconcilerInv, UpdateInv, TypeOK
  <1>1. /\ UNCHANGED <<clusterVars, cacheVars, pending>>
        /\ delayed' = delayed
        /\ \A v \in Workers : v # w => worker'[v] = worker[v]
    BY <1>0
    DEF ProcessNextWorkItem, Get, GetStorageClass, GetProvisionerCapability, pcapLister,
        Succeed, ForgetAndDone, GetSnapshotClass, GetStorageClassCapability,
        sccapLister, Becomes, queueVars
  <1>2. SameCaches(c) /\ sccap'[c] = sccap[c] /\ sccapCache' = sccapCache /\ scCache[c] # None
    BY <1>1 DEF SameCaches, cacheVars, clusterVars
  <1>3. \A v \in Workers : v # w => (UpToDate(v, c)' <=> UpToDate(v, c))
    BY <1>1 DEF UpToDate, cacheVars
  <1>4. ASSUME NEW d \in ClassNames, ProcessNextWorkItem(w, d) PROVE UnscheduledStep(c)
    <2>1. worker[w].pc = "idle" /\ worker[w].key = None
      BY <1>0, <1>4 DEF ProcessNextWorkItem, LocalsOK
    <2>2. worker'[w].key = d /\ worker'[w].pc = "getClass"
      BY <1>0, <1>4 DEF ProcessNextWorkItem, Becomes, WorkerStates
    <2>3. CASE d = c
      <3>1. Scheduled(c) /\ c \notin processing
        BY <1>4, <2>3 DEF ProcessNextWorkItem, Get, Scheduled
      <3>2. UpToDate(w, c)'
        BY <2>2, <2>3 DEF UpToDate
      <3>3. ASSUME NEW v \in Workers, v # w PROVE worker'[v].key # c
        BY <1>0, <1>1, <3>1, <3>3, NoneAssumption DEF UpdateInv, KeyExclusive, LocalsOK
      <3> QED BY <1>2, <3>1, <3>2, <3>3 DEF TakeStep, UnscheduledStep
    <2>4. CASE d # c
      <3>1. ~Scheduled(c)
        BY <1>1, <1>4, <2>4 DEF ProcessNextWorkItem, Get, Scheduled, Announced, cacheVars
      <3>2. ~UpToDate(w, c) /\ ~UpToDate(w, c)'
        BY <2>1, <2>2, <2>4, NoneAssumption DEF UpToDate
      <3>3. SameHandling(c)
        BY <1>1, <1>3, <2>2, <2>4, <3>2 DEF SameHandling
      <3> QED BY <1>2, <3>1, <3>3 DEF RestStep, UnscheduledStep
    <2> QED BY <2>3, <2>4
  <1>5. ASSUME ~(\E d \in ClassNames : ProcessNextWorkItem(w, d))
        PROVE  UnscheduledStep(c)
    <2>1. dirty' = dirty
      BY <1>5
      DEF GetStorageClass, GetProvisionerCapability, pcapLister, Succeed, ForgetAndDone,
          GetSnapshotClass, GetStorageClassCapability, sccapLister, queueVars
    <2>2. ~Scheduled(c)
      BY <1>1, <2>1 DEF Scheduled, Announced, cacheVars
    <2>3. worker'[w].key = worker[w].key \/ worker'[w].key = None
      <3>1. CASE Succeed(w)
        BY <1>0, <3>1, IdleType, BecomesType DEF Succeed, Idle
      <3>2. CASE GetProvisionerCapability(w) /\ ~Succeed(w)
        BY <1>0, <3>2 DEF GetProvisionerCapability, pcapLister, Becomes, WorkerStates
      <3>3. CASE GetStorageClass(w)
        BY <1>0, <3>3 DEF GetStorageClass, Becomes, WorkerStates
      <3>4. CASE GetSnapshotClass(w) \/ GetStorageClassCapability(w)
        BY <1>0, <3>4 DEF GetSnapshotClass, GetStorageClassCapability, sccapLister,
                          Becomes, WorkerStates
      <3> QED BY <1>5, <3>1, <3>2, <3>3, <3>4
    <2>4. CASE worker[w].key # c
      <3>1. ~UpToDate(w, c) /\ ~UpToDate(w, c)'
        BY <2>3, <2>4, NoneAssumption DEF UpToDate
      <3>2. SameHandling(c)
        BY <1>1, <1>3, <2>3, <2>4, <3>1, NoneAssumption DEF SameHandling
      <3> QED BY <1>2, <2>2, <3>2 DEF RestStep, UnscheduledStep
    <2>5. CASE worker[w].key = c
      <3>1. UpToDate(w, c)
        BY <1>2, <2>2, <2>5, HolderKnows
      <3>2. CASE UpToDate(w, c)'
        <4>1. SameHandling(c)
          BY <1>1, <1>3, <2>5, <3>1, <3>2 DEF SameHandling
        <4> QED BY <1>2, <2>2, <4>1 DEF RestStep, UnscheduledStep
      <3>3. CASE pcapCache[scCache[c].provisioner] = None /\ Succeed(w)
        <4>1. WantedOf(c) = None
          BY <3>3 DEF WantedOf, CachedDerivable
        <4>2. worker'[w] = Idle
          BY <1>0, <3>3, IdleType, BecomesType DEF Succeed
        <4>3. \A v \in Workers : worker'[v].key # c
          BY <1>0, <1>1, <2>5, <4>2, OnlyHolder, NoneAssumption DEF Idle
        <4> QED BY <1>2, <2>2, <3>1, <4>1, <4>3 DEF SettleStep, UnscheduledStep
      <3> QED BY <1>0, <1>2, <1>5, <3>1, <3>2, <3>3, ReadKnows
    <2> QED BY <2>4, <2>5
  <1> QED BY <1>4, <1>5

\* A call for class c that does not schedule it is one that writes what is wanted.
LEMMA CallUnscheduled ==
  ASSUME ReconcilerInv, NEW c \in ClassNames, scCache'[c] # None, ~Scheduled(c)',
         NEW w \in Workers, NEW reply,
         \/ CreateCapability(w, reply)
         \/ UpdateCapability(w, reply)
         \/ DeleteCapability(w, reply)
         \/ DerivePanics(w)
  PROVE  UnscheduledStep(c)
  <1>0. /\ worker[w] \in WorkerStates /\ LocalsOK(w)
        /\ worker \in [Workers -> WorkerStates]
        /\ UpdateInv /\ TypeOK
    BY DEF ReconcilerInv, UpdateInv, TypeOK
  <1>1. /\ ~ProcessExits
        /\ Succeed(w) \/ Retry(w)
        /\ UNCHANGED <<scCache, snapCache, pcapCache, pending>>
    BY DEF CreateCapability, Created, UpdateCapability, Updated, DeleteCapability,
           Deleted, DerivePanics, ProcessExits, cacheVars
  <1>2. /\ worker'[w] = Idle
        /\ \A v \in Workers : v # w => worker'[v] = worker[v]
    BY <1>0, <1>1, IdleType, BecomesType DEF Succeed, Retry
  <1>3. dirty' = dirty /\ delayed \subseteq delayed' /\ (Retry(w) => worker[w].key \in delayed')
    BY <1>1 DEF Succeed, Retry, ForgetAndDone, RetryAndDone
  <1>4. SameCaches(c) /\ ~Scheduled(c) /\ scCache[c] # None
    BY <1>1, <1>3 DEF Scheduled, Announced, SameCaches
  <1>5. worker[w].key \in ClassNames
    BY <1>0 DEF WorkerStates, LocalsOK, CreateCapability, Created, UpdateCapability,
                Updated, DeleteCapability, Deleted, DerivePanics
  <1>6. CASE worker[w].key # c
    <2>1. sccap'[c] = sccap[c] /\ sccapCache'[c] = sccapCache[c]
      BY <1>0, <1>1, <1>5, <1>6
      DEF CreateCapability, Created, UpdateCapability, Updated, DeleteCapability,
          Deleted, DerivePanics, TypeOK, ClusterTypeOK, CacheTypeOK, cacheVars
    <2>2. ~UpToDate(w, c) /\ ~UpToDate(w, c)'
      BY <1>2, <1>6, NoneAssumption DEF UpToDate, Idle
    <2>3. \A v \in Workers : v # w => (UpToDate(v, c)' <=> UpToDate(v, c))
      BY <1>1, <1>2 DEF UpToDate
    <2>4. SameHandling(c)
      BY <1>2, <2>2, <2>3, NoneAssumption DEF SameHandling, Idle
    <2> QED BY <1>4, <2>1, <2>4 DEF RestStep, UnscheduledStep
  <1>7. CASE worker[w].key = c
    <2>1. UpToDate(w, c)
      BY <1>4, <1>7, HolderKnows
    <2>2. ~Retry(w)
      BY <1>3, <1>7 DEF Scheduled
    <2>3. worker[w].pc \in {"create", "update"} /\ sccap'[c] = CachedDesired(c)
      <3>1. CASE CreateCapability(w, reply)
        <4>1. /\ worker[w].pc = "create"
              /\ sccap'[c] = newSccap(worker[w].class, worker[w].driver, worker[w].pcap)
          BY <1>0, <1>7, <2>2, <3>1 DEF CreateCapability, Created, TypeOK, ClusterTypeOK
        <4> QED BY <1>0, <2>1, <4>1, DerivesWanted
      <3>2. CASE UpdateCapability(w, reply)
        <4>1. /\ worker[w].pc = "update"
              /\ sccap'[c] = updateSccap(worker[w].class, worker[w].driver, worker[w].pcap)
          BY <1>0, <1>7, <2>2, <3>2 DEF UpdateCapability, Updated, TypeOK, ClusterTypeOK
        <4> QED BY <1>0, <2>1, <4>1, DerivesWanted
      <3>3. ~DeleteCapability(w, reply) /\ ~DerivePanics(w)
        BY <1>1, <2>1 DEF DeleteCapability, Deleted, DerivePanics, UpToDate
      <3> QED BY <3>1, <3>2, <3>3
    <2>4. WantedOf(c) = CachedDesired(c) /\ WantedOf(c) # None
      <3>1. pcapCache[scCache[c].provisioner] \in Features
        BY <1>0, <2>1, <2>3 DEF UpToDate, LocalsOK, WorkerStates, ProvisionerCapabilities
      <3>2. CachedDesired(c) \in StorageClassCapabilities
        BY <1>0, <2>1, <2>3, SpecType, DerivesWanted
      <3> QED BY <1>4, <3>1, <3>2, NoneAssumption DEF WantedOf, CachedDerivable
    <2>5. \A v \in Workers : worker'[v].key # c
      BY <1>0, <1>2, <1>7, OnlyHolder, NoneAssumption DEF Idle
    <2> QED BY <1>4, <2>1, <2>3, <2>4, <2>5 DEF SettleStep, UnscheduledStep
  <1> QED BY <1>6, <1>7

-----------------------------------------------------------------------------
(* Every step of the controller is one of the reconciler.                  *)

\* Every step that leaves a cached class unscheduled is one of the four.
LEMMA NextUnscheduled ==
  ASSUME ReconcilerInv, ~WatchMayBreak, [Next]_vars, NEW c \in ClassNames,
         scCache'[c] # None, ~Scheduled(c)'
  PROVE  UnscheduledStep(c)
  <1>0. UpdateInv
    BY DEF ReconcilerInv
  <1>1. CASE UNCHANGED vars
    <2>1. SameCaches(c) /\ sccap' = sccap /\ sccapCache' = sccapCache /\ ~Scheduled(c)
      BY <1>1 DEF vars, clusterVars, queueVars, cacheVars, Scheduled, Announced, SameCaches
    <2>2. SameLocals
      BY <1>0, <1>1, OthersKeepLocals DEF UpdateInv, LocalsOKAll
    <2> QED BY <2>1, <2>2, HandlingStays DEF RestStep, UnscheduledStep
  <1>2. CASE Users
    BY <1>0, <1>2, UsersUnscheduled DEF UnscheduledStep
  <1>3. CASE Faults
    <2>1. ~Crash
      BY DEF Crash, ProcessExits
    <2> QED BY <1>0, <1>3, <2>1, CallUnscheduled, DeliveryUnscheduled
            DEF Faults, UnscheduledStep
  <1>4. CASE System
    <2>1. CASE StartInformers \/ StartWorkers
      <3>1. UNCHANGED <<clusterVars, queueVars, cacheVars, pending, worker>> /\ phase # "running"
        BY <2>1 DEF StartInformers, StartWorkers
      <3>2. Scheduled(c)
        BY <1>0, <3>1 DEF cacheVars, UpdateInv, Attended
      <3> QED
        BY <3>1, <3>2 DEF Scheduled, Announced, queueVars, cacheVars
    <2>2. ASSUME NEW w \in Workers,
                 WorkerStep(w) \/ \E d \in ClassNames : ProcessNextWorkItem(w, d)
          PROVE  UnscheduledStep(c)
      BY <2>2, ReadUnscheduled, CallUnscheduled DEF WorkerStep
    <2>3. ASSUME \/ \E d \in ClassNames : \/ DeliverClass(d, FALSE)
                                         \/ DeliverSnapshotClass(d, FALSE)
                                         \/ DeliverCapability(d, FALSE)
                 \/ \E p \in Provisioners : DeliverProvisionerCapability(p, FALSE)
          PROVE  UnscheduledStep(c)
      BY <1>0, <2>3, DeliveryUnscheduled DEF UnscheduledStep
    <2> QED
      BY <1>0, <1>4, <2>1, <2>2, <2>3, ListSchedules, HandleUnscheduled
      DEF System, UnscheduledStep
  <1> QED BY <1>1, <1>2, <1>3, <1>4 DEF Next

\* Before the process runs nothing is cached.
LEMMA InitReconcilerInv == Init => ReconcilerInv
  BY InitUpdateInv DEF Init, ReconcilerInv

\* No worker is left with outdated locals of a class nobody will look at again.
LEMMA NextReconcilerInv ==
  ASSUME ~WatchMayBreak PROVE ReconcilerInv /\ [Next]_vars => ReconcilerInv'
  <1> SUFFICES ASSUME ReconcilerInv, [Next]_vars PROVE ReconcilerInv'
    OBVIOUS
  <1>0. UpdateInv
    BY DEF ReconcilerInv
  <1>1. UpdateInv'
    BY <1>0, NextUpdateInv
  <1>2. ASSUME NEW c \in ClassNames, NEW w \in Workers, scCache'[c] # None,
               worker'[w].key = c, ~Scheduled(c)'
        PROVE  UpToDate(w, c)'
    <2>1. UnscheduledStep(c)
      BY <1>2, NextUnscheduled
    <2>2. CASE SameHandling(c) /\ SameCaches(c) /\ ~Scheduled(c)
      <3>1. worker[w].key = c /\ scCache[c] # None
        BY <1>2, <2>2 DEF SameHandling, SameCaches
      <3> QED BY <2>2, <3>1, HolderKnows DEF SameHandling
    <2>3. CASE TakeStep(c) \/ SettleStep(c)
      BY <1>2, <2>3 DEF TakeStep, SettleStep
    <2> QED BY <2>1, <2>2, <2>3 DEF UnscheduledStep, RestStep, OverwriteStep
  <1> QED BY <1>1, <1>2 DEF ReconcilerInv

\* The invariant behind the refinement: the locals of a worker agree with the caches
\* whenever nothing would make another worker look at its class again (syncHandler).
THEOREM ReconcilerInvHolds == ASSUME ~WatchMayBreak PROVE Spec => []ReconcilerInv
  BY InitReconcilerInv, NextReconcilerInv, PTL DEF Spec

\* What is wanted of a class stays the same while the caches do.
LEMMA WantedStays ==
  ASSUME NEW c, SameCaches(c) PROVE WantedOf(c)' = WantedOf(c)
  BY DEF SameCaches, WantedOf, CachedDerivable, CachedDesired

\* A step that leaves class c at rest, overwritten, taken or settled is the step of
\* that name of the reconciler.
LEMMA UnscheduledIsAbstract ==
  ASSUME NEW c \in ClassNames, scCache'[c] # None, ~Scheduled(c)', UnscheduledStep(c)
  PROVE  /\ RestStep(c) => /\ StateOf(c)' = StateOf(c) /\ WantedOf(c)' = WantedOf(c)
                           /\ sccap'[c] = sccap[c]
                           /\ sccapCache'[c].latest = sccapCache[c].latest
         /\ OverwriteStep(c) => /\ StateOf(c)' = StateOf(c) /\ WantedOf(c)' = WantedOf(c)
                                /\ sccap'[c] \in CapabilityEdits
                                /\ ~sccapCache'[c].latest
         /\ TakeStep(c) => /\ StateOf(c) = "queued" /\ StateOf(c)' = "handled"
                           /\ WantedOf(c)' = WantedOf(c)
                           /\ sccap'[c] = sccap[c]
         /\ SettleStep(c) => /\ StateOf(c) = "handled" /\ StateOf(c)' = "settled"
                             /\ WantedOf(c)' = WantedOf(c)
                             /\ sccap'[c] = IF WantedOf(c) = None THEN sccap[c]
                                                                  ELSE WantedOf(c)
  <1>1. scCache[c] # None /\ SameCaches(c)
    BY DEF UnscheduledStep, RestStep, OverwriteStep, TakeStep, SettleStep, SameCaches
  <1>2. WantedOf(c)' = WantedOf(c)
    BY <1>1, WantedStays
  <1>3. /\ (\E w \in Workers : UpToDate(w, c)') => StateOf(c)' = "handled"
        /\ (\A w \in Workers : ~UpToDate(w, c)') => StateOf(c)' = "settled"
    BY DEF StateOf
  <1>4. /\ Scheduled(c) => StateOf(c) = "queued"
        /\ ~Scheduled(c) /\ (\E w \in Workers : UpToDate(w, c)) => StateOf(c) = "handled"
        /\ ~Scheduled(c) /\ (\A w \in Workers : ~UpToDate(w, c)) => StateOf(c) = "settled"
    BY <1>1 DEF StateOf
  <1>5. SameHandling(c) /\ ~Scheduled(c) => StateOf(c)' = StateOf(c)
    BY <1>3, <1>4 DEF SameHandling
  <1>6. TakeStep(c) => StateOf(c) = "queued" /\ StateOf(c)' = "handled"
    BY <1>3, <1>4 DEF TakeStep
  <1>7. SettleStep(c) => StateOf(c) = "handled" /\ StateOf(c)' = "settled"
    <2>1. SettleStep(c) => \A w \in Workers : ~UpToDate(w, c)'
      BY DEF SettleStep, UpToDate
    <2> QED BY <1>3, <1>4, <2>1 DEF SettleStep
  <1> QED
    BY <1>2, <1>5, <1>6, <1>7 DEF RestStep, OverwriteStep, TakeStep, SettleStep

\* Whatever happens, every class takes a step of the reconciler.
LEMMA ObjectStep ==
  ASSUME ReconcilerInv, ~WatchMayBreak, [Next]_vars, NEW c \in ClassNames
  PROVE  \/ Abstract!Queue(c) \/ Abstract!Forget(c) \/ Abstract!Take(c)
         \/ Abstract!Settle(c) \/ Abstract!Overwrite(c) \/ Abstract!Rest(c)
  <1>1. CASE scCache'[c] = None
    <2>1. StateOf(c)' = "unknown"
      BY <1>1 DEF StateOf
    <2> QED BY <2>1 DEF Abstract!Forget
  <1>2. CASE scCache'[c] # None /\ Scheduled(c)'
    <2>1. StateOf(c)' = "queued"
      BY <1>2 DEF StateOf
    <2> QED BY <2>1 DEF Abstract!Queue
  <1>3. CASE scCache'[c] # None /\ ~Scheduled(c)'
    <2>1. UnscheduledStep(c)
      BY <1>3, NextUnscheduled
    <2>2. CASE RestStep(c)
      BY <1>3, <2>1, <2>2, UnscheduledIsAbstract DEF Abstract!Rest
    <2>3. CASE OverwriteStep(c)
      BY <1>3, <2>1, <2>3, UnscheduledIsAbstract DEF Abstract!Overwrite
    <2>4. CASE TakeStep(c)
      BY <1>3, <2>1, <2>4, UnscheduledIsAbstract DEF Abstract!Take
    <2>5. CASE SettleStep(c)
      BY <1>3, <2>1, <2>5, UnscheduledIsAbstract DEF Abstract!Settle
    <2> QED BY <2>1, <2>2, <2>3, <2>4, <2>5 DEF UnscheduledStep
  <1> QED BY <1>1, <1>2, <1>3

\* The controller is a reconciler: for every class, every step of users, informers,
\* handlers, queue, workers and failures (a broken watch excepted) is one the
\* abstract specification allows, so that a class is settled by nobody but a worker
\* that knows what the caches say of it (syncHandler).
THEOREM ReconcilerIsImplemented ==
  ASSUME ~WatchMayBreak PROVE Spec => ImplementsReconciler
  <1>1. Init => Abstract!Init
    <2>1. Init => \A c \in ClassNames : StateOf(c) = "unknown"
      BY DEF Init, StateOf
    <2> QED BY <2>1 DEF Abstract!Init
  <1>2. ReconcilerInv /\ [Next]_vars => [Abstract!Next]_(Abstract!vars)
    BY ObjectStep DEF Abstract!Next
  <1> QED
    BY <1>1, <1>2, ReconcilerInvHolds, PTL DEF Spec, ImplementsReconciler, Abstract!Spec

\* What the abstract specification is for: an object that is settled, and whose
\* latest version has been seen, is as wanted.
THEOREM ReconcilersSettle == Abstract!Spec => []Abstract!SettledAsWanted
  <1>1. Abstract!Init => Abstract!SettledAsWanted
    BY DEF Abstract!Init, Abstract!SettledAsWanted
  <1>2. Abstract!SettledAsWanted /\ [Abstract!Next]_(Abstract!vars) => Abstract!SettledAsWanted'
    BY DEF Abstract!SettledAsWanted, Abstract!Next, Abstract!vars, Abstract!Queue,
           Abstract!Forget, Abstract!Take, Abstract!Settle, Abstract!Overwrite, Abstract!Rest
  <1> QED BY <1>1, <1>2, PTL DEF Abstract!Spec

\* That no update is lost is the abstract property seen from the cluster: a class
\* is settled when nothing is under way for it and its caches are up to date.
LEMMA SettledIsUpdated ==
  Abstract!SettledAsWanted /\ TypeOK /\ KeyExclusive => NoLostUpdate
  <1> SUFFICES ASSUME Abstract!SettledAsWanted, TypeOK, KeyExclusive,
                      NEW c \in ClassNames, Settled(c), Derivable(c)
               PROVE  sccap[c] = Desired(c)
    BY DEF NoLostUpdate
  <1>1. scCache[c] # None /\ ~Scheduled(c) /\ sccapCache[c].latest
    BY DEF Settled, CachesCurrent, Derivable
  <1>2. \A w \in Workers : ~UpToDate(w, c)
    BY DEF KeyExclusive, Settled, UpToDate
  <1>3. StateOf(c) = "settled"
    BY <1>1, <1>2 DEF StateOf
  <1>4. CachedDerivable(c) /\ CachedDesired(c) = Desired(c)
    BY DEF Settled, CachesCurrent, Derivable, CachedDerivable, CachedDesired, Desired
  <1>5. WantedOf(c) # None => sccap[c] = WantedOf(c)
    BY <1>1, <1>3 DEF Abstract!SettledAsWanted
  <1>6. Desired(c) \in StorageClassCapabilities
    <2> DEFINE cap == [name |-> sc[c].provisioner, features |-> pcap[sc[c].provisioner]]
    <2>1. sc[c] \in StorageClasses /\ cap \in ProvisionerCapabilities
      BY ClusterAssumption
      DEF TypeOK, ClusterTypeOK, Derivable, StorageClasses, ProvisionerCapabilities
    <2> HIDE DEF cap
    <2>2. newSccap(sc[c], snap[c], cap) \in StorageClassCapabilities
      BY <2>1, NewSccapType
    <2> QED BY <2>2 DEF Desired, cap
  <1> QED BY <1>4, <1>5, <1>6, NoneAssumption DEF WantedOf

\* Any controller with these caches and this queue that is a reconciler loses no
\* update, whatever else its steps may be.
THEOREM ReconcilingLosesNoUpdate ==
  ImplementsReconciler /\ [](TypeOK /\ KeyExclusive) => []NoLostUpdate
  BY ReconcilersSettle, SettledIsUpdated, PTL DEF ImplementsReconciler

=============================================================================
