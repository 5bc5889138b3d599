-------------------------- MODULE ControllerProofs --------------------------
(***************************************************************************)
(* Theorems about the controller, for any classes, drivers, features and   *)
(* workers.  The argument is in three layers, each using the ones below:   *)
(*   - types, and the locals of a worker that belong together (TypeOK and  *)
(*     LocalsOK are inductive only together);                              *)
(*   - a key is with one worker at a time (KeyExclusive);                  *)
(*   - every cached class is attended to, and so is every orphan.          *)
(***************************************************************************)
EXTENDS ControllerProperties, TLAPS

-----------------------------------------------------------------------------
(* Facts about the operators the actions are built from.                   *)

\* What is derived for a class is a StorageClassCapability (newSccap).
LEMMA NewSccapType ==
  ASSUME NEW class \in StorageClasses,
         NEW driver,
         NEW cap \in ProvisionerCapabilities
  PROVE  newSccap(class, driver, cap) \in StorageClassCapabilities
  BY DEF newSccap, StorageClasses, ProvisionerCapabilities,
         StorageClassCapabilities, Features, ExpandModes

\* The locals of a worker that waits for work are well formed.
LEMMA IdleType == Idle \in WorkerStates
  BY DEF Idle, WorkerStates, PCs, NoCopy, Copies

\* Each read keeps the locals of a worker well formed.
LEMMA LocalsType ==
  ASSUME NEW state \in WorkerStates, NEW pc \in PCs
  PROVE  /\ \A key \in ClassNames : [state EXCEPT !.pc = pc, !.key = key] \in WorkerStates
         /\ \A class \in ClassSpecs \cup {None} :
              [state EXCEPT !.class = class, !.pc = pc] \in WorkerStates
         /\ \A cap \in ProvisionerCapabilities :
              [state EXCEPT !.pcap = cap, !.pc = pc] \in WorkerStates
         /\ \A driver \in SnapDrivers \cup {None} :
              [state EXCEPT !.driver = driver, !.pc = pc] \in WorkerStates
         /\ \A copy \in Copies : [state EXCEPT !.held = copy, !.pc = pc] \in WorkerStates
  BY DEF WorkerStates

\* Only the worker that takes a step changes its locals (Becomes).
LEMMA BecomesType ==
  ASSUME worker \in [Workers -> WorkerStates],
         NEW w \in Workers,
         NEW state \in WorkerStates,
         Becomes(w, state)
  PROVE  /\ worker' \in [Workers -> WorkerStates]
         /\ worker'[w] = state
         /\ \A v \in Workers : v # w => worker'[v] = worker[v]
  BY DEF Becomes

-----------------------------------------------------------------------------
(* Types.                                                                  *)

LocalsOKAll == \A w \in Workers : LocalsOK(w)

\* The initial states are well formed.
LEMMA InitType == Init => TypeOK
  BY IdleType, NoneAssumption, ClusterAssumption
  DEF Init, TypeOK, CacheTypeOK, PendingTypeOK, ClusterInit, ClusterTypeOK, QueueInit, QueueTypeOK,
      NothingPending, NotificationsOf, Kinds, NoCopy, Copies

\* The end of the process leaves a well formed state (ProcessExits).
LEMMA ExitType ==
  ASSUME TypeOK, ProcessExits, ClusterTypeOK'
  PROVE  TypeOK'
  BY IdleType
  DEF TypeOK, CacheTypeOK, PendingTypeOK, ProcessExits, QueueReset, QueueTypeOK, NothingPending,
      NotificationsOf, Kinds, NoCopy, Copies

\* A return of syncHandler frees the worker and its key (Succeed, Retry).
LEMMA ReturnType ==
  ASSUME TypeOK, NEW w \in Workers, LocalsOK(w), worker[w].pc # "idle",
         Succeed(w) \/ Retry(w)
  PROVE  QueueTypeOK(ClassNames)' /\ worker' \in [Workers -> WorkerStates]
  <1>1. worker' \in [Workers -> WorkerStates]
    BY IdleType, BecomesType DEF TypeOK, Succeed, Retry
  <1>2. worker[w].key \in ClassNames
    BY DEF TypeOK, WorkerStates, LocalsOK
  <1> QED
    BY <1>1, <1>2
    DEF TypeOK, QueueTypeOK, Succeed, Retry, ForgetAndDone, RetryAndDone

\* Notifications are well formed (Notify).
LEMMA NotifyType ==
  ASSUME PendingTypeOK, NEW kind \in Kinds, NEW notices \in SUBSET NotificationsOf(kind),
         Notify(kind, notices)
  PROVE  PendingTypeOK'
  <1>1. NotificationsOf(kind) \subseteq Notifications(ClassNames \cup Provisioners)
    BY DEF NotificationsOf, Notifications
  <1> QED BY <1>1 DEF PendingTypeOK, Notify

\* A notification is added to those of its kind (Notify).
LEMMA NotifyAdds ==
  ASSUME PendingTypeOK, NEW kind \in Kinds, NEW notices, Notify(kind, notices)
  PROVE  pending'[kind] = pending[kind] \cup notices
  BY DEF PendingTypeOK, Notify

\* A notice names an object of its kind (Notice).
LEMMA NoticeType ==
  /\ \A kind \in Kinds \ {"pcap"}, c \in ClassNames, t \in BOOLEAN :
       Notice(c, t) \in NotificationsOf(kind)
  /\ \A p \in Provisioners, t \in BOOLEAN : Notice(p, t) \in NotificationsOf("pcap")
  BY DEF Notice, NotificationsOf, Notifications

\* Copies are well formed (LatestCopy, Outdated).
LEMMA LatestCopyType == \A c : LatestCopy(c) \in Copies
  BY DEF LatestCopy, Copies

\* A copy stays well formed when a newer version appears (Outdated).
LEMMA OutdatedType == \A copy \in Copies : Outdated(copy) \in Copies
  BY DEF Outdated, Copies

\* The notifications of an initial list are well formed (Announcements).
LEMMA AnnouncementsType ==
  ASSUME ClusterTypeOK
  PROVE  /\ Announcements(sc) \in SUBSET NotificationsOf("sc")
         /\ Announcements(snap) \in SUBSET NotificationsOf("snap")
         /\ Announcements(pcap) \in SUBSET NotificationsOf("pcap")
         /\ Announcements(sccap) \in SUBSET NotificationsOf("sccap")
  <1>1. ASSUME NEW objects PROVE Announcements(objects) \subseteq Notifications(DOMAIN objects)
    <2>1. \A x \in DOMAIN objects : Notice(x, FALSE) \in Notifications(DOMAIN objects)
      BY DEF Notice, Notifications
    <2> QED BY <2>1 DEF Announcements
  <1>2. /\ DOMAIN sc = ClassNames /\ DOMAIN snap = ClassNames
        /\ DOMAIN pcap = Provisioners /\ DOMAIN sccap = ClassNames
    BY DEF ClusterTypeOK
  <1> QED BY <1>1, <1>2 DEF NotificationsOf

\* An informer keeps caches and notifications well formed.
LEMMA InformerType ==
  ASSUME TypeOK,
         \/ \E kind \in Kinds : InitialList(kind)
         \/ \E c \in ClassNames, t \in BOOLEAN :
              \/ DeliverClass(c, t)
              \/ DeliverSnapshotClass(c, t)
              \/ DeliverCapability(c, t)
         \/ \E p \in Provisioners, t \in BOOLEAN : DeliverProvisionerCapability(p, t)
         \/ \E c \in ClassNames : ResyncCapability(c)
         \/ \E p \in Provisioners : ResyncProvisionerCapability(p)
  PROVE  TypeOK'
  <1> USE DEF TypeOK, CacheTypeOK, clusterVars, queueVars, cacheVars, ClusterTypeOK,
              QueueTypeOK
  <1>0. /\ "sc" \in Kinds \ {"pcap"} /\ "snap" \in Kinds \ {"pcap"}
        /\ "sccap" \in Kinds \ {"pcap"} /\ "pcap" \in Kinds
    BY DEF Kinds
  <1>1. ASSUME NEW kind \in Kinds, InitialList(kind) PROVE TypeOK'
    <2>0. UNCHANGED <<clusterVars, queueVars, phase, worker>> /\ (synced \subseteq Kinds)'
      BY <1>1 DEF InitialList
    <2>1. CASE kind = "sc"
      <3>1. PendingTypeOK'
        BY <1>1, <2>1, NotifyType, AnnouncementsType DEF InitialList
      <3> QED BY <1>1, <2>0, <2>1, <3>1 DEF InitialList
    <2>2. CASE kind = "snap"
      <3>1. PendingTypeOK'
        BY <1>1, <2>2, NotifyType, AnnouncementsType DEF InitialList
      <3> QED BY <1>1, <2>0, <2>2, <3>1 DEF InitialList
    <2>3. CASE kind = "pcap"
      <3>1. PendingTypeOK'
        BY <1>1, <2>3, NotifyType, AnnouncementsType DEF InitialList
      <3> QED BY <1>1, <2>0, <2>3, <3>1 DEF InitialList
    <2>4. CASE kind = "sccap"
      <3>1. PendingTypeOK'
        BY <1>1, <2>4, NotifyType, AnnouncementsType DEF InitialList
      <3>2. sccapCache' \in [ClassNames -> Copies]
        BY <1>1, <2>4, LatestCopyType DEF InitialList
      <3> QED BY <1>1, <2>0, <2>4, <3>1, <3>2 DEF InitialList
    <2> QED BY <2>1, <2>2, <2>3, <2>4 DEF Kinds
  <1>2. ASSUME NEW c \in ClassNames, NEW t \in BOOLEAN, DeliverClass(c, t)
        PROVE  TypeOK'
    BY <1>0, <1>2, NotifyType, NoticeType DEF DeliverClass
  <1>3. ASSUME NEW c \in ClassNames, NEW t \in BOOLEAN, DeliverSnapshotClass(c, t)
        PROVE  TypeOK'
    BY <1>0, <1>3, NotifyType, NoticeType DEF DeliverSnapshotClass
  <1>4. ASSUME NEW c \in ClassNames, NEW t \in BOOLEAN, DeliverCapability(c, t)
        PROVE  TypeOK'
    <2>1. sccapCache' \in [ClassNames -> Copies]
      BY <1>4, LatestCopyType DEF DeliverCapability
    <2>2. PendingTypeOK'
      BY <1>0, <1>4, NotifyType, NoticeType DEF DeliverCapability
    <2> QED BY <1>4, <2>1, <2>2 DEF DeliverCapability
  <1>5. ASSUME NEW p \in Provisioners, NEW t \in BOOLEAN,
               DeliverProvisionerCapability(p, t)
        PROVE  TypeOK'
    BY <1>0, <1>5, NotifyType, NoticeType DEF DeliverProvisionerCapability
  <1>6. ASSUME NEW c \in ClassNames, ResyncCapability(c) PROVE TypeOK'
    <2>1. Notice(c, FALSE) \in NotificationsOf("sccap")
      BY <1>0, NoticeType
    <2>2. PendingTypeOK'
      BY <1>0, <1>6, <2>1, NotifyType DEF ResyncCapability
    <2> QED BY <1>6, <2>2 DEF ResyncCapability
  <1>7. ASSUME NEW p \in Provisioners, ResyncProvisionerCapability(p) PROVE TypeOK'
    BY <1>0, <1>7, NotifyType, NoticeType DEF ResyncProvisionerCapability
  <1> QED BY <1>1, <1>2, <1>3, <1>4, <1>5, <1>6, <1>7

\* The reads of a worker fill its locals with well formed values.
LEMMA ReadType ==
  ASSUME TypeOK, NEW w \in Workers, LocalsOK(w),
         \/ \E c \in ClassNames : ProcessNextWorkItem(w, c)
         \/ GetStorageClass(w)
         \/ GetProvisionerCapability(w)
         \/ GetSnapshotClass(w)
         \/ GetStorageClassCapability(w)
  PROVE  TypeOK'
  <1> USE DEF clusterVars, queueVars, cacheVars, ClusterTypeOK, QueueTypeOK,
              CacheTypeOK, PendingTypeOK
  <1>0. worker[w].pc # "idle" => worker[w].key \in ClassNames
    BY DEF TypeOK, WorkerStates, LocalsOK
  <1>1. ASSUME NEW c \in ClassNames, ProcessNextWorkItem(w, c) PROVE TypeOK'
    <2>1. [worker[w] EXCEPT !.pc = "getClass", !.key = c] \in WorkerStates
      BY LocalsType DEF TypeOK, PCs
    <2> QED
      BY <1>1, <2>1, BecomesType DEF TypeOK, ProcessNextWorkItem, Get
  <1>2. CASE GetStorageClass(w)
    <2> DEFINE class == scCache[worker[w].key]
    <2>1. [worker[w] EXCEPT !.class = class,
                            !.pc = IF class = None THEN "delete" ELSE "getPcap"]
            \in WorkerStates
      <3>1. class \in ClassSpecs \cup {None}
        BY <1>0, <1>2 DEF TypeOK, GetStorageClass
      <3> QED BY <3>1, LocalsType DEF TypeOK, PCs
    <2> QED
      BY <1>2, <2>1, BecomesType DEF TypeOK, GetStorageClass
  <1>3. CASE GetProvisionerCapability(w)
    <2> DEFINE p == Provisioner(w)
               state == [worker[w] EXCEPT
                           !.pcap = [name |-> p, features |-> pcapCache[p]],
                           !.pc = "getSnap"]
    <2>1. p \in Provisioners
      BY <1>3, ClusterAssumption
      DEF TypeOK, GetProvisionerCapability, pcapLister, Provisioner, LocalsOK,
          WorkerStates, StorageClasses
    <2>2. CASE pcapCache[p] # None
      <3>1. state \in WorkerStates
        <4>1. [name |-> p, features |-> pcapCache[p]] \in ProvisionerCapabilities
          BY <2>1, <2>2 DEF TypeOK, ProvisionerCapabilities
        <4> QED BY <4>1, LocalsType DEF TypeOK, PCs
      <3> QED
        BY <1>3, <2>2, <3>1, BecomesType DEF TypeOK, GetProvisionerCapability,
                                             pcapLister
    <2>3. CASE pcapCache[p] = None
      BY <1>3, <2>3, ReturnType DEF TypeOK, GetProvisionerCapability, pcapLister
    <2> QED BY <2>2, <2>3
  <1>4. CASE GetSnapshotClass(w)
    <2>1. [worker[w] EXCEPT !.driver = snapCache[worker[w].key],
                            !.pc = "getSccap"] \in WorkerStates
      <3>1. snapCache[worker[w].key] \in SnapDrivers \cup {None}
        BY <1>0, <1>4 DEF TypeOK, GetSnapshotClass
      <3> QED BY <3>1, LocalsType DEF TypeOK, PCs
    <2> QED
      BY <1>4, <2>1, BecomesType DEF TypeOK, GetSnapshotClass
  <1>5. CASE GetStorageClassCapability(w)
    <2> DEFINE copy == sccapCache[worker[w].key]
    <2>1. [worker[w] EXCEPT !.held = copy,
                            !.pc = IF copy.there THEN "update" ELSE "create"]
            \in WorkerStates
      <3>1. copy \in Copies
        BY <1>0, <1>5 DEF TypeOK, GetStorageClassCapability, sccapLister
      <3> QED BY <3>1, LocalsType DEF TypeOK, PCs
    <2> QED
      BY <1>5, <2>1, BecomesType DEF TypeOK, GetStorageClassCapability, sccapLister
  <1> QED BY <1>1, <1>2, <1>3, <1>4, <1>5

\* Handlers and the back-off only add class names to the queue.
LEMMA EnqueueType ==
  ASSUME TypeOK,
         \/ \E kind \in Kinds : \E notice \in pending[kind] : Handle(kind, notice)
         \/ \E c \in ClassNames : RateLimitExpires(c)
  PROVE  TypeOK'
  <1> USE DEF clusterVars, cacheVars, ClusterTypeOK, CacheTypeOK, QueueTypeOK
  <1>1. ASSUME NEW kind \in Kinds, NEW notice \in pending[kind], Handle(kind, notice)
        PROVE  TypeOK'
    <2>1. PendingTypeOK'
      BY <1>1 DEF TypeOK, PendingTypeOK, Handle
    <2>2. notice \in NotificationsOf(kind)
      BY DEF TypeOK, PendingTypeOK
    <2>3. QueueTypeOK(ClassNames)'
      BY <1>1, <2>2
      DEF TypeOK, Handle, handleScObject, enqueueSccap, enqueuePcap, Add, queueVars,
          NotificationsOf, Notifications, Kinds
    <2> QED BY <1>1, <2>1, <2>3 DEF TypeOK, Handle
  <1>2. ASSUME NEW c \in ClassNames, RateLimitExpires(c) PROVE TypeOK'
    BY <1>2 DEF TypeOK, PendingTypeOK, RateLimitExpires, DelayExpires
  <1> QED BY <1>1, <1>2

\* What users do leaves a well formed state.
LEMMA UsersType == TypeOK /\ Users => TypeOK'
  <1> SUFFICES ASSUME TypeOK, Users PROVE TypeOK'
    OBVIOUS
  <1> USE DEF CacheTypeOK, PendingTypeOK, QueueTypeOK
  <1>1. ASSUME NEW c \in ClassNames, NEW new \in CapabilityEdits, EditCapability(c, new)
        PROVE  TypeOK'
    <2>1. worker' \in [Workers -> WorkerStates]
      <3>1. \A w \in Workers : [worker[w] EXCEPT !.held = Outdated(@)] \in WorkerStates
        BY OutdatedType DEF TypeOK, WorkerStates
      <3> QED BY <1>1, <3>1 DEF TypeOK, EditCapability
    <2>2. sccapCache' \in [ClassNames -> Copies]
      BY <1>1, OutdatedType DEF TypeOK, EditCapability
    <2>3. ClusterTypeOK'
      BY <1>1, ControllerAssumption DEF TypeOK, ClusterTypeOK, EditCapability
    <2> QED BY <1>1, <2>1, <2>2, <2>3 DEF TypeOK, EditCapability, queueVars
  <1>2. ASSUME NEW c \in ClassNames, NEW new \in ClassSpecs \cup {None},
               SetStorageClass(c, new)
        PROVE  ClusterTypeOK'
    BY <1>2 DEF TypeOK, ClusterTypeOK, SetStorageClass
  <1>3. ASSUME NEW c \in ClassNames, NEW new \in SnapDrivers \cup {None},
               SetSnapshotClass(c, new)
        PROVE  ClusterTypeOK'
    BY <1>3 DEF TypeOK, ClusterTypeOK, SetSnapshotClass
  <1>4. ASSUME NEW p \in Provisioners, NEW new \in Published[p] \cup {None},
               SetProvisionerCapability(p, new)
        PROVE  ClusterTypeOK'
    BY <1>4, ClusterAssumption DEF TypeOK, ClusterTypeOK, SetProvisionerCapability
  <1>5. CASE UNCHANGED <<queueVars, cacheVars, phase, synced, pending, worker>> /\ ClusterTypeOK'
    BY <1>5 DEF TypeOK, queueVars, cacheVars
  <1> QED BY <1>1, <1>2, <1>3, <1>4, <1>5 DEF Users

\* The spec of the locals of a worker about to call the API server.
LEMMA SpecType ==
  ASSUME TypeOK, NEW w \in Workers, LocalsOK(w), worker[w].pc \in {"create", "update"}
  PROVE  /\ newSccap(worker[w].class, worker[w].driver, worker[w].pcap) \in StorageClassCapabilities
         /\ updateSccap(worker[w].class, worker[w].driver, worker[w].pcap) \in StorageClassCapabilities
         /\ worker[w].key \in ClassNames
  <1>1. worker[w].class \in StorageClasses /\ worker[w].pcap \in ProvisionerCapabilities
    BY ClusterAssumption DEF TypeOK, WorkerStates, LocalsOK
  <1>2. worker[w].key \in ClassNames
    BY DEF TypeOK, WorkerStates, LocalsOK
  <1> QED BY <1>1, <1>2, NewSccapType DEF updateSccap

\* The calls of a worker write well formed objects.
LEMMA CallType ==
  ASSUME TypeOK, NEW w \in Workers, LocalsOK(w), NEW reply,
         \/ CreateCapability(w, reply)
         \/ UpdateCapability(w, reply)
         \/ DeleteCapability(w, reply)
         \/ DerivePanics(w)
  PROVE  TypeOK'
  <1>0. ASSUME NEW c \in ClassNames,
               sccapCache' = [sccapCache EXCEPT ![c] = Outdated(@)]
        PROVE  sccapCache' \in [ClassNames -> Copies]
    BY <1>0, OutdatedType DEF TypeOK, CacheTypeOK
  <1>1. CASE CreateCapability(w, reply)
    <2>1. QueueTypeOK(ClassNames)' /\ worker' \in [Workers -> WorkerStates]
      BY <1>1, ReturnType DEF CreateCapability, Created
    <2>2. ClusterTypeOK' /\ sccapCache' \in [ClassNames -> Copies]
      BY <1>0, <1>1, SpecType DEF CreateCapability, Created, TypeOK, ClusterTypeOK,
                                  CacheTypeOK
    <2> QED
      BY <1>1, <2>1, <2>2 DEF CreateCapability, Created, TypeOK, CacheTypeOK,
                              PendingTypeOK
  <1>2. CASE UpdateCapability(w, reply)
    <2>1. QueueTypeOK(ClassNames)' /\ worker' \in [Workers -> WorkerStates]
      BY <1>2, ReturnType DEF UpdateCapability, Updated
    <2>2. ClusterTypeOK' /\ sccapCache' \in [ClassNames -> Copies]
      BY <1>0, <1>2, SpecType DEF UpdateCapability, Updated, TypeOK, ClusterTypeOK,
                                  CacheTypeOK
    <2> QED
      BY <1>2, <2>1, <2>2 DEF UpdateCapability, Updated, TypeOK, CacheTypeOK,
                              PendingTypeOK
  <1>3. CASE DeleteCapability(w, reply)
    <2>0. worker[w].key \in ClassNames
      BY <1>3 DEF DeleteCapability, Deleted, TypeOK, WorkerStates, LocalsOK
    <2>1. ClusterTypeOK'
      BY <1>3, <2>0 DEF DeleteCapability, Deleted, TypeOK, ClusterTypeOK
    <2>2. CASE ProcessExits
      BY <2>1, <2>2, ExitType
    <2>3. CASE Succeed(w) /\ UNCHANGED <<scCache, snapCache, pcapCache, phase, synced, pending>>
      <3>1. QueueTypeOK(ClassNames)' /\ worker' \in [Workers -> WorkerStates]
        BY <1>3, <2>3, ReturnType DEF DeleteCapability, Deleted
      <3>2. sccapCache' \in [ClassNames -> Copies] \/ ProcessExits
        BY <1>0, <1>3, <2>0 DEF DeleteCapability, Deleted, cacheVars, TypeOK,
                                CacheTypeOK
      <3> QED
        BY <2>1, <2>2, <2>3, <3>1, <3>2 DEF TypeOK, CacheTypeOK, PendingTypeOK
    <2> QED BY <1>3, <2>2, <2>3 DEF DeleteCapability, Deleted, cacheVars
  <1>4. CASE DerivePanics(w)
    BY <1>4, ExitType DEF DerivePanics, TypeOK, clusterVars, ClusterTypeOK
  <1> QED BY <1>1, <1>2, <1>3, <1>4

\* Every step keeps the state well formed.
LEMMA NextType == TypeOK /\ LocalsOKAll /\ [Next]_vars => TypeOK'
  <1> SUFFICES ASSUME TypeOK, LocalsOKAll, [Next]_vars PROVE TypeOK'
    OBVIOUS
  <1> USE DEF LocalsOKAll
  <1>1. CASE Users
    BY <1>1, UsersType
  <1>2. CASE Crash
    BY <1>2, ExitType DEF Crash, TypeOK, ClusterTypeOK, clusterVars
  <1>3. CASE StartInformers \/ StartWorkers \/ UNCHANGED vars
    BY <1>3
    DEF StartInformers, StartWorkers, TypeOK, vars, clusterVars, queueVars, cacheVars,
        ClusterTypeOK, QueueTypeOK, CacheTypeOK, PendingTypeOK
  <1>4. ASSUME NEW w \in Workers, WorkerStep(w) \/ \E c \in ClassNames : ProcessNextWorkItem(w, c)
        PROVE  TypeOK'
    BY <1>4, ReadType, CallType DEF WorkerStep
  <1>5. CASE Faults
    BY <1>2, <1>5, InformerType, CallType DEF Faults
  <1>6. CASE System
    BY <1>3, <1>4, <1>6, InformerType, EnqueueType DEF System
  <1> QED BY <1>1, <1>3, <1>5, <1>6 DEF Next

-----------------------------------------------------------------------------
(* The locals of a worker belong together, and a key is with one worker.   *)

\* No worker takes a step: at most, the copies they hold are outdated.
SameLocals ==
  \A w \in Workers :
    /\ worker'[w].pc = worker[w].pc
    /\ worker'[w].key = worker[w].key
    /\ worker'[w].class = worker[w].class
    /\ worker'[w].pcap = worker[w].pcap
    /\ worker'[w].driver = worker[w].driver

\* Nobody but the workers changes their locals, except when the process ends.
LEMMA OthersKeepLocals ==
  ASSUME TypeOK, LocalsOKAll,
         \/ Users
         \/ StartInformers \/ StartWorkers
         \/ \E kind \in Kinds : InitialList(kind)
         \/ \E kind \in Kinds : \E notice \in pending[kind] : Handle(kind, notice)
         \/ \E c \in ClassNames, t \in BOOLEAN :
              \/ DeliverClass(c, t)
              \/ DeliverSnapshotClass(c, t)
              \/ DeliverCapability(c, t)
         \/ \E p \in Provisioners, t \in BOOLEAN : DeliverProvisionerCapability(p, t)
         \/ \E c \in ClassNames : ResyncCapability(c) \/ RateLimitExpires(c)
         \/ \E p \in Provisioners : ResyncProvisionerCapability(p)
         \/ UNCHANGED vars
  PROVE  SameLocals /\ processing' = processing /\ (phase = "running" => phase' = phase)
  <1>1. CASE UNCHANGED worker
    <2>1. SameLocals
      BY <1>1 DEF SameLocals
    <2> QED
      BY <1>1, <2>1
      DEF Users, SetStorageClass, SetSnapshotClass, SetProvisionerCapability, EditCapability,
          StartInformers, StartWorkers, InitialList, Handle, handleScObject, enqueueSccap,
          enqueuePcap, Add, DeliverClass, DeliverSnapshotClass, DeliverCapability,
          DeliverProvisionerCapability, ResyncCapability, ResyncProvisionerCapability,
          RateLimitExpires, DelayExpires, queueVars, vars
  <1>2. ASSUME NEW c \in ClassNames, NEW new \in CapabilityEdits, EditCapability(c, new)
        PROVE  SameLocals /\ processing' = processing /\ phase' = phase
    BY <1>2 DEF EditCapability, SameLocals, TypeOK, WorkerStates, queueVars
  <1> QED
    BY <1>1, <1>2
    DEF Users, StartInformers, StartWorkers, InitialList, Handle, DeliverClass,
        DeliverSnapshotClass, DeliverCapability, DeliverProvisionerCapability,
        ResyncCapability, ResyncProvisionerCapability, RateLimitExpires, vars

\* Locals that stay the same still belong together.
LEMMA SameLocalsOK ==
  ASSUME LocalsOKAll, KeyExclusive, SameLocals, processing' = processing,
         phase = "running" => phase' = phase
  PROVE  LocalsOKAll' /\ KeyExclusive'
  BY DEF LocalsOKAll, LocalsOK, KeyExclusive, SameLocals

\* After the end of the process all workers are idle.
LEMMA ExitLocals ==
  ASSUME ProcessExits
  PROVE  LocalsOKAll' /\ KeyExclusive'
  BY DEF ProcessExits, LocalsOKAll, LocalsOK, KeyExclusive, Idle

\* A worker that returns leaves its key to the others (Succeed, Retry).
LEMMA ReturnLocals ==
  ASSUME TypeOK, LocalsOKAll, KeyExclusive, NEW w \in Workers, worker[w].pc # "idle",
         Succeed(w) \/ Retry(w), phase' = phase
  PROVE  LocalsOKAll' /\ KeyExclusive'
  <1>1. /\ worker'[w] = Idle
        /\ \A v \in Workers : v # w => worker'[v] = worker[v]
    BY IdleType, BecomesType DEF TypeOK, Succeed, Retry
  <1>2. LocalsOKAll'
    BY <1>1 DEF LocalsOKAll, LocalsOK, Idle
  <1>3. processing' = processing \ {worker[w].key}
    BY DEF Succeed, Retry, ForgetAndDone, RetryAndDone
  <1>4. KeyExclusive'
    BY <1>1, <1>3 DEF KeyExclusive, Idle
  <1> QED BY <1>2, <1>4

\* A read keeps the key of its worker and fills in the locals one by one.
LEMMA ReadLocals ==
  ASSUME TypeOK, LocalsOKAll, KeyExclusive, NEW w \in Workers,
         \/ GetStorageClass(w)
         \/ GetProvisionerCapability(w)
         \/ GetSnapshotClass(w)
         \/ GetStorageClassCapability(w)
  PROVE  LocalsOKAll' /\ KeyExclusive'
  <1>0. worker[w] \in WorkerStates /\ worker \in [Workers -> WorkerStates] /\ LocalsOK(w)
    BY DEF TypeOK, LocalsOKAll
  <1>1. CASE GetProvisionerCapability(w) /\ Succeed(w)
    BY <1>1, ReturnLocals DEF GetProvisionerCapability, pcapLister
  <1>2. ASSUME ~(GetProvisionerCapability(w) /\ Succeed(w))
        PROVE  /\ UNCHANGED <<phase, processing>>
               /\ \A v \in Workers : v # w => worker'[v] = worker[v]
               /\ worker[w].pc # "idle" /\ worker'[w].pc # "idle"
               /\ worker'[w].key = worker[w].key
               /\ LocalsOK(w)'
    <2>1. CASE GetStorageClass(w)
      BY <1>0, <2>1 DEF GetStorageClass, Becomes, LocalsOK, WorkerStates, queueVars
    <2>2. CASE GetProvisionerCapability(w)
      <3>1. worker[w].class # None /\ worker[w].class.provisioner \in Provisioners
        BY <1>0, <2>2, ClusterAssumption
        DEF GetProvisionerCapability, pcapLister, LocalsOK, WorkerStates, StorageClasses
      <3> DEFINE p == worker[w].class.provisioner
                 cap == [name |-> p, features |-> pcapCache[p]]
      <3>2. pcapCache[p] # None /\ cap # None /\ pcapCache[p] \in Published[p]
        <4>1. pcapCache[worker[w].class.provisioner] # None
          BY <1>2, <2>2 DEF GetProvisionerCapability, pcapLister, Provisioner
        <4>2. [name |-> worker[w].class.provisioner,
               features |-> pcapCache[worker[w].class.provisioner]] \in ProvisionerCapabilities
          BY <3>1, <4>1 DEF TypeOK, CacheTypeOK, ProvisionerCapabilities
        <4> QED BY <3>1, <4>1, <4>2, NoneAssumption DEF TypeOK, CacheTypeOK
      <3>3. /\ worker' = [worker EXCEPT ![w] = [worker[w] EXCEPT !.pcap = cap, !.pc = "getSnap"]]
            /\ worker[w].pc = "getPcap"
            /\ UNCHANGED <<phase, processing>>
        BY <1>2, <2>2 DEF GetProvisionerCapability, pcapLister, Provisioner, Becomes,
                          queueVars
      <3>4. /\ worker'[w].pc = "getSnap" /\ worker'[w].key = worker[w].key
            /\ worker'[w].class = worker[w].class /\ worker'[w].pcap = cap
            /\ \A v \in Workers : v # w => worker'[v] = worker[v]
        BY <1>0, <3>3 DEF WorkerStates
      <3>5. cap.name = p /\ cap.features = pcapCache[p]
        OBVIOUS
      <3> HIDE DEF cap
      <3> QED
        BY <1>0, <3>1, <3>2, <3>3, <3>4, <3>5 DEF LocalsOK
    <2>3. CASE GetSnapshotClass(w)
      BY <1>0, <2>3 DEF GetSnapshotClass, Becomes, LocalsOK, WorkerStates, queueVars
    <2>4. CASE GetStorageClassCapability(w)
      BY <1>0, <2>4 DEF GetStorageClassCapability, sccapLister, Becomes, LocalsOK,
                        WorkerStates, queueVars
    <2> QED BY <2>1, <2>2, <2>3, <2>4
  <1> QED
    BY <1>1, <1>2 DEF LocalsOKAll, LocalsOK, KeyExclusive

\* A queued key is with no worker, and goes to one.
LEMMA TakeLocals ==
  ASSUME TypeOK, LocalsOKAll, KeyExclusive, NEW w \in Workers, NEW c \in ClassNames,
         ProcessNextWorkItem(w, c)
  PROVE  LocalsOKAll' /\ KeyExclusive'
  <1>1. /\ worker'[w].pc = "getClass" /\ worker'[w].key = c
        /\ \A v \in Workers : v # w => worker'[v] = worker[v]
        /\ processing' = processing \cup {c} /\ c \notin processing
        /\ phase' = "running" /\ phase = "running"
    BY DEF TypeOK, ProcessNextWorkItem, Get, Becomes, WorkerStates
  <1>2. LocalsOKAll'
    BY <1>1, NoneAssumption DEF LocalsOKAll, LocalsOK
  <1>3. KeyExclusive'
    BY <1>1 DEF KeyExclusive
  <1> QED BY <1>2, <1>3

\* The calls end in a return of syncHandler or in a panic.
LEMMA CallLocals ==
  ASSUME TypeOK, LocalsOKAll, KeyExclusive, NEW w \in Workers, NEW reply,
         \/ CreateCapability(w, reply)
         \/ UpdateCapability(w, reply)
         \/ DeleteCapability(w, reply)
         \/ DerivePanics(w)
  PROVE  LocalsOKAll' /\ KeyExclusive'
  <1>1. ProcessExits \/ (worker[w].pc # "idle" /\ (Succeed(w) \/ Retry(w)) /\ phase' = phase)
    BY DEF CreateCapability, Created, UpdateCapability, Updated, DeleteCapability,
           Deleted, DerivePanics
  <1> QED BY <1>1, ExitLocals, ReturnLocals

\* Every step keeps the locals together and the keys exclusive.
LEMMA NextLocals ==
  TypeOK /\ LocalsOKAll /\ KeyExclusive /\ [Next]_vars => LocalsOKAll' /\ KeyExclusive'
  <1> SUFFICES ASSUME TypeOK, LocalsOKAll, KeyExclusive, [Next]_vars
               PROVE  LocalsOKAll' /\ KeyExclusive'
    OBVIOUS
  <1>1. CASE Users \/ UNCHANGED vars
    BY <1>1, OthersKeepLocals, SameLocalsOK
  <1>2. CASE Faults
    <2>1. CASE Crash
      BY <2>1, ExitLocals DEF Crash
    <2> QED BY <1>2, <2>1, CallLocals, OthersKeepLocals, SameLocalsOK DEF Faults
  <1>3. CASE System
    <2>1. ASSUME NEW w \in Workers, WorkerStep(w) PROVE LocalsOKAll' /\ KeyExclusive'
      BY <2>1, ReadLocals, CallLocals DEF WorkerStep
    <2> QED
      BY <1>3, <2>1, TakeLocals, OthersKeepLocals, SameLocalsOK DEF System
  <1> QED BY <1>1, <1>2, <1>3 DEF Next

\* At first all workers are idle.
LEMMA InitLocals == Init => LocalsOKAll /\ KeyExclusive
  BY DEF Init, LocalsOKAll, LocalsOK, KeyExclusive, Idle

\* The program never leaves its types: Spec implies that TypeOK always holds.
THEOREM TypeCorrect == Spec => []TypeOK
  <1>1. TypeOK /\ LocalsOKAll /\ KeyExclusive /\ [Next]_vars
          => (TypeOK /\ LocalsOKAll /\ KeyExclusive)'
    BY NextType, NextLocals
  <1> QED BY <1>1, InitType, InitLocals, PTL DEF Spec

\* No two workers ever run syncHandler for the same class, and the queue knows
\* the key of every busy worker (processNextWorkItem).
THEOREM KeysAreExclusive == Spec => []KeyExclusive
  <1>1. TypeOK /\ LocalsOKAll /\ KeyExclusive /\ [Next]_vars
          => (TypeOK /\ LocalsOKAll /\ KeyExclusive)'
    BY NextType, NextLocals
  <1> QED BY <1>1, InitType, InitLocals, PTL DEF Spec

-----------------------------------------------------------------------------
(* No update is lost.                                                      *)

\* What is scheduled stays scheduled while queue and notifications only grow.
LEMMA GrowingSchedule ==
  ASSUME NEW c, dirty \subseteq dirty', delayed \subseteq delayed',
         \A kind \in Kinds : pending[kind] \subseteq pending'[kind],
         scCache'[c] = scCache[c], Scheduled(c)
  PROVE  Scheduled(c)'
  BY DEF Scheduled, Announced, Kinds

\* A class stays attended to in a step that neither concerns its objects nor
\* takes it off the schedule.
LEMMA OtherStep ==
  ASSUME NEW c, Attended(c), SameLocals,
         scCache'[c] = scCache[c], snapCache'[c] = snapCache[c],
         pcapCache'[scCache[c].provisioner] = pcapCache[scCache[c].provisioner],
         sccapCache'[c] = sccapCache[c], sccap'[c] = sccap[c],
         Scheduled(c) => Scheduled(c)',
         phase' # "running" => phase # "running"
  PROVE  Attended(c)'
  <1>1. Done(c) => Done(c)'
    BY DEF Done, CachedDerivable, CachedDesired
  <1>2. \A w \in Workers : UpToDate(w, c) => UpToDate(w, c)'
    BY DEF UpToDate, SameLocals
  <1> QED BY <1>1, <1>2 DEF Attended

\* A scheduled class is attended to.
LEMMA ScheduledIsAttended == \A c : Scheduled(c) => Attended(c)
  BY DEF Attended

\* Users: a StorageClassCapability that is edited has no latest copy any more.
LEMMA UsersAttended ==
  ASSUME UpdateInv, Users, NEW c \in ClassNames, scCache[c] # None => Attended(c),
         scCache'[c] # None
  PROVE  Attended(c)'
  <1>0. SameLocals
    BY OthersKeepLocals DEF UpdateInv, LocalsOKAll
  <1>1. ASSUME NEW d \in ClassNames, NEW new \in CapabilityEdits, EditCapability(d, new)
        PROVE  Attended(c)'
    <2>1. UNCHANGED <<queueVars, scCache, snapCache, pcapCache, phase, pending>>
      BY <1>1 DEF EditCapability
    <2>2. Scheduled(c) => Scheduled(c)'
      BY <2>1, GrowingSchedule DEF queueVars
    <2>3. CASE c = d
      <3>1. sccapCache'[c].latest = FALSE
        BY <1>1, <2>3, OutdatedType
        DEF EditCapability, UpdateInv, TypeOK, CacheTypeOK, Outdated, Copies
      <3> QED BY <2>1, <2>2, <3>1 DEF Attended, Done
    <2>4. CASE c # d
      <3>1. sccapCache'[c] = sccapCache[c] /\ sccap'[c] = sccap[c]
        BY <1>1, <2>4
        DEF EditCapability, UpdateInv, TypeOK, CacheTypeOK, ClusterTypeOK
      <3> QED BY <1>0, <2>1, <2>2, <3>1, OtherStep
    <2> QED BY <2>3, <2>4
  <1>2. CASE UNCHANGED <<queueVars, cacheVars, phase, pending, sccap>>
    <2>1. Scheduled(c) => Scheduled(c)'
      BY <1>2, GrowingSchedule DEF queueVars, cacheVars
    <2> QED BY <1>0, <1>2, <2>1, OtherStep DEF cacheVars
  <1> QED
    BY <1>1, <1>2
    DEF Users, SetStorageClass, SetSnapshotClass, SetProvisionerCapability

\* Informers: what changes in a cache is announced, unless a watch breaks.
LEMMA DeliveryAttended ==
  ASSUME UpdateInv, ~WatchMayBreak, NEW c \in ClassNames,
         scCache[c] # None => Attended(c), scCache'[c] # None,
         \/ \E d \in ClassNames, t \in BOOLEAN :
              \/ DeliverClass(d, t)
              \/ DeliverSnapshotClass(d, t)
              \/ DeliverCapability(d, t)
         \/ \E p \in Provisioners, t \in BOOLEAN : DeliverProvisionerCapability(p, t)
  PROVE  Attended(c)'
  <1>0. SameLocals
    BY OthersKeepLocals DEF UpdateInv, LocalsOKAll
  <1> USE DEF UpdateInv, TypeOK, CacheTypeOK, PendingTypeOK, queueVars, Kinds
  <1>1. ASSUME NEW d \in ClassNames, DeliverClass(d, FALSE) PROVE Attended(c)'
    <2>1. CASE c = d
      <3>1. Notice(c, FALSE) \in pending'["sc"]
        BY <1>1, <2>1 DEF DeliverClass, Notify
      <3> QED BY <3>1, ScheduledIsAttended DEF Scheduled, Announced, Attended
    <2>2. CASE c # d
      <3>1. scCache'[c] = scCache[c]
        BY <1>1, <2>2 DEF DeliverClass
      <3>2. Scheduled(c) => Scheduled(c)'
        BY <1>1, <3>1, GrowingSchedule DEF DeliverClass, Notify
      <3> QED
        BY <1>0, <1>1, <3>1, <3>2, OtherStep DEF DeliverClass, clusterVars
    <2> QED BY <2>1, <2>2
  <1>2. ASSUME NEW d \in ClassNames, DeliverSnapshotClass(d, FALSE) PROVE Attended(c)'
    <2>1. CASE c = d
      <3>1. Notice(c, FALSE) \in pending'["snap"]
        BY <1>2, <2>1 DEF DeliverSnapshotClass, Notify
      <3> QED BY <3>1 DEF Scheduled, Announced, Attended
    <2>2. CASE c # d
      <3>1. snapCache'[c] = snapCache[c]
        BY <1>2, <2>2 DEF DeliverSnapshotClass
      <3>2. Scheduled(c) => Scheduled(c)'
        BY <1>2, GrowingSchedule DEF DeliverSnapshotClass, Notify
      <3> QED
        BY <1>0, <1>2, <3>1, <3>2, OtherStep DEF DeliverSnapshotClass, clusterVars
    <2> QED BY <2>1, <2>2
  <1>3. ASSUME NEW d \in ClassNames, DeliverCapability(d, FALSE) PROVE Attended(c)'
    <2>1. CASE c = d
      <3>1. Notice(c, FALSE) \in pending'["sccap"]
        <4>1. Notice(c, FALSE).tombstone = FALSE
          BY DEF Notice
        <4> DEFINE notices == {n \in {Notice(d, FALSE)} :
                                 n.tombstone => sccapCache[d].there}
        <4>2. Notice(c, FALSE) \in notices
          BY <2>1, <4>1
        <4>3. Notify("sccap", notices)
          BY <1>3 DEF DeliverCapability
        <4> HIDE DEF notices
        <4>4. pending'["sccap"] = pending["sccap"] \cup notices
          BY <4>3, NotifyAdds
        <4> QED BY <4>2, <4>4
      <3> QED BY <3>1 DEF Scheduled, Announced, Attended
    <2>2. CASE c # d
      <3>1. sccapCache'[c] = sccapCache[c]
        BY <1>3, <2>2 DEF DeliverCapability
      <3>2. Scheduled(c) => Scheduled(c)'
        BY <1>3, GrowingSchedule DEF DeliverCapability, Notify
      <3> QED
        BY <1>0, <1>3, <3>1, <3>2, OtherStep DEF DeliverCapability, clusterVars
    <2> QED BY <2>1, <2>2
  <1>4. ASSUME NEW p \in Provisioners, DeliverProvisionerCapability(p, FALSE)
        PROVE  Attended(c)'
    <2>0. scCache'[c] = scCache[c]
      BY <1>4 DEF DeliverProvisionerCapability
    <2>1. CASE scCache[c].provisioner = p
      <3>1. Notice(p, FALSE) \in pending'["pcap"]
        BY <1>4 DEF DeliverProvisionerCapability, Notify
      <3> QED BY <2>0, <2>1, <3>1 DEF Scheduled, Announced, Attended
    <2>2. CASE scCache[c].provisioner # p
      <3>1. pcapCache'[scCache[c].provisioner] = pcapCache[scCache[c].provisioner]
        BY <1>4, <2>2 DEF DeliverProvisionerCapability
      <3>2. Scheduled(c) => Scheduled(c)'
        BY <1>4, <2>0, GrowingSchedule DEF DeliverProvisionerCapability, Notify
      <3> QED
        BY <1>0, <1>4, <2>0, <3>1, <3>2, OtherStep
        DEF DeliverProvisionerCapability, clusterVars
    <2> QED BY <2>1, <2>2
  <1>5. \/ \E d \in ClassNames : \/ DeliverClass(d, FALSE)
                               \/ DeliverSnapshotClass(d, FALSE)
                               \/ DeliverCapability(d, FALSE)
        \/ \E p \in Provisioners : DeliverProvisionerCapability(p, FALSE)
    <2>1. ASSUME NEW d \in ClassNames, NEW t \in BOOLEAN,
                 DeliverClass(d, t) \/ DeliverSnapshotClass(d, t) \/ DeliverCapability(d, t)
          PROVE  t = FALSE
      BY <2>1 DEF DeliverClass, DeliverSnapshotClass, DeliverCapability
    <2>2. ASSUME NEW p \in Provisioners, NEW t \in BOOLEAN, DeliverProvisionerCapability(p, t)
          PROVE  t = FALSE
      BY <2>2 DEF DeliverProvisionerCapability
    <2> QED BY <2>1, <2>2, Zenon
  <1> QED BY <1>1, <1>2, <1>3, <1>4, <1>5

\* Until the workers start, every cached class is scheduled: the initial lists
\* announce what they put into the caches.
LEMMA ListAttended ==
  ASSUME UpdateInv, NEW c \in ClassNames, scCache[c] # None => Attended(c),
         scCache'[c] # None, NEW kind \in Kinds, InitialList(kind)
  PROVE  Attended(c)'
  <1> USE DEF UpdateInv, TypeOK, CacheTypeOK, PendingTypeOK, ClusterTypeOK, queueVars
  <1>1. phase = "syncing" /\ phase' = "syncing"
    BY DEF InitialList
  <1>2. CASE kind = "sc"
    <2>1. Notice(c, FALSE) \in Announcements(sc)
      <3>1. c \in DOMAIN sc /\ sc[c] # None
        BY <1>2 DEF InitialList
      <3> QED BY <3>1 DEF Announcements
    <2>2. Notice(c, FALSE) \in pending'["sc"]
      BY <1>2, <2>1 DEF InitialList, Notify
    <2> QED BY <2>2 DEF Scheduled, Announced, Attended
  <1>3. CASE kind # "sc"
    <2>1. scCache' = scCache /\ UNCHANGED queueVars
      BY <1>3 DEF InitialList
    <2>2. Scheduled(c)
      BY <1>1, <2>1 DEF Attended
    <2>3. \A k \in Kinds : pending[k] \subseteq pending'[k]
      BY DEF InitialList, Notify
    <2>4. Scheduled(c)'
      BY <2>1, <2>2, <2>3, GrowingSchedule
    <2> QED BY <2>4 DEF Attended
  <1> QED BY <1>2, <1>3

\* Handlers turn a notification into a queued key, the back-off a delayed key.
LEMMA HandleSchedule ==
  ASSUME TypeOK, NEW c \in ClassNames, Scheduled(c),
         \/ \E kind \in Kinds : \E notice \in pending[kind] : Handle(kind, notice)
         \/ \E d \in ClassNames : ResyncCapability(d) \/ RateLimitExpires(d)
         \/ \E p \in Provisioners : ResyncProvisionerCapability(p)
  PROVE  Scheduled(c)'
  <1> USE DEF TypeOK, PendingTypeOK
  <1>1. scCache'[c] = scCache[c]
    BY DEF Handle, ResyncCapability, ResyncProvisionerCapability, RateLimitExpires, cacheVars
  <1>2. ASSUME NEW kind \in Kinds, NEW notice \in pending[kind], Handle(kind, notice)
        PROVE  Scheduled(c)'
    <2>1. /\ \A k \in Kinds : \A n \in pending[k] :
               n \in pending'[k] \/ (k = kind /\ n = notice)
          /\ dirty \subseteq dirty' /\ delayed' = delayed
      BY <1>2
      DEF Handle, handleScObject, enqueueSccap, enqueuePcap, Add, queueVars
    <2>2. /\ Notice(c, FALSE).tombstone = FALSE /\ Notice(c, FALSE).name = c
          /\ \A p : Notice(p, FALSE).tombstone = FALSE /\ Notice(p, FALSE).name = p
      BY DEF Notice
    <2>3. CASE kind # "pcap" /\ notice = Notice(c, FALSE)
      <3>1. c \in dirty'
        BY <1>2, <2>2, <2>3
        DEF Handle, handleScObject, enqueueSccap, Add, Kinds
      <3> QED BY <3>1 DEF Scheduled
    <2>4. CASE kind = "pcap" /\ scCache[c] # None /\ notice = Notice(scCache[c].provisioner, FALSE)
      <3>1. c \in dirty'
        BY <1>2, <2>2, <2>4 DEF Handle, enqueuePcap, Add
      <3> QED BY <3>1 DEF Scheduled
    <2> QED
      BY <1>1, <2>1, <2>3, <2>4 DEF Scheduled, Announced, Kinds
  <1>3. CASE \/ \E d \in ClassNames : ResyncCapability(d)
             \/ \E p \in Provisioners : ResyncProvisionerCapability(p)
    BY <1>1, <1>3, GrowingSchedule
    DEF ResyncCapability, ResyncProvisionerCapability, Notify, queueVars
  <1>4. ASSUME NEW d \in ClassNames, RateLimitExpires(d) PROVE Scheduled(c)'
    BY <1>1, <1>4 DEF RateLimitExpires, DelayExpires, Scheduled, Announced, cacheVars
  <1> QED BY <1>2, <1>3, <1>4

\* Handlers, back-off and resync do not touch what a class is derived from.
LEMMA HandleAttended ==
  ASSUME UpdateInv, NEW c \in ClassNames, scCache[c] # None => Attended(c),
         scCache'[c] # None,
         \/ \E kind \in Kinds : \E notice \in pending[kind] : Handle(kind, notice)
         \/ \E d \in ClassNames : ResyncCapability(d) \/ RateLimitExpires(d)
         \/ \E p \in Provisioners : ResyncProvisionerCapability(p)
  PROVE  Attended(c)'
  <1>0. SameLocals
    BY OthersKeepLocals DEF UpdateInv, LocalsOKAll
  <1>1. UNCHANGED <<clusterVars, cacheVars, phase>>
    BY DEF Handle, ResyncCapability, ResyncProvisionerCapability, RateLimitExpires
  <1>2. Scheduled(c) => Scheduled(c)'
    BY HandleSchedule DEF UpdateInv
  <1> QED
    BY <1>0, <1>1, <1>2, OtherStep DEF cacheVars, clusterVars

\* What a worker reads is what the caches hold: a worker that is up to date stays so
\* with every read, until it finds no ProvisionerCapability (syncHandler).
LEMMA ReadKnows ==
  ASSUME TypeOK, NEW c \in ClassNames, scCache[c] # None, NEW w \in Workers, UpToDate(w, c),
         \/ GetStorageClass(w)
         \/ GetProvisionerCapability(w)
         \/ GetSnapshotClass(w)
         \/ GetStorageClassCapability(w)
  PROVE  \/ UpToDate(w, c)'
         \/ /\ pcapCache[scCache[c].provisioner] = None
            /\ Succeed(w)
  <1>0. /\ worker[w] \in WorkerStates /\ worker \in [Workers -> WorkerStates]
        /\ worker[w].key = c
    BY DEF TypeOK, UpToDate
  <1>1. UNCHANGED cacheVars
    BY DEF GetStorageClass, GetProvisionerCapability, pcapLister, GetSnapshotClass,
           GetStorageClassCapability, sccapLister
  <1>2. CASE GetStorageClass(w)
    <2>1. /\ worker'[w].key = c /\ worker'[w].class = scCache[c]
          /\ worker'[w].pc = "getPcap"
      BY <1>0, <1>2 DEF GetStorageClass, Becomes, WorkerStates
    <2> QED BY <1>1, <2>1 DEF UpToDate, cacheVars
  <1>3. CASE GetProvisionerCapability(w)
    <2> DEFINE p == worker[w].class.provisioner
    <2>1. worker[w].class = scCache[c]
      BY <1>3 DEF UpToDate, GetProvisionerCapability, pcapLister
    <2>2. CASE pcapCache[p] = None
      BY <1>3, <2>1, <2>2 DEF GetProvisionerCapability, pcapLister, Provisioner
    <2>3. CASE pcapCache[p] # None
      <3> DEFINE cap == [name |-> p, features |-> pcapCache[p]]
      <3>1. worker' = [worker EXCEPT ![w] = [worker[w] EXCEPT !.pcap = cap, !.pc = "getSnap"]]
        BY <1>3, <2>3 DEF GetProvisionerCapability, pcapLister, Provisioner, Becomes
      <3>2. cap.features = pcapCache[p]
        OBVIOUS
      <3> HIDE DEF cap
      <3>3. /\ worker'[w].pc = "getSnap" /\ worker'[w].key = c
            /\ worker'[w].class = worker[w].class /\ worker'[w].pcap = cap
        BY <1>0, <3>1 DEF WorkerStates
      <3> QED BY <1>1, <2>1, <3>2, <3>3 DEF UpToDate, cacheVars
    <2> QED BY <2>2, <2>3
  <1>4. CASE GetSnapshotClass(w)
    <2>1. /\ worker'[w].key = c /\ worker'[w].driver = snapCache[c]
          /\ worker'[w].pc = "getSccap" /\ worker[w].pc = "getSnap"
          /\ worker'[w].class = worker[w].class /\ worker'[w].pcap = worker[w].pcap
      BY <1>0, <1>4 DEF GetSnapshotClass, Becomes, WorkerStates
    <2> QED BY <1>1, <2>1 DEF UpToDate, cacheVars
  <1>5. CASE GetStorageClassCapability(w)
    <2>1. /\ worker'[w].key = c /\ worker'[w].driver = worker[w].driver
          /\ worker'[w].pc \in {"create", "update"} /\ worker[w].pc = "getSccap"
          /\ worker'[w].class = worker[w].class /\ worker'[w].pcap = worker[w].pcap
      BY <1>0, <1>5 DEF GetStorageClassCapability, sccapLister, Becomes, WorkerStates
    <2> QED BY <1>1, <2>1 DEF UpToDate, cacheVars
  <1> QED BY <1>2, <1>3, <1>4, <1>5

\* A worker that is up to date derives what the caches say (newSccap, updateSccap).
LEMMA DerivesWanted ==
  ASSUME TypeOK, NEW c \in ClassNames, NEW w \in Workers, LocalsOK(w), UpToDate(w, c),
         worker[w].pc \in {"create", "update"}
  PROVE  /\ newSccap(worker[w].class, worker[w].driver, worker[w].pcap) = CachedDesired(c)
         /\ updateSccap(worker[w].class, worker[w].driver, worker[w].pcap) = CachedDesired(c)
  <1> DEFINE cap == [name |-> scCache[c].provisioner,
                     features |-> pcapCache[scCache[c].provisioner]]
  <1>1. /\ worker[w].class = scCache[c] /\ worker[w].driver = snapCache[c]
        /\ worker[w].pcap.name = scCache[c].provisioner
        /\ worker[w].pcap.features = pcapCache[scCache[c].provisioner]
        /\ worker[w].pcap \in ProvisionerCapabilities
    BY DEF UpToDate, LocalsOK, WorkerStates, TypeOK
  <1>2. worker[w].pcap = cap
    BY <1>1 DEF ProvisionerCapabilities
  <1> HIDE DEF cap
  <1>3. CachedDesired(c) = newSccap(scCache[c], snapCache[c], cap)
    BY DEF CachedDesired, cap
  <1> QED BY <1>1, <1>2, <1>3 DEF updateSccap

\* A read leaves a class attended to: there is nothing to do for a class whose
\* driver has no ProvisionerCapability.
LEMMA ReadAttended ==
  ASSUME UpdateInv, NEW c \in ClassNames, scCache[c] # None => Attended(c),
         scCache'[c] # None, NEW w \in Workers,
         \/ \E d \in ClassNames : ProcessNextWorkItem(w, d)
         \/ GetStorageClass(w)
         \/ GetProvisionerCapability(w)
         \/ GetSnapshotClass(w)
         \/ GetStorageClassCapability(w)
  PROVE  Attended(c)'
  <1>0. /\ worker[w] \in WorkerStates /\ LocalsOK(w)
        /\ worker \in [Workers -> WorkerStates]
    BY DEF UpdateInv, TypeOK
  <1>1. /\ UNCHANGED <<clusterVars, cacheVars, phase, synced, pending>>
        /\ phase = "running" /\ delayed' = delayed
        /\ \A v \in Workers : v # w => worker'[v] = worker[v]
    BY <1>0
    DEF ProcessNextWorkItem, Get, GetStorageClass, GetProvisionerCapability, pcapLister,
        Succeed, ForgetAndDone, GetSnapshotClass, GetStorageClassCapability,
        sccapLister, Becomes, LocalsOK, queueVars
  <1>2. Done(c) => Done(c)'
    BY <1>1 DEF Done, CachedDerivable, CachedDesired, clusterVars, cacheVars
  <1>3. \A v \in Workers : v # w /\ UpToDate(v, c) => UpToDate(v, c)'
    BY <1>1 DEF UpToDate, cacheVars
  <1>4. scCache[c] # None
    BY <1>1 DEF cacheVars
  <1>5. ASSUME NEW d \in ClassNames, ProcessNextWorkItem(w, d) PROVE Attended(c)'
    <2>1. worker[w].pc = "idle" /\ worker[w].key = None
      BY <1>0, <1>5 DEF ProcessNextWorkItem, LocalsOK
    <2>2. CASE d = c
      <3>1. worker'[w].key = c /\ worker'[w].pc = "getClass"
        BY <1>0, <1>5, <2>2 DEF ProcessNextWorkItem, Becomes, WorkerStates
      <3>2. UpToDate(w, c)'
        BY <3>1 DEF UpToDate
      <3> QED BY <1>1, <3>2 DEF Attended
    <2>3. CASE d # c
      <3>1. Scheduled(c) => Scheduled(c)'
        BY <1>1, <1>5, <2>3 DEF ProcessNextWorkItem, Get, Scheduled, Announced, cacheVars
      <3>2. ~UpToDate(w, c)
        BY <2>1 DEF UpToDate
      <3> QED BY <1>1, <1>2, <1>3, <1>4, <3>1, <3>2 DEF Attended
    <2> QED BY <2>2, <2>3
  <1>6. ASSUME ~(\E d \in ClassNames : ProcessNextWorkItem(w, d))
        PROVE  Attended(c)'
    <2>1. dirty' = dirty
      BY <1>6
      DEF GetStorageClass, GetProvisionerCapability, pcapLister, Succeed, ForgetAndDone,
          GetSnapshotClass, GetStorageClassCapability, sccapLister, queueVars
    <2>2. Scheduled(c) => Scheduled(c)'
      BY <1>1, <2>1 DEF Scheduled, Announced, cacheVars
    <2>3. UpToDate(w, c) => UpToDate(w, c)' \/ Done(c)'
      <3> SUFFICES ASSUME UpToDate(w, c) PROVE UpToDate(w, c)' \/ Done(c)'
        OBVIOUS
      <3>1. UpToDate(w, c)' \/ pcapCache[scCache[c].provisioner] = None
        BY <1>4, <1>6, ReadKnows DEF UpdateInv
      <3> QED BY <1>1, <3>1 DEF Done, CachedDerivable, cacheVars
    <2> QED BY <1>1, <1>2, <1>3, <1>4, <2>2, <2>3 DEF Attended
  <1> QED BY <1>5, <1>6

\* A call for class c leaves it scheduled, without a latest copy, or as derived
\* from the caches; a call for another class does not concern it.
LEMMA CallAttended ==
  ASSUME UpdateInv, NEW c \in ClassNames, scCache[c] # None => Attended(c),
         scCache'[c] # None, NEW w \in Workers, NEW reply,
         \/ CreateCapability(w, reply)
         \/ UpdateCapability(w, reply)
         \/ DeleteCapability(w, reply)
         \/ DerivePanics(w)
  PROVE  Attended(c)'
  <1>0. /\ worker[w] \in WorkerStates /\ LocalsOK(w)
        /\ worker \in [Workers -> WorkerStates]
    BY DEF UpdateInv, TypeOK
  <1>1. /\ ~ProcessExits
        /\ Succeed(w) \/ Retry(w)
        /\ UNCHANGED <<sc, snap, pcap, scCache, snapCache, pcapCache, phase, pending>>
    BY DEF CreateCapability, Created, UpdateCapability, Updated, DeleteCapability,
           Deleted, DerivePanics, ProcessExits, cacheVars
  <1>2. /\ worker'[w] = Idle
        /\ \A v \in Workers : v # w => worker'[v] = worker[v]
    BY <1>0, <1>1, IdleType, BecomesType DEF Succeed, Retry
  <1>3. dirty' = dirty /\ delayed \subseteq delayed' /\ (Retry(w) => worker[w].key \in delayed')
    BY <1>1 DEF Succeed, Retry, ForgetAndDone, RetryAndDone
  <1>4. phase = "running" /\ phase' = "running" /\ scCache[c] # None
    BY <1>0, <1>1
    DEF LocalsOK, CreateCapability, Created, UpdateCapability, Updated,
        DeleteCapability, Deleted, DerivePanics
  <1>5. Scheduled(c) => Scheduled(c)'
    BY <1>1, <1>3 DEF Scheduled, Announced
  <1>6. \A v \in Workers : v # w /\ UpToDate(v, c) => UpToDate(v, c)'
    BY <1>1, <1>2 DEF UpToDate
  <1>7. CASE worker[w].key # c
    <2>1. worker[w].key \in ClassNames
      BY <1>0 DEF WorkerStates, LocalsOK, CreateCapability, Created, UpdateCapability,
                  Updated, DeleteCapability, Deleted, DerivePanics
    <2>2. sccap'[c] = sccap[c] /\ sccapCache'[c] = sccapCache[c]
      BY <1>1, <1>7, <2>1
      DEF CreateCapability, Created, UpdateCapability, Updated, DeleteCapability,
          Deleted, DerivePanics, UpdateInv, TypeOK, ClusterTypeOK, CacheTypeOK,
          cacheVars
    <2>3. Done(c) => Done(c)'
      BY <1>1, <2>2 DEF Done, CachedDerivable, CachedDesired
    <2>4. ~UpToDate(w, c)
      BY <1>7 DEF UpToDate
    <2> QED BY <1>4, <1>5, <1>6, <2>3, <2>4 DEF Attended
  <1>8. CASE worker[w].key = c
    <2>1. CASE Retry(w)
      BY <1>3, <1>8, <2>1 DEF Scheduled, Attended
    <2>2. CASE sccapCache' = [sccapCache EXCEPT ![c] = Outdated(@)]
      <3>1. sccapCache'[c].latest = FALSE
        BY <2>2 DEF UpdateInv, TypeOK, CacheTypeOK, Outdated, Copies
      <3> QED BY <1>4, <3>1 DEF Done, Attended
    <2>3. CASE sccap'[c] = sccap[c] /\ sccapCache' = sccapCache /\ ~UpToDate(w, c)
      <3>1. Done(c) => Done(c)'
        BY <1>1, <2>3 DEF Done, CachedDerivable, CachedDesired
      <3> QED BY <1>4, <1>5, <1>6, <2>3, <3>1 DEF Attended
    <2>4. CASE UpdateCapability(w, reply) /\ UpToDate(w, c) /\ UNCHANGED sccapCache /\ ~Retry(w)
      <3>1. sccap'[c] = updateSccap(worker[w].class, worker[w].driver, worker[w].pcap)
        BY <1>8, <2>4 DEF UpdateCapability, Updated, UpdateInv, TypeOK, ClusterTypeOK
      <3>2. sccap'[c] = CachedDesired(c)
        BY <1>0, <2>4, <3>1, DerivesWanted DEF UpdateCapability, Updated, UpdateInv
      <3>3. Done(c)'
        BY <1>1, <3>2 DEF Done, CachedDesired
      <3> QED BY <1>4, <3>3 DEF Attended
    <2>5. CASE CreateCapability(w, reply)
      BY <1>8, <2>1, <2>2, <2>5 DEF CreateCapability, Created
    <2>6. CASE UpdateCapability(w, reply)
      <3>1. \/ Retry(w)
            \/ sccapCache' = [sccapCache EXCEPT ![c] = Outdated(@)]
            \/ sccap'[c] = sccap[c] /\ sccapCache' = sccapCache
        BY <1>8, <2>6 DEF UpdateCapability, Updated, UpdateInv, TypeOK, ClusterTypeOK
      <3> QED BY <2>1, <2>2, <2>3, <2>4, <2>6, <3>1
    <2>7. CASE DeleteCapability(w, reply)
      <3>1. ~UpToDate(w, c)
        BY <2>7 DEF DeleteCapability, Deleted, UpToDate
      <3> QED BY <1>1, <1>8, <2>2, <2>3, <2>7, <3>1
        DEF DeleteCapability, Deleted, cacheVars
    <2> QED BY <1>1, <2>5, <2>6, <2>7 DEF DerivePanics
  <1> QED BY <1>7, <1>8

\* Every step attends to every cached class.
LEMMA NextAttended ==
  ASSUME UpdateInv, ~WatchMayBreak, [Next]_vars, NEW c \in ClassNames, scCache'[c] # None
  PROVE  Attended(c)'
  <1>0. scCache[c] # None => Attended(c)
    BY DEF UpdateInv
  <1>1. CASE UNCHANGED vars
    BY <1>0, <1>1
    DEF vars, clusterVars, queueVars, cacheVars, Attended, Scheduled, Announced, UpToDate,
        Done, CachedDerivable, CachedDesired
  <1>2. CASE Users
    BY <1>0, <1>2, UsersAttended
  <1>3. CASE Faults
    <2>1. CASE Crash
      BY <2>1 DEF Crash, ProcessExits
    <2> QED BY <1>0, <1>3, <2>1, CallAttended, DeliveryAttended DEF Faults
  <1>4. CASE System
    <2>1. CASE StartInformers \/ StartWorkers
      <3>1. UNCHANGED <<clusterVars, queueVars, cacheVars, pending, worker>> /\ phase # "running"
        BY <2>1 DEF StartInformers, StartWorkers
      <3>2. Scheduled(c)
        BY <1>0, <3>1 DEF cacheVars, Attended
      <3> QED
        BY <3>1, <3>2 DEF Attended, Scheduled, Announced, queueVars, cacheVars
    <2>2. ASSUME NEW w \in Workers,
                 WorkerStep(w) \/ \E d \in ClassNames : ProcessNextWorkItem(w, d)
          PROVE  Attended(c)'
      BY <1>0, <2>2, ReadAttended, CallAttended DEF WorkerStep
    <2>3. ASSUME \/ \E d \in ClassNames : \/ DeliverClass(d, FALSE)
                                         \/ DeliverSnapshotClass(d, FALSE)
                                         \/ DeliverCapability(d, FALSE)
                 \/ \E p \in Provisioners : DeliverProvisionerCapability(p, FALSE)
          PROVE  Attended(c)'
      BY <1>0, <2>3, DeliveryAttended
    <2> QED
      BY <1>0, <1>4, <2>1, <2>2, <2>3, ListAttended, HandleAttended DEF System
  <1> QED BY <1>1, <1>2, <1>3, <1>4 DEF Next

\* At first nothing is cached.
LEMMA InitUpdateInv == Init => UpdateInv
  <1>1. Init => \A c \in ClassNames : scCache[c] = None
    BY DEF Init
  <1> QED BY <1>1, InitType, InitLocals DEF UpdateInv, LocalsOKAll

\* Every step keeps UpdateInv, unless a watch breaks.
LEMMA NextUpdateInv ==
  ASSUME ~WatchMayBreak PROVE UpdateInv /\ [Next]_vars => UpdateInv'
  <1> SUFFICES ASSUME UpdateInv, [Next]_vars PROVE UpdateInv'
    OBVIOUS
  <1>1. TypeOK' /\ LocalsOKAll' /\ KeyExclusive'
    BY NextType, NextLocals DEF UpdateInv, LocalsOKAll
  <1>2. \A c \in ClassNames : scCache'[c] # None => Attended(c)'
    BY NextAttended
  <1> QED BY <1>1, <1>2 DEF UpdateInv, LocalsOKAll

\* A class that is settled has been done.
LEMMA AttendedIsUpdated == UpdateInv => NoLostUpdate
  <1> SUFFICES ASSUME UpdateInv, NEW c \in ClassNames, Settled(c), Derivable(c)
               PROVE  sccap[c] = Desired(c)
    BY DEF NoLostUpdate
  <1>1. scCache[c] # None /\ Attended(c)
    BY DEF UpdateInv, Settled, CachesCurrent, Derivable
  <1>2. \A w \in Workers : ~UpToDate(w, c)
    BY DEF UpdateInv, KeyExclusive, Settled, UpToDate
  <1>3. Done(c)
    BY <1>1, <1>2 DEF Attended, Settled
  <1> QED
    BY <1>1, <1>3
    DEF Done, CachedDerivable, CachedDesired, Settled, CachesCurrent, Derivable, Desired

\* The invariant behind NoLostUpdate: whatever the caches show of a class is always
\* going to be handled, being handled, or done (enqueueSccap to processNextWorkItem).
THEOREM UpdateInvHolds == ASSUME ~WatchMayBreak PROVE Spec => []UpdateInv
  BY InitUpdateInv, NextUpdateInv, PTL DEF Spec

\* No change of a class, of its snapshot class, of its ProvisionerCapability or of
\* its StorageClassCapability is lost between watch, caches, queue and workers,
\* however users, crashes, workers and failing calls interleave, as long as a
\* deletion is never first noticed by a new list (the resync is not needed).
THEOREM NoUpdateIsLost == ASSUME ~WatchMayBreak PROVE Spec => []NoLostUpdate
  BY AttendedIsUpdated, UpdateInvHolds, PTL

-----------------------------------------------------------------------------
(* A StorageClassCapability is about one driver.                           *)

\* What a worker derives was published for the driver of the class it read.
LEMMA DerivedFromOneDriver ==
  ASSUME TypeOK, NEW w \in Workers, LocalsOK(w), worker[w].pc \in {"create", "update"},
         NEW spec, spec = newSccap(worker[w].class, worker[w].driver, worker[w].pcap)
  PROVE  \E f \in Published[spec.provisioner] :
           /\ spec.base = f.base
           /\ spec.expand \in {f.expand, "UNKNOWN"}
           /\ spec.snapshot \in {f.snapshot, NoSnapshot}
  <1>1. worker[w].pcap.features \in Published[worker[w].class.provisioner]
    BY DEF LocalsOK
  <1> QED BY <1>1 DEF newSccap

\* At first there are no StorageClassCapabilities.
LEMMA InitOneDriver == Init => OneDriverInv
  BY InitType, InitLocals DEF Init, ClusterInit, OneDriver, OneDriverInv, LocalsOKAll

\* Every step keeps the locals of the workers, and with them all that is derived,
\* to one driver each (newSccap and updateSccap).
LEMMA NextOneDriver ==
  ASSUME CapabilityEdits \subseteq {None} PROVE OneDriverInv /\ [Next]_vars => OneDriverInv'
  <1> DEFINE Inv == TypeOK /\ LocalsOKAll /\ KeyExclusive /\ OneDriver
  <1>1. Inv /\ [Next]_vars => Inv'
    <2> SUFFICES ASSUME Inv, [Next]_vars PROVE OneDriver'
      BY NextType, NextLocals
    <2>1. ASSUME NEW w \in Workers, NEW reply,
                 CreateCapability(w, reply) \/ UpdateCapability(w, reply)
          PROVE  OneDriver'
      <3> DEFINE spec == newSccap(worker[w].class, worker[w].driver, worker[w].pcap)
      <3>1. sccap' = sccap \/ sccap' = [sccap EXCEPT ![worker[w].key] = spec]
        BY <2>1 DEF CreateCapability, Created, UpdateCapability, Updated, updateSccap
      <3>2. worker[w].pc \in {"create", "update"} /\ LocalsOK(w)
        BY <2>1 DEF CreateCapability, Created, UpdateCapability, Updated, LocalsOKAll
      <3>3. \E f \in Published[spec.provisioner] :
              /\ spec.base = f.base
              /\ spec.expand \in {f.expand, "UNKNOWN"}
              /\ spec.snapshot \in {f.snapshot, NoSnapshot}
        BY <3>2, DerivedFromOneDriver
      <3> HIDE DEF spec
      <3> QED BY <3>1, <3>3 DEF OneDriver, TypeOK, ClusterTypeOK
    <2>2. ASSUME NEW c \in ClassNames, sccap' = [sccap EXCEPT ![c] = None] PROVE OneDriver'
      BY <2>2 DEF OneDriver, TypeOK, ClusterTypeOK
    <2>3. CASE UNCHANGED sccap
      BY <2>3 DEF OneDriver
    <2>4. CASE Users
      BY <2>2, <2>3, <2>4
      DEF Users, SetStorageClass, SetSnapshotClass, SetProvisionerCapability, EditCapability
    <2>5. ASSUME NEW w \in Workers, NEW reply, DeleteCapability(w, reply) PROVE OneDriver'
      <3>1. sccap' = sccap \/ (worker[w].key \in ClassNames /\ sccap' = [sccap EXCEPT ![worker[w].key] = None])
        BY <2>5 DEF DeleteCapability, Deleted, TypeOK, WorkerStates, LocalsOKAll,
                    LocalsOK
      <3> QED BY <2>2, <2>3, <3>1
    <2>6. CASE Faults
      BY <2>1, <2>3, <2>5, <2>6
      DEF Faults, Crash, clusterVars, DeliverClass, DeliverSnapshotClass, DeliverCapability,
          DeliverProvisionerCapability
    <2>7. ASSUME NEW w \in Workers, WorkerStep(w) PROVE OneDriver'
      BY <2>1, <2>3, <2>5, <2>7
      DEF WorkerStep, GetStorageClass, GetProvisionerCapability, pcapLister,
          GetSnapshotClass, GetStorageClassCapability, sccapLister, DerivePanics,
          clusterVars
    <2>8. CASE System
      BY <2>3, <2>7, <2>8
      DEF System, StartInformers, StartWorkers, InitialList, Handle, DeliverClass,
          DeliverSnapshotClass, DeliverCapability, DeliverProvisionerCapability,
          ResyncCapability, ResyncProvisionerCapability, RateLimitExpires,
          ProcessNextWorkItem, clusterVars
    <2> QED BY <2>3, <2>4, <2>6, <2>8 DEF Next, vars, clusterVars
  <1>2. (OneDriverInv => Inv) /\ (Inv' => OneDriverInv')
    BY DEF OneDriverInv, LocalsOKAll
  <1> QED BY <1>1, <1>2

\* If users write no StorageClassCapabilities of their own, none ever combines the
\* features of one driver with the name of another, although the class, the
\* ProvisionerCapability and the snapshot class are read at different times.
THEOREM OneDriverOnly ==
  ASSUME CapabilityEdits \subseteq {None} PROVE Spec => []OneDriver
  <1>1. OneDriverInv => OneDriver
    BY DEF OneDriverInv
  <1> QED BY <1>1, InitOneDriver, NextOneDriver, PTL DEF Spec

-----------------------------------------------------------------------------
(* No StorageClassCapability is orphaned.                                  *)

Guarded(c) == Orphan(c) => Scheduled(c) \/ \E w \in Workers : Deletes(w, c)

\* An orphan stays guarded in a step that does not concern it.
LEMMA OtherOrphan ==
  ASSUME NEW c, Guarded(c), SameLocals, scCache'[c] = scCache[c],
         sccapCache'[c] = sccapCache[c], sccap'[c] = sccap[c],
         Scheduled(c) => Scheduled(c)'
  PROVE  Guarded(c)'
  <1>1. \A w \in Workers : Deletes(w, c) => Deletes(w, c)'
    BY DEF Deletes, SameLocals
  <1> QED BY <1>1 DEF Guarded, Orphan

\* Users and informers: what changes in a cache is announced, and an edited
\* StorageClassCapability has no latest copy any more.
LEMMA OthersGuard ==
  ASSUME OrphanInv, ~WatchMayBreak, NEW c \in ClassNames,
         \/ Users
         \/ \E d \in ClassNames, t \in BOOLEAN :
              \/ DeliverClass(d, t)
              \/ DeliverSnapshotClass(d, t)
              \/ DeliverCapability(d, t)
         \/ \E p \in Provisioners, t \in BOOLEAN : DeliverProvisionerCapability(p, t)
         \/ \E kind \in Kinds : InitialList(kind)
  PROVE  Guarded(c)'
  <1>0. SameLocals /\ Guarded(c)
    BY OthersKeepLocals DEF OrphanInv, UpdateInv, LocalsOKAll, Guarded
  <1> USE DEF OrphanInv, UpdateInv, TypeOK, CacheTypeOK, ClusterTypeOK
  <1>1. \A kind \in Kinds : pending[kind] \subseteq pending'[kind]
    BY DEF Users, SetStorageClass, SetSnapshotClass, SetProvisionerCapability, EditCapability,
           DeliverClass, DeliverSnapshotClass, DeliverCapability,
           DeliverProvisionerCapability, InitialList, Notify, PendingTypeOK
  <1>2. dirty' = dirty /\ delayed' = delayed
    BY DEF Users, SetStorageClass, SetSnapshotClass, SetProvisionerCapability, EditCapability,
           DeliverClass, DeliverSnapshotClass, DeliverCapability,
           DeliverProvisionerCapability, InitialList, queueVars
  <1>3. scCache'[c] = scCache[c] => (Scheduled(c) => Scheduled(c)')
    BY <1>1, <1>2, GrowingSchedule
  <1>4. ASSUME NEW d \in ClassNames, NEW new \in CapabilityEdits, EditCapability(d, new)
        PROVE  Guarded(c)'
    <2>1. CASE c = d
      <3>1. sccapCache'[c].latest = FALSE
        BY <1>4, <2>1, OutdatedType DEF EditCapability, Outdated, Copies
      <3> QED BY <3>1 DEF Guarded, Orphan
    <2>2. CASE c # d
      <3>1. scCache' = scCache /\ sccapCache'[c] = sccapCache[c] /\ sccap'[c] = sccap[c]
        BY <1>4, <2>2 DEF EditCapability
      <3> QED BY <1>0, <1>3, <3>1, OtherOrphan
    <2> QED BY <2>1, <2>2
  <1>5. CASE scCache'[c] = scCache[c] /\ sccapCache'[c] = sccapCache[c] /\ sccap'[c] = sccap[c]
    BY <1>0, <1>3, <1>5, OtherOrphan
  <1>6. CASE Users
    BY <1>4, <1>5, <1>6
    DEF Users, SetStorageClass, SetSnapshotClass, SetProvisionerCapability, cacheVars
  <1>7. ASSUME NEW d \in ClassNames, NEW t \in BOOLEAN, DeliverClass(d, t) PROVE Guarded(c)'
    <2>1. CASE c = d
      <3>1. t = FALSE
        BY <1>7 DEF DeliverClass
      <3>2. pending'["sc"] = pending["sc"] \cup {Notice(c, FALSE)}
        BY <1>7, <2>1, <3>1, NotifyAdds DEF DeliverClass, Kinds
      <3> QED BY <3>2 DEF Scheduled, Announced, Guarded
    <2>2. CASE c # d
      BY <1>5, <1>7, <2>2 DEF DeliverClass, clusterVars
    <2> QED BY <2>1, <2>2
  <1>8. ASSUME NEW d \in ClassNames, NEW t \in BOOLEAN, DeliverCapability(d, t)
        PROVE  Guarded(c)'
    <2>1. CASE c = d
      <3> DEFINE notices == {n \in {Notice(d, t)} : n.tombstone => sccapCache[d].there}
      <3>1. t = FALSE
        BY <1>8 DEF DeliverCapability
      <3>2. Notice(c, FALSE) \in notices
        BY <2>1, <3>1 DEF Notice
      <3>3. Notify("sccap", notices)
        BY <1>8 DEF DeliverCapability
      <3> HIDE DEF notices
      <3>4. pending'["sccap"] = pending["sccap"] \cup notices
        BY <3>3, NotifyAdds DEF Kinds
      <3> QED BY <3>2, <3>4 DEF Scheduled, Announced, Guarded
    <2>2. CASE c # d
      BY <1>5, <1>8, <2>2 DEF DeliverCapability, clusterVars
    <2> QED BY <2>1, <2>2
  <1>9. ASSUME NEW kind \in Kinds, InitialList(kind) PROVE Guarded(c)'
    <2>1. CASE kind = "sc"
      <3>1. scCache[c] = None
        BY <1>9, <2>1 DEF InitialList
      <3>2. scCache'[c] = None => Guarded(c)'
        BY <1>5, <1>9, <2>1, <3>1 DEF InitialList, clusterVars
      <3> QED BY <3>2 DEF Guarded, Orphan
    <2>2. CASE kind = "sccap"
      <3>1. pending'["sccap"] = pending["sccap"] \cup Announcements(sccap) /\ sccap' = sccap
        BY <1>9, <2>2, NotifyAdds DEF InitialList, Kinds, clusterVars
      <3>2. sccap[c] # None => Notice(c, FALSE) \in Announcements(sccap)
        <4>1. c \in DOMAIN sccap
          OBVIOUS
        <4> QED BY <4>1 DEF Announcements
      <3> QED BY <3>1, <3>2 DEF Scheduled, Announced, Guarded, Orphan
    <2>3. CASE kind \in {"snap", "pcap"}
      BY <1>5, <1>9, <2>3 DEF InitialList, clusterVars
    <2> QED BY <2>1, <2>2, <2>3 DEF Kinds
  <1> QED
    BY <1>5, <1>6, <1>7, <1>8, <1>9
    DEF DeliverSnapshotClass, DeliverProvisionerCapability, clusterVars

\* Workers: a taken key is looked up, a class that is gone leads to Delete, and
\* Delete either ends the process or finds nothing, when no call fails.
LEMMA WorkersGuard ==
  ASSUME OrphanInv, ~ApiMayFail, NEW c \in ClassNames, NEW w \in Workers, NEW reply,
         \/ \E d \in ClassNames : ProcessNextWorkItem(w, d)
         \/ GetStorageClass(w)
         \/ GetProvisionerCapability(w)
         \/ GetSnapshotClass(w)
         \/ GetStorageClassCapability(w)
         \/ CreateCapability(w, reply)
         \/ UpdateCapability(w, reply)
         \/ DeleteCapability(w, reply)
         \/ DerivePanics(w)
  PROVE  Guarded(c)'
  <1>0. /\ worker[w] \in WorkerStates /\ LocalsOK(w) /\ Guarded(c)
        /\ worker \in [Workers -> WorkerStates]
    BY DEF OrphanInv, UpdateInv, TypeOK, Guarded
  <1> USE DEF OrphanInv, UpdateInv, TypeOK, CacheTypeOK, ClusterTypeOK
  <1>1. CASE ProcessExits
    BY <1>1 DEF ProcessExits, Guarded, Orphan, NoCopy
  <1>2. ASSUME ~ProcessExits
        PROVE  /\ scCache' = scCache /\ pending' = pending /\ delayed \subseteq delayed'
               /\ \A v \in Workers : v # w => worker'[v] = worker[v]
               /\ (\A d \in ClassNames : ~ProcessNextWorkItem(w, d)) => dirty' = dirty
    BY <1>0, <1>2
    DEF ProcessNextWorkItem, Get, GetStorageClass, GetProvisionerCapability, pcapLister,
        Succeed, Retry, ForgetAndDone, RetryAndDone, GetSnapshotClass,
        GetStorageClassCapability, sccapLister, Becomes, CreateCapability, Created,
        UpdateCapability, Updated, DeleteCapability, Deleted, DerivePanics, queueVars,
        cacheVars
  <1>3. ASSUME NEW d \in ClassNames, ProcessNextWorkItem(w, d) PROVE Guarded(c)'
    <2>1. /\ sccap' = sccap /\ sccapCache' = sccapCache /\ scCache' = scCache
          /\ pending' = pending /\ delayed' = delayed /\ dirty' = dirty \ {d}
          /\ worker'[w].key = d /\ worker'[w].pc = "getClass" /\ worker[w].key = None
          /\ \A v \in Workers : v # w => worker'[v] = worker[v]
      BY <1>0, <1>3
      DEF ProcessNextWorkItem, Get, Becomes, WorkerStates, LocalsOK, cacheVars, clusterVars
    <2>2. \A v \in Workers : Deletes(v, c) => Deletes(v, c)'
      BY <2>1, NoneAssumption DEF Deletes
    <2>3. Scheduled(c) => Scheduled(c)' \/ Deletes(w, c)'
      BY <2>1 DEF Scheduled, Announced, Deletes
    <2> QED BY <1>0, <2>1, <2>2, <2>3 DEF Guarded, Orphan
  <1>4. ASSUME \A d \in ClassNames : ~ProcessNextWorkItem(w, d), ~ProcessExits
        PROVE  Guarded(c)'
    <2>1. Scheduled(c) => Scheduled(c)'
      BY <1>2, <1>4 DEF Scheduled, Announced
    <2>2. \A v \in Workers : v # w /\ Deletes(v, c) => Deletes(v, c)'
      BY <1>2, <1>4 DEF Deletes
    <2>3. Orphan(c)' => Orphan(c)
      <3>0. worker[w].key \in ClassNames
        BY <1>0, <1>4
        DEF LocalsOK, WorkerStates, GetStorageClass, GetProvisionerCapability,
            pcapLister, GetSnapshotClass, GetStorageClassCapability, sccapLister,
            CreateCapability, Created, UpdateCapability, Updated, DeleteCapability,
            Deleted, DerivePanics
      <3>1. CASE worker[w].key = c /\ sccapCache' = [sccapCache EXCEPT ![c] = Outdated(@)]
        <4>1. sccapCache'[c].latest = FALSE
          BY <3>1 DEF Outdated, Copies
        <4> QED BY <4>1 DEF Orphan
      <3>2. CASE sccapCache'[c] = sccapCache[c] /\ sccap'[c] = sccap[c]
        BY <1>2, <1>4, <3>2 DEF Orphan
      <3>3. CASE CreateCapability(w, reply)
        BY <3>0, <3>1, <3>2, <3>3 DEF CreateCapability, Created
      <3>4. CASE UpdateCapability(w, reply)
        BY <3>0, <3>1, <3>2, <3>4 DEF UpdateCapability, Updated
      <3>5. CASE DeleteCapability(w, reply)
        BY <1>4, <3>2, <3>5 DEF DeleteCapability, Deleted, cacheVars
      <3> QED
        BY <1>4, <3>2, <3>3, <3>4, <3>5
        DEF GetStorageClass, GetProvisionerCapability, pcapLister, GetSnapshotClass,
            GetStorageClassCapability, sccapLister, DerivePanics, cacheVars, clusterVars
    <2>4. ASSUME Deletes(w, c), Orphan(c)' PROVE Deletes(w, c)'
      <3>1. scCache[c] = None /\ sccap'[c] # None
        BY <1>2, <1>4, <2>4 DEF Orphan
      <3>2. CASE GetStorageClass(w)
        BY <1>0, <2>4, <3>1, <3>2 DEF GetStorageClass, Becomes, Deletes, WorkerStates
      <3>3. CASE DeleteCapability(w, reply)
        BY <1>4, <2>4, <3>1, <3>3 DEF DeleteCapability, Deleted, Deletes
      <3> QED
        BY <1>4, <2>4, <3>2, <3>3
        DEF GetProvisionerCapability, pcapLister, GetSnapshotClass,
            GetStorageClassCapability, sccapLister, CreateCapability, Created,
            UpdateCapability, Updated, DerivePanics, Deletes
    <2> QED BY <1>0, <2>1, <2>2, <2>3, <2>4 DEF Guarded
  <1> QED BY <1>1, <1>3, <1>4

\* Every step keeps every orphan guarded.
LEMMA NextGuard ==
  ASSUME OrphanInv, ~WatchMayBreak, ~ApiMayFail, [Next]_vars, NEW c \in ClassNames
  PROVE  Guarded(c)'
  <1>0. Guarded(c) /\ TypeOK /\ LocalsOKAll
    BY DEF OrphanInv, UpdateInv, LocalsOKAll, Guarded
  <1>1. CASE UNCHANGED vars
    BY <1>0, <1>1
    DEF vars, clusterVars, queueVars, cacheVars, Guarded, Orphan, Deletes, Scheduled,
        Announced
  <1>2. CASE Faults
    <2>1. CASE Crash
      BY <2>1 DEF Crash, ProcessExits, Guarded, Orphan, NoCopy
    <2> QED BY <1>2, <2>1, OthersGuard, WorkersGuard DEF Faults
  <1>3. CASE System
    <2>1. CASE StartInformers \/ StartWorkers
      BY <1>0, <2>1
      DEF StartInformers, StartWorkers, Guarded, Orphan, Deletes, Scheduled, Announced,
          clusterVars, queueVars, cacheVars
    <2>2. ASSUME NEW w \in Workers,
                 WorkerStep(w) \/ \E d \in ClassNames : ProcessNextWorkItem(w, d)
          PROVE  Guarded(c)'
      BY <2>2, WorkersGuard DEF WorkerStep
    <2>3. ASSUME \/ \E d \in ClassNames : \/ DeliverClass(d, FALSE)
                                         \/ DeliverSnapshotClass(d, FALSE)
                                         \/ DeliverCapability(d, FALSE)
                 \/ \E p \in Provisioners : DeliverProvisionerCapability(p, FALSE)
          PROVE  Guarded(c)'
      BY <2>3, OthersGuard
    <2>4. ASSUME \/ \E kind \in Kinds : \E notice \in pending[kind] : Handle(kind, notice)
                 \/ \E d \in ClassNames : ResyncCapability(d) \/ RateLimitExpires(d)
                 \/ \E p \in Provisioners : ResyncProvisionerCapability(p)
          PROVE  Guarded(c)'
      <3>1. SameLocals
        BY <1>0, <2>4, OthersKeepLocals
      <3>2. UNCHANGED <<clusterVars, cacheVars>>
        BY <2>4 DEF Handle, ResyncCapability, ResyncProvisionerCapability, RateLimitExpires
      <3>3. Scheduled(c) => Scheduled(c)'
        BY <1>0, <2>4, HandleSchedule
      <3> QED BY <1>0, <3>1, <3>2, <3>3, OtherOrphan DEF clusterVars, cacheVars
    <2> QED
      BY <1>3, <2>1, <2>2, <2>3, <2>4, OthersGuard DEF System
  <1> QED BY <1>1, <1>2, <1>3, OthersGuard DEF Next

\* The cache of classes is empty before its initial list.
LEMMA NextUnsynced ==
  ASSUME OrphanInv, [Next]_vars, "sc" \notin synced', NEW c \in ClassNames
  PROVE  scCache'[c] = None
  <1>0. "sc" \notin synced => scCache[c] = None
    BY DEF OrphanInv
  <1>1. ASSUME UNCHANGED <<scCache, synced>>
        PROVE  scCache'[c] = None
    BY <1>0, <1>1
  <1>2. CASE Users \/ UNCHANGED vars
    BY <1>1, <1>2 DEF Users, EditCapability, vars, cacheVars
  <1>3. ASSUME NEW d \in ClassNames, NEW t \in BOOLEAN,
               \/ DeliverClass(d, t)
               \/ DeliverSnapshotClass(d, t)
               \/ DeliverCapability(d, t)
        PROVE  scCache'[c] = None
    BY <1>1, <1>3 DEF DeliverClass, DeliverSnapshotClass, DeliverCapability
  <1>4. ASSUME NEW p \in Provisioners, NEW t \in BOOLEAN, DeliverProvisionerCapability(p, t)
        PROVE  scCache'[c] = None
    BY <1>1, <1>4 DEF DeliverProvisionerCapability
  <1>5. ASSUME NEW w \in Workers, NEW reply,
               \/ CreateCapability(w, reply)
               \/ UpdateCapability(w, reply)
               \/ DeleteCapability(w, reply)
        PROVE  scCache'[c] = None
    <2>1. CASE CreateCapability(w, reply) \/ UpdateCapability(w, reply)
      BY <1>1, <2>1 DEF CreateCapability, Created, UpdateCapability, Updated
    <2>2. CASE DeleteCapability(w, reply)
      BY <1>1, <2>2 DEF DeleteCapability, Deleted, ProcessExits, cacheVars
    <2> QED BY <1>5, <2>1, <2>2
  <1>6. CASE Faults
    <2>1. CASE Crash
      BY <2>1 DEF Crash, ProcessExits
    <2> QED BY <1>3, <1>4, <1>5, <1>6, <2>1 DEF Faults
  <1>7. ASSUME NEW w \in Workers, WorkerStep(w)
        PROVE  scCache'[c] = None
    <2>1. CASE GetStorageClass(w) \/ GetProvisionerCapability(w) \/ GetSnapshotClass(w)
                 \/ GetStorageClassCapability(w)
      BY <1>1, <2>1
      DEF GetStorageClass, GetProvisionerCapability, pcapLister, GetSnapshotClass,
          GetStorageClassCapability, sccapLister, cacheVars
    <2>2. CASE DerivePanics(w)
      BY <2>2 DEF DerivePanics, ProcessExits
    <2> QED BY <1>5, <1>7, <2>1, <2>2 DEF WorkerStep
  <1>8. ASSUME NEW kind \in Kinds, InitialList(kind)
        PROVE  scCache'[c] = None
    BY <1>0, <1>8 DEF InitialList
  <1>9. CASE System
    <2>1. CASE StartInformers \/ StartWorkers
      BY <1>1, <2>1 DEF StartInformers, StartWorkers, cacheVars
    <2>2. ASSUME NEW kind \in Kinds, NEW notice \in pending[kind], Handle(kind, notice)
          PROVE  scCache'[c] = None
      BY <1>1, <2>2 DEF Handle, cacheVars
    <2>3. ASSUME NEW d \in ClassNames,
                 \/ ResyncCapability(d)
                 \/ RateLimitExpires(d)
                 \/ \E w \in Workers : ProcessNextWorkItem(w, d)
          PROVE  scCache'[c] = None
      BY <1>1, <2>3 DEF ResyncCapability, RateLimitExpires, ProcessNextWorkItem, cacheVars
    <2>4. ASSUME NEW p \in Provisioners, ResyncProvisionerCapability(p)
          PROVE  scCache'[c] = None
      BY <1>1, <2>4 DEF ResyncProvisionerCapability, cacheVars
    <2>5. ASSUME NEW d \in ClassNames,
                 \/ DeliverClass(d, FALSE)
                 \/ DeliverSnapshotClass(d, FALSE)
                 \/ DeliverCapability(d, FALSE)
          PROVE  scCache'[c] = None
      BY <1>3, <2>5
    <2>6. ASSUME NEW p \in Provisioners, DeliverProvisionerCapability(p, FALSE)
          PROVE  scCache'[c] = None
      BY <1>4, <2>6
    <2> QED BY <1>7, <1>8, <1>9, <2>1, <2>2, <2>3, <2>4, <2>5, <2>6 DEF System
  <1> QED BY <1>2, <1>6, <1>9 DEF Next

\* The invariant behind NoOrphan: the StorageClassCapability of a class that is not
\* cached is always going to be handled, or with a worker that will find the class
\* gone (syncHandler, controller.go:291).
THEOREM OrphanInvHolds ==
  ASSUME ~WatchMayBreak, ~ApiMayFail PROVE Spec => []OrphanInv
  <1>1. Init => OrphanInv
    <2>1. Init => \A c \in ClassNames : scCache[c] = None /\ sccap[c] = None
      BY DEF Init, ClusterInit
    <2> QED
      BY <2>1, InitType, InitLocals DEF OrphanInv, UpdateInv, LocalsOKAll, Orphan
  <1>2. OrphanInv /\ [Next]_vars => OrphanInv'
    <2> SUFFICES ASSUME OrphanInv, [Next]_vars PROVE OrphanInv'
      OBVIOUS
    <2>1. UpdateInv'
      <3>1. TypeOK' /\ LocalsOKAll' /\ KeyExclusive'
        BY NextType, NextLocals DEF OrphanInv, UpdateInv, LocalsOKAll
      <3>2. \A c \in ClassNames : scCache'[c] # None => Attended(c)'
        BY NextAttended DEF OrphanInv
      <3> QED BY <3>1, <3>2 DEF UpdateInv, LocalsOKAll
    <2>2. \A c \in ClassNames : Guarded(c)'
      BY NextGuard
    <2> QED BY <2>1, <2>2, NextUnsynced DEF OrphanInv, Guarded
  <1> QED BY <1>1, <1>2, PTL DEF Spec

\* The StorageClassCapability of a deleted class is never forgotten, however users,
\* crashes, panics and workers interleave, as long as no call to the API server
\* fails and no deletion is first noticed by a new list.
THEOREM NothingIsOrphaned ==
  ASSUME ~WatchMayBreak, ~ApiMayFail PROVE Spec => []NoOrphan
  <1>1. OrphanInv => NoOrphan
    BY DEF OrphanInv, UpdateInv, KeyExclusive, NoOrphan, Settled, CachesCurrent, Orphan,
           Deletes
  <1> QED BY <1>1, OrphanInvHolds, PTL

=============================================================================
