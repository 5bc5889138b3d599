---------------------- MODULE ControllerHistoryProofs ----------------------
(***************************************************************************)
(* No existing class is ever taken for a deleted one: the theorem about    *)
(* the controller with the history of absent classes, for any classes,     *)
(* drivers and workers, and with every fault.                              *)
(***************************************************************************)
EXTENDS ControllerHistory, ControllerProofs

\* What is in the caches is enough to know every class that was never absent.
Known(c) == "sc" \in synced /\ c \notin gone => scCache[c] # None

\* The invariant behind ExistingClassKept.
HistoryInv ==
  /\ TypeOK
  /\ LocalsOKAll
  /\ KeyExclusive
  /\ Absent \subseteq gone
  /\ phase = "running" => "sc" \in synced
  /\ \A c \in ClassNames : Known(c)
  /\ ExistingClassKept

-----------------------------------------------------------------------------
(* What a step may do to the cache of classes and to the workers.          *)

\* The cache of classes and the set of synced kinds stay the same.
SameClasses == UNCHANGED <<scCache, synced>>

\* The informer of classes takes over objects that exist in the cluster.
ClassesCopied ==
  /\ "sc" \in synced'
  /\ \A c \in ClassNames :
       \/ scCache'[c] = sc[c]
       \/ "sc" \in synced /\ scCache'[c] = scCache[c]

\* Another informer has its initial list.
OtherSynced ==
  /\ scCache' = scCache
  /\ "sc" \in synced' <=> "sc" \in synced

\* The workers only start when all caches are filled.
PhaseStep == phase' = "running" => phase = "running" \/ (synced = Kinds /\ SameClasses)

\* The cache of classes is emptied, filled, or kept (Run, client-go's informers).
LEMMA CacheStep ==
  ASSUME TypeOK, [Next]_vars
  PROVE  /\ ProcessExits \/ SameClasses \/ ClassesCopied \/ OtherSynced
         /\ PhaseStep \/ ProcessExits
  <1>1. CASE Users \/ UNCHANGED vars
    BY <1>1 DEF Users, EditCapability, vars, cacheVars, SameClasses, PhaseStep
  <1>2. ASSUME NEW d \in ClassNames, NEW t \in BOOLEAN, DeliverClass(d, t)
        PROVE  ClassesCopied /\ PhaseStep
    BY <1>2 DEF DeliverClass, TypeOK, CacheTypeOK, ClassesCopied, PhaseStep
  <1>3. ASSUME NEW d \in ClassNames, NEW t \in BOOLEAN,
               DeliverSnapshotClass(d, t) \/ DeliverCapability(d, t)
        PROVE  SameClasses /\ PhaseStep
    BY <1>3 DEF DeliverSnapshotClass, DeliverCapability, SameClasses, PhaseStep
  <1>4. ASSUME NEW p \in Provisioners, NEW t \in BOOLEAN, DeliverProvisionerCapability(p, t)
        PROVE  SameClasses /\ PhaseStep
    BY <1>4 DEF DeliverProvisionerCapability, SameClasses, PhaseStep
  <1>5. ASSUME NEW w \in Workers, NEW reply,
               \/ CreateCapability(w, reply)
               \/ UpdateCapability(w, reply)
               \/ DeleteCapability(w, reply)
               \/ DerivePanics(w)
        PROVE  ProcessExits \/ (SameClasses /\ PhaseStep)
    <2>1. CASE CreateCapability(w, reply) \/ UpdateCapability(w, reply)
      BY <2>1 DEF CreateCapability, Created, UpdateCapability, Updated, SameClasses,
                  PhaseStep
    <2>2. CASE DeleteCapability(w, reply)
      BY <2>2 DEF DeleteCapability, Deleted, cacheVars, SameClasses, PhaseStep
    <2>3. CASE DerivePanics(w)
      BY <2>3 DEF DerivePanics
    <2> QED BY <1>5, <2>1, <2>2, <2>3
  <1>6. CASE Faults
    BY <1>2, <1>3, <1>4, <1>5, <1>6 DEF Faults, Crash
  <1>7. ASSUME NEW w \in Workers, WorkerStep(w)
        PROVE  ProcessExits \/ (SameClasses /\ PhaseStep)
    <2>1. CASE GetStorageClass(w) \/ GetProvisionerCapability(w) \/ GetSnapshotClass(w)
                 \/ GetStorageClassCapability(w)
      BY <2>1
      DEF GetStorageClass, GetProvisionerCapability, pcapLister, GetSnapshotClass,
          GetStorageClassCapability, sccapLister, cacheVars, SameClasses, PhaseStep
    <2> QED BY <1>5, <1>7, <2>1 DEF WorkerStep
  <1>8. ASSUME NEW kind \in Kinds, InitialList(kind)
        PROVE  (ClassesCopied \/ OtherSynced) /\ PhaseStep
    <2>1. CASE kind = "sc"
      BY <1>8, <2>1 DEF InitialList, ClassesCopied, PhaseStep
    <2>2. CASE kind # "sc"
      BY <1>8, <2>2 DEF InitialList, OtherSynced, PhaseStep
    <2> QED BY <2>1, <2>2
  <1>9. CASE System
    <2>1. CASE StartInformers \/ StartWorkers
      BY <2>1 DEF StartInformers, StartWorkers, cacheVars, SameClasses, PhaseStep
    <2>2. ASSUME NEW kind \in Kinds, NEW notice \in pending[kind], Handle(kind, notice)
          PROVE  SameClasses /\ PhaseStep
      BY <2>2 DEF Handle, cacheVars, SameClasses, PhaseStep
    <2>3. ASSUME NEW d \in ClassNames,
                 \/ ResyncCapability(d)
                 \/ RateLimitExpires(d)
                 \/ \E w \in Workers : ProcessNextWorkItem(w, d)
          PROVE  SameClasses /\ PhaseStep
      BY <2>3 DEF ResyncCapability, RateLimitExpires, ProcessNextWorkItem, cacheVars,
                  SameClasses, PhaseStep
    <2>4. ASSUME NEW p \in Provisioners, ResyncProvisionerCapability(p)
          PROVE  SameClasses /\ PhaseStep
      BY <2>4 DEF ResyncProvisionerCapability, cacheVars, SameClasses, PhaseStep
    <2>5. ASSUME NEW d \in ClassNames,
                 \/ DeliverClass(d, FALSE)
                 \/ DeliverSnapshotClass(d, FALSE)
                 \/ DeliverCapability(d, FALSE)
          PROVE  (ClassesCopied \/ SameClasses) /\ PhaseStep
      BY <1>2, <1>3, <2>5
    <2>6. ASSUME NEW p \in Provisioners, DeliverProvisionerCapability(p, FALSE)
          PROVE  SameClasses /\ PhaseStep
      BY <1>4, <2>6
    <2> QED BY <1>7, <1>8, <1>9, <2>1, <2>2, <2>3, <2>4, <2>5, <2>6 DEF System
  <1> QED BY <1>1, <1>6, <1>9 DEF Next

\* Worker v has just found its class missing in the cache.
FindsMissing(v) ==
  /\ phase = "running"
  /\ scCache[worker[v].key] = None
  /\ worker'[v].key = worker[v].key

\* A worker deletes only after it found the class missing (syncHandler).
LEMMA DeleteStep ==
  ASSUME TypeOK, LocalsOKAll, [Next]_vars, NEW v \in Workers, worker'[v].pc = "delete"
  PROVE  \/ worker[v].pc = "delete" /\ worker'[v].key = worker[v].key
         \/ FindsMissing(v)
  <1> DEFINE Goal == \/ worker[v].pc = "delete" /\ worker'[v].key = worker[v].key
                     \/ FindsMissing(v)
  <1>1. SameLocals => Goal
    BY DEF SameLocals
  <1>2. ~ProcessExits
    BY DEF ProcessExits, Idle
  <1>3. ASSUME NEW w \in Workers, NEW state,
               worker' = [worker EXCEPT ![w] = state], state.pc # "delete"
        PROVE  Goal
    BY <1>3 DEF TypeOK
  <1>4. ASSUME NEW w \in Workers, Succeed(w) \/ Retry(w)
        PROVE  Goal
    <2>1. worker' = [worker EXCEPT ![w] = Idle]
      BY <1>4 DEF Succeed, Retry, Becomes
    <2> QED BY <1>3, <2>1 DEF Idle
  <1>5. ASSUME NEW w \in Workers, NEW reply,
               \/ CreateCapability(w, reply)
               \/ UpdateCapability(w, reply)
               \/ DeleteCapability(w, reply)
               \/ DerivePanics(w)
        PROVE  Goal
    <2>1. ProcessExits \/ Succeed(w) \/ Retry(w)
      BY <1>5 DEF CreateCapability, Created, UpdateCapability, Updated,
                  DeleteCapability, Deleted, DerivePanics
    <2> QED BY <1>2, <1>4, <2>1
  <1>6. ASSUME NEW w \in Workers, NEW c \in ClassNames, ProcessNextWorkItem(w, c)
        PROVE  Goal
    <2>1. worker'[w].pc = "getClass" /\ \A u \in Workers : u # w => worker'[u] = worker[u]
      BY <1>6 DEF ProcessNextWorkItem, Becomes, TypeOK, WorkerStates
    <2> QED BY <2>1
  <1>7. ASSUME NEW w \in Workers, GetStorageClass(w)
        PROVE  Goal
    <2>1. phase = "running"
      BY <1>7 DEF GetStorageClass, LocalsOKAll, LocalsOK
    <2>2. /\ worker'[w].key = worker[w].key
          /\ worker'[w].pc = "delete" => scCache[worker[w].key] = None
          /\ \A u \in Workers : u # w => worker'[u] = worker[u]
      BY <1>7 DEF GetStorageClass, Becomes, TypeOK, WorkerStates
    <2> QED BY <2>1, <2>2 DEF FindsMissing
  <1>8. ASSUME NEW w \in Workers,
               \/ GetProvisionerCapability(w) /\ ~Succeed(w)
               \/ GetSnapshotClass(w)
               \/ GetStorageClassCapability(w)
        PROVE  Goal
    <2> USE DEF Becomes, TypeOK, WorkerStates
    <2>1. CASE GetProvisionerCapability(w) /\ ~Succeed(w)
      <3>1. PICK p, features : worker' = [worker EXCEPT ![w] =
                [worker[w] EXCEPT !.pcap = [name |-> p, features |-> features], !.pc = "getSnap"]]
        BY <2>1 DEF GetProvisionerCapability, pcapLister
      <3> QED BY <1>3, <3>1
    <2>2. CASE GetSnapshotClass(w)
      BY <1>3, <2>2 DEF GetSnapshotClass
    <2>3. CASE GetStorageClassCapability(w)
      BY <1>3, <2>3 DEF GetStorageClassCapability, sccapLister
    <2> QED BY <1>8, <2>1, <2>2, <2>3
  <1>9. ASSUME NEW w \in Workers, WorkerStep(w)
        PROVE  Goal
    BY <1>4, <1>5, <1>7, <1>8, <1>9 DEF WorkerStep
  <1>10. CASE Users \/ UNCHANGED vars
    BY <1>1, <1>10, OthersKeepLocals
  <1>11. CASE Faults
    <2>1. \/ SameLocals
          \/ Crash
          \/ \E w \in Workers : \/ CreateCapability(w, "lost")
                               \/ UpdateCapability(w, "lost")
                               \/ DeleteCapability(w, "lost")
      BY <1>11, OthersKeepLocals DEF Faults
    <2> QED BY <1>1, <1>2, <1>5, <2>1 DEF Crash
  <1>12. CASE System
    <2>1. \/ SameLocals
          \/ \E w \in Workers : \/ WorkerStep(w)
                               \/ \E c \in ClassNames : ProcessNextWorkItem(w, c)
      BY <1>12, OthersKeepLocals DEF System
    <2> QED BY <1>1, <1>6, <1>9, <2>1
  <1> QED BY <1>10, <1>11, <1>12 DEF Next

-----------------------------------------------------------------------------
(* The invariant is inductive.                                             *)

\* The history only grows, and knows every absent class.
LEMMA HistoryGrows ==
  ASSUME HistoryInv, [HistoryNext]_historyVars
  PROVE  [Next]_vars /\ gone \subseteq gone' /\ Absent' \subseteq gone'
  <1>1. CASE HistoryNext
    BY <1>1 DEF HistoryNext
  <1>2. CASE UNCHANGED historyVars
    BY <1>2 DEF historyVars, HistoryInv, Absent, vars, clusterVars
  <1> QED BY <1>1, <1>2

\* Every class that was never absent stays known.
LEMMA KnownStep ==
  ASSUME HistoryInv, [HistoryNext]_historyVars, NEW c \in ClassNames
  PROVE  Known(c)'
  <1> SUFFICES ASSUME "sc" \in synced', c \notin gone'
               PROVE  scCache'[c] # None
    BY DEF Known
  <1>1. c \notin gone /\ sc[c] # None
    BY HistoryGrows DEF HistoryInv, Absent
  <1>2. "sc" \in synced => scCache[c] # None
    BY <1>1 DEF HistoryInv, Known
  <1>3. ~ProcessExits
    BY DEF ProcessExits
  <1>4. SameClasses \/ ClassesCopied \/ OtherSynced
    BY <1>3, HistoryGrows, CacheStep DEF HistoryInv
  <1> QED BY <1>1, <1>2, <1>4 DEF SameClasses, ClassesCopied, OtherSynced

\* Workers only run with a cache of classes that was filled.
LEMMA SyncedStep ==
  ASSUME HistoryInv, [HistoryNext]_historyVars, phase' = "running"
  PROVE  "sc" \in synced'
  <1>1. ~ProcessExits
    BY DEF ProcessExits
  <1>2. /\ SameClasses \/ ClassesCopied \/ OtherSynced
        /\ PhaseStep
    BY <1>1, HistoryGrows, CacheStep DEF HistoryInv
  <1> QED
    BY <1>2 DEF HistoryInv, SameClasses, ClassesCopied, OtherSynced, PhaseStep, Kinds

\* A worker that begins to delete found a class missing that was absent once.
LEMMA KeptStep ==
  ASSUME HistoryInv, [HistoryNext]_historyVars
  PROVE  ExistingClassKept'
  <1> SUFFICES ASSUME NEW v \in Workers, worker'[v].pc = "delete"
               PROVE  worker'[v].key \in gone'
    BY DEF ExistingClassKept
  <1>1. CASE worker[v].pc = "delete" /\ worker'[v].key = worker[v].key
    BY <1>1, HistoryGrows DEF HistoryInv, ExistingClassKept
  <1>2. CASE FindsMissing(v)
    <2>1. worker'[v].key \in ClassNames
      <3>1. TypeOK' /\ LocalsOKAll'
        BY HistoryGrows, NextType, NextLocals DEF HistoryInv
      <3> QED BY <3>1 DEF TypeOK, WorkerStates, LocalsOKAll, LocalsOK
    <2> QED BY <1>2, <2>1, HistoryGrows DEF HistoryInv, Known, FindsMissing
  <1> QED BY <1>1, <1>2, HistoryGrows, DeleteStep DEF HistoryInv

\* No worker takes a class that has existed all along for a deleted one and
\* deletes its StorageClassCapability (syncHandler, controller.go:291), with any
\* number of workers and starts, broken watches, failing calls and panics.
THEOREM ExistingClassIsKept == HistorySpec => []ExistingClassKept
  <1>1. HistoryInit => HistoryInv
    <2> SUFFICES ASSUME HistoryInit PROVE HistoryInv
      OBVIOUS
    <2>1. TypeOK /\ LocalsOKAll /\ KeyExclusive
      BY InitType, InitLocals DEF HistoryInit
    <2> QED BY <2>1 DEF HistoryInit, HistoryInv, Init, Known, ExistingClassKept, Idle
  <1>2. HistoryInv /\ [HistoryNext]_historyVars => HistoryInv'
    <2> SUFFICES ASSUME HistoryInv, [HistoryNext]_historyVars PROVE HistoryInv'
      OBVIOUS
    <2>1. TypeOK' /\ LocalsOKAll' /\ KeyExclusive'
      BY HistoryGrows, NextType, NextLocals DEF HistoryInv
    <2> QED
      BY <2>1, HistoryGrows, KnownStep, SyncedStep, KeptStep DEF HistoryInv
  <1>3. HistoryInv => ExistingClassKept
    BY DEF HistoryInv
  <1> QED BY <1>1, <1>2, <1>3, PTL DEF HistorySpec

=============================================================================
