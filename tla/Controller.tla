----------------------------- MODULE Controller -----------------------------
(***************************************************************************)
(* The storage-capability controller: four informers, their event          *)
(* handlers, the work queue, and the workers that run syncHandler.         *)
(*                                                                         *)
(* An informer copies the objects of one kind into its cache and then      *)
(* notifies the handlers from a goroutine of its own, so a cache lags      *)
(* behind the API server and a notification lags behind its cache.  A      *)
(* worker takes a class name from the queue, reads the four caches one     *)
(* after the other, and makes one call to the API server.                  *)
(*                                                                         *)
(* The content of a cached StorageClassCapability is never used: what      *)
(* matters is whether there is one and whether it is the latest version,   *)
(* because an Update with an older resourceVersion is rejected.            *)
(***************************************************************************)
EXTENDS Cluster, WorkQueue

CONSTANTS
  Workers,          \* the goroutines running runWorker
  CapabilityEdits,  \* what users may turn a StorageClassCapability into
  WatchMayBreak,    \* a watch may be lost and a deletion found by a new list
  ApiMayFail        \* a call may fail before or after the server executes it

ASSUME ControllerAssumption ==
  /\ CapabilityEdits \subseteq StorageClassCapabilities \cup {None}
  /\ WatchMayBreak \in BOOLEAN
  /\ ApiMayFail \in BOOLEAN

VARIABLES
  phase,        \* "down", "syncing" (caches are filling) or "running"
  synced,       \* the kinds whose informer has its initial list in the cache
  scCache,      \* what scLister returns
  snapCache,    \* what snapLister returns
  pcapCache,    \* what pcapLister returns
  sccapCache,   \* what sccapLister returns, see Copies
  pending,      \* pending[k]: undelivered notifications of the informer of k
  worker        \* the program counter and the locals of each worker

cacheVars == <<scCache, snapCache, pcapCache, sccapCache>>
vars == <<clusterVars, queueVars, cacheVars, phase, synced, pending, worker>>

Kinds == {"sc", "snap", "pcap", "sccap"}

\* A deletion found by a new list, and not seen by the watch, is announced by
\* a tombstone (DeletedFinalStateUnknown) instead of the object.
Notifications(names) == [name : names, tombstone : BOOLEAN]

NotificationsOf(kind) ==
  Notifications(IF kind = "pcap" THEN Provisioners ELSE ClassNames)

\* What is known of a StorageClassCapability: that there is one or none, and
\* whether nothing was written to the name since.
Copies == [there : BOOLEAN, latest : BOOLEAN]

NoCopy == [there |-> FALSE, latest |-> FALSE]

Idle == [pc |-> "idle", key |-> None, class |-> None, pcap |-> None,
         driver |-> None, held |-> NoCopy]

PCs == {"idle", "getClass", "getPcap", "getSnap", "getSccap",
        "create", "update", "delete"}

WorkerStates ==
  [pc : PCs,
   key : ClassNames \cup {None},
   class : ClassSpecs \cup {None},
   pcap : ProvisionerCapabilities \cup {None},
   driver : SnapDrivers \cup {None},
   held : Copies]

CacheTypeOK ==
  /\ scCache \in [ClassNames -> ClassSpecs \cup {None}]
  /\ snapCache \in [ClassNames -> SnapDrivers \cup {None}]
  /\ pcapCache \in [Provisioners -> Features \cup {None}]
  /\ \A p \in Provisioners : pcapCache[p] \in Published[p] \cup {None}
  /\ sccapCache \in [ClassNames -> Copies]

PendingTypeOK ==
  /\ pending \in [Kinds -> SUBSET Notifications(ClassNames \cup Provisioners)]
  /\ \A kind \in Kinds : pending[kind] \subseteq NotificationsOf(kind)

TypeOK ==
  /\ ClusterTypeOK
  /\ QueueTypeOK(ClassNames)
  /\ CacheTypeOK
  /\ PendingTypeOK
  /\ phase \in {"down", "syncing", "running"}
  /\ synced \subseteq Kinds
  /\ worker \in [Workers -> WorkerStates]

NothingPending == [kind \in Kinds |-> {}]

Init ==
  /\ ClusterInit
  /\ QueueInit
  /\ phase = "down"
  /\ synced = {}
  /\ scCache = [c \in ClassNames |-> None]
  /\ snapCache = [c \in ClassNames |-> None]
  /\ pcapCache = [p \in Provisioners |-> None]
  /\ sccapCache = [c \in ClassNames |-> NoCopy]
  /\ pending = NothingPending
  /\ worker = [w \in Workers |-> Idle]

-----------------------------------------------------------------------------
(* The life of the process.                                                *)

\* main builds the informers and handlers and starts the informers.
StartInformers ==
  /\ phase = "down"
  /\ phase' = "syncing"
  /\ UNCHANGED <<clusterVars, queueVars, cacheVars, synced, pending, worker>>

\* A mistake: the workers do not wait for the caches.
StartWorkersEarly ==
  /\ phase = "syncing"
  /\ phase' = "running"
  /\ UNCHANGED <<clusterVars, queueVars, cacheVars, synced, pending, worker>>

\* Run starts the workers once the initial lists are in the caches; the
\* notifications of those lists may still be pending.
StartWorkers ==
  /\ phase = "syncing"
  /\ synced = Kinds
  /\ phase' = "running"
  /\ UNCHANGED <<clusterVars, queueVars, cacheVars, synced, pending, worker>>

\* The process ends.  All of its state is in memory.
ProcessExits ==
  /\ phase' = "down"
  /\ synced' = {}
  /\ scCache' = [c \in ClassNames |-> None]
  /\ snapCache' = [c \in ClassNames |-> None]
  /\ pcapCache' = [p \in Provisioners |-> None]
  /\ sccapCache' = [c \in ClassNames |-> NoCopy]
  /\ pending' = NothingPending
  /\ QueueReset
  /\ worker' = [w \in Workers |-> Idle]

\* The process is stopped or killed: Run returns as soon as the stop channel
\* is closed, without waiting for the workers, or returns the error of the
\* version check, and main ends in both cases.
Crash ==
  /\ phase # "down"
  /\ ProcessExits
  /\ UNCHANGED clusterVars

-----------------------------------------------------------------------------
(* The informers.                                                          *)

Notice(name, tombstone) == [name |-> name, tombstone |-> tombstone]

Notify(kind, notices) ==
  pending' = [pending EXCEPT ![kind] = @ \cup notices]

\* A user edits, deletes or creates the StorageClassCapability of class c:
\* every copy of the old version is outdated.
Outdated(copy) == [copy EXCEPT !.latest = FALSE]

LatestCopy(c) == [there |-> sccap[c] # None, latest |-> TRUE]

EditCapability(c, new) ==
  /\ new # sccap[c]
  /\ sccap' = [sccap EXCEPT ![c] = new]
  /\ sccapCache' = [sccapCache EXCEPT ![c] = Outdated(@)]
  /\ worker' = [w \in Workers |->
                  IF worker[w].key = c
                    THEN [worker[w] EXCEPT !.held = Outdated(@)]
                    ELSE worker[w]]
  /\ UNCHANGED <<sc, snap, pcap, queueVars, scCache, snapCache, pcapCache,
                 phase, synced, pending>>

\* The Add notifications of all objects of a kind.
Announcements(objects) ==
  {Notice(x, FALSE) : x \in {y \in DOMAIN objects : objects[y] # None}}

\* The initial list of a kind: the objects it finds enter the cache and an
\* Add notification of each is queued for the handlers.
InitialList(kind) ==
  /\ phase = "syncing"
  /\ kind \notin synced
  /\ synced' = synced \cup {kind}
  /\ \/ /\ kind = "sc"
        /\ scCache' = sc
        /\ Notify(kind, Announcements(sc))
        /\ UNCHANGED <<snapCache, pcapCache, sccapCache>>
     \/ /\ kind = "snap"
        /\ snapCache' = snap
        /\ Notify(kind, Announcements(snap))
        /\ UNCHANGED <<scCache, pcapCache, sccapCache>>
     \/ /\ kind = "pcap"
        /\ pcapCache' = pcap
        /\ Notify(kind, Announcements(pcap))
        /\ UNCHANGED <<scCache, snapCache, sccapCache>>
     \/ /\ kind = "sccap"
        /\ sccapCache' = [c \in ClassNames |-> LatestCopy(c)]
        /\ Notify(kind, Announcements(sccap))
        /\ UNCHANGED <<scCache, snapCache, pcapCache>>
  /\ UNCHANGED <<clusterVars, queueVars, phase, worker>>

\* An informer catches up with one object.  A deletion it missed because the
\* watch broke is announced by a tombstone.
DeliverClass(c, tombstone) ==
  /\ "sc" \in synced
  /\ scCache[c] # sc[c]
  /\ tombstone => WatchMayBreak /\ sc[c] = None
  /\ scCache' = [scCache EXCEPT ![c] = sc[c]]
  /\ Notify("sc", {Notice(c, tombstone)})
  /\ UNCHANGED <<clusterVars, queueVars, snapCache, pcapCache, sccapCache,
                 phase, synced, worker>>

DeliverSnapshotClass(c, tombstone) ==
  /\ "snap" \in synced
  /\ snapCache[c] # snap[c]
  /\ tombstone => WatchMayBreak /\ snap[c] = None
  /\ snapCache' = [snapCache EXCEPT ![c] = snap[c]]
  /\ Notify("snap", {Notice(c, tombstone)})
  /\ UNCHANGED <<clusterVars, queueVars, scCache, pcapCache, sccapCache,
                 phase, synced, worker>>

DeliverProvisionerCapability(p, tombstone) ==
  /\ "pcap" \in synced
  /\ pcapCache[p] # pcap[p]
  /\ tombstone => WatchMayBreak /\ pcap[p] = None
  /\ pcapCache' = [pcapCache EXCEPT ![p] = pcap[p]]
  /\ Notify("pcap", {Notice(p, tombstone)})
  /\ UNCHANGED <<clusterVars, queueVars, scCache, snapCache, sccapCache,
                 phase, synced, worker>>

\* An object that came and went while the watch was broken is not announced.
DeliverCapability(c, tombstone) ==
  /\ "sccap" \in synced
  /\ ~sccapCache[c].latest
  /\ tombstone => WatchMayBreak /\ sccap[c] = None
  /\ sccapCache' = [sccapCache EXCEPT ![c] = LatestCopy(c)]
  /\ Notify("sccap", {n \in {Notice(c, tombstone)} :
                         n.tombstone => sccapCache[c].there})
  /\ UNCHANGED <<clusterVars, queueVars, scCache, snapCache, pcapCache,
                 phase, synced, worker>>

\* The periodic resync (30 s) sends an update notification for every cached
\* object.  Those of classes and snapshot classes are dropped by the handler,
\* which finds the resourceVersion unchanged, and are not modelled.
ResyncProvisionerCapability(p) ==
  /\ "pcap" \in synced
  /\ pcapCache[p] # None
  /\ Notice(p, FALSE) \notin pending["pcap"]
  /\ Notify("pcap", {Notice(p, FALSE)})
  /\ UNCHANGED <<clusterVars, queueVars, cacheVars, phase, synced, worker>>

\* A mistake: the handler drops the unchanged versions of the resync here too.
ResyncCapabilityDropped(c) == sccapCache[c].there /\ UNCHANGED vars

ResyncCapability(c) ==
  /\ "sccap" \in synced
  /\ sccapCache[c].there
  /\ Notice(c, FALSE) \notin pending["sccap"]
  /\ Notify("sccap", {Notice(c, FALSE)})
  /\ UNCHANGED <<clusterVars, queueVars, cacheVars, phase, synced, worker>>

-----------------------------------------------------------------------------
(* The event handlers.                                                     *)

\* MetaNamespaceKeyFunc fails on a tombstone, and the handler gives up.
enqueueSccap(notice) ==
  IF notice.tombstone THEN UNCHANGED queueVars ELSE Add({notice.name})

\* A mistake: the name of the driver is enqueued, not those of its classes.
enqueuePcapKey(notice) == enqueueSccap(notice)

\* A mistake: only one class of the driver is enqueued.
enqueuePcapOnce(notice) ==
  LET classes == {c \in ClassNames : /\ scCache[c] # None
                                     /\ scCache[c].provisioner = notice.name}
  IN IF notice.tombstone \/ classes = {}
       THEN UNCHANGED queueVars
       ELSE Add({CHOOSE c \in classes : TRUE})

\* The classes of the changed driver that are in the cache at this moment.
enqueuePcap(notice) ==
  IF notice.tombstone
    THEN UNCHANGED queueVars
    ELSE Add({c \in ClassNames : /\ scCache[c] # None
                                 /\ scCache[c].provisioner = notice.name})

\* A mistake: a class that is not in the cache any more is not enqueued.
handleScObjectIfCached(notice) ==
  IF scCache[notice.name] = None THEN UNCHANGED queueVars ELSE enqueueSccap(notice)

\* The handler of classes and snapshot classes recovers the deleted object
\* from a tombstone, and then passes the tombstone on instead of the object.
handleScObject(notice) == enqueueSccap(notice)

Handle(kind, notice) ==
  /\ notice \in pending[kind]
  /\ pending' = [pending EXCEPT ![kind] = @ \ {notice}]
  /\ \/ kind \in {"sc", "snap"} /\ handleScObject(notice)
     \/ kind = "pcap" /\ enqueuePcap(notice)
     \/ kind = "sccap" /\ enqueueSccap(notice)
  /\ UNCHANGED <<clusterVars, cacheVars, phase, synced, worker>>

RateLimitExpires(c) ==
  /\ DelayExpires(c)
  /\ UNCHANGED <<clusterVars, cacheVars, phase, synced, pending, worker>>

-----------------------------------------------------------------------------
(* The workers: processNextWorkItem and syncHandler.                       *)

\* Worker w goes on with other locals.
Becomes(w, state) == worker' = [worker EXCEPT ![w] = state]

ProcessNextWorkItem(w, c) ==
  /\ phase = "running"
  /\ worker[w].pc = "idle"
  /\ Get(c)
  /\ Becomes(w, [worker[w] EXCEPT !.pc = "getClass", !.key = c])
  /\ UNCHANGED <<clusterVars, cacheVars, phase, synced, pending>>

\* syncHandler returns nil: the key is forgotten.
Succeed(w) ==
  /\ ForgetAndDone(worker[w].key)
  /\ Becomes(w, Idle)

\* syncHandler returns an error: the key is added again after a delay.
Retry(w) ==
  /\ RetryAndDone(worker[w].key)
  /\ Becomes(w, Idle)

GetStorageClass(w) ==
  LET class == scCache[worker[w].key] IN
  /\ worker[w].pc = "getClass"
  /\ Becomes(w, [worker[w] EXCEPT !.class = class,
                                  !.pc = IF class = None THEN "delete" ELSE "getPcap"])
  /\ UNCHANGED <<clusterVars, queueVars, cacheVars, phase, synced, pending>>

\* Get of the listers the generated clients have: the object in the cache, and
\* NotFound without one.
pcapLister(p) == pcapCache[p]

sccapLister(c) == sccapCache[c]

\* A mistake: the class is looked up again for its provisioner.
ProvisionerReadAgain(w) ==
  IF scCache[worker[w].key] = None
    THEN worker[w].class.provisioner
    ELSE scCache[worker[w].key].provisioner

\* The driver whose ProvisionerCapability is looked up: that of the class read.
Provisioner(w) == worker[w].class.provisioner

\* Without a ProvisionerCapability there is nothing to do, and an existing
\* StorageClassCapability stays as it is.
GetProvisionerCapability(w) ==
  LET p == Provisioner(w) IN
  /\ worker[w].pc = "getPcap"
  /\ \/ /\ pcapLister(p) = None
        /\ Succeed(w)
     \/ /\ pcapLister(p) # None
        /\ Becomes(w, [worker[w] EXCEPT !.pcap = [name |-> p, features |-> pcapLister(p)],
                                        !.pc = "getSnap"])
        /\ UNCHANGED queueVars
  /\ UNCHANGED <<clusterVars, cacheVars, phase, synced, pending>>

GetSnapshotClass(w) ==
  /\ worker[w].pc = "getSnap"
  /\ Becomes(w, [worker[w] EXCEPT !.driver = snapCache[worker[w].key],
                                  !.pc = "getSccap"])
  /\ UNCHANGED <<clusterVars, queueVars, cacheVars, phase, synced, pending>>

GetStorageClassCapability(w) ==
  LET copy == sccapLister(worker[w].key) IN
  /\ worker[w].pc = "getSccap"
  /\ Becomes(w, [worker[w] EXCEPT !.held = copy,
                                  !.pc = IF copy.there THEN "update" ELSE "create"])
  /\ UNCHANGED <<clusterVars, queueVars, cacheVars, phase, synced, pending>>

\* The calls.  A call is answered "ok" or "rejected" by the server, or it is
\* "lost": it fails, and the server may or may not have executed it.  The requests
\* of the generated client, executed: Post of an object that is not there, Put of
\* one that is held in its latest version, and Delete by name.

Created(c, spec) ==
  /\ sccap[c] = None
  /\ sccap' = [sccap EXCEPT ![c] = spec]
  /\ sccapCache' = [sccapCache EXCEPT ![c] = Outdated(@)]

\* An Update that changes nothing does not give the object a new version.
Updated(c, held, spec) ==
  /\ held.latest
  /\ sccap' = [sccap EXCEPT ![c] = spec]
  /\ sccapCache' = IF spec = sccap[c]
                     THEN sccapCache
                     ELSE [sccapCache EXCEPT ![c] = Outdated(@)]

Deleted(c) == sccap[c] # None /\ sccap' = [sccap EXCEPT ![c] = None]

CreateCapability(w, reply) ==
  LET c == worker[w].key
      created == Created(c, newSccap(worker[w].class, worker[w].driver, worker[w].pcap))
      notCreated == UNCHANGED <<sccap, sccapCache>>
  IN
  /\ worker[w].pc = "create"
  /\ ~DereferencesNil(worker[w].class)
  /\ \/ reply = "ok" /\ created /\ Succeed(w)
     \/ reply = "rejected" /\ sccap[c] # None /\ notCreated /\ Retry(w)
     \/ reply = "lost" /\ ApiMayFail /\ (created \/ notCreated) /\ Retry(w)
  /\ UNCHANGED <<sc, snap, pcap, scCache, snapCache, pcapCache,
                 phase, synced, pending>>

UpdateCapability(w, reply) ==
  LET c == worker[w].key
      updated == Updated(c, worker[w].held,
                   updateSccap(worker[w].class, worker[w].driver, worker[w].pcap))
      notUpdated == UNCHANGED <<sccap, sccapCache>>
  IN
  /\ worker[w].pc = "update"
  /\ ~DereferencesNil(worker[w].class)
  /\ \/ reply = "ok" /\ updated /\ Succeed(w)
     \/ reply = "rejected" /\ ~worker[w].held.latest /\ notUpdated /\ Retry(w)
     \/ reply = "lost" /\ ApiMayFail /\ (updated \/ notUpdated) /\ Retry(w)
  /\ UNCHANGED <<sc, snap, pcap, scCache, snapCache, pcapCache,
                 phase, synced, pending>>

\* Deriving the spec for a class without AllowVolumeExpansion panics, and the
\* panic of a worker ends the process.
DerivePanics(w) ==
  /\ worker[w].pc \in {"create", "update"}
  /\ DereferencesNil(worker[w].class)
  /\ ProcessExits
  /\ UNCHANGED clusterVars

\* The class is gone.  The error of Delete is only logged; when there is none
\* the log statement calls Error() on a nil error, which panics.
DeleteCapability(w, reply) ==
  LET c == worker[w].key IN
  /\ worker[w].pc = "delete"
  /\ \/ reply = "ok" /\ Deleted(c) /\ ProcessExits
     \/ /\ reply = "rejected"
        /\ sccap[c] = None
        /\ Succeed(w)
        /\ UNCHANGED <<sccap, cacheVars, phase, synced, pending>>
     \/ /\ reply = "lost"
        /\ ApiMayFail
        /\ \/ Deleted(c) /\ sccapCache' = [sccapCache EXCEPT ![c] = Outdated(@)]
           \/ UNCHANGED <<sccap, sccapCache>>
        /\ Succeed(w)
        /\ UNCHANGED <<scCache, snapCache, pcapCache, phase, synced, pending>>
  /\ UNCHANGED <<sc, snap, pcap>>

-----------------------------------------------------------------------------

\* What users and sidecars do to the objects.
Users ==
  \/ /\ \/ \E c \in ClassNames, new \in ClassSpecs \cup {None} :
             SetStorageClass(c, new)
        \/ \E c \in ClassNames, new \in SnapDrivers \cup {None} :
             SetSnapshotClass(c, new)
        \/ \E p \in Provisioners : \E new \in Published[p] \cup {None} :
             SetProvisionerCapability(p, new)
     /\ UNCHANGED <<queueVars, cacheVars, phase, synced, pending, worker>>
  \/ \E c \in ClassNames, new \in CapabilityEdits : EditCapability(c, new)

\* What may go wrong around the controller.
Faults ==
  \/ Crash
  \/ \E w \in Workers :
       \/ CreateCapability(w, "lost")
       \/ UpdateCapability(w, "lost")
       \/ DeleteCapability(w, "lost")
  \/ \E c \in ClassNames :
       \/ DeliverClass(c, TRUE)
       \/ DeliverSnapshotClass(c, TRUE)
       \/ DeliverCapability(c, TRUE)
  \/ \E p \in Provisioners : DeliverProvisionerCapability(p, TRUE)

WorkerStep(w) ==
  \/ GetStorageClass(w)
  \/ GetProvisionerCapability(w)
  \/ GetSnapshotClass(w)
  \/ GetStorageClassCapability(w)
  \/ DerivePanics(w)
  \/ \E reply \in {"ok", "rejected"} :
       \/ CreateCapability(w, reply)
       \/ UpdateCapability(w, reply)
       \/ DeleteCapability(w, reply)

System ==
  \/ StartInformers
  \/ StartWorkers
  \/ \E kind \in Kinds : InitialList(kind)
  \/ \E kind \in Kinds : \E notice \in pending[kind] : Handle(kind, notice)
  \/ \E c \in ClassNames :
       \/ DeliverClass(c, FALSE)
       \/ DeliverSnapshotClass(c, FALSE)
       \/ DeliverCapability(c, FALSE)
       \/ ResyncCapability(c)
       \/ RateLimitExpires(c)
       \/ \E w \in Workers : ProcessNextWorkItem(w, c)
  \/ \E p \in Provisioners :
       \/ DeliverProvisionerCapability(p, FALSE)
       \/ ResyncProvisionerCapability(p)
  \/ \E w \in Workers : WorkerStep(w)

Next == Users \/ Faults \/ System

Spec == Init /\ [][Next]_vars

=============================================================================
