------------------------ MODULE ControllerProperties ------------------------
(***************************************************************************)
(* What the controller promises, and the fairness it needs for it.         *)
(***************************************************************************)
EXTENDS Controller

-----------------------------------------------------------------------------
(* Safety.                                                                 *)

\* A class name is handled by one worker at a time: without that, two
\* syncHandlers would overwrite each other's StorageClassCapability.
KeyExclusive ==
  /\ \A w \in Workers : worker[w].pc # "idle" => worker[w].key \in processing
  /\ \A w1, w2 \in Workers :
       worker[w1].key = worker[w2].key /\ worker[w1].pc # "idle" /\ worker[w2].pc # "idle"
         => w1 = w2

\* The cached objects syncHandler would read for class c.
CachedDerivable(c) ==
  /\ scCache[c] # None
  /\ pcapCache[scCache[c].provisioner] # None

CachedDesired(c) ==
  newSccap(scCache[c], snapCache[c],
           [name |-> scCache[c].provisioner,
            features |-> pcapCache[scCache[c].provisioner]])

\* The caches hold the latest version of everything class c depends on.
CachesCurrent(c) ==
  /\ scCache[c] = sc[c]
  /\ snapCache[c] = snap[c]
  /\ sc[c] # None => pcapCache[sc[c].provisioner] = pcap[sc[c].provisioner]
  /\ sccapCache[c].latest

\* A notification is under way that makes its handler enqueue class c.
Announced(c) ==
  \/ \E kind \in {"sc", "snap", "sccap"} : Notice(c, FALSE) \in pending[kind]
  \/ /\ scCache[c] # None
     /\ Notice(scCache[c].provisioner, FALSE) \in pending["pcap"]

\* Class c will be handled (again).
Scheduled(c) == c \in dirty \cup delayed \/ Announced(c)

\* Nothing is under way for class c, neither in an informer, in the queue nor in
\* a worker, and it is only looked at again when something changes, or by the
\* resync.
Settled(c) ==
  /\ phase = "running"
  /\ CachesCurrent(c)
  /\ ~Scheduled(c)
  /\ c \notin processing

\* No change is lost between the watch, the caches, the queue and the workers:
\* when all is quiet, the StorageClassCapability of a class says what the class,
\* its snapshot class and its ProvisionerCapability say, without the help of the
\* resync.
NoLostUpdate ==
  \A c \in ClassNames :
    Settled(c) /\ Derivable(c) => sccap[c] = Desired(c)

\* When all is quiet, no StorageClassCapability is left of a deleted class.
NoOrphan ==
  \A c \in ClassNames : Settled(c) /\ sc[c] = None => sccap[c] = None

\* A StorageClassCapability names the provisioner its class has, or its class is
\* gone, once all is quiet ("to the newest status").
NewestStatus ==
  \A c \in ClassNames :
    Settled(c) /\ sc[c] # None /\ sccap[c] # None
      => sccap[c].provisioner = sc[c].provisioner

\* A StorageClassCapability never combines two drivers: what it says was
\* published for the driver it names, even when the class is deleted and created
\* again for another driver while a worker is between two reads.  (Nothing is
\* claimed of what users write, see CapabilityEdits.)
OneDriver ==
  \A c \in ClassNames : sccap[c] # None =>
    \E f \in Published[sccap[c].provisioner] :
      /\ sccap[c].base = f.base
      /\ sccap[c].expand \in {f.expand, "UNKNOWN"}
      /\ sccap[c].snapshot \in {f.snapshot, NoSnapshot}

-----------------------------------------------------------------------------
(* Fairness: goroutines are scheduled, informers keep up with the API      *)
(* server, delays end, and a process that ended is restarted.              *)

Fairness ==
  /\ WF_vars(StartInformers)
  /\ WF_vars(StartWorkers)
  /\ \A kind \in Kinds : WF_vars(InitialList(kind))
  /\ \A c \in ClassNames :
       /\ WF_vars(DeliverClass(c, FALSE))
       /\ WF_vars(DeliverSnapshotClass(c, FALSE))
       /\ WF_vars(DeliverCapability(c, FALSE))
       /\ WF_vars(ResyncCapability(c))
       /\ WF_vars(RateLimitExpires(c))
       /\ SF_vars(\E w \in Workers : ProcessNextWorkItem(w, c))
       /\ \A kind \in {"sc", "snap", "sccap"}, t \in BOOLEAN :
            WF_vars(Handle(kind, Notice(c, t)))
  /\ \A p \in Provisioners :
       /\ WF_vars(DeliverProvisionerCapability(p, FALSE))
       /\ WF_vars(ResyncProvisionerCapability(p))
       /\ \A t \in BOOLEAN : WF_vars(Handle("pcap", Notice(p, t)))
  /\ \A w \in Workers : WF_vars(WorkerStep(w))

FairSpec == Spec /\ Fairness

Consistent(c) ==
  /\ Derivable(c) => sccap[c] = Desired(c)
  /\ sc[c] = None => sccap[c] = None

\* The environment eventually leaves the controller alone.
EventuallyQuiet == <>[][System]_vars

Converges ==
  EventuallyQuiet => <>[](\A c \in ClassNames : Consistent(c))

\* "When creating a new storage class, the controller will create a new storage
\* capability object", when its driver has published its capabilities.
DerivableClassGetsCapability ==
  \A c \in ClassNames :
    EventuallyQuiet /\ <>[]Derivable(c) => <>(sccap[c] # None)

-----------------------------------------------------------------------------
(* Inductive invariants.                                                   *)

\* The locals of a worker belong together.
LocalsOK(w) ==
  /\ worker[w].pc = "idle" <=> worker[w].key = None
  /\ worker[w].pc # "idle" => phase = "running"
  /\ worker[w].pc \in {"getPcap", "getSnap", "getSccap", "create", "update"}
       => worker[w].class # None
  /\ worker[w].pc \in {"getSnap", "getSccap", "create", "update"}
       => /\ worker[w].pcap # None
          /\ worker[w].pcap.name = worker[w].class.provisioner
          /\ worker[w].pcap.features \in Published[worker[w].pcap.name]

\* No worker combines two drivers, so no StorageClassCapability does.
OneDriverInv ==
  /\ TypeOK
  /\ KeyExclusive
  /\ \A w \in Workers : LocalsOK(w)
  /\ OneDriver

\* Worker w handles class c and has read nothing that is outdated in the caches.
UpToDate(w, c) ==
  /\ worker[w].key = c
  /\ worker[w].pc \in {"getClass", "getPcap", "getSnap", "getSccap", "create", "update"}
  /\ worker[w].pc # "getClass" => worker[w].class = scCache[c]
  /\ worker[w].pc \in {"getSnap", "getSccap", "create", "update"}
       => worker[w].pcap.features = pcapCache[worker[w].class.provisioner]
  /\ worker[w].pc \in {"getSccap", "create", "update"}
       => worker[w].driver = snapCache[c]

\* Nothing has to be done for class c as far as the caches tell.  A copy that is
\* not the latest will still be delivered.
Done(c) ==
  CachedDerivable(c) /\ sccapCache[c].latest => sccap[c] = CachedDesired(c)

\* A class in the cache is going to be handled, is being handled with the cached
\* objects, or needs nothing; before the workers start, it is going to be handled.
Attended(c) ==
  /\ Scheduled(c) \/ (\E w \in Workers : UpToDate(w, c)) \/ Done(c)
  /\ phase # "running" => Scheduled(c)

UpdateInv ==
  /\ TypeOK
  /\ KeyExclusive
  /\ \A w \in Workers : LocalsOK(w)
  /\ \A c \in ClassNames : scCache[c] # None => Attended(c)

\* The StorageClassCapability of a class that is not in the cache.
Orphan(c) == scCache[c] = None /\ sccapCache[c].latest /\ sccap[c] # None

\* Worker w is about to find out that class c is gone, or has.
Deletes(w, c) == worker[w].key = c /\ worker[w].pc \in {"getClass", "delete"}

\* Every orphan is going to be handled or is being handled as a deleted class.
OrphanInv ==
  /\ UpdateInv
  /\ "sc" \notin synced => \A c \in ClassNames : scCache[c] = None
  /\ \A c \in ClassNames :
       Orphan(c) => Scheduled(c) \/ \E w \in Workers : Deletes(w, c)
-----------------------------------------------------------------------------
(* The controller as a reconciler: the detailed specification implements   *)
(* the abstract one, class by class.                                       *)

\* No worker has a class without being up to date, unless the class is scheduled:
\* nobody is about to write a class that is settled.
ReconcilerInv ==
  /\ UpdateInv
  /\ \A c \in ClassNames, w \in Workers :
       scCache[c] # None /\ worker[w].key = c => Scheduled(c) \/ UpToDate(w, c)

StateOf(c) ==
  CASE scCache[c] = None                 -> "unknown"
    [] scCache[c] # None /\ Scheduled(c) -> "queued"
    [] scCache[c] # None /\ ~Scheduled(c) /\ (\E w \in Workers : UpToDate(w, c)) -> "handled"
    [] OTHER                             -> "settled"

\* What the StorageClassCapability of c should say as far as the caches tell.
WantedOf(c) == IF CachedDerivable(c) THEN CachedDesired(c) ELSE None

Abstract == INSTANCE Reconciler WITH
  Objects <- ClassNames,
  Foreign <- CapabilityEdits,
  state   <- [c \in ClassNames |-> StateOf(c)],
  wanted  <- [c \in ClassNames |-> WantedOf(c)],
  found   <- sccap,
  known   <- [c \in ClassNames |-> sccapCache[c].latest]

\* Out of four caches that lag behind each other and behind the cluster, a queue
\* and workers that read one cache after the other, syncHandler makes a reconciler:
\* a class is only settled by a worker that has read what the caches show at that
\* moment, and between that and the next change nobody but users writes its
\* StorageClassCapability.
ImplementsReconciler == Abstract!Spec

=============================================================================
