------------------------------ MODULE Process ------------------------------
(***************************************************************************)
(* One life after the other of the controller's process: main wires the    *)
(* controller to the informers of three factories, starts them, and calls  *)
(* Run, which checks the version of the server, waits for the caches,      *)
(* starts the workers and returns when the stop channel is closed.  The    *)
(* signal handler runs beside main, and so do the informers and the        *)
(* workers.  Controller abstracts all this to three phases and the queue   *)
(* to two sets; what a worker does with a key is modelled there.           *)
(***************************************************************************)
EXTENDS FifoQueue, InformerFactory

CONSTANTS
  Keys,      \* names of StorageClasses
  Workers,   \* the goroutines that Run starts
  Trouble    \* how often something goes wrong: a bound on TLC's runs

Factories == {"kube", "snapshot", "crd"}

FactoryOf ==
  [kind \in Kinds |->
     CASE kind = "sc" -> "kube" [] kind = "snap" -> "snapshot" [] OTHER -> "crd"]

Uses == {"lister", "hasSynced", "handler"}

\* Where main may be.
Phases == {"wiring", "starting", "checking", "syncing", "running",
           "returning",  \* Run returned before the workers were started
           "draining",   \* Run returned and the workers go on
           "exited"}

ASSUME ProcessAssumption ==
  /\ None \notin Keys
  /\ None \notin Informers
  /\ Trouble \in Nat

VARIABLES
  main,       \* where main is
  step,       \* how many calls of its phase main has made
  factories,  \* the three informer factories
  uses,       \* uses[u][k]: the informer of kind k behind the field u
  running,    \* the informers whose goroutine runs
  synced,     \* the informers whose initial list is in their cache
  busy,       \* busy[w]: the key worker w has, or None
  signals,    \* signals in the channel of the handler
  stop,       \* the stop channel is closed
  installed,  \* the kinds that the server has a definition of
  server,     \* whether the server is as new as the controller demands
  trouble     \* what has gone wrong

wiringVars == <<factories, uses, running>>
worldVars == <<installed, server, trouble>>
vars == <<fifoVars, wiringVars, worldVars, main, step, synced, busy, signals, stop>>

\* The calls of NewController that ask a factory for an informer: the fields of
\* the controller first, then the event handlers.
Wiring ==
  << <<"lister", "sc">>, <<"hasSynced", "sc">>,
     <<"lister", "snap">>, <<"hasSynced", "snap">>,
     <<"lister", "pcap">>, <<"hasSynced", "pcap">>,
     <<"lister", "sccap">>, <<"hasSynced", "sccap">>,
     <<"handler", "sccap">>, <<"handler", "pcap">>,
     <<"handler", "sc">>, <<"handler", "snap">> >>

\* The order in which main starts the factories.
Starts == <<"kube", "crd", "snapshot">>

TypeOK ==
  /\ FifoTypeOK(Keys)
  /\ main \in Phases
  /\ step \in 0..(IF main = "starting" THEN Len(Starts) ELSE Len(Wiring)) - 1
  /\ factories \in [Factories -> FactoryStates]
  /\ uses \in [Uses -> [Kinds -> Informers \cup {None}]]
  /\ running \subseteq Informers
  /\ synced \subseteq running
  /\ busy \in [Workers -> Keys \cup {None}]
  /\ signals \in 0..2
  /\ stop \in BOOLEAN
  /\ {"sc"} \subseteq installed /\ installed \subseteq Kinds
  /\ server \in {"old", "new"}
  /\ trouble \in 0..Trouble

NoUses == [u \in Uses |-> [k \in Kinds |-> None]]

NoFactories == [f \in Factories |-> NewSharedInformerFactory]

Init ==
  /\ FifoInit
  /\ main = "exited"
  /\ step = 0
  /\ factories = NoFactories
  /\ uses = NoUses
  /\ running = {}
  /\ synced = {}
  /\ busy = [w \in Workers |-> None]
  /\ signals = 0
  /\ stop = FALSE
  /\ installed \in {s \in SUBSET Kinds : "sc" \in s}
  /\ server \in {"old", "new"}
  /\ trouble = 0

-----------------------------------------------------------------------------
(* The main goroutine.                                                     *)

\* The Deployment starts the process again.  main sets up the signal handler
\* before anything else; it makes the factories when it has made the clients.
Restart ==
  /\ main = "exited"
  /\ main' = "wiring"
  /\ UNCHANGED <<fifoVars, wiringVars, worldVars, step, synced, busy, signals, stop>>

\* One call of NewController that reaches InformerFor.
Wire ==
  /\ main = "wiring"
  /\ LET use == Wiring[step + 1][1]
         kind == Wiring[step + 1][2]
         factory == FactoryOf[kind]
         f == InformerFor(factories[factory], kind)
     IN  /\ factories' = [factories EXCEPT ![factory] = f]
         /\ uses' = [uses EXCEPT ![use] = [@ EXCEPT ![kind] = f.informers[kind]]]
  /\ IF step + 1 = Len(Wiring)
       THEN main' = "starting" /\ step' = 0
       ELSE main' = main /\ step' = step + 1
  /\ UNCHANGED <<fifoVars, worldVars, running, synced, busy, signals, stop>>

\* main calls Start of the next factory.
StartFactory ==
  /\ main = "starting"
  /\ LET factory == Starts[step + 1]
     IN  /\ running' = running \cup Starting(factories[factory])
         /\ factories' = [factories EXCEPT ![factory] = Started(@)]
  /\ IF step + 1 = Len(Starts)
       THEN main' = "checking" /\ step' = 0
       ELSE main' = main /\ step' = step + 1
  /\ UNCHANGED <<fifoVars, worldVars, uses, synced, busy, signals, stop>>

\* Run returns: its deferred calls shut the queue down.
Return(phase) ==
  /\ main' = phase
  /\ ShutDown
  /\ UNCHANGED <<wiringVars, step, synced, busy, signals, stop>>

\* The version is read and is new enough.
VersionIsValid ==
  /\ main = "checking"
  /\ server = "new"
  /\ main' = "syncing"
  /\ UNCHANGED <<fifoVars, wiringVars, worldVars, step, synced, busy, signals, stop>>

\* The server is too old: Run returns no error.
VersionIsOld ==
  /\ main = "checking"
  /\ server = "old"
  /\ Return("returning")
  /\ UNCHANGED worldVars

\* The version cannot be read: Run returns the error.
CheckFails ==
  /\ main = "checking"
  /\ trouble < Trouble
  /\ Return("returning")
  /\ trouble' = trouble + 1
  /\ UNCHANGED <<installed, server>>

\* A mistake: the cache of the snapshot classes is not waited for.
ThreeSynced ==
  \A kind \in Kinds \ {"snap"} : uses["hasSynced"][kind] \in synced

AllSynced == \A kind \in Kinds : uses["hasSynced"][kind] \in synced

\* WaitForCacheSync sees all caches synced.
StartWorkers ==
  /\ main = "syncing"
  /\ AllSynced
  /\ main' = "running"
  /\ UNCHANGED <<fifoVars, wiringVars, worldVars, step, synced, busy, signals, stop>>

\* A mistake: the wait for the caches does not look at the stop channel.
WaitGoesOn == FALSE /\ UNCHANGED vars

\* WaitForCacheSync sees the stop channel closed: Run returns an error.
WaitIsAborted ==
  /\ main = "syncing"
  /\ stop
  /\ Return("returning")
  /\ UNCHANGED worldVars

\* The stop channel is closed while the workers run.
Stop ==
  /\ main = "running"
  /\ stop
  /\ Return("draining")
  /\ UNCHANGED worldVars

\* The process ends, and with it all that is in its memory.
Ends ==
  /\ FifoReset
  /\ main' = "exited"
  /\ step' = 0
  /\ factories' = NoFactories
  /\ uses' = NoUses
  /\ running' = {}
  /\ synced' = {}
  /\ busy' = [w \in Workers |-> None]
  /\ signals' = 0
  /\ stop' = FALSE

\* main returns, or ends with Fatalf when Run returned an error.  Neither waits
\* for the workers.
Exit ==
  /\ main \in {"returning", "draining"}
  /\ Ends
  /\ UNCHANGED worldVars

-----------------------------------------------------------------------------
(* The signal handler.                                                     *)

\* A signal arrives.  The channel holds two, a third one is dropped.
Signal ==
  /\ main # "exited"
  /\ trouble < Trouble
  /\ signals < 2
  /\ trouble' = trouble + 1
  /\ signals' = signals + 1
  /\ UNCHANGED <<fifoVars, wiringVars, installed, server, main, step, synced, busy, stop>>

\* The first signal closes the stop channel.
FirstSignal ==
  /\ signals > 0
  /\ ~stop
  /\ signals' = signals - 1
  /\ stop' = TRUE
  /\ UNCHANGED <<fifoVars, wiringVars, worldVars, main, step, synced, busy>>

\* The second one ends the process wherever the other goroutines are.
SecondSignal ==
  /\ signals > 0
  /\ stop
  /\ Ends
  /\ UNCHANGED worldVars

-----------------------------------------------------------------------------
(* The informers and the workers.                                          *)

\* The initial list of an informer is in its cache.  The server answers the
\* list when it has the definition of the kind.
Sync(informer) ==
  /\ informer \in running \ synced
  /\ informer[1] \in installed
  /\ synced' = synced \cup {informer}
  /\ UNCHANGED <<fifoVars, wiringVars, worldVars, main, step, busy, signals, stop>>

\* A mistake: a handler that cannot make a key goes on, and adds an empty one.
NotifyWithoutReturn(kind, key) ==
  /\ uses["handler"][kind] \in running
  /\ Add(key) \/ Add(None)
  /\ UNCHANGED <<wiringVars, worldVars, main, step, synced, busy, signals, stop>>

\* A handler of an informer that runs adds a key.
Notify(kind, key) ==
  /\ uses["handler"][kind] \in running
  /\ Add(key)
  /\ UNCHANGED <<wiringVars, worldVars, main, step, synced, busy, signals, stop>>

\* A worker takes a key.  It does so until the queue is shut down and empty:
\* closing the stop channel does not stop it.
Take(w) ==
  /\ main \in {"running", "draining"}
  /\ busy[w] = None
  /\ Get
  /\ busy' = [busy EXCEPT ![w] = Head(queue)]
  /\ UNCHANGED <<wiringVars, worldVars, main, step, synced, signals, stop>>

\* syncHandler returns nil.
Succeed(w) ==
  /\ busy[w] # None
  /\ ForgetAndDone(busy[w])
  /\ busy' = [busy EXCEPT ![w] = None]
  /\ UNCHANGED <<wiringVars, worldVars, main, step, synced, signals, stop>>

\* A mistake: a key whose sync failed is not marked done.
FailWithoutDone(w) ==
  /\ busy[w] # None
  /\ delayed' = delayed \cup {busy[w]}
  /\ busy' = [busy EXCEPT ![w] = None]
  /\ UNCHANGED <<queue, dirty, processing, shuttingDown, wiringVars, worldVars,
                 main, step, synced, signals, stop>>

\* syncHandler returns an error.
Fail(w) ==
  /\ busy[w] # None
  /\ RetryAndDone(busy[w])
  /\ busy' = [busy EXCEPT ![w] = None]
  /\ UNCHANGED <<wiringVars, worldVars, main, step, synced, signals, stop>>

\* The rate limiter adds a key again.
Expire(key) ==
  /\ DelayExpires(key)
  /\ UNCHANGED <<wiringVars, worldVars, main, step, synced, busy, signals, stop>>

-----------------------------------------------------------------------------
(* The world around the process.                                           *)

\* The process is killed, or a worker panics.
Crash ==
  /\ main # "exited"
  /\ trouble < Trouble
  /\ Ends
  /\ trouble' = trouble + 1
  /\ UNCHANGED <<installed, server>>

\* Somebody installs the definition of a kind, or removes it.
Install(kind) ==
  /\ kind # "sc"
  /\ \/ installed' = installed \cup {kind}
     \/ installed' = installed \ {kind}
  /\ UNCHANGED <<fifoVars, wiringVars, server, trouble, main, step, synced, busy,
                 signals, stop>>

\* Kubernetes is upgraded.
Upgrade ==
  /\ server = "old"
  /\ server' = "new"
  /\ UNCHANGED <<fifoVars, wiringVars, installed, trouble, main, step, synced, busy,
                 signals, stop>>

MainStep ==
  \/ Restart \/ Wire \/ StartFactory
  \/ VersionIsValid \/ VersionIsOld \/ StartWorkers \/ WaitIsAborted
  \/ Stop \/ Exit

Next ==
  \/ MainStep
  \/ CheckFails
  \/ Signal \/ FirstSignal \/ SecondSignal
  \/ \E informer \in running : Sync(informer)
  \/ \E kind \in Kinds, key \in Keys : Notify(kind, key)
  \/ \E w \in Workers : Take(w) \/ Succeed(w) \/ Fail(w)
  \/ \E key \in Keys : Expire(key)
  \/ Crash
  \/ \E kind \in Kinds : Install(kind)
  \/ Upgrade

Spec == Init /\ [][Next]_vars

\* Every goroutine is scheduled, calls return, a list is answered when the kind
\* is installed (unless the informer was told to stop), back-offs end, and the
\* Deployment starts the process again.
FairSpec ==
  /\ Spec
  /\ WF_vars(MainStep)
  /\ WF_vars(FirstSignal \/ SecondSignal)
  /\ \A kind \in Kinds :
       WF_vars(~stop /\ \E informer \in running : informer[1] = kind /\ Sync(informer))
  /\ WF_vars(\E w \in Workers : Take(w))
  /\ \A w \in Workers : WF_vars(Succeed(w) \/ Fail(w))
  /\ \A key \in Keys : WF_vars(Expire(key))

=============================================================================
