--------------------------- MODULE ProcessProofs ---------------------------
(***************************************************************************)
(* Proofs about the life of the controller's process, for any set of keys  *)
(* and of workers and any number of crashes, failures and signals: its     *)
(* type, the inductive invariant, that workers read synced caches, and     *)
(* that the queue in order implements the queue that Controller uses.      *)
(***************************************************************************)
EXTENDS ProcessProperties, TLAPS

-----------------------------------------------------------------------------
(* The queue as a sequence.                                                *)

LEMMA Appended ==
  ASSUME NEW q \in Seq(Keys), NEW key \in Keys, NoDuplicates(q), key \notin Elements(q)
  PROVE  /\ Append(q, key) \in Seq(Keys)
         /\ NoDuplicates(Append(q, key))
         /\ Elements(Append(q, key)) = Elements(q) \cup {key}
<1> DEFINE r == Append(q, key)
<1>1. r \in Seq(Keys) /\ Len(r) = Len(q) + 1
  OBVIOUS
<1>2. \A i \in 1..Len(q) : r[i] = q[i]
  OBVIOUS
<1>3. r[Len(q) + 1] = key /\ Len(q) \in Nat
  OBVIOUS
<1> HIDE DEF r
<1>4. NoDuplicates(r)
  BY <1>1, <1>2, <1>3 DEF NoDuplicates, Elements
<1>5. Elements(r) = Elements(q) \cup {key}
  BY <1>1, <1>2, <1>3 DEF Elements
<1>6. QED
  BY <1>1, <1>4, <1>5 DEF r

LEMMA Headless ==
  ASSUME NEW q \in Seq(Keys), q # <<>>, NoDuplicates(q)
  PROVE  /\ Tail(q) \in Seq(Keys)
         /\ Head(q) \in Elements(q)
         /\ Head(q) \in Keys
         /\ NoDuplicates(Tail(q))
         /\ Elements(Tail(q)) = Elements(q) \ {Head(q)}
<1> DEFINE r == Tail(q)
<1>1. r \in Seq(Keys) /\ Len(r) = Len(q) - 1 /\ Len(q) \in Nat \ {0}
  OBVIOUS
<1>2. \A i \in 1..Len(r) : r[i] = q[i + 1]
  OBVIOUS
<1>3. Head(q) = q[1] /\ Head(q) \in Keys
  OBVIOUS
<1> HIDE DEF r
<1>4. NoDuplicates(r)
  BY <1>1, <1>2 DEF NoDuplicates
<1>5. Elements(r) \subseteq Elements(q) \ {q[1]}
  <2> SUFFICES ASSUME NEW i \in 1..Len(r)
               PROVE  r[i] \in Elements(q) /\ r[i] # q[1]
    BY DEF Elements
  <2>1. i + 1 \in 1..Len(q) /\ 1 \in 1..Len(q) /\ i + 1 # 1
    BY <1>1
  <2>2. QED
    BY <1>2, <2>1 DEF Elements, NoDuplicates
<1>6. Elements(q) \ {q[1]} \subseteq Elements(r)
  <2> SUFFICES ASSUME NEW i \in 1..Len(q), q[i] # q[1]
               PROVE  q[i] \in Elements(r)
    BY DEF Elements
  <2>1. i - 1 \in 1..Len(r) /\ r[i - 1] = q[i]
    BY <1>1, <1>2
  <2>2. QED
    BY <2>1 DEF Elements
<1>7. Head(q) \in Elements(q)
  BY <1>1, <1>3 DEF Elements
<1>8. QED
  BY <1>1, <1>3, <1>4, <1>5, <1>6, <1>7 DEF r

LEMMA AddKeeps ==
  ASSUME FifoTypeOK(Keys), QueueInv, NEW key \in Keys,
         queue' = Queued(key), dirty' = Dirtied(key),
         UNCHANGED <<processing, shuttingDown>>
  PROVE  queue' \in Seq(Keys) /\ dirty' \subseteq Keys /\ QueueInv'
<1>1. CASE shuttingDown \/ key \in dirty \cup processing
  <2>1. queue' = queue
    BY <1>1 DEF Queued
  <2>2. dirty' \ processing' = dirty \ processing /\ dirty' \subseteq Keys
    BY <1>1, Zenon DEF Dirtied, FifoTypeOK
  <2>3. QED
    BY <2>1, <2>2 DEF QueueInv, FifoTypeOK
<1>2. CASE ~(shuttingDown \/ key \in dirty \cup processing)
  <2>1. queue' = Append(queue, key) /\ dirty' = dirty \cup {key}
    BY <1>2 DEF Queued, Dirtied
  <2>2. key \notin Elements(queue) /\ NoDuplicates(queue) /\ queue \in Seq(Keys)
    BY <1>2 DEF QueueInv, FifoTypeOK
  <2>3. /\ Elements(queue)' = Elements(Append(queue, key))
        /\ NoDuplicates(queue)' <=> NoDuplicates(Append(queue, key))
    BY <2>1 DEF Elements, NoDuplicates
  <2>4. dirty' \ processing' = (dirty \ processing) \cup {key} /\ dirty' \subseteq Keys
    BY <1>2, <2>1 DEF FifoTypeOK
  <2>5. /\ Append(queue, key) \in Seq(Keys)
        /\ NoDuplicates(Append(queue, key))
        /\ Elements(Append(queue, key)) = Elements(queue) \cup {key}
    BY <2>2, Appended
  <2>6. Elements(queue)' = dirty' \ processing'
    BY <2>3, <2>4, <2>5 DEF QueueInv
  <2>7. QED
    BY <2>1, <2>3, <2>4, <2>5, <2>6 DEF QueueInv
<1>3. QED
  BY <1>1, <1>2

LEMMA GetKeeps ==
  ASSUME FifoTypeOK(Keys), QueueInv, Get
  PROVE  /\ FifoTypeOK(Keys)' /\ QueueInv'
         /\ Head(queue) \in dirty \ processing
         /\ Head(queue) \in Keys
<1>1. queue \in Seq(Keys) /\ queue # <<>> /\ NoDuplicates(queue)
  BY DEF FifoTypeOK, QueueInv, Get
<1>2. Head(queue) \in dirty \ processing /\ Head(queue) \in Keys
  BY <1>1, Headless DEF QueueInv
<1>3. FifoTypeOK(Keys)'
  BY <1>1, <1>2, Headless DEF FifoTypeOK, Get
<1>4. QueueInv'
  <2> DEFINE tail == Tail(queue)
  <2>1. NoDuplicates(tail) /\ Elements(tail) = Elements(queue) \ {Head(queue)}
    BY <1>1, Headless
  <2>2. queue' = tail
    BY DEF Get
  <2> HIDE DEF tail
  <2>3. Elements(queue)' = Elements(queue) \ {Head(queue)} /\ NoDuplicates(queue)'
    BY <2>1, <2>2 DEF Elements, NoDuplicates
  <2>4. QED
    BY <2>3 DEF QueueInv, Get
<1>5. QED
  BY <1>2, <1>3, <1>4

LEMMA DoneKeeps ==
  ASSUME FifoTypeOK(Keys), QueueInv, NEW key \in processing, Done(key)
  PROVE  /\ queue' \in Seq(Keys) /\ QueueInv'
         /\ processing' \subseteq Keys
<1>1. key \in Keys /\ key \notin Elements(queue) /\ queue \in Seq(Keys) /\ NoDuplicates(queue)
  BY DEF FifoTypeOK, QueueInv
<1>2. queue' \in Seq(Keys) /\ NoDuplicates(queue)' /\ Elements(queue)' = dirty' \ processing'
  <2>1. CASE key \in dirty
    <3>1. queue' = Append(queue, key)
      BY <2>1 DEF Done
    <3>2. dirty' \ processing' = (dirty \ processing) \cup {key}
      BY <2>1 DEF Done
    <3>3. Elements(queue)' = Elements(Append(queue, key))
      BY <3>1 DEF Elements
    <3>4. NoDuplicates(queue)' <=> NoDuplicates(Append(queue, key))
      BY <3>1 DEF NoDuplicates
    <3>5. QED
      BY <1>1, <3>1, <3>2, <3>3, <3>4, Appended DEF QueueInv
  <2>2. CASE key \notin dirty
    <3>1. queue' = queue /\ dirty' \ processing' = dirty \ processing
      BY <2>2 DEF Done
    <3>2. QED
      BY <1>1, <3>1 DEF QueueInv, Elements, NoDuplicates
  <2>3. QED
    BY <2>1, <2>2
<1>3. QED
  BY <1>2 DEF QueueInv, Done, FifoTypeOK, Elements, NoDuplicates

-----------------------------------------------------------------------------
(* The wiring of the controller.                                           *)

IInv == TypeOK /\ ProcessInv

\* Asking a factory for an informer makes sure that there is one and keeps those
\* there are.
LEMMA Asked ==
  ASSUME NEW f \in FactoryStates, NEW kind \in Kinds
  PROVE  LET g == InformerFor(f, kind)
         IN  /\ g \in FactoryStates
             /\ g.informers[kind] # None
             /\ \A k \in Kinds : f.informers[k] # None => g.informers[k] = f.informers[k]
<1>1. CASE f.informers[kind] # None
  BY <1>1 DEF InformerFor
<1>2. CASE f.informers[kind] = None
  <2>1. /\ f.informers \in [Kinds -> Informers \cup {None}]
        /\ f.startedInformers \in SUBSET Kinds /\ f.made \in Nat
    BY DEF FactoryStates
  <2> DEFINE new == [f.informers EXCEPT ![kind] = <<kind, f.made>>]
  <2>2. <<kind, f.made>> \in Informers
    BY <2>1 DEF Informers
  <2>3. /\ new \in [Kinds -> Informers \cup {None}]
        /\ new[kind] # None
        /\ \A k \in Kinds \ {kind} : new[k] = f.informers[k]
    BY <2>1, <2>2, ProcessAssumption
  <2>4. InformerFor(f, kind) = [informers |-> new,
                                startedInformers |-> f.startedInformers,
                                made |-> f.made + 1]
    BY <1>2 DEF InformerFor, Make, NewInformer
  <2> HIDE DEF new
  <2>5. QED
    BY <1>2, <2>1, <2>3, <2>4 DEF FactoryStates
<1>3. QED
  BY <1>1, <1>2

LEMMA FactoryOfKind == \A k \in Kinds : FactoryOf[k] \in Factories
BY DEF FactoryOf, Kinds, Factories

LEMMA WiringType ==
  /\ Len(Wiring) = 12
  /\ \A i \in 1..12 : Wiring[i][1] \in Uses /\ Wiring[i][2] \in Kinds
BY DEF Wiring, Uses, Kinds

\* Every field is set by some call of NewController.
LEMMA WiringComplete ==
  ASSUME NEW u \in Uses, NEW k \in Kinds
  PROVE  \E i \in 1..Len(Wiring) : Wiring[i] = <<u, k>>
<1>1. \E i \in 1..12 : Wiring[i] = <<u, k>>
  BY DEF Wiring, Uses, Kinds
<1>2. QED
  BY <1>1, WiringType

LEMMA AllSet ==
  ASSUME WiredInOrder, main \in Phases \ {"wiring", "exited"}
  PROVE  \A u \in Uses, k \in Kinds : uses[u][k] # None
<1> SUFFICES ASSUME NEW u \in Uses, NEW k \in Kinds
             PROVE  uses[u][k] # None
  OBVIOUS
<1>1. PICK i \in 1..Len(Wiring) : Wiring[i] = <<u, k>>
  BY WiringComplete
<1>2. QED
  BY <1>1 DEF WiredInOrder

-----------------------------------------------------------------------------
(* The invariant, one lemma per action.                                    *)

\* A process that has not been started.
Fresh ==
  /\ FifoInit
  /\ main = "exited" /\ step = 0
  /\ factories = NoFactories /\ uses = NoUses /\ running = {} /\ synced = {}
  /\ busy = [w \in Workers |-> None]
  /\ signals = 0 /\ stop = FALSE
  /\ {"sc"} \subseteq installed /\ installed \subseteq Kinds
  /\ server \in {"old", "new"}
  /\ trouble \in 0..Trouble

LEMMA FreshIsFine == Fresh => IInv
<1> SUFFICES ASSUME Fresh
             PROVE  IInv
  OBVIOUS
<1>1. TypeOK
  <2>1. FifoTypeOK(Keys)
    <3>1. <<>> \in Seq(Keys)
      OBVIOUS
    <3>2. QED
      BY <3>1, Zenon DEF Fresh, FifoInit, FifoTypeOK
  <2>2. factories \in [Factories -> FactoryStates]
    <3>1. [kind \in Kinds |-> None] \in [Kinds -> Informers \cup {None}]
      OBVIOUS
    <3>2. NewSharedInformerFactory \in FactoryStates
      BY <3>1 DEF NewSharedInformerFactory, FactoryStates
    <3>3. QED
      BY <3>2 DEF Fresh, NoFactories
  <2>3. uses \in [Uses -> [Kinds -> Informers \cup {None}]]
    BY DEF Fresh, NoUses
  <2>4. /\ step \in 0..(IF main = "starting" THEN Len(Starts) ELSE Len(Wiring)) - 1
        /\ signals \in 0..2 /\ trouble \in 0..Trouble
    BY WiringType DEF Fresh
  <2>5. /\ main \in Phases /\ running \subseteq Informers /\ synced \subseteq running
        /\ busy \in [Workers -> Keys \cup {None}]
        /\ stop \in BOOLEAN /\ server \in {"old", "new"}
    BY DEF Fresh, Phases
  <2>6. QED
    BY <2>1, <2>2, <2>3, <2>4, <2>5 DEF TypeOK, Fresh
<1>2. QueueInv
  BY DEF QueueInv, Fresh, FifoInit, NoDuplicates, Elements
<1>3. WorkersInv
  BY DEF WorkersInv, Fresh, FifoInit
<1>4. Wired
  BY DEF Wired, Fresh, NoUses
<1>5. WiredInOrder
  BY DEF WiredInOrder, Fresh
<1>6. WorkersReadSynced
  BY DEF WorkersReadSynced, Fresh
<1>7. QED
  BY <1>1, <1>2, <1>3, <1>4, <1>5, <1>6 DEF IInv, ProcessInv

LEMMA EndsKeeps ==
  ASSUME IInv, Ends, UNCHANGED <<installed, server>>, trouble' \in 0..Trouble
  PROVE  IInv'
<1>1. Fresh'
  BY DEF Fresh, Ends, FifoReset, FifoInit, IInv, TypeOK
<1>2. Fresh' => IInv'
  BY FreshIsFine, PTL
<1>3. QED
  BY <1>1, <1>2

\* The parts of the invariant that a step leaves alone.
LEMMA QueueSame ==
  ASSUME QueueInv, UNCHANGED <<queue, dirty, processing>>
  PROVE  QueueInv'
BY DEF QueueInv, NoDuplicates, Elements

LEMMA WorkersSame ==
  ASSUME WorkersInv, UNCHANGED <<processing, busy>>
  PROVE  WorkersInv'
BY DEF WorkersInv

LEMMA WiredSame ==
  ASSUME Wired, UNCHANGED <<factories, uses>>
  PROVE  Wired'
BY DEF Wired

LEMMA OrderSame ==
  ASSUME WiredInOrder, UNCHANGED <<main, step, uses>>
  PROVE  WiredInOrder'
BY DEF WiredInOrder

\* main leaves the phase it is in for a later one, when the wiring is done.
LEMMA OrderKept ==
  ASSUME WiredInOrder, main \in Phases \ {"wiring", "exited"}, main' \notin {"wiring", "exited"},
         UNCHANGED uses
  PROVE  WiredInOrder'
BY DEF WiredInOrder

\* A step of the queue and of the workers only.
queueStepVars == <<wiringVars, worldVars, main, step, synced, signals, stop>>

LEMMA QueueStepKeeps ==
  ASSUME IInv, UNCHANGED queueStepVars, FifoTypeOK(Keys)', QueueInv', WorkersInv',
         busy' \in [Workers -> Keys \cup {None}],
         main \in {"running", "draining"} \/ busy' = busy
  PROVE  IInv'
<1>1. TypeOK'
  BY DEF IInv, TypeOK, queueStepVars, wiringVars, worldVars
<1>2. Wired' /\ WiredInOrder'
  BY WiredSame, OrderSame DEF IInv, ProcessInv, queueStepVars, wiringVars
<1>3. WorkersReadSynced'
  BY DEF IInv, ProcessInv, WorkersReadSynced, AllSynced, queueStepVars, wiringVars
<1>4. QED
  BY <1>1, <1>2, <1>3 DEF IInv, ProcessInv

LEMMA NotifyKeeps ==
  ASSUME IInv, NEW kind \in Kinds, NEW key \in Keys, Notify(kind, key)
  PROVE  IInv'
<1>1. Add(key) /\ UNCHANGED queueStepVars /\ busy' = busy
  BY DEF Notify, queueStepVars
<1>2. FifoTypeOK(Keys) /\ QueueInv
  BY DEF IInv, TypeOK, ProcessInv
<1>3. FifoTypeOK(Keys)' /\ QueueInv'
  BY <1>1, <1>2, AddKeeps DEF Add, FifoTypeOK
<1>4. WorkersInv'
  BY <1>1, WorkersSame DEF IInv, ProcessInv, Add
<1>5. QED
  BY <1>1, <1>3, <1>4, QueueStepKeeps DEF IInv, TypeOK

LEMMA ExpireKeeps ==
  ASSUME IInv, NEW key \in Keys, Expire(key)
  PROVE  IInv'
<1>1. DelayExpires(key) /\ UNCHANGED queueStepVars /\ busy' = busy
  BY DEF Expire, queueStepVars
<1>2. FifoTypeOK(Keys) /\ QueueInv
  BY DEF IInv, TypeOK, ProcessInv
<1>3. FifoTypeOK(Keys)' /\ QueueInv'
  BY <1>1, <1>2, AddKeeps DEF DelayExpires, FifoTypeOK
<1>4. WorkersInv'
  BY <1>1, WorkersSame DEF IInv, ProcessInv, DelayExpires
<1>5. QED
  BY <1>1, <1>3, <1>4, QueueStepKeeps DEF IInv, TypeOK

LEMMA TakeKeeps ==
  ASSUME IInv, NEW w \in Workers, Take(w)
  PROVE  IInv'
<1>1. /\ Get /\ UNCHANGED queueStepVars /\ main \in {"running", "draining"}
      /\ busy[w] = None /\ busy' = [busy EXCEPT ![w] = Head(queue)]
  BY DEF Take, queueStepVars
<1>2. FifoTypeOK(Keys) /\ QueueInv /\ WorkersInv /\ busy \in [Workers -> Keys \cup {None}]
  BY DEF IInv, TypeOK, ProcessInv
<1>3. /\ FifoTypeOK(Keys)' /\ QueueInv'
      /\ Head(queue) \in dirty \ processing /\ Head(queue) \in Keys
  BY <1>1, <1>2, GetKeeps
<1>4. WorkersInv'
  <2>1. /\ busy'[w] = Head(queue) /\ \A v \in Workers \ {w} : busy'[v] = busy[v]
        /\ Head(queue) # None
        /\ processing' = processing \cup {Head(queue)}
    BY <1>1, <1>2, <1>3, ProcessAssumption DEF Get
  <2>2. \A v \in Workers : busy[v] # Head(queue)
    BY <1>2, <1>3, <2>1 DEF WorkersInv
  <2>3. processing' = {busy'[v] : v \in Workers} \ {None}
    BY <1>1, <1>2, <2>1 DEF WorkersInv
  <2>4. QED
    BY <1>2, <2>1, <2>2, <2>3 DEF WorkersInv
<1>5. busy' \in [Workers -> Keys \cup {None}]
  BY <1>1, <1>2, <1>3
<1>6. QED
  BY <1>1, <1>3, <1>4, <1>5, QueueStepKeeps

LEMMA FinishKeeps ==
  ASSUME IInv, NEW w \in Workers, Succeed(w) \/ Fail(w)
  PROVE  IInv'
<1>1. /\ Done(busy[w]) /\ UNCHANGED queueStepVars
      /\ busy[w] # None /\ busy' = [busy EXCEPT ![w] = None]
      /\ delayed' = delayed \/ delayed' = delayed \cup {busy[w]}
  BY DEF Succeed, Fail, ForgetAndDone, RetryAndDone, queueStepVars
<1>2. FifoTypeOK(Keys) /\ QueueInv /\ WorkersInv /\ busy \in [Workers -> Keys \cup {None}]
  BY DEF IInv, TypeOK, ProcessInv
<1>3. busy[w] \in processing /\ busy[w] \in Keys
  BY <1>1, <1>2 DEF WorkersInv
<1>4. queue' \in Seq(Keys) /\ QueueInv' /\ processing' \subseteq Keys
  BY <1>1, <1>2, <1>3, DoneKeeps
<1>5. FifoTypeOK(Keys)'
  <2>1. delayed' \subseteq Keys
    BY <1>1, <1>2, <1>3 DEF FifoTypeOK
  <2>2. QED
    BY <1>1, <1>2, <1>4, <2>1 DEF FifoTypeOK, Done
<1>6. WorkersInv'
  <2>1. /\ busy'[w] = None /\ \A v \in Workers \ {w} : busy'[v] = busy[v]
        /\ processing' = processing \ {busy[w]}
    BY <1>1, <1>2 DEF Done
  <2>2. \A v \in Workers \ {w} : busy[v] # busy[w]
    BY <1>1, <1>2 DEF WorkersInv
  <2>3. processing' = {busy'[v] : v \in Workers} \ {None}
    BY <1>1, <1>2, <2>1, <2>2 DEF WorkersInv
  <2>4. QED
    BY <1>2, <2>1, <2>3 DEF WorkersInv
<1>7. busy' \in [Workers -> Keys \cup {None}]
  BY <1>1, <1>2
<1>8. main \in {"running", "draining"}
  BY <1>1 DEF IInv, ProcessInv, WorkersReadSynced
<1>9. QED
  BY <1>1, <1>4, <1>5, <1>6, <1>7, <1>8, QueueStepKeeps

\* A step that moves main, when the wiring is done, or leaves it where it is.
stillVars == <<queue, dirty, processing, delayed, wiringVars, step, synced, busy>>

LEMMA MoveKeeps ==
  ASSUME IInv, UNCHANGED stillVars, TypeOK',
         \/ main' = main
         \/ main \in Phases \ {"wiring", "exited"} /\ main' \notin {"wiring", "exited"},
         main' \in {"running", "draining"} =>
           main \in {"running", "draining"} \/ AllSynced,
         main' \notin {"running", "draining"} => main \notin {"running", "draining"}
  PROVE  IInv'
<1>1. QueueInv' /\ WorkersInv' /\ Wired'
  BY QueueSame, WorkersSame, WiredSame DEF IInv, ProcessInv, stillVars, wiringVars
<1>2. WiredInOrder'
  <2>1. WiredInOrder /\ UNCHANGED <<uses, step>>
    BY DEF IInv, ProcessInv, stillVars, wiringVars
  <2>2. CASE main' = main
    BY <2>1, <2>2, OrderSame
  <2>3. CASE main \in Phases \ {"wiring", "exited"} /\ main' \notin {"wiring", "exited"}
    BY <2>1, <2>3, OrderKept
  <2>4. QED
    BY <2>2, <2>3
<1>3. WorkersReadSynced'
  <2>1. AllSynced' <=> AllSynced
    BY DEF AllSynced, stillVars, wiringVars
  <2>2. WorkersReadSynced /\ busy' = busy
    BY DEF IInv, ProcessInv, stillVars
  <2>3. QED
    BY <2>1, <2>2 DEF WorkersReadSynced
<1>4. QED
  BY <1>1, <1>2, <1>3 DEF IInv, ProcessInv

LEMMA RestartKeeps ==
  ASSUME IInv, Restart
  PROVE  IInv'
<1>1. /\ main = "exited" /\ main' = "wiring" /\ step' = step
      /\ UNCHANGED <<fifoVars, wiringVars, worldVars, synced, busy, signals, stop>>
  BY DEF Restart
<1>2. TypeOK'
  BY <1>1 DEF IInv, TypeOK, FifoTypeOK, Phases, fifoVars, wiringVars, worldVars
<1>3. QueueInv' /\ WorkersInv' /\ Wired'
  BY <1>1, QueueSame, WorkersSame, WiredSame DEF IInv, ProcessInv, fifoVars, wiringVars
<1>4. WorkersReadSynced'
  BY <1>1 DEF IInv, ProcessInv, WorkersReadSynced
<1>5. WiredInOrder'
  <2>1. step' = 0
    BY <1>1 DEF IInv, ProcessInv, WiredInOrder
  <2>2. QED
    BY <1>1, <2>1, WiringType DEF WiredInOrder
<1>6. QED
  BY <1>2, <1>3, <1>4, <1>5 DEF IInv, ProcessInv

\* Run returns.
LEMMA ReturnKeeps ==
  ASSUME IInv, NEW next \in {"returning", "draining"}, Return(next),
         UNCHANGED <<installed, server>>, trouble' \in 0..Trouble,
         \/ next = "returning" /\ main \in {"checking", "syncing"}
         \/ next = "draining" /\ main = "running"
  PROVE  IInv'
<1>1. /\ main' = next /\ shuttingDown' = TRUE
      /\ UNCHANGED <<queue, dirty, processing, delayed, wiringVars, step, synced, busy,
                    signals, stop>>
  BY DEF Return, ShutDown
<1>2. TypeOK'
  <2>1. FifoTypeOK(Keys)'
    BY <1>1 DEF IInv, TypeOK, FifoTypeOK
  <2>2. QED
    BY <1>1, <2>1 DEF IInv, TypeOK, Phases, wiringVars
<1>3. UNCHANGED stillVars
  BY <1>1 DEF stillVars
<1>4. main \in Phases
  BY DEF IInv, TypeOK
<1>5. QED
  BY <1>1, <1>2, <1>3, <1>4, MoveKeeps

\* Steps that change neither the queue nor the workers nor the wiring: main's
\* steps after the wiring, the signals, and the world's.
LEMMA QuietKeeps ==
  ASSUME IInv,
         \/ VersionIsValid \/ StartWorkers \/ Signal \/ FirstSignal \/ Upgrade
         \/ \E kind \in Kinds : Install(kind)
  PROVE  IInv'
<1>1. UNCHANGED <<fifoVars, stillVars>>
  BY DEF fifoVars, wiringVars, stillVars, VersionIsValid, StartWorkers, Signal,
         FirstSignal, Upgrade, Install
<1>2. /\ main' \in Phases
      /\ \/ main' = main
         \/ main \in Phases \ {"wiring", "exited"} /\ main' \notin {"wiring", "exited"}
      /\ main' \in {"running", "draining"} =>
           main \in {"running", "draining"} \/ AllSynced
      /\ main' \notin {"running", "draining"} => main \notin {"running", "draining"}
  BY DEF IInv, TypeOK, Phases, VersionIsValid, StartWorkers, Signal, FirstSignal,
         Upgrade, Install
<1>3. signals' \in 0..2 /\ stop' \in BOOLEAN /\ trouble' \in 0..Trouble
  <2>1. signals \in 0..2 /\ stop \in BOOLEAN /\ trouble \in 0..Trouble
    BY DEF IInv, TypeOK
  <2>2. \/ UNCHANGED <<signals, stop, trouble>>
        \/ signals < 2 /\ trouble < Trouble /\ stop' = stop
             /\ signals' = signals + 1 /\ trouble' = trouble + 1
        \/ signals > 0 /\ signals' = signals - 1 /\ stop' = TRUE /\ trouble' = trouble
    BY DEF VersionIsValid, StartWorkers, Signal, FirstSignal, Upgrade, Install, worldVars
  <2>3. signals' \in 0..2 /\ trouble' \in 0..Trouble
    BY <2>1, <2>2, ProcessAssumption
  <2>4. QED
    BY <2>1, <2>2, <2>3
<1>4. {"sc"} \subseteq installed' /\ installed' \subseteq Kinds /\ server' \in {"old", "new"}
  BY DEF IInv, TypeOK, VersionIsValid, StartWorkers, Signal, FirstSignal, Upgrade,
         Install, worldVars
<1>5. TypeOK'
  <2>1. FifoTypeOK(Keys)'
    BY <1>1 DEF IInv, TypeOK, FifoTypeOK, fifoVars
  <2>2. step' = step /\ (main' = "starting" <=> main = "starting")
    BY <1>1 DEF stillVars, VersionIsValid, StartWorkers, Signal, FirstSignal, Upgrade,
            Install
  <2>3. step' \in 0..(IF main' = "starting" THEN Len(Starts) ELSE Len(Wiring)) - 1
    BY <2>2 DEF IInv, TypeOK
  <2>4. QED
    BY <1>1, <1>2, <1>3, <1>4, <2>1, <2>3 DEF IInv, TypeOK, stillVars, wiringVars
<1>6. QED
  BY <1>1, <1>2, <1>5, MoveKeeps

LEMMA SyncKeeps ==
  ASSUME IInv, NEW informer \in running, Sync(informer)
  PROVE  IInv'
<1>1. /\ synced' = synced \cup {informer}
      /\ UNCHANGED <<fifoVars, wiringVars, worldVars, main, step, busy, signals, stop>>
  BY DEF Sync
<1>2. TypeOK'
  <2>1. FifoTypeOK(Keys)'
    BY <1>1 DEF IInv, TypeOK, FifoTypeOK, fifoVars
  <2>2. QED
    BY <1>1, <2>1 DEF IInv, TypeOK, wiringVars, worldVars
<1>3. QueueInv' /\ WorkersInv' /\ Wired' /\ WiredInOrder'
  BY <1>1, QueueSame, WorkersSame, WiredSame, OrderSame
     DEF IInv, ProcessInv, fifoVars, wiringVars
<1>4. WorkersReadSynced'
  <2>1. AllSynced => AllSynced'
    BY <1>1 DEF AllSynced, wiringVars
  <2>2. QED
    BY <1>1, <2>1 DEF IInv, ProcessInv, WorkersReadSynced
<1>5. QED
  BY <1>2, <1>3, <1>4 DEF IInv, ProcessInv

LEMMA StartsLength == Len(Starts) = 3 /\ \A i \in 1..3 : Starts[i] \in Factories
BY DEF Starts, Factories

LEMMA WireKeeps ==
  ASSUME IInv, Wire
  PROVE  IInv'
<1> DEFINE use == Wiring[step + 1][1]
           kind == Wiring[step + 1][2]
           factory == FactoryOf[kind]
           f == factories[factory]
           g == InformerFor(f, kind)
<1>1. /\ main = "wiring" /\ step \in 0..11 /\ step + 1 \in 1..12
      /\ factories' = [factories EXCEPT ![factory] = g]
      /\ uses' = [uses EXCEPT ![use] = [@ EXCEPT ![kind] = g.informers[kind]]]
      /\ UNCHANGED <<fifoVars, worldVars, running, synced, busy, signals, stop>>
  BY WiringType DEF Wire, IInv, TypeOK
<1>2. \/ step + 1 = 12 /\ main' = "starting" /\ step' = 0
      \/ step + 1 < 12 /\ main' = "wiring" /\ step' = step + 1
  BY <1>1, WiringType DEF Wire
<1>3. /\ use \in Uses /\ kind \in Kinds /\ factory \in Factories
      /\ f \in FactoryStates
  BY <1>1, WiringType, FactoryOfKind DEF IInv, TypeOK
<1>4. /\ g \in FactoryStates
      /\ g.informers[kind] # None
      /\ g.informers[kind] \in Informers \cup {None}
      /\ \A k \in Kinds : f.informers[k] # None => g.informers[k] = f.informers[k]
  <2>1. /\ g \in FactoryStates
        /\ g.informers[kind] # None
        /\ \A k \in Kinds : f.informers[k] # None => g.informers[k] = f.informers[k]
    BY <1>3, Asked
  <2> HIDE DEF g
  <2>2. g.informers \in [Kinds -> Informers \cup {None}]
    BY <2>1 DEF FactoryStates
  <2>3. QED
    BY <1>3, <2>1, <2>2
<1>5. /\ factories \in [Factories -> FactoryStates]
      /\ uses \in [Uses -> [Kinds -> Informers \cup {None}]]
  BY DEF IInv, TypeOK
<1> HIDE DEF use, kind, factory, f, g
<1>6. /\ factories' \in [Factories -> FactoryStates]
      /\ factories'[factory] = g
      /\ \A h \in Factories \ {factory} : factories'[h] = factories[h]
  BY <1>1, <1>3, <1>4, <1>5
<1>7. /\ uses' \in [Uses -> [Kinds -> Informers \cup {None}]]
      /\ uses'[use][kind] = g.informers[kind]
      /\ \A u \in Uses, k \in Kinds :
           (u = use /\ k = kind) \/ uses'[u][k] = uses[u][k]
  <2>1. [uses[use] EXCEPT ![kind] = g.informers[kind]] \in [Kinds -> Informers \cup {None}]
    BY <1>3, <1>4, <1>5
  <2>2. uses'[use] = [uses[use] EXCEPT ![kind] = g.informers[kind]]
    BY <1>1, <1>3, <1>5
  <2>3. \A u \in Uses \ {use} : uses'[u] = uses[u]
    BY <1>1, <1>3, <1>5
  <2>4. uses' \in [Uses -> [Kinds -> Informers \cup {None}]]
    BY <1>1, <1>3, <1>5, <2>1
  <2>5. QED
    BY <1>3, <1>5, <2>2, <2>3, <2>4
<1>8. TypeOK'
  <2>1. FifoTypeOK(Keys)'
    BY <1>1 DEF IInv, TypeOK, FifoTypeOK, fifoVars
  <2>2. main' \in Phases
    BY <1>2 DEF Phases
  <2>3. step' \in 0..(IF main' = "starting" THEN Len(Starts) ELSE Len(Wiring)) - 1
    BY <1>1, <1>2, WiringType, StartsLength
  <2>4. QED
    BY <1>1, <1>6, <1>7, <2>1, <2>2, <2>3 DEF IInv, TypeOK, worldVars
<1>9. QueueInv' /\ WorkersInv'
  BY <1>1, QueueSame, WorkersSame DEF IInv, ProcessInv, fifoVars
<1>10. Wired'
  <2> SUFFICES ASSUME NEW u \in Uses, NEW k \in Kinds, uses'[u][k] # None
               PROVE  factories'[FactoryOf[k]].informers[k] = uses'[u][k]
    BY DEF Wired
  <2>1. CASE u = use /\ k = kind
    BY <1>4, <1>6, <1>7, <2>1 DEF factory
  <2>2. CASE ~(u = use /\ k = kind)
    <3>1. /\ uses'[u][k] = uses[u][k]
          /\ factories[FactoryOf[k]].informers[k] = uses[u][k]
      BY <1>7, <2>2 DEF IInv, ProcessInv, Wired
    <3>2. CASE FactoryOf[k] = factory
      BY <1>4, <1>6, <3>1, <3>2 DEF f
    <3>3. CASE FactoryOf[k] # factory
      BY <1>6, <3>1, <3>3, FactoryOfKind
    <3>4. QED
      BY <3>2, <3>3
  <2>3. QED
    BY <2>1, <2>2
<1>11. WiredInOrder'
  <2>1. \A i \in 1..12 : i <= step => uses[Wiring[i][1]][Wiring[i][2]] # None
    BY <1>1, WiringType DEF IInv, ProcessInv, WiredInOrder
  <2>2. \A i \in 1..12 : i <= step + 1 => uses'[Wiring[i][1]][Wiring[i][2]] # None
    <3> SUFFICES ASSUME NEW i \in 1..12, i <= step + 1
                 PROVE  uses'[Wiring[i][1]][Wiring[i][2]] # None
      OBVIOUS
    <3>1. CASE i = step + 1
      BY <1>4, <1>7, <3>1, ProcessAssumption DEF use, kind
    <3>2. CASE i # step + 1
      <4>1. i <= step
        BY <1>1, <3>2
      <4>2. uses[Wiring[i][1]][Wiring[i][2]] # None
        BY <2>1, <4>1
      <4>3. QED
        BY <1>4, <1>7, <4>2, WiringType, ProcessAssumption
    <3>3. QED
      BY <3>1, <3>2
  <2>3. QED
    BY <1>1, <1>2, <2>2, WiringType DEF WiredInOrder
<1>12. WorkersReadSynced'
  BY <1>1, <1>2 DEF IInv, ProcessInv, WorkersReadSynced
<1>13. QED
  BY <1>8, <1>9, <1>10, <1>11, <1>12 DEF IInv, ProcessInv

LEMMA StartFactoryKeeps ==
  ASSUME IInv, StartFactory
  PROVE  IInv'
<1> DEFINE factory == Starts[step + 1]
           f == factories[factory]
<1>1. /\ main = "starting" /\ step \in 0..2 /\ step + 1 \in 1..3
      /\ running' = running \cup Starting(f)
      /\ factories' = [factories EXCEPT ![factory] = Started(@)]
      /\ UNCHANGED <<fifoVars, worldVars, uses, synced, busy, signals, stop>>
  BY StartsLength DEF StartFactory, IInv, TypeOK
<1>2. \/ step + 1 = 3 /\ main' = "checking" /\ step' = 0
      \/ step + 1 < 3 /\ main' = "starting" /\ step' = step + 1
  BY <1>1, StartsLength DEF StartFactory
<1>3. factory \in Factories /\ f \in FactoryStates
  BY <1>1, StartsLength DEF IInv, TypeOK
<1>4. factories \in [Factories -> FactoryStates]
  BY DEF IInv, TypeOK
<1> HIDE DEF factory
<1>5. /\ f.informers \in [Kinds -> Informers \cup {None}]
      /\ Startable(f) \subseteq Kinds
  BY <1>3 DEF FactoryStates, Startable
<1>6. Started(f).informers = f.informers
  BY <1>3 DEF FactoryStates, Started
<1>7. Started(f) \in FactoryStates
  BY <1>3, <1>5 DEF FactoryStates, Started
<1>8. /\ factories' \in [Factories -> FactoryStates]
      /\ \A h \in Factories : factories'[h].informers = factories[h].informers
  BY <1>1, <1>3, <1>4, <1>6, <1>7
<1>9. Starting(f) \subseteq Informers
  BY <1>5 DEF Starting, Startable
<1>10. TypeOK'
  <2>1. FifoTypeOK(Keys)'
    BY <1>1 DEF IInv, TypeOK, FifoTypeOK, fifoVars
  <2>2. main' \in Phases
    BY <1>2 DEF Phases
  <2>3. step' \in 0..(IF main' = "starting" THEN Len(Starts) ELSE Len(Wiring)) - 1
    BY <1>1, <1>2, WiringType, StartsLength
  <2>4. QED
    BY <1>1, <1>8, <1>9, <2>1, <2>2, <2>3 DEF IInv, TypeOK, worldVars
<1>11. QueueInv' /\ WorkersInv'
  BY <1>1, QueueSame, WorkersSame DEF IInv, ProcessInv, fifoVars
<1>12. Wired'
  BY <1>1, <1>8, FactoryOfKind DEF IInv, ProcessInv, Wired
<1>13. WiredInOrder'
  BY <1>1, <1>2 DEF IInv, ProcessInv, WiredInOrder
<1>14. WorkersReadSynced'
  BY <1>1, <1>2 DEF IInv, ProcessInv, WorkersReadSynced
<1>15. QED
  BY <1>10, <1>11, <1>12, <1>13, <1>14 DEF IInv, ProcessInv

-----------------------------------------------------------------------------
(* The theorems.                                                           *)

LEMMA InitIInv == Init => IInv
<1>1. Init => Fresh
  BY ProcessAssumption DEF Init, Fresh
<1>2. QED
  BY <1>1, FreshIsFine

LEMMA NextIInv == IInv /\ [Next]_vars => IInv'
<1> SUFFICES ASSUME IInv, [Next]_vars
             PROVE  IInv'
  OBVIOUS
<1>0. trouble \in 0..Trouble /\ Trouble \in Nat
  BY ProcessAssumption DEF IInv, TypeOK
<1>1. CASE Restart
  BY <1>1, RestartKeeps
<1>2. CASE Wire
  BY <1>2, WireKeeps
<1>3. CASE StartFactory
  BY <1>3, StartFactoryKeeps
<1>4. CASE VersionIsValid \/ StartWorkers \/ Signal \/ FirstSignal \/ Upgrade
  BY <1>4, QuietKeeps
<1>5. CASE VersionIsOld \/ WaitIsAborted
  <2>1. Return("returning") /\ UNCHANGED worldVars /\ main \in {"checking", "syncing"}
    BY <1>5 DEF VersionIsOld, WaitIsAborted
  <2>2. QED
    BY <1>0, <2>1, ReturnKeeps DEF worldVars
<1>6. CASE CheckFails
  <2>1. /\ Return("returning") /\ UNCHANGED <<installed, server>>
        /\ main = "checking" /\ trouble' \in 0..Trouble
    BY <1>0, <1>6 DEF CheckFails
  <2>2. QED
    BY <2>1, ReturnKeeps
<1>7. CASE Stop
  <2>1. Return("draining") /\ UNCHANGED worldVars /\ main = "running"
    BY <1>7 DEF Stop
  <2>2. QED
    BY <1>0, <2>1, ReturnKeeps DEF worldVars
<1>8. CASE Exit \/ SecondSignal \/ Crash
  <2>1. Ends /\ UNCHANGED <<installed, server>> /\ trouble' \in 0..Trouble
    BY <1>0, <1>8 DEF Exit, SecondSignal, Crash, worldVars
  <2>2. QED
    BY <2>1, EndsKeeps
<1>9. CASE \E informer \in running : Sync(informer)
  BY <1>9, SyncKeeps
<1>10. CASE \E kind \in Kinds, key \in Keys : Notify(kind, key)
  BY <1>10, NotifyKeeps
<1>11. CASE \E w \in Workers : Take(w) \/ Succeed(w) \/ Fail(w)
  BY <1>11, TakeKeeps, FinishKeeps
<1>12. CASE \E key \in Keys : Expire(key)
  BY <1>12, ExpireKeeps
<1>13. CASE \E kind \in Kinds : Install(kind)
  BY <1>13, QuietKeeps
<1>14. CASE UNCHANGED vars
  <2>1. UNCHANGED stillVars /\ main' = main
    BY <1>14 DEF vars, stillVars, fifoVars
  <2>2. TypeOK'
    BY <1>14 DEF IInv, TypeOK, FifoTypeOK, vars, fifoVars, wiringVars, worldVars
  <2>3. QED
    BY <2>1, <2>2, MoveKeeps
<1>15. QED
  <2>1. \/ MainStep \/ CheckFails \/ Signal \/ FirstSignal \/ SecondSignal
        \/ \E informer \in running : Sync(informer)
        \/ \E kind \in Kinds, key \in Keys : Notify(kind, key)
        \/ \E w \in Workers : Take(w) \/ Succeed(w) \/ Fail(w)
        \/ \E key \in Keys : Expire(key)
        \/ Crash
        \/ \E kind \in Kinds : Install(kind)
        \/ Upgrade
        \/ UNCHANGED vars
    BY Zenon DEF Next
  <2>2. MainStep => \/ Restart \/ Wire \/ StartFactory \/ VersionIsValid
                    \/ VersionIsOld \/ StartWorkers \/ WaitIsAborted \/ Stop \/ Exit
    BY Zenon DEF MainStep
  <2>3. QED
    BY <1>1, <1>2, <1>3, <1>4, <1>5, <1>6, <1>7, <1>8, <1>9, <1>10, <1>11, <1>12,
       <1>13, <1>14, <2>1, <2>2, Zenon

\* The process never leaves its types, however often it starts, is stopped and killed.
THEOREM TypeCorrect == Spec => []TypeOK
<1>1. IInv => TypeOK
  BY DEF IInv
<1>2. QED
  BY <1>1, InitIInv, NextIInv, PTL DEF Spec

\* The sets of the queue, its order and the workers always agree, and the fields that
\* NewController sets refer to the informers that the factories start.
THEOREM ProcessInvHolds == Spec => []ProcessInv
<1>1. IInv => ProcessInv
  BY DEF IInv
<1>2. QED
  BY <1>1, InitIInv, NextIInv, PTL DEF Spec

\* Workers read four synced caches, those of the informers that notify them:
\* all fields are set when the workers start, each refers to the one informer of
\* its factory, and that of hasSynced was seen synced.
THEOREM WorkersReadSyncedCaches == Spec => []ReadsAreSynced
<1>1. IInv => ReadsAreSynced
  <2> SUFFICES ASSUME IInv, NEW w \in Workers, busy[w] # None, NEW k \in Kinds
               PROVE  /\ uses["lister"][k] \in synced
                      /\ uses["handler"][k] = uses["lister"][k]
    BY DEF ReadsAreSynced
  <2>1. main \in {"running", "draining"} /\ AllSynced
    BY DEF IInv, ProcessInv, WorkersReadSynced
  <2>2. \A u \in Uses : uses[u][k] # None
    BY <2>1, AllSet DEF IInv, ProcessInv, Phases
  <2>3. \A u \in Uses : uses[u][k] = factories[FactoryOf[k]].informers[k]
    BY <2>2 DEF IInv, ProcessInv, Wired
  <2>4. uses["hasSynced"][k] \in synced
    BY <2>1 DEF AllSynced
  <2>5. QED
    BY <2>3, <2>4 DEF Uses
<1>2. QED
  BY <1>1, InitIInv, NextIInv, PTL DEF Spec

\* The queue in order, with its shutdown, implements the queue of Controller.
THEOREM QueueIsImplemented == Spec => ImplementsQueue
<1>1. Init => Queue!QueueInit
  BY DEF Init, FifoInit, Queue!QueueInit
<1>2. ASSUME IInv, [Next]_vars
      PROVE  [Queue!QueueNext(Keys)]_(Queue!queueVars)
  <2>1. CASE UNCHANGED <<dirty, processing, delayed>>
    BY <2>1 DEF Queue!queueVars
  <2>2. CASE FifoReset
    <3>1. Queue!QueueReset
      BY <2>2 DEF FifoReset, Queue!QueueReset
    <3>2. QED
      BY <3>1 DEF Queue!QueueNext
  <2>3. ASSUME NEW kind \in Kinds, NEW key \in Keys, Notify(kind, key)
        PROVE  [Queue!QueueNext(Keys)]_(Queue!queueVars)
    <3>1. \/ UNCHANGED <<dirty, processing, delayed>>
          \/ dirty' = dirty \cup {key} /\ UNCHANGED <<processing, delayed>>
      BY <2>3 DEF Notify, Add, Dirtied
    <3>2. CASE dirty' = dirty \cup {key} /\ UNCHANGED <<processing, delayed>>
      <4>1. Queue!Add({key})
        BY <3>2 DEF Queue!Add
      <4>2. QED
        BY <4>1 DEF Queue!QueueNext
    <3>3. QED
      BY <2>1, <3>1, <3>2
  <2>4. ASSUME NEW key \in Keys, Expire(key)
        PROVE  [Queue!QueueNext(Keys)]_(Queue!queueVars)
    <3>1. Queue!DelayExpires(key)
      BY <2>4 DEF Expire, DelayExpires, Dirtied, Queue!DelayExpires
    <3>2. QED
      BY <3>1 DEF Queue!QueueNext
  <2>5. ASSUME NEW w \in Workers, Take(w)
        PROVE  [Queue!QueueNext(Keys)]_(Queue!queueVars)
    <3>1. Get /\ Head(queue) \in dirty \ processing /\ Head(queue) \in Keys
      BY <1>2, <2>5, GetKeeps DEF Take, IInv, TypeOK, ProcessInv
    <3>2. Queue!Get(Head(queue))
      BY <3>1 DEF Get, Queue!Get
    <3>3. QED
      BY <3>1, <3>2 DEF Queue!QueueNext
  <2>6. ASSUME NEW w \in Workers, Succeed(w) \/ Fail(w)
        PROVE  [Queue!QueueNext(Keys)]_(Queue!queueVars)
    <3>1. busy[w] \in processing /\ busy[w] \in Keys
      BY <1>2, <2>6 DEF Succeed, Fail, IInv, TypeOK, FifoTypeOK, ProcessInv, WorkersInv
    <3>2. Queue!ForgetAndDone(busy[w]) \/ Queue!RetryAndDone(busy[w])
      BY <2>6 DEF Succeed, Fail, ForgetAndDone, RetryAndDone, Done,
                  Queue!ForgetAndDone, Queue!RetryAndDone
    <3>3. QED
      BY <3>1, <3>2 DEF Queue!QueueNext
  <2>7. QED
    <3>1. \/ UNCHANGED <<dirty, processing, delayed>> \/ FifoReset
          \/ \E kind \in Kinds, key \in Keys : Notify(kind, key)
          \/ \E key \in Keys : Expire(key)
          \/ \E w \in Workers : Take(w) \/ Succeed(w) \/ Fail(w)
      BY <1>2 DEF Next, MainStep, vars, fifoVars, Restart, Wire, StartFactory,
           VersionIsValid, VersionIsOld, CheckFails, StartWorkers, WaitIsAborted, Stop,
           Return, ShutDown, Exit, Ends, Signal, FirstSignal, SecondSignal, Sync, Crash,
           Install, Upgrade
    <3>2. QED
      BY <2>1, <2>2, <2>3, <2>4, <2>5, <2>6, <3>1
<1>3. QED
  BY <1>1, <1>2, InitIInv, NextIInv, PTL DEF Spec, ImplementsQueue

=============================================================================
