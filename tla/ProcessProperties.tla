------------------------- MODULE ProcessProperties -------------------------
(***************************************************************************)
(* What the process promises: to the workers, to the queue's user, and to  *)
(* the administrator who stops it or waits for it to work.                 *)
(***************************************************************************)
EXTENDS Process

Queue == INSTANCE WorkQueue

\* The queue holds once, and only once, each key that is to be processed and
\* that no worker has.
Elements(q) == {q[i] : i \in 1..Len(q)}

NoDuplicates(q) == \A i, j \in 1..Len(q) : q[i] = q[j] => i = j

QueueInv ==
  /\ NoDuplicates(queue)
  /\ Elements(queue) = dirty \ processing

\* What the workers have is what is in process, and no two have the same key.
WorkersInv ==
  /\ processing = {busy[w] : w \in Workers} \ {None}
  /\ \A v, w \in Workers : busy[v] = busy[w] /\ busy[v] # None => v = w

\* The informer behind a field that has been set is the one its factory has.
Wired ==
  \A u \in Uses, k \in Kinds :
    uses[u][k] # None => factories[FactoryOf[k]].informers[k] = uses[u][k]

\* The fields that the calls made so far have set are set.
WiredInOrder ==
  /\ main = "exited" => step = 0
  /\ \A i \in 1..Len(Wiring) :
       (main = "wiring" /\ i <= step) \/ main \notin {"wiring", "exited"} =>
         uses[Wiring[i][1]][Wiring[i][2]] # None

\* The workers are started with synced caches, and caches stay synced.
WorkersReadSynced ==
  IF main \in {"running", "draining"}
    THEN AllSynced
    ELSE \A w \in Workers : busy[w] = None

\* The inductive invariant: the queue's sets, its order and the workers agree
\* (client-go's queue as Run uses it), and the fields of the controller refer to
\* the informers that the factories start (NewController, InformerFor).
ProcessInv == QueueInv /\ WorkersInv /\ Wired /\ WiredInOrder /\ WorkersReadSynced

\* A worker that syncs a class reads four caches that are complete, and they
\* are the caches of the informers that notify it, however often each factory
\* was asked for its informers (controller.go NewController, Run; factory.go).
ReadsAreSynced ==
  (\E w \in Workers : busy[w] # None) =>
    \A k \in Kinds :
      /\ uses["lister"][k] \in synced
      /\ uses["handler"][k] = uses["lister"][k]

\* The queue that Controller is built on: keys enter and leave the three sets as
\* WorkQueue says, a key never has two workers, a shutdown loses what it may.
ImplementsQueue ==
  Queue!QueueInit /\ [][Queue!QueueNext(Keys)]_(Queue!queueVars)

\* A key that is to be processed is taken by a worker, however often other keys
\* are added and fail, while the workers run.  This is the strong fairness that
\* Controller assumes of the queue.
NoStarvation ==
  \A key \in Keys :
    (main = "running" /\ key \in dirty) ~> (main # "running" \/ key \notin dirty)

\* A signal ends the process, wherever main is: also while it waits for a cache
\* that never syncs (SetupSignalHandler, WaitForCacheSync, Run).
Stops == (signals > 0 \/ stop) ~> (main = "exited")

\* Once the server is new enough and has all definitions, and nothing more goes
\* wrong, the workers run and go on running: every informer that Run waits for
\* is one that main started (main.go, factory.go Start, Run).
Runs ==
  <>[](installed = Kinds /\ server = "new") => <>[](main = "running")

=============================================================================
