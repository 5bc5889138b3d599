----------------------------- MODULE FifoQueue -----------------------------
(***************************************************************************)
(* The queue of client-go in more detail than WorkQueue: the keys to be    *)
(* processed leave it in the order in which they entered, and it can be    *)
(* shut down.  It is here to show that what WorkQueue promises, and that   *)
(* every key is handed out eventually, is what the queue delivers to the   *)
(* controller.                                                             *)
(***************************************************************************)
EXTENDS Naturals, Sequences

VARIABLES
  queue,        \* the keys that are dirty and not in process, oldest first
  dirty, processing, delayed,   \* as in WorkQueue
  shuttingDown  \* ShutDown has been called

fifoVars == <<queue, dirty, processing, delayed, shuttingDown>>

FifoTypeOK(Keys) ==
  /\ queue \in Seq(Keys)
  /\ dirty \subseteq Keys
  /\ processing \subseteq Keys
  /\ delayed \subseteq Keys
  /\ shuttingDown \in BOOLEAN

FifoInit ==
  /\ queue = <<>>
  /\ dirty = {}
  /\ processing = {}
  /\ delayed = {}
  /\ shuttingDown = FALSE

\* A mistake: a key that some worker has is queued as well.
QueuedTwice(key) ==
  IF shuttingDown \/ key \in dirty THEN queue ELSE Append(queue, key)

\* The queue after key is added.
Queued(key) ==
  IF shuttingDown \/ key \in dirty \cup processing THEN queue ELSE Append(queue, key)

Dirtied(key) == IF shuttingDown THEN dirty ELSE dirty \cup {key}

Add(key) ==
  /\ queue' = Queued(key)
  /\ dirty' = Dirtied(key)
  /\ UNCHANGED <<processing, delayed, shuttingDown>>

\* A key is handed out.  While the queue is empty a worker waits, or is told
\* that there will be no more keys when the queue is shutting down.
Get ==
  /\ queue # <<>>
  /\ queue' = Tail(queue)
  /\ dirty' = dirty \ {Head(queue)}
  /\ processing' = processing \cup {Head(queue)}
  /\ UNCHANGED <<delayed, shuttingDown>>

\* A key that was added while a worker had it is queued when it is done.
Done(key) ==
  /\ processing' = processing \ {key}
  /\ queue' = IF key \in dirty THEN Append(queue, key) ELSE queue
  /\ UNCHANGED <<dirty, shuttingDown>>

ForgetAndDone(key) ==
  /\ Done(key)
  /\ UNCHANGED delayed

\* AddRateLimited(key), which a queue that is shutting down ignores, and Done.
RetryAndDone(key) ==
  /\ Done(key)
  /\ delayed' = IF shuttingDown THEN delayed ELSE delayed \cup {key}

DelayExpires(key) ==
  /\ key \in delayed
  /\ ~shuttingDown
  /\ delayed' = delayed \ {key}
  /\ queue' = Queued(key)
  /\ dirty' = Dirtied(key)
  /\ UNCHANGED <<processing, shuttingDown>>

ShutDown ==
  /\ shuttingDown' = TRUE
  /\ UNCHANGED <<queue, dirty, processing, delayed>>

\* A new process has a new queue.
FifoReset ==
  /\ queue' = <<>>
  /\ dirty' = {}
  /\ processing' = {}
  /\ delayed' = {}
  /\ shuttingDown' = FALSE

=============================================================================
