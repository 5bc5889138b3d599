----------------------------- MODULE WorkQueue -----------------------------
(***************************************************************************)
(* The rate limiting work queue of client-go, as the controller uses it.   *)
(*                                                                         *)
(* A key is dirty when it has to be processed and in process while a       *)
(* worker has it; the queue proper holds the keys that are dirty and not   *)
(* in process, so a key is never handed to two workers at once and a key   *)
(* added while it is in process is queued again when it is done.  The      *)
(* order of the queue is abstracted to "every queued key is handed out     *)
(* eventually", the delay of a rate limited key to "later".                *)
(***************************************************************************)

VARIABLES
  dirty,        \* keys to be processed
  processing,   \* keys some worker has taken and not marked done
  delayed       \* keys the rate limiter will add again

queueVars == <<dirty, processing, delayed>>

QueueTypeOK(Keys) ==
  /\ dirty \subseteq Keys
  /\ processing \subseteq Keys
  /\ delayed \subseteq Keys

QueueInit ==
  /\ dirty = {}
  /\ processing = {}
  /\ delayed = {}

\* A mistake: a key that is in process is not marked dirty again.
AddUnlessProcessing(keys) ==
  /\ dirty' = dirty \cup (keys \ processing)
  /\ UNCHANGED <<processing, delayed>>

\* Adding a key that is already dirty changes nothing.
Add(keys) ==
  /\ dirty' = dirty \cup keys
  /\ UNCHANGED <<processing, delayed>>

\* A mistake: a dirty key is handed out although a worker still has it.
GetProcessing(key) ==
  /\ key \in dirty
  /\ dirty' = dirty \ {key}
  /\ processing' = processing \cup {key}
  /\ UNCHANGED delayed

Get(key) ==
  /\ key \in dirty \ processing
  /\ dirty' = dirty \ {key}
  /\ processing' = processing \cup {key}
  /\ UNCHANGED delayed

\* Forget(key) and then Done(key).  Forget only resets the back-off of the
\* key: it does not take back an add that is already waiting.
ForgetAndDone(key) ==
  /\ processing' = processing \ {key}
  /\ UNCHANGED <<dirty, delayed>>

\* AddRateLimited(key) and then Done(key).
RetryAndDone(key) ==
  /\ delayed' = delayed \cup {key}
  /\ processing' = processing \ {key}
  /\ UNCHANGED dirty

\* The back-off of a key is over.
DelayExpires(key) ==
  /\ key \in delayed
  /\ delayed' = delayed \ {key}
  /\ dirty' = dirty \cup {key}
  /\ UNCHANGED processing

\* The queue lives in memory: it is empty in a new process.
QueueReset ==
  /\ dirty' = {}
  /\ processing' = {}
  /\ delayed' = {}

\* What may happen to the queue, for a module that shows that it implements it.
QueueNext(Keys) ==
  \/ \E key \in Keys :
       \/ Add({key}) \/ Get(key) \/ DelayExpires(key)
       \/ key \in processing /\ (ForgetAndDone(key) \/ RetryAndDone(key))
  \/ QueueReset

=============================================================================
