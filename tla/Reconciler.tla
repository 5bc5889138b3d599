----------------------------- MODULE Reconciler -----------------------------
(***************************************************************************)
(* What a controller promises of the objects it keeps, whatever it is made *)
(* of: an object it knows of is queued, being handled or settled; a change *)
(* of what is wanted queues it; it is settled only by being handled; and a *)
(* settled object is as wanted until somebody else overwrites it.          *)
(*                                                                         *)
(* Each object takes its own step, because one event may concern many.     *)
(***************************************************************************)
CONSTANTS
  Objects,   \* the names of the objects to keep
  Foreign,   \* what others write
  None       \* no such object

VARIABLES
  state,     \* state[o]: "unknown", "queued", "handled" or "settled"
  wanted,    \* wanted[o]: what o has to be, or None when nothing is known of that
  found,     \* found[o]: what o is
  known      \* known[o]: the latest version of o has been seen

vars == <<state, wanted, found, known>>

Init == state = [o \in Objects |-> "unknown"]

\* Any news of o, or a write of it that fails, queues it.
Queue(o) == state'[o] = "queued"

\* o has nothing to be derived from, or the controller starts again.
Forget(o) == state'[o] = "unknown"

Take(o) ==
  /\ state[o] = "queued"
  /\ state'[o] = "handled"
  /\ wanted'[o] = wanted[o]
  /\ found'[o] = found[o]

\* o is written as it is wanted now.
Settle(o) ==
  /\ state[o] = "handled"
  /\ state'[o] = "settled"
  /\ wanted'[o] = wanted[o]
  /\ found'[o] = IF wanted[o] = None THEN found[o] ELSE wanted[o]

\* Somebody else writes o, which will still be noticed.
Overwrite(o) ==
  /\ found'[o] \in Foreign
  /\ state'[o] = state[o]
  /\ wanted'[o] = wanted[o]
  /\ ~known'[o]

Rest(o) ==
  /\ state'[o] = state[o]
  /\ wanted'[o] = wanted[o]
  /\ found'[o] = found[o]
  /\ known'[o] = known[o]

Next ==
  \A o \in Objects :
    Queue(o) \/ Forget(o) \/ Take(o) \/ Settle(o) \/ Overwrite(o) \/ Rest(o)

Spec == Init /\ [][Next]_vars

\* A settled object is as wanted, unless a newer version of it is still unseen.
SettledAsWanted ==
  \A o \in Objects :
    state[o] = "settled" /\ known[o] /\ wanted[o] # None => found[o] = wanted[o]

=============================================================================
