-------------------------- MODULE ControllerHistory --------------------------
(***************************************************************************)
(* The controller with one history variable: the classes that were absent  *)
(* at some moment so far.  It only observes; it enables and prevents       *)
(* nothing.                                                                *)
(***************************************************************************)
EXTENDS ControllerProperties

VARIABLE gone

historyVars == <<vars, gone>>

Absent == {c \in ClassNames : sc[c] = None}

HistoryInit ==
  /\ Init
  /\ gone = Absent

HistoryNext ==
  /\ Next
  /\ gone' = gone \cup Absent'

HistorySpec == HistoryInit /\ [][HistoryNext]_historyVars

\* No worker takes a class that has existed all along for a deleted one and
\* deletes its StorageClassCapability (syncHandler, controller.go:291), however
\* often the process starts with empty caches, watches break or workers panic.
ExistingClassKept ==
  \A w \in Workers : worker[w].pc = "delete" => worker[w].key \in gone

=============================================================================
