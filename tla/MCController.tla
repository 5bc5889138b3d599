---------------------------- MODULE MCController ----------------------------
(***************************************************************************)
(* Small instances of the controller.  The state space is finite without a *)
(* bound: users, sidecars, crashes and faults are never limited.           *)
(***************************************************************************)
EXTENDS ControllerProperties

CONSTANTS d1, d2, b1, s1   \* two drivers, a base, the snapshot features

Class(p, allow) == [provisioner |-> p, allowExpansion |-> allow]

\* Classes of one driver: allowing expansion; forbidding it; allowing it or not
\* saying.
OneClass == {Class(d1, "true")}
FalseClass == {Class(d1, "false")}
TrueOrNil == {Class(d1, "true"), Class(d1, "nil")}

\* A class of either driver; that of the second one does not say whether it
\* allows expansion.
EitherDriver == {Class(d1, "true"), Class(d2, "nil")}

Publish(mode) == [base |-> b1, expand |-> mode, snapshot |-> s1]

\* What the drivers publish: always the same; one of two modes; each driver a
\* mode of its own.
SameModes == [p \in Provisioners |-> {Publish("ONLINE")}]
TwoModes == [p \in Provisioners |-> {Publish("ONLINE"), Publish("OFFLINE")}]
OwnModes ==
  [p \in Provisioners |-> {Publish(IF p = d1 THEN "ONLINE" ELSE "OFFLINE")}]

\* Users delete a StorageClassCapability, or also write one of their own.
Deletion == {None}
AnyEdit == {None, [provisioner |-> d1, base |-> b1, expand |-> "UNKNOWN",
                   snapshot |-> NoSnapshot]}

=============================================================================
