--------------------------- MODULE MCComposition ---------------------------
(***************************************************************************)
(* A small instance of the sidecars with the controller, where users,      *)
(* drivers and faults together take at most MaxDisturbances steps.         *)
(***************************************************************************)
EXTENDS Composition, TLC

CONSTANTS MaxDisturbances, d1, v1, v2, r1, r2

VARIABLE disturbances   \* steps of users, drivers and faults so far

budgetVars == <<allVars, disturbances>>

\* The old release runs, and the class has a snapshot class of its driver.
BudgetInit ==
  /\ AllInit
  /\ \A s \in Sidecars : driver[s] = r1
  /\ \A c \in ClassNames : snap[c] = d1
  /\ disturbances = 0

BudgetNext ==
  \/ /\ disturbances < MaxDisturbances
     /\ disturbances' = disturbances + 1
     /\ AllEnvironment
  \/ /\ disturbances' = disturbances
     /\ Work

BudgetSpec ==
  /\ BudgetInit
  /\ [][BudgetNext]_budgetVars
  /\ ControllerFairness
  /\ SidecarFairness

OldReport == [name |-> d1, version |-> v1,
              plugin |-> <<"controllerService", "expandOnline">>,
              controller |-> {"createVolume", "otherRpc"},
              node |-> {"volumeStats"}]

NewReport == [name |-> d1, version |-> v2,
              plugin |-> <<"expandOffline", "accessibilityConstraints">>,
              controller |-> {"createVolume", "cloneVolume", "createSnapshot"},
              node |-> {}]

TwoReleases == (r1 :> OldReport) @@ (r2 :> NewReport)

OneClass == {[provisioner |-> d1, allowExpansion |-> "true"]}

=============================================================================
