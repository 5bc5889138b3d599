------------------------- MODULE MCControllerBudget -------------------------
(***************************************************************************)
(* The controller with several classes and drivers, where users and faults *)
(* together take at most MaxDisturbances steps, with the history of absent *)
(* classes.                                                                *)
(***************************************************************************)
EXTENDS ControllerHistory, MCController, Naturals, TLC

CONSTANT MaxDisturbances

VARIABLE disturbances   \* steps of users and faults so far

budgetVars == <<historyVars, disturbances>>

BudgetInit ==
  /\ HistoryInit
  /\ disturbances = 0

BudgetNext ==
  \/ /\ disturbances < MaxDisturbances
     /\ Users \/ Faults
     /\ disturbances' = disturbances + 1
     /\ gone' = gone \cup Absent'
  \/ /\ System
     /\ UNCHANGED disturbances
     /\ gone' = gone \cup Absent'

BudgetSpec == BudgetInit /\ [][BudgetNext]_budgetVars

ClassSymmetry == Permutations(ClassNames) \cup Permutations(Workers)

=============================================================================
