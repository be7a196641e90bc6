------------------------------- MODULE Budget -------------------------------
(***************************************************************************)
(* The bound of the modules of the hub page, of its assets and of its media.  *)
(* What users, the network, failures and crashes do is unbounded in the       *)
(* program; here every kind of it has a number of times, which a step takes   *)
(* from.  Budgets is the set of scenarios: the first state picks one.         *)
(***************************************************************************)
EXTENDS Naturals

CONSTANTS
    Bound,   \* the kinds of steps that are bounded
    Budgets  \* the scenarios: how often each kind happens in a behaviour

ASSUME BudgetAssumption == Budgets \subseteq [Bound -> Nat]

VARIABLE left  \* how much of each bound is left

Spend(b) == left[b] > 0 /\ left' = [left EXCEPT ![b] = @ - 1]
=============================================================================
