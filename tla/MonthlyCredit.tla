--------------------------- MODULE MonthlyCredit ---------------------------
(***************************************************************************)
(* What the monthly payroll promises (the comments of RunMonthlyPayroll in *)
(* internal/store/store.go and of StartScheduler in                        *)
(* internal/payroll/scheduler.go): a budget is credited for a month that   *)
(* has begun, and at most once.  Which runs there are, and how they fail,  *)
(* overlap and are repeated, is left to Payroll and Scheduler.             *)
(***************************************************************************)
EXTENDS Integers

CONSTANTS Budgets, Months

VARIABLES
    month,    \* the current month
    credits   \* credits[b][m]: of budget b for month m

vars == <<month, credits>>

Init == month = 1 /\ credits = [b \in Budgets |-> [m \in Months |-> 0]]

\* A run credits some budgets for one month, none of them a second time.
Credit(S, m) ==
    /\ m <= month
    /\ \A b \in S : credits[b][m] = 0
    /\ credits' = [b \in Budgets |->
                     [credits[b] EXCEPT ![m] = IF b \in S THEN @ + 1 ELSE @]]
    /\ UNCHANGED month

MonthTurns == month' = month + 1 /\ UNCHANGED credits

Next == MonthTurns \/ \E S \in SUBSET Budgets, m \in Months : Credit(S, m)

Spec == Init /\ [][Next]_vars
=============================================================================
