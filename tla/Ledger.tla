------------------------------- MODULE Ledger -------------------------------
(***************************************************************************)
(* The payroll of internal/store/store.go without its transactions: the    *)
(* committed tables, and every operation of the store as one step of them. *)
(* A run is what RunMonthlyPayroll and RunBudgetPayroll would be if        *)
(* nothing else happened meanwhile: it pays budgets that are there and due *)
(* on the tables as they are, and moves money only from the sources these  *)
(* tables name.  Statements, locks, copies and aborts are left to Payroll, *)
(* as is how a deficit is divided over the sources.                        *)
(***************************************************************************)
EXTENDS Integers, Functions

CONSTANTS Budgets, Months, Never, UnitsPerCent, MaxSkew

VARIABLES
    appMonth, dbMonth,                               \* the two clocks
    status, payroll, runAt, auto, weight, balance    \* the tables

clock == <<appMonth, dbMonth>>
vars  == <<clock, status, payroll, runAt, auto, weight, balance>>

IsLive(b) == status[b] = "live"
Linked(b, s) == weight[b][s] > 0
LinksLive == \A b, s \in Budgets : Linked(b, s) => b # s /\ IsLive(b) /\ IsLive(s)

Init ==
    /\ appMonth = 1 /\ dbMonth = 1
    /\ runAt = [b \in Budgets |-> Never]
    /\ LinksLive

-----------------------------------------------------------------------------
\* What auto-balance may add to the balances when the budgets P are paid: cents
\* that leave a source of one of them and reach one of them, and no others.
Moves(P, move) ==
    /\ SumFunction(move) = 0
    /\ \A b \in Budgets :
          /\ move[b] % UnitsPerCent = 0
          /\ move[b] > 0 => b \in P /\ auto[b]
          /\ move[b] < 0 => \E t \in P : auto[t] /\ Linked(t, b)

PayrollOf(P, b) == IF b \in P THEN payroll[b] * UnitsPerCent ELSE 0

\* A run called in month m pays the budgets P and stamps them with `stamp`, the
\* month of NOW() in its transaction.
Run(P, m, stamp) ==
    /\ \A b \in P : IsLive(b) /\ payroll[b] > 0
    /\ m <= appMonth /\ stamp <= dbMonth /\ m <= stamp + MaxSkew
    /\ Moves(P, [b \in Budgets |-> balance'[b] - balance[b] - PayrollOf(P, b)])
    /\ runAt' = [b \in Budgets |-> IF b \in P THEN stamp ELSE runAt[b]]
    /\ UNCHANGED <<clock, status, payroll, auto, weight>>

MonthlyRun(P, m, stamp) == Run(P, m, stamp) /\ \A b \in P : runAt[b] < m
ForcedRun(b, m, stamp) == Run({b}, m, stamp)

Configure(b, on, row) ==
    /\ IsLive(b)
    /\ \A s \in Budgets : row[s] > 0 => s # b /\ IsLive(s)
    /\ auto' = [auto EXCEPT ![b] = on]
    /\ weight' = [weight EXCEPT ![b] = row]
    /\ UNCHANGED <<clock, status, payroll, runAt, balance>>

-----------------------------------------------------------------------------
Create(b) ==
    /\ status[b] = "unborn"
    /\ status' = [status EXCEPT ![b] = "live"]
    /\ \A c \in Budgets \ {b} : payroll'[c] = payroll[c]
    /\ UNCHANGED <<clock, runAt, auto, weight, balance>>

SetPayroll(b) ==
    /\ IsLive(b)
    /\ \A c \in Budgets \ {b} : payroll'[c] = payroll[c]
    /\ UNCHANGED <<clock, status, runAt, auto, weight, balance>>

\* Nothing of a deleted budget stays, and no link to it.
Delete(b) ==
    /\ IsLive(b)
    /\ status' = [status EXCEPT ![b] = "deleted"]
    /\ payroll' = [payroll EXCEPT ![b] = 0]
    /\ runAt' = [runAt EXCEPT ![b] = Never]
    /\ auto' = [auto EXCEPT ![b] = FALSE]
    /\ weight' = [t \in Budgets |-> [s \in Budgets |->
                    IF b \in {t, s} THEN 0 ELSE weight[t][s]]]
    /\ balance' = [balance EXCEPT ![b] = 0]
    /\ UNCHANGED clock

\* An entry of one live budget is recorded, changed or removed.
Enter(b) ==
    /\ IsLive(b)
    /\ \A c \in Budgets \ {b} : balance'[c] = balance[c]
    /\ UNCHANGED <<clock, status, payroll, runAt, auto, weight>>

Tick ==
    /\ appMonth' \in {appMonth, appMonth + 1}
    /\ dbMonth' \in {dbMonth, dbMonth + 1}
    /\ UNCHANGED <<status, payroll, runAt, auto, weight, balance>>

Next ==
    \/ \E m, stamp \in Months :
          \/ \E P \in SUBSET Budgets : MonthlyRun(P, m, stamp)
          \/ \E b \in Budgets : ForcedRun(b, m, stamp)
    \/ \E b \in Budgets : \/ \E on \in BOOLEAN : Configure(b, on, weight'[b])
                          \/ Create(b) \/ SetPayroll(b) \/ Delete(b) \/ Enter(b)
    \/ Tick

Spec == Init /\ [][Next]_vars
=============================================================================
