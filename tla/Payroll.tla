------------------------------ MODULE Payroll ------------------------------
(***************************************************************************)
(* The payroll of internal/store/store.go: RunMonthlyPayroll and           *)
(* RunBudgetPayroll as the database transactions they are, one action per  *)
(* statement that can wait, fail or be overtaken, together with the other  *)
(* operations of the store that write what a run reads.                    *)
(*                                                                         *)
(* PostgreSQL, READ COMMITTED, is modelled by what the code uses of it: a  *)
(* statement sees the committed tables and its own transaction's writes,   *)
(* NOW() is the time the transaction began, row locks are kept until the   *)
(* transaction ends, a foreign key is checked under a KEY SHARE lock of    *)
(* the referenced row, and a cycle of waiting transactions is broken by    *)
(* aborting one of them.                                                   *)
(*                                                                         *)
(* Time is counted in months: `now` is compared only after truncation to   *)
(* monthStart, and payroll_run_at only with a monthStart.  Amounts are     *)
(* integers, in units of 1 / UnitsPerCent of a cent.                       *)
(***************************************************************************)
EXTENDS LargestRemainder

CONSTANTS
    Budgets,         \* budget ids
    MonthlyCallers,  \* the scheduler, and the requests POST /payroll/run
    ForcedCallers,   \* requests POST /budgets/{id}/payroll/run (force = true)
    ConfigCallers,   \* requests PUT /budgets/{id}/auto-balance
    InitTables,      \* what the tables may hold at the start
    Payrolls,        \* the payroll amounts a user may set, in cents
    Entries,         \* the signed amounts a user may record, in units
    Edits,           \* by how much changing or deleting an entry moves a balance
    Rows,            \* the source rows a user may ask for
    UnitsPerCent,
    TickDuring,      \* the phases of a call in which a month may turn
    MaxSkew,         \* by how many months the two clocks may differ
    MaxMonth, MaxCalls, MaxOps  \* bounds: months, calls per caller, user writes

Callers == MonthlyCallers \cup ForcedCallers \cup ConfigCallers
RunCallers == MonthlyCallers \cup ForcedCallers
Months == 1..MaxMonth
Never == 0         \* payroll_run_at IS NULL, earlier than every month
NoBudget == 0

ASSUME BudgetsAssumption ==
    /\ Budgets \subseteq Nat \ {NoBudget} /\ IsFiniteSet(Budgets)
ASSUME CallersAssumption ==
    /\ IsFiniteSet(Callers)
    /\ MonthlyCallers \cap ForcedCallers = {}
    /\ ConfigCallers \cap RunCallers = {}
ASSUME AmountsAssumption ==
    /\ Payrolls \subseteq Nat /\ Entries \subseteq Int /\ Edits \subseteq Int
    /\ UnitsPerCent \in Nat \ {0}
ASSUME TablesAssumption ==
    /\ Rows \subseteq [Budgets -> 0..100]
    /\ InitTables \subseteq [live : SUBSET Budgets, payroll : [Budgets -> Nat],
                             weight : [Budgets -> [Budgets -> 0..100]],
                             balance : [Budgets -> Int]]
    /\ \A t \in InitTables : \A b, s \in Budgets :
          t.weight[b][s] > 0 => b # s /\ b \in t.live /\ s \in t.live
    /\ \A t \in InitTables : \A b \in Budgets \ t.live :
          t.payroll[b] = 0 /\ t.balance[b] = 0
ASSUME BoundsAssumption ==
    /\ TickDuring \subseteq {"call", "monthly", "forced"}
    /\ MaxSkew \in Nat /\ MaxMonth \in Nat \ {0}
    /\ MaxCalls \in Nat /\ MaxOps \in Nat

VARIABLES
    appMonth, dbMonth,  \* time.Now() in the process, and the database's clock
    \* the committed tables: budgets, budget_auto_balance_sources, transacts
    status,             \* a budget row is "unborn", "live" or "deleted"
    payroll, runAt, auto,
    weight,             \* weight[b][s]: of source s of b, 0 when there is no row
    balance,            \* the signed sum of a budget's transacts
    \* what a caller in flight has: its arguments, its transaction, its loop
    pc,
    target,             \* budgetID of a forced run or of a config request
    req,                \* a config request's enabled flag and sources
    now,                \* the month of the argument `now`
    txNow,              \* the month of NOW() in its transaction
    todo,               \* rows its locking statement has still to visit
    seen,               \* the payrollBudget copies it scanned
    due, paid,          \* pending: still to process, and processed
    cur,                \* the budget in runPayrollForBudgetTx
    owed, moved,        \* auto-balance: cents still to debit, cents debited
    delta,              \* its own uncommitted auto-balance entries
    holds,              \* its row locks on budgets
    \* history: unforced credits per budget and month, months ever credited
    unforced, paidFor,
    calls, ops          \* used up of the bounds

clock   == <<appMonth, dbMonth>>
table   == <<status, payroll, runAt, auto, weight, balance>>
args    == <<target, req, now>>
scan    == <<todo, seen>>
loop    == <<due, paid>>
cover   == <<cur, owed, moved>>
history == <<unforced, paidFor>>
bounds  == <<calls, ops>>
vars == <<clock, table, pc, args, txNow, scan, loop, cover, delta, holds,
          history, bounds>>

-----------------------------------------------------------------------------
(* Row locks.  Two locks of different transactions on one row conflict     *)
(* when their strengths add up to more than 3: KEY SHARE only with         *)
(* FOR UPDATE, NO KEY UPDATE (a plain UPDATE) with itself and FOR UPDATE.  *)

NoLock == 0

\* Mutant: an entry's budget_id without a foreign key.
NoForeignKey == NoLock
KeyShare == 1
NoKeyUpdate == 2

\* Mutants: the SELECT of a run without FOR UPDATE, and with weaker clauses.
PlainSelect == NoLock
ForKeyShare == KeyShare
ForNoKeyUpdate == NoKeyUpdate
ForUpdate == 3

LockModes == NoLock..ForUpdate
Conflict(l, m) == l + m > 3

CanLock(p, b, mode) == \A q \in Callers \ {p} : ~Conflict(holds[q][b], mode)
TakeLock(p, b, mode) ==
    holds' = [holds EXCEPT ![p][b] = IF @ < mode THEN mode ELSE @]

\* A statement outside the runs locks its row for that statement only.
Free(b, mode) == \A q \in Callers : ~Conflict(holds[q][b], mode)

-----------------------------------------------------------------------------
Zero == [b \in Budgets |-> 0]
NoCopy == [payroll |-> 0, auto |-> FALSE]
NoRequest == [on |-> FALSE, row |-> Zero]
Live == {b \in Budgets : status[b] = "live"}
InTx(p) == pc[p] \notin {"idle", "called"}

\* SUM(transacts) of b as the transaction of p sees it, and its deficit in
\* cents: math.Round rounds half a cent up.
View(p, b) == balance[b] + delta[p][b]
RoundCents(units) == (2 * units + UnitsPerCent) \div (2 * UnitsPerCent)
DeficitCents(p, b) == IF View(p, b) >= 0 THEN 0 ELSE RoundCents(-View(p, b))

Init ==
    /\ appMonth = 1 /\ dbMonth = 1
    /\ \E t \in InitTables :
          /\ status = [b \in Budgets |-> IF b \in t.live THEN "live" ELSE "unborn"]
          /\ payroll = t.payroll /\ weight = t.weight /\ balance = t.balance
          /\ auto = [b \in Budgets |-> \E s \in Budgets : t.weight[b][s] > 0]
    /\ runAt = [b \in Budgets |-> Never]
    /\ pc = [p \in Callers |-> "idle"]
    /\ target = [p \in Callers |-> NoBudget]
    /\ req = [p \in Callers |-> NoRequest]
    /\ now = [p \in Callers |-> Never] /\ txNow = [p \in Callers |-> Never]
    /\ todo = [p \in Callers |-> {}]
    /\ seen = [p \in Callers |-> [b \in Budgets |-> NoCopy]]
    /\ due = [p \in Callers |-> {}] /\ paid = [p \in Callers |-> {}]
    /\ cur = [p \in Callers |-> NoBudget]
    /\ owed = [p \in Callers |-> Zero] /\ moved = [p \in Callers |-> 0]
    /\ delta = [p \in Callers |-> Zero]
    /\ holds = [p \in Callers |-> [b \in Budgets |-> NoLock]]
    /\ unforced = [b \in Budgets |-> [m \in Months |-> 0]] /\ paidFor = {}
    /\ calls = [p \in Callers |-> 0] /\ ops = 0

-----------------------------------------------------------------------------
(* Calls.                                                                  *)

\* The handlers and the scheduler evaluate time.Now() when they call the store;
\* the transaction, and with it NOW(), begins later.  ensureBudgetAccess, in
\* between for a forced run, reads only and may fail: that is an Abort here.
StartCall(p) ==
    /\ pc[p] = "idle" /\ calls[p] < MaxCalls
    /\ pc' = [pc EXCEPT ![p] = "called"]
    /\ calls' = [calls EXCEPT ![p] = @ + 1]
    /\ UNCHANGED <<clock, table, txNow, scan, loop, cover, delta, holds, history,
                   ops>>

CallMonthly(p) ==
    /\ p \in MonthlyCallers
    /\ StartCall(p)
    /\ now' = [now EXCEPT ![p] = appMonth]
    /\ UNCHANGED <<target, req>>

CallForced(p, b) ==
    /\ p \in ForcedCallers
    /\ StartCall(p)
    /\ now' = [now EXCEPT ![p] = appMonth]
    /\ target' = [target EXCEPT ![p] = b]
    /\ UNCHANGED req

\* The target is never its own source; the map keeps the sources distinct.
CallConfig(p, b, on, row) ==
    /\ p \in ConfigCallers
    /\ row[b] = 0
    /\ StartCall(p)
    /\ target' = [target EXCEPT ![p] = b]
    /\ req' = [req EXCEPT ![p] = [on |-> on, row |-> row]]
    /\ UNCHANGED now

Begin(p) ==
    /\ pc[p] = "called"
    /\ pc' = [pc EXCEPT ![p] = "open"]
    /\ txNow' = [txNow EXCEPT ![p] = dbMonth]
    /\ UNCHANGED <<clock, table, args, scan, loop, cover, delta, holds, history,
                   bounds>>

\* The end of a call, however it ends: COMMIT and ROLLBACK release every lock.
Return(p) ==
    /\ pc' = [pc EXCEPT ![p] = "idle"]
    /\ target' = [target EXCEPT ![p] = NoBudget]
    /\ req' = [req EXCEPT ![p] = NoRequest]
    /\ now' = [now EXCEPT ![p] = Never] /\ txNow' = [txNow EXCEPT ![p] = Never]
    /\ todo' = [todo EXCEPT ![p] = {}]
    /\ seen' = [seen EXCEPT ![p] = [b \in Budgets |-> NoCopy]]
    /\ due' = [due EXCEPT ![p] = {}] /\ paid' = [paid EXCEPT ![p] = {}]
    /\ cur' = [cur EXCEPT ![p] = NoBudget]
    /\ owed' = [owed EXCEPT ![p] = Zero] /\ moved' = [moved EXCEPT ![p] = 0]
    /\ delta' = [delta EXCEPT ![p] = Zero]
    /\ holds' = [holds EXCEPT ![p] = [b \in Budgets |-> NoLock]]
    /\ UNCHANGED <<clock, bounds>>

\* Mutant: an error return without the deferred Rollback.
LeaveOpen(p) ==
    /\ pc[p] # "idle"
    /\ pc' = [pc EXCEPT ![p] = "idle"]
    /\ UNCHANGED <<clock, table, args, txNow, scan, loop, cover, delta, holds,
                   history, bounds>>

\* A cancelled or timed-out context, a lost connection, an error of any
\* statement: the deferred Rollback leaves the tables as they were.
Abort(p) ==
    /\ pc[p] # "idle"
    /\ Return(p)
    /\ UNCHANGED <<table, history>>

-----------------------------------------------------------------------------
(* The locking SELECT of a run: its snapshot picks the rows, then each is  *)
(* locked, re-read and tested again.                                       *)

\* WHERE payroll > 0 AND (payroll_run_at IS NULL OR payroll_run_at < monthStart),
\* and for a forced run the guard after its SELECT ... WHERE id = $1.
\* Mutant: a run on the first of the month itself is not counted.
NotRunLater(p, b) == runAt[b] <= now[p]
NotRunYet(p, b) == runAt[b] < now[p]
Payable(p, b) ==
    /\ status[b] = "live" /\ payroll[b] > 0
    /\ p \in MonthlyCallers => NotRunYet(p, b)

Select(p) ==
    /\ p \in RunCallers /\ pc[p] = "open"
    /\ pc' = [pc EXCEPT ![p] = "batch"]
    /\ todo' = [todo EXCEPT ![p] =
                  IF p \in MonthlyCallers THEN {b \in Budgets : Payable(p, b)}
                                          ELSE {target[p]} \cap Live]
    /\ UNCHANGED <<clock, table, args, txNow, seen, loop, cover, delta, holds,
                   history, bounds>>

\* A row that no longer satisfies the WHERE clause is skipped, though locked; a
\* forced run of a budget without payroll commits nothing.
LockRow(p, b) ==
    /\ pc[p] = "batch" /\ b \in todo[p]
    /\ status[b] = "live"
    /\ CanLock(p, b, ForUpdate)
    /\ TakeLock(p, b, ForUpdate)
    /\ todo' = [todo EXCEPT ![p] = @ \ {b}]
    /\ IF Payable(p, b)
       THEN /\ seen' = [seen EXCEPT ![p][b] =
                          [payroll |-> payroll[b], auto |-> auto[b]]]
            /\ due' = [due EXCEPT ![p] = @ \cup {b}]
       ELSE UNCHANGED <<seen, due>>
    /\ UNCHANGED <<clock, table, pc, args, txNow, paid, cover, delta, history,
                   bounds>>

\* The row was deleted after the snapshot: nothing to lock.
SkipRow(p, b) ==
    /\ pc[p] = "batch" /\ b \in todo[p]
    /\ status[b] # "live"
    /\ todo' = [todo EXCEPT ![p] = @ \ {b}]
    /\ UNCHANGED <<clock, table, pc, args, txNow, seen, loop, cover, delta, holds,
                   history, bounds>>

-----------------------------------------------------------------------------
(* runPayrollForBudgetTx, for each budget found due.  Its own two guards   *)
(* repeat, on the same copies, what LockRow tested.                        *)

\* applyAutoBalanceTx as far as its INSERTs: read the balance and the sources,
\* divide the deficit.
Cover(p, b) ==
    /\ pc[p] = "batch" /\ todo[p] = {} /\ b \in due[p]
    /\ pc' = [pc EXCEPT ![p] = "moving"]
    /\ cur' = [cur EXCEPT ![p] = b]
    /\ \E share \in Shares(IF seen[p][b].auto THEN DeficitCents(p, b) ELSE 0,
                           weight[b]) :
          owed' = [owed EXCEPT ![p] = share]
    /\ UNCHANGED <<clock, table, args, txNow, scan, loop, moved, delta, holds,
                   history, bounds>>

\* Debits go by ascending source id; a share of zero has no entry.  The foreign
\* key of the new row locks the source.
NextSource(p, s) == owed[p][s] > 0 /\ \A r \in Budgets : r < s => owed[p][r] = 0
Debit(p, s) ==
    /\ pc[p] = "moving" /\ NextSource(p, s)
    /\ status[s] = "live" /\ CanLock(p, s, KeyShare)
    /\ TakeLock(p, s, KeyShare)
    /\ delta' = [delta EXCEPT ![p][s] = @ - owed[p][s] * UnitsPerCent]
    /\ moved' = [moved EXCEPT ![p] = @ + owed[p][s]]
    /\ owed' = [owed EXCEPT ![p][s] = 0]
    /\ UNCHANGED <<clock, table, pc, args, txNow, scan, loop, cur, history, bounds>>

\* The source was deleted after its row was read: the foreign key fails, and
\* with it the whole run.
DebitFails(p, s) ==
    /\ pc[p] = "moving" /\ NextSource(p, s) /\ status[s] # "live"
    /\ Abort(p)

\* The credit a covered budget gets is the sum of the debits.
Credit(p) == moved[p] * UnitsPerCent

\* That credit if there is any, the payroll entry, and payroll_run_at = NOW():
\* all on a row this transaction holds, so nothing can come in between.
Pay(p) ==
    /\ pc[p] = "moving" /\ owed[p] = Zero
    /\ pc' = [pc EXCEPT ![p] = "batch"]
    /\ delta' = [delta EXCEPT ![p][cur[p]] = @ + Credit(p)]
    /\ moved' = [moved EXCEPT ![p] = 0]
    /\ due' = [due EXCEPT ![p] = @ \ {cur[p]}]
    /\ paid' = [paid EXCEPT ![p] = @ \cup {cur[p]}]
    /\ cur' = [cur EXCEPT ![p] = NoBudget]
    /\ UNCHANGED <<clock, table, args, txNow, scan, owed, holds, history, bounds>>

\* payroll_run_at = NOW().  Mutant: the time of the statement instead.
ClockTimestamp(p) == dbMonth
Stamp(p) == txNow[p]

\* The caller may be told of a failure although the commit took effect; it is
\* then as free to call again as after any other outcome.
Commit(p) ==
    /\ pc[p] = "batch" /\ todo[p] = {} /\ due[p] = {}
    /\ balance' = [b \in Budgets |-> balance[b] + delta[p][b]
                     + (IF b \in paid[p] THEN seen[p][b].payroll * UnitsPerCent
                                         ELSE 0)]
    /\ runAt' = [b \in Budgets |-> IF b \in paid[p] THEN Stamp(p) ELSE runAt[b]]
    /\ unforced' = [b \in Budgets |-> [m \in Months |->
                      IF p \in MonthlyCallers /\ b \in paid[p] /\ m = now[p]
                      THEN unforced[b][m] + 1 ELSE unforced[b][m]]]
    /\ paidFor' = paidFor \cup (paid[p] \X {now[p]})
    /\ Return(p)
    /\ UNCHANGED <<status, payroll, auto, weight>>

-----------------------------------------------------------------------------
(* UpdateAutoBalanceConfig.                                                *)

\* UPDATE budgets, DELETE of the old rows; the new ones are inserted one by one.
LockTarget(p) ==
    /\ p \in ConfigCallers /\ pc[p] = "open"
    /\ status[target[p]] = "live" /\ CanLock(p, target[p], NoKeyUpdate)
    /\ TakeLock(p, target[p], NoKeyUpdate)
    /\ pc' = [pc EXCEPT ![p] = "linking"]
    /\ todo' = [todo EXCEPT ![p] = Weighted(req[p].row)]
    /\ UNCHANGED <<clock, table, args, txNow, seen, loop, cover, delta, history,
                   bounds>>

TargetMissing(p) ==
    /\ p \in ConfigCallers /\ pc[p] = "open" /\ status[target[p]] # "live"
    /\ Abort(p)

\* In the order of the request's slice, which is the client's.
LinkSource(p, s) ==
    /\ pc[p] = "linking" /\ s \in todo[p]
    /\ status[s] = "live" /\ CanLock(p, s, KeyShare)
    /\ TakeLock(p, s, KeyShare)
    /\ todo' = [todo EXCEPT ![p] = @ \ {s}]
    /\ UNCHANGED <<clock, table, pc, args, txNow, seen, loop, cover, delta, history,
                   bounds>>

LinkFails(p, s) ==
    /\ pc[p] = "linking" /\ s \in todo[p] /\ status[s] # "live"
    /\ Abort(p)

CommitConfig(p) ==
    /\ pc[p] = "linking" /\ todo[p] = {}
    /\ auto' = [auto EXCEPT ![target[p]] = req[p].on]
    /\ weight' = [weight EXCEPT ![target[p]] = req[p].row]
    /\ Return(p)
    /\ UNCHANGED <<status, payroll, runAt, balance, history>>

-----------------------------------------------------------------------------
(* The other writers, each a single statement, or a transaction of which   *)
(* nothing shows before its end.                                           *)

Write == ops < MaxOps /\ ops' = ops + 1
UserWrite ==
    /\ Write
    /\ UNCHANGED <<clock, pc, args, txNow, scan, loop, cover, delta, holds,
                   history, calls>>

CreateBudget(b, amount) ==
    /\ status[b] = "unborn"
    /\ status' = [status EXCEPT ![b] = "live"]
    /\ payroll' = [payroll EXCEPT ![b] = amount]
    /\ UserWrite
    /\ UNCHANGED <<runAt, auto, weight, balance>>

UpdateBudget(b, amount) ==
    /\ status[b] = "live" /\ Free(b, NoKeyUpdate)
    /\ payroll' = [payroll EXCEPT ![b] = amount]
    /\ UserWrite
    /\ UNCHANGED <<status, runAt, auto, weight, balance>>

\* Its entries, its source rows and the rows it is a source in go with it.
DeleteBudget(b) ==
    /\ status[b] = "live" /\ Free(b, ForUpdate)
    /\ status' = [status EXCEPT ![b] = "deleted"]
    /\ payroll' = [payroll EXCEPT ![b] = 0]
    /\ runAt' = [runAt EXCEPT ![b] = Never]
    /\ auto' = [auto EXCEPT ![b] = FALSE]
    /\ weight' = [t \in Budgets |-> [s \in Budgets |->
                    IF b \in {t, s} THEN 0 ELSE weight[t][s]]]
    /\ balance' = [balance EXCEPT ![b] = 0]
    /\ UserWrite

\* The foreign key of the new entry locks its budget.
CreateTransaction(b, amount) ==
    /\ status[b] = "live" /\ Free(b, KeyShare)
    /\ balance' = [balance EXCEPT ![b] = @ + amount]
    /\ UserWrite
    /\ UNCHANGED <<status, payroll, runAt, auto, weight>>

\* UpdateTransaction and DeleteTransaction change an entry and lock no budget.
EditTransaction(b, change) ==
    /\ status[b] = "live"
    /\ balance' = [balance EXCEPT ![b] = @ + change]
    /\ UserWrite
    /\ UNCHANGED <<status, payroll, runAt, auto, weight>>

-----------------------------------------------------------------------------
(* The month turns, for the process and for the database: together when    *)
(* MaxSkew = 0, and only in the phases of a call that TickDuring allows.   *)

Phase(p) ==
    CASE pc[p] = "idle" \/ p \in ConfigCallers -> "none"
      [] pc[p] = "called" /\ p \in RunCallers  -> "call"
      [] InTx(p) /\ p \in MonthlyCallers       -> "monthly"
      [] InTx(p) /\ p \in ForcedCallers        -> "forced"

Apart(a, d) == IF a < d THEN d - a ELSE a - d

TurnMonth ==
    /\ \A p \in Callers : Phase(p) \in TickDuring \cup {"none"}
    /\ appMonth' \in Months \cap {appMonth, appMonth + 1}
    /\ dbMonth' \in Months \cap {dbMonth, dbMonth + 1}
    /\ Apart(appMonth', dbMonth') <= MaxSkew
    /\ UNCHANGED <<table, pc, args, txNow, scan, loop, cover, delta, holds,
                   history, bounds>>

-----------------------------------------------------------------------------
(* A transaction waits for the holder of a conflicting lock on the row it  *)
(* needs next; PostgreSQL aborts one of a cycle of them.                   *)

Requests(p) ==
    CASE pc[p] = "batch"   -> (todo[p] \cap Live) \X {ForUpdate}
      [] pc[p] = "moving"  -> {s \in Live : NextSource(p, s)} \X {KeyShare}
      [] pc[p] = "linking" -> (todo[p] \cap Live) \X {KeyShare}
      [] pc[p] = "open" /\ p \in ConfigCallers
                           -> ({target[p]} \cap Live) \X {NoKeyUpdate}
      [] OTHER             -> {}

WaitsFor(p, q) ==
    /\ p # q /\ Requests(p) # {}
    /\ \A r \in Requests(p) : ~CanLock(p, r[1], r[2])
    /\ \E r \in Requests(p) : Conflict(holds[q][r[1]], r[2])

Deadlocked(p) ==
    \E D \in SUBSET Callers :
        /\ p \in D
        /\ \A q \in D : /\ \E r \in D : WaitsFor(q, r)
                        /\ \E r \in D : WaitsFor(r, q)

BreakDeadlock(p) == Deadlocked(p) /\ Abort(p)

-----------------------------------------------------------------------------
Call(p) ==
    \/ CallMonthly(p)
    \/ \E b \in Budgets : CallForced(p, b)
    \/ \E b \in Budgets, on \in BOOLEAN, row \in Rows : CallConfig(p, b, on, row)

\* The next statement of a caller in flight.
Statement(p) ==
    \/ Begin(p) \/ Select(p) \/ Pay(p) \/ Commit(p)
    \/ LockTarget(p) \/ TargetMissing(p) \/ CommitConfig(p)
    \/ \E b \in Budgets : \/ LockRow(p, b) \/ SkipRow(p, b) \/ Cover(p, b)
                          \/ Debit(p, b) \/ DebitFails(p, b)
                          \/ LinkSource(p, b) \/ LinkFails(p, b)

UserWrites ==
    \E b \in Budgets :
        \/ \E amount \in Payrolls : CreateBudget(b, amount) \/ UpdateBudget(b, amount)
        \/ DeleteBudget(b)
        \/ \E amount \in Entries : CreateTransaction(b, amount)
        \/ \E change \in Edits : EditTransaction(b, change)

Next ==
    \/ \E p \in Callers : Call(p) \/ Statement(p) \/ Abort(p) \/ BreakDeadlock(p)
    \/ UserWrites
    \/ TurnMonth

Spec == Init /\ [][Next]_vars

\* A transaction that can go on does, and a deadlock is found; users, the clock
\* and aborts owe nothing.
FairSpec ==
    /\ Spec
    /\ \A p \in Callers : WF_vars(Statement(p)) /\ WF_vars(BreakDeadlock(p))

-----------------------------------------------------------------------------
(* Properties.                                                             *)

CopyType == [payroll : Nat, auto : BOOLEAN]
RequestType == [on : BOOLEAN, row : [Budgets -> 0..100]]

TableTypes ==
    /\ appMonth \in Months /\ dbMonth \in Months
    /\ status \in [Budgets -> {"unborn", "live", "deleted"}]
    /\ payroll \in [Budgets -> Nat]
    /\ runAt \in [Budgets -> Months \cup {Never}]
    /\ auto \in [Budgets -> BOOLEAN]
    /\ weight \in [Budgets -> [Budgets -> 0..100]]
    /\ balance \in [Budgets -> Int]

CallerTypes ==
    /\ pc \in [Callers -> {"idle", "called", "open", "batch", "moving", "linking"}]
    /\ target \in [Callers -> Budgets \cup {NoBudget}]
    /\ \A p \in Callers \ MonthlyCallers : pc[p] # "idle" => target[p] \in Budgets
    /\ req \in [Callers -> RequestType]
    /\ now \in [Callers -> Months \cup {Never}]
    /\ txNow \in [Callers -> Months \cup {Never}]
    /\ todo \in [Callers -> SUBSET Budgets]
    /\ seen \in [Callers -> [Budgets -> CopyType]]
    /\ due \in [Callers -> SUBSET Budgets]
    /\ paid \in [Callers -> SUBSET Budgets]
    /\ cur \in [Callers -> Budgets \cup {NoBudget}]
    /\ \A p \in Callers : pc[p] = "moving" => cur[p] \in Budgets
    /\ owed \in [Callers -> [Budgets -> Nat]]
    /\ moved \in [Callers -> Nat]
    /\ delta \in [Callers -> [Budgets -> Int]]
    /\ holds \in [Callers -> [Budgets -> LockModes]]

HistoryTypes ==
    /\ unforced \in [Budgets -> [Months -> Nat]]
    /\ paidFor \subseteq Budgets \X (Months \cup {Never})
    /\ calls \in [Callers -> Nat] /\ ops \in Nat

\* A caller that is not in a transaction holds no lock and no work.
RestClean ==
    \A p \in Callers : ~InTx(p) =>
        /\ holds[p] = [b \in Budgets |-> NoLock] /\ delta[p] = Zero
        /\ todo[p] = {} /\ due[p] = {} /\ paid[p] = {}

\* Types, and what a call leaves behind: nothing, since every return path of
\* the store functions commits or rolls back.
TypeOK == TableTypes /\ CallerTypes /\ HistoryTypes /\ RestClean

\* "It updates payroll_run_at to prevent duplicate credits within the same
\* month": no budget gets two credits for one month from the runs that do not
\* force it, however many of them overlap, fail or are called again.
OncePerMonth == \A b \in Budgets, m \in Months : unforced[b][m] <= 1

\* Every step of every call, seen through the unforced credits, is a step of
\* MonthlyCredit or changes none of them: a whole batch at once, for a month that
\* has begun, and nothing twice.
Promise == INSTANCE MonthlyCredit WITH month <- appMonth, credits <- unforced
ImplementsMonthlyCredit == Promise!Spec

\* payroll_run_at is what stops the month from being paid again, so it may name
\* a month only if that month's credit was committed.
RunAtMeansPaid ==
    \A b \in Budgets : runAt[b] # Never => <<b, runAt[b]>> \in paidFor

\* Seen through the tables alone, every run, whatever it waited for and whatever
\* went on meanwhile, is one step of a ledger without transactions: at its commit
\* it pays what the tables then say is due, and moves money, without making or
\* losing any, from sources the tables then name.
Tables == INSTANCE Ledger
ImplementsLedger == Tables!Spec

\* Covering ends a deficit and makes no surplus: a budget that gained by it is,
\* until the run commits, at most the half cent of rounding above zero, although
\* deficits and shares are read long before and other transactions go on.  For
\* edits that do not raise a balance: an edited entry may do so under the run.
NoOverCover ==
    \A p \in RunCallers : \A b \in paid[p] :
        delta[p][b] > 0 => 2 * View(p, b) <= UnitsPerCent

\* Foreign keys hold across the deletes that race with a run or a config
\* request: no entry, committed or pending, and no source row, of a budget that
\* is not there.
RefsLive ==
    /\ \A b, s \in Budgets :
          weight[b][s] > 0 => b # s /\ status[b] = "live" /\ status[s] = "live"
    /\ \A b \in Budgets : status[b] # "live" =>
          balance[b] = 0 /\ \A p \in Callers : delta[p][b] = 0 /\ b \notin paid[p]

\* From the moment a run reads a budget's deficit until its transaction ends,
\* nobody else adds an entry to that budget: two runs never cover the same
\* deficit, and a source drained meanwhile is never the budget being covered.
\* Only changing or deleting an existing entry, which locks no budget, may still
\* move the balance the deficit was read from.
Covered(p) == paid[p] \cup ({cur[p]} \ {NoBudget})
CoverStaysTrue ==
    [][\A p \in RunCallers : \A b \in Covered(p) :
          pc'[p] # "idle" => \/ balance'[b] = balance[b]
                             \/ \E change \in Edits : EditTransaction(b, change)]_vars

\* Every call ends: lock waits are finite because a cycle of them is broken and
\* every end of a transaction releases its locks.
RunsEnd == \A p \in Callers : pc[p] # "idle" ~> pc[p] = "idle"

=============================================================================
