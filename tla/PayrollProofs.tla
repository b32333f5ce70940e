--------------------------- MODULE PayrollProofs ---------------------------
(***************************************************************************)
(* Proofs about Payroll, for any budgets, callers, tables and bounds.      *)
(***************************************************************************)
EXTENDS Payroll, SumLemmas, TLAPS

-----------------------------------------------------------------------------
(* Types.                                                                  *)

\* Changing one entry of a table of tables keeps its type.
LEMMA NestedType ==
    ASSUME NEW S, NEW T, NEW V, NEW f \in [S -> [T -> V]],
           NEW p \in S, NEW b, NEW v, b \in T => v \in V
    PROVE  [f EXCEPT ![p][b] = v] \in [S -> [T -> V]]
<1>1. [f[p] EXCEPT ![b] = v] \in [T -> V]
    OBVIOUS
<1> QED
    BY <1>1

\* A lock taken is the stronger of the old and the new one.
LEMMA TakeLockType ==
    ASSUME TypeOK, NEW p \in Callers, NEW b \in Budgets, NEW mode \in LockModes,
           TakeLock(p, b, mode)
    PROVE  holds' \in [Callers -> [Budgets -> LockModes]]
<1> DEFINE new == IF holds[p][b] < mode THEN mode ELSE holds[p][b]
<1>1. holds \in [Callers -> [Budgets -> LockModes]]
    BY DEF TypeOK, CallerTypes
<1>2. new \in LockModes
    BY <1>1
<1>3. holds' = [holds EXCEPT ![p][b] = new]
    BY DEF TakeLock
<1> QED
    BY <1>1, <1>2, <1>3, NestedType

\* An apportionment of an integer gives every budget a natural number of cents.
LEMMA SharesType ==
    ASSUME NEW total \in Int, NEW w \in [Budgets -> 0..100],
           NEW a \in Shares(total, w)
    PROVE  a \in [Budgets -> Nat]
<1>1. DOMAIN w = Budgets
    OBVIOUS
<1>2. CASE total <= 0 \/ Weighted(w) = {}
    BY <1>1, <1>2 DEF Shares
<1>3. CASE ~(total <= 0 \/ Weighted(w) = {})
    <2>1. a \in [Budgets -> 0..total]
        BY <1>1, <1>3 DEF Shares
    <2> QED
        BY <2>1
<1> QED
    BY <1>2, <1>3

\* The deficit of a view that is an integer is an integer.
LEMMA DeficitType ==
    ASSUME TypeOK, NEW p \in Callers, NEW b \in Budgets
    PROVE  DeficitCents(p, b) \in Int
<1>1. View(p, b) \in Int
    BY DEF TypeOK, TableTypes, CallerTypes, View
<1>2. 2 * UnitsPerCent \in Nat \ {0}
    BY AmountsAssumption
<1>3. RoundCents(-View(p, b)) \in Int
    <2>1. 2 * (-View(p, b)) + UnitsPerCent \in Int
        BY <1>1, AmountsAssumption
    <2> QED
        BY <2>1, <1>2 DEF RoundCents
<1> QED
    BY <1>3 DEF DeficitCents

\* Whatever a call had in hand is of its type again once it has returned.
LEMMA ReturnType ==
    ASSUME TypeOK, NEW p \in Callers, Return(p)
    PROVE  CallerTypes' /\ RestClean' /\ UNCHANGED <<clock, bounds>>
<1> USE DEF Return, CallerTypes, TypeOK, CopyType, RequestType, NoCopy, NoRequest,
            Zero, LockModes, NoLock, ForUpdate, NoBudget, Never
<1>1. CallerTypes'
    OBVIOUS
<1>2. RestClean'
    BY DEF RestClean, InTx
<1> QED
    BY <1>1, <1>2



\* No step puts a value of another type in the tables or the clocks.
LEMMA TableStep == TypeOK /\ [Next]_vars => TableTypes'
<1> SUFFICES ASSUME TypeOK, [Next]_vars PROVE TableTypes'
    OBVIOUS
<1> USE DEF TypeOK, TableTypes, table, clock
<1>1. ASSUME NEW p \in Callers, Call(p) PROVE TableTypes'
    BY <1>1 DEF Call, CallMonthly, CallForced, CallConfig, StartCall
<1>2. ASSUME NEW p \in Callers, Abort(p) PROVE TableTypes'
    BY <1>2 DEF Abort, Return
<1>3. ASSUME NEW p \in Callers, Statement(p) PROVE TableTypes'
    <2>1. CASE Commit(p)
        <3>1. balance' \in [Budgets -> Int]
            BY <2>1, AmountsAssumption DEF Commit, Stamp, CallerTypes, CopyType
        <3>2. runAt' \in [Budgets -> Months \cup {Never}]
            BY <2>1 DEF Commit, Stamp, CallerTypes
        <3> QED
            BY <2>1, <3>1, <3>2 DEF Commit, Stamp, Return
    <2>2. CASE CommitConfig(p)
        BY <2>2 DEF CommitConfig, Return, CallerTypes, RequestType
    <2>3. CASE UNCHANGED <<clock, table>>
        BY <2>3
    <2> QED
        BY <1>3, <1>2, <2>1, <2>2, <2>3
        DEF Statement, Begin, Select, Pay, LockTarget, TargetMissing, LockRow,
            SkipRow, Cover, Debit, DebitFails, LinkSource, LinkFails
<1>4. ASSUME NEW p \in Callers, BreakDeadlock(p) PROVE TableTypes'
    BY <1>2, <1>4 DEF BreakDeadlock
<1>5. CASE UserWrites
    <2> USE DEF UserWrite
    <2>1. ASSUME NEW b \in Budgets, NEW amount \in Payrolls,
                 CreateBudget(b, amount) \/ UpdateBudget(b, amount)
          PROVE  TableTypes'
        BY <2>1, AmountsAssumption DEF CreateBudget, UpdateBudget
    <2>2. ASSUME NEW b \in Budgets, DeleteBudget(b) PROVE TableTypes'
        <3>1. weight' \in [Budgets -> [Budgets -> 0..100]]
            BY <2>2 DEF DeleteBudget
        <3> QED
            BY <2>2, <3>1 DEF DeleteBudget, Never
    <2>3. ASSUME NEW b \in Budgets, NEW amount \in Entries,
                 CreateTransaction(b, amount)
          PROVE  TableTypes'
        BY <2>3, AmountsAssumption DEF CreateTransaction
    <2>4. ASSUME NEW b \in Budgets, NEW change \in Edits, EditTransaction(b, change)
          PROVE  TableTypes'
        BY <2>4, AmountsAssumption DEF EditTransaction
    <2> QED
        BY <1>5, <2>1, <2>2, <2>3, <2>4 DEF UserWrites
<1>6. CASE TurnMonth
    BY <1>6 DEF TurnMonth
<1>7. CASE UNCHANGED vars
    BY <1>7 DEF vars
<1> QED
    BY <1>1, <1>2, <1>3, <1>4, <1>5, <1>6, <1>7 DEF Next

\* Nor in the history and the counters of the bounds.
LEMMA HistoryStep == TypeOK /\ [Next]_vars => HistoryTypes'
<1> SUFFICES ASSUME TypeOK, [Next]_vars PROVE HistoryTypes'
    OBVIOUS
<1> USE DEF TypeOK, HistoryTypes, history, bounds
<1>1. ASSUME NEW p \in Callers, Call(p) PROVE HistoryTypes'
    BY <1>1 DEF Call, CallMonthly, CallForced, CallConfig, StartCall
<1>2. ASSUME NEW p \in Callers, Abort(p) PROVE HistoryTypes'
    BY <1>2 DEF Abort, Return
<1>3. ASSUME NEW p \in Callers, Statement(p) PROVE HistoryTypes'
    <2>1. CASE Commit(p)
        <3>1. unforced' \in [Budgets -> [Months -> Nat]]
            BY <2>1 DEF Commit, Stamp
        <3>2. paidFor' \subseteq Budgets \X (Months \cup {Never})
            BY <2>1 DEF Commit, Stamp, CallerTypes
        <3> QED
            BY <2>1, <3>1, <3>2 DEF Commit, Stamp, Return
    <2>2. CASE UNCHANGED <<history, bounds>>
        BY <2>2
    <2> QED
        BY <1>3, <1>2, <2>1, <2>2
        DEF Statement, Begin, Select, Pay, LockTarget, TargetMissing, LockRow,
            SkipRow, Cover, Debit, DebitFails, LinkSource, LinkFails, CommitConfig,
            Return
<1>4. ASSUME NEW p \in Callers, BreakDeadlock(p) PROVE HistoryTypes'
    BY <1>2, <1>4 DEF BreakDeadlock
<1>5. CASE UserWrites
    BY <1>5
    DEF UserWrites, UserWrite, Write, CreateBudget, UpdateBudget, DeleteBudget,
        CreateTransaction, EditTransaction
<1>6. CASE TurnMonth
    BY <1>6 DEF TurnMonth
<1>7. CASE UNCHANGED vars
    BY <1>7 DEF vars
<1> QED
    BY <1>1, <1>2, <1>3, <1>4, <1>5, <1>6, <1>7 DEF Next

\* Nor in what a caller has in hand.
LEMMA CallerStep == TypeOK /\ [Next]_vars => CallerTypes'
<1> SUFFICES ASSUME TypeOK, [Next]_vars PROVE CallerTypes'
    OBVIOUS
<1> USE DEF TypeOK, CallerTypes, args, scan, loop, cover
<1>1. ASSUME NEW p \in Callers, Call(p) PROVE CallerTypes'
    <2>1. CASE CallMonthly(p)
        BY <2>1 DEF CallMonthly, StartCall, TableTypes
    <2>2. ASSUME NEW b \in Budgets, CallForced(p, b) PROVE CallerTypes'
        BY <2>2 DEF CallForced, StartCall, TableTypes
    <2>3. ASSUME NEW b \in Budgets, NEW on \in BOOLEAN, NEW row \in Rows,
                 CallConfig(p, b, on, row)
          PROVE  CallerTypes'
        <3>1. [on |-> on, row |-> row] \in RequestType
            BY TablesAssumption DEF RequestType
        <3>2. /\ req' = [req EXCEPT ![p] = [on |-> on, row |-> row]]
              /\ target' = [target EXCEPT ![p] = b]
            BY <2>3 DEF CallConfig
        <3> QED
            BY <2>3, <3>1, <3>2 DEF CallConfig, StartCall
    <2> QED
        BY <1>1, <2>1, <2>2, <2>3 DEF Call
<1>2. ASSUME NEW p \in Callers, Return(p) PROVE CallerTypes'
    BY <1>2, ReturnType
<1>3. ASSUME NEW p \in Callers, Statement(p) PROVE CallerTypes'
    <2>1. CASE Begin(p)
        BY <2>1 DEF Begin, TableTypes
    <2>2. CASE Select(p)
        BY <2>2 DEF Select, Live
    <2>3. CASE Pay(p)
        <3>1. moved[p] * UnitsPerCent \in Int
            BY AmountsAssumption
        <3>2. delta' \in [Callers -> [Budgets -> Int]]
            <4>1. \A b \in Budgets : delta[p][b] + moved[p] * UnitsPerCent \in Int
                BY <3>1
            <4> QED
                BY <2>3, <4>1 DEF Pay, Credit
        <3>3. paid' \in [Callers -> SUBSET Budgets]
            <4>1. cur[p] \in Budgets
                BY <2>3 DEF Pay, Credit
            <4> QED
                BY <2>3, <4>1 DEF Pay, Credit
        <3> QED
            BY <2>3, <3>2, <3>3 DEF Pay, Credit, NoBudget
    <2>4. CASE LockTarget(p)
        <3>1. Weighted(req[p].row) \subseteq Budgets
            BY DEF Weighted, RequestType
        <3>2. holds' \in [Callers -> [Budgets -> LockModes]]
            <4>1. target[p] \in Budgets
                BY <2>4, CallersAssumption DEF LockTarget, RunCallers
            <4> QED
                BY <2>4, <4>1, TakeLockType DEF LockTarget, LockModes, NoLock,
                    NoKeyUpdate, ForUpdate
        <3> QED
            BY <2>4, <3>1, <3>2 DEF LockTarget
    <2>5. ASSUME NEW b \in Budgets, LockRow(p, b) PROVE CallerTypes'
        <3>1. seen' \in [Callers -> [Budgets -> CopyType]]
            <4>1. [payroll |-> payroll[b], auto |-> auto[b]] \in CopyType
                BY DEF TableTypes, CopyType
            <4>2. \/ seen' = seen
                  \/ seen' = [seen EXCEPT ![p][b] =
                                [payroll |-> payroll[b], auto |-> auto[b]]]
                BY <2>5 DEF LockRow
            <4>3. [seen EXCEPT ![p][b] = [payroll |-> payroll[b], auto |-> auto[b]]]
                     \in [Callers -> [Budgets -> CopyType]]
                BY <4>1, NestedType
            <4> QED
                BY <4>2, <4>3
        <3>2. holds' \in [Callers -> [Budgets -> LockModes]]
            BY <2>5, TakeLockType DEF LockRow, LockModes, NoLock, ForUpdate
        <3>3. due' \in [Callers -> SUBSET Budgets]
            <4>1. due' = due \/ due' = [due EXCEPT ![p] = @ \cup {b}]
                BY <2>5 DEF LockRow
            <4>2. due[p] \cup {b} \in SUBSET Budgets
                OBVIOUS
            <4>3. [due EXCEPT ![p] = @ \cup {b}] \in [Callers -> SUBSET Budgets]
                BY <4>2
            <4> QED
                BY <4>1, <4>3
        <3> QED
            BY <2>5, <3>1, <3>2, <3>3 DEF LockRow
    <2>6. ASSUME NEW b \in Budgets, SkipRow(p, b) PROVE CallerTypes'
        BY <2>6 DEF SkipRow
    <2>7. ASSUME NEW b \in Budgets, Cover(p, b) PROVE CallerTypes'
        <3>1. PICK share \in Shares(IF seen[p][b].auto THEN DeficitCents(p, b) ELSE 0,
                                    weight[b]) :
                 owed' = [owed EXCEPT ![p] = share]
            BY <2>7 DEF Cover
        <3>2. share \in [Budgets -> Nat]
            <4>1. (IF seen[p][b].auto THEN DeficitCents(p, b) ELSE 0) \in Int
                BY DeficitType
            <4>2. weight[b] \in [Budgets -> 0..100]
                BY DEF TableTypes
            <4> QED
                BY <3>1, <4>1, <4>2, SharesType
        <3> QED
            BY <2>7, <3>1, <3>2 DEF Cover
    <2>8. ASSUME NEW b \in Budgets, Debit(p, b) PROVE CallerTypes'
        <3>1. owed[p][b] * UnitsPerCent \in Int
            BY AmountsAssumption
        <3>2. delta' \in [Callers -> [Budgets -> Int]]
            BY <2>8, <3>1 DEF Debit
        <3>3. holds' \in [Callers -> [Budgets -> LockModes]]
            BY <2>8, TakeLockType DEF Debit, LockModes, NoLock, KeyShare, ForUpdate
        <3> QED
            BY <2>8, <3>2, <3>3 DEF Debit
    <2>9. ASSUME NEW b \in Budgets, LinkSource(p, b) PROVE CallerTypes'
        BY <2>9, TakeLockType DEF LinkSource, LockModes, NoLock, KeyShare, ForUpdate
    <2> QED
        BY <1>3, <1>2, <2>1, <2>2, <2>3, <2>4, <2>5, <2>6, <2>7, <2>8, <2>9
        DEF Statement, Commit, Stamp, CommitConfig, TargetMissing, DebitFails, LinkFails,
            Abort
<1>4. ASSUME NEW p \in Callers, Abort(p) \/ BreakDeadlock(p) PROVE CallerTypes'
    BY <1>2, <1>4 DEF Abort, BreakDeadlock
<1>5. CASE UserWrites
    BY <1>5
    DEF UserWrites, UserWrite, CreateBudget, UpdateBudget, DeleteBudget,
        CreateTransaction, EditTransaction
<1>6. CASE TurnMonth \/ UNCHANGED vars
    BY <1>6 DEF TurnMonth, vars
<1> QED
    BY <1>1, <1>3, <1>4, <1>5, <1>6 DEF Next

\* Locks and pending work exist inside a transaction only.
LEMMA RestStep == TypeOK /\ [Next]_vars => RestClean'
<1> SUFFICES ASSUME TypeOK, [Next]_vars PROVE RestClean'
    OBVIOUS
<1> USE DEF TypeOK, CallerTypes, RestClean, InTx, args, scan, loop, cover
<1>1. ASSUME NEW p \in Callers, Call(p) PROVE RestClean'
    BY <1>1 DEF Call, CallMonthly, CallForced, CallConfig, StartCall
<1>2. ASSUME NEW p \in Callers, Return(p) PROVE RestClean'
    BY <1>2, ReturnType
<1>3. ASSUME NEW p \in Callers, Statement(p) PROVE RestClean'
    <2>1. CASE Begin(p)
        BY <2>1 DEF Begin
    <2>2. CASE Select(p)
        BY <2>2 DEF Select
    <2>3. CASE Pay(p)
        BY <2>3 DEF Pay, Credit
    <2>4. CASE LockTarget(p)
        BY <2>4 DEF LockTarget, TakeLock
    <2>5. ASSUME NEW b \in Budgets, LockRow(p, b) PROVE RestClean'
        BY <2>5 DEF LockRow, TakeLock
    <2>6. ASSUME NEW b \in Budgets, SkipRow(p, b) PROVE RestClean'
        BY <2>6 DEF SkipRow
    <2>7. ASSUME NEW b \in Budgets, Cover(p, b) PROVE RestClean'
        BY <2>7 DEF Cover
    <2>8. ASSUME NEW b \in Budgets, Debit(p, b) PROVE RestClean'
        BY <2>8 DEF Debit, TakeLock
    <2>9. ASSUME NEW b \in Budgets, LinkSource(p, b) PROVE RestClean'
        BY <2>9 DEF LinkSource, TakeLock
    <2> QED
        BY <1>3, <1>2, <2>1, <2>2, <2>3, <2>4, <2>5, <2>6, <2>7, <2>8, <2>9
        DEF Statement, Commit, Stamp, CommitConfig, TargetMissing, DebitFails, LinkFails,
            Abort
<1>4. ASSUME NEW p \in Callers, Abort(p) \/ BreakDeadlock(p) PROVE RestClean'
    BY <1>2, <1>4 DEF Abort, BreakDeadlock
<1>5. CASE UserWrites
    BY <1>5
    DEF UserWrites, UserWrite, CreateBudget, UpdateBudget, DeleteBudget,
        CreateTransaction, EditTransaction
<1>6. CASE TurnMonth \/ UNCHANGED vars
    BY <1>6 DEF TurnMonth, vars
<1> QED
    BY <1>1, <1>3, <1>4, <1>5, <1>6 DEF Next

LEMMA TypeStep == TypeOK /\ [Next]_vars => TypeOK'
BY TableStep, CallerStep, HistoryStep, RestStep DEF TypeOK

\* Type correctness, TypeOK of the runs, for any constants.
THEOREM TypeCorrect == Spec => []TypeOK
<1>1. Init => TypeOK
    <2> SUFFICES ASSUME Init PROVE TypeOK
        OBVIOUS
    <2>1. TableTypes
        BY TablesAssumption, BoundsAssumption DEF Init, TableTypes, Months
    <2>2. CallerTypes
        BY DEF Init, CallerTypes, CopyType, RequestType, NoCopy, NoRequest, Zero,
               LockModes, NoLock, ForUpdate, NoBudget, Never
    <2>3. HistoryTypes
        BY DEF Init, HistoryTypes
    <2>4. RestClean
        BY DEF Init, RestClean
    <2> QED
        BY <2>1, <2>2, <2>3, <2>4 DEF TypeOK
<1> QED
    BY <1>1, TypeStep, PTL DEF Spec

-----------------------------------------------------------------------------
(* Locking.  What FOR UPDATE and the foreign keys guarantee of the rows a  *)
(* transaction works on; every other proof rests on it.                    *)

LocksCompatible ==
    \A p, q \in Callers : p # q =>
        \A b \in Budgets : ~Conflict(holds[p][b], holds[q][b])
HeldLive ==
    \A p \in Callers, b \in Budgets : holds[p][b] # NoLock => status[b] = "live"
RunPhases ==
    \A p \in Callers :
        /\ pc[p] \in {"batch", "moving"} => p \in RunCallers
        /\ pc[p] = "linking" => p \in ConfigCallers
WorkHeld ==
    \A p \in Callers : \A b \in due[p] \cup paid[p] : holds[p][b] = ForUpdate
CurIsDue ==
    \A p \in Callers : /\ cur[p] # NoBudget => cur[p] \in due[p]
                       /\ pc[p] = "moving" => cur[p] # NoBudget
EntriesHeld ==
    \A p \in Callers, b \in Budgets : delta[p][b] # 0 => holds[p][b] # NoLock
TargetHeld ==
    \A p \in Callers : pc[p] = "linking" => holds[p][target[p]] >= NoKeyUpdate

LockInv == /\ LocksCompatible /\ HeldLive /\ RunPhases /\ WorkHeld
           /\ CurIsDue /\ EntriesHeld /\ TargetHeld

\* No caller gives up a lock in this step.
Grown == \A q \in Callers, c \in Budgets : holds'[q][c] >= holds[q][c]

\* A lock that is granted conflicts with none of another transaction, and takes
\* nothing from anybody.
LEMMA LockTaken ==
    ASSUME TypeOK, LockInv, NEW p \in Callers, NEW b \in Budgets,
           NEW mode \in LockModes, TakeLock(p, b, mode), CanLock(p, b, mode),
           status[b] = "live", UNCHANGED status
    PROVE  /\ LocksCompatible' /\ HeldLive'
           /\ Grown /\ holds'[p][b] >= mode
<1> DEFINE new == IF holds[p][b] < mode THEN mode ELSE holds[p][b]
<1> USE DEF LockModes, NoLock, ForUpdate
<1>1. holds \in [Callers -> [Budgets -> LockModes]]
    BY DEF TypeOK, CallerTypes
<1>2. \A q \in Callers, c \in Budgets :
         holds'[q][c] = IF q = p /\ c = b THEN new ELSE holds[q][c]
    BY <1>1 DEF TakeLock
<1>3. LocksCompatible'
    BY <1>1, <1>2 DEF LockInv, LocksCompatible, CanLock, Conflict
<1>4. HeldLive'
    BY <1>1, <1>2 DEF LockInv, HeldLive
<1> QED
    BY <1>1, <1>2, <1>3, <1>4 DEF Grown

\* While locks only grow, what was held for a purpose still is.
LEMMA StillHeld ==
    ASSUME TypeOK, TypeOK', LockInv, Grown
    PROVE  /\ \A q \in Callers : \A c \in due[q] \cup paid[q] : holds'[q][c] = ForUpdate
           /\ \A q \in Callers, c \in Budgets :
                 delta[q][c] # 0 => holds'[q][c] # NoLock
           /\ \A q \in Callers :
                 pc[q] = "linking" => holds'[q][target[q]] >= NoKeyUpdate
<1>1. \A q \in Callers, c \in Budgets :
         holds[q][c] \in 0..3 /\ holds'[q][c] \in 0..3 /\ holds'[q][c] >= holds[q][c]
    <2>1. holds \in [Callers -> [Budgets -> 0..3]]
        BY DEF TypeOK, CallerTypes, LockModes, NoLock, ForUpdate
    <2>2. holds' \in [Callers -> [Budgets -> 0..3]]
        BY DEF TypeOK, CallerTypes, LockModes, NoLock, ForUpdate
    <2> QED
        BY <2>1, <2>2 DEF Grown
<1>2. \A q \in Callers : \A c \in due[q] \cup paid[q] : holds'[q][c] = ForUpdate
    <2>1. \A q \in Callers : due[q] \cup paid[q] \subseteq Budgets
        BY DEF TypeOK, CallerTypes
    <2> QED
        BY <1>1, <2>1 DEF LockInv, WorkHeld, ForUpdate
<1>3. \A q \in Callers, c \in Budgets : delta[q][c] # 0 => holds'[q][c] # NoLock
    BY <1>1 DEF LockInv, EntriesHeld, NoLock
<1>4. ASSUME NEW q \in Callers, pc[q] = "linking"
      PROVE  holds'[q][target[q]] >= NoKeyUpdate
    <2>1. target[q] \in Budgets
        BY <1>4, CallersAssumption DEF LockInv, RunPhases, RunCallers, TypeOK, CallerTypes
    <2>2. holds[q][target[q]] >= NoKeyUpdate
        BY <1>4 DEF LockInv, TargetHeld
    <2> QED
        BY <1>1, <2>1, <2>2 DEF NoKeyUpdate
<1> QED
    BY <1>2, <1>3, <1>4

\* The end of a transaction leaves the others' locks and work as they are.
LEMMA LockReturned ==
    ASSUME TypeOK, LockInv, NEW p \in Callers, Return(p), UNCHANGED status
    PROVE  LockInv'
<1> USE DEF LockInv, Return, TypeOK, CallerTypes, NoLock
<1>1. LocksCompatible'
    <2>1. \A q \in Callers, c \in Budgets :
             /\ holds[q][c] \in 0..3
             /\ holds'[q][c] = IF q = p THEN 0 ELSE holds[q][c]
        BY DEF LockModes, ForUpdate
    <2> HIDE DEF Return, TypeOK, CallerTypes
    <2> QED
        BY <2>1 DEF LocksCompatible, Conflict
<1>2. HeldLive'
    BY DEF HeldLive
<1>3. RunPhases' /\ CurIsDue'
    BY DEF RunPhases, CurIsDue
<1>4. WorkHeld'
    BY DEF WorkHeld
<1>5. EntriesHeld'
    BY DEF EntriesHeld, Zero
<1>6. TargetHeld'
    BY DEF TargetHeld
<1> QED
    BY <1>1, <1>2, <1>3, <1>4, <1>5, <1>6

\* A caller that moves to another phase, keeping its locks and its work, and
\* not into the middle of a loop, disturbs nothing either.
LEMMA LockUnchanged ==
    ASSUME TypeOK, LockInv, NEW p \in Callers, NEW phase,
           UNCHANGED <<status, due, paid, cur, delta, holds>>,
           pc' = [pc EXCEPT ![p] = phase],
           \A q \in Callers : q # p => target'[q] = target[q],
           phase \notin {"moving", "linking"},
           phase = "batch" => p \in RunCallers
    PROVE  LockInv'
<1> USE DEF LockInv, TypeOK, CallerTypes
<1>1. LocksCompatible' /\ HeldLive'
    BY DEF LocksCompatible, HeldLive
<1>2. RunPhases' /\ CurIsDue'
    BY DEF RunPhases, CurIsDue
<1>3. WorkHeld' /\ EntriesHeld'
    BY DEF WorkHeld, EntriesHeld
<1>4. TargetHeld'
    BY DEF TargetHeld
<1> QED
    BY <1>1, <1>2, <1>3, <1>4

LEMMA LockStep == TypeOK /\ LockInv /\ [Next]_vars => LockInv'
<1> SUFFICES ASSUME TypeOK, LockInv, [Next]_vars PROVE LockInv'
    OBVIOUS
<1> USE DEF LockInv
<1>1. ASSUME NEW p \in Callers, Call(p) PROVE LockInv'
    <2>1. /\ UNCHANGED <<status, due, paid, cur, delta, holds>>
          /\ pc' = [pc EXCEPT ![p] = "called"]
          /\ \A q \in Callers : q # p => target'[q] = target[q]
        BY <1>1 DEF Call, CallMonthly, CallForced, CallConfig, StartCall, table,
                    loop, cover, TypeOK, CallerTypes
    <2> QED
        BY <2>1, LockUnchanged
<1>2. ASSUME NEW p \in Callers, Abort(p) PROVE LockInv'
    BY <1>2, LockReturned DEF Abort, table
<1>3. ASSUME NEW p \in Callers, Statement(p) PROVE LockInv'
    <2> USE DEF args, scan, loop, cover, table
    <2>1. CASE Begin(p)
        BY <2>1, LockUnchanged DEF Begin
    <2>2. CASE Select(p)
        BY <2>2, LockUnchanged DEF Select
    <2>3. CASE Pay(p)
        <3> USE <2>3 DEF Pay, Credit, TypeOK, CallerTypes
        <3>1. LocksCompatible' /\ HeldLive'
            BY DEF LocksCompatible, HeldLive
        <3>2. RunPhases' /\ CurIsDue' /\ TargetHeld'
            BY DEF RunPhases, CurIsDue, TargetHeld
        <3>3. WorkHeld'
            <4>1. cur[p] \in due[p]
                BY DEF CurIsDue
            <4>2. \A q \in Callers : due'[q] \cup paid'[q] = due[q] \cup paid[q]
                BY <4>1
            <4> QED
                BY <4>2 DEF WorkHeld
        <3>4. EntriesHeld'
            <4>1. holds[p][cur[p]] # NoLock
                BY DEF CurIsDue, WorkHeld, NoLock, ForUpdate
            <4>2. \A q \in Callers, c \in Budgets :
                     (q # p \/ c # cur[p]) => delta'[q][c] = delta[q][c]
                OBVIOUS
            <4> QED
                BY <4>1, <4>2 DEF EntriesHeld
        <3> QED
            BY <3>1, <3>2, <3>3, <3>4
    <2>4. CASE Commit(p) \/ CommitConfig(p)
        BY <2>4, LockReturned DEF Commit, Stamp, CommitConfig
    <2>5. CASE LockTarget(p)
        <3> USE <2>5 DEF LockTarget, TypeOK, CallerTypes, NoLock, KeyShare,
                         NoKeyUpdate, ForUpdate, LockModes
        <3>1. target[p] \in Budgets
            BY CallersAssumption DEF RunCallers
        <3>2. /\ LocksCompatible' /\ HeldLive' /\ Grown
              /\ holds'[p][target[p]] >= NoKeyUpdate
            BY <3>1, LockTaken
        <3> HIDE DEF LockTarget
        <3>3. RunPhases' /\ CurIsDue' /\ TargetHeld'
            BY <3>2, TypeStep, StillHeld DEF RunPhases, CurIsDue, TargetHeld, LockTarget
        <3>4. WorkHeld' /\ EntriesHeld'
            BY <3>2, TypeStep, StillHeld DEF WorkHeld, EntriesHeld, LockTarget
        <3> QED
            BY <3>2, <3>3, <3>4
    <2>6. ASSUME NEW b \in Budgets, LockRow(p, b) PROVE LockInv'
        <3>1. /\ LocksCompatible' /\ HeldLive' /\ Grown
              /\ holds'[p][b] >= ForUpdate
            BY <2>6, LockTaken DEF LockRow, LockModes, NoLock, ForUpdate
        <3>2. RunPhases' /\ CurIsDue'
            <4>1. UNCHANGED <<pc, cur>> /\ \A q \in Callers : due[q] \subseteq due'[q]
                <5>1. due' = due \/ due' = [due EXCEPT ![p] = @ \cup {b}]
                    BY <2>6 DEF LockRow
                <5>2. due \in [Callers -> SUBSET Budgets]
                    BY DEF TypeOK, CallerTypes
                <5>3. \A q \in Callers : due[q] \subseteq due'[q]
                    <6>1. CASE due' = due
                        BY <6>1
                    <6>2. CASE due' = [due EXCEPT ![p] = @ \cup {b}]
                        BY <6>2, <5>2
                    <6> QED
                        BY <5>1, <6>1, <6>2
                <5> QED
                    BY <2>6, <5>3 DEF LockRow
            <4> QED
                BY <4>1 DEF RunPhases, CurIsDue
        <3>3. TargetHeld'
            BY <2>6, <3>1, TypeStep, StillHeld DEF TargetHeld, LockRow
        <3>4. EntriesHeld'
            BY <2>6, <3>1, TypeStep, StillHeld DEF EntriesHeld, LockRow
        <3>5. WorkHeld'
            <4>1. holds'[p][b] = ForUpdate
                <5>1. holds' \in [Callers -> [Budgets -> 0..3]]
                    BY TypeStep DEF TypeOK, CallerTypes, LockModes, NoLock, ForUpdate
                <5> QED
                    BY <3>1, <5>1 DEF ForUpdate
            <4>2. \A q \in Callers : \A c \in due'[q] \cup paid'[q] :
                     c \in due[q] \cup paid[q] \/ (q = p /\ c = b)
                BY <2>6 DEF LockRow, TypeOK, CallerTypes
            <4> QED
                BY <3>1, <4>1, <4>2, TypeStep, StillHeld DEF WorkHeld
        <3> QED
            BY <3>1, <3>2, <3>3, <3>4, <3>5
    <2>7. ASSUME NEW b \in Budgets, SkipRow(p, b) PROVE LockInv'
        BY <2>7 DEF SkipRow, LocksCompatible, HeldLive, RunPhases, WorkHeld, CurIsDue,
                    EntriesHeld, TargetHeld
    <2>8. ASSUME NEW b \in Budgets, Cover(p, b) PROVE LockInv'
        <3>1. LocksCompatible' /\ HeldLive'
            BY <2>8 DEF Cover, LocksCompatible, HeldLive
        <3>2. RunPhases' /\ CurIsDue' /\ TargetHeld'
            BY <2>8, BudgetsAssumption
            DEF Cover, RunPhases, CurIsDue, TargetHeld, TypeOK, CallerTypes
        <3>3. WorkHeld' /\ EntriesHeld'
            BY <2>8 DEF Cover, WorkHeld, EntriesHeld
        <3> QED
            BY <3>1, <3>2, <3>3
    <2>9. ASSUME NEW b \in Budgets, Debit(p, b) PROVE LockInv'
        <3>1. /\ LocksCompatible' /\ HeldLive' /\ Grown
              /\ holds'[p][b] >= KeyShare
            BY <2>9, LockTaken DEF Debit, LockModes, NoLock, KeyShare, ForUpdate
        <3>2. RunPhases' /\ CurIsDue'
            BY <2>9 DEF RunPhases, CurIsDue, Debit
        <3>3. TargetHeld'
            BY <2>9, <3>1, TypeStep, StillHeld DEF TargetHeld, Debit
        <3>4. EntriesHeld'
            <4>1. \A q \in Callers, c \in Budgets :
                     (q # p \/ c # b) => delta'[q][c] = delta[q][c]
                BY <2>9 DEF Debit, TypeOK, CallerTypes
            <4> QED
                BY <3>1, <4>1, TypeStep, StillHeld DEF EntriesHeld, NoLock, KeyShare
        <3>5. WorkHeld'
            BY <2>9, <3>1, TypeStep, StillHeld DEF WorkHeld, Debit
        <3> QED
            BY <3>1, <3>2, <3>3, <3>4, <3>5
    <2>10. ASSUME NEW b \in Budgets, LinkSource(p, b) PROVE LockInv'
        <3>1. LocksCompatible' /\ HeldLive' /\ Grown
            BY <2>10, LockTaken DEF LinkSource, LockModes, NoLock, KeyShare, ForUpdate
        <3>2. RunPhases' /\ CurIsDue'
            BY <2>10 DEF RunPhases, CurIsDue, LinkSource
        <3>3. TargetHeld'
            BY <2>10, <3>1, TypeStep, StillHeld DEF TargetHeld, LinkSource
        <3>4. WorkHeld' /\ EntriesHeld'
            BY <2>10, <3>1, TypeStep, StillHeld DEF WorkHeld, EntriesHeld, LinkSource
        <3> QED
            BY <3>1, <3>2, <3>3, <3>4
    <2> QED
        BY <1>3, <1>2, <2>1, <2>2, <2>3, <2>4, <2>5, <2>6, <2>7, <2>8, <2>9, <2>10
        DEF Statement, TargetMissing, DebitFails, LinkFails
<1>4. ASSUME NEW p \in Callers, BreakDeadlock(p) PROVE LockInv'
    BY <1>2, <1>4 DEF BreakDeadlock
<1>5. CASE UserWrites
    <2>1. PICK b \in Budgets :
             /\ UserWrite
             /\ \/ UNCHANGED status
                \/ status' = [status EXCEPT ![b] = "live"]
                \/ Free(b, ForUpdate) /\ status' = [status EXCEPT ![b] = "deleted"]
        BY <1>5 DEF UserWrites, CreateBudget, UpdateBudget, DeleteBudget,
                    CreateTransaction, EditTransaction
    <2>2. UNCHANGED <<pc, target, due, paid, cur, delta, holds>>
        BY <2>1 DEF UserWrite, args, loop, cover
    <2>3. HeldLive'
        <3>1. \A q \in Callers, c \in Budgets : holds[q][c] \in 0..3
            BY DEF TypeOK, CallerTypes, LockModes, NoLock, ForUpdate
        <3>2. Free(b, ForUpdate) => \A q \in Callers : holds[q][b] = NoLock
            BY <3>1 DEF Free, Conflict, NoLock, ForUpdate
        <3>3. \A c \in Budgets : c # b \/ status' = status => status'[c] = status[c]
            BY <2>1 DEF TypeOK, TableTypes
        <3>4. status' = [status EXCEPT ![b] = "live"] => status'[b] = "live"
            BY DEF TypeOK, TableTypes
        <3> QED
            BY <2>1, <2>2, <3>2, <3>3, <3>4 DEF HeldLive
    <2> QED
        BY <2>2, <2>3 DEF LocksCompatible, RunPhases, WorkHeld, CurIsDue, EntriesHeld,
                          TargetHeld
<1>6. CASE TurnMonth \/ UNCHANGED vars
    BY <1>6 DEF TurnMonth, vars, table, args, scan, loop, cover, LocksCompatible,
                HeldLive, RunPhases, WorkHeld, CurIsDue, EntriesHeld, TargetHeld
<1> QED
    BY <1>1, <1>3, <1>2, <1>4, <1>5, <1>6 DEF Next

\* The locking discipline holds throughout, for any constants.
THEOREM LockingCorrect == Spec => []LockInv
<1>1. Init => LockInv
    BY DEF Init, LockInv, LocksCompatible, HeldLive, RunPhases, WorkHeld, CurIsDue,
           EntriesHeld, TargetHeld, Conflict, NoLock, Zero
<1> QED
    BY <1>1, LockStep, TypeCorrect, PTL DEF Spec

-----------------------------------------------------------------------------
(* The rows a run works on.                                                *)

\* What a run pays and decides on is the copy it scanned; the row it came from
\* still holds the same payroll and auto-balance flag.
SeenIsCurrent ==
    \A p \in Callers : \A b \in due[p] \cup paid[p] :
        seen[p][b] = [payroll |-> payroll[b], auto |-> auto[b]]

\* A row that a run has found due is locked by that run and by nobody else, so
\* no statement outside its transaction can be under way on it.
LEMMA WorkExclusive ==
    ASSUME TypeOK, LockInv, NEW p \in Callers, NEW b \in due[p] \cup paid[p]
    PROVE  /\ b \in Budgets /\ status[b] = "live"
           /\ \A q \in Callers \ {p} : holds[q][b] = NoLock
           /\ \A mode \in LockModes : Free(b, mode) => mode = NoLock
<1>1. b \in Budgets
    BY DEF TypeOK, CallerTypes
<1>2. \A q \in Callers : holds[q][b] \in 0..3
    BY <1>1 DEF TypeOK, CallerTypes, LockModes, NoLock, ForUpdate
<1>3. holds[p][b] = 3
    BY DEF LockInv, WorkHeld, ForUpdate
<1>4. \A q \in Callers \ {p} : holds[q][b] = 0
    BY <1>1, <1>2, <1>3 DEF LockInv, LocksCompatible, Conflict
<1>5. \A mode \in LockModes : Free(b, mode) => mode = 0
    BY <1>3 DEF Free, Conflict, LockModes, NoLock, ForUpdate
<1>6. status[b] = "live"
    BY <1>1, <1>3 DEF LockInv, HeldLive, NoLock
<1> QED
    BY <1>1, <1>4, <1>5, <1>6 DEF NoLock

LEMMA SeenStep == TypeOK /\ LockInv /\ SeenIsCurrent /\ [Next]_vars => SeenIsCurrent'
<1> SUFFICES ASSUME TypeOK, LockInv, SeenIsCurrent, [Next]_vars PROVE SeenIsCurrent'
    OBVIOUS
<1> USE DEF SeenIsCurrent, args, scan, loop, cover, table
<1>1. ASSUME NEW p \in Callers, Return(p), UNCHANGED <<payroll, auto>>
      PROVE  SeenIsCurrent'
    BY <1>1 DEF Return, TypeOK, CallerTypes
<1>2. ASSUME NEW p \in Callers, Abort(p) PROVE SeenIsCurrent'
    BY <1>1, <1>2 DEF Abort
<1>3. ASSUME NEW p \in Callers, Call(p) PROVE SeenIsCurrent'
    BY <1>3 DEF Call, CallMonthly, CallForced, CallConfig, StartCall
<1>4. ASSUME NEW p \in Callers, Statement(p) PROVE SeenIsCurrent'
    <2>1. CASE Commit(p)
        BY <2>1, <1>1 DEF Commit, Stamp
    <2>2. CASE CommitConfig(p)
        <3>1. ASSUME NEW q \in Callers \ {p}, NEW b \in due[q] \cup paid[q]
              PROVE  b # target[p]
            BY <2>2, <3>1, WorkExclusive DEF CommitConfig, LockInv, TargetHeld, NoLock,
               NoKeyUpdate
        <3>2. due'[p] = {} /\ paid'[p] = {}
            BY <2>2 DEF CommitConfig, Return, TypeOK, CallerTypes
        <3>3. \A q \in Callers \ {p} : due'[q] = due[q] /\ paid'[q] = paid[q]
                                       /\ seen'[q] = seen[q]
            BY <2>2 DEF CommitConfig, Return, TypeOK, CallerTypes
        <3>4. \A b \in Budgets : b # target[p] => auto'[b] = auto[b]
            BY <2>2 DEF CommitConfig, TypeOK, TableTypes
        <3> QED
            BY <2>2, <3>1, <3>2, <3>3, <3>4, WorkExclusive DEF CommitConfig
    <2>3. CASE Pay(p)
        <3>1. \A q \in Callers : due'[q] \cup paid'[q] = due[q] \cup paid[q]
            BY <2>3 DEF Pay, Credit, LockInv, CurIsDue, TypeOK, CallerTypes
        <3> QED
            BY <2>3, <3>1 DEF Pay, Credit
    <2>4. ASSUME NEW b \in Budgets, LockRow(p, b) PROVE SeenIsCurrent'
        <3>1. CASE UNCHANGED <<seen, due>>
            BY <2>4, <3>1 DEF LockRow
        <3>2. CASE /\ seen' = [seen EXCEPT ![p][b] =
                                 [payroll |-> payroll[b], auto |-> auto[b]]]
                   /\ due' = [due EXCEPT ![p] = @ \cup {b}]
            <4>1. ASSUME NEW q \in Callers, NEW c \in due'[q] \cup paid'[q]
                  PROVE  seen'[q][c] = [payroll |-> payroll[c], auto |-> auto[c]]
                <5>1. CASE q = p /\ c = b
                    BY <3>2, <5>1 DEF TypeOK, CallerTypes
                <5>2. CASE q # p \/ c # b
                    <6>1. c \in due[q] \cup paid[q]
                        BY <2>4, <3>2, <4>1, <5>2 DEF LockRow, TypeOK, CallerTypes
                    <6>2. seen'[q][c] = seen[q][c]
                        BY <3>2, <5>2 DEF TypeOK, CallerTypes
                    <6> QED
                        BY <6>1, <6>2
                <5> QED
                    BY <5>1, <5>2
            <4> QED
                BY <2>4, <4>1 DEF LockRow
        <3> QED
            BY <2>4, <3>1, <3>2 DEF LockRow
    <2>5. CASE UNCHANGED <<payroll, auto, seen, due, paid>>
        BY <2>5
    <2> QED
        BY <1>4, <1>2, <2>1, <2>2, <2>3, <2>4, <2>5
        DEF Statement, Begin, Select, LockTarget, TargetMissing, SkipRow, Cover,
            Debit, DebitFails, LinkSource, LinkFails
<1>5. ASSUME NEW p \in Callers, BreakDeadlock(p) PROVE SeenIsCurrent'
    BY <1>2, <1>5 DEF BreakDeadlock
<1>6. CASE UserWrites
    <2>1. PICK b \in Budgets :
             /\ UserWrite
             /\ \/ UNCHANGED <<payroll, auto>>
                \/ /\ status[b] # "live" \/ Free(b, NoKeyUpdate) \/ Free(b, ForUpdate)
                   /\ \A c \in Budgets : c # b => /\ payroll'[c] = payroll[c]
                                                  /\ auto'[c] = auto[c]
        BY <1>6 DEF UserWrites, CreateBudget, UpdateBudget, DeleteBudget,
                    CreateTransaction, EditTransaction, TypeOK, TableTypes
    <2>2. UNCHANGED <<due, paid, seen>>
        BY <2>1 DEF UserWrite
    <2>3. ASSUME NEW q \in Callers, NEW c \in due[q] \cup paid[q]
          PROVE  /\ c \in Budgets
                 /\ c = b => ~(status[b] # "live" \/ Free(b, NoKeyUpdate)
                                                  \/ Free(b, ForUpdate))
        BY WorkExclusive DEF LockModes, NoLock, NoKeyUpdate, ForUpdate
    <2> QED
        BY <2>1, <2>2, <2>3
<1>7. CASE TurnMonth \/ UNCHANGED vars
    BY <1>7 DEF TurnMonth, vars
<1> QED
    BY <1>2, <1>3, <1>4, <1>5, <1>6, <1>7 DEF Next

\* A run never pays an amount, or follows an auto-balance flag, that the budget
\* no longer has, for any constants.
THEOREM SeenIsCurrentCorrect == Spec => []SeenIsCurrent
<1>1. Init => SeenIsCurrent
    BY DEF Init, SeenIsCurrent
<1> QED
    BY <1>1, SeenStep, TypeCorrect, LockingCorrect, PTL DEF Spec

-----------------------------------------------------------------------------
(* Once per month.  OncePerMonth is not inductive: that a month is not     *)
(* credited again rests on payroll_run_at never going back behind a month  *)
(* that was credited, and that on the clocks agreeing and on no forced     *)
(* transaction, which stamps without looking, staying open over the turn   *)
(* of a month.                                                             *)

ClocksAgree == appMonth = dbMonth
\* A transaction's NOW() is not earlier than the `now` of its call, and neither
\* lies in the future.
NowPast ==
    \A p \in Callers :
        /\ now[p] <= dbMonth
        /\ InTx(p) => now[p] <= txNow[p] /\ txNow[p] <= dbMonth
        /\ InTx(p) /\ p \in ForcedCallers => txNow[p] = dbMonth
RunAtPast == \A b \in Budgets : runAt[b] <= dbMonth
\* What a monthly run has found due is still unpaid for its month.
DueUnpaid ==
    \A p \in MonthlyCallers : \A b \in due[p] \cup paid[p] : runAt[b] < now[p]
\* A month credited by an unforced run is not later than payroll_run_at.
CreditsStamped ==
    \A b \in Budgets, m \in Months :
        unforced[b][m] > 0 /\ status[b] # "deleted" => m <= runAt[b]

OnceInv == /\ ClocksAgree /\ NowPast /\ RunAtPast /\ DueUnpaid
           /\ CreditsStamped /\ OncePerMonth

\* The two conditions: one clock, and no forced transaction over a month's turn.
OneClock == MaxSkew = 0
ForcedInOneMonth == ForcedCallers = {} \/ "forced" \notin TickDuring

\* Clocks that are no month apart agree.
LEMMA ApartZero ==
    ASSUME NEW a \in Int, NEW d \in Int, Apart(a, d) <= 0
    PROVE  a = d
BY DEF Apart

LEMMA NowStep ==
    ASSUME OneClock, ForcedInOneMonth, TypeOK, ClocksAgree, NowPast, [Next]_vars
    PROVE  ClocksAgree' /\ NowPast'
<1> USE DEF ClocksAgree, NowPast, InTx, args, clock
<1>0. /\ appMonth \in Int /\ dbMonth \in Int /\ appMonth = dbMonth /\ dbMonth >= 1
      /\ \A q \in Callers : now[q] \in Int /\ txNow[q] \in Int
    BY DEF TypeOK, TableTypes, CallerTypes, Months, Never
<1>1. ASSUME NEW p \in Callers, Return(p) PROVE ClocksAgree' /\ NowPast'
    BY <1>0, <1>1 DEF Return, TypeOK, CallerTypes, Never
<1>2. ASSUME NEW p \in Callers, Abort(p) PROVE ClocksAgree' /\ NowPast'
    BY <1>1, <1>2 DEF Abort
<1>3. ASSUME NEW p \in Callers, Call(p) PROVE ClocksAgree' /\ NowPast'
    <2>1. /\ UNCHANGED <<clock, txNow>> /\ pc' = [pc EXCEPT ![p] = "called"]
          /\ UNCHANGED now \/ now' = [now EXCEPT ![p] = appMonth]
        BY <1>3 DEF Call, CallMonthly, CallForced, CallConfig, StartCall
    <2> QED
        BY <1>0, <2>1 DEF TypeOK, CallerTypes
<1>4. ASSUME NEW p \in Callers, Statement(p) PROVE ClocksAgree' /\ NowPast'
    <2>1. CASE Begin(p)
        BY <1>0, <2>1 DEF Begin, TypeOK, CallerTypes
    <2>2. CASE /\ UNCHANGED <<clock, now, txNow>>
               /\ \A q \in Callers : InTx(q)' = InTx(q)
        BY <2>2
    <2>3. CASE Select(p) \/ Pay(p) \/ LockTarget(p)
        BY <2>3, <2>2 DEF Select, Pay, LockTarget, TypeOK, CallerTypes
    <2>4. ASSUME NEW b \in Budgets,
                 \/ LockRow(p, b) \/ SkipRow(p, b) \/ Cover(p, b)
                 \/ Debit(p, b) \/ LinkSource(p, b)
          PROVE  ClocksAgree' /\ NowPast'
        BY <2>4, <2>2 DEF LockRow, SkipRow, Cover, Debit, LinkSource, TypeOK,
                          CallerTypes
    <2> QED
        BY <1>4, <1>1, <1>2, <2>1, <2>3, <2>4
        DEF Statement, Commit, Stamp, CommitConfig, TargetMissing, DebitFails, LinkFails
<1>5. ASSUME NEW p \in Callers, BreakDeadlock(p) PROVE ClocksAgree' /\ NowPast'
    BY <1>2, <1>5 DEF BreakDeadlock
<1>6. CASE UserWrites
    BY <1>6 DEF UserWrites, UserWrite, CreateBudget, UpdateBudget, DeleteBudget,
                CreateTransaction, EditTransaction
<1>7. CASE TurnMonth
    <2>1. appMonth' = dbMonth' /\ dbMonth' \in Int /\ dbMonth' >= dbMonth
        BY <1>0, <1>7 DEF TurnMonth, OneClock, Apart, Months
    <2>2. UNCHANGED <<pc, now, txNow>>
        BY <1>7 DEF TurnMonth
    <2>3. \A p \in ForcedCallers : ~InTx(p)
        BY <1>7, CallersAssumption
        DEF TurnMonth, Phase, ForcedInOneMonth, Callers, RunCallers
    <2> QED
        BY <1>0, <2>1, <2>2, <2>3
<1>8. CASE UNCHANGED vars
    BY <1>8 DEF vars
<1> QED
    BY <1>2, <1>3, <1>4, <1>5, <1>6, <1>7, <1>8 DEF Next

\* A statement that leaves payroll_run_at, the history and the set of budgets a
\* run works on alone keeps the rest of the invariant.
LEMMA OnceUnchanged ==
    ASSUME TypeOK, LockInv, OnceInv, TypeOK', NowPast',
           UNCHANGED <<runAt, unforced, status>>, dbMonth' >= dbMonth,
           \A p \in Callers : \/ due'[p] \cup paid'[p] = {}
                              \/ /\ due'[p] \cup paid'[p] \subseteq due[p] \cup paid[p]
                                 /\ now'[p] = now[p]
    PROVE  RunAtPast' /\ DueUnpaid' /\ CreditsStamped' /\ OncePerMonth'
<1> USE DEF OnceInv
<1>1. RunAtPast'
    <2>1. \A b \in Budgets : runAt[b] \in Int /\ dbMonth \in Int /\ dbMonth' \in Int
        BY DEF TypeOK, TableTypes, Months, Never
    <2> QED
        BY <2>1 DEF RunAtPast
<1>2. DueUnpaid'
    BY DEF DueUnpaid, Callers
<1>3. CreditsStamped' /\ OncePerMonth'
    BY DEF CreditsStamped, OncePerMonth
<1> QED
    BY <1>1, <1>2, <1>3

LEMMA OnceStep ==
    ASSUME OneClock, ForcedInOneMonth, TypeOK, LockInv, OnceInv, [Next]_vars
    PROVE  OnceInv'
<1> DEFINE Rest == RunAtPast /\ DueUnpaid /\ CreditsStamped /\ OncePerMonth
<1> SUFFICES Rest'
    BY NowStep DEF OnceInv
<1> USE DEF args, scan, loop, cover, table, clock, history
<1>0. TypeOK' /\ NowPast'
    BY TypeStep, NowStep DEF OnceInv
<1>00. /\ dbMonth \in Int
       /\ \A q \in Callers : now[q] \in Int /\ txNow[q] \in Int
       /\ \A b \in Budgets : runAt[b] \in Int
    BY DEF TypeOK, TableTypes, CallerTypes, Months, Never
<1>1. ASSUME NEW p \in Callers, Return(p), UNCHANGED <<runAt, unforced, status>>
      PROVE  Rest'
    <2>1. \A q \in Callers : \/ due'[q] \cup paid'[q] = {}
                              \/ /\ due'[q] \cup paid'[q] \subseteq due[q] \cup paid[q]
                                 /\ now'[q] = now[q]
        BY <1>1 DEF Return, TypeOK, CallerTypes
    <2>2. UNCHANGED dbMonth
        BY <1>1 DEF Return
    <2>3. dbMonth' >= dbMonth
        BY <1>00, <2>2
    <2> QED
        BY <1>0, <1>1, <2>1, <2>3, OnceUnchanged
<1>2. ASSUME NEW p \in Callers, Abort(p) PROVE Rest'
    BY <1>1, <1>2 DEF Abort
<1>3. ASSUME NEW p \in Callers, Call(p) PROVE Rest'
    <2>1. /\ UNCHANGED <<runAt, unforced, status, dbMonth, due, paid>>
          /\ \A q \in Callers : q # p => now'[q] = now[q]
        BY <1>3 DEF Call, CallMonthly, CallForced, CallConfig, StartCall, TypeOK,
                    CallerTypes
    <2>2. due[p] \cup paid[p] = {}
        BY <1>3 DEF Call, CallMonthly, CallForced, CallConfig, StartCall, TypeOK,
                    RestClean, InTx
    <2> QED
        BY <1>0, <1>00, <2>1, <2>2, OnceUnchanged
<1>4. ASSUME NEW p \in Callers, Statement(p) PROVE Rest'
    <2>1. CASE Commit(p)
        <3>1. /\ \A b \in Budgets :
                    runAt'[b] = IF b \in paid[p] THEN txNow[p] ELSE runAt[b]
              /\ \A b \in Budgets, m \in Months :
                    unforced'[b][m] =
                       IF p \in MonthlyCallers /\ b \in paid[p] /\ m = now[p]
                       THEN unforced[b][m] + 1 ELSE unforced[b][m]
              /\ UNCHANGED <<status, dbMonth>> /\ InTx(p)
            BY <2>1 DEF Commit, Stamp, Return, InTx
        <3>2. /\ due'[p] \cup paid'[p] = {}
              /\ \A q \in Callers \ {p} :
                    due'[q] = due[q] /\ paid'[q] = paid[q] /\ now'[q] = now[q]
            BY <2>1 DEF Commit, Stamp, Return, TypeOK, CallerTypes
        <3>3. p \in MonthlyCallers \/ p \in ForcedCallers
            BY <2>1 DEF Commit, Stamp, LockInv, RunPhases, RunCallers
        <3>4. \A b \in paid[p] : b \in Budgets /\ status[b] = "live"
            BY WorkExclusive
        <3>5. \A q \in Callers \ {p} : \A b \in due[q] \cup paid[q] : b \notin paid[p]
            BY WorkExclusive DEF LockInv, WorkHeld, NoLock, ForUpdate
        <3>6. now[p] <= txNow[p] /\ txNow[p] <= dbMonth
              /\ (p \in ForcedCallers => txNow[p] = dbMonth)
            BY <3>1 DEF OnceInv, NowPast
        <3>7. RunAtPast'
            BY <3>1, <3>6, <1>00 DEF OnceInv, RunAtPast
        <3>8. DueUnpaid'
            <4> SUFFICES ASSUME NEW q \in MonthlyCallers, NEW b \in due'[q] \cup paid'[q]
                         PROVE  runAt'[b] < now'[q]
                BY DEF DueUnpaid
            <4>1. q \in Callers \ {p} /\ b \in due[q] \cup paid[q]
                BY <3>2 DEF Callers
            <4>2. b \in Budgets /\ b \notin paid[p]
                BY <4>1, <3>5, WorkExclusive
            <4> QED
                BY <4>1, <4>2, <3>1, <3>2 DEF OnceInv, DueUnpaid
        <3>9. \A b \in paid[p] : /\ runAt[b] <= txNow[p]
                                 /\ p \in MonthlyCallers => runAt[b] < now[p]
            BY <3>3, <3>4, <3>6, <1>00 DEF OnceInv, RunAtPast, DueUnpaid
        <3>10. \A b \in Budgets, m \in Months : unforced[b][m] \in Nat /\ m \in Int
            <4>1. unforced \in [Budgets -> [Months -> Nat]]
                BY DEF TypeOK, HistoryTypes
            <4>2. \A m \in Months : m \in Int
                BY DEF Months
            <4> QED
                BY <4>1, <4>2
        <3>11. CreditsStamped'
            <4> SUFFICES ASSUME NEW b \in Budgets, NEW m \in Months,
                                unforced'[b][m] > 0, status[b] # "deleted"
                         PROVE  m <= runAt'[b]
                BY <3>1 DEF CreditsStamped
            <4>1. CASE b \in paid[p] /\ m = now[p]
                BY <4>1, <3>1, <3>6
            <4>2. CASE ~(b \in paid[p] /\ m = now[p])
                <5>1. m <= runAt[b]
                    BY <4>2, <3>1 DEF OnceInv, CreditsStamped
                <5> QED
                    BY <5>1, <3>1, <3>6, <3>9, <3>10, <1>00
            <4> QED
                BY <4>1, <4>2
        <3>12. OncePerMonth'
            <4> SUFFICES ASSUME NEW b \in Budgets, NEW m \in Months
                         PROVE  unforced'[b][m] <= 1
                BY DEF OncePerMonth
            <4>1. CASE p \in MonthlyCallers /\ b \in paid[p] /\ m = now[p]
                <5>1. ~(unforced[b][m] > 0)
                    BY <4>1, <3>4, <3>9, <3>10, <1>00 DEF OnceInv, CreditsStamped
                <5> QED
                    BY <4>1, <5>1, <3>1, <3>10
            <4>2. CASE ~(p \in MonthlyCallers /\ b \in paid[p] /\ m = now[p])
                BY <4>2, <3>1 DEF OnceInv, OncePerMonth
            <4> QED
                BY <4>1, <4>2
        <3> QED
            BY <3>7, <3>8, <3>11, <3>12
    <2>2. CASE CommitConfig(p)
        BY <2>2, <1>1 DEF CommitConfig
    <2>3. ASSUME NEW b \in Budgets, LockRow(p, b) PROVE Rest'
        <3>1. UNCHANGED <<runAt, unforced, status, dbMonth, paid, now>>
            BY <2>3 DEF LockRow
        <3>2. CASE ~Payable(p, b)
            <4>1. UNCHANGED due
                BY <2>3, <3>2 DEF LockRow
            <4> QED
                BY <1>0, <1>00, <3>1, <4>1, OnceUnchanged
        <3>3. CASE Payable(p, b)
            <4>1. due' = [due EXCEPT ![p] = @ \cup {b}]
                BY <2>3, <3>3 DEF LockRow
            <4>2. DueUnpaid'
                BY <3>1, <3>3, <4>1 DEF OnceInv, DueUnpaid, Payable, NotRunYet, Callers,
                   TypeOK, CallerTypes
            <4> QED
                BY <3>1, <4>2 DEF OnceInv, RunAtPast, CreditsStamped, OncePerMonth
        <3> QED
            BY <3>2, <3>3
    <2>4. CASE Pay(p)
        BY <2>4, <1>0, <1>00, OnceUnchanged DEF Pay, Credit, LockInv, CurIsDue, TypeOK,
           CallerTypes
    <2>5. CASE UNCHANGED <<runAt, unforced, status, dbMonth, due, paid, now>>
        BY <2>5, <1>0, <1>00, OnceUnchanged
    <2> QED
        BY <1>4, <1>2, <2>1, <2>2, <2>3, <2>4, <2>5
        DEF Statement, Begin, Select, LockTarget, TargetMissing, SkipRow, Cover,
            Debit, DebitFails, LinkSource, LinkFails
<1>5. ASSUME NEW p \in Callers, BreakDeadlock(p) PROVE Rest'
    BY <1>2, <1>5 DEF BreakDeadlock
<1>6. CASE UserWrites
    <2>1. PICK b \in Budgets :
             /\ UserWrite
             /\ \/ UNCHANGED <<runAt, status>>
                \/ /\ UNCHANGED runAt
                   /\ status[b] # "deleted" /\ status' = [status EXCEPT ![b] = "live"]
                \/ /\ Free(b, ForUpdate)
                   /\ runAt' = [runAt EXCEPT ![b] = Never]
                   /\ status' = [status EXCEPT ![b] = "deleted"]
        BY <1>6 DEF UserWrites, CreateBudget, UpdateBudget, DeleteBudget,
                    CreateTransaction, EditTransaction
    <2>2. UNCHANGED <<unforced, dbMonth, due, paid, now>>
        BY <2>1 DEF UserWrite
    <2>3. CASE UNCHANGED <<runAt, status>>
        BY <1>0, <1>00, <2>2, <2>3, OnceUnchanged
    <2>4. CASE /\ UNCHANGED runAt
               /\ status[b] # "deleted" /\ status' = [status EXCEPT ![b] = "live"]
        BY <2>2, <2>4 DEF OnceInv, RunAtPast, DueUnpaid, CreditsStamped, OncePerMonth,
           TypeOK, TableTypes
    <2>5. CASE /\ Free(b, ForUpdate)
               /\ runAt' = [runAt EXCEPT ![b] = Never]
               /\ status' = [status EXCEPT ![b] = "deleted"]
        <3>1. /\ runAt'[b] = 0 /\ status'[b] = "deleted"
              /\ \A c \in Budgets : c # b => /\ runAt'[c] = runAt[c]
                                             /\ status'[c] = status[c]
            BY <2>5 DEF Never, TypeOK, TableTypes
        <3>2. \A p \in Callers : \A c \in due[p] \cup paid[p] : c \in Budgets /\ c # b
            BY <2>5, WorkExclusive DEF LockModes, NoLock, ForUpdate
        <3>3. dbMonth >= 0
            BY DEF TypeOK, TableTypes, Months
        <3>4. RunAtPast'
            BY <2>2, <3>1, <3>3 DEF OnceInv, RunAtPast
        <3>5. DueUnpaid'
            BY <2>2, <3>1, <3>2 DEF OnceInv, DueUnpaid, Callers
        <3>6. CreditsStamped' /\ OncePerMonth'
            BY <2>2, <3>1 DEF OnceInv, CreditsStamped, OncePerMonth
        <3> QED
            BY <3>4, <3>5, <3>6
    <2> QED
        BY <2>1, <2>3, <2>4, <2>5
<1>7. CASE TurnMonth
    <2>1. dbMonth' >= dbMonth
        BY <1>7, <1>00 DEF TurnMonth
    <2> QED
        BY <1>7, <1>0, <2>1, OnceUnchanged DEF TurnMonth
<1>8. CASE UNCHANGED vars
    BY <1>8, <1>0, <1>00, OnceUnchanged DEF vars
<1> QED
    BY <1>2, <1>3, <1>4, <1>5, <1>6, <1>7, <1>8 DEF Next

LEMMA OnceInitially == Init => OnceInv
BY DEF Init, OnceInv, ClocksAgree, NowPast, RunAtPast, DueUnpaid, CreditsStamped,
       OncePerMonth, InTx, Never, Callers

\* Payroll is credited at most once a month by the runs that do not force it,
\* OncePerMonth of the runs, as long as the two clocks turn together and no
\* forced transaction is open while they do; the run Payroll_paid_twice shows
\* that the second condition cannot be dropped.
THEOREM OncePerMonthCorrect ==
    ASSUME OneClock, ForcedInOneMonth
    PROVE  Spec => []OncePerMonth
<1>1. Init => OnceInv
    BY OnceInitially
<1>2. TypeOK /\ LockInv /\ OnceInv /\ [Next]_vars => OnceInv'
    BY OnceStep
<1>3. OnceInv => OncePerMonth
    BY DEF OnceInv
<1> QED
    BY <1>1, <1>2, <1>3, TypeCorrect, LockingCorrect, PTL DEF Spec

-----------------------------------------------------------------------------
(* The promise of the monthly payroll.                                     *)

\* A commit is a Credit of the abstract specification, or credits nothing.
LEMMA CommitCredits ==
    ASSUME TypeOK, LockInv, OnceInv, NEW p \in Callers, Commit(p)
    PROVE  \/ \E S \in SUBSET Budgets, m \in Months : Promise!Credit(S, m)
           \/ UNCHANGED <<appMonth, unforced>>
<1>1. /\ unforced \in [Budgets -> [Months -> Nat]]
      /\ unforced' = [b \in Budgets |-> [m \in Months |->
                        IF p \in MonthlyCallers /\ b \in paid[p] /\ m = now[p]
                        THEN unforced[b][m] + 1 ELSE unforced[b][m]]]
      /\ UNCHANGED appMonth
    BY DEF TypeOK, HistoryTypes, Commit, Return, clock
<1>2. CASE p \in MonthlyCallers /\ paid[p] # {}
    <2>1. \A b \in paid[p] :
             /\ b \in Budgets /\ status[b] = "live"
             /\ runAt[b] \in Months \cup {Never} /\ runAt[b] < now[p]
        BY <1>2, WorkExclusive DEF OnceInv, DueUnpaid, TypeOK, TableTypes
    <2>2. paid[p] \in SUBSET Budgets /\ now[p] \in Months
        <3>1. now[p] \in Months \cup {Never}
            BY DEF TypeOK, CallerTypes
        <3> QED
            BY <1>2, <2>1, <3>1 DEF Months, Never
    <2>3. now[p] <= appMonth
        BY DEF OnceInv, NowPast, ClocksAgree
    <2>4. \A b \in paid[p] : unforced[b][now[p]] = 0
        <3> SUFFICES ASSUME NEW b \in paid[p] PROVE unforced[b][now[p]] = 0
            OBVIOUS
        <3>1. unforced[b][now[p]] \in Nat
            BY <1>1, <2>1, <2>2
        <3>2. ~(now[p] <= runAt[b])
            BY <2>1, <2>2 DEF Months, Never
        <3>3. ~(unforced[b][now[p]] > 0)
            BY <2>1, <2>2, <3>2 DEF OnceInv, CreditsStamped
        <3> QED
            BY <3>1, <3>3
    <2>5. unforced' = [b \in Budgets |->
                         [unforced[b] EXCEPT ![now[p]] = IF b \in paid[p] THEN @ + 1 ELSE @]]
        BY <1>1, <1>2, <2>2
    <2> QED
        BY <1>1, <2>2, <2>3, <2>4, <2>5 DEF Promise!Credit
<1>3. CASE ~(p \in MonthlyCallers /\ paid[p] # {})
    <2>1. unforced' = [b \in Budgets |-> [m \in Months |-> unforced[b][m]]]
        BY <1>1, <1>3
    <2> QED
        BY <1>1, <2>1
<1> QED
    BY <1>2, <1>3

\* The payroll runs implement MonthlyCredit, ImplementsMonthlyCredit of the runs:
\* however many overlap, abort and are called again, each step credits a set of
\* budgets for a month that has begun and for which none of them has a credit.
THEOREM PayrollImplementsMonthlyCredit ==
    ASSUME OneClock, ForcedInOneMonth
    PROVE  Spec => ImplementsMonthlyCredit
<1>1. Init => Promise!Init
    BY DEF Init, Promise!Init
<1>2. TypeOK /\ LockInv /\ OnceInv /\ [Next]_vars => [Promise!Next]_<<appMonth, unforced>>
    <2> SUFFICES ASSUME TypeOK, LockInv, OnceInv, [Next]_vars
                 PROVE  Promise!Next \/ UNCHANGED <<appMonth, unforced>>
        OBVIOUS
    <2>1. CASE \E p \in Callers : Commit(p)
        BY <2>1, CommitCredits DEF Promise!Next
    <2>2. CASE TurnMonth
        BY <2>2 DEF TurnMonth, history, Promise!Next, Promise!MonthTurns
    <2>3. CASE UserWrites
        BY <2>3 DEF UserWrites, UserWrite, CreateBudget, UpdateBudget, DeleteBudget,
                    CreateTransaction, EditTransaction, clock, history
    <2>4. (\E p \in Callers : Commit(p)) \/ TurnMonth \/ UserWrites
          \/ UNCHANGED <<appMonth, unforced>>
        <3>1. ASSUME NEW p \in Callers, Statement(p)
              PROVE  Commit(p) \/ UNCHANGED <<appMonth, unforced>>
            <4>1. ASSUME NEW b \in Budgets, \/ LockRow(p, b) \/ SkipRow(p, b) \/ Cover(p, b)
                                           \/ Debit(p, b) \/ DebitFails(p, b)
                                           \/ LinkSource(p, b) \/ LinkFails(p, b)
                  PROVE  UNCHANGED <<appMonth, unforced>>
                BY <4>1 DEF LockRow, SkipRow, Cover, Debit, DebitFails, LinkSource,
                            LinkFails, Abort, Return, clock, history
            <4>2. \/ Begin(p) \/ Select(p) \/ Pay(p) \/ LockTarget(p) \/ TargetMissing(p)
                  \/ CommitConfig(p)
                  => UNCHANGED <<appMonth, unforced>>
                BY DEF Begin, Select, Pay, LockTarget, TargetMissing, CommitConfig, Abort,
                       Return, clock, history
            <4> QED
                BY <3>1, <4>1, <4>2 DEF Statement
        <3>2. ASSUME NEW p \in Callers, Call(p) \/ Abort(p) \/ BreakDeadlock(p)
              PROVE  UNCHANGED <<appMonth, unforced>>
            BY <3>2 DEF Call, CallMonthly, CallForced, CallConfig, StartCall, Abort,
                        BreakDeadlock, Return, clock, history
        <3> QED
            BY <3>1, <3>2 DEF Next, vars, clock, history
    <2> QED
        BY <2>1, <2>2, <2>3, <2>4
<1>3. Init => OnceInv
    BY OnceInitially
<1>4. TypeOK /\ LockInv /\ OnceInv /\ [Next]_vars => OnceInv'
    BY OnceStep
<1> QED
    BY <1>1, <1>2, <1>3, <1>4, TypeCorrect, LockingCorrect, PTL
    DEF Spec, ImplementsMonthlyCredit, Promise!Spec, Promise!vars

-----------------------------------------------------------------------------
(* What payroll_run_at says.  A run labels its credit with the month of    *)
(* `now` and stamps the month of NOW(); they are the same month when none  *)
(* turns between the call and the beginning of its transaction.            *)

NoTurnBeforeBegin == "call" \notin TickDuring
LabelIsStamp ==
    /\ ClocksAgree
    /\ \A p \in RunCallers :
          /\ pc[p] = "called" => now[p] = dbMonth
          /\ InTx(p) => now[p] = txNow[p]
StampInv == LabelIsStamp /\ RunAtMeansPaid

LEMMA StampStep ==
    ASSUME OneClock, NoTurnBeforeBegin, TypeOK, LockInv, StampInv, [Next]_vars
    PROVE  StampInv'
<1> USE DEF StampInv, LabelIsStamp, ClocksAgree, RunAtMeansPaid, InTx, args, clock,
            table, history
<1>1. ASSUME NEW p \in Callers, Return(p), UNCHANGED <<runAt, paidFor>>
      PROVE  StampInv'
    BY <1>1 DEF Return, TypeOK, CallerTypes
<1>2. ASSUME NEW p \in Callers, Abort(p) PROVE StampInv'
    BY <1>1, <1>2 DEF Abort
<1>3. ASSUME NEW p \in Callers, Call(p) PROVE StampInv'
    <2>1. /\ UNCHANGED <<clock, txNow, runAt, paidFor>>
          /\ pc' = [pc EXCEPT ![p] = "called"]
          /\ now' = [now EXCEPT ![p] = appMonth] \/ (UNCHANGED now /\ p \notin RunCallers)
        BY <1>3, CallersAssumption
        DEF Call, CallMonthly, CallForced, CallConfig, StartCall
    <2>2. \A q \in Callers : q # p => now'[q] = now[q] /\ pc'[q] = pc[q]
        BY <2>1 DEF TypeOK, CallerTypes
    <2>3. pc'[p] = "called" /\ (p \in RunCallers => now'[p] = dbMonth')
        BY <2>1 DEF TypeOK, CallerTypes
    <2> QED
        BY <2>1, <2>2, <2>3 DEF Callers, RunCallers
<1>4. ASSUME NEW p \in Callers, Statement(p) PROVE StampInv'
    <2>1. CASE Begin(p)
        BY <2>1 DEF Begin, TypeOK, CallerTypes
    <2>2. CASE Commit(p)
        <3>1. /\ \A b \in Budgets :
                    runAt'[b] = IF b \in paid[p] THEN txNow[p] ELSE runAt[b]
              /\ paidFor' = paidFor \cup (paid[p] \X {now[p]})
            BY <2>2 DEF Commit, Stamp
        <3>2. p \in RunCallers /\ now[p] = txNow[p]
            BY <2>2 DEF Commit, Stamp, LockInv, RunPhases
        <3>3. RunAtMeansPaid'
            BY <3>1, <3>2
        <3>4. LabelIsStamp'
            BY <2>2 DEF Commit, Stamp, Return, TypeOK, CallerTypes
        <3> QED
            BY <3>3, <3>4
    <2>3. CASE CommitConfig(p)
        BY <2>3, <1>1 DEF CommitConfig
    <2>4. CASE /\ UNCHANGED <<clock, now, txNow, runAt, paidFor>>
               /\ \A q \in Callers : \/ InTx(q)' = InTx(q) /\ pc'[q] # "called"
                                   \/ pc'[q] = pc[q]
        BY <2>4 DEF Callers, RunCallers
    <2>5. CASE Select(p) \/ Pay(p) \/ LockTarget(p)
        BY <2>5, <2>4 DEF Select, Pay, LockTarget, TypeOK, CallerTypes
    <2>6. ASSUME NEW b \in Budgets,
                 \/ LockRow(p, b) \/ SkipRow(p, b) \/ Cover(p, b)
                 \/ Debit(p, b) \/ LinkSource(p, b)
          PROVE  StampInv'
        BY <2>6, <2>4 DEF LockRow, SkipRow, Cover, Debit, LinkSource, TypeOK,
                          CallerTypes
    <2> QED
        BY <1>4, <1>2, <2>1, <2>2, <2>3, <2>5, <2>6
        DEF Statement, TargetMissing, DebitFails, LinkFails
<1>5. ASSUME NEW p \in Callers, BreakDeadlock(p) PROVE StampInv'
    BY <1>2, <1>5 DEF BreakDeadlock
<1>6. CASE UserWrites
    <2>1. /\ UNCHANGED <<pc, now, txNow, clock, paidFor>>
          /\ \A b \in Budgets : runAt'[b] = runAt[b] \/ runAt'[b] = Never
        BY <1>6 DEF UserWrites, UserWrite, CreateBudget, UpdateBudget, DeleteBudget,
                    CreateTransaction, EditTransaction, TypeOK, TableTypes
    <2> QED
        BY <2>1
<1>7. CASE TurnMonth
    <2>1. appMonth' = dbMonth'
        <3>1. /\ Apart(appMonth', dbMonth') <= 0
              /\ appMonth' \in Int /\ dbMonth' \in Int
            BY <1>7 DEF TurnMonth, OneClock, Months
        <3> QED
            BY <3>1, ApartZero
    <2>2. \A p \in RunCallers : pc[p] # "called"
        BY <1>7, CallersAssumption
        DEF TurnMonth, Phase, NoTurnBeforeBegin, Callers, RunCallers
    <2> QED
        BY <1>7, <2>1, <2>2 DEF TurnMonth
<1>8. CASE UNCHANGED vars
    BY <1>8 DEF vars
<1> QED
    BY <1>2, <1>3, <1>4, <1>5, <1>6, <1>7, <1>8 DEF Next

\* payroll_run_at never names a month whose credit is missing, RunAtMeansPaid of
\* the runs, as long as the clocks agree and no month turns between the call and
\* its transaction; the run Payroll_lost_month shows that it may otherwise.
THEOREM RunAtMeansPaidCorrect ==
    ASSUME OneClock, NoTurnBeforeBegin
    PROVE  Spec => []RunAtMeansPaid
<1>1. Init => StampInv
    BY DEF Init, StampInv, LabelIsStamp, ClocksAgree, RunAtMeansPaid, InTx, Callers,
           RunCallers
<1>2. TypeOK /\ LockInv /\ StampInv /\ [Next]_vars => StampInv'
    BY StampStep
<1>3. StampInv => RunAtMeansPaid
    BY DEF StampInv
<1> QED
    BY <1>1, <1>2, <1>3, TypeCorrect, LockingCorrect, PTL DEF Spec

-----------------------------------------------------------------------------
(* The deficit a run has read.                                             *)

LEMMA CoverStep ==
    ASSUME TypeOK, LockInv, [Next]_vars,
           NEW p \in RunCallers, NEW b \in Covered(p), pc'[p] # "idle"
    PROVE  \/ balance'[b] = balance[b]
           \/ \E change \in Edits : EditTransaction(b, change)
<1> USE DEF table
<1>1. p \in Callers /\ b \in due[p] \cup paid[p]
    BY DEF Covered, Callers, RunCallers, LockInv, CurIsDue
<1>2. /\ b \in Budgets /\ \A q \in Callers \ {p} : holds[q][b] = NoLock
      /\ ~Free(b, KeyShare) /\ ~Free(b, ForUpdate)
    BY <1>1, WorkExclusive DEF LockModes, NoLock, KeyShare, ForUpdate
<1>3. ASSUME NEW q \in Callers, Commit(q) PROVE balance'[b] = balance[b]
    <2>1. q # p
        BY <1>1, <1>3 DEF Commit, Stamp, Return, TypeOK, CallerTypes
    <2>2. delta[q][b] = 0 /\ b \notin paid[q]
        BY <1>2, <2>1 DEF LockInv, EntriesHeld, WorkHeld, NoLock, ForUpdate
    <2>3. balance[b] \in Int
        BY <1>2 DEF TypeOK, TableTypes
    <2> QED
        BY <1>2, <1>3, <2>2, <2>3 DEF Commit, Stamp
<1>4. CASE UserWrites
    <2>1. PICK c \in Budgets :
             \/ UNCHANGED balance
             \/ /\ \/ Free(c, KeyShare) \/ Free(c, ForUpdate)
                   \/ \E change \in Edits : EditTransaction(c, change)
                /\ \A d \in Budgets : d # c => balance'[d] = balance[d]
        BY <1>4 DEF UserWrites, CreateBudget, UpdateBudget, DeleteBudget,
                    CreateTransaction, EditTransaction, TypeOK, TableTypes
    <2> QED
        BY <1>2, <2>1
<1>5. UserWrites \/ UNCHANGED balance \/ \E q \in Callers : Commit(q)
    <2>1. ASSUME NEW q \in Callers, Statement(q) PROVE Commit(q) \/ UNCHANGED balance
        <3>1. ASSUME NEW c \in Budgets, \/ LockRow(q, c) \/ SkipRow(q, c) \/ Cover(q, c)
                                       \/ Debit(q, c) \/ DebitFails(q, c)
                                       \/ LinkSource(q, c) \/ LinkFails(q, c)
              PROVE  UNCHANGED balance
            BY <3>1 DEF LockRow, SkipRow, Cover, Debit, DebitFails, LinkSource, LinkFails,
                        Abort
        <3>2. \/ Begin(q) \/ Select(q) \/ Pay(q) \/ LockTarget(q) \/ TargetMissing(q)
              \/ CommitConfig(q)
              => UNCHANGED balance
            BY DEF Begin, Select, Pay, LockTarget, TargetMissing, CommitConfig, Abort
        <3> QED
            BY <2>1, <3>1, <3>2 DEF Statement
    <2>2. ASSUME NEW q \in Callers, Call(q) \/ Abort(q) \/ BreakDeadlock(q)
          PROVE  UNCHANGED balance
        BY <2>2 DEF Call, CallMonthly, CallForced, CallConfig, StartCall, Abort,
                    BreakDeadlock
    <2> QED
        BY <2>1, <2>2 DEF Next, vars, TurnMonth
<1> QED
    BY <1>3, <1>4, <1>5

\* No entry is added to a budget between a run's reading of its deficit and the
\* end of that run, CoverStaysTrue of the runs, for any constants.
THEOREM CoverStaysTrueCorrect == Spec => CoverStaysTrue
<1>1. TypeOK /\ LockInv /\ [Next]_vars =>
         [\A p \in RunCallers : \A b \in Covered(p) :
             pc'[p] # "idle" => \/ balance'[b] = balance[b]
                                \/ \E change \in Edits : EditTransaction(b, change)]_vars
    BY CoverStep
<1> QED
    BY <1>1, TypeCorrect, LockingCorrect, PTL DEF Spec, CoverStaysTrue

-----------------------------------------------------------------------------
(* References.  That no row refers to a budget that is gone rests, for     *)
(* source rows, on the foreign keys a config request holds until it        *)
(* commits, and for entries on the locks of the run that wrote them.       *)

RowsOfLive ==
    \A b, s \in Budgets :
        weight[b][s] > 0 => b # s /\ status[b] = "live" /\ status[s] = "live"
BalanceOfLive == \A b \in Budgets : status[b] # "live" => balance[b] = 0

\* A config request asks for no row of its target to itself, and holds the
\* sources it has inserted.
SourcesHeld ==
    \A p \in ConfigCallers :
        /\ pc[p] # "idle" => req[p].row[target[p]] = 0
        /\ pc[p] = "linking" =>
              \A s \in Budgets : req[p].row[s] > 0 =>
                  s \in todo[p] \/ holds[p][s] # NoLock

RefInv == RowsOfLive /\ BalanceOfLive /\ SourcesHeld

\* What a caller does to its own request, with its locks growing at most.
LEMMA SourcesUnchanged ==
    ASSUME TypeOK, TypeOK', LockInv, SourcesHeld, Grown, UNCHANGED <<target, req>>,
           \A q \in ConfigCallers : /\ pc'[q] # "idle" => pc[q] # "idle"
                                    /\ pc'[q] = "linking" =>
                                          /\ pc[q] = "linking"
                                          /\ \A s \in Budgets : s \in todo[q] =>
                                                s \in todo'[q] \/ holds'[q][s] # NoLock
    PROVE  SourcesHeld'
<1>1. \A q \in Callers, c \in Budgets :
         holds[q][c] \in 0..3 /\ holds'[q][c] \in 0..3 /\ holds'[q][c] >= holds[q][c]
    <2>1. holds \in [Callers -> [Budgets -> 0..3]]
        BY DEF TypeOK, CallerTypes, LockModes, NoLock, ForUpdate
    <2>2. holds' \in [Callers -> [Budgets -> 0..3]]
        BY DEF TypeOK, CallerTypes, LockModes, NoLock, ForUpdate
    <2> QED
        BY <2>1, <2>2 DEF Grown
<1> QED
    BY <1>1 DEF SourcesHeld, NoLock, Callers

\* A caller that returns has no request left; the others' are as they were.
LEMMA SourcesReturned ==
    ASSUME TypeOK, SourcesHeld, NEW p \in Callers, Return(p)
    PROVE  SourcesHeld'
<1>1. /\ pc'[p] = "idle"
      /\ \A q \in Callers : q # p =>
            /\ pc'[q] = pc[q] /\ req'[q] = req[q] /\ target'[q] = target[q]
            /\ todo'[q] = todo[q] /\ holds'[q] = holds[q]
    BY DEF Return, TypeOK, CallerTypes
<1> QED
    BY <1>1 DEF SourcesHeld, Callers

LEMMA RefStep == TypeOK /\ LockInv /\ RefInv /\ [Next]_vars => RefInv'
<1> SUFFICES ASSUME TypeOK, TypeOK', LockInv, RefInv, [Next]_vars PROVE RefInv'
    BY TypeStep
<1> USE DEF RefInv, args, scan, loop, cover, table
<1>0. ASSUME UNCHANGED <<status, weight, balance>>
      PROVE  RowsOfLive' /\ BalanceOfLive'
    BY <1>0 DEF RowsOfLive, BalanceOfLive
<1>1. ASSUME UNCHANGED <<pc, target, req, todo, holds>> PROVE SourcesHeld'
    BY <1>1 DEF SourcesHeld
<1>2. ASSUME NEW p \in Callers, Call(p) PROVE RefInv'
    <2>1. ASSUME NEW b \in Budgets, NEW on \in BOOLEAN, NEW row \in Rows,
                 CallConfig(p, b, on, row)
          PROVE  SourcesHeld'
        <3>1. /\ pc'[p] = "called" /\ req'[p].row[target'[p]] = 0
              /\ \A q \in Callers : q # p =>
                    pc'[q] = pc[q] /\ req'[q] = req[q] /\ target'[q] = target[q]
              /\ UNCHANGED <<todo, holds>>
            BY <2>1 DEF CallConfig, StartCall, TypeOK, CallerTypes
        <3> QED
            BY <3>1 DEF SourcesHeld, Callers
    <2>2. ASSUME p \in RunCallers, StartCall(p), UNCHANGED req,
                 \A q \in Callers : q # p => target'[q] = target[q]
          PROVE  SourcesHeld'
        BY <2>2, CallersAssumption
        DEF StartCall, SourcesHeld, TypeOK, CallerTypes, Callers
    <2>3. UNCHANGED <<status, weight, balance>>
        BY <1>2 DEF Call, CallMonthly, CallForced, CallConfig, StartCall
    <2> QED
        BY <1>0, <1>2, <2>1, <2>2, <2>3
        DEF Call, CallMonthly, CallForced, RunCallers, TypeOK, CallerTypes
<1>3. ASSUME NEW p \in Callers, Abort(p) PROVE RefInv'
    BY <1>0, <1>3, SourcesReturned DEF Abort
<1>4. ASSUME NEW p \in Callers, Statement(p) PROVE RefInv'
    <2>1. CASE Commit(p)
        <3>1. BalanceOfLive'
            <4>1. ASSUME NEW b \in Budgets, status[b] # "live" PROVE balance'[b] = 0
                <5>1. b \notin paid[p]
                    BY <4>1, WorkExclusive
                <5>2. delta[p][b] = 0
                    BY <4>1 DEF LockInv, EntriesHeld, HeldLive
                <5>3. balance'[b] = balance[b] + delta[p][b] + 0
                    BY <2>1, <5>1 DEF Commit
                <5> QED
                    BY <4>1, <5>2, <5>3 DEF BalanceOfLive
            <4> QED
                BY <2>1, <4>1 DEF Commit, BalanceOfLive
        <3>2. RowsOfLive'
            BY <2>1 DEF Commit, RowsOfLive
        <3> QED
            BY <2>1, <3>1, <3>2, SourcesReturned DEF Commit
    <2>2. CASE CommitConfig(p)
        <3>1. p \in ConfigCallers /\ target[p] \in Budgets
            BY <2>2, CallersAssumption
            DEF CommitConfig, LockInv, RunPhases, RunCallers, TypeOK, CallerTypes
        <3>2. status[target[p]] = "live"
            BY <2>2, <3>1
            DEF CommitConfig, LockInv, TargetHeld, HeldLive, NoLock, NoKeyUpdate
        <3>3. ASSUME NEW s \in Budgets, req[p].row[s] > 0
              PROVE  s # target[p] /\ status[s] = "live"
            <4>1. holds[p][s] # NoLock
                BY <2>2, <3>1, <3>3 DEF CommitConfig, SourcesHeld
            <4>2. req[p].row[target[p]] = 0
                BY <2>2, <3>1 DEF CommitConfig, SourcesHeld
            <4> QED
                BY <3>3, <4>1, <4>2 DEF LockInv, HeldLive
        <3>4. \A b \in Budgets :
                 weight'[b] = IF b = target[p] THEN req[p].row ELSE weight[b]
            BY <2>2 DEF CommitConfig, TypeOK, TableTypes
        <3>5. RowsOfLive'
            BY <2>2, <3>2, <3>3, <3>4 DEF CommitConfig, RowsOfLive
        <3> QED
            BY <2>2, <3>5, SourcesReturned DEF CommitConfig, BalanceOfLive
    <2>3. CASE LockTarget(p)
        <3>1. /\ pc[p] = "open" /\ UNCHANGED <<status, weight, balance, target, req>>
              /\ \A q \in Callers : q # p =>
                    pc'[q] = pc[q] /\ todo'[q] = todo[q] /\ holds'[q] = holds[q]
              /\ todo'[p] = Weighted(req[p].row)
            BY <2>3 DEF LockTarget, TakeLock, TypeOK, CallerTypes
        <3>2. \A s \in Budgets : req[p].row[s] > 0 => s \in todo'[p]
            BY <3>1 DEF Weighted, TypeOK, CallerTypes, RequestType
        <3> QED
            BY <1>0, <3>1, <3>2 DEF SourcesHeld, Callers
    <2>4. ASSUME NEW b \in Budgets, LinkSource(p, b) PROVE RefInv'
        <3>1. Grown /\ holds'[p][b] >= KeyShare
            BY <2>4, LockTaken DEF LinkSource, LockModes, NoLock, KeyShare, ForUpdate
        <3>2. \A q \in Callers : todo'[q] = IF q = p THEN todo[p] \ {b} ELSE todo[q]
            BY <2>4 DEF LinkSource, TypeOK, CallerTypes
        <3>3. UNCHANGED <<status, weight, balance, pc, target, req>>
            BY <2>4 DEF LinkSource
        <3>4. \A q \in Callers, s \in Budgets :
                 s \in todo[q] => s \in todo'[q] \/ holds'[q][s] # NoLock
            BY <3>1, <3>2 DEF KeyShare, NoLock
        <3> QED
            BY <1>0, <3>1, <3>3, <3>4, SourcesUnchanged DEF Callers
    <2>5. ASSUME p \in RunCallers, UNCHANGED <<status, weight, balance, target, req>>,
                 Grown,
                 \A q \in Callers : q # p => pc'[q] = pc[q] /\ todo'[q] = todo[q]
          PROVE  RefInv'
        BY <1>0, <2>5, CallersAssumption, SourcesUnchanged DEF Callers
    <2>6. ASSUME NEW b \in Budgets, LockRow(p, b) PROVE RefInv'
        <3>1. Grown
            BY <2>6, LockTaken DEF LockRow, LockModes, NoLock, ForUpdate
        <3> QED
            BY <2>5, <2>6, <3>1 DEF LockRow, LockInv, RunPhases, TypeOK, CallerTypes
    <2>7. ASSUME NEW b \in Budgets, Debit(p, b) PROVE RefInv'
        <3>1. Grown
            BY <2>7, LockTaken DEF Debit, LockModes, NoLock, KeyShare, ForUpdate
        <3> QED
            BY <2>5, <2>7, <3>1 DEF Debit, LockInv, RunPhases
    <2>8. ASSUME UNCHANGED holds PROVE Grown
        <3>1. \A q \in Callers, c \in Budgets : holds[q][c] \in 0..3
            BY DEF TypeOK, CallerTypes, LockModes, NoLock, ForUpdate
        <3> QED
            BY <2>8, <3>1 DEF Grown
    <2>9. CASE Begin(p)
        BY <1>0, <2>8, <2>9, SourcesUnchanged DEF Begin, TypeOK, CallerTypes, Callers
    <2>10. CASE Select(p) \/ Pay(p)
        BY <2>5, <2>8, <2>10 DEF Select, Pay, LockInv, RunPhases, TypeOK, CallerTypes
    <2>11. ASSUME NEW b \in Budgets, SkipRow(p, b) \/ Cover(p, b) PROVE RefInv'
        BY <2>5, <2>8, <2>11 DEF SkipRow, Cover, LockInv, RunPhases, TypeOK, CallerTypes
    <2> QED
        BY <1>3, <1>4, <2>1, <2>2, <2>3, <2>4, <2>6, <2>7, <2>9, <2>10, <2>11
        DEF Statement, TargetMissing, DebitFails, LinkFails
<1>5. ASSUME NEW p \in Callers, BreakDeadlock(p) PROVE RefInv'
    BY <1>3, <1>5 DEF BreakDeadlock
<1>6. CASE UserWrites
    <2> USE DEF UserWrite
    <2>1. SourcesHeld'
        BY <1>1, <1>6 DEF UserWrites, CreateBudget, UpdateBudget, DeleteBudget,
                          CreateTransaction, EditTransaction
    <2>2. ASSUME NEW b \in Budgets, NEW amount \in Payrolls,
                 CreateBudget(b, amount) \/ UpdateBudget(b, amount)
          PROVE  RowsOfLive' /\ BalanceOfLive'
        BY <2>2 DEF CreateBudget, UpdateBudget, RowsOfLive, BalanceOfLive, TypeOK,
                    TableTypes
    <2>3. ASSUME NEW b \in Budgets, DeleteBudget(b) PROVE RowsOfLive' /\ BalanceOfLive'
        <3>1. \A t, s \in Budgets :
                 weight'[t][s] > 0 => b \notin {t, s} /\ weight'[t][s] = weight[t][s]
            BY <2>3 DEF DeleteBudget
        <3>2. \A c \in Budgets :
                 /\ status'[c] = IF c = b THEN "deleted" ELSE status[c]
                 /\ balance'[c] = IF c = b THEN 0 ELSE balance[c]
            BY <2>3 DEF DeleteBudget, TypeOK, TableTypes
        <3> QED
            BY <3>1, <3>2 DEF RowsOfLive, BalanceOfLive
    <2>4. ASSUME NEW b \in Budgets, status[b] = "live", UNCHANGED <<status, weight>>,
                 NEW v, balance' = [balance EXCEPT ![b] = v]
          PROVE  RowsOfLive' /\ BalanceOfLive'
        BY <2>4 DEF RowsOfLive, BalanceOfLive, TypeOK, TableTypes
    <2> QED
        BY <1>6, <2>1, <2>2, <2>3, <2>4
        DEF UserWrites, CreateTransaction, EditTransaction
<1>7. CASE TurnMonth \/ UNCHANGED vars
    BY <1>0, <1>1, <1>7 DEF TurnMonth, vars
<1> QED
    BY <1>2, <1>3, <1>4, <1>5, <1>6, <1>7 DEF Next

LEMMA RefInitially == Init => RefInv
<1> SUFFICES ASSUME Init PROVE RefInv
    OBVIOUS
<1>1. PICK t \in InitTables :
         /\ status = [b \in Budgets |-> IF b \in t.live THEN "live" ELSE "unborn"]
         /\ weight = t.weight /\ balance = t.balance
    BY DEF Init
<1>2. RowsOfLive /\ BalanceOfLive
    BY <1>1, TablesAssumption DEF RowsOfLive, BalanceOfLive
<1>3. SourcesHeld
    BY DEF Init, SourcesHeld, Callers
<1> QED
    BY <1>2, <1>3 DEF RefInv

LEMMA RefInvariant == Spec => []RefInv
BY RefInitially, RefStep, TypeCorrect, LockingCorrect, PTL DEF Spec

\* No source row and no entry, committed or pending, is of a budget that is not
\* there, whatever deletions race with runs and config requests.
THEOREM RefsLiveCorrect == Spec => []RefsLive
<1>1. TypeOK /\ LockInv /\ RefInv => RefsLive
    <2> SUFFICES ASSUME TypeOK, LockInv, RefInv PROVE RefsLive
        OBVIOUS
    <2>1. ASSUME NEW b \in Budgets, status[b] # "live", NEW p \in Callers
          PROVE  delta[p][b] = 0 /\ b \notin paid[p]
        BY <2>1, WorkExclusive DEF LockInv, EntriesHeld, HeldLive
    <2> QED
        BY <2>1 DEF RefInv, RowsOfLive, BalanceOfLive, RefsLive
<1> QED
    BY <1>1, RefInvariant, TypeCorrect, LockingCorrect, PTL

-----------------------------------------------------------------------------
(* Money.  Every entry a transaction adds to delta is matched by a change  *)
(* of moved, one budget at a time.                                         *)

\* Auto-balance moves money, it does not make any: what a transaction has taken
\* from its sources is on the targets or on the way to the current one.
NoCentLost ==
    \A p \in Callers : SumFunction(delta[p]) = -moved[p] * UnitsPerCent

\* One more entry changes the sum by its amount.
LEMMA DeltaGrows ==
    ASSUME TypeOK, NEW p \in Callers, NEW b \in Budgets, NEW amount \in Int,
           delta' = [delta EXCEPT ![p][b] = @ + amount]
    PROVE  /\ SumFunction(delta'[p]) = SumFunction(delta[p]) + amount
           /\ \A q \in Callers \ {p} : delta'[q] = delta[q]
<1>1. delta \in [Callers -> [Budgets -> Int]]
    BY DEF TypeOK, CallerTypes
<1>2. delta'[p] = Raised(delta[p], b, amount)
    BY <1>1 DEF Raised
<1>3. SumFunction(Raised(delta[p], b, amount)) = SumFunction(delta[p]) + amount
    <2>1. delta[p] \in [Budgets -> Int] /\ IsFiniteSet(Budgets)
        BY <1>1, BudgetsAssumption
    <2> QED
        BY <2>1, SumOfRaised
<1> QED
    BY <1>1, <1>2, <1>3

LEMMA MoneyStep == TypeOK /\ NoCentLost /\ [Next]_vars => NoCentLost'
<1> SUFFICES ASSUME TypeOK, NoCentLost, [Next]_vars PROVE NoCentLost'
    OBVIOUS
<1> USE DEF args, scan, loop, cover
<1>1. ASSUME UNCHANGED <<moved, delta>> PROVE NoCentLost'
    BY <1>1 DEF NoCentLost
<1>2. ASSUME NEW p \in Callers, Call(p) PROVE NoCentLost'
    BY <1>1, <1>2 DEF Call, CallMonthly, CallForced, CallConfig, StartCall
<1>3. ASSUME NEW p \in Callers, Return(p) PROVE NoCentLost'
    <2>1. /\ delta'[p] = Zero /\ moved'[p] = 0
          /\ \A q \in Callers \ {p} : delta'[q] = delta[q] /\ moved'[q] = moved[q]
        BY <1>3 DEF Return, TypeOK, CallerTypes
    <2>2. SumFunction(Zero) = 0
        BY BudgetsAssumption, SumOfZeroes DEF Zero
    <2>3. -(0 * UnitsPerCent) = 0
        BY AmountsAssumption
    <2> QED
        BY <2>1, <2>2, <2>3 DEF NoCentLost
<1>4. ASSUME NEW p \in Callers, Statement(p) PROVE NoCentLost'
    <2>1. CASE Pay(p)
        <3>1. cur[p] \in Budgets /\ moved[p] \in Nat
            BY <2>1 DEF Pay, TypeOK, CallerTypes
        <3>2. moved[p] * UnitsPerCent \in Int
            BY <3>1, AmountsAssumption
        <3>3. /\ SumFunction(delta'[p]) = SumFunction(delta[p]) + moved[p] * UnitsPerCent
              /\ \A q \in Callers \ {p} : delta'[q] = delta[q]
            BY <2>1, <3>1, <3>2, DeltaGrows DEF Pay, Credit
        <3>4. /\ moved'[p] = 0
              /\ \A q \in Callers \ {p} : moved'[q] = moved[q]
            BY <2>1 DEF Pay, TypeOK, CallerTypes
        <3>5. -(0 * UnitsPerCent) = 0
            BY AmountsAssumption
        <3>6. SumFunction(delta[p]) = -(moved[p] * UnitsPerCent)
            BY DEF NoCentLost
        <3>7. SumFunction(delta'[p]) = 0
            BY <3>2, <3>3, <3>6
        <3> QED
            BY <3>3, <3>4, <3>5, <3>7 DEF NoCentLost
    <2>2. ASSUME NEW s \in Budgets, Debit(p, s) PROVE NoCentLost'
        <3> DEFINE cents == owed[p][s]
        <3>1. cents \in Nat /\ moved[p] \in Nat
            BY DEF TypeOK, CallerTypes
        <3>2. cents * UnitsPerCent \in Int /\ moved[p] * UnitsPerCent \in Int
            BY <3>1, AmountsAssumption
        <3>3. delta' = [delta EXCEPT ![p][s] = @ + (-(cents * UnitsPerCent))]
            <4>1. delta[p][s] \in Int
                BY DEF TypeOK, CallerTypes
            <4>2. delta[p][s] - cents * UnitsPerCent
                     = delta[p][s] + (-(cents * UnitsPerCent))
                BY <3>2, <4>1
            <4>3. delta' = [delta EXCEPT ![p][s] = delta[p][s] - cents * UnitsPerCent]
                BY <2>2 DEF Debit
            <4> QED
                BY <4>2, <4>3
        <3>4. /\ SumFunction(delta'[p])
                   = SumFunction(delta[p]) + (-(cents * UnitsPerCent))
              /\ \A q \in Callers \ {p} : delta'[q] = delta[q]
            <4> HIDE DEF cents
            <4>1. -(cents * UnitsPerCent) \in Int
                BY <3>2
            <4> QED
                BY <3>3, <4>1, DeltaGrows
        <3>5. /\ moved'[p] = moved[p] + cents
              /\ \A q \in Callers \ {p} : moved'[q] = moved[q]
            BY <2>2 DEF Debit, TypeOK, CallerTypes
        <3>6. (moved[p] + cents) * UnitsPerCent
                 = moved[p] * UnitsPerCent + cents * UnitsPerCent
            <4>1. \A a, b, c \in Int : (a + b) * c = a * c + b * c
                BY Z3
            <4> HIDE DEF cents
            <4> QED
                BY <3>1, <4>1, AmountsAssumption
        <3>7. SumFunction(delta[p]) = -(moved[p] * UnitsPerCent)
            BY DEF NoCentLost
        <3>8. SumFunction(delta'[p]) = -((moved[p] + cents) * UnitsPerCent)
            <4> HIDE DEF cents
            <4> QED
                BY <3>2, <3>4, <3>6, <3>7
        <3> QED
            BY <3>4, <3>5, <3>8 DEF NoCentLost
    <2>3. CASE UNCHANGED <<moved, delta>>
        BY <1>1, <2>3
    <2> QED
        BY <1>4, <1>3, <2>1, <2>2, <2>3
        DEF Statement, Begin, Select, LockTarget, TargetMissing, LockRow, SkipRow, Cover,
            DebitFails, LinkSource, LinkFails, Commit, CommitConfig, Abort
<1>5. ASSUME NEW p \in Callers, Abort(p) \/ BreakDeadlock(p) PROVE NoCentLost'
    BY <1>3, <1>5 DEF Abort, BreakDeadlock
<1>6. CASE UserWrites
    BY <1>1, <1>6
    DEF UserWrites, UserWrite, CreateBudget, UpdateBudget, DeleteBudget,
        CreateTransaction, EditTransaction
<1>7. CASE TurnMonth \/ UNCHANGED vars
    BY <1>1, <1>7 DEF TurnMonth, vars
<1> QED
    BY <1>2, <1>4, <1>5, <1>6, <1>7 DEF Next

\* Auto-balance makes no money and loses none, for any budgets, shares and amounts:
\* half cents included, since what is credited is what was debited.
THEOREM NoCentLostCorrect == Spec => []NoCentLost
<1>1. Init => NoCentLost
    <2>1. SumFunction(Zero) = 0
        BY BudgetsAssumption, SumOfZeroes DEF Zero
    <2>2. -(0 * UnitsPerCent) = 0
        BY AmountsAssumption
    <2> QED
        BY <2>1, <2>2 DEF Init, NoCentLost
<1> QED
    BY <1>1, MoneyStep, TypeCorrect, PTL DEF Spec

-----------------------------------------------------------------------------
(* Steps, seen from one caller and from the rows it works on.              *)

\* What a caller has in hand is as it was.
CallerKept(p) ==
    /\ pc'[p] = pc[p] /\ target'[p] = target[p]
    /\ now'[p] = now[p] /\ txNow'[p] = txNow[p]
    /\ todo'[p] = todo[p] /\ seen'[p] = seen[p]
    /\ due'[p] = due[p] /\ paid'[p] = paid[p]
    /\ cur'[p] = cur[p] /\ owed'[p] = owed[p] /\ moved'[p] = moved[p]
    /\ delta'[p] = delta[p]

\* A call leaves nothing behind, of its own or in another's hands.
LEMMA ReturnedCaller ==
    ASSUME TypeOK, NEW p \in Callers, Return(p)
    PROVE  /\ pc'[p] = "idle" /\ todo'[p] = {} /\ due'[p] = {} /\ paid'[p] = {}
           /\ cur'[p] = NoBudget /\ moved'[p] = 0 /\ delta'[p] = Zero
           /\ \A q \in Callers \ {p} : CallerKept(q)
BY DEF Return, CallerKept, TypeOK, CallerTypes

\* A step is of one caller, and the others keep what they have; or it ends a call;
\* or no caller takes part in it.
LEMMA StepOf ==
    ASSUME TypeOK, [Next]_vars, NEW p \in Callers
    PROVE  CallerKept(p) \/ Call(p) \/ Statement(p) \/ Return(p)
<1> USE DEF args, scan, loop, cover
<1>1. ASSUME NEW q \in Callers \ {p}, Return(q) PROVE CallerKept(p)
    BY <1>1, ReturnedCaller
<1>2. ASSUME NEW q \in Callers \ {p}, Call(q) PROVE CallerKept(p)
    BY <1>2 DEF Call, CallMonthly, CallForced, CallConfig, StartCall, CallerKept, TypeOK,
                CallerTypes
<1>3. ASSUME NEW q \in Callers \ {p}, Statement(q) PROVE CallerKept(p)
    <2> USE DEF CallerKept, TypeOK, CallerTypes
    <2>1. CASE Begin(q) \/ Select(q) \/ LockTarget(q)
        BY <2>1 DEF Begin, Select, LockTarget
    <2>2. CASE Pay(q)
        BY <2>2 DEF Pay
    <2>3. CASE Commit(q) \/ TargetMissing(q) \/ CommitConfig(q)
        BY <2>3, <1>1 DEF Commit, TargetMissing, CommitConfig, Abort
    <2>4. ASSUME NEW b \in Budgets, LockRow(q, b) PROVE CallerKept(p)
        BY <2>4 DEF LockRow
    <2>5. ASSUME NEW b \in Budgets, Cover(q, b) PROVE CallerKept(p)
        BY <2>5 DEF Cover
    <2>6. ASSUME NEW b \in Budgets, Debit(q, b) PROVE CallerKept(p)
        BY <2>6 DEF Debit
    <2>7. ASSUME NEW b \in Budgets, SkipRow(q, b) \/ LinkSource(q, b)
          PROVE  CallerKept(p)
        BY <2>7 DEF SkipRow, LinkSource
    <2>8. ASSUME NEW b \in Budgets, DebitFails(q, b) \/ LinkFails(q, b)
          PROVE  CallerKept(p)
        BY <2>8, <1>1 DEF DebitFails, LinkFails, Abort
    <2> QED
        BY <1>3, <2>1, <2>2, <2>3, <2>4, <2>5, <2>6, <2>7, <2>8 DEF Statement
<1>4. ASSUME NEW q \in Callers, Abort(q) \/ BreakDeadlock(q)
      PROVE  CallerKept(p) \/ Return(p)
    BY <1>4, <1>1 DEF Abort, BreakDeadlock
<1>5. CASE UserWrites
    <2>1. UserWrite
        BY <1>5 DEF UserWrites, CreateBudget, UpdateBudget, DeleteBudget,
                    CreateTransaction, EditTransaction
    <2> QED
        BY <2>1 DEF UserWrite, CallerKept
<1>6. CASE TurnMonth
    BY <1>6 DEF TurnMonth, CallerKept
<1>7. CASE UNCHANGED vars
    BY <1>7 DEF vars, CallerKept
<1> QED
    BY <1>2, <1>3, <1>4, <1>5, <1>6, <1>7 DEF Next

\* The tables change in a commit, in a user's write, and in no other step.
LEMMA TableSteps ==
    ASSUME TypeOK, [Next]_vars
    PROVE  \/ UNCHANGED table
           \/ \E q \in Callers : Commit(q) \/ CommitConfig(q)
           \/ UserWrites
<1>1. ASSUME NEW q \in Callers, Statement(q)
      PROVE  UNCHANGED table \/ Commit(q) \/ CommitConfig(q)
    <2>1. ASSUME NEW c \in Budgets, \/ LockRow(q, c) \/ SkipRow(q, c) \/ Cover(q, c)
                                   \/ Debit(q, c) \/ DebitFails(q, c)
                                   \/ LinkSource(q, c) \/ LinkFails(q, c)
          PROVE  UNCHANGED table
        BY <2>1 DEF LockRow, SkipRow, Cover, Debit, DebitFails, LinkSource, LinkFails,
                    Abort
    <2>2. \/ Begin(q) \/ Select(q) \/ Pay(q) \/ LockTarget(q) \/ TargetMissing(q)
          => UNCHANGED table
        BY DEF Begin, Select, Pay, LockTarget, TargetMissing, Abort
    <2> QED
        BY <1>1, <2>1, <2>2 DEF Statement
<1>2. ASSUME NEW q \in Callers, Call(q) \/ Abort(q) \/ BreakDeadlock(q)
      PROVE  UNCHANGED table
    BY <1>2 DEF Call, CallMonthly, CallForced, CallConfig, StartCall, Abort,
                BreakDeadlock
<1>3. TurnMonth \/ UNCHANGED vars => UNCHANGED table
    BY DEF TurnMonth, vars
<1> QED
    BY <1>1, <1>2, <1>3 DEF Next

\* While a run holds a budget that it found due, nobody else changes the budget's
\* row, nor its source rows, but for those of a source that is deleted.
LEMMA RowKept ==
    ASSUME TypeOK, LockInv, [Next]_vars, NEW p \in Callers,
           NEW b \in due[p] \cup paid[p], b \in due'[p] \cup paid'[p]
    PROVE  /\ status'[b] = "live" /\ payroll'[b] = payroll[b]
           /\ runAt'[b] = runAt[b] /\ auto'[b] = auto[b]
           /\ \A s \in Budgets : weight'[b][s] = weight[b][s] \/ status'[s] = "deleted"
<1> DEFINE Kept(c) == /\ status'[c] = status[c] /\ payroll'[c] = payroll[c]
                      /\ runAt'[c] = runAt[c] /\ auto'[c] = auto[c]
                      /\ \A s \in Budgets : \/ weight'[c][s] = weight[c][s]
                                            \/ status'[s] = "deleted"
<1> USE DEF table
<1>1. /\ b \in Budgets /\ status[b] = "live"
      /\ \A q \in Callers \ {p} : holds[q][b] = NoLock
      /\ ~Free(b, NoKeyUpdate) /\ ~Free(b, ForUpdate)
    BY WorkExclusive DEF LockModes, NoLock, NoKeyUpdate, ForUpdate
<1>2. ASSUME NEW q \in Callers, Return(q) PROVE q # p
    BY <1>2, ReturnedCaller
<1>3. ASSUME NEW q \in Callers, Commit(q) PROVE Kept(b)
    <2>1. b \notin paid[q]
        BY <1>1, <1>2, <1>3 DEF Commit, LockInv, WorkHeld, NoLock, ForUpdate
    <2> QED
        BY <1>1, <1>3, <2>1 DEF Commit
<1>4. ASSUME NEW q \in Callers, CommitConfig(q) PROVE Kept(b)
    <2>1. q # p
        BY <1>2, <1>4 DEF CommitConfig
    <2>2. target[q] # b
        BY <1>1, <1>4, <2>1 DEF CommitConfig, LockInv, TargetHeld, NoLock, NoKeyUpdate
    <2> QED
        BY <1>1, <1>4, <2>2 DEF CommitConfig, TypeOK, TableTypes
<1>5. ASSUME UserWrites PROVE Kept(b)
    <2>1. ASSUME NEW c \in Budgets, NEW amount \in Payrolls,
                 CreateBudget(c, amount) \/ UpdateBudget(c, amount)
          PROVE  Kept(b)
        <3>1. c # b
            BY <1>1, <2>1 DEF CreateBudget, UpdateBudget
        <3> QED
            BY <1>1, <2>1, <3>1 DEF CreateBudget, UpdateBudget, TypeOK, TableTypes
    <2>2. ASSUME NEW c \in Budgets, DeleteBudget(c) PROVE Kept(b)
        <3>1. c # b
            BY <1>1, <2>2 DEF DeleteBudget
        <3>2. status'[c] = "deleted"
            BY <2>2 DEF DeleteBudget, TypeOK, TableTypes
        <3>3. \A s \in Budgets : s # c => weight'[b][s] = weight[b][s]
            BY <1>1, <2>2, <3>1 DEF DeleteBudget
        <3> QED
            BY <1>1, <2>2, <3>1, <3>2, <3>3 DEF DeleteBudget, TypeOK, TableTypes
    <2>3. ASSUME NEW c \in Budgets, NEW amount,
                 CreateTransaction(c, amount) \/ EditTransaction(c, amount)
          PROVE  Kept(b)
        BY <2>3 DEF CreateTransaction, EditTransaction
    <2> HIDE DEF Kept
    <2> QED
        BY <1>5, <2>1, <2>2, <2>3 DEF UserWrites
<1> QED
    BY <1>1, <1>3, <1>4, <1>5, TableSteps

\* A budget that is deleted stays so, and one whose row somebody has locked is
\* not deleted.
LEMMA StatusSteps ==
    ASSUME TypeOK, LockInv, [Next]_vars, NEW b \in Budgets
    PROVE  /\ status[b] = "deleted" => status'[b] = "deleted"
           /\ status[b] = "live" => status'[b] \in {"live", "deleted"}
           /\ \A p \in Callers : holds[p][b] # NoLock => status'[b] = "live"
<1> USE DEF table
<1>1. ASSUME NEW p \in Callers, holds[p][b] # NoLock
      PROVE  status[b] = "live" /\ ~Free(b, ForUpdate)
    <2>1. holds[p][b] \in 0..3
        BY DEF TypeOK, CallerTypes, LockModes, NoLock, ForUpdate
    <2>2. Conflict(holds[p][b], ForUpdate)
        BY <1>1, <2>1 DEF Conflict, NoLock, ForUpdate
    <2> QED
        BY <1>1, <2>2 DEF LockInv, HeldLive, Free
<1>2. CASE UserWrites
    <2>1. \/ status'[b] = status[b]
          \/ status[b] = "unborn"
          \/ status'[b] = "deleted" /\ Free(b, ForUpdate)
        BY <1>2 DEF UserWrites, CreateBudget, UpdateBudget, DeleteBudget,
                    CreateTransaction, EditTransaction, TypeOK, TableTypes
    <2> QED
        BY <1>1, <2>1
<1>3. CASE UNCHANGED status
    BY <1>1, <1>3
<1> QED
    BY <1>2, <1>3, TableSteps DEF Commit, CommitConfig

-----------------------------------------------------------------------------
(* What a run may still rely on when it commits: its months, its target,   *)
(* and that the tables, as they are by then, would let it pay.             *)

ClocksNear == appMonth <= dbMonth + MaxSkew
CallMonths(p) ==
    /\ pc[p] # "idle" => now[p] \in Months /\ now[p] <= appMonth
    /\ InTx(p) => /\ txNow[p] \in Months /\ txNow[p] <= dbMonth
                  /\ now[p] <= txNow[p] + MaxSkew
OwnTarget(p) == p \in ForcedCallers => todo[p] \cup due[p] \cup paid[p] \subseteq {target[p]}
DuePayable(p) == \A b \in due[p] \cup paid[p] : Payable(p, b)

RunInv ==
    ClocksNear /\ \A p \in RunCallers : CallMonths(p) /\ OwnTarget(p) /\ DuePayable(p)

\* Only the turn of a month changes a clock.
LEMMA ClockOrTurn == [Next]_vars => TurnMonth \/ UNCHANGED clock
<1> SUFFICES ASSUME [Next]_vars PROVE TurnMonth \/ UNCHANGED clock
    OBVIOUS
<1>1. ASSUME NEW q \in Callers, Return(q) PROVE UNCHANGED clock
    BY <1>1 DEF Return
<1>2. ASSUME NEW q \in Callers, Statement(q) PROVE UNCHANGED clock
    BY <1>2, <1>1
    DEF Statement, Begin, Select, Pay, Commit, LockTarget, TargetMissing, CommitConfig,
        LockRow, SkipRow, Cover, Debit, DebitFails, LinkSource, LinkFails, Abort
<1>3. ASSUME NEW q \in Callers, Call(q) \/ Abort(q) \/ BreakDeadlock(q)
      PROVE  UNCHANGED clock
    BY <1>3, <1>1 DEF Call, CallMonthly, CallForced, CallConfig, StartCall, Abort,
                      BreakDeadlock
<1>4. UserWrites => UNCHANGED clock
    BY DEF UserWrites, UserWrite, CreateBudget, UpdateBudget, DeleteBudget,
           CreateTransaction, EditTransaction
<1> QED
    BY <1>2, <1>3, <1>4 DEF Next, vars

\* The clocks only go forward, and stay within MaxSkew of each other.
LEMMA ClockSteps ==
    ASSUME TypeOK, ClocksNear, [Next]_vars
    PROVE  /\ appMonth \in Int /\ dbMonth \in Int /\ appMonth' \in Int /\ dbMonth' \in Int
           /\ appMonth' >= appMonth /\ dbMonth' >= dbMonth /\ ClocksNear'
<1>1. appMonth \in Int /\ dbMonth \in Int /\ MaxSkew \in Int
    BY BoundsAssumption DEF TypeOK, TableTypes, Months
<1>2. CASE TurnMonth
    <2>1. /\ appMonth' \in Months \cap {appMonth, appMonth + 1}
          /\ dbMonth' \in Months \cap {dbMonth, dbMonth + 1}
          /\ Apart(appMonth', dbMonth') <= MaxSkew
        BY <1>2 DEF TurnMonth
    <2>2. appMonth' \in Int /\ dbMonth' \in Int
        BY <2>1 DEF Months
    <2>3. appMonth' >= appMonth /\ dbMonth' >= dbMonth
        BY <1>1, <2>1
    <2>4. \A a, d, m \in Int : Apart(a, d) <= m => a <= d + m
        BY DEF Apart
    <2> QED
        BY <1>1, <2>1, <2>2, <2>3, <2>4 DEF ClocksNear
<1>3. CASE UNCHANGED clock
    BY <1>1, <1>3 DEF clock, ClocksNear
<1> QED
    BY <1>2, <1>3, ClockOrTurn

LEMMA CallMonthsStep ==
    ASSUME TypeOK, ClocksNear, [Next]_vars, NEW p \in RunCallers, CallMonths(p)
    PROVE  CallMonths(p)'
<1>1. p \in Callers /\ p \notin ConfigCallers
    BY CallersAssumption DEF Callers, RunCallers
<1>2. /\ appMonth \in Months /\ dbMonth \in Months /\ MaxSkew \in Int
      /\ now[p] \in Int /\ txNow[p] \in Int
    BY <1>1, BoundsAssumption DEF TypeOK, TableTypes, CallerTypes, Months, Never
<1>3. /\ appMonth \in Int /\ dbMonth \in Int /\ appMonth' \in Int /\ dbMonth' \in Int
      /\ appMonth' >= appMonth /\ dbMonth' >= dbMonth
    BY ClockSteps
<1> USE DEF CallMonths, InTx
<1>4. CASE now'[p] = now[p] /\ txNow'[p] = txNow[p] /\ pc[p] # "idle"
           /\ (InTx(p)' => InTx(p))
    BY <1>2, <1>3, <1>4
<1>5. CASE CallerKept(p)
    <2>1. pc'[p] = pc[p] /\ now'[p] = now[p] /\ txNow'[p] = txNow[p]
        BY <1>5 DEF CallerKept
    <2> QED
        BY <1>2, <1>3, <2>1
<1>6. CASE Return(p)
    BY <1>1, <1>6, ReturnedCaller
<1>7. CASE Call(p)
    <2>1. now'[p] = appMonth /\ pc'[p] = "called"
        BY <1>1, <1>7 DEF Call, CallMonthly, CallForced, CallConfig, StartCall, TypeOK,
                          CallerTypes
    <2> QED
        BY <1>2, <1>3, <2>1
<1>8. CASE Statement(p)
    <2>1. CASE Begin(p)
        <3>1. txNow'[p] = dbMonth /\ now'[p] = now[p] /\ pc[p] = "called"
            BY <1>1, <2>1 DEF Begin, args, TypeOK, CallerTypes
        <3>2. now[p] \in Months /\ now[p] <= appMonth /\ appMonth <= dbMonth + MaxSkew
            BY <3>1 DEF ClocksNear
        <3> QED
            BY <1>2, <1>3, <3>1, <3>2
    <2>2. CASE Commit(p)
        BY <1>6, <2>2 DEF Commit
    <2>3. CASE Select(p) \/ Pay(p)
        BY <1>1, <1>4, <2>3 DEF Select, Pay, args, TypeOK, CallerTypes
    <2>4. ASSUME NEW b \in Budgets, \/ LockRow(p, b) \/ SkipRow(p, b) \/ Cover(p, b)
                                   \/ Debit(p, b) \/ LinkSource(p, b)
          PROVE  CallMonths(p)'
        BY <1>1, <1>4, <2>4 DEF LockRow, SkipRow, Cover, Debit, LinkSource, args, TypeOK,
                                CallerTypes
    <2>5. ASSUME NEW b \in Budgets, DebitFails(p, b) \/ LinkFails(p, b)
          PROVE  CallMonths(p)'
        BY <1>6, <2>5 DEF DebitFails, LinkFails, Abort
    <2>6. CASE LockTarget(p) \/ TargetMissing(p)
        BY <1>1, <2>6 DEF LockTarget, TargetMissing
    <2>7. CASE CommitConfig(p)
        BY <1>6, <2>7 DEF CommitConfig
    <2> QED
        BY <1>8, <2>1, <2>2, <2>3, <2>4, <2>5, <2>6, <2>7 DEF Statement
<1> QED
    BY <1>1, <1>5, <1>6, <1>7, <1>8, StepOf

\* A run's own statements add to what it works on only rows of its SELECT that it
\* finds payable, and keep its target and its month.
LEMMA WorkSteps ==
    ASSUME TypeOK, LockInv, NEW p \in RunCallers, Statement(p)
    PROVE  \/ Return(p)
           \/ /\ now'[p] = now[p] /\ target'[p] = target[p]
              /\ \/ /\ p \in ForcedCallers => todo'[p] \subseteq {target[p]}
                    /\ due'[p] = due[p] /\ paid'[p] = paid[p]
                 \/ /\ todo'[p] \subseteq todo[p]
                    /\ due'[p] \cup paid'[p] = due[p] \cup paid[p]
                 \/ \E b \in todo[p] :
                       /\ todo'[p] \subseteq todo[p]
                       /\ due'[p] = due[p] \cup {b} /\ paid'[p] = paid[p]
                       /\ Payable(p, b) /\ UNCHANGED table
<1>1. p \in Callers /\ p \notin ConfigCallers
    BY CallersAssumption DEF Callers, RunCallers
<1> USE DEF args, scan, loop, cover, TypeOK, CallerTypes
<1>2. CASE Commit(p) \/ CommitConfig(p)
    BY <1>2 DEF Commit, CommitConfig
<1>3. CASE Begin(p)
    BY <1>1, <1>3 DEF Begin
<1>4. CASE Select(p)
    <2>1. /\ todo'[p] = IF p \in MonthlyCallers THEN {b \in Budgets : Payable(p, b)}
                                                ELSE {target[p]} \cap Live
          /\ now'[p] = now[p] /\ target'[p] = target[p]
          /\ due'[p] = due[p] /\ paid'[p] = paid[p]
        BY <1>1, <1>4 DEF Select
    <2>2. p \in ForcedCallers => p \notin MonthlyCallers
        BY CallersAssumption
    <2> QED
        BY <2>1, <2>2
<1>5. CASE Pay(p)
    <2>1. cur[p] \in due[p]
        BY <1>1, <1>5 DEF Pay, LockInv, CurIsDue
    <2>2. /\ due'[p] = due[p] \ {cur[p]} /\ paid'[p] = paid[p] \cup {cur[p]}
          /\ now'[p] = now[p] /\ target'[p] = target[p] /\ todo'[p] = todo[p]
        BY <1>1, <1>5 DEF Pay
    <2> QED
        BY <2>1, <2>2
<1>6. ASSUME NEW b \in Budgets, LockRow(p, b)
      PROVE  /\ now'[p] = now[p] /\ target'[p] = target[p]
             /\ todo'[p] \subseteq todo[p] /\ paid'[p] = paid[p] /\ b \in todo[p]
             /\ \/ due'[p] = due[p]
                \/ due'[p] = due[p] \cup {b} /\ Payable(p, b) /\ UNCHANGED table
    BY <1>1, <1>6 DEF LockRow
<1>7. ASSUME NEW b \in Budgets, SkipRow(p, b) \/ Cover(p, b) \/ Debit(p, b)
      PROVE  /\ now'[p] = now[p] /\ target'[p] = target[p]
             /\ todo'[p] \subseteq todo[p] /\ due'[p] = due[p] /\ paid'[p] = paid[p]
    BY <1>1, <1>7 DEF SkipRow, Cover, Debit
<1>8. ASSUME NEW b \in Budgets, LinkSource(p, b) PROVE FALSE
    BY <1>1, <1>8 DEF LinkSource, LockInv, RunPhases
<1>9. ASSUME NEW b \in Budgets, DebitFails(p, b) \/ LinkFails(p, b) PROVE Return(p)
    BY <1>9 DEF DebitFails, LinkFails, Abort
<1>10. CASE LockTarget(p) \/ TargetMissing(p)
    BY <1>1, <1>10 DEF LockTarget, TargetMissing
<1> HIDE DEF args, scan, loop, cover, TypeOK, CallerTypes
<1> QED
    BY <1>2, <1>3, <1>4, <1>5, <1>6, <1>7, <1>8, <1>9, <1>10 DEF Statement

\* A budget found due stays payable while its run goes on.
LEMMA StaysPayable ==
    ASSUME TypeOK, LockInv, [Next]_vars, NEW p \in RunCallers, DuePayable(p),
           NEW b \in due[p] \cup paid[p], b \in due'[p] \cup paid'[p], now'[p] = now[p]
    PROVE  Payable(p, b)'
<1>1. p \in Callers
    BY DEF Callers, RunCallers
<1>2. status'[b] = "live" /\ payroll'[b] = payroll[b] /\ runAt'[b] = runAt[b]
    BY <1>1, RowKept
<1>3. Payable(p, b)
    BY DEF DuePayable
<1> QED
    BY <1>2, <1>3 DEF Payable, NotRunYet

LEMMA RunInvStep == TypeOK /\ LockInv /\ RunInv /\ [Next]_vars => RunInv'
<1> SUFFICES ASSUME TypeOK, LockInv, RunInv, [Next]_vars PROVE RunInv'
    OBVIOUS
<1>1. ClocksNear'
    BY ClockSteps DEF RunInv
<1>2. ASSUME NEW p \in RunCallers PROVE CallMonths(p)'
    BY CallMonthsStep DEF RunInv
<1>3. ASSUME NEW p \in RunCallers PROVE OwnTarget(p)' /\ DuePayable(p)'
    <2>1. p \in Callers /\ OwnTarget(p) /\ DuePayable(p)
        BY DEF RunInv, Callers, RunCallers
    <2>2. CASE todo'[p] = {} /\ due'[p] = {} /\ paid'[p] = {}
        BY <2>2 DEF OwnTarget, DuePayable
    <2>3. CASE Return(p)
        BY <2>1, <2>2, <2>3, ReturnedCaller
    <2>4. CASE Call(p)
        <3>1. pc[p] = "idle" /\ todo'[p] = todo[p] /\ due'[p] = due[p] /\ paid'[p] = paid[p]
            BY <2>4 DEF Call, CallMonthly, CallForced, CallConfig, StartCall, scan, loop
        <3> QED
            BY <2>1, <2>2, <3>1 DEF TypeOK, RestClean, InTx
    <2>5. CASE CallerKept(p)
        <3>1. /\ todo'[p] = todo[p] /\ due'[p] = due[p] /\ paid'[p] = paid[p]
              /\ target'[p] = target[p] /\ now'[p] = now[p]
            BY <2>5 DEF CallerKept
        <3>2. OwnTarget(p)'
            BY <2>1, <3>1 DEF OwnTarget
        <3>3. DuePayable(p)'
            BY <2>1, <3>1, StaysPayable DEF DuePayable
        <3> QED
            BY <3>2, <3>3
    <2>6. CASE /\ Statement(p) /\ ~Return(p)
        <3>1. /\ now'[p] = now[p] /\ target'[p] = target[p]
              /\ \/ /\ p \in ForcedCallers => todo'[p] \subseteq {target[p]}
                    /\ due'[p] = due[p] /\ paid'[p] = paid[p]
                 \/ /\ todo'[p] \subseteq todo[p]
                    /\ due'[p] \cup paid'[p] = due[p] \cup paid[p]
                 \/ \E b \in todo[p] :
                       /\ todo'[p] \subseteq todo[p]
                       /\ due'[p] = due[p] \cup {b} /\ paid'[p] = paid[p]
                       /\ Payable(p, b) /\ UNCHANGED table
            BY <2>6, WorkSteps
        <3>2. OwnTarget(p)'
            BY <2>1, <3>1 DEF OwnTarget
        <3>3. ASSUME NEW b \in due'[p] \cup paid'[p] PROVE Payable(p, b)'
            <4>1. CASE b \in due[p] \cup paid[p]
                BY <2>1, <3>1, <4>1, StaysPayable
            <4>2. CASE b \notin due[p] \cup paid[p]
                <5>1. Payable(p, b) /\ UNCHANGED table
                    BY <3>1, <3>3, <4>2
                <5> QED
                    BY <3>1, <5>1 DEF Payable, NotRunYet, table
            <4> QED
                BY <4>1, <4>2
        <3> QED
            BY <3>2, <3>3 DEF DuePayable
    <2> QED
        BY <2>1, <2>3, <2>4, <2>5, <2>6, StepOf
<1> QED
    BY <1>1, <1>2, <1>3 DEF RunInv

LEMMA RunInvInitially == Init => RunInv
<1> SUFFICES ASSUME Init PROVE RunInv
    OBVIOUS
<1>1. ClocksNear
    BY BoundsAssumption DEF Init, ClocksNear
<1>2. ASSUME NEW p \in RunCallers PROVE CallMonths(p) /\ OwnTarget(p) /\ DuePayable(p)
    BY DEF Init, CallMonths, OwnTarget, DuePayable, InTx, Callers, RunCallers
<1> QED
    BY <1>1, <1>2 DEF RunInv

\* What a run has found due, from the lock on the row to the commit, is payable on
\* the tables as they are: there, with a payroll, and not paid for the run's month.
LEMMA RunInvariant == Spec => []RunInv
BY RunInvInitially, RunInvStep, TypeCorrect, LockingCorrect, PTL DEF Spec

-----------------------------------------------------------------------------
(* Covering.  Pending entries move whole cents, from the sources that the  *)
(* tables name at every moment until the commit, to budgets already paid.  *)

MovesOf(p) ==
    /\ pc[p] # "moving" => cur[p] = NoBudget /\ moved[p] = 0
    /\ pc[p] = "moving" /\ moved[p] > 0 => auto[cur[p]]
    /\ pc[p] = "moving" => \A s \in Budgets : owed[p][s] > 0 =>
          auto[cur[p]] /\ (status[s] = "deleted" \/ weight[cur[p]][s] > 0)
    /\ \A b \in Budgets :
          /\ delta[p][b] > 0 => b \in paid[p] /\ auto[b]
          /\ delta[p][b] < 0 => \E t \in Covered(p) : auto[t] /\ weight[t][b] > 0
          /\ delta[p][b] % UnitsPerCent = 0

MovesInv == \A p \in RunCallers : MovesOf(p)

\* Cents as units.
LEMMA Units ==
    /\ \A k \in Nat : k * UnitsPerCent \in Nat /\ (k > 0 => k * UnitsPerCent > 0)
    /\ 0 % UnitsPerCent = 0
<1>1. UnitsPerCent \in Nat \ {0}
    BY AmountsAssumption
<1>2. ASSUME NEW k \in Nat
      PROVE  k * UnitsPerCent \in Nat /\ (k > 0 => k * UnitsPerCent > 0)
    <2>1. UnitsPerCent * k = k * UnitsPerCent /\ k * UnitsPerCent \in Nat
        BY <1>1
    <2>2. k > 0 => UnitsPerCent * 0 + UnitsPerCent <= UnitsPerCent * k
        BY <1>1, Multiples
    <2> QED
        BY <1>1, <2>1, <2>2
<1>3. 0 % UnitsPerCent = 0
    <2> DEFINE q == 0 \div UnitsPerCent
               r == 0 % UnitsPerCent
    <2>1. q \in Int /\ r \in 0..(UnitsPerCent - 1) /\ 0 = UnitsPerCent * q + r
        BY <1>1, IntQuotient
    <2> HIDE DEF q, r
    <2>2. q < 0 => UnitsPerCent * q + UnitsPerCent <= UnitsPerCent * 0
        BY <1>1, <2>1, Multiples
    <2>3. q > 0 => UnitsPerCent * 0 + UnitsPerCent <= UnitsPerCent * q
        BY <1>1, <2>1, Multiples
    <2>4. q = 0
        BY <1>1, <2>1, <2>2, <2>3
    <2>5. r = 0
        BY <1>1, <2>1, <2>4
    <2> QED
        BY <2>5 DEF r
<1> QED
    BY <1>2, <1>3

\* Whole cents more or less leave whole cents.
LEMMA WholeCents ==
    ASSUME NEW a \in Int, NEW k \in Int, a % UnitsPerCent = 0
    PROVE  (a + k * UnitsPerCent) % UnitsPerCent = 0
<1>1. UnitsPerCent \in Nat \ {0}
    BY AmountsAssumption
<1> QED
    BY <1>1, MultipleAdded

\* Only sources get a share, there is none without a deficit, and the shares of a
\* deficit that has a source add up to it.
LEMMA SharesOfSources ==
    ASSUME NEW total \in Int, NEW w \in [Budgets -> 0..100], NEW a \in Shares(total, w)
    PROVE  /\ \A s \in Budgets : a[s] > 0 => total > 0 /\ w[s] > 0
           /\ SumFunction(a) = 0 \/ (total > 0 /\ SumFunction(a) = total)
<1>1. DOMAIN w = Budgets /\ IsFiniteSet(Budgets)
    BY BudgetsAssumption
<1>2. CASE total <= 0 \/ Weighted(w) = {}
    <2>1. a = [s \in Budgets |-> 0]
        BY <1>1, <1>2 DEF Shares
    <2>2. SumFunction([s \in Budgets |-> 0]) = 0
        BY <1>1, SumOfZeroes
    <2> QED
        BY <2>1, <2>2
<1>3. CASE total > 0 /\ Weighted(w) # {}
    <2>1. PICK Up \in SUBSET Weighted(w) :
             /\ TopRemainders(total, w, Up)
             /\ a = [s \in Budgets |-> Base(total, w, s) + (IF s \in Up THEN 1 ELSE 0)]
        BY <1>1, <1>3 DEF Shares
    <2>2. TotalWeight(w) \in Nat \ {0}
        <3>1. w \in [Budgets -> Nat]
            OBVIOUS
        <3>2. SumFunction(w) \in Nat /\ \A s \in Budgets : w[s] <= SumFunction(w)
            BY <1>1, <3>1, SumOfNaturals
        <3>3. PICK s \in Budgets : w[s] > 0
            BY <1>1, <1>3 DEF Weighted
        <3> QED
            BY <3>2, <3>3 DEF TotalWeight
    <2>3. ASSUME NEW s \in Budgets
          PROVE  /\ Base(total, w, s) \in Nat
                 /\ w[s] = 0 => Base(total, w, s) = 0
        <3> DEFINE n == total * w[s]
                   d == TotalWeight(w)
        <3>1. w[s] \in Nat /\ total \in Nat
            BY <1>3
        <3>2. n \in Nat /\ (w[s] = 0 => n = 0)
            BY <3>1
        <3>3. Base(total, w, s) = n \div d /\ d \in Nat \ {0}
            BY <2>2 DEF Base
        <3> HIDE DEF n, d
        <3>4. n \div d \in Nat /\ n = d * (n \div d) + (n % d) /\ n % d \in Nat
            BY <3>2, <3>3, Quotient
        <3>5. n = 0 => n \div d = 0
            <4> DEFINE q == n \div d
                       r == n % d
            <4>1. q \in Nat /\ r \in Nat /\ n = d * q + r /\ d \in Nat \ {0}
                BY <3>3, <3>4
            <4> HIDE DEF q, r
            <4>2. q > 0 => d * 0 + d <= d * q
                BY <4>1, Multiples
            <4>3. d * q \in Nat
                BY <4>1
            <4>4. n = 0 => q = 0
                BY <4>1, <4>2, <4>3
            <4> QED
                BY <4>4 DEF q
        <3> QED
            BY <3>2, <3>3, <3>4, <3>5
    <2>4. \A s \in Budgets : a[s] > 0 => w[s] > 0
        <3> SUFFICES ASSUME NEW s \in Budgets, a[s] > 0, w[s] = 0 PROVE FALSE
            OBVIOUS
        <3>1. s \notin Up
            BY <1>1 DEF Weighted
        <3> QED
            BY <2>1, <2>3, <3>1
    <2> DEFINE base == BaseShares(total, w)
               one == [s \in Budgets |-> IF s \in Up THEN 1 ELSE 0]
    <2>5. /\ base \in [Budgets -> Int] /\ one \in [Budgets -> Int] /\ a \in [Budgets -> Int]
          /\ \A s \in Budgets : a[s] = base[s] + one[s]
        BY <1>1, <2>1, <2>3 DEF BaseShares
    <2>6. SumFunction(one) = total - SumFunction(base)
        <3>1. Up \in SUBSET Budgets
            BY <1>1 DEF Weighted
        <3> QED
            BY <1>1, <2>1, <3>1, SumOfOnes DEF TopRemainders, Leftover
    <2> HIDE DEF base, one
    <2>7. SumFunction(a) = SumFunction(base) + SumFunction(one)
        BY <1>1, <2>5, SumPlus
    <2>8. SumFunction(base) \in Int
        BY <1>1, <2>5, SumType
    <2> QED
        BY <1>3, <2>4, <2>6, <2>7, <2>8
<1> QED
    BY <1>2, <1>3

\* Whoever else takes a step, what a run has moved still comes from a source that
\* its target names.
LEMMA MovesKept ==
    ASSUME TypeOK, LockInv, [Next]_vars, NEW p \in RunCallers, MovesOf(p), CallerKept(p)
    PROVE  MovesOf(p)'
<1> DEFINE Held == due[p] \cup paid[p]
<1>1. /\ p \in Callers /\ Covered(p) \subseteq Held
      /\ pc[p] = "moving" => cur[p] \in Held /\ cur[p] \in Budgets
    BY DEF Callers, RunCallers, LockInv, CurIsDue, Covered, TypeOK, CallerTypes
<1>2. /\ pc'[p] = pc[p] /\ cur'[p] = cur[p] /\ moved'[p] = moved[p] /\ owed'[p] = owed[p]
      /\ delta'[p] = delta[p] /\ due'[p] = due[p] /\ paid'[p] = paid[p]
    BY DEF CallerKept
<1>3. ASSUME NEW b \in Held
      PROVE  /\ auto'[b] = auto[b]
             /\ \A s \in Budgets : weight'[b][s] = weight[b][s] \/ status'[s] = "deleted"
    BY <1>1, <1>2, RowKept
<1>4. ASSUME NEW s \in Budgets
      PROVE  /\ status[s] = "deleted" => status'[s] = "deleted"
             /\ delta[p][s] # 0 => status'[s] = "live"
    BY <1>1, StatusSteps DEF LockInv, EntriesHeld
<1>5. pc'[p] # "moving" => cur'[p] = NoBudget /\ moved'[p] = 0
    BY <1>2 DEF MovesOf
<1>6. pc'[p] = "moving" /\ moved'[p] > 0 => auto'[cur'[p]]
    BY <1>1, <1>2, <1>3 DEF MovesOf
<1>7. ASSUME NEW s \in Budgets, pc'[p] = "moving", owed'[p][s] > 0
      PROVE  auto'[cur'[p]] /\ (status'[s] = "deleted" \/ weight'[cur'[p]][s] > 0)
    <2>1. auto[cur[p]] /\ (status[s] = "deleted" \/ weight[cur[p]][s] > 0)
        BY <1>2, <1>7 DEF MovesOf
    <2>2. /\ auto'[cur[p]] = auto[cur[p]]
          /\ weight'[cur[p]][s] = weight[cur[p]][s] \/ status'[s] = "deleted"
        BY <1>1, <1>2, <1>3, <1>7
    <2> QED
        BY <1>2, <1>4, <2>1, <2>2
<1>8. ASSUME NEW b \in Budgets
      PROVE  /\ delta'[p][b] > 0 => b \in paid'[p] /\ auto'[b]
             /\ delta'[p][b] < 0 => \E t \in Covered(p)' : auto'[t] /\ weight'[t][b] > 0
             /\ delta'[p][b] % UnitsPerCent = 0
    <2>1. delta'[p][b] % UnitsPerCent = 0
        BY <1>2 DEF MovesOf
    <2>2. delta'[p][b] > 0 => b \in paid'[p] /\ auto'[b]
        BY <1>2, <1>3 DEF MovesOf
    <2>3. ASSUME delta'[p][b] < 0
          PROVE  \E t \in Covered(p)' : auto'[t] /\ weight'[t][b] > 0
        <3>1. PICK t \in Covered(p) : auto[t] /\ weight[t][b] > 0
            BY <1>2, <2>3 DEF MovesOf
        <3>2. status'[b] = "live"
            <4>1. delta[p][b] \in Int
                BY <1>1 DEF TypeOK, CallerTypes
            <4> QED
                BY <1>2, <1>4, <2>3, <4>1
        <3>3. auto'[t] = auto[t] /\ weight'[t][b] = weight[t][b]
            BY <1>1, <1>3, <3>2
        <3>4. t \in Covered(p)'
            BY <1>2 DEF Covered
        <3> QED
            BY <3>1, <3>3, <3>4
    <2> QED
        BY <2>1, <2>2, <2>3
<1> QED
    BY <1>5, <1>6, <1>7, <1>8 DEF MovesOf

\* A run that has nothing in hand has moved nothing.
LEMMA MovesNothing ==
    ASSUME NEW p \in RunCallers, pc[p] # "moving", cur[p] = NoBudget, moved[p] = 0,
           delta[p] = Zero
    PROVE  MovesOf(p)
<1>1. \A b \in Budgets : delta[p][b] = 0
    BY DEF Zero
<1> QED
    BY <1>1, Units DEF MovesOf

LEMMA MovesCover ==
    ASSUME TypeOK, LockInv, SeenIsCurrent, NEW p \in RunCallers, MovesOf(p),
           NEW b \in Budgets, Cover(p, b)
    PROVE  MovesOf(p)'
<1>1. p \in Callers
    BY DEF Callers, RunCallers
<1>2. PICK share \in Shares(IF seen[p][b].auto THEN DeficitCents(p, b) ELSE 0, weight[b]) :
         owed' = [owed EXCEPT ![p] = share]
    BY DEF Cover
<1>3. /\ pc[p] = "batch" /\ pc'[p] = "moving" /\ cur'[p] = b /\ owed'[p] = share
      /\ UNCHANGED <<table, moved, delta, paid>> /\ moved[p] = 0
    BY <1>1, <1>2 DEF Cover, loop, TypeOK, CallerTypes, MovesOf
<1>4. \A s \in Budgets : share[s] > 0 => seen[p][b].auto /\ weight[b][s] > 0
    <2>1. weight[b] \in [Budgets -> 0..100]
        BY DEF TypeOK, TableTypes
    <2>2. (IF seen[p][b].auto THEN DeficitCents(p, b) ELSE 0) \in Int
        BY <1>1, DeficitType
    <2>3. \A s \in Budgets : share[s] > 0 =>
             (IF seen[p][b].auto THEN DeficitCents(p, b) ELSE 0) > 0 /\ weight[b][s] > 0
        BY <2>1, <2>2, SharesOfSources
    <2> QED
        BY <2>3
<1>5. seen[p][b].auto = auto[b]
    <2>1. b \in due[p] \cup paid[p]
        BY DEF Cover
    <2>2. seen[p][b] = [payroll |-> payroll[b], auto |-> auto[b]]
        BY <1>1, <2>1 DEF SeenIsCurrent
    <2> QED
        BY <2>2
<1>6. Covered(p) \subseteq Covered(p)'
    <2>1. cur[p] = NoBudget
        BY <1>3 DEF MovesOf
    <2> QED
        BY <1>3, <2>1 DEF Covered
<1> USE DEF table
<1>7. ASSUME NEW s \in Budgets, owed'[p][s] > 0
      PROVE  auto'[cur'[p]] /\ weight'[cur'[p]][s] > 0
    BY <1>3, <1>4, <1>5, <1>7
<1>8. ASSUME NEW c \in Budgets
      PROVE  /\ delta'[p][c] > 0 => c \in paid'[p] /\ auto'[c]
             /\ delta'[p][c] < 0 => \E t \in Covered(p)' : auto'[t] /\ weight'[t][c] > 0
             /\ delta'[p][c] % UnitsPerCent = 0
    BY <1>3, <1>6 DEF MovesOf
<1>9. pc'[p] = "moving" /\ ~(moved'[p] > 0)
    BY <1>3
<1> QED
    BY <1>7, <1>8, <1>9 DEF MovesOf

LEMMA MovesDebit ==
    ASSUME TypeOK, NEW p \in RunCallers, MovesOf(p), NEW s \in Budgets, Debit(p, s)
    PROVE  MovesOf(p)'
<1> DEFINE units == owed[p][s] * UnitsPerCent
<1>1. p \in Callers
    BY DEF Callers, RunCallers
<1>2. /\ pc[p] = "moving" /\ pc'[p] = "moving" /\ cur'[p] = cur[p] /\ paid'[p] = paid[p]
      /\ status[s] = "live" /\ owed[p][s] > 0 /\ UNCHANGED table
      /\ \A c \in Budgets : /\ owed'[p][c] = IF c = s THEN 0 ELSE owed[p][c]
                            /\ delta'[p][c] = IF c = s THEN delta[p][c] - units
                                                       ELSE delta[p][c]
    BY <1>1 DEF Debit, NextSource, loop, TypeOK, CallerTypes
<1>3. /\ owed[p][s] \in Nat /\ units \in Nat /\ units > 0
      /\ \A c \in Budgets : delta[p][c] \in Int
    BY <1>1, <1>2, Units DEF TypeOK, CallerTypes
<1>4. auto[cur[p]] /\ weight[cur[p]][s] > 0
    BY <1>2 DEF MovesOf
<1>5. Covered(p)' = Covered(p) /\ cur[p] \in Covered(p)
    BY <1>1, <1>2, BudgetsAssumption DEF Covered, TypeOK, CallerTypes
<1>6. (delta[p][s] - units) % UnitsPerCent = 0
    <2>1. delta[p][s] % UnitsPerCent = 0 /\ -owed[p][s] \in Int
        BY <1>3 DEF MovesOf
    <2>2. (delta[p][s] + (-owed[p][s]) * UnitsPerCent) % UnitsPerCent = 0
        BY <1>3, <2>1, WholeCents
    <2>3. delta[p][s] + (-owed[p][s]) * UnitsPerCent = delta[p][s] - units
        BY <1>3, AmountsAssumption, Z3
    <2> QED
        BY <2>2, <2>3
<1> HIDE DEF units
<1> USE DEF table
<1>7. ASSUME NEW c \in Budgets, owed'[p][c] > 0
      PROVE  auto'[cur'[p]] /\ (status'[c] = "deleted" \/ weight'[cur'[p]][c] > 0)
    <2>1. owed[p][c] > 0
        BY <1>2, <1>7
    <2> QED
        BY <1>2, <2>1 DEF MovesOf
<1>8. ASSUME NEW c \in Budgets
      PROVE  /\ delta'[p][c] > 0 => c \in paid'[p] /\ auto'[c]
             /\ delta'[p][c] < 0 => \E t \in Covered(p)' : auto'[t] /\ weight'[t][c] > 0
             /\ delta'[p][c] % UnitsPerCent = 0
    <2>1. CASE c = s
        <3>1. delta'[p][c] > 0 => delta[p][c] > 0
            BY <1>2, <1>3, <2>1
        <3>2. delta'[p][c] % UnitsPerCent = 0
            BY <1>2, <1>6, <2>1
        <3> QED
            BY <1>2, <1>4, <1>5, <2>1, <3>1, <3>2 DEF MovesOf
    <2>2. CASE c # s
        BY <1>2, <1>5, <2>2 DEF MovesOf
    <2> QED
        BY <2>1, <2>2
<1> QED
    BY <1>2, <1>4, <1>7, <1>8 DEF MovesOf

LEMMA MovesPay ==
    ASSUME TypeOK, NEW p \in RunCallers, MovesOf(p), Pay(p)
    PROVE  MovesOf(p)'
<1> DEFINE units == moved[p] * UnitsPerCent
           b == cur[p]
<1>1. p \in Callers
    BY DEF Callers, RunCallers
<1>2. /\ pc[p] = "moving" /\ pc'[p] = "batch" /\ cur'[p] = NoBudget /\ moved'[p] = 0
      /\ paid'[p] = paid[p] \cup {b} /\ UNCHANGED table /\ b \in Budgets
      /\ \A c \in Budgets :
            delta'[p][c] = IF c = b THEN delta[p][c] + units ELSE delta[p][c]
    BY <1>1 DEF Pay, Credit, TypeOK, CallerTypes
<1>3. /\ moved[p] \in Nat /\ units \in Nat /\ (moved[p] = 0 => units = 0)
      /\ \A c \in Budgets : delta[p][c] \in Int
    BY <1>1, Units, AmountsAssumption DEF TypeOK, CallerTypes
<1>4. Covered(p) \subseteq Covered(p)' /\ b \in paid'[p]
    BY <1>2 DEF Covered
<1>5. (delta[p][b] + units) % UnitsPerCent = 0
    <2>1. delta[p][b] % UnitsPerCent = 0 /\ delta[p][b] \in Int /\ moved[p] \in Int
        BY <1>2, <1>3 DEF MovesOf
    <2> QED
        BY <2>1, WholeCents
<1> HIDE DEF units
<1> USE DEF table
<1>6. ASSUME NEW c \in Budgets
      PROVE  /\ delta'[p][c] > 0 => c \in paid'[p] /\ auto'[c]
             /\ delta'[p][c] < 0 => \E t \in Covered(p)' : auto'[t] /\ weight'[t][c] > 0
             /\ delta'[p][c] % UnitsPerCent = 0
    <2>1. CASE c = b
        <3>1. delta'[p][c] % UnitsPerCent = 0
            BY <1>2, <1>5, <2>1
        <3>2. delta'[p][c] > 0 => auto[c]
            <4>1. CASE moved[p] = 0
                BY <1>2, <1>3, <2>1, <4>1 DEF MovesOf
            <4>2. CASE moved[p] # 0
                BY <1>2, <1>3, <2>1, <4>2 DEF MovesOf
            <4> QED
                BY <4>1, <4>2
        <3>3. delta'[p][c] < 0 => delta[p][c] < 0
            BY <1>2, <1>3, <2>1
        <3> QED
            BY <1>2, <1>4, <2>1, <3>1, <3>2, <3>3 DEF MovesOf
    <2>2. CASE c # b
        BY <1>2, <1>4, <2>2 DEF MovesOf
    <2> QED
        BY <2>1, <2>2
<1> QED
    BY <1>2, <1>6 DEF MovesOf

LEMMA MovesStep ==
    TypeOK /\ LockInv /\ SeenIsCurrent /\ MovesInv /\ [Next]_vars => MovesInv'
<1> SUFFICES ASSUME TypeOK, LockInv, SeenIsCurrent, MovesInv, [Next]_vars,
                    NEW p \in RunCallers
             PROVE  MovesOf(p)'
    BY DEF MovesInv
<1>1. p \in Callers /\ p \notin ConfigCallers /\ MovesOf(p)
    BY CallersAssumption DEF Callers, RunCallers, MovesInv
<1>2. CASE pc'[p] # "moving" /\ cur'[p] = NoBudget /\ moved'[p] = 0 /\ delta'[p] = Zero
    <2>1. \A b \in Budgets : delta'[p][b] = 0
        BY <1>2 DEF Zero
    <2> QED
        BY <1>2, <2>1, Units DEF MovesOf
<1>3. CASE Return(p)
    BY <1>1, <1>2, <1>3, ReturnedCaller
<1>4. CASE Call(p)
    <2>1. /\ pc[p] = "idle" /\ pc'[p] = "called"
          /\ UNCHANGED <<cur, moved, delta>>
        BY <1>1, <1>4 DEF Call, CallMonthly, CallForced, CallConfig, StartCall, cover, TypeOK,
                          CallerTypes
    <2>2. delta[p] = Zero /\ cur[p] = NoBudget /\ moved[p] = 0
        BY <1>1, <2>1 DEF TypeOK, RestClean, InTx, MovesOf
    <2> QED
        BY <1>2, <2>1, <2>2
<1>5. CASE Statement(p)
    <2>1. CASE /\ pc[p] # "moving" /\ pc'[p] # "moving"
               /\ UNCHANGED <<table, cur, moved, delta, paid>>
        <3>1. cur'[p] = NoBudget /\ moved'[p] = 0
            BY <1>1, <2>1 DEF MovesOf
        <3>2. Covered(p)' = Covered(p)
            BY <2>1 DEF Covered
        <3> QED
            BY <1>1, <2>1, <3>1, <3>2 DEF MovesOf, table
    <2>2. CASE Begin(p) \/ Select(p)
        BY <1>1, <2>1, <2>2 DEF Begin, Select, cover, loop, TypeOK, CallerTypes
    <2>3. ASSUME NEW b \in Budgets, LockRow(p, b) \/ SkipRow(p, b)
          PROVE  MovesOf(p)'
        BY <1>1, <2>1, <2>3 DEF LockRow, SkipRow, cover, loop
    <2>4. ASSUME NEW b \in Budgets, LinkSource(p, b) PROVE FALSE
        BY <1>1, <2>4 DEF LinkSource, LockInv, RunPhases
    <2>5. ASSUME NEW b \in Budgets, DebitFails(p, b) \/ LinkFails(p, b)
          PROVE  MovesOf(p)'
        BY <1>3, <2>5 DEF DebitFails, LinkFails, Abort
    <2>6. ~LockTarget(p) /\ ~TargetMissing(p)
        BY <1>1 DEF LockTarget, TargetMissing
    <2>7. Commit(p) \/ CommitConfig(p) => Return(p)
        BY DEF Commit, CommitConfig
    <2>8. ASSUME NEW b \in Budgets, Cover(p, b) \/ Debit(p, b) PROVE MovesOf(p)'
        BY <1>1, <2>8, MovesCover, MovesDebit
    <2>9. CASE Pay(p)
        BY <1>1, <2>9, MovesPay
    <2> QED
        BY <1>3, <1>5, <2>2, <2>3, <2>4, <2>5, <2>6, <2>7, <2>8, <2>9 DEF Statement
<1> QED
    BY <1>1, <1>3, <1>4, <1>5, MovesKept, StepOf

LEMMA MovesInitially == Init => MovesInv
<1> SUFFICES ASSUME Init, NEW p \in RunCallers PROVE MovesOf(p)
    BY DEF MovesInv
<1> QED
    BY MovesNothing DEF Init, Callers, RunCallers

\* Until its commit, what a run has moved comes in whole cents from sources that the
\* tables name for the budgets it covers, and reaches only those with auto-balance.
LEMMA MovesInvariant == Spec => []MovesInv
BY MovesInitially, MovesStep, SeenIsCurrentCorrect, TypeCorrect, LockingCorrect, PTL
DEF Spec

-----------------------------------------------------------------------------
(* How far a cover goes.                                                   *)

\* Rounding a deficit up or down brings it to half a cent of nothing at most.
LEMMA RoundedDeficit ==
    ASSUME TypeOK, NEW p \in Callers, NEW b \in Budgets, DeficitCents(p, b) > 0
    PROVE  2 * (View(p, b) + DeficitCents(p, b) * UnitsPerCent) <= UnitsPerCent
<1> DEFINE v == View(p, b)
           u == UnitsPerCent
           n == 2 * (-v) + u
           q == DeficitCents(p, b)
           r == n % (2 * u)
<1>1. v \in Int /\ u \in Nat \ {0} /\ q \in Int
    BY DeficitType, AmountsAssumption DEF TypeOK, TableTypes, CallerTypes, View
<1>2. q = n \div (2 * u)
    BY <1>1 DEF DeficitCents, RoundCents
<1>3. n \in Int /\ 2 * u \in Nat \ {0}
    BY <1>1
<1>4. r \in Nat /\ n = (2 * u) * q + r
    <2> HIDE DEF n, u
    <2>1. n % (2 * u) \in 0..(2 * u - 1) /\ n = (2 * u) * (n \div (2 * u)) + (n % (2 * u))
        BY <1>3, IntQuotient
    <2> QED
        BY <1>2, <1>3, <2>1
<1> HIDE DEF v, u, q, r
<1>5. (2 * u) * q = 2 * (q * u) /\ q * u \in Int
    BY <1>1, Z3
<1> DEFINE k == q * u
<1>6. 2 * (-v) + u = 2 * k + r /\ k \in Int
    BY <1>4, <1>5
<1> HIDE DEF k
<1>7. 2 * (v + k) <= u
    BY <1>1, <1>4, <1>6
<1> QED
    BY <1>7 DEF k, v, u, q

\* What covering the current budget will have moved when it is done.
ToMove(p) == moved[p] + SumFunction(owed[p])

CoverFits(p) ==
    /\ pc[p] = "moving" /\ ToMove(p) > 0 =>
          2 * (View(p, cur[p]) + ToMove(p) * UnitsPerCent) <= UnitsPerCent
    /\ \A b \in paid[p] : delta[p][b] > 0 => 2 * View(p, b) <= UnitsPerCent

CoverInv == \A p \in RunCallers : CoverFits(p)

\* The condition: changing or deleting an entry, which no lock of a run prevents,
\* does not raise a balance.
EditsOnlyLower == \A change \in Edits : change <= 0

LEMMA ToMoveType ==
    ASSUME TypeOK, NEW p \in Callers
    PROVE  ToMove(p) \in Nat /\ SumFunction(owed[p]) \in Nat /\ moved[p] \in Nat
<1>1. owed[p] \in [Budgets -> Nat] /\ moved[p] \in Nat /\ IsFiniteSet(Budgets)
    BY BudgetsAssumption DEF TypeOK, CallerTypes
<1>2. SumFunction(owed[p]) \in Nat
    BY <1>1, SumOfNaturals
<1> QED
    BY <1>1, <1>2 DEF ToMove

LEMMA ViewType ==
    ASSUME TypeOK, NEW p \in Callers, NEW b \in Budgets
    PROVE  View(p, b) \in Int /\ balance[b] \in Int /\ delta[p][b] \in Int
BY DEF TypeOK, TableTypes, CallerTypes, View

\* Whoever else takes a step, what a run sees of a budget it covers does not grow.
LEMMA CoverKept ==
    ASSUME EditsOnlyLower, TypeOK, TypeOK', LockInv, [Next]_vars, NEW p \in RunCallers,
           CoverFits(p), CallerKept(p)
    PROVE  CoverFits(p)'
<1>1. p \in Callers
    BY DEF Callers, RunCallers
<1>2. /\ pc'[p] = pc[p] /\ cur'[p] = cur[p] /\ moved'[p] = moved[p] /\ owed'[p] = owed[p]
      /\ delta'[p] = delta[p] /\ paid'[p] = paid[p]
    BY DEF CallerKept
<1>3. ASSUME NEW b \in Covered(p)
      PROVE  /\ b \in Budgets /\ View(p, b) \in Int /\ View(p, b)' \in Int
             /\ View(p, b)' <= View(p, b)
    <2>1. b \in Budgets /\ pc'[p] # "idle"
        <3>1. Covered(p) \subseteq due[p] \cup paid[p]
            BY <1>1 DEF Covered, LockInv, CurIsDue
        <3> QED
            BY <1>1, <1>2, <3>1 DEF TypeOK, CallerTypes, RestClean, InTx
    <2>2. /\ balance[b] \in Int /\ balance'[b] \in Int /\ delta[p][b] \in Int
          /\ \A change \in Edits : change \in Int
        BY <1>1, <2>1, AmountsAssumption DEF TypeOK, TableTypes, CallerTypes
    <2>3. balance'[b] <= balance[b]
        <3>1. CASE balance'[b] = balance[b]
            BY <2>2, <3>1
        <3>2. ASSUME NEW change \in Edits, EditTransaction(b, change)
              PROVE  balance'[b] <= balance[b]
            <4>1. balance'[b] = balance[b] + change
                BY <2>1, <3>2 DEF EditTransaction, TypeOK, TableTypes
            <4> QED
                BY <2>2, <4>1 DEF EditsOnlyLower
        <3> QED
            BY <2>1, <3>1, <3>2, CoverStep
    <2> QED
        BY <1>2, <2>1, <2>2, <2>3 DEF View
<1>4. ASSUME pc'[p] = "moving", ToMove(p)' > 0
      PROVE  2 * (View(p, cur[p])' + ToMove(p)' * UnitsPerCent) <= UnitsPerCent
    <2>1. PICK c \in Covered(p) : c = cur[p]
        BY <1>1, <1>2, <1>4 DEF Covered, LockInv, CurIsDue
    <2>2. ToMove(p)' = ToMove(p) /\ View(p, cur[p])' = View(p, c)'
        BY <1>2, <2>1 DEF ToMove, View
    <2> DEFINE units == ToMove(p) * UnitsPerCent
               old == View(p, c)
               new == View(p, c)'
    <2>3. units \in Nat /\ old \in Int /\ new \in Int /\ new <= old
        BY <1>1, <1>3, ToMoveType, Units
    <2>4. 2 * (old + units) <= UnitsPerCent
        BY <1>2, <1>4, <2>1, <2>2 DEF CoverFits
    <2>5. UnitsPerCent \in Int
        BY AmountsAssumption
    <2> HIDE DEF units, old, new
    <2>6. 2 * (new + units) <= UnitsPerCent
        BY <2>3, <2>4, <2>5
    <2> QED
        BY <2>2, <2>6 DEF units, new
<1>5. ASSUME NEW b \in paid'[p], delta'[p][b] > 0 PROVE 2 * View(p, b)' <= UnitsPerCent
    <2>1. b \in Covered(p)
        BY <1>2 DEF Covered
    <2> DEFINE old == View(p, b)
               new == View(p, b)'
    <2>2. 2 * old <= UnitsPerCent
        BY <1>2, <1>5 DEF CoverFits
    <2>3. old \in Int /\ new \in Int /\ new <= old /\ UnitsPerCent \in Int
        BY <1>3, <2>1, AmountsAssumption
    <2> HIDE DEF old, new
    <2>4. 2 * new <= UnitsPerCent
        BY <2>2, <2>3
    <2> QED
        BY <2>4 DEF new
<1> QED
    BY <1>4, <1>5 DEF CoverFits

LEMMA FitsCover ==
    ASSUME TypeOK, NEW p \in RunCallers, MovesOf(p), CoverFits(p),
           NEW b \in Budgets, Cover(p, b)
    PROVE  CoverFits(p)'
<1> DEFINE total == IF seen[p][b].auto THEN DeficitCents(p, b) ELSE 0
<1>1. p \in Callers /\ weight[b] \in [Budgets -> 0..100] /\ total \in Int
    BY DeficitType DEF Callers, RunCallers, TypeOK, TableTypes
<1>2. PICK share \in Shares(total, weight[b]) : owed' = [owed EXCEPT ![p] = share]
    BY DEF Cover
<1>3. /\ cur'[p] = b /\ owed'[p] = share /\ moved'[p] = 0 /\ paid'[p] = paid[p]
      /\ \A c \in Budgets : View(p, c)' = View(p, c)
      /\ delta'[p] = delta[p]
    BY <1>1, <1>2 DEF Cover, MovesOf, View, loop, table, TypeOK, CallerTypes
<1>4. SumFunction(share) = 0 \/ (total > 0 /\ SumFunction(share) = total)
    BY <1>1, SharesOfSources
<1>5. ToMove(p)' = 0 + SumFunction(share)
    BY <1>3 DEF ToMove
<1>6. ASSUME ToMove(p)' > 0
      PROVE  2 * (View(p, b) + ToMove(p)' * UnitsPerCent) <= UnitsPerCent
    <2>1. total > 0 /\ SumFunction(share) = total
        BY <1>4, <1>5, <1>6
    <2>2. ToMove(p)' = total /\ total = DeficitCents(p, b)
        BY <1>1, <1>5, <2>1
    <2> QED
        BY <1>1, <2>1, <2>2, RoundedDeficit
<1>7. View(p, cur[p])' = View(p, b)
    BY <1>3 DEF View
<1>8. \A c \in paid'[p] : delta'[p][c] > 0 => 2 * View(p, c)' <= UnitsPerCent
    BY <1>1, <1>3 DEF CoverFits, TypeOK, CallerTypes
<1> QED
    BY <1>6, <1>7, <1>8 DEF CoverFits

LEMMA FitsDebit ==
    ASSUME TypeOK, RefInv, NEW p \in RunCallers, MovesOf(p), CoverFits(p),
           NEW s \in Budgets, Debit(p, s)
    PROVE  CoverFits(p)'
<1> DEFINE units == owed[p][s] * UnitsPerCent
<1>1. p \in Callers
    BY DEF Callers, RunCallers
<1>2. /\ pc[p] = "moving" /\ cur'[p] = cur[p] /\ paid'[p] = paid[p] /\ UNCHANGED table
      /\ status[s] = "live" /\ owed[p][s] > 0 /\ cur[p] \in Budgets
      /\ moved'[p] = moved[p] + owed[p][s]
      /\ \A c \in Budgets : delta'[p][c] = IF c = s THEN delta[p][c] - units
                                                    ELSE delta[p][c]
    BY <1>1 DEF Debit, NextSource, loop, TypeOK, CallerTypes
<1>3. owed[p][s] \in Nat /\ units \in Nat
    BY <1>1, <1>2, Units DEF TypeOK, CallerTypes
<1> HIDE DEF units
<1>4. cur[p] # s
    <2>1. weight[cur[p]][s] > 0
        BY <1>2 DEF MovesOf
    <2> QED
        BY <1>2, <2>1 DEF RefInv, RowsOfLive
<1>5. /\ View(p, cur[p])' = View(p, cur[p])
      /\ \A c \in Budgets : View(p, c)' <= View(p, c) /\ View(p, c)' \in Int
                            /\ delta'[p][c] <= delta[p][c] /\ delta'[p][c] \in Int
    <2>1. \A c \in Budgets : balance[c] \in Int /\ delta[p][c] \in Int
        BY <1>1, ViewType
    <2> QED
        BY <1>2, <1>3, <1>4, <2>1 DEF View, table
<1>6. ToMove(p)' = ToMove(p)
    <2>1. owed'[p] = Raised(owed[p], s, -owed[p][s])
        <3>1. owed[p] \in [Budgets -> Nat] /\ owed'[p] = [owed[p] EXCEPT ![s] = 0]
            BY <1>1 DEF Debit, TypeOK, CallerTypes
        <3> QED
            BY <3>1 DEF Raised
    <2>2. owed[p] \in [Budgets -> Int] /\ IsFiniteSet(Budgets) /\ -owed[p][s] \in Int
        BY <1>1, <1>3, BudgetsAssumption DEF TypeOK, CallerTypes
    <2>3. SumFunction(owed'[p]) = SumFunction(owed[p]) + (-owed[p][s])
        BY <2>1, <2>2, SumOfRaised
    <2> QED
        BY <1>1, <1>2, <1>3, <2>3, ToMoveType DEF ToMove
<1>7. ASSUME NEW c \in paid'[p], delta'[p][c] > 0 PROVE 2 * View(p, c)' <= UnitsPerCent
    <2>1. c \in Budgets /\ c \in paid[p]
        BY <1>1, <1>2 DEF TypeOK, CallerTypes
    <2>2. delta[p][c] > 0 /\ View(p, c) \in Int
        BY <1>1, <1>5, <1>7, <2>1, ViewType
    <2>3. 2 * View(p, c) <= UnitsPerCent
        BY <2>1, <2>2 DEF CoverFits
    <2> QED
        BY <1>5, <2>1, <2>2, <2>3, AmountsAssumption
<1> QED
    BY <1>2, <1>5, <1>6, <1>7 DEF CoverFits, View

LEMMA FitsPay ==
    ASSUME TypeOK, NEW p \in RunCallers, MovesOf(p), CoverFits(p), Pay(p)
    PROVE  CoverFits(p)'
<1> DEFINE units == moved[p] * UnitsPerCent
           b == cur[p]
<1>1. p \in Callers
    BY DEF Callers, RunCallers
<1>2. /\ pc[p] = "moving" /\ pc'[p] = "batch" /\ owed[p] = Zero /\ b \in Budgets
      /\ paid'[p] = paid[p] \cup {b} /\ UNCHANGED table
      /\ \A c \in Budgets :
            delta'[p][c] = IF c = b THEN delta[p][c] + units ELSE delta[p][c]
    BY <1>1 DEF Pay, Credit, TypeOK, CallerTypes
<1>3. /\ moved[p] \in Nat /\ units \in Nat /\ (moved[p] = 0 => units = 0)
      /\ \A c \in Budgets : balance[c] \in Int /\ delta[p][c] \in Int
    BY <1>1, Units, ViewType, AmountsAssumption DEF TypeOK, CallerTypes
<1>4. ToMove(p) = moved[p]
    <2>1. SumFunction(Zero) = 0
        BY BudgetsAssumption, SumOfZeroes DEF Zero
    <2> QED
        BY <1>2, <1>3, <2>1 DEF ToMove
<1>5. moved[p] > 0 => 2 * (View(p, b) + units) <= UnitsPerCent
    BY <1>2, <1>4 DEF CoverFits
<1> HIDE DEF units
<1>6. ASSUME NEW c \in paid'[p], delta'[p][c] > 0 PROVE 2 * View(p, c)' <= UnitsPerCent
    <2>1. c \in Budgets
        BY <1>1, <1>2, <1>6 DEF TypeOK, CallerTypes
    <2>2. CASE c = b /\ moved[p] > 0
        <3>1. View(p, c)' = View(p, b) + units
            BY <1>2, <1>3, <2>1, <2>2 DEF View, table
        <3> QED
            BY <1>5, <2>2, <3>1
    <2>3. CASE c # b \/ moved[p] = 0
        <3>1. delta'[p][c] = delta[p][c]
            BY <1>2, <1>3, <2>1, <2>3
        <3>2. View(p, c)' = View(p, c)
            BY <1>2, <3>1 DEF View, table
        <3>3. c \in paid[p] /\ delta[p][c] > 0
            BY <1>6, <2>1, <3>1 DEF MovesOf
        <3> QED
            BY <3>2, <3>3 DEF CoverFits
    <2> QED
        BY <1>3, <2>2, <2>3
<1> QED
    BY <1>2, <1>6 DEF CoverFits

LEMMA CoverInvStep ==
    ASSUME EditsOnlyLower, TypeOK, LockInv, RefInv, MovesInv, CoverInv, [Next]_vars
    PROVE  CoverInv'
<1> SUFFICES ASSUME NEW p \in RunCallers PROVE CoverFits(p)'
    BY DEF CoverInv
<1>1. p \in Callers /\ p \notin ConfigCallers /\ MovesOf(p) /\ CoverFits(p) /\ TypeOK'
    BY CallersAssumption, TypeStep DEF Callers, RunCallers, MovesInv, CoverInv
<1>2. CASE pc'[p] # "moving" /\ paid'[p] = {}
    BY <1>2 DEF CoverFits
<1>3. CASE Return(p)
    BY <1>1, <1>2, <1>3, ReturnedCaller
<1>4. CASE Call(p)
    <2>1. pc[p] = "idle" /\ pc'[p] = "called" /\ UNCHANGED paid
        BY <1>1, <1>4 DEF Call, CallMonthly, CallForced, CallConfig, StartCall, loop, TypeOK,
                          CallerTypes
    <2> QED
        BY <1>1, <1>2, <2>1 DEF TypeOK, RestClean, InTx
<1>5. CASE Statement(p)
    <2>1. CASE pc'[p] # "moving" /\ UNCHANGED <<table, delta, paid>>
        BY <1>1, <2>1 DEF CoverFits, View, table
    <2>2. CASE Begin(p) \/ Select(p)
        BY <1>1, <2>1, <2>2 DEF Begin, Select, loop, TypeOK, CallerTypes
    <2>3. ASSUME NEW b \in Budgets, LockRow(p, b) \/ SkipRow(p, b)
          PROVE  CoverFits(p)'
        BY <1>1, <2>1, <2>3 DEF LockRow, SkipRow, loop
    <2>4. ASSUME NEW b \in Budgets, LinkSource(p, b) PROVE FALSE
        BY <1>1, <2>4 DEF LinkSource, LockInv, RunPhases
    <2>5. ASSUME NEW b \in Budgets, DebitFails(p, b) \/ LinkFails(p, b)
          PROVE  CoverFits(p)'
        BY <1>3, <2>5 DEF DebitFails, LinkFails, Abort
    <2>6. ~LockTarget(p) /\ ~TargetMissing(p)
        BY <1>1 DEF LockTarget, TargetMissing
    <2>7. Commit(p) \/ CommitConfig(p) => Return(p)
        BY DEF Commit, CommitConfig
    <2>8. ASSUME NEW b \in Budgets, Cover(p, b) \/ Debit(p, b) PROVE CoverFits(p)'
        BY <1>1, <2>8, FitsCover, FitsDebit
    <2>9. CASE Pay(p)
        BY <1>1, <2>9, FitsPay
    <2> QED
        BY <1>3, <1>5, <2>2, <2>3, <2>4, <2>5, <2>6, <2>7, <2>8, <2>9 DEF Statement
<1> QED
    BY <1>1, <1>3, <1>4, <1>5, CoverKept, StepOf

\* Auto-balance ends deficits and makes no surplus, NoOverCover of the runs, for any
\* shares, amounts and interleavings, as long as entries changed or deleted under a
\* run do not raise a balance: nothing of the code prevents that they do.
THEOREM NoOverCoverCorrect ==
    ASSUME EditsOnlyLower
    PROVE  Spec => []NoOverCover
<1>1. Init => CoverInv
    <2> SUFFICES ASSUME Init, NEW p \in RunCallers PROVE CoverFits(p)
        BY DEF CoverInv
    <2> QED
        BY DEF Init, CoverFits, Callers, RunCallers
<1>2. TypeOK /\ LockInv /\ RefInv /\ MovesInv /\ CoverInv /\ [Next]_vars => CoverInv'
    BY CoverInvStep
<1>3. CoverInv => NoOverCover
    BY DEF CoverInv, CoverFits, NoOverCover
<1> QED
    BY <1>1, <1>2, <1>3, TypeCorrect, LockingCorrect, RefInvariant, MovesInvariant, PTL
    DEF Spec

-----------------------------------------------------------------------------
(* The payroll as a ledger.                                                *)

\* The sum of the ledger is the sum of the payroll.
LEMMA SameSum == \A f : Tables!SumFunction(f) = SumFunction(f)
BY DEF Tables!SumFunction, Tables!SumFunctionOnSet, Tables!FoldFunctionOnSet,
       Tables!MapThenFoldSet, SumFunction, SumFunctionOnSet, FoldFunctionOnSet, MapThenFoldSet

\* A commit of a run is one run of the ledger.
LEMMA CommitRuns ==
    ASSUME TypeOK, LockInv, SeenIsCurrent, NoCentLost, RunInv, MovesInv,
           NEW p \in Callers, Commit(p)
    PROVE  Tables!Next
<1> DEFINE P == paid[p]
<1>1. p \in RunCallers /\ pc[p] = "batch" /\ P \in SUBSET Budgets /\ Stamp(p) = txNow[p]
    BY DEF Commit, Stamp, LockInv, RunPhases, TypeOK, CallerTypes
<1>2. CallMonths(p) /\ OwnTarget(p) /\ DuePayable(p) /\ MovesOf(p)
    BY <1>1 DEF RunInv, MovesInv
<1>3. /\ now[p] \in Months /\ now[p] <= appMonth
      /\ txNow[p] \in Months /\ txNow[p] <= dbMonth /\ now[p] <= txNow[p] + MaxSkew
    BY <1>1, <1>2 DEF CallMonths, InTx
<1>4. \A b \in P : Payable(p, b)
    BY <1>2 DEF DuePayable
<1>5. [b \in Budgets |-> balance'[b] - balance[b] - Tables!PayrollOf(P, b)] = delta[p]
    <2>1. ASSUME NEW b \in Budgets
          PROVE  balance'[b] - balance[b] - Tables!PayrollOf(P, b) = delta[p][b]
        <3> DEFINE credit == IF b \in P THEN payroll[b] * UnitsPerCent ELSE 0
        <3>1. b \in P => seen[p][b].payroll = payroll[b]
            <4> SUFFICES ASSUME b \in P PROVE seen[p][b].payroll = payroll[b]
                OBVIOUS
            <4>1. seen[p][b] = [payroll |-> payroll[b], auto |-> auto[b]]
                BY DEF SeenIsCurrent
            <4> QED
                BY <4>1
        <3>2. balance'[b] = balance[b] + delta[p][b] + credit
            <4>1. balance'[b] = balance[b] + delta[p][b]
                     + (IF b \in P THEN seen[p][b].payroll * UnitsPerCent ELSE 0)
                BY Zenon DEF Commit
            <4>2. (IF b \in P THEN seen[p][b].payroll * UnitsPerCent ELSE 0) = credit
                BY <3>1
            <4> QED
                BY <4>1, <4>2
        <3>3. credit \in Int /\ balance[b] \in Int /\ delta[p][b] \in Int
            BY Units DEF TypeOK, TableTypes, CallerTypes
        <3>4. Tables!PayrollOf(P, b) = credit
            BY DEF Tables!PayrollOf
        <3> HIDE DEF credit
        <3> QED
            BY <3>2, <3>3, <3>4
    <2>2. delta[p] \in [Budgets -> Int]
        BY DEF TypeOK, CallerTypes
    <2> QED
        BY <2>1, <2>2
<1>6. Tables!Moves(P, delta[p])
    <2>1. Tables!SumFunction(delta[p]) = 0
        <3>1. moved[p] = 0
            BY <1>1, <1>2 DEF MovesOf
        <3>2. SumFunction(delta[p]) = -(0 * UnitsPerCent)
            BY <3>1 DEF NoCentLost
        <3> QED
            BY <3>2, SameSum, AmountsAssumption
    <2>2. Covered(p) = P
        BY <1>1, <1>2 DEF MovesOf, Covered
    <2> QED
        BY <1>2, <2>1, <2>2 DEF Tables!Moves, Tables!Linked, MovesOf
<1>7. Tables!Run(P, now[p], txNow[p])
    <2>1. \A b \in P : Tables!IsLive(b) /\ payroll[b] > 0
        BY <1>4 DEF Payable, Tables!IsLive
    <2>2. runAt' = [b \in Budgets |-> IF b \in P THEN txNow[p] ELSE runAt[b]]
        BY <1>1 DEF Commit
    <2>3. UNCHANGED <<Tables!clock, status, payroll, auto, weight>>
        BY DEF Commit, Return, clock, Tables!clock
    <2> QED
        BY <1>3, <1>5, <1>6, <2>1, <2>2, <2>3 DEF Tables!Run
<1>8. CASE p \in MonthlyCallers
    <2>1. \A b \in P : runAt[b] < now[p]
        BY <1>4, <1>8 DEF Payable, NotRunYet
    <2>2. Tables!MonthlyRun(P, now[p], txNow[p])
        BY <1>7, <2>1 DEF Tables!MonthlyRun
    <2> QED
        BY <1>1, <1>3, <2>2 DEF Tables!Next
<1>9. CASE p \in ForcedCallers
    <2>1. P \subseteq {target[p]} /\ target[p] \in Budgets
        BY <1>1, <1>2, <1>9, CallersAssumption DEF OwnTarget, TypeOK, CallerTypes
    <2>2. CASE P = {}
        <3>1. Tables!MonthlyRun(P, now[p], txNow[p])
            BY <1>7, <2>2 DEF Tables!MonthlyRun
        <3> QED
            BY <1>1, <1>3, <3>1 DEF Tables!Next
    <2>3. CASE P = {target[p]}
        <3>1. Tables!ForcedRun(target[p], now[p], txNow[p])
            BY <1>7, <2>3 DEF Tables!ForcedRun
        <3> QED
            BY <1>3, <2>1, <3>1 DEF Tables!Next
    <2> QED
        BY <2>1, <2>2, <2>3
<1> QED
    BY <1>1, <1>8, <1>9 DEF RunCallers

\* A commit of a config request finds all its sources there.
LEMMA CommitConfigures ==
    ASSUME TypeOK, LockInv, RefInv, NEW p \in Callers, CommitConfig(p)
    PROVE  Tables!Next
<1> DEFINE b == target[p]
           row == req[p].row
<1>1. /\ p \in ConfigCallers /\ b \in Budgets /\ pc[p] = "linking" /\ todo[p] = {}
      /\ req[p] \in RequestType
    BY CallersAssumption
    DEF CommitConfig, LockInv, RunPhases, TypeOK, CallerTypes, Callers, RunCallers
<1>2. row[b] = 0 /\ \A s \in Budgets : row[s] > 0 => holds[p][s] # NoLock
    BY <1>1 DEF RefInv, SourcesHeld
<1>3. \A s \in Budgets : row[s] > 0 => s # b /\ status[s] = "live"
    BY <1>1, <1>2 DEF LockInv, HeldLive
<1>4. status[b] = "live"
    <2>1. holds[p][b] >= NoKeyUpdate /\ holds[p][b] \in 0..3
        BY <1>1 DEF LockInv, TargetHeld, TypeOK, CallerTypes, LockModes, NoLock, ForUpdate
    <2>2. holds[p][b] # NoLock
        BY <2>1 DEF NoKeyUpdate, NoLock
    <2> QED
        BY <1>1, <2>2 DEF LockInv, HeldLive
<1>5. /\ auto' = [auto EXCEPT ![b] = req[p].on]
      /\ weight' = [weight EXCEPT ![b] = weight'[b]] /\ weight'[b] = row
      /\ req[p].on \in BOOLEAN
    BY <1>1 DEF CommitConfig, RequestType, TypeOK, TableTypes
<1>6. UNCHANGED <<Tables!clock, status, payroll, runAt, balance>>
    BY DEF CommitConfig, Return, clock, Tables!clock
<1>7. Tables!Configure(b, req[p].on, weight'[b])
    BY <1>3, <1>4, <1>5, <1>6 DEF Tables!Configure, Tables!IsLive
<1> QED
    BY <1>1, <1>5, <1>7 DEF Tables!Next

LEMMA UserWritesEnter ==
    ASSUME TypeOK, UserWrites
    PROVE  Tables!Next
<1> USE DEF UserWrite, clock, Tables!clock, Tables!IsLive, TypeOK, TableTypes
<1>1. ASSUME NEW b \in Budgets, NEW amount \in Payrolls, CreateBudget(b, amount)
      PROVE  Tables!Create(b)
    BY <1>1 DEF CreateBudget, Tables!Create
<1>2. ASSUME NEW b \in Budgets, NEW amount \in Payrolls, UpdateBudget(b, amount)
      PROVE  Tables!SetPayroll(b)
    BY <1>2 DEF UpdateBudget, Tables!SetPayroll
<1>3. ASSUME NEW b \in Budgets, DeleteBudget(b) PROVE Tables!Delete(b)
    BY <1>3 DEF DeleteBudget, Tables!Delete
<1>4. ASSUME NEW b \in Budgets, NEW amount,
             CreateTransaction(b, amount) \/ EditTransaction(b, amount)
      PROVE  Tables!Enter(b)
    BY <1>4 DEF CreateTransaction, EditTransaction, Tables!Enter
<1> HIDE DEF UserWrite, clock, Tables!clock, Tables!IsLive, TypeOK, TableTypes
<1> QED
    BY <1>1, <1>2, <1>3, <1>4 DEF UserWrites, Tables!Next

\* The transactions implement the ledger, ImplementsLedger of the runs, for any
\* constants: a run that reads, waits and writes over many steps is, at its commit,
\* one step on the tables as they are then, and config requests and deletions that
\* race with it leave no trace of having done so.
THEOREM PayrollImplementsLedger == Spec => ImplementsLedger
<1>1. Init => Tables!Init
    <2> SUFFICES ASSUME Init PROVE Tables!Init
        OBVIOUS
    <2>1. RefInv
        BY RefInitially
    <2> QED
        BY <2>1 DEF Init, RefInv, RowsOfLive, Tables!Init, Tables!LinksLive, Tables!Linked,
                    Tables!IsLive
<1>2. TypeOK /\ LockInv /\ SeenIsCurrent /\ NoCentLost /\ RefInv /\ RunInv /\ MovesInv
      /\ [Next]_vars => [Tables!Next]_(Tables!vars)
    <2> SUFFICES ASSUME TypeOK, LockInv, SeenIsCurrent, NoCentLost, RefInv, RunInv,
                        MovesInv, [Next]_vars
                 PROVE  Tables!Next \/ UNCHANGED Tables!vars
        OBVIOUS
    <2>1. CASE UserWrites
        BY <2>1, UserWritesEnter
    <2>2. ASSUME NEW p \in Callers, Commit(p) \/ CommitConfig(p) PROVE Tables!Next
        BY <2>2, CommitRuns, CommitConfigures
    <2>3. CASE UNCHANGED table
        <3>1. CASE TurnMonth
            BY <2>3, <3>1 DEF TurnMonth, table, Tables!Tick, Tables!Next
        <3>2. CASE UNCHANGED clock
            BY <2>3, <3>2 DEF table, clock, Tables!vars, Tables!clock
        <3> QED
            BY <3>1, <3>2, ClockOrTurn
    <2> QED
        BY <2>1, <2>2, <2>3, TableSteps
<1> QED
    BY <1>1, <1>2, TypeCorrect, LockingCorrect, SeenIsCurrentCorrect, NoCentLostCorrect,
       RefInvariant, RunInvariant, MovesInvariant, PTL
    DEF Spec, ImplementsLedger, Tables!Spec

=============================================================================
