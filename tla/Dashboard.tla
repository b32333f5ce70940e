----------------------------- MODULE Dashboard -----------------------------
(***************************************************************************)
(* One window of the dashboard (frontend/src/pages/Dashboard.tsx): the     *)
(* list of budgets it keeps from its last reload, the dialogs that turn    *)
(* one click into several POST requests, and the deletion that takes a     *)
(* budget off the list before the server has answered.  Other windows and  *)
(* payroll write to the same budgets.                                      *)
(*                                                                         *)
(* Amounts are whole cents, budgets are their ids.  A request and its      *)
(* answer are one action: the window does nothing with it in between.      *)
(* react-query is external: one reload at a time, an invalidation discards *)
(* the one under way, a failed reload is repeated twice.  A mutation is    *)
(* not repeated, and does not start while it is pending.                   *)
(***************************************************************************)
EXTENDS Integers, Sequences, SequencesExt

CONSTANTS
    Budgets,       \* ids
    Opening,       \* their balances at the start
    Forms,         \* Forms[k]: what the user may fill into dialog k
    NoForm, NoBudget,
    Outside,       \* amounts that other writers add to a budget
    MaxSubmits, MaxFailures, MaxWrites, MaxReloads, MaxLostReloads   \* bounds

Dialogs == {"transaction", "wizard", "receipt"}

\* What the inputs let through: an amount of a transaction is at least 0.01, an id is
\* one that a list has offered, a receipt and its lines take any number.
FormType ==
    [transaction |-> [budget: Budgets, amount: Nat \ {0}, credit: BOOLEAN,
                      transfer: BOOLEAN, transferTo: Budgets \cup {NoBudget}],
     wizard      |-> [negatives: SUBSET Budgets, positives: SUBSET Budgets],
     receipt     |-> [lines: Seq([budget: Budgets \cup {NoBudget}, cents: Int]),
                      total: Int, catchAll: Budgets \cup {NoBudget}]]

ASSUME DashboardAssumption ==
    /\ Budgets \subseteq Nat /\ IsFiniteSet(Budgets) /\ NoBudget \notin Budgets
    /\ Opening \in [Budgets -> Int] /\ Outside \subseteq Int
    /\ DOMAIN Forms = Dialogs
    /\ \A k \in Dialogs : Forms[k] \subseteq FormType[k] /\ NoForm \notin FormType[k]
    /\ {MaxSubmits, MaxFailures, MaxWrites, MaxReloads, MaxLostReloads} \subseteq Nat

VARIABLES
    table,     \* the server's balances, by budget that exists
    version,   \* how often the table was written
    shown,     \* the window's copy: rows, and the version they were read at
    reloads,   \* requests for the list that are under way
    dialog,    \* the open dialog, or "none"
    form,      \* what is filled in
    pending,   \* pending[k]: requests that mutation k has still to send
    deletion,  \* the budget that is being deleted, and the list from before
    submits, failures, writes, reloaded, lost,   \* counters, bounded
    plan,      \* history: plan[k] is the whole plan of mutation k, while it runs
    posted,    \* history: what a transaction has posted since its form was filled
    exact,     \* history: exact[k] says that k runs on the balances it planned with
    awaited    \* history: the version of the last write known to have succeeded

server   == <<table, version>>
cache    == <<shown, reloads>>
ui       == <<dialog, form>>
counters == <<submits, failures, writes, reloaded, lost>>
history  == <<plan, posted, exact, awaited>>
vars == <<server, cache, ui, pending, deletion, counters, history>>

Total(requests) == FoldLeft(LAMBDA sum, r : sum + r.cents, 0, requests)

\* Array.filter.  (Both are library operators, in a form that can be reasoned about:
\* SelectSeq, and SetToSortSeq by <.)
Filter(requests, Wanted(_)) ==
    FoldLeft(LAMBDA kept, r : IF Wanted(r) THEN Append(kept, r) ELSE kept, << >>, requests)
InListOrder(S) ==
    CHOOSE s \in [1..Cardinality(S) -> S] : \A i, j \in DOMAIN s : i < j => s[i] < s[j]

Entry(b, cents) == [budget |-> b, cents |-> cents]
Nothing == [b \in Budgets |-> 0]
NoneExact == [k \in Dialogs |-> FALSE]
NoList == [rows |-> << >>, version |-> 0]
NoDeletion == [budget |-> NoBudget, previous |-> NoList]

Init ==
    /\ table = Opening /\ version = 0
    /\ shown = [rows |-> Opening, version |-> 0] /\ reloads = {}
    /\ dialog = "none" /\ form = NoForm
    /\ pending = [k \in Dialogs |-> << >>]
    /\ deletion = NoDeletion
    /\ submits = 0 /\ failures = 0 /\ writes = 0 /\ reloaded = 0 /\ lost = 0
    /\ plan = [k \in Dialogs |-> << >>] /\ posted = Nothing
    /\ exact = NoneExact /\ awaited = 0

-----------------------------------------------------------------------------
(* The plans: which requests a form turns into.                             *)

\* Mutant: the cents left over are dropped.
SplitFloor(total, buckets) == [i \in 1..buckets |-> total \div buckets]

\* As even as cents allow, the first ones getting the cents left over.
SplitEvenly(total, buckets) ==
    [i \in 1..buckets |-> total \div buckets + IF i <= total % buckets THEN 1 ELSE 0]

\* createTransaction: one entry, or a debit here and a credit there.
TransactionPlan(f) ==
    IF f.transfer /\ f.transferTo \notin {NoBudget, f.budget}
    THEN <<Entry(f.budget, -f.amount), Entry(f.transferTo, f.amount)>>
    ELSE <<Entry(f.budget, IF f.credit THEN f.amount ELSE -f.amount)>>

\* Nothing is posted for a budget whose part is less than a cent.
Due(requests) == Filter(requests, LAMBDA r : r.cents # 0)

\* Mutant: the picked budgets are credited evenly, like the others are debited.
WizardPlanEven(f, rows) ==
    LET negatives == InListOrder({b \in f.negatives \cap DOMAIN rows : rows[b] < 0})
        positives == InListOrder({b \in f.positives \cap DOMAIN rows : rows[b] > 0})
        owed == [i \in 1..Len(negatives) |-> Entry(negatives[i], -rows[negatives[i]])]
        debits == SplitEvenly(Total(owed), Len(positives))
        credits == SplitEvenly(Total(owed), Len(negatives))
    IN  IF negatives = << >> \/ positives = << >> THEN << >>
        ELSE [i \in 1..Len(positives) |-> Entry(positives[i], -debits[i])]
             \o [i \in 1..Len(negatives) |-> Entry(negatives[i], credits[i])]

\* balanceBudgets: debit the positives evenly, then credit each negative in full.
WizardPlan(f, rows) ==
    LET negatives == InListOrder({b \in f.negatives \cap DOMAIN rows : rows[b] < 0})
        positives == InListOrder({b \in f.positives \cap DOMAIN rows : rows[b] > 0})
        credits == [i \in 1..Len(negatives) |-> Entry(negatives[i], -rows[negatives[i]])]
        debits == SplitEvenly(Total(credits), Len(positives))
    IN  IF negatives = << >> \/ positives = << >> THEN << >>
        ELSE Due([i \in 1..Len(positives) |-> Entry(positives[i], -debits[i])]) \o credits

ActiveLines(f) == Filter(f.lines, LAMBDA r : r.budget # NoBudget /\ r.cents > 0)

\* itemizeReceipt: a debit per line, and the rest from the catch-all budget.
ReceiptPlan(f) ==
    LET lines == ActiveLines(f)
        remainder == f.total - Total(lines)
    IN  IF f.total <= 0 \/ lines = << >> \/ remainder < 0 THEN << >>
        ELSE [i \in 1..Len(lines) |-> Entry(lines[i].budget, -lines[i].cents)]
             \o IF remainder > 0 THEN <<Entry(f.catchAll, -remainder)>> ELSE << >>

PlanOf(k, f, rows) ==
    CASE k = "transaction" -> TransactionPlan(f)
      [] k = "wizard"      -> WizardPlan(f, rows)
      [] k = "receipt"     -> ReceiptPlan(f)

\* The buttons: transferReady, and of itemizeReady the catch-all and that all the lines,
\* also those without a budget, fit in.  What else wizardReady and itemizeReady ask for
\* leaves nothing to send.
Ready(k, f) ==
    /\ k = "transaction" => ~f.transfer \/ f.transferTo \notin {NoBudget, f.budget}
    /\ k = "receipt" => f.catchAll # NoBudget /\ Total(f.lines) <= f.total

\* The effects on [budgets]: picks and choices that the new list does not offer.
FirstOther(b, rows) == LET others == DOMAIN rows \ {b}
                       IN  IF others = {} THEN NoBudget ELSE InListOrder(others)[1]
Refit(k, f, rows) ==
    CASE k = "transaction" ->
           [f EXCEPT !.transferTo =
                IF f.transfer /\ @ \notin (DOMAIN rows \ {f.budget}) \cup {NoBudget}
                THEN FirstOther(f.budget, rows) ELSE @]
      [] k = "wizard" ->
           [negatives |-> {b \in f.negatives \cap DOMAIN rows : rows[b] < 0},
            positives |-> {b \in f.positives \cap DOMAIN rows : rows[b] > 0}]
      [] k = "receipt" ->
           IF DOMAIN rows = {} THEN [f EXCEPT !.catchAll = NoBudget]
           ELSE [f EXCEPT !.lines = [i \in DOMAIN @ |->
                                       IF @[i].budget \in DOMAIN rows THEN @[i]
                                       ELSE [@[i] EXCEPT !.budget = NoBudget]],
                          !.catchAll = IF @ \in DOMAIN rows THEN @
                                       ELSE FirstOther(NoBudget, rows)]
      [] OTHER -> f

\* A list arrives in the window.
Show(list) == shown' = list /\ form' = Refit(dialog, form, list.rows)

-----------------------------------------------------------------------------
(* Reloads of the list *)

Unanswered(tries) == [answered |-> FALSE, list |-> NoList, tries |-> tries]
Answered(r) ==
    [answered |-> TRUE, list |-> [rows |-> table, version |-> version], tries |-> r.tries]
Asked == Unanswered(0)

\* Mutant: the answer of an earlier reload is still taken.
InvalidateOnly == reloads' = reloads \cup {Asked}

\* invalidateQueries: the reload under way is discarded, another one starts.
Invalidate == reloads' = {Asked}

\* The window gets the focus.
Refocus ==
    /\ reloads = {} /\ reloads' = {Asked}
    /\ reloaded < MaxReloads /\ reloaded' = reloaded + 1
    /\ UNCHANGED <<server, shown, ui, pending, deletion, submits, failures, writes,
                   lost, history>>

ServerReads(r) ==
    /\ ~r.answered
    /\ reloads' = (reloads \ {r}) \cup {Answered(r)}
    /\ UNCHANGED <<server, shown, ui, pending, deletion, counters, history>>

ListArrives(r) ==
    /\ r.answered
    /\ reloads' = reloads \ {r}
    /\ Show(r.list)
    /\ UNCHANGED <<server, dialog, pending, deletion, counters, history>>

\* Mutant: one repetition only.
TriesLeftOne(r) == r.tries < 1

\* main.tsx: failureCount < 2.
TriesLeft(r) == r.tries < 2

ReloadFails(r) ==
    /\ lost < MaxLostReloads /\ lost' = lost + 1
    /\ reloads' = (reloads \ {r}) \cup
                  IF TriesLeft(r) THEN {Unanswered(r.tries + 1)} ELSE {}
    /\ UNCHANGED <<server, shown, ui, pending, deletion, submits, failures, writes,
                   reloaded, history>>

-----------------------------------------------------------------------------
(* Dialogs and their mutations *)

\* The user opens dialog k, or changes what is filled into it.
Fill(k, f) ==
    /\ dialog \in {"none", k} /\ dialog' = k
    /\ k = "transaction" => f.budget \in DOMAIN shown.rows
    /\ Refit(k, f, shown.rows) = f /\ f # form /\ form' = f
    /\ posted' = IF k = "transaction" /\ pending[k] = << >> THEN Nothing ELSE posted
    /\ UNCHANGED <<server, cache, pending, deletion, counters, plan, exact, awaited>>

Close ==
    /\ dialog # "none" /\ dialog' = "none" /\ form' = NoForm
    /\ UNCHANGED <<server, cache, pending, deletion, counters, history>>

\* The mutation starts: it plans with the list as the window shows it.
Submit(k) ==
    LET requests == PlanOf(k, form, shown.rows)
    IN  /\ dialog = k /\ pending[k] = << >> /\ Ready(k, form) /\ requests # << >>
        /\ submits < MaxSubmits /\ submits' = submits + 1
        /\ pending' = [pending EXCEPT ![k] = requests]
        /\ plan' = [plan EXCEPT ![k] = requests]
        /\ exact' = [exact EXCEPT ![k] = shown.rows = table]
        /\ UNCHANGED <<server, cache, ui, deletion, failures, writes, reloaded, lost,
                       posted, awaited>>

\* The server records an entry.
Record(k, r) ==
    /\ table' = [table EXCEPT ![r.budget] = @ + r.cents]
    /\ version' = version + 1
    /\ posted' = IF k = "transaction" THEN [posted EXCEPT ![r.budget] = @ + r.cents]
                 ELSE posted

\* onSuccess: the dialog is closed and the list is reloaded.
Succeed(k) ==
    /\ dialog' = IF dialog = k THEN "none" ELSE dialog
    /\ form' = IF dialog = k THEN NoForm ELSE form
    /\ awaited' = version'
    /\ Invalidate

\* Mutation k ends, with a success or with an error.
End(k) == pending' = [pending EXCEPT ![k] = << >>] /\ plan' = [plan EXCEPT ![k] = << >>]

\* One POST of the plan is answered; the next one follows, or the end.
Post(k) ==
    /\ pending[k] # << >>
    /\ LET r == Head(pending[k])
           rest == Tail(pending[k])
       IN  /\ r.budget \in DOMAIN table
           /\ Record(k, r)
           /\ \/ /\ rest # << >> /\ pending' = [pending EXCEPT ![k] = rest]
                 /\ exact' = [j \in Dialogs |-> j = k /\ exact[j]]
                 /\ UNCHANGED <<reloads, ui, awaited, plan>>
              \/ /\ rest = << >> /\ End(k) /\ Succeed(k)
                 /\ exact' = NoneExact
    /\ UNCHANGED <<shown, deletion, counters>>

\* One POST fails: nothing is recorded, the rest is not sent, the dialog stays.
PostFails(k) ==
    /\ pending[k] # << >>
    /\ \/ Head(pending[k]).budget \notin DOMAIN table /\ UNCHANGED failures
       \/ failures < MaxFailures /\ failures' = failures + 1
    /\ End(k) /\ exact' = [exact EXCEPT ![k] = FALSE]
    /\ UNCHANGED <<server, cache, ui, deletion, submits, writes, reloaded, lost, posted,
                   awaited>>

\* One POST is recorded but its answer is lost: to the window the same.
PostAnswerLost(k) ==
    /\ pending[k] # << >> /\ Head(pending[k]).budget \in DOMAIN table
    /\ failures < MaxFailures /\ failures' = failures + 1
    /\ Record(k, Head(pending[k]))
    /\ End(k) /\ exact' = NoneExact
    /\ UNCHANGED <<cache, ui, deletion, submits, writes, reloaded, lost, awaited>>

-----------------------------------------------------------------------------
(* deleteBudget *)

Drop(rows, b) == [c \in DOMAIN rows \ {b} |-> rows[c]]

\* onMutate: the reload under way is cancelled, the list is kept and cut.
StartDelete(b) ==
    /\ deletion.budget = NoBudget /\ dialog = "none"
    /\ b \in DOMAIN shown.rows
    /\ submits < MaxSubmits /\ submits' = submits + 1
    /\ deletion' = [budget |-> b, previous |-> shown]
    /\ Show([shown EXCEPT !.rows = Drop(@, b)])
    /\ reloads' = {}
    /\ UNCHANGED <<server, dialog, pending, failures, writes, reloaded, lost, history>>

\* The cascade takes the entries as well.
DeleteRow(b) == /\ table' = Drop(table, b) /\ version' = version + 1
                /\ exact' = NoneExact

DeleteSucceeds ==
    /\ deletion.budget \in DOMAIN table
    /\ DeleteRow(deletion.budget)
    /\ awaited' = version' /\ Invalidate
    /\ deletion' = NoDeletion
    /\ UNCHANGED <<shown, ui, pending, counters, plan, posted>>

\* The row is gone or not; onError puts the list from before back, onSettled reloads.
DeleteFails ==
    /\ deletion.budget # NoBudget
    /\ \/ /\ failures < MaxFailures /\ failures' = failures + 1
          /\ \/ deletion.budget \in DOMAIN table /\ DeleteRow(deletion.budget)
             \/ UNCHANGED <<server, exact>>
       \/ deletion.budget \notin DOMAIN table /\ UNCHANGED <<failures, server, exact>>
    /\ Show(deletion.previous) /\ deletion' = NoDeletion
    /\ awaited' = version' /\ Invalidate
    /\ UNCHANGED <<dialog, pending, submits, writes, reloaded, lost, plan, posted>>

\* Another window, another user, payroll.
OthersWrite(b, cents) ==
    /\ writes < MaxWrites /\ writes' = writes + 1
    /\ b \in DOMAIN table
    /\ table' = [table EXCEPT ![b] = @ + cents] /\ version' = version + 1
    /\ exact' = NoneExact
    /\ UNCHANGED <<cache, ui, pending, deletion, submits, failures, reloaded, lost, plan,
                   posted, awaited>>

Reload == \E r \in reloads : ServerReads(r) \/ ListArrives(r) \/ ReloadFails(r)

Mutate(k) == Submit(k) \/ Post(k) \/ PostFails(k) \/ PostAnswerLost(k)

Next == \/ \E k \in Dialogs : Mutate(k) \/ \E f \in Forms[k] : Fill(k, f)
        \/ Close \/ Refocus \/ Reload
        \/ DeleteSucceeds \/ DeleteFails
        \/ \E b \in Budgets : StartDelete(b) \/ \E cents \in Outside : OthersWrite(b, cents)

Spec == Init /\ [][Next]_vars

\* Requests are answered, one way or the other.
Fairness == /\ WF_vars(Reload)
            /\ WF_vars(DeleteSucceeds \/ DeleteFails)
            /\ \A k \in Dialogs : WF_vars(Post(k) \/ PostFails(k))

FairSpec == Spec /\ Fairness

-----------------------------------------------------------------------------
(* Properties *)

\* Types; at most one reload is under way; nobody is ahead of the server.
TypeOK ==
    /\ DOMAIN table \subseteq Budgets /\ \A b \in DOMAIN table : table[b] \in Int
    /\ version \in Nat
    /\ DOMAIN shown.rows \subseteq Budgets /\ shown.version \in 0..version
    /\ \A q, r \in reloads : q = r
    /\ \A r \in reloads : r.tries \in 0..2 /\ r.list.version \in 0..version
    /\ dialog \in Dialogs \cup {"none"} /\ (dialog = "none" <=> form = NoForm)
    /\ \A k \in Dialogs : \A i \in DOMAIN pending[k] : pending[k][i].budget \in Budgets
                                                       /\ pending[k][i].cents \in Int \ {0}
    /\ deletion.budget \in Budgets \cup {NoBudget}
    /\ posted \in [Budgets -> Int] /\ exact \in [Dialogs -> BOOLEAN]
    /\ awaited \in 0..version

Starts(k) == pending[k] = << >> /\ pending'[k] # << >>
Succeeds(k) == pending[k] # << >> /\ pending'[k] = << >> /\ awaited' > awaited

\* What a mutation sets out to post adds up, whatever the list and the form are: a
\* transfer and the wizard move money without making or losing a cent, a receipt
\* takes its total; and the wizard's debits differ by a cent at most.
PlansAddUp ==
    [][/\ Starts("transaction") /\ form.transfer => Total(plan'["transaction"]) = 0
       /\ Starts("receipt") => Total(plan'["receipt"]) = -form.total
       /\ Starts("wizard") =>
            /\ Total(plan'["wizard"]) = 0
            /\ \A q, r \in ToSet(plan'["wizard"]) :
                 q.cents < 0 /\ r.cents < 0 => q.cents - r.cents \in {-1, 0, 1}]_vars

\* The picked budgets that a wizard credits, once it has succeeded, are at zero.
BroughtToZero ==
    \A i \in DOMAIN plan["wizard"] :
        LET b == plan["wizard"][i].budget
        IN  plan["wizard"][i].cents > 0 /\ b \in DOMAIN table' => table'[b] = 0

\* The wizard does what it says when it planned on the balances as they were and
\* nobody wrote in between, with any other dialogs opened and closed meanwhile.
WizardSettles == [][Succeeds("wizard") /\ exact["wizard"] => BroughtToZero]_vars

\* A transfer debits one budget and credits another with the same amount (its hint):
\* when it has succeeded, that is what was posted since the form was filled in.
TransferIsEven ==
    [][Succeeds("transaction") /\ Len(plan["transaction"]) = 2 =>
         posted' =
             [b \in Budgets |->
                Total(Filter(plan["transaction"], LAMBDA r : r.budget = b))]]_vars

\* The list never goes back to an older state of the server, whatever reloads,
\* writes and deletions overlap, but for the one that a failed deletion puts back.
ShownNeverGoesBack ==
    [][\/ shown'.version >= shown.version
       \/ deletion.budget # NoBudget /\ deletion'.budget = NoBudget]_vars

\* The list comes to show every write that was reported as done, and the outcome of
\* every deletion, although answers are overtaken and reloads fail.
CatchesUp == <>[](shown.version >= awaited)
=============================================================================
