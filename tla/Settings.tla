------------------------------ MODULE Settings ------------------------------
(***************************************************************************)
(* The settings dialog of the dashboard (frontend/src/pages/Dashboard.tsx) *)
(* and the rows it edits (internal/store/store.go): a budget's basics, its *)
(* name and payroll as one value, and its auto-balance configuration.  The *)
(* form is filled by effects, from the list of budgets and from the        *)
(* configuration, whenever one of the two changes; the user edits it in    *)
(* between; saving sends two PUT requests, one after the other.            *)
(*                                                                         *)
(* The form knows for a source only whether it is picked, so that a saved  *)
(* weight is 1, and it sends no source while auto-balance is off.  Other   *)
(* writers set any weights, and may use sources that this user has no      *)
(* access to.                                                              *)
(***************************************************************************)
EXTENDS FiniteSets, QueryCache

CONSTANTS
    Budgets, NoBudget,
    Basics, Blank,        \* names with payrolls; what an empty name field holds
    MaxWeight,
    StartRows,            \* the rows to begin with
    OtherRows,            \* OtherRows[b]: what other writers store for b
    MaxClicks,            \* bound: what the user does
    MaxTrouble            \* bound: requests that fail, and writes of others

Weights == [Budgets -> 0..MaxWeight]
Balance == [on: BOOLEAN, weight: Weights]
Row == [basics: Basics, balance: Balance]
Rows == {r \in [Budgets -> Row] : \A b \in Budgets : r[b].balance.weight[b] = 0}

ASSUME SettingsAssumption ==
    /\ NoBudget \notin Budgets /\ Blank \notin Basics /\ NoData \notin Balance
    /\ MaxWeight \in Nat \ {0} /\ MaxClicks \in Nat /\ MaxTrouble \in Nat
    /\ StartRows \subseteq Rows
    /\ \A b \in Budgets : \A r \in OtherRows[b] : r \in Row /\ r.balance.weight[b] = 0

VARIABLES
    row,       \* the server: basics, and whether and from where b is balanced
    visible,   \* budgets this user has access to
    stamp,     \* counts the writes, as updated_at and the balances show them
    list,      \* the query ['budgets']: the visible rows, and the stamp
    config,    \* config[b]: the query ['auto-balance', b]
    opened,    \* settingsBudget
    form,      \* what the dialog holds
    saving,    \* the last save: its payload and how far it is
    clicks, trouble,   \* counters, bounded
    touched    \* history: the parts of the form that are not as they were filled

settingsServer == <<row, visible, stamp>>
queries == <<list, config>>
dialogue == <<opened, form, touched>>
settingsVars == <<settingsServer, queries, dialogue, saving, clicks, trouble>>

Form == [basics: Basics \cup {Blank}, on: BOOLEAN, picks: SUBSET Budgets]
EmptyForm == [basics |-> Blank, on |-> FALSE, picks |-> {}]
Pending == {"basics", "balance"}
NoSave == [budget |-> NoBudget, stage |-> "none", alone |-> TRUE]

\* ListBudgets: the budgets of this user.
Listed == [rows |-> [b \in visible |-> row[b].basics], stamp |-> stamp]

SettingsInit ==
    /\ row \in StartRows /\ visible \in SUBSET Budgets
    /\ stamp = 0
    /\ list = Settled(Listed)
    /\ config = [b \in Budgets |-> Settled(NoData)]
    /\ opened = NoBudget /\ form = EmptyForm /\ touched = {}
    /\ saving = NoSave
    /\ clicks = 0 /\ trouble = 0

Click == clicks < MaxClicks /\ clicks' = clicks + 1
Trouble == trouble < MaxTrouble /\ trouble' = trouble + 1

-----------------------------------------------------------------------------
(* The effects *)

\* [settingsBudget, budgets]: the basics, and no picks that are not offered.
FillFromList(b, held, f) ==
    [f EXCEPT !.basics = IF b \in DOMAIN held.rows THEN held.rows[b] ELSE Blank,
              !.picks = @ \cap (DOMAIN held.rows \ {b})]

\* [settingsBudget, autoBalanceQuery.data]
FillFromConfig(data, f) ==
    IF data = NoData THEN f
    ELSE [f EXCEPT !.on = data.on, !.picks = {s \in Budgets : data.weight[s] > 0}]

\* What the effects leave of the parts that the user changed.
StillTouched(b, held, f) ==
    (touched \ {"basics"})
    \cup IF FillFromList(b, held, f).picks = f.picks THEN {} ELSE {"balance"}

ShowList ==
    LET held == list.answer IN
    /\ list' = Arrived(list)
    /\ IF opened # NoBudget /\ held # list.data
       THEN /\ form' = FillFromList(opened, held, form)
            /\ touched' = StillTouched(opened, held, form)
       ELSE UNCHANGED <<form, touched>>
    /\ UNCHANGED opened

ShowConfig(b) ==
    /\ config' = [config EXCEPT ![b] = Arrived(@)]
    /\ IF b = opened /\ config[b].answer # config[b].data
       THEN /\ form' = FillFromConfig(config[b].answer, form)
            /\ touched' = touched \ {"balance"}
       ELSE UNCHANGED <<form, touched>>
    /\ UNCHANGED opened

-----------------------------------------------------------------------------
(* The user *)

\* The gear of a budget; the requests for its configuration and its effects follow.
OpenSettings(b) ==
    LET filled == FillFromConfig(config[b].data, form)
    IN  /\ Click /\ b # opened /\ b \in DOMAIN list.data.rows
        /\ opened' = b
        /\ config' = [config EXCEPT ![b] = Observed(@)]
        /\ form' = FillFromList(b, list.data, filled)
        /\ touched' = IF form'.picks = filled.picks THEN {} ELSE {"balance"}
        /\ UNCHANGED <<settingsServer, list, saving, trouble>>

CloseDialog == opened' = NoBudget /\ form' = EmptyForm /\ touched' = {}

CloseSettings ==
    /\ Click /\ opened # NoBudget /\ CloseDialog
    /\ UNCHANGED <<settingsServer, queries, saving, trouble>>

\* The toggle waits for the configuration, the name and the picks do not.
EditForm ==
    /\ Click /\ opened # NoBudget
    /\ \/ \E v \in Basics : form' = [form EXCEPT !.basics = v]
          /\ touched' = touched \cup {"basics"}
       \/ /\ \/ ~Loading(config[opened]) /\ form' = [form EXCEPT !.on = ~@]
             \/ \E s \in DOMAIN list.data.rows \ {opened} :
                   form' = [form EXCEPT !.picks = IF s \in @ THEN @ \ {s} ELSE @ \cup {s}]
          /\ touched' = touched \cup {"balance"}
    /\ form' # form
    /\ UNCHANGED <<settingsServer, queries, opened, saving, trouble>>

\* Mutant: the button does not wait for the configuration.
SaveReadyEarly ==
    /\ saving.stage \notin Pending
    /\ opened \in DOMAIN list.data.rows /\ form.basics # Blank

\* The button and its handler.
SaveReady ==
    /\ saving.stage \notin Pending /\ ~Loading(config[opened])
    /\ opened \in DOMAIN list.data.rows /\ form.basics # Blank

Payload ==
    [basics |-> form.basics,
     balance |-> [on |-> form.on,
                  weight |-> [s \in Budgets |->
                                IF form.on /\ s \in form.picks THEN 1 ELSE 0]]]

SaveSettings ==
    /\ Click /\ opened # NoBudget /\ SaveReady
    /\ saving' = [budget |-> opened, payload |-> Payload, stage |-> "basics",
                  alone |-> TRUE]
    /\ UNCHANGED <<settingsServer, queries, dialogue, trouble>>

\* The window gets the focus.
FocusDashboard ==
    /\ Click
    /\ list' = Observed(list)
    /\ config' = [b \in Budgets |-> IF b = opened THEN Observed(config[b]) ELSE config[b]]
    /\ UNCHANGED <<settingsServer, dialogue, saving, trouble>>

\* The dialog's other button: payroll is run, the list is reloaded.
RunPayroll ==
    /\ Click /\ opened # NoBudget
    /\ stamp' = stamp + 1
    /\ list' = Invalidated(list, TRUE)
    /\ UNCHANGED <<row, visible, config, dialogue, saving, trouble>>

-----------------------------------------------------------------------------
(* updateBudgetSettings: PUT /budgets/{id}, then PUT /budgets/{id}/auto-balance *)

\* ensureBudgetAccess of the budget, and of every source.
Accepted ==
    /\ saving.budget \in visible
    /\ saving.stage = "balance" =>
         \A s \in Budgets : saving.payload.balance.weight[s] > 0 => s \in visible

\* The window does not hear of a write to b.
Unnoticed(b) ==
    /\ list' = Overtaken(list)
    /\ config' = [config EXCEPT ![b] = Overtaken(@)]

\* UpdateBudget, UpdateAutoBalanceConfig
Stored ==
    /\ row' = [row EXCEPT ![saving.budget] =
                 IF saving.stage = "basics" THEN [@ EXCEPT !.basics = saving.payload.basics]
                 ELSE [@ EXCEPT !.balance = saving.payload.balance]]
    /\ stamp' = stamp + 1
    /\ UNCHANGED visible

Turn(stage) == saving' = [saving EXCEPT !.stage = stage]

\* Mutant: the second request is sent but its answer is not awaited.
BasicsStoredEarly ==
    /\ saving.stage = "basics" /\ Accepted /\ Stored
    /\ Turn("done") /\ list' = Overtaken(list)
    /\ UNCHANGED <<config, dialogue, clicks, trouble>>

BasicsStored ==
    /\ saving.stage = "basics" /\ Accepted /\ Stored
    /\ Turn("balance") /\ list' = Overtaken(list)
    /\ UNCHANGED <<config, dialogue, clicks, trouble>>

\* onSuccess closes the dialog that is open, whichever that is.
BalanceStored ==
    /\ saving.stage = "balance" /\ Accepted /\ Stored
    /\ Turn("done")
    /\ list' = Invalidated(list, TRUE)
    /\ config' = [config EXCEPT ![saving.budget] = Invalidated(@, saving.budget = opened)]
    /\ CloseDialog
    /\ UNCHANGED <<clicks, trouble>>

\* Refused, not received, or stored with a lost answer: nothing more is sent, and
\* nothing is reloaded.
SaveFails ==
    /\ saving.stage \in Pending
    /\ \/ ~Accepted /\ UNCHANGED <<settingsServer, queries, trouble>>
       \/ Trouble /\ UNCHANGED <<settingsServer, queries>>
       \/ Accepted /\ Trouble /\ Stored /\ Unnoticed(saving.budget)
    /\ Turn("failed")
    /\ UNCHANGED <<dialogue, clicks>>

-----------------------------------------------------------------------------
(* Requests for the list and the configurations, and other writers *)

LoadList ==
    /\ \/ /\ list.stage = "asked" /\ list' = Answered(list, Listed)
          /\ UNCHANGED <<opened, form, touched, trouble>>
       \/ list.stage = "answered" /\ ShowList /\ UNCHANGED trouble
       \/ /\ list.stage # "idle" /\ Trouble /\ list' = Failed(list, TRUE)
          /\ UNCHANGED <<opened, form, touched>>
    /\ UNCHANGED <<settingsServer, config, saving, clicks>>

\* GetAutoBalanceConfig fails for who has no access any more.
LoadConfig(b) ==
    /\ \/ /\ config[b].stage = "asked" /\ b \in visible
          /\ config' = [config EXCEPT ![b] = Answered(@, row[b].balance)]
          /\ UNCHANGED <<opened, form, touched, trouble>>
       \/ config[b].stage = "answered" /\ ShowConfig(b) /\ UNCHANGED trouble
       \/ /\ config[b].stage # "idle"
          /\ \/ Trouble
             \/ config[b].stage = "asked" /\ b \notin visible /\ UNCHANGED trouble
          /\ config' = [config EXCEPT ![b] = Failed(@, b = opened)]
          /\ UNCHANGED <<opened, form, touched>>
    /\ UNCHANGED <<settingsServer, list, saving, clicks>>

\* Another window or another user changes a row, or this user's access to it.
OthersStore(b) ==
    /\ Trouble
    /\ \/ \E r \in OtherRows[b] \ {row[b]} : row' = [row EXCEPT ![b] = r]
          /\ UNCHANGED visible
       \/ visible' = (visible \ {b}) \cup ({b} \ visible) /\ UNCHANGED row
    /\ stamp' = stamp + 1
    /\ saving' = [saving EXCEPT !.alone = @ /\ b # saving.budget]
    /\ Unnoticed(b)
    /\ UNCHANGED <<dialogue, clicks>>

SettingsNext ==
    \/ CloseSettings \/ EditForm \/ SaveSettings \/ FocusDashboard \/ RunPayroll
    \/ BasicsStored \/ BalanceStored \/ SaveFails
    \/ LoadList
    \/ \E b \in Budgets : OpenSettings(b) \/ LoadConfig(b) \/ OthersStore(b)

-----------------------------------------------------------------------------
(* Properties *)

SettingsTypeOK ==
    /\ row \in Rows /\ visible \in SUBSET Budgets /\ stamp \in Nat
    /\ opened \in Budgets \cup {NoBudget} /\ form \in Form
    /\ touched \in SUBSET {"basics", "balance"}
    /\ config \in [Budgets -> Query(Balance \cup {NoData})]
    /\ clicks \in 0..MaxClicks /\ trouble \in 0..MaxTrouble

\* What the window holds of b is what the server has, or its configuration is still
\* on the way, and the form can express it.
Known(b) ==
    LET now == row[b].balance
        sources == {s \in Budgets : now.weight[s] > 0}
    IN  /\ list.data.rows[b] = row[b].basics
        /\ config[b].data = now \/ Loading(config[b])
        /\ \A s \in sources : now.weight[s] = 1
        /\ sources \subseteq DOMAIN list.data.rows
        /\ now.on \/ sources = {}

\* Whoever saves the settings of a budget, as the window rightly shows them, sends for
\* what neither the user nor the list has changed in the form what the server already
\* has: no part of the form is sent before it was filled, or filled for another budget.
SaveKeepsTheRest ==
    [][\A b \in Budgets :
         (/\ SaveSettings /\ b = opened /\ Known(b))
         => /\ "basics" \notin touched => saving'.payload.basics = row[b].basics
            /\ "balance" \notin touched => saving'.payload.balance = row[b].balance
      ]_settingsVars

\* The list and the configuration of the dialog, once no request is under way, are what
\* the server has, if the window could know of every write since it asked: in
\* particular after a save, whenever the dialog is opened again.
SettingsCurrent ==
    /\ Current(list, Listed)
    /\ opened # NoBudget => Current(config[opened], row[opened].balance)

\* When the dialog reports a success, both halves of what was saved are stored, unless
\* somebody else has written the budget since.
SuccessMeansStored ==
    saving.stage = "done" /\ saving.alone => row[saving.budget] = saving.payload
=============================================================================
