------------------------------ MODULE Sharing ------------------------------
(***************************************************************************)
(* Shared budgets: the requests that decide who uses a budget, what covers *)
(* it and when it ends, and the others that need access to it              *)
(* (internal/store/store.go, internal/server/handlers/api.go and mcp.go).  *)
(*                                                                         *)
(* Every request runs ensureBudgetAccess first and the statement it is     *)
(* about afterwards, in no common transaction: other requests come in      *)
(* between.  A statement is one action.  The transactions of CreateBudget, *)
(* DeleteBudget and UpdateAutoBalanceConfig are one action as well; the    *)
(* locks inside them are the subject of Payroll.  The foreign keys of      *)
(* db/schema.sql are external.                                             *)
(***************************************************************************)
CONSTANTS
    Users,      \* e-mail addresses
    Budgets,    \* ids of budgets, which the database hands out once
    Requests,   \* HTTP requests
    Nothing,    \* what a request asks for before it is made
    InitTables  \* the databases to begin with

\* The routes and the fields of a request, as far as its kind has them.
Ask(kind, u, b, guest, from) ==
    [kind |-> kind, user |-> u, budget |-> b, guest |-> guest, from |-> from]

Askable ==
    LET At(kinds) == {Ask(k, u, b, u, {}) : k \in kinds, u \in Users, b \in Budgets}
    IN  At({"create", "update", "delete", "entry"})
        \cup {Ask(k, u, b, g, {}) :
                 k \in {"share", "unshare"}, u \in Users, b \in Budgets, g \in Users}
        \cup UNION {{Ask("config", u, b, u, from) : u \in Users, from \in SUBSET (Budgets \ {b})} :
                       b \in Budgets}

Tables == [users : SUBSET Users, status : [Budgets -> {"unborn", "live"}],
           access : SUBSET (Users \X Budgets), sources : SUBSET (Budgets \X Budgets)]

Whole(t) ==
    /\ \A p \in t.access : p[1] \in t.users /\ t.status[p[2]] = "live"
    /\ \A p \in t.sources :
          p[1] # p[2] /\ t.status[p[1]] = "live" /\ t.status[p[2]] = "live"

ASSUME TablesAssumption ==
    /\ InitTables \subseteq Tables /\ \A t \in InitTables : Whole(t)
    /\ Nothing \notin Askable

VARIABLES
    users,    \* table users
    status,   \* table budgets
    access,   \* table users_budgets: pairs of a user and a budget
    sources,  \* table budget_auto_balance_sources: pairs of a target and a source
    entries,  \* table transacts: pairs of the request that posted it and a budget
    pc,       \* of every request: where it is, at last how it was answered
    asked,    \* asked[r]: what it asks for
    checked,  \* checked[r]: the budgets whose access check it has passed
    refusable \* history: see Watch

tables == <<users, status, access, sources, entries>>
vars == <<tables, pc, asked, checked, refusable>>

Under == {"called", "allowed", "found"}
Answers == {"ok", "notfound", "error", "cut"}   \* 2xx, 404, 500, and none at all

Live(b) == status[b] = "live"

Init ==
    /\ \E t \in InitTables :
          /\ users = t.users /\ status = t.status
          /\ access = t.access /\ sources = t.sources
    /\ entries = {}
    /\ pc = [r \in Requests |-> "idle"]
    /\ asked = [r \in Requests |-> Nothing]
    /\ checked = [r \in Requests |-> {}]
    /\ refusable = [r \in Requests |-> FALSE]

Goto(r, phase) == pc' = [pc EXCEPT ![r] = phase]
Answer(r, answer) == Goto(r, answer) /\ checked' = [checked EXCEPT ![r] = {}]

-----------------------------------------------------------------------------
(* A request arrives; its user has a row, and its budget once had one.     *)

Call(r) ==
    /\ pc[r] = "idle" /\ Goto(r, "called")
    /\ \E q \in Askable :
          /\ q.kind # "create" /\ q.user \in users
          /\ \A b \in {q.budget} \cup q.from : status[b] # "unborn"
          /\ asked' = [asked EXCEPT ![r] = q]
    /\ UNCHANGED <<tables, checked>>

\* CreateBudget: both of its rows in one transaction, and no check before it.
CreateBudget(r) ==
    /\ pc[r] = "idle" /\ Goto(r, "ok")
    /\ \E u \in users, b \in Budgets :
          /\ status[b] = "unborn" /\ status' = [status EXCEPT ![b] = "live"]
          /\ access' = access \cup {<<u, b>>}
          /\ asked' = [asked EXCEPT ![r] = Ask("create", u, b, u, {})]
    /\ UNCHANGED <<users, sources, entries, checked>>

-----------------------------------------------------------------------------
(* ensureBudgetAccess. *)

\* Mutant: the budget is looked up and its users are not.
BudgetExists(u, b) == Live(b)

HasAccess(u, b) == <<u, b>> \in access

Pass(r, b) == checked' = [checked EXCEPT ![r] = @ \cup {b}]

\* Mutant: a handler that forgets the check.
GoAhead(r) ==
    pc[r] = "called" /\ Goto(r, "allowed") /\ UNCHANGED <<tables, asked, checked>>

EnsureAccess(r) ==
    LET q == asked[r] IN
    /\ pc[r] = "called"
    /\ IF HasAccess(q.user, q.budget)
       THEN Goto(r, "allowed") /\ Pass(r, q.budget)
       ELSE Answer(r, "notfound")
    /\ UNCHANGED <<tables, asked>>

\* The loop of UpdateAutoBalanceConfig over the sources it was given.
EnsureSourceAccess(r) ==
    LET q == asked[r] IN
    /\ pc[r] = "allowed"
    /\ \E s \in q.from \ checked[r] :
          IF HasAccess(q.user, s)
          THEN Pass(r, s) /\ UNCHANGED pc
          ELSE Answer(r, "notfound")
    /\ UNCHANGED <<tables, asked>>

-----------------------------------------------------------------------------
(* What the checks were for. *)

Allowed(r, kind) == pc[r] = "allowed" /\ asked[r].kind = kind

\* UPDATE ... RETURNING finds no row of a deleted budget.
UpdateBudget(r) ==
    /\ Allowed(r, "update")
    /\ Answer(r, IF Live(asked[r].budget) THEN "ok" ELSE "notfound")
    /\ UNCHANGED <<tables, asked>>

\* A row that refers to the budgets bs: a foreign key fails, which
\* isForeignKeyError does not recognise, unless they are all there.
Refer(r, bs, insertion) ==
    IF \A b \in bs : Live(b)
    THEN insertion /\ Answer(r, "ok")
    ELSE UNCHANGED tables /\ Answer(r, "error")

\* CreateTransaction, for createTransaction and callAddTransaction.
CreateTransaction(r) ==
    LET b == asked[r].budget IN
    /\ Allowed(r, "entry")
    /\ Refer(r, {b}, /\ entries' = entries \cup {<<r, b>>}
                     /\ UNCHANGED <<users, status, access, sources>>)
    /\ UNCHANGED asked

\* AddBudgetShare: its two statements, each committed by itself.
GetOrCreateUser(r) ==
    /\ Allowed(r, "share") /\ Goto(r, "found")
    /\ users' = users \cup {asked[r].guest}
    /\ UNCHANGED <<status, access, sources, entries, asked, checked>>

\* Mutant: without the foreign keys of users_budgets.
ShareAnyway(r) ==
    LET q == asked[r] IN
    /\ pc[r] = "found" /\ q.kind = "share"
    /\ access' = access \cup {<<q.guest, q.budget>>} /\ Answer(r, "ok")
    /\ UNCHANGED <<users, status, sources, entries, asked>>

\* Mutant: without ON CONFLICT DO NOTHING.
ShareOnce(r) ==
    LET q == asked[r] IN
    /\ pc[r] = "found" /\ q.kind = "share"
    /\ IF Live(q.budget) /\ <<q.guest, q.budget>> \notin access
       THEN access' = access \cup {<<q.guest, q.budget>>} /\ Answer(r, "ok")
       ELSE UNCHANGED access /\ Answer(r, "error")
    /\ UNCHANGED <<users, status, sources, entries, asked>>

InsertShare(r) ==
    LET q == asked[r] IN
    /\ pc[r] = "found" /\ q.kind = "share"
    /\ Refer(r, {q.budget}, /\ access' = access \cup {<<q.guest, q.budget>>}
                            /\ UNCHANGED <<users, status, sources, entries>>)
    /\ UNCHANGED asked

\* RemoveBudgetShare: the user is looked up, then her row is removed.
FindGuest(r) ==
    /\ Allowed(r, "unshare")
    /\ IF asked[r].guest \in users
       THEN Goto(r, "found") /\ UNCHANGED checked
       ELSE Answer(r, "notfound")
    /\ UNCHANGED <<tables, asked>>

DeleteShare(r) ==
    LET q == asked[r] IN
    /\ pc[r] = "found" /\ q.kind = "unshare" /\ Answer(r, "ok")
    /\ access' = access \ {<<q.guest, q.budget>>}
    /\ UNCHANGED <<users, status, sources, entries, asked>>

TargetRows(b) == {p \in sources : p[1] = b}
SourceRows(b) == {p \in sources : p[2] = b}
BudgetOf(pairs, b) == {p \in pairs : p[2] = b}

\* The transaction of UpdateAutoBalanceConfig.
UpdateAutoBalanceConfig(r) ==
    LET q == asked[r] IN
    /\ Allowed(r, "config") /\ q.from \subseteq checked[r]
    /\ \/ ~Live(q.budget) /\ Answer(r, "notfound") /\ UNCHANGED tables
       \/ /\ Live(q.budget)
          /\ Refer(r, q.from,
                   /\ sources' = (sources \ TargetRows(q.budget)) \cup ({q.budget} \X q.from)
                   /\ UNCHANGED <<users, status, access, entries>>)
    /\ UNCHANGED asked

\* What DELETE FROM budgets removes with it; "deleted" is a row that is gone.
Erase(b) ==
    /\ status' = [status EXCEPT ![b] = "deleted"]
    /\ access' = access \ BudgetOf(access, b)
    /\ sources' = sources \ (TargetRows(b) \cup SourceRows(b))
    /\ entries' = entries \ BudgetOf(entries, b)
    /\ UNCHANGED users

\* Mutant: RowsAffected is not looked at.
DeleteAgain(r) ==
    Allowed(r, "delete") /\ Erase(asked[r].budget) /\ Answer(r, "ok") /\ UNCHANGED asked

DeleteBudget(r) ==
    /\ Allowed(r, "delete")
    /\ IF Live(asked[r].budget)
       THEN Erase(asked[r].budget) /\ Answer(r, "ok")
       ELSE UNCHANGED tables /\ Answer(r, "notfound")
    /\ UNCHANGED asked

-----------------------------------------------------------------------------

\* A statement fails, or the request is cancelled before its next one.
Fail(r) == pc[r] \in Under /\ Answer(r, "cut") /\ UNCHANGED <<tables, asked>>

\* The budgets a request needs access to.
Needs(q) == IF q.kind = "create" THEN {} ELSE {q.budget} \cup q.from

Refusable(r) ==
    \/ \E b \in Needs(asked[r]) : <<asked[r].user, b>> \notin access
    \/ asked[r].kind = "unshare" /\ asked[r].guest \notin users

\* History: there was a moment in the request at which it could be refused.
Watch == refusable' = [r \in Requests |-> refusable[r] \/ (pc'[r] \in Under /\ Refusable(r)')]

Step(r) ==
    \/ Call(r) \/ CreateBudget(r)
    \/ EnsureAccess(r) \/ EnsureSourceAccess(r)
    \/ UpdateBudget(r) \/ CreateTransaction(r)
    \/ GetOrCreateUser(r) \/ InsertShare(r)
    \/ FindGuest(r) \/ DeleteShare(r)
    \/ UpdateAutoBalanceConfig(r) \/ DeleteBudget(r)
    \/ Fail(r)

Next == \E r \in Requests : Step(r) /\ Watch

Spec == Init /\ [][Next]_vars

-----------------------------------------------------------------------------
(* Properties.                                                             *)

\* Types; and a request is at its statements exactly when the check of its budget
\* is behind it, together with none that it does not need.
TypeOK ==
    /\ users \subseteq Users /\ status \in [Budgets -> {"unborn", "live", "deleted"}]
    /\ access \subseteq Users \X Budgets /\ sources \subseteq Budgets \X Budgets
    /\ entries \subseteq Requests \X Budgets
    /\ pc \in [Requests -> {"idle"} \cup Under \cup Answers]
    /\ asked \in [Requests -> Askable \cup {Nothing}]
    /\ checked \in [Requests -> SUBSET Budgets]
    /\ refusable \in [Requests -> BOOLEAN]
    /\ \A r \in Requests :
          IF pc[r] \in {"allowed", "found"}
          THEN asked[r].budget \in checked[r] /\ checked[r] \subseteq Needs(asked[r])
          ELSE checked[r] = {}

\* Whatever requests a deletion overtakes, no share, entry or source row is left
\* of a budget that is gone, and every share is one of a user who is there.
RowsLive ==
    /\ \A p \in access : p[1] \in users /\ Live(p[2])
    /\ \A p \in sources : p[1] # p[2] /\ Live(p[1]) /\ Live(p[2])
    /\ \A p \in entries : Live(p[2])

\* The answers that handlers give to an overtaken request: 404 means that at some
\* moment of the request its user was not one of a budget's, or the guest was
\* unknown; 500, unless something failed, that a budget was deleted under it.
AnswersHaveReason ==
    \A r \in Requests :
        /\ pc[r] = "notfound" => refusable[r]
        /\ pc[r] = "error" =>
              refusable[r] /\ \E b \in Needs(asked[r]) : status[b] = "deleted"

\* Of the requests to delete a budget one is told that it did: RowsAffected in
\* DeleteBudget tells the others that they were late.
OneDelete ==
    \A r, q \in Requests :
        /\ pc[r] = "ok" /\ asked[r].kind = "delete"
        /\ pc[q] = "ok" /\ asked[q].kind = "delete"
        /\ asked[r].budget = asked[q].budget
        => r = q

\* The last user of a budget may leave it, and once no request is left that passed
\* its check before, no request passes it any more: the budget gets no user, no
\* entry and no source row again and is never deleted, though it is still paid
\* and may still cover others.
Abandoned(b) ==
    /\ Live(b) /\ BudgetOf(access, b) = {}
    /\ \A r \in Requests : b \notin checked[r]
AbandonedForGood ==
    [][\A b \in Budgets : Abandoned(b) =>
          /\ Abandoned(b)' /\ BudgetOf(entries', b) = BudgetOf(entries, b)
          /\ TargetRows(b)' \subseteq TargetRows(b)
          /\ SourceRows(b)' \subseteq SourceRows(b)]_vars

\* A check that was passed is a decision that can still take effect; with that,
\* every statement of every request is a step of Membership: users, sources and
\* ends of budgets are decided by their users, as of a moment of the request.
Standing == UNION {{asked[r].user} \X checked[r] : r \in {r \in Requests : checked[r] # {}}}
Promise == INSTANCE Membership WITH members <- access, entitled <- access \cup Standing
ImplementsMembership == Promise!Spec

=============================================================================
