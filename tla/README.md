# My Personal Budget: specifications, model checks and proofs

TLA+ models of the Go service under `internal/` - its database transactions, the
payroll scheduler, sign-in, API keys - and of the pages under `frontend/`, with
TLC runs on small instances and TLAPS proofs for all values of the constants. Every
definition that stands for code is listed with its lines in `PROJECT.json` ("map").

## 1. The system

| Component | Where | State | Operations | What makes it correct |
|---|---|---|---|---|
| Payroll runs | `store.go` 772-909 | `budgets`, `transacts`; per call a transaction, its row locks, the `payrollBudget` copies | `RunMonthlyPayroll`, `RunBudgetPayroll` | one unforced credit per budget and month; `payroll_run_at` names credited months; all or nothing |
| Auto-balance | `store.go` 234-291, 911-983 | `budget_auto_balance_sources`, pending entries | `applyAutoBalanceTx`, `UpdateAutoBalanceConfig` | what sources lose the target gets; a deficit is covered once; references stay intact |
| Allocation | `store.go` 985-1032 | loop variables | `allocateWeightedCents` | exhaustive, within one cent, monotone in the weight, ends |
| Scheduler | `scheduler.go`, `cmd/api/main.go` | timer, attempt, context | `run`, `runWithRetry` | every month gets a run, none two credits; a cancel ends it |
| CRUD | `store.go`, `api.go`, `mcp.go` | `budgets`, `transacts` | create, update, delete, list, page | pages partition the entries; writes race safely with runs |
| Sharing | `store.go` 525-582, 746-756 | `users_budgets` | add, remove, `ensureBudgetAccess` | only users of a budget decide about it, as of some moment of their request; no row outlives its budget |
| Passkeys | `internal/passkey`, `api.go` 154-406 | challenges and sessions in memory, `passkeys` | begin and finish of two ceremonies | a challenge is used once, the session is the one of the ceremony |
| Keys and tokens | `internal/auth`, `server/middleware`, `APIKeys.tsx` | `api_keys`, signing secret, the list of the page | create, revoke, authenticate | a key whose revocation was confirmed opens nothing, one that is there is refused only if its look-up fails |
| Dashboard | `frontend/src/pages/Dashboard.tsx` | the list of its last reload, open dialog and form, pending mutations | transfer, balance wizard, itemised receipt, deletion; settings, shares, paged entries | money is neither made nor lost; what is shown follows the server and never goes back; a save sends what the user saw |
| Browser session | `frontend/src/api/client.ts`, `App.tsx`, `Layout.tsx` | token in `localStorage`, per window its location and two flags | request, 401 handling, routes, storage events, sign-in, logout | a valid token is not given up by accident; every window ends where its token says |
| Migrations | `internal/database` | schema | connect with retries, apply | idempotent |

How they interact: the scheduler goroutine and the HTTP handlers call the store
concurrently, from any number of processes; they share nothing but the
database, so the interleavings that matter are those of SQL statements. The
handlers and the scheduler pass `time.Now()` to the store; the database has a
clock of its own (`NOW()`). The front end issues several requests per user
action and has no transaction around them.

What is hard in it: concurrent runs over the same rows, lock cycles through
foreign keys, two clocks at the turn of a month, a commit whose answer is lost,
a batch that fails half way, the retry loop at the end of a month, the rounding
of shares, sign-in ceremonies that overlap or straddle a restart, dialogs that
post several entries of which one fails, reloads that overlap writes, a form that is
filled while the user edits it, pages read one by one from a table that changes, and
windows that share one token. `PROJECT.json` lists the hazards one by one ("hazards").

## 2. Plan

Done: 1. `LargestRemainder`, `Allocation`, `SumLemmas`, `AllocationProofs`; 2. `Payroll`, `MCPayroll`,
`PayrollProofs`; 3. `MonthlyCredit`, `Ledger`; 4. `Scheduler`, `MCScheduler`,
`SchedulerProofs`; 5. `KeyBook`, `Passkeys`, `MCPasskeys`, `PasskeysProofs`;
6. `Dashboard`, `MCDashboard`, `DashboardProofs`; 7. `Membership`, `Sharing`,
`MCSharing`, `SharingProofs`; 8. `QueryCache`, `Settings`, `Shares`, `Entries`,
`ApiKeys`, `Session`, `MCWindow`, with `WindowProofs`.

Left open:

9. `Ledger` does not say how a deficit is divided over the sources: a run divides by the
   weights it reads when it covers, and by its commit a source of zero share may be
   deleted or an entry of the target edited. A division as of the commit would need
   those two cases as exceptions.
10. A run of `Payroll` with `MaxSkew > 0`: which drift of the two clocks keeps
   `OncePerMonth`. The theorems that assume no `OneClock` hold for any.

`MonthlyCredit` is implemented by `Payroll` and by `Scheduler`, `Ledger` by `Payroll`,
`KeyBook` by `Passkeys`, `Membership` by `Sharing`. `Dashboard` and the modules of step 8 meet the
server through its answers; other users, other windows and payroll are the writers of
`OthersWrite`, `OthersStore`, `OthersShare`, `OthersChangeKeys`, `OthersWriteEntry`.

## 3. Modules

| Module | Contents |
|---|---|
| `LargestRemainder` | `Shares(total, w)`: the set of results `allocateWeightedCents` may return |
| `Allocation` | the loop itself, one action per turn, compared with `Shares` |
| `SumLemmas` | what a sum over a function and a fold over a sequence compute, with the inductions they need; lemmas on integer division; used by five of the modules of proofs |
| `AllocationProofs` | the proofs about `Allocation` and `Shares` |
| `MonthlyCredit` | the abstract promise: a budget is credited for a month that has begun, at most once |
| `Ledger` | the abstract store: every operation of payroll and users one step on the committed tables |
| `Payroll` | payroll and configuration transactions statement by statement, row locks, other writers, clocks |
| `MCPayroll`, `MCScenes` | small databases for TLC; two of them as the scenes of one run |
| `PayrollProofs` | the proofs about `Payroll` |
| `Scheduler` | goroutine, timers, retries, process life |
| `MCScheduler` | the code's delays in seconds |
| `SchedulerProofs` | the proofs about `Scheduler` |
| `KeyBook` | the abstract promise: one credential per e-mail, the first stays, entry only with it |
| `Passkeys` | registration and login ceremonies through page, handlers, sessions and tables |
| `MCPasskeys` | its symmetries |
| `PasskeysProofs` | the proofs about `Passkeys` |
| `Dashboard` | one window: the list and its reloads, dialogs of several requests, deletion |
| `MCDashboard` | three budgets and the forms a user fills in |
| `DashboardProofs` | the proofs about `Dashboard` |
| `Membership` | the abstract promise: a budget's users, sources and end are decided by those entitled to |
| `Sharing` | access checks and the statements behind them, for overlapping requests |
| `MCSharing` | its small databases |
| `SharingProofs` | the proofs about `Sharing` |
| `QueryCache` | a query of react-query: its data, its request, and what happens to both |
| `Settings` | the settings dialog: a form filled by effects, a save of two requests |
| `Shares` | the shares in the dialog and the two mutations of them |
| `Entries` | a budget's entries, page by page, over `LIMIT` and `OFFSET` |
| `ApiKeys` | the page of API keys, the table, and calls that a key authenticates |
| `Session` | the stored token, routes and redirects of several windows, late answers, sign-in |
| `MCWindow` | the last five on small instances, side by side |
| `WindowProofs` | the proofs about `MCWindow` and its five parts |

### Payroll

A caller is the scheduler or a request in flight. `pc` follows its transaction:
`called` (the argument `now` exists, the transaction does not), `open`, `batch`
(its locking `SELECT` and the loop over the rows), `moving` (the debits of
`applyAutoBalanceTx` for the budget `cur`), `linking` (the inserts of
`UpdateAutoBalanceConfig`). `todo` are rows still to lock, `seen` the
`payrollBudget` copies, `due` and `paid` the loop over `pending`, `delta` the
transaction's own uncommitted entries. Statements on rows that the transaction
already holds are one action with their neighbour (`Pay`, `CommitConfig`);
statements that may wait, fail or be overtaken are actions of their own. An
error, a timeout, a cancelled request and a lost connection are all `Abort`: the
deferred `Rollback`.

PostgreSQL is external and modelled by what the code uses: READ COMMITTED with
the re-evaluation of the `WHERE` clause after a lock wait, the four row-lock
strengths (of which `Conflict` is the table), foreign keys checked under
`KEY SHARE`, `NOW()` as the beginning of the transaction, deadlock detection.
`DeleteBudget` is one action: its first three statements show nothing before its
commit, its last needs the lock of the row, and the cascade takes what came in
between. Rows are locked in any order, which covers every plan of the `SELECT`.

Time is the month. `monthStart` comparisons see nothing else; the days of a
month make no difference to any statement. Amounts are integers in fractions
of a cent (`UnitsPerCent`), so that the rounding of a deficit is the code's and
not the identity. `float64` is exact on the sums that occur: the quotient in
`allocateWeightedCents` is one correctly rounded division of integers, and below
2^52 its floor and the order of two different remainders are those of the exact
quotients; equal ones may be ordered either way, which `Shares` allows.

`unforced` and `paidFor` are history variables: credits by runs that do not
force, and months credited by any run.

`Ledger` has the two clocks and the tables and nothing else: no callers, locks, copies
or pending entries. A run pays budgets that are there and due in the state of its
commit, stamps them, and adds whole cents to the balances that sum up to nothing, come
from sources these tables name and reach budgets it pays; a configuration request
finds all its sources there. Its refinement mapping is the identity on the tables: a
call, a lock, a debit or an abort of `Payroll` is a stutter, a commit is one step.

### Scheduler

`phase` is the place in `run` and `runWithRetry`; `alarm` is when its timer fires
or its context expires. Time is discrete; it does not pass while a timer is
due, a context has expired or a `select` has a cancelled context to return: the
goroutine's reaction time is taken for zero, its waits are not. The run of the
store is reduced to one budget and to the statements that matter here: `Begin`
(which fixes the stamp), `Commit` (which tests and sets `payroll_run_at`), and
an answer that may be lost after the commit. `RequestedRun` is a payroll request
of a user. `Die` ends the process at any moment, as `main` does when it returns
without waiting for the goroutine.

### Passkeys

A ceremony is one pass through `Register.tsx` or `Login.tsx`; `pc` is where it is,
in the handler (`begun`, `clear`, `consumed`, `verified`) or at the client (`asked`,
`made`, `signed`). Every statement of the store and every use of the challenge store
is an action, so that the check of `GetPasskeyByUser` and the insert of
`CreatePasskey` come apart, and so do the reading of a sign count and its update. A
registration names the challenge of its begin and the credential that the
authenticator makes for it: no two ceremonies share either. The session of an e-mail
is the last one saved (`SaveRegistrationSession` overwrites). `GiveUp` is an error, a
closed page or a cancelled prompt; `Restart` empties the sessions and ends the
requests that are being served, while those at the client go on to meet a server
that does not know them. `go-webauthn` is external: it compares the challenge with
the session's, looks for the credential among those of the loaded user and keeps
the larger of two sign counts. `disturbed` is a history variable: ceremonies whose
session may have been taken, sign-ins whose count another one has overtaken.

### Dashboard

`table` are the balances at the server, `shown` the list of the window, each with
the `version` it is of. A reload is asked for, read at the server and delivered in
three steps, so that writes come in between; `Invalidate` discards the one under
way, `Refocus` starts one only if there is none, a failed one is repeated twice
(`main.tsx`). `Submit` turns the form into a plan with the list as it is *shown*,
`Post` sends its requests one after the other, `PostFails` and `PostAnswerLost` end
it and leave the dialog and the form as they are; `Succeed` closes the dialog and
invalidates. `Show` includes the effects that run on `[budgets]`: picks whose sign
has changed and lines whose budget is gone are dropped. `StartDelete` is `onMutate`:
cancel, keep the list, cut it. What happens to a request between client and
server is one action with its answer, because the window does nothing with it
meanwhile; other writers may come between any two.

Amounts are whole cents: the inputs step by `0.01`, and `round2` brings every sum
back to cents, which `float64` keeps exact in this range. `FormType` are the values that the inputs let through.
`Filter` and `InListOrder` (of the window's list, which the server orders by id) are
`SelectSeq` and `SetToSortSeq` in a form that the prover can expand. `plan`, `posted`,
`exact` and `awaited` are history variables.

### Sharing

A request is in `called` until `ensureBudgetAccess` has answered, in `allowed` at the
statements behind it, in `found` between the two statements of `AddBudgetShare` and
of `RemoveBudgetShare`, and ends as its answer: `ok` (2xx), `notfound` (404), `error`
(500 of a statement that a foreign key refused), `cut` (any failure or
cancellation, at any statement). `checked` are the budgets whose check it has
passed: the route's, and one by one the sources of a configuration. Every statement
commits by itself; the transactions of `CreateBudget`, `DeleteBudget` and
`UpdateAutoBalanceConfig` are one action each, since their steps show nothing before
the commit and a writer that waits for their locks acts after it. Those locks,
weights and amounts are in `Payroll`. Requests that name no valid JSON, e-mail or
amount are answered before the store is called and left out; so are reads. The
signing secret is taken to be set, as without it no request has a user and no
access is checked. `refusable` is a history variable: at some moment of the request
its user lacked access to a budget it needs, or the guest to be removed was unknown.

`Membership` says what is left of atomicity when a check and its statement come
apart: `entitled` are the users of a budget and the decisions under way. Its image in
`Sharing` is `access` with the checks that requests have passed.

### Settings, Shares, Entries: the other queries of the dashboard

`QueryCache` says what these pages rely on in react-query, which is external: a query
is asked, answered at the server and delivered in three steps; showing it or focusing
the window joins a request under way; `invalidateQueries` discards one, unless it is
the first; data nobody shows are asked again when they are next shown; a request is
repeated twice (`main.tsx`). The history `behind` tells whether the window could know
of every write since its data were asked for; `Current` claims nothing otherwise.

`Settings`: `form` is what the dialog holds, `list` and `config[b]` the two queries it
is filled from. `FillFromList` and `FillFromConfig` are the three effects, and run
with the step that changes what they depend on; `touched` is a history of what the
user has changed since. The form knows of a source only whether it is picked, so
that a weight other than 1 is lost in a save; `Known` excepts it, and sources this
user cannot see. `SaveSettings` takes the form as it is; `BasicsStored` and
`BalanceStored` are its two requests, each with its access check, `SaveFails` any
failure before, between or after them. A name and a payroll are one value (`Basics`),
since effects, form and request treat them alike. `RunPayroll` is its request and
answer at once: the dialog does nothing with it but reload the list.

`Shares`: `posts` are the requests of the two mutations. The form waits for its last
one; the cross of a share waits for nothing, so that any number of removals may be
under way. A mutation follows only its last request (`current`): at each rendering that
one gets the new `onSuccess`, with the `settingsBudget` of the moment (`Rerendered`). A
request that another one followed, or whose page was left (`LeaveDashboard`), keeps the
closure it had, and the budget in it (`dialog`). `KnownWritten` reloads the shares of
that budget if its dialog is open; what was written while another dialog was open is
reloaded when it is next shown (`staleTime` is 0). `strayed` is a history: such an old
request was sent from the dialog that is open now, and its answer has reloaded the
shares of another budget. Removing a share that is gone already is a success.

`Entries`: `Answers` are the rows that `ORDER BY created_at DESC LIMIT .. OFFSET ..` may
return at this moment; equal times may come in any order in each query. `fetch` is
a reload, which reads as many pages as were shown, one after the other, or the next
page. `among` remembers in a page what the table was when it was read. A panel that
opens shows the pages from before: `removeQueries` with `exact: true` and a key of two
parts finds none of the queries, whose keys have three. The search text is left out:
it makes a query of its own.

### ApiKeys

A key stands for its id, token and hash. `making` and `revoking` are the
requests under way; which key a request makes is chosen when it is sent, and never
chosen twice (32 random bytes). The buttons wait for the request of the page that is
shown; a page that is mounted anew knows nothing of the requests of the one before,
and may send another (`current`, `Free`). `calls` go to `/mcp` and look the key up once
(`Authenticate`); a call under way at a revocation is served, and one whose look-up
fails is refused like one without a key (`erred`). A token is shown only by the page
that asked for it (`KeyMade`). `last_used_at`, which the look-up writes, takes part in
nothing.

### Session

`at` is a window's location, `shown` what is rendered of it. A navigation changes the
first; `Commit` renders, runs the effects of `Layout` and `App` on `location.pathname`
and the `Navigate` of the page, if it has one. `stored` belongs to all windows: `Store`
gives every other one a storage event (`news`) when the value changes. A request
carries the token of the moment it is sent; its answer may come after any number of
other steps, and a 401 clears whatever is stored by then (`Unauthorized`: `clearToken`
and `onUnauthorized`, which navigates at once, so that `window.location.replace` is
not reached). `Load` is a page load and drops everything the window was doing. A
sign-in is seen from the window: prompt, request, token or refusal; what the server
does with it is in `Passkeys`. A window has one sign-in at a time, and the user
clicks only on what has settled; requests of a page that is gone go on.

In `Window.cfg` there is no `VITE_API_TOKEN` (`EnvToken`); the proofs are for any. With
one that the server rejects, `hasAuthToken` stays true after every 401, and the pages
redirect for ever: such a build is not one that can be used.

## 4. Runs

| Run | Checks | Instance |
|---|---|---|
| `allocation` | result in `Shares`; `FairShares` (exhaustive, within a cent, monotone in the weight); ends | 3 sources, weights 0..4, 0..7 cents: all ties, wrap-arounds and zero weights of three sources occur |
| `payroll_runs` | types and clean ends, `OncePerMonth`, `RunAtMeansPaid`, implements `MonthlyCredit`, `RunsEnd` | two scenes, 2 months that turn before and inside monthly transactions. Alone: 1 budget, there or created, 2 monthly callers of which one calls twice, 1 forced, 1 user write. Mutual: 2 budgets covering each other; monthly, forced and configuration call |
| `payroll_ledger` | implements `Ledger`, `RefsLive`, `CoverStaysTrue`, `NoOverCover` | 3 budgets, a shared source and a deficit of half a cent; monthly, forced and configuration call; 1 user write of any kind. A second table holds one budget only, so that the others are created during the calls |
| `scheduler_loop` | types, `CalmMonthPaid`, implements `MonthlyCredit`, `CancelEndsLoop` | the code's delays in seconds, 3 months of 32 s |
| `passkeys` | types, `SessionSingleUse`, `RefusalHasReason`, `CountFallsOnlyOvertaken`, implements `KeyBook` | 3 registrations, 2 e-mails, 2 logins, 1 restart, authenticators that count to 2 |
| `dashboard` | types, `PlansAddUp`, `WizardSettles`, `ShownNeverGoesBack`, `CatchesUp` | 3 budgets (-3, -1 and 4 cents); a transfer, a credit, 2 picks of the wizard and a receipt; 2 clicks, 1 failed request, 1 other write, 1 focus, 2 failed reloads |
| `sharing` | types and passed checks, `RowsLive`, `AnswersHaveReason`, `OneDelete`, `AbandonedForGood`, implements `Membership` | 3 requests of any kind, 2 users, 2 budgets; both users with both budgets, or one covered from the other, or a single user and a budget to be created |
| `window` | types; `ShownIsCurrent`, `SaveKeepsTheRest`, `SuccessMeansStored`, `PagesExact`, `RevokedStaysOut`, `TokenKept`, `SessionSettles` | one part at a time. Settings: 2 budgets, 4 clicks, 1 failure or write of others. Shares: 2 budgets, 1 e-mail, 5 clicks, 1 trouble. Keys: 3 with one prefix, 2 of them the user's, 5 clicks, 1 trouble, 1 call. Entries: up to 5 in pages of 2, two with the same time, 4 clicks, 1 trouble. Session: 2 windows, 2 tokens, 3 clicks, 1 expiry or error |
| `payroll_lost_month`, `payroll_paid_twice`, `scheduler_skips_month` | find the first three violations below | |
| `dashboard_transfer_twice` | finds the fourth | one dialog, 2 clicks, 1 failed request, nobody else writing |

Why the bounds are enough. Two callers of a kind exhibit every race of the
payroll code, which never looks at who else runs; a second call gives the retry
after a lost answer. Locks are per row, so a cycle needs two budgets and a
shared source three. One user write suffices to overtake a run at any of its
steps. Deadlocks of the models are not checked where the bounds on calls and
writes end every behaviour (`CHECK_DEADLOCK FALSE`); waiting forever is what
`RunsEnd` excludes. A month of 32 s leaves the scheduler more than its slowest
way to a run (28 s: the 15 s delay, a ping of 3 s and a run of 10 s); the bound
in `CalmMonthPaid` is tight, 27 s is violated.

A third registration makes two rivals for one e-mail and a bystander of another.
A session lives from begin to finish, so that one restart can hit every ceremony in
each of its phases. Two clicks give the repetition after a failure and two dialogs
at once; with three budgets a debit of three cents is split over two of them, with
a cent left over.

Three requests are one that is overtaken, one that takes its user's access away and
one that gives it back, deletes the budget or is overtaken as well.

The parts of `window` share no state, and `MCWindow` adds up their state spaces instead
of multiplying them. Four clicks open the settings, edit, save, and leave a click for
what comes in between; a second budget is what a late answer can be mistaken for.
Five clicks open the shares of one budget, remove one, do the same with the other
budget and come back to the first, which is what it takes for an answer to stray; on
the page of keys they make a key, leave, come back and make another.
Five entries in pages of two give three pages, the last of them short, and one
trouble is an entry that is added or removed between two of them. With a second
window every sign-in, logout and 401 of one is a storage event for the other.

Fairness. `payroll_runs` assumes that a transaction that can go on does and that
PostgreSQL finds deadlocks: weak fairness of each caller's statements. It is
enough against lock waits because calls are bounded in the run, so nobody can be
overtaken for ever. Nothing is assumed of users, clocks, aborts.
`scheduler_loop` assumes that the goroutine is scheduled. `dashboard`
assumes that requests are answered, in one way or another; not that users do
anything, nor that reloads succeed: two of them may fail in a row, as many as
`main.tsx` repeats. After three failures in a row the list would stay as it is until
the next focus; no bound on failures would make that go away. `SessionSettles` assumes
that each window's browser goes on (`Proceed`): it renders, delivers storage events
and answers; nothing of the user, nor of tokens that expire.

### What the violations show

* `payroll_lost_month` - `now` is taken before the transaction begins and labels
  the credit, `NOW()` stamps it. A month that turns in between (a request or a
  scheduled run that waits for a connection) is stamped without a credit.
* `payroll_paid_twice` - a forced run that began before the turn of the month
  waits for the row while a monthly run credits the new month; its own stamp, the
  older `NOW()`, overwrites the newer and the next monthly run credits again.
* `scheduler_skips_month` - `next = nextMonthStart(time.Now())` after a run that
  straddles the turn is a month too late.

* `dashboard_transfer_twice` - the second request of a transfer fails; nothing undoes
  the first, the form stays and Save posts both again.

The balance wizard has the same cause to fail: after an error the list is not
reloaded, so that a second click plans on the balances from before and credits a
budget twice. `WizardSettles` is what the code does keep: a wizard that planned on the balances as
they were, and was not interrupted, brings its picks to zero.
`payroll_runs` passes with months that turn in other phases than the one each finding
needs (`TickDuring`).

Accepted by the code and recorded in `CoverStaysTrue`: changing or deleting an
existing entry takes no lock of its budget and may move a balance that a run has
just read. A run then covers the deficit that was, so that an edit that raises the
balance leaves the budget with a surplus: `NoOverCover` is for edits that do not, and
the entries edited in `payroll_ledger` lose half a cent (`Corrections`). Forced runs credit as often as they are called; that is their
purpose (`force = true` in `runBudgetPayroll`).

Accepted as well, and visible in `Sharing`: a request takes effect although its user
lost access after the check; access to the target and to each source of a
configuration is checked at different moments, so that nobody need ever have had
both at once, and the row stays when the source's share goes; a share for an unknown
e-mail creates its user even if the insert behind it fails; the last user of a
budget may leave it, after which `AbandonedForGood` holds of it while it is still
paid each month. A budget deleted between the check and an insert is answered 500:
`isForeignKeyError` looks for "foreign key violation" (`store.go` 758-761), while
PostgreSQL's message says "violates foreign key constraint", so that
`CreateTransaction` never turns it into the 404 it has a branch for.

And in the pages, as the exceptions in the properties of `window`:

* a 401 clears the token that is stored when it comes, also one obtained since the
  request was sent, and signs every window out (`TokenGivenUp`);
* an answer that navigates while a redirect is being rendered may leave a window on
  the path it already shows: no effect runs, and the page stays blank or the bar
  wrong until it moves again (`crossed`);
* the query cache outlives a logout;
* "Load more" during a reload gives the reload up (`outdated`);
* entries that are added or removed between two pages, or have the same time, may be
  shown twice or not at all until the next reload (the premises of `PagesExact`);
* removals of shares that overlap, or a request whose page was left, may reload the
  shares of another budget than they wrote, so that the open dialog still lists a share
  that is gone until it is asked for again (`strayed`): the `onSuccess` of such a
  request names the budget whose dialog was open when it was overtaken;
* a call to `/mcp` is answered with a 401 whenever the look-up of its key fails, also by
  an error of the database (`api_key.go` 30-34): a client cannot tell that from a key
  that was revoked (`erred`);
* every reload of the list overwrites a name or payroll that is being typed; a save
  after the configuration could not be loaded sends it as switched off; a failed
  save leaves the first half stored and reloads nothing.

## 5. Proofs

`PayrollProofs` (assumptions: those named in `Payroll`, about constants only):

* `TypeCorrect` - `TypeOK`, inductive as it stands.
* `LockingCorrect` - `LockInv`, what locking guarantees: compatible locks, locked
  rows are live, rows in `due` and `paid` are held `FOR UPDATE`, pending entries
  are on held rows. Every other proof rests on it.
* `SeenIsCurrentCorrect`, `CoverStaysTrueCorrect` - from `LockInv`: whoever would
  change the row or add an entry needs a lock that conflicts. `SeenIsCurrent`, that the
  copies a run works on equal the rows, is what the ledger needs at the commit.
* `OncePerMonthCorrect`, `PayrollImplementsMonthlyCredit` - `OncePerMonth` is not
  inductive; `OnceInv` adds that clocks agree, that no `now`, stamp or
  `payroll_run_at` is in the future, that a monthly run's due rows are unpaid for
  its month, and that a credited month is not later than `payroll_run_at`.
  Assumed: `OneClock` (`MaxSkew = 0`) and `ForcedInOneMonth` (no month turns in a
  forced transaction), which `payroll_paid_twice` shows to be necessary.
* `RunAtMeansPaidCorrect` - assumed: `OneClock` and `NoTurnBeforeBegin`, which
  `payroll_lost_month` shows to be necessary.
* `RefsLiveCorrect` - `RefInv`: a source row is never its target's own, and a
  configuration request holds every row it has inserted a reference to
  (`SourcesHeld`), so that a delete waits for it and cascades over what it committed;
  for the entries, `LockInv` is enough.
* `NoCentLostCorrect` - `NoCentLost`: what a transaction has taken from its sources is
  on the targets or on the way to the current one. Every statement changes `delta` at
  one budget and `moved` by as much (`SumOfRaised`).
* `PayrollImplementsLedger`, for any constants, clocks that drift included. `RunInv` is
  what a run may still rely on when it commits: its rows are payable by the tables as
  they are by then, since it holds them `FOR UPDATE`; the rows of a forced run are its
  target; `now` is at most `MaxSkew` months after the stamp. `MovesInv` is about the
  pending entries: whole cents, raising only budgets paid by then, lowering only budgets
  that are a source of one of them. That a source is still named at the commit rests on
  the lock of the target's row (`RowKept`: nobody else changes its source rows, but for
  those of a source that is deleted) and on the foreign key lock of each debited source,
  which keeps it from being deleted. With `NoCentLost` the entries add up to nothing.
* `NoOverCoverCorrect` - `CoverInv`: what the current target has and is still to get is at
  most half a cent above zero, by the rounding of the deficit (`RoundedDeficit`) and
  because the shares add up to it (`SharesOfSources`). Assumed: `EditsOnlyLower`, edits do
  not raise a balance. Nothing in the code prevents that they do, see "What the
  violations show".

`AllocationProofs`: `ReturnsSharesCorrect` and `FairSharesCorrect`. Remainders are below
the total weight and add up to that many times the cents left over, so that fewer cents
are left than there are sources with a remainder (`LeftoverBound`). Hence the hand-out
loop ends before it would start again from the first source (`LoopInv`, `StepHand`), and
a source that comes out even gets nothing (`SharesAreFair`). Nothing is assumed but that
the sources are the indices of a finite slice; the bounds of the run play no part.

`SumLemmas`: the community modules define a sum by a recursive function over the subsets
of the domain. The library's induction theorems with an operator parameter cannot be
used, so induction is stated with a set in place of the predicate (`SubsetInduction`,
from the well-foundedness of the strict subsets), which needs first-order facts only.
What a fold over a sequence returns is read off a table of the folds of its prefixes
(`StepTableExists`, `StepsOfPrefixes`); the rows of pages, the totals of requests and
the filtered lists are such folds.

`SchedulerProofs`: `SchedulerTypeCorrect`, and
`SchedulerImplementsMonthlyCredit` with `StampedInv` (`now` is not later than the
stamp, credited months not later than `payroll_run_at`), for any delays and any
length of the month, with the turn of the month allowed anywhere. Integer
division needs lemmas of its own (`Multiples`, `Quotient`, `Division`). `CalmMonthsPaid`
rests on `OnTime`: in every phase the calm time so far and what the alarm still leaves
add up to no more than the way to this point may take, unless the month has its credit
and the alarm is the start of the next; and on `ThisMonth`, what a run in progress is
for. Assumed: no backoff is longer than the warm-up or the retry delay, and no month
turns during a run (`TurnDuring = {}`), which `scheduler_skips_month` shows to be
necessary.

`PasskeysProofs`: `PasskeysTypeCorrect`, where the stored counts are bounded by the
authenticators' only because a login's own count is (`CountReached`); and
`PasskeysImplementKeyBook`, with `Started` (what a ceremony knows in each phase),
`Owned` (a stored credential is stored for the e-mail it was made for, hence no two
rows share one) and `EnteredStored` (who is in, or about to be, has a stored
credential); and `SessionsUsedOnce`, with `Single`: a session that waits belongs to a
registration that asked for it and is in nobody's hands, so that consuming it is the
first time. `RefusalsHaveReasons` rests on `Kept`: the session of an undisturbed ceremony
waits for its finish, which takes that one, and its user stays;
`CountsFallOnlyOvertaken` on `Ahead`: the row of a verified sign-in has not passed the
count it will write. Nothing is assumed but `CeremonyAssumption`.

`SharingProofs`: `SharingTypes`, `SharesOfLiveBudgets`, `DeletedOnce`,
`ReasonedAnswers`, `AbandonedStays` and `SharingImplementsMembership`, so every
property of the run. The invariant adds to them `Known` (what a request asks for once
existed), `Gone` (the budget of a confirmed deletion is deleted, which is why there
is only one) and `Watched` (whoever could be refused now is on record); with
`RowsLive` a budget that is missing behind a passed check was deleted during the
request (`LateIsRefusable`). `AbandonedStays` and the refinement rest on
`ChecksEarned`: a check is passed only by a user with access. Nothing is assumed but
`TablesAssumption`.

`DashboardProofs`:

* `ShownNeverGoesBackCorrect`, with `Ahead`: there is at most one reload, and an answer
  it carries is not older than the list that is shown. It holds because every write of
  the window discards the reload under way.
* `DashboardTypeCorrect`, with `DashboardInv`: lists are of rows with integers, the form
  is of the open dialog, what waits are requests of a budget and an amount other than
  zero.
* `PlansAddUpCorrect`: the even parts of a total make it up (`SplitAddsUp`), leaving out
  those of zero does not matter (`DueIsKept`), and the lines of a receipt with the rest
  from the catch-all budget are its total (`ReceiptPlanned`).
* `WizardSettlesCorrect`, with `Settling`: the requests of an exact wizard that wait are a
  suffix of its plan; each budget it credits occurs in the plan once, and is at zero if
  its request has been posted and at minus its amount if not. A writer in between, or a
  list that was not the server's, ends `exact`.

Assumed, in `DashboardAssumption`: there are finitely many budgets, and what a user fills
in is of `FormType`.

`WindowProofs` proves of each of the five parts what the run checks, and puts the parts
together: in `WindowInv` every part keeps its own invariant while another one steps.

* Types: `KeysTypeCorrect` and `SessionTypeCorrect` by themselves, all of them in
  `WindowTypeCorrect`.
* Keys: `RevokedKeysStayOut`, with `KeysInv`: a key is made once and by one request, so
  that a row that is gone never comes back; any number of revocations may be under way,
  and each is of a key that is gone once it is stored. Refusals are about the table only
  where the look-up did not fail.
* Session: `ValidTokenIsKept`, which rests on `TokensGiven` (a token in the storage or in
  a request was once made, and one that was answered with a 401 is not accepted any
  more) and `GrantsGiven`: since tokens are made once, none becomes valid again.
* Settings: `SavedIsStored`, with `Halfway` (between the two requests the first half is
  stored, unless somebody else has written the budget); `SavesKeepTheRest`, with
  `Filled`: the form of an open dialog, where neither the user nor the list has changed
  it since, holds what the window has of that budget.
* Entries: `PagesAreExact`. By `Chain`, each page was asked for where the one before it
  ends. The rows of a page are the entries of its moment in order of time, so that an
  entry's place is the number of those in front of it; that number only grows with
  entries that are added and only falls with those that are removed. An induction over
  the pages counts the rows they have together (`RowsOfPrefixes`).
* `ShownStaysCurrent`, with `Fresh` for each query: what was answered and what is shown
  is what the server has, unless the query is marked as behind. Every write marks it or
  asks for it again before its page is quiet. Of the shares that holds except for
  `strayed` budgets, and only requests that are not the last of their mutation stray:
  the last one names the dialog that is open (`CurrentRendered`).

Assumed: the named assumptions of the five modules, about constants only, among them
that `NoData` and `NoPage` are no data and no page and that there are finitely many
entries.

Every invariant, refinement and action property of the passing runs is a theorem, under
the assumptions said above. Only model-checked is liveness (`Terminates`, `RunsEnd`,
`CancelEndsLoop`, `CatchesUp`, `SessionSettles`), which this prover does not do with
fairness. The runs that find violations check `RunAtMeansPaid`, `OncePerMonth` and
`CalmMonthPaid` where an assumption of their theorems does not hold, and
`TransferIsEven`, of which nothing is proved.

## 6. Not modelled

See "components" in `PROJECT.json`. Routing, CORS, the SPA fallback, environment
variables and markup keep no state. Descriptions of entries, names and
timestamps other than `payroll_run_at` take part in no decision of the modelled
code. Wall-clock adjustments are not in `Scheduler`; drift between the process
and the database is in `Payroll` (`MaxSkew`) and not used by a run yet. The
methods of `passkey/store.go` that only its tests call (`NewRegistrationChallenge`,
`ConsumeRegistration`, `NewAuthChallenge`, `ConsumeAuth`, `SaveAuthSession`,
`ConsumeAuthSession`) are not in `Passkeys`. Of the pages the filter of the list, the
search text (each text has a query of its own), the theme and the conversion of bytes are left out: values of
one window that no other step reads. Start-up (`internal/database`) connects with
retries and applies a script of `IF NOT EXISTS` statements before the server listens;
that two processes may start at once is between the script
and PostgreSQL. The tools of `mcp.go` call the store as the handlers do;
`ApiKeys` has their authentication, `Payroll` and `Sharing` their statements.
