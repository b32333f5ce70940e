----------------------------- MODULE Scheduler -----------------------------
(***************************************************************************)
(* The payroll scheduler (internal/payroll/scheduler.go): the goroutine    *)
(* `run` with its timer, the retries of runWithRetry with their backoffs   *)
(* and timeouts, and the process around it (cmd/api/main.go), which starts *)
(* it, cancels its context and may die at any moment.                      *)
(*                                                                         *)
(* RunMonthlyPayroll is taken for one budget, as Payroll shows it to be: a *)
(* transaction whose check and stamp of payroll_run_at take effect at its  *)
(* commit.  Time is an integer; a month is MonthLength units of it.  Timers*)
(* fire, and expired contexts are noticed, before time goes on.            *)
(***************************************************************************)
EXTENDS Integers, Sequences

CONSTANTS
    Warmup, RetryDelay,       \* 2 s and 15 s in the code
    Backoffs,                 \* <<0, 750 ms, 2 s>>
    PingTimeout, RunTimeout,  \* 3 s and 10 s
    MonthLength,
    TurnDuring,               \* the phases of a run in which a month may turn
    MaxTime                   \* bound

ASSUME DelaysAssumption ==
    /\ Warmup \in Nat /\ RetryDelay \in Nat \ {0}
    /\ PingTimeout \in Nat /\ RunTimeout \in Nat
    /\ Backoffs \in Seq(Nat) /\ Backoffs # << >> /\ Backoffs[1] = 0
    /\ \A i \in 2..Len(Backoffs) : Backoffs[i] > 0
ASSUME TimeAssumption ==
    /\ MonthLength \in Nat \ {0} /\ MaxTime \in Nat
    /\ TurnDuring \subseteq {"calling", "open", "committed"}

VARIABLES
    time,
    phase,    \* where the goroutine is; "down": there is no process
    alarm,    \* when its timer fires or its context expires
    attempt,  \* of runWithRetry, from 1
    ctxDone,  \* main has cancelled the context
    now,      \* the month of the argument `now` of the run in progress
    stamp,    \* the month of NOW() in its transaction
    runAt,    \* the month of payroll_run_at, 0 for NULL
    credits,  \* committed payroll credits, by month
    calm      \* time since the last failure, restart or turn of the month

process == <<ctxDone, calm>>
wait    == <<phase, alarm, attempt>>
run     == <<now, stamp>>
table   == <<runAt, credits>>
vars == <<time, wait, process, run, table>>

Month(t) == t \div MonthLength + 1
nextMonthStart(t) == Month(t) * MonthLength
Months == 1..Month(MaxTime)
RunPhases == {"calling", "open", "committed"}
Selecting == {"warmup", "waiting", "backoff"}

Init ==
    /\ time = 0
    /\ phase = "down" /\ alarm = 0 /\ attempt = 1 /\ ctxDone = FALSE
    /\ now = 0 /\ stamp = 0
    /\ runAt = 0 /\ credits = [m \in Months |-> 0]
    /\ calm = 0

WaitUntil(where, t) == phase' = where /\ alarm' = t
Disturbed == calm' = 0
NoRun == now' = 0 /\ stamp' = 0

-----------------------------------------------------------------------------
(* The process.                                                            *)

Start ==
    /\ phase = "down"
    /\ WaitUntil("warmup", time + Warmup)
    /\ ctxDone' = FALSE /\ attempt' = 1
    /\ Disturbed
    /\ UNCHANGED <<time, run, table>>

\* SIGINT or SIGTERM.
Cancel ==
    /\ phase # "down" /\ ~ctxDone
    /\ ctxDone' = TRUE
    /\ Disturbed
    /\ UNCHANGED <<time, wait, run, table>>

Exit ==
    /\ phase' = "down" /\ alarm' = time
    /\ attempt' = 1 /\ NoRun /\ ctxDone' = FALSE
    /\ Disturbed
    /\ UNCHANGED <<time, table>>

\* main returns without waiting for the goroutine, or the process crashes.
Die == phase # "down" /\ Exit

\* Mutant: the wait for the next month does not watch the context.
StopUnlessWaiting == ctxDone /\ phase \in Selecting \ {"waiting"} /\ Exit

\* The <-ctx.Done() case of the three selects.  Out of a backoff the error first
\* sets a new timer, which cannot have fired when the loop selects again.
Stop == ctxDone /\ phase \in Selecting /\ Exit

-----------------------------------------------------------------------------
(* run and runWithRetry.                                                   *)

TimerFires(where) == phase = where /\ time >= alarm

WarmedUp ==
    /\ TimerFires("warmup")
    /\ WaitUntil("waiting", time)
    /\ UNCHANGED <<time, attempt, process, run, table>>

Ping ==
    /\ \/ TimerFires("waiting") /\ attempt' = 1
       \/ TimerFires("backoff") /\ UNCHANGED attempt
    /\ WaitUntil("pinging", time + PingTimeout)
    /\ UNCHANGED <<time, process, run, table>>

\* time.Now() is evaluated for the call; the transaction begins later.
PingAnswered ==
    /\ phase = "pinging" /\ ~ctxDone
    /\ WaitUntil("calling", time + RunTimeout)
    /\ now' = Month(time)
    /\ UNCHANGED <<time, attempt, process, stamp, table>>

\* Mutant: a failed attempt waits for the next month.
NextMonth == WaitUntil("waiting", nextMonthStart(time)) /\ UNCHANGED attempt

GiveUp == WaitUntil("waiting", time + RetryDelay) /\ UNCHANGED attempt

\* Mutant: one attempt too many.
RetryOnceMore ==
    /\ attempt <= Len(Backoffs)
    /\ attempt' = attempt + 1
    /\ WaitUntil("backoff", time + Backoffs[attempt])

Retry ==
    /\ attempt < Len(Backoffs)
    /\ attempt' = attempt + 1
    /\ WaitUntil("backoff", time + Backoffs[attempt + 1])

PingFails ==
    /\ phase = "pinging"
    /\ Retry \/ (attempt = Len(Backoffs) /\ GiveUp)
    /\ Disturbed
    /\ UNCHANGED <<time, ctxDone, run, table>>

Begin ==
    /\ phase = "calling" /\ ~ctxDone
    /\ phase' = "open"
    /\ stamp' = Month(time)
    /\ UNCHANGED <<time, alarm, attempt, process, now, table>>

\* Mutant: the run does not look at payroll_run_at.
CreditAlways(m, s) == credits' = [credits EXCEPT ![m] = @ + 1] /\ runAt' = s

CreditOnce(m, s) ==
    IF runAt < m
    THEN /\ credits' = [credits EXCEPT ![m] = @ + 1]
         /\ runAt' = s
    ELSE UNCHANGED table

Commit ==
    /\ phase = "open"
    /\ phase' = "committed"
    /\ CreditOnce(now, stamp)
    /\ UNCHANGED <<time, alarm, attempt, process, run>>

RunSucceeds ==
    /\ phase = "committed"
    /\ WaitUntil("waiting", nextMonthStart(time))
    /\ NoRun
    /\ UNCHANGED <<time, attempt, process, table>>

\* Only a bad connection is tried again at once.  A run may report a failure
\* although its commit took effect.
RunFails(badConn) ==
    /\ phase \in RunPhases
    /\ \/ badConn /\ Retry
       \/ (~badConn \/ attempt = Len(Backoffs)) /\ GiveUp
    /\ NoRun /\ Disturbed
    /\ UNCHANGED <<time, ctxDone, table>>

-----------------------------------------------------------------------------
(* Its environment.                                                        *)

\* A POST /payroll/run, which comes before or after the run in progress.
RequestedRun ==
    /\ CreditOnce(Month(time), Month(time))
    /\ UNCHANGED <<time, wait, process, run>>

\* A unit of time passes when no timer is due, no context has expired, and no
\* select has a cancelled context to return.
Tick ==
    /\ time < MaxTime
    /\ phase # "down" => time < alarm
    /\ ~(ctxDone /\ phase \in Selecting)
    /\ phase \in RunPhases \ TurnDuring => Month(time + 1) = Month(time)
    /\ time' = time + 1
    /\ calm' = IF phase = "down" \/ ctxDone \/ Month(time') # Month(time)
               THEN 0 ELSE calm + 1
    /\ UNCHANGED <<wait, ctxDone, run, table>>

-----------------------------------------------------------------------------
\* A step of the goroutine.
Goroutine ==
    \/ Stop \/ WarmedUp \/ Ping \/ PingAnswered \/ PingFails
    \/ Begin \/ Commit \/ RunSucceeds
    \/ \E badConn \in BOOLEAN : RunFails(badConn)

Next == Start \/ Cancel \/ Die \/ Goroutine \/ RequestedRun \/ Tick

Spec == Init /\ [][Next]_vars

\* The goroutine is not left unscheduled for ever.
FairSpec == Spec /\ WF_vars(Goroutine)

-----------------------------------------------------------------------------
\* Types; there is a run's `now` exactly while there is a run.
TypeOK ==
    /\ time \in 0..MaxTime /\ alarm \in Nat /\ calm \in Nat
    /\ phase \in {"down", "pinging"} \cup Selecting \cup RunPhases
    /\ attempt \in 1..Len(Backoffs)
    /\ ctxDone \in BOOLEAN
    /\ now \in Months \cup {0} /\ stamp \in Months \cup {0}
    /\ runAt \in Months \cup {0} /\ credits \in [Months -> Nat]
    /\ now # 0 <=> phase \in RunPhases

\* "payroll transactions are created once per month": however often the process
\* restarts, an attempt is retried or an answer lost, a month that has begun is
\* credited at most once, and no other is.
Promise == INSTANCE MonthlyCredit WITH
    Budgets <- {1}, month <- Month(time), credits <- [b \in {1} |-> credits]
ImplementsMonthlyCredit == Promise!Spec

\* The other half of that promise: a month in which the process is up and
\* nothing fails for as long as the slowest way to a run takes (a full
\* retry delay, a ping and a run that use up their timeouts) has its credit.
Slowest == IF Warmup > RetryDelay THEN Warmup ELSE RetryDelay
Patience == Slowest + PingTimeout + RunTimeout
CalmMonthPaid == calm > Patience => credits[Month(time)] > 0

\* "The provided context cancels the loop": the goroutine ends after a
\* cancel, wherever it was, without the help of a crash.
CancelEndsLoop == ctxDone ~> phase = "down"

=============================================================================
