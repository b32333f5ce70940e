-------------------------- MODULE SchedulerProofs --------------------------
(***************************************************************************)
(* Proofs about Scheduler: its types, that it implements MonthlyCredit for *)
(* any delays, any length of the month and any bound, and that a calm month*)
(* is paid if no month turns during a run.                                 *)
(***************************************************************************)
EXTENDS Scheduler, SumLemmas, TLAPS

\* Integer division by a positive number does not decrease, and grows by one at
\* most from a number to the next.
LEMMA Division ==
    ASSUME NEW d \in Nat \ {0}, NEW s \in Nat, NEW t \in Nat
    PROVE  /\ t \div d \in Nat
           /\ s <= t => s \div d <= t \div d
           /\ (t + 1) \div d <= t \div d + 1
<1> DEFINE q == t \div d
           p == s \div d
           n == (t + 1) \div d
<1>1. /\ q \in Nat /\ t % d \in 0..(d - 1) /\ t = d * q + (t % d)
      /\ p \in Nat /\ s % d \in 0..(d - 1) /\ s = d * p + (s % d)
      /\ n \in Nat /\ (t + 1) % d \in 0..(d - 1) /\ t + 1 = d * n + ((t + 1) % d)
    <2>1. t + 1 \in Nat
        OBVIOUS
    <2> QED
        BY <2>1, Quotient
<1> HIDE DEF q, p, n
<1>2. d * q \in Int /\ d * p \in Int /\ d * n \in Int
    BY <1>1
<1>3. s <= t => p <= q
    <2> SUFFICES ASSUME s <= t, q < p PROVE FALSE
        BY <1>1
    <2>1. d * q + d <= d * p
        BY <1>1, Multiples
    <2> QED
        BY <1>1, <1>2, <2>1
<1>4. n <= q + 1
    <2> SUFFICES ASSUME q + 1 < n PROVE FALSE
        BY <1>1
    <2>1. d * (q + 1) + d <= d * n
        BY <1>1, Multiples
    <2>2. d * (q + 1) = d * q + d
        BY <1>1, Z3
    <2> QED
        BY <1>1, <1>2, <2>1, <2>2
<1> QED
    BY <1>1, <1>3, <1>4 DEF q, p, n

LEMMA MonthFacts ==
    /\ \A t \in 0..MaxTime : Month(t) \in Months
    /\ \A t \in 0..MaxTime : Month(t + 1) = Month(t) \/ Month(t + 1) = Month(t) + 1
    /\ \A t \in Nat : Month(t) \in Nat \ {0} /\ nextMonthStart(t) \in Nat
<1>1. MonthLength \in Nat \ {0} /\ MaxTime \in Nat
    BY TimeAssumption
<1>2. \A t \in Nat : t \div MonthLength \in Nat
    BY <1>1, Division
<1>3. ASSUME NEW t \in 0..MaxTime PROVE Month(t) \in Months
    <2>1. t \div MonthLength <= MaxTime \div MonthLength
        BY <1>1, Division
    <2> QED
        BY <1>1, <1>2, <2>1 DEF Month, Months
<1>4. ASSUME NEW t \in 0..MaxTime
      PROVE  Month(t + 1) = Month(t) \/ Month(t + 1) = Month(t) + 1
    <2>1. /\ t \div MonthLength <= (t + 1) \div MonthLength
          /\ (t + 1) \div MonthLength <= t \div MonthLength + 1
        BY <1>1, Division
    <2> QED
        BY <1>2, <2>1 DEF Month
<1>5. ASSUME NEW t \in Nat PROVE Month(t) \in Nat \ {0} /\ nextMonthStart(t) \in Nat
    <2>1. Month(t) \in Nat \ {0}
        BY <1>2 DEF Month
    <2> QED
        BY <1>1, <2>1 DEF nextMonthStart
<1> QED
    BY <1>3, <1>4, <1>5

-----------------------------------------------------------------------------
(* Types.                                                                  *)

USE DEF RunPhases, Selecting, wait, process, run, table

LEMMA FirstAttempt == 1 \in 1..Len(Backoffs)
<1>1. Len(Backoffs) \in Nat /\ Len(Backoffs) # 0
    BY DelaysAssumption
<1> QED
    BY <1>1

LEMMA TypeStep == TypeOK /\ [Next]_vars => TypeOK'
<1> SUFFICES ASSUME TypeOK, [Next]_vars PROVE TypeOK'
    OBVIOUS
<1>1. /\ time \in 0..MaxTime /\ alarm \in Nat /\ calm \in Nat
      /\ phase \in {"down", "pinging"} \cup Selecting \cup RunPhases
      /\ attempt \in 1..Len(Backoffs) /\ ctxDone \in BOOLEAN
      /\ now \in Months \cup {0} /\ stamp \in Months \cup {0}
      /\ runAt \in Months \cup {0} /\ credits \in [Months -> Nat]
      /\ (now # 0 <=> phase \in RunPhases)
    BY DEF TypeOK
<1>2. /\ Warmup \in Nat /\ RetryDelay \in Nat /\ PingTimeout \in Nat /\ RunTimeout \in Nat
      /\ \A i \in 1..Len(Backoffs) : Backoffs[i] \in Nat
      /\ MaxTime \in Nat
    BY DelaysAssumption, TimeAssumption
<1>0. 1 \in 1..Len(Backoffs)
    BY FirstAttempt
<1>3. Month(time) \in Months /\ Month(time) # 0 /\ nextMonthStart(time) \in Nat
    <2>1. time \in Nat
        BY <1>1, <1>2
    <2> QED
        BY <1>1, <2>1, MonthFacts
<1>4. ASSUME NEW m \in Months, NEW t \in Months, CreditOnce(m, t)
      PROVE  runAt' \in Months \cup {0} /\ credits' \in [Months -> Nat]
    <2>1. CASE runAt < m
        <3>1. credits' = [credits EXCEPT ![m] = @ + 1] /\ runAt' = t
            BY <1>4, <2>1 DEF CreditOnce
        <3> QED
            BY <1>1, <3>1
    <2>2. CASE ~(runAt < m)
        BY <1>1, <1>4, <2>2 DEF CreditOnce
    <2> QED
        BY <2>1, <2>2
<1>5. CASE Start
    <2>1. ctxDone' \in BOOLEAN
        BY <1>5, Zenon DEF Start
    <2> QED
        BY <1>0, <1>1, <1>2, <1>5, <2>1 DEF Start, WaitUntil, Disturbed, TypeOK
<1>6. CASE Cancel
    BY <1>1, <1>6 DEF Cancel, Disturbed, TypeOK
<1>7. CASE Exit
    <2>1. ctxDone' \in BOOLEAN
        BY <1>7, Zenon DEF Exit
    <2> QED
        BY <1>0, <1>1, <1>2, <1>7, <2>1 DEF Exit, Disturbed, NoRun, TypeOK
<1>8. CASE WarmedUp
    BY <1>1, <1>8 DEF WarmedUp, TimerFires, WaitUntil, TypeOK
<1>9. CASE Ping
    BY <1>1, <1>2, <1>9 DEF Ping, TimerFires, WaitUntil, TypeOK
<1>10. CASE PingAnswered
    BY <1>1, <1>2, <1>3, <1>10 DEF PingAnswered, WaitUntil, TypeOK
<1>11. ASSUME Retry PROVE /\ phase' = "backoff" /\ alarm' \in Nat
                          /\ attempt' \in 1..Len(Backoffs)
    BY <1>1, <1>2, <1>11 DEF Retry, WaitUntil
<1>12. ASSUME GiveUp PROVE /\ phase' = "waiting" /\ alarm' \in Nat
                           /\ attempt' \in 1..Len(Backoffs)
    BY <1>1, <1>2, <1>12 DEF GiveUp, WaitUntil
<1>13. CASE PingFails
    BY <1>1, <1>11, <1>12, <1>13 DEF PingFails, Disturbed, TypeOK
<1>14. CASE Begin
    BY <1>1, <1>3, <1>14 DEF Begin, TypeOK
<1>15. CASE Commit
    <2>1. stamp \in Months \/ stamp = 0
        BY <1>1
    <2>2. now \in Months
        BY <1>1, <1>15 DEF Commit
    <2>3. runAt' \in Months \cup {0} /\ credits' \in [Months -> Nat]
        <3>1. CASE runAt < now
            <4>1. credits' = [credits EXCEPT ![now] = @ + 1] /\ runAt' = stamp
                BY <1>15, <3>1 DEF Commit, CreditOnce
            <4> QED
                BY <1>1, <2>2, <4>1
        <3>2. CASE ~(runAt < now)
            BY <1>1, <1>15, <3>2 DEF Commit, CreditOnce
        <3> QED
            BY <3>1, <3>2
    <2> QED
        BY <1>1, <1>15, <2>3 DEF Commit, TypeOK
<1>16. CASE RunSucceeds
    BY <1>1, <1>3, <1>16 DEF RunSucceeds, WaitUntil, NoRun, TypeOK
<1>17. ASSUME NEW badConn \in BOOLEAN, RunFails(badConn) PROVE TypeOK'
    BY <1>1, <1>11, <1>12, <1>17 DEF RunFails, Disturbed, NoRun, TypeOK
<1>18. CASE RequestedRun
    BY <1>1, <1>3, <1>4, <1>18 DEF RequestedRun, TypeOK
<1>19. CASE Tick
    BY <1>1, <1>2, <1>19 DEF Tick, TypeOK
<1>20. CASE UNCHANGED vars
    BY <1>1, <1>20 DEF vars, TypeOK
<1> QED
    BY <1>5, <1>6, <1>7, <1>8, <1>9, <1>10, <1>13, <1>14, <1>15, <1>16, <1>17, <1>18,
       <1>19, <1>20
    DEF Next, Goroutine, Die, Stop

\* The variables keep their types, and `now` is set exactly during a run, TypeOK
\* of the runs, for any delays and bounds.
THEOREM SchedulerTypeCorrect == Spec => []TypeOK
<1>1. Init => TypeOK
    <2>1. 1 \in 1..Len(Backoffs) /\ 0 \in 0..MaxTime
        BY FirstAttempt, TimeAssumption
    <2>2. Init => ctxDone \in BOOLEAN
        BY Zenon DEF Init
    <2> QED
        BY <2>1, <2>2 DEF Init, TypeOK
<1>2. TypeOK /\ [Next]_vars => TypeOK'
    BY TypeStep
<1> QED
    BY <1>1, <1>2, PTL DEF Spec

-----------------------------------------------------------------------------
(* The promise.  A run's `now` is not later than the stamp it will leave,  *)
(* and every month credited is not later than the last stamp: a run for a  *)
(* month already credited finds payroll_run_at in its way.                 *)

StampedInv ==
    /\ now <= Month(time)
    /\ phase \in {"open", "committed"} => now <= stamp /\ stamp \in Months
    /\ \A m \in Months : credits[m] > 0 => m <= runAt

mapped == <<Month(time), [b \in {1} |-> credits]>>

\* What CreditOnce leaves, and what it means to the promise.
LEMMA CreditOnceStep ==
    ASSUME TypeOK, StampedInv, time' = time,
           NEW m \in Months, NEW t \in Months, m <= t, m <= Month(time),
           CreditOnce(m, t)
    PROVE  /\ \A k \in Months : credits'[k] > 0 => k <= runAt'
           /\ Promise!Credit({1}, m) \/ UNCHANGED mapped
<1>1. /\ credits \in [Months -> Nat] /\ runAt \in Months \cup {0}
      /\ \A k \in Months : k \in Int
    BY DEF TypeOK, Months
<1>2. CASE runAt < m
    <2>1. credits' = [credits EXCEPT ![m] = @ + 1] /\ runAt' = t
        BY <1>2 DEF CreditOnce
    <2>2. credits[m] = 0
        <3>1. ~(credits[m] > 0) /\ credits[m] \in Nat
            BY <1>1, <1>2 DEF StampedInv
        <3> QED
            BY <3>1
    <2>3. \A k \in Months : credits'[k] > 0 => k <= runAt'
        BY <1>1, <1>2, <2>1 DEF StampedInv
    <2>4. [b \in {1} |-> credits'] =
             [b \in {1} |-> [[c \in {1} |-> credits][b] EXCEPT
                               ![m] = IF b \in {1} THEN @ + 1 ELSE @]]
        BY <2>1
    <2>5. Promise!Credit({1}, m)
        BY <2>2, <2>4 DEF Promise!Credit
    <2> QED
        BY <2>3, <2>5
<1>3. CASE ~(runAt < m)
    BY <1>3 DEF CreditOnce, StampedInv, mapped
<1> QED
    BY <1>2, <1>3

LEMMA StampedStep ==
    TypeOK /\ StampedInv /\ [Next]_vars =>
        StampedInv' /\ (Promise!Next \/ UNCHANGED mapped)
<1> SUFFICES ASSUME TypeOK, StampedInv, [Next]_vars
             PROVE  StampedInv' /\ (Promise!Next \/ UNCHANGED mapped)
    OBVIOUS
<1> DEFINE Goal == StampedInv' /\ (Promise!Next \/ UNCHANGED mapped)
<1>1. /\ time \in 0..MaxTime /\ Month(time) \in Months /\ Month(time) \in Nat
      /\ now \in Int /\ (phase \in RunPhases => now \in Months)
    <2>1. time \in 0..MaxTime /\ now \in Months \cup {0}
          /\ (phase \in RunPhases => now # 0)
        BY DEF TypeOK
    <2>2. time \in Nat
        BY <2>1, TimeAssumption
    <2>3. \A m \in Months : m \in Int
        BY DEF Months
    <2> QED
        BY <2>1, <2>2, <2>3, MonthFacts
<1>2. CASE /\ UNCHANGED <<time, runAt, credits>>
           /\ now' = now \/ now' = 0 \/ now' = Month(time)
           /\ phase' \in {"open", "committed"} => phase' = phase /\ UNCHANGED run
    BY <1>1, <1>2 DEF StampedInv, mapped
<1>3. CASE Start \/ Cancel \/ Exit \/ WarmedUp \/ Ping \/ PingAnswered \/ PingFails
           \/ RunSucceeds \/ UNCHANGED vars
    BY <1>2, <1>3
    DEF Start, Cancel, Exit, WarmedUp, Ping, PingAnswered, PingFails, RunSucceeds,
        WaitUntil, NoRun, Retry, GiveUp, vars
<1>4. ASSUME NEW badConn \in BOOLEAN, RunFails(badConn) PROVE Goal
    BY <1>2, <1>4 DEF RunFails, WaitUntil, NoRun, Retry, GiveUp
<1>5. CASE Begin
    BY <1>1, <1>5 DEF Begin, StampedInv, mapped
<1>6. CASE Commit
    <2>1. /\ now \in Months /\ stamp \in Months /\ now <= stamp /\ now <= Month(time)
          /\ CreditOnce(now, stamp) /\ time' = time
          /\ phase' = "committed" /\ UNCHANGED run
        BY <1>1, <1>6 DEF Commit, StampedInv
    <2>2. /\ \A k \in Months : credits'[k] > 0 => k <= runAt'
          /\ Promise!Credit({1}, now) \/ UNCHANGED mapped
        BY <2>1, CreditOnceStep
    <2>3. StampedInv'
        BY <2>1, <2>2 DEF StampedInv
    <2> QED
        BY <2>1, <2>2, <2>3 DEF Promise!Next
<1>7. CASE RequestedRun
    <2>1. CreditOnce(Month(time), Month(time)) /\ UNCHANGED <<time, phase, run>>
        BY <1>7 DEF RequestedRun
    <2>2. /\ \A k \in Months : credits'[k] > 0 => k <= runAt'
          /\ Promise!Credit({1}, Month(time)) \/ UNCHANGED mapped
        BY <1>1, <2>1, CreditOnceStep
    <2>3. StampedInv'
        BY <2>1, <2>2 DEF StampedInv
    <2> QED
        BY <1>1, <2>1, <2>2, <2>3 DEF Promise!Next
<1>8. CASE Tick
    <2>1. time' = time + 1 /\ UNCHANGED <<wait, run, table>>
        BY <1>8 DEF Tick
    <2>2. Month(time') = Month(time) \/ Month(time') = Month(time) + 1
        BY <1>1, <2>1, MonthFacts
    <2>3. StampedInv'
        BY <1>1, <2>1, <2>2 DEF StampedInv
    <2>4. Promise!MonthTurns \/ UNCHANGED mapped
        BY <2>1, <2>2 DEF Promise!MonthTurns, mapped
    <2> QED
        BY <2>3, <2>4 DEF Promise!Next
<1> QED
    BY <1>3, <1>4, <1>5, <1>6, <1>7, <1>8 DEF Next, Goroutine, Die, Stop

\* The scheduler, with its restarts, retries and lost answers, implements
\* MonthlyCredit, ImplementsMonthlyCredit of the runs: a month is credited at
\* most once and not before it begins, even if months turn during its runs.
THEOREM SchedulerImplementsMonthlyCredit == Spec => ImplementsMonthlyCredit
<1>1. Init => StampedInv /\ Promise!Init
    <2>1. 0 \in 0..MaxTime /\ 0 \div MonthLength = 0
        BY TimeAssumption
    <2> QED
        BY <2>1, MonthFacts DEF Init, StampedInv, Promise!Init, Month, Months
<1>2. TypeOK /\ StampedInv /\ [Next]_vars => StampedInv' /\ [Promise!Next]_mapped
    BY StampedStep
<1> QED
    BY <1>1, <1>2, SchedulerTypeCorrect, PTL
    DEF Spec, ImplementsMonthlyCredit, Promise!Spec, Promise!vars, mapped

-----------------------------------------------------------------------------
(* The calm month.  Without a failure the goroutine moves towards a run at *)
(* the pace of its timers: calm and what the alarm still leaves add up to  *)
(* no more than the way it has come, unless the month is paid for and the  *)
(* alarm is the next month's start.                                        *)

OnTime ==
    /\ phase = "down" => calm = 0
    /\ phase # "down" => alarm >= time
    /\ phase \in {"warmup", "backoff"} => calm + (alarm - time) <= Slowest
    /\ phase = "waiting" =>
          \/ alarm = nextMonthStart(time) /\ credits[Month(time)] > 0
          \/ calm + (alarm - time) <= Slowest
    /\ phase = "pinging" => calm + (alarm - time) <= Slowest + PingTimeout
    /\ phase \in RunPhases => calm + (alarm - time) <= Patience

\* The run in progress is for the current month, and payroll_run_at is the month
\* of a credit.
ThisMonth ==
    /\ phase \in RunPhases => now = Month(time)
    /\ phase \in {"open", "committed"} => stamp = now
    /\ phase = "committed" => credits[now] > 0
    /\ runAt <= Month(time)
    /\ runAt # 0 => credits[runAt] > 0

CalmInv == OnTime /\ ThisMonth

\* When a month begins: the alarm for it is later than any moment of the month
\* before, and rings as the month turns.
LEMMA NextMonthStart ==
    ASSUME NEW t \in Nat
    PROVE  /\ t < nextMonthStart(t)
           /\ Month(t + 1) # Month(t) => nextMonthStart(t) = t + 1
<1> DEFINE L == MonthLength
           q == t \div L
           n == (t + 1) \div L
<1>1. L \in Nat \ {0} /\ t + 1 \in Nat
    BY TimeAssumption
<1>2. /\ q \in Nat /\ t % L \in 0..(L - 1) /\ t = L * q + (t % L)
      /\ n \in Nat /\ (t + 1) % L \in 0..(L - 1) /\ t + 1 = L * n + ((t + 1) % L)
      /\ q <= n /\ n <= q + 1
    <2>1. q \in Nat /\ t % L \in 0..(L - 1) /\ t = L * q + (t % L)
        BY <1>1, Quotient
    <2>2. n \in Nat /\ (t + 1) % L \in 0..(L - 1) /\ t + 1 = L * n + ((t + 1) % L)
        BY <1>1, Quotient
    <2>3. t <= t + 1 => q <= n
        BY <1>1, Division
    <2>4. n <= q + 1
        BY <1>1, Division
    <2> HIDE DEF q, n
    <2> QED
        BY <2>1, <2>2, <2>3, <2>4
<1>3. /\ nextMonthStart(t) = (q + 1) * L
      /\ Month(t + 1) # Month(t) => n # q
    BY DEF nextMonthStart, Month
<1> HIDE DEF q, n, L
<1>4. (q + 1) * L = L * q + L
    BY <1>1, <1>2, Z3
<1>5. L * q \in Int
    BY <1>1, <1>2
<1>6. t < nextMonthStart(t)
    BY <1>1, <1>2, <1>3, <1>4, <1>5
<1>7. ASSUME Month(t + 1) # Month(t) PROVE nextMonthStart(t) = t + 1
    <2>1. n = q + 1
        BY <1>2, <1>3, <1>7
    <2>2. L * n = L * q + L
        BY <1>1, <1>2, <2>1, Z3
    <2> QED
        BY <1>1, <1>2, <1>3, <1>4, <1>5, <2>2
<1> QED
    BY <1>6, <1>7

\* What the actions have in common: where a timer is set, and what a credit is.
LEMMA Delays ==
    /\ Slowest \in Nat /\ Warmup <= Slowest /\ RetryDelay <= Slowest
    /\ PingTimeout \in Nat /\ RunTimeout \in Nat
    /\ Patience = Slowest + PingTimeout + RunTimeout
BY DelaysAssumption DEF Slowest, Patience

LEMMA CreditKept ==
    ASSUME TypeOK, ThisMonth, time' = time, NEW m \in Months, CreditOnce(m, m),
           m = Month(time)
    PROVE  /\ \A k \in Months : credits[k] > 0 => credits'[k] > 0
           /\ credits'[m] > 0
           /\ runAt' <= Month(time)
           /\ runAt' # 0 => credits'[runAt'] > 0
<1>1. /\ credits \in [Months -> Nat] /\ runAt \in Months \cup {0}
      /\ runAt <= m /\ (runAt # 0 => credits[runAt] > 0)
      /\ m \in Nat \ {0} /\ \A k \in Months : k \in Int
    BY DEF TypeOK, ThisMonth, Months
<1>2. CASE runAt < m
    <2>1. credits' = [credits EXCEPT ![m] = @ + 1] /\ runAt' = m
        BY <1>2 DEF CreditOnce
    <2> QED
        BY <1>1, <2>1
<1>3. CASE ~(runAt < m)
    <2>1. runAt = m /\ UNCHANGED <<runAt, credits>>
        BY <1>1, <1>3 DEF CreditOnce
    <2> QED
        BY <1>1, <2>1
<1> QED
    BY <1>2, <1>3

\* Every step keeps CalmInv, if no month turns during a run and no backoff takes
\* longer than the slowest of the other delays.
LEMMA CalmStep ==
    ASSUME TurnDuring = {}, \A i \in 1..Len(Backoffs) : Backoffs[i] <= Slowest
    PROVE  TypeOK /\ CalmInv /\ [Next]_vars => CalmInv'
<1> SUFFICES ASSUME TypeOK, CalmInv, [Next]_vars PROVE CalmInv'
    OBVIOUS
<1>1. /\ time \in Nat /\ time \in 0..MaxTime /\ alarm \in Nat /\ calm \in Nat
      /\ phase \in {"down", "pinging"} \cup Selecting \cup RunPhases
      /\ attempt \in 1..Len(Backoffs)
      /\ runAt \in Months \cup {0} /\ credits \in [Months -> Nat]
      /\ \A m \in Months : m \in Nat \ {0}
    BY TimeAssumption DEF TypeOK, Months
<1>2. Month(time) \in Months /\ nextMonthStart(time) \in Nat /\ time < nextMonthStart(time)
    BY <1>1, MonthFacts, NextMonthStart
<1>3. OnTime /\ ThisMonth
    BY DEF CalmInv
<1>4. ASSUME time' = time, UNCHANGED <<runAt, credits>>, phase' \notin RunPhases
      PROVE  ThisMonth'
    BY <1>3, <1>4 DEF ThisMonth
<1>5. ASSUME time' = time, UNCHANGED <<runAt, credits, run>>, phase' = phase
      PROVE  ThisMonth'
    BY <1>3, <1>5 DEF ThisMonth
<1>6. ASSUME time' = time, calm' = 0, Retry \/ GiveUp PROVE OnTime'
    <2>1. CASE Retry
        <3>1. /\ attempt + 1 \in 1..Len(Backoffs)
              /\ phase' = "backoff" /\ alarm' = time + Backoffs[attempt + 1]
            BY <1>1, <2>1 DEF Retry, WaitUntil
        <3>2. Backoffs[attempt + 1] \in Nat /\ Backoffs[attempt + 1] <= Slowest
            BY <3>1, DelaysAssumption
        <3> QED
            BY <1>1, <1>6, <3>1, <3>2, Delays DEF OnTime
    <2>2. CASE GiveUp
        <3>1. phase' = "waiting" /\ alarm' = time + RetryDelay /\ RetryDelay \in Nat
            BY <2>2, DelaysAssumption DEF GiveUp, WaitUntil
        <3> QED
            BY <1>1, <1>6, <3>1, Delays DEF OnTime
    <2> QED
        BY <1>6, <2>1, <2>2
<1>7. CASE Start
    <2>1. /\ phase' = "warmup" /\ alarm' = time + Warmup /\ calm' = 0 /\ Warmup \in Nat
          /\ time' = time /\ UNCHANGED <<runAt, credits>>
        BY <1>7, DelaysAssumption DEF Start, WaitUntil, Disturbed
    <2> QED
        BY <1>1, <1>4, <2>1, Delays DEF CalmInv, OnTime
<1>8. CASE Cancel
    <2>1. /\ calm' = 0 /\ UNCHANGED <<time, phase, alarm, runAt, credits, run>>
        BY <1>8 DEF Cancel, Disturbed
    <2>2. OnTime'
        BY <1>1, <1>3, <2>1, Delays DEF OnTime
    <2> QED
        BY <1>5, <2>1, <2>2 DEF CalmInv
<1>9. CASE Exit
    BY <1>4, <1>9 DEF Exit, Disturbed, CalmInv, OnTime
<1>10. CASE WarmedUp
    <2>1. /\ phase = "warmup" /\ time >= alarm /\ phase' = "waiting" /\ alarm' = time
          /\ UNCHANGED <<time, runAt, credits, calm>>
        BY <1>10 DEF WarmedUp, TimerFires, WaitUntil
    <2>2. OnTime'
        BY <1>1, <1>3, <2>1, Delays DEF OnTime
    <2> QED
        BY <1>4, <2>1, <2>2 DEF CalmInv
<1>11. CASE Ping
    <2>1. /\ phase \in {"waiting", "backoff"} /\ time >= alarm
          /\ phase' = "pinging" /\ alarm' = time + PingTimeout
          /\ UNCHANGED <<time, runAt, credits, calm>>
        BY <1>11 DEF Ping, TimerFires, WaitUntil
    <2>2. calm <= Slowest
        BY <1>1, <1>2, <1>3, <2>1, Delays DEF OnTime
    <2>3. OnTime'
        BY <1>1, <2>1, <2>2, Delays DEF OnTime
    <2> QED
        BY <1>4, <2>1, <2>3 DEF CalmInv
<1>12. CASE PingAnswered
    <2>1. /\ phase = "pinging" /\ phase' = "calling" /\ alarm' = time + RunTimeout
          /\ now' = Month(time) /\ UNCHANGED <<time, runAt, credits, calm>>
        BY <1>12 DEF PingAnswered, WaitUntil
    <2>2. OnTime'
        BY <1>1, <1>3, <2>1, Delays DEF OnTime
    <2>3. ThisMonth'
        BY <1>3, <2>1 DEF ThisMonth
    <2> QED
        BY <2>2, <2>3 DEF CalmInv
<1>13. CASE PingFails
    <2>1. /\ time' = time /\ calm' = 0 /\ UNCHANGED <<runAt, credits>>
          /\ Retry \/ GiveUp
        BY <1>13 DEF PingFails, Disturbed
    <2>2. phase' \notin RunPhases
        BY <2>1 DEF Retry, GiveUp, WaitUntil
    <2> QED
        BY <1>4, <1>6, <2>1, <2>2 DEF CalmInv
<1>14. ASSUME NEW badConn \in BOOLEAN, RunFails(badConn) PROVE CalmInv'
    <2>1. /\ time' = time /\ calm' = 0 /\ UNCHANGED <<runAt, credits>>
          /\ Retry \/ GiveUp
        BY <1>14 DEF RunFails, Disturbed
    <2>2. phase' \notin RunPhases
        BY <2>1 DEF Retry, GiveUp, WaitUntil
    <2> QED
        BY <1>4, <1>6, <2>1, <2>2 DEF CalmInv
<1>15. CASE Begin
    <2>1. /\ phase = "calling" /\ phase' = "open" /\ stamp' = Month(time)
          /\ UNCHANGED <<time, alarm, calm, now, runAt, credits>>
        BY <1>15 DEF Begin
    <2>2. OnTime'
        BY <1>1, <1>3, <2>1 DEF OnTime
    <2>3. ThisMonth'
        BY <1>3, <2>1 DEF ThisMonth
    <2> QED
        BY <2>2, <2>3 DEF CalmInv
<1>16. CASE Commit
    <2>1. /\ phase = "open" /\ phase' = "committed" /\ CreditOnce(now, stamp)
          /\ UNCHANGED <<time, alarm, calm, now, stamp>>
        BY <1>16 DEF Commit
    <2>2. now = Month(time) /\ stamp = now
        BY <1>3, <2>1 DEF ThisMonth
    <2>3. credits'[now] > 0 /\ runAt' <= Month(time) /\ (runAt' # 0 => credits'[runAt'] > 0)
        BY <1>2, <1>3, <2>1, <2>2, CreditKept
    <2>4. OnTime'
        BY <1>1, <1>3, <2>1 DEF OnTime
    <2>5. ThisMonth'
        BY <2>1, <2>2, <2>3 DEF ThisMonth
    <2> QED
        BY <2>4, <2>5 DEF CalmInv
<1>17. CASE RunSucceeds
    <2>1. /\ phase = "committed" /\ phase' = "waiting" /\ alarm' = nextMonthStart(time)
          /\ UNCHANGED <<time, calm, runAt, credits>>
        BY <1>17 DEF RunSucceeds, WaitUntil
    <2>2. credits[Month(time)] > 0
        BY <1>3, <2>1 DEF ThisMonth
    <2>3. OnTime'
        BY <1>1, <1>2, <2>1, <2>2 DEF OnTime, nextMonthStart, Month
    <2> QED
        BY <1>4, <2>1, <2>3 DEF CalmInv
<1>18. CASE RequestedRun
    <2>1. /\ CreditOnce(Month(time), Month(time))
          /\ UNCHANGED <<time, phase, alarm, calm, now, stamp>>
        BY <1>18 DEF RequestedRun
    <2>2. /\ \A k \in Months : credits[k] > 0 => credits'[k] > 0
          /\ runAt' <= Month(time) /\ (runAt' # 0 => credits'[runAt'] > 0)
        BY <1>2, <1>3, <2>1, CreditKept
    <2>3. OnTime'
        BY <1>1, <1>2, <1>3, <2>1, <2>2 DEF OnTime, nextMonthStart, Month
    <2>4. ThisMonth'
        BY <1>2, <1>3, <2>1, <2>2 DEF ThisMonth
    <2> QED
        BY <2>3, <2>4 DEF CalmInv
<1>19. CASE Tick
    <2>1. /\ time' = time + 1 /\ (phase # "down" => time < alarm)
          /\ phase \in RunPhases => Month(time + 1) = Month(time)
          /\ calm' = 0 \/ calm' = calm + 1
          /\ phase = "down" => calm' = 0
          /\ Month(time + 1) # Month(time) => calm' = 0
          /\ UNCHANGED <<phase, alarm, now, stamp, runAt, credits>>
        BY <1>19 DEF Tick
    <2>2. Month(time + 1) = Month(time) \/ Month(time + 1) = Month(time) + 1
        BY <1>1, MonthFacts
    <2>3. Month(time + 1) # Month(time) => nextMonthStart(time) = time + 1
        BY <1>1, NextMonthStart
    <2>4. Month(time + 1) = Month(time) => nextMonthStart(time + 1) = nextMonthStart(time)
        BY DEF nextMonthStart
    <2>5. Month(time) \in Nat
        BY <1>1, <1>2
    <2>6. ThisMonth'
        BY <1>1, <1>3, <2>1, <2>2, <2>5 DEF ThisMonth
    <2>7. phase = "waiting" =>
            \/ alarm' = nextMonthStart(time') /\ credits'[Month(time')] > 0
            \/ calm' + (alarm' - time') <= Slowest
        <3> SUFFICES ASSUME phase = "waiting" PROVE
                \/ alarm' = nextMonthStart(time') /\ credits'[Month(time')] > 0
                \/ calm' + (alarm' - time') <= Slowest
            OBVIOUS
        <3>1. CASE calm + (alarm - time) <= Slowest
            BY <1>1, <2>1, <3>1, Delays
        <3>2. CASE alarm = nextMonthStart(time) /\ credits[Month(time)] > 0
            <4>1. CASE Month(time + 1) = Month(time)
                BY <2>1, <2>4, <3>2, <4>1
            <4>2. CASE Month(time + 1) # Month(time)
                BY <1>1, <2>1, <2>3, <3>2, <4>2, Delays
            <4> QED
                BY <4>1, <4>2
        <3> QED
            BY <1>3, <3>1, <3>2 DEF OnTime
    <2>8. OnTime'
        BY <1>1, <1>3, <2>1, <2>7, Delays DEF OnTime
    <2> QED
        BY <2>6, <2>8 DEF CalmInv
<1>20. CASE UNCHANGED vars
    BY <1>3, <1>20 DEF vars, CalmInv, OnTime, ThisMonth, nextMonthStart, Month
<1> QED
    BY <1>7, <1>8, <1>9, <1>10, <1>11, <1>12, <1>13, <1>14, <1>15, <1>16, <1>17, <1>18,
       <1>19, <1>20
    DEF Next, Goroutine, Die, Stop

\* A month that has been calm for longer than the slowest way to a run has its
\* credit, CalmMonthPaid of the runs, for any delays and any length of the
\* month, if no backoff takes longer than the warm-up or the retry delay and no
\* month turns during a run: without that the run of scheduler_skips_month
\* finds a month that stays unpaid.
THEOREM CalmMonthsPaid ==
    ASSUME TurnDuring = {}, \A i \in 1..Len(Backoffs) : Backoffs[i] <= Slowest
    PROVE  Spec => []CalmMonthPaid
<1>1. Init => CalmInv
    <2>1. 0 \in 0..MaxTime
        BY TimeAssumption
    <2>2. Init => 0 <= Month(time)
        BY <2>1, TimeAssumption, MonthFacts DEF Init
    <2> QED
        BY <2>2 DEF Init, CalmInv, OnTime, ThisMonth
<1>2. TypeOK /\ CalmInv /\ [Next]_vars => CalmInv'
    BY CalmStep
<1>3. TypeOK /\ CalmInv => CalmMonthPaid
    <2> SUFFICES ASSUME TypeOK, CalmInv, calm > Patience PROVE credits[Month(time)] > 0
        BY DEF CalmMonthPaid
    <2>1. /\ time \in Nat /\ alarm \in Nat /\ calm \in Nat
          /\ phase \in {"down", "pinging"} \cup Selecting \cup RunPhases
        BY TimeAssumption DEF TypeOK
    <2> QED
        BY <2>1, Delays DEF CalmInv, OnTime
<1> QED
    BY <1>1, <1>2, <1>3, SchedulerTypeCorrect, PTL DEF Spec
=============================================================================
