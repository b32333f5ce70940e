-------------------------- MODULE DashboardProofs --------------------------
(***************************************************************************)
(* Four proofs about the dashboard, for any budgets, forms, failures and   *)
(* bounds.                                                                 *)
(*                                                                         *)
(* The list never goes back to an older state of the server.  The reason   *)
(* is Ahead: there is one reload at most, and the answer it carries was    *)
(* read after the list that is shown; every step that would break this     *)
(* discards the reload (Invalidate, the cancelled reload of a deletion).   *)
(*                                                                         *)
(* The types of the window, by DashboardInv; the form is of its dialog and *)
(* the requests that wait are of the plan.                                 *)
(*                                                                         *)
(* What a click posts adds up: the transfer to nothing, the receipt to its *)
(* total, the wizard to nothing.  The plans are folds over sequences, and  *)
(* SumLemmas gives each the table of its partial sums.                     *)
(*                                                                         *)
(* A wizard that planned on the balances as they were, and met no other    *)
(* writer, has brought its picks to zero when it closes.  Settling says    *)
(* how far it is: the requests that wait are a suffix of the plan, and     *)
(* bring the balances as they are now to where the plan ends.              *)
(***************************************************************************)
EXTENDS Dashboard, SumLemmas, TLAPS

Ahead ==
    /\ version \in Nat
    /\ shown.version \in 0..version
    /\ deletion.budget # NoBudget => deletion.previous.version \in 0..version
    /\ \A q, r \in reloads : q = r
    /\ \A r \in reloads : r.answered => r.list.version \in shown.version..version

USE DEF vars, server, cache, ui, counters, history

LEMMA InitAhead == Init => Ahead
    BY DEF Init, Ahead, NoDeletion

\* Steps that leave the list and the reloads alone, and at most write to the table.
LEMMA WriteStep ==
    ASSUME Ahead, UNCHANGED <<shown, deletion>>,
           version' = version \/ version' = version + 1,
           reloads' = reloads \/ reloads' = {Asked}
    PROVE  Ahead'
<1>1. /\ version' \in Nat /\ version <= version'
      /\ shown'.version \in 0..version'
      /\ deletion'.budget # NoBudget => deletion'.previous.version \in 0..version'
    BY DEF Ahead
<1>2. CASE reloads' = reloads
    BY <1>1, <1>2 DEF Ahead
<1>3. CASE reloads' = {Asked}
    BY <1>1, <1>3 DEF Ahead, Asked, Unanswered
<1> QED
    BY <1>2, <1>3

LEMMA ReloadStep ==
    ASSUME Ahead, NEW r \in reloads, ServerReads(r) \/ ListArrives(r) \/ ReloadFails(r)
    PROVE  Ahead' /\ shown'.version >= shown.version
<1>1. CASE ServerReads(r)
    <2>1. reloads' = {Answered(r)} /\ UNCHANGED <<shown, version, deletion>>
        BY <1>1 DEF ServerReads, Ahead
    <2>2. Answered(r).list.version = version
        BY DEF Answered
    <2> QED
        BY <2>1, <2>2 DEF Ahead
<1>2. CASE ListArrives(r)
    <2>1. reloads' = {} /\ shown' = r.list /\ UNCHANGED <<version, deletion>>
        BY <1>2 DEF ListArrives, Show, Ahead
    <2> QED
        BY <1>2, <2>1 DEF ListArrives, Ahead
<1>3. CASE ReloadFails(r)
    <2>1. /\ UNCHANGED <<shown, version, deletion>>
          /\ \A q \in reloads' : ~q.answered
          /\ \A p, q \in reloads' : p = q
        <3>1. ~Unanswered(r.tries + 1).answered
            BY DEF Unanswered
        <3>2. reloads \ {r} = {}
            BY DEF Ahead
        <3>3. reloads' \subseteq {Unanswered(r.tries + 1)}
            BY <1>3, <3>2 DEF ReloadFails
        <3> QED
            BY <1>3, <3>1, <3>3 DEF ReloadFails
    <2> QED
        BY <2>1 DEF Ahead
<1> QED
    BY <1>1, <1>2, <1>3

LEMMA DeleteStep ==
    ASSUME Ahead, DeleteSucceeds \/ DeleteFails \/ (\E b \in Budgets : StartDelete(b))
    PROVE  Ahead' /\ (DeleteFails \/ shown'.version >= shown.version)
<1>1. ASSUME NEW b \in Budgets, StartDelete(b)
      PROVE  Ahead' /\ shown'.version >= shown.version
    <2>1. shown.version \in 0..version /\ version \in Nat
        BY DEF Ahead
    <2>2. /\ shown'.version = shown.version /\ reloads' = {} /\ version' = version
          /\ deletion' = [budget |-> b, previous |-> shown]
        <3>1. shown' = [shown EXCEPT !.rows = Drop(@, b)]
            BY <1>1 DEF StartDelete, Show
        <3>2. [shown EXCEPT !.rows = Drop(@, b)].version = shown.version
            OBVIOUS
        <3> QED
            BY <1>1, <3>1, <3>2 DEF StartDelete
    <2> QED
        BY <2>1, <2>2 DEF Ahead
<1>2. CASE DeleteSucceeds
    BY <1>2 DEF DeleteSucceeds, DeleteRow, Invalidate, NoDeletion, Asked, Unanswered, Ahead
<1>3. CASE DeleteFails
    <2>1. /\ shown' = deletion.previous /\ deletion' = NoDeletion
          /\ deletion.budget # NoBudget /\ reloads' = {Asked}
          /\ version' = version \/ version' = version + 1
        BY <1>3 DEF DeleteFails, Show, DeleteRow, Invalidate
    <2> QED
        BY <1>3, <2>1 DEF Ahead, NoDeletion, Asked, Unanswered
<1> QED
    BY <1>1, <1>2, <1>3

LEMMA AheadStep ==
    ASSUME Ahead, [Next]_vars
    PROVE  Ahead' /\ (DeleteFails \/ shown'.version >= shown.version)
<1> DEFINE Quiet == Ahead' /\ shown'.version >= shown.version
<1>1. ASSUME UNCHANGED <<shown, deletion>>,
             version' = version \/ version' = version + 1,
             reloads' = reloads \/ reloads' = {Asked}
      PROVE  Quiet
    BY <1>1, WriteStep DEF Ahead
<1>2. ASSUME NEW k \in Dialogs, Mutate(k) PROVE Quiet
    BY <1>1, <1>2 DEF Mutate, Submit, Post, PostFails, PostAnswerLost, Record, Succeed,
                      Invalidate
<1>3. ASSUME NEW k \in Dialogs, NEW f \in Forms[k], Fill(k, f) PROVE Quiet
    BY <1>1, <1>3 DEF Fill
<1>4. CASE Close \/ Refocus
    BY <1>1, <1>4 DEF Close, Refocus
<1>5. ASSUME NEW b \in Budgets, NEW cents \in Outside, OthersWrite(b, cents) PROVE Quiet
    BY <1>1, <1>5 DEF OthersWrite
<1>6. CASE UNCHANGED vars
    BY <1>1, <1>6
<1> QED
    BY <1>2, <1>3, <1>4, <1>5, <1>6, ReloadStep, DeleteStep DEF Next, Reload

\* Whatever reloads, writes and deletions overlap, a list that has been shown is
\* replaced by a newer one, except by the one a failed deletion puts back.
THEOREM ShownNeverGoesBackCorrect == Spec => ShownNeverGoesBack
<1>1. Ahead /\ [Next]_vars => Ahead'
    BY AheadStep
<1>2. Ahead /\ [Next]_vars =>
        [\/ shown'.version >= shown.version
         \/ deletion.budget # NoBudget /\ deletion'.budget = NoBudget]_vars
    BY AheadStep DEF DeleteFails, NoDeletion
<1> QED
    BY InitAhead, <1>1, <1>2, PTL DEF Spec, ShownNeverGoesBack

-----------------------------------------------------------------------------
(* What a list of requests adds up to, and what is filtered out of one.    *)

Cents(s) == \A i \in DOMAIN s : s[i].cents \in Int

\* The table of Total, as IsTable in SumLemmas.
TotalEntry(s, g, U) == IF U = {} THEN 0 ELSE g[ButLast(U)] + s[Max(U)].cents
IsTotalTable(s, g, S) == g = [U \in SUBSET S |-> TotalEntry(s, g, U)]

LEMMA TotalTableExists ==
    ASSUME NEW n \in Nat, NEW s, DOMAIN s = 1..n, Cents(s)
    PROVE  \E g : IsTotalTable(s, g, 1..n) /\ g \in [SUBSET (1..n) -> Int]
<1> DEFINE step == [c \in Int \X (1..n) |-> c[1] + s[c[2]].cents]
           V == Int
<1>1. step \in [V \X (1..n) -> V] /\ 0 \in V
    BY DEF Cents
<1>2. \A r \in Int : \A i \in 1..n : step[<<r, i>>] = r + s[i].cents
    OBVIOUS
<1> HIDE DEF step, V
<1>3. PICK g : IsStepTable(V, 0, step, g, 1..n)
    BY <1>1, StepTableExists
<1>4. ASSUME NEW U \in SUBSET (1..n) PROVE g[U] = TotalEntry(s, g, U)
    <2>1. g[U] = StepEntry(0, step, g, U)
        BY <1>3 DEF IsStepTable
    <2>2. U # {} => Max(U) \in 1..n /\ ButLast(U) \in SUBSET (1..n)
        BY MaxTaken DEF ButLast
    <2>3. U # {} => g[ButLast(U)] \in Int
        BY <1>3, <2>2 DEF IsStepTable, V
    <2> QED
        BY <1>2, <2>1, <2>2, <2>3 DEF StepEntry, TotalEntry
<1> QED
    BY <1>3, <1>4 DEF IsStepTable, IsTotalTable, V

\* The totals of the prefixes.
LEMMA TotalPrefixes ==
    ASSUME NEW n \in Nat, NEW s, DOMAIN s = 1..n, Cents(s)
    PROVE  \E T : /\ T \in [0..n -> Int] /\ T[0] = 0 /\ T[n] = Total(s)
                  /\ \A k \in 1..n : T[k] = T[k - 1] + s[k].cents
<1>1. Total(s) = (CHOOSE g : IsTotalTable(s, g, 1..n))[1..n]
    BY DEF Total, FoldLeft, MapThenFoldSet, IsTotalTable, TotalEntry, ButLast
<1>2. PICK g : IsTotalTable(s, g, 1..n) /\ Total(s) = g[1..n]
    BY <1>1, TotalTableExists
<1> DEFINE T == [k \in 0..n |-> g[1..k]]
<1>3. T[0] = 0
    <2>1. g[{}] = 0
        BY <1>2 DEF IsTotalTable, TotalEntry
    <2> QED
        BY <2>1, PrefixSets
<1>4. ASSUME NEW k \in 1..n PROVE T[k] = T[k - 1] + s[k].cents
    <2>1. /\ 1..k \in SUBSET (1..n) /\ 1..k # {}
          /\ Max(1..k) = k /\ ButLast(1..k) = 1..(k - 1)
        BY PrefixSets
    <2>2. g[1..k] = g[1..(k - 1)] + s[k].cents
        BY <1>2, <2>1 DEF IsTotalTable, TotalEntry
    <2> QED
        BY <2>2
<1> HIDE DEF T
<1>5. \A k \in 0..n : T[k] \in Int
    <2> DEFINE Good == {k \in 0..n : T[k] \in Int}
    <2>1. 0 \in Good
        BY <1>3
    <2>2. ASSUME NEW k \in 0..(n - 1), k \in Good PROVE k + 1 \in Good
        <3>1. k + 1 \in 1..n /\ (k + 1) - 1 = k /\ s[k + 1].cents \in Int
            BY DEF Cents
        <3> QED
            BY <1>4, <2>2, <3>1
    <2> HIDE DEF Good
    <2>3. \A k \in 0..n : k \in Good
        BY <2>1, <2>2, UpTo
    <2> QED
        BY <2>3 DEF Good
<1>6. T \in [0..n -> Int] /\ T[n] = Total(s)
    BY <1>2, <1>5 DEF T
<1> QED
    BY <1>3, <1>4, <1>6

\* Whatever counts like the totals of the prefixes ends with the total.
LEMMA TotalIs ==
    ASSUME NEW n \in Nat, NEW s, DOMAIN s = 1..n, Cents(s), NEW T,
           T[0] = 0, \A k \in 1..n : T[k] = T[k - 1] + s[k].cents
    PROVE  Total(s) = T[n] /\ Total(s) \in Int
<1>1. PICK R : /\ R \in [0..n -> Int] /\ R[0] = 0 /\ R[n] = Total(s)
               /\ \A k \in 1..n : R[k] = R[k - 1] + s[k].cents
    BY TotalPrefixes
<1> DEFINE Good == {k \in 0..n : T[k] = R[k]}
<1>2. 0 \in Good
    BY <1>1
<1>3. ASSUME NEW k \in 0..(n - 1), k \in Good PROVE k + 1 \in Good
    <2>1. k + 1 \in 1..n /\ (k + 1) - 1 = k
        OBVIOUS
    <2> QED
        BY <1>1, <1>3, <2>1
<1> HIDE DEF Good
<1>4. \A k \in 0..n : k \in Good
    BY <1>2, <1>3, UpTo
<1> QED
    BY <1>1, <1>4 DEF Good

LEMMA TotalType ==
    ASSUME NEW n \in Nat, NEW s, DOMAIN s = 1..n, Cents(s)
    PROVE  Total(s) \in Int
    BY TotalPrefixes

LEMMA TotalOfOne ==
    ASSUME NEW r, r.cents \in Int
    PROVE  Cents(<<r>>) /\ Total(<<r>>) = r.cents
<1> DEFINE n == 1
           T == [k \in 0..n |-> IF k = 0 THEN 0 ELSE r.cents]
           s == <<r>>
<1>1. /\ n \in Nat /\ DOMAIN s = 1..n /\ s[n] = r /\ T[0] = 0 /\ T[n] = r.cents
      /\ \A k \in 1..n : k = n /\ k - 1 = 0
    OBVIOUS
<1> HIDE DEF n, T, s
<1>2. \A k \in 1..n : T[k] = T[k - 1] + s[k].cents
    BY <1>1
<1>3. Cents(s)
    BY <1>1 DEF Cents
<1>4. Total(s) = T[n]
    BY <1>1, <1>2, <1>3, TotalIs
<1> QED
    BY <1>1, <1>3, <1>4 DEF s

LEMMA TotalOfNone == Total(<< >>) = 0
<1> DEFINE n == 0
           T == [k \in 0..0 |-> 0]
           s == << >>
<1>1. n \in Nat /\ DOMAIN s = 1..n /\ T[n] = 0 /\ T[0] = 0 /\ 1..n = {}
    OBVIOUS
<1> HIDE DEF n, T, s
<1>2. Cents(s)
    BY <1>1 DEF Cents
<1>3. Total(s) = T[n]
    BY <1>1, <1>2, TotalIs
<1> QED
    BY <1>1, <1>3 DEF s

LEMMA TotalOfBoth ==
    ASSUME NEW X, NEW s \in Seq(X), NEW t \in Seq(X), Cents(s), Cents(t)
    PROVE  Cents(s \o t) /\ Total(s \o t) = Total(s) + Total(t)
<1> DEFINE m == Len(s)
           n == Len(t)
<1>1. m \in Nat /\ DOMAIN s = 1..m /\ n \in Nat /\ DOMAIN t = 1..n
    OBVIOUS
<1> DEFINE u == s \o t
<1>2. /\ DOMAIN u = 1..(m + n)
      /\ \A i \in 1..m : u[i] = s[i]
      /\ \A i \in 1..n : u[m + i] = t[i]
    OBVIOUS
<1> HIDE DEF m, n, u
<1>3. PICK S : /\ S \in [0..m -> Int] /\ S[0] = 0 /\ S[m] = Total(s)
               /\ \A k \in 1..m : S[k] = S[k - 1] + s[k].cents
    BY <1>1, TotalPrefixes
<1>4. PICK T : /\ T \in [0..n -> Int] /\ T[0] = 0 /\ T[n] = Total(t)
               /\ \A k \in 1..n : T[k] = T[k - 1] + t[k].cents
    BY <1>1, TotalPrefixes
<1> DEFINE R == [k \in 0..(m + n) |-> IF k <= m THEN S[k] ELSE S[m] + T[k - m]]
<1>5. /\ \A k \in 0..m : R[k] = S[k] /\ S[k] \in Int
      /\ \A k \in 0..n : R[m + k] = S[m] + T[k] /\ T[k] \in Int
    <2>1. ASSUME NEW k \in 0..m PROVE R[k] = S[k] /\ S[k] \in Int
        BY <1>1, <1>3
    <2>2. ASSUME NEW k \in 0..n PROVE R[m + k] = S[m] + T[k] /\ T[k] \in Int
        <3>1. CASE k = 0
            <4>1. m + k = m /\ m \in 0..(m + n) /\ S[m] \in Int
                BY <1>1, <1>3, <3>1
            <4> QED
                BY <1>4, <3>1, <4>1
        <3>2. CASE k # 0
            <4>1. m + k \in 0..(m + n) /\ ~(m + k <= m) /\ (m + k) - m = k
                BY <1>1, <3>2
            <4> QED
                BY <1>4, <4>1
        <3> QED
            BY <3>1, <3>2
    <2> QED
        BY <2>1, <2>2
<1> HIDE DEF R
<1>6. ASSUME NEW k \in 1..(m + n) PROVE R[k] = R[k - 1] + u[k].cents /\ u[k].cents \in Int
    <2>1. CASE k \in 1..m
        <3>1. k \in 0..m /\ k - 1 \in 0..m
            BY <1>1, <2>1
        <3> QED
            BY <1>1, <1>2, <1>3, <1>5, <2>1, <3>1 DEF Cents
    <2>2. CASE k \notin 1..m
        <3> DEFINE j == k - m
        <3>1. j \in 1..n /\ j \in 0..n /\ j - 1 \in 0..n /\ m + j = k /\ m + (j - 1) = k - 1
            BY <1>1, <2>2
        <3> HIDE DEF j
        <3>2. R[k] = S[m] + T[j] /\ R[k - 1] = S[m] + T[j - 1] /\ u[k] = t[j]
            BY <1>2, <1>5, <3>1
        <3>3. T[j] = T[j - 1] + t[j].cents /\ T[j - 1] \in Int /\ t[j].cents \in Int
            BY <1>1, <1>4, <1>5, <3>1 DEF Cents
        <3>4. S[m] \in Int
            BY <1>1, <1>5
        <3> QED
            BY <3>2, <3>3, <3>4
    <2> QED
        BY <2>1, <2>2
<1>7. m + n \in Nat /\ DOMAIN u = 1..(m + n) /\ Cents(u)
    BY <1>1, <1>2, <1>6 DEF Cents
<1>8. R[0] = 0 /\ R[m + n] = S[m] + T[n]
    <2>1. 0 \in 0..m /\ n \in 0..n
        BY <1>1
    <2> QED
        BY <1>3, <1>5, <2>1
<1>9. Total(u) = R[m + n]
    BY <1>6, <1>7, <1>8, TotalIs
<1> QED
    BY <1>3, <1>4, <1>7, <1>8, <1>9 DEF u

LEMMA TotalOfOpposites ==
    ASSUME NEW n \in Nat, NEW s, NEW t, DOMAIN s = 1..n, DOMAIN t = 1..n, Cents(s),
           \A i \in 1..n : t[i].cents = -s[i].cents
    PROVE  Cents(t) /\ Total(t) = -Total(s)
<1>1. PICK S : /\ S \in [0..n -> Int] /\ S[0] = 0 /\ S[n] = Total(s)
               /\ \A k \in 1..n : S[k] = S[k - 1] + s[k].cents
    BY TotalPrefixes
<1> DEFINE T == [k \in 0..n |-> -S[k]]
<1>2. T[0] = 0 /\ T[n] = -S[n]
    BY <1>1
<1>3. ASSUME NEW k \in 1..n PROVE T[k] = T[k - 1] + t[k].cents
    <2>1. k \in 0..n /\ k - 1 \in 0..n
        OBVIOUS
    <2>2. S[k] = S[k - 1] + s[k].cents /\ S[k - 1] \in Int /\ s[k].cents \in Int
        BY <1>1, <2>1 DEF Cents
    <2> QED
        BY <2>1, <2>2
<1>4. Cents(t)
    BY DEF Cents
<1> HIDE DEF T
<1> QED
    BY <1>1, <1>2, <1>3, <1>4, TotalIs

\* The table of Filter, for the positions that are kept.
KeptEntry(s, ok, g, U) ==
    IF U = {} THEN << >>
    ELSE IF ok[Max(U)] THEN Append(g[ButLast(U)], s[Max(U)]) ELSE g[ButLast(U)]
IsKeptTable(s, ok, g, S) == g = [U \in SUBSET S |-> KeptEntry(s, ok, g, U)]

LEMMA KeptTableExists ==
    ASSUME NEW n \in Nat, NEW s, NEW ok
    PROVE  \E g : IsKeptTable(s, ok, g, 1..n)
<1> DEFINE V == Seq({s[i] : i \in 1..n})
           step == [c \in V \X (1..n) |-> IF ok[c[2]] THEN Append(c[1], s[c[2]]) ELSE c[1]]
<1>1. step \in [V \X (1..n) -> V] /\ << >> \in V
    OBVIOUS
<1>2. \A r \in V : \A i \in 1..n :
          step[<<r, i>>] = IF ok[i] THEN Append(r, s[i]) ELSE r
    OBVIOUS
<1> HIDE DEF step, V
<1>3. PICK g : IsStepTable(V, << >>, step, g, 1..n)
    BY <1>1, StepTableExists
<1>4. ASSUME NEW U \in SUBSET (1..n) PROVE g[U] = KeptEntry(s, ok, g, U)
    <2>1. g[U] = StepEntry(<< >>, step, g, U)
        BY <1>3 DEF IsStepTable
    <2>2. U # {} => Max(U) \in 1..n /\ ButLast(U) \in SUBSET (1..n)
        BY MaxTaken DEF ButLast
    <2>3. U # {} => g[ButLast(U)] \in V
        BY <1>3, <2>2 DEF IsStepTable
    <2> QED
        BY <1>2, <2>1, <2>2, <2>3 DEF StepEntry, KeptEntry
<1> QED
    BY <1>3, <1>4 DEF IsStepTable, IsKeptTable

LEMMA KeptPrefixes ==
    ASSUME NEW n \in Nat, NEW s, NEW ok, NEW g, IsKeptTable(s, ok, g, 1..n)
    PROVE  \A k \in 1..n :
              g[1..k] = IF ok[k] THEN Append(g[1..(k - 1)], s[k]) ELSE g[1..(k - 1)]
<1> TAKE k \in 1..n
<1>1. /\ 1..k \in SUBSET (1..n) /\ 1..k # {}
      /\ Max(1..k) = k /\ ButLast(1..k) = 1..(k - 1)
    BY PrefixSets
<1>2. g[1..k] = KeptEntry(s, ok, g, 1..k)
    BY <1>1, Zenon DEF IsKeptTable
<1> QED
    BY <1>1, <1>2, Zenon DEF KeptEntry

\* What is kept are elements at positions that are kept.
KeptOf(s, ok, n) == {s[i] : i \in {j \in 1..n : ok[j]}}

LEMMA KeptElements ==
    ASSUME NEW n \in Nat, NEW s, NEW ok, NEW g, IsKeptTable(s, ok, g, 1..n)
    PROVE  \A k \in 0..n : g[1..k] \in Seq(KeptOf(s, ok, n))
<1> DEFINE Y == KeptOf(s, ok, n)
           Good == {k \in 0..n : g[1..k] \in Seq(Y)}
<1>1. \A i \in 1..n : ok[i] => s[i] \in Y
    BY DEF KeptOf
<1> HIDE DEF Y
<1>2. 0 \in Good
    <2>1. g[{}] = << >>
        BY DEF IsKeptTable, KeptEntry
    <2>2. 1..0 = {} /\ 0 \in 0..n /\ << >> \in Seq(Y)
        OBVIOUS
    <2> QED
        BY <2>1, <2>2
<1>3. ASSUME NEW k \in 0..(n - 1), k \in Good PROVE k + 1 \in Good
    <2>1. k + 1 \in 1..n /\ (k + 1) - 1 = k /\ g[1..k] \in Seq(Y)
        BY <1>3
    <2>2. g[1..(k + 1)] = IF ok[k + 1] THEN Append(g[1..k], s[k + 1]) ELSE g[1..k]
        BY <2>1, KeptPrefixes
    <2>3. g[1..(k + 1)] \in Seq(Y)
        BY <1>1, <2>1, <2>2
    <2> QED
        BY <2>1, <2>3
<1> HIDE DEF Good
<1>4. \A k \in 0..n : k \in Good
    BY <1>2, <1>3, UpTo
<1> QED
    BY <1>4 DEF Good, Y

\* The total stays when what is left out counts for nothing.
LEMMA KeptTotal ==
    ASSUME NEW n \in Nat, NEW s, DOMAIN s = 1..n, Cents(s),
           NEW ok, NEW g, IsKeptTable(s, ok, g, 1..n),
           \A i \in 1..n : ~ok[i] => s[i].cents = 0
    PROVE  Total(g[1..n]) = Total(s)
<1>1. PICK S : /\ S \in [0..n -> Int] /\ S[0] = 0 /\ S[n] = Total(s)
               /\ \A k \in 1..n : S[k] = S[k - 1] + s[k].cents
    BY TotalPrefixes
<1> DEFINE Y == KeptOf(s, ok, n)
           Good == {k \in 0..n : Total(g[1..k]) = S[k]}
<1>2. \A k \in 0..n : g[1..k] \in Seq(Y)
    BY KeptElements
<1>3. \A i \in 1..n : ok[i] => s[i] \in Y
    BY DEF KeptOf
<1>4. \A y \in Y : y.cents \in Int
    BY DEF Cents, KeptOf
<1> HIDE DEF Y
<1>5. \A q \in Seq(Y) : Cents(q)
    <2> TAKE q \in Seq(Y)
    <2>1. \A i \in DOMAIN q : q[i] \in Y
        OBVIOUS
    <2> QED
        BY <1>4, <2>1 DEF Cents
<1>6. 0 \in Good
    <2>1. g[{}] = << >>
        BY DEF IsKeptTable, KeptEntry
    <2>2. 1..0 = {} /\ 0 \in 0..n
        OBVIOUS
    <2> QED
        BY <1>1, <2>1, <2>2, TotalOfNone
<1>7. ASSUME NEW k \in 0..(n - 1), k \in Good PROVE k + 1 \in Good
    <2>1. k + 1 \in 1..n /\ (k + 1) - 1 = k /\ g[1..k] \in Seq(Y) /\ k \in 0..n
        BY <1>2
    <2>2. g[1..(k + 1)] = IF ok[k + 1] THEN Append(g[1..k], s[k + 1]) ELSE g[1..k]
        BY <2>1, KeptPrefixes
    <2>3. S[k + 1] = S[k] + s[k + 1].cents /\ S[k] \in Int /\ Total(g[1..k]) = S[k]
        BY <1>1, <1>7, <2>1
    <2>4. CASE ~ok[k + 1]
        BY <2>1, <2>2, <2>3, <2>4
    <2>5. CASE ok[k + 1]
        <3> DEFINE q == g[1..k]
                   t == <<s[k + 1]>>
        <3>1. q \in Seq(Y) /\ t \in Seq(Y) /\ g[1..(k + 1)] = q \o t
            BY <1>3, <2>1, <2>2, <2>5
        <3>2. s[k + 1].cents \in Int
            BY <1>3, <1>4, <2>1, <2>5
        <3>3. Total(t) = s[k + 1].cents
            BY <3>2, TotalOfOne
        <3> HIDE DEF q, t
        <3>4. Total(q \o t) = Total(q) + Total(t)
            BY <1>5, <3>1, TotalOfBoth
        <3>5. Total(q) = S[k]
            BY <2>3 DEF q
        <3>6. Total(g[1..(k + 1)]) = S[k + 1]
            BY <2>3, <3>1, <3>3, <3>4, <3>5
        <3> QED
            BY <2>1, <3>6
    <2> QED
        BY <2>4, <2>5
<1> HIDE DEF Good
<1>8. \A k \in 0..n : k \in Good
    BY <1>6, <1>7, UpTo
<1> QED
    BY <1>1, <1>8 DEF Good

-----------------------------------------------------------------------------
(* The order of the list.                                                  *)

LEMMA GreatestExists ==
    ASSUME NEW S \in SUBSET Nat, IsFiniteSet(S)
    PROVE  \A T \in SUBSET S : T # {} => \E x \in T : \A y \in T : y <= x
<1> DEFINE Good == {T \in SUBSET S : T # {} => \E x \in T : \A y \in T : y <= x}
<1>1. {} \in Good
    OBVIOUS
<1>2. ASSUME NEW T \in SUBSET S, T # {}, Left(T) \in Good PROVE T \in Good
    <2>1. Taken(T) \in T /\ T = Left(T) \cup {Taken(T)}
        BY <1>2, TakenLeft DEF Left
    <2>2. CASE Left(T) = {}
        <3>1. Taken(T) \in Nat /\ \A y \in T : y = Taken(T)
            BY <2>1, <2>2
        <3>2. \A y \in T : y <= Taken(T)
            BY <3>1
        <3> QED
            BY <2>1, <3>2
    <2>3. CASE Left(T) # {}
        <3>1. PICK x \in Left(T) : \A y \in Left(T) : y <= x
            BY <1>2, <2>3
        <3>2. x \in Nat /\ Taken(T) \in Nat /\ \A y \in Left(T) : y \in Nat
            BY <2>1, <3>1
        <3>3. CASE Taken(T) <= x
            <4>1. x \in T /\ \A y \in T : y <= x
                BY <2>1, <3>1, <3>3
            <4> QED
                BY <4>1
        <3>4. CASE x <= Taken(T)
            <4>1. \A y \in T : y <= Taken(T)
                BY <2>1, <3>1, <3>2, <3>4
            <4> QED
                BY <2>1, <4>1
        <3> QED
            BY <3>2, <3>3, <3>4
    <2> QED
        BY <2>2, <2>3
<1> HIDE DEF Good
<1>3. \A T \in SUBSET S : T \in Good
    BY <1>1, <1>2, FoldInduction
<1> QED
    BY <1>3 DEF Good

Ordered(s, S) == /\ s \in [1..Cardinality(S) -> S]
                 /\ \A i, j \in DOMAIN s : i < j => s[i] < s[j]

LEMMA OrderedExists ==
    ASSUME NEW S \in SUBSET Nat, IsFiniteSet(S)
    PROVE  \A T \in SUBSET S : \E s : Ordered(s, T)
<1> DEFINE Good == {T \in SUBSET S : \E s : Ordered(s, T)}
<1>1. ASSUME NEW T \in SUBSET S, \A U \in SUBSET T : U # T => U \in Good PROVE T \in Good
    <2>0. IsFiniteSet(T)
        BY FS_Subset
    <2>1. CASE T = {}
        <3>1. Cardinality(T) = 0 /\ 1..0 = {}
            BY <2>1, FS_EmptySet
        <3>2. Ordered([i \in 1..0 |-> i], T)
            BY <3>1 DEF Ordered
        <3> QED
            BY <3>2
    <2>2. CASE T # {}
        <3>1. PICK x \in T : \A y \in T : y <= x
            BY <2>2, GreatestExists
        <3> DEFINE U == T \ {x}
                   n == Cardinality(U)
        <3>2. /\ IsFiniteSet(U) /\ n \in Nat /\ Cardinality(T) = n + 1
            <4>1. IsFiniteSet(U) /\ x \notin U /\ U \cup {x} = T
                BY <2>0, FS_Subset
            <4> HIDE DEF U
            <4> QED
                BY <4>1, FS_AddElement, FS_CardinalityType
        <3>3. PICK s : Ordered(s, U)
            <4>1. U \in SUBSET T /\ U # T
                OBVIOUS
            <4> HIDE DEF U
            <4> QED
                BY <1>1, <4>1
        <3>4. s \in [1..n -> U] /\ \A i, j \in 1..n : i < j => s[i] < s[j]
            BY <3>3 DEF Ordered
        <3> HIDE DEF n
        <3> DEFINE t == [i \in 1..(n + 1) |-> IF i = n + 1 THEN x ELSE s[i]]
        <3>5. \A i \in 1..n : t[i] = s[i] /\ s[i] \in T /\ s[i] < x
            <4> TAKE i \in 1..n
            <4>1. s[i] \in U
                BY <3>4
            <4>2. s[i] <= x /\ s[i] # x /\ s[i] \in Nat /\ x \in Nat
                BY <3>1, <4>1
            <4> QED
                BY <3>2, <4>1, <4>2
        <3>6. t[n + 1] = x /\ DOMAIN t = 1..(n + 1) /\ n + 1 \in 1..(n + 1)
            BY <3>2
        <3>7. \A i \in 1..(n + 1) : i \in 1..n \/ i = n + 1
            BY <3>2
        <3>8. t \in [1..(n + 1) -> T]
            BY <3>5, <3>7
        <3> HIDE DEF t
        <3>9. \A i, j \in 1..(n + 1) : i < j => t[i] < t[j]
            <4> SUFFICES ASSUME NEW i \in 1..(n + 1), NEW j \in 1..(n + 1), i < j
                         PROVE  t[i] < t[j]
                OBVIOUS
            <4>1. i \in 1..n
                BY <3>2
            <4> QED
                BY <3>4, <3>5, <3>6, <3>7, <4>1
        <3>10. Ordered(t, T)
            BY <3>2, <3>6, <3>8, <3>9 DEF Ordered
        <3> QED
            BY <3>10
    <2> QED
        BY <2>1, <2>2
<1> HIDE DEF Good
<1>2. \A T \in SUBSET S : T \in Good
    BY <1>1, SubsetInduction
<1> QED
    BY <1>2 DEF Good

\* A set of budgets is listed without repeating one.
LEMMA ListOrder ==
    ASSUME NEW S \in SUBSET Budgets
    PROVE  /\ InListOrder(S) \in Seq(S)
           /\ InListOrder(S) = << >> <=> S = {}
           /\ \A i, j \in DOMAIN InListOrder(S) :
                 i # j => InListOrder(S)[i] # InListOrder(S)[j]
<1> DEFINE L == InListOrder(S)
           n == Cardinality(S)
<1>1. IsFiniteSet(S) /\ n \in Nat /\ (n = 0 <=> S = {}) /\ S \in SUBSET Nat
    <2>1. IsFiniteSet(S)
        BY DashboardAssumption, FS_Subset
    <2> QED
        BY <2>1, DashboardAssumption, FS_CardinalityType, FS_EmptySet
<1>2. Ordered(L, S)
    <2>1. \E s : Ordered(s, S)
        BY <1>1, OrderedExists
    <2> QED
        BY <2>1 DEF Ordered, InListOrder
<1> HIDE DEF L, n
<1>3. L \in [1..n -> S] /\ \A i, j \in 1..n : i < j => L[i] < L[j]
    BY <1>2 DEF Ordered, n
<1>4. L \in Seq(S) /\ Len(L) = n /\ DOMAIN L = 1..n
    BY <1>1, <1>3
<1>5. L = << >> <=> S = {}
    BY <1>1, <1>4
<1>6. \A i, j \in 1..n : i # j => L[i] # L[j]
    <2> SUFFICES ASSUME NEW i \in 1..n, NEW j \in 1..n, i < j PROVE L[i] # L[j]
        BY <1>1
    <2>1. L[i] < L[j] /\ L[i] \in Nat /\ L[j] \in Nat
        BY <1>1, <1>3
    <2> QED
        BY <2>1
<1> QED
    BY <1>4, <1>5, <1>6 DEF L

LEMMA DueIsKept ==
    ASSUME NEW n \in Nat, NEW s, DOMAIN s = 1..n
    PROVE  \E g : /\ IsKeptTable(s, [i \in 1..n |-> s[i].cents # 0], g, 1..n)
                  /\ Due(s) = g[1..n]
<1> DEFINE ok == [i \in 1..n |-> s[i].cents # 0]
           DueEntry(g, U) ==
               IF U = {} THEN << >>
               ELSE IF s[Max(U)].cents # 0 THEN Append(g[ButLast(U)], s[Max(U)])
                    ELSE g[ButLast(U)]
           IsDue(g) == g = [U \in SUBSET (1..n) |-> DueEntry(g, U)]
<1>1. Due(s) = (CHOOSE g : IsDue(g))[1..n]
    BY DEF Due, Filter, FoldLeft, MapThenFoldSet, ButLast
<1>2. ASSUME NEW g, NEW U \in SUBSET (1..n) PROVE DueEntry(g, U) = KeptEntry(s, ok, g, U)
    <2>1. U # {} => Max(U) \in 1..n
        BY MaxTaken
    <2> QED
        BY <2>1 DEF KeptEntry
<1> HIDE DEF ok, DueEntry
<1>3. \A g : IsDue(g) <=> IsKeptTable(s, ok, g, 1..n)
    BY <1>2 DEF IsKeptTable
<1>4. \E g : IsDue(g)
    <2>1. \E g : IsKeptTable(s, ok, g, 1..n)
        BY KeptTableExists
    <2> HIDE DEF IsDue
    <2> QED
        BY <1>3, <2>1
<1> HIDE DEF IsDue
<1>5. IsDue(CHOOSE g : IsDue(g))
    BY <1>4
<1> QED
    BY <1>1, <1>3, <1>5 DEF ok

LEMMA ActiveIsKept ==
    ASSUME NEW n \in Nat, NEW f, DOMAIN f.lines = 1..n
    PROVE  \E g : /\ IsKeptTable(f.lines,
                                 [i \in 1..n |-> f.lines[i].budget # NoBudget
                                                 /\ f.lines[i].cents > 0], g, 1..n)
                  /\ ActiveLines(f) = g[1..n]
<1> DEFINE s == f.lines
           ok == [i \in 1..n |-> s[i].budget # NoBudget /\ s[i].cents > 0]
           ActiveEntry(g, U) ==
               IF U = {} THEN << >>
               ELSE IF s[Max(U)].budget # NoBudget /\ s[Max(U)].cents > 0
                    THEN Append(g[ButLast(U)], s[Max(U)])
                    ELSE g[ButLast(U)]
           IsActive(g) == g = [U \in SUBSET (1..n) |-> ActiveEntry(g, U)]
<1>1. ActiveLines(f) = (CHOOSE g : IsActive(g))[1..n]
    BY DEF ActiveLines, Filter, FoldLeft, MapThenFoldSet, ButLast
<1>2. ASSUME NEW g, NEW U \in SUBSET (1..n) PROVE ActiveEntry(g, U) = KeptEntry(s, ok, g, U)
    <2>1. U # {} => Max(U) \in 1..n
        BY MaxTaken
    <2> QED
        BY <2>1 DEF KeptEntry
<1> HIDE DEF ok, ActiveEntry, s
<1>3. \A g : IsActive(g) <=> IsKeptTable(s, ok, g, 1..n)
    BY <1>2 DEF IsKeptTable
<1>4. \E g : IsActive(g)
    <2>1. \E g : IsKeptTable(s, ok, g, 1..n)
        BY KeptTableExists
    <2> HIDE DEF IsActive
    <2> QED
        BY <1>3, <2>1
<1> HIDE DEF IsActive
<1>5. IsActive(CHOOSE g : IsActive(g))
    BY <1>4
<1> QED
    BY <1>1, <1>3, <1>5 DEF ok, s

-----------------------------------------------------------------------------
(* The plans.                                                              *)

Request == [budget: Budgets, cents: Int \ {0}]

\* Even parts: they make up the total, and differ by a cent at most.
LEMMA SplitAddsUp ==
    ASSUME NEW n \in Nat \ {0}, NEW total \in Nat, NEW s, DOMAIN s = 1..n,
           \A i \in 1..n : s[i].cents = -SplitEvenly(total, n)[i]
    PROVE  /\ Cents(s) /\ Total(s) = -total
           /\ \A i \in 1..n : s[i].cents <= 0
           /\ \A i, j \in 1..n : s[i].cents - s[j].cents \in {-1, 0, 1}
<1> DEFINE q == total \div n
           r == total % n
           T == [k \in 0..n |-> -(k * q + IF k <= r THEN k ELSE r)]
<1>1. q \in Nat /\ r \in 0..(n - 1) /\ total = n * q + r
    BY Quotient
<1>2. \A i \in 1..n : s[i].cents = -(q + IF i <= r THEN 1 ELSE 0)
    BY DEF SplitEvenly
<1> HIDE DEF q, r
<1>3. Cents(s) /\ \A i \in 1..n : s[i].cents <= 0
    <2>1. ASSUME NEW i \in 1..n PROVE s[i].cents \in Int /\ s[i].cents <= 0
        <3> DEFINE part == q + IF i <= r THEN 1 ELSE 0
        <3>1. part \in Nat
            BY <1>1
        <3>2. s[i].cents = -part
            BY <1>2
        <3> HIDE DEF part
        <3> QED
            BY <3>1, <3>2
    <2> QED
        BY <2>1 DEF Cents
<1>4. T[0] = 0 /\ T[n] = -total
    <2>1. T[0] = -(0 * q + 0) /\ T[n] = -(n * q + r)
        BY <1>1
    <2>2. 0 * q = 0
        BY <1>1
    <2> HIDE DEF T
    <2> QED
        BY <1>1, <2>1, <2>2
<1>5. ASSUME NEW k \in 1..n PROVE T[k] = T[k - 1] + s[k].cents
    <2> DEFINE a == k * q
               b == (k - 1) * q
    <2>1. a = b + q /\ a \in Int /\ b \in Int
        <3>1. (k - 1) * q = k * q - q /\ k * q \in Int
            BY <1>1, Z3
        <3> QED
            BY <1>1, <3>1
    <2>2. /\ T[k] = -(a + IF k <= r THEN k ELSE r)
          /\ T[k - 1] = -(b + IF k - 1 <= r THEN k - 1 ELSE r)
        OBVIOUS
    <2> HIDE DEF a, b, T
    <2> QED
        BY <1>1, <1>2, <2>1, <2>2
<1> HIDE DEF T
<1>6. Total(s) = -total
    BY <1>3, <1>4, <1>5, TotalIs
<1>7. ASSUME NEW i \in 1..n, NEW j \in 1..n PROVE s[i].cents - s[j].cents \in {-1, 0, 1}
    BY <1>1, <1>2
<1> QED
    BY <1>3, <1>6, <1>7

LEMMA RequestCents == ASSUME NEW s \in Seq(Request) PROVE Cents(s)
<1>1. \A i \in DOMAIN s : s[i] \in Request
    OBVIOUS
<1> QED
    BY <1>1 DEF Request, Cents

LEMMA NotEmpty ==
    ASSUME NEW X, NEW s \in Seq(X), s # << >>
    PROVE  Len(s) \in Nat \ {0} /\ DOMAIN s = 1..Len(s) /\ \A i \in 1..Len(s) : s[i] \in X
<1>1. Len(s) \in Nat /\ DOMAIN s = 1..Len(s) /\ \A i \in 1..Len(s) : s[i] \in X
    OBVIOUS
<1>2. Len(s) # 0
    OBVIOUS
<1> QED
    BY <1>1, <1>2

LEMMA Joined ==
    ASSUME NEW X, NEW s \in Seq(X), NEW t \in Seq(X)
    PROVE  /\ s \o t \in Seq(X) /\ Len(s \o t) = Len(s) + Len(t)
           /\ \A i \in 1..Len(s) : (s \o t)[i] = s[i]
           /\ \A i \in 1..Len(t) : (s \o t)[Len(s) + i] = t[i]
    OBVIOUS

LEMMA TotalOfTwo ==
    ASSUME NEW q \in Request, NEW r \in Request
    PROVE  <<q, r>> \in Seq(Request) /\ Total(<<q, r>>) = q.cents + r.cents
<1> DEFINE s == <<q>>
           t == <<r>>
<1>1. s \in Seq(Request) /\ t \in Seq(Request) /\ <<q, r>> = s \o t
    <2>1. s \in Seq(Request) /\ t \in Seq(Request) /\ Len(s) = 1 /\ Len(t) = 1
        OBVIOUS
    <2>2. s[1] = q /\ t[1] = r
        OBVIOUS
    <2> HIDE DEF s, t
    <2>3. s \o t \in Seq(Request) /\ Len(s \o t) = 2
        <3>1. s \o t \in Seq(Request) /\ Len(s \o t) = Len(s) + Len(t)
            BY <2>1, Joined
        <3> QED
            BY <2>1, <3>1
    <2>4. (s \o t)[1] = q /\ (s \o t)[2] = r
        <3>1. /\ \A i \in 1..Len(s) : (s \o t)[i] = s[i]
              /\ \A i \in 1..Len(t) : (s \o t)[Len(s) + i] = t[i]
            BY <2>1, Joined
        <3>2. 1 \in 1..Len(s) /\ 1 \in 1..Len(t) /\ Len(s) + 1 = 2
            BY <2>1
        <3> QED
            BY <2>2, <3>1, <3>2
    <2>5. <<q, r>> \in Seq(Request) /\ Len(<<q, r>>) = 2 /\ <<q, r>>[1] = q /\ <<q, r>>[2] = r
        OBVIOUS
    <2> QED
        BY <2>1, <2>3, <2>4, <2>5
<1>2. Total(s) = q.cents /\ Total(t) = r.cents
    BY TotalOfOne DEF Request
<1> HIDE DEF s, t
<1>3. Cents(s) /\ Cents(t)
    BY <1>1, RequestCents
<1>4. Total(s \o t) = Total(s) + Total(t)
    BY <1>1, <1>3, TotalOfBoth
<1>5. <<q, r>> \in Seq(Request)
    OBVIOUS
<1> QED
    BY <1>1, <1>2, <1>4, <1>5

LEMMA TransactionPlanned ==
    ASSUME NEW f \in FormType["transaction"], Ready("transaction", f)
    PROVE  /\ TransactionPlan(f) \in Seq(Request)
           /\ f.transfer => Total(TransactionPlan(f)) = 0
<1>1. /\ f.budget \in Budgets /\ f.amount \in Nat \ {0}
      /\ f.transfer \in BOOLEAN /\ f.transferTo \in Budgets \cup {NoBudget}
    BY DEF FormType
<1>2. CASE f.transfer
    <2> DEFINE q == Entry(f.budget, -f.amount)
               r == Entry(f.transferTo, f.amount)
    <2>1. f.transferTo \notin {NoBudget, f.budget} /\ f.transferTo \in Budgets
        BY <1>1, <1>2 DEF Ready
    <2>2. /\ q \in Request /\ r \in Request
          /\ q.cents = -f.amount /\ r.cents = f.amount
        BY <1>1, <2>1 DEF Request, Entry
    <2>3. TransactionPlan(f) = <<q, r>>
        BY <1>2, <2>1 DEF TransactionPlan
    <2> HIDE DEF q, r
    <2>4. <<q, r>> \in Seq(Request) /\ Total(<<q, r>>) = q.cents + r.cents
        BY <2>2, TotalOfTwo
    <2> QED
        BY <1>1, <2>2, <2>3, <2>4
<1>3. CASE ~f.transfer
    <2> DEFINE r == Entry(f.budget, IF f.credit THEN f.amount ELSE -f.amount)
    <2>1. r \in Request
        BY <1>1 DEF Request, Entry
    <2>2. TransactionPlan(f) = <<r>>
        BY <1>3 DEF TransactionPlan
    <2> HIDE DEF r
    <2> QED
        BY <1>3, <2>1, <2>2
<1> QED
    BY <1>2, <1>3

LEMMA ReceiptPlanned ==
    ASSUME NEW f \in FormType["receipt"], Ready("receipt", f)
    PROVE  /\ ReceiptPlan(f) \in Seq(Request)
           /\ ReceiptPlan(f) # << >> => Total(ReceiptPlan(f)) = -f.total
<1> DEFINE Line == [budget: Budgets \cup {NoBudget}, cents: Int]
           lines == ActiveLines(f)
           n == Len(f.lines)
           m == Len(lines)
           remainder == f.total - Total(lines)
           debits == [i \in 1..m |-> Entry(lines[i].budget, -lines[i].cents)]
           rest == IF remainder > 0 THEN <<Entry(f.catchAll, -remainder)>> ELSE << >>
<1>1. /\ f.lines \in Seq(Line) /\ f.total \in Int /\ f.catchAll \in Budgets
      /\ n \in Nat /\ DOMAIN f.lines = 1..n /\ \A i \in 1..n : f.lines[i] \in Line
    <2>1. f.lines \in Seq(Line) /\ f.total \in Int /\ f.catchAll \in Budgets
        BY DEF FormType, Ready
    <2> HIDE DEF Line
    <2> QED
        BY <2>1
<1>2. ReceiptPlan(f) =
          IF f.total <= 0 \/ lines = << >> \/ remainder < 0 THEN << >> ELSE debits \o rest
    BY DEF ReceiptPlan
<1> DEFINE ok == [i \in 1..n |-> f.lines[i].budget # NoBudget /\ f.lines[i].cents > 0]
           Active == {l \in Line : l.budget # NoBudget /\ l.cents > 0}
<1>3. lines \in Seq(Active)
    <2>1. PICK g : IsKeptTable(f.lines, ok, g, 1..n) /\ lines = g[1..n]
        BY <1>1, ActiveIsKept
    <2>2. g[1..n] \in Seq(KeptOf(f.lines, ok, n))
        BY <1>1, <2>1, KeptElements
    <2>3. KeptOf(f.lines, ok, n) \subseteq Active
        BY <1>1 DEF KeptOf
    <2> HIDE DEF Active, ok, lines, n
    <2> QED
        BY <2>1, <2>2, <2>3
<1> HIDE DEF n
<1>4. /\ m \in Nat /\ DOMAIN lines = 1..m
      /\ \A i \in 1..m : /\ lines[i].budget \in Budgets
                         /\ lines[i].cents \in Int /\ lines[i].cents > 0
    <2> HIDE DEF lines
    <2>1. m \in Nat /\ DOMAIN lines = 1..m /\ \A i \in 1..m : lines[i] \in Active
        BY <1>3
    <2> QED
        BY <2>1
<1> HIDE DEF lines, m, Active
<1>5. Cents(lines) /\ Total(lines) \in Int
    <2>1. Cents(lines)
        BY <1>4 DEF Cents
    <2> QED
        BY <1>4, <2>1, TotalType
<1>6. /\ debits \in Seq(Request) /\ DOMAIN debits = 1..m
      /\ \A i \in 1..m : debits[i].cents = -lines[i].cents
    <2>1. \A i \in 1..m : Entry(lines[i].budget, -lines[i].cents) \in Request
        BY <1>4 DEF Request, Entry
    <2>2. debits \in [1..m -> Request]
        BY <2>1
    <2>3. \A i \in 1..m : debits[i].cents = -lines[i].cents
        BY DEF Entry
    <2> HIDE DEF debits
    <2> QED
        BY <1>4, <2>2, <2>3
<1> HIDE DEF debits
<1>7. Total(debits) = -Total(lines)
    BY <1>4, <1>5, <1>6, TotalOfOpposites
<1>8. /\ remainder >= 0 => Total(rest) = -remainder
      /\ rest \in Seq(Request)
    <2>1. CASE remainder > 0
        <3> DEFINE r == Entry(f.catchAll, -remainder)
        <3>1. r \in Request /\ r.cents = -remainder
            BY <1>1, <1>5, <2>1 DEF Request, Entry
        <3>2. rest = <<r>>
            BY <2>1
        <3> HIDE DEF r, rest, remainder
        <3>3. Total(<<r>>) = -remainder
            BY <3>1, TotalOfOne DEF Request
        <3> QED
            BY <3>1, <3>2, <3>3
    <2>2. CASE ~(remainder > 0)
        BY <1>1, <1>5, <2>2, TotalOfNone
    <2> QED
        BY <2>1, <2>2
<1> HIDE DEF rest
<1>9. Total(debits \o rest) = Total(debits) + Total(rest) /\ debits \o rest \in Seq(Request)
    BY <1>6, <1>8, RequestCents, TotalOfBoth
<1>10. remainder \in Int /\ remainder = f.total - Total(lines)
    BY <1>1, <1>5
<1> HIDE DEF remainder
<1> QED
    BY <1>1, <1>2, <1>5, <1>7, <1>8, <1>9, <1>10

\* What a wizard posts, when the rows are as it planned with them: its credits bring
\* budgets that are in the red to zero, and nothing else it posts touches those.
SettlesRows(p, rows) ==
    \A i \in DOMAIN p : p[i].cents > 0 =>
        /\ p[i].budget \in DOMAIN rows /\ rows[p[i].budget] = -p[i].cents
        /\ \A j \in DOMAIN p : j # i => p[j].budget # p[i].budget

LEMMA WizardPlanned ==
    ASSUME NEW f \in FormType["wizard"], NEW rows, DOMAIN rows \subseteq Budgets,
           \A b \in DOMAIN rows : rows[b] \in Int, WizardPlan(f, rows) # << >>
    PROVE  /\ WizardPlan(f, rows) \in Seq(Request)
           /\ Total(WizardPlan(f, rows)) = 0
           /\ \A q, r \in ToSet(WizardPlan(f, rows)) :
                 q.cents < 0 /\ r.cents < 0 => q.cents - r.cents \in {-1, 0, 1}
           /\ SettlesRows(WizardPlan(f, rows), rows)
<1> DEFINE N == {b \in f.negatives \cap DOMAIN rows : rows[b] < 0}
           P == {b \in f.positives \cap DOMAIN rows : rows[b] > 0}
           negatives == InListOrder(N)
           positives == InListOrder(P)
           n == Len(negatives)
           m == Len(positives)
           credits == [i \in 1..n |-> Entry(negatives[i], -rows[negatives[i]])]
           parts == SplitEvenly(Total(credits), m)
           debits == [i \in 1..m |-> Entry(positives[i], -parts[i])]
<1>1. WizardPlan(f, rows) = Due(debits) \o credits /\ negatives # << >> /\ positives # << >>
    BY DEF WizardPlan
<1>2. /\ N \in SUBSET Budgets /\ \A b \in N : rows[b] \in Int /\ rows[b] < 0 /\ b \in DOMAIN rows
      /\ P \in SUBSET Budgets /\ \A b \in P : rows[b] \in Int /\ rows[b] > 0 /\ b \in DOMAIN rows
    OBVIOUS
<1> HIDE DEF N, P
<1>3. /\ negatives \in Seq(N) /\ \A i, j \in DOMAIN negatives : i # j => negatives[i] # negatives[j]
      /\ positives \in Seq(P)
    BY <1>2, ListOrder
<1> HIDE DEF negatives, positives
<1>4. /\ n \in Nat \ {0} /\ DOMAIN negatives = 1..n /\ \A i \in 1..n : negatives[i] \in N
      /\ m \in Nat \ {0} /\ DOMAIN positives = 1..m /\ \A i \in 1..m : positives[i] \in P
    BY <1>1, <1>3, NotEmpty, Zenon
<1> HIDE DEF n, m
<1>5. \A i \in 1..n : /\ credits[i].budget = negatives[i]
                      /\ credits[i].cents = -rows[negatives[i]]
                      /\ credits[i].cents \in Nat \ {0} /\ credits[i] \in Request
    <2> TAKE i \in 1..n
    <2>1. negatives[i] \in N /\ credits[i] = Entry(negatives[i], -rows[negatives[i]])
        BY <1>4
    <2> HIDE DEF credits
    <2> QED
        BY <1>2, <2>1 DEF Entry, Request
<1>6. DOMAIN credits = 1..n /\ DOMAIN debits = 1..m
    OBVIOUS
<1>7. credits \in Seq(Request) /\ Len(credits) = n
    <2>1. credits = [i \in 1..n |-> credits[i]]
        OBVIOUS
    <2> HIDE DEF credits
    <2> QED
        BY <1>4, <1>5, <2>1
<1>8. \A i \in 1..m : /\ debits[i] = Entry(positives[i], -parts[i])
                      /\ debits[i].budget = positives[i] /\ debits[i].cents = -parts[i]
    BY DEF Entry
<1> HIDE DEF credits
<1>9. Cents(credits) /\ Total(credits) \in Nat
    <2>1. Cents(credits)
        BY <1>7, RequestCents
    <2>2. PICK T : /\ T \in [0..n -> Int] /\ T[0] = 0 /\ T[n] = Total(credits)
                   /\ \A k \in 1..n : T[k] = T[k - 1] + credits[k].cents
        BY <1>4, <1>6, <2>1, TotalPrefixes
    <2> DEFINE Good == {k \in 0..n : T[k] \in Nat}
    <2>3. 0 \in Good
        BY <1>4, <2>2
    <2>4. ASSUME NEW k \in 0..(n - 1), k \in Good PROVE k + 1 \in Good
        <3>1. k + 1 \in 1..n /\ (k + 1) - 1 = k /\ k + 1 \in 0..n
            BY <1>4
        <3> QED
            BY <1>5, <2>2, <2>4, <3>1
    <2> HIDE DEF Good
    <2>5. \A k \in 0..n : k \in Good
        BY <1>4, <2>3, <2>4, UpTo
    <2>6. n \in 0..n
        BY <1>4
    <2> QED
        BY <2>1, <2>2, <2>5, <2>6 DEF Good
<1> DEFINE total == Total(credits)
<1> HIDE DEF debits
<1>10. /\ Cents(debits) /\ Total(debits) = -total
       /\ \A i \in 1..m : debits[i].cents <= 0
       /\ \A i, j \in 1..m : debits[i].cents - debits[j].cents \in {-1, 0, 1}
    <2>1. \A i \in 1..m : debits[i].cents = -SplitEvenly(total, m)[i]
        BY <1>8
    <2>2. total \in Nat
        BY <1>9
    <2> HIDE DEF total
    <2> QED
        BY <1>4, <1>6, <2>1, <2>2, SplitAddsUp
<1> HIDE DEF parts
<1> DEFINE ok == [i \in 1..m |-> debits[i].cents # 0]
           D == Due(debits)
           Left1 == {r \in Request : r.cents < 0 /\ \E i \in 1..m : r = debits[i]}
<1>11. PICK g : IsKeptTable(debits, ok, g, 1..m) /\ D = g[1..m]
    BY <1>4, <1>6, DueIsKept
<1>12. D \in Seq(Left1)
    <2>1. g[1..m] \in Seq(KeptOf(debits, ok, m))
        BY <1>4, <1>11, KeptElements
    <2>2. \A i \in 1..m : debits[i].cents # 0 => debits[i] \in Left1
        <3> SUFFICES ASSUME NEW i \in 1..m, debits[i].cents # 0 PROVE debits[i] \in Left1
            OBVIOUS
        <3>0. debits[i].cents # 0
            OBVIOUS
        <3>1. /\ debits[i].cents \in Int /\ debits[i].cents < 0 /\ positives[i] \in Budgets
              /\ debits[i] = Entry(positives[i], -parts[i])
            <4>1. debits[i].cents \in Int /\ debits[i].cents <= 0
                BY <1>6, <1>10 DEF Cents
            <4>2. positives[i] \in Budgets
                BY <1>2, <1>4
            <4> QED
                BY <1>8, <3>0, <4>1, <4>2
        <3>2. debits[i] \in Request
            BY <3>1 DEF Request, Entry
        <3> QED
            BY <3>1, <3>2
    <2>3. KeptOf(debits, ok, m) \subseteq Left1
        BY <2>2 DEF KeptOf
    <2> HIDE DEF Left1, ok, D
    <2> QED
        BY <1>11, <2>1, <2>3
<1>13. Total(D) = -total
    <2>1. \A i \in 1..m : ~ok[i] => debits[i].cents = 0
        OBVIOUS
    <2> HIDE DEF ok, D
    <2>2. Total(g[1..m]) = Total(debits)
        BY <1>4, <1>6, <1>10, <1>11, <2>1, KeptTotal
    <2> QED
        BY <1>10, <1>11, <2>2
<1>14. /\ D \in Seq(Request) /\ Len(D) \in Nat /\ DOMAIN D = 1..Len(D)
       /\ \A k \in 1..Len(D) : /\ D[k].cents < 0
                               /\ \E i \in 1..m : D[k] = debits[i]
                               /\ D[k].budget \in P
    <2> HIDE DEF D
    <2>1. Left1 \subseteq Request
        OBVIOUS
    <2>2. \A k \in 1..Len(D) : D[k] \in Left1
        BY <1>12
    <2>3. \A k \in 1..Len(D) : D[k].cents < 0 /\ \E i \in 1..m : D[k] = debits[i]
        BY <2>2
    <2>4. \A k \in 1..Len(D) : D[k].budget \in P
        BY <1>4, <1>8, <2>3
    <2> HIDE DEF Left1
    <2> QED
        BY <1>12, <2>1, <2>3, <2>4
<1> HIDE DEF D
<1> DEFINE W == D \o credits
           d == Len(D)
<1>15. /\ W \in Seq(Request) /\ DOMAIN W = 1..(d + n) /\ d \in Nat
       /\ \A k \in 1..d : W[k] = D[k]
       /\ \A k \in 1..n : W[d + k] = credits[k]
    <2>1. W \in Seq(Request) /\ Len(W) = d + n
        BY <1>7, <1>14, Joined
    <2>2. DOMAIN W = 1..(d + n) /\ d \in Nat
        <3> HIDE DEF W
        <3> QED
            BY <1>14, <2>1
    <2>3. /\ \A k \in 1..d : W[k] = D[k]
          /\ \A k \in 1..n : W[d + k] = credits[k]
        BY <1>7, <1>14, Joined
    <2> QED
        BY <2>1, <2>2, <2>3
<1>16. Total(W) = 0
    <2>1. Cents(D)
        BY <1>14, RequestCents
    <2>2. Total(W) = Total(D) + Total(credits)
        BY <1>7, <1>9, <1>14, <2>1, TotalOfBoth
    <2> QED
        BY <1>9, <1>13, <2>2
<1> HIDE DEF W, d, total
<1>17. ASSUME NEW k \in DOMAIN W
       PROVE  \/ k \in 1..d /\ W[k] = D[k]
              \/ \E i \in 1..n : k = d + i /\ W[k] = credits[i]
    <2>1. CASE k \in 1..d
        BY <1>15, <2>1
    <2>2. CASE k \notin 1..d
        <3>1. k - d \in 1..n /\ k = d + (k - d)
            BY <1>4, <1>15, <2>2
        <3>2. W[d + (k - d)] = credits[k - d]
            BY <1>15, <3>1
        <3> QED
            BY <3>1, <3>2
    <2> QED
        BY <2>1, <2>2
<1>18. \A q, r \in ToSet(W) : q.cents < 0 /\ r.cents < 0 => q.cents - r.cents \in {-1, 0, 1}
    <2>1. \A k \in DOMAIN W : W[k].cents < 0 => \E i \in 1..m : W[k] = debits[i]
        <3> SUFFICES ASSUME NEW k \in DOMAIN W, W[k].cents < 0
                     PROVE  \E i \in 1..m : W[k] = debits[i]
            OBVIOUS
        <3>1. ~ \E i \in 1..n : k = d + i /\ W[k] = credits[i]
            BY <1>5
        <3>2. k \in 1..d /\ W[k] = D[k]
            BY <1>17, <3>1
        <3> QED
            BY <1>14, <3>2 DEF d
    <2> QED
        BY <1>10, <2>1 DEF ToSet
<1>19. SettlesRows(W, rows)
    <2> SUFFICES ASSUME NEW k \in DOMAIN W, W[k].cents > 0
                 PROVE  /\ W[k].budget \in DOMAIN rows /\ rows[W[k].budget] = -W[k].cents
                        /\ \A l \in DOMAIN W : l # k => W[l].budget # W[k].budget
        BY DEF SettlesRows
    <2>1. PICK i \in 1..n : k = d + i /\ W[k] = credits[i]
        <3>1. CASE k \in 1..d /\ W[k] = D[k]
            <4>1. W[k].cents < 0
                BY <1>14, <3>1 DEF d
            <4>2. W[k].cents \in Int
                <5>1. D[k] \in Request /\ W[k] = D[k]
                    BY <1>14, <3>1 DEF d
                <5> QED
                    BY <5>1 DEF Request
            <4> QED
                BY <4>1, <4>2
        <3> QED
            BY <1>17, <3>1
    <2>2. negatives[i] \in N /\ W[k].budget = negatives[i] /\ W[k].cents = -rows[negatives[i]]
        BY <1>4, <1>5, <2>1
    <2>3. /\ W[k].budget \in N /\ W[k].budget \in DOMAIN rows
          /\ rows[W[k].budget] = -W[k].cents /\ rows[W[k].budget] < 0
        BY <1>2, <2>2
    <2>4. ASSUME NEW l \in DOMAIN W, l # k PROVE W[l].budget # W[k].budget
        <3>1. CASE l \in 1..d /\ W[l] = D[l]
            <4>1. W[l].budget \in P
                BY <1>14, <3>1 DEF d
            <4>2. rows[W[l].budget] > 0 /\ rows[W[l].budget] \in Int /\ rows[W[k].budget] \in Int
                BY <1>2, <2>3, <4>1
            <4> QED
                BY <2>3, <4>2
        <3>2. CASE \E j \in 1..n : l = d + j /\ W[l] = credits[j]
            <4>1. PICK j \in 1..n : l = d + j /\ W[l] = credits[j]
                BY <3>2
            <4>2. j # i /\ W[l].budget = negatives[j]
                BY <1>5, <2>1, <2>4, <4>1
            <4> QED
                BY <1>3, <1>4, <2>2, <4>2
        <3> QED
            BY <1>17, <3>1, <3>2
    <2> QED
        BY <2>3, <2>4
<1> QED
    BY <1>1, <1>15, <1>16, <1>18, <1>19 DEF W, D

-----------------------------------------------------------------------------
(* Types.                                                                  *)

Rows(t) == DOMAIN t \subseteq Budgets /\ \A b \in DOMAIN t : t[b] \in Int
ListUpTo(list, v) == Rows(list.rows) /\ list.version \in 0..v

ListsOK ==
    /\ Rows(table) /\ version \in Nat
    /\ ListUpTo(shown, version)
    /\ \A q, r \in reloads : q = r
    /\ \A r \in reloads : r.tries \in 0..2 /\ ListUpTo(r.list, version)
    /\ deletion.budget \in Budgets \cup {NoBudget} /\ ListUpTo(deletion.previous, version)
    /\ awaited \in 0..version
FormOK == \/ dialog = "none" /\ form = NoForm
          \/ dialog \in Dialogs /\ form \in FormType[dialog]
PendingOK == pending \in [Dialogs -> Seq(Request)] /\ plan \in [Dialogs -> Seq(Request)]
HistoryOK == posted \in [Budgets -> Int] /\ exact \in [Dialogs -> BOOLEAN]
DashboardInv == ListsOK /\ FormOK /\ PendingOK /\ HistoryOK

LEMMA InvTypes == DashboardInv => TypeOK
<1> SUFFICES ASSUME DashboardInv PROVE TypeOK
    OBVIOUS
<1>1. dialog \in Dialogs \cup {"none"} /\ (dialog = "none" <=> form = NoForm)
    <2>1. "none" \notin Dialogs
        BY DEF Dialogs
    <2>2. \A k \in Dialogs : NoForm \notin FormType[k]
        BY DashboardAssumption
    <2> QED
        BY <2>1, <2>2 DEF DashboardInv, FormOK
<1>2. \A k \in Dialogs : \A i \in DOMAIN pending[k] :
          pending[k][i].budget \in Budgets /\ pending[k][i].cents \in Int \ {0}
    <2> SUFFICES ASSUME NEW k \in Dialogs, NEW i \in DOMAIN pending[k]
                 PROVE  pending[k][i].budget \in Budgets /\ pending[k][i].cents \in Int \ {0}
        OBVIOUS
    <2>1. pending[k] \in Seq(Request)
        BY DEF DashboardInv, PendingOK
    <2>2. pending[k][i] \in Request
        BY <2>1
    <2> QED
        BY <2>2 DEF Request
<1> QED
    BY <1>1, <1>2 DEF TypeOK, DashboardInv, ListsOK, Rows, ListUpTo, HistoryOK

LEMMA InitTypes == Init => DashboardInv
<1> SUFFICES ASSUME Init PROVE DashboardInv
    OBVIOUS
<1>1. Rows(Opening) /\ Rows(<< >>)
    BY DashboardAssumption DEF Rows
<1>2. ListsOK
    <2>1. ListUpTo(shown, version) /\ ListUpTo(deletion.previous, version)
        BY <1>1 DEF Init, NoDeletion, NoList, ListUpTo
    <2> QED
        BY <1>1, <2>1 DEF Init, ListsOK, NoDeletion
<1>3. FormOK /\ PendingOK
    BY DEF Init, FormOK, PendingOK
<1>4. HistoryOK
    BY DEF Init, HistoryOK, Nothing, NoneExact
<1> QED
    BY <1>2, <1>3, <1>4 DEF DashboardInv

LEMMA FirstOtherType ==
    ASSUME NEW b, NEW rows, DOMAIN rows \subseteq Budgets
    PROVE  FirstOther(b, rows) \in Budgets \cup {NoBudget}
<1> DEFINE S == DOMAIN rows \ {b}
<1>1. FirstOther(b, rows) = IF S = {} THEN NoBudget ELSE InListOrder(S)[1]
    BY DEF FirstOther
<1>2. S \in SUBSET Budgets
    OBVIOUS
<1> HIDE DEF S
<1>3. InListOrder(S) \in Seq(S) /\ (InListOrder(S) = << >> <=> S = {})
    BY <1>2, ListOrder
<1>4. S # {} => InListOrder(S)[1] \in S
    BY <1>3
<1> QED
    BY <1>1, <1>2, <1>4

LEMMA RefitType ==
    ASSUME NEW k \in Dialogs, NEW f \in FormType[k], NEW rows, DOMAIN rows \subseteq Budgets
    PROVE  Refit(k, f, rows) \in FormType[k]
<1>1. CASE k = "transaction"
    <2>1. FirstOther(f.budget, rows) \in Budgets \cup {NoBudget}
        BY FirstOtherType
    <2>2. f \in FormType.transaction
        BY <1>1
    <2> QED
        BY <1>1, <2>1, <2>2 DEF FormType, Refit
<1>2. CASE k = "wizard"
    <2>1. f \in FormType.wizard
        BY <1>2
    <2>2. Refit(k, f, rows) = [negatives |-> {b \in f.negatives \cap DOMAIN rows : rows[b] < 0},
                               positives |-> {b \in f.positives \cap DOMAIN rows : rows[b] > 0}]
        BY <1>2 DEF Refit
    <2>3. /\ {b \in f.negatives \cap DOMAIN rows : rows[b] < 0} \in SUBSET Budgets
          /\ {b \in f.positives \cap DOMAIN rows : rows[b] > 0} \in SUBSET Budgets
        OBVIOUS
    <2>4. Refit(k, f, rows) \in FormType.wizard
        BY <2>2, <2>3 DEF FormType
    <2> QED
        BY <1>2, <2>4
<1>3. CASE k = "receipt"
    <2> DEFINE Line == [budget: Budgets \cup {NoBudget}, cents: Int]
               fitted == [i \in DOMAIN f.lines |->
                             IF f.lines[i].budget \in DOMAIN rows THEN f.lines[i]
                             ELSE [f.lines[i] EXCEPT !.budget = NoBudget]]
               fallback == FirstOther(NoBudget, rows)
    <2>1. f \in [lines: Seq(Line), total: Int, catchAll: Budgets \cup {NoBudget}]
        BY <1>3 DEF FormType
    <2>2. fallback \in Budgets \cup {NoBudget}
        BY FirstOtherType
    <2>3. fitted \in Seq(Line)
        <3>1. f.lines \in Seq(Line)
            BY <2>1
        <3>2. \A l \in Line : l \in Line /\ [l EXCEPT !.budget = NoBudget] \in Line
            OBVIOUS
        <3> HIDE DEF Line
        <3>3. \A i \in DOMAIN f.lines : f.lines[i] \in Line
            BY <3>1
        <3> QED
            BY <3>1, <3>2, <3>3
    <2>4. Refit(k, f, rows) =
              IF DOMAIN rows = {} THEN [f EXCEPT !.catchAll = NoBudget]
              ELSE [f EXCEPT !.lines = fitted,
                             !.catchAll = IF @ \in DOMAIN rows THEN @ ELSE fallback]
        BY <1>3 DEF Refit
    <2> HIDE DEF Line, fitted, fallback
    <2>5. Refit(k, f, rows) \in [lines: Seq(Line), total: Int, catchAll: Budgets \cup {NoBudget}]
        BY <2>1, <2>2, <2>3, <2>4
    <2> QED
        BY <1>3, <2>5 DEF FormType, Line
<1> QED
    BY <1>1, <1>2, <1>3 DEF Dialogs

LEMMA Planned ==
    ASSUME NEW k \in Dialogs, NEW f \in FormType[k], NEW rows, Rows(rows), Ready(k, f)
    PROVE  PlanOf(k, f, rows) \in Seq(Request)
<1>1. CASE k = "transaction"
    <2>1. PlanOf(k, f, rows) = TransactionPlan(f)
        BY <1>1 DEF PlanOf
    <2> QED
        BY <1>1, <2>1, TransactionPlanned
<1>2. CASE k = "wizard"
    <2>1. PlanOf(k, f, rows) = WizardPlan(f, rows)
        BY <1>2 DEF PlanOf
    <2>2. WizardPlan(f, rows) # << >> => WizardPlan(f, rows) \in Seq(Request)
        BY <1>2, WizardPlanned DEF Rows
    <2>3. << >> \in Seq(Request)
        OBVIOUS
    <2> QED
        BY <2>1, <2>2, <2>3
<1>3. CASE k = "receipt"
    <2>1. PlanOf(k, f, rows) = ReceiptPlan(f)
        BY <1>3 DEF PlanOf
    <2> QED
        BY <1>3, <2>1, ReceiptPlanned
<1> QED
    BY <1>1, <1>2, <1>3 DEF Dialogs

\* Steps that leave the list and the deletion alone.
LEMMA ListsOfWrite ==
    ASSUME ListsOK, UNCHANGED <<shown, deletion>>, Rows(table'),
           version' = version \/ version' = version + 1,
           reloads' = reloads \/ reloads' = {Asked},
           awaited' = awaited \/ awaited' = version'
    PROVE  ListsOK'
<1>1. version' \in Nat /\ \A list : ListUpTo(list, version) => ListUpTo(list, version')
    BY DEF ListsOK, ListUpTo
<1>2. Asked.tries = 0 /\ ListUpTo(Asked.list, version')
    <2>1. Rows(<< >>)
        BY DEF Rows
    <2> QED
        BY <1>1, <2>1 DEF Asked, Unanswered, NoList, ListUpTo
<1>3. ListUpTo(shown', version') /\ ListUpTo(deletion'.previous, version')
    BY <1>1 DEF ListsOK
<1>4. awaited' \in 0..version'
    BY <1>1 DEF ListsOK
<1>5. /\ \A q, r \in reloads' : q = r
      /\ \A r \in reloads' : r.tries \in 0..2 /\ ListUpTo(r.list, version')
    <2>1. CASE reloads' = reloads
        BY <1>1, <2>1 DEF ListsOK
    <2>2. CASE reloads' = {Asked}
        BY <1>2, <2>2
    <2> QED
        BY <2>1, <2>2
<1> QED
    BY <1>1, <1>3, <1>4, <1>5 DEF ListsOK

LEMMA ListsOfReload ==
    ASSUME ListsOK, NEW r \in reloads, ServerReads(r) \/ ListArrives(r) \/ ReloadFails(r)
    PROVE  ListsOK'
<1>0. ListsOK /\ r \in reloads /\ reloads \ {r} = {}
    BY DEF ListsOK
<1>1. CASE ServerReads(r)
    <2>1. reloads' = {Answered(r)} /\ UNCHANGED <<table, version, shown, deletion, awaited>>
        BY <1>0, <1>1 DEF ServerReads
    <2>2. Answered(r).tries = r.tries /\ ListUpTo(Answered(r).list, version)
        BY <1>0 DEF Answered, ListsOK, ListUpTo
    <2> QED
        BY <1>0, <2>1, <2>2 DEF ListsOK
<1>2. CASE ListArrives(r)
    <2>1. /\ reloads' = {} /\ shown' = r.list
          /\ UNCHANGED <<table, version, deletion, awaited>>
        BY <1>0, <1>2 DEF ListArrives, Show
    <2> QED
        BY <1>0, <2>1 DEF ListsOK
<1>3. CASE ReloadFails(r)
    <2> DEFINE again == Unanswered(r.tries + 1)
    <2>1. /\ reloads' = IF TriesLeft(r) THEN {again} ELSE {}
          /\ UNCHANGED <<table, version, shown, deletion, awaited>>
        BY <1>0, <1>3 DEF ReloadFails
    <2>2. TriesLeft(r) => again.tries \in 0..2
        BY <1>0 DEF Unanswered, TriesLeft, ListsOK
    <2>3. ListUpTo(again.list, version)
        <3>1. Rows(<< >>)
            BY DEF Rows
        <3> QED
            BY <1>0, <3>1 DEF Unanswered, NoList, ListUpTo, ListsOK
    <2> HIDE DEF again
    <2>4. /\ \A p, q \in reloads' : p = q
          /\ \A q \in reloads' : q.tries \in 0..2 /\ ListUpTo(q.list, version)
        <3>1. CASE TriesLeft(r)
            BY <2>1, <2>2, <2>3, <3>1
        <3>2. CASE ~TriesLeft(r)
            BY <2>1, <3>2
        <3> QED
            BY <3>1, <3>2
    <2> QED
        BY <1>0, <2>1, <2>4 DEF ListsOK
<1> QED
    BY <1>1, <1>2, <1>3

LEMMA RowsOfRecord ==
    ASSUME Rows(table), NEW k, NEW r \in Request, r.budget \in DOMAIN table, Record(k, r)
    PROVE  Rows(table') /\ version' = version + 1
    BY DEF Rows, Record, Request

LEMMA RowsOfDrop ==
    ASSUME NEW t, Rows(t), NEW b PROVE Rows(Drop(t, b))
    BY DEF Rows, Drop

LEMMA ListsOfDelete ==
    ASSUME ListsOK, DeleteSucceeds \/ DeleteFails \/ (\E b \in Budgets : StartDelete(b))
    PROVE  ListsOK'
<1>0. ListsOK /\ Rows(<< >>)
    BY DEF Rows
<1>1. ASSUME NEW b \in Budgets, StartDelete(b) PROVE ListsOK'
    <2>1. /\ deletion' = [budget |-> b, previous |-> shown] /\ reloads' = {}
          /\ shown' = [shown EXCEPT !.rows = Drop(@, b)]
          /\ UNCHANGED <<table, version, awaited>>
        BY <1>1 DEF StartDelete, Show
    <2>2. shown'.version = shown.version
        <3>1. [shown EXCEPT !.rows = Drop(@, b)].version = shown.version
            OBVIOUS
        <3> QED
            BY <2>1, <3>1
    <2>3. Rows(shown'.rows)
        <3>1. Rows(Drop(shown.rows, b)) /\ Rows(shown.rows)
            BY <1>0, RowsOfDrop DEF ListsOK, ListUpTo
        <3>2. shown'.rows = Drop(shown.rows, b) \/ shown'.rows = shown.rows
            BY <2>1
        <3> QED
            BY <3>1, <3>2
    <2> QED
        BY <1>0, <2>1, <2>2, <2>3 DEF ListsOK, ListUpTo
<1>2. ASSUME shown' = shown \/ shown' = deletion.previous, deletion' = NoDeletion,
             Rows(table'), version' = version \/ version' = version + 1,
             reloads' = {Asked}, awaited' = version'
      PROVE  ListsOK'
    <2>1. version' \in Nat /\ \A list : ListUpTo(list, version) => ListUpTo(list, version')
        BY <1>0, <1>2 DEF ListsOK, ListUpTo
    <2>2. Asked.tries = 0 /\ ListUpTo(Asked.list, version')
        BY <1>0, <2>1 DEF Asked, Unanswered, NoList, ListUpTo
    <2>3. NoDeletion.budget = NoBudget /\ ListUpTo(NoDeletion.previous, version')
        BY <1>0, <2>1 DEF NoDeletion, NoList, ListUpTo
    <2>4. ListUpTo(shown', version')
        BY <1>0, <1>2, <2>1 DEF ListsOK
    <2>5. awaited' \in 0..version'
        BY <1>2, <2>1
    <2> QED
        BY <1>2, <2>1, <2>2, <2>3, <2>4, <2>5 DEF ListsOK
<1>3. \A b : DeleteRow(b) => Rows(table') /\ version' = version + 1
    BY <1>0, RowsOfDrop DEF DeleteRow, ListsOK
<1>4. CASE DeleteSucceeds
    BY <1>2, <1>3, <1>4 DEF DeleteSucceeds, Invalidate
<1>5. CASE DeleteFails
    <2>1. Rows(table') /\ (version' = version \/ version' = version + 1)
        <3>1. CASE \E b : DeleteRow(b)
            BY <1>3, <3>1
        <3>2. CASE UNCHANGED server
            BY <1>0, <3>2 DEF ListsOK
        <3> QED
            BY <1>5, <3>1, <3>2 DEF DeleteFails
    <2> QED
        BY <1>2, <1>5, <2>1 DEF DeleteFails, Invalidate, Show
<1> QED
    BY <1>1, <1>4, <1>5

\* The next request of a plan is one.
LEMMA HeadOfPending ==
    ASSUME PendingOK, NEW k \in Dialogs, pending[k] # << >>
    PROVE  /\ Head(pending[k]) \in Request /\ Tail(pending[k]) \in Seq(Request)
           /\ pending[k] \in Seq(Request)
<1>1. pending[k] \in Seq(Request)
    BY DEF PendingOK
<1> QED
    BY <1>1

LEMMA ListsStep ==
    ASSUME ListsOK, PendingOK, [Next]_vars
    PROVE  ListsOK'
<1>0. Rows(table) /\ ListsOK
    BY DEF ListsOK
<1>1. ASSUME NEW k \in Dialogs, Mutate(k) PROVE ListsOK'
    <2>1. CASE Submit(k) \/ PostFails(k)
        BY <1>0, <2>1, ListsOfWrite DEF Submit, PostFails
    <2>2. CASE Post(k) \/ PostAnswerLost(k)
        <3> DEFINE r == Head(pending[k])
        <3>1. r \in Request /\ r.budget \in DOMAIN table /\ Record(k, r)
            BY <2>2, HeadOfPending DEF Post, PostAnswerLost
        <3>2. Rows(table') /\ version' = version + 1
            BY <1>0, <3>1, RowsOfRecord
        <3> QED
            BY <1>0, <2>2, <3>2, ListsOfWrite DEF Post, PostAnswerLost, Succeed, Invalidate
    <2> QED
        BY <1>1, <2>1, <2>2 DEF Mutate
<1>2. ASSUME NEW k \in Dialogs, NEW f \in Forms[k], Fill(k, f) PROVE ListsOK'
    BY <1>0, <1>2, ListsOfWrite DEF Fill
<1>3. CASE Close \/ Refocus
    BY <1>0, <1>3, ListsOfWrite DEF Close, Refocus
<1>4. ASSUME NEW b \in Budgets, NEW cents \in Outside, OthersWrite(b, cents) PROVE ListsOK'
    <2>1. Rows(table')
        BY <1>0, <1>4, DashboardAssumption DEF OthersWrite, Rows
    <2> QED
        BY <1>4, <2>1, ListsOfWrite DEF OthersWrite
<1>5. CASE UNCHANGED vars
    BY <1>0, <1>5, ListsOfWrite
<1> QED
    BY <1>1, <1>2, <1>3, <1>4, <1>5, ListsOfReload, ListsOfDelete DEF Next, Reload

LEMMA ShowForm ==
    ASSUME FormOK, NEW list, Rows(list.rows), Show(list), dialog' = dialog
    PROVE  FormOK'
<1>1. CASE dialog = "none" /\ form = NoForm
    BY <1>1 DEF FormOK, Show, Refit
<1>2. CASE dialog \in Dialogs /\ form \in FormType[dialog]
    <2>1. Refit(dialog, form, list.rows) \in FormType[dialog]
        BY <1>2, RefitType DEF Rows
    <2> QED
        BY <1>2, <2>1 DEF FormOK, Show
<1> QED
    BY <1>1, <1>2 DEF FormOK

LEMMA FormStep ==
    ASSUME FormOK, ListsOK, [Next]_vars
    PROVE  FormOK'
<1>1. ASSUME UNCHANGED ui \/ (dialog' = "none" /\ form' = NoForm) PROVE FormOK'
    BY <1>1 DEF FormOK
<1>2. ASSUME NEW k \in Dialogs, Mutate(k) PROVE FormOK'
    BY <1>1, <1>2 DEF Mutate, Submit, Post, PostFails, PostAnswerLost, Succeed
<1>3. ASSUME NEW k \in Dialogs, NEW f \in Forms[k], Fill(k, f) PROVE FormOK'
    <2>1. f \in FormType[k]
        BY DashboardAssumption
    <2> QED
        BY <1>3, <2>1 DEF Fill, FormOK
<1>4. ASSUME NEW r \in reloads, ServerReads(r) \/ ListArrives(r) \/ ReloadFails(r)
      PROVE  FormOK'
    <2>1. CASE ListArrives(r)
        <3>1. Rows(r.list.rows)
            BY <1>4 DEF ListsOK, ListUpTo
        <3> QED
            BY <2>1, <3>1, ShowForm DEF ListArrives
    <2> QED
        BY <1>1, <1>4, <2>1 DEF ServerReads, ReloadFails
<1>5. ASSUME NEW b \in Budgets, StartDelete(b) PROVE FormOK'
    <2>1. dialog = "none" /\ form = NoForm
        BY <1>5 DEF StartDelete, FormOK, Dialogs
    <2> QED
        BY <1>1, <1>5, <2>1 DEF StartDelete, Show, Refit
<1>6. CASE DeleteFails
    <2>1. Rows(deletion.previous.rows)
        BY DEF ListsOK, ListUpTo
    <2> QED
        BY <1>6, <2>1, ShowForm DEF DeleteFails
<1>7. CASE Close \/ Refocus \/ DeleteSucceeds \/ UNCHANGED vars
    BY <1>1, <1>7 DEF Close, Refocus, DeleteSucceeds
<1>8. ASSUME NEW b \in Budgets, NEW cents \in Outside, OthersWrite(b, cents) PROVE FormOK'
    BY <1>1, <1>8 DEF OthersWrite
<1> QED
    BY <1>2, <1>3, <1>4, <1>5, <1>6, <1>7, <1>8 DEF Next, Reload

\* What starts is the plan of the form, with the list as it is shown.
LEMMA SubmitPlan ==
    ASSUME FormOK, ListsOK, NEW k \in Dialogs, Submit(k)
    PROVE  /\ form \in FormType[k] /\ Ready(k, form) /\ Rows(shown.rows)
           /\ PlanOf(k, form, shown.rows) \in Seq(Request)
           /\ PlanOf(k, form, shown.rows) # << >>
<1>1. form \in FormType[k] /\ Ready(k, form) /\ Rows(shown.rows)
    <2>1. "none" \notin Dialogs
        BY DEF Dialogs
    <2> QED
        BY <2>1 DEF Submit, FormOK, ListsOK, ListUpTo
<1> QED
    BY <1>1, Planned DEF Submit

LEMMA PendingStep ==
    ASSUME PendingOK, FormOK, ListsOK, [Next]_vars
    PROVE  PendingOK'
<1>1. ASSUME UNCHANGED <<pending, plan>> PROVE PendingOK'
    BY <1>1 DEF PendingOK
<1>2. ASSUME NEW k \in Dialogs, Mutate(k) PROVE PendingOK'
    <2>1. CASE Submit(k)
        <3>1. PlanOf(k, form, shown.rows) \in Seq(Request)
            BY <2>1, SubmitPlan
        <3> QED
            BY <2>1, <3>1 DEF Submit, PendingOK
    <2>2. CASE Post(k) \/ PostFails(k) \/ PostAnswerLost(k)
        <3>1. Tail(pending[k]) \in Seq(Request) /\ << >> \in Seq(Request)
            BY <2>2, HeadOfPending DEF Post, PostFails, PostAnswerLost
        <3>2. \/ pending' = [pending EXCEPT ![k] = Tail(pending[k])] /\ UNCHANGED plan
              \/ End(k)
            BY <2>2 DEF Post, PostFails, PostAnswerLost
        <3> QED
            BY <3>1, <3>2 DEF End, PendingOK
    <2> QED
        BY <1>2, <2>1, <2>2 DEF Mutate
<1>3. ASSUME NEW k \in Dialogs, NEW f \in Forms[k], Fill(k, f) PROVE PendingOK'
    BY <1>1, <1>3 DEF Fill
<1>4. CASE Reload \/ Close \/ Refocus \/ DeleteSucceeds \/ DeleteFails \/ UNCHANGED vars
    BY <1>1, <1>4 DEF Reload, ServerReads, ListArrives, ReloadFails, Close, Refocus,
                      DeleteSucceeds, DeleteFails
<1>5. ASSUME NEW b \in Budgets,
             StartDelete(b) \/ \E cents \in Outside : OthersWrite(b, cents)
      PROVE  PendingOK'
    BY <1>1, <1>5 DEF StartDelete, OthersWrite
<1> QED
    BY <1>2, <1>3, <1>4, <1>5 DEF Next

LEMMA HistoryStep ==
    ASSUME HistoryOK, PendingOK, [Next]_vars
    PROVE  HistoryOK'
<1>0. NoneExact \in [Dialogs -> BOOLEAN] /\ Nothing \in [Budgets -> Int]
    BY DEF NoneExact, Nothing
<1>1. ASSUME posted' = posted \/ posted' = Nothing,
             exact' = exact \/ exact' = NoneExact
      PROVE  HistoryOK'
    BY <1>0, <1>1 DEF HistoryOK
<1>2. ASSUME NEW k \in Dialogs, Mutate(k) PROVE HistoryOK'
    <2>1. CASE Submit(k)
        BY <2>1 DEF Submit, HistoryOK
    <2>2. CASE PostFails(k)
        BY <2>2 DEF PostFails, HistoryOK
    <2>3. CASE Post(k) \/ PostAnswerLost(k)
        <3>1. posted' \in [Budgets -> Int]
            <4> DEFINE r == Head(pending[k])
            <4>1. r \in Request
                BY <2>3, HeadOfPending DEF Post, PostAnswerLost
            <4>2. posted' = [posted EXCEPT ![r.budget] = @ + r.cents] \/ posted' = posted
                BY <2>3 DEF Post, PostAnswerLost, Record
            <4> HIDE DEF r
            <4> QED
                BY <4>1, <4>2 DEF HistoryOK, Request
        <3>2. exact' \in [Dialogs -> BOOLEAN]
            <4>1. [j \in Dialogs |-> j = k /\ exact[j]] \in [Dialogs -> BOOLEAN]
                OBVIOUS
            <4> QED
                BY <1>0, <2>3, <4>1 DEF Post, PostAnswerLost, HistoryOK
        <3> QED
            BY <3>1, <3>2 DEF HistoryOK
    <2> QED
        BY <1>2, <2>1, <2>2, <2>3 DEF Mutate
<1>3. ASSUME NEW k \in Dialogs, NEW f \in Forms[k], Fill(k, f) PROVE HistoryOK'
    BY <1>1, <1>3 DEF Fill
<1>4. CASE Reload \/ Close \/ Refocus \/ DeleteSucceeds \/ DeleteFails \/ UNCHANGED vars
    BY <1>1, <1>4 DEF Reload, ServerReads, ListArrives, ReloadFails, Close, Refocus,
                      DeleteSucceeds, DeleteFails, DeleteRow
<1>5. ASSUME NEW b \in Budgets,
             StartDelete(b) \/ \E cents \in Outside : OthersWrite(b, cents)
      PROVE  HistoryOK'
    BY <1>1, <1>5 DEF StartDelete, OthersWrite
<1> QED
    BY <1>2, <1>3, <1>4, <1>5 DEF Next

LEMMA TypesStep == DashboardInv /\ [Next]_vars => DashboardInv'
    BY ListsStep, FormStep, PendingStep, HistoryStep DEF DashboardInv

\* The window's list, a reload under way and the list a deletion keeps never are ahead of
\* the server, at most one reload is under way, a dialog has a form of its kind, and what
\* a mutation has still to send are requests for budgets with an amount.
THEOREM DashboardTypeCorrect == Spec => []TypeOK
<1>1. Spec => []DashboardInv
    BY InitTypes, TypesStep, PTL DEF Spec
<1> QED
    BY <1>1, InvTypes, PTL

-----------------------------------------------------------------------------
(* What a mutation sets out to post.                                       *)

\* A mutation starts when its button is pressed.
LEMMA StartsBySubmit ==
    ASSUME PendingOK, [Next]_vars, NEW k \in Dialogs, Starts(k)
    PROVE  Submit(k)
<1>1. ASSUME UNCHANGED pending PROVE FALSE
    BY <1>1 DEF Starts
<1>2. ASSUME NEW j \in Dialogs, Mutate(j) PROVE Submit(k)
    <2>1. CASE Submit(j)
        <3>1. j = k
            BY <2>1 DEF Submit, Starts, PendingOK
        <3> QED
            BY <2>1, <3>1
    <2>2. CASE Post(j) \/ PostFails(j) \/ PostAnswerLost(j)
        <3>1. pending[j] # << >> /\ \E q : pending' = [pending EXCEPT ![j] = q]
            BY <2>2 DEF Post, PostFails, PostAnswerLost, End
        <3>2. j # k
            BY <3>1 DEF Starts
        <3>3. pending'[k] = pending[k]
            BY <3>1, <3>2 DEF PendingOK
        <3> QED
            BY <3>3 DEF Starts
    <2> QED
        BY <1>2, <2>1, <2>2 DEF Mutate
<1>3. ASSUME NEW j \in Dialogs, NEW f \in Forms[j], Fill(j, f) PROVE FALSE
    BY <1>1, <1>3 DEF Fill
<1>4. ASSUME Reload \/ Close \/ Refocus \/ DeleteSucceeds \/ DeleteFails \/ UNCHANGED vars
      PROVE  FALSE
    BY <1>1, <1>4 DEF Reload, ServerReads, ListArrives, ReloadFails, Close, Refocus,
                      DeleteSucceeds, DeleteFails
<1>5. ASSUME NEW b \in Budgets,
             StartDelete(b) \/ \E cents \in Outside : OthersWrite(b, cents)
      PROVE  FALSE
    BY <1>1, <1>5 DEF StartDelete, OthersWrite
<1> QED
    BY <1>2, <1>3, <1>4, <1>5 DEF Next

LEMMA StartsWithPlan ==
    ASSUME DashboardInv, [Next]_vars, NEW k \in Dialogs, Starts(k)
    PROVE  /\ Submit(k) /\ plan'[k] = PlanOf(k, form, shown.rows) /\ plan'[k] # << >>
           /\ form \in FormType[k] /\ Ready(k, form) /\ Rows(shown.rows)
<1>1. Submit(k)
    BY StartsBySubmit DEF DashboardInv
<1>2. plan'[k] = PlanOf(k, form, shown.rows)
    BY <1>1 DEF Submit, DashboardInv, PendingOK
<1> QED
    BY <1>1, <1>2, SubmitPlan DEF DashboardInv

LEMMA PlansStep ==
    ASSUME DashboardInv, [Next]_vars
    PROVE  /\ Starts("transaction") /\ form.transfer => Total(plan'["transaction"]) = 0
           /\ Starts("receipt") => Total(plan'["receipt"]) = -form.total
           /\ Starts("wizard") =>
                /\ Total(plan'["wizard"]) = 0
                /\ \A q, r \in ToSet(plan'["wizard"]) :
                     q.cents < 0 /\ r.cents < 0 => q.cents - r.cents \in {-1, 0, 1}
<1>0. "transaction" \in Dialogs /\ "receipt" \in Dialogs /\ "wizard" \in Dialogs
    BY DEF Dialogs
<1>1. ASSUME Starts("transaction"), form.transfer PROVE Total(plan'["transaction"]) = 0
    <2>1. /\ plan'["transaction"] = PlanOf("transaction", form, shown.rows)
          /\ form \in FormType["transaction"] /\ Ready("transaction", form)
        BY <1>0, <1>1, StartsWithPlan
    <2>2. PlanOf("transaction", form, shown.rows) = TransactionPlan(form)
        BY DEF PlanOf
    <2> QED
        BY <1>1, <2>1, <2>2, TransactionPlanned
<1>2. ASSUME Starts("receipt") PROVE Total(plan'["receipt"]) = -form.total
    <2>1. /\ plan'["receipt"] = PlanOf("receipt", form, shown.rows)
          /\ plan'["receipt"] # << >>
          /\ form \in FormType["receipt"] /\ Ready("receipt", form)
        BY <1>0, <1>2, StartsWithPlan
    <2>2. PlanOf("receipt", form, shown.rows) = ReceiptPlan(form)
        BY DEF PlanOf
    <2> QED
        BY <2>1, <2>2, ReceiptPlanned
<1>3. ASSUME Starts("wizard")
      PROVE  /\ Total(plan'["wizard"]) = 0
             /\ \A q, r \in ToSet(plan'["wizard"]) :
                  q.cents < 0 /\ r.cents < 0 => q.cents - r.cents \in {-1, 0, 1}
    <2>1. /\ plan'["wizard"] = PlanOf("wizard", form, shown.rows)
          /\ plan'["wizard"] # << >> /\ form \in FormType["wizard"] /\ Rows(shown.rows)
        BY <1>0, <1>3, StartsWithPlan
    <2>2. PlanOf("wizard", form, shown.rows) = WizardPlan(form, shown.rows)
        BY DEF PlanOf
    <2>3. plan'["wizard"] = WizardPlan(form, shown.rows)
        BY <2>1, <2>2
    <2> DEFINE p == plan'["wizard"]
    <2>4. p = WizardPlan(form, shown.rows)
        BY <2>3
    <2> HIDE DEF p
    <2>5. /\ Total(p) = 0
          /\ \A q, r \in ToSet(p) :
                q.cents < 0 /\ r.cents < 0 => q.cents - r.cents \in {-1, 0, 1}
        BY <2>1, <2>3, <2>4, WizardPlanned DEF Rows
    <2> QED
        BY <2>5 DEF p
<1> QED
    BY <1>1, <1>2, <1>3

\* Whatever the list and the form are, a transfer and the wizard move money without making
\* or losing a cent, a receipt takes its total, and the debits of the wizard are as even as
\* cents allow.
THEOREM PlansAddUpCorrect == Spec => PlansAddUp
<1>1. DashboardInv /\ [Next]_vars =>
        [/\ Starts("transaction") /\ form.transfer => Total(plan'["transaction"]) = 0
         /\ Starts("receipt") => Total(plan'["receipt"]) = -form.total
         /\ Starts("wizard") =>
              /\ Total(plan'["wizard"]) = 0
              /\ \A q, r \in ToSet(plan'["wizard"]) :
                   q.cents < 0 /\ r.cents < 0 => q.cents - r.cents \in {-1, 0, 1}]_vars
    BY PlansStep
<1> QED
    BY InitTypes, TypesStep, <1>1, PTL DEF Spec, PlansAddUp

-----------------------------------------------------------------------------
(* What a wizard has done when it has succeeded.                           *)

\* The budgets that p credits are still as they were planned with, or at zero.
Settled(p, t, done) ==
    \A i \in DOMAIN p : p[i].cents > 0 /\ p[i].budget \in DOMAIN t =>
        t[p[i].budget] = IF i <= done THEN 0 ELSE -p[i].cents
Apart(p) ==
    \A i \in DOMAIN p : p[i].cents > 0 =>
        \A j \in DOMAIN p : j # i => p[j].budget # p[i].budget
SuffixOf(q, p) == /\ Len(q) <= Len(p)
                  /\ \A i \in 1..Len(q) : q[i] = p[Len(p) - Len(q) + i]

Settling ==
    exact["wizard"] /\ pending["wizard"] # << >> =>
        /\ SuffixOf(pending["wizard"], plan["wizard"])
        /\ Apart(plan["wizard"])
        /\ Settled(plan["wizard"], table, Len(plan["wizard"]) - Len(pending["wizard"]))

LEMMA PostSettles ==
    ASSUME NEW p \in Seq(Request), NEW q \in Seq(Request), q # << >>, NEW t, Rows(t),
           SuffixOf(q, p), Apart(p), Settled(p, t, Len(p) - Len(q)),
           Head(q).budget \in DOMAIN t, NEW u,
           u = [t EXCEPT ![Head(q).budget] = @ + Head(q).cents]
    PROVE  /\ SuffixOf(Tail(q), p) /\ Len(Tail(q)) = Len(q) - 1
           /\ Settled(p, u, Len(p) - Len(Tail(q)))
<1> DEFINE m == Len(p)
           n == Len(q)
           done == m - n
           r == Head(q)
<1>1. /\ m \in Nat /\ n \in Nat \ {0} /\ n <= m /\ DOMAIN p = 1..m
      /\ Len(Tail(q)) = n - 1 /\ r = q[1]
      /\ \A i \in 1..(n - 1) : Tail(q)[i] = q[i + 1]
    BY DEF SuffixOf
<1>2. \A i \in 1..n : q[i] = p[done + i]
    BY DEF SuffixOf
<1>3. \A i \in 1..m : p[i].cents \in Int /\ p[i].budget \in Budgets
    <2>1. \A i \in 1..m : p[i] \in Request
        OBVIOUS
    <2> QED
        BY <2>1 DEF Request
<1>4. \A i \in 1..m : p[i].cents > 0 /\ p[i].budget \in DOMAIN t =>
          t[p[i].budget] = IF i <= done THEN 0 ELSE -p[i].cents
    BY <1>1 DEF Settled
<1>5. u = [t EXCEPT ![r.budget] = @ + r.cents] /\ r.budget \in DOMAIN t
    OBVIOUS
<1> HIDE DEF m, n, r
<1>6. done + 1 \in 1..m /\ r = p[done + 1] /\ done \in Nat
    <2>1. 1 \in 1..n /\ done + 1 \in 1..m /\ done \in Nat
        BY <1>1
    <2> QED
        BY <1>1, <1>2, <2>1
<1>7. SuffixOf(Tail(q), p)
    <2>1. n - 1 <= m
        BY <1>1
    <2>2. ASSUME NEW i \in 1..(n - 1) PROVE Tail(q)[i] = p[m - (n - 1) + i]
        <3>1. i + 1 \in 1..n /\ done + (i + 1) = m - (n - 1) + i
            BY <1>1
        <3> QED
            BY <1>1, <1>2, <3>1
    <2> QED
        BY <1>1, <2>1, <2>2 DEF SuffixOf, m
<1> HIDE DEF done
<1>8. ASSUME NEW i \in 1..m, p[i].cents > 0, p[i].budget \in DOMAIN u
      PROVE  u[p[i].budget] = IF i <= done + 1 THEN 0 ELSE -p[i].cents
    <2>1. p[i].budget \in DOMAIN t
        BY <1>5, <1>8
    <2>2. t[p[i].budget] = IF i <= done THEN 0 ELSE -p[i].cents
        BY <1>4, <1>8, <2>1
    <2>3. CASE i = done + 1
        <3>1. u[p[i].budget] = t[p[i].budget] + p[i].cents
            BY <1>5, <1>6, <2>3
        <3>2. t[p[i].budget] = -p[i].cents
            BY <1>6, <2>2, <2>3
        <3> QED
            BY <1>3, <2>3, <3>1, <3>2
    <2>4. CASE i # done + 1
        <3>1. r.budget # p[i].budget
            BY <1>1, <1>6, <1>8, <2>4 DEF Apart
        <3>2. u[p[i].budget] = t[p[i].budget]
            BY <1>5, <2>1, <3>1
        <3>3. i <= done <=> i <= done + 1
            BY <1>6, <2>4
        <3> QED
            BY <2>2, <3>2, <3>3
    <2> QED
        BY <2>3, <2>4
<1>9. Settled(p, u, Len(p) - Len(Tail(q)))
    <2>1. Len(p) - Len(Tail(q)) = done + 1
        BY <1>1 DEF done, m
    <2> QED
        BY <1>1, <1>8, <2>1 DEF Settled
<1> QED
    BY <1>1, <1>7, <1>9 DEF n

LEMMA WizardPosts ==
    ASSUME DashboardInv, Settling, exact["wizard"], Post("wizard")
    PROVE  /\ SuffixOf(Tail(pending["wizard"]), plan["wizard"]) /\ Apart(plan["wizard"])
           /\ Settled(plan["wizard"], table',
                      Len(plan["wizard"]) - Len(Tail(pending["wizard"])))
           /\ Len(Tail(pending["wizard"])) = Len(pending["wizard"]) - 1
<1> DEFINE p == plan["wizard"]
           q == pending["wizard"]
<1>1. /\ p \in Seq(Request) /\ q \in Seq(Request) /\ q # << >> /\ Rows(table)
      /\ SuffixOf(q, p) /\ Apart(p) /\ Settled(p, table, Len(p) - Len(q))
      /\ Head(q).budget \in DOMAIN table
      /\ table' = [table EXCEPT ![Head(q).budget] = @ + Head(q).cents]
    BY DEF DashboardInv, PendingOK, ListsOK, Settling, Post, Record, Dialogs
<1> HIDE DEF p, q
<1>2. /\ SuffixOf(Tail(q), p) /\ Len(Tail(q)) = Len(q) - 1
      /\ Settled(p, table', Len(p) - Len(Tail(q)))
    BY <1>1, PostSettles
<1> QED
    BY <1>1, <1>2 DEF p, q

LEMMA WizardStarts ==
    ASSUME DashboardInv, Submit("wizard"), exact'["wizard"]
    PROVE  Settling'
<1> DEFINE p == WizardPlan(form, shown.rows)
<1>1. "wizard" \in Dialogs
    BY DEF Dialogs
<1>2. PlanOf("wizard", form, shown.rows) = p
    BY DEF PlanOf
<1>3. /\ form \in FormType["wizard"] /\ Rows(shown.rows) /\ p # << >>
      /\ p \in Seq(Request)
    BY <1>1, <1>2, SubmitPlan DEF DashboardInv
<1>4. /\ pending'["wizard"] = p /\ plan'["wizard"] = p /\ table' = table /\ shown.rows = table
    <2>1. /\ pending' = [pending EXCEPT !["wizard"] = p]
          /\ plan' = [plan EXCEPT !["wizard"] = p]
          /\ exact' = [exact EXCEPT !["wizard"] = shown.rows = table] /\ table' = table
        BY <1>2 DEF Submit
    <2> HIDE DEF p
    <2>2. exact'["wizard"] = (shown.rows = table)
        BY <1>1, <2>1 DEF DashboardInv, HistoryOK
    <2>3. pending'["wizard"] = p /\ plan'["wizard"] = p
        BY <1>1, <2>1 DEF DashboardInv, PendingOK
    <2> QED
        BY <2>1, <2>2, <2>3
<1>5. SettlesRows(p, shown.rows)
    BY <1>3, WizardPlanned DEF Rows
<1> HIDE DEF p
<1>6. SuffixOf(p, p) /\ Len(p) - Len(p) = 0 /\ DOMAIN p = 1..Len(p) /\ Len(p) \in Nat
    <2>1. DOMAIN p = 1..Len(p) /\ Len(p) \in Nat
        BY <1>3
    <2>2. \A i \in 1..Len(p) : Len(p) - Len(p) + i = i
        BY <2>1
    <2> QED
        BY <2>1, <2>2 DEF SuffixOf
<1>7. Apart(p)
    BY <1>5 DEF SettlesRows, Apart
<1>8. Settled(p, table, 0)
    <2>1. \A i \in DOMAIN p : ~(i <= 0)
        BY <1>6
    <2> QED
        BY <1>4, <1>5, <2>1 DEF SettlesRows, Settled
<1> QED
    BY <1>4, <1>6, <1>7, <1>8 DEF Settling

\* Whatever else happens, the wizard is not exact any more, or nothing it is about changed.
LEMMA OtherSteps ==
    ASSUME DashboardInv, [Next]_vars, ~Post("wizard"), ~Submit("wizard")
    PROVE  \/ ~exact'["wizard"]
           \/ pending'["wizard"] = << >>
           \/ /\ exact["wizard"] /\ table' = table
              /\ pending'["wizard"] = pending["wizard"] /\ plan'["wizard"] = plan["wizard"]
<1> DEFINE Goal == \/ ~exact'["wizard"]
                   \/ pending'["wizard"] = << >>
                   \/ /\ exact["wizard"] /\ table' = table
                      /\ pending'["wizard"] = pending["wizard"]
                      /\ plan'["wizard"] = plan["wizard"]
<1>0. "wizard" \in Dialogs /\ ~NoneExact["wizard"]
    BY DEF Dialogs, NoneExact
<1>1. ASSUME exact' = NoneExact \/ UNCHANGED <<exact, table, pending, plan>> PROVE Goal
    BY <1>0, <1>1 DEF DashboardInv, HistoryOK
<1>2. ASSUME NEW k \in Dialogs, Mutate(k) PROVE Goal
    <2>1. CASE k = "wizard"
        <3>1. PostFails(k) \/ PostAnswerLost(k)
            BY <1>2, <2>1 DEF Mutate
        <3>2. pending'["wizard"] = << >>
            BY <1>0, <2>1, <3>1 DEF PostFails, PostAnswerLost, End, DashboardInv, PendingOK
        <3> QED
            BY <3>2
    <2>2. CASE k # "wizard"
        <3>1. CASE Submit(k)
            BY <1>0, <2>2, <3>1 DEF Submit, DashboardInv, PendingOK, HistoryOK
        <3>2. CASE PostFails(k)
            BY <1>0, <2>2, <3>2 DEF PostFails, End, DashboardInv, PendingOK, HistoryOK
        <3>3. CASE Post(k) \/ PostAnswerLost(k)
            BY <1>0, <1>1, <2>2, <3>3 DEF Post, PostAnswerLost
        <3> QED
            BY <1>2, <3>1, <3>2, <3>3 DEF Mutate
    <2> QED
        BY <2>1, <2>2
<1>3. ASSUME NEW k \in Dialogs, NEW f \in Forms[k], Fill(k, f) PROVE Goal
    BY <1>1, <1>3 DEF Fill
<1>4. CASE Reload \/ Close \/ Refocus \/ UNCHANGED vars
    BY <1>1, <1>4 DEF Reload, ServerReads, ListArrives, ReloadFails, Close, Refocus
<1>5. CASE DeleteSucceeds \/ DeleteFails
    BY <1>1, <1>5 DEF DeleteSucceeds, DeleteFails, DeleteRow
<1>6. ASSUME NEW b \in Budgets,
             StartDelete(b) \/ \E cents \in Outside : OthersWrite(b, cents)
      PROVE  Goal
    BY <1>1, <1>6 DEF StartDelete, OthersWrite
<1> QED
    BY <1>2, <1>3, <1>4, <1>5, <1>6 DEF Next

LEMMA SettlingStep == DashboardInv /\ Settling /\ [Next]_vars => Settling'
<1> SUFFICES ASSUME DashboardInv, Settling, [Next]_vars,
                    exact'["wizard"], pending'["wizard"] # << >>
             PROVE  Settling'
    BY DEF Settling
<1>0. "wizard" \in Dialogs
    BY DEF Dialogs
<1>1. CASE Submit("wizard")
    BY <1>1, WizardStarts
<1>2. CASE Post("wizard")
    <2>1. /\ exact["wizard"] /\ plan' = plan
          /\ pending'["wizard"] = Tail(pending["wizard"])
        BY <1>0, <1>2 DEF Post, NoneExact, DashboardInv, PendingOK
    <2> QED
        BY <1>2, <2>1, WizardPosts DEF Settling
<1>3. CASE ~Submit("wizard") /\ ~Post("wizard")
    <2>1. /\ exact["wizard"] /\ table' = table
          /\ pending'["wizard"] = pending["wizard"] /\ plan'["wizard"] = plan["wizard"]
        BY <1>3, OtherSteps
    <2> QED
        BY <2>1 DEF Settling
<1> QED
    BY <1>1, <1>2, <1>3

LEMMA SuccessIsPost ==
    ASSUME DashboardInv, [Next]_vars, Succeeds("wizard")
    PROVE  Post("wizard") /\ Tail(pending["wizard"]) = << >>
<1>0. "wizard" \in Dialogs /\ awaited \in Nat
    BY DEF Dialogs, DashboardInv, ListsOK
<1>1. ASSUME pending'["wizard"] = pending["wizard"] \/ awaited' = awaited PROVE FALSE
    BY <1>0, <1>1 DEF Succeeds
<1>2. ASSUME NEW k \in Dialogs, Mutate(k)
      PROVE  Post("wizard") /\ Tail(pending["wizard"]) = << >>
    <2>1. Post(k)
        BY <1>1, <1>2 DEF Mutate, Submit, PostFails, PostAnswerLost
    <2>2. k = "wizard"
        <3>1. \E q : pending' = [pending EXCEPT ![k] = q]
            BY <2>1 DEF Post, End
        <3> QED
            BY <1>0, <1>1, <3>1 DEF DashboardInv, PendingOK
    <2>3. Tail(pending["wizard"]) = << >>
        BY <1>1, <2>1, <2>2 DEF Post
    <2> QED
        BY <2>1, <2>2, <2>3
<1>3. ASSUME NEW k \in Dialogs, NEW f \in Forms[k], Fill(k, f) PROVE FALSE
    BY <1>1, <1>3 DEF Fill
<1>4. ASSUME Reload \/ Close \/ Refocus \/ DeleteSucceeds \/ DeleteFails \/ UNCHANGED vars
      PROVE  FALSE
    BY <1>1, <1>4 DEF Reload, ServerReads, ListArrives, ReloadFails, Close, Refocus,
                      DeleteSucceeds, DeleteFails
<1>5. ASSUME NEW b \in Budgets,
             StartDelete(b) \/ \E cents \in Outside : OthersWrite(b, cents)
      PROVE  FALSE
    BY <1>1, <1>5 DEF StartDelete, OthersWrite
<1> QED
    BY <1>2, <1>3, <1>4, <1>5 DEF Next

LEMMA SettlesStep ==
    ASSUME DashboardInv, Settling, [Next]_vars, Succeeds("wizard"), exact["wizard"]
    PROVE  BroughtToZero
<1> DEFINE p == plan["wizard"]
<1>1. Post("wizard") /\ Len(Tail(pending["wizard"])) = 0
    BY SuccessIsPost
<1>2. Settled(p, table', Len(p) - 0) /\ p \in Seq(Request)
    BY <1>1, WizardPosts DEF DashboardInv, PendingOK, Dialogs
<1> HIDE DEF p
<1>3. \A i \in DOMAIN p : i <= Len(p) - 0
    BY <1>2
<1> QED
    BY <1>2, <1>3 DEF Settled, BroughtToZero, p

\* When the wizard planned with the balances as they are and nobody wrote in between, its
\* success leaves every budget that it credited at zero, whatever dialogs were opened and
\* closed, lists reloaded and other mutations started and refused meanwhile.
THEOREM WizardSettlesCorrect == Spec => WizardSettles
<1>1. Init => Settling
    BY DEF Init, Settling, Dialogs
<1>2. DashboardInv /\ Settling /\ [Next]_vars =>
        [Succeeds("wizard") /\ exact["wizard"] => BroughtToZero]_vars
    BY SettlesStep
<1> QED
    BY InitTypes, TypesStep, SettlingStep, <1>1, <1>2, PTL DEF Spec, WizardSettles
=============================================================================
