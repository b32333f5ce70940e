----------------------------- MODULE QueryCache -----------------------------
(***************************************************************************)
(* What the pages rely on in @tanstack/react-query (version 5), with the   *)
(* options of frontend/src/main.tsx: staleTime is 0, and no request takes  *)
(* the abort signal.  A query is the data it holds and the request that is *)
(* under way for it; the operators return the query after an event.  The   *)
(* library is external: it is modelled from how the pages use it.          *)
(*                                                                         *)
(* The field "behind" is a history: the server may have changed, to the    *)
(* window's knowledge or not, since the last request asked for the data.   *)
(***************************************************************************)
EXTENDS Naturals

CONSTANT NoData      \* what a query holds that was never answered

Stages == {"idle", "asked", "answered"}
Query(D) == [data: D, stage: Stages, answer: D, tries: 0..2, behind: BOOLEAN]

Settled(data) ==
    [data |-> data, stage |-> "idle", answer |-> NoData, tries |-> 0, behind |-> FALSE]
Ask(q) == [Settled(q.data) EXCEPT !.stage = "asked"]

\* isLoading; a load that failed for good leaves a query that is not loading.
Loading(q) == q.stage # "idle" /\ q.data = NoData

\* A page shows the query, or gets the focus: a request under way is joined.
Observed(q) == IF q.stage = "idle" THEN Ask(q) ELSE q

\* Something was written: a request that the server has still to read will see it.
Overtaken(q) == [q EXCEPT !.behind = @ \/ q.stage # "asked"]

\* invalidateQueries: a query that is shown is asked again, any other when it is next
\* shown.  A request under way is discarded, except the first, without data to keep.
Invalidated(q, shown) ==
    IF shown /\ (q.stage = "idle" \/ q.data # NoData) THEN Ask(q) ELSE Overtaken(q)

Answered(q, data) == [q EXCEPT !.stage = "answered", !.answer = data]
Arrived(q) == [Settled(q.answer) EXCEPT !.behind = q.behind]

\* Mutant: once more than the option says.
RetriedOnceMore(q) == q.tries <= 2

\* retry in main.tsx: twice.
Retried(q) == q.tries < 2

\* A failed request is repeated as long as the query is shown.
Failed(q, shown) ==
    IF shown /\ Retried(q)
    THEN [Ask(q) EXCEPT !.tries = q.tries + 1]
    ELSE [Settled(q.data) EXCEPT !.behind = TRUE]

\* What is shown is what the server has.
Current(q, data) ==
    q.stage = "idle" /\ q.data # NoData /\ ~q.behind => q.data = data
=============================================================================
