------------------------------ MODULE Entries -------------------------------
(***************************************************************************)
(* The entries of a budget, as its panel shows them page by page           *)
(* (frontend/src/pages/Dashboard.tsx), over GET                            *)
(* /budgets/{id}/transactions (internal/server/handlers/api.go,            *)
(* internal/store/store.go).  A page is what a query with LIMIT and OFFSET *)
(* returns at its moment; a reload reads as many pages as were shown, one  *)
(* request after the other, and replaces them at the end.                  *)
(*                                                                         *)
(* Entries are ordered by created_at alone.  The entries of one            *)
(* transaction of the database have the same created_at, and those may     *)
(* come in any order, in each query anew.                                  *)
(*                                                                         *)
(* react-query is external: see QueryCache.  "Load more" discards a reload *)
(* that is under way, and a reload discards a page that is under way.      *)
(***************************************************************************)
EXTENDS Integers, FiniteSets, Sequences, SequencesExt

CONSTANTS
    Ids,                  \* of entries
    CreatedAt,            \* a time for every one
    PageSize,
    MaxEntryClicks,       \* bound: what the user does
    MaxEntryTrouble       \* bound: requests that fail, and writes of others

ASSUME EntriesAssumption ==
    /\ IsFiniteSet(Ids)      \* a column of 32 bits
    /\ CreatedAt \in [Ids -> Nat] /\ PageSize \in Nat \ {0}
    /\ MaxEntryClicks \in Nat /\ MaxEntryTrouble \in Nat

VARIABLES
    entries,    \* the table: what each entry of the budget says
    used,       \* the ids that were given out
    expanded,   \* the panel is open
    pages,      \* the pages shown
    fetch,      \* the requests under way: for a reload, or for one more page
    changing,   \* changing[op]: the request that was sent to change an entry
    entryClicks, entryTrouble,   \* counters, bounded
    outdated    \* history: a write that the last reload may not have seen

panel == <<expanded, pages, fetch, outdated>>
entryCounters == <<entryClicks, entryTrouble>>
entriesVars == <<entries, used, panel, changing, entryCounters>>

Texts == {"old", "new"}
Changes == {"save", "delete"}
NoFetch == [kind |-> "none", got |-> << >>, tries |-> 0]
NoChange == [sent |-> {}, stored |-> FALSE]

-----------------------------------------------------------------------------
(* The server *)

\* ORDER BY created_at DESC: e may be the n-th row.
MayBeAt(e, n) ==
    /\ n > Cardinality({d \in DOMAIN entries : CreatedAt[d] > CreatedAt[e]})
    /\ n <= Cardinality({d \in DOMAIN entries : CreatedAt[d] >= CreatedAt[e]})

\* LIMIT PageSize OFFSET offset
PageRows(offset) ==
    LET count == Max({0, Min({PageSize, Cardinality(DOMAIN entries) - offset})})
    IN  {r \in [1..count -> DOMAIN entries] :
           IsInjective(r) /\ \A i \in 1..count : MayBeAt(r[i], offset + i)}

\* Mutant: the offset of the next page is counted from this one.
NextOffsetOfPage(offset, count) == count

NextOffset(offset, count) == offset + count

\* listTransactions: the answers it may give.  The history `among` is what there was.
Answers(offset) ==
    {[rows |-> [i \in DOMAIN r |-> [id |-> r[i], text |-> entries[r[i]]]],
      hasMore |-> Len(r) = PageSize,
      nextOffset |-> NextOffset(offset, Len(r)),
      among |-> DOMAIN entries] : r \in PageRows(offset)}

EntriesInit ==
    /\ used \in SUBSET Ids /\ entries = [e \in used |-> "old"]
    /\ expanded = FALSE /\ pages = << >> /\ fetch = NoFetch /\ outdated = FALSE
    /\ changing = [op \in Changes |-> NoChange]
    /\ entryClicks = 0 /\ entryTrouble = 0

EntryClick == entryClicks < MaxEntryClicks /\ entryClicks' = entryClicks + 1
EntryTrouble == entryTrouble < MaxEntryTrouble /\ entryTrouble' = entryTrouble + 1

-----------------------------------------------------------------------------
(* The query ['transactions', budget, search] *)

Reload == fetch' = [kind |-> "reload", got |-> << >>, tries |-> 0] /\ outdated' = FALSE

\* The requests under way are kept, unless there are none.
JoinOrReload ==
    IF fetch.kind = "none" THEN Reload ELSE UNCHANGED <<fetch, outdated>>

\* Something was written: a reload that has nothing yet will read it.
Miss ==
    /\ outdated' = (outdated \/ fetch.kind # "reload" \/ fetch.got # << >>)
    /\ UNCHANGED fetch

\* invalidateQueries(['transactions', budget])
InvalidatePages ==
    IF expanded /\ (fetch.kind = "none" \/ pages # << >>) THEN Reload ELSE Miss

Fetched ==
    \/ fetch.kind = "more" /\ Len(fetch.got) = 1
    \/ /\ fetch.kind = "reload" /\ fetch.got # << >>
       /\ Len(fetch.got) >= Len(pages) \/ ~Last(fetch.got).hasMore

\* getNextPageParam
Offset == IF fetch.kind = "more" THEN Last(pages).nextOffset
          ELSE IF fetch.got = << >> THEN 0 ELSE Last(fetch.got).nextOffset

ReadPage ==
    /\ fetch.kind # "none" /\ ~Fetched
    /\ \E p \in Answers(Offset) : fetch' = [fetch EXCEPT !.got = Append(@, p)]
    /\ UNCHANGED <<entries, used, expanded, pages, outdated, changing, entryCounters>>

PagesArrive ==
    /\ Fetched
    /\ pages' = IF fetch.kind = "more" THEN pages \o fetch.got ELSE fetch.got
    /\ fetch' = NoFetch
    /\ UNCHANGED <<entries, used, expanded, outdated, changing, entryCounters>>

\* retry in main.tsx: twice, from the page that failed, as long as the panel is open.
FetchFails ==
    /\ fetch.kind # "none" /\ EntryTrouble
    /\ IF expanded /\ fetch.tries < 2
       THEN fetch' = [fetch EXCEPT !.tries = @ + 1] /\ UNCHANGED outdated
       ELSE fetch' = NoFetch /\ outdated' = TRUE
    /\ UNCHANGED <<entries, used, expanded, pages, changing, entryClicks>>

-----------------------------------------------------------------------------
(* The panel *)

\* openTransactions: removeQueries finds no query with a key of two parts, so that the
\* pages from before are shown until they are reloaded.
Expand ==
    /\ EntryClick /\ ~expanded /\ expanded' = TRUE /\ JoinOrReload
    /\ UNCHANGED <<entries, used, pages, changing, entryTrouble>>

\* A second click on the panel, or a dialog that opens.
Collapse ==
    /\ EntryClick /\ expanded /\ expanded' = FALSE
    /\ UNCHANGED <<entries, used, pages, fetch, outdated, changing, entryTrouble>>

FocusPanel ==
    /\ EntryClick /\ expanded /\ JoinOrReload
    /\ UNCHANGED <<entries, used, expanded, pages, changing, entryTrouble>>

\* fetchNextPage: a reload under way is given up, for good.
LoadMore ==
    /\ EntryClick /\ expanded /\ pages # << >> /\ Last(pages).hasMore
    /\ fetch.kind # "more"
    /\ fetch' = [kind |-> "more", got |-> << >>, tries |-> 0]
    /\ outdated' = (outdated \/ fetch.kind = "reload")
    /\ UNCHANGED <<entries, used, expanded, pages, changing, entryTrouble>>

ShownRows == FoldLeft(LAMBDA rows, p : rows \o p.rows, << >>, pages)
ShownIds == [i \in DOMAIN ShownRows |-> ShownRows[i].id]

\* Save or Delete, in the form of an entry that is shown.
SendChange(op, e) ==
    /\ EntryClick /\ expanded /\ e \in Range(ShownIds) /\ changing[op] = NoChange
    /\ changing' = [changing EXCEPT ![op] = [sent |-> {e}, stored |-> FALSE]]
    /\ UNCHANGED <<entries, used, panel, entryTrouble>>

\* The server changes or deletes the entry; the answer is still to come.
StoreChange(op) ==
    /\ changing[op].sent # {} /\ ~changing[op].stored /\ changing[op].sent \subseteq DOMAIN entries
    /\ entries' = IF op = "save"
                  THEN [e \in DOMAIN entries |->
                          IF e \in changing[op].sent THEN "new" ELSE entries[e]]
                  ELSE Restrict(entries, DOMAIN entries \ changing[op].sent)
    /\ changing' = [changing EXCEPT ![op].stored = TRUE]
    /\ UNCHANGED <<used, panel, entryCounters>>

\* Mutant: only the list of budgets is reloaded.
ChangeAnsweredOnly(op) ==
    /\ changing[op].stored
    /\ changing' = [changing EXCEPT ![op] = NoChange]
    /\ UNCHANGED <<entries, used, panel, entryCounters>>

\* onSuccess
ChangeAnswered(op) ==
    /\ changing[op].stored
    /\ changing' = [changing EXCEPT ![op] = NoChange]
    /\ InvalidatePages
    /\ UNCHANGED <<entries, used, expanded, pages, entryCounters>>

\* An error, a lost answer, or an entry that is gone: nothing is reloaded.
ChangeFails(op) ==
    /\ changing[op].sent # {}
    /\ \/ EntryTrouble
       \/ /\ ~changing[op].stored /\ ~(changing[op].sent \subseteq DOMAIN entries)
          /\ UNCHANGED entryTrouble
    /\ changing' = [changing EXCEPT ![op] = NoChange]
    /\ Miss
    /\ UNCHANGED <<entries, used, expanded, pages, entryClicks>>

Added(e) ==
    /\ entries' = [d \in DOMAIN entries \cup {e} |-> IF d = e THEN "old" ELSE entries[d]]
    /\ used' = used \cup {e}

\* createTransaction and runPayroll: the dialogs that add entries, with their onSuccess.
AddEntry ==
    /\ EntryClick
    /\ \E e \in Ids \ used : Added(e)
    /\ InvalidatePages
    /\ UNCHANGED <<expanded, pages, changing, entryTrouble>>

\* Another window, another user, payroll.
OthersWriteEntry ==
    /\ EntryTrouble
    /\ \/ \E e \in Ids \ used : Added(e)
       \/ \E e \in DOMAIN entries : /\ entries' = Restrict(entries, DOMAIN entries \ {e})
                                    /\ UNCHANGED used
    /\ Miss
    /\ UNCHANGED <<expanded, pages, changing, entryClicks>>

EntriesNext ==
    \/ ReadPage \/ PagesArrive \/ FetchFails
    \/ Expand \/ Collapse \/ FocusPanel \/ LoadMore
    \/ AddEntry \/ OthersWriteEntry
    \/ \E op \in Changes : \/ StoreChange(op) \/ ChangeAnswered(op) \/ ChangeFails(op)
                           \/ \E e \in Ids : SendChange(op, e)

-----------------------------------------------------------------------------
(* Properties *)

EntriesTypeOK ==
    /\ used \in SUBSET Ids /\ DOMAIN entries \subseteq used /\ Range(entries) \subseteq Texts
    /\ expanded \in BOOLEAN /\ outdated \in BOOLEAN
    /\ fetch.kind \in {"none", "reload", "more"} /\ fetch.tries \in 0..2
    /\ changing \in [Changes -> [sent: SUBSET Ids, stored: BOOLEAN]]
    /\ entryClicks \in 0..MaxEntryClicks /\ entryTrouble \in 0..MaxEntryTrouble

Among(i) == pages[i].among
Clocked == LET all == UNION {Among(i) : i \in DOMAIN pages}
           IN  \A d, e \in all : d # e => CreatedAt[d] # CreatedAt[e]
\* Everything that was there from the first page on and is not older than the last row.
Covered == IF pages = << >> THEN {}
           ELSE {e \in Among(1) : \/ ~Last(pages).hasMore
                                  \/ CreatedAt[e] >= CreatedAt[Last(ShownIds)]}

\* However the pages came about, by reloads, single pages, retries and requests that were
\* given up, and if no two entries have the same time: with nothing removed between the
\* first page and the last, no entry is left out; with nothing added, none is shown twice.
PagesExact ==
    Clocked =>
        /\ (\A i \in 2..Len(pages) : Among(i - 1) \subseteq Among(i))
           => Covered \subseteq Range(ShownIds)
        /\ (\A i \in 2..Len(pages) : Among(i) \subseteq Among(i - 1))
           => IsInjective(ShownIds)

\* An open panel, once no request is under way, shows the entries as the server has them,
\* if no reload was given up for one more page, and the window could know of every write.
EntriesCurrent ==
    (/\ expanded /\ fetch.kind = "none" /\ ~outdated
     /\ \A op \in Changes : changing[op] = NoChange)
    => /\ \A i \in DOMAIN pages : Among(i) = DOMAIN entries
       /\ \A r \in Range(ShownRows) : r.id \in DOMAIN entries /\ entries[r.id] = r.text
=============================================================================
