------------------------------- MODULE Shares -------------------------------
(***************************************************************************)
(* The list of shares in the settings dialog                               *)
(* (frontend/src/pages/Dashboard.tsx): a query per budget, and the two     *)
(* mutations that add and remove an e-mail.  Their onSuccess reloads the   *)
(* shares of the budget whose dialog was open when the page was last       *)
(* rendered with the request as the mutation's current one; that need not  *)
(* be the budget that was written.  What the server does with a request,   *)
(* statement by statement, is in module Sharing.                           *)
(***************************************************************************)
EXTENDS FiniteSets, QueryCache

CONSTANTS
    Shared,              \* budgets
    NoDialog,
    Emails,
    MaxShareClicks,      \* bound: what the user does
    MaxShareTrouble      \* bound: requests that fail, and writes of others

ASSUME SharesAssumption ==
    /\ NoDialog \notin Shared
    /\ MaxShareClicks \in Nat /\ MaxShareTrouble \in Nat

VARIABLES
    sharedWith,    \* the server: who has a share of b
    shares,        \* shares[b]: the query ['shares', b]
    dialogOf,      \* settingsBudget
    posts,         \* the requests of the two mutations that are not answered yet
    shareClicks, shareTrouble,   \* counters, bounded
    strayed        \* history: an answer reloaded the shares of another budget, see PostAnswered

shareCounters == <<shareClicks, shareTrouble>>
sharesVars == <<sharedWith, shares, dialogOf, posts, shareCounters, strayed>>

Kinds == {"add", "remove"}

\* A request, told apart by the click that sent it.  "current": it is the last one of its
\* mutation, on the page that is shown; "dialog": the settingsBudget of its onSuccess.
Post == [kind: Kinds, budget: Shared, email: Emails, click: 1..MaxShareClicks,
         stored: BOOLEAN, current: BOOLEAN, dialog: Shared \cup {NoDialog}]

SharesInit ==
    /\ sharedWith \in [Shared -> SUBSET Emails]
    /\ shares = [b \in Shared |-> Settled(NoData)]
    /\ dialogOf = NoDialog /\ posts = {} /\ strayed = {}
    /\ shareClicks = 0 /\ shareTrouble = 0

ShareClick == shareClicks < MaxShareClicks /\ shareClicks' = shareClicks + 1
ShareTrouble == shareTrouble < MaxShareTrouble /\ shareTrouble' = shareTrouble + 1

\* Shares that are asked for anew are no longer astray.
Astray(S) == {b \in S : shares'[b].stage # "asked"}

\* The page is rendered with the dialog of b: only a current request gets the new onSuccess.
Rerendered(b) == {IF p.current THEN [p EXCEPT !.dialog = b] ELSE p : p \in posts}

\* The requests of these mutations are not current any more.
Detached(kinds) == {[p EXCEPT !.current = @ /\ p.kind \notin kinds] : p \in posts}

OpenShares(b) ==
    /\ ShareClick /\ b # dialogOf /\ dialogOf' = b /\ posts' = Rerendered(b)
    /\ shares' = [shares EXCEPT ![b] = Observed(@)]
    /\ strayed' = Astray(strayed)
    /\ UNCHANGED <<sharedWith, shareTrouble>>

CloseShares ==
    /\ ShareClick /\ dialogOf # NoDialog
    /\ dialogOf' = NoDialog /\ posts' = Rerendered(NoDialog)
    /\ UNCHANGED <<sharedWith, shares, shareTrouble, strayed>>

FocusShares ==
    /\ ShareClick /\ dialogOf # NoDialog
    /\ shares' = [shares EXCEPT ![dialogOf] = Observed(@)]
    /\ strayed' = Astray(strayed)
    /\ UNCHANGED <<sharedWith, dialogOf, posts, shareTrouble>>

\* The page is unmounted: the dialog is gone, the requests go on.
LeaveDashboard ==
    /\ ShareClick /\ dialogOf' = NoDialog /\ posts' = Detached(Kinds)
    /\ UNCHANGED <<sharedWith, shares, shareTrouble, strayed>>

\* A mutation follows its last request only.
Send(kind, e) ==
    posts' = Detached({kind}) \cup
             {[kind |-> kind, budget |-> dialogOf, email |-> e, click |-> shareClicks',
               stored |-> FALSE, current |-> TRUE, dialog |-> dialogOf]}

\* The form: the button waits for the request before.
AddShare(e) ==
    /\ ShareClick /\ dialogOf # NoDialog
    /\ ~\E p \in posts : p.kind = "add" /\ p.current
    /\ Send("add", e)
    /\ UNCHANGED <<sharedWith, shares, dialogOf, shareTrouble, strayed>>

\* The cross of a share in the list, which waits for nothing.
RemoveShare(e) ==
    /\ ShareClick /\ dialogOf # NoDialog
    /\ shares[dialogOf].data # NoData /\ e \in shares[dialogOf].data
    /\ Send("remove", e)
    /\ UNCHANGED <<sharedWith, shares, dialogOf, shareTrouble, strayed>>

\* The server stores a request; its answer is still to come.
StorePost(p) ==
    /\ ~p.stored /\ posts' = (posts \ {p}) \cup {[p EXCEPT !.stored = TRUE]}
    /\ sharedWith' = [sharedWith EXCEPT ![p.budget] = IF p.kind = "add" THEN @ \cup {p.email}
                                                      ELSE @ \ {p.email}]
    /\ UNCHANGED <<shares, dialogOf, shareCounters, strayed>>

\* Mutant: the list is not reloaded.
KnownWrittenOnly(p) == shares

\* onSuccess: the shares that its dialog shows are reloaded; those that were written, when
\* they are not shown, as soon as they are.
KnownWritten(p) ==
    [c \in Shared |-> IF c = dialogOf /\ c = p.dialog THEN Invalidated(shares[c], TRUE)
                      ELSE IF c = p.budget /\ c # dialogOf THEN Overtaken(shares[c])
                      ELSE shares[c]]

\* A request that is not current may have been sent from the dialog that is open, and
\* reload the shares of another one.
PostAnswered(p) ==
    /\ p.stored /\ posts' = posts \ {p}
    /\ shares' = KnownWritten(p)
    /\ strayed' = Astray(IF ~p.current /\ p.budget = dialogOf /\ p.dialog # dialogOf
                         THEN strayed \cup {p.budget} ELSE strayed)
    /\ UNCHANGED <<sharedWith, dialogOf, shareCounters>>

\* An error, or a lost answer: nothing is reloaded.
PostFailed(p) ==
    /\ ShareTrouble /\ posts' = posts \ {p}
    /\ shares' = [shares EXCEPT ![p.budget] = Overtaken(@)]
    /\ UNCHANGED <<sharedWith, dialogOf, shareClicks, strayed>>

LoadShares(b) ==
    /\ \/ /\ shares[b].stage = "asked" /\ UNCHANGED shareTrouble
          /\ shares' = [shares EXCEPT ![b] = Answered(@, sharedWith[b])]
       \/ /\ shares[b].stage = "answered" /\ UNCHANGED shareTrouble
          /\ shares' = [shares EXCEPT ![b] = Arrived(@)]
       \/ /\ shares[b].stage # "idle" /\ ShareTrouble
          /\ shares' = [shares EXCEPT ![b] = Failed(@, b = dialogOf)]
    /\ strayed' = Astray(strayed)
    /\ UNCHANGED <<sharedWith, dialogOf, posts, shareClicks>>

\* Another window, or another user of the budget.
OthersShare(b) ==
    /\ ShareTrouble
    /\ \E e \in Emails : sharedWith' = [sharedWith EXCEPT ![b] = (@ \ {e}) \cup ({e} \ @)]
    /\ shares' = [shares EXCEPT ![b] = Overtaken(@)]
    /\ UNCHANGED <<dialogOf, posts, shareClicks, strayed>>

SharesNext ==
    \/ CloseShares \/ FocusShares \/ LeaveDashboard
    \/ \E p \in posts : StorePost(p) \/ PostAnswered(p) \/ PostFailed(p)
    \/ \E e \in Emails : AddShare(e) \/ RemoveShare(e)
    \/ \E b \in Shared : OpenShares(b) \/ LoadShares(b) \/ OthersShare(b)

-----------------------------------------------------------------------------
(* Properties *)

SharesTypeOK ==
    /\ sharedWith \in [Shared -> SUBSET Emails]
    /\ shares \in [Shared -> Query((SUBSET Emails) \cup {NoData})]
    /\ dialogOf \in Shared \cup {NoDialog}
    /\ posts \subseteq Post /\ strayed \subseteq Shared
    /\ shareClicks \in 0..MaxShareClicks /\ shareTrouble \in 0..MaxShareTrouble

\* The shares in the dialog, once no request for its budget is under way, are the server's,
\* if the window could know of every write since it asked: also when the answer to a write
\* came while another dialog was open, and however the requests overlapped.  The exception
\* is a request that another of its mutation followed, or whose page was left: it may have
\* reloaded the shares of another budget than it wrote.
SharesCurrent ==
    /\ dialogOf # NoDialog /\ dialogOf \notin strayed
    /\ \A p \in posts : p.budget # dialogOf
    => Current(shares[dialogOf], sharedWith[dialogOf])
=============================================================================
