----------------------------- MODULE Membership -----------------------------
(***************************************************************************)
(* What sharing budgets promises.  A budget starts with the user who       *)
(* creates it; from then on who uses it, what covers it, and its end are   *)
(* decided by its users.  A decision may come late: a request takes effect *)
(* although its user has left meanwhile.  `entitled` are the decisions     *)
(* that can still take effect: those of the users of a budget, and those   *)
(* that a user has under way.  Nothing but having been a user of a budget  *)
(* entitles to one.                                                        *)
(***************************************************************************)
CONSTANTS Users, Budgets

VARIABLES
    status,    \* status[b]: "unborn", "live" or "deleted"
    members,   \* the pairs <<u, b>> of a user and a budget of hers
    sources,   \* the pairs <<b, s>>: deficits of b are covered from s
    entitled   \* the pairs <<u, b>> that may decide about b

vars == <<status, members, sources, entitled>>

Of(pairs, b) == {p \in pairs : p[1] = b}
With(pairs, b) == {p \in pairs : p[2] = b}

Init ==
    /\ status \in [Budgets -> {"unborn", "live"}]
    /\ \A p \in members : status[p[2]] = "live"
    /\ \A p \in sources : status[p[1]] = "live" /\ status[p[2]] = "live"
    /\ entitled = members

Create(u, b) ==
    /\ status[b] = "unborn" /\ status' = [status EXCEPT ![b] = "live"]
    /\ members' = members \cup {<<u, b>>}
    /\ UNCHANGED sources

Admit(u, b, guest) ==
    /\ <<u, b>> \in entitled /\ status[b] = "live"
    /\ members' = members \cup {<<guest, b>>}
    /\ UNCHANGED <<status, sources>>

Dismiss(u, b, guest) ==
    /\ <<u, b>> \in entitled
    /\ members' = members \ {<<guest, b>>}
    /\ UNCHANGED <<status, sources>>

Cover(u, b, from) ==
    /\ \A c \in {b} \cup from : <<u, c>> \in entitled /\ status[c] = "live"
    /\ sources' = (sources \ Of(sources, b)) \cup ({b} \X from)
    /\ UNCHANGED <<status, members>>

Close(u, b) ==
    /\ <<u, b>> \in entitled
    /\ status[b] = "live" /\ status' = [status EXCEPT ![b] = "deleted"]
    /\ members' = members \ With(members, b)
    /\ sources' = sources \ (Of(sources, b) \cup With(sources, b))

Decide ==
    \E u \in Users, b \in Budgets :
        \/ Create(u, b) \/ Close(u, b)
        \/ \E guest \in Users : Admit(u, b, guest) \/ Dismiss(u, b, guest)
        \/ \E from \in SUBSET (Budgets \ {b}) : Cover(u, b, from)

Next ==
    /\ Decide \/ UNCHANGED <<status, members, sources>>
    /\ members' \subseteq entitled' /\ entitled' \subseteq entitled \cup members'

Spec == Init /\ [][Next]_vars
=============================================================================
