------------------------------ MODULE MCWindow ------------------------------
(***************************************************************************)
(* The parts of a browser window, on small instances.  They share no       *)
(* state, so a behaviour picks one of them and the others stay as they     *)
(* are: the state spaces add up and do not multiply.                       *)
(***************************************************************************)
EXTENDS Settings, Shares, ApiKeys, Entries, Session

Parts == {"settings", "shares", "keys", "entries", "session"}

VARIABLE part

\* Settings: one source with a weight the form can express, or with one it cannot.
TwoBudgets == {1, 2}
WeightOf2(n) == [s \in Budgets |-> IF s = 2 THEN n ELSE 0]
RowOf(basics, on, weight) == [basics |-> basics, balance |-> [on |-> on, weight |-> weight]]
Unset == RowOf("x", FALSE, WeightOf2(0))
StartChoices == {[b \in Budgets |-> IF b = 1 THEN RowOf("x", TRUE, WeightOf2(n)) ELSE Unset] :
                   n \in {1, 2}}
OtherChoices == [b \in Budgets |-> IF b = 1 THEN {RowOf("y", FALSE, WeightOf2(0))} ELSE {}]

\* Keys that look alike; the user has made none of hers yet, or all of them.
SamePrefix == [k \in Keys |-> 1]
KeyChoices == {Keys \ Mine, Keys}

\* Entries: the last two are of one transaction of the database.
Times == <<1, 2, 3, 4, 4>>
UsedChoices == {{1, 2, 3, 4}, {1, 4, 5}}

WindowInit ==
    /\ part \in Parts
    /\ SettingsInit /\ (part # "settings" => row = CHOOSE r \in StartRows : TRUE)
                    /\ (part # "settings" => visible = {})
    /\ SharesInit /\ (part # "shares" => sharedWith = [b \in Shared |-> {}])
    /\ KeysInit /\ keyRows \in IF part = "keys" THEN KeyChoices ELSE {{}}
    /\ EntriesInit /\ used \in IF part = "entries" THEN UsedChoices ELSE {{}}
    /\ IF part = "session" THEN SessionInit
       ELSE /\ stored = NoToken /\ news = {} /\ requests = {} /\ crossed = {}
            /\ at = [w \in Windows |-> "/login"] /\ shown = at
            /\ authed = [w \in Windows |-> FALSE] /\ bar = authed
            /\ signing = [w \in Windows |-> NoSignIn]
            /\ given = {} /\ valid = {} /\ moves = 0 /\ mishaps = 0

Only(p, next) == part = p /\ next /\ UNCHANGED part

WindowNext ==
    \/ /\ Only("settings", SettingsNext)
       /\ UNCHANGED <<sharesVars, keysVars, entriesVars, sessionVars>>
    \/ /\ Only("shares", SharesNext)
       /\ UNCHANGED <<settingsVars, keysVars, entriesVars, sessionVars>>
    \/ /\ Only("keys", KeysNext)
       /\ UNCHANGED <<settingsVars, sharesVars, entriesVars, sessionVars>>
    \/ /\ Only("entries", EntriesNext)
       /\ UNCHANGED <<settingsVars, sharesVars, keysVars, sessionVars>>
    \/ /\ Only("session", SessionNext)
       /\ UNCHANGED <<settingsVars, sharesVars, keysVars, entriesVars>>

windowVars == <<part, settingsVars, sharesVars, keysVars, entriesVars, sessionVars>>

WindowSpec == WindowInit /\ [][WindowNext]_windowVars /\ SessionFairness

\* The state of every part has its type.
WindowTypeOK ==
    /\ SettingsTypeOK /\ SharesTypeOK /\ KeysTypeOK /\ EntriesTypeOK /\ SessionTypeOK

\* What a page shows once nothing is under way is what the server has, if the window
\* could know of every write: the settings, the shares, the keys and the entries.  Each
\* part names its exceptions, the shares that of an overtaken request that went astray.
ShownIsCurrent == SettingsCurrent /\ SharesCurrent /\ KeysCurrent /\ EntriesCurrent
=============================================================================
