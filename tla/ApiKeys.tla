------------------------------ MODULE ApiKeys -------------------------------
(***************************************************************************)
(* API keys: the page that makes and revokes them                          *)
(* (frontend/src/pages/APIKeys.tsx), the table (internal/store/store.go),  *)
(* and the requests to /mcp that a key authenticates                       *)
(* (internal/server/middleware/api_key.go).  A key stands for its id, its  *)
(* token and the hash of the token, which are unique; the prefix that the  *)
(* page shows need not be.  A call looks its key up once, when it arrives, *)
(* and is then served as the owner of the key.                             *)
(***************************************************************************)
EXTENDS FiniteSets, QueryCache

CONSTANTS
    Keys, NoKey,
    Mine,              \* the keys that the user of the page makes
    PrefixOf,          \* what the page shows of a key
    Callers,
    MaxKeyClicks,      \* bound: what the user does
    MaxKeyTrouble,     \* bound: requests that fail, and writes of others
    MaxCalls           \* bound, for each caller

ASSUME KeysAssumption ==
    /\ NoKey \notin Keys /\ Mine \subseteq Keys
    /\ MaxKeyClicks \in Nat /\ MaxKeyTrouble \in Nat /\ MaxCalls \in Nat

VARIABLES
    keyRows,       \* the table api_keys
    made,          \* the keys that were ever made
    known,         \* the tokens that somebody has seen
    onKeys,        \* the page is shown
    keysQuery,     \* the query ['api-keys']
    newToken,      \* the key whose token the page shows
    making, revoking,   \* the requests of each mutation that are not answered yet
    calls,         \* calls[c]: the call that c makes to /mcp
    called, keyClicks, keyTrouble,   \* counters, bounded
    confirmed      \* history: the keys whose revocation was answered with a success

keyTable == <<keyRows, made>>
keysPage == <<onKeys, keysQuery, newToken, making, revoking, confirmed>>
keyCounters == <<keyClicks, keyTrouble>>
keysVars == <<keyTable, known, keysPage, calls, called, keyCounters>>

CallStages == {"none", "sent", "admitted", "served", "refused"}
NoCall == [key |-> NoKey, stage |-> "none", late |-> FALSE, erred |-> FALSE]

\* A request, told apart by the click that sent it; "current": its page is still shown.
KeyRequest == [key: Keys, click: 1..MaxKeyClicks, stored: BOOLEAN, current: BOOLEAN]

KeysInit ==
    /\ keyRows \in SUBSET Keys /\ made = keyRows /\ known = keyRows
    /\ onKeys = FALSE /\ keysQuery = Settled(NoData) /\ newToken = NoKey
    /\ making = {} /\ revoking = {}
    /\ calls = [c \in Callers |-> NoCall]
    /\ called = [c \in Callers |-> 0] /\ keyClicks = 0 /\ keyTrouble = 0
    /\ confirmed = {}

KeyClick == keyClicks < MaxKeyClicks /\ keyClicks' = keyClicks + 1
KeyTrouble == keyTrouble < MaxKeyTrouble /\ keyTrouble' = keyTrouble + 1

-----------------------------------------------------------------------------
(* The page *)

\* Mounted, or the window gets the focus.
ShowKeys ==
    /\ KeyClick /\ onKeys' = TRUE
    /\ keysQuery' = Observed(keysQuery)
    /\ UNCHANGED <<keyTable, known, newToken, making, revoking, confirmed, calls, called,
                   keyTrouble>>

\* Unmounted: the token is gone, the requests go on.
Abandoned(sent) == {[r EXCEPT !.current = FALSE] : r \in sent}

LeaveKeys ==
    /\ KeyClick /\ onKeys /\ onKeys' = FALSE /\ newToken' = NoKey
    /\ making' = Abandoned(making) /\ revoking' = Abandoned(revoking)
    /\ UNCHANGED <<keyTable, known, keysQuery, confirmed, calls, called, keyTrouble>>

\* The buttons of a mutation wait for the request that this page has sent before.
Free(sent) == \A r \in sent : ~r.current
Sent(k) == [key |-> k, click |-> keyClicks', stored |-> FALSE, current |-> TRUE]

\* createKey; which key it will be is settled by the server.
MakeKey ==
    /\ KeyClick /\ onKeys /\ Free(making)
    /\ \E k \in Mine \ made : making' = making \cup {Sent(k)} /\ made' = made \cup {k}
    /\ UNCHANGED <<keyRows, known, onKeys, keysQuery, newToken, revoking, confirmed, calls,
                   called, keyTrouble>>

\* deleteKey, of a key in the list.
RevokeKey(k) ==
    /\ KeyClick /\ onKeys /\ Free(revoking)
    /\ keysQuery.data # NoData /\ k \in keysQuery.data
    /\ revoking' = revoking \cup {Sent(k)}
    /\ UNCHANGED <<keyTable, known, onKeys, keysQuery, newToken, making, confirmed, calls,
                   called, keyTrouble>>

\* Mutant: the list is not reloaded.
KeysWrittenOnly == keysQuery

KeysWritten == Invalidated(keysQuery, onKeys)

\* onSuccess of createKey: the page that asked, if it is still there, shows the token.
KeyMade(r) ==
    /\ r.stored /\ making' = making \ {r}
    /\ newToken' = IF r.current THEN r.key ELSE newToken
    /\ known' = IF r.current THEN known \cup {r.key} ELSE known
    /\ keysQuery' = KeysWritten
    /\ UNCHANGED <<keyTable, onKeys, revoking, confirmed, calls, called, keyCounters>>

\* onSuccess of deleteKey
KeyRevoked(r) ==
    /\ r.stored /\ revoking' = revoking \ {r}
    /\ confirmed' = confirmed \cup {r.key}
    /\ keysQuery' = KeysWritten
    /\ UNCHANGED <<keyTable, known, onKeys, newToken, making, calls, called, keyCounters>>

\* An error, a lost answer, or a key that is gone already: nothing is reloaded.
KeyRequestFails(r) ==
    /\ making' = making \ {r} /\ revoking' = revoking \ {r}
    /\ \/ KeyTrouble
       \/ r \in revoking /\ ~r.stored /\ r.key \notin keyRows /\ UNCHANGED keyTrouble
    /\ keysQuery' = Overtaken(keysQuery)
    /\ UNCHANGED <<keyTable, known, onKeys, newToken, confirmed, calls, called, keyClicks>>

-----------------------------------------------------------------------------
(* The store *)

\* ListAPIKeys
LoadKeys ==
    /\ \/ /\ keysQuery.stage = "asked" /\ UNCHANGED keyTrouble
          /\ keysQuery' = Answered(keysQuery, keyRows \cap Mine)
       \/ /\ keysQuery.stage = "answered" /\ UNCHANGED keyTrouble
          /\ keysQuery' = Arrived(keysQuery)
       \/ /\ keysQuery.stage # "idle" /\ KeyTrouble
          /\ keysQuery' = Failed(keysQuery, onKeys)
    /\ UNCHANGED <<keyTable, known, onKeys, newToken, making, revoking, confirmed, calls,
                   called, keyClicks>>

KeyStored(sent, r) == (sent \ {r}) \cup {[r EXCEPT !.stored = TRUE]}

CreateAPIKey(r) ==
    /\ ~r.stored /\ making' = KeyStored(making, r)
    /\ keyRows' = keyRows \cup {r.key}
    /\ UNCHANGED <<made, known, onKeys, keysQuery, newToken, revoking, confirmed, calls,
                   called, keyCounters>>

DeleteAPIKey(r) ==
    /\ ~r.stored /\ r.key \in keyRows \cap Mine /\ revoking' = KeyStored(revoking, r)
    /\ keyRows' = keyRows \ {r.key}
    /\ UNCHANGED <<made, known, onKeys, keysQuery, newToken, making, confirmed, calls,
                   called, keyCounters>>

\* Another window of this user, or another user.
OthersChangeKeys ==
    /\ KeyTrouble
    /\ \/ \E k \in keyRows : keyRows' = keyRows \ {k} /\ UNCHANGED <<made, known>>
       \/ \E k \in Keys \ made : /\ keyRows' = keyRows \cup {k}
                                 /\ made' = made \cup {k} /\ known' = known \cup {k}
    /\ keysQuery' = Overtaken(keysQuery)
    /\ UNCHANGED <<onKeys, newToken, making, revoking, confirmed, calls, called, keyClicks>>

-----------------------------------------------------------------------------
(* Calls to /mcp *)

Call(c, k) ==
    /\ calls[c].stage \in {"none", "served", "refused"} /\ k \in known
    /\ called[c] < MaxCalls /\ called' = [called EXCEPT ![c] = @ + 1]
    /\ calls' = [calls EXCEPT ![c] = [key |-> k, stage |-> "sent", late |-> k \in confirmed,
                                         erred |-> FALSE]]
    /\ UNCHANGED <<keyTable, known, keysPage, keyCounters>>

\* Mutant: a row whose prefix matches.
FoundByPrefix(k) == \E row \in keyRows : PrefixOf[row] = PrefixOf[k]

\* GetAPIKeyByToken: the row whose hash is that of the token.
Found(k) == k \in keyRows

\* APIKeyAuth: 401 for a token that is not found, and also when the look-up itself fails or
\* is cancelled.
Authenticate(c) ==
    /\ calls[c].stage = "sent"
    /\ \/ /\ Found(calls[c].key) /\ UNCHANGED keyTrouble
          /\ calls' = [calls EXCEPT ![c].stage = "admitted"]
       \/ /\ ~Found(calls[c].key) /\ UNCHANGED keyTrouble
          /\ calls' = [calls EXCEPT ![c].stage = "refused"]
       \/ /\ KeyTrouble
          /\ calls' = [calls EXCEPT ![c].stage = "refused", ![c].erred = TRUE]
    /\ UNCHANGED <<keyTable, known, keysPage, called, keyClicks>>

\* The tool runs; the key is not looked at again.
Serve(c) ==
    /\ calls[c].stage = "admitted"
    /\ calls' = [calls EXCEPT ![c].stage = "served"]
    /\ UNCHANGED <<keyTable, known, keysPage, called, keyCounters>>

KeysNext ==
    \/ ShowKeys \/ LeaveKeys \/ MakeKey \/ LoadKeys \/ OthersChangeKeys
    \/ \E r \in making : KeyMade(r) \/ CreateAPIKey(r)
    \/ \E r \in revoking : KeyRevoked(r) \/ DeleteAPIKey(r)
    \/ \E r \in making \cup revoking : KeyRequestFails(r)
    \/ \E k \in Keys : RevokeKey(k)
    \/ \E c \in Callers : Authenticate(c) \/ Serve(c) \/ \E k \in Keys : Call(c, k)

KeysSpec == KeysInit /\ [][KeysNext]_keysVars

-----------------------------------------------------------------------------
(* Properties *)

KeysTypeOK ==
    /\ keyRows \subseteq Keys /\ made \subseteq Keys
    /\ known \subseteq Keys /\ confirmed \subseteq Keys
    /\ onKeys \in BOOLEAN /\ newToken \in Keys \cup {NoKey}
    /\ keysQuery \in Query((SUBSET Keys) \cup {NoData})
    /\ making \subseteq KeyRequest /\ revoking \subseteq KeyRequest
    /\ calls \in [Callers -> [key: Keys \cup {NoKey}, stage: CallStages, late: BOOLEAN,
                          erred: BOOLEAN]]
    /\ called \in [Callers -> 0..MaxCalls]
    /\ keyClicks \in 0..MaxKeyClicks /\ keyTrouble \in 0..MaxKeyTrouble

\* A call that is sent after the revocation of its key was confirmed is never admitted nor
\* served, and one that is refused has a key that is gone for good, unless its look-up has
\* failed: that is a 401 too.  A call under way at the revocation may be served.
RevokedStaysOut ==
    \A c \in Callers :
        /\ calls[c].late => calls[c].stage \notin {"admitted", "served"}
        /\ calls[c].stage = "refused" /\ ~calls[c].erred => calls[c].key \notin keyRows

\* The list of keys, once no request is under way, is the server's, if the page could
\* know of every write since it asked.
KeysCurrent ==
    onKeys /\ making = {} /\ revoking = {}
    => Current(keysQuery, keyRows \cap Mine)
=============================================================================
