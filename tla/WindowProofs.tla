---------------------------- MODULE WindowProofs ----------------------------
(***************************************************************************)
(* Theorems about the five parts of the browser window, for any constants, *)
(* and about the window that they make up.                                 *)
(*                                                                         *)
(* Settings: what the dialog reports as saved is stored; the step of the   *)
(* save that is not seen in the end is the one between the two requests,   *)
(* when the first half is stored already: Halfway.  And a save leaves the  *)
(* rest as it is: the form, where it was not touched, holds what the       *)
(* window holds of the budget that is open: Filled.                        *)
(*                                                                         *)
(* ApiKeys: its types, and that a revoked key stays out.  The second needs *)
(* to know that no key is made twice: a token that was seen, or whose      *)
(* revocation was answered, is never stored again.                         *)
(*                                                                         *)
(* Session: its types, and that a valid token is given up only for a       *)
(* reason.  The second rests on what a 401 says of the token that was      *)
(* sent: it was not valid, and since every token is made once, it will     *)
(* not be valid again.                                                     *)
(*                                                                         *)
(* Entries: the pages form a chain, in which each was asked for where the  *)
(* one before it ends.  A row stands in the panel where its entry stood    *)
(* among the others when its page was read, and from there it follows that *)
(* nothing is left out and nothing shown twice.                            *)
(*                                                                         *)
(* Settings, Shares, ApiKeys, Entries: what is shown is current, because a *)
(* query that is neither marked nor asked again holds, or was answered     *)
(* with, what the server has: Fresh, for each of them.                     *)
(***************************************************************************)
EXTENDS MCWindow, SumLemmas

-----------------------------------------------------------------------------
(* Settings: a save that succeeds is stored                                *)

IsRow(r) == r = [basics |-> r.basics, balance |-> r.balance]

\* The last save, and the dialog, are of a budget.
SaveShape ==
    /\ row = [b \in Budgets |-> row[b]] /\ \A b \in Budgets : IsRow(row[b])
    /\ opened \in Budgets \cup {NoBudget}
    /\ saving.stage # "none" => saving.budget \in Budgets /\ IsRow(saving.payload)
    /\ saving = IF saving.stage = "none"
                THEN [budget |-> saving.budget, stage |-> "none", alone |-> saving.alone]
                ELSE [budget |-> saving.budget, payload |-> saving.payload,
                      stage |-> saving.stage, alone |-> saving.alone]

Halfway ==
    saving.stage = "balance" /\ saving.alone
    => row[saving.budget].basics = saving.payload.basics

SavingInv == SaveShape /\ Halfway /\ SuccessMeansStored

LEMMA SavingInvInit == SettingsInit => SavingInv
<1> SUFFICES ASSUME SettingsInit PROVE SavingInv
  OBVIOUS
<1>1. row \in [Budgets -> Row]
  BY SettingsAssumption DEF SettingsInit, Rows
<1>2. SaveShape
  BY <1>1 DEF SettingsInit, SaveShape, IsRow, Row, NoSave
<1>3. Halfway /\ SuccessMeansStored
  BY DEF SettingsInit, Halfway, SuccessMeansStored, NoSave
<1> QED BY <1>2, <1>3 DEF SavingInv

\* One half of the payload replaces one half of the row.
LEMMA StoredHalf ==
    ASSUME SaveShape, saving.stage \in Pending, Stored
    PROVE  /\ row' = [b \in Budgets |-> row'[b]] /\ \A b \in Budgets : IsRow(row'[b])
           /\ saving.stage = "basics" =>
                row'[saving.budget].basics = saving.payload.basics
           /\ saving.stage = "balance" =>
                /\ row'[saving.budget].balance = saving.payload.balance
                /\ row'[saving.budget].basics = row[saving.budget].basics
<1>1. saving.budget \in Budgets
  BY DEF SaveShape, Pending
<1>2. IsRow(row[saving.budget])
  BY <1>1 DEF SaveShape
<1>3. CASE saving.stage = "basics"
  <2>1. row' = [row EXCEPT ![saving.budget] =
                  [row[saving.budget] EXCEPT !.basics = saving.payload.basics]]
    BY <1>3 DEF Stored
  <2>2. row'[saving.budget] = [basics |-> saving.payload.basics,
                               balance |-> row[saving.budget].balance]
    BY <1>1, <1>2, <2>1 DEF SaveShape, IsRow
  <2>3. \A b \in Budgets : IsRow(row'[b])
    BY <1>1, <2>1, <2>2 DEF SaveShape, IsRow
  <2>4. row' = [b \in Budgets |-> row'[b]]
    BY <2>1 DEF SaveShape
  <2> QED BY <1>3, <2>2, <2>3, <2>4
<1>4. CASE saving.stage = "balance"
  <2>1. row' = [row EXCEPT ![saving.budget] =
                  [row[saving.budget] EXCEPT !.balance = saving.payload.balance]]
    BY <1>4 DEF Stored
  <2>2. row'[saving.budget] = [basics |-> row[saving.budget].basics,
                               balance |-> saving.payload.balance]
    BY <1>1, <1>2, <2>1 DEF SaveShape, IsRow
  <2>3. \A b \in Budgets : IsRow(row'[b])
    BY <1>1, <2>1, <2>2 DEF SaveShape, IsRow
  <2>4. row' = [b \in Budgets |-> row'[b]]
    BY <2>1 DEF SaveShape
  <2> QED BY <1>4, <2>2, <2>3, <2>4
<1> QED BY <1>3, <1>4 DEF Pending

LEMMA SavingInvStep == SavingInv /\ [SettingsNext]_settingsVars => SavingInv'
<1> SUFFICES ASSUME SaveShape, Halfway, SuccessMeansStored, [SettingsNext]_settingsVars
             PROVE  SavingInv'
  BY DEF SavingInv
<1> USE DEF settingsServer, queries, dialogue
<1>0. (UNCHANGED <<row, saving>> /\ opened' \in Budgets \cup {NoBudget}) => SavingInv'
  BY DEF SavingInv, SaveShape, Halfway, SuccessMeansStored
<1>1. CASE CloseSettings \/ EditForm \/ FocusDashboard \/ RunPayroll
  BY <1>1, <1>0 DEF CloseSettings, CloseDialog, EditForm, FocusDashboard, RunPayroll, SaveShape
<1>2. CASE SaveSettings
  <2>1. /\ saving' = [budget |-> opened, payload |-> Payload, stage |-> "basics", alone |-> TRUE]
        /\ opened \in Budgets /\ UNCHANGED <<row, opened>>
    BY <1>2 DEF SaveSettings, SaveShape
  <2>2. IsRow(Payload)
    BY DEF IsRow, Payload
  <2> QED BY <2>1, <2>2 DEF SavingInv, SaveShape, Halfway, SuccessMeansStored
<1>3. CASE BasicsStored
  <2>1. /\ saving.stage = "basics" /\ Stored /\ UNCHANGED opened
        /\ saving' = [saving EXCEPT !.stage = "balance"]
    BY <1>3 DEF BasicsStored, Turn
  <2>2. /\ saving'.stage = "balance" /\ saving'.budget = saving.budget
        /\ saving'.payload = saving.payload
    BY <2>1 DEF SaveShape
  <2> QED
    BY <2>1, <2>2, StoredHalf DEF SavingInv, SaveShape, Halfway, SuccessMeansStored, Pending
<1>4. CASE BalanceStored
  <2>1. /\ saving.stage = "balance" /\ Stored /\ opened' = NoBudget
        /\ saving' = [saving EXCEPT !.stage = "done"]
    BY <1>4 DEF BalanceStored, Turn, CloseDialog
  <2>2. /\ saving'.stage = "done" /\ saving'.budget = saving.budget
        /\ saving'.payload = saving.payload /\ saving'.alone = saving.alone
    BY <2>1 DEF SaveShape
  <2>3. SaveShape'
    BY <2>1, <2>2, StoredHalf DEF SaveShape, Pending
  <2>4. SuccessMeansStored'
    BY <2>1, <2>2, StoredHalf DEF SaveShape, Halfway, SuccessMeansStored, Pending, IsRow
  <2> QED BY <2>2, <2>3, <2>4 DEF SavingInv, Halfway
<1>5. CASE SaveFails
  <2>1. /\ saving.stage \in Pending /\ UNCHANGED opened
        /\ saving' = [saving EXCEPT !.stage = "failed"]
        /\ Stored \/ UNCHANGED row
    BY <1>5 DEF SaveFails, Turn
  <2>2. /\ saving'.stage = "failed" /\ saving'.budget = saving.budget
        /\ saving'.payload = saving.payload
    BY <2>1 DEF SaveShape
  <2> QED
    BY <2>1, <2>2, StoredHalf DEF SavingInv, SaveShape, Halfway, SuccessMeansStored, Pending
<1>6. CASE LoadList
  BY <1>6, <1>0 DEF LoadList, ShowList, SaveShape
<1>7. ASSUME NEW b \in Budgets, OpenSettings(b) PROVE SavingInv'
  BY <1>7, <1>0 DEF OpenSettings
<1>8. ASSUME NEW b \in Budgets, LoadConfig(b) PROVE SavingInv'
  BY <1>8, <1>0 DEF LoadConfig, ShowConfig, SaveShape
<1>9. ASSUME NEW b \in Budgets, OthersStore(b) PROVE SavingInv'
  <2>1. /\ saving' = [saving EXCEPT !.alone = saving.alone /\ b # saving.budget]
        /\ UNCHANGED opened
        /\ UNCHANGED row \/ \E r \in OtherRows[b] : row' = [row EXCEPT ![b] = r]
    BY <1>9 DEF OthersStore
  <2>2. \A r \in OtherRows[b] : IsRow(r)
    BY SettingsAssumption DEF Row, IsRow
  <2>3. /\ saving'.stage = saving.stage /\ saving'.budget = saving.budget
        /\ saving.stage # "none" => saving'.payload = saving.payload
        /\ saving'.alone = (saving.alone /\ b # saving.budget)
    BY <2>1 DEF SaveShape
  <2>4. \A c \in Budgets : c # b => row'[c] = row[c]
    BY <2>1 DEF SaveShape
  <2>5. SaveShape'
    BY <2>1, <2>2, <2>3 DEF SaveShape, IsRow
  <2> QED BY <2>3, <2>4, <2>5 DEF SavingInv, SaveShape, Halfway, SuccessMeansStored
<1>10. CASE UNCHANGED settingsVars
  BY <1>10, <1>0 DEF settingsVars, SaveShape
<1> QED
  BY <1>1, <1>2, <1>3, <1>4, <1>5, <1>6, <1>7, <1>8, <1>9, <1>10 DEF SettingsNext

\* For any budgets and rows: when the dialog reports a success, both halves of what was
\* saved are stored, unless somebody else has written the budget since.
THEOREM SavedIsStored == SettingsInit /\ [][SettingsNext]_settingsVars => []SuccessMeansStored
<1>1. SavingInv => SuccessMeansStored
  BY DEF SavingInv
<1> QED BY <1>1, SavingInvInit, SavingInvStep, PTL

-----------------------------------------------------------------------------
(* API keys: queries keep their type                                       *)

LEMMA QueryOperators ==
    ASSUME NEW D, NEW q \in Query(D \cup {NoData}), NEW b \in BOOLEAN
    PROVE  /\ Ask(q) \in Query(D \cup {NoData})
           /\ Observed(q) \in Query(D \cup {NoData})
           /\ Overtaken(q) \in Query(D \cup {NoData})
           /\ Invalidated(q, b) \in Query(D \cup {NoData})
           /\ \A data \in D : Answered(q, data) \in Query(D \cup {NoData})
           /\ Arrived(q) \in Query(D \cup {NoData})
           /\ Failed(q, b) \in Query(D \cup {NoData})
<1>1. \A x \in D \cup {NoData} : Settled(x) \in Query(D \cup {NoData})
  BY DEF Settled, Query, Stages
<1>2. Ask(q) \in Query(D \cup {NoData}) /\ Ask(q).tries = 0
  <2>1. q.data \in D \cup {NoData}
    BY DEF Query
  <2>2. Settled(q.data) \in Query(D \cup {NoData}) /\ Settled(q.data).tries = 0
    BY <2>1, <1>1 DEF Settled
  <2> QED BY <2>2 DEF Ask, Query, Stages
<1>3. /\ Overtaken(q) \in Query(D \cup {NoData})
      /\ \A data \in D : Answered(q, data) \in Query(D \cup {NoData})
  BY DEF Overtaken, Answered, Query, Stages
<1>4. Observed(q) \in Query(D \cup {NoData}) /\ Invalidated(q, b) \in Query(D \cup {NoData})
  BY <1>2, <1>3 DEF Observed, Invalidated
<1>5. Arrived(q) \in Query(D \cup {NoData})
  BY DEF Arrived, Settled, Query, Stages
<1>6. Failed(q, b) \in Query(D \cup {NoData})
  <2>1. CASE b /\ Retried(q)
    BY <2>1, <1>2 DEF Failed, Retried, Query
  <2>2. CASE ~(b /\ Retried(q))
    BY <2>2, <1>1 DEF Failed, Settled, Query, Stages
  <2> QED BY <2>1, <2>2
<1> QED BY <1>2, <1>3, <1>4, <1>5, <1>6

LEMMA SettledIsQuery == Settled(NoData) \in Query((SUBSET Keys) \cup {NoData})
BY DEF Settled, Query, Stages

-----------------------------------------------------------------------------
(* API keys: types                                                         *)

LEMMA KeysTypeInit == KeysInit => KeysTypeOK
<1> SUFFICES ASSUME KeysInit PROVE KeysTypeOK
  OBVIOUS
<1> USE KeysAssumption DEF KeysInit
<1>1. keysQuery \in Query((SUBSET Keys) \cup {NoData})
  BY SettledIsQuery
<1>2. making \subseteq KeyRequest /\ revoking \subseteq KeyRequest
  OBVIOUS
<1>3. NoCall \in [key: Keys \cup {NoKey}, stage: CallStages, late: BOOLEAN, erred: BOOLEAN]
  BY DEF NoCall, CallStages
<1>4. calls \in [Callers -> [key: Keys \cup {NoKey}, stage: CallStages, late: BOOLEAN,
                             erred: BOOLEAN]]
  BY <1>3
<1>5. called \in [Callers -> 0..MaxCalls] /\ keyClicks \in 0..MaxKeyClicks
      /\ keyTrouble \in 0..MaxKeyTrouble
  OBVIOUS
<1> QED BY <1>1, <1>2, <1>4, <1>5 DEF KeysTypeOK

LEMMA KeysTypeStep == KeysTypeOK /\ [KeysNext]_keysVars => KeysTypeOK'
<1> SUFFICES ASSUME KeysTypeOK, [KeysNext]_keysVars PROVE KeysTypeOK'
  OBVIOUS
<1> USE KeysAssumption DEF KeysTypeOK
<1>q. /\ Observed(keysQuery) \in Query((SUBSET Keys) \cup {NoData})
      /\ Overtaken(keysQuery) \in Query((SUBSET Keys) \cup {NoData})
      /\ Invalidated(keysQuery, onKeys) \in Query((SUBSET Keys) \cup {NoData})
      /\ Answered(keysQuery, keyRows \cap Mine) \in Query((SUBSET Keys) \cup {NoData})
      /\ Arrived(keysQuery) \in Query((SUBSET Keys) \cup {NoData})
      /\ Failed(keysQuery, onKeys) \in Query((SUBSET Keys) \cup {NoData})
  <2>1. keyRows \cap Mine \in SUBSET Keys
    OBVIOUS
  <2> QED BY <2>1, QueryOperators
<1>k. KeyClick => keyClicks' \in 0..MaxKeyClicks /\ keyClicks' \in 1..MaxKeyClicks
  BY DEF KeyClick
<1>r. \A k \in Keys : KeyClick => Sent(k) \in KeyRequest
  BY <1>k DEF Sent, KeyRequest
<1>1. CASE ShowKeys
  BY <1>1, <1>q, <1>k DEF ShowKeys, keyTable
<1>2. CASE LeaveKeys
  <2>1. onKeys' \in BOOLEAN /\ newToken' \in Keys \cup {NoKey}
    BY <1>2 DEF LeaveKeys
  <2>2. keyClicks' \in 0..MaxKeyClicks
    BY <1>2, <1>k DEF LeaveKeys
  <2>3. making' \subseteq KeyRequest /\ revoking' \subseteq KeyRequest
    <3>1. \A r \in making \cup revoking : [r EXCEPT !.current = FALSE] \in KeyRequest
      BY DEF KeyRequest
    <3> QED BY <1>2, <3>1 DEF LeaveKeys, Abandoned
  <2> QED BY <1>2, <2>1, <2>2, <2>3 DEF LeaveKeys, keyTable
<1>3. CASE MakeKey
  <2>1. PICK k \in Mine \ made : making' = making \cup {Sent(k)} /\ made' = made \cup {k}
    BY <1>3 DEF MakeKey
  <2>2. making' \subseteq KeyRequest /\ made' \subseteq Keys
    BY <1>3, <1>r, <2>1 DEF MakeKey
  <2> QED BY <1>3, <1>k, <2>2 DEF MakeKey
<1>4. ASSUME NEW r \in making, KeyMade(r) PROVE KeysTypeOK'
  <2>1. r.key \in Keys
    BY DEF KeyRequest
  <2> QED BY <1>4, <1>q, <2>1 DEF KeyMade, KeysWritten, keyTable, keyCounters
<1>5. ASSUME NEW r \in revoking, KeyRevoked(r) PROVE KeysTypeOK'
  <2>1. r.key \in Keys
    BY DEF KeyRequest
  <2> QED BY <1>5, <1>q, <2>1 DEF KeyRevoked, KeysWritten, keyTable, keyCounters
<1>6. ASSUME NEW r \in making \cup revoking, KeyRequestFails(r) PROVE KeysTypeOK'
  BY <1>6, <1>q DEF KeyRequestFails, KeyTrouble, keyTable
<1>7. CASE LoadKeys
  BY <1>7, <1>q DEF LoadKeys, KeyTrouble, keyTable
<1>8. ASSUME NEW r \in making, CreateAPIKey(r) PROVE KeysTypeOK'
  <2>1. making' \subseteq KeyRequest /\ keyRows' \subseteq Keys
    BY <1>8 DEF CreateAPIKey, KeyStored, KeyRequest
  <2> QED BY <1>8, <2>1 DEF CreateAPIKey, keyCounters
<1>9. ASSUME NEW r \in revoking, DeleteAPIKey(r) PROVE KeysTypeOK'
  <2>1. revoking' \subseteq KeyRequest /\ keyRows' \subseteq Keys
    BY <1>9 DEF DeleteAPIKey, KeyStored, KeyRequest
  <2> QED BY <1>9, <2>1 DEF DeleteAPIKey, keyCounters
<1>10. CASE OthersChangeKeys
  BY <1>10, <1>q DEF OthersChangeKeys, KeyTrouble
<1>11. ASSUME NEW k \in Keys, RevokeKey(k) PROVE KeysTypeOK'
  <2>1. revoking' \subseteq KeyRequest
    BY <1>11, <1>r DEF RevokeKey
  <2> QED BY <1>11, <1>k, <2>1 DEF RevokeKey, keyTable
<1>12. ASSUME NEW c \in Callers, Authenticate(c) \/ Serve(c) PROVE KeysTypeOK'
  BY <1>12 DEF Authenticate, Serve, CallStages, KeyTrouble, keyTable, keysPage, keyCounters
<1>13. ASSUME NEW c \in Callers, NEW k \in Keys, Call(c, k) PROVE KeysTypeOK'
  BY <1>13 DEF Call, CallStages, keyTable, keysPage, keyCounters
<1>14. CASE UNCHANGED keysVars
  BY <1>14 DEF keysVars, keyTable, keysPage, keyCounters
<1> QED
  BY <1>1, <1>2, <1>3, <1>4, <1>5, <1>6, <1>7, <1>8, <1>9, <1>10, <1>11, <1>12, <1>13, <1>14
     DEF KeysNext

\* The types of the page of API keys, its table and its calls.
THEOREM KeysTypeCorrect == KeysSpec => []KeysTypeOK
BY KeysTypeInit, KeysTypeStep, PTL DEF KeysSpec

-----------------------------------------------------------------------------
(* API keys: a revoked key stays out                                       *)

\* A key that is being made has one request, and is new to everybody until that is stored;
\* a revocation that was stored is final.
Unstored(r) == r.key \notin keyRows \cup known \cup confirmed

KeysInv ==
    /\ keyRows \subseteq made /\ known \subseteq made /\ confirmed \subseteq made \ keyRows
    /\ \A r \in making : r.key \in made /\ (~r.stored => Unstored(r))
    /\ \A r, s \in making : r.key = s.key => r = s
    /\ \A s \in revoking : s.stored => s.key \in made \ keyRows
    /\ \A r \in making, s \in revoking : ~r.stored /\ s.stored => r.key # s.key
    /\ \A c \in Callers :
        /\ calls[c].stage # "none" => calls[c].key \in known
        /\ calls[c].stage = "none" => ~calls[c].late
        /\ calls[c].late => calls[c].key \in confirmed
    /\ RevokedStaysOut

LEMMA KeysInvInit == KeysInit => KeysInv
BY KeysAssumption DEF KeysInit, KeysInv, Unstored, NoCall, RevokedStaysOut

LEMMA KeysInvStep == KeysTypeOK /\ KeysInv /\ [KeysNext]_keysVars => KeysInv'
<1> SUFFICES ASSUME KeysTypeOK, KeysInv, [KeysNext]_keysVars PROVE KeysInv'
  OBVIOUS
<1> USE KeysAssumption DEF KeysInv, RevokedStaysOut, Unstored
<1>0. UNCHANGED <<keyRows, made, known, making, revoking, confirmed, calls>> => KeysInv'
  OBVIOUS
<1>t. making \subseteq KeyRequest /\ revoking \subseteq KeyRequest
  BY DEF KeysTypeOK
<1>1. CASE ShowKeys \/ LoadKeys \/ UNCHANGED keysVars
  BY <1>1, <1>0 DEF ShowKeys, LoadKeys, keysVars, keyTable, keysPage
<1>2. CASE LeaveKeys
  <2>1. /\ making' = Abandoned(making) /\ revoking' = Abandoned(revoking)
        /\ UNCHANGED <<keyRows, made, known, confirmed, calls>>
    BY <1>2 DEF LeaveKeys, keyTable
  <2>2. \A r \in making' : \E q \in making : r = [q EXCEPT !.current = FALSE]
    BY <2>1 DEF Abandoned
  <2>3. \A s \in revoking' : \E q \in revoking : s.key = q.key /\ s.stored = q.stored
    BY <1>t, <2>1 DEF Abandoned, KeyRequest
  <2>4. \A r \in making' : \E q \in making : r.key = q.key /\ r.stored = q.stored
    BY <1>t, <2>2 DEF KeyRequest
  <2>5. ASSUME NEW r \in making', NEW s \in making', r.key = s.key PROVE r = s
    <3>1. PICK p \in making : r = [p EXCEPT !.current = FALSE]
      BY <2>2
    <3>2. PICK q \in making : s = [q EXCEPT !.current = FALSE]
      BY <2>2
    <3>3. p.key = q.key
      BY <1>t, <2>5, <3>1, <3>2 DEF KeyRequest
    <3> QED BY <3>1, <3>2, <3>3
  <2> QED BY <2>1, <2>3, <2>4, <2>5
<1>3. CASE MakeKey
  <2>1. PICK k \in Mine \ made : making' = making \cup {Sent(k)} /\ made' = made \cup {k}
    BY <1>3 DEF MakeKey
  <2>2. Sent(k).key = k /\ ~Sent(k).stored
    BY DEF Sent
  <2> QED BY <1>3, <2>1, <2>2 DEF MakeKey
<1>4. ASSUME NEW r \in making, KeyMade(r) PROVE KeysInv'
  BY <1>4 DEF KeyMade, keyTable
<1>5. ASSUME NEW r \in revoking, KeyRevoked(r) PROVE KeysInv'
  BY <1>5 DEF KeyRevoked, keyTable
<1>6. ASSUME NEW r \in making \cup revoking, KeyRequestFails(r) PROVE KeysInv'
  BY <1>6 DEF KeyRequestFails, keyTable
<1>8. ASSUME NEW r \in making, CreateAPIKey(r) PROVE KeysInv'
  <2> DEFINE done == [r EXCEPT !.stored = TRUE]
  <2>1. /\ making' = (making \ {r}) \cup {done} /\ keyRows' = keyRows \cup {r.key}
        /\ UNCHANGED <<made, known, revoking, confirmed, calls>> /\ ~r.stored
    BY <1>8 DEF CreateAPIKey, KeyStored
  <2>2. done.key = r.key /\ done.stored
    BY <1>t DEF KeyRequest
  <2> HIDE DEF done
  <2> QED BY <2>1, <2>2
<1>9. ASSUME NEW r \in revoking, DeleteAPIKey(r) PROVE KeysInv'
  <2> DEFINE done == [r EXCEPT !.stored = TRUE]
  <2>1. /\ revoking' = (revoking \ {r}) \cup {done} /\ keyRows' = keyRows \ {r.key}
        /\ UNCHANGED <<made, known, making, confirmed, calls>> /\ r.key \in keyRows
    BY <1>9 DEF DeleteAPIKey, KeyStored
  <2>2. done.key = r.key
    BY <1>t DEF KeyRequest
  <2> HIDE DEF done
  <2> QED BY <2>1, <2>2
<1>10. CASE OthersChangeKeys
  BY <1>10 DEF OthersChangeKeys, KeysTypeOK
<1>11. ASSUME NEW k \in Keys, RevokeKey(k) PROVE KeysInv'
  <2>1. revoking' = revoking \cup {Sent(k)} /\ ~Sent(k).stored
    BY <1>11 DEF RevokeKey, Sent
  <2> QED BY <1>11, <2>1 DEF RevokeKey, keyTable
<1>12. ASSUME NEW c \in Callers, Authenticate(c) PROVE KeysInv'
  BY <1>12 DEF Authenticate, Found, KeysTypeOK, keyTable, keysPage
<1>13. ASSUME NEW c \in Callers, Serve(c) PROVE KeysInv'
  BY <1>13 DEF Serve, KeysTypeOK, keyTable, keysPage
<1>14. ASSUME NEW c \in Callers, NEW k \in Keys, Call(c, k) PROVE KeysInv'
  BY <1>14 DEF Call, KeysTypeOK, keyTable, keysPage
<1> QED
  BY <1>1, <1>2, <1>3, <1>4, <1>5, <1>6, <1>8, <1>9, <1>10, <1>11, <1>12, <1>13, <1>14
     DEF KeysNext

\* For any keys, callers and prefixes: a call sent after the revocation of its key was
\* confirmed is never admitted, and a refused one has a key that is gone, unless its look-up
\* has failed.
THEOREM RevokedKeysStayOut == KeysSpec => []RevokedStaysOut
<1>1. KeysInv => RevokedStaysOut
  BY DEF KeysInv
<1> QED BY <1>1, KeysTypeInit, KeysTypeStep, KeysInvInit, KeysInvStep, PTL DEF KeysSpec

-----------------------------------------------------------------------------
(* Session: where tokens come from                                         *)

\* Every token around was made; a 401 is about a token that is not valid.
TokensGiven ==
    /\ stored \in given \cup {NoToken, Junk} /\ EnvToken \in given \cup {NoToken}
    /\ \A r \in requests : /\ r.token \in given \cup {NoToken}
                           /\ r.answer = "unauthorized" => r.token \notin valid

-----------------------------------------------------------------------------
(* Session: helpers                                                        *)

LEMMA RedirectIsPage ==
    ASSUME NEW page \in Pages, NEW in \in BOOLEAN, NEW next \in Pages
    PROVE  Redirect(page, in) \in Pages /\ Rendered(page, in, next) \in Pages
<1>1. Redirect(page, in) \in Pages
  BY DEF Redirect, Pages, Protected, Entrance
<1> QED BY <1>1 DEF Rendered

LEMMA NoPageStays ==
    ASSUME NEW in \in BOOLEAN, NEW next \in Pages
    PROVE  Rendered(NoPage, in, next) \in Pages
<1>1. NoPage \notin Protected \cup Entrance \cup {"/"}
  BY NoPageAssumption DEF Pages
<1>2. Redirect(NoPage, in) = NoPage
  BY <1>1 DEF Redirect
<1> QED BY <1>2 DEF Rendered

\* Reading the token leaves a stored token alone.
LEMMA ReadKeeps ==
    ASSUME SessionTypeOK, NEW w \in Windows, Read(w)
    PROVE  /\ stored' \in {stored, NoToken} /\ stored' \in Tokens \cup {NoToken}
           /\ stored \in Tokens => stored' = stored
           /\ news' \subseteq Windows
BY SessionAssumption DEF Read, Store, SessionTypeOK

LEMMA TokenType ==
    ASSUME SessionTypeOK PROVE Token \in Tokens \cup {NoToken} /\ HasToken \in BOOLEAN
BY SessionAssumption DEF Token, HasToken, SessionTypeOK

-----------------------------------------------------------------------------
(* Session: types                                                          *)

LEMMA SessionTypeInit == SessionInit => SessionTypeOK
<1> SUFFICES ASSUME SessionInit PROVE SessionTypeOK
  OBVIOUS
<1> USE DEF SessionInit
<1>1. NoSignIn \in [stage: SignInSteps, token: Tokens \cup {NoToken}]
  BY DEF NoSignIn, SignInSteps
<1>2. HasToken \in BOOLEAN
  BY DEF HasToken
<1>3. signing \in [Windows -> [stage: SignInSteps, token: Tokens \cup {NoToken}]]
  BY <1>1
<1>4. authed \in [Windows -> BOOLEAN] /\ bar \in [Windows -> BOOLEAN]
  BY <1>2
<1> QED BY SessionAssumption, <1>3, <1>4 DEF SessionTypeOK

USE DEF storage, view, server

\* A 401 sends the window to /login.
LEMMA UnauthorizedType ==
    ASSUME SessionTypeOK, NEW w \in Windows, Unauthorized(w)
    PROVE  /\ stored' = NoToken /\ news' \subseteq Windows
           /\ at' \in [Windows -> Pages] /\ authed' \in [Windows -> BOOLEAN]
           /\ crossed' \subseteq Windows /\ UNCHANGED <<shown, bar>>
BY DEF Unauthorized, Store, SentOn, SessionTypeOK, Pages, Entrance

LEMMA SessionTypeStep == SessionTypeOK /\ [SessionNext]_sessionVars => SessionTypeOK'
<1> SUFFICES ASSUME SessionTypeOK, [SessionNext]_sessionVars PROVE SessionTypeOK'
  OBVIOUS
<1>a. Token \in Tokens \cup {NoToken} /\ HasToken \in BOOLEAN
  BY TokenType
<1>1. ASSUME NEW w \in Windows, Commit(w) PROVE SessionTypeOK'
  <2>1. at[w] \in Pages /\ authed[w] \in BOOLEAN
    BY DEF SessionTypeOK
  <2>2. Redirect(at[w], authed[w]) \in Pages
    BY <2>1, RedirectIsPage
  <2>3. Rendered(at[w], HasToken, Redirect(at[w], authed[w])) \in Pages
    BY <2>1, <2>2, <1>a, RedirectIsPage
  <2>4. Read(w)
    BY <1>1 DEF Commit
  <2> QED BY <1>1, <1>a, <2>1, <2>3, <2>4, ReadKeeps DEF Commit, Checked, SessionTypeOK
<1>2. ASSUME NEW w \in Windows, News(w) PROVE SessionTypeOK'
  <2>1. at[w] \in Pages /\ shown[w] \in Pages \cup {NoPage}
    BY DEF SessionTypeOK
  <2>2. Rendered(shown[w], HasToken, at[w]) \in Pages
    BY <2>1, <1>a, RedirectIsPage, NoPageStays
  <2> QED BY <1>2, <1>a, <2>2 DEF News, SessionTypeOK
<1>3. ASSUME NEW w \in Windows, NEW page \in Pages, Go(w, page) PROVE SessionTypeOK'
  BY SessionAssumption, <1>3 DEF Go, Moves, SessionTypeOK
<1>4. ASSUME NEW w \in Windows, NEW page \in Pages, Load(w, page) PROVE SessionTypeOK'
  <2>1. Read(w)
    BY <1>4 DEF Load
  <2>2. NoSignIn \in [stage: SignInSteps, token: Tokens \cup {NoToken}]
    BY DEF NoSignIn, SignInSteps
  <2> QED BY SessionAssumption, <1>4, <1>a, <2>1, <2>2, ReadKeeps DEF Load, Moves, SessionTypeOK
<1>5. ASSUME NEW w \in Windows, Logout(w) PROVE SessionTypeOK'
  BY SessionAssumption, <1>5 DEF Logout, Moves, Store, SessionTypeOK, Pages, Entrance
<1>6. ASSUME NEW w \in Windows, SendRequest(w) PROVE SessionTypeOK'
  <2>1. Read(w) /\ moves' \in 1..MaxMoves
    BY SessionAssumption, <1>6 DEF SendRequest, Moves, SessionTypeOK
  <2> QED BY <1>6, <1>a, <2>1, ReadKeeps DEF SendRequest, RequestStates, SessionTypeOK
<1>7. ASSUME NEW r \in requests, Answer(r) PROVE SessionTypeOK'
  <2>1. mishaps' \in 0..MaxMishaps
    BY SessionAssumption, <1>7 DEF Answer, Mishap, SessionTypeOK
  <2> QED BY <1>7, <2>1 DEF Answer, RequestStates, SessionTypeOK
<1>8. ASSUME NEW r \in requests, Receive(r) PROVE SessionTypeOK'
  <2>1. r.from \in Windows
    BY DEF SessionTypeOK
  <2>2. CASE EndsSession(r.answer)
    BY <1>8, <2>1, <2>2, UnauthorizedType DEF Receive, SessionTypeOK
  <2>3. CASE ~EndsSession(r.answer)
    BY <1>8, <2>3 DEF Receive, SessionTypeOK
  <2> QED BY <2>2, <2>3
<1>9. ASSUME NEW w \in Windows, StartSignIn(w) \/ Confirm(w) PROVE SessionTypeOK'
  <2>1. \E stage \in SignInSteps : signing' = [signing EXCEPT ![w].stage = stage]
    BY <1>9 DEF StartSignIn, Confirm, SignInSteps
  <2>2. signing' \in [Windows -> [stage: SignInSteps, token: Tokens \cup {NoToken}]]
    BY <2>1 DEF SessionTypeOK
  <2>3. moves' \in 0..MaxMoves
    BY SessionAssumption, <1>9 DEF StartSignIn, Confirm, Moves, SessionTypeOK
  <2> QED BY <1>9, <2>2, <2>3 DEF StartSignIn, Confirm, SessionTypeOK
<1>10. ASSUME NEW w \in Windows, AnswerSignIn(w) PROVE SessionTypeOK'
  BY SessionAssumption, <1>10 DEF AnswerSignIn, Mishap, SignInSteps, SessionTypeOK
<1>11. ASSUME NEW w \in Windows, SignedIn(w) PROVE SessionTypeOK'
  <2>1. NoSignIn \in [stage: SignInSteps, token: Tokens \cup {NoToken}]
    BY DEF NoSignIn, SignInSteps
  <2>2. CASE signing[w].stage = "granted"
    BY <1>11, <2>1, <2>2 DEF SignedIn, Store, SentOn, SessionTypeOK, Pages, Protected
  <2>3. CASE signing[w].stage # "granted"
    BY <1>11, <2>1, <2>3, UnauthorizedType DEF SignedIn, SessionTypeOK
  <2> QED BY <2>2, <2>3
<1>12. ASSUME NEW t \in Tokens, Expire(t) PROVE SessionTypeOK'
  BY SessionAssumption, <1>12 DEF Expire, Mishap, SessionTypeOK
<1>13. CASE UNCHANGED sessionVars
  BY <1>13 DEF sessionVars, SessionTypeOK
<1> QED
  BY <1>1, <1>2, <1>3, <1>4, <1>5, <1>6, <1>7, <1>8, <1>9, <1>10, <1>11, <1>12, <1>13
     DEF SessionNext, Proceed

\* The types of the storage, of the windows and of the requests.
THEOREM SessionTypeCorrect == SessionSpec => []SessionTypeOK
BY SessionTypeInit, SessionTypeStep, PTL DEF SessionSpec

-----------------------------------------------------------------------------
(* Session: a valid token is kept                                          *)

LEMMA TokensGivenInit == SessionInit => TokensGiven
BY SessionAssumption DEF SessionInit, TokensGiven

\* A sign-in that was granted has a token that was made.
GrantsGiven == \A w \in Windows : signing[w].stage = "granted" => signing[w].token \in given

LEMMA GrantsGivenInit == SessionInit => GrantsGiven
BY DEF SessionInit, GrantsGiven, NoSignIn

LEMMA GrantsGivenStep ==
    SessionTypeOK /\ GrantsGiven /\ [SessionNext]_sessionVars => GrantsGiven'
<1> SUFFICES ASSUME SessionTypeOK, GrantsGiven, [SessionNext]_sessionVars PROVE GrantsGiven'
  OBVIOUS
<1> USE DEF GrantsGiven
<1>0. CASE UNCHANGED <<signing, given>>
  BY <1>0
<1>1. ASSUME NEW w \in Windows, NEW page \in Pages,
             Commit(w) \/ News(w) \/ Go(w, page) \/ Logout(w) \/ SendRequest(w)
      PROVE  UNCHANGED <<signing, given>>
  BY <1>1 DEF Commit, News, Go, Logout, SendRequest
<1>2. ASSUME NEW r \in requests, Answer(r) \/ Receive(r) PROVE UNCHANGED <<signing, given>>
  BY <1>2 DEF Answer, Receive
<1>3. ASSUME NEW w \in Windows, NEW page \in Pages, Load(w, page) PROVE GrantsGiven'
  BY <1>3 DEF Load, NoSignIn, SessionTypeOK
<1>4. ASSUME NEW w \in Windows, StartSignIn(w) \/ Confirm(w) PROVE GrantsGiven'
  BY <1>4 DEF StartSignIn, Confirm, SessionTypeOK
<1>5. ASSUME NEW w \in Windows, AnswerSignIn(w) PROVE GrantsGiven'
  BY <1>5 DEF AnswerSignIn, SessionTypeOK
<1>6. ASSUME NEW w \in Windows, SignedIn(w) PROVE GrantsGiven'
  BY <1>6 DEF SignedIn, NoSignIn, SessionTypeOK
<1>7. ASSUME NEW t \in Tokens, Expire(t) PROVE UNCHANGED <<signing, given>>
  BY <1>7 DEF Expire
<1>8. \E page \in Pages : TRUE
  BY DEF Pages
<1> QED
  BY <1>0, <1>1, <1>2, <1>3, <1>4, <1>5, <1>6, <1>7, <1>8 DEF SessionNext, Proceed, sessionVars

LEMMA TokensGivenStep ==
    SessionTypeOK /\ GrantsGiven /\ TokensGiven /\ [SessionNext]_sessionVars => TokensGiven'
<1> SUFFICES ASSUME SessionTypeOK, GrantsGiven, TokensGiven, [SessionNext]_sessionVars
             PROVE  TokensGiven'
  OBVIOUS
<1> USE DEF TokensGiven
<1>a. valid \subseteq given /\ given \subseteq Tokens
  BY DEF SessionTypeOK
<1>0. (stored' \in {stored, NoToken} /\ UNCHANGED <<requests, given, valid>>) => TokensGiven'
  OBVIOUS
<1>1. ASSUME NEW w \in Windows, Commit(w) PROVE TokensGiven'
  BY <1>1, <1>0, ReadKeeps DEF Commit
<1>2. ASSUME NEW w \in Windows, News(w) \/ StartSignIn(w) \/ Confirm(w) PROVE TokensGiven'
  BY <1>2, <1>0 DEF News, StartSignIn, Confirm
<1>3. ASSUME NEW w \in Windows, NEW page \in Pages, Go(w, page) PROVE TokensGiven'
  BY <1>3, <1>0 DEF Go
<1>4. ASSUME NEW w \in Windows, NEW page \in Pages, Load(w, page) PROVE TokensGiven'
  BY <1>4, ReadKeeps DEF Load
<1>5. ASSUME NEW w \in Windows, Logout(w) PROVE TokensGiven'
  BY <1>5, <1>0 DEF Logout, Store
<1>6. ASSUME NEW w \in Windows, SendRequest(w) PROVE TokensGiven'
  <2>1. Token \in given \cup {NoToken}
    BY SessionAssumption, <1>a DEF Token
  <2> QED BY <1>6, <2>1, ReadKeeps DEF SendRequest
<1>7. ASSUME NEW r \in requests, Answer(r) PROVE TokensGiven'
  <2>1. PICK answer \in {"ok", "unauthorized", "error"} :
            /\ requests' = (requests \ {r}) \cup {[r EXCEPT !.answer = answer]}
            /\ answer = "unauthorized" => r.token \notin valid
    BY <1>7 DEF Answer
  <2> DEFINE answered == [r EXCEPT !.answer = answer]
  <2>2. answered.token = r.token /\ answered.answer = answer
    BY DEF SessionTypeOK
  <2>3. UNCHANGED <<stored, given, valid>>
    BY <1>7 DEF Answer
  <2>4. answered.token \in given \cup {NoToken}
        /\ (answered.answer = "unauthorized" => answered.token \notin valid)
    BY <2>1, <2>2
  <2> HIDE DEF answered
  <2>5. requests' = (requests \ {r}) \cup {answered}
    BY <2>1 DEF answered
  <2> QED BY <2>3, <2>4, <2>5
<1>8. ASSUME NEW r \in requests, Receive(r) PROVE TokensGiven'
  BY <1>8 DEF Receive, Unauthorized, Store
<1>9. ASSUME NEW w \in Windows, AnswerSignIn(w) PROVE TokensGiven'
  BY SessionAssumption, <1>9, <1>a DEF AnswerSignIn
<1>10. ASSUME NEW w \in Windows, SignedIn(w) PROVE TokensGiven'
  BY <1>10 DEF SignedIn, Unauthorized, Store, GrantsGiven
<1>11. ASSUME NEW t \in Tokens, Expire(t) PROVE TokensGiven'
  BY <1>11 DEF Expire
<1>12. CASE UNCHANGED sessionVars
  BY <1>12 DEF sessionVars
<1> QED
  BY <1>1, <1>2, <1>3, <1>4, <1>5, <1>6, <1>7, <1>8, <1>9, <1>10, <1>11, <1>12
     DEF SessionNext, Proceed

\* What TokenKept says of one step.
KeptStep == (stored \in valid /\ stored' # stored) => TokenGivenUp

LEMMA StepKeepsToken ==
    SessionTypeOK /\ TokensGiven /\ [SessionNext]_sessionVars => [KeptStep]_sessionVars
<1> SUFFICES ASSUME SessionTypeOK, TokensGiven, SessionNext, stored \in valid, stored' # stored
             PROVE  TokenGivenUp
  BY DEF KeptStep
<1>a. stored \in Tokens
  BY DEF SessionTypeOK
<1>1. ASSUME NEW w \in Windows, Commit(w) PROVE FALSE
  BY <1>1, <1>a, ReadKeeps DEF Commit
<1>2. ASSUME NEW w \in Windows, NEW page \in Pages, Load(w, page) PROVE FALSE
  BY <1>2, <1>a, ReadKeeps DEF Load
<1>3. ASSUME NEW w \in Windows, SendRequest(w) PROVE FALSE
  BY <1>3, <1>a, ReadKeeps DEF SendRequest
<1>4. ASSUME NEW w \in Windows, NEW page \in Pages,
             News(w) \/ Go(w, page) \/ StartSignIn(w) \/ Confirm(w) \/ AnswerSignIn(w)
      PROVE  FALSE
  BY <1>4 DEF News, Go, StartSignIn, Confirm, AnswerSignIn
<1>5. ASSUME NEW r \in requests, Answer(r) PROVE FALSE
  BY <1>5 DEF Answer
<1>6. ASSUME NEW r \in requests, Receive(r) PROVE TokenGivenUp
  <2>1. EndsSession(r.answer)
    BY <1>6 DEF Receive
  <2>2. r.answer = "unauthorized" /\ r.token # stored
    BY <2>1 DEF EndsSession, TokensGiven
  <2> QED BY <1>6, <2>2 DEF TokenGivenUp
<1>7. ASSUME NEW w \in Windows, Logout(w) \/ SignedIn(w) PROVE TokenGivenUp
  BY <1>7 DEF TokenGivenUp
<1>8. ASSUME NEW t \in Tokens, Expire(t) PROVE FALSE
  BY <1>8 DEF Expire
<1>9. \E page \in Pages : TRUE
  BY DEF Pages
<1> QED
  BY <1>1, <1>2, <1>3, <1>4, <1>5, <1>6, <1>7, <1>8, <1>9 DEF SessionNext, Proceed

\* For any number of windows: a stored token that the server accepts is given up only at a
\* logout, for a sign-in, or for a 401 to a request that did not carry it.
THEOREM ValidTokenIsKept == SessionSpec => TokenKept
<1>1. [KeptStep]_sessionVars
      => [(stored \in valid /\ stored' # stored) => TokenGivenUp]_sessionVars
  BY DEF KeptStep
<1> QED
  BY <1>1, SessionTypeInit, SessionTypeStep, TokensGivenInit, TokensGivenStep,
     GrantsGivenInit, GrantsGivenStep, StepKeepsToken, PTL
     DEF SessionSpec, TokenKept

HIDE DEF storage, view, server

-----------------------------------------------------------------------------
(* Queries: what a query says of the server                                *)

\* What was answered, and what is shown, is what the server has, unless it is marked.
Fresh(q, data) ==
    /\ q.stage = "answered" /\ ~q.behind => q.answer = data
    /\ Current(q, data)

\* A query that was asked again, marked or has failed says nothing of what the server
\* has; an answer says what it has at that moment.
LEMMA QueryFresh ==
    ASSUME NEW D, NEW q \in Query(D \cup {NoData}), NEW data, NEW b \in BOOLEAN
    PROVE  /\ Fresh(Overtaken(q), data) /\ Fresh(Invalidated(q, b), data)
           /\ Fresh(Failed(q, b), data) /\ Fresh(Answered(q, data), data)
           /\ Fresh(q, data) => Fresh(Observed(q), data)
           /\ Fresh(q, data) /\ q.stage = "answered" => Fresh(Arrived(q), data)
<1> USE DEF Fresh, Current
<1>1. Ask(q).stage = "asked" /\ Fresh(Ask(q), data)
  <2>1. Settled(q.data) = [data |-> q.data, stage |-> "idle", answer |-> NoData, tries |-> 0,
                           behind |-> FALSE]
    BY DEF Settled
  <2> QED BY <2>1 DEF Ask
<1>2. Fresh(Overtaken(q), data)
  BY DEF Overtaken, Query, Stages
<1>3. Fresh(Invalidated(q, b), data)
  BY <1>1, <1>2 DEF Invalidated
<1>4. Fresh(Failed(q, b), data)
  <2>1. CASE b /\ Retried(q)
    <3>1. Ask(q) \in Query(D \cup {NoData})
      BY QueryOperators
    <3> QED BY <1>1, <2>1, <3>1 DEF Failed, Query
  <2>2. CASE ~(b /\ Retried(q))
    <3>1. Failed(q, b) = [Settled(q.data) EXCEPT !.behind = TRUE]
      BY <2>2 DEF Failed
    <3>2. Failed(q, b).stage = "idle" /\ Failed(q, b).behind
      BY <3>1 DEF Settled
    <3> QED BY <3>2
  <2> QED BY <2>1, <2>2
<1>5. Fresh(Answered(q, data), data)
  BY DEF Answered, Query
<1>6. Fresh(q, data) => Fresh(Observed(q), data)
  BY <1>1 DEF Observed
<1>7. Fresh(q, data) /\ q.stage = "answered" => Fresh(Arrived(q), data)
  BY DEF Arrived, Settled
<1> QED BY <1>2, <1>3, <1>4, <1>5, <1>6, <1>7

LEMMA SettledFresh == \A d : Fresh(Settled(NoData), d) /\ Fresh(Settled(d), d)
BY DEF Fresh, Current, Settled

-----------------------------------------------------------------------------
(* Shares                                                                  *)

ShareQuery == Query((SUBSET Emails) \cup {NoData})

LEMMA ShareQueries ==
    ASSUME SharesTypeOK, NEW b \in Shared
    PROVE  /\ shares[b] \in ShareQuery
           /\ Observed(shares[b]) \in ShareQuery /\ Overtaken(shares[b]) \in ShareQuery
           /\ Invalidated(shares[b], TRUE) \in ShareQuery
           /\ Answered(shares[b], sharedWith[b]) \in ShareQuery
           /\ Arrived(shares[b]) \in ShareQuery /\ Failed(shares[b], b = dialogOf) \in ShareQuery
<1>1. shares[b] \in ShareQuery /\ sharedWith[b] \in SUBSET Emails
  BY DEF SharesTypeOK, ShareQuery
<1>2. TRUE \in BOOLEAN /\ (b = dialogOf) \in BOOLEAN
  OBVIOUS
<1> QED BY <1>1, <1>2, QueryOperators DEF ShareQuery

LEMMA KnownWrittenType ==
    ASSUME SharesTypeOK, NEW p \in posts
    PROVE  KnownWritten(p) \in [Shared -> ShareQuery]
BY ShareQueries DEF KnownWritten

\* What the page does with requests, it does to each of them: what was asked of the server
\* stays the same.
Same(p, q) ==
    p.kind = q.kind /\ p.budget = q.budget /\ p.email = q.email /\ p.click = q.click
    /\ p.stored = q.stored

LEMMA PostOperators ==
    ASSUME SharesTypeOK
    PROVE  /\ \A b \in Shared \cup {NoDialog} :
               /\ Rerendered(b) \subseteq Post
               /\ \A p \in posts : \E q \in Rerendered(b) : Same(p, q)
               /\ \A q \in Rerendered(b) : q.current => q.dialog = b
           /\ \A kinds \in SUBSET Kinds :
               /\ Detached(kinds) \subseteq Post
               /\ \A p \in posts : \E q \in Detached(kinds) : Same(p, q)
               /\ \A q \in Detached(kinds) : \E p \in posts :
                     /\ p.dialog = q.dialog
                     /\ q.current => p.current /\ q.kind \notin kinds
           /\ \A p \in posts : LET q == [p EXCEPT !.stored = TRUE]
                              IN  q \in Post /\ q.stored /\ q.budget = p.budget
                                  /\ q.current = p.current /\ q.dialog = p.dialog
<1>1. posts \subseteq Post
  BY DEF SharesTypeOK
<1>2. ASSUME NEW b \in Shared \cup {NoDialog}, NEW p \in posts
      PROVE  LET q == [p EXCEPT !.dialog = b]
             IN  q \in Post /\ Same(p, q) /\ q.dialog = b
  BY <1>1 DEF Post, Same
<1>3. ASSUME NEW kinds \in SUBSET Kinds, NEW p \in posts
      PROVE  LET q == [p EXCEPT !.current = @ /\ p.kind \notin kinds]
             IN  /\ q \in Post /\ Same(p, q) /\ p.dialog = q.dialog
                 /\ q.current => p.current /\ q.kind \notin kinds
  <2> DEFINE c == p.current /\ p.kind \notin kinds
             q == [p EXCEPT !.current = c]
  <2>1. c \in BOOLEAN /\ (c => p.current /\ p.kind \notin kinds)
    OBVIOUS
  <2> HIDE DEF c
  <2>2. q \in Post /\ q.current = c
    BY <1>1, <2>1 DEF Post
  <2>3. Same(p, q) /\ p.dialog = q.dialog /\ q.kind = p.kind
    BY <1>1 DEF Post, Same
  <2>4. q.current => p.current /\ q.kind \notin kinds
    BY <2>1, <2>2, <2>3
  <2> QED BY <2>2, <2>3, <2>4 DEF c
<1>4. ASSUME NEW b \in Shared \cup {NoDialog}
      PROVE  /\ Rerendered(b) \subseteq Post
             /\ \A p \in posts : \E q \in Rerendered(b) : Same(p, q)
             /\ \A q \in Rerendered(b) : q.current => q.dialog = b
  <2> DEFINE image(p) == IF p.current THEN [p EXCEPT !.dialog = b] ELSE p
  <2>1. Rerendered(b) = {image(p) : p \in posts}
    BY DEF Rerendered
  <2>2. ASSUME NEW p \in posts
        PROVE  /\ image(p) \in Post /\ Same(p, image(p))
               /\ image(p).current => image(p).dialog = b
    <3>1. CASE p.current
      BY <1>2, <3>1
    <3>2. CASE ~p.current
      BY <1>1, <3>2 DEF Same
    <3> QED BY <3>1, <3>2
  <2> HIDE DEF image
  <2> QED BY <2>1, <2>2
<1>5. ASSUME NEW kinds \in SUBSET Kinds
      PROVE  /\ Detached(kinds) \subseteq Post
             /\ \A p \in posts : \E q \in Detached(kinds) : Same(p, q)
             /\ \A q \in Detached(kinds) : \E p \in posts :
                   /\ p.dialog = q.dialog
                   /\ q.current => p.current /\ q.kind \notin kinds
  <2> DEFINE image(p) == [p EXCEPT !.current = @ /\ p.kind \notin kinds]
  <2>1. Detached(kinds) = {image(p) : p \in posts}
    BY DEF Detached
  <2>2. ASSUME NEW p \in posts
        PROVE  /\ image(p) \in Post /\ Same(p, image(p)) /\ p.dialog = image(p).dialog
               /\ image(p).current => p.current /\ image(p).kind \notin kinds
    BY <1>3
  <2> HIDE DEF image
  <2> QED BY <2>1, <2>2
<1>6. ASSUME NEW p \in posts
      PROVE  LET q == [p EXCEPT !.stored = TRUE]
             IN  q \in Post /\ q.stored /\ q.budget = p.budget
                 /\ q.current = p.current /\ q.dialog = p.dialog
  BY <1>1 DEF Post
<1> QED BY <1>4, <1>5, <1>6

LEMMA SharesTypeInit == SharesInit => SharesTypeOK
<1> SUFFICES ASSUME SharesInit PROVE SharesTypeOK
  OBVIOUS
<1>1. Settled(NoData) \in ShareQuery
  BY DEF Settled, Query, Stages, ShareQuery
<1>2. shares \in [Shared -> ShareQuery]
  BY <1>1 DEF SharesInit
<1>3. 0 \in 0..MaxShareClicks /\ 0 \in 0..MaxShareTrouble
  BY SharesAssumption
<1> QED BY <1>2, <1>3 DEF SharesInit, SharesTypeOK, ShareQuery

LEMMA SharesTypeStep == SharesTypeOK /\ [SharesNext]_sharesVars => SharesTypeOK'
<1> SUFFICES ASSUME SharesTypeOK, [SharesNext]_sharesVars PROVE SharesTypeOK'
  OBVIOUS
<1>q. /\ shares \in [Shared -> ShareQuery] /\ sharedWith \in [Shared -> SUBSET Emails]
      /\ strayed \subseteq Shared /\ posts \subseteq Post /\ dialogOf \in Shared \cup {NoDialog}
  BY DEF SharesTypeOK, ShareQuery
<1> USE SharesAssumption DEF shareCounters
<1>c. /\ ShareClick => shareClicks' \in 0..MaxShareClicks /\ shareClicks' \in 1..MaxShareClicks
      /\ ShareTrouble => shareTrouble' \in 0..MaxShareTrouble
  BY DEF ShareClick, ShareTrouble, SharesTypeOK
<1>s. \A S \in SUBSET Shared : Astray(S) \subseteq Shared
  BY DEF Astray
<1>1. CASE CloseShares
  <2>1. posts' \subseteq Post
    BY <1>1, PostOperators DEF CloseShares
  <2> QED BY <1>1, <1>q, <1>c, <2>1 DEF CloseShares, SharesTypeOK, ShareQuery
<1>2. CASE FocusShares
  <2>1. dialogOf \in Shared
    BY <1>2, <1>q DEF FocusShares
  <2> QED BY <1>2, <1>q, <1>c, <1>s, <2>1, ShareQueries
          DEF FocusShares, SharesTypeOK, ShareQuery
<1>3. CASE LeaveDashboard
  <2>1. posts' \subseteq Post
    BY <1>3, PostOperators DEF LeaveDashboard
  <2> QED BY <1>3, <1>q, <1>c, <2>1 DEF LeaveDashboard, SharesTypeOK, ShareQuery
<1>4. ASSUME NEW p \in posts, StorePost(p) PROVE SharesTypeOK'
  <2>1. p.budget \in Shared /\ p.email \in Emails
    BY <1>q DEF Post
  <2>2. posts' \subseteq Post
    BY <1>4, <1>q, PostOperators DEF StorePost
  <2>3. sharedWith' \in [Shared -> SUBSET Emails]
    BY <1>4, <1>q, <2>1 DEF StorePost
  <2> QED BY <1>4, <1>q, <2>2, <2>3 DEF StorePost, SharesTypeOK, ShareQuery
<1>5. ASSUME NEW p \in posts, PostAnswered(p) PROVE SharesTypeOK'
  <2>1. p.budget \in Shared
    BY <1>q DEF Post
  <2>2. strayed' \subseteq Shared
    BY <1>5, <1>q, <1>s, <2>1 DEF PostAnswered
  <2> QED BY <1>5, <2>2, KnownWrittenType DEF PostAnswered, SharesTypeOK, ShareQuery
<1>6. ASSUME NEW p \in posts, PostFailed(p) PROVE SharesTypeOK'
  <2>1. p.budget \in Shared
    BY <1>q DEF Post
  <2> QED BY <1>6, <1>q, <1>c, <2>1, ShareQueries DEF PostFailed, SharesTypeOK, ShareQuery
<1>8. ASSUME NEW e \in Emails, AddShare(e) \/ RemoveShare(e) PROVE SharesTypeOK'
  <2>1. dialogOf \in Shared /\ ShareClick
    BY <1>8, <1>q DEF AddShare, RemoveShare
  <2>2. ASSUME NEW kind \in Kinds, Send(kind, e) PROVE posts' \subseteq Post
    <3>1. [kind |-> kind, budget |-> dialogOf, email |-> e, click |-> shareClicks',
           stored |-> FALSE, current |-> TRUE, dialog |-> dialogOf] \in Post
      BY <1>c, <2>1 DEF Post
    <3>2. {kind} \in SUBSET Kinds
      OBVIOUS
    <3> QED BY <2>2, <3>1, <3>2, PostOperators DEF Send
  <2>3. posts' \subseteq Post
    BY <1>8, <2>2 DEF AddShare, RemoveShare, Kinds
  <2> QED BY <1>8, <1>q, <1>c, <2>1, <2>3 DEF AddShare, RemoveShare, SharesTypeOK, ShareQuery
<1>9. ASSUME NEW b \in Shared, OpenShares(b) PROVE SharesTypeOK'
  <2>1. posts' \subseteq Post
    BY <1>9, PostOperators DEF OpenShares
  <2> QED BY <1>9, <1>q, <1>c, <1>s, <2>1, ShareQueries
          DEF OpenShares, SharesTypeOK, ShareQuery
<1>10. ASSUME NEW b \in Shared, LoadShares(b) PROVE SharesTypeOK'
  <2>1. /\ Answered(shares[b], sharedWith[b]) \in ShareQuery
        /\ Arrived(shares[b]) \in ShareQuery /\ Failed(shares[b], b = dialogOf) \in ShareQuery
    BY ShareQueries
  <2>2. /\ \/ shares' = [shares EXCEPT ![b] = Answered(shares[b], sharedWith[b])]
           \/ shares' = [shares EXCEPT ![b] = Arrived(shares[b])]
           \/ shares' = [shares EXCEPT ![b] = Failed(shares[b], b = dialogOf)]
        /\ UNCHANGED <<sharedWith, dialogOf, posts, shareClicks>>
        /\ UNCHANGED shareTrouble \/ ShareTrouble
        /\ strayed' \subseteq Shared
    BY <1>10, <1>q, <1>s DEF LoadShares
  <2>3. shares' \in [Shared -> ShareQuery]
    BY <1>q, <2>1, <2>2
  <2> QED BY <1>c, <2>2, <2>3 DEF SharesTypeOK, ShareQuery
<1>11. ASSUME NEW b \in Shared, OthersShare(b) PROVE SharesTypeOK'
  <2>1. sharedWith' \in [Shared -> SUBSET Emails]
    BY <1>11 DEF OthersShare, SharesTypeOK
  <2>2. shares' \in [Shared -> ShareQuery]
    BY <1>11, <1>q, ShareQueries DEF OthersShare
  <2> QED BY <1>11, <1>c, <2>1, <2>2 DEF OthersShare, SharesTypeOK, ShareQuery
<1>12. CASE UNCHANGED sharesVars
  BY <1>12 DEF sharesVars, SharesTypeOK
<1> QED
  BY <1>1, <1>2, <1>3, <1>4, <1>5, <1>6, <1>8, <1>9, <1>10, <1>11, <1>12 DEF SharesNext

\* A write that the server has stored, but whose answer has not come.
Writing(p, b) == p.stored /\ p.budget = b

\* The last request of a mutation reloads the shares of the dialog that is open; and unless
\* a write is under way or went astray, the query says what the server has.
SharesFresh ==
    /\ \A p \in posts : p.current => p.dialog = dialogOf
    /\ \A b \in Shared \ strayed :
          (\A p \in posts : ~Writing(p, b)) => Fresh(shares[b], sharedWith[b])

LEMMA SharesFreshInit == SharesInit => SharesFresh
BY SettledFresh DEF SharesInit, SharesFresh

\* What the operators of QueryCache leave of that.
LEMMA FreshShares ==
    ASSUME SharesTypeOK, NEW b \in Shared, NEW d
    PROVE  /\ Fresh(Overtaken(shares[b]), d) /\ Fresh(Invalidated(shares[b], TRUE), d)
           /\ Fresh(Failed(shares[b], b = dialogOf), d)
           /\ Fresh(Answered(shares[b], d), d)
           /\ Fresh(shares[b], d) => Fresh(Observed(shares[b]), d)
           /\ Fresh(shares[b], d) /\ shares[b].stage = "answered"
                => Fresh(Arrived(shares[b]), d)
<1>1. shares[b] \in Query((SUBSET Emails) \cup {NoData})
  BY DEF SharesTypeOK
<1>2. TRUE \in BOOLEAN /\ (b = dialogOf) \in BOOLEAN
  OBVIOUS
<1> QED BY <1>1, <1>2, QueryFresh

LEMMA CurrentRendered ==
    SharesTypeOK /\ SharesFresh /\ [SharesNext]_sharesVars
    => \A p \in posts' : p.current => p.dialog = dialogOf'
<1> SUFFICES ASSUME SharesTypeOK, SharesFresh, [SharesNext]_sharesVars,
                    NEW q \in posts', q.current
             PROVE  q.dialog = dialogOf'
  OBVIOUS
<1>p. posts \subseteq Post /\ \A p \in posts : p.current => p.dialog = dialogOf
  BY DEF SharesTypeOK, SharesFresh
<1>1. CASE CloseShares \/ \E b \in Shared : OpenShares(b)
  BY <1>1, PostOperators DEF CloseShares, OpenShares
<1>2. CASE LeaveDashboard
  <2>1. PICK p \in posts : q.current => p.current /\ q.kind \notin Kinds
    BY <1>2, PostOperators DEF LeaveDashboard
  <2>2. q \in Post
    BY <1>2, PostOperators DEF LeaveDashboard
  <2> QED BY <2>1, <2>2 DEF Post
<1>3. ASSUME NEW kind \in Kinds, NEW e \in Emails, Send(kind, e), UNCHANGED dialogOf
      PROVE  q.dialog = dialogOf'
  <2>1. CASE q \in Detached({kind})
    <3>1. {kind} \in SUBSET Kinds
      OBVIOUS
    <3>2. PICK p \in posts : p.dialog = q.dialog /\ (q.current => p.current)
      BY <2>1, <3>1, PostOperators
    <3> QED BY <1>3, <1>p, <3>2
  <2> QED BY <1>3, <2>1 DEF Send
<1>4. CASE \E e \in Emails : AddShare(e) \/ RemoveShare(e)
  BY <1>3, <1>4 DEF AddShare, RemoveShare, Kinds
<1>5. CASE \E p \in posts : StorePost(p)
  <2>1. PICK p \in posts : StorePost(p)
    BY <1>5
  <2>2. LET done == [p EXCEPT !.stored = TRUE]
        IN  /\ posts' = (posts \ {p}) \cup {done} /\ UNCHANGED dialogOf
            /\ done.current = p.current /\ done.dialog = p.dialog
    BY <2>1, PostOperators DEF StorePost
  <2> QED BY <1>p, <2>2
<1>6. CASE \/ \E p \in posts : PostAnswered(p) \/ PostFailed(p)
           \/ \E b \in Shared : LoadShares(b) \/ OthersShare(b)
           \/ FocusShares \/ UNCHANGED sharesVars
  BY <1>6, <1>p DEF PostAnswered, PostFailed, LoadShares, OthersShare, FocusShares, sharesVars
<1> QED BY <1>1, <1>2, <1>4, <1>5, <1>6 DEF SharesNext

LEMMA SharesFreshStep == SharesTypeOK /\ SharesFresh /\ [SharesNext]_sharesVars => SharesFresh'
<1> SUFFICES ASSUME SharesTypeOK, SharesFresh, [SharesNext]_sharesVars,
                    NEW b \in Shared, b \notin strayed', \A p \in posts' : ~Writing(p, b)
             PROVE  Fresh(shares'[b], sharedWith'[b])
  BY CurrentRendered DEF SharesFresh
<1> USE SharesAssumption DEF shareCounters
<1>q. /\ shares \in [Shared -> ShareQuery] /\ sharedWith \in [Shared -> SUBSET Emails]
      /\ posts \subseteq Post
  BY DEF SharesTypeOK, ShareQuery
<1>a. ASSUME NEW S, b \in S, strayed' = Astray(S) PROVE Fresh(shares'[b], sharedWith'[b])
  BY <1>a DEF Astray, Fresh, Current
<1>s. CASE b \in strayed
  <2>1. \E S : strayed \subseteq S /\ strayed' = Astray(S)
    BY <1>s DEF SharesNext, OpenShares, CloseShares, FocusShares, LeaveDashboard, AddShare,
                RemoveShare, StorePost, PostAnswered, PostFailed, LoadShares, OthersShare,
                sharesVars
  <2> QED BY <1>a, <1>s, <2>1
<1>0. ASSUME b \notin strayed, UNCHANGED sharedWith, \A p \in posts : ~Writing(p, b),
             shares'[b] = shares[b] \/ shares'[b] = Observed(shares[b])
      PROVE  Fresh(shares'[b], sharedWith'[b])
  <2>1. Fresh(shares[b], sharedWith[b])
    BY <1>0 DEF SharesFresh
  <2>2. Fresh(Observed(shares[b]), sharedWith[b])
    BY <2>1, FreshShares
  <2> QED BY <1>0, <2>1, <2>2, Zenon
<1>w. ASSUME \A p \in posts : \E q \in posts' : Same(p, q)
      PROVE  \A p \in posts : ~Writing(p, b)
  BY <1>w DEF Same, Writing
<1>1. CASE b \notin strayed /\ (CloseShares \/ LeaveDashboard \/ \E c \in Shared : OpenShares(c))
  <2>1. /\ UNCHANGED sharedWith
        /\ shares'[b] = shares[b] \/ shares'[b] = Observed(shares[b])
    BY <1>1, <1>q DEF CloseShares, LeaveDashboard, OpenShares
  <2>2. \A p \in posts : \E q \in posts' : Same(p, q)
    BY <1>1, PostOperators DEF CloseShares, LeaveDashboard, OpenShares
  <2> QED BY <1>0, <1>1, <1>w, <2>1, <2>2
<1>2. CASE b \notin strayed /\ \E e \in Emails : AddShare(e) \/ RemoveShare(e)
  <2>1. \A kind \in Kinds : {kind} \in SUBSET Kinds
    OBVIOUS
  <2>2. \A p \in posts : \E q \in posts' : Same(p, q)
    BY <1>2, <2>1, PostOperators DEF AddShare, RemoveShare, Send, Kinds
  <2> QED BY <1>0, <1>2, <1>w, <2>2 DEF AddShare, RemoveShare
<1>3. CASE b \notin strayed /\ (FocusShares \/ UNCHANGED sharesVars)
  BY <1>0, <1>3, <1>q DEF FocusShares, sharesVars
<1>4. ASSUME b \notin strayed, NEW p \in posts, StorePost(p)
      PROVE  Fresh(shares'[b], sharedWith'[b])
  <2>1. LET q == [p EXCEPT !.stored = TRUE]
        IN  q \in posts' /\ q.stored /\ q.budget = p.budget
    BY <1>4, PostOperators DEF StorePost
  <2>2. p.budget # b /\ \A q \in posts : ~Writing(q, b)
    BY <1>4, <2>1 DEF StorePost, Writing
  <2>3. sharedWith'[b] = sharedWith[b] /\ UNCHANGED shares
    BY <1>4, <1>q, <2>2 DEF StorePost
  <2> QED BY <1>4, <2>2, <2>3 DEF SharesFresh
<1>5. ASSUME b \notin strayed, NEW p \in posts, PostAnswered(p)
      PROVE  Fresh(shares'[b], sharedWith'[b])
  <2>1. shares' = KnownWritten(p) /\ UNCHANGED sharedWith /\ posts' = posts \ {p}
    BY <1>5 DEF PostAnswered
  <2>2. CASE b = dialogOf /\ b = p.dialog
    <3>1. shares'[b] = Invalidated(shares[b], TRUE)
      BY <2>1, <2>2 DEF KnownWritten
    <3> QED BY <3>1, FreshShares
  <2>3. CASE b = p.budget /\ b # dialogOf
    <3>1. shares'[b] = Overtaken(shares[b])
      BY <2>1, <2>3 DEF KnownWritten
    <3> QED BY <3>1, FreshShares
  <2>4. CASE b # p.budget /\ ~(b = dialogOf /\ b = p.dialog)
    <3>1. shares'[b] = shares[b]
      BY <2>1, <2>4 DEF KnownWritten
    <3>2. \A q \in posts : ~Writing(q, b)
      BY <2>1, <2>4 DEF Writing
    <3> QED BY <1>0, <1>5, <2>1, <3>1, <3>2
  <2>5. CASE b = p.budget /\ b = dialogOf /\ b # p.dialog
    <3>1. ~p.current
      BY <2>5 DEF SharesFresh
    <3>2. strayed' = Astray(strayed \cup {b})
      BY <1>5, <2>5, <3>1 DEF PostAnswered
    <3> QED BY <1>a, <3>2
  <2> QED BY <2>2, <2>3, <2>4, <2>5
<1>6. ASSUME b \notin strayed, NEW p \in posts, PostFailed(p)
      PROVE  Fresh(shares'[b], sharedWith'[b])
  <2>1. /\ shares' = [shares EXCEPT ![p.budget] = Overtaken(@)]
        /\ UNCHANGED sharedWith /\ posts' = posts \ {p}
    BY <1>6 DEF PostFailed
  <2>2. CASE p.budget = b
    <3>1. shares'[b] = Overtaken(shares[b])
      BY <1>q, <2>1, <2>2
    <3> QED BY <3>1, FreshShares
  <2>3. CASE p.budget # b
    <3>1. shares'[b] = shares[b]
      BY <1>q, <2>1, <2>3
    <3> QED BY <1>0, <1>6, <2>1, <2>3, <3>1 DEF Writing
  <2> QED BY <2>2, <2>3
<1>9. ASSUME b \notin strayed, NEW c \in Shared, LoadShares(c)
      PROVE  Fresh(shares'[b], sharedWith'[b])
  <2>1. UNCHANGED <<sharedWith, posts>>
    BY <1>9 DEF LoadShares
  <2>2. CASE c # b
    BY <1>9, <1>0, <1>q, <2>1, <2>2 DEF LoadShares
  <2>3. CASE c = b
    <3>1. \/ shares'[b] = Answered(shares[b], sharedWith[b])
          \/ shares'[b] = Arrived(shares[b]) /\ shares[b].stage = "answered"
          \/ shares'[b] = Failed(shares[b], b = dialogOf)
      BY <1>9, <1>q, <2>3 DEF LoadShares
    <3>2. Fresh(shares[b], sharedWith[b]) /\ sharedWith'[b] = sharedWith[b]
      BY <1>9, <2>1 DEF SharesFresh
    <3>3. /\ Fresh(Answered(shares[b], sharedWith[b]), sharedWith[b])
          /\ Fresh(Failed(shares[b], b = dialogOf), sharedWith[b])
          /\ shares[b].stage = "answered" => Fresh(Arrived(shares[b]), sharedWith[b])
      BY <3>2, FreshShares
    <3> QED BY <3>1, <3>2, <3>3, Zenon
  <2> QED BY <2>2, <2>3
<1>10. ASSUME b \notin strayed, NEW c \in Shared, OthersShare(c)
       PROVE  Fresh(shares'[b], sharedWith'[b])
  <2>1. CASE c # b
    <3>1. sharedWith'[b] = sharedWith[b] /\ shares'[b] = shares[b] /\ UNCHANGED posts
      BY <1>10, <1>q, <2>1 DEF OthersShare
    <3> QED BY <1>10, <3>1 DEF SharesFresh
  <2>2. CASE c = b
    <3>1. shares'[b] = Overtaken(shares[b])
      BY <1>10, <1>q, <2>2 DEF OthersShare
    <3> QED BY <3>1, FreshShares
  <2> QED BY <2>1, <2>2
<1> QED
  BY <1>s, <1>1, <1>2, <1>3, <1>4, <1>5, <1>6, <1>9, <1>10 DEF SharesNext

LEMMA FreshShowsCurrent == SharesTypeOK /\ SharesFresh => SharesCurrent
BY SharesAssumption DEF SharesTypeOK, SharesFresh, SharesCurrent, Writing, Fresh

-----------------------------------------------------------------------------
(* API keys: the list is current                                           *)

\* Unless the answer to a write is to come, the list says which keys of this user the
\* server has.
KeysFresh ==
    (\A r \in making \cup revoking : ~r.stored) => Fresh(keysQuery, keyRows \cap Mine)

LEMMA KeysFreshInit == KeysInit => KeysFresh
BY SettledFresh DEF KeysInit, KeysFresh

LEMMA FreshKeys ==
    ASSUME KeysTypeOK, NEW d
    PROVE  /\ Fresh(Overtaken(keysQuery), d) /\ Fresh(Invalidated(keysQuery, onKeys), d)
           /\ Fresh(Failed(keysQuery, onKeys), d) /\ Fresh(Answered(keysQuery, d), d)
           /\ Fresh(keysQuery, d) => Fresh(Observed(keysQuery), d)
           /\ Fresh(keysQuery, d) /\ keysQuery.stage = "answered"
                => Fresh(Arrived(keysQuery), d)
<1>1. keysQuery \in Query((SUBSET Keys) \cup {NoData}) /\ onKeys \in BOOLEAN
  BY DEF KeysTypeOK
<1> QED BY <1>1, QueryFresh

LEMMA KeysFreshStep == KeysTypeOK /\ KeysFresh /\ [KeysNext]_keysVars => KeysFresh'
<1> SUFFICES ASSUME KeysTypeOK, KeysFresh, [KeysNext]_keysVars,
                    \A r \in making' \cup revoking' : ~r.stored
             PROVE  Fresh(keysQuery', keyRows' \cap Mine)
  BY DEF KeysFresh
<1> USE KeysAssumption DEF keyTable, keyCounters, keysPage
<1>0. ASSUME UNCHANGED keyRows, \A r \in making \cup revoking : ~r.stored,
             keysQuery' = keysQuery \/ keysQuery' = Observed(keysQuery)
      PROVE  Fresh(keysQuery', keyRows' \cap Mine)
  BY <1>0, FreshKeys DEF KeysFresh
<1>1. CASE ShowKeys \/ MakeKey \/ (\E k \in Keys : RevokeKey(k))
           \/ (\E c \in Callers : Authenticate(c) \/ Serve(c) \/ \E k \in Keys : Call(c, k))
           \/ UNCHANGED keysVars
  <2>1. /\ UNCHANGED keyRows
        /\ keysQuery' = keysQuery \/ keysQuery' = Observed(keysQuery)
        /\ making \subseteq making' /\ revoking \subseteq revoking'
    BY <1>1 DEF ShowKeys, MakeKey, RevokeKey, Authenticate, Serve, Call, keysVars
  <2> QED BY <1>0, <2>1
<1>2. CASE LeaveKeys
  <2>1. /\ making' = Abandoned(making) /\ revoking' = Abandoned(revoking)
        /\ UNCHANGED <<keyRows, keysQuery>>
    BY <1>2 DEF LeaveKeys
  <2>2. ASSUME NEW r \in making \cup revoking PROVE ~r.stored
    <3>1. r \in KeyRequest /\ [r EXCEPT !.current = FALSE] \in making' \cup revoking'
      BY <2>1 DEF KeysTypeOK, Abandoned
    <3> QED BY <3>1 DEF KeyRequest
  <2> QED BY <1>0, <2>1, <2>2
<1>3. CASE \/ \E r \in making : KeyMade(r)
           \/ \E r \in revoking : KeyRevoked(r)
  BY <1>3, FreshKeys DEF KeyMade, KeyRevoked, KeysWritten
<1>4. CASE OthersChangeKeys \/ \E r \in making \cup revoking : KeyRequestFails(r)
  BY <1>4, FreshKeys DEF KeyRequestFails, OthersChangeKeys
<1>5. CASE LoadKeys
  <2>1. /\ UNCHANGED <<keyRows, making, revoking>>
        /\ \/ keysQuery' = Answered(keysQuery, keyRows \cap Mine)
           \/ keysQuery' = Arrived(keysQuery) /\ keysQuery.stage = "answered"
           \/ keysQuery' = Failed(keysQuery, onKeys)
    BY <1>5 DEF LoadKeys
  <2> QED BY <2>1, FreshKeys DEF KeysFresh
<1>6. ASSUME NEW r \in making \cup revoking,
             [r EXCEPT !.stored = TRUE] \in making' \cup revoking'
      PROVE  FALSE
  BY <1>6 DEF KeysTypeOK, KeyRequest
<1>7. CASE \/ \E r \in making : CreateAPIKey(r)
           \/ \E r \in revoking : DeleteAPIKey(r)
  BY <1>6, <1>7 DEF CreateAPIKey, DeleteAPIKey, KeyStored
<1> QED BY <1>1, <1>2, <1>3, <1>4, <1>5, <1>7 DEF KeysNext

LEMMA FreshShowsKeys == KeysFresh => KeysCurrent
BY DEF KeysFresh, KeysCurrent, Fresh

-----------------------------------------------------------------------------
(* Settings: types                                                         *)

\* What the list may hold: the rows of the budgets that were visible.
Listing == UNION {[rows: [V -> Basics], stamp: Nat] : V \in SUBSET Budgets}
Saving == [budget: Budgets, payload: Row,
           stage: {"basics", "balance", "done", "failed"}, alone: BOOLEAN]
          \cup [budget: {NoBudget}, stage: {"none"}, alone: BOOLEAN]

\* A query that is answered has data of the type, not only a place for it.
Held(q, D) == q \in Query(D \cup {NoData}) /\ (q.stage = "answered" => q.answer \in D)

\* The configurations of b: a budget is no source of its own.
ConfigOf(b) == {c \in Balance : c.weight[b] = 0}

\* The list was loaded before the page is shown.
HeldInv ==
    /\ Held(list, Listing) /\ list.data \in Listing
    /\ config = [b \in Budgets |-> config[b]] /\ \A b \in Budgets : Held(config[b], ConfigOf(b))

SavingType ==
    /\ saving \in Saving
    /\ saving.stage # "none" => saving.payload.balance.weight[saving.budget] = 0

\* What the form holds, where neither the user nor the list has changed it since, is
\* what the window has of the budget.
ListedBasics(b) == IF b \in DOMAIN list.data.rows THEN list.data.rows[b] ELSE Blank
Sources(c) == {s \in Budgets : c.weight[s] > 0}

Filled ==
    opened # NoBudget =>
        /\ opened \notin form.picks
        /\ "basics" \notin touched => form.basics = ListedBasics(opened)
        /\ "balance" \notin touched /\ config[opened].data # NoData =>
              /\ form.on = config[opened].data.on
              /\ form.picks = Sources(config[opened].data)

SettingsInv == SettingsTypeOK /\ HeldInv /\ SavingType /\ Filled

\* The operators of QueryCache keep what is held; all but Arrived keep the data.
LEMMA QueryHeld ==
    ASSUME NEW D, NEW q, Held(q, D), NEW watched \in BOOLEAN
    PROVE  /\ Held(Observed(q), D) /\ Observed(q).data = q.data
           /\ Held(Overtaken(q), D) /\ Overtaken(q).data = q.data
           /\ Held(Invalidated(q, watched), D) /\ Invalidated(q, watched).data = q.data
           /\ Held(Failed(q, watched), D) /\ Failed(q, watched).data = q.data
           /\ \A d \in D : Held(Answered(q, d), D) /\ Answered(q, d).data = q.data
           /\ q.stage = "answered" => Held(Arrived(q), D) /\ Arrived(q).data = q.answer
<1>1. q \in Query(D \cup {NoData}) /\ (q.stage = "answered" => q.answer \in D)
  BY DEF Held
<1>2. /\ Ask(q) \in Query(D \cup {NoData}) /\ Observed(q) \in Query(D \cup {NoData})
      /\ Overtaken(q) \in Query(D \cup {NoData})
      /\ Invalidated(q, watched) \in Query(D \cup {NoData})
      /\ \A data \in D : Answered(q, data) \in Query(D \cup {NoData})
      /\ Arrived(q) \in Query(D \cup {NoData}) /\ Failed(q, watched) \in Query(D \cup {NoData})
  BY <1>1, QueryOperators
<1>3. Ask(q).stage = "asked" /\ Ask(q).data = q.data
  <2>1. Settled(q.data) = [data |-> q.data, stage |-> "idle", answer |-> NoData, tries |-> 0,
                           behind |-> FALSE]
    BY DEF Settled
  <2> QED BY <2>1 DEF Ask
<1>4. Held(Overtaken(q), D) /\ Overtaken(q).data = q.data
  BY <1>1, <1>2 DEF Overtaken, Held, Query
<1>5. Held(Observed(q), D) /\ Observed(q).data = q.data
  BY <1>1, <1>2, <1>3 DEF Observed, Held
<1>6. Held(Invalidated(q, watched), D) /\ Invalidated(q, watched).data = q.data
  BY <1>2, <1>3, <1>4 DEF Invalidated, Held
<1>7. \A d \in D : Held(Answered(q, d), D) /\ Answered(q, d).data = q.data
  BY <1>1, <1>2 DEF Answered, Held, Query
<1>8. q.stage = "answered" => Held(Arrived(q), D) /\ Arrived(q).data = q.answer
  <2>1. Arrived(q).stage = "idle" /\ Arrived(q).data = q.answer
    BY DEF Arrived, Settled
  <2> QED BY <1>2, <2>1 DEF Held
<1>9. Held(Failed(q, watched), D) /\ Failed(q, watched).data = q.data
  <2>1. CASE watched /\ Retried(q)
    <3>1. Failed(q, watched) = [Ask(q) EXCEPT !.tries = q.tries + 1]
      BY <2>1 DEF Failed
    <3>2. Failed(q, watched).stage = "asked" /\ Failed(q, watched).data = q.data
      BY <1>2, <1>3, <3>1 DEF Query
    <3> QED BY <1>2, <3>2 DEF Held
  <2>2. CASE ~(watched /\ Retried(q))
    <3>1. Failed(q, watched) = [Settled(q.data) EXCEPT !.behind = TRUE]
      BY <2>2 DEF Failed
    <3>2. Failed(q, watched).stage = "idle" /\ Failed(q, watched).data = q.data
      BY <3>1 DEF Settled
    <3> QED BY <1>2, <3>2 DEF Held
  <2> QED BY <2>1, <2>2
<1> QED BY <1>4, <1>5, <1>6, <1>7, <1>8, <1>9

LEMMA SettledHeld ==
    ASSUME NEW D PROVE Held(Settled(NoData), D) /\ \A d \in D : Held(Settled(d), D)
<1>1. \A d \in D \cup {NoData} : Settled(d) \in Query(D \cup {NoData})
  BY DEF Settled, Query, Stages
<1>2. \A d : Settled(d).stage = "idle"
  BY DEF Settled
<1> QED BY <1>1, <1>2 DEF Held

\* What the server answers.
LEMMA Answerable ==
    ASSUME SettingsTypeOK
    PROVE  Listed \in Listing /\ \A b \in Budgets : row[b].balance \in ConfigOf(b)
<1>1. /\ row \in [Budgets -> Row] /\ \A b \in Budgets : row[b].balance.weight[b] = 0
      /\ visible \in SUBSET Budgets /\ stamp \in Nat
  BY DEF SettingsTypeOK, Rows
<1>2. [b \in visible |-> row[b].basics] \in [visible -> Basics]
  BY <1>1 DEF Row
<1>3. Listed \in [rows: [visible -> Basics], stamp: Nat]
  BY <1>1, <1>2 DEF Listed
<1>4. Listed \in Listing
  BY <1>1, <1>3 DEF Listing
<1>5. \A b \in Budgets : row[b].balance \in ConfigOf(b)
  BY <1>1 DEF Row, ConfigOf
<1> QED BY <1>4, <1>5

-----------------------------------------------------------------------------
(* Settings: the effects *)

LEMMA FromList ==
    ASSUME NEW b \in Budgets, NEW held \in Listing, NEW f \in Form
    PROVE  LET g == FillFromList(b, held, f)
           IN  /\ g \in Form /\ b \notin g.picks /\ g.on = f.on
               /\ g.basics = IF b \in DOMAIN held.rows THEN held.rows[b] ELSE Blank
               /\ g.picks = f.picks \cap (DOMAIN held.rows \ {b})
<1>1. PICK V \in SUBSET Budgets : held \in [rows: [V -> Basics], stamp: Nat]
  BY DEF Listing
<1>2. DOMAIN held.rows = V /\ \A c \in V : held.rows[c] \in Basics
  BY <1>1
<1> DEFINE basics == IF b \in DOMAIN held.rows THEN held.rows[b] ELSE Blank
           picks == f.picks \cap (DOMAIN held.rows \ {b})
<1>3. basics \in Basics \cup {Blank} /\ picks \in SUBSET Budgets
  BY <1>2 DEF Form
<1>4. FillFromList(b, held, f) = [f EXCEPT !.basics = basics, !.picks = picks]
  BY DEF FillFromList
<1>5. b \notin picks
  OBVIOUS
<1> HIDE DEF basics, picks
<1>6. FillFromList(b, held, f) = [basics |-> basics, on |-> f.on, picks |-> picks]
  BY <1>4 DEF Form
<1>7. /\ FillFromList(b, held, f) \in Form
      /\ FillFromList(b, held, f).picks = picks /\ FillFromList(b, held, f).on = f.on
      /\ FillFromList(b, held, f).basics = basics
  BY <1>3, <1>6 DEF Form
<1> QED BY <1>5, <1>7 DEF basics, picks

LEMMA FromConfig ==
    ASSUME NEW data \in Balance \cup {NoData}, NEW f \in Form
    PROVE  LET g == FillFromConfig(data, f)
           IN  /\ g \in Form /\ g.basics = f.basics
               /\ data = NoData => g = f
               /\ data # NoData => g.on = data.on /\ g.picks = Sources(data)
<1>1. CASE data = NoData
  BY <1>1 DEF FillFromConfig
<1>2. CASE data # NoData
  <2>1. data \in Balance /\ data.on \in BOOLEAN
    BY <1>2 DEF Balance
  <2>2. FillFromConfig(data, f) = [f EXCEPT !.on = data.on, !.picks = Sources(data)]
    BY <1>2 DEF FillFromConfig, Sources
  <2>3. Sources(data) \in SUBSET Budgets
    BY DEF Sources
  <2>4. FillFromConfig(data, f)
          = [basics |-> f.basics, on |-> data.on, picks |-> Sources(data)]
    BY <2>2 DEF Form
  <2>5. /\ FillFromConfig(data, f).basics = f.basics
        /\ FillFromConfig(data, f).on = data.on
        /\ FillFromConfig(data, f).picks = Sources(data)
    BY <2>4
  <2>6. FillFromConfig(data, f) \in Form
    BY <2>1, <2>3, <2>4 DEF Form
  <2> QED BY <1>2, <2>5, <2>6
<1> QED BY <1>1, <1>2

-----------------------------------------------------------------------------
(* Settings: every step keeps the invariant *)

LEMMA ConfigType == HeldInv => config \in [Budgets -> Query(Balance \cup {NoData})]
<1> SUFFICES ASSUME HeldInv, NEW b \in Budgets
             PROVE  config[b] \in Query(Balance \cup {NoData})
  BY DEF HeldInv
<1>1. config[b] \in Query(ConfigOf(b) \cup {NoData})
  BY DEF HeldInv, Held
<1>2. ConfigOf(b) \subseteq Balance
  BY DEF ConfigOf
<1> QED BY <1>1, <1>2 DEF Query

\* A request of the save replaces one half of a row.
LEMMA StoredType ==
    ASSUME SettingsTypeOK, SavingType, saving.stage \in Pending, Stored
    PROVE  /\ saving.budget \in Budgets
           /\ row' \in Rows /\ visible' \in SUBSET Budgets /\ stamp' \in Nat
           /\ \A b \in Budgets : saving.stage = "basics" \/ b # saving.budget
                                 => row'[b].balance = row[b].balance
<1>1. /\ row \in [Budgets -> Row] /\ \A b \in Budgets : row[b].balance.weight[b] = 0
      /\ visible' = visible /\ visible \in SUBSET Budgets
      /\ stamp' = stamp + 1 /\ stamp \in Nat
  BY DEF SettingsTypeOK, Rows, Stored
<1>2. /\ saving.budget \in Budgets /\ saving.payload \in Row
      /\ saving.payload.balance.weight[saving.budget] = 0
      /\ saving.stage = "basics" \/ saving.stage = "balance"
  BY DEF SavingType, Saving, Pending
<1> DEFINE c == saving.budget
           half == IF saving.stage = "basics"
                   THEN [row[c] EXCEPT !.basics = saving.payload.basics]
                   ELSE [row[c] EXCEPT !.balance = saving.payload.balance]
<1>3. row' = [row EXCEPT ![c] = half]
  BY <1>1, <1>2 DEF Stored
<1>4. /\ half \in Row
      /\ half.balance = IF saving.stage = "basics" THEN row[c].balance
                        ELSE saving.payload.balance
  BY <1>1, <1>2 DEF Row
<1>5. half.balance.weight[c] = 0
  BY <1>1, <1>2, <1>4
<1> HIDE DEF half
<1>6. row' \in [Budgets -> Row] /\ row'[c] = half
      /\ \A b \in Budgets \ {c} : row'[b] = row[b]
  BY <1>1, <1>2, <1>3, <1>4
<1>7. \A b \in Budgets : row'[b].balance.weight[b] = 0
  BY <1>1, <1>5, <1>6
<1>8. ASSUME NEW b \in Budgets, saving.stage = "basics" \/ b # saving.budget
      PROVE  row'[b].balance = row[b].balance
  BY <1>4, <1>6, <1>8
<1> QED BY <1>1, <1>2, <1>6, <1>7, <1>8 DEF Rows

LEMMA SettingsInvInit == SettingsInit => SettingsInv
<1> SUFFICES ASSUME SettingsInit PROVE SettingsInv
  OBVIOUS
<1> USE SettingsAssumption
<1>1. row \in Rows /\ visible \in SUBSET Budgets /\ stamp \in Nat
  BY DEF SettingsInit
<1>2. Listed \in Listing
  <2>1. row \in [Budgets -> Row]
    BY <1>1 DEF Rows
  <2>2. [b \in visible |-> row[b].basics] \in [visible -> Basics]
    BY <1>1, <2>1 DEF Row
  <2>3. Listed \in [rows: [visible -> Basics], stamp: Nat]
    BY <1>1, <2>2 DEF Listed
  <2> QED BY <1>1, <2>3 DEF Listing
<1>3. list.data = Listed
  BY DEF SettingsInit, Settled
<1>4. HeldInv
  BY <1>2, <1>3, SettledHeld DEF SettingsInit, HeldInv
<1>5. SavingType
  BY DEF SettingsInit, SavingType, Saving, NoSave
<1>6. form \in Form /\ touched = {}
  BY DEF SettingsInit, EmptyForm, Form
<1>7. Filled
  BY DEF SettingsInit, Filled
<1>8. SettingsTypeOK
  <2>1. 0 \in 0..MaxClicks /\ 0 \in 0..MaxTrouble
    OBVIOUS
  <2>2. config \in [Budgets -> Query(Balance \cup {NoData})]
    BY <1>4, ConfigType
  <2> QED BY <1>1, <1>6, <2>1, <2>2 DEF SettingsInit, SettingsTypeOK
<1> QED BY <1>4, <1>5, <1>7, <1>8 DEF SettingsInv

\* What the actions have in common: the form and what fills it stay.
LEMMA FilledStays ==
    ASSUME Filled, UNCHANGED <<opened, form, touched>>, list'.data = list.data,
           opened # NoBudget => config'[opened].data = config[opened].data
    PROVE  Filled'
BY DEF Filled, ListedBasics

LEMMA HeldStep == SettingsInv /\ [SettingsNext]_settingsVars => HeldInv'
<1> SUFFICES ASSUME SettingsInv, [SettingsNext]_settingsVars PROVE HeldInv'
  OBVIOUS
<1>1. /\ Held(list, Listing) /\ list.data \in Listing
      /\ config = [b \in Budgets |-> config[b]]
      /\ \A b \in Budgets : Held(config[b], ConfigOf(b))
      /\ Listed \in Listing /\ \A b \in Budgets : row[b].balance \in ConfigOf(b)
  BY Answerable DEF SettingsInv, HeldInv
<1> USE DEF settingsServer, queries, dialogue
<1>c. ASSUME NEW b \in Budgets, NEW q, Held(q, ConfigOf(b)), config' = [config EXCEPT ![b] = q],
             Held(list', Listing), list'.data \in Listing
      PROVE  HeldInv'
  <2>1. config' = [c \in Budgets |-> config'[c]]
        /\ \A c \in Budgets : config'[c] = IF c = b THEN q ELSE config[c]
    BY <1>1, <1>c
  <2> QED BY <1>1, <1>c, <2>1 DEF HeldInv
<1>t. TRUE \in BOOLEAN /\ \A b \in Budgets : (b = opened) \in BOOLEAN
  OBVIOUS
<1>p. \A q \in {Observed(list), Overtaken(list), Invalidated(list, TRUE), Failed(list, TRUE),
               Answered(list, Listed)} :
          Held(q, Listing) /\ q.data \in Listing
  <2>1. /\ Held(Observed(list), Listing) /\ Observed(list).data = list.data
        /\ Held(Overtaken(list), Listing) /\ Overtaken(list).data = list.data
        /\ Held(Invalidated(list, TRUE), Listing) /\ Invalidated(list, TRUE).data = list.data
        /\ Held(Failed(list, TRUE), Listing) /\ Failed(list, TRUE).data = list.data
        /\ Held(Answered(list, Listed), Listing) /\ Answered(list, Listed).data = list.data
    <3> DEFINE D == Listing
    <3> HIDE DEF D
    <3>1. Held(list, D) /\ Listed \in D
      BY <1>1 DEF D
    <3>2. \A watched \in BOOLEAN :
            /\ Held(Observed(list), D) /\ Observed(list).data = list.data
            /\ Held(Overtaken(list), D) /\ Overtaken(list).data = list.data
            /\ Held(Invalidated(list, watched), D) /\ Invalidated(list, watched).data = list.data
            /\ Held(Failed(list, watched), D) /\ Failed(list, watched).data = list.data
            /\ \A d \in D : Held(Answered(list, d), D) /\ Answered(list, d).data = list.data
      BY <3>1, QueryHeld
    <3>3. \A d \in D : Held(Answered(list, d), D) /\ Answered(list, d).data = list.data
      BY <3>2, <1>t
    <3>4. Held(Answered(list, Listed), D) /\ Answered(list, Listed).data = list.data
      BY <3>1, <3>3
    <3> QED BY <3>2, <3>4, <1>t DEF D
  <2> QED BY <1>1, <2>1
<1>q. ASSUME NEW b \in Budgets
      PROVE  \A q \in {Observed(config[b]), Overtaken(config[b]),
                       Invalidated(config[b], b = opened), Failed(config[b], b = opened),
                       Answered(config[b], row[b].balance)} : Held(q, ConfigOf(b))
  <2>1. /\ Held(Observed(config[b]), ConfigOf(b)) /\ Held(Overtaken(config[b]), ConfigOf(b))
        /\ Held(Invalidated(config[b], b = opened), ConfigOf(b))
        /\ Held(Failed(config[b], b = opened), ConfigOf(b))
        /\ Held(Answered(config[b], row[b].balance), ConfigOf(b))
    BY <1>1, <1>t, QueryHeld
  <2> QED BY <2>1
<1>l. ASSUME Held(list', Listing), list'.data \in Listing,
             UNCHANGED config \/ \E b \in Budgets : Unnoticed(b)
      PROVE  HeldInv'
  <2>1. CASE UNCHANGED config
    BY <1>1, <1>l, <2>1 DEF HeldInv
  <2>2. ASSUME NEW b \in Budgets, Unnoticed(b) PROVE HeldInv'
    BY <1>1, <1>l, <1>c, <1>q, <2>2 DEF Unnoticed
  <2> QED BY <1>l, <2>1, <2>2
<1>2. CASE CloseSettings \/ EditForm \/ SaveSettings \/ UNCHANGED settingsVars
  BY <1>1, <1>2, <1>l DEF CloseSettings, EditForm, SaveSettings, settingsVars
<1>3. CASE FocusDashboard
  <2>1. Held(list', Listing) /\ list'.data \in Listing
    BY <1>3, <1>p DEF FocusDashboard
  <2>2. /\ config' = [b \in Budgets |-> config'[b]]
        /\ \A b \in Budgets : config'[b] = Observed(config[b]) \/ config'[b] = config[b]
    BY <1>3 DEF FocusDashboard
  <2>3. \A b \in Budgets : Held(Observed(config[b]), ConfigOf(b))
    BY <1>q
  <2> QED BY <1>1, <2>1, <2>2, <2>3 DEF HeldInv
<1>4. CASE RunPayroll \/ BasicsStored
  <2>1. Held(list', Listing) /\ list'.data \in Listing /\ UNCHANGED config
    BY <1>4, <1>p DEF RunPayroll, BasicsStored
  <2> QED BY <1>l, <2>1
<1>5. CASE BalanceStored
  <2>1. Held(list', Listing) /\ list'.data \in Listing
    BY <1>5, <1>p DEF BalanceStored
  <2>2. saving.budget \in Budgets
    BY <1>5, StoredType DEF BalanceStored, SettingsInv, Pending
  <2>3. Held(Invalidated(config[saving.budget], saving.budget = opened),
             ConfigOf(saving.budget))
    BY <1>q, <2>2
  <2> QED BY <1>5, <1>c, <2>1, <2>2, <2>3 DEF BalanceStored
<1>6. CASE SaveFails
  <2>1. CASE UNCHANGED queries
    BY <1>1, <1>l, <2>1
  <2>2. CASE Stored /\ Unnoticed(saving.budget)
    <3>1. saving.budget \in Budgets
      BY <1>6, <2>2, StoredType DEF SaveFails, SettingsInv
    <3>2. Held(list', Listing) /\ list'.data \in Listing
      BY <1>p, <2>2 DEF Unnoticed
    <3> QED BY <1>l, <2>2, <3>1, <3>2
  <2> QED BY <1>6, <2>1, <2>2 DEF SaveFails
<1>7. CASE LoadList
  <2>1. UNCHANGED config
    BY <1>7 DEF LoadList
  <2>2. \/ list' = Answered(list, Listed)
        \/ list.stage = "answered" /\ list' = Arrived(list)
        \/ list' = Failed(list, TRUE)
    BY <1>7 DEF LoadList, ShowList
  <2>3. Held(list', Listing) /\ list'.data \in Listing
    <3>1. list.stage = "answered" => Held(Arrived(list), Listing) /\ Arrived(list).data \in Listing
      BY <1>1, <1>t, QueryHeld DEF Held
    <3> QED BY <1>p, <2>2, <3>1
  <2> QED BY <1>l, <2>1, <2>3
<1>8. ASSUME NEW b \in Budgets, OpenSettings(b) PROVE HeldInv'
  <2>1. Held(Observed(config[b]), ConfigOf(b))
    BY <1>q
  <2> QED BY <1>1, <1>8, <1>c, <2>1 DEF OpenSettings
<1>9. ASSUME NEW b \in Budgets, LoadConfig(b) PROVE HeldInv'
  <2>1. /\ UNCHANGED list
        /\ \/ config' = [config EXCEPT ![b] = Answered(config[b], row[b].balance)]
           \/ /\ config[b].stage = "answered"
              /\ config' = [config EXCEPT ![b] = Arrived(config[b])]
           \/ config' = [config EXCEPT ![b] = Failed(config[b], b = opened)]
    BY <1>9 DEF LoadConfig, ShowConfig
  <2>2. config[b].stage = "answered" => Held(Arrived(config[b]), ConfigOf(b))
    BY <1>1, <1>t, QueryHeld
  <2> QED BY <1>1, <1>c, <1>q, <2>1, <2>2
<1>10. ASSUME NEW b \in Budgets, OthersStore(b) PROVE HeldInv'
  <2>1. Held(list', Listing) /\ list'.data \in Listing
    BY <1>10, <1>p DEF OthersStore, Unnoticed
  <2> QED BY <1>l, <1>10, <2>1 DEF OthersStore
<1> QED BY <1>2, <1>3, <1>4, <1>5, <1>6, <1>7, <1>8, <1>9, <1>10 DEF SettingsNext

LEMMA ServerStep ==
    SettingsInv /\ [SettingsNext]_settingsVars
    => row' \in Rows /\ visible' \in SUBSET Budgets /\ stamp' \in Nat
<1> SUFFICES ASSUME SettingsInv, [SettingsNext]_settingsVars
             PROVE  row' \in Rows /\ visible' \in SUBSET Budgets /\ stamp' \in Nat
  OBVIOUS
<1>1. row \in Rows /\ visible \in SUBSET Budgets /\ stamp \in Nat
  BY DEF SettingsInv, SettingsTypeOK
<1>2. CASE UNCHANGED settingsServer
  BY <1>1, <1>2 DEF settingsServer
<1>3. CASE RunPayroll
  BY <1>1, <1>3 DEF RunPayroll
<1>4. CASE saving.stage \in Pending /\ Stored
  BY <1>4, StoredType DEF SettingsInv
<1>5. ASSUME NEW b \in Budgets, OthersStore(b)
      PROVE  row' \in Rows /\ visible' \in SUBSET Budgets /\ stamp' \in Nat
  <2>1. stamp' \in Nat /\ visible' \in SUBSET Budgets
    BY <1>1, <1>5 DEF OthersStore
  <2>2. ASSUME NEW r \in OtherRows[b], row' = [row EXCEPT ![b] = r] PROVE row' \in Rows
    <3>1. r \in Row /\ r.balance.weight[b] = 0
      BY SettingsAssumption
    <3> QED BY <1>1, <2>2, <3>1 DEF Rows
  <2> QED BY <1>1, <1>5, <2>1, <2>2 DEF OthersStore
<1>6. \/ UNCHANGED settingsServer \/ RunPayroll \/ (saving.stage \in Pending /\ Stored)
      \/ \E b \in Budgets : OthersStore(b)
  BY DEF SettingsNext, CloseSettings, EditForm, SaveSettings, FocusDashboard, BasicsStored,
         BalanceStored, SaveFails, LoadList, OpenSettings, LoadConfig, settingsVars, Pending,
         settingsServer
<1> QED BY <1>2, <1>3, <1>4, <1>5, <1>6

LEMMA CountersStep ==
    SettingsInv /\ [SettingsNext]_settingsVars
    => clicks' \in 0..MaxClicks /\ trouble' \in 0..MaxTrouble
<1> SUFFICES ASSUME SettingsInv, [SettingsNext]_settingsVars
             PROVE  clicks' \in 0..MaxClicks /\ trouble' \in 0..MaxTrouble
  OBVIOUS
<1>1. /\ clicks \in 0..MaxClicks /\ trouble \in 0..MaxTrouble
      /\ MaxClicks \in Nat /\ MaxTrouble \in Nat
  BY SettingsAssumption DEF SettingsInv, SettingsTypeOK
<1>2. Click \/ UNCHANGED clicks
  BY DEF SettingsNext, CloseSettings, EditForm, SaveSettings, FocusDashboard, RunPayroll,
         BasicsStored, BalanceStored, SaveFails, LoadList, OpenSettings, LoadConfig, OthersStore,
         settingsVars
<1>3. Trouble \/ UNCHANGED trouble
  BY DEF SettingsNext, CloseSettings, EditForm, SaveSettings, FocusDashboard, RunPayroll,
         BasicsStored, BalanceStored, SaveFails, LoadList, OpenSettings, LoadConfig, OthersStore,
         settingsVars
<1> QED BY <1>1, <1>2, <1>3 DEF Click, Trouble

\* A saved weight is 1, and the budget itself is never picked.
LEMMA PayloadType ==
    ASSUME SettingsTypeOK, Filled, opened # NoBudget, form.basics # Blank
    PROVE  Payload \in Row /\ Payload.balance.weight[opened] = 0 /\ opened \in Budgets
<1>1. form \in Form /\ opened \in Budgets /\ opened \notin form.picks
  BY DEF SettingsTypeOK, Filled
<1> DEFINE weight == [s \in Budgets |-> IF form.on /\ s \in form.picks THEN 1 ELSE 0]
<1>2. weight \in Weights /\ weight[opened] = 0
  BY <1>1, SettingsAssumption DEF Weights
<1> HIDE DEF weight
<1>3. form.on \in BOOLEAN /\ form.basics \in Basics
  BY <1>1 DEF Form
<1>4. [on |-> form.on, weight |-> weight] \in Balance
  BY <1>2, <1>3 DEF Balance
<1>5. Payload = [basics |-> form.basics, balance |-> [on |-> form.on, weight |-> weight]]
  BY DEF Payload, weight
<1>6. Payload \in Row
  BY <1>3, <1>4, <1>5 DEF Row
<1>7. Payload.balance.weight = weight
  BY <1>5
<1> QED BY <1>1, <1>2, <1>6, <1>7

LEMMA SavingStep == SettingsInv /\ [SettingsNext]_settingsVars => SavingType'
<1> SUFFICES ASSUME SettingsInv, [SettingsNext]_settingsVars PROVE SavingType'
  OBVIOUS
<1>1. /\ saving \in Saving
      /\ saving.stage # "none" => saving.payload.balance.weight[saving.budget] = 0
  BY DEF SettingsInv, SavingType
<1>2. CASE UNCHANGED saving
  BY <1>1, <1>2 DEF SavingType
<1>3. CASE SaveSettings
  <2>1. Payload \in Row /\ Payload.balance.weight[opened] = 0 /\ opened \in Budgets
    BY <1>3, PayloadType DEF SaveSettings, SaveReady, SettingsInv
  <2> HIDE DEF Payload
  <2>2. saving' = [budget |-> opened, payload |-> Payload, stage |-> "basics", alone |-> TRUE]
    BY <1>3 DEF SaveSettings
  <2>3. [budget |-> opened, payload |-> Payload, stage |-> "basics", alone |-> TRUE] \in Saving
    BY <2>1 DEF Saving
  <2> QED BY <2>1, <2>2, <2>3 DEF SavingType
<1>4. ASSUME saving.stage \in Pending, NEW stage \in {"balance", "done", "failed"}, Turn(stage)
      PROVE  SavingType'
  <2>1. saving \in [budget: Budgets, payload: Row,
                    stage: {"basics", "balance", "done", "failed"}, alone: BOOLEAN]
    BY <1>1, <1>4 DEF Saving, Pending
  <2>2. /\ saving' \in [budget: Budgets, payload: Row,
                        stage: {"basics", "balance", "done", "failed"}, alone: BOOLEAN]
        /\ saving'.payload = saving.payload /\ saving'.budget = saving.budget
    BY <1>4, <2>1 DEF Turn
  <2> QED BY <1>1, <1>4, <2>1, <2>2 DEF SavingType, Saving, Pending
<1>5. ASSUME NEW b \in Budgets, OthersStore(b) PROVE SavingType'
  <2> DEFINE alone == saving.alone /\ b # saving.budget
  <2>1. saving' = [saving EXCEPT !.alone = alone] /\ alone \in BOOLEAN
    BY <1>5 DEF OthersStore
  <2> HIDE DEF alone
  <2>2. CASE saving \in [budget: Budgets, payload: Row,
                         stage: {"basics", "balance", "done", "failed"}, alone: BOOLEAN]
    <3>1. /\ saving' \in [budget: Budgets, payload: Row,
                          stage: {"basics", "balance", "done", "failed"}, alone: BOOLEAN]
          /\ saving'.payload = saving.payload /\ saving'.budget = saving.budget
      BY <2>1, <2>2
    <3> QED BY <1>1, <2>2, <3>1 DEF SavingType, Saving
  <2>3. CASE saving \in [budget: {NoBudget}, stage: {"none"}, alone: BOOLEAN]
    <3>1. saving' \in [budget: {NoBudget}, stage: {"none"}, alone: BOOLEAN]
      BY <2>1, <2>3
    <3> QED BY <3>1 DEF SavingType, Saving
  <2> QED BY <1>1, <2>2, <2>3 DEF Saving
<1>6. \/ UNCHANGED saving \/ SaveSettings
      \/ (saving.stage \in Pending /\ \E stage \in {"balance", "done", "failed"} : Turn(stage))
      \/ \E b \in Budgets : OthersStore(b)
  BY DEF SettingsNext, CloseSettings, EditForm, FocusDashboard, RunPayroll, BasicsStored,
         BalanceStored, SaveFails, LoadList, OpenSettings, LoadConfig, settingsVars, Pending
<1> QED BY <1>2, <1>3, <1>4, <1>5, <1>6

LEMMA FormStep ==
    SettingsInv /\ [SettingsNext]_settingsVars
    => /\ opened' \in Budgets \cup {NoBudget} /\ form' \in Form
       /\ touched' \in SUBSET {"basics", "balance"} /\ Filled'
<1> DEFINE FormOK == /\ opened' \in Budgets \cup {NoBudget} /\ form' \in Form
                     /\ touched' \in SUBSET {"basics", "balance"} /\ Filled'
<1> SUFFICES ASSUME SettingsInv, [SettingsNext]_settingsVars PROVE FormOK
  OBVIOUS
<1>1. /\ opened \in Budgets \cup {NoBudget} /\ form \in Form
      /\ touched \in SUBSET {"basics", "balance"} /\ Filled
      /\ Held(list, Listing) /\ list.data \in Listing
      /\ \A b \in Budgets : Held(config[b], ConfigOf(b))
      /\ config = [b \in Budgets |-> config[b]]
  BY DEF SettingsInv, SettingsTypeOK, HeldInv
<1>c. \A b \in Budgets : config[b].data \in Balance \cup {NoData}
                         /\ (config[b].stage = "answered" => config[b].answer \in ConfigOf(b))
                         /\ ConfigOf(b) \subseteq Balance
  BY <1>1 DEF Held, Query, ConfigOf
<1>k. ASSUME UNCHANGED <<opened, form, touched>>, list'.data = list.data,
             opened # NoBudget => config'[opened].data = config[opened].data
      PROVE  FormOK
  BY <1>1, <1>k, FilledStays
<1>o. /\ Observed(list).data = list.data /\ Overtaken(list).data = list.data
      /\ Answered(list, Listed).data = list.data
      /\ \A watched \in BOOLEAN : /\ Invalidated(list, watched).data = list.data
                                  /\ Failed(list, watched).data = list.data
  <2>1. Listed \in Listing
    BY Answerable DEF SettingsInv
  <2>2. \A watched \in BOOLEAN :
          /\ Observed(list).data = list.data /\ Overtaken(list).data = list.data
          /\ \A d \in Listing : Answered(list, d).data = list.data
          /\ Invalidated(list, watched).data = list.data /\ Failed(list, watched).data = list.data
    BY <1>1, QueryHeld
  <2> QED BY <2>1, <2>2
<1>q. \A b \in Budgets :
        /\ Observed(config[b]).data = config[b].data
        /\ Overtaken(config[b]).data = config[b].data
        /\ Answered(config[b], row[b].balance).data = config[b].data
        /\ Failed(config[b], b = opened).data = config[b].data
        /\ config[b].stage = "answered" => Arrived(config[b]).data = config[b].answer
  <2> SUFFICES ASSUME NEW b \in Budgets
               PROVE  /\ Observed(config[b]).data = config[b].data
                      /\ Overtaken(config[b]).data = config[b].data
                      /\ Answered(config[b], row[b].balance).data = config[b].data
                      /\ Failed(config[b], b = opened).data = config[b].data
                      /\ config[b].stage = "answered"
                         => Arrived(config[b]).data = config[b].answer
    OBVIOUS
  <2>1. row[b].balance \in ConfigOf(b) /\ (b = opened) \in BOOLEAN
    BY Answerable DEF SettingsInv
  <2> DEFINE D == ConfigOf(b)
             q == config[b]
  <2>2. Held(q, D)
    BY <1>1
  <2> HIDE DEF D, q
  <2>3. \A watched \in BOOLEAN :
          /\ Held(Observed(q), D) /\ Observed(q).data = q.data
          /\ Held(Overtaken(q), D) /\ Overtaken(q).data = q.data
          /\ Held(Failed(q, watched), D) /\ Failed(q, watched).data = q.data
          /\ \A d \in D : Held(Answered(q, d), D) /\ Answered(q, d).data = q.data
          /\ q.stage = "answered" => Held(Arrived(q), D) /\ Arrived(q).data = q.answer
    BY <2>2, QueryHeld
  <2> QED BY <2>1, <2>3 DEF D, q
<1> HIDE DEF FormOK
<1>2. CASE UNCHANGED dialogue /\ list'.data = list.data /\ UNCHANGED config
  BY <1>2, <1>k DEF dialogue
<1>3. CASE CloseDialog
  BY <1>3 DEF CloseDialog, EmptyForm, Form, Filled, FormOK
<1>4. CASE EditForm
  <2>1. /\ opened \in Budgets /\ opened # NoBudget /\ opened' = opened
        /\ UNCHANGED <<list, config>>
    BY <1>1, <1>4 DEF EditForm, queries
  <2>2. ASSUME NEW v \in Basics, form' = [form EXCEPT !.basics = v],
               touched' = touched \cup {"basics"}
        PROVE  FormOK
    <3>1. form' = [basics |-> v, on |-> form.on, picks |-> form.picks]
      BY <1>1, <2>2 DEF Form
    <3>2. form' \in Form /\ form'.on = form.on /\ form'.picks = form.picks
      BY <1>1, <3>1 DEF Form
    <3> QED BY <1>1, <2>1, <2>2, <3>2 DEF FormOK, Filled
  <2>3. ASSUME NEW on \in BOOLEAN, NEW picks \in SUBSET Budgets,
               form' = [basics |-> form.basics, on |-> on, picks |-> picks],
               opened \notin picks, touched' = touched \cup {"balance"}
        PROVE  FormOK
    <3>1. form' \in Form /\ form'.basics = form.basics /\ form'.picks = picks
      BY <1>1, <2>3 DEF Form
    <3> QED BY <1>1, <2>1, <2>3, <3>1 DEF FormOK, Filled, ListedBasics
  <2>4. CASE form' = [form EXCEPT !.on = ~@] /\ touched' = touched \cup {"balance"}
    <3> DEFINE on == ~form.on
    <3>1. on \in BOOLEAN /\ form.picks \in SUBSET Budgets /\ opened \notin form.picks
      BY <1>1, <2>1 DEF Form, Filled
    <3>2. form' = [form EXCEPT !.on = on]
      BY <2>4
    <3> HIDE DEF on
    <3>3. form' = [basics |-> form.basics, on |-> on, picks |-> form.picks]
      BY <1>1, <3>2 DEF Form
    <3> QED BY <2>3, <2>4, <3>1, <3>3
  <2>5. ASSUME NEW s \in DOMAIN list.data.rows \ {opened},
               form' = [form EXCEPT !.picks = IF s \in @ THEN @ \ {s} ELSE @ \cup {s}],
               touched' = touched \cup {"balance"}
        PROVE  FormOK
    <3> DEFINE picks == IF s \in form.picks THEN form.picks \ {s} ELSE form.picks \cup {s}
    <3>1. s \in Budgets
      BY <1>1 DEF Listing
    <3>2. picks \in SUBSET Budgets /\ opened \notin picks /\ form.on \in BOOLEAN
      BY <1>1, <2>1, <3>1 DEF Form, Filled
    <3>3. form' = [form EXCEPT !.picks = picks]
      BY <2>5
    <3> HIDE DEF picks
    <3>4. form' = [basics |-> form.basics, on |-> form.on, picks |-> picks]
      BY <1>1, <3>3 DEF Form
    <3> QED BY <2>3, <2>5, <3>2, <3>4
  <2> QED BY <1>4, <2>2, <2>4, <2>5 DEF EditForm
<1>5. CASE FocusDashboard
  <2>1. list'.data = list.data /\ \A b \in Budgets : config'[b].data = config[b].data
    BY <1>5, <1>o, <1>q DEF FocusDashboard
  <2>2. UNCHANGED <<opened, form, touched>>
    BY <1>5 DEF FocusDashboard, dialogue
  <2> QED BY <1>1, <1>k, <2>1, <2>2
<1>6. CASE RunPayroll \/ BasicsStored
  <2>1. UNCHANGED dialogue /\ list'.data = list.data /\ UNCHANGED config
    BY <1>6, <1>o DEF RunPayroll, BasicsStored
  <2> QED BY <1>2, <2>1
<1>7. ASSUME NEW b \in Budgets, Unnoticed(b), UNCHANGED dialogue
      PROVE  FormOK
  <2>1. list'.data = list.data /\ \A c \in Budgets : config'[c].data = config[c].data
    BY <1>1, <1>7, <1>o, <1>q DEF Unnoticed
  <2> QED BY <1>1, <1>7, <1>k, <2>1 DEF dialogue
<1>8. CASE SaveFails
  <2>1. CASE UNCHANGED queries
    BY <1>2, <1>8, <2>1 DEF SaveFails, queries
  <2>2. CASE Stored /\ Unnoticed(saving.budget)
    <3>1. saving.budget \in Budgets /\ UNCHANGED dialogue
      BY <1>8, <2>2, StoredType DEF SaveFails, SettingsInv
    <3> QED BY <1>7, <2>2, <3>1
  <2> QED BY <1>8, <2>1, <2>2 DEF SaveFails
<1>9. CASE LoadList
  <2>1. UNCHANGED <<opened, config>>
    BY <1>9 DEF LoadList, ShowList
  <2>2. CASE UNCHANGED <<form, touched>> /\ list'.data = list.data
    BY <2>1, <2>2, <1>k
  <2>3. CASE list.stage = "answered" /\ ShowList
    <3>1. list'.data = list.answer /\ list.answer \in Listing
      BY <1>1, <2>3 DEF ShowList, Arrived, Settled, Held
    <3>2. CASE opened # NoBudget /\ list.answer # list.data
      <4>1. /\ form' = FillFromList(opened, list.answer, form)
            /\ touched' = StillTouched(opened, list.answer, form)
        BY <2>3, <3>2 DEF ShowList
      <4>2. /\ form' \in Form /\ opened \notin form'.picks /\ form'.on = form.on
            /\ form'.basics = IF opened \in DOMAIN list.answer.rows
                              THEN list.answer.rows[opened] ELSE Blank
        BY <1>1, <3>1, <3>2, <4>1, FromList
      <4>3. /\ touched' \in SUBSET {"basics", "balance"}
            /\ "balance" \notin touched' => "balance" \notin touched /\ form'.picks = form.picks
        BY <1>1, <4>1 DEF StillTouched
      <4>4. form'.basics = ListedBasics(opened)'
        BY <2>1, <3>1, <4>2 DEF ListedBasics
      <4>5. Filled'
        BY <1>1, <2>1, <4>2, <4>3, <4>4 DEF Filled
      <4> QED BY <1>1, <2>1, <4>2, <4>3, <4>5 DEF FormOK
    <3>3. CASE ~(opened # NoBudget /\ list.answer # list.data)
      <4>1. UNCHANGED <<form, touched>>
        BY <2>3, <3>3 DEF ShowList
      <4>2. CASE list.answer = list.data
        BY <2>1, <3>1, <4>1, <4>2, <1>k
      <4>3. CASE opened = NoBudget
        BY <1>1, <2>1, <4>1, <4>3 DEF FormOK, Filled
      <4> QED BY <3>3, <4>2, <4>3
    <3> QED BY <3>2, <3>3
  <2> QED BY <1>9, <1>o, <2>2, <2>3 DEF LoadList
<1>10. ASSUME NEW b \in Budgets, OpenSettings(b) PROVE FormOK
  <2> DEFINE filled == FillFromConfig(config[b].data, form)
  <2>1. /\ filled \in Form
        /\ config[b].data # NoData => /\ filled.on = config[b].data.on
                                      /\ filled.picks = Sources(config[b].data)
    BY <1>1, <1>c, FromConfig
  <2>2. /\ opened' = b /\ list' = list /\ form' = FillFromList(b, list.data, filled)
        /\ touched' = IF form'.picks = filled.picks THEN {} ELSE {"balance"}
        /\ config' = [config EXCEPT ![b] = Observed(config[b])]
    BY <1>10 DEF OpenSettings
  <2> HIDE DEF filled
  <2>3. config'[b].data = config[b].data
    BY <1>1, <1>q, <2>2
  <2>4. /\ form' \in Form /\ b \notin form'.picks /\ form'.on = filled.on
        /\ form'.basics = ListedBasics(b)
    BY <1>1, <2>1, <2>2, FromList DEF ListedBasics
  <2>5. ListedBasics(b)' = ListedBasics(b)
    BY <2>2 DEF ListedBasics
  <2>6. Filled'
    BY <2>1, <2>2, <2>3, <2>4, <2>5 DEF Filled
  <2> QED BY <2>2, <2>4, <2>6 DEF FormOK
<1>11. ASSUME NEW b \in Budgets, LoadConfig(b) PROVE FormOK
  <2>1. UNCHANGED <<opened, list>>
    BY <1>11 DEF LoadConfig, ShowConfig
  <2>2. CASE UNCHANGED <<form, touched>> /\ \E q : /\ config' = [config EXCEPT ![b] = q]
                                                   /\ q.data = config[b].data
    BY <1>1, <1>k, <2>1, <2>2
  <2>3. CASE config[b].stage = "answered" /\ ShowConfig(b)
    <3>1. /\ config' = [config EXCEPT ![b] = Arrived(config[b])]
          /\ Arrived(config[b]).data = config[b].answer /\ config[b].answer \in ConfigOf(b)
      BY <1>c, <1>q, <2>3 DEF ShowConfig
    <3>2. CASE b = opened /\ config[b].answer # config[b].data
      <4>1. /\ form' = FillFromConfig(config[b].answer, form)
            /\ touched' = touched \ {"balance"}
        BY <2>3, <3>2 DEF ShowConfig
      <4>2. /\ form' \in Form /\ form'.basics = form.basics
            /\ config[b].answer = NoData => form' = form
            /\ config[b].answer # NoData => /\ form'.on = config[b].answer.on
                                            /\ form'.picks = Sources(config[b].answer)
        BY <1>1, <1>c, <3>1, <4>1, FromConfig
      <4>3. b \notin Sources(config[b].answer)
        BY <3>1 DEF Sources, ConfigOf
      <4>4. config'[b].data = config[b].answer
        BY <1>1, <3>1
      <4>5. Filled'
        BY <1>1, <2>1, <3>2, <4>1, <4>2, <4>3, <4>4 DEF Filled, ListedBasics
      <4> QED BY <1>1, <2>1, <4>1, <4>2, <4>5 DEF FormOK
    <3>3. CASE ~(b = opened /\ config[b].answer # config[b].data)
      <4>1. UNCHANGED <<form, touched>>
        BY <2>3, <3>3 DEF ShowConfig
      <4>2. opened # NoBudget => config'[opened].data = config[opened].data
        BY <1>1, <3>1, <3>3
      <4> QED BY <1>k, <2>1, <4>1, <4>2
    <3> QED BY <3>2, <3>3
  <2>4. \/ UNCHANGED <<form, touched>> /\ config' = [config EXCEPT ![b] =
                                                       Answered(config[b], row[b].balance)]
        \/ config[b].stage = "answered" /\ ShowConfig(b)
        \/ UNCHANGED <<form, touched>> /\ config' = [config EXCEPT ![b] =
                                                       Failed(config[b], b = opened)]
    BY <1>11 DEF LoadConfig
  <2> QED BY <1>q, <2>2, <2>3, <2>4
<1>12. ASSUME NEW b \in Budgets, OthersStore(b) PROVE FormOK
  BY <1>7, <1>12 DEF OthersStore
<1>13. CASE CloseSettings \/ BalanceStored
  BY <1>3, <1>13 DEF CloseSettings, BalanceStored
<1>14. CASE SaveSettings \/ UNCHANGED settingsVars
  BY <1>2, <1>14 DEF SaveSettings, settingsVars, queries
<1>15. FormOK
  BY <1>4, <1>5, <1>6, <1>8, <1>9, <1>10, <1>11, <1>12, <1>13, <1>14 DEF SettingsNext
<1> QED BY <1>15 DEF FormOK

LEMMA SettingsInvStep == SettingsInv /\ [SettingsNext]_settingsVars => SettingsInv'
<1> SUFFICES ASSUME SettingsInv, [SettingsNext]_settingsVars PROVE SettingsInv'
  OBVIOUS
<1>1. HeldInv' /\ SavingType'
  BY HeldStep, SavingStep
<1>2. HeldInv' => (config \in [Budgets -> Query(Balance \cup {NoData})])'
  BY ConfigType, PTL
<1>3. SettingsTypeOK'
  BY <1>1, <1>2, ServerStep, CountersStep, FormStep DEF SettingsTypeOK
<1> QED BY <1>1, <1>3, FormStep DEF SettingsInv

-----------------------------------------------------------------------------
(* Settings: what the dialog shows, and what it sends for the rest         *)

\* Whatever writes a row marks what the window holds of it, or has it asked again.
SettingsFresh ==
    Fresh(list, Listed) /\ \A b \in Budgets : Fresh(config[b], row[b].balance)

LEMMA SettingsFreshInit == SettingsInit => SettingsFresh
BY SettledFresh DEF SettingsInit, SettingsFresh

\* The operators of QueryCache, on the queries of the dialog.
LEMMA FreshSettings ==
    ASSUME SettingsInv, NEW d
    PROVE  /\ Fresh(Overtaken(list), d) /\ Fresh(Invalidated(list, TRUE), d)
           /\ Fresh(Failed(list, TRUE), d) /\ Fresh(Answered(list, d), d)
           /\ Fresh(list, d) => Fresh(Observed(list), d)
           /\ Fresh(list, d) /\ list.stage = "answered" => Fresh(Arrived(list), d)
           /\ \A b \in Budgets :
                /\ Fresh(Overtaken(config[b]), d) /\ Fresh(Answered(config[b], d), d)
                /\ Fresh(Invalidated(config[b], b = opened), d)
                /\ Fresh(Failed(config[b], b = opened), d)
                /\ Fresh(config[b], d) => Fresh(Observed(config[b]), d)
                /\ Fresh(config[b], d) /\ config[b].stage = "answered"
                     => Fresh(Arrived(config[b]), d)
<1>1. /\ list \in Query(Listing \cup {NoData}) /\ TRUE \in BOOLEAN
      /\ \A b \in Budgets : /\ config[b] \in Query(ConfigOf(b) \cup {NoData})
                            /\ (b = opened) \in BOOLEAN
  BY DEF SettingsInv, HeldInv, Held
<1>2. /\ Fresh(Overtaken(list), d) /\ Fresh(Invalidated(list, TRUE), d)
      /\ Fresh(Failed(list, TRUE), d) /\ Fresh(Answered(list, d), d)
      /\ Fresh(list, d) => Fresh(Observed(list), d)
      /\ Fresh(list, d) /\ list.stage = "answered" => Fresh(Arrived(list), d)
  BY <1>1, QueryFresh
<1>3. ASSUME NEW b \in Budgets
      PROVE  /\ Fresh(Overtaken(config[b]), d) /\ Fresh(Answered(config[b], d), d)
             /\ Fresh(Invalidated(config[b], b = opened), d)
             /\ Fresh(Failed(config[b], b = opened), d)
             /\ Fresh(config[b], d) => Fresh(Observed(config[b]), d)
             /\ Fresh(config[b], d) /\ config[b].stage = "answered"
                  => Fresh(Arrived(config[b]), d)
  BY <1>1, <1>3, QueryFresh
<1> QED BY <1>2, <1>3

LEMMA SettingsFreshStep ==
    SettingsInv /\ SettingsFresh /\ [SettingsNext]_settingsVars => SettingsFresh'
<1> SUFFICES ASSUME SettingsInv, SettingsFresh, [SettingsNext]_settingsVars
             PROVE  SettingsFresh'
  OBVIOUS
<1>1. /\ config = [b \in Budgets |-> config[b]]
      /\ Fresh(list, Listed) /\ \A b \in Budgets : Fresh(config[b], row[b].balance)
      /\ row = [b \in Budgets |-> row[b]]
  BY DEF SettingsInv, HeldInv, SettingsFresh, SettingsTypeOK, Rows
<1>s. ASSUME UNCHANGED settingsServer
      PROVE  Listed' = Listed /\ \A b \in Budgets : row'[b].balance = row[b].balance
  BY <1>s DEF settingsServer, Listed
<1>u. ASSUME NEW b \in Budgets, Unnoticed(b),
             \A c \in Budgets : c # b => row'[c].balance = row[c].balance
      PROVE  SettingsFresh'
  <2>1. list' = Overtaken(list) /\ config' = [config EXCEPT ![b] = Overtaken(config[b])]
    BY <1>u DEF Unnoticed
  <2>2. Fresh(list', Listed')
    BY <2>1, FreshSettings
  <2>3. Fresh(Overtaken(config[b]), row'[b].balance)
    BY FreshSettings
  <2>4. \A c \in Budgets : config'[c] = IF c = b THEN Overtaken(config[b]) ELSE config[c]
    BY <1>1, <2>1
  <2> QED BY <1>1, <1>u, <2>2, <2>3, <2>4 DEF SettingsFresh
<1>c. ASSUME NEW b \in Budgets, NEW q, config' = [config EXCEPT ![b] = q],
             Fresh(q, row[b].balance), UNCHANGED <<settingsServer, list>>
      PROVE  SettingsFresh'
  <2>1. \A c \in Budgets : config'[c] = IF c = b THEN q ELSE config[c]
    BY <1>1, <1>c
  <2> QED BY <1>1, <1>c, <1>s, <2>1 DEF SettingsFresh
<1>2. CASE UNCHANGED <<settingsServer, queries>>
  BY <1>1, <1>2, <1>s DEF queries, SettingsFresh
<1>3. CASE FocusDashboard
  <2>1. /\ list' = Observed(list) /\ UNCHANGED settingsServer
        /\ \A b \in Budgets : config'[b] = Observed(config[b]) \/ config'[b] = config[b]
    BY <1>3 DEF FocusDashboard
  <2>2. Fresh(Observed(list), Listed)
    BY <1>1, FreshSettings
  <2>3. \A b \in Budgets : Fresh(Observed(config[b]), row[b].balance)
    BY <1>1, FreshSettings
  <2> QED BY <1>1, <1>s, <2>1, <2>2, <2>3 DEF SettingsFresh
<1>4. CASE RunPayroll \/ BasicsStored
  <2>1. list' = Invalidated(list, TRUE) \/ list' = Overtaken(list)
    BY <1>4 DEF RunPayroll, BasicsStored
  <2>2. Fresh(list', Listed')
    BY <2>1, FreshSettings
  <2>3. UNCHANGED config /\ \A b \in Budgets : row'[b].balance = row[b].balance
    BY <1>4, StoredType DEF RunPayroll, BasicsStored, Pending, SettingsInv
  <2> QED BY <1>1, <2>2, <2>3 DEF SettingsFresh
<1>5. CASE BalanceStored
  <2> DEFINE b == saving.budget
             q == Invalidated(config[b], b = opened)
  <2>1. b \in Budgets /\ \A c \in Budgets : c # b => row'[c].balance = row[c].balance
    BY <1>5, StoredType DEF BalanceStored, Pending, SettingsInv
  <2>2. list' = Invalidated(list, TRUE) /\ config' = [config EXCEPT ![b] = q]
    BY <1>5 DEF BalanceStored
  <2>3. Fresh(q, row'[b].balance)
    BY <2>1, FreshSettings
  <2> HIDE DEF q
  <2>4. \A c \in Budgets : config'[c] = IF c = b THEN q ELSE config[c]
    BY <1>1, <2>1, <2>2
  <2>5. Fresh(list', Listed')
    BY <2>2, FreshSettings
  <2> QED BY <1>1, <2>1, <2>3, <2>4, <2>5 DEF SettingsFresh
<1>6. CASE SaveFails
  <2>1. CASE Stored /\ Unnoticed(saving.budget)
    <3>1. /\ saving.budget \in Budgets
          /\ \A c \in Budgets : c # saving.budget => row'[c].balance = row[c].balance
      BY <1>6, <2>1, StoredType DEF SaveFails, SettingsInv
    <3> QED BY <1>u, <2>1, <3>1
  <2> QED BY <1>2, <1>6, <2>1 DEF SaveFails
<1>7. CASE LoadList
  <2>1. /\ UNCHANGED <<settingsServer, config>>
        /\ \/ list' = Answered(list, Listed)
           \/ list.stage = "answered" /\ list' = Arrived(list)
           \/ list' = Failed(list, TRUE)
    BY <1>7 DEF LoadList, ShowList
  <2>2. Fresh(list', Listed)
    BY <1>1, <2>1, FreshSettings
  <2> QED BY <1>1, <1>s, <2>1, <2>2 DEF SettingsFresh
<1>8. ASSUME NEW b \in Budgets, OpenSettings(b) PROVE SettingsFresh'
  <2>1. Fresh(Observed(config[b]), row[b].balance)
    BY <1>1, FreshSettings
  <2> QED BY <1>8, <1>c, <2>1 DEF OpenSettings
<1>9. ASSUME NEW b \in Budgets, LoadConfig(b) PROVE SettingsFresh'
  <2>1. /\ UNCHANGED <<settingsServer, list>>
        /\ \/ config' = [config EXCEPT ![b] = Answered(config[b], row[b].balance)]
           \/ /\ config[b].stage = "answered"
              /\ config' = [config EXCEPT ![b] = Arrived(config[b])]
           \/ config' = [config EXCEPT ![b] = Failed(config[b], b = opened)]
    BY <1>9 DEF LoadConfig, ShowConfig
  <2>2. /\ Fresh(Answered(config[b], row[b].balance), row[b].balance)
        /\ config[b].stage = "answered" => Fresh(Arrived(config[b]), row[b].balance)
        /\ Fresh(Failed(config[b], b = opened), row[b].balance)
    BY <1>1, FreshSettings
  <2> QED BY <1>c, <2>1, <2>2
<1>10. ASSUME NEW b \in Budgets, OthersStore(b) PROVE SettingsFresh'
  <2>1. \A c \in Budgets : c # b => row'[c].balance = row[c].balance
    BY <1>1, <1>10 DEF OthersStore
  <2> QED BY <1>10, <1>u, <2>1 DEF OthersStore
<1>11. CASE CloseSettings \/ EditForm \/ SaveSettings \/ UNCHANGED settingsVars
  BY <1>2, <1>11 DEF CloseSettings, EditForm, SaveSettings, settingsVars
<1> QED BY <1>3, <1>4, <1>5, <1>6, <1>7, <1>8, <1>9, <1>10, <1>11 DEF SettingsNext

LEMMA FreshShowsSettings == SettingsInv /\ SettingsFresh => SettingsCurrent
BY DEF SettingsInv, SettingsTypeOK, SettingsFresh, SettingsCurrent, Fresh

\* A save of what is known sends for the rest what the form was filled with.
LEMMA KeepsTheRest ==
    ASSUME SettingsInv, SaveSettings, opened \in Budgets, Known(opened)
    PROVE  /\ "basics" \notin touched => saving'.payload.basics = row[opened].basics
           /\ "balance" \notin touched => saving'.payload.balance = row[opened].balance
<1> DEFINE b == opened
           now == row[b].balance
           weight == [s \in Budgets |-> IF form.on /\ s \in form.picks THEN 1 ELSE 0]
<1>1. opened # NoBudget /\ Filled /\ SaveReady /\ now \in Balance
  BY SettingsAssumption DEF SettingsInv, SaveSettings, SettingsTypeOK, Rows, Row
<1>2. saving'.payload = [basics |-> form.basics, balance |-> [on |-> form.on, weight |-> weight]]
  BY DEF SaveSettings, Payload
<1>3. ASSUME "basics" \notin touched PROVE saving'.payload.basics = row[b].basics
  BY <1>1, <1>2, <1>3 DEF Filled, ListedBasics, SaveReady, Known
<1>4. ASSUME "balance" \notin touched PROVE saving'.payload.balance = now
  <2>1. config[b].data = now /\ now # NoData
    BY <1>1, SettingsAssumption DEF SaveReady, Known
  <2>2. form.on = now.on /\ form.picks = Sources(now)
    BY <1>1, <1>4, <2>1 DEF Filled
  <2>3. /\ now.on \in BOOLEAN /\ now.weight \in [Budgets -> 0..MaxWeight]
        /\ now = [on |-> now.on, weight |-> now.weight]
    BY <1>1 DEF Balance, Weights
  <2>4. /\ \A s \in Sources(now) : now.weight[s] = 1
        /\ now.on \/ Sources(now) = {}
    BY DEF Known, Sources
  <2>5. ASSUME NEW s \in Budgets PROVE weight[s] = now.weight[s]
    <3>1. now.weight[s] \in Nat
      BY <2>3, SettingsAssumption
    <3>2. s \in Sources(now) <=> now.weight[s] > 0
      BY DEF Sources
    <3> QED BY <2>2, <2>4, <3>1, <3>2
  <2>6. weight = now.weight
    BY <2>3, <2>5
  <2> QED BY <1>2, <2>2, <2>3, <2>6
<1> QED BY <1>3, <1>4

-----------------------------------------------------------------------------
(* Entries: the pages                                                      *)

Line == [id: Ids, text: Texts]
Page == [rows: Seq(Line), hasMore: BOOLEAN, nextOffset: Nat, among: SUBSET Ids]

Newer(A, e) == {d \in A : CreatedAt[d] > CreatedAt[e]}
NotOlder(A, e) == {d \in A : CreatedAt[d] >= CreatedAt[e]}

\* The server answered p to a request with this offset.
PageAt(p, offset) ==
    /\ p \in Page
    /\ p.nextOffset = offset + Len(p.rows)
    /\ p.hasMore => Len(p.rows) > 0
    /\ ~p.hasMore => p.nextOffset >= Cardinality(p.among)
    /\ \A i \in DOMAIN p.rows :
          LET e == p.rows[i].id
          IN  /\ e \in p.among
              /\ offset + i > Cardinality(Newer(p.among, e))
              /\ offset + i <= Cardinality(NotOlder(p.among, e))

\* Every page was asked for where the one before it ends.
NextAt(s) == IF s = << >> THEN 0 ELSE s[Len(s)].nextOffset
OffsetOf(s, i) == IF i = 1 THEN 0 ELSE s[i - 1].nextOffset
Chain(s) == s \in Seq(Page) /\ \A i \in DOMAIN s : PageAt(s[i], OffsetOf(s, i))

\* The pages as they will be shown, if nothing interferes.
Coming == IF fetch.kind = "reload" THEN fetch.got ELSE pages \o fetch.got

FetchInv ==
    /\ fetch \in [kind: {"none", "reload", "more"}, got: Seq(Page), tries: 0..2]
    /\ fetch.kind = "none" => fetch.got = << >>
    /\ fetch.kind = "more" => pages # << >> /\ Len(fetch.got) <= 1
    /\ Chain(pages) /\ Chain(Coming)

EntriesInv == EntriesTypeOK /\ entries \in [DOMAIN entries -> Texts] /\ FetchInv

LEMMA EmptyChain == Chain(<< >>)
BY DEF Chain

LEMMA ChainGrows ==
    ASSUME NEW s, Chain(s), NEW p, PageAt(p, NextAt(s))
    PROVE  Chain(Append(s, p))
<1>1. s \in Seq(Page) /\ p \in Page /\ Len(s) \in Nat /\ DOMAIN s = 1..Len(s)
  BY DEF Chain, PageAt
<1> DEFINE t == Append(s, p)
<1>2. /\ t \in Seq(Page) /\ DOMAIN t = 1..(Len(s) + 1) /\ t[Len(s) + 1] = p
      /\ \A i \in 1..Len(s) : t[i] = s[i]
  BY <1>1
<1> HIDE DEF t
<1>3. OffsetOf(t, Len(s) + 1) = NextAt(s)
  <2>1. CASE s = << >>
    BY <2>1 DEF OffsetOf, NextAt
  <2>2. CASE s # << >>
    <3>1. Len(s) \in 1..Len(s) /\ Len(s) + 1 # 1
      BY <1>1, <2>2
    <3> QED BY <1>1, <1>2, <2>2, <3>1 DEF OffsetOf, NextAt
  <2> QED BY <2>1, <2>2
<1>4. ASSUME NEW i \in 1..Len(s) PROVE PageAt(t[i], OffsetOf(t, i))
  <2>1. OffsetOf(t, i) = OffsetOf(s, i)
    <3>1. i # 1 => i - 1 \in 1..Len(s)
      BY <1>1
    <3> QED BY <1>2, <3>1 DEF OffsetOf
  <2> QED BY <1>1, <1>2, <2>1 DEF Chain
<1>5. \A i \in 1..(Len(s) + 1) : i \in 1..Len(s) \/ i = Len(s) + 1
  BY <1>1
<1>6. Chain(t)
  BY <1>2, <1>3, <1>4, <1>5 DEF Chain
<1> QED BY <1>6 DEF t

LEMMA ChainNextAt == \A s : Chain(s) => NextAt(s) \in Nat
<1> SUFFICES ASSUME NEW s, Chain(s), s # << >> PROVE s[Len(s)].nextOffset \in Nat
  BY DEF NextAt
<1>1. s \in Seq(Page) /\ Len(s) \in 1..Len(s)
  BY DEF Chain
<1>2. s[Len(s)] \in Page
  BY <1>1
<1> QED BY <1>2 DEF Page

-----------------------------------------------------------------------------
(* Entries: what the server answers                                        *)

LEMMA Smaller ==
    ASSUME NEW a \in Int, NEW b \in Int
    PROVE  /\ Min({a, b}) = IF a <= b THEN a ELSE b
           /\ Max({a, b}) = IF a >= b THEN a ELSE b
<1>1. Min({a, b}) = IF a <= b THEN a ELSE b
  <2> DEFINE m == IF a <= b THEN a ELSE b
  <2>1. m \in {a, b} /\ \A y \in {a, b} : m =< y
    OBVIOUS
  <2>2. \A x \in {a, b} : (\A y \in {a, b} : x =< y) => x = m
    OBVIOUS
  <2> HIDE DEF m
  <2>3. Min({a, b}) = m
    BY <2>1, <2>2 DEF Min
  <2> QED BY <2>3 DEF m
<1>2. Max({a, b}) = IF a >= b THEN a ELSE b
  <2> DEFINE m == IF a >= b THEN a ELSE b
  <2>1. m \in {a, b} /\ \A y \in {a, b} : m >= y
    OBVIOUS
  <2>2. \A x \in {a, b} : (\A y \in {a, b} : x >= y) => x = m
    OBVIOUS
  <2> HIDE DEF m
  <2>3. Max({a, b}) = m
    BY <2>1, <2>2 DEF Max
  <2> QED BY <2>3 DEF m
<1> QED BY <1>1, <1>2

LEMMA AnswerIsPage ==
    ASSUME EntriesTypeOK, entries \in [DOMAIN entries -> Texts], NEW offset \in Nat,
           NEW p \in Answers(offset)
    PROVE  /\ PageAt(p, offset) /\ p.among = DOMAIN entries
           /\ \A k \in DOMAIN p.rows : p.rows[k].text = entries[p.rows[k].id]
<1>1. DOMAIN entries \in SUBSET Ids /\ IsFiniteSet(Ids) /\ PageSize \in Nat \ {0}
  BY EntriesAssumption DEF EntriesTypeOK
<1> DEFINE N == Cardinality(DOMAIN entries)
           count == Max({0, Min({PageSize, N - offset})})
<1>2. N \in Nat
  BY <1>1, FS_Subset, FS_CardinalityType
<1> HIDE DEF N
<1>3. /\ count \in Nat /\ count <= PageSize
      /\ count < PageSize => offset + count >= N
  <2> DEFINE rest == N - offset
             least == Min({PageSize, rest})
  <2>1. rest \in Int /\ PageSize \in Int
    BY <1>1, <1>2
  <2> HIDE DEF rest
  <2>2. least = IF PageSize <= rest THEN PageSize ELSE rest
    BY <2>1, Smaller
  <2>3. least \in Int
    BY <2>1, <2>2
  <2> HIDE DEF least
  <2>4. Max({0, least}) = IF 0 >= least THEN 0 ELSE least
    BY <2>3, Smaller
  <2>5. count = Max({0, least})
    BY DEF least, rest
  <2> HIDE DEF count
  <2> QED BY <1>1, <1>2, <2>2, <2>3, <2>4, <2>5 DEF rest
<1>4. PICK r \in [1..count -> DOMAIN entries] :
        /\ \A i \in 1..count : MayBeAt(r[i], offset + i)
        /\ p = [rows |-> [i \in DOMAIN r |-> [id |-> r[i], text |-> entries[r[i]]]],
                hasMore |-> Len(r) = PageSize, nextOffset |-> NextOffset(offset, Len(r)),
                among |-> DOMAIN entries]
  BY DEF Answers, PageRows, N
<1> HIDE DEF count
<1>5. Len(r) = count /\ DOMAIN r = 1..count
  BY <1>3, <1>4
<1> DEFINE rows == [i \in 1..count |-> [id |-> r[i], text |-> entries[r[i]]]]
<1>6. /\ p.rows = rows /\ (p.hasMore <=> count = PageSize) /\ p.nextOffset = offset + count
      /\ p.among = DOMAIN entries
      /\ p = [rows |-> rows, hasMore |-> count = PageSize, nextOffset |-> offset + count,
              among |-> DOMAIN entries]
  <2>1. p = [rows |-> rows, hasMore |-> count = PageSize, nextOffset |-> offset + count,
             among |-> DOMAIN entries]
    BY <1>4, <1>5 DEF NextOffset
  <2> HIDE DEF rows
  <2> QED BY <2>1
<1>7. ASSUME NEW i \in 1..count
      PROVE  /\ r[i] \in DOMAIN entries /\ rows[i] \in Line
             /\ rows[i].id = r[i] /\ rows[i].text = entries[r[i]]
  BY <1>1, <1>4, <1>7 DEF Line
<1>8. rows \in Seq(Line) /\ Len(rows) = count /\ DOMAIN rows = 1..count
  BY <1>3, <1>7
<1> HIDE DEF rows
<1>9. p \in Page
  <2>1. (count = PageSize) \in BOOLEAN /\ offset + count \in Nat
    BY <1>3
  <2> QED BY <1>1, <1>6, <1>8, <2>1 DEF Page
<1>10. ASSUME NEW i \in DOMAIN p.rows
       PROVE  /\ p.rows[i].id \in p.among
              /\ offset + i > Cardinality(Newer(p.among, p.rows[i].id))
              /\ offset + i <= Cardinality(NotOlder(p.among, p.rows[i].id))
  <2>1. i \in 1..count /\ p.rows[i].id = r[i] /\ p.among = DOMAIN entries
    BY <1>6, <1>7, <1>8, <1>10
  <2>2. MayBeAt(r[i], offset + i) /\ r[i] \in DOMAIN entries
    BY <1>4, <2>1
  <2> QED BY <2>1, <2>2 DEF MayBeAt, Newer, NotOlder
<1>11. /\ p.nextOffset = offset + Len(p.rows)
       /\ p.hasMore => Len(p.rows) > 0
  BY <1>1, <1>6, <1>8
<1>12. ~p.hasMore => p.nextOffset >= Cardinality(p.among)
  <2>1. ~p.hasMore => count < PageSize
    BY <1>1, <1>3, <1>6
  <2> QED BY <1>3, <1>6, <2>1 DEF N
<1>13. PageAt(p, offset)
  BY <1>9, <1>10, <1>11, <1>12 DEF PageAt
<1> QED BY <1>6, <1>7, <1>8, <1>13

-----------------------------------------------------------------------------
(* Entries: every step keeps the invariant                                 *)

LEMMA EntriesInvInit == EntriesInit => EntriesInv
<1> SUFFICES ASSUME EntriesInit PROVE EntriesInv
  OBVIOUS
<1>1. /\ used \in SUBSET Ids /\ entries = [e \in used |-> "old"] /\ DOMAIN entries = used
      /\ entries \in [DOMAIN entries -> Texts] /\ Range(entries) \subseteq Texts
  BY DEF EntriesInit, Texts, Range
<1>2. /\ fetch = [kind |-> "none", got |-> << >>, tries |-> 0]
      /\ fetch \in [kind: {"none", "reload", "more"}, got: Seq(Page), tries: 0..2]
      /\ pages = << >> /\ Coming = << >>
  BY DEF EntriesInit, NoFetch, Coming
<1>3. FetchInv
  BY <1>2, EmptyChain DEF FetchInv
<1>4. changing \in [Changes -> [sent: SUBSET Ids, stored: BOOLEAN]]
  BY DEF EntriesInit, NoChange
<1>5. 0 \in 0..MaxEntryClicks /\ 0 \in 0..MaxEntryTrouble /\ 0 \in 0..2
  BY EntriesAssumption
<1> QED BY <1>1, <1>2, <1>3, <1>4, <1>5 DEF EntriesInit, EntriesInv, EntriesTypeOK

LEMMA TableStep ==
    EntriesInv /\ [EntriesNext]_entriesVars
    => used' \in SUBSET Ids /\ DOMAIN entries' \subseteq used'
       /\ entries' \in [DOMAIN entries' -> Texts]
<1> DEFINE TableOK == /\ used' \in SUBSET Ids /\ DOMAIN entries' \subseteq used'
                      /\ entries' \in [DOMAIN entries' -> Texts]
<1> SUFFICES ASSUME EntriesInv, [EntriesNext]_entriesVars PROVE TableOK
  OBVIOUS
<1>1. /\ used \in SUBSET Ids /\ DOMAIN entries \subseteq used
      /\ entries \in [DOMAIN entries -> Texts]
      /\ \A op \in Changes : changing[op].sent \in SUBSET Ids
  BY DEF EntriesInv, EntriesTypeOK
<1>2. CASE UNCHANGED <<entries, used>>
  BY <1>1, <1>2
<1>3. ASSUME NEW e \in Ids, Added(e) PROVE TableOK
  BY <1>1, <1>3 DEF Added, Texts
<1>4. ASSUME NEW S, entries' = Restrict(entries, DOMAIN entries \ S), UNCHANGED used
      PROVE  TableOK
  BY <1>1, <1>4 DEF Restrict
<1>5. ASSUME NEW op \in Changes, StoreChange(op) PROVE TableOK
  <2> DEFINE S == changing[op].sent
  <2>1. S \subseteq DOMAIN entries /\ UNCHANGED used
    BY <1>5 DEF StoreChange
  <2>2. CASE op = "save"
    BY <1>1, <1>5, <2>1, <2>2 DEF StoreChange, Texts
  <2>3. CASE op # "save"
    BY <1>4, <1>5, <2>1, <2>3 DEF StoreChange
  <2> QED BY <2>2, <2>3
<1> HIDE DEF TableOK
<1>6. \/ UNCHANGED <<entries, used>> \/ \E e \in Ids : Added(e)
      \/ \E S : entries' = Restrict(entries, DOMAIN entries \ S) /\ UNCHANGED used
      \/ \E op \in Changes : StoreChange(op)
  BY DEF EntriesNext, ReadPage, PagesArrive, FetchFails, Expand, Collapse, FocusPanel, LoadMore,
         AddEntry, OthersWriteEntry, ChangeAnswered, ChangeFails, SendChange, entriesVars
<1>7. TableOK
  BY <1>2, <1>3, <1>4, <1>5, <1>6
<1> QED BY <1>7 DEF TableOK

LEMMA ChangingStep ==
    EntriesInv /\ [EntriesNext]_entriesVars
    => /\ changing' \in [Changes -> [sent: SUBSET Ids, stored: BOOLEAN]]
       /\ entryClicks' \in 0..MaxEntryClicks /\ entryTrouble' \in 0..MaxEntryTrouble
<1> SUFFICES ASSUME EntriesInv, [EntriesNext]_entriesVars
             PROVE  /\ changing' \in [Changes -> [sent: SUBSET Ids, stored: BOOLEAN]]
                    /\ entryClicks' \in 0..MaxEntryClicks /\ entryTrouble' \in 0..MaxEntryTrouble
  OBVIOUS
<1>1. /\ changing \in [Changes -> [sent: SUBSET Ids, stored: BOOLEAN]]
      /\ entryClicks \in 0..MaxEntryClicks /\ entryTrouble \in 0..MaxEntryTrouble
      /\ MaxEntryClicks \in Nat /\ MaxEntryTrouble \in Nat
  BY EntriesAssumption DEF EntriesInv, EntriesTypeOK
<1>2. /\ EntryClick \/ UNCHANGED entryClicks
      /\ EntryTrouble \/ UNCHANGED entryTrouble
  BY DEF EntriesNext, ReadPage, PagesArrive, FetchFails, Expand, Collapse, FocusPanel, LoadMore,
         AddEntry, OthersWriteEntry, StoreChange, ChangeAnswered, ChangeFails, SendChange,
         entriesVars, entryCounters
<1>3. entryClicks' \in 0..MaxEntryClicks /\ entryTrouble' \in 0..MaxEntryTrouble
  BY <1>1, <1>2 DEF EntryClick, EntryTrouble
<1>4. \/ UNCHANGED changing
      \/ \E op \in Changes :
           \/ changing' = [changing EXCEPT ![op] = NoChange]
           \/ changing' = [changing EXCEPT ![op].stored = TRUE]
           \/ \E e \in Ids : changing' = [changing EXCEPT ![op] = [sent |-> {e}, stored |-> FALSE]]
  BY DEF EntriesNext, ReadPage, PagesArrive, FetchFails, Expand, Collapse, FocusPanel, LoadMore,
         AddEntry, OthersWriteEntry, StoreChange, ChangeAnswered, ChangeFails, SendChange,
         entriesVars
<1>5. \A op \in Changes :
         [changing[op] EXCEPT !.stored = TRUE] \in [sent: SUBSET Ids, stored: BOOLEAN]
  BY <1>1
<1>6. ASSUME NEW op \in Changes, NEW c \in [sent: SUBSET Ids, stored: BOOLEAN],
             changing' = [changing EXCEPT ![op] = c]
      PROVE  changing' \in [Changes -> [sent: SUBSET Ids, stored: BOOLEAN]]
  BY <1>1, <1>6
<1>7. /\ NoChange \in [sent: SUBSET Ids, stored: BOOLEAN]
      /\ \A e \in Ids : [sent |-> {e}, stored |-> FALSE] \in [sent: SUBSET Ids, stored: BOOLEAN]
  BY DEF NoChange
<1>8. changing' \in [Changes -> [sent: SUBSET Ids, stored: BOOLEAN]]
  BY <1>1, <1>4, <1>5, <1>6, <1>7
<1> QED BY <1>3, <1>8

\* The pages shown stay, and the requests under way are given up for others, or for none.
LEMMA FetchAnew ==
    ASSUME FetchInv, UNCHANGED pages, NEW kind \in {"none", "reload", "more"},
           fetch' = [kind |-> kind, got |-> << >>, tries |-> 0], kind = "more" => pages # << >>
    PROVE  FetchInv' /\ Coming' = IF kind = "reload" THEN << >> ELSE pages
<1>1. pages \in Seq(Page) /\ Chain(pages)
  BY DEF FetchInv, Chain
<1>2. /\ fetch'.kind = kind /\ fetch'.got = << >>
      /\ fetch' \in [kind: {"none", "reload", "more"}, got: Seq(Page), tries: 0..2]
  OBVIOUS
<1>3. Coming' = IF kind = "reload" THEN << >> ELSE pages
  BY <1>1, <1>2 DEF Coming
<1>4. Chain(pages)' /\ Chain(Coming)'
  BY <1>1, <1>3, EmptyChain DEF Chain, PageAt, OffsetOf
<1> QED BY <1>2, <1>3, <1>4 DEF FetchInv

LEMMA AtMostOne ==
    ASSUME NEW S, NEW s \in Seq(S), Len(s) <= 1, Len(s) # 1
    PROVE  s = << >>
<1>1. \A n \in Nat : n <= 1 /\ n # 1 => n = 0
  OBVIOUS
<1>2. Len(s) \in Nat
  OBVIOUS
<1> QED BY <1>1, <1>2

\* A page that was read continues the pages to come.
LEMMA PageRead ==
    ASSUME EntriesInv, ReadPage
    PROVE  \E p : /\ PageAt(p, NextAt(Coming)) /\ p \in Answers(NextAt(Coming))
                  /\ Coming' = Append(Coming, p)
                  /\ fetch' = [fetch EXCEPT !.got = Append(fetch.got, p)]
                  /\ fetch.kind = "more" => fetch.got = << >>
<1>1. /\ pages \in Seq(Page) /\ fetch.got \in Seq(Page) /\ fetch.kind \in {"reload", "more"}
      /\ fetch = [kind |-> fetch.kind, got |-> fetch.got, tries |-> fetch.tries]
      /\ fetch.kind = "more" => pages # << >> /\ Len(fetch.got) <= 1
  BY DEF EntriesInv, FetchInv, ReadPage, Chain
<1>2. fetch.kind = "more" => fetch.got = << >>
  <2>1. fetch.kind = "more" => Len(fetch.got) # 1 /\ Len(fetch.got) <= 1
    BY <1>1 DEF ReadPage, Fetched
  <2> QED BY <1>1, <2>1, AtMostOne
<1>3. Offset = NextAt(Coming)
  <2>1. \A s : Last(s) = s[Len(s)]
    BY DEF Last
  <2>2. CASE fetch.kind = "more"
    <3>1. Coming = pages
      BY <1>1, <1>2, <2>2 DEF Coming
    <3> QED BY <1>1, <2>1, <2>2, <3>1 DEF Offset, NextAt
  <2>3. CASE fetch.kind = "reload"
    BY <2>1, <2>3 DEF Offset, NextAt, Coming
  <2> QED BY <1>1, <2>2, <2>3
<1>4. NextAt(Coming) \in Nat
  BY ChainNextAt DEF EntriesInv, FetchInv
<1>5. PICK p \in Answers(NextAt(Coming)) : fetch' = [fetch EXCEPT !.got = Append(fetch.got, p)]
  BY <1>3 DEF ReadPage
<1>6. PageAt(p, NextAt(Coming)) /\ p \in Page
  BY <1>4, AnswerIsPage DEF EntriesInv, PageAt
<1>7. Coming' = Append(Coming, p)
  <2>1. fetch'.kind = fetch.kind /\ fetch'.got = Append(fetch.got, p) /\ pages' = pages
    BY <1>1, <1>5 DEF ReadPage
  <2>2. pages \o Append(<< >>, p) = Append(pages, p) /\ pages \o << >> = pages
    BY <1>1, <1>6
  <2> QED BY <1>1, <1>2, <2>1, <2>2 DEF Coming
<1> QED BY <1>2, <1>5, <1>6, <1>7

LEMMA FetchStep ==
    EntriesInv /\ [EntriesNext]_entriesVars
    => FetchInv' /\ expanded' \in BOOLEAN /\ outdated' \in BOOLEAN
<1> SUFFICES ASSUME EntriesInv, [EntriesNext]_entriesVars
             PROVE  FetchInv' /\ expanded' \in BOOLEAN /\ outdated' \in BOOLEAN
  OBVIOUS
<1> USE DEF panel
<1>1. /\ FetchInv /\ expanded \in BOOLEAN /\ outdated \in BOOLEAN
      /\ fetch \in [kind: {"none", "reload", "more"}, got: Seq(Page), tries: 0..2]
  BY DEF EntriesInv, EntriesTypeOK, FetchInv
<1>2. expanded' \in BOOLEAN /\ outdated' \in BOOLEAN
  BY <1>1 DEF EntriesNext, ReadPage, PagesArrive, FetchFails, Expand, Collapse, FocusPanel,
              LoadMore, AddEntry, OthersWriteEntry, StoreChange, ChangeAnswered, ChangeFails,
              SendChange, entriesVars, JoinOrReload, Reload, Miss, InvalidatePages
<1>3. CASE UNCHANGED <<pages, fetch>>
  <2>1. Coming' = Coming
    BY <1>3 DEF Coming
  <2>2. Chain(pages)' /\ Chain(Coming)'
    BY <1>1, <1>3, <2>1 DEF FetchInv, Chain, PageAt, OffsetOf
  <2> QED BY <1>1, <1>2, <1>3, <2>2 DEF FetchInv
<1>4. CASE UNCHANGED pages /\ Reload
  BY <1>1, <1>2, <1>4, FetchAnew DEF Reload
<1>5. CASE UNCHANGED pages /\ fetch' = NoFetch
  BY <1>1, <1>2, <1>5, FetchAnew DEF NoFetch
<1>6. CASE LoadMore
  BY <1>1, <1>2, <1>6, FetchAnew DEF LoadMore
<1>7. CASE ReadPage
  <2>1. PICK p : /\ PageAt(p, NextAt(Coming)) /\ Coming' = Append(Coming, p)
                 /\ fetch' = [fetch EXCEPT !.got = Append(fetch.got, p)]
                 /\ fetch.kind = "more" => fetch.got = << >>
    BY <1>7, PageRead
  <2>2. Chain(pages)' /\ Chain(Coming)'
    <3>1. Chain(Append(Coming, p)) /\ Chain(pages)
      BY <1>1, <2>1, ChainGrows DEF FetchInv
    <3> QED BY <1>7, <2>1, <3>1 DEF ReadPage, Chain, PageAt, OffsetOf
  <2>3. p \in Page /\ fetch.got \in Seq(Page) /\ fetch.kind # "none"
    BY <1>1, <1>7, <2>1 DEF PageAt, ReadPage
  <2>4. fetch' = [kind |-> fetch.kind, got |-> Append(fetch.got, p), tries |-> fetch.tries]
    BY <1>1, <2>1
  <2>5. /\ fetch' \in [kind: {"none", "reload", "more"}, got: Seq(Page), tries: 0..2]
        /\ fetch'.kind = fetch.kind /\ fetch'.got = Append(fetch.got, p)
    BY <1>1, <2>3, <2>4
  <2>6. fetch.kind = "more" => pages' # << >> /\ Len(fetch'.got) <= 1
    <3>1. fetch.kind = "more" => Len(Append(fetch.got, p)) = 1
      BY <2>1, <2>3
    <3> QED BY <1>1, <1>7, <2>5, <3>1 DEF ReadPage, FetchInv
  <2> QED BY <1>2, <2>2, <2>3, <2>5, <2>6 DEF FetchInv
<1>8. CASE PagesArrive
  <2>1. pages' = Coming /\ fetch' = [kind |-> "none", got |-> << >>, tries |-> 0]
    BY <1>8 DEF PagesArrive, Fetched, Coming, NoFetch
  <2>2. Chain(pages') /\ pages' \in Seq(Page)
    BY <1>1, <2>1 DEF FetchInv, Chain
  <2>3. Coming' = pages'
    BY <2>1, <2>2 DEF Coming
  <2>4. /\ fetch' \in [kind: {"none", "reload", "more"}, got: Seq(Page), tries: 0..2]
        /\ fetch'.kind = "none" /\ fetch'.got = << >>
    BY <2>1
  <2> QED BY <1>2, <2>2, <2>3, <2>4 DEF FetchInv, Chain, PageAt, OffsetOf
<1>9. CASE FetchFails
  <2>1. CASE fetch' = [fetch EXCEPT !.tries = @ + 1] /\ fetch.tries < 2
    <3>1. /\ fetch' \in [kind: {"none", "reload", "more"}, got: Seq(Page), tries: 0..2]
          /\ fetch'.kind = fetch.kind /\ fetch'.got = fetch.got /\ pages' = pages
      BY <1>1, <1>9, <2>1 DEF FetchFails
    <3>2. Coming' = Coming
      BY <3>1 DEF Coming
    <3> QED BY <1>1, <1>2, <3>1, <3>2 DEF FetchInv, Chain, PageAt, OffsetOf
  <2>2. CASE fetch' = NoFetch
    BY <1>2, <1>5, <1>9, <2>2 DEF FetchFails
  <2> QED BY <1>9, <2>1, <2>2 DEF FetchFails
<1>10. \/ UNCHANGED <<pages, fetch>> \/ (UNCHANGED pages /\ Reload) \/ LoadMore \/ ReadPage
       \/ PagesArrive \/ FetchFails
  BY DEF EntriesNext, Expand, Collapse, FocusPanel, AddEntry, OthersWriteEntry, StoreChange,
         ChangeAnswered, ChangeFails, SendChange, entriesVars, JoinOrReload, Miss, InvalidatePages
<1> QED BY <1>2, <1>3, <1>4, <1>6, <1>7, <1>8, <1>9, <1>10

LEMMA EntriesInvStep == EntriesInv /\ [EntriesNext]_entriesVars => EntriesInv'
<1> SUFFICES ASSUME EntriesInv, [EntriesNext]_entriesVars PROVE EntriesInv'
  OBVIOUS
<1>1. FetchInv' /\ (entries \in [DOMAIN entries -> Texts])'
  BY FetchStep, TableStep
<1>2. Range(entries') \subseteq Texts
  BY <1>1 DEF Range
<1>3. fetch'.kind \in {"none", "reload", "more"} /\ fetch'.tries \in 0..2
  BY <1>1 DEF FetchInv
<1> QED BY <1>1, <1>2, <1>3, FetchStep, TableStep, ChangingStep DEF EntriesInv, EntriesTypeOK

-----------------------------------------------------------------------------
(* Entries: what the panel shows                                           *)

Seen(s) ==
    \A i \in DOMAIN s :
        /\ s[i].among = DOMAIN entries
        /\ \A k \in DOMAIN s[i].rows : s[i].rows[k].text = entries[s[i].rows[k].id]

\* Between a write and its answer the pages may be behind; after the answer they are
\* read anew, or known to be outdated.
EntriesFresh ==
    (\A op \in Changes : ~changing[op].stored) /\ ~outdated => Seen(Coming)

LEMMA EntriesFreshInit == EntriesInit => EntriesFresh
<1> SUFFICES ASSUME EntriesInit PROVE Seen(Coming)
  BY DEF EntriesFresh
<1>1. Coming = << >>
  BY DEF EntriesInit, NoFetch, Coming
<1> QED BY <1>1 DEF Seen

LEMMA EntriesFreshStep ==
    EntriesInv /\ EntriesFresh /\ [EntriesNext]_entriesVars => EntriesFresh'
<1> SUFFICES ASSUME EntriesInv, EntriesFresh, [EntriesNext]_entriesVars,
                    \A op \in Changes : ~changing'[op].stored, ~outdated'
             PROVE  Seen(Coming)'
  BY DEF EntriesFresh
<1> USE DEF panel
<1>1. /\ FetchInv /\ pages \in Seq(Page) /\ fetch.got \in Seq(Page)
      /\ changing \in [Changes -> [sent: SUBSET Ids, stored: BOOLEAN]]
      /\ fetch = [kind |-> fetch.kind, got |-> fetch.got, tries |-> fetch.tries]
  BY DEF EntriesInv, FetchInv, EntriesTypeOK, Chain
<1>n. Seen(<< >>)'
  BY DEF Seen
<1>s. ASSUME UNCHANGED <<entries, outdated>>,
             UNCHANGED changing \/ \E op \in Changes, e \in Ids : SendChange(op, e),
             Coming' = Coming
      PROVE  Seen(Coming)'
  <2>1. ASSUME NEW op \in Changes PROVE ~changing[op].stored
    <3>1. CASE UNCHANGED changing
      BY <3>1
    <3>2. ASSUME NEW p \in Changes, NEW e \in Ids, SendChange(p, e)
          PROVE  ~changing[op].stored
      <4>1. p # op => changing'[op] = changing[op]
        BY <3>2, <1>1 DEF SendChange
      <4>2. p = op => ~changing[op].stored
        BY <3>2 DEF SendChange, NoChange
      <4> QED BY <4>1, <4>2
    <3> QED BY <1>s, <3>1, <3>2
  <2>2. Seen(Coming)
    BY <1>s, <2>1 DEF EntriesFresh
  <2> QED BY <1>s, <2>2 DEF Seen
<1>r. ASSUME UNCHANGED pages, Reload PROVE Seen(Coming)'
  <2>1. Coming' = << >>
    BY <1>1, <1>r, FetchAnew DEF Reload
  <2> QED BY <1>n, <2>1
<1>m. ASSUME UNCHANGED pages, Miss PROVE Seen(Coming)'
  <2>1. Coming' = << >>
    BY <1>m DEF Miss, Coming
  <2> QED BY <1>n, <2>1
<1>2. CASE ReadPage
  <2>1. PICK p : /\ p \in Answers(NextAt(Coming)) /\ PageAt(p, NextAt(Coming))
                 /\ Coming' = Append(Coming, p)
    BY <1>2, PageRead
  <2>2. UNCHANGED <<entries, outdated, changing>>
    BY <1>2 DEF ReadPage
  <2>3. Seen(Coming) /\ Coming \in Seq(Page) /\ p \in Page
    BY <1>1, <2>1, <2>2 DEF EntriesFresh, FetchInv, Chain, PageAt
  <2>4. /\ p.among = DOMAIN entries
        /\ \A k \in DOMAIN p.rows : p.rows[k].text = entries[p.rows[k].id]
    BY <2>1, AnswerIsPage, ChainNextAt DEF EntriesInv, FetchInv
  <2>5. Seen(Append(Coming, p))
    <3> DEFINE t == Append(Coming, p)
    <3>1. \A i \in DOMAIN t : (i \in DOMAIN Coming /\ t[i] = Coming[i]) \/ t[i] = p
      BY <2>3
    <3> HIDE DEF t
    <3>2. Seen(t)
      BY <2>3, <2>4, <3>1 DEF Seen
    <3> QED BY <3>2 DEF t
  <2> QED BY <2>1, <2>2, <2>5 DEF Seen
<1>3. CASE PagesArrive
  <2>1. pages' = Coming /\ fetch' = NoFetch
    BY <1>3 DEF PagesArrive, Fetched, Coming
  <2>2. Coming' = Coming
    BY <1>1, <2>1 DEF Coming, NoFetch, FetchInv, Chain
  <2> QED BY <1>3, <1>s, <2>2 DEF PagesArrive
<1>4. CASE FetchFails
  <2>1. fetch' = [fetch EXCEPT !.tries = @ + 1] /\ UNCHANGED <<entries, outdated, changing, pages>>
    BY <1>4 DEF FetchFails
  <2>2. Coming' = Coming
    BY <1>1, <2>1 DEF Coming
  <2> QED BY <1>s, <2>1, <2>2
<1>5. CASE LoadMore
  <2>1. Coming' = pages /\ fetch.kind # "reload" /\ UNCHANGED <<entries, outdated, changing>>
    <3>1. fetch.kind # "reload" /\ UNCHANGED <<entries, outdated, changing>>
      BY <1>5 DEF LoadMore, EntriesInv, EntriesTypeOK
    <3>2. Coming' = pages
      BY <1>1, <1>5, FetchAnew DEF LoadMore
    <3> QED BY <3>1, <3>2
  <2>2. Coming = pages
    <3>1. fetch.kind = "none"
      BY <1>1, <1>5, <2>1 DEF LoadMore, FetchInv
    <3> QED BY <1>1, <3>1 DEF Coming, FetchInv
  <2> QED BY <1>s, <2>1, <2>2
<1>6. CASE Expand \/ FocusPanel
  <2>1. CASE Reload
    BY <1>6, <1>r, <2>1 DEF Expand, FocusPanel
  <2>2. CASE UNCHANGED <<fetch, outdated>>
    BY <1>6, <1>s, <2>2 DEF Expand, FocusPanel, Coming
  <2> QED BY <1>6, <2>1, <2>2 DEF Expand, FocusPanel, JoinOrReload
<1>7. CASE Collapse \/ (\E op \in Changes, e \in Ids : SendChange(op, e))
           \/ UNCHANGED entriesVars
  BY <1>7, <1>s DEF Collapse, SendChange, Coming, entriesVars
<1>8. CASE AddEntry \/ OthersWriteEntry
           \/ (\E op \in Changes : ChangeAnswered(op) \/ ChangeFails(op))
  BY <1>8, <1>r, <1>m DEF AddEntry, OthersWriteEntry, ChangeAnswered, ChangeFails,
                          InvalidatePages
<1>9. ASSUME NEW op \in Changes, StoreChange(op) PROVE FALSE
  BY <1>1, <1>9 DEF StoreChange
<1> QED BY <1>2, <1>3, <1>4, <1>5, <1>6, <1>7, <1>8, <1>9 DEF EntriesNext

-----------------------------------------------------------------------------
(* Entries: the rows of all pages, one after the other                     *)

\* The table of the fold over the pages, as IsTable in SumLemmas.
RowsEntry(s, g, U) == IF U = {} THEN << >> ELSE g[ButLast(U)] \o s[Max(U)].rows
IsRowsTable(s, g, S) == g = [U \in SUBSET S |-> RowsEntry(s, g, U)]

LEMMA RowsTableExists ==
    ASSUME NEW s \in Seq(Page) PROVE \E g : IsRowsTable(s, g, 1..Len(s))
<1> DEFINE n == Len(s)
           step == [c \in Seq(Line) \X (1..n) |-> c[1] \o s[c[2]].rows]
<1>1. n \in Nat /\ \A i \in 1..n : s[i].rows \in Seq(Line)
  <2>1. n \in Nat /\ \A i \in 1..n : s[i] \in Page
    OBVIOUS
  <2> QED BY <2>1 DEF Page
<1>2. step \in [Seq(Line) \X (1..n) -> Seq(Line)]
  BY <1>1
<1> HIDE DEF n
<1>3. << >> \in Seq(Line)
  OBVIOUS
<1>4. \A r \in Seq(Line) : \A i \in 1..n : step[<<r, i>>] = r \o s[i].rows
  OBVIOUS
<1> HIDE DEF step
<1>5. PICK g : IsStepTable(Seq(Line), << >>, step, g, 1..n)
  BY <1>1, <1>2, <1>3, StepTableExists
<1>6. ASSUME NEW U \in SUBSET (1..n) PROVE g[U] = RowsEntry(s, g, U)
  <2>1. g[U] = StepEntry(<< >>, step, g, U)
    BY <1>5 DEF IsStepTable
  <2>2. U # {} => Max(U) \in 1..n /\ ButLast(U) \in SUBSET (1..n)
    BY <1>1, MaxTaken DEF ButLast
  <2>3. U # {} => g[ButLast(U)] \in Seq(Line)
    BY <1>5, <2>2 DEF IsStepTable
  <2> QED BY <1>4, <2>1, <2>2, <2>3 DEF StepEntry, RowsEntry
<1> QED BY <1>5, <1>6 DEF IsStepTable, IsRowsTable, n

\* The rows of the first k pages.
LEMMA RowsOfPrefixes ==
    ASSUME pages \in Seq(Page)
    PROVE  \E g : /\ g[{}] = << >> /\ ShownRows = g[1..Len(pages)]
                  /\ \A k \in 1..Len(pages) : g[1..k] = g[1..(k - 1)] \o pages[k].rows
<1> DEFINE n == Len(pages)
<1>1. n \in Nat /\ DOMAIN pages = 1..n
  OBVIOUS
<1>2. ShownRows = (CHOOSE g : IsRowsTable(pages, g, 1..n))[1..n]
  BY <1>1 DEF ShownRows, FoldLeft, MapThenFoldSet, IsRowsTable, RowsEntry, ButLast
<1>3. PICK g : IsRowsTable(pages, g, 1..n) /\ ShownRows = g[1..n]
  <2> HIDE DEF n
  <2>1. \E g : IsRowsTable(pages, g, 1..n)
    BY RowsTableExists DEF n
  <2> QED BY <1>2, <2>1
<1> HIDE DEF n
<1>4. g[{}] = << >>
  BY <1>3 DEF IsRowsTable, RowsEntry
<1>5. ASSUME NEW k \in 1..n PROVE g[1..k] = g[1..(k - 1)] \o pages[k].rows
  <2>1. /\ 1..k \in SUBSET (1..n) /\ 1..k # {}
        /\ Max(1..k) = k /\ ButLast(1..k) = 1..(k - 1)
    BY <1>1, PrefixSets
  <2> QED BY <1>3, <2>1 DEF IsRowsTable, RowsEntry
<1> QED BY <1>3, <1>4, <1>5 DEF n

\* A row shown is a row of a page, and stands where the offset of the page says.
RowAt(k, i, a) ==
    /\ i \in DOMAIN pages /\ a \in DOMAIN pages[i].rows
    /\ k = OffsetOf(pages, i) + a /\ k <= pages[i].nextOffset

LEMMA RowsOfChain ==
    ASSUME Chain(pages)
    PROVE  /\ ShownRows \in Seq(Line) /\ Len(ShownRows) = NextAt(pages)
           /\ \A k \in 1..Len(ShownRows) : \A i, a :
                 RowAt(k, i, a) => ShownRows[k] = pages[i].rows[a]
           /\ \A k \in 1..Len(ShownRows) : \E i, a : RowAt(k, i, a)
           /\ \A i \in DOMAIN pages : \A a : a \in DOMAIN pages[i].rows
                => RowAt(OffsetOf(pages, i) + a, i, a)
                   /\ OffsetOf(pages, i) + a \in 1..Len(ShownRows)
<1> DEFINE n == Len(pages)
           end(k) == OffsetOf(pages, k + 1)
<1>1. /\ pages \in Seq(Page) /\ n \in Nat /\ DOMAIN pages = 1..n
      /\ \A i \in 1..n : PageAt(pages[i], OffsetOf(pages, i))
  BY DEF Chain
<1>2. ASSUME NEW i \in 1..n
      PROVE  /\ pages[i].rows \in Seq(Line) /\ end(i) = pages[i].nextOffset
             /\ end(i) = OffsetOf(pages, i) + Len(pages[i].rows)
             /\ pages[i].nextOffset \in Nat /\ Len(pages[i].rows) \in Nat
             /\ DOMAIN pages[i].rows = 1..Len(pages[i].rows)
  <2>1. PageAt(pages[i], OffsetOf(pages, i)) /\ pages[i] \in Page
    BY <1>1 DEF PageAt
  <2>2. end(i) = pages[i].nextOffset
    BY <1>1 DEF OffsetOf
  <2> QED BY <2>1, <2>2 DEF PageAt, Page
<1>3. end(0) = 0 /\ \A k \in 0..n : end(k) \in Nat
  <2>1. end(0) = 0
    BY DEF OffsetOf
  <2> HIDE DEF end
  <2>2. \A k \in 0..n : k = 0 \/ k \in 1..n
    BY <1>1
  <2> QED BY <1>2, <2>1, <2>2
<1>4. ASSUME NEW i \in 1..n PROVE OffsetOf(pages, i) = end(i - 1) /\ i - 1 \in 0..n
  BY <1>1
<1> HIDE DEF end
<1>5. PICK g : /\ g[{}] = << >> /\ ShownRows = g[1..n]
               /\ \A k \in 1..n : g[1..k] = g[1..(k - 1)] \o pages[k].rows
  BY <1>1, RowsOfPrefixes
<1> HIDE DEF n
<1> DEFINE First(k) == g[1..k]
           Good == {k \in 0..n :
                      /\ First(k) \in Seq(Line) /\ Len(First(k)) = end(k)
                      /\ \A i \in 1..k : end(i) <= end(k)
                      /\ \A i \in 1..k, a \in Nat \ {0} : a <= Len(pages[i].rows)
                           => First(k)[end(i - 1) + a] = pages[i].rows[a]
                      /\ \A m \in 1..end(k) : \E i \in 1..k, a \in Nat \ {0} :
                           a <= Len(pages[i].rows) /\ m = end(i - 1) + a}
<1>6. 0 \in Good
  <2>1. 1..0 = {}
    OBVIOUS
  <2>2. First(0) = << >>
    BY <1>5, <2>1
  <2> HIDE DEF First
  <2>3. First(0) \in Seq(Line) /\ Len(First(0)) = end(0)
    <3>1. << >> \in Seq(Line) /\ Len(<< >>) = 0
      OBVIOUS
    <3> QED BY <1>3, <2>2, <3>1
  <2>4. 0 \in 0..n /\ 1..end(0) = {}
    BY <1>1, <1>3
  <2> QED BY <2>1, <2>3, <2>4
<1>7. ASSUME NEW k \in 0..(n - 1), k \in Good PROVE k + 1 \in Good
  <2> DEFINE r == pages[k + 1].rows
             F == First(k)
             G == First(k + 1)
  <2>1. k + 1 \in 1..n /\ (k + 1) - 1 = k /\ k \in 0..n /\ k \in Nat
    BY <1>1
  <2>2. /\ r \in Seq(Line) /\ end(k + 1) = end(k) + Len(r) /\ Len(r) \in Nat
        /\ end(k) \in Nat /\ end(k + 1) \in Nat
    BY <1>2, <1>3, <1>4, <2>1
  <2>3. G = F \o r
    BY <1>5, <2>1
  <2>4. /\ F \in Seq(Line) /\ Len(F) = end(k) /\ \A i \in 1..k : end(i) <= end(k)
        /\ \A i \in 1..k, a \in Nat \ {0} : a <= Len(pages[i].rows)
              => F[end(i - 1) + a] = pages[i].rows[a]
        /\ \A m \in 1..end(k) : \E i \in 1..k, a \in Nat \ {0} :
              a <= Len(pages[i].rows) /\ m = end(i - 1) + a
    BY <1>7
  <2> HIDE DEF First
  <2>5. ASSUME NEW i \in 1..k
        PROVE  /\ i \in 1..n /\ i - 1 \in 0..n /\ end(i - 1) \in Nat /\ end(i) <= end(k)
               /\ end(i) = end(i - 1) + Len(pages[i].rows) /\ Len(pages[i].rows) \in Nat
    <3>1. i \in 1..n
      BY <1>1, <2>1
    <3> QED BY <1>2, <1>3, <1>4, <2>4, <3>1
  <2>6. \A i \in 1..(k + 1) : i \in 1..k \/ i = k + 1
    BY <2>1
  <2> HIDE DEF F, G, r
  <2>7. /\ G \in Seq(Line) /\ Len(G) = end(k + 1)
        /\ \A m \in 1..end(k) : G[m] = F[m]
        /\ \A a \in 1..Len(r) : G[end(k) + a] = r[a]
    <3>0. F \in Seq(Line) /\ r \in Seq(Line)
      BY <2>2, <2>4
    <3>1. G \in Seq(Line) /\ Len(G) = Len(F) + Len(r)
      BY <2>3, <3>0
    <3>2. \A m \in 1..(Len(F) + Len(r)) :
             G[m] = IF m <= Len(F) THEN F[m] ELSE r[m - Len(F)]
      BY <2>3, <3>0
    <3>3. ASSUME NEW m \in 1..end(k) PROVE G[m] = F[m]
      <4>1. m \in 1..(Len(F) + Len(r)) /\ m <= Len(F)
        BY <2>2, <2>4
      <4> QED BY <3>2, <4>1
    <3>4. ASSUME NEW a \in 1..Len(r) PROVE G[end(k) + a] = r[a]
      <4>1. /\ end(k) + a \in 1..(Len(F) + Len(r)) /\ ~(end(k) + a <= Len(F))
            /\ (end(k) + a) - Len(F) = a
        BY <2>2, <2>4
      <4> QED BY <3>2, <4>1
    <3> QED BY <2>2, <2>4, <3>1, <3>3, <3>4
  <2>8. \A i \in 1..(k + 1) : end(i) <= end(k + 1)
    <3>1. \A i \in 1..k : end(i) <= end(k + 1)
      <4> SUFFICES ASSUME NEW i \in 1..k PROVE end(i) <= end(k + 1)
        OBVIOUS
      <4>1. end(i) \in Nat
        BY <1>3, <2>5
      <4> QED BY <2>2, <2>5, <4>1
    <3> QED BY <2>2, <2>6, <3>1
  <2>9. ASSUME NEW i \in 1..(k + 1), NEW a \in Nat \ {0}, a <= Len(pages[i].rows)
        PROVE  G[end(i - 1) + a] = pages[i].rows[a]
    <3>1. CASE i = k + 1
      <4>1. i - 1 = k /\ pages[i].rows = r
        BY <2>1, <3>1 DEF r
      <4>2. a \in 1..Len(r)
        BY <2>2, <2>9, <4>1
      <4> QED BY <2>7, <4>1, <4>2
    <3>2. CASE i \in 1..k
      <4>1. F[end(i - 1) + a] = pages[i].rows[a]
        BY <2>4, <2>9, <3>2, Zenon
      <4>2. end(i - 1) + a \in 1..end(k)
        <5>1. /\ end(i - 1) \in Nat /\ end(k) \in Nat /\ Len(pages[i].rows) \in Nat
              /\ end(i - 1) + Len(pages[i].rows) <= end(k)
          BY <2>2, <2>5, <3>2
        <5> QED BY <2>9, <5>1
      <4> QED BY <2>7, <4>1, <4>2
    <3> QED BY <2>6, <3>1, <3>2
  <2>10. ASSUME NEW m \in 1..end(k + 1)
         PROVE  \E i \in 1..(k + 1), a \in Nat \ {0} :
                   a <= Len(pages[i].rows) /\ m = end(i - 1) + a
    <3>1. CASE m <= end(k)
      <4>1. PICK i \in 1..k, a \in Nat \ {0} : a <= Len(pages[i].rows) /\ m = end(i - 1) + a
        BY <2>2, <2>4, <3>1
      <4>2. i \in 1..(k + 1)
        BY <2>1
      <4> QED BY <4>1, <4>2
    <3>2. CASE m > end(k)
      <4>1. /\ m - end(k) \in Nat \ {0} /\ m - end(k) <= Len(pages[k + 1].rows)
            /\ m = end((k + 1) - 1) + (m - end(k)) /\ k + 1 \in 1..(k + 1)
        BY <2>1, <2>2, <3>2 DEF r
      <4> QED BY <4>1
    <3> QED BY <2>2, <3>1, <3>2
  <2> QED BY <2>1, <2>7, <2>8, <2>9, <2>10 DEF G
<1>8. n \in Good
  <2> HIDE DEF Good
  <2>1. \A k \in 0..n : k \in Good
    BY <1>1, <1>6, <1>7, UpTo
  <2> QED BY <1>1, <2>1
<1>9. First(n) = ShownRows
  BY <1>5
<1>10. /\ ShownRows \in Seq(Line) /\ Len(ShownRows) = end(n)
       /\ \A i \in 1..n : end(i) <= end(n)
       /\ \A i \in 1..n, a \in Nat \ {0} : a <= Len(pages[i].rows)
            => ShownRows[end(i - 1) + a] = pages[i].rows[a]
       /\ \A m \in 1..end(n) : \E i \in 1..n, a \in Nat \ {0} :
            a <= Len(pages[i].rows) /\ m = end(i - 1) + a
  BY <1>8, <1>9
<1> HIDE DEF Good, First
<1>11. end(n) = NextAt(pages)
  <2>1. CASE n = 0
    BY <1>1, <1>3, <2>1 DEF NextAt, n
  <2>2. CASE n # 0
    <3>1. n \in 1..n /\ pages # << >>
      BY <1>1, <2>2 DEF n
    <3> QED BY <1>2, <3>1 DEF NextAt, n
  <2> QED BY <2>1, <2>2
<1>12. \A i, a : i \in DOMAIN pages /\ a \in DOMAIN pages[i].rows
                 => /\ i \in 1..n /\ a \in Nat \ {0} /\ a <= Len(pages[i].rows)
  BY <1>1, <1>2
<1>13. \A k \in 1..Len(ShownRows) : \A i, a :
          RowAt(k, i, a) => ShownRows[k] = pages[i].rows[a]
  BY <1>4, <1>10, <1>12 DEF RowAt
<1>14. ASSUME NEW i \in 1..n, NEW a \in Nat \ {0}, a <= Len(pages[i].rows)
       PROVE  /\ RowAt(OffsetOf(pages, i) + a, i, a)
              /\ OffsetOf(pages, i) + a \in 1..Len(ShownRows)
  <2>1. /\ OffsetOf(pages, i) = end(i - 1) /\ end(i - 1) \in Nat /\ end(n) \in Nat
        /\ end(i) = pages[i].nextOffset /\ end(i) \in Nat
        /\ end(i) = OffsetOf(pages, i) + Len(pages[i].rows) /\ end(i) <= end(n)
        /\ DOMAIN pages[i].rows = 1..Len(pages[i].rows) /\ Len(pages[i].rows) \in Nat
    <3>1. i \in 0..n /\ n \in 0..n
      BY <1>1
    <3> QED BY <1>2, <1>3, <1>4, <1>10, <3>1
  <2>2. OffsetOf(pages, i) + a \in 1..Len(ShownRows)
    <3>1. ASSUME NEW o \in Nat, NEW l \in Nat, NEW m \in Nat, a <= l, o + l <= m
          PROVE  o + a \in 1..m
      BY <3>1
    <3>2. Len(ShownRows) = end(n)
      BY <1>10
    <3> HIDE DEF end
    <3> QED BY <1>14, <2>1, <3>1, <3>2
  <2>3. a \in DOMAIN pages[i].rows /\ OffsetOf(pages, i) + a <= pages[i].nextOffset
    BY <1>14, <2>1
  <2> QED BY <1>1, <2>2, <2>3 DEF RowAt
<1>15. \A k \in 1..Len(ShownRows) : \E i, a : RowAt(k, i, a)
  BY <1>4, <1>10, <1>14
<1>16. \A i \in DOMAIN pages : \A a : a \in DOMAIN pages[i].rows
          => RowAt(OffsetOf(pages, i) + a, i, a)
             /\ OffsetOf(pages, i) + a \in 1..Len(ShownRows)
  BY <1>12, <1>14
<1> QED BY <1>10, <1>11, <1>13, <1>15, <1>16

LEMMA FreshShowsEntries == EntriesInv /\ EntriesFresh => EntriesCurrent
<1> SUFFICES ASSUME EntriesInv, EntriesFresh, expanded, fetch.kind = "none", ~outdated,
                    \A op \in Changes : changing[op] = NoChange
             PROVE  /\ \A i \in DOMAIN pages : Among(i) = DOMAIN entries
                    /\ \A r \in Range(ShownRows) :
                          r.id \in DOMAIN entries /\ entries[r.id] = r.text
  BY DEF EntriesCurrent
<1>1. Chain(pages) /\ Coming = pages
  <2>1. Chain(pages) /\ pages \in Seq(Page) /\ fetch.got = << >>
    BY DEF EntriesInv, FetchInv, Chain
  <2> QED BY <2>1 DEF Coming
<1>2. Seen(pages)
  BY <1>1 DEF EntriesFresh, NoChange
<1>3. \A i \in DOMAIN pages : Among(i) = DOMAIN entries
  BY <1>2 DEF Seen, Among
<1>4. ASSUME NEW r \in Range(ShownRows)
      PROVE  r.id \in DOMAIN entries /\ entries[r.id] = r.text
  <2>1. PICK k \in 1..Len(ShownRows) : r = ShownRows[k]
    BY <1>1, <1>4, RowsOfChain DEF Range
  <2>2. PICK i, a : RowAt(k, i, a) /\ r = pages[i].rows[a]
    BY <1>1, <2>1, RowsOfChain
  <2>3. i \in DOMAIN pages /\ a \in DOMAIN pages[i].rows
    BY <2>2 DEF RowAt
  <2>4. r.id \in pages[i].among
    BY <1>1, <2>2, <2>3 DEF Chain, PageAt
  <2> QED BY <1>2, <2>2, <2>3, <2>4 DEF Seen
<1> QED BY <1>3, <1>4

-----------------------------------------------------------------------------
(* Entries: nothing left out, nothing twice                                *)

\* The place of an entry among others, the newest first.
Place(A, e) == Cardinality(Newer(A, e)) + 1
Distinct(A) == \A d, e \in A : d # e => CreatedAt[d] # CreatedAt[e]

LEMMA Places ==
    ASSUME NEW A \in SUBSET Ids, NEW e \in A
    PROVE  /\ Cardinality(Newer(A, e)) \in Nat /\ Place(A, e) \in Nat
           /\ Place(A, e) <= Cardinality(A)
           /\ Distinct(A) => Cardinality(NotOlder(A, e)) = Place(A, e)
           /\ \A d \in A : /\ CreatedAt[e] >= CreatedAt[d] => Place(A, e) <= Place(A, d)
                           /\ CreatedAt[e] > CreatedAt[d] => Place(A, e) < Place(A, d)
           /\ \A B \in SUBSET Ids : A \subseteq B => Place(A, e) <= Place(B, e)
<1>1. /\ IsFiniteSet(A) /\ \A d \in Ids : CreatedAt[d] \in Nat
      /\ \A B \in SUBSET Ids : IsFiniteSet(B)
  BY EntriesAssumption, FS_Subset
<1>2. \A B \in SUBSET Ids : \A d : IsFiniteSet(Newer(B, d)) /\ Cardinality(Newer(B, d)) \in Nat
  <2> SUFFICES ASSUME NEW B \in SUBSET Ids, NEW d
               PROVE  IsFiniteSet(Newer(B, d)) /\ Cardinality(Newer(B, d)) \in Nat
    OBVIOUS
  <2>1. Newer(B, d) \in SUBSET Ids
    BY DEF Newer
  <2> QED BY <1>1, <2>1, FS_CardinalityType
<1>3. /\ Cardinality(Newer(A, e) \cup {e}) = Place(A, e)
      /\ IsFiniteSet(Newer(A, e) \cup {e})
  <2>1. e \notin Newer(A, e)
    BY <1>1 DEF Newer
  <2> QED BY <1>2, <2>1, FS_AddElement DEF Place
<1>4. Place(A, e) <= Cardinality(A)
  <2>1. Newer(A, e) \cup {e} \in SUBSET A
    BY DEF Newer
  <2> QED BY <1>1, <1>3, <2>1, FS_Subset
<1>5. ASSUME Distinct(A) PROVE Cardinality(NotOlder(A, e)) = Place(A, e)
  <2>1. NotOlder(A, e) = Newer(A, e) \cup {e}
    <3>1. ASSUME NEW d \in A
          PROVE  CreatedAt[d] >= CreatedAt[e] <=> CreatedAt[d] > CreatedAt[e] \/ d = e
      <4>1. CreatedAt[d] \in Nat /\ CreatedAt[e] \in Nat /\ (d # e => CreatedAt[d] # CreatedAt[e])
        BY <1>1, <1>5 DEF Distinct
      <4> QED BY <4>1
    <3> QED BY <3>1 DEF NotOlder, Newer
  <2> QED BY <1>3, <2>1
<1>6. ASSUME NEW d \in A, CreatedAt[e] >= CreatedAt[d] PROVE Place(A, e) <= Place(A, d)
  <2>1. CreatedAt[d] \in Nat /\ CreatedAt[e] \in Nat /\ \A x \in A : CreatedAt[x] \in Nat
    BY <1>1
  <2>2. Newer(A, e) \in SUBSET Newer(A, d)
    BY <1>6, <2>1 DEF Newer
  <2> QED BY <1>2, <2>2, FS_Subset DEF Place
<1>7. ASSUME NEW d \in A, CreatedAt[e] > CreatedAt[d] PROVE Place(A, e) < Place(A, d)
  <2>1. CreatedAt[d] \in Nat /\ CreatedAt[e] \in Nat /\ \A x \in A : CreatedAt[x] \in Nat
    BY <1>1
  <2>2. Newer(A, e) \cup {e} \in SUBSET Newer(A, d)
    BY <1>7, <2>1 DEF Newer
  <2>3. Place(A, e) <= Cardinality(Newer(A, d))
    BY <1>2, <1>3, <2>2, FS_Subset
  <2> QED BY <1>2, <2>3 DEF Place
<1>8. ASSUME NEW B \in SUBSET Ids, A \subseteq B PROVE Place(A, e) <= Place(B, e)
  <2>1. Newer(A, e) \in SUBSET Newer(B, e)
    BY <1>8 DEF Newer
  <2> QED BY <1>2, <2>1, FS_Subset DEF Place
<1>9. Cardinality(Newer(A, e)) \in Nat /\ Place(A, e) \in Nat
  BY <1>2 DEF Place
<1> QED BY <1>4, <1>5, <1>6, <1>7, <1>8, <1>9

\* No two entries have the same place.
LEMMA OnePlace ==
    ASSUME NEW A \in SUBSET Ids, Distinct(A), NEW d \in A, NEW e \in A, Place(A, d) = Place(A, e)
    PROVE  d = e
<1> SUFFICES ASSUME d # e PROVE FALSE
  OBVIOUS
<1>1. CreatedAt[d] \in Nat /\ CreatedAt[e] \in Nat /\ CreatedAt[d] # CreatedAt[e]
  BY EntriesAssumption DEF Distinct
<1>2. Place(A, d) \in Nat /\ Place(A, e) \in Nat
  BY Places
<1>3. CreatedAt[d] > CreatedAt[e] => Place(A, d) < Place(A, e)
  BY Places
<1>4. CreatedAt[e] > CreatedAt[d] => Place(A, e) < Place(A, d)
  BY Places
<1> QED BY <1>1, <1>2, <1>3, <1>4

\* A row stands in the panel where its entry stood when the page was read.
LEMMA RowPlace ==
    ASSUME Chain(pages), Clocked, NEW k, NEW i, NEW a, RowAt(k, i, a)
    PROVE  /\ pages[i].rows[a].id \in Among(i) /\ Among(i) \in SUBSET Ids /\ Distinct(Among(i))
           /\ Place(Among(i), pages[i].rows[a].id) = k
<1>1. /\ i \in DOMAIN pages /\ a \in DOMAIN pages[i].rows /\ k = OffsetOf(pages, i) + a
      /\ PageAt(pages[i], OffsetOf(pages, i))
  BY DEF RowAt, Chain
<1> DEFINE A == pages[i].among
           e == pages[i].rows[a].id
<1>2. /\ pages[i] \in Page /\ A \in SUBSET Ids /\ e \in A
      /\ k > Cardinality(Newer(A, e)) /\ k <= Cardinality(NotOlder(A, e))
  BY <1>1 DEF PageAt, Page
<1>3. Distinct(A)
  BY <1>1 DEF Clocked, Among, Distinct
<1>4. k \in Int
  <2>1. pages[i].rows \in Seq(Line) /\ pages[i].nextOffset \in Nat /\ a \in Int
    BY <1>1, <1>2 DEF Page
  <2>2. i \in 1..Len(pages) /\ pages \in Seq(Page) /\ Len(pages) \in Nat
    BY <1>1 DEF Chain
  <2>3. OffsetOf(pages, i) \in Int
    <3>1. i # 1 => i - 1 \in 1..Len(pages)
      BY <2>2
    <3>2. i # 1 => pages[i - 1] \in Page
      BY <2>2, <3>1
    <3> QED BY <3>2 DEF OffsetOf, Page
  <2> QED BY <1>1, <2>1, <2>3
<1> HIDE DEF A, e
<1>5. /\ Cardinality(NotOlder(A, e)) = Place(A, e) /\ Place(A, e) \in Nat
      /\ Cardinality(Newer(A, e)) \in Nat
  BY <1>2, <1>3, Places
<1>6. Place(A, e) = k
  BY <1>2, <1>4, <1>5 DEF Place
<1> QED BY <1>2, <1>3, <1>6 DEF A, e, Among

\* Nothing was removed: an entry that is not shown stands behind every page.
LEMMA NothingLeftOut ==
    ASSUME Chain(pages), Clocked, \A i \in 2..Len(pages) : Among(i - 1) \subseteq Among(i)
    PROVE  Covered \subseteq Range(ShownIds)
<1> DEFINE n == Len(pages)
<1>1. /\ pages \in Seq(Page) /\ n \in Nat /\ DOMAIN pages = 1..n
      /\ \A i \in 1..n : PageAt(pages[i], OffsetOf(pages, i)) /\ pages[i] \in Page
  BY DEF Chain, PageAt
<1>2. /\ ShownRows \in Seq(Line) /\ Len(ShownRows) = NextAt(pages)
      /\ DOMAIN ShownIds = 1..Len(ShownRows)
      /\ \A k \in 1..Len(ShownRows) : ShownIds[k] = ShownRows[k].id
  BY RowsOfChain DEF ShownIds
<1> SUFFICES ASSUME NEW e \in Covered, e \notin Range(ShownIds) PROVE FALSE
  OBVIOUS
<1>3. n # 0 /\ 1 \in 1..n /\ n \in 1..n /\ e \in Among(1)
  BY <1>1 DEF Covered
<1>4. ASSUME NEW i \in 1..n, NEW a \in DOMAIN pages[i].rows PROVE pages[i].rows[a].id # e
  <2>1. /\ RowAt(OffsetOf(pages, i) + a, i, a)
        /\ OffsetOf(pages, i) + a \in 1..Len(ShownRows)
    BY <1>1, RowsOfChain
  <2>2. ShownRows[OffsetOf(pages, i) + a] = pages[i].rows[a]
    BY <2>1, RowsOfChain
  <2>3. pages[i].rows[a].id \in Range(ShownIds)
    BY <1>2, <2>1, <2>2 DEF Range
  <2> QED BY <2>3
<1>5. ASSUME NEW i \in 1..n
      PROVE  /\ Among(i) \in SUBSET Ids /\ Distinct(Among(i)) /\ pages[i].nextOffset \in Nat
             /\ Len(pages[i].rows) \in Nat /\ DOMAIN pages[i].rows = 1..Len(pages[i].rows)
             /\ pages[i].nextOffset = OffsetOf(pages, i) + Len(pages[i].rows)
  <2>1. PageAt(pages[i], OffsetOf(pages, i)) /\ pages[i] \in Page /\ i \in DOMAIN pages
    BY <1>1
  <2>2. Distinct(Among(i))
    BY <2>1 DEF Clocked, Distinct
  <2> QED BY <2>1, <2>2 DEF Among, Page, PageAt
<1>6. ASSUME NEW i \in 1..n, e \in Among(i), Place(Among(i), e) > OffsetOf(pages, i),
             OffsetOf(pages, i) \in Nat
      PROVE  Place(Among(i), e) > pages[i].nextOffset
  <2> SUFFICES ASSUME Place(Among(i), e) <= pages[i].nextOffset PROVE FALSE
    BY <1>5, <1>6, Places
  <2> DEFINE a == Place(Among(i), e) - OffsetOf(pages, i)
  <2>1. Place(Among(i), e) \in Nat
    BY <1>5, <1>6, Places
  <2>2. a \in DOMAIN pages[i].rows /\ Place(Among(i), e) = OffsetOf(pages, i) + a
    BY <1>5, <1>6, <2>1
  <2> HIDE DEF a
  <2>3. RowAt(Place(Among(i), e), i, a)
    BY <1>1, <2>2, RowsOfChain
  <2>4. /\ Place(Among(i), pages[i].rows[a].id) = Place(Among(i), e)
        /\ pages[i].rows[a].id \in Among(i)
    BY <2>3, RowPlace
  <2>5. pages[i].rows[a].id = e
    BY <1>5, <1>6, <2>4, OnePlace
  <2> QED BY <1>4, <2>2, <2>5
<1> DEFINE Good == {k \in 0..n : k = 0 \/ (/\ e \in Among(k)
                                           /\ Place(Among(k), e) > pages[k].nextOffset)}
<1>7. 0 \in Good
  BY <1>1
<1>8. ASSUME NEW k \in 0..(n - 1), k \in Good PROVE k + 1 \in Good
  <2>1. k + 1 \in 1..n /\ (k + 1) - 1 = k /\ k + 1 \in 0..n
    BY <1>1
  <2>2. CASE k = 0
    <3>1. OffsetOf(pages, 1) = 0 /\ Place(Among(1), e) > 0
      <4>1. Cardinality(Newer(Among(1), e)) \in Nat
        BY <1>3, <1>5, Places
      <4> QED BY <4>1 DEF OffsetOf, Place
    <3>2. Place(Among(1), e) > pages[1].nextOffset
      BY <1>3, <1>6, <3>1
    <3> QED BY <1>3, <2>1, <2>2, <3>2
  <2>3. CASE k # 0
    <3>1. k \in 1..n /\ k + 1 \in 2..n /\ e \in Among(k) /\ Place(Among(k), e) > pages[k].nextOffset
      BY <1>1, <1>8, <2>3
    <3>2. Among(k) \subseteq Among(k + 1)
      BY <2>1, <3>1
    <3>3. OffsetOf(pages, k + 1) = pages[k].nextOffset
      BY <2>1, <3>1 DEF OffsetOf
    <3>4. Place(Among(k), e) <= Place(Among(k + 1), e)
      BY <1>5, <2>1, <3>1, <3>2, Places
    <3>5. Place(Among(k), e) \in Nat /\ Place(Among(k + 1), e) \in Nat
      BY <1>5, <2>1, <3>1, <3>2, Places
    <3>6. Place(Among(k + 1), e) > OffsetOf(pages, k + 1) /\ OffsetOf(pages, k + 1) \in Nat
      BY <1>5, <3>1, <3>3, <3>4, <3>5
    <3>7. Place(Among(k + 1), e) > pages[k + 1].nextOffset
      BY <1>6, <2>1, <3>1, <3>2, <3>6
    <3> QED BY <2>1, <3>1, <3>2, <3>7
  <2> QED BY <2>2, <2>3
<1>9. e \in Among(n) /\ Place(Among(n), e) > pages[n].nextOffset
  <2> HIDE DEF Good
  <2>1. \A k \in 0..n : k \in Good
    BY <1>1, <1>7, <1>8, UpTo
  <2>2. n \in Good
    BY <1>3, <2>1
  <2> QED BY <1>3, <2>2 DEF Good
<1>10. Place(Among(n), e) \in Nat /\ Place(Among(n), e) <= Cardinality(Among(n))
  BY <1>3, <1>5, <1>9, Places
<1>11. Last(pages) = pages[n] /\ pages # << >>
  BY <1>3 DEF Last
<1>12. CASE ~pages[n].hasMore
  <2>1. pages[n].nextOffset >= Cardinality(Among(n))
    BY <1>1, <1>3, <1>12 DEF PageAt, Among
  <2>2. Cardinality(Among(n)) \in Nat
    BY <1>3, <1>5, EntriesAssumption, FS_Subset, FS_CardinalityType
  <2> QED BY <1>3, <1>5, <1>9, <1>10, <2>1, <2>2
<1>13. CASE pages[n].hasMore
  <2> DEFINE a == Len(pages[n].rows)
  <2>1. a > 0 /\ a \in DOMAIN pages[n].rows /\ OffsetOf(pages, n) + a = pages[n].nextOffset
    BY <1>1, <1>3, <1>5, <1>13 DEF PageAt
  <2> HIDE DEF a
  <2>2. Len(ShownRows) = pages[n].nextOffset
    BY <1>2, <1>11 DEF NextAt
  <2>3. RowAt(pages[n].nextOffset, n, a) /\ pages[n].nextOffset \in 1..Len(ShownRows)
    BY <1>1, <1>3, <2>1, RowsOfChain
  <2>4. ShownRows[pages[n].nextOffset] = pages[n].rows[a]
    BY <2>3, RowsOfChain
  <2>5. Last(ShownIds) = pages[n].rows[a].id
    <3>1. ShownIds = [k \in 1..Len(ShownRows) |-> ShownRows[k].id] /\ Len(ShownRows) \in Nat
      BY <1>2 DEF ShownIds
    <3>2. Len(ShownIds) = Len(ShownRows)
      BY <3>1
    <3> QED BY <1>2, <2>2, <2>3, <2>4, <3>2 DEF Last
  <2>6. CreatedAt[e] >= CreatedAt[pages[n].rows[a].id]
    BY <1>11, <1>13, <2>5 DEF Covered
  <2>7. /\ pages[n].rows[a].id \in Among(n)
        /\ Place(Among(n), pages[n].rows[a].id) = pages[n].nextOffset
    BY <2>3, RowPlace
  <2>8. Place(Among(n), e) <= Place(Among(n), pages[n].rows[a].id)
    BY <1>3, <1>5, <1>9, <2>6, <2>7, Places
  <2> QED BY <1>3, <1>5, <1>9, <1>10, <2>7, <2>8
<1> QED BY <1>12, <1>13

\* Nothing was added: the place of an entry only falls, and the offsets rise.
LEMMA NothingTwice ==
    ASSUME Chain(pages), Clocked, \A i \in 2..Len(pages) : Among(i) \subseteq Among(i - 1)
    PROVE  IsInjective(ShownIds)
<1> DEFINE n == Len(pages)
<1>1. /\ pages \in Seq(Page) /\ n \in Nat /\ DOMAIN pages = 1..n
      /\ \A i \in 1..n : PageAt(pages[i], OffsetOf(pages, i)) /\ pages[i] \in Page
  BY DEF Chain, PageAt
<1>2. /\ DOMAIN ShownIds = 1..Len(ShownRows) /\ Len(ShownRows) \in Nat
      /\ \A k \in 1..Len(ShownRows) : ShownIds[k] = ShownRows[k].id
  BY RowsOfChain DEF ShownIds
<1>3. ASSUME NEW i \in 1..n
      PROVE  /\ pages[i].nextOffset \in Nat /\ Len(pages[i].rows) \in Nat
             /\ DOMAIN pages[i].rows = 1..Len(pages[i].rows)
             /\ pages[i].nextOffset = OffsetOf(pages, i) + Len(pages[i].rows)
  <2>1. PageAt(pages[i], OffsetOf(pages, i)) /\ pages[i] \in Page
    BY <1>1
  <2> QED BY <2>1 DEF Page, PageAt
<1> DEFINE Good == {k \in 0..n : \A i \in 1..k : /\ Among(k) \subseteq Among(i)
                                                 /\ pages[i].nextOffset <= pages[k].nextOffset}
<1>4. 0 \in Good
  <2>1. 1..0 = {} /\ 0 \in 0..n
    BY <1>1
  <2> QED BY <2>1
<1>5. ASSUME NEW k \in 0..(n - 1), k \in Good PROVE k + 1 \in Good
  <2>1. k + 1 \in 1..n /\ (k + 1) - 1 = k /\ k + 1 \in 0..n
    BY <1>1
  <2>2. ASSUME NEW i \in 1..(k + 1)
        PROVE  Among(k + 1) \subseteq Among(i) /\ pages[i].nextOffset <= pages[k + 1].nextOffset
    <3>1. CASE i = k + 1
      BY <1>3, <2>1, <3>1
    <3>2. CASE i # k + 1
      <4>1. i \in 1..k /\ i \in 1..n /\ k \in 1..n /\ k + 1 \in 2..n
        BY <1>1, <2>1, <3>2
      <4>2. Among(k + 1) \subseteq Among(k)
        BY <2>1, <4>1
      <4>3. OffsetOf(pages, k + 1) = pages[k].nextOffset
        BY <2>1, <4>1 DEF OffsetOf
      <4>4. pages[k].nextOffset <= pages[k + 1].nextOffset
        BY <1>3, <2>1, <4>1, <4>3
      <4>5. Among(k) \subseteq Among(i) /\ pages[i].nextOffset <= pages[k].nextOffset
        BY <1>5, <4>1
      <4> QED BY <1>3, <2>1, <4>1, <4>2, <4>4, <4>5
    <3> QED BY <3>1, <3>2
  <2> QED BY <2>1, <2>2
<1>6. ASSUME NEW i \in 1..n, NEW j \in 1..n, i < j
      PROVE  Among(j) \subseteq Among(i) /\ pages[i].nextOffset <= OffsetOf(pages, j)
  <2> HIDE DEF Good
  <2>1. \A k \in 0..n : k \in Good
    BY <1>1, <1>4, <1>5, UpTo
  <2>2. /\ j \in 0..n /\ j - 1 \in 0..n /\ i \in 1..j /\ i \in 1..(j - 1) /\ j # 1
    BY <1>1, <1>6
  <2>3. j \in Good /\ j - 1 \in Good
    BY <2>1, <2>2
  <2>4. Among(j) \subseteq Among(i) /\ pages[i].nextOffset <= pages[j - 1].nextOffset
    BY <2>2, <2>3 DEF Good
  <2> QED BY <2>2, <2>4 DEF OffsetOf
<1> HIDE DEF Good
\* The row further down is of an earlier page, or else of the same: neither can be.
<1>7. ASSUME NEW k \in 1..Len(ShownRows), NEW m \in 1..Len(ShownRows), k < m,
             ShownIds[k] = ShownIds[m]
      PROVE  FALSE
  <2>1. PICK i, a : RowAt(k, i, a) /\ ShownRows[k] = pages[i].rows[a]
    BY RowsOfChain
  <2>2. PICK j, c : RowAt(m, j, c) /\ ShownRows[m] = pages[j].rows[c]
    BY RowsOfChain
  <2>3. i \in 1..n /\ j \in 1..n /\ a \in DOMAIN pages[i].rows /\ c \in DOMAIN pages[j].rows
    BY <1>1, <2>1, <2>2 DEF RowAt
  <2> DEFINE e == ShownIds[k]
  <2>4. /\ pages[i].rows[a].id = e /\ pages[j].rows[c].id = e
    BY <1>2, <1>7, <2>1, <2>2
  <2> HIDE DEF e
  <2>5. /\ e \in Among(i) /\ Place(Among(i), e) = k /\ Among(i) \in SUBSET Ids
        /\ e \in Among(j) /\ Place(Among(j), e) = m /\ Among(j) \in SUBSET Ids
    BY <2>1, <2>2, <2>4, RowPlace
  <2>6. CASE i = j
    BY <1>7, <2>5, <2>6
  <2>7. CASE i < j
    <3>1. Among(j) \subseteq Among(i)
      BY <1>6, <2>3, <2>7
    <3>2. Place(Among(j), e) <= Place(Among(i), e)
      BY <2>5, <3>1, Places
    <3> QED BY <1>2, <1>7, <2>5, <3>2
  <2>8. CASE j < i
    <3>1. pages[j].nextOffset <= OffsetOf(pages, i)
      BY <1>6, <2>3, <2>8
    <3>2. m <= pages[j].nextOffset /\ k = OffsetOf(pages, i) + a
      BY <2>1, <2>2 DEF RowAt
    <3>3. /\ pages[j].nextOffset \in Nat /\ OffsetOf(pages, i) \in Int /\ a \in Nat \ {0}
      <4>1. i # 1 /\ i - 1 \in 1..n
        BY <1>1, <2>3, <2>8
      <4>2. OffsetOf(pages, i) = pages[i - 1].nextOffset
        BY <4>1 DEF OffsetOf
      <4>3. \A o \in 1..n : pages[o].nextOffset \in Nat
        BY <1>3
      <4>4. OffsetOf(pages, i) \in Nat /\ pages[j].nextOffset \in Nat
        BY <2>3, <4>1, <4>2, <4>3, Zenon
      <4>5. DOMAIN pages[i].rows = 1..Len(pages[i].rows) /\ Len(pages[i].rows) \in Nat
        BY <1>3, <2>3
      <4>6. a \in 1..Len(pages[i].rows)
        BY <2>3, <4>5, Zenon
      <4>7. a \in Nat \ {0}
        BY <4>5, <4>6
      <4> QED BY <4>4, <4>7
    <3> QED BY <1>2, <1>7, <3>1, <3>2, <3>3
  <2> QED BY <1>1, <2>3, <2>6, <2>7, <2>8
<1>8. \A k, m \in 1..Len(ShownRows) : k = m \/ k < m \/ m < k
  BY <1>2
<1> QED BY <1>2, <1>7, <1>8 DEF IsInjective

LEMMA ChainIsExact == EntriesInv => PagesExact
BY NothingLeftOut, NothingTwice DEF EntriesInv, FetchInv, PagesExact

-----------------------------------------------------------------------------
(* Theorems: the settings and the entries by themselves                    *)

\* Saving the settings of a budget that the window rightly shows leaves what neither the
\* user nor the list has changed in the form as the server has it, for any budgets,
\* weights and writes of others, however long it goes on: the form is never sent before
\* it was filled, nor with what was filled for another budget.
THEOREM SavesKeepTheRest == SettingsInit /\ [][SettingsNext]_settingsVars => SaveKeepsTheRest
<1> DEFINE KeptRest == \A b \in Budgets :
                       (/\ SaveSettings /\ b = opened /\ Known(b))
                       => /\ "basics" \notin touched => saving'.payload.basics = row[b].basics
                          /\ "balance" \notin touched
                               => saving'.payload.balance = row[b].balance
<1>1. SettingsInv /\ [SettingsNext]_settingsVars => [KeptRest]_settingsVars
  BY KeepsTheRest
<1> QED BY <1>1, SettingsInvInit, SettingsInvStep, PTL DEF SaveKeepsTheRest

\* The pages of a budget's entries leave out nothing that was there all along and show
\* nothing twice, for any page size and any number of pages, reloads, retries and
\* requests that were given up, as long as no two entries have the same time and nothing
\* was removed, or nothing was added, between the first page and the last.
THEOREM PagesAreExact == EntriesInit /\ [][EntriesNext]_entriesVars => []PagesExact
BY EntriesInvInit, EntriesInvStep, ChainIsExact, PTL

-----------------------------------------------------------------------------
(* The window: its parts one beside the other                              *)

WindowInv ==
    /\ SettingsInv /\ SettingsFresh
    /\ SharesTypeOK /\ SharesFresh
    /\ KeysTypeOK /\ KeysFresh
    /\ EntriesInv /\ EntriesFresh
    /\ SessionTypeOK

\* Where another part is looked at, the window is on its sign-in page.
LEMMA WindowInvInit == WindowInit => WindowInv
<1> SUFFICES ASSUME WindowInit PROVE WindowInv
  OBVIOUS
<1>1. SettingsInv /\ SettingsFresh
  BY SettingsInvInit, SettingsFreshInit DEF WindowInit
<1>2. SharesTypeOK /\ SharesFresh
  BY SharesTypeInit, SharesFreshInit DEF WindowInit
<1>3. KeysTypeOK /\ KeysFresh
  BY KeysTypeInit, KeysFreshInit DEF WindowInit
<1>4. EntriesInv /\ EntriesFresh
  BY EntriesInvInit, EntriesFreshInit DEF WindowInit
<1>5. SessionTypeOK
  <2>1. CASE SessionInit
    BY <2>1, SessionTypeInit
  <2>2. CASE ~SessionInit
    <3>1. /\ stored = NoToken /\ news = {} /\ requests = {} /\ crossed = {}
          /\ at = [w \in Windows |-> "/login"] /\ shown = at
          /\ authed = [w \in Windows |-> FALSE] /\ bar = authed
          /\ signing = [w \in Windows |-> NoSignIn]
          /\ given = {} /\ valid = {} /\ moves = 0 /\ mishaps = 0
      BY <2>2 DEF WindowInit
    <3>2. "/login" \in Pages /\ NoSignIn \in [stage: SignInSteps, token: Tokens \cup {NoToken}]
      BY DEF Pages, Entrance, NoSignIn, SignInSteps
    <3>3. signing \in [Windows -> [stage: SignInSteps, token: Tokens \cup {NoToken}]]
      BY <3>1, <3>2
    <3> QED BY <3>1, <3>2, <3>3, SessionAssumption DEF SessionTypeOK
  <2> QED BY <2>1, <2>2
<1> QED BY <1>1, <1>2, <1>3, <1>4, <1>5 DEF WindowInv

\* A step of the window is a step of one part, at which the others stand still.
LEMMA OnePartMoves ==
    [WindowNext]_windowVars
    => /\ [SettingsNext]_settingsVars /\ [SharesNext]_sharesVars /\ [KeysNext]_keysVars
       /\ [EntriesNext]_entriesVars /\ [SessionNext]_sessionVars
BY DEF WindowNext, Only, windowVars

LEMMA WindowInvStep == WindowInv /\ [WindowNext]_windowVars => WindowInv'
<1> SUFFICES ASSUME WindowInv, [WindowNext]_windowVars PROVE WindowInv'
  OBVIOUS
<1>1. SettingsInv' /\ SettingsFresh'
  BY OnePartMoves, SettingsInvStep, SettingsFreshStep DEF WindowInv
<1>2. SharesTypeOK' /\ SharesFresh'
  BY OnePartMoves, SharesTypeStep, SharesFreshStep DEF WindowInv
<1>3. KeysTypeOK' /\ KeysFresh'
  BY OnePartMoves, KeysTypeStep, KeysFreshStep DEF WindowInv
<1>4. EntriesInv' /\ EntriesFresh'
  BY OnePartMoves, EntriesInvStep, EntriesFreshStep DEF WindowInv
<1>5. SessionTypeOK'
  BY OnePartMoves, SessionTypeStep DEF WindowInv
<1> QED BY <1>1, <1>2, <1>3, <1>4, <1>5 DEF WindowInv

LEMMA WindowInvariant == WindowSpec => []WindowInv
BY WindowInvInit, WindowInvStep, PTL DEF WindowSpec

\* The state of every part of the window has its type, for any constants.
THEOREM WindowTypeCorrect == WindowSpec => []WindowTypeOK
<1>1. WindowInv => WindowTypeOK
  BY DEF WindowInv, WindowTypeOK, SettingsInv, EntriesInv
<1> QED BY <1>1, WindowInvariant, PTL

\* What a page shows once nothing is under way is what the server has, if the window
\* could know of every write: the settings in their dialog, the shares, the API keys and
\* the entries, for any number of budgets, users, keys, pages and requests that overlap.  The
\* shares are excepted where an overtaken request has reloaded those of another budget.
THEOREM ShownStaysCurrent == WindowSpec => []ShownIsCurrent
<1>1. WindowInv => ShownIsCurrent
  BY FreshShowsSettings, FreshShowsCurrent, FreshShowsKeys, FreshShowsEntries
     DEF WindowInv, ShownIsCurrent
<1> QED BY <1>1, WindowInvariant, PTL
=============================================================================
