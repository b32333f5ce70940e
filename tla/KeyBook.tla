------------------------------ MODULE KeyBook ------------------------------
(***************************************************************************)
(* What passkey sign-in promises (README.md, the lines on passkeys, and    *)
(* db/schema.sql): one credential per e-mail, the first to be registered   *)
(* stays, and a sign-in is with a credential that is registered.  How the  *)
(* two ceremonies get there is left to Passkeys.                           *)
(***************************************************************************)
CONSTANTS Emails, Credentials, Logins, NoKey

VARIABLES
    key,     \* key[e]: the credential registered for e, or NoKey
    inside   \* inside[l]: the credential that login l entered with, or NoKey

vars == <<key, inside>>

Init == key = [e \in Emails |-> NoKey] /\ inside = [l \in Logins |-> NoKey]

Register(e, c) ==
    /\ key[e] = NoKey
    /\ \A other \in Emails : key[other] # c
    /\ key' = [key EXCEPT ![e] = c]
    /\ UNCHANGED inside

Enter(l, e) ==
    /\ inside[l] = NoKey /\ key[e] # NoKey
    /\ inside' = [inside EXCEPT ![l] = key[e]]
    /\ UNCHANGED key

Next == \E e \in Emails : \/ \E c \in Credentials : Register(e, c)
                          \/ \E l \in Logins : Enter(l, e)

Spec == Init /\ [][Next]_vars
=============================================================================
