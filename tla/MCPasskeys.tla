----------------------------- MODULE MCPasskeys -----------------------------
(* Instances of Passkeys.  Ceremonies of a kind are alike, and so are e-mails:
   every authenticator counts. *)
EXTENDS Passkeys, TLC

AllCount == Registrations

AllAlike == Permutations(Emails) \cup Permutations(Registrations)
                \cup Permutations(Logins)
=============================================================================
