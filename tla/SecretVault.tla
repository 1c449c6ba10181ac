---------------------------- MODULE SecretVault ----------------------------
(***************************************************************************)
(* What the stored secrets and the password cache promise to a user: a     *)
(* vault whose secrets are all under one master password.  Writing needs   *)
(* that password, unlocking accepts no other, and changing the master      *)
(* password changes none of the secrets.  An empty vault has no master     *)
(* password; the first secret written decides it.                          *)
(***************************************************************************)

CONSTANTS Slots, Values, Passwords, None

VARIABLES
    secret,   \* what each slot holds, in the clear
    master,   \* the one password that opens it all
    key       \* the password in the cache

vars == <<secret, master, key>>

Empty == [s \in Slots |-> None]

Init == secret = Empty /\ master = None /\ key = None

Fits(p) == master \in {None, p}

\* Writes and deletions: at once in every slot concerned
Write(p) ==
    /\ Fits(p)
    /\ secret' \in [Slots -> Values \cup {None}]
    /\ master' = IF secret' = Empty THEN None ELSE p
    /\ UNCHANGED key

ChangeMaster(p) ==
    /\ master # None
    /\ master' = p
    /\ UNCHANGED <<secret, key>>

Unlock(p) ==
    /\ Fits(p)
    /\ key' = p
    /\ UNCHANGED <<secret, master>>

Lock == key' = None /\ UNCHANGED <<secret, master>>

Next ==
    \/ \E p \in Passwords : Write(p) \/ ChangeMaster(p) \/ Unlock(p)
    \/ Lock

Spec == Init /\ [][Next]_vars

=============================================================================
