------------------------------ MODULE MCDaemon ------------------------------
(* Interchangeable administrators, openers, credentials and authorizations. *)
EXTENDS Daemon, TLC

Symmetric ==
    Permutations(Admins) \cup Permutations(Others) \cup Permutations(Credentials)
        \cup Permutations(Authorizations)
=============================================================================
