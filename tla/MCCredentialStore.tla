------------------------- MODULE MCCredentialStore -------------------------
(* Model checking CredentialStore: the constants are given in the .cfg.    *)
EXTENDS CredentialStore

CONSTANTS c1, c2, c3, alice, rp1, user1, user2, daemon, ctl
=============================================================================
