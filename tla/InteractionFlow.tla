-------------------------- MODULE InteractionFlow --------------------------
(***************************************************************************)
(* What the daemon promises the agents: the StateChanged signals of each   *)
(* interaction begin with a request for presence or with a verification,   *)
(* go on in the order of the documented flow, and end with a terminal      *)
(* state; no signal of an interaction follows one of a later interaction.  *)
(***************************************************************************)
EXTENDS Integers

CONSTANT MaxInteractions

VARIABLE shown          \* the last state signalled for each request ID

Requests == 1 .. MaxInteractions

Opening == {"presence_required", "verification_started"}
Verifying == {"verification_started", "verification_information",
              "verification_error", "secret_required"}
Ended == {"cancelled", "timed_out"}

Follows(s) ==
    CASE s = "none" -> Opening
      [] s = "presence_required" -> {"presence_approved", "presence_denied"} \cup Ended
      [] s \in Verifying ->
            Verifying \cup {"verification_succeeded", "verification_failed"} \cup Ended
      [] OTHER -> {}

Init == shown = [r \in Requests |-> "none"]

Signal(r) ==
    /\ \A later \in r + 1 .. MaxInteractions : shown[later] = "none"
    /\ \E s \in Follows(shown[r]) : shown' = [shown EXCEPT ![r] = s]

Next == \E r \in Requests : Signal(r)

Spec == Init /\ [][Next]_shown
=============================================================================
