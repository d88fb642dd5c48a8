------------------------ MODULE VerifierConversation ------------------------
(***************************************************************************)
(* The conversation that both verifier connections follow, from daemon to  *)
(* broker and from broker to PAM worker.  Each end keeps its own state and *)
(* advances it with every message it sends or receives.                    *)
(***************************************************************************)

Results == {"success", "denied", "error"}
DaemonMessages == {"start", "secret", "cancel"}
VerifierMessages == {"status", "secret_required"} \cup Results

ConversationStates ==
    {"awaiting_start", "verifying", "awaiting_secret", "completed", "cancelled", "invalid"}

\* A verifier that forgets that a prompt may be answered by a cancellation.
MutAdvance(state, m) ==
    CASE state = "awaiting_start" /\ m = "start"           -> "verifying"
      [] state = "verifying" /\ m = "cancel"               -> "cancelled"
      [] state = "verifying" /\ m = "status"               -> "verifying"
      [] state = "verifying" /\ m = "secret_required"      -> "awaiting_secret"
      [] state = "verifying" /\ m \in Results              -> "completed"
      [] state = "awaiting_secret" /\ m = "secret"         -> "verifying"
      [] state = "awaiting_secret" /\ m = "error"          -> "completed"
      [] OTHER                                             -> "invalid"

\* advance_verifier_conversation; "invalid" is its VerifierConversationError.
\* The sender is the one the message's type allows.
Advance(state, m) ==
    CASE state = "awaiting_start" /\ m = "start"           -> "verifying"
      [] state \in {"verifying", "awaiting_secret"} /\ m = "cancel" -> "cancelled"
      [] state = "verifying" /\ m = "status"               -> "verifying"
      [] state = "verifying" /\ m = "secret_required"      -> "awaiting_secret"
      [] state = "verifying" /\ m \in Results              -> "completed"
      [] state = "awaiting_secret" /\ m = "secret"         -> "verifying"
      [] state = "awaiting_secret" /\ m = "error"          -> "completed"
      [] OTHER                                             -> "invalid"

ConversationOver(state) == state \in {"completed", "cancelled"}
=============================================================================
