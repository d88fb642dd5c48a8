---------------------------- MODULE DurableStore ----------------------------
(***************************************************************************)
(* What the credential store promises: one durable value that changes only *)
(* by whole operations, each of which takes the next generation number.    *)
(* There is no crash action: a crash, a power failure or a failed write is *)
(* a stuttering step, or the late effect of one whole operation.           *)
(***************************************************************************)
EXTENDS Storage

VARIABLES
    value,          \* the authoritative contents
    version         \* the number of operations that produced it

Init ==
    /\ value = EmptyStorage
    /\ version = 0

Commit ==
    /\ version < MaxGeneration
    /\ version' = version + 1
    /\ OneOperation(value, value', version + 1)

Spec == Init /\ [][Commit]_<<value, version>>
=============================================================================
