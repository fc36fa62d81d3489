----------------------------- MODULE AtomicUpload -----------------------------
(***************************************************************************)
(* What FilesExt.upload promises whatever protocol it speaks: the remote    *)
(* file is the old one until it is, in one step, exactly the bytes of the  *)
(* stream, and the call returns normally only after that.  A call that     *)
(* raises leaves the old file or the new one, never a mixture; a request   *)
(* it no longer waits for may still turn the one into the other.           *)
(***************************************************************************)
VARIABLES
    object,     \* the remote file: "old", or "new" for the bytes of the stream
    outcome     \* of the call: "pending", "ok" or "error"

vars == <<object, outcome>>

Init == object = "old" /\ outcome = "pending"

Publish ==
    /\ object = "old"
    /\ object' = "new"
    /\ UNCHANGED outcome

Succeed ==
    /\ outcome = "pending" /\ object = "new"
    /\ outcome' = "ok"
    /\ UNCHANGED object

Fail ==
    /\ outcome = "pending"
    /\ outcome' = "error"
    /\ UNCHANGED object

Next == Publish \/ Succeed \/ Fail

Spec == Init /\ [][Next]_vars
=============================================================================
