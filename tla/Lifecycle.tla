----------------------------- MODULE Lifecycle ------------------------------
(***************************************************************************)
(* The states of a document as its owner sees them.  Deleting takes a      *)
(* document away from any state; a failed document may still be finished   *)
(* by a task that was already queued.                                      *)
(***************************************************************************)
CONSTANT Docs

VARIABLE phase

Init == phase = [d \in Docs |-> "absent"]

Move(d, from, to) ==
    /\ phase[d] \in from
    /\ phase' = [phase EXCEPT ![d] = to]

Upload(d)  == Move(d, {"absent"}, "uploaded")
Confirm(d) == Move(d, {"uploaded"}, "processing")
Read(d)    == Move(d, {"processing", "failed"}, "ready")
Index(d)   == Move(d, {"ready", "failed"}, "indexed")
Fail(d)    == Move(d, {"processing", "ready"}, "failed")

DeleteSet(S) ==
    /\ \A d \in S : phase[d] # "absent"
    /\ phase' = [d \in Docs |-> IF d \in S THEN "deleted" ELSE phase[d]]

Delete == \E S \in SUBSET Docs : DeleteSet(S)

Next ==
    \/ \E d \in Docs : Upload(d) \/ Confirm(d) \/ Read(d) \/ Index(d) \/ Fail(d)
    \/ Delete

Spec == Init /\ [][Next]_phase
=============================================================================
