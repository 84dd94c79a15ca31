---------------------------- MODULE OwnedResource ----------------------------
(***************************************************************************)
(* What the operator promises of an object it owns STACKIT resources for,  *)
(* whatever kind they are of: of the object only whether it is there and   *)
(* wanted, of a resource only whether it exists and who knows its ID.  The *)
(* controllers, with their caches, queues, conflicts and polls, are shown  *)
(* to implement it when one manager runs (ImplementsOwned).                *)
(***************************************************************************)
CONSTANT Ids       \* IDs of resources

VARIABLES
  object,          \* "absent", "wanted" or, once deleted by its user, "going"
  stage            \* [Ids -> stage of a resource]

vars == <<object, stage>>

(* A resource is not made yet; made, with its ID about to be recorded;     *)
(* held by the object, which records it; lost, as nobody knows its ID; or  *)
(* gone from STACKIT.                                                      *)
Stages == {"none", "made", "held", "lost", "gone"}

TypeOK == object \in {"absent", "wanted", "going"} /\ stage \in [Ids -> Stages]

Init == object = "absent" /\ stage = [i \in Ids |-> "none"]

-----------------------------------------------------------------------------
(* Nothing in STACKIT depends on the object. *)
Free == \A i \in Ids : stage[i] \notin {"made", "held"}

(* The user asks for the object, or changes their mind. *)
Apply == object = "absent" /\ object' = "wanted" /\ UNCHANGED stage

Delete == object = "wanted" /\ object' = "going" /\ UNCHANGED stage

(* The object goes - at once, or at the end of its deletion - but never    *)
(* before the resource it stands for.                                      *)
Remove ==
  /\ object \in {"wanted", "going"}
  /\ Free
  /\ object' = "absent"
  /\ UNCHANGED stage

(* A resource is made only for an object that has none, and the operator   *)
(* knows its ID, unless the reply was lost.                                *)
Make(i) ==
  /\ object # "absent"
  /\ Free
  /\ stage[i] = "none"
  /\ \E s \in {"made", "lost"} : stage' = [stage EXCEPT ![i] = s]
  /\ UNCHANGED object

(* The ID is recorded, or lost with a failed write. *)
Record(i) ==
  /\ stage[i] = "made"
  /\ \E s \in {"held", "lost"} : stage' = [stage EXCEPT ![i] = s]
  /\ UNCHANGED object

(* The resource goes, because it was deleted or for a reason of its own. *)
Vanish(i) ==
  /\ stage[i] \in {"made", "held", "lost"}
  /\ stage' = [stage EXCEPT ![i] = "gone"]
  /\ UNCHANGED object

Next ==
  \/ Apply \/ Delete \/ Remove
  \/ \E i \in Ids : Make(i) \/ Record(i) \/ Vanish(i)

Spec == Init /\ [][Next]_vars

-----------------------------------------------------------------------------
(* An object holds one resource at a time, and one that is absent none.    *)
OneAtMost ==
  \A i, j \in Ids :
    stage[i] \in {"made", "held"} =>
      /\ object # "absent"
      /\ stage[j] \in {"made", "held"} => i = j
=============================================================================
