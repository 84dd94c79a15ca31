-------------------------- MODULE VolumeController --------------------------
(***************************************************************************)
(* The Volume reconciler (internal/controller/volume_controller.go) for    *)
(* one Volume object, with the STACKIT volumes it creates or adopts.       *)
(*                                                                         *)
(* A spec is abstracted to spec.existingId, spec.size (0 when unset) and   *)
(* one value, meta, for the fields an UpdateVolume call corrects (name,    *)
(* description, bootable, labels).  A Ready condition is its reason and    *)
(* the generation it was set at; its status follows from the reason.       *)
(***************************************************************************)
EXTENDS Lifecycle

CONSTANTS
  Ids,            \* IDs STACKIT gives to the volumes it creates, each once
  Foreign,        \* ID of a volume that exists without the operator
  Metas,          \* values of the metadata fields
  SettledStates,  \* states a volume may reach when an operation on it ends
  OutageStates    \* states a volume may be put in behind the operator's back

VARIABLE cloud    \* [Ids \cup {Foreign} -> volume]: the volumes in STACKIT

vars == <<api, cache, watch, queued, left, w, cloud>>

-----------------------------------------------------------------------------
volumeTransitionalStates ==
  {"CREATING", "ATTACHING", "DETACHING", "DOWNLOADING", "BACKING-UP",
   "RESIZING", "RESTORING-BACKUP", "RETYPING", "UPLOADING",
   "AWAITING-TRANSFER", "MAINTENANCE", "RESERVED"}

(* The states whose name starts with ERROR. *)
ErrorStates == {"ERROR", "ERROR_RESIZING", "ERROR_DELETING"}

(* The states STACKIT reports, and the two in which it answers 404. *)
States == volumeTransitionalStates \cup ErrorStates
            \cup {"AVAILABLE", "ATTACHED", "DELETING"}
Absent == {"none", "gone"}

Reasons == {"", "NotFound", "CreateFailed", "Creating", "Transitioning",
            "Error", "Available", "Attached", "Unknown", "Deleting"}

Statuses == [id: Ids \cup {Foreign, NoId}, state: States \cup {""}, size: Nat,
             observedGeneration: Nat, reason: Reasons, condGen: Nat]

NoStatus == [id |-> NoId, state |-> "", size |-> 0, observedGeneration |-> 0,
             reason |-> "", condGen |-> 0]

Calls == {"addFinalizer", "dropFinalizer", "adoptGet", "recheck", "create",
          "get", "resize", "update", "delGet", "delete", "write"}

(* spec.existingId, or NoId, and what an owned volume should look like. *)
VolumeSpec == [existing: {NoId, Foreign}, size: Nat, meta: Metas]

ASSUME VolumeAssumption ==
  /\ Foreign \notin Ids
  /\ NoId \notin Ids \cup {Foreign}
  /\ Specs \subseteq VolumeSpec
  /\ Metas # {}
  /\ SettledStates \subseteq States
  /\ OutageStates \subseteq States \cup {"gone"}

Volumes == [state: States \cup Absent, size: Nat, meta: Metas]

Init ==
  /\ KubeInit(NoStatus)
  /\ w = [m \in Managers |-> Idle(NoStatus)]
  /\ cloud = [i \in Ids \cup {Foreign} |->
                [state |-> IF i = Foreign THEN "AVAILABLE" ELSE "none",
                 size |-> IF i = Foreign THEN 1 ELSE 0,
                 meta |-> CHOOSE x \in Metas : TRUE]]

-----------------------------------------------------------------------------
(* Building blocks of the reconciler. *)

Adopted(o) == isAdopted(o.spec.existing)

(* Defect: the 404 of a deleted volume is not recognised. *)
IsNotFound_Missed(i) == cloud[i].state = "none"

(* stackit.IsNotFound of what a call on volume i returns. *)
IsNotFound(i) == cloud[i].state \in Absent

applyVolumeStatus(o, st, current) ==
  [st EXCEPT !.state = current.state, !.size = current.size,
             !.observedGeneration = o.gen]

setReadyCondition(o, st, reason) ==
  [st EXCEPT !.reason = reason, !.condGen = o.gen]

(* The condition that reports an observed state when nothing is corrected. *)
ObservedReason(state) ==
  CASE state \in volumeTransitionalStates -> "Transitioning"
    [] state \in ErrorStates              -> "Error"
    [] state = "AVAILABLE"                -> "Available"
    [] state = "ATTACHED"                 -> "Attached"
    [] OTHER                              -> "Unknown"

(* Defect: the finalizer goes once the deletion has been asked for. *)
reconcileDelete_NoWait(o) ==
  IF ~ o.finalizer                                           THEN "idle"
  ELSE IF o.status.id = NoId \/ o.status.reason = "Deleting" THEN "dropFinalizer"
  ELSE "delGet"

(* reconcileDelete up to its first call. *)
reconcileDelete(o) ==
  IF ~ o.finalizer           THEN "idle"
  ELSE IF o.status.id = NoId THEN "dropFinalizer"
  ELSE "delGet"

(* Defects: the finalizer is added after the create; the create is not     *)
(* preceded by idAlreadyPresent; a volume in an error state is deleted.    *)
reconcile_LateFinalizer(o) ==
  IF ~ o.exists              THEN "idle"
  ELSE IF o.deleting         THEN reconcileDelete(o)
  ELSE IF o.status.id = NoId THEN "recheck"
  ELSE IF ~ o.finalizer      THEN "addFinalizer"
  ELSE "get"

reconcile_NoRecheck(o) ==
  IF ~ o.exists              THEN "idle"
  ELSE IF o.deleting         THEN reconcileDelete(o)
  ELSE IF ~ o.finalizer      THEN "addFinalizer"
  ELSE IF o.status.id = NoId THEN "create"
  ELSE "get"

reconcile_DeleteOnError(o) ==
  IF ~ o.exists                     THEN "idle"
  ELSE IF o.deleting                THEN reconcileDelete(o)
  ELSE IF ~ o.finalizer             THEN "addFinalizer"
  ELSE IF o.status.id = NoId        THEN "recheck"
  ELSE IF o.status.reason = "Error" THEN "delGet"
  ELSE "get"

(* reconcile up to its first call, for the object o just read. *)
reconcile(o) ==
  IF ~ o.exists                            THEN "idle"
  ELSE IF o.deleting                       THEN reconcileDelete(o)
  ELSE IF ~ Adopted(o) /\ ~ o.finalizer    THEN "addFinalizer"
  ELSE IF o.status.id = NoId /\ Adopted(o) THEN "adoptGet"
  ELSE IF o.status.id = NoId               THEN "recheck"
  ELSE "get"

(* Defect: a volume larger than asked for counts as in sync. *)
reconcileDrift_GrowOnly(o, current) ==
  IF current.size < o.spec.size      THEN "resize"
  ELSE IF current.meta # o.spec.meta THEN "update"
  ELSE "none"

(* What reconcileDrift corrects first, if anything, in the observed volume. *)
reconcileDrift(o, current) ==
  IF o.spec.size > 0 /\ current.size # o.spec.size THEN "resize"
  ELSE IF current.meta # o.spec.meta               THEN "update"
  ELSE "none"

-----------------------------------------------------------------------------
(* One reconcile of manager m: it takes the key from the queue, reads the  *)
(* object from its cache, and makes the calls below one at a time.         *)
Reconcile(m) ==
  /\ w[m].pc = "idle"
  /\ queued[m]
  /\ queued' = [queued EXCEPT ![m] = FALSE]
  /\ w' = [w EXCEPT ![m] = IF reconcile(cache[m]) = "idle" THEN Idle(NoStatus)
                           ELSE WorkingOn(reconcile(cache[m]), cache[m])]
  /\ UNCHANGED <<api, cache, watch, left, cloud>>

AddFinalizer(m) == ensureFinalizer(m, NoStatus) /\ UNCHANGED cloud

DropFinalizer(m) == removeFinalizerAndUpdate(m, NoStatus) /\ UNCHANGED cloud

(* GetVolume in reconcileCreate, for an adopted volume. *)
AdoptGet(m) ==
  LET o == w[m].obj  id == o.spec.existing
  IN  /\ w[m].pc = "adoptGet"
      /\ SaveStatus(m,
           IF IsNotFound(id)
             THEN setReadyCondition(o, o.status, "NotFound")
             ELSE applyVolumeStatus(o, [o.status EXCEPT !.id = id], cloud[id]),
           NoStatus)
      /\ UNCHANGED <<api, cache, watch, left, cloud>>

Recheck(m) == idAlreadyPresent(m, FALSE, NoStatus) /\ UNCHANGED cloud

(* The ID STACKIT gives next; which one it is does not matter. *)
FreshId == CHOOSE i \in Ids : cloud[i].state = "none"

(* STACKIT makes volume i, with a fresh ID, from the spec of o. *)
CreateVolume(i, o) ==
  /\ cloud[i].state = "none"
  /\ i = FreshId
  /\ cloud' = [cloud EXCEPT ![i] = [state |-> "CREATING", size |-> o.spec.size,
                                    meta |-> o.spec.meta]]

(* The last part of reconcileCreate: the create call answers with an ID... *)
CreateSucceeds(m) ==
  LET o == w[m].obj
  IN  /\ w[m].pc = "create"
      /\ o.spec.size > 0
      /\ \E i \in Ids :
           /\ CreateVolume(i, o)
           /\ SaveStatus(m,
                setReadyCondition(o,
                  applyVolumeStatus(o, [o.status EXCEPT !.id = i], cloud'[i]),
                  "Creating"),
                NoStatus)
      /\ UNCHANGED <<api, cache, watch, left>>

(* ...or with an error: STACKIT refuses a volume without a size, the call  *)
(* fails, or it fails after STACKIT has made the volume...                 *)
CreateFailed(m) ==
  LET o == w[m].obj
  IN  /\ w[m].pc = "create"
      /\ \/ o.spec.size = 0 /\ UNCHANGED <<cloud, left>>
         \/ Spend("faults") /\ UNCHANGED cloud
         \/ /\ Spend("faults")
            /\ o.spec.size > 0
            /\ \E i \in Ids : CreateVolume(i, o)
      /\ SaveStatus(m, setReadyCondition(o, o.status, "CreateFailed"), NoStatus)
      /\ UNCHANGED <<api, cache, watch>>

(* ...or without an ID. *)
CreateWithoutId(m) ==
  /\ w[m].pc = "create"
  /\ Spend("faults")
  /\ w[m].obj.spec.size > 0
  /\ \E i \in Ids : CreateVolume(i, w[m].obj)
  /\ Return(m, TRUE, NoStatus)
  /\ UNCHANGED <<api, cache, watch>>

-----------------------------------------------------------------------------
(* Defect: an owned volume that is gone keeps its ID. *)
NotFoundStatus_KeepsId(o) == setReadyCondition(o, o.status, "NotFound")

(* The status of a volume that is gone: an adopted one is reported, an     *)
(* owned one loses its ID, to be made again.                               *)
NotFoundStatus(o) ==
  setReadyCondition(o,
    IF Adopted(o) THEN o.status ELSE [o.status EXCEPT !.id = NoId], "NotFound")

(* GetVolume in reconcileExisting. *)
ObserveMissing(m) ==
  LET o == w[m].obj
  IN  /\ w[m].pc = "get"
      /\ IsNotFound(o.status.id)
      /\ SaveStatus(m, NotFoundStatus(o), NoStatus)
      /\ UNCHANGED <<api, cache, watch, left, cloud>>

(* Defect: drift is corrected in adopted volumes too. *)
MustNotCorrect_Adopted(o, current) ==
  \/ current.state \in volumeTransitionalStates \cup ErrorStates
  \/ reconcileDrift(o, current) = "none"

(* A volume whose state, or the lack of drift in it, calls for no change. *)
MustNotCorrect(o, current) ==
  \/ current.state \in volumeTransitionalStates \cup ErrorStates
  \/ Adopted(o)
  \/ reconcileDrift(o, current) = "none"

ObserveVolume(m) ==
  LET o == w[m].obj  current == cloud[o.status.id]
  IN  /\ w[m].pc = "get"
      /\ ~ IsNotFound(o.status.id)
      /\ MustNotCorrect(o, current)
      /\ SaveStatus(m,
           setReadyCondition(o, applyVolumeStatus(o, o.status, current),
                             ObservedReason(current.state)),
           NoStatus)
      /\ UNCHANGED <<api, cache, watch, left, cloud>>

(* A volume that differs from the spec: the next call corrects it. *)
ObserveDrift(m) ==
  LET o == w[m].obj  current == cloud[o.status.id]
  IN  /\ w[m].pc = "get"
      /\ ~ IsNotFound(o.status.id)
      /\ ~ MustNotCorrect(o, current)
      /\ w' = [w EXCEPT ![m].pc = reconcileDrift(o, current)]
      /\ UNCHANGED <<api, cache, watch, queued, left, cloud>>

(* ResizeVolume: STACKIT only grows a volume, and only one at rest.  A     *)
(* refusal is an error, returned before any status is written.             *)
ResizeVolume(m) ==
  LET o == w[m].obj  i == o.status.id
  IN  /\ w[m].pc = "resize"
      /\ cloud' = IF /\ cloud[i].state \in {"AVAILABLE", "ATTACHED"}
                     /\ o.spec.size > cloud[i].size
                    THEN [cloud EXCEPT ![i].state = "RESIZING",
                                       ![i].size = o.spec.size]
                    ELSE cloud
      /\ Return(m, TRUE, NoStatus)
      /\ UNCHANGED <<api, cache, watch, left>>

(* UpdateVolume: an error if the volume is gone. *)
UpdateVolume(m) ==
  LET o == w[m].obj  i == o.status.id
  IN  /\ w[m].pc = "update"
      /\ cloud' = IF IsNotFound(i) THEN cloud
                  ELSE [cloud EXCEPT ![i].meta = o.spec.meta]
      /\ Return(m, TRUE, NoStatus)
      /\ UNCHANGED <<api, cache, watch, left>>

-----------------------------------------------------------------------------
(* GetVolume in reconcileDelete: the finalizer goes only once STACKIT      *)
(* answers 404; a volume not yet in deletion is deleted.                   *)
DeleteGet(m) ==
  LET o == w[m].obj  i == o.status.id
      st == applyVolumeStatus(o, o.status, cloud[i])
  IN  /\ w[m].pc = "delGet"
      /\ \/ /\ IsNotFound(i)
            /\ w' = [w EXCEPT ![m].pc = "dropFinalizer"]
            /\ UNCHANGED queued
         \/ /\ ~ IsNotFound(i)
            /\ cloud[i].state # "DELETING"
            /\ w' = [w EXCEPT ![m].pc = "delete", ![m].st = st]
            /\ UNCHANGED queued
         \/ /\ cloud[i].state = "DELETING"
            /\ SaveStatus(m, setReadyCondition(o, st, "Deleting"), NoStatus)
      /\ UNCHANGED <<api, cache, watch, left, cloud>>

(* stackit.IsConflict of a delete: the volume is in use or busy. *)
IsConflict(i) == cloud[i].state \in volumeTransitionalStates \cup {"ATTACHED"}

(* DeleteVolume: accepted, refused with 409 or answered with 404, the      *)
(* reconcile goes on to report Deleting and polls.                         *)
DeleteVolume(m) ==
  LET i == w[m].obj.status.id
  IN  /\ w[m].pc = "delete"
      /\ cloud' = IF IsNotFound(i) \/ IsConflict(i) THEN cloud
                  ELSE [cloud EXCEPT ![i].state = "DELETING"]
      /\ SaveStatus(m, setReadyCondition(w[m].obj, w[m].st, "Deleting"), NoStatus)
      /\ UNCHANGED <<api, cache, watch, left>>

WriteBack(m) == StatusUpdate(m, TRUE, NoStatus) /\ UNCHANGED cloud

Fail(m) == CallFails(m, NoStatus) /\ UNCHANGED cloud

Crash(m) == Restart(m, NoStatus) /\ UNCHANGED cloud

-----------------------------------------------------------------------------
(* STACKIT finishes what it is doing to volume i. *)
Settle(i) ==
  /\ \/ /\ cloud[i].state \in volumeTransitionalStates
        /\ \E s \in SettledStates : cloud' = [cloud EXCEPT ![i].state = s]
     \/ /\ cloud[i].state = "DELETING"
        /\ cloud' = [cloud EXCEPT ![i].state = "gone"]
  /\ UNCHANGED <<api, cache, watch, queued, left, w>>

(* Someone, or a failure in STACKIT, changes volume i out of band. *)
OutOfBand(i) ==
  /\ ~ IsNotFound(i)
  /\ Spend("outages")
  /\ \/ \E s \in OutageStates : cloud' = [cloud EXCEPT ![i].state = s]
     \/ \E x \in Metas : cloud' = [cloud EXCEPT ![i].meta = x]
  /\ UNCHANGED <<api, cache, watch, queued, w>>

(* Users may not change existingId (README: unsupported). *)
User ==
  /\ \/ \E s \in Specs : UserCreate(s, NoStatus)
     \/ \E s \in Specs : s.existing = api.spec.existing /\ UserEdit(s)
     \/ UserDelete
  /\ UNCHANGED <<w, cloud>>

Informer(m) == (Sync(m) \/ Resync(m)) /\ UNCHANGED <<w, cloud>>

(* The calls of a reconcile, without failures. *)
Step(m) ==
  \/ AddFinalizer(m) \/ DropFinalizer(m) \/ AdoptGet(m) \/ Recheck(m)
  \/ CreateSucceeds(m) \/ CreateFailed(m)
  \/ ObserveMissing(m) \/ ObserveVolume(m) \/ ObserveDrift(m)
  \/ ResizeVolume(m) \/ UpdateVolume(m)
  \/ DeleteGet(m) \/ DeleteVolume(m) \/ WriteBack(m)

Next ==
  \/ User
  \/ \E m \in Managers :
       Informer(m) \/ Reconcile(m) \/ Step(m) \/ CreateWithoutId(m)
         \/ Fail(m) \/ Crash(m)
  \/ \E i \in Ids : Settle(i)
  \/ \E i \in Ids \cup {Foreign} : OutOfBand(i)

Spec == Init /\ [][Next]_vars

(* A manager keeps working off its queue and receiving events, a call of a *)
(* reconcile returns, and STACKIT finishes what it started.  Nothing makes *)
(* a user act, a resync come, or a call fail.                              *)
Fairness ==
  /\ \A m \in Managers :
       WF_vars(Reconcile(m)) /\ WF_vars(Step(m)) /\ WF_vars(Sync(m) /\ UNCHANGED <<w, cloud>>)
  /\ \A i \in Ids : WF_vars(Settle(i))

FairSpec == Spec /\ Fairness

-----------------------------------------------------------------------------
(***************************************************************************)
(* Properties.                                                             *)
(***************************************************************************)

TypeOK ==
  /\ KubeTypeOK(Statuses)
  /\ w \in [Managers -> Workers(Statuses, Calls)]
  /\ cloud \in [Ids \cup {Foreign} -> Volumes]

Live(i) == ~ IsNotFound(i)

(* The object records i as its volume. *)
Recorded(i) == api.exists /\ api.status.id = i

(* Manager m has just had volume i made and is about to record it. *)
InHand(m, i) == w[m].pc = "write" /\ w[m].st.id = i /\ w[m].obj.status.id = NoId

Orphan(i) == Live(i) /\ ~ Recorded(i) /\ \A m \in Managers : ~ InHand(m, i)

(* A volume the operator made costs money until it is deleted, and the ID  *)
(* in .status is the only way back to it.  reconcileCreate, the NotFound   *)
(* branch of reconcileExisting and reconcileDelete together lose track of  *)
(* a live volume in three ways only: the reply to the create was lost or   *)
(* had no ID; the status write after it was lost (a conflict, a failure, a *)
(* crash); or the object went while it had no finalizer.                   *)
OrphanOnlyFromLostWrite ==
  [][\A i \in Ids :
       Orphan(i)' =>
         \/ Orphan(i)
         \/ cloud[i].state = "none" /\ left'.faults < left.faults
         \/ \E m \in Managers : InHand(m, i) /\ w'[m].pc = "idle"
         \/ Recorded(i) /\ ~ api.finalizer /\ ~ api'.exists]_vars

(* idAlreadyPresent keeps a reconcile that read a stale cache from making  *)
(* a second volume: with one manager, no volume is made while the object   *)
(* records a volume that is still there.                                   *)
NoDuplicateCreate ==
  [][\A i \in Ids :
       cloud[i].state = "none" /\ cloud'[i].state # "none"
         => \A j \in Ids : ~ (Recorded(j) /\ Live(j))]_vars

(* With one manager, an object that records a volume of the operator's     *)
(* carries the finalizer, across restarts, deletions and re-creations, so  *)
(* that kubectl delete cannot remove it before its volume is gone.         *)
FinalizerCoversRecorded ==
  \A i \in Ids : Recorded(i) => api.finalizer

(* A volume of the operator's is put in deletion, resized or updated only  *)
(* for the object that records it, and deleted only while that object is   *)
(* being deleted, however stale the copy that the worker acts on.          *)
OnlyRecordedTouched ==
  [][\A i \in Ids, m \in Managers :
       Live(i) /\ cloud'[i] # cloud[i] /\ w'[m] # w[m]
         => /\ Recorded(i)
            /\ cloud[i].state # "DELETING" /\ cloud'[i].state = "DELETING"
                 => api.deleting]_vars

(* A volume named by spec.existingId is only observed: only STACKIT itself *)
(* or a third party changes it, and its object never gets the finalizer.   *)
AdoptedUntouched ==
  [][/\ cloud'[Foreign] # cloud[Foreign] => left'.outages < left.outages
     /\ api'.exists /\ isAdopted(api'.spec.existing) => ~ api'.finalizer]_vars

IsReady(st) == st.reason \in {"Available", "Attached"}

(* A Ready condition of the current generation is not stale: the volume it *)
(* reports had the size the spec asks for, whatever edits were made while  *)
(* the reconcile was under way.                                            *)
ReadyInSync ==
  LET st == api.status
  IN  /\ api.exists /\ ~ Adopted(api) /\ api.spec.size > 0
      /\ IsReady(st) /\ st.condGen = api.gen
      => st.size = api.spec.size /\ st.id # NoId

(* kubectl delete of a Volume is eventually carried out, unless the volume *)
(* stays attached to a server: once users and failures are done, no object *)
(* stays in deletion.                                                      *)
DeletionCompletes ==
  <>[](api.exists /\ api.deleting
         => \E i \in Ids : Recorded(i) /\ cloud[i].state = "ATTACHED")

(* Volume i is there and .status tells its state, its size, and a condition *)
(* about the current spec.                                                 *)
Mirrored(i) ==
  /\ Recorded(i)
  /\ Live(i)
  /\ api.status.state = cloud[i].state
  /\ api.status.size = cloud[i].size
  /\ api.status.condGen = api.gen

(* The spec asks for a smaller volume, which STACKIT refuses each time.    *)
ShrinkRefused(i) ==
  /\ Recorded(i)
  /\ cloud[i].state \in {"AVAILABLE", "ATTACHED"}
  /\ api.spec.size > 0 /\ cloud[i].size > api.spec.size

(* STACKIT refuses to make a volume without a size, and the object says so. *)
RefusalReported ==
  /\ api.spec.size = 0
  /\ api.status.id = NoId
  /\ api.status.reason = "CreateFailed" /\ api.status.condGen = api.gen

(* An owned Volume that is wanted ends up with a volume, mirrored in       *)
(* .status, after an edit, a failed call, a lost reply, a restart or a     *)
(* loss out of band.  A size that STACKIT refuses at the create is         *)
(* reported; one that it refuses afterwards is excepted, since reconcile-  *)
(* Existing then returns before it writes .status.                         *)
EventuallyMirrored ==
  <>[](api.exists /\ ~ Adopted(api) /\ ~ api.deleting =>
         RefusalReported \/ \E i \in Ids : Mirrored(i) \/ ShrinkRefused(i))

(* README, "API": a finalizer guarantees deletion follows kubectl delete.  *)
(* Once the object is gone and no reconcile is under way, no volume made   *)
(* for it should be left in STACKIT; but one whose ID was lost in a status *)
(* conflict after the create is.                                           *)
FinalizerGuaranteesDeletion ==
  ~ api.exists /\ (\A m \in Managers : w[m].pc = "idle")
    => \A i \in Ids : IsNotFound(i)

-----------------------------------------------------------------------------
(* The object and its volumes as OwnedResource sees them. *)
Promised ==
  IF ~ api.exists      THEN "absent"
  ELSE IF api.deleting THEN "going"
  ELSE "wanted"

Stage(i) ==
  IF cloud[i].state = "none"               THEN "none"
  ELSE IF IsNotFound(i)                    THEN "gone"
  ELSE IF Recorded(i)                      THEN "held"
  ELSE IF \E m \in Managers : InHand(m, i) THEN "made"
  ELSE "lost"

Owned == INSTANCE OwnedResource WITH
  object <- Promised, stage <- [i \in Ids |-> Stage(i)]

(* With one manager, the controller keeps the promises of OwnedResource:   *)
(* across stale reads, conflicts, failures, restarts and loss out of band, *)
(* a volume is made only for an object without one, the object goes only   *)
(* after the volume it records, and a volume is lost only while its ID     *)
(* is on the way.                                                          *)
ImplementsOwned == Owned!Spec
=============================================================================
