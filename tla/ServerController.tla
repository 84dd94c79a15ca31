-------------------------- MODULE ServerController --------------------------
(***************************************************************************)
(* The Server reconciler (internal/controller/server_controller.go) for    *)
(* one Server object, with the STACKIT servers it creates and the Network  *)
(* and Volume objects it may refer to.                                     *)
(*                                                                         *)
(* A spec is abstracted to which references it sets, machineType,          *)
(* powerState and one value, meta, for name and labels.  A Ready condition *)
(* is its reason and the generation it was set at.                         *)
(***************************************************************************)
EXTENDS Lifecycle

CONSTANTS
  Ids,            \* IDs STACKIT gives to the servers it creates, each once
  MachineTypes,   \* machine types
  Metas,          \* values of name and labels
  SettledPower,   \* power states a created or updated server may come up in
  OutageStates,   \* states a server may be put in behind the operator's back
  OutageViews     \* what the referenced objects may change to after all

VARIABLES
  cloud,          \* [Ids -> server]: the servers in STACKIT
  refs            \* [Managers -> view]: the referenced objects, as cached

vars == <<api, cache, watch, queued, left, w, cloud, refs>>

-----------------------------------------------------------------------------
transitionalStates ==
  {"CREATING", "STARTING", "STOPPING", "RESIZING", "DELETING", "UPDATING",
   "REBOOT", "REBOOTING", "REBUILD", "REBUILDING", "RESCUE", "RESCUING",
   "RESTORING", "SNAPSHOTTING", "MIGRATING", "BACKING-UP", "UNRESCUING",
   "DEALLOCATING"}

States == transitionalStates
            \cup {"ACTIVE", "INACTIVE", "ERROR", "PAUSED", "DEALLOCATED"}
Absent == {"none", "gone"}

PowerStatuses == {"", "RUNNING", "STOPPED", "CRASHED"}

Reasons == {"", "NotFound", "CreateFailed", "Creating", "Transitioning",
            "Error", "Active", "Inactive", "Unknown", "Deleting",
            "WaitingForReference", "InvalidReference"}

Statuses == [id: Ids \cup {NoId}, state: States \cup {""},
             powerStatus: PowerStatuses, machineType: MachineTypes \cup {""},
             observedGeneration: Nat, reason: Reasons, condGen: Nat]

NoStatus == [id |-> NoId, state |-> "", powerStatus |-> "", machineType |-> "",
             observedGeneration |-> 0, reason |-> "", condGen |-> 0]

Calls == {"addFinalizer", "dropFinalizer", "recheck", "create", "get",
          "resize", "stop", "start", "update", "delGet", "delete", "write"}

Servers == [state: States \cup Absent, power: PowerStatuses,
            machineType: MachineTypes, meta: Metas]

(* A referenced Network or Volume may be missing, have no ID yet, have one *)
(* and be in the making, or be Ready.                                      *)
Views == [network: {"missing", "noId", "CREATING", "CREATED"},
          volume: {"missing", "noId", "CREATING", "AVAILABLE"}]
AllReady == [network |-> "CREATED", volume |-> "AVAILABLE"]

ServerSpec == [imageId: BOOLEAN, networkId: BOOLEAN, networkRef: BOOLEAN,
               bootVolumeRef: BOOLEAN, machineType: MachineTypes,
               powerState: {"Active", "Inactive"}, meta: Metas]

(* The CRD requires a machine type. *)
ASSUME ServerAssumption ==
  /\ NoId \notin Ids
  /\ Specs \subseteq ServerSpec
  /\ MachineTypes # {} /\ "" \notin MachineTypes
  /\ Metas # {}
  /\ SettledPower \subseteq {"RUNNING", "CRASHED"}
  /\ OutageStates \subseteq States \cup {"gone"}
  /\ OutageViews \subseteq Views

Init ==
  /\ KubeInit(NoStatus)
  /\ w = [m \in Managers |-> Idle(NoStatus)]
  /\ cloud = [i \in Ids |-> [state |-> "none", power |-> "",
                             machineType |-> CHOOSE t \in MachineTypes : TRUE,
                             meta |-> CHOOSE x \in Metas : TRUE]]
  /\ refs = [m \in Managers |-> [network |-> "missing", volume |-> "missing"]]

-----------------------------------------------------------------------------
(* Building blocks of the reconciler. *)

(* Defect: the 404 of a deleted server is not recognised. *)
IsNotFound_Missed(i) == cloud[i].state = "none"

(* stackit.IsNotFound of what a call on server i returns. *)
IsNotFound(i) == cloud[i].state \in Absent

applyServerStatus(o, st, current) ==
  [st EXCEPT !.state = current.state, !.powerStatus = current.power,
             !.machineType = current.machineType, !.observedGeneration = o.gen]

setReadyCondition(o, st, reason) ==
  [st EXCEPT !.reason = reason, !.condGen = o.gen]

(* The condition that reports an observed state when nothing is corrected. *)
ObservedReason(state) ==
  CASE state \in transitionalStates -> "Transitioning"
    [] state = "ERROR"              -> "Error"
    [] state = "ACTIVE"             -> "Active"
    [] state = "INACTIVE"           -> "Inactive"
    [] OTHER                        -> "Unknown"

(* The resolvers: an error, not ready yet, or an ID to use. *)
resolveImage(s) == IF s.imageId \/ s.bootVolumeRef THEN "ready" ELSE "error"

(* A Network needs only an ID, which it has while it is being made.        *)
resolveNetworkRef(s, view) ==
  IF s.networkId = s.networkRef                   THEN "error"
  ELSE IF s.networkId                             THEN "ready"
  ELSE IF view.network \in {"CREATING", "CREATED"} THEN "ready"
  ELSE "wait"

resolveBootVolumeRef(s, view) ==
  IF s.bootVolumeRef /\ view.volume # "AVAILABLE" THEN "wait" ELSE "ready"

(* Defect: a reference that is not ready yet counts as an invalid one. *)
Resolved_NeverWaits(s, view) ==
  IF {resolveImage(s), resolveNetworkRef(s, view), resolveBootVolumeRef(s, view)}
       = {"ready"}
    THEN "ready" ELSE "InvalidReference"

(* What reconcileCreate concludes from the three. *)
Resolved(s, view) ==
  LET all == {resolveImage(s), resolveNetworkRef(s, view),
              resolveBootVolumeRef(s, view)}
  IN  IF "error" \in all     THEN "InvalidReference"
      ELSE IF "wait" \in all THEN "WaitingForReference"
      ELSE "ready"

(* Defect: the finalizer goes once the deletion has been asked for. *)
reconcileDelete_NoWait(o) ==
  IF ~ o.finalizer                                           THEN "idle"
  ELSE IF o.status.id = NoId \/ o.status.reason = "Deleting" THEN "dropFinalizer"
  ELSE "delGet"

(* reconcileDelete up to its first call. *)
reconcileDelete(o) ==
  IF ~ o.finalizer           THEN "idle"
  ELSE IF o.status.id = NoId THEN "dropFinalizer"
  ELSE "delGet"

(* Defect: the create is not preceded by idAlreadyPresent. *)
reconcile_NoRecheck(o) ==
  IF ~ o.exists              THEN "idle"
  ELSE IF o.deleting         THEN reconcileDelete(o)
  ELSE IF ~ o.finalizer      THEN "addFinalizer"
  ELSE IF o.status.id = NoId THEN "create"
  ELSE "get"

(* reconcile up to its first call, for the object o just read. *)
reconcile(o) ==
  IF ~ o.exists              THEN "idle"
  ELSE IF o.deleting         THEN reconcileDelete(o)
  ELSE IF ~ o.finalizer      THEN "addFinalizer"
  ELSE IF o.status.id = NoId THEN "recheck"
  ELSE "get"

(* Defect: the power state is taken from the status, not from STACKIT. *)
reconcileDrift_StalePower(o, current) ==
  IF current.machineType # o.spec.machineType                                THEN "resize"
  ELSE IF o.spec.powerState = "Inactive" /\ o.status.powerStatus = "RUNNING" THEN "stop"
  ELSE IF o.spec.powerState = "Active" /\ o.status.powerStatus = "STOPPED"   THEN "start"
  ELSE IF current.meta # o.spec.meta                                         THEN "update"
  ELSE "none"

(* What reconcileDrift corrects first, if anything, in the observed server. *)
reconcileDrift(o, current) ==
  IF current.machineType # o.spec.machineType                         THEN "resize"
  ELSE IF o.spec.powerState = "Inactive" /\ current.power = "RUNNING" THEN "stop"
  ELSE IF o.spec.powerState = "Active" /\ current.power = "STOPPED"   THEN "start"
  ELSE IF current.meta # o.spec.meta                                  THEN "update"
  ELSE "none"

-----------------------------------------------------------------------------
(* One reconcile of manager m: it takes the key from the queue, reads the  *)
(* object from its cache, and makes the calls below one at a time.         *)
Reconcile(m) ==
  /\ w[m].pc = "idle"
  /\ queued[m]
  /\ queued' = [queued EXCEPT ![m] = FALSE]
  /\ w' = [w EXCEPT ![m] = IF reconcile(cache[m]) = "idle" THEN Idle(NoStatus)
                           ELSE WorkingOn(reconcile(cache[m]), cache[m])]
  /\ UNCHANGED <<api, cache, watch, left, cloud, refs>>

AddFinalizer(m) == ensureFinalizer(m, NoStatus) /\ UNCHANGED <<cloud, refs>>

DropFinalizer(m) ==
  removeFinalizerAndUpdate(m, NoStatus) /\ UNCHANGED <<cloud, refs>>

(* The first part of reconcileCreate: the re-read, and the references of   *)
(* the object as re-read, resolved from the cache.  All of them ready, the *)
(* create call comes next...                                               *)
Recheck(m) ==
  /\ api.exists /\ api.status.id = NoId => Resolved(api.spec, refs[m]) = "ready"
  /\ idAlreadyPresent(m, TRUE, NoStatus)
  /\ UNCHANGED <<cloud, refs>>

(* ...otherwise the status says why not.  Only a reference that is not     *)
(* ready is polled: invalidReference asks for no requeue.                  *)
Unresolved(m) ==
  LET why == Resolved(api.spec, refs[m])
      st  == setReadyCondition(api, api.status, why)
  IN  /\ w[m].pc = "recheck"
      /\ api.exists
      /\ api.status.id = NoId
      /\ why # "ready"
      /\ IF statusUnchanged(api.status, st)
           THEN Return(m, why = "WaitingForReference", NoStatus)
           ELSE /\ w' = [w EXCEPT ![m] = [pc |-> "write", obj |-> api,
                                          before |-> api.status, st |-> st]]
                /\ UNCHANGED queued
      /\ UNCHANGED <<api, cache, watch, left, cloud, refs>>

(* The ID STACKIT gives next; which one it is does not matter. *)
FreshId == CHOOSE i \in Ids : cloud[i].state = "none"

(* STACKIT makes server i, with a fresh ID, from the spec of o. *)
CreateServer(i, o) ==
  /\ cloud[i].state = "none"
  /\ i = FreshId
  /\ cloud' = [cloud EXCEPT ![i] = [state |-> "CREATING", power |-> "",
                                    machineType |-> o.spec.machineType,
                                    meta |-> o.spec.meta]]

(* STACKIT refuses to boot from a volume that is no longer AVAILABLE. *)
WrongVolumeState(m) ==
  w[m].obj.spec.bootVolumeRef /\ refs[m].volume # "AVAILABLE"

(* The last part of reconcileCreate: the create call answers with an ID... *)
CreateAnswers(m) ==
  LET o == w[m].obj
  IN  /\ w[m].pc = "create"
      /\ \E i \in Ids :
           /\ CreateServer(i, o)
           /\ SaveStatus(m,
                setReadyCondition(o,
                  applyServerStatus(o, [o.status EXCEPT !.id = i], cloud'[i]),
                  "Creating"),
                NoStatus)
      /\ UNCHANGED <<api, cache, watch, left, refs>>

CreateSucceeds(m) == ~ WrongVolumeState(m) /\ CreateAnswers(m)

(* ...or with an error that says STACKIT has refused it...                 *)
CreateRejected(m) ==
  LET o == w[m].obj
  IN  /\ w[m].pc = "create"
      /\ SaveStatus(m, setReadyCondition(o, o.status, "CreateFailed"), NoStatus)
      /\ UNCHANGED <<api, cache, watch, left, cloud, refs>>

CreateRefused(m) == WrongVolumeState(m) /\ CreateRejected(m)

(* ...or with one of a failed call, that may have made the server...       *)
CreateFailed(m) ==
  LET o == w[m].obj
  IN  /\ w[m].pc = "create"
      /\ Spend("faults")
      /\ \/ UNCHANGED cloud
         \/ ~ WrongVolumeState(m) /\ \E i \in Ids : CreateServer(i, o)
      /\ SaveStatus(m, setReadyCondition(o, o.status, "CreateFailed"), NoStatus)
      /\ UNCHANGED <<api, cache, watch, refs>>

(* ...or without an ID. *)
CreateWithoutId(m) ==
  /\ w[m].pc = "create"
  /\ Spend("faults")
  /\ ~ WrongVolumeState(m)
  /\ \E i \in Ids : CreateServer(i, w[m].obj)
  /\ Return(m, TRUE, NoStatus)
  /\ UNCHANGED <<api, cache, watch, refs>>

-----------------------------------------------------------------------------
(* GetServer in reconcileExisting.  A server that is gone loses its ID, to *)
(* be made again.                                                          *)
ObserveMissing(m) ==
  LET o == w[m].obj
  IN  /\ w[m].pc = "get"
      /\ IsNotFound(o.status.id)
      /\ SaveStatus(m, setReadyCondition(o, [o.status EXCEPT !.id = NoId], "NotFound"),
                    NoStatus)
      /\ UNCHANGED <<api, cache, watch, left, cloud, refs>>

(* A server whose state, or the lack of drift in it, calls for no change. *)
MustNotCorrect(o, current) ==
  \/ current.state \in transitionalStates \cup {"ERROR"}
  \/ reconcileDrift(o, current) = "none"

ObserveServer(m) ==
  LET o == w[m].obj  current == cloud[o.status.id]
  IN  /\ w[m].pc = "get"
      /\ ~ IsNotFound(o.status.id)
      /\ MustNotCorrect(o, current)
      /\ SaveStatus(m,
           setReadyCondition(o, applyServerStatus(o, o.status, current),
                             ObservedReason(current.state)),
           NoStatus)
      /\ UNCHANGED <<api, cache, watch, left, cloud, refs>>

(* A server that differs from the spec: the next call corrects it. *)
ObserveDrift(m) ==
  LET o == w[m].obj  current == cloud[o.status.id]
  IN  /\ w[m].pc = "get"
      /\ ~ IsNotFound(o.status.id)
      /\ ~ MustNotCorrect(o, current)
      /\ w' = [w EXCEPT ![m].pc = reconcileDrift(o, current)]
      /\ UNCHANGED <<api, cache, watch, queued, left, cloud, refs>>

(* The server that the reconcile of m observed. *)
Current(m) == cloud[w[m].obj.status.id]

(* A corrective call: STACKIT carries it out on a server in one of the     *)
(* given states and otherwise answers with an error.  Either way the       *)
(* reconcile returns before any status is written.                         *)
Correct(m, call, accepting, corrected) ==
  /\ w[m].pc = call
  /\ cloud' = IF Current(m).state \in accepting
                THEN [cloud EXCEPT ![w[m].obj.status.id] = corrected] ELSE cloud
  /\ Return(m, TRUE, NoStatus)
  /\ UNCHANGED <<api, cache, watch, left, refs>>

ResizeServer(m) ==
  Correct(m, "resize", {"ACTIVE", "INACTIVE"},
          [Current(m) EXCEPT !.state = "RESIZING",
                             !.machineType = w[m].obj.spec.machineType])

StopServer(m) ==
  Correct(m, "stop", {"ACTIVE", "PAUSED"},
          [Current(m) EXCEPT !.state = "STOPPING"])

StartServer(m) ==
  Correct(m, "start", {"ACTIVE", "INACTIVE", "DEALLOCATED"},
          [Current(m) EXCEPT !.state = "STARTING"])

UpdateServer(m) ==
  Correct(m, "update", States, [Current(m) EXCEPT !.meta = w[m].obj.spec.meta])

-----------------------------------------------------------------------------
(* GetServer in reconcileDelete: the finalizer goes only once STACKIT      *)
(* answers 404; a server not yet in deletion is deleted.                   *)
DeleteGet(m) ==
  LET o == w[m].obj  i == o.status.id
      st == applyServerStatus(o, o.status, cloud[i])
  IN  /\ w[m].pc = "delGet"
      /\ \/ /\ IsNotFound(i)
            /\ w' = [w EXCEPT ![m].pc = "dropFinalizer"]
            /\ UNCHANGED queued
         \/ /\ ~ IsNotFound(i)
            /\ cloud[i].state # "DELETING"
            /\ w' = [w EXCEPT ![m].pc = "delete", ![m].st = st]
            /\ UNCHANGED queued
         \/ /\ cloud[i].state = "DELETING"
            /\ SaveStatus(m, setReadyCondition(o, st, "Deleting"), NoStatus)
      /\ UNCHANGED <<api, cache, watch, left, cloud, refs>>

(* DeleteServer: a 404 counts as success; any other error, a 409 for a     *)
(* server that is busy included, ends the reconcile.                       *)
DeleteServer(m) ==
  LET i == w[m].obj.status.id
      busy == cloud[i].state \in transitionalStates \ {"DELETING"}
  IN  /\ w[m].pc = "delete"
      /\ cloud' = IF IsNotFound(i) \/ busy THEN cloud
                  ELSE [cloud EXCEPT ![i].state = "DELETING"]
      /\ IF busy THEN Return(m, TRUE, NoStatus)
         ELSE SaveStatus(m, setReadyCondition(w[m].obj, w[m].st, "Deleting"), NoStatus)
      /\ UNCHANGED <<api, cache, watch, left, refs>>

WriteBack(m) ==
  /\ StatusUpdate(m, w[m].st.reason # "InvalidReference", NoStatus)
  /\ UNCHANGED <<cloud, refs>>

Fail(m) == CallFails(m, NoStatus) /\ UNCHANGED <<cloud, refs>>

Crash(m) == Restart(m, NoStatus) /\ UNCHANGED <<cloud, refs>>

-----------------------------------------------------------------------------
(* STACKIT finishes what it is doing to server i. *)
Settle(i) ==
  LET s == cloud[i]
  IN  /\ s.state \in transitionalStates
      /\ \E p \in SettledPower :
           cloud' = [cloud EXCEPT ![i] =
             CASE s.state = "DELETING" -> [s EXCEPT !.state = "gone"]
               [] s.state = "STOPPING" ->
                    [s EXCEPT !.state = "INACTIVE", !.power = "STOPPED"]
               [] s.state = "RESIZING" /\ s.power = "STOPPED" ->
                    [s EXCEPT !.state = "INACTIVE"]
               [] OTHER -> [s EXCEPT !.state = "ACTIVE", !.power = p]]
      /\ UNCHANGED <<api, cache, watch, queued, left, w, refs>>

(* Someone, or a failure in STACKIT, changes server i out of band. *)
OutOfBand(i) ==
  /\ ~ IsNotFound(i)
  /\ Spend("outages")
  /\ \/ \E s \in OutageStates : cloud' = [cloud EXCEPT ![i].state = s]
     \/ \E x \in Metas : cloud' = [cloud EXCEPT ![i].meta = x]
     \/ \E p \in {"STOPPED", "CRASHED"} :
          /\ cloud[i].state = "ACTIVE"
          /\ cloud' = [cloud EXCEPT ![i].power = p]
  /\ UNCHANGED <<api, cache, watch, queued, w, refs>>

(* The Network and Volume controllers, as m's cache shows it, finish what  *)
(* they do for the referenced objects, or these change in some other way.  *)
ReferencesReady(m) ==
  /\ refs' = [refs EXCEPT ![m] = AllReady]
  /\ UNCHANGED <<api, cache, watch, queued, left, w, cloud>>

ReferencesChange(m) ==
  /\ Spend("outages")
  /\ \E v \in OutageViews : refs' = [refs EXCEPT ![m] = v]
  /\ UNCHANGED <<api, cache, watch, queued, w, cloud>>

User ==
  /\ \/ \E s \in Specs : UserCreate(s, NoStatus)
     \/ \E s \in Specs : UserEdit(s)
     \/ UserDelete
  /\ UNCHANGED <<w, cloud, refs>>

Informer(m) == (Sync(m) \/ Resync(m)) /\ UNCHANGED <<w, cloud, refs>>

(* The calls of a reconcile, without failures. *)
Step(m) ==
  \/ AddFinalizer(m) \/ DropFinalizer(m) \/ Recheck(m) \/ Unresolved(m)
  \/ CreateSucceeds(m) \/ CreateRefused(m)
  \/ ObserveMissing(m) \/ ObserveServer(m) \/ ObserveDrift(m)
  \/ ResizeServer(m) \/ StopServer(m) \/ StartServer(m) \/ UpdateServer(m)
  \/ DeleteGet(m) \/ DeleteServer(m) \/ WriteBack(m)

Next ==
  \/ User
  \/ \E m \in Managers :
       \/ Informer(m) \/ Reconcile(m) \/ Step(m) \/ CreateFailed(m)
       \/ CreateWithoutId(m) \/ Fail(m) \/ Crash(m)
       \/ ReferencesReady(m) \/ ReferencesChange(m)
  \/ \E i \in Ids : Settle(i) \/ OutOfBand(i)

Spec == Init /\ [][Next]_vars

(* As for the Volume controller; the referenced objects become ready. *)
Fairness ==
  /\ \A m \in Managers :
       /\ WF_vars(Reconcile(m)) /\ WF_vars(Step(m))
       /\ WF_vars(Sync(m) /\ UNCHANGED <<w, cloud, refs>>)
       /\ WF_vars(ReferencesReady(m))
  /\ \A i \in Ids : WF_vars(Settle(i))

FairSpec == Spec /\ Fairness

-----------------------------------------------------------------------------
(***************************************************************************)
(* Properties.                                                             *)
(***************************************************************************)

TypeOK ==
  /\ KubeTypeOK(Statuses)
  /\ w \in [Managers -> Workers(Statuses, Calls)]
  /\ cloud \in [Ids -> Servers]
  /\ refs \in [Managers -> Views]

Live(i) == ~ IsNotFound(i)

(* The object records i as its server. *)
Recorded(i) == api.exists /\ api.status.id = i

(* Manager m has just had server i made and is about to record it. *)
InHand(m, i) == w[m].pc = "write" /\ w[m].st.id = i /\ w[m].obj.status.id = NoId

Orphan(i) == Live(i) /\ ~ Recorded(i) /\ \A m \in Managers : ~ InHand(m, i)

(* A live server is lost track of only with the reply to its create, with  *)
(* the status write after it, or with an object that had no finalizer;     *)
(* never by reconcileExisting or reconcileDelete.                          *)
OrphanOnlyFromLostWrite ==
  [][\A i \in Ids :
       Orphan(i)' =>
         \/ Orphan(i)
         \/ cloud[i].state = "none" /\ left'.faults < left.faults
         \/ \E m \in Managers : InHand(m, i) /\ w'[m].pc = "idle"
         \/ Recorded(i) /\ ~ api.finalizer /\ ~ api'.exists]_vars

(* With one manager, no server is made while the object records one that   *)
(* is still there, nor for an object without the finalizer.                *)
CreateOnlyWhenNeeded ==
  [][\A i \in Ids :
       cloud[i].state = "none" /\ cloud'[i].state # "none"
         => /\ \A j \in Ids : ~ (Recorded(j) /\ Live(j))
            /\ api.exists => api.finalizer]_vars

IsReady(st) == st.reason \in {"Active", "Inactive"}

(* A Ready condition of the current generation is not stale: the server it *)
(* reports had the machine type of the spec and was not running against    *)
(* powerState, whatever edits were made while the reconcile was under way. *)
ReadyInSync ==
  LET st == api.status
  IN  api.exists /\ IsReady(st) /\ st.condGen = api.gen
      => /\ st.id # NoId
         /\ st.machineType = api.spec.machineType
         /\ ~ (api.spec.powerState = "Inactive" /\ st.powerStatus = "RUNNING")
         /\ ~ (api.spec.powerState = "Active" /\ st.powerStatus = "STOPPED")

(* An object whose references can be resolved does not stay without its    *)
(* server, although invalidReference schedules no requeue: after the last  *)
(* edit the server comes up, reconcileDrift brings it to the spec, and the *)
(* Ready condition says so.                                                *)
EventuallyAsSpecified ==
  <>[](api.exists /\ ~ api.deleting
         /\ Resolved(api.spec, AllReady) = "ready"
       => \E i \in Ids :
            /\ Recorded(i)
            /\ Live(i) /\ reconcileDrift(api, cloud[i]) = "none"
            /\ IsReady(api.status) /\ api.status.condGen = api.gen)

(* kubectl delete of a Server is eventually carried out. *)
DeletionCompletes == (api.exists /\ api.deleting) ~> ~ api.exists

-----------------------------------------------------------------------------
(* The object and its servers as OwnedResource sees them. *)
Promised ==
  IF ~ api.exists      THEN "absent"
  ELSE IF api.deleting THEN "going"
  ELSE "wanted"

Stage(i) ==
  IF cloud[i].state = "none"               THEN "none"
  ELSE IF IsNotFound(i)                    THEN "gone"
  ELSE IF Recorded(i)                      THEN "held"
  ELSE IF \E m \in Managers : InHand(m, i) THEN "made"
  ELSE "lost"

Owned == INSTANCE OwnedResource WITH
  object <- Promised, stage <- [i \in Ids |-> Stage(i)]

(* With one manager, the controller keeps the promises of OwnedResource:   *)
(* across stale reads, conflicts, failures, restarts and loss out of band, *)
(* a server is made only for an object without one, the object goes only   *)
(* after the server it records, and a server is lost only while its ID     *)
(* is on the way.                                                          *)
ImplementsOwned == Owned!Spec
=============================================================================
