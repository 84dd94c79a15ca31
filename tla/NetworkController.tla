-------------------------- MODULE NetworkController --------------------------
(***************************************************************************)
(* The Network reconciler (internal/controller/network_controller.go) for  *)
(* one Network object, with the STACKIT networks it creates or adopts.     *)
(*                                                                         *)
(* A spec is spec.existingId and a value, or Unset, for each field that    *)
(* drift correction looks at: name, dhcp, routed and routingTableId are    *)
(* fields, and so is every label key.  What is only used at creation (vpc, *)
(* subnets) is left out.  A field STACKIT does not report counts as its    *)
(* zero value in the code (derefBool); FieldValues are values that differ  *)
(* from it.  A Ready condition is its reason and the generation it was set *)
(* at; its status follows from the reason.                                 *)
(***************************************************************************)
EXTENDS Lifecycle

CONSTANTS
  Ids,            \* IDs STACKIT gives to the networks it creates, each once
  Foreign,        \* ID of a network that exists without the operator
  Fields,         \* fields compared one by one
  Labels,         \* label keys: compared one by one, corrected together
  FieldValues,    \* values of fields and labels
  Unset,          \* a field or label that the spec or STACKIT does not have
  OutageStates    \* states a network may be put in behind the operator's back

VARIABLES
  cloud,          \* [Ids \cup {Foreign} -> network]: the networks in STACKIT
  payload         \* [Managers -> correction]: what reconcileDrift will send

vars == <<api, cache, watch, queued, left, w, cloud, payload>>

-----------------------------------------------------------------------------
networkTransitionalStates == {"CREATING", "DELETING", "UPDATING"}

(* The states STACKIT reports, and the two in which it answers 404. *)
States == networkTransitionalStates \cup {"CREATED", "UPDATED", "FAILED", "UNKNOWN"}
Absent == {"none", "gone"}

Reasons == {"", "NotFound", "CreateFailed", "Creating", "Transitioning",
            "Error", "Created", "Updated", "Unknown", "Deleting"}

Statuses == [id: Ids \cup {Foreign, NoId}, state: States \cup {""},
             observedGeneration: Nat, reason: Reasons, condGen: Nat]

NoStatus == [id |-> NoId, state |-> "", observedGeneration |-> 0,
             reason |-> "", condGen |-> 0]

Calls == {"addFinalizer", "dropFinalizer", "adoptGet", "recheck", "create",
          "get", "update", "delGet", "delete", "write"}

(* What a spec asks for, and what a network has. *)
Settings == [Fields \cup Labels -> FieldValues \cup {Unset}]

NetworkSpec == [existing: {NoId, Foreign}, want: Settings]

(* The fields, and the labels, that an update call changes. *)
Payloads == UNION {[F -> FieldValues] : F \in SUBSET (Fields \cup Labels)}
Nothing == [f \in {} |-> Unset]

ASSUME NetworkAssumption ==
  /\ Foreign \notin Ids
  /\ NoId \notin Ids \cup {Foreign}
  /\ Unset \notin FieldValues
  /\ Specs \subseteq NetworkSpec
  /\ OutageStates \subseteq States \cup {"gone"}

Networks == [state: States \cup Absent, has: Settings, used: BOOLEAN]

Init ==
  /\ KubeInit(NoStatus)
  /\ w = [m \in Managers |-> Idle(NoStatus)]
  /\ cloud = [i \in Ids \cup {Foreign} |->
                [state |-> IF i = Foreign THEN "CREATED" ELSE "none",
                 has |-> [f \in Fields \cup Labels |-> Unset], used |-> FALSE]]
  /\ payload = [m \in Managers |-> Nothing]

-----------------------------------------------------------------------------
(* Building blocks of the reconciler. *)

Adopted(o) == isAdopted(o.spec.existing)

(* Defect: the 404 of a deleted network is not recognised. *)
IsNotFound_Missed(i) == cloud[i].state = "none"

(* stackit.IsNotFound of what a call on network i returns. *)
IsNotFound(i) == cloud[i].state \in Absent

applyNetworkStatus(o, st, current) ==
  [st EXCEPT !.state = current.state, !.observedGeneration = o.gen]

setReadyCondition(o, st, reason) ==
  [st EXCEPT !.reason = reason, !.condGen = o.gen]

(* The condition that reports an observed state when nothing is corrected. *)
ObservedReason(state) ==
  CASE state \in networkTransitionalStates -> "Transitioning"
    [] state = "FAILED"                    -> "Error"
    [] state = "CREATED"                   -> "Created"
    [] state = "UPDATED"                   -> "Updated"
    [] OTHER                               -> "Unknown"

(* Defect: the finalizer goes once the deletion has been asked for. *)
reconcileDelete_NoWait(o) ==
  IF ~ o.finalizer                                           THEN "idle"
  ELSE IF o.status.id = NoId \/ o.status.reason = "Deleting" THEN "dropFinalizer"
  ELSE "delGet"

(* reconcileDelete up to its first call. *)
reconcileDelete(o) ==
  IF ~ o.finalizer           THEN "idle"
  ELSE IF o.status.id = NoId THEN "dropFinalizer"
  ELSE "delGet"

(* Defect: adoption is forgotten once the ID is recorded, so that the      *)
(* object gets the finalizer.                                              *)
reconcile_FinalizesAdopted(o) ==
  IF ~ o.exists                                                 THEN "idle"
  ELSE IF o.deleting                                            THEN reconcileDelete(o)
  ELSE IF ~ o.finalizer /\ (~ Adopted(o) \/ o.status.id # NoId) THEN "addFinalizer"
  ELSE IF o.status.id = NoId /\ Adopted(o)                      THEN "adoptGet"
  ELSE IF o.status.id = NoId                                    THEN "recheck"
  ELSE "get"

(* reconcile up to its first call, for the object o just read. *)
reconcile(o) ==
  IF ~ o.exists                            THEN "idle"
  ELSE IF o.deleting                       THEN reconcileDelete(o)
  ELSE IF ~ Adopted(o) /\ ~ o.finalizer    THEN "addFinalizer"
  ELSE IF o.status.id = NoId /\ Adopted(o) THEN "adoptGet"
  ELSE IF o.status.id = NoId               THEN "recheck"
  ELSE "get"

(* The fields among F that the spec sets and the network has otherwise: a  *)
(* field left unset is not compared (a name never is: it has a default),   *)
(* and labels that only STACKIT has do not count (labelsEqual).            *)
Differing(F, o, current) ==
  {f \in F : o.spec.want[f] # Unset /\ current.has[f] # o.spec.want[f]}

(* Defect: labels are sent one by one, into a map that replaces all. *)
reconcileDrift_OneLabel(o, current) ==
  [f \in Differing(Fields \cup Labels, o, current) |-> o.spec.want[f]]

(* The update payload reconcileDrift builds: the fields that differ, and   *)
(* all labels of the spec if one of them does.                             *)
reconcileDrift(o, current) ==
  [f \in Differing(Fields, o, current)
           \cup (IF Differing(Labels, o, current) = {} THEN {}
                 ELSE {l \in Labels : o.spec.want[l] # Unset}) |-> o.spec.want[f]]

-----------------------------------------------------------------------------
(* One reconcile of manager m: it takes the key from the queue, reads the  *)
(* object from its cache, and makes the calls below one at a time.         *)
Reconcile(m) ==
  /\ w[m].pc = "idle"
  /\ queued[m]
  /\ queued' = [queued EXCEPT ![m] = FALSE]
  /\ w' = [w EXCEPT ![m] = IF reconcile(cache[m]) = "idle" THEN Idle(NoStatus)
                           ELSE WorkingOn(reconcile(cache[m]), cache[m])]
  /\ UNCHANGED <<api, cache, watch, left, cloud, payload>>

AddFinalizer(m) == ensureFinalizer(m, NoStatus) /\ UNCHANGED <<cloud, payload>>

DropFinalizer(m) ==
  removeFinalizerAndUpdate(m, NoStatus) /\ UNCHANGED <<cloud, payload>>

(* GetNetwork in reconcileCreate, for an adopted network. *)
AdoptGet(m) ==
  LET o == w[m].obj  id == o.spec.existing
  IN  /\ w[m].pc = "adoptGet"
      /\ SaveStatus(m,
           IF IsNotFound(id)
             THEN setReadyCondition(o, o.status, "NotFound")
             ELSE applyNetworkStatus(o, [o.status EXCEPT !.id = id], cloud[id]),
           NoStatus)
      /\ UNCHANGED <<api, cache, watch, left, cloud, payload>>

Recheck(m) == idAlreadyPresent(m, FALSE, NoStatus) /\ UNCHANGED <<cloud, payload>>

(* The ID STACKIT gives next; which one it is does not matter. *)
FreshId == CHOOSE i \in Ids : cloud[i].state = "none"

(* STACKIT makes network i, with a fresh ID, from the spec of o. *)
CreateNetwork(i, o) ==
  /\ cloud[i].state = "none"
  /\ i = FreshId
  /\ cloud' = [cloud EXCEPT ![i].state = "CREATING", ![i].has = o.spec.want]

(* The last part of reconcileCreate: the create call answers with the new  *)
(* network...                                                              *)
CreateSucceeds(m) ==
  LET o == w[m].obj
  IN  /\ w[m].pc = "create"
      /\ \E i \in Ids :
           /\ CreateNetwork(i, o)
           /\ SaveStatus(m,
                setReadyCondition(o,
                  applyNetworkStatus(o, [o.status EXCEPT !.id = i], cloud'[i]),
                  "Creating"),
                NoStatus)
      /\ UNCHANGED <<api, cache, watch, left, payload>>

(* ...or with an error: the call fails, before or after STACKIT has made   *)
(* the network.                                                            *)
CreateFailed(m) ==
  LET o == w[m].obj
  IN  /\ w[m].pc = "create"
      /\ Spend("faults")
      /\ \/ UNCHANGED cloud
         \/ \E i \in Ids : CreateNetwork(i, o)
      /\ SaveStatus(m, setReadyCondition(o, o.status, "CreateFailed"), NoStatus)
      /\ UNCHANGED <<api, cache, watch, payload>>

-----------------------------------------------------------------------------
(* The status of a network that is gone: an adopted one is reported, an    *)
(* owned one loses its ID, to be made again.                               *)
NotFoundStatus(o) ==
  setReadyCondition(o,
    IF Adopted(o) THEN o.status ELSE [o.status EXCEPT !.id = NoId], "NotFound")

(* GetNetwork in reconcileExisting. *)
ObserveMissing(m) ==
  LET o == w[m].obj
  IN  /\ w[m].pc = "get"
      /\ IsNotFound(o.status.id)
      /\ SaveStatus(m, NotFoundStatus(o), NoStatus)
      /\ UNCHANGED <<api, cache, watch, left, cloud, payload>>

(* A network whose state, or the lack of drift in it, calls for no change. *)
MustNotCorrect(o, current) ==
  \/ current.state \in networkTransitionalStates \cup {"FAILED"}
  \/ Adopted(o)
  \/ reconcileDrift(o, current) = Nothing

ObserveNetwork(m) ==
  LET o == w[m].obj  current == cloud[o.status.id]
  IN  /\ w[m].pc = "get"
      /\ ~ IsNotFound(o.status.id)
      /\ MustNotCorrect(o, current)
      /\ SaveStatus(m,
           setReadyCondition(o, applyNetworkStatus(o, o.status, current),
                             ObservedReason(current.state)),
           NoStatus)
      /\ UNCHANGED <<api, cache, watch, left, cloud, payload>>

(* A network that differs from the spec: the next call corrects it. *)
ObserveDrift(m) ==
  LET o == w[m].obj  current == cloud[o.status.id]
  IN  /\ w[m].pc = "get"
      /\ ~ IsNotFound(o.status.id)
      /\ ~ MustNotCorrect(o, current)
      /\ w' = [w EXCEPT ![m].pc = "update"]
      /\ payload' = [payload EXCEPT ![m] = reconcileDrift(o, current)]
      /\ UNCHANGED <<api, cache, watch, queued, left, cloud>>

(* The settings of a network after an update: a field not sent stays, and  *)
(* labels, if any are sent, replace those the network has.                 *)
Updated(has, p) ==
  [f \in Fields \cup Labels |->
     IF f \in DOMAIN p                                 THEN p[f]
     ELSE IF f \in Labels /\ DOMAIN p \cap Labels # {} THEN Unset
     ELSE has[f]]

(* UpdateNetwork: an error if the network is gone or busy.  Nothing is     *)
(* returned; the next reconcile observes the change.                       *)
UpdateNetwork(m) ==
  LET i == w[m].obj.status.id
  IN  /\ w[m].pc = "update"
      /\ cloud' = IF cloud[i].state \in {"CREATED", "UPDATED", "UNKNOWN"}
                    THEN [cloud EXCEPT ![i].state = "UPDATING",
                                       ![i].has = Updated(@, payload[m])]
                    ELSE cloud
      /\ payload' = [payload EXCEPT ![m] = Nothing]
      /\ Return(m, TRUE, NoStatus)
      /\ UNCHANGED <<api, cache, watch, left>>

-----------------------------------------------------------------------------
(* GetNetwork in reconcileDelete: the finalizer goes only once STACKIT     *)
(* answers 404; a network not yet in deletion is deleted.                  *)
DeleteGet(m) ==
  LET o == w[m].obj  i == o.status.id
      st == applyNetworkStatus(o, o.status, cloud[i])
  IN  /\ w[m].pc = "delGet"
      /\ \/ /\ IsNotFound(i)
            /\ w' = [w EXCEPT ![m].pc = "dropFinalizer"]
            /\ UNCHANGED queued
         \/ /\ ~ IsNotFound(i)
            /\ cloud[i].state # "DELETING"
            /\ w' = [w EXCEPT ![m].pc = "delete", ![m].st = st]
            /\ UNCHANGED queued
         \/ /\ cloud[i].state = "DELETING"
            /\ SaveStatus(m, setReadyCondition(o, st, "Deleting"), NoStatus)
      /\ UNCHANGED <<api, cache, watch, left, cloud, payload>>

(* stackit.IsConflict of a delete: the network is busy or servers use it. *)
IsConflict(i) == cloud[i].used \/ cloud[i].state \in networkTransitionalStates

(* DeleteNetwork: accepted, refused with 409 or answered with 404, the     *)
(* reconcile goes on to report Deleting and polls.                         *)
DeleteNetwork(m) ==
  LET i == w[m].obj.status.id
  IN  /\ w[m].pc = "delete"
      /\ cloud' = IF IsNotFound(i) \/ IsConflict(i) THEN cloud
                  ELSE [cloud EXCEPT ![i].state = "DELETING"]
      /\ SaveStatus(m, setReadyCondition(w[m].obj, w[m].st, "Deleting"), NoStatus)
      /\ UNCHANGED <<api, cache, watch, left, payload>>

WriteBack(m) == StatusUpdate(m, TRUE, NoStatus) /\ UNCHANGED <<cloud, payload>>

Fail(m) ==
  /\ CallFails(m, NoStatus)
  /\ payload' = [payload EXCEPT ![m] = Nothing]
  /\ UNCHANGED cloud

Crash(m) ==
  /\ Restart(m, NoStatus)
  /\ payload' = [payload EXCEPT ![m] = Nothing]
  /\ UNCHANGED cloud

-----------------------------------------------------------------------------
(* STACKIT finishes what it is doing to network i. *)
Settle(i) ==
  /\ cloud[i].state \in networkTransitionalStates
  /\ cloud' = [cloud EXCEPT ![i].state =
                 CASE @ = "CREATING" -> "CREATED"
                   [] @ = "UPDATING" -> "UPDATED"
                   [] OTHER          -> "gone"]
  /\ UNCHANGED <<api, cache, watch, queued, left, w, payload>>

(* The networks an object may record; others do not matter. *)
Reachable == (Ids \cup {s.existing : s \in Specs}) \ {NoId}

(* Someone, or a failure in STACKIT, changes network i out of band. *)
OutOfBand(i) ==
  /\ ~ IsNotFound(i)
  /\ Spend("outages")
  /\ \/ \E s \in OutageStates : cloud' = [cloud EXCEPT ![i].state = s]
     \/ \E f \in Fields \cup Labels, x \in FieldValues \cup {Unset} :
          /\ cloud[i].has[f] # x
          /\ cloud' = [cloud EXCEPT ![i].has[f] = x]
     \/ cloud[i].state # "DELETING" /\ ~ cloud[i].used /\ cloud' = [cloud EXCEPT ![i].used = TRUE]
  /\ UNCHANGED <<api, cache, watch, queued, w, payload>>

(* The last server leaves network i. *)
Detach(i) ==
  /\ cloud[i].used
  /\ cloud' = [cloud EXCEPT ![i].used = FALSE]
  /\ UNCHANGED <<api, cache, watch, queued, left, w, payload>>

(* Users may not change existingId (README: unsupported). *)
User ==
  /\ \/ \E s \in Specs : UserCreate(s, NoStatus)
     \/ \E s \in Specs : s.existing = api.spec.existing /\ UserEdit(s)
     \/ UserDelete
  /\ UNCHANGED <<w, cloud, payload>>

Informer(m) == (Sync(m) \/ Resync(m)) /\ UNCHANGED <<w, cloud, payload>>

(* The calls of a reconcile, without failures. *)
Step(m) ==
  \/ AddFinalizer(m) \/ DropFinalizer(m) \/ AdoptGet(m) \/ Recheck(m)
  \/ CreateSucceeds(m)
  \/ ObserveMissing(m) \/ ObserveNetwork(m) \/ ObserveDrift(m) \/ UpdateNetwork(m)
  \/ DeleteGet(m) \/ DeleteNetwork(m) \/ WriteBack(m)

Next ==
  \/ User
  \/ \E m \in Managers :
       Informer(m) \/ Reconcile(m) \/ Step(m) \/ CreateFailed(m)
         \/ Fail(m) \/ Crash(m)
  \/ \E i \in Ids : Settle(i) \/ Detach(i)
  \/ \E i \in Reachable : OutOfBand(i)

Spec == Init /\ [][Next]_vars

(* As for the Volume controller.  Nothing makes a server leave a network. *)
Fairness ==
  /\ \A m \in Managers :
       /\ WF_vars(Reconcile(m)) /\ WF_vars(Step(m))
       /\ WF_vars(Sync(m) /\ UNCHANGED <<w, cloud, payload>>)
  /\ \A i \in Ids : WF_vars(Settle(i))

FairSpec == Spec /\ Fairness

-----------------------------------------------------------------------------
(***************************************************************************)
(* Properties.                                                             *)
(***************************************************************************)

TypeOK ==
  /\ KubeTypeOK(Statuses)
  /\ w \in [Managers -> Workers(Statuses, Calls)]
  /\ cloud \in [Ids \cup {Foreign} -> Networks]
  /\ payload \in [Managers -> Payloads]

Live(i) == ~ IsNotFound(i)

(* The object records i as its network. *)
Recorded(i) == api.exists /\ api.status.id = i

(* Manager m has just had network i made and is about to record it. *)
InHand(m, i) == w[m].pc = "write" /\ w[m].st.id = i /\ w[m].obj.status.id = NoId

Orphan(i) == Live(i) /\ ~ Recorded(i) /\ \A m \in Managers : ~ InHand(m, i)

(* A live network is lost track of only with the reply to its create, with *)
(* the status write after it, or with an object that had no finalizer;     *)
(* never by reconcileExisting or reconcileDelete, nor by a second manager  *)
(* that works on the same object at the same time.                         *)
OrphanOnlyFromLostWrite ==
  [][\A i \in Ids :
       Orphan(i)' =>
         \/ Orphan(i)
         \/ cloud[i].state = "none" /\ left'.faults < left.faults
         \/ \E m \in Managers : InHand(m, i) /\ w'[m].pc = "idle"
         \/ Recorded(i) /\ ~ api.finalizer /\ ~ api'.exists]_vars

(* An adopted network is changed by third parties only, and its object     *)
(* never gets the finalizer that would have it deleted.                    *)
AdoptedUntouched ==
  [][/\ cloud'[Foreign] # cloud[Foreign] => left'.outages < left.outages
     /\ api'.exists /\ isAdopted(api'.spec.existing) => ~ api'.finalizer]_vars

(* kubectl delete of a Network is eventually carried out, unless servers   *)
(* keep using the network: the 409 of a network in use is retried.         *)
DeletionCompletes ==
  (api.exists /\ api.deleting)
    ~> (~ api.exists \/ \E i \in Ids : Recorded(i) /\ cloud[i].used)

(* Drift correction converges: although UpdateNetwork sends only what      *)
(* differed when the network was observed, and returns nothing, an owned   *)
(* Network that is wanted has in the end every field its spec sets, and a  *)
(* Ready condition of the current generation, or has FAILED.               *)
EventuallyAsSpecified ==
  <>[](api.exists /\ ~ Adopted(api) /\ ~ api.deleting =>
         \E i \in Ids :
           /\ Recorded(i)
           /\ api.status.state = cloud[i].state
           /\ api.status.condGen = api.gen
           /\ \/ /\ Differing(Fields \cup Labels, api, cloud[i]) = {}
                 /\ api.status.reason \in {"Created", "Updated"}
              \/ cloud[i].state = "FAILED")

-----------------------------------------------------------------------------
(* The object and its networks as OwnedResource sees them. *)
Promised ==
  IF ~ api.exists      THEN "absent"
  ELSE IF api.deleting THEN "going"
  ELSE "wanted"

Stage(i) ==
  IF cloud[i].state = "none"               THEN "none"
  ELSE IF IsNotFound(i)                    THEN "gone"
  ELSE IF Recorded(i)                      THEN "held"
  ELSE IF \E m \in Managers : InHand(m, i) THEN "made"
  ELSE "lost"

Owned == INSTANCE OwnedResource WITH
  object <- Promised, stage <- [i \in Ids |-> Stage(i)]

(* With one manager, the controller keeps the promises of OwnedResource:   *)
(* across stale reads, conflicts, failures, restarts and loss out of band, *)
(* a network is made only for an object without one, the object goes only  *)
(* after the network it records, and a network is lost only while its ID   *)
(* is on the way.                                                          *)
ImplementsOwned == Owned!Spec
=============================================================================
