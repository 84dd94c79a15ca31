-------------------------- MODULE ClusterController --------------------------
(***************************************************************************)
(* The Cluster reconciler (internal/controller/cluster_controller.go) for  *)
(* one Cluster object, with the clusters STACKIT Kubernetes Engine (SKE)   *)
(* has.  SKE gives no IDs: a cluster is known by its name, and one call    *)
(* creates it or replaces its configuration.                               *)
(*                                                                         *)
(* A Ready condition is its reason and the generation it was set at; its   *)
(* status follows from the reason.                                         *)
(***************************************************************************)
EXTENDS Lifecycle, ClusterSpecs

CONSTANTS
  Names,          \* names of clusters
  Foreign,        \* the name of the cluster an object may adopt
  Existing,       \* clusters that exist without the operator
  NoCfg,          \* the configuration of a cluster that does not exist
  OutageStates    \* states a cluster may be put in behind the operator's back

VARIABLE cloud    \* [Names -> cluster]: the clusters in SKE

vars == <<api, cache, watch, queued, left, w, cloud>>

-----------------------------------------------------------------------------
clusterTransitionalStates ==
  {"STATE_CREATING", "STATE_DELETING", "STATE_RECONCILING",
   "STATE_HIBERNATING", "STATE_WAKINGUP"}

(* The states SKE reports: "" for a cluster that has no status yet.  It    *)
(* answers 404 for the state "none".                                       *)
States == clusterTransitionalStates
            \cup {"", "STATE_HEALTHY", "STATE_HIBERNATED", "STATE_UNHEALTHY"}

Reasons == {"", "NotFound", "CreateFailed", "Creating", "Transitioning",
            "Unhealthy", "Healthy", "Hibernated", "Unknown", "Deleting"}

Statuses == [clusterName: Names \cup {NoId}, state: States, version: Nat,
             observedGeneration: Nat, reason: Reasons, condGen: Nat]

NoStatus == [clusterName |-> NoId, state |-> "", version |-> 0,
             observedGeneration |-> 0, reason |-> "", condGen |-> 0]

Calls == {"addFinalizer", "dropFinalizer", "adoptGet", "create", "existsGet",
          "get", "update", "delGet", "delete", "write"}

(* Users give each node pool of a spec a name of its own, and set all of   *)
(* spec.maintenance or none of it (README).                                *)
ASSUME ClusterAssumption ==
  /\ Foreign \in Names
  /\ NoId \notin Names
  /\ Existing \subseteq Names
  /\ OutageStates \subseteq States \cup {"none"}
  /\ \A s \in Specs :
       /\ s.existing \in {NoId, Foreign} /\ s.name \in Names
       /\ s.version \in Nat
       /\ IsList(s.pools)
       /\ \A k \in DOMAIN s.pools : IsPool(s.pools[k])
       /\ \A j, k \in DOMAIN s.pools : s.pools[j].name = s.pools[k].name => j = k
       /\ s.maintenance # NoMaintenance =>
            /\ IsMaintenance(s.maintenance)
            /\ StoredMaintenance(s.maintenance) # NoMaintenance

NoCluster == [state |-> "none", cfg |-> NoCfg, operators |-> FALSE]

(* What another user of SKE has made of a cluster. *)
OtherCfg ==
  Stored([version |-> 1, pools |-> <<>>, maintenance |-> NoMaintenance])

Init ==
  /\ KubeInit(NoStatus)
  /\ w = [m \in Managers |-> Idle(NoStatus)]
  /\ cloud = [n \in Names |->
                IF n \in Existing
                  THEN [state |-> "STATE_HEALTHY", cfg |-> OtherCfg, operators |-> FALSE]
                  ELSE NoCluster]

-----------------------------------------------------------------------------
(* Building blocks of the reconciler. *)

Adopted(o) == isAdopted(o.spec.existing)

clusterName(o) == o.spec.name

(* stackit.IsNotFound of what a call on cluster n returns. *)
IsNotFound(n) == cloud[n].state = "none"

applyClusterStatus(o, st, current) ==
  [st EXCEPT !.state = current.state, !.version = current.cfg.version,
             !.observedGeneration = o.gen]

setReadyCondition(o, st, reason) ==
  [st EXCEPT !.reason = reason, !.condGen = o.gen]

(* Defect: the state itself is reported. *)
ObservedReason_State(state) == state

(* The condition that reports an observed state when nothing is corrected. *)
ObservedReason(state) ==
  CASE state \in clusterTransitionalStates -> "Transitioning"
    [] state = "STATE_UNHEALTHY"           -> "Unhealthy"
    [] state = "STATE_HEALTHY"             -> "Healthy"
    [] state = "STATE_HIBERNATED"          -> "Hibernated"
    [] OTHER                               -> "Unknown"

(* Defect: the finalizer goes once the deletion has been asked for. *)
reconcileDelete_NoWait(o) ==
  IF ~ o.finalizer                                                    THEN "idle"
  ELSE IF o.status.clusterName = NoId \/ o.status.reason = "Deleting" THEN "dropFinalizer"
  ELSE "delGet"

(* reconcileDelete up to its first call. *)
reconcileDelete(o) ==
  IF ~ o.finalizer                    THEN "idle"
  ELSE IF o.status.clusterName = NoId THEN "dropFinalizer"
  ELSE "delGet"

(* Defect: the finalizer is added once the cluster has been made. *)
reconcile_LateFinalizer(o) ==
  IF ~ o.exists                                     THEN "idle"
  ELSE IF o.deleting                                THEN reconcileDelete(o)
  ELSE IF o.status.clusterName = NoId /\ Adopted(o) THEN "adoptGet"
  ELSE IF o.status.clusterName = NoId               THEN "create"
  ELSE IF ~ Adopted(o) /\ ~ o.finalizer             THEN "addFinalizer"
  ELSE "get"

(* Defect: adoption is forgotten once the name is recorded. *)
reconcile_FinalizesAdopted(o) ==
  IF ~ o.exists                                                          THEN "idle"
  ELSE IF o.deleting                                                     THEN reconcileDelete(o)
  ELSE IF ~ o.finalizer /\ (~ Adopted(o) \/ o.status.clusterName # NoId) THEN "addFinalizer"
  ELSE IF o.status.clusterName = NoId /\ Adopted(o)                      THEN "adoptGet"
  ELSE IF o.status.clusterName = NoId                                    THEN "create"
  ELSE "get"

(* reconcile up to its first call, for the object o just read. *)
reconcile(o) ==
  IF ~ o.exists                                     THEN "idle"
  ELSE IF o.deleting                                THEN reconcileDelete(o)
  ELSE IF ~ Adopted(o) /\ ~ o.finalizer             THEN "addFinalizer"
  ELSE IF o.status.clusterName = NoId /\ Adopted(o) THEN "adoptGet"
  ELSE IF o.status.clusterName = NoId               THEN "create"
  ELSE "get"

-----------------------------------------------------------------------------
(* One reconcile of manager m: it takes the key from the queue, reads the  *)
(* object from its cache, and makes the calls below one at a time.         *)
Reconcile(m) ==
  /\ w[m].pc = "idle"
  /\ queued[m]
  /\ queued' = [queued EXCEPT ![m] = FALSE]
  /\ w' = [w EXCEPT ![m] = IF reconcile(cache[m]) = "idle" THEN Idle(NoStatus)
                           ELSE WorkingOn(reconcile(cache[m]), cache[m])]
  /\ UNCHANGED <<api, cache, watch, left, cloud>>

AddFinalizer(m) == ensureFinalizer(m, NoStatus) /\ UNCHANGED cloud

DropFinalizer(m) == removeFinalizerAndUpdate(m, NoStatus) /\ UNCHANGED cloud

(* GetCluster in reconcileCreate, for an adopted cluster. *)
AdoptGet(m) ==
  LET o == w[m].obj  n == o.spec.existing
  IN  /\ w[m].pc = "adoptGet"
      /\ SaveStatus(m,
           IF IsNotFound(n)
             THEN setReadyCondition(o, o.status, "NotFound")
             ELSE applyClusterStatus(o, [o.status EXCEPT !.clusterName = n], cloud[n]),
           NoStatus)
      /\ UNCHANGED <<api, cache, watch, left, cloud>>

-----------------------------------------------------------------------------
(* CreateOrUpdateCluster(n, payload): SKE makes the cluster or replaces    *)
(* its configuration.  It answers AlreadyExists while the cluster is busy  *)
(* (IsAlreadyExists); other errors are a payload it refuses, and a         *)
(* Kubernetes version older than the one the cluster has.                  *)
IsAlreadyExists(n) == cloud[n].state \in clusterTransitionalStates \cup {""}

Accepts(n, payload) ==
  /\ ~ Refused(payload)
  /\ ~ IsNotFound(n) => payload.version >= cloud[n].cfg.version

CreateOrUpdateCluster(n, payload) ==
  /\ ~ IsAlreadyExists(n)
  /\ Accepts(n, payload)
  /\ cloud' = [cloud EXCEPT ![n] =
       IF IsNotFound(n)
         THEN [state |-> "", cfg |-> Stored(payload), operators |-> TRUE]
         ELSE [@ EXCEPT !.state = "STATE_RECONCILING", !.cfg = Stored(payload)]]

(* The status once the cluster n, as current, is there. *)
CreatedStatus(o, n, current) ==
  setReadyCondition(o,
    applyClusterStatus(o, [o.status EXCEPT !.clusterName = n], current), "Creating")

(* The create call of reconcileCreate.  It is not preceded by a re-read:   *)
(* an upsert by name may be repeated.                                      *)
CreateSucceeds(m) ==
  LET o == w[m].obj  n == clusterName(o)
  IN  /\ w[m].pc = "create"
      /\ CreateOrUpdateCluster(n, BuildClusterPayload(o.spec))
      /\ SaveStatus(m, CreatedStatus(o, n, cloud'[n]), NoStatus)
      /\ UNCHANGED <<api, cache, watch, left>>

(* AlreadyExists: the cluster is fetched and recorded instead... *)
CreateConflicts(m) ==
  /\ w[m].pc = "create"
  /\ IsAlreadyExists(clusterName(w[m].obj))
  /\ w' = [w EXCEPT ![m].pc = "existsGet"]
  /\ UNCHANGED <<api, cache, watch, queued, left, cloud>>

ExistsGet(m) ==
  LET o == w[m].obj  n == clusterName(o)
  IN  /\ w[m].pc = "existsGet"
      /\ IF IsNotFound(n) THEN Return(m, TRUE, NoStatus)
         ELSE SaveStatus(m, CreatedStatus(o, n, cloud[n]), NoStatus)
      /\ UNCHANGED <<api, cache, watch, left, cloud>>

(* ...any other error is reported: SKE refuses the payload, or the call    *)
(* fails before or after it has taken effect.                              *)
CreateFailed(m) ==
  LET o == w[m].obj  n == clusterName(o)  payload == BuildClusterPayload(o.spec)
  IN  /\ w[m].pc = "create"
      /\ \/ ~ IsAlreadyExists(n) /\ ~ Accepts(n, payload) /\ UNCHANGED <<cloud, left>>
         \/ Spend("faults") /\ UNCHANGED cloud
         \/ Spend("faults") /\ CreateOrUpdateCluster(n, payload)
      /\ SaveStatus(m, setReadyCondition(o, o.status, "CreateFailed"), NoStatus)
      /\ UNCHANGED <<api, cache, watch>>

-----------------------------------------------------------------------------
(* The status of a cluster that is gone: an adopted one is reported, an    *)
(* owned one loses its name, to be made again.                             *)
NotFoundStatus(o) ==
  setReadyCondition(o,
    IF Adopted(o) THEN o.status ELSE [o.status EXCEPT !.clusterName = NoId], "NotFound")

(* GetCluster in reconcileExisting. *)
ObserveMissing(m) ==
  LET o == w[m].obj
  IN  /\ w[m].pc = "get"
      /\ IsNotFound(o.status.clusterName)
      /\ SaveStatus(m, NotFoundStatus(o), NoStatus)
      /\ UNCHANGED <<api, cache, watch, left, cloud>>

(* A cluster whose state, or the lack of drift in it, calls for no change. *)
MustNotCorrect(o, current) ==
  \/ current.state \in clusterTransitionalStates \cup {"STATE_UNHEALTHY"}
  \/ Adopted(o)
  \/ ~ reconcileDrift(current.cfg, o.spec)

ObserveCluster(m) ==
  LET o == w[m].obj  current == cloud[o.status.clusterName]
  IN  /\ w[m].pc = "get"
      /\ ~ IsNotFound(o.status.clusterName)
      /\ MustNotCorrect(o, current)
      /\ SaveStatus(m,
           setReadyCondition(o, applyClusterStatus(o, o.status, current),
                             ObservedReason(current.state)),
           NoStatus)
      /\ UNCHANGED <<api, cache, watch, left, cloud>>

(* A cluster that differs from the spec: the next call corrects it. *)
ObserveDrift(m) ==
  LET o == w[m].obj  current == cloud[o.status.clusterName]
  IN  /\ w[m].pc = "get"
      /\ ~ IsNotFound(o.status.clusterName)
      /\ ~ MustNotCorrect(o, current)
      /\ w' = [w EXCEPT ![m].pc = "update"]
      /\ UNCHANGED <<api, cache, watch, queued, left, cloud>>

(* The upsert of reconcileDrift, on the recorded name: whatever has become *)
(* of the cluster meanwhile, it makes it again or replaces it.  After a    *)
(* success and an error alike the reconcile returns.                       *)
UpdateCluster(m) ==
  LET n == w[m].obj.status.clusterName  payload == BuildClusterPayload(w[m].obj.spec)
  IN  /\ w[m].pc = "update"
      /\ IF IsAlreadyExists(n) \/ ~ Accepts(n, payload) THEN UNCHANGED cloud
         ELSE CreateOrUpdateCluster(n, payload)
      /\ Return(m, TRUE, NoStatus)
      /\ UNCHANGED <<api, cache, watch, left>>

-----------------------------------------------------------------------------
(* GetCluster in reconcileDelete: the finalizer goes only once SKE answers *)
(* 404; a cluster not yet in deletion is deleted.                          *)
DeleteGet(m) ==
  LET o == w[m].obj  n == o.status.clusterName
      st == applyClusterStatus(o, o.status, cloud[n])
  IN  /\ w[m].pc = "delGet"
      /\ \/ /\ IsNotFound(n)
            /\ w' = [w EXCEPT ![m].pc = "dropFinalizer"]
            /\ UNCHANGED queued
         \/ /\ ~ IsNotFound(n)
            /\ cloud[n].state # "STATE_DELETING"
            /\ w' = [w EXCEPT ![m].pc = "delete", ![m].st = st]
            /\ UNCHANGED queued
         \/ /\ cloud[n].state = "STATE_DELETING"
            /\ SaveStatus(m, setReadyCondition(o, st, "Deleting"), NoStatus)
      /\ UNCHANGED <<api, cache, watch, left, cloud>>

(* stackit.IsConflict of a delete: the cluster is busy. *)
IsConflict(n) == cloud[n].state \in clusterTransitionalStates

(* DeleteCluster: accepted, refused with 409 or answered with 404, the     *)
(* reconcile goes on to report Deleting and polls.                         *)
DeleteCluster(m) ==
  LET n == w[m].obj.status.clusterName
  IN  /\ w[m].pc = "delete"
      /\ cloud' = IF IsNotFound(n) \/ IsConflict(n) THEN cloud
                  ELSE [cloud EXCEPT ![n].state = "STATE_DELETING"]
      /\ SaveStatus(m, setReadyCondition(w[m].obj, w[m].st, "Deleting"), NoStatus)
      /\ UNCHANGED <<api, cache, watch, left>>

WriteBack(m) == StatusUpdate(m, TRUE, NoStatus) /\ UNCHANGED cloud

Fail(m) == CallFails(m, NoStatus) /\ UNCHANGED cloud

Crash(m) == Restart(m, NoStatus) /\ UNCHANGED cloud

-----------------------------------------------------------------------------
(* SKE goes on with what it is doing to cluster n. *)
Settle(n) ==
  /\ cloud[n].state \in clusterTransitionalStates \cup {""}
  /\ cloud' = [cloud EXCEPT ![n] =
       CASE @.state = ""                  -> [@ EXCEPT !.state = "STATE_CREATING"]
         [] @.state = "STATE_HIBERNATING" -> [@ EXCEPT !.state = "STATE_HIBERNATED"]
         [] @.state = "STATE_DELETING"    -> NoCluster
         [] OTHER                         -> [@ EXCEPT !.state = "STATE_HEALTHY"]]
  /\ UNCHANGED <<api, cache, watch, queued, left, w>>

(* Someone, or a failure in SKE, changes cluster n out of band: its state, *)
(* its existence, its node pools; or SKE updates its version, if that is   *)
(* what its maintenance says.                                              *)
OutOfBand(n) ==
  /\ ~ IsNotFound(n)
  /\ Spend("outages")
  /\ \/ \E s \in OutageStates \ {"none"} : cloud' = [cloud EXCEPT ![n].state = s]
     \/ "none" \in OutageStates /\ cloud' = [cloud EXCEPT ![n] = NoCluster]
     \/ cloud' = [cloud EXCEPT ![n].cfg.pools = <<>>]
     \/ /\ cloud[n].cfg.maintenance.kubernetesVersion
        /\ cloud' = [cloud EXCEPT ![n].cfg.version = @ + 1]
  /\ UNCHANGED <<api, cache, watch, queued, w>>

(* Users may change neither existingClusterName (README: unsupported) nor  *)
(* the name of an object that exists (cluster_types.go).                   *)
User ==
  /\ \/ \E s \in Specs : UserCreate(s, NoStatus)
     \/ \E s \in Specs : /\ s.existing = api.spec.existing /\ s.name = api.spec.name
                         /\ UserEdit(s)
     \/ UserDelete
  /\ UNCHANGED <<w, cloud>>

Informer(m) == (Sync(m) \/ Resync(m)) /\ UNCHANGED <<w, cloud>>

(* The calls of a reconcile, without failures. *)
Step(m) ==
  \/ AddFinalizer(m) \/ DropFinalizer(m) \/ AdoptGet(m)
  \/ CreateSucceeds(m) \/ CreateConflicts(m) \/ ExistsGet(m) \/ CreateFailed(m)
  \/ ObserveMissing(m) \/ ObserveCluster(m) \/ ObserveDrift(m) \/ UpdateCluster(m)
  \/ DeleteGet(m) \/ DeleteCluster(m) \/ WriteBack(m)

Next ==
  \/ User
  \/ \E m \in Managers : Informer(m) \/ Reconcile(m) \/ Step(m) \/ Fail(m) \/ Crash(m)
  \/ \E n \in Names : Settle(n) \/ OutOfBand(n)

Spec == Init /\ [][Next]_vars

(* As for the Volume controller. *)
Fairness ==
  /\ \A m \in Managers :
       WF_vars(Reconcile(m)) /\ WF_vars(Step(m)) /\ WF_vars(Sync(m) /\ UNCHANGED <<w, cloud>>)
  /\ \A n \in Names : WF_vars(Settle(n))

FairSpec == Spec /\ Fairness

-----------------------------------------------------------------------------
(***************************************************************************)
(* Properties.                                                             *)
(***************************************************************************)

TypeOK ==
  /\ KubeTypeOK(Statuses)
  /\ w \in [Managers -> Workers(Statuses, Calls)]
  /\ \A n \in Names :
       /\ cloud[n].state \in States \cup {"none"}
       /\ cloud[n].cfg = NoCfg <=> cloud[n].state = "none"

Live(n) == ~ IsNotFound(n)

(* The object records n as its cluster. *)
Recorded(n) == api.exists /\ api.status.clusterName = n

(* An object that records a cluster does not go while the cluster is       *)
(* there, although every upsert, also one that corrects drift on a stale   *)
(* copy, brings a vanished cluster back.                                   *)
RecordedClusterNotLeft ==
  [][\A n \in Names :
       Recorded(n) /\ Live(n) /\ ~ Adopted(api) => api'.exists]_vars

(* With one manager, SKE is asked to change a cluster only for an object   *)
(* that owns this name and has the finalizer, and to delete one only while *)
(* the object is being deleted; although create and correction are upserts *)
(* from a cached copy that nothing re-reads.                               *)
OnlyOwnedTouched ==
  [][\A n \in Names, m \in Managers :
       cloud'[n] # cloud[n] /\ w'[m] # w[m] =>
         /\ api.exists /\ api.finalizer /\ ~ Adopted(api) /\ clusterName(api) = n
         /\ cloud'[n].state = "STATE_DELETING" => api.deleting /\ Recorded(n)]_vars

(* A cluster named by spec.existingClusterName is changed by third parties *)
(* only, never in a step of a worker, and its object never gets the        *)
(* finalizer.                                                              *)
AdoptedUntouched ==
  [][/\ cloud'[Foreign] # cloud[Foreign] => UNCHANGED w
     /\ api'.exists /\ isAdopted(api'.spec.existing) => ~ api'.finalizer]_vars

(* An upsert is not followed by another one for the same spec: what SKE    *)
(* makes of the payload - narrowed numbers, defaults, zones in another     *)
(* order, times without their date - compares equal to the spec it came    *)
(* from.                                                                   *)
CorrectionSettles ==
  [][\A m \in Managers, n \in Names :
       w[m].pc \in {"create", "update"} /\ w'[m] # w[m] /\ cloud'[n] # cloud[n]
         => ~ reconcileDrift(cloud'[n].cfg, w[m].obj.spec)]_vars

IsReady(st) == st.reason \in {"Healthy", "Hibernated"}

(* kubectl delete of a Cluster is eventually carried out, however busy the *)
(* cluster is at first.                                                    *)
DeletionCompletes == (api.exists /\ api.deleting) ~> ~ api.exists

(* A Cluster that is wanted ends up as the README promises: SKE has it     *)
(* with the version, pools and maintenance of the spec, it is recorded and *)
(* mirrored, and Ready says so - unless SKE reports it as unhealthy,       *)
(* refuses the numbers of the spec as sent, or has updated its version.    *)
EventuallyAsSpecified ==
  <>[](/\ api.exists /\ ~ Adopted(api) /\ ~ api.deleting
       /\ Fits(api.spec) /\ ~ Refused(BuildClusterPayload(api.spec))
       => \E n \in Names :
            \/ /\ Recorded(n)
               /\ api.status.state = cloud[n].state
               /\ api.status.condGen = api.gen
               /\ \/ Describes(api.spec, cloud[n].cfg) /\ IsReady(api.status)
                  \/ cloud[n].state = "STATE_UNHEALTHY"
            \/ n = clusterName(api) /\ Live(n) /\ cloud[n].cfg.version > api.spec.version)

(* README, "API": the operator creates the resource when its status ID is  *)
(* empty.  The create is an upsert: it takes over an unrelated cluster     *)
(* that has the name, and replaces its configuration.                      *)
CreatesOnlyMissing ==
  [][\A m \in Managers, n \in Names :
       w[m].pc = "create" /\ w'[m] # w[m] /\ cloud'[n] # cloud[n]
         => IsNotFound(n) \/ cloud[n].operators]_vars

(* ClusterMaintenanceSpec: autoUpdateKubernetesVersion enables automatic   *)
(* updates of the cluster's version.  reconcileDrift takes such an update  *)
(* for drift and resubmits the older version.                              *)
AutoUpdatesStay ==
  [][\A m \in Managers :
       LET current == cloud[w[m].obj.status.clusterName]
       IN  w[m].pc = "get" /\ w'[m].pc = "update" =>
             \/ reconcileDrift([current.cfg EXCEPT !.version = w[m].obj.spec.version],
                               w[m].obj.spec)
             \/ ~ (current.cfg.maintenance.kubernetesVersion
                     /\ current.cfg.version > w[m].obj.spec.version)]_vars
=============================================================================
