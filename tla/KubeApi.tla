------------------------------- MODULE KubeApi -------------------------------
(***************************************************************************)
(* The Kubernetes machinery the reconcilers run on, for one custom         *)
(* resource: the API server's copy of the object, the informer cache of    *)
(* each controller manager, and each manager's work queue.  None of it is  *)
(* in this repository; it is modelled from how internal/controller uses    *)
(* controller-runtime:                                                     *)
(*   - client.Get reads the manager's cache, which follows the API server  *)
(*     through an ordered stream of watch events and may lag behind it;    *)
(*   - APIReader.Get reads the API server;                                 *)
(*   - Update and Status().Update succeed only if the object they send has *)
(*     the resourceVersion the API server has (optimistic concurrency),    *)
(*     and every successful write produces a new resourceVersion;          *)
(*   - an object with a finalizer is only marked by a delete; it goes when *)
(*     the finalizer is removed;                                           *)
(*   - a watch event puts the object's key on the work queue, and one key  *)
(*     is processed by at most one worker of a manager at a time.          *)
(***************************************************************************)
EXTENDS Naturals

CONSTANTS
  Managers,     \* controller manager processes (one, under leader election)
  Specs,        \* values a user may give to the object's spec
  MaxEdits,     \* bound: writes by users after the first creation
  MaxFaults,    \* bound: failed calls, lost replies and manager restarts
  MaxOutages,   \* bound: changes made in STACKIT behind the operator's back
  MaxTogether   \* bound: edits, faults and outages together

ASSUME BoundsAssumption ==
  /\ MaxEdits \in Nat /\ MaxFaults \in Nat /\ MaxOutages \in Nat
  /\ MaxTogether \in Nat

ASSUME SpecsAssumption == Specs # {}

VARIABLES
  api,      \* the object as the API server has it
  cache,    \* [Managers -> version]: what client.Get returns in a manager
  watch,    \* [Managers -> set of versions]: events not yet delivered
  queued,   \* [Managers -> BOOLEAN]: the key is due in the work queue
  left      \* how many edits, faults and outages may still happen

-----------------------------------------------------------------------------
(* A version of the object.  A deletion is a version with exists = FALSE. *)
Versions(Statuses) ==
  [exists: BOOLEAN, rv: Nat, gen: Nat, deleting: BOOLEAN, finalizer: BOOLEAN,
   spec: Specs, status: Statuses]

(* Before the user creates it, the object does not exist. *)
NoObject(emptyStatus) ==
  [exists |-> FALSE, rv |-> 0, gen |-> 0, deleting |-> FALSE,
   finalizer |-> FALSE, spec |-> CHOOSE s \in Specs : TRUE,
   status |-> emptyStatus]

KubeInit(emptyStatus) ==
  /\ api = NoObject(emptyStatus)
  /\ cache = [m \in Managers |-> api]
  /\ watch = [m \in Managers |-> {}]
  /\ queued = [m \in Managers |-> FALSE]
  /\ left = [edits |-> MaxEdits, faults |-> MaxFaults, outages |-> MaxOutages]

KubeTypeOK(Statuses) ==
  /\ api \in Versions(Statuses)
  /\ cache \in [Managers -> Versions(Statuses)]
  /\ watch \in [Managers -> SUBSET Versions(Statuses)]
  /\ queued \in [Managers -> BOOLEAN]
  /\ left \in [edits: Nat, faults: Nat, outages: Nat]

(* How many may not happen any more. *)
Spent ==
  (MaxEdits + MaxFaults + MaxOutages) - (left.edits + left.faults + left.outages)

Spend(what) ==
  /\ left[what] > 0
  /\ Spent < MaxTogether
  /\ left' = [left EXCEPT ![what] = @ - 1]

-----------------------------------------------------------------------------
(* The API server accepts v as the next version and announces it to every  *)
(* manager's informer.                                                     *)
Publish(v) ==
  /\ api' = [v EXCEPT !.rv = api.rv + 1]
  /\ watch' = [m \in Managers |-> watch[m] \cup {api'}]

(* The precondition of Update and Status().Update for a copy o. *)
UpToDate(o) == api.exists /\ o.rv = api.rv

(* The effect of an Update that sends o with the finalizer added. *)
WriteFinalizer(o) == Publish([o EXCEPT !.finalizer = TRUE])

(* The effect of an Update that sends o with the finalizer removed: an     *)
(* object being deleted is then removed for good.                          *)
WriteNoFinalizer(o) ==
  Publish([o EXCEPT !.finalizer = FALSE, !.exists = ~ o.deleting])

(* The effect of a Status().Update that sends o with status st; a write    *)
(* that changes nothing makes no new version.                              *)
WriteStatus(o, st) ==
  IF st = o.status THEN UNCHANGED <<api, watch>>
                   ELSE Publish([o EXCEPT !.status = st])

-----------------------------------------------------------------------------
(* Users: kubectl apply of a new object (also again after a deletion),     *)
(* an edit - of the spec, or of metadata only when s is the current spec - *)
(* and kubectl delete.                                                     *)
UserCreate(s, emptyStatus) ==
  /\ ~ api.exists
  /\ IF api.rv = 0 THEN UNCHANGED left ELSE Spend("edits")
  /\ Publish([exists |-> TRUE, rv |-> 0, gen |-> 1, deleting |-> FALSE,
              finalizer |-> FALSE, spec |-> s, status |-> emptyStatus])
  /\ UNCHANGED <<cache, queued>>

UserEdit(s) ==
  /\ api.exists
  /\ Spend("edits")
  /\ Publish([api EXCEPT !.spec = s,
                         !.gen = IF s = api.spec THEN @ ELSE @ + 1])
  /\ UNCHANGED <<cache, queued>>

UserDelete ==
  /\ api.exists
  /\ ~ api.deleting
  /\ Publish(IF api.finalizer
               THEN [api EXCEPT !.deleting = TRUE, !.gen = @ + 1]
               ELSE [api EXCEPT !.exists = FALSE])
  /\ UNCHANGED <<cache, queued, left>>

(* The informer of manager m handles its oldest undelivered event. *)
Sync(m) ==
  \E v \in watch[m] :
    /\ \A u \in watch[m] : v.rv <= u.rv
    /\ cache' = [cache EXCEPT ![m] = v]
    /\ watch' = [watch EXCEPT ![m] = @ \ {v}]
    /\ queued' = [queued EXCEPT ![m] = TRUE]
    /\ UNCHANGED <<api, left>>

(* The informer's periodic resync, or a requeue timer of an earlier        *)
(* reconcile, queues a cached object without an event.                     *)
Resync(m) ==
  /\ cache[m].exists
  /\ ~ queued[m]
  /\ queued' = [queued EXCEPT ![m] = TRUE]
  /\ UNCHANGED <<api, cache, watch, left>>

(* Manager m starts again: its informer lists the object afresh, and the   *)
(* initial list queues it.                                                 *)
Relist(m) ==
  /\ cache' = [cache EXCEPT ![m] = api]
  /\ watch' = [watch EXCEPT ![m] = {}]
  /\ queued' = [queued EXCEPT ![m] = api.exists]
  /\ UNCHANGED api
=============================================================================
