------------------------------ MODULE Lifecycle ------------------------------
(***************************************************************************)
(* The part of a reconcile that all controllers share                      *)
(* (internal/controller/lifecycle.go): a worker per manager, which holds   *)
(* the object it read, and the helpers that end a reconcile or write to    *)
(* the API server.                                                         *)
(*                                                                         *)
(* A reconcile is cut at its external calls: one action performs one call  *)
(* and everything the code computes up to the next one.                    *)
(***************************************************************************)
EXTENDS KubeApi

CONSTANT NoId      \* the empty status ID

VARIABLE w         \* [Managers -> worker]

(* A worker: the call it makes next, the copy of the object it holds (as   *)
(* read), the status snapshot taken for statusUnchanged, and the status it *)
(* is about to write.                                                      *)
Workers(Statuses, Calls) ==
  [pc: Calls \cup {"idle"}, obj: Versions(Statuses),
   before: Statuses, st: Statuses]

Idle(emptyStatus) ==
  [pc |-> "idle", obj |-> NoObject(emptyStatus),
   before |-> emptyStatus, st |-> emptyStatus]

(* A worker that has read o and whose next call is pc. *)
WorkingOn(pc, o) ==
  [pc |-> pc, obj |-> o, before |-> o.status, st |-> o.status]

-----------------------------------------------------------------------------
(* isAdopted: the spec names an existing STACKIT object. *)
isAdopted(existing) == existing # NoId

(* Defect: no requeue is scheduled, only watch events are relied on. *)
Return_NoRequeue(m, again, emptyStatus) ==
  w' = [w EXCEPT ![m] = Idle(emptyStatus)] /\ UNCHANGED queued

(* The reconcile of manager m returns; again says whether its result is an *)
(* error or asks for a requeue (at once, or after a poll, error or resync  *)
(* interval, which differ only in delay).  demoteTransientAuthError turns  *)
(* one kind of error into a requeue, so it changes nothing here.  A watch  *)
(* event that came in meanwhile keeps the key queued.                      *)
Return(m, again, emptyStatus) ==
  /\ w' = [w EXCEPT ![m] = Idle(emptyStatus)]
  /\ queued' = [queued EXCEPT ![m] = @ \/ again]

(* "if !statusUnchanged(before, status) { Status().Update }": the worker   *)
(* goes on to the write only if the new status differs from the snapshot.  *)
statusUnchanged(before, after) == before = after

SaveStatus(m, st, emptyStatus) ==
  IF statusUnchanged(w[m].before, st)
    THEN Return(m, TRUE, emptyStatus)
    ELSE /\ w' = [w EXCEPT ![m].pc = "write", ![m].st = st]
         /\ UNCHANGED queued

(* ensureFinalizer's Update: a stale copy gets a conflict; either way the  *)
(* object is reconciled again.                                             *)
ensureFinalizer(m, emptyStatus) ==
  /\ w[m].pc = "addFinalizer"
  /\ IF UpToDate(w[m].obj) THEN WriteFinalizer(w[m].obj)
                           ELSE UNCHANGED <<api, watch>>
  /\ Return(m, TRUE, emptyStatus)
  /\ UNCHANGED <<cache, left>>

(* removeFinalizerAndUpdate: on success nothing is requeued. *)
removeFinalizerAndUpdate(m, emptyStatus) ==
  /\ w[m].pc = "dropFinalizer"
  /\ IF UpToDate(w[m].obj)
       THEN WriteNoFinalizer(w[m].obj) /\ Return(m, FALSE, emptyStatus)
       ELSE UNCHANGED <<api, watch>> /\ Return(m, TRUE, emptyStatus)
  /\ UNCHANGED <<cache, left>>

(* idAlreadyPresent: read the object from the API server into the worker's *)
(* copy; without it, or with an ID in it, no create follows.               *)
idAlreadyPresent(m, snapshotAfter, emptyStatus) ==
  /\ w[m].pc = "recheck"
  /\ IF api.exists /\ api.status.id = NoId
       THEN /\ w' = [w EXCEPT ![m] =
                       [pc |-> "create", obj |-> api, st |-> api.status,
                        before |-> IF snapshotAfter THEN api.status ELSE @.before]]
            /\ UNCHANGED queued
       ELSE Return(m, TRUE, emptyStatus)
  /\ UNCHANGED <<api, cache, watch, left>>

(* Status().Update(obj): a stale copy gets a conflict, which is retried,   *)
(* and the status - with any ID in it - is dropped with the worker's copy. *)
(* again says whether a successful write is followed by a requeue.         *)
StatusUpdate(m, again, emptyStatus) ==
  /\ w[m].pc = "write"
  /\ IF UpToDate(w[m].obj)
       THEN WriteStatus(w[m].obj, w[m].st) /\ Return(m, again, emptyStatus)
       ELSE UNCHANGED <<api, watch>> /\ Return(m, TRUE, emptyStatus)
  /\ UNCHANGED <<cache, left>>

(* Any other call fails without effect (network, 5xx, authentication): the *)
(* error ends the reconcile and is retried.                                *)
CallFails(m, emptyStatus) ==
  /\ w[m].pc \notin {"idle", "create"}
  /\ Spend("faults")
  /\ Return(m, TRUE, emptyStatus)
  /\ UNCHANGED <<api, cache, watch>>

(* The manager process dies and is started again. *)
Restart(m, emptyStatus) ==
  /\ Spend("faults")
  /\ w' = [w EXCEPT ![m] = Idle(emptyStatus)]
  /\ Relist(m)
=============================================================================
