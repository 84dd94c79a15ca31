----------------------------- MODULE StackProofs -----------------------------
(***************************************************************************)
(* A theorem about Stack, for any managers, specs, servers and volumes:    *)
(* the Volume object outlives the servers that boot from its volume.       *)
(***************************************************************************)
EXTENDS Stack, TLAPS

(* What is proved of VolumeController holds of the Volume's side of Stack, *)
(* whose steps are those of VolumeController.                              *)
P == INSTANCE VolumeProofs WITH
  api <- vApi, cache <- vCache, watch <- vWatch, queued <- vQueued,
  left <- vLeft, w <- vW, cloud <- vCloud,
  Ids <- VolumeIds, Specs <- VolumeSpecs, SettledStates <- {"AVAILABLE", "ATTACHED"},
  OutageStates <- {}, MaxEdits <- 0, MaxFaults <- 0, MaxOutages <- 0, MaxTogether <- 0

(* The Volume is never made anew and keeps the finalizer until its         *)
(* deletion is done.                                                       *)
Lasting ==
  /\ vApi.rv > 0
  /\ vApi.exists => vApi.finalizer
  /\ vLeft = [edits |-> 0, faults |-> 0, outages |-> 0]

(* Only for an object in deletion a worker goes on to drop the finalizer.  *)
SeenDeleted ==
  \A m \in Managers :
    vW[m].pc \in {"delGet", "dropFinalizer"} => vW[m].obj.deleting

(* The states a volume has while a server holds it. *)
HeldStates == {"ATTACHED", "RESIZING"}

(* What STACKIT knows of the servers and the volumes they boot from: a     *)
(* volume that a server holds is in a state in which it is not deleted,    *)
(* and no other server holds it.                                           *)
Holding ==
  /\ resolved \in [Managers -> VolumeIds \cup {Foreign, NoId}]
  /\ DOMAIN sCloud = ServerIds
  /\ boots \in [ServerIds -> VolumeIds \cup {Foreign, NoId}]
  /\ \A i \in ServerIds :
       boots[i] \in VolumeIds => vCloud[boots[i]].state \in HeldStates
  /\ \A i, j \in ServerIds : boots[i] \in VolumeIds /\ boots[i] = boots[j] => i = j

StackInv == P!TypeInv /\ P!CopiesSound /\ Lasting /\ SeenDeleted /\ Holding

-----------------------------------------------------------------------------
(* V, the instance of VolumeController in Stack, and P have the same steps. *)

LEMMA SameUser == V!User <=> P!User
BY DEF V!User, P!User, V!UserCreate, P!UserCreate, V!Spend, P!Spend, V!Spent,
       P!Spent, V!Publish, P!Publish, V!NoStatus, P!NoStatus, V!UserEdit,
       P!UserEdit, V!UserDelete, P!UserDelete

LEMMA SameSync == \A m : V!Sync(m) <=> P!Sync(m)
BY DEF V!Sync, P!Sync

LEMMA SameReconcile == \A m : V!Reconcile(m) <=> P!Reconcile(m)
BY DEF V!Reconcile, P!Reconcile, V!reconcile, P!reconcile, V!reconcileDelete,
       P!reconcileDelete, V!Adopted, P!Adopted, V!isAdopted, P!isAdopted,
       V!Idle, P!Idle, V!NoObject, P!NoObject, V!NoStatus, P!NoStatus,
       V!WorkingOn, P!WorkingOn

LEMMA SameStep == \A m : V!Step(m) <=> P!Step(m)
BY DEF V!Step, P!Step, V!AddFinalizer, P!AddFinalizer, V!ensureFinalizer,
       P!ensureFinalizer, V!UpToDate, P!UpToDate, V!WriteFinalizer,
       P!WriteFinalizer, V!Publish, P!Publish, V!Return, P!Return, V!Idle,
       P!Idle, V!NoObject, P!NoObject, V!NoStatus, P!NoStatus,
       V!DropFinalizer, P!DropFinalizer, V!removeFinalizerAndUpdate,
       P!removeFinalizerAndUpdate, V!WriteNoFinalizer, P!WriteNoFinalizer,
       V!AdoptGet, P!AdoptGet, V!SaveStatus, P!SaveStatus, V!statusUnchanged,
       P!statusUnchanged, V!IsNotFound, P!IsNotFound, V!Absent, P!Absent,
       V!setReadyCondition, P!setReadyCondition, V!applyVolumeStatus,
       P!applyVolumeStatus, V!Recheck, P!Recheck, V!idAlreadyPresent,
       P!idAlreadyPresent, V!CreateSucceeds, P!CreateSucceeds, V!CreateVolume,
       P!CreateVolume, V!FreshId, P!FreshId, V!CreateFailed, P!CreateFailed,
       V!Spend, P!Spend, V!Spent, P!Spent, V!ObserveMissing, P!ObserveMissing,
       V!NotFoundStatus, P!NotFoundStatus, V!Adopted, P!Adopted, V!isAdopted,
       P!isAdopted, V!ObserveVolume, P!ObserveVolume, V!MustNotCorrect,
       P!MustNotCorrect, V!volumeTransitionalStates,
       P!volumeTransitionalStates, V!ErrorStates, P!ErrorStates,
       V!reconcileDrift, P!reconcileDrift, V!ObservedReason, P!ObservedReason,
       V!ObserveDrift, P!ObserveDrift, V!ResizeVolume, P!ResizeVolume,
       V!UpdateVolume, P!UpdateVolume, V!DeleteGet, P!DeleteGet,
       V!DeleteVolume, P!DeleteVolume, V!IsConflict, P!IsConflict,
       V!WriteBack, P!WriteBack, V!StatusUpdate, P!StatusUpdate,
       V!WriteStatus, P!WriteStatus

LEMMA SameSettle == \A v : V!Settle(v) <=> P!Settle(v)
BY DEF V!Settle, P!Settle, V!volumeTransitionalStates,
       P!volumeTransitionalStates

LEMMA SameRecorded == \A v : V!Recorded(v) <=> P!Recorded(v)
BY DEF V!Recorded, P!Recorded

-----------------------------------------------------------------------------
(* What VolumeProofs shows of a step, given the assumptions it makes.      *)

LEMMA VolumeTypes ==
  ASSUME P!TypeInv, [P!Next]_(P!vars) PROVE P!TypeInv'
<1>1. VolumeSpecs \subseteq P!VolumeSpec
  BY StackAssumption DEF V!VolumeSpec, P!VolumeSpec
<1>2. {"AVAILABLE", "ATTACHED"} \subseteq P!States
  BY DEF P!States
<1> QED BY <1>1, <1>2, P!NextType, StackAssumption

LEMMA VolumeSound ==
  ASSUME P!TypeInv, P!CopiesSound, [P!Next]_(P!vars) PROVE P!CopiesSound'
<1>1. VolumeSpecs \subseteq P!VolumeSpec
  BY StackAssumption DEF V!VolumeSpec, P!VolumeSpec
<1>2. {"AVAILABLE", "ATTACHED"} \subseteq P!States
  BY DEF P!States
<1> QED BY <1>1, <1>2, P!NextSound, StackAssumption

-----------------------------------------------------------------------------
(* A step of Stack is one of the Volume's side, ...                        *)
VolumeMoves ==
  \/ VolumeUser
  \/ \E m \in Managers : VolumeSync(m) \/ VolumeReconcile(m) \/ VolumeStep(m)
  \/ \E v \in VolumeIds : VolumeSettle(v)

(* ... or of the Server's, which leaves the Volume's alone except for what *)
(* becomes of the volume that a server takes hold of or releases.          *)
ServerMoves ==
  \/ ServerUser
  \/ \E m \in Managers : ServerSync(m) \/ ServerReconcile(m) \/ ServerStep(m)
  \/ \E i \in ServerIds : ServerSettle(i)

LEMMA VolumeSide ==
  ASSUME VolumeMoves
  PROVE  P!Next /\ UNCHANGED <<serverVars, resolved, boots>>
<1>1. CASE VolumeUser
  BY <1>1, SameUser DEF VolumeUser, P!Next
<1>2. ASSUME NEW m \in Managers, VolumeSync(m)
      PROVE  P!Next /\ UNCHANGED <<serverVars, resolved, boots>>
  BY <1>2, SameSync DEF VolumeSync, P!Next, P!Informer
<1>3. ASSUME NEW m \in Managers, VolumeReconcile(m) \/ VolumeStep(m)
      PROVE  P!Next /\ UNCHANGED <<serverVars, resolved, boots>>
  BY <1>3, SameReconcile, SameStep DEF VolumeReconcile, VolumeStep, P!Next
<1>4. ASSUME NEW v \in VolumeIds, VolumeSettle(v)
      PROVE  P!Next /\ UNCHANGED <<serverVars, resolved, boots>>
  BY <1>4, SameSettle DEF VolumeSettle, P!Next
<1> QED BY <1>1, <1>2, <1>3, <1>4 DEF VolumeMoves

(* STACKIT gives or takes a volume that has been made and is not gone. *)
Handed(v, s) ==
  /\ v \in VolumeIds => vCloud[v].state \notin {"none", "gone"}
  /\ s \in {"ATTACHED", "AVAILABLE", "gone"}
  /\ vCloud' = [vCloud EXCEPT ![v].state = s]

LEMMA HandedKeeps ==
  ASSUME P!TypeInv, P!CopiesSound,
         UNCHANGED <<vApi, vCache, vWatch, vQueued, vLeft, vW>>,
         NEW v \in VolumeIds \cup {Foreign}, NEW s, Handed(v, s)
  PROVE  P!TypeInv' /\ P!CopiesSound'
<1>0. vCloud \in [VolumeIds \cup {Foreign} -> P!Volumes]
  BY DEF P!TypeInv, P!TypeOK
<1>1. vCloud' \in [VolumeIds \cup {Foreign} -> P!Volumes]
  <2>1. s \in P!States \cup P!Absent
    BY DEF Handed, P!States, P!Absent
  <2>2. [vCloud[v] EXCEPT !.state = s] \in P!Volumes
    BY <1>0, <2>1 DEF P!Volumes
  <2> QED BY <1>0, <2>2 DEF Handed
<1>2. P!TypeInv'
  BY <1>1 DEF P!TypeInv, P!TypeOK, P!KubeTypeOK, P!Shape
<1>3. ASSUME NEW u \in VolumeIds
      PROVE  /\ vCloud[u].state # "none" => vCloud'[u].state # "none"
             /\ vCloud[u].state = "gone" => vCloud'[u].state = "gone"
  BY <1>0, <1>3 DEF Handed
<1>4. ASSUME NEW st, P!Made(st, vCloud) PROVE P!Made(st, vCloud')
  BY <1>3, <1>4 DEF P!Made
<1>5. ASSUME NEW o, P!Sound(o, vApi, vCloud) PROVE P!Sound(o, vApi', vCloud')
  BY <1>4, <1>5 DEF P!Sound
<1>6. ASSUME NEW x, P!Knows(x, vCloud) PROVE P!Knows(x, vCloud')
  BY <1>3, <1>6 DEF P!Knows, P!Gone
<1>7. ASSUME NEW x, P!GoodWorker(x, vApi, vCloud) PROVE P!GoodWorker(x, vApi', vCloud')
  BY <1>4, <1>5, <1>6, <1>7 DEF P!GoodWorker
<1>8. P!CopiesSound'
  <2>1. P!NoObject(P!NoStatus)' = P!NoObject(P!NoStatus)
    BY DEF P!NoObject, P!NoStatus
  <2> QED BY <1>5, <1>7, <2>1 DEF P!CopiesSound
<1> QED BY <1>2, <1>8

LEMMA UnchangedVolume ==
  ASSUME P!TypeInv, P!CopiesSound,
         UNCHANGED <<vApi, vCache, vWatch, vQueued, vLeft, vW, vCloud>>
  PROVE  P!TypeInv' /\ P!CopiesSound'
BY VolumeTypes, VolumeSound DEF P!vars

-----------------------------------------------------------------------------
(* The Volume's side of StackInv. *)

LEMMA NothingToSpend == ASSUME Lasting PROVE \A x \in {"edits", "faults"} : ~ P!Spend(x)
BY DEF Lasting, P!Spend

(* A call that returns, or goes on to the status write, leaves the worker  *)
(* in no deletion.                                                         *)
LEMMA EndsDeletion ==
  ASSUME P!TypeInv, SeenDeleted, NEW m \in Managers,
         \A n \in Managers \ {m} : vW'[n] = vW[n],
         vW'[m].pc \in {"idle", "write"}
  PROVE  SeenDeleted'
BY DEF SeenDeleted

LEMMA UserLasting ==
  ASSUME P!TypeInv, Lasting, SeenDeleted, P!User PROVE Lasting' /\ SeenDeleted'
<1>2. vApi \in P!Versions(P!Statuses)
  BY DEF P!TypeInv, P!TypeOK, P!KubeTypeOK
<1>1. P!UserDelete
  <2>1. vApi.rv # 0
    BY <1>2 DEF Lasting, P!Versions
  <2>2. ~ P!Spend("edits")
    BY NothingToSpend
  <2> QED BY <2>1, <2>2 DEF P!User, P!UserCreate, P!UserEdit
<1>3. Lasting'
  BY <1>1, <1>2 DEF P!UserDelete, P!Publish, P!Versions, Lasting
<1> QED BY <1>3 DEF P!User, SeenDeleted

LEMMA WriteLasting ==
  ASSUME P!TypeInv, P!CopiesSound, Lasting, SeenDeleted, NEW m \in Managers,
         P!AddFinalizer(m) \/ P!DropFinalizer(m) \/ P!WriteBack(m)
  PROVE  Lasting' /\ SeenDeleted'
<1> DEFINE o == vW[m].obj
<1>1. /\ vW \in [Managers -> P!Workers(P!Statuses, P!Calls)]
      /\ vApi \in P!Versions(P!Statuses)
      /\ o \in P!Versions(P!Statuses)
  BY DEF P!TypeInv, P!TypeOK, P!KubeTypeOK, P!Workers
<1>2. SeenDeleted'
  BY <1>1 DEF P!AddFinalizer, P!ensureFinalizer, P!DropFinalizer,
       P!removeFinalizerAndUpdate, P!WriteBack, P!StatusUpdate, P!Return, P!Idle,
       P!Workers, SeenDeleted
<1>3. UNCHANGED vLeft
  BY DEF P!AddFinalizer, P!ensureFinalizer, P!DropFinalizer,
       P!removeFinalizerAndUpdate, P!WriteBack, P!StatusUpdate
<1>4. P!UpToDate(o) => o = vApi
  BY DEF P!CopiesSound, P!GoodWorker, P!Sound, P!UpToDate
<1> SUFFICES ASSUME P!UpToDate(o), o = vApi, vApi' # vApi PROVE Lasting'
  BY <1>2, <1>3, <1>4 DEF Lasting, P!AddFinalizer, P!ensureFinalizer, P!DropFinalizer,
     P!removeFinalizerAndUpdate, P!WriteBack, P!StatusUpdate
<1>5. CASE P!AddFinalizer(m)
  <2>1. vApi' = [[vApi EXCEPT !.finalizer = TRUE] EXCEPT !.rv = vApi.rv + 1]
    BY <1>5 DEF P!AddFinalizer, P!ensureFinalizer, P!WriteFinalizer, P!Publish
  <2> QED BY <1>1, <1>3, <2>1 DEF P!Versions, Lasting
<1>6. CASE P!DropFinalizer(m)
  <2>1. o.deleting
    BY <1>6 DEF P!DropFinalizer, P!removeFinalizerAndUpdate, SeenDeleted
  <2>2. vApi' = [[vApi EXCEPT !.finalizer = FALSE, !.exists = ~ vApi.deleting]
                   EXCEPT !.rv = vApi.rv + 1]
    BY <1>6 DEF P!DropFinalizer, P!removeFinalizerAndUpdate, P!WriteNoFinalizer,
       P!Publish
  <2>3. vApi.deleting = TRUE
    BY <1>1, <2>1 DEF P!Versions
  <2>4. ~ vApi'.exists /\ vApi'.rv = vApi.rv + 1
    BY <1>1, <2>2, <2>3 DEF P!Versions
  <2> QED BY <1>1, <1>3, <2>4 DEF P!Versions, Lasting
<1>7. CASE P!WriteBack(m)
  <2>1. vApi' = [[vApi EXCEPT !.status = vW[m].st] EXCEPT !.rv = vApi.rv + 1]
    BY <1>7 DEF P!WriteBack, P!StatusUpdate, P!WriteStatus, P!Publish
  <2> QED BY <1>1, <1>3, <2>1 DEF P!Versions, Lasting
<1> QED BY <1>5, <1>6, <1>7

LEMMA CallLasting ==
  ASSUME P!TypeInv, Lasting, SeenDeleted, NEW m \in Managers,
         \/ P!Reconcile(m) \/ P!AdoptGet(m) \/ P!Recheck(m)
         \/ P!CreateSucceeds(m) \/ P!CreateFailed(m)
         \/ P!ObserveMissing(m) \/ P!ObserveVolume(m) \/ P!ObserveDrift(m)
         \/ P!ResizeVolume(m) \/ P!UpdateVolume(m)
         \/ P!DeleteGet(m) \/ P!DeleteVolume(m)
  PROVE  Lasting' /\ SeenDeleted'
<1> DEFINE Ends == /\ \A n \in Managers \ {m} : vW'[n] = vW[n]
                   /\ vW'[m].pc \in {"idle", "write"}
<1>1. /\ vW \in [Managers -> P!Workers(P!Statuses, P!Calls)]
      /\ vW[m] \in P!Workers(P!Statuses, P!Calls)
  BY DEF P!TypeInv, P!TypeOK
<1>2. ASSUME NEW again, P!Return(m, again, P!NoStatus) PROVE Ends
  BY <1>1, <1>2 DEF P!Return, P!Idle
<1>3. ASSUME NEW st, P!SaveStatus(m, st, P!NoStatus) PROVE Ends
  <2>1. CASE P!Return(m, TRUE, P!NoStatus)
    BY <1>2, <2>1
  <2>2. CASE vW' = [vW EXCEPT ![m].pc = "write", ![m].st = st]
    BY <1>1, <2>2 DEF P!Workers
  <2> QED BY <1>3, <2>1, <2>2 DEF P!SaveStatus
<1>4. UNCHANGED <<vApi, vLeft>>
  BY NothingToSpend DEF P!Reconcile, P!AdoptGet, P!Recheck, P!idAlreadyPresent,
     P!CreateSucceeds, P!CreateFailed, P!ObserveMissing, P!ObserveVolume,
     P!ObserveDrift, P!ResizeVolume, P!UpdateVolume, P!DeleteGet, P!DeleteVolume
<1> SUFFICES SeenDeleted'
  BY <1>4 DEF Lasting
<1>5. CASE P!Reconcile(m)
  <2> DEFINE o == vCache[m]
  <2>1. \A n \in Managers \ {m} : vW'[n] = vW[n]
    BY <1>1, <1>5 DEF P!Reconcile
  <2>2. vW'[m] = IF P!reconcile(o) = "idle" THEN P!Idle(P!NoStatus)
                 ELSE P!WorkingOn(P!reconcile(o), o)
    BY <1>1, <1>5 DEF P!Reconcile
  <2>3. P!reconcile(o) \in {"delGet", "dropFinalizer"} => o.deleting
    BY DEF P!reconcile, P!reconcileDelete
  <2>4. vW'[m].pc \in {"delGet", "dropFinalizer"} => vW'[m].obj.deleting
    BY <2>2, <2>3 DEF P!Idle, P!WorkingOn
  <2> QED BY <2>1, <2>4 DEF SeenDeleted
<1>6. CASE P!Recheck(m)
  <2>1. CASE P!Return(m, TRUE, P!NoStatus)
    BY <1>2, <2>1, EndsDeletion
  <2>2. CASE ~ P!Return(m, TRUE, P!NoStatus)
    <3>1. vW' = [vW EXCEPT ![m] = [pc |-> "create", obj |-> vApi, st |-> vApi.status,
                                   before |-> vW[m].before]]
      BY <1>6, <2>2 DEF P!Recheck, P!idAlreadyPresent
    <3> QED BY <1>1, <3>1 DEF SeenDeleted
  <2> QED BY <2>1, <2>2
<1>7. CASE P!ObserveDrift(m)
  <2> DEFINE o == vW[m].obj
  <2>1. P!reconcileDrift(o, vCloud[o.status.id]) \in {"resize", "update", "none"}
    BY DEF P!reconcileDrift
  <2> QED BY <1>1, <1>7, <2>1 DEF P!ObserveDrift, P!Workers, SeenDeleted
<1>8. CASE P!DeleteGet(m)
  <2> DEFINE o == vW[m].obj
             st == P!applyVolumeStatus(o, o.status, vCloud[o.status.id])
  <2>1. CASE P!SaveStatus(m, P!setReadyCondition(o, st, "Deleting"), P!NoStatus)
    BY <1>3, <2>1, EndsDeletion
  <2>2. CASE vW' = [vW EXCEPT ![m].pc = "dropFinalizer"]
    BY <1>1, <1>8, <2>2 DEF P!DeleteGet, P!Workers, SeenDeleted
  <2>3. CASE vW' = [vW EXCEPT ![m].pc = "delete", ![m].st = st]
    BY <1>1, <2>3 DEF P!Workers, SeenDeleted
  <2> QED BY <1>8, <2>1, <2>2, <2>3 DEF P!DeleteGet
<1>9. CASE P!ResizeVolume(m) \/ P!UpdateVolume(m)
  <2>1. P!Return(m, TRUE, P!NoStatus)
    BY <1>9 DEF P!ResizeVolume, P!UpdateVolume
  <2> QED BY <1>2, <2>1, EndsDeletion
<1>10. CASE \/ P!AdoptGet(m) \/ P!CreateSucceeds(m) \/ P!CreateFailed(m)
            \/ P!ObserveMissing(m) \/ P!ObserveVolume(m) \/ P!DeleteVolume(m)
  <2>1. PICK st : P!SaveStatus(m, st, P!NoStatus)
    BY <1>10 DEF P!AdoptGet, P!CreateSucceeds, P!CreateFailed,
       P!ObserveMissing, P!ObserveVolume, P!DeleteVolume
  <2> QED BY <1>3, <2>1, EndsDeletion
<1> QED BY <1>5, <1>6, <1>7, <1>8, <1>9, <1>10

LEMMA VolumeLasting ==
  ASSUME P!TypeInv, P!CopiesSound, Lasting, SeenDeleted, VolumeMoves
  PROVE  Lasting' /\ SeenDeleted'
<1>1. CASE VolumeUser
  BY <1>1, SameUser, UserLasting DEF VolumeUser
<1>2. ASSUME NEW m \in Managers, VolumeSync(m) PROVE Lasting' /\ SeenDeleted'
  BY <1>2, SameSync DEF VolumeSync, P!Sync, Lasting, SeenDeleted
<1>3. ASSUME NEW m \in Managers, VolumeReconcile(m) \/ VolumeStep(m)
      PROVE  Lasting' /\ SeenDeleted'
  <2>1. P!Reconcile(m) \/ P!Step(m)
    BY <1>3, SameReconcile, SameStep DEF VolumeReconcile, VolumeStep
  <2> QED BY <2>1, WriteLasting, CallLasting DEF P!Step
<1>4. ASSUME NEW v \in VolumeIds, VolumeSettle(v) PROVE Lasting' /\ SeenDeleted'
  BY <1>4, SameSettle DEF VolumeSettle, P!Settle, Lasting, SeenDeleted
<1> QED BY <1>1, <1>2, <1>3, <1>4 DEF VolumeMoves

-----------------------------------------------------------------------------
(* Steps of the Volume's side leave a volume that a server holds in a      *)
(* state in which it is not deleted.                                       *)

LEMMA CallHolds ==
  ASSUME P!TypeInv, Lasting, NEW m \in Managers, P!Reconcile(m) \/ P!Step(m),
         NEW v \in VolumeIds, vCloud[v].state \in HeldStates
  PROVE  vCloud'[v].state \in HeldStates
<1> DEFINE u == vW[m].obj.status.id
<1>1. /\ vCloud \in [VolumeIds \cup {Foreign} -> P!Volumes]
      /\ vW \in [Managers -> P!Workers(P!Statuses, P!Calls)]
      /\ vW[m].obj.status.id \in VolumeIds \cup {Foreign, NoId}
  BY DEF P!TypeInv, P!TypeOK, P!Workers, P!Versions, P!Statuses
<1>2. P!CreateFailed(m) => UNCHANGED vCloud
  BY NothingToSpend DEF P!CreateFailed
<1>3. CASE UNCHANGED vCloud
  BY <1>3
<1>4. CASE P!CreateSucceeds(m)
  <2>1. PICK i \in VolumeIds : P!CreateVolume(i, vW[m].obj)
    BY <1>4 DEF P!CreateSucceeds
  <2>2. v # i
    BY <2>1 DEF P!CreateVolume, HeldStates
  <2> QED BY <1>1, <2>1, <2>2 DEF P!CreateVolume
<1>5. CASE P!ResizeVolume(m)
  BY <1>1, <1>5 DEF P!ResizeVolume, P!Volumes, HeldStates
<1>6. CASE P!UpdateVolume(m)
  BY <1>1, <1>6 DEF P!UpdateVolume, P!Volumes
<1>7. CASE P!DeleteVolume(m)
  <2>1. CASE u = v
    <3>1. P!IsConflict(v)
      BY DEF P!IsConflict, P!volumeTransitionalStates, HeldStates
    <3> QED BY <1>7, <2>1, <3>1 DEF P!DeleteVolume
  <2>2. CASE u # v
    BY <1>1, <1>7, <2>2 DEF P!DeleteVolume
  <2> QED BY <2>1, <2>2
<1> QED
  BY <1>2, <1>3, <1>4, <1>5, <1>6, <1>7 DEF P!Reconcile, P!Step, P!AddFinalizer,
     P!DropFinalizer, P!AdoptGet, P!Recheck, P!ObserveMissing, P!ObserveVolume,
     P!ObserveDrift, P!DeleteGet, P!WriteBack

LEMMA VolumeHolding ==
  ASSUME P!TypeInv, Lasting, Holding, VolumeMoves PROVE Holding'
<1>1. UNCHANGED <<sCloud, resolved, boots>>
  BY VolumeSide DEF serverVars
<1> SUFFICES ASSUME NEW i \in ServerIds, boots[i] \in VolumeIds
             PROVE  vCloud'[boots[i]].state \in HeldStates
  BY <1>1 DEF Holding, HeldStates
<1> DEFINE v == boots[i]
<1>2. vCloud[v].state \in HeldStates
  BY DEF Holding, HeldStates
<1>3. CASE VolumeUser
  BY <1>2, <1>3, SameUser DEF VolumeUser, P!User
<1>4. ASSUME NEW m \in Managers, VolumeSync(m) PROVE vCloud'[v].state \in HeldStates
  BY <1>2, <1>4 DEF VolumeSync
<1>5. ASSUME NEW m \in Managers, VolumeReconcile(m) \/ VolumeStep(m)
      PROVE  vCloud'[v].state \in HeldStates
  BY <1>2, <1>5, SameReconcile, SameStep, CallHolds DEF VolumeReconcile, VolumeStep
<1>6. ASSUME NEW u \in VolumeIds, VolumeSettle(u)
      PROVE  vCloud'[v].state \in HeldStates
  <2>0. vCloud \in [VolumeIds \cup {Foreign} -> P!Volumes]
    BY DEF P!TypeInv, P!TypeOK
  <2>1. P!Settle(u)
    BY <1>6, SameSettle DEF VolumeSettle
  <2>2. CASE u # v
    BY <1>2, <2>0, <2>1, <2>2 DEF P!Settle
  <2>3. CASE u = v
    <3>1. vCloud'[v].state \in {"AVAILABLE", "ATTACHED"}
      BY <1>2, <2>0, <2>1, <2>3 DEF P!Settle, P!Volumes, HeldStates
    <3>2. vCloud'[v].state = "ATTACHED"
      BY <1>6, <2>3, <3>1 DEF VolumeSettle
    <3> QED BY <3>2 DEF HeldStates
  <2> QED BY <2>2, <2>3
<1> QED BY <1>3, <1>4, <1>5, <1>6 DEF VolumeMoves

-----------------------------------------------------------------------------
(* The Server's side of StackInv. *)

(* Which steps of the Server's side do what. *)
Quiet(m) ==
  \/ ServerSync(m) \/ ServerReconcile(m) \/ CreateRefused(m) \/ ServerCall(m)

LEMMA QuietHolding ==
  ASSUME Holding, ServerUser \/ \E m \in Managers : Quiet(m)
  PROVE  Holding' /\ UNCHANGED <<vApi, vCache, vWatch, vQueued, vLeft, vW, vCloud>>
<1>1. DOMAIN sCloud' = DOMAIN sCloud
  BY DEF Quiet, ServerUser, ServerSync, ServerReconcile, CreateRefused, ServerCall,
     S!Reconcile, S!CreateRejected, S!AddFinalizer, S!DropFinalizer, S!Unresolved,
     S!ObserveMissing, S!ObserveServer, S!DeleteGet, S!DeleteServer, S!WriteBack
<1>2. UNCHANGED <<volumeVars, boots>>
  BY DEF Quiet, ServerUser, ServerSync, ServerReconcile, CreateRefused, ServerCall
<1>3. UNCHANGED resolved \/ \E m \in Managers : resolved' = [resolved EXCEPT ![m] = NoId]
  BY DEF Quiet, ServerUser, ServerSync, ServerReconcile, CreateRefused, ServerCall
<1> QED BY <1>1, <1>2, <1>3 DEF volumeVars, Holding

LEMMA ResolveHolding ==
  ASSUME P!TypeInv, Holding, NEW m \in Managers, Resolve(m)
  PROVE  Holding' /\ UNCHANGED <<vApi, vCache, vWatch, vQueued, vLeft, vW, vCloud>>
<1>1. UNCHANGED <<volumeVars, boots, sCloud>>
  BY DEF Resolve, S!Recheck
<1>2. vCache[m].status.id \in VolumeIds \cup {Foreign, NoId}
  BY DEF P!TypeInv, P!TypeOK, P!KubeTypeOK, P!Versions, P!Statuses
<1>3. resolved' \in [Managers -> VolumeIds \cup {Foreign, NoId}]
  BY <1>2 DEF Resolve, Holding
<1> QED BY <1>1, <1>3 DEF volumeVars, Holding

LEMMA CreateHolding ==
  ASSUME P!TypeInv, Holding, NEW m \in Managers, CreateFromVolume(m)
  PROVE  /\ Holding'
         /\ UNCHANGED <<vApi, vCache, vWatch, vQueued, vLeft, vW>>
         /\ \/ UNCHANGED vCloud
            \/ \E v \in VolumeIds \cup {Foreign} : Handed(v, "ATTACHED")
<1> DEFINE v == resolved[m]
<1>1. /\ v \in VolumeIds \cup {Foreign, NoId}
      /\ vCloud \in [VolumeIds \cup {Foreign} -> P!Volumes]
      /\ NoId \notin VolumeIds \cup {Foreign} /\ Foreign \notin VolumeIds
  BY StackAssumption DEF Holding, P!TypeInv, P!TypeOK
<1>2. PICK s \in ServerIds : \E e : sCloud' = [sCloud EXCEPT ![s] = e]
  BY DEF CreateFromVolume, S!CreateAnswers, S!CreateServer
<1>3. /\ DOMAIN sCloud' = ServerIds
      /\ \A i \in ServerIds \ {s} : sCloud'[i] = sCloud[i]
  BY <1>2 DEF Holding
<1>4. /\ boots' \in [ServerIds -> VolumeIds \cup {Foreign, NoId}]
      /\ \A i \in ServerIds \ {s} : boots'[i] = boots[i]
      /\ boots'[s] \in {boots[s], v}
  BY <1>1, <1>3 DEF CreateFromVolume, Holding
<1>5. v # NoId => vCloud[v].state = "AVAILABLE"
  BY DEF CreateFromVolume, Bootable
<1>6. \A i \in ServerIds : boots[i] \in VolumeIds => boots[i] # v
  BY <1>1, <1>5 DEF Holding, HeldStates
<1>7. CASE v = NoId
  <2>1. UNCHANGED vCloud
    BY <1>7 DEF CreateFromVolume
  <2> QED BY <1>1, <1>3, <1>4, <1>7, <2>1 DEF CreateFromVolume, Holding
<1>8. CASE v # NoId
  <2>1. vCloud' = [vCloud EXCEPT ![v].state = "ATTACHED"]
    BY <1>8 DEF CreateFromVolume
  <2>2. Handed(v, "ATTACHED")
    BY <1>5, <1>8, <2>1 DEF Handed
  <2>3. \A u \in VolumeIds : vCloud'[u].state = IF u = v THEN "ATTACHED" ELSE vCloud[u].state
    BY <1>1, <2>1 DEF P!Volumes
  <2>4. ASSUME NEW i \in ServerIds, boots'[i] \in VolumeIds
        PROVE  vCloud'[boots'[i]].state \in HeldStates
    BY <1>4, <1>6, <2>3, <2>4 DEF Holding, HeldStates
  <2>5. ASSUME NEW i \in ServerIds, NEW j \in ServerIds,
               boots'[i] \in VolumeIds, boots'[i] = boots'[j]
        PROVE  i = j
    BY <1>4, <1>6, <2>5 DEF Holding
  <2>6. Holding'
    BY <1>3, <1>4, <2>4, <2>5 DEF CreateFromVolume, Holding
  <2> QED BY <1>1, <1>8, <2>2, <2>6 DEF CreateFromVolume
<1> QED BY <1>7, <1>8

LEMMA SettleHolding ==
  ASSUME P!TypeInv, Holding, NEW i \in ServerIds, ServerSettle(i)
  PROVE  /\ Holding'
         /\ UNCHANGED <<vApi, vCache, vWatch, vQueued, vLeft, vW>>
         /\ \/ UNCHANGED vCloud
            \/ \E v \in VolumeIds \cup {Foreign} : Handed(v, Released(i))
<1>1. DOMAIN sCloud' = ServerIds
  BY DEF ServerSettle, S!Settle, Holding
<1>2. /\ UNCHANGED <<vApi, vCache, vWatch, vQueued, vLeft, vW, resolved>>
      /\ vCloud \in [VolumeIds \cup {Foreign} -> P!Volumes]
      /\ NoId \notin VolumeIds \cup {Foreign} /\ Foreign \notin VolumeIds
  BY StackAssumption DEF ServerSettle, P!TypeInv, P!TypeOK
<1>3. CASE UNCHANGED <<vCloud, boots>>
  BY <1>1, <1>2, <1>3 DEF Holding
<1>4. CASE ~ UNCHANGED <<vCloud, boots>>
  <2> DEFINE v == boots[i]
  <2>1. /\ v # NoId
        /\ vCloud' = [vCloud EXCEPT ![v].state = Released(i)]
        /\ boots' = [boots EXCEPT ![i] = NoId]
    BY <1>4 DEF ServerSettle
  <2>2. /\ v \in VolumeIds \cup {Foreign}
        /\ v \in VolumeIds => vCloud[v].state \in HeldStates
    BY <2>1 DEF Holding
  <2>3. Handed(v, Released(i))
    BY <2>1, <2>2 DEF Handed, Released, HeldStates
  <2>4. /\ boots' \in [ServerIds -> VolumeIds \cup {Foreign, NoId}]
        /\ boots'[i] = NoId
        /\ \A j \in ServerIds \ {i} : boots'[j] = boots[j]
    BY <2>1 DEF Holding
  <2>5. \A u \in VolumeIds \ {v} : vCloud'[u] = vCloud[u]
    BY <1>2, <2>1
  <2>6. ASSUME NEW j \in ServerIds, boots'[j] \in VolumeIds
        PROVE  vCloud'[boots'[j]].state \in HeldStates
    <3>1. j # i /\ boots'[j] = boots[j] /\ boots[j] # v
      BY <1>2, <2>4, <2>6 DEF Holding
    <3> QED BY <2>5, <2>6, <3>1 DEF Holding
  <2>7. ASSUME NEW j \in ServerIds, NEW k \in ServerIds,
               boots'[j] \in VolumeIds, boots'[j] = boots'[k]
        PROVE  j = k
    BY <1>2, <2>4, <2>7 DEF Holding
  <2>8. Holding'
    BY <1>1, <1>2, <2>4, <2>6, <2>7 DEF Holding
  <2> QED BY <1>2, <2>2, <2>3, <2>8
<1> QED BY <1>3, <1>4

-----------------------------------------------------------------------------
(* The Volume object at first, made from spec vs. *)
First(vs) ==
  [exists |-> TRUE, rv |-> 1, gen |-> 1, deleting |-> FALSE, finalizer |-> TRUE,
   spec |-> vs,
   status |-> [id |-> FirstVolume, state |-> "ATTACHED", size |-> vs.size,
               observedGeneration |-> 1, reason |-> "Attached", condGen |-> 1]]

LEMMA InitStack == Init => StackInv
<1> SUFFICES ASSUME NEW running \in BOOLEAN, NEW vs \in VolumeSpecs, NEW ss \in ServerSpecs,
      vCloud = [v \in VolumeIds \cup {Foreign} |->
         [state |-> IF v = Foreign          THEN "AVAILABLE"
                    ELSE IF v # FirstVolume THEN "none"
                    ELSE IF running         THEN "ATTACHED"
                    ELSE Released(FirstServer),
          size |-> vs.size, meta |-> vs.meta]],
      vApi = First(vs),
      DOMAIN sCloud = ServerIds,
      vCache = [m \in Managers |-> vApi],
      vWatch = [m \in Managers |-> {}],
      vQueued = [m \in Managers |-> TRUE],
      vLeft = [edits |-> 0, faults |-> 0, outages |-> 0],
      vW = [m \in Managers |-> V!Idle(V!NoStatus)],
      resolved = [m \in Managers |-> NoId],
      boots = [i \in ServerIds |-> IF running /\ i = FirstServer THEN FirstVolume ELSE NoId]
    PROVE StackInv
  BY DEF Init, Settled, First
<1>1. /\ FirstVolume \in VolumeIds /\ FirstVolume # Foreign
      /\ NoId \notin VolumeIds \cup {Foreign} /\ Foreign \notin VolumeIds
      /\ vs \in P!VolumeSpec /\ vs.size \in Nat /\ vs.meta \in Metas
  BY StackAssumption DEF V!VolumeSpec, P!VolumeSpec
<1> DEFINE st == vApi.status
<1> USE DEF First
<1>3. st \in P!Statuses /\ P!NoStatus \in P!Statuses
  BY <1>1 DEF P!Statuses, P!States, P!Reasons, P!NoStatus
<1>4. vApi \in P!Versions(P!Statuses) /\ vApi.rv = 1
  BY <1>3 DEF P!Versions
<1>5. P!NoObject(P!NoStatus) \in P!Versions(P!Statuses)
  BY <1>1, <1>3 DEF P!NoObject, P!Versions
<1>6. V!Idle(V!NoStatus) = P!Idle(P!NoStatus)
  BY DEF V!Idle, P!Idle, V!NoObject, P!NoObject, V!NoStatus, P!NoStatus
<1>7. P!Idle(P!NoStatus) \in P!Workers(P!Statuses, P!Calls)
  BY <1>3, <1>5 DEF P!Idle, P!Workers
<1>8. vCloud \in [VolumeIds \cup {Foreign} -> P!Volumes]
  BY <1>1 DEF P!Volumes, P!States, P!Absent, Released
<1>9. P!TypeInv
  <2>1. P!KubeTypeOK(P!Statuses)
    BY <1>4 DEF P!KubeTypeOK
  <2>2. vW \in [Managers -> P!Workers(P!Statuses, P!Calls)] /\ P!Shape
    BY <1>6, <1>7 DEF P!Shape, P!NamesVolume, P!Idle
  <2> QED BY <1>8, <2>1, <2>2 DEF P!TypeInv, P!TypeOK
<1>10. P!CopiesSound
  <2>1. P!Made(st, vCloud)
    BY <1>1 DEF P!Made, Released
  <2>2. P!Made(P!NoStatus, vCloud)
    BY <1>1 DEF P!Made, P!NoStatus
  <2>3. P!Sound(vApi, vApi, vCloud)
    BY <1>4, <2>1 DEF P!Sound, P!Versions
  <2>4. P!Sound(P!NoObject(P!NoStatus), vApi, vCloud)
    BY <1>4, <2>2 DEF P!Sound, P!NoObject
  <2>5. P!GoodWorker(P!Idle(P!NoStatus), vApi, vCloud)
    BY <2>2, <2>4 DEF P!GoodWorker, P!Knows, P!Idle
  <2> QED BY <1>6, <2>3, <2>4, <2>5 DEF P!CopiesSound
<1>11. Lasting
  BY DEF Lasting
<1>12. SeenDeleted
  BY <1>6 DEF SeenDeleted, P!Idle
<1>13. Holding
  BY <1>1 DEF Holding, HeldStates
<1> QED BY <1>9, <1>10, <1>11, <1>12, <1>13 DEF StackInv

LEMMA NextStack == StackInv /\ [Next]_vars => StackInv'
<1> SUFFICES ASSUME StackInv, [Next]_vars PROVE StackInv'
  OBVIOUS
<1>0. P!TypeInv /\ P!CopiesSound /\ Lasting /\ SeenDeleted /\ Holding
  BY DEF StackInv
<1>1. CASE VolumeMoves
  BY <1>0, <1>1, VolumeSide, VolumeTypes, VolumeSound, VolumeLasting, VolumeHolding
     DEF StackInv
<1>2. CASE ServerMoves
  <2>1. /\ Holding'
        /\ UNCHANGED <<vApi, vCache, vWatch, vQueued, vLeft, vW>>
        /\ \/ UNCHANGED vCloud
           \/ \E s : \E v \in VolumeIds \cup {Foreign} : Handed(v, s)
    <3>1. CASE ServerUser \/ \E m \in Managers : Quiet(m)
      BY <1>0, <3>1, QuietHolding
    <3>2. ASSUME NEW m \in Managers, Resolve(m) PROVE <2>1!1 /\ <2>1!2 /\ <2>1!3
      BY <1>0, <3>2, ResolveHolding
    <3>3. ASSUME NEW m \in Managers, CreateFromVolume(m)
          PROVE  <2>1!1 /\ <2>1!2 /\ <2>1!3
      BY <1>0, <3>3, CreateHolding
    <3>4. ASSUME NEW i \in ServerIds, ServerSettle(i) PROVE <2>1!1 /\ <2>1!2 /\ <2>1!3
      BY <1>0, <3>4, SettleHolding
    <3> QED BY <1>2, <3>1, <3>2, <3>3, <3>4 DEF ServerMoves, ServerStep, Quiet
  <2>2. CASE UNCHANGED vCloud
    BY <1>0, <2>1, <2>2, UnchangedVolume DEF StackInv, Lasting, SeenDeleted
  <2>3. CASE \E s : \E v \in VolumeIds \cup {Foreign} : Handed(v, s)
    BY <1>0, <2>1, <2>3, HandedKeeps DEF StackInv, Lasting, SeenDeleted
  <2> QED BY <2>1, <2>2, <2>3
<1>3. CASE UNCHANGED vars
  BY <1>0, <1>3, UnchangedVolume
     DEF vars, volumeVars, serverVars, StackInv, Lasting, SeenDeleted, Holding
<1> QED BY <1>1, <1>2, <1>3 DEF Next, VolumeMoves, ServerMoves

(* The only step that takes the Volume object away is the one in which a   *)
(* worker drops the finalizer of the current version.                      *)
LEMMA OnlyDropRemoves ==
  ASSUME StackInv, [Next]_vars, vApi.exists, ~ vApi'.exists
  PROVE  \E m \in Managers : vW[m].pc = "dropFinalizer" /\ vW[m].obj = vApi
<1>0. /\ P!TypeInv /\ P!CopiesSound /\ Lasting /\ SeenDeleted /\ Holding
      /\ vApi \in P!Versions(P!Statuses)
  BY DEF StackInv, P!TypeInv, P!TypeOK, P!KubeTypeOK
<1>1. vApi' # vApi
  OBVIOUS
<1>2. VolumeMoves
  <2>1. ~ ServerMoves /\ ~ UNCHANGED vars
    BY <1>0, <1>1, QuietHolding, ResolveHolding, CreateHolding, SettleHolding
       DEF ServerMoves, ServerStep, Quiet, vars, volumeVars
  <2> QED BY <2>1 DEF Next, VolumeMoves, ServerMoves
<1>3. ~ VolumeUser
  <2> SUFFICES ASSUME VolumeUser PROVE FALSE
    OBVIOUS
  <2>1. P!User
    BY SameUser DEF VolumeUser
  <2>2. P!UserDelete
    BY <1>0, <2>1, NothingToSpend DEF P!User, P!UserCreate, P!UserEdit
  <2> QED BY <1>0, <2>2 DEF P!UserDelete, P!Publish, P!Versions, Lasting
<1>4. PICK m \in Managers : P!AddFinalizer(m) \/ P!DropFinalizer(m) \/ P!WriteBack(m)
  <2>1. PICK m \in Managers : P!Reconcile(m) \/ P!Step(m)
    BY <1>1, <1>2, <1>3, SameReconcile, SameStep, SameSettle, SameSync
       DEF VolumeMoves, VolumeReconcile, VolumeStep, VolumeSettle, VolumeSync,
           P!Settle, P!Sync
  <2> QED BY <1>1, <2>1 DEF P!Reconcile, P!Step, P!AdoptGet, P!Recheck,
        P!idAlreadyPresent, P!CreateSucceeds, P!CreateFailed, P!ObserveMissing,
        P!ObserveVolume, P!ObserveDrift, P!ResizeVolume, P!UpdateVolume,
        P!DeleteGet, P!DeleteVolume
<1>5. vW[m].obj = vApi
  <2>1. P!UpToDate(vW[m].obj)
    BY <1>1, <1>4 DEF P!AddFinalizer, P!ensureFinalizer, P!DropFinalizer,
       P!removeFinalizerAndUpdate, P!WriteBack, P!StatusUpdate
  <2> QED BY <1>0, <2>1 DEF P!CopiesSound, P!GoodWorker, P!Sound, P!UpToDate
<1>6. ~ P!AddFinalizer(m) /\ ~ P!WriteBack(m)
  BY <1>0, <1>1, <1>5 DEF P!AddFinalizer, P!ensureFinalizer, P!WriteFinalizer,
     P!WriteBack, P!StatusUpdate, P!WriteStatus, P!Publish, P!Versions
<1> QED BY <1>4, <1>5, <1>6 DEF P!DropFinalizer, P!removeFinalizerAndUpdate

(* For any managers, volumes and servers: the Volume object does not go    *)
(* while a server boots from the volume it records.  The worker that drops *)
(* the finalizer has found the volume gone, and what is gone is held by no *)
(* server.                                                                 *)
THEOREM VolumeStays == Spec => VolumeOutlivesServer
<1>1. ASSUME StackInv, [Next]_vars, NEW v \in VolumeIds, NEW i \in ServerIds,
             V!Recorded(v), boots[i] = v
      PROVE  vApi'.exists
  <2> SUFFICES ASSUME ~ vApi'.exists PROVE FALSE
    OBVIOUS
  <2>1. vApi.exists /\ vApi.status.id = v
    BY <1>1 DEF V!Recorded
  <2>2. PICK m \in Managers : vW[m].pc = "dropFinalizer" /\ vW[m].obj = vApi
    BY <1>1, <2>1, OnlyDropRemoves
  <2>3. v # NoId
    BY StackAssumption
  <2>4. vCloud[v].state = "gone"
    BY <1>1, <2>1, <2>2, <2>3 DEF StackInv, P!CopiesSound, P!GoodWorker, P!Knows, P!Gone
  <2> QED BY <1>1, <2>4 DEF StackInv, Holding, HeldStates
<1>2. StackInv /\ [Next]_vars =>
        [\A v \in VolumeIds, i \in ServerIds :
           V!Recorded(v) /\ boots[i] = v => vApi'.exists]_vars
  BY <1>1
<1> QED BY <1>2, InitStack, NextStack, PTL DEF Spec, VolumeOutlivesServer
=============================================================================
