---------------------------- MODULE ServerProofs ----------------------------
(***************************************************************************)
(* Theorems about ServerController, for any set of managers, any specs and *)
(* any bounds: its types, that a Ready condition is never stale, and that  *)
(* a server is lost track of only with the answer to its create.           *)
(***************************************************************************)
EXTENDS ServerController, TLAPS

(* What a worker knows of the copy it works on: every call on a server     *)
(* names one, by the ID in the status.                                     *)
NamesServer(x) ==
  x.pc \in {"get", "resize", "stop", "start", "update", "delGet", "delete"}
    => x.obj.status.id # NoId

Shape == \A m \in Managers : NamesServer(w[m])

TypeInv == TypeOK /\ Shape

-----------------------------------------------------------------------------
(* The operators on statuses, conditions and workers respect the types. *)

LEMMA NoStatusType == NoStatus \in Statuses
BY DEF NoStatus, Statuses, Reasons, PowerStatuses

LEMMA NoObjectType == NoObject(NoStatus) \in Versions(Statuses)
BY NoStatusType, SpecsAssumption DEF NoObject, Versions

LEMMA IdleType ==
  Idle(NoStatus) \in Workers(Statuses, Calls) /\ NamesServer(Idle(NoStatus))
BY NoStatusType, NoObjectType DEF Idle, Workers, NamesServer

LEMMA ApplyType ==
  ASSUME NEW o \in Versions(Statuses), NEW st \in Statuses, NEW c \in Servers,
         c.state \notin Absent
  PROVE  /\ applyServerStatus(o, st, c) \in Statuses
         /\ applyServerStatus(o, st, c).id = st.id
BY DEF applyServerStatus, Versions, Statuses, Servers

LEMMA ConditionType ==
  ASSUME NEW o \in Versions(Statuses), NEW st \in Statuses, NEW r \in Reasons
  PROVE  /\ setReadyCondition(o, st, r) \in Statuses
         /\ setReadyCondition(o, st, r).id = st.id
BY DEF setReadyCondition, Versions, Statuses

LEMMA ResolvedType ==
  \A s, v : Resolved(s, v) \in {"InvalidReference", "WaitingForReference", "ready"}
BY DEF Resolved

LEMMA ReasonType == \A s : ObservedReason(s) \in Reasons
BY DEF ObservedReason, Reasons

LEMMA IdType ==
  ASSUME NEW st \in Statuses, NEW i \in Ids \cup {NoId}
  PROVE  [st EXCEPT !.id = i] \in Statuses /\ [st EXCEPT !.id = i].id = i
BY DEF Statuses

(* The first call of a reconcile is one that its copy is fit for. *)
LEMMA ReconcileType ==
  ASSUME NEW o \in Versions(Statuses)
  PROVE  /\ reconcile(o) \in Calls \cup {"idle"}
         /\ NamesServer(WorkingOn(reconcile(o), o))
         /\ WorkingOn(reconcile(o), o) \in Workers(Statuses, Calls)
<1>1. reconcile(o) \in Calls \cup {"idle"}
  BY DEF reconcile, reconcileDelete, Calls
<1>2. NamesServer(WorkingOn(reconcile(o), o))
  BY DEF reconcile, reconcileDelete, NamesServer, WorkingOn
<1>3. WorkingOn(reconcile(o), o) \in Workers(Statuses, Calls)
  BY <1>1 DEF WorkingOn, Workers, Versions
<1> QED BY <1>1, <1>2, <1>3

(* Return and SaveStatus change only the worker of m and its queue. *)
LEMMA ReturnType ==
  ASSUME NEW m \in Managers, NEW again \in BOOLEAN, TypeInv,
         Return(m, again, NoStatus)
  PROVE  /\ w' \in [Managers -> Workers(Statuses, Calls)]
         /\ queued' \in [Managers -> BOOLEAN]
         /\ Shape'
<1>1. w' \in [Managers -> Workers(Statuses, Calls)]
  BY IdleType DEF Return, TypeInv, TypeOK
<1>2. queued' \in [Managers -> BOOLEAN]
  BY DEF Return, TypeInv, TypeOK, KubeTypeOK
<1>3. Shape'
  BY IdleType DEF Return, TypeInv, TypeOK, Shape
<1> QED BY <1>1, <1>2, <1>3

LEMMA SaveStatusType ==
  ASSUME NEW m \in Managers, NEW st \in Statuses, TypeInv,
         SaveStatus(m, st, NoStatus)
  PROVE  /\ w' \in [Managers -> Workers(Statuses, Calls)]
         /\ queued' \in [Managers -> BOOLEAN]
         /\ Shape'
<1>1. CASE statusUnchanged(w[m].before, st)
  BY <1>1, ReturnType DEF SaveStatus
<1>2. CASE ~ statusUnchanged(w[m].before, st)
  <2>1. w' = [w EXCEPT ![m] = [w[m] EXCEPT !.pc = "write", !.st = st]]
    BY <1>2 DEF SaveStatus, TypeInv, TypeOK
  <2>2. [w[m] EXCEPT !.pc = "write", !.st = st] \in Workers(Statuses, Calls)
    BY DEF TypeInv, TypeOK, Workers, Calls
  <2>3. NamesServer([w[m] EXCEPT !.pc = "write", !.st = st])
    BY DEF TypeInv, TypeOK, Workers, NamesServer
  <2>4. queued' \in [Managers -> BOOLEAN]
    BY <1>2 DEF SaveStatus, TypeInv, TypeOK, KubeTypeOK
  <2> QED BY <2>1, <2>2, <2>3, <2>4 DEF TypeInv, TypeOK, Shape
<1> QED BY <1>1, <1>2

-----------------------------------------------------------------------------
(* The API server's side: every accepted write is a version. *)

LEMMA PublishType ==
  ASSUME TypeInv, NEW v \in Versions(Statuses), Publish(v)
  PROVE  /\ api' \in Versions(Statuses)
         /\ watch' \in [Managers -> SUBSET Versions(Statuses)]
<1>1. api' \in Versions(Statuses)
  BY DEF Publish, Versions, TypeInv, TypeOK, KubeTypeOK
<1>2. watch' \in [Managers -> SUBSET Versions(Statuses)]
  BY <1>1 DEF Publish, TypeInv, TypeOK, KubeTypeOK
<1> QED BY <1>1, <1>2

LEMMA SpendType ==
  ASSUME TypeInv, NEW what \in {"edits", "faults", "outages"}, Spend(what)
  PROVE  left' \in [edits: Nat, faults: Nat, outages: Nat]
BY DEF Spend, TypeInv, TypeOK, KubeTypeOK

LEMMA UserType == ASSUME TypeInv, User PROVE TypeInv'
<1> USE DEF User
<1>0. api \in Versions(Statuses)
  BY DEF TypeInv, TypeOK, KubeTypeOK
<1>1. CASE \E s \in Specs : UserCreate(s, NoStatus)
  <2>1. PICK s \in Specs : UserCreate(s, NoStatus)
    BY <1>1
  <2> DEFINE v == [exists |-> TRUE, rv |-> 0, gen |-> 1, deleting |-> FALSE,
                   finalizer |-> FALSE, spec |-> s, status |-> NoStatus]
  <2>2. v \in Versions(Statuses) /\ Publish(v)
    BY <2>1, NoStatusType DEF UserCreate, Versions
  <2>3. left' \in [edits: Nat, faults: Nat, outages: Nat]
    BY <2>1, SpendType DEF UserCreate, TypeInv, TypeOK, KubeTypeOK
  <2> HIDE DEF v
  <2> QED BY <2>1, <2>2, <2>3, PublishType
          DEF UserCreate, TypeInv, TypeOK, KubeTypeOK, Shape
<1>2. CASE \E s \in Specs : UserEdit(s)
  <2>1. PICK s \in Specs : UserEdit(s)
    BY <1>2
  <2> DEFINE v == [api EXCEPT !.spec = s,
                              !.gen = IF s = api.spec THEN @ ELSE @ + 1]
  <2>2. Publish(v)
    BY <2>1 DEF UserEdit
  <2>4. v \in Versions(Statuses)
    <3>1. (IF s = api.spec THEN api.gen ELSE api.gen + 1) \in Nat
      BY <1>0 DEF Versions
    <3> QED BY <3>1, <1>0 DEF Versions
  <2>3. left' \in [edits: Nat, faults: Nat, outages: Nat]
    BY <2>1, SpendType DEF UserEdit
  <2> HIDE DEF v
  <2> QED BY <2>1, <2>2, <2>3, <2>4, PublishType
          DEF UserEdit, TypeInv, TypeOK, KubeTypeOK, Shape
<1>3. CASE UserDelete
  <2> DEFINE v == IF api.finalizer
                    THEN [api EXCEPT !.deleting = TRUE, !.gen = @ + 1]
                    ELSE [api EXCEPT !.exists = FALSE]
  <2>1. Publish(v)
    BY <1>3 DEF UserDelete
  <2>2. v \in Versions(Statuses)
    <3>0. api.gen + 1 \in Nat
      BY <1>0 DEF Versions
    <3>1. [api EXCEPT !.deleting = TRUE, !.gen = @ + 1] \in Versions(Statuses)
      BY <1>0, <3>0 DEF Versions
    <3>2. [api EXCEPT !.exists = FALSE] \in Versions(Statuses)
      BY <1>0 DEF Versions
    <3> QED BY <3>1, <3>2
  <2> HIDE DEF v
  <2> QED BY <1>3, <2>1, <2>2, PublishType
          DEF UserDelete, TypeInv, TypeOK, KubeTypeOK, Shape
<1> QED BY <1>1, <1>2, <1>3

LEMMA InformerType ==
  ASSUME TypeInv, NEW m \in Managers, Informer(m) PROVE TypeInv'
<1>1. CASE Sync(m)
  BY <1>1 DEF Sync, Informer, TypeInv, TypeOK, KubeTypeOK, Shape
<1>2. CASE Resync(m)
  BY <1>2 DEF Resync, Informer, TypeInv, TypeOK, KubeTypeOK, Shape
<1> QED BY <1>1, <1>2 DEF Informer

(* The writes to the API server that end a reconcile. *)
LEMMA WriteType ==
  ASSUME TypeInv, NEW m \in Managers,
         AddFinalizer(m) \/ DropFinalizer(m) \/ WriteBack(m)
  PROVE  TypeInv'
<1> DEFINE o == w[m].obj
<1>0. /\ o \in Versions(Statuses)
      /\ w[m].st \in Statuses
  BY DEF TypeInv, TypeOK, Workers
<1>1. CASE AddFinalizer(m)
  <2>1. [o EXCEPT !.finalizer = TRUE] \in Versions(Statuses)
    BY <1>0 DEF Versions
  <2>2. /\ api' \in Versions(Statuses)
        /\ watch' \in [Managers -> SUBSET Versions(Statuses)]
    BY <1>1, <2>1, PublishType
       DEF AddFinalizer, ensureFinalizer, WriteFinalizer, TypeInv, TypeOK, KubeTypeOK
  <2> QED BY <1>1, <2>2, ReturnType
          DEF AddFinalizer, ensureFinalizer, TypeInv, TypeOK, KubeTypeOK
<1>2. CASE DropFinalizer(m)
  <2>1. [o EXCEPT !.finalizer = FALSE, !.exists = ~ o.deleting] \in Versions(Statuses)
    BY <1>0 DEF Versions
  <2>2. /\ api' \in Versions(Statuses)
        /\ watch' \in [Managers -> SUBSET Versions(Statuses)]
    BY <1>2, <2>1, PublishType
       DEF DropFinalizer, removeFinalizerAndUpdate, WriteNoFinalizer, TypeInv, TypeOK, KubeTypeOK
  <2>3. Return(m, TRUE, NoStatus) \/ Return(m, FALSE, NoStatus)
    BY <1>2 DEF DropFinalizer, removeFinalizerAndUpdate
  <2> QED BY <1>2, <2>2, <2>3, ReturnType
          DEF DropFinalizer, removeFinalizerAndUpdate, TypeInv, TypeOK, KubeTypeOK
<1>3. CASE WriteBack(m)
  <2>1. [o EXCEPT !.status = w[m].st] \in Versions(Statuses)
    BY <1>0 DEF Versions
  <2>2. /\ api' \in Versions(Statuses)
        /\ watch' \in [Managers -> SUBSET Versions(Statuses)]
    BY <1>3, <2>1, PublishType
       DEF WriteBack, StatusUpdate, WriteStatus, TypeInv, TypeOK, KubeTypeOK
  <2>3. PICK again \in BOOLEAN : Return(m, again, NoStatus)
    BY <1>3 DEF WriteBack, StatusUpdate
  <2> QED BY <1>3, <2>2, <2>3, ReturnType
          DEF WriteBack, StatusUpdate, TypeInv, TypeOK, KubeTypeOK
<1> QED BY <1>1, <1>2, <1>3

(* The parts of a worker's copy. *)
LEMMA CopyType ==
  ASSUME TypeInv, NEW m \in Managers
  PROVE  /\ w[m] \in Workers(Statuses, Calls)
         /\ w[m].obj \in Versions(Statuses)
         /\ w[m].obj.status \in Statuses
         /\ w[m].st \in Statuses
         /\ w[m].obj.status.id \in Ids \cup {NoId}
         /\ w[m].obj.spec.machineType \in MachineTypes
         /\ w[m].obj.spec.meta \in Metas
<1> DEFINE o == w[m].obj
<1>1. w[m] \in Workers(Statuses, Calls)
  BY DEF TypeInv, TypeOK
<1>2. o \in Versions(Statuses) /\ w[m].st \in Statuses
  BY <1>1 DEF Workers
<1>3. o.status \in Statuses /\ o.spec \in Specs
  BY <1>2 DEF Versions
<1>4. o.status.id \in Ids \cup {NoId}
  BY <1>3 DEF Statuses
<1>5. o.spec.machineType \in MachineTypes /\ o.spec.meta \in Metas
  BY <1>3, ServerAssumption DEF ServerSpec
<1> QED BY <1>1, <1>2, <1>3, <1>4, <1>5

(* The calls that only read: the status they lead to is well typed. *)
LEMMA ReadType ==
  ASSUME TypeInv, NEW m \in Managers,
         \/ Reconcile(m) \/ Recheck(m) \/ Unresolved(m)
         \/ ObserveMissing(m) \/ ObserveServer(m) \/ ObserveDrift(m) \/ DeleteGet(m)
  PROVE  TypeInv'
<1> DEFINE o == w[m].obj
           i == o.status.id
<1>0. /\ o \in Versions(Statuses)
      /\ o.status \in Statuses
      /\ w[m] \in Workers(Statuses, Calls)
      /\ i \in Ids \cup {NoId}
      /\ api \in Versions(Statuses)
      /\ api.status \in Statuses
  BY CopyType DEF TypeInv, TypeOK, KubeTypeOK, Versions
<1>a. i # NoId /\ ~ IsNotFound(i) => cloud[i] \in Servers /\ cloud[i].state \notin Absent
  BY <1>0 DEF TypeInv, TypeOK, IsNotFound
<1> USE DEF Reasons
<1>1. CASE Reconcile(m)
  <2>1. cache[m] \in Versions(Statuses)
    BY DEF TypeInv, TypeOK, KubeTypeOK
  <2>2. PICK x : /\ w' = [w EXCEPT ![m] = x]
                 /\ x \in Workers(Statuses, Calls)
                 /\ NamesServer(x)
    BY <1>1, <2>1, ReconcileType, IdleType DEF Reconcile
  <2> QED BY <1>1, <2>2 DEF Reconcile, TypeInv, TypeOK, KubeTypeOK, Shape
<1>2. CASE Unresolved(m)
  <2> DEFINE why == Resolved(api.spec, refs[m])
             st  == setReadyCondition(api, api.status, why)
             x   == [pc |-> "write", obj |-> api, before |-> api.status, st |-> st]
  <2>1. why \in Reasons
    BY <1>2, ResolvedType DEF Unresolved
  <2>2. st \in Statuses
    BY <1>0, <2>1, ConditionType
  <2>3. CASE statusUnchanged(api.status, st)
    <3>1. PICK again \in BOOLEAN : Return(m, again, NoStatus)
      BY <1>2, <2>3 DEF Unresolved
    <3> QED BY <1>2, <3>1, ReturnType DEF Unresolved, TypeInv, TypeOK, KubeTypeOK
  <2>4. CASE ~ statusUnchanged(api.status, st)
    <3>1. w' = [w EXCEPT ![m] = x] /\ UNCHANGED queued
      BY <1>2, <2>4 DEF Unresolved
    <3>2. x \in Workers(Statuses, Calls) /\ NamesServer(x)
      BY <1>0, <2>2 DEF Workers, Calls, NamesServer
    <3> HIDE DEF x
    <3> QED BY <1>2, <3>1, <3>2 DEF Unresolved, TypeInv, TypeOK, KubeTypeOK, Shape
  <2> QED BY <2>3, <2>4
<1>3. CASE Recheck(m)
  <2>1. CASE api.exists /\ api.status.id = NoId
    <3> DEFINE x == [pc |-> "create", obj |-> api, st |-> api.status,
                     before |-> api.status]
    <3>1. w' = [w EXCEPT ![m] = x] /\ UNCHANGED queued
      BY <1>3, <2>1 DEF Recheck, idAlreadyPresent, TypeInv, TypeOK
    <3>2. x \in Workers(Statuses, Calls) /\ NamesServer(x)
      BY <1>0 DEF Workers, Calls, NamesServer
    <3> HIDE DEF x
    <3> QED BY <1>3, <3>1, <3>2
            DEF Recheck, idAlreadyPresent, TypeInv, TypeOK, KubeTypeOK, Shape
  <2>2. CASE ~ (api.exists /\ api.status.id = NoId)
    BY <1>3, <2>2, ReturnType
       DEF Recheck, idAlreadyPresent, TypeInv, TypeOK, KubeTypeOK
  <2> QED BY <2>1, <2>2
<1>4. CASE ObserveMissing(m)
  <2>1. setReadyCondition(o, [o.status EXCEPT !.id = NoId], "NotFound") \in Statuses
    BY <1>0, ConditionType, IdType
  <2> QED BY <1>4, <2>1, SaveStatusType
          DEF ObserveMissing, TypeInv, TypeOK, KubeTypeOK
<1>5. CASE ObserveServer(m)
  <2>1. cloud[i] \in Servers /\ cloud[i].state \notin Absent
    BY <1>5, <1>a DEF ObserveServer, TypeInv, Shape, NamesServer
  <2>2. setReadyCondition(o, applyServerStatus(o, o.status, cloud[i]),
                          ObservedReason(cloud[i].state)) \in Statuses
    BY <1>0, <2>1, ApplyType, ConditionType, ReasonType
  <2> QED BY <1>5, <2>2, SaveStatusType
          DEF ObserveServer, TypeInv, TypeOK, KubeTypeOK
<1>6. CASE ObserveDrift(m)
  <2> DEFINE c == reconcileDrift(o, cloud[i])
             x == [w[m] EXCEPT !.pc = c]
  <2>1. c \in {"resize", "stop", "start", "update"}
    BY <1>6 DEF ObserveDrift, MustNotCorrect, reconcileDrift
  <2>2. x \in Workers(Statuses, Calls)
    BY <1>0, <2>1 DEF Workers, Calls
  <2>3. NamesServer(x)
    BY <1>0, <1>6, <2>1 DEF ObserveDrift, TypeInv, Shape, NamesServer, Workers
  <2>4. w' = [w EXCEPT ![m] = x]
    BY <1>6 DEF ObserveDrift, TypeInv, TypeOK
  <2> HIDE DEF x
  <2> QED BY <1>6, <2>2, <2>3, <2>4
          DEF ObserveDrift, TypeInv, TypeOK, KubeTypeOK, Shape
<1>7. CASE DeleteGet(m)
  <2> DEFINE st == applyServerStatus(o, o.status, cloud[i])
  <2>0. i # NoId
    BY <1>7 DEF DeleteGet, TypeInv, Shape, NamesServer
  <2>1. CASE IsNotFound(i)
    <3> DEFINE x == [w[m] EXCEPT !.pc = "dropFinalizer"]
    <3>1. x \in Workers(Statuses, Calls) /\ NamesServer(x)
      BY <1>0 DEF Workers, Calls, NamesServer
    <3>2. w' = [w EXCEPT ![m] = x] /\ UNCHANGED queued
      BY <1>7, <2>1 DEF DeleteGet, TypeInv, TypeOK, IsNotFound, Absent
    <3> HIDE DEF x
    <3> QED BY <1>7, <3>1, <3>2
            DEF DeleteGet, TypeInv, TypeOK, KubeTypeOK, Shape
  <2>2. CASE ~ IsNotFound(i) /\ cloud[i].state # "DELETING"
    <3> DEFINE x == [w[m] EXCEPT !.pc = "delete", !.st = st]
    <3>1. st \in Statuses
      BY <1>0, <1>a, <2>0, <2>2, ApplyType
    <3>2. x \in Workers(Statuses, Calls) /\ NamesServer(x)
      BY <1>0, <2>0, <3>1 DEF Workers, Calls, NamesServer
    <3>3. w' = [w EXCEPT ![m] = x] /\ UNCHANGED queued
      BY <1>7, <2>2 DEF DeleteGet, TypeInv, TypeOK
    <3> HIDE DEF x
    <3> QED BY <1>7, <3>2, <3>3
            DEF DeleteGet, TypeInv, TypeOK, KubeTypeOK, Shape
  <2>3. CASE ~ IsNotFound(i) /\ cloud[i].state = "DELETING"
    <3>1. setReadyCondition(o, st, "Deleting") \in Statuses
      BY <1>0, <1>a, <2>0, <2>3, ApplyType, ConditionType
    <3>2. SaveStatus(m, setReadyCondition(o, st, "Deleting"), NoStatus)
      BY <1>7, <2>3 DEF DeleteGet
    <3> QED BY <1>7, <3>1, <3>2, SaveStatusType
            DEF DeleteGet, TypeInv, TypeOK, KubeTypeOK
  <2> QED BY <2>1, <2>2, <2>3
<1> QED BY <1>1, <1>2, <1>3, <1>4, <1>5, <1>6, <1>7

(* The calls that change a server. *)
LEMMA CreateServerType ==
  ASSUME TypeInv, NEW m \in Managers, NEW i \in Ids, CreateServer(i, w[m].obj)
  PROVE  /\ cloud' \in [Ids -> Servers]
         /\ cloud'[i] \in Servers
         /\ cloud'[i].state \notin Absent
<1> DEFINE v == [state |-> "CREATING", power |-> "",
                 machineType |-> w[m].obj.spec.machineType,
                 meta |-> w[m].obj.spec.meta]
<1>1. v \in Servers /\ v.state \notin Absent
  BY CopyType DEF Servers, States, transitionalStates, PowerStatuses, Absent
<1>2. cloud' = [cloud EXCEPT ![i] = v]
  BY DEF CreateServer
<1> HIDE DEF v
<1> QED BY <1>1, <1>2 DEF TypeInv, TypeOK

LEMMA CreateType ==
  ASSUME TypeInv, NEW m \in Managers,
         \/ CreateAnswers(m) \/ CreateRejected(m)
         \/ CreateFailed(m) \/ CreateWithoutId(m)
  PROVE  TypeInv'
<1> DEFINE o == w[m].obj
<1>0. o \in Versions(Statuses) /\ o.status \in Statuses
  BY CopyType
<1> USE DEF Reasons
<1>1. CASE CreateAnswers(m)
  <2>1. PICK i \in Ids :
          /\ CreateServer(i, o)
          /\ SaveStatus(m, setReadyCondition(o,
               applyServerStatus(o, [o.status EXCEPT !.id = i], cloud'[i]),
               "Creating"), NoStatus)
    BY <1>1 DEF CreateAnswers
  <2>2. /\ cloud' \in [Ids -> Servers]
        /\ cloud'[i] \in Servers
        /\ cloud'[i].state \notin Absent
    BY <2>1, CreateServerType
  <2>3. setReadyCondition(o,
          applyServerStatus(o, [o.status EXCEPT !.id = i], cloud'[i]),
          "Creating") \in Statuses
    BY <1>0, <2>2, IdType, ApplyType, ConditionType
  <2> QED BY <1>1, <2>1, <2>2, <2>3, SaveStatusType
          DEF CreateAnswers, TypeInv, TypeOK, KubeTypeOK
<1>2. CASE CreateRejected(m) \/ CreateFailed(m)
  <2>1. setReadyCondition(o, o.status, "CreateFailed") \in Statuses
    BY <1>0, ConditionType
  <2>2. cloud' \in [Ids -> Servers]
    BY <1>2, CreateServerType DEF CreateRejected, CreateFailed, TypeInv, TypeOK
  <2>3. left' \in [edits: Nat, faults: Nat, outages: Nat]
    BY <1>2, SpendType DEF CreateRejected, CreateFailed, TypeInv, TypeOK, KubeTypeOK
  <2> QED BY <1>2, <2>1, <2>2, <2>3, SaveStatusType
          DEF CreateRejected, CreateFailed, TypeInv, TypeOK, KubeTypeOK
<1>3. CASE CreateWithoutId(m)
  BY <1>3, CreateServerType, SpendType, ReturnType
     DEF CreateWithoutId, TypeInv, TypeOK, KubeTypeOK
<1> QED BY <1>1, <1>2, <1>3

(* A corrective call: each of the four leaves a server in a known state. *)
LEMMA CorrectType ==
  ASSUME TypeInv, NEW m \in Managers, NEW call, NEW accepting, NEW v \in Servers,
         w[m].obj.status.id # NoId, Correct(m, call, accepting, v)
  PROVE  TypeInv'
<1> DEFINE i == w[m].obj.status.id
<1>1. i \in Ids
  BY CopyType
<1>2. cloud' = cloud \/ cloud' = [cloud EXCEPT ![i] = v]
  BY DEF Correct
<1>3. cloud' \in [Ids -> Servers]
  BY <1>1, <1>2 DEF TypeInv, TypeOK
<1> QED BY <1>3, ReturnType DEF Correct, TypeInv, TypeOK, KubeTypeOK

LEMMA ChangeType ==
  ASSUME TypeInv, NEW m \in Managers,
         \/ ResizeServer(m) \/ StopServer(m) \/ StartServer(m) \/ UpdateServer(m)
         \/ DeleteServer(m)
  PROVE  TypeInv'
<1> DEFINE o == w[m].obj
           i == o.status.id
<1>0. /\ o \in Versions(Statuses)
      /\ w[m].st \in Statuses
      /\ o.spec.machineType \in MachineTypes
      /\ o.spec.meta \in Metas
  BY CopyType
<1>a. i \in Ids /\ i # NoId
  BY CopyType
     DEF ResizeServer, StopServer, StartServer, UpdateServer, Correct, DeleteServer,
         TypeInv, Shape, NamesServer
<1>b. Current(m) \in Servers /\ cloud[i] \in Servers
  BY <1>a DEF TypeInv, TypeOK, Current
<1>1. CASE ResizeServer(m)
  <2>1. [Current(m) EXCEPT !.state = "RESIZING", !.machineType = o.spec.machineType]
          \in Servers
    BY <1>0, <1>b DEF Servers, States, transitionalStates
  <2> QED BY <1>1, <1>a, <2>1, CorrectType DEF ResizeServer
<1>2. CASE StopServer(m) \/ StartServer(m)
  <2>1. \A s \in {"STOPPING", "STARTING"} : [Current(m) EXCEPT !.state = s] \in Servers
    BY <1>b DEF Servers, States, transitionalStates
  <2> QED BY <1>2, <1>a, <2>1, CorrectType DEF StopServer, StartServer
<1>3. CASE UpdateServer(m)
  <2>1. [Current(m) EXCEPT !.meta = o.spec.meta] \in Servers
    BY <1>0, <1>b DEF Servers
  <2> QED BY <1>3, <1>a, <2>1, CorrectType DEF UpdateServer
<1>4. CASE DeleteServer(m)
  <2> DEFINE v == [cloud[i] EXCEPT !.state = "DELETING"]
  <2>1. v \in Servers
    BY <1>b DEF Servers, States, transitionalStates
  <2>2. cloud' = cloud \/ cloud' = [cloud EXCEPT ![i] = v]
    BY <1>4, <1>a DEF DeleteServer, TypeInv, TypeOK
  <2> HIDE DEF v
  <2>3. cloud' \in [Ids -> Servers]
    BY <1>a, <2>1, <2>2 DEF TypeInv, TypeOK
  <2>4. setReadyCondition(o, w[m].st, "Deleting") \in Statuses
    BY <1>0, ConditionType DEF Reasons
  <2>5. \/ Return(m, TRUE, NoStatus)
        \/ SaveStatus(m, setReadyCondition(o, w[m].st, "Deleting"), NoStatus)
    BY <1>4 DEF DeleteServer
  <2> QED BY <1>4, <2>3, <2>4, <2>5, ReturnType, SaveStatusType
          DEF DeleteServer, TypeInv, TypeOK, KubeTypeOK
<1> QED BY <1>1, <1>2, <1>3, <1>4

LEMMA FaultType ==
  ASSUME TypeInv, NEW m \in Managers, Fail(m) \/ Crash(m) PROVE TypeInv'
<1>1. CASE Fail(m)
  BY <1>1, SpendType, ReturnType DEF Fail, CallFails, TypeInv, TypeOK, KubeTypeOK
<1>2. CASE Crash(m)
  <2>1. api \in Versions(Statuses) /\ api.exists \in BOOLEAN
    BY DEF TypeInv, TypeOK, KubeTypeOK, Versions
  <2>2. left' \in [edits: Nat, faults: Nat, outages: Nat]
    BY <1>2, SpendType DEF Crash, Restart
  <2> QED BY <1>2, <2>1, <2>2, IdleType
          DEF Crash, Restart, Relist, TypeInv, TypeOK, KubeTypeOK, Shape
<1> QED BY <1>1, <1>2

LEMMA StackitType ==
  ASSUME TypeInv, NEW i \in Ids, Settle(i) \/ OutOfBand(i)
  PROVE  TypeInv'
<1> DEFINE c == cloud[i]
<1>0. c \in Servers
  BY DEF TypeInv, TypeOK
<1>a. \A s \in States \cup Absent : [c EXCEPT !.state = s] \in Servers
  BY <1>0 DEF Servers
<1>b. \A s \in States \cup Absent, p \in PowerStatuses :
        [c EXCEPT !.state = s, !.power = p] \in Servers
  BY <1>0 DEF Servers
<1>1. PICK v \in Servers : cloud' = [cloud EXCEPT ![i] = v]
  <2>1. CASE Settle(i)
    <3>1. {"gone", "INACTIVE", "ACTIVE"} \subseteq States \cup Absent
      BY DEF States, Absent
    <3>2. SettledPower \cup {"STOPPED"} \subseteq PowerStatuses
      BY ServerAssumption DEF PowerStatuses
    <3>3. PICK p \in SettledPower :
            cloud' = [cloud EXCEPT ![i] =
              CASE c.state = "DELETING" -> [c EXCEPT !.state = "gone"]
                [] c.state = "STOPPING" -> [c EXCEPT !.state = "INACTIVE", !.power = "STOPPED"]
                [] c.state = "RESIZING" /\ c.power = "STOPPED" -> [c EXCEPT !.state = "INACTIVE"]
                [] OTHER -> [c EXCEPT !.state = "ACTIVE", !.power = p]]
      BY <2>1 DEF Settle
    <3> QED BY <1>a, <1>b, <3>1, <3>2, <3>3
  <2>2. CASE OutOfBand(i)
    <3>1. \A x \in Metas : [c EXCEPT !.meta = x] \in Servers
      BY <1>0 DEF Servers
    <3>2. \A p \in {"STOPPED", "CRASHED"} : [c EXCEPT !.power = p] \in Servers
      BY <1>0 DEF Servers, PowerStatuses
    <3>3. OutageStates \subseteq States \cup Absent
      BY ServerAssumption DEF Absent
    <3> QED BY <1>a, <2>2, <3>1, <3>2, <3>3 DEF OutOfBand, TypeInv, TypeOK
  <2> QED BY <2>1, <2>2
<1>2. left' \in [edits: Nat, faults: Nat, outages: Nat]
  BY SpendType DEF Settle, OutOfBand, TypeInv, TypeOK, KubeTypeOK
<1>3. cloud' \in [Ids -> Servers]
  BY <1>1 DEF TypeInv, TypeOK
<1> QED BY <1>2, <1>3 DEF Settle, OutOfBand, TypeInv, TypeOK, KubeTypeOK, Shape

LEMMA ReferencesType ==
  ASSUME TypeInv, NEW m \in Managers, ReferencesReady(m) \/ ReferencesChange(m)
  PROVE  TypeInv'
<1>1. refs' \in [Managers -> Views]
  <2>1. AllReady \in Views
    BY DEF AllReady, Views
  <2>2. \E v \in Views : refs' = [refs EXCEPT ![m] = v]
    BY <2>1, ServerAssumption DEF ReferencesReady, ReferencesChange
  <2> QED BY <2>2 DEF TypeInv, TypeOK
<1>2. left' \in [edits: Nat, faults: Nat, outages: Nat]
  BY SpendType DEF ReferencesReady, ReferencesChange, TypeInv, TypeOK, KubeTypeOK
<1> QED BY <1>1, <1>2
        DEF ReferencesReady, ReferencesChange, TypeInv, TypeOK, KubeTypeOK, Shape

-----------------------------------------------------------------------------
LEMMA InitType == Init => TypeInv
<1> SUFFICES ASSUME Init PROVE TypeInv
  OBVIOUS
<1>1. KubeTypeOK(Statuses)
  BY NoObjectType, BoundsAssumption DEF Init, KubeInit, KubeTypeOK
<1>2. w \in [Managers -> Workers(Statuses, Calls)] /\ Shape
  BY IdleType DEF Init, Shape
<1>3. cloud \in [Ids -> Servers]
  BY ServerAssumption DEF Init, Servers, PowerStatuses, Absent
<1>4. refs \in [Managers -> Views]
  BY DEF Init, Views
<1> QED BY <1>1, <1>2, <1>3, <1>4 DEF TypeInv, TypeOK

LEMMA NextType == TypeInv /\ [Next]_vars => TypeInv'
<1> SUFFICES ASSUME TypeInv, [Next]_vars PROVE TypeInv'
  OBVIOUS
<1>1. CASE User
  BY <1>1, UserType
<1>2. ASSUME NEW m \in Managers, Informer(m) PROVE TypeInv'
  BY <1>2, InformerType
<1>3. ASSUME NEW m \in Managers, Reconcile(m) \/ Step(m) PROVE TypeInv'
  BY <1>3, WriteType, ReadType, CreateType, ChangeType
     DEF Step, CreateSucceeds, CreateRefused
<1>4. ASSUME NEW m \in Managers,
             \/ CreateFailed(m) \/ CreateWithoutId(m) \/ Fail(m) \/ Crash(m)
             \/ ReferencesReady(m) \/ ReferencesChange(m)
      PROVE  TypeInv'
  BY <1>4, CreateType, FaultType, ReferencesType
<1>5. ASSUME NEW i \in Ids, Settle(i) \/ OutOfBand(i) PROVE TypeInv'
  BY <1>5, StackitType
<1>6. CASE UNCHANGED vars
  BY <1>6 DEF vars, TypeInv, TypeOK, KubeTypeOK, Shape
<1> QED BY <1>1, <1>2, <1>3, <1>4, <1>5, <1>6 DEF Next

LEMMA TypeInvariant == Spec => []TypeInv
BY InitType, NextType, PTL DEF Spec

(* The state of the Server controller, its caches and its workers stays    *)
(* well typed; in particular no worker makes a call without an ID and no   *)
(* answer to a call on a missing server reaches .status.                   *)
THEOREM TypeCorrect == Spec => []TypeOK
<1>1. TypeInv => TypeOK
  BY DEF TypeInv
<1> QED BY <1>1, TypeInvariant, PTL

-----------------------------------------------------------------------------
(***************************************************************************)
(* A Ready condition of the current generation is in sync with the spec.   *)
(* This needs no resourceVersions either: condition, generation and spec   *)
(* travel together in every copy of the object, so that a write based on a *)
(* stale copy cannot make an old condition look current.                   *)
(***************************************************************************)

(* What status st says of the server of o when it is Ready. *)
InSync(st, o) ==
  IsReady(st) /\ st.condGen = o.gen
    => /\ st.id # NoId
       /\ st.machineType = o.spec.machineType
       /\ ~ (o.spec.powerState = "Inactive" /\ st.powerStatus = "RUNNING")
       /\ ~ (o.spec.powerState = "Active" /\ st.powerStatus = "STOPPED")

Honest(st, o) == st.condGen <= o.gen /\ InSync(st, o)

HonestWorker(x) ==
  /\ Honest(x.obj.status, x.obj)
  /\ x.pc = "write" => Honest(x.st, x.obj)

HonestInv ==
  /\ Honest(api.status, api)
  /\ \A m \in Managers :
       /\ Honest(cache[m].status, cache[m])
       /\ \A v \in watch[m] : Honest(v.status, v)
       /\ HonestWorker(w[m])

-----------------------------------------------------------------------------
LEMMA NoStatusHonest == \A o \in Versions(Statuses) : Honest(NoStatus, o)
BY DEF Honest, InSync, IsReady, NoStatus, Versions

LEMMA IdleHonest == HonestWorker(Idle(NoStatus))
<1>1. Idle(NoStatus).obj \in Versions(Statuses)
  BY NoObjectType DEF Idle
<1>2. Idle(NoStatus).obj.status = NoStatus /\ Idle(NoStatus).pc # "write"
  BY DEF Idle, NoObject
<1> QED BY <1>1, <1>2, NoStatusHonest DEF HonestWorker

(* A condition that does not say Ready claims nothing, whatever it is set  *)
(* for; one that is kept claims what it did.                               *)
LEMMA UnreadyHonest ==
  ASSUME NEW o \in Versions(Statuses), NEW st \in Statuses,
         NEW r \in Reasons \ {"Active", "Inactive"}
  PROVE  Honest(setReadyCondition(o, st, r), o)
<1> DEFINE p == setReadyCondition(o, st, r)
<1>1. p.reason = r /\ p.condGen = o.gen /\ o.gen \in Nat
  BY DEF setReadyCondition, Versions, Statuses
<1> HIDE DEF p
<1>2. ~ IsReady(p)
  BY <1>1 DEF IsReady
<1>3. Honest(p, o)
  BY <1>1, <1>2 DEF Honest, InSync
<1> QED BY <1>3 DEF p

(* Only a server at rest is reported as Ready. *)
LEMMA ReadyAtRest ==
  ASSUME NEW s, ObservedReason(s) \in {"Active", "Inactive"}
  PROVE  s \notin transitionalStates \cup {"ERROR"}
<1>1. CASE s \in transitionalStates
  <2>1. ObservedReason(s) = "Transitioning"
    BY <1>1 DEF ObservedReason, transitionalStates
  <2> QED BY <2>1
<1>2. CASE s = "ERROR"
  <2>1. ObservedReason(s) = "Error"
    BY <1>2 DEF ObservedReason, transitionalStates
  <2> QED BY <2>1
<1> QED BY <1>1, <1>2

(* Writes that leave status, spec and generation together. *)
LEMMA SameHonest ==
  ASSUME NEW o, NEW p, Honest(o.status, o),
         p.status = o.status, p.spec = o.spec, p.gen = o.gen
  PROVE  Honest(p.status, p)
BY DEF Honest, InSync

(* An edit of the spec, or a deletion, outdates every condition. *)
LEMMA EditHonest ==
  ASSUME NEW o \in Versions(Statuses), NEW p, Honest(o.status, o),
         p.status = o.status, p.gen = o.gen + 1
  PROVE  Honest(p.status, p)
<1>1. o.gen \in Nat /\ o.status.condGen \in Nat
  BY DEF Versions, Statuses
<1> QED BY <1>1 DEF Honest, InSync

LEMMA StaysHonest ==
  ASSUME TypeInv, HonestInv, Honest(api'.status, api'),
         \A m \in Managers : cache'[m] \in {cache[m], api} \cup watch[m],
         \A m \in Managers : watch'[m] \subseteq watch[m] \cup {api'},
         \A m \in Managers : w'[m] = w[m] \/ HonestWorker(w'[m])
  PROVE  HonestInv'
<1>1. ASSUME NEW m \in Managers
      PROVE  /\ Honest(cache'[m].status, cache'[m])
             /\ \A v \in watch'[m] : Honest(v.status, v)
             /\ HonestWorker(w'[m])
  BY DEF HonestInv
<1> QED BY <1>1
        DEF HonestInv, HonestWorker, Honest, InSync, IsReady

LEMMA OnlyWorkerHonest ==
  ASSUME TypeInv, HonestInv, NEW m \in Managers,
         UNCHANGED <<api, cache, watch>>,
         \A n \in Managers \ {m} : w'[n] = w[n],
         HonestWorker(w'[m])
  PROVE  HonestInv'
<1>1. Honest(api'.status, api')
  BY DEF HonestInv
<1> QED BY <1>1, StaysHonest

LEMMA SaveHonest ==
  ASSUME TypeInv, HonestInv, NEW m \in Managers, NEW st,
         SaveStatus(m, st, NoStatus), Honest(st, w[m].obj)
  PROVE  HonestWorker(w'[m])
<1>0. w \in [Managers -> Workers(Statuses, Calls)] /\ w[m] \in Workers(Statuses, Calls)
  BY DEF TypeInv, TypeOK
<1>1. CASE statusUnchanged(w[m].before, st)
  BY <1>0, <1>1, IdleHonest DEF SaveStatus, Return
<1>2. CASE ~ statusUnchanged(w[m].before, st)
  <2>1. /\ w'[m].pc = "write"
        /\ w'[m].st = st
        /\ w'[m].obj = w[m].obj
    BY <1>0, <1>2 DEF SaveStatus, Workers
  <2> QED BY <2>1 DEF HonestInv, HonestWorker
<1> QED BY <1>1, <1>2

-----------------------------------------------------------------------------
LEMMA UserHonest ==
  ASSUME TypeInv, HonestInv, User PROVE HonestInv'
<1>0. api \in Versions(Statuses) /\ api' \in Versions(Statuses)
  BY UserType DEF TypeInv, TypeOK, KubeTypeOK
<1>1. UNCHANGED <<w, cloud, cache>>
  BY DEF User, UserCreate, UserEdit, UserDelete
<1>2. watch' = [m \in Managers |-> watch[m] \cup {api'}]
  BY DEF User, UserCreate, UserEdit, UserDelete, Publish
<1>a. Honest(api.status, api)
  BY DEF HonestInv
<1>3. Honest(api'.status, api')
  <2>1. ASSUME NEW s \in Specs, UserCreate(s, NoStatus) PROVE Honest(api'.status, api')
    <3>1. api'.status = NoStatus
      BY <2>1 DEF UserCreate, Publish
    <3> QED BY <1>0, <3>1, NoStatusHonest
  <2>2. ASSUME NEW s \in Specs, UserEdit(s) PROVE Honest(api'.status, api')
    <3>1. /\ api'.status = api.status
          /\ IF s = api.spec THEN api'.spec = api.spec /\ api'.gen = api.gen
                             ELSE api'.gen = api.gen + 1
      BY <1>0, <2>2 DEF UserEdit, Publish, Versions
    <3> QED BY <1>0, <1>a, <3>1, SameHonest, EditHonest
  <2>3. CASE UserDelete
    <3>1. /\ api'.status = api.status
          /\ \/ api'.spec = api.spec /\ api'.gen = api.gen
             \/ api'.gen = api.gen + 1
      BY <1>0, <2>3 DEF UserDelete, Publish, Versions
    <3> QED BY <1>0, <1>a, <3>1, SameHonest, EditHonest
  <2> QED BY <2>1, <2>2, <2>3 DEF User
<1> QED BY <1>1, <1>2, <1>3, StaysHonest

LEMMA InformerHonest ==
  ASSUME TypeInv, HonestInv, NEW m \in Managers, Informer(m) PROVE HonestInv'
<1>1. UNCHANGED <<w, api>>
  BY DEF Informer, Sync, Resync
<1>2. \A n \in Managers : cache'[n] \in {cache[n], api} \cup watch[n]
  BY DEF Informer, Sync, Resync, TypeInv, TypeOK, KubeTypeOK
<1>3. \A n \in Managers : watch'[n] \subseteq watch[n] \cup {api'}
  BY DEF Informer, Sync, Resync, TypeInv, TypeOK, KubeTypeOK
<1>4. Honest(api'.status, api')
  BY <1>1 DEF HonestInv
<1> QED BY <1>1, <1>2, <1>3, <1>4, StaysHonest

LEMMA WriteHonest ==
  ASSUME TypeInv, HonestInv, NEW m \in Managers,
         AddFinalizer(m) \/ DropFinalizer(m) \/ WriteBack(m)
  PROVE  HonestInv'
<1> DEFINE o == w[m].obj
<1>0. /\ o \in Versions(Statuses)
      /\ w \in [Managers -> Workers(Statuses, Calls)]
      /\ HonestWorker(w[m])
      /\ Honest(api.status, api)
  BY CopyType DEF TypeInv, TypeOK, HonestInv
<1>1. UNCHANGED cache
  BY DEF AddFinalizer, DropFinalizer, WriteBack, ensureFinalizer,
         removeFinalizerAndUpdate, StatusUpdate
<1>2. w' = [w EXCEPT ![m] = Idle(NoStatus)]
  BY DEF AddFinalizer, DropFinalizer, WriteBack, ensureFinalizer,
         removeFinalizerAndUpdate, StatusUpdate, Return
<1>3. \A n \in Managers : w'[n] = w[n] \/ HonestWorker(w'[n])
  BY <1>0, <1>2, IdleHonest
<1>4. /\ watch' = watch \/ watch' = [n \in Managers |-> watch[n] \cup {api'}]
      /\ Honest(api'.status, api')
  <2>1. CASE UNCHANGED <<api, watch>>
    BY <1>0, <2>1
  <2>2. CASE AddFinalizer(m) /\ UpToDate(o)
    <3>1. /\ api'.status = o.status /\ api'.spec = o.spec /\ api'.gen = o.gen
          /\ watch' = [n \in Managers |-> watch[n] \cup {api'}]
      BY <1>0, <2>2 DEF AddFinalizer, ensureFinalizer, WriteFinalizer, Publish, Versions
    <3> QED BY <1>0, <3>1, SameHonest DEF HonestWorker
  <2>3. CASE DropFinalizer(m) /\ UpToDate(o)
    <3>1. /\ api'.status = o.status /\ api'.spec = o.spec /\ api'.gen = o.gen
          /\ watch' = [n \in Managers |-> watch[n] \cup {api'}]
      BY <1>0, <2>3
         DEF DropFinalizer, removeFinalizerAndUpdate, WriteNoFinalizer, Publish, Versions
    <3> QED BY <1>0, <3>1, SameHonest DEF HonestWorker
  <2>4. CASE WriteBack(m) /\ UpToDate(o) /\ w[m].st # o.status
    <3>1. /\ api'.status = w[m].st /\ api'.spec = o.spec /\ api'.gen = o.gen
          /\ watch' = [n \in Managers |-> watch[n] \cup {api'}]
          /\ w[m].pc = "write"
      BY <1>0, <2>4 DEF WriteBack, StatusUpdate, WriteStatus, Publish, Versions
    <3> QED BY <1>0, <3>1 DEF HonestWorker, Honest, InSync
  <2> QED BY <2>1, <2>2, <2>3, <2>4
          DEF AddFinalizer, DropFinalizer, WriteBack, ensureFinalizer,
              removeFinalizerAndUpdate, StatusUpdate, WriteStatus
<1> QED BY <1>1, <1>3, <1>4, StaysHonest

(* The statuses a worker goes on to save; only an observed server that     *)
(* needs no correction is reported as Ready.                               *)
LEMMA CallHonest ==
  ASSUME TypeInv, HonestInv, NEW m \in Managers,
         \/ ObserveMissing(m) \/ ObserveServer(m)
         \/ CreateAnswers(m) \/ CreateRejected(m) \/ CreateFailed(m)
  PROVE  HonestInv'
<1> DEFINE o == w[m].obj
           i == o.status.id
<1>0. /\ w \in [Managers -> Workers(Statuses, Calls)]
      /\ o \in Versions(Statuses)
      /\ o.status \in Statuses
      /\ w[m].st \in Statuses
      /\ i \in Ids \cup {NoId}
      /\ HonestWorker(w[m])
  BY CopyType DEF TypeInv, TypeOK, HonestInv
<1>a. UNCHANGED <<api, cache, watch>>
  BY DEF ObserveMissing, ObserveServer, CreateAnswers, CreateRejected,
         CreateFailed
<1>b. \A n \in Managers \ {m} : w'[n] = w[n]
  BY <1>0 DEF ObserveMissing, ObserveServer, CreateAnswers, CreateRejected,
         CreateFailed, SaveStatus, Return
<1> SUFFICES \E st : SaveStatus(m, st, NoStatus) /\ Honest(st, o)
  BY <1>a, <1>b, OnlyWorkerHonest, SaveHonest
<1>2. CASE ObserveMissing(m)
  <2>1. [o.status EXCEPT !.id = NoId] \in Statuses
    BY <1>0, IdType
  <2>2. Honest(setReadyCondition(o, [o.status EXCEPT !.id = NoId], "NotFound"), o)
    BY <1>0, <2>1, UnreadyHonest DEF Reasons
  <2> QED BY <1>2, <2>2 DEF ObserveMissing
<1>3. CASE ObserveServer(m)
  <2> DEFINE c == cloud[i]
             st == setReadyCondition(o, applyServerStatus(o, o.status, c),
                                     ObservedReason(c.state))
  <2>1. SaveStatus(m, st, NoStatus)
    BY <1>3 DEF ObserveServer
  <2>2. i # NoId
    BY <1>3 DEF ObserveServer, TypeInv, Shape, NamesServer
  <2>3. /\ st.id = i /\ st.machineType = c.machineType /\ st.powerStatus = c.power
        /\ st.condGen = o.gen /\ st.reason = ObservedReason(c.state)
    BY <1>0 DEF setReadyCondition, applyServerStatus, Statuses
  <2>4. IsReady(st) => c.state \notin transitionalStates \cup {"ERROR"}
    <3>1. st.reason = ObservedReason(c.state)
      BY <2>3
    <3> HIDE DEF st, c
    <3> QED BY <3>1, ReadyAtRest DEF IsReady
  <2>5. MustNotCorrect(o, c)
    BY <1>3 DEF ObserveServer
  <2>6. IsReady(st) =>
          /\ c.machineType = o.spec.machineType
          /\ ~ (o.spec.powerState = "Inactive" /\ c.power = "RUNNING")
          /\ ~ (o.spec.powerState = "Active" /\ c.power = "STOPPED")
    BY <2>4, <2>5 DEF MustNotCorrect, reconcileDrift
  <2>7. o.gen \in Nat
    BY <1>0 DEF Versions
  <2> HIDE DEF st
  <2>8. Honest(st, o)
    BY <2>2, <2>3, <2>6, <2>7 DEF Honest, InSync
  <2> QED BY <2>1, <2>8
<1>4. CASE CreateAnswers(m)
  <2>1. PICK k \in Ids :
          /\ CreateServer(k, o)
          /\ SaveStatus(m, setReadyCondition(o,
               applyServerStatus(o, [o.status EXCEPT !.id = k], cloud'[k]),
               "Creating"), NoStatus)
    BY <1>4 DEF CreateAnswers
  <2>2. applyServerStatus(o, [o.status EXCEPT !.id = k], cloud'[k]) \in Statuses
    BY <1>0, <2>1, CreateServerType, IdType, ApplyType
  <2> QED BY <1>0, <2>1, <2>2, UnreadyHonest DEF Reasons
<1>5. CASE CreateRejected(m) \/ CreateFailed(m)
  BY <1>0, <1>5, UnreadyHonest DEF CreateRejected, CreateFailed, Reasons
<1> QED BY <1>2, <1>3, <1>4, <1>5

(* The calls after which the worker stops or goes on with its copy. *)
LEMMA MoveHonest ==
  ASSUME TypeInv, HonestInv, NEW m \in Managers,
         \/ Reconcile(m) \/ Recheck(m) \/ Unresolved(m) \/ ObserveDrift(m)
         \/ DeleteGet(m) \/ CreateWithoutId(m)
         \/ ResizeServer(m) \/ StopServer(m) \/ StartServer(m) \/ UpdateServer(m)
         \/ DeleteServer(m) \/ Fail(m)
  PROVE  HonestInv'
<1> DEFINE o == w[m].obj
           i == o.status.id
<1>0. /\ w \in [Managers -> Workers(Statuses, Calls)]
      /\ w[m] \in Workers(Statuses, Calls)
      /\ o \in Versions(Statuses)
      /\ o.status \in Statuses
      /\ w[m].st \in Statuses
      /\ i \in Ids \cup {NoId}
      /\ HonestWorker(w[m])
      /\ api \in Versions(Statuses) /\ api.status \in Statuses
      /\ Honest(api.status, api)
      /\ Honest(cache[m].status, cache[m])
  BY CopyType DEF TypeInv, TypeOK, KubeTypeOK, Versions, HonestInv
<1>a. UNCHANGED <<api, cache, watch>>
  BY DEF Reconcile, Recheck, idAlreadyPresent, Unresolved, ObserveDrift, DeleteGet,
         CreateWithoutId, ResizeServer, StopServer, StartServer, UpdateServer,
         Correct, DeleteServer, Fail, CallFails
<1>b. \A n \in Managers \ {m} : w'[n] = w[n]
  BY <1>0 DEF Reconcile, Recheck, idAlreadyPresent, Unresolved, ObserveDrift, DeleteGet,
         CreateWithoutId, ResizeServer, StopServer, StartServer, UpdateServer,
         Correct, DeleteServer, Fail, CallFails, SaveStatus, Return
<1> SUFFICES HonestWorker(w'[m])
  BY <1>a, <1>b, OnlyWorkerHonest
<1>1. CASE Reconcile(m)
  <2> DEFINE x == WorkingOn(reconcile(cache[m]), cache[m])
  <2>1. x.pc # "write" /\ x.obj = cache[m]
    BY DEF WorkingOn, reconcile, reconcileDelete
  <2>2. w'[m] = x \/ w'[m] = Idle(NoStatus)
    BY <1>0, <1>1 DEF Reconcile
  <2> HIDE DEF x
  <2> QED BY <1>0, <2>1, <2>2, IdleHonest DEF HonestWorker
<1>2. CASE Recheck(m)
  <2>1. CASE api.exists /\ api.status.id = NoId
    <3>1. w'[m].pc = "create" /\ w'[m].obj = api
      BY <1>0, <1>2, <2>1 DEF Recheck, idAlreadyPresent
    <3> QED BY <1>0, <3>1 DEF HonestWorker
  <2>2. CASE ~ (api.exists /\ api.status.id = NoId)
    BY <1>0, <1>2, <2>2, IdleHonest DEF Recheck, idAlreadyPresent, Return
  <2> QED BY <2>1, <2>2
<1>3. CASE ObserveDrift(m)
  <2>1. w'[m].obj = o /\ w'[m].pc # "write"
    BY <1>0, <1>3 DEF ObserveDrift, reconcileDrift, Workers
  <2> QED BY <1>0, <2>1 DEF HonestWorker
<1>4. CASE DeleteGet(m)
  <2> DEFINE st == applyServerStatus(o, o.status, cloud[i])
  <2>1. CASE SaveStatus(m, setReadyCondition(o, st, "Deleting"), NoStatus)
                /\ cloud[i].state = "DELETING"
    <3>1. i # NoId
      BY <1>4 DEF DeleteGet, TypeInv, Shape, NamesServer
    <3>2. cloud[i] \in Servers /\ cloud[i].state \notin Absent
      BY <1>0, <2>1, <3>1 DEF TypeInv, TypeOK, Absent
    <3>3. st \in Statuses
      BY <1>0, <3>2, ApplyType
    <3> HIDE DEF st
    <3> QED BY <1>0, <2>1, <3>3, UnreadyHonest, SaveHonest DEF Reasons
  <2>2. CASE \/ w' = [w EXCEPT ![m].pc = "dropFinalizer"]
             \/ w' = [w EXCEPT ![m].pc = "delete", ![m].st = st]
    <3>1. w'[m].obj = o /\ w'[m].pc # "write"
      BY <1>0, <2>2 DEF Workers
    <3> QED BY <1>0, <3>1 DEF HonestWorker
  <2> QED BY <1>4, <2>1, <2>2 DEF DeleteGet
<1>5. CASE \/ CreateWithoutId(m) \/ ResizeServer(m) \/ StopServer(m)
           \/ StartServer(m) \/ UpdateServer(m) \/ Fail(m)
  BY <1>0, <1>5, IdleHonest
     DEF CreateWithoutId, ResizeServer, StopServer, StartServer, UpdateServer,
         Correct, Fail, CallFails, Return
<1>6. CASE Unresolved(m)
  <2> DEFINE why == Resolved(api.spec, refs[m])
             st  == setReadyCondition(api, api.status, why)
  <2>1. why \in Reasons \ {"Active", "Inactive"}
    BY <1>6, ResolvedType DEF Unresolved, Reasons
  <2>2. Honest(st, api)
    BY <1>0, <2>1, UnreadyHonest
  <2>3. \/ w'[m] = Idle(NoStatus)
        \/ w'[m] = [pc |-> "write", obj |-> api, before |-> api.status, st |-> st]
    BY <1>0, <1>6 DEF Unresolved, Return
  <2> HIDE DEF st
  <2> QED BY <1>0, <2>2, <2>3, IdleHonest DEF HonestWorker
<1>7. CASE DeleteServer(m)
  <2> DEFINE st == setReadyCondition(o, w[m].st, "Deleting")
  <2>1. Honest(st, o)
    BY <1>0, UnreadyHonest DEF Reasons
  <2>2. Return(m, TRUE, NoStatus) \/ SaveStatus(m, st, NoStatus)
    BY <1>7 DEF DeleteServer
  <2> HIDE DEF st
  <2> QED BY <1>0, <2>1, <2>2, IdleHonest, SaveHonest DEF Return
<1> QED BY <1>1, <1>2, <1>3, <1>4, <1>5, <1>6, <1>7

LEMMA CrashHonest ==
  ASSUME TypeInv, HonestInv, NEW m \in Managers, Crash(m) PROVE HonestInv'
<1>0. /\ w \in [Managers -> Workers(Statuses, Calls)]
      /\ cache \in [Managers -> Versions(Statuses)]
      /\ watch \in [Managers -> SUBSET Versions(Statuses)]
  BY DEF TypeInv, TypeOK, KubeTypeOK
<1>1. /\ UNCHANGED api
      /\ w' = [w EXCEPT ![m] = Idle(NoStatus)]
      /\ cache' = [cache EXCEPT ![m] = api]
      /\ watch' = [watch EXCEPT ![m] = {}]
  BY DEF Crash, Restart, Relist
<1>2. Honest(api'.status, api')
  BY <1>1 DEF HonestInv
<1> QED BY <1>0, <1>1, <1>2, IdleHonest, StaysHonest

-----------------------------------------------------------------------------
LEMMA InitHonest == Init => HonestInv
<1>1. Honest(NoObject(NoStatus).status, NoObject(NoStatus))
  BY IdleHonest DEF HonestWorker, Idle
<1> QED BY <1>1, IdleHonest DEF Init, KubeInit, HonestInv

LEMMA NextHonest == TypeInv /\ HonestInv /\ [Next]_vars => HonestInv'
<1> SUFFICES ASSUME TypeInv, HonestInv, [Next]_vars PROVE HonestInv'
  OBVIOUS
<1>1. CASE User
  BY <1>1, UserHonest
<1>2. ASSUME NEW m \in Managers, Informer(m) PROVE HonestInv'
  BY <1>2, InformerHonest
<1>3. ASSUME NEW m \in Managers, Reconcile(m) \/ Step(m) PROVE HonestInv'
  BY <1>3, WriteHonest, CallHonest, MoveHonest
     DEF Step, CreateSucceeds, CreateRefused
<1>4. ASSUME NEW m \in Managers,
             CreateFailed(m) \/ CreateWithoutId(m) \/ Fail(m) \/ Crash(m)
      PROVE  HonestInv'
  BY <1>4, CallHonest, MoveHonest, CrashHonest
<1>5. CASE UNCHANGED <<api, cache, watch, w>>
  BY <1>5 DEF HonestInv, HonestWorker, Honest, InSync, IsReady
<1> QED BY <1>1, <1>2, <1>3, <1>4, <1>5 DEF Next, vars, Settle, OutOfBand,
           ReferencesReady, ReferencesChange

(* For any number of managers, a Ready condition that carries the object's *)
(* generation was set from an observation of a server of the machine type  *)
(* and in the power state that this generation of the spec asks for,       *)
(* whatever edits, stale copies and conflicts there were meanwhile.        *)
THEOREM ReadyNeverStale == Spec => []ReadyInSync
<1>1. Init => TypeInv /\ HonestInv
  BY InitType, InitHonest
<1>2. TypeInv /\ HonestInv /\ [Next]_vars => TypeInv' /\ HonestInv'
  BY NextType, NextHonest
<1>3. HonestInv => ReadyInSync
  BY DEF HonestInv, Honest, InSync, ReadyInSync
<1> QED BY <1>1, <1>2, <1>3, PTL DEF Spec
-----------------------------------------------------------------------------
(***************************************************************************)
(* What the copies of the object that are held anywhere - in caches,       *)
(* undelivered events and workers - say about the API server's copy and    *)
(* about STACKIT.  Every safety property of the servers rests on it.       *)
(***************************************************************************)


(* An ID in a status is that of a server that has been made. *)
Made(st, c) == st.id \in Ids => c[st.id].state # "none"

(* A copy o is either older than the API server's copy a or equal to it,   *)
(* so that a write which passes the resourceVersion check changes exactly  *)
(* what the reconcile set out to change.                                   *)
Sound(o, a, c) ==
  /\ o.rv <= a.rv
  /\ o.rv = a.rv => o = a
  /\ Made(o.status, c)

Gone(i, c) == i \in Ids => c[i].state = "gone"

(* What a worker has established by the time it makes its next call. *)
Knows(x, c) ==
  LET id == x.obj.status.id
  IN  /\ x.pc = "dropFinalizer" => id = NoId \/ Gone(id, c)
      /\ x.pc = "write" => \/ x.st.id = id
                           \/ id = NoId
                           \/ x.st.id = NoId /\ Gone(id, c)
      /\ x.pc = "delete" => x.st.id = id
      /\ x.pc = "create" => x.before.id = NoId /\ id = NoId

GoodWorker(x, a, c) == Sound(x.obj, a, c) /\ Made(x.st, c) /\ Knows(x, c)

CopiesSound ==
  /\ Sound(api, api, cloud)
  /\ Sound(NoObject(NoStatus), api, cloud)
  /\ \A m \in Managers :
       /\ Sound(cache[m], api, cloud)
       /\ \A v \in watch[m] : Sound(v, api, cloud)
       /\ GoodWorker(w[m], api, cloud)

-----------------------------------------------------------------------------
(* How STACKIT and the API server move on in one step. *)

LEMMA KnownStates ==
  /\ "none" \notin States
  /\ "gone" \notin States
  /\ "none" \notin OutageStates
BY ServerAssumption DEF States, transitionalStates

(* The corrective calls act on a server that is there and leave it there. *)
LEMMA CorrectedStates ==
  ASSUME TypeInv, NEW m \in Managers,
         ResizeServer(m) \/ StopServer(m) \/ StartServer(m) \/ UpdateServer(m)
  PROVE  \E call, accepting, v :
           /\ Correct(m, call, accepting, v)
           /\ call \in {"resize", "stop", "start", "update"}
           /\ Current(m).state \in accepting
                => /\ Current(m).state \in States
                   /\ v.state \in States
                   /\ v.state = "DELETING" => Current(m).state = "DELETING"
<1> DEFINE o == w[m].obj
<1>1. Current(m) \in Servers
  BY CopyType
     DEF ResizeServer, StopServer, StartServer, UpdateServer, Correct, Current,
         TypeInv, TypeOK, Shape, NamesServer
<1>2. {"ACTIVE", "INACTIVE", "PAUSED", "DEALLOCATED", "RESIZING", "STOPPING", "STARTING"}
        \subseteq States
  BY DEF States, transitionalStates
<1>3. CASE ResizeServer(m)
  <2> DEFINE v == [Current(m) EXCEPT !.state = "RESIZING", !.machineType = o.spec.machineType]
  <2>1. v.state = "RESIZING"
    BY <1>1 DEF Servers
  <2>2. Correct(m, "resize", {"ACTIVE", "INACTIVE"}, v)
    BY <1>3 DEF ResizeServer
  <2>3. Current(m).state \in {"ACTIVE", "INACTIVE"}
          => /\ Current(m).state \in States
             /\ v.state \in States
             /\ v.state = "DELETING" => Current(m).state = "DELETING"
    BY <1>2, <2>1
  <2> HIDE DEF v
  <2> QED BY <2>2, <2>3
<1>4. CASE StopServer(m)
  <2> DEFINE v == [Current(m) EXCEPT !.state = "STOPPING"]
  <2>1. v.state = "STOPPING"
    BY <1>1 DEF Servers
  <2>2. Correct(m, "stop", {"ACTIVE", "PAUSED"}, v)
    BY <1>4 DEF StopServer
  <2>3. Current(m).state \in {"ACTIVE", "PAUSED"}
          => /\ Current(m).state \in States
             /\ v.state \in States
             /\ v.state = "DELETING" => Current(m).state = "DELETING"
    BY <1>2, <2>1
  <2> HIDE DEF v
  <2> QED BY <2>2, <2>3
<1>5. CASE StartServer(m)
  <2> DEFINE v == [Current(m) EXCEPT !.state = "STARTING"]
  <2>1. v.state = "STARTING"
    BY <1>1 DEF Servers
  <2>2. Correct(m, "start", {"ACTIVE", "INACTIVE", "DEALLOCATED"}, v)
    BY <1>5 DEF StartServer
  <2>3. Current(m).state \in {"ACTIVE", "INACTIVE", "DEALLOCATED"}
          => /\ Current(m).state \in States
             /\ v.state \in States
             /\ v.state = "DELETING" => Current(m).state = "DELETING"
    BY <1>2, <2>1
  <2> HIDE DEF v
  <2> QED BY <2>2, <2>3
<1>6. CASE UpdateServer(m)
  <2> DEFINE v == [Current(m) EXCEPT !.meta = o.spec.meta]
  <2>1. v.state = Current(m).state
    BY <1>1 DEF Servers
  <2>2. Correct(m, "update", States, v)
    BY <1>6 DEF UpdateServer
  <2> QED BY <2>1, <2>2
<1> QED BY <1>3, <1>4, <1>5, <1>6

(* A server once made has been made, and one that is gone does not return. *)
LEMMA CloudStep ==
  ASSUME TypeInv, [Next]_vars, NEW i \in Ids
  PROVE  /\ cloud[i].state # "none" => cloud'[i].state # "none"
         /\ cloud[i].state = "gone" => cloud'[i].state = "gone"
<1> DEFINE OK == /\ cloud[i].state # "none" => cloud'[i].state # "none"
                 /\ cloud[i].state = "gone" => cloud'[i].state = "gone"
<1>0. /\ cloud \in [Ids -> Servers]
      /\ \A j \in Ids : cloud[j] \in Servers
  BY DEF TypeInv, TypeOK
<1>1. CASE UNCHANGED cloud
  BY <1>1
<1>2. ASSUME NEW m \in Managers, NEW j \in Ids, CreateServer(j, w[m].obj) PROVE OK
  BY <1>0, <1>2 DEF CreateServer
<1>3. ASSUME NEW m \in Managers, NEW call, NEW accepting, NEW v, Correct(m, call, accepting, v),
             Current(m).state \in accepting => Current(m).state \in States /\ v.state \in States
      PROVE  OK
  BY <1>0, <1>3, KnownStates DEF Correct, Current
<1>4. ASSUME NEW m \in Managers,
             ResizeServer(m) \/ StopServer(m) \/ StartServer(m) \/ UpdateServer(m)
      PROVE  OK
  BY <1>3, <1>4, CorrectedStates
<1>5. ASSUME NEW m \in Managers, DeleteServer(m) PROVE OK
  BY <1>0, <1>5 DEF DeleteServer, IsNotFound, Absent, Servers
<1>6. ASSUME NEW j \in Ids, Settle(j) PROVE OK
  <2>0. cloud[j] \in Servers
    BY <1>0
  <2>1. "gone" \notin transitionalStates /\ "none" \notin transitionalStates
    BY DEF transitionalStates
  <2>2. PICK v : cloud' = [cloud EXCEPT ![j] = v] /\ v.state \in {"gone", "INACTIVE", "ACTIVE"}
    <3> DEFINE c == cloud[j]
    <3>1. PICK p : cloud' = [cloud EXCEPT ![j] =
            CASE c.state = "DELETING" -> [c EXCEPT !.state = "gone"]
              [] c.state = "STOPPING" -> [c EXCEPT !.state = "INACTIVE", !.power = "STOPPED"]
              [] c.state = "RESIZING" /\ c.power = "STOPPED" -> [c EXCEPT !.state = "INACTIVE"]
              [] OTHER -> [c EXCEPT !.state = "ACTIVE", !.power = p]]
      BY <1>6 DEF Settle
    <3>2. /\ [c EXCEPT !.state = "gone"].state = "gone"
          /\ [c EXCEPT !.state = "INACTIVE", !.power = "STOPPED"].state = "INACTIVE"
          /\ [c EXCEPT !.state = "INACTIVE"].state = "INACTIVE"
          /\ [c EXCEPT !.state = "ACTIVE", !.power = p].state = "ACTIVE"
      BY <2>0 DEF Servers
    <3> HIDE DEF c
    <3> QED BY <3>1, <3>2
  <2> QED BY <1>0, <1>6, <2>1, <2>2 DEF Settle
<1>7. ASSUME NEW j \in Ids, OutOfBand(j) PROVE OK
  BY <1>0, <1>7, KnownStates DEF OutOfBand, IsNotFound, Absent, Servers
<1>8. CASE User
  BY <1>8, <1>1 DEF User
<1>9. ASSUME NEW m \in Managers,
             \/ Informer(m) \/ Reconcile(m) \/ Step(m) \/ CreateFailed(m)
             \/ CreateWithoutId(m) \/ Fail(m) \/ Crash(m)
             \/ ReferencesReady(m) \/ ReferencesChange(m)
      PROVE OK
  <2>1. CASE CreateAnswers(m) \/ CreateFailed(m) \/ CreateWithoutId(m)
    BY <2>1, <1>1, <1>2 DEF CreateAnswers, CreateFailed, CreateWithoutId
  <2>2. CASE \/ ResizeServer(m) \/ StopServer(m) \/ StartServer(m) \/ UpdateServer(m)
             \/ DeleteServer(m)
    BY <2>2, <1>4, <1>5
  <2>3. CASE UNCHANGED cloud
    BY <2>3, <1>1
  <2> QED BY <1>9, <2>1, <2>2, <2>3
          DEF Informer, Reconcile, Step, AddFinalizer, DropFinalizer, Recheck,
              Unresolved, CreateSucceeds, CreateRefused, CreateRejected,
              ObserveMissing, ObserveServer, ObserveDrift, DeleteGet,
              WriteBack, Fail, Crash, ReferencesReady, ReferencesChange
<1> QED BY <1>1, <1>6, <1>7, <1>8, <1>9 DEF Next, vars

(* A step leaves the object alone or gives it the next resourceVersion. *)
LEMMA ApiStep ==
  ASSUME TypeInv, [Next]_vars
  PROVE  api' = api \/ api'.rv = api.rv + 1
<1> DEFINE OK == api' = api \/ api'.rv = api.rv + 1
<1>1. ASSUME NEW v \in Versions(Statuses), Publish(v) PROVE OK
  BY <1>1 DEF Publish, Versions
<1>2. CASE User
  <2>0. api \in Versions(Statuses)
    BY DEF TypeInv, TypeOK, KubeTypeOK
  <2>1. ASSUME NEW s \in Specs, UserCreate(s, NoStatus) PROVE OK
    BY <2>1 DEF UserCreate, Publish
  <2>2. ASSUME NEW s \in Specs, UserEdit(s) PROVE OK
    BY <2>0, <2>2 DEF UserEdit, Publish, Versions
  <2>3. CASE UserDelete
    BY <2>0, <2>3 DEF UserDelete, Publish, Versions
  <2> QED BY <1>2, <2>1, <2>2, <2>3 DEF User
<1>3. ASSUME NEW m \in Managers, AddFinalizer(m) \/ DropFinalizer(m) \/ WriteBack(m)
      PROVE  OK
  <2>0. w[m].obj \in Versions(Statuses) /\ w[m].st \in Statuses
    BY CopyType
  <2>1. CASE AddFinalizer(m)
    BY <2>0, <2>1 DEF AddFinalizer, ensureFinalizer, WriteFinalizer, Publish, Versions
  <2>2. CASE DropFinalizer(m)
    BY <2>0, <2>2
       DEF DropFinalizer, removeFinalizerAndUpdate, WriteNoFinalizer, Publish, Versions
  <2>3. CASE WriteBack(m)
    BY <2>0, <2>3 DEF WriteBack, StatusUpdate, WriteStatus, Publish, Versions
  <2> QED BY <1>3, <2>1, <2>2, <2>3
<1>4. CASE UNCHANGED api
  BY <1>4
<1>5. ASSUME NEW m \in Managers,
             \/ Informer(m) \/ Reconcile(m) \/ Step(m) \/ CreateFailed(m)
             \/ CreateWithoutId(m) \/ Fail(m) \/ Crash(m)
             \/ ReferencesReady(m) \/ ReferencesChange(m)
      PROVE OK
  BY <1>3, <1>4, <1>5
     DEF Informer, Sync, Resync, Reconcile, Step, Recheck, idAlreadyPresent, Unresolved,
         CreateSucceeds, CreateRefused, CreateAnswers, CreateRejected, CreateFailed,
         CreateWithoutId, ObserveMissing, ObserveServer, ObserveDrift, ResizeServer,
         StopServer, StartServer, UpdateServer, Correct, DeleteGet, DeleteServer,
         Fail, CallFails, Crash, Restart, Relist, ReferencesReady, ReferencesChange
<1>6. ASSUME NEW i \in Ids, Settle(i) \/ OutOfBand(i) PROVE OK
  BY <1>6 DEF Settle, OutOfBand
<1> QED BY <1>2, <1>4, <1>5, <1>6 DEF Next, vars

(* Hence what the copies say stays true. *)
LEMMA StaysMade ==
  ASSUME TypeInv, [Next]_vars, NEW st \in Statuses, Made(st, cloud)
  PROVE  Made(st, cloud')
BY CloudStep DEF Made

LEMMA StaysSound ==
  ASSUME TypeInv, [Next]_vars, NEW o \in Versions(Statuses), Sound(o, api, cloud)
  PROVE  Sound(o, api', cloud')
<1>1. o.status \in Statuses /\ o.rv \in Nat /\ api.rv \in Nat
  BY DEF Versions, TypeInv, TypeOK, KubeTypeOK
<1>2. Made(o.status, cloud')
  BY <1>1, StaysMade DEF Sound
<1> QED BY <1>1, <1>2, ApiStep DEF Sound

LEMMA StaysGood ==
  ASSUME TypeInv, [Next]_vars, NEW x \in Workers(Statuses, Calls),
         GoodWorker(x, api, cloud)
  PROVE  GoodWorker(x, api', cloud')
<1>1. x.obj \in Versions(Statuses) /\ x.st \in Statuses
  BY DEF Workers
<1>2. Sound(x.obj, api', cloud') /\ Made(x.st, cloud')
  BY <1>1, StaysSound, StaysMade DEF GoodWorker
<1>3. \A i : Gone(i, cloud) => Gone(i, cloud')
  BY CloudStep DEF Gone
<1>4. Knows(x, cloud')
  BY <1>3 DEF GoodWorker, Knows
<1> QED BY <1>2, <1>4 DEF GoodWorker

-----------------------------------------------------------------------------
(* A step preserves CopiesSound if the object it writes and the worker it  *)
(* changes are good; caches and events only pass on what is already there. *)
LEMMA CopiesStaySound ==
  ASSUME TypeInv, CopiesSound, [Next]_vars,
         Made(api'.status, cloud'),
         \A m \in Managers : cache'[m] \in {cache[m], api} \cup watch[m],
         \A m \in Managers : watch'[m] \subseteq watch[m] \cup {api'},
         \A m \in Managers : w'[m] = w[m] \/ GoodWorker(w'[m], api', cloud')
  PROVE  CopiesSound'
<1>1. \A o \in Versions(Statuses) : Sound(o, api, cloud) => Sound(o, api', cloud')
  BY StaysSound
<1>2. api' \in Versions(Statuses)
  BY NextType DEF TypeInv, TypeOK, KubeTypeOK
<1>3. Sound(api', api', cloud')
  BY <1>2 DEF Sound, Versions
<1>4. Sound(NoObject(NoStatus), api', cloud')
  BY <1>1, NoObjectType DEF CopiesSound
<1>5. ASSUME NEW m \in Managers
      PROVE  /\ Sound(cache'[m], api', cloud')
             /\ \A v \in watch'[m] : Sound(v, api', cloud')
             /\ GoodWorker(w'[m], api', cloud')
  <2>1. /\ cache[m] \in Versions(Statuses)
        /\ api \in Versions(Statuses)
        /\ watch[m] \subseteq Versions(Statuses)
        /\ w[m] \in Workers(Statuses, Calls)
    BY DEF TypeInv, TypeOK, KubeTypeOK
  <2>2. Sound(cache'[m], api', cloud')
    BY <1>1, <2>1 DEF CopiesSound
  <2>3. \A v \in watch'[m] : Sound(v, api', cloud')
    BY <1>1, <1>3, <2>1 DEF CopiesSound
  <2>4. GoodWorker(w'[m], api', cloud')
    BY <2>1, StaysGood DEF CopiesSound
  <2> QED BY <2>2, <2>3, <2>4
<1> QED BY <1>3, <1>4, <1>5 DEF CopiesSound

(* A status with no ID says nothing about the servers. *)
LEMMA NoIdMade ==
  /\ \A st, c : st.id = NoId => Made(st, c)
  /\ \A c : Made(NoStatus, c)
<1>1. NoId \notin Ids
  BY ServerAssumption
<1> QED BY <1>1 DEF Made, NoStatus

LEMMA IdleGood ==
  ASSUME TypeInv, CopiesSound, [Next]_vars
  PROVE  GoodWorker(Idle(NoStatus), api', cloud')
<1>1. Sound(NoObject(NoStatus), api', cloud')
  BY StaysSound, NoObjectType DEF CopiesSound
<1>2. Made(NoStatus, cloud')
  BY NoIdMade
<1> QED BY <1>1, <1>2 DEF GoodWorker, Knows, Idle

(* SaveStatus leads to a good worker if the status it saves keeps the ID,  *)
(* gives an ID to a copy that had none, or drops the ID of a server that   *)
(* is gone.                                                                *)
LEMMA SaveGood ==
  ASSUME TypeInv, CopiesSound, [Next]_vars, NEW m \in Managers,
         NEW st \in Statuses, SaveStatus(m, st, NoStatus), Made(st, cloud'),
         LET id == w[m].obj.status.id
         IN  st.id = id \/ id = NoId \/ (st.id = NoId /\ Gone(id, cloud'))
  PROVE  GoodWorker(w'[m], api', cloud')
<1>0. w \in [Managers -> Workers(Statuses, Calls)] /\ w[m] \in Workers(Statuses, Calls)
  BY DEF TypeInv, TypeOK
<1>1. CASE statusUnchanged(w[m].before, st)
  BY <1>0, <1>1, IdleGood DEF SaveStatus, Return
<1>2. CASE ~ statusUnchanged(w[m].before, st)
  <2>1. /\ w'[m].pc = "write"
        /\ w'[m].st = st
        /\ w'[m].obj = w[m].obj
    BY <1>0, <1>2 DEF SaveStatus, Workers
  <2>2. Sound(w[m].obj, api', cloud')
    BY CopyType, StaysSound DEF CopiesSound, GoodWorker
  <2> QED BY <2>1, <2>2 DEF GoodWorker, Knows
<1> QED BY <1>1, <1>2

(* A step that ends a reconcile, or only changes worker m and not the      *)
(* object, is covered by this form of CopiesStaySound.                     *)
LEMMA WorkerStaysSound ==
  ASSUME TypeInv, CopiesSound, [Next]_vars, NEW m \in Managers,
         UNCHANGED <<api, cache, watch>>,
         \A n \in Managers \ {m} : w'[n] = w[n],
         GoodWorker(w'[m], api', cloud')
  PROVE  CopiesSound'
<1>1. Made(api'.status, cloud')
  <2>1. api.status \in Statuses
    BY DEF TypeInv, TypeOK, KubeTypeOK, Versions
  <2> QED BY <2>1, StaysMade DEF CopiesSound, Sound
<1> QED BY <1>1, CopiesStaySound

(* The status that follows a successful create. *)
NewStatus(o, i, server) ==
  setReadyCondition(o, applyServerStatus(o, [o.status EXCEPT !.id = i], server),
                    "Creating")

Saves(m, i) == SaveStatus(m, NewStatus(w[m].obj, i, cloud'[i]), NoStatus)

LEMMA NewStatusType ==
  ASSUME TypeInv, NEW m \in Managers, NEW i \in Ids, CreateServer(i, w[m].obj)
  PROVE  /\ NewStatus(w[m].obj, i, cloud'[i]) \in Statuses
         /\ NewStatus(w[m].obj, i, cloud'[i]).id = i
<1> DEFINE o == w[m].obj
           s == [o.status EXCEPT !.id = i]
<1>1. s \in Statuses /\ s.id = i /\ o \in Versions(Statuses)
  BY CopyType, IdType
<1>2. cloud'[i] \in Servers /\ cloud'[i].state \notin Absent
  BY CreateServerType
<1>3. "Creating" \in Reasons
  BY DEF Reasons
<1>4. NewStatus(o, i, cloud'[i])
        = setReadyCondition(o, applyServerStatus(o, s, cloud'[i]), "Creating")
  BY DEF NewStatus
<1> HIDE DEF s
<1>5. applyServerStatus(o, s, cloud'[i]) \in Statuses
  BY <1>1, <1>2, ApplyType
<1>6. applyServerStatus(o, s, cloud'[i]).id = i
  BY <1>1, <1>2, ApplyType
<1> QED BY <1>1, <1>3, <1>4, <1>5, <1>6, ConditionType

-----------------------------------------------------------------------------
(* The steps, one by one. *)

LEMMA UserSound ==
  ASSUME TypeInv, CopiesSound, [Next]_vars, User PROVE CopiesSound'
<1>0. /\ api \in Versions(Statuses)
      /\ watch \in [Managers -> SUBSET Versions(Statuses)]
      /\ Made(api.status, cloud)
  BY DEF TypeInv, TypeOK, KubeTypeOK, CopiesSound, Sound
<1>1. UNCHANGED <<w, cloud, cache>>
  BY DEF User, UserCreate, UserEdit, UserDelete
<1>2. watch' = [m \in Managers |-> watch[m] \cup {api'}]
  BY DEF User, UserCreate, UserEdit, UserDelete, Publish
<1>3. api'.status \in {NoStatus, api.status}
  <2>1. ASSUME NEW s \in Specs, UserCreate(s, NoStatus) PROVE api'.status = NoStatus
    BY <2>1 DEF UserCreate, Publish
  <2>2. ASSUME NEW s \in Specs, UserEdit(s) PROVE api'.status = api.status
    BY <1>0, <2>2 DEF UserEdit, Publish, Versions
  <2>3. CASE UserDelete
    BY <1>0, <2>3 DEF UserDelete, Publish, Versions
  <2> QED BY <2>1, <2>2, <2>3 DEF User
<1>4. Made(api'.status, cloud')
  <2>1. CASE api'.status = NoStatus
    BY <2>1, NoIdMade
  <2>2. CASE api'.status = api.status
    BY <1>0, <1>1, <2>2
  <2> QED BY <1>3, <2>1, <2>2
<1> QED BY <1>1, <1>2, <1>4, CopiesStaySound

LEMMA InformerSound ==
  ASSUME TypeInv, CopiesSound, [Next]_vars, NEW m \in Managers, Informer(m)
  PROVE  CopiesSound'
<1>1. UNCHANGED <<w, cloud, api>>
  BY DEF Informer, Sync, Resync
<1>2. \A n \in Managers : cache'[n] \in {cache[n], api} \cup watch[n]
  BY DEF Informer, Sync, Resync, TypeInv, TypeOK, KubeTypeOK
<1>3. \A n \in Managers : watch'[n] \subseteq watch[n] \cup {api'}
  BY DEF Informer, Sync, Resync, TypeInv, TypeOK, KubeTypeOK
<1>4. Made(api'.status, cloud')
  BY <1>1 DEF CopiesSound, Sound
<1> QED BY <1>1, <1>2, <1>3, <1>4, CopiesStaySound

(* A copy that passes the resourceVersion check is the API server's copy. *)
LEMMA UpToDateIsCurrent ==
  ASSUME CopiesSound, NEW m \in Managers, UpToDate(w[m].obj)
  PROVE  w[m].obj = api
BY DEF CopiesSound, GoodWorker, Sound, UpToDate

LEMMA WriteSound ==
  ASSUME TypeInv, CopiesSound, [Next]_vars, NEW m \in Managers,
         AddFinalizer(m) \/ DropFinalizer(m) \/ WriteBack(m)
  PROVE  CopiesSound'
<1> DEFINE o == w[m].obj
<1>0. /\ api \in Versions(Statuses)
      /\ o \in Versions(Statuses)
      /\ w[m].st \in Statuses
      /\ w \in [Managers -> Workers(Statuses, Calls)]
      /\ watch \in [Managers -> SUBSET Versions(Statuses)]
      /\ Made(api.status, cloud)
      /\ Made(o.status, cloud)
      /\ Made(w[m].st, cloud)
  BY CopyType DEF TypeInv, TypeOK, KubeTypeOK, CopiesSound, Sound, GoodWorker
<1>1. UNCHANGED <<cloud, cache>>
  BY DEF AddFinalizer, DropFinalizer, WriteBack, ensureFinalizer,
         removeFinalizerAndUpdate, StatusUpdate
<1>2. w' = [w EXCEPT ![m] = Idle(NoStatus)]
  BY DEF AddFinalizer, DropFinalizer, WriteBack, ensureFinalizer,
         removeFinalizerAndUpdate, StatusUpdate, Return
<1>3. \A n \in Managers : w'[n] = w[n] \/ GoodWorker(w'[n], api', cloud')
  BY <1>0, <1>2, IdleGood
<1>4. /\ watch' = watch \/ watch' = [n \in Managers |-> watch[n] \cup {api'}]
      /\ api'.status \in {api.status, o.status, w[m].st}
  <2>1. CASE AddFinalizer(m)
    BY <1>0, <2>1 DEF AddFinalizer, ensureFinalizer, WriteFinalizer, Publish, Versions
  <2>2. CASE DropFinalizer(m)
    BY <1>0, <2>2
       DEF DropFinalizer, removeFinalizerAndUpdate, WriteNoFinalizer, Publish, Versions
  <2>3. CASE WriteBack(m)
    BY <1>0, <2>3 DEF WriteBack, StatusUpdate, WriteStatus, Publish, Versions
  <2> QED BY <2>1, <2>2, <2>3
<1>5. Made(api'.status, cloud')
  BY <1>0, <1>1, <1>4
<1> QED BY <1>0, <1>1, <1>3, <1>4, <1>5, CopiesStaySound

(* Reads. *)
LEMMA ReadSound ==
  ASSUME TypeInv, CopiesSound, [Next]_vars, NEW m \in Managers,
         \/ Reconcile(m) \/ Recheck(m) \/ Unresolved(m)
         \/ ObserveMissing(m) \/ ObserveServer(m) \/ ObserveDrift(m) \/ DeleteGet(m)
  PROVE  CopiesSound'
<1> DEFINE o == w[m].obj
           i == o.status.id
<1>0. /\ w \in [Managers -> Workers(Statuses, Calls)]
      /\ w[m] \in Workers(Statuses, Calls)
      /\ o \in Versions(Statuses)
      /\ o.status \in Statuses
      /\ Made(o.status, cloud)
      /\ api \in Versions(Statuses) /\ api.status \in Statuses
  BY CopyType DEF TypeInv, TypeOK, KubeTypeOK, Versions, CopiesSound, GoodWorker, Sound
<1>a. UNCHANGED <<api, cache, watch, cloud>>
  BY DEF Reconcile, Recheck, idAlreadyPresent, Unresolved, ObserveMissing,
         ObserveServer, ObserveDrift, DeleteGet
<1>b. \A n \in Managers \ {m} : w'[n] = w[n]
  BY <1>0 DEF Reconcile, Recheck, idAlreadyPresent, Unresolved, ObserveMissing,
              ObserveServer, ObserveDrift, DeleteGet, SaveStatus, Return
<1> SUFFICES GoodWorker(w'[m], api', cloud')
  BY <1>a, <1>b, WorkerStaysSound
<1>c. i \in Ids => cloud[i].state # "none"
  BY <1>0 DEF Made
<1>d. {"NotFound", "Deleting"} \subseteq Reasons
  BY DEF Reasons
<1>1. CASE Reconcile(m)
  <2> DEFINE c == cache[m]
             x == WorkingOn(reconcile(c), c)
  <2>1. Sound(c, api, cloud)
    BY DEF CopiesSound
  <2>2. Knows(x, cloud)
    BY DEF Knows, WorkingOn, reconcile, reconcileDelete
  <2>3. GoodWorker(x, api, cloud)
    BY <2>1, <2>2 DEF GoodWorker, WorkingOn, Sound
  <2>4. w'[m] = x \/ w'[m] = Idle(NoStatus)
    BY <1>0, <1>1 DEF Reconcile
  <2> QED BY <1>a, <2>3, <2>4, IdleGood
<1>2. CASE Unresolved(m)
  <2> DEFINE why == Resolved(api.spec, refs[m])
             st  == setReadyCondition(api, api.status, why)
             x   == [pc |-> "write", obj |-> api, before |-> api.status, st |-> st]
  <2>1. w'[m] = x \/ w'[m] = Idle(NoStatus)
    BY <1>0, <1>2 DEF Unresolved, Return
  <2>2. why \in Reasons /\ api.status.id = NoId
    BY <1>2, ResolvedType DEF Unresolved, Reasons
  <2>3. st.id = NoId
    BY <1>0, <2>2, ConditionType
  <2> HIDE DEF st
  <2>4. GoodWorker(x, api', cloud')
    BY <1>a, <2>2, <2>3, NoIdMade DEF CopiesSound, GoodWorker, Knows
  <2> QED BY <2>1, <2>4, IdleGood
<1>3. CASE Recheck(m)
  <2>1. CASE api.exists /\ api.status.id = NoId
    <3>1. w'[m] = [pc |-> "create", obj |-> api, st |-> api.status,
                   before |-> api.status]
      BY <1>0, <1>3, <2>1 DEF Recheck, idAlreadyPresent
    <3> QED BY <1>a, <2>1, <3>1 DEF CopiesSound, GoodWorker, Knows, Sound
  <2>2. CASE ~ (api.exists /\ api.status.id = NoId)
    BY <1>0, <1>3, <2>2, IdleGood DEF Recheck, idAlreadyPresent, Return
  <2> QED BY <2>1, <2>2
<1>4. CASE ObserveMissing(m)
  <2> DEFINE cleared == [o.status EXCEPT !.id = NoId]
             st == setReadyCondition(o, cleared, "NotFound")
  <2>0. cleared \in Statuses /\ cleared.id = NoId
    BY <1>0, IdType
  <2>1. st \in Statuses /\ st.id = NoId
    BY <1>0, <1>d, <2>0, ConditionType
  <2>2. Gone(i, cloud')
    BY <1>4, <1>a, <1>c DEF ObserveMissing, IsNotFound, Absent, Gone
  <2>3. Made(st, cloud')
    BY <2>1, NoIdMade
  <2>4. SaveStatus(m, st, NoStatus)
    BY <1>4 DEF ObserveMissing
  <2> HIDE DEF st
  <2> QED BY <2>1, <2>2, <2>3, <2>4, SaveGood
<1>5. CASE ObserveServer(m)
  <2> DEFINE st == setReadyCondition(o, applyServerStatus(o, o.status, cloud[i]),
                                     ObservedReason(cloud[i].state))
  <2>1. cloud[i] \in Servers /\ cloud[i].state \notin Absent
    BY <1>5, CopyType DEF ObserveServer, IsNotFound, TypeInv, TypeOK, Shape, NamesServer
  <2>2. st \in Statuses /\ st.id = i
    <3>1. applyServerStatus(o, o.status, cloud[i]) \in Statuses
      BY <1>0, <2>1, ApplyType
    <3>2. applyServerStatus(o, o.status, cloud[i]).id = i
      BY <1>0, <2>1, ApplyType
    <3>3. ObservedReason(cloud[i].state) \in Reasons
      BY ReasonType
    <3> QED BY <1>0, <3>1, <3>2, <3>3, ConditionType
  <2>3. Made(st, cloud')
    BY <1>0, <1>a, <2>2 DEF Made
  <2>4. SaveStatus(m, st, NoStatus)
    BY <1>5 DEF ObserveServer
  <2> HIDE DEF st
  <2> QED BY <2>2, <2>3, <2>4, SaveGood
<1>6. CASE ObserveDrift(m)
  <2>1. reconcileDrift(o, cloud[i]) \in {"resize", "stop", "start", "update"}
    BY <1>6 DEF ObserveDrift, MustNotCorrect, reconcileDrift
  <2>2. /\ w'[m].obj = o
        /\ w'[m].st = w[m].st
        /\ w'[m].pc \in {"resize", "stop", "start", "update"}
    BY <1>0, <1>6, <2>1 DEF ObserveDrift, Workers
  <2> QED BY <1>a, <2>2 DEF CopiesSound, GoodWorker, Knows
<1>7. CASE DeleteGet(m)
  <2> DEFINE st == applyServerStatus(o, o.status, cloud[i])
  <2>1. CASE IsNotFound(i)
    <3>1. w'[m] = [w[m] EXCEPT !.pc = "dropFinalizer"]
      BY <1>0, <1>7, <2>1 DEF DeleteGet, IsNotFound, Absent
    <3>2. /\ w'[m].obj = o
          /\ w'[m].st = w[m].st
          /\ w'[m].pc = "dropFinalizer"
      BY <1>0, <3>1 DEF Workers
    <3>3. Gone(i, cloud')
      BY <1>a, <1>c, <2>1 DEF IsNotFound, Absent, Gone
    <3> QED BY <1>a, <3>2, <3>3 DEF CopiesSound, GoodWorker, Knows
  <2>2. CASE ~ IsNotFound(i)
    <3>1. cloud[i] \in Servers /\ cloud[i].state \notin Absent
      BY <1>7, <2>2, CopyType DEF DeleteGet, IsNotFound, TypeInv, TypeOK, Shape, NamesServer
    <3>2. st \in Statuses /\ st.id = i
      BY <1>0, <3>1, ApplyType
    <3>3. Made(st, cloud')
      BY <1>0, <1>a, <3>2 DEF Made
    <3> HIDE DEF st
    <3>4. CASE cloud[i].state # "DELETING"
      <4>1. w'[m] = [w[m] EXCEPT !.pc = "delete", !.st = st]
        BY <1>0, <1>7, <2>2, <3>4 DEF DeleteGet, st
      <4>2. /\ w'[m].obj = o
            /\ w'[m].st = st
            /\ w'[m].pc = "delete"
        BY <1>0, <4>1 DEF Workers
      <4> QED BY <1>a, <3>2, <3>3, <4>2 DEF CopiesSound, GoodWorker, Knows
    <3>5. CASE cloud[i].state = "DELETING"
      <4>1. SaveStatus(m, setReadyCondition(o, st, "Deleting"), NoStatus)
        BY <1>7, <2>2, <3>5 DEF DeleteGet, st
      <4>2. /\ setReadyCondition(o, st, "Deleting") \in Statuses
            /\ setReadyCondition(o, st, "Deleting").id = i
        BY <1>0, <1>d, <3>2, ConditionType
      <4> QED BY <1>0, <1>a, <4>1, <4>2, SaveGood DEF Made
    <3> QED BY <3>4, <3>5
  <2> QED BY <2>1, <2>2
<1> QED BY <1>1, <1>2, <1>3, <1>4, <1>5, <1>6, <1>7

(* STACKIT makes a server; only a reconcile that found no ID asks for one. *)
LEMMA CreateSound ==
  ASSUME TypeInv, CopiesSound, [Next]_vars, NEW m \in Managers,
         \/ CreateAnswers(m) \/ CreateRejected(m)
         \/ CreateFailed(m) \/ CreateWithoutId(m)
  PROVE  CopiesSound'
<1> DEFINE o == w[m].obj
<1>0. /\ w \in [Managers -> Workers(Statuses, Calls)]
      /\ o \in Versions(Statuses)
      /\ o.status \in Statuses
      /\ Made(o.status, cloud)
      /\ o.status.id = NoId
  BY CopyType DEF TypeInv, TypeOK, CopiesSound, GoodWorker, Sound, Knows,
                  CreateAnswers, CreateRejected, CreateFailed, CreateWithoutId
<1>a. UNCHANGED <<api, cache, watch>>
  BY DEF CreateAnswers, CreateRejected, CreateFailed, CreateWithoutId
<1>b. \A n \in Managers \ {m} : w'[n] = w[n]
  BY <1>0 DEF CreateAnswers, CreateRejected, CreateFailed, CreateWithoutId,
              SaveStatus, Return
<1> SUFFICES GoodWorker(w'[m], api', cloud')
  BY <1>a, <1>b, WorkerStaysSound
<1>d. {"Creating", "CreateFailed"} \subseteq Reasons
  BY DEF Reasons
<1>1. CASE CreateAnswers(m)
  <2>1. PICK i \in Ids : CreateServer(i, o) /\ Saves(m, i)
    BY <1>1 DEF CreateAnswers, Saves, NewStatus
  <2>2. NewStatus(o, i, cloud'[i]) \in Statuses /\ NewStatus(o, i, cloud'[i]).id = i
    BY <1>0, <2>1, NewStatusType
  <2>3. cloud'[i].state # "none"
    BY <2>1, CreateServerType DEF Absent
  <2> QED BY <1>0, <2>1, <2>2, <2>3, SaveGood DEF Saves, Made
<1>2. CASE CreateRejected(m) \/ CreateFailed(m)
  <2> DEFINE st == setReadyCondition(o, o.status, "CreateFailed")
  <2>1. st \in Statuses /\ st.id = NoId
    BY <1>0, <1>d, ConditionType
  <2>2. SaveStatus(m, st, NoStatus)
    BY <1>2 DEF CreateRejected, CreateFailed
  <2> HIDE DEF st
  <2> QED BY <1>0, <2>1, <2>2, NoIdMade, SaveGood
<1>3. CASE CreateWithoutId(m)
  BY <1>0, <1>3, IdleGood DEF CreateWithoutId, Return
<1> QED BY <1>1, <1>2, <1>3

(* The calls on a server that an ID names. *)
LEMMA ChangeSound ==
  ASSUME TypeInv, CopiesSound, [Next]_vars, NEW m \in Managers,
         \/ ResizeServer(m) \/ StopServer(m) \/ StartServer(m) \/ UpdateServer(m)
         \/ DeleteServer(m)
  PROVE  CopiesSound'
<1> DEFINE o == w[m].obj
<1>0. /\ w \in [Managers -> Workers(Statuses, Calls)]
      /\ o \in Versions(Statuses)
      /\ w[m].st \in Statuses
      /\ Made(w[m].st, cloud')
  BY CopyType, StaysMade DEF TypeInv, TypeOK, CopiesSound, GoodWorker
<1>a. UNCHANGED <<api, cache, watch>>
  BY DEF ResizeServer, StopServer, StartServer, UpdateServer, Correct, DeleteServer
<1>b. \A n \in Managers \ {m} : w'[n] = w[n]
  BY <1>0 DEF ResizeServer, StopServer, StartServer, UpdateServer, Correct,
              DeleteServer, SaveStatus, Return
<1> SUFFICES GoodWorker(w'[m], api', cloud')
  BY <1>a, <1>b, WorkerStaysSound
<1>1. CASE ResizeServer(m) \/ StopServer(m) \/ StartServer(m) \/ UpdateServer(m)
  BY <1>0, <1>1, IdleGood
     DEF ResizeServer, StopServer, StartServer, UpdateServer, Correct, Return
<1>2. CASE DeleteServer(m)
  <2> DEFINE st == setReadyCondition(o, w[m].st, "Deleting")
  <2>1. "Deleting" \in Reasons
    BY DEF Reasons
  <2>2. st \in Statuses /\ st.id = w[m].st.id
    BY <1>0, <2>1, ConditionType
  <2>3. SaveStatus(m, st, NoStatus) \/ Return(m, TRUE, NoStatus)
    BY <1>2 DEF DeleteServer
  <2>4. w[m].st.id = o.status.id
    BY <1>2 DEF DeleteServer, CopiesSound, GoodWorker, Knows
  <2> HIDE DEF st
  <2> QED BY <1>0, <2>2, <2>3, <2>4, SaveGood, IdleGood DEF Made, Return
<1> QED BY <1>1, <1>2

LEMMA FaultSound ==
  ASSUME TypeInv, CopiesSound, [Next]_vars, NEW m \in Managers, Fail(m) \/ Crash(m)
  PROVE  CopiesSound'
<1>0. /\ w \in [Managers -> Workers(Statuses, Calls)]
      /\ cache \in [Managers -> Versions(Statuses)]
      /\ watch \in [Managers -> SUBSET Versions(Statuses)]
  BY DEF TypeInv, TypeOK, KubeTypeOK
<1>1. UNCHANGED <<api, cloud>> /\ w' = [w EXCEPT ![m] = Idle(NoStatus)]
  BY DEF Fail, CallFails, Return, Crash, Restart, Relist
<1>2. \A n \in Managers : cache'[n] \in {cache[n], api} \cup watch[n]
  BY <1>0 DEF Fail, CallFails, Crash, Restart, Relist
<1>3. \A n \in Managers : watch'[n] \subseteq watch[n] \cup {api'}
  BY <1>0 DEF Fail, CallFails, Crash, Restart, Relist
<1>4. \A n \in Managers : w'[n] = w[n] \/ GoodWorker(w'[n], api', cloud')
  BY <1>0, <1>1, IdleGood
<1>5. Made(api'.status, cloud')
  BY <1>1 DEF CopiesSound, Sound
<1> QED BY <1>2, <1>3, <1>4, <1>5, CopiesStaySound

LEMMA StackitSound ==
  ASSUME TypeInv, CopiesSound, [Next]_vars,
         UNCHANGED <<api, cache, watch, w>>
  PROVE  CopiesSound'
<1>1. Made(api'.status, cloud')
  <2>1. api.status \in Statuses
    BY DEF TypeInv, TypeOK, KubeTypeOK, Versions
  <2> QED BY <2>1, StaysMade DEF CopiesSound, Sound
<1> QED BY <1>1, CopiesStaySound

-----------------------------------------------------------------------------
LEMMA InitSound == Init => CopiesSound
<1> SUFFICES ASSUME Init PROVE CopiesSound
  OBVIOUS
<1>1. Sound(NoObject(NoStatus), NoObject(NoStatus), cloud)
  BY NoIdMade DEF Sound, NoObject
<1>2. GoodWorker(Idle(NoStatus), NoObject(NoStatus), cloud)
  BY <1>1, NoIdMade DEF GoodWorker, Knows, Idle
<1> QED BY <1>1, <1>2 DEF Init, KubeInit, CopiesSound

LEMMA NextSound == TypeInv /\ CopiesSound /\ [Next]_vars => CopiesSound'
<1> SUFFICES ASSUME TypeInv, CopiesSound, [Next]_vars PROVE CopiesSound'
  OBVIOUS
<1>1. CASE User
  BY <1>1, UserSound
<1>2. ASSUME NEW m \in Managers, Informer(m) PROVE CopiesSound'
  BY <1>2, InformerSound
<1>3. ASSUME NEW m \in Managers, Reconcile(m) \/ Step(m) PROVE CopiesSound'
  BY <1>3, WriteSound, ReadSound, CreateSound, ChangeSound
     DEF Step, CreateSucceeds, CreateRefused
<1>4. ASSUME NEW m \in Managers,
             CreateFailed(m) \/ CreateWithoutId(m) \/ Fail(m) \/ Crash(m)
      PROVE  CopiesSound'
  BY <1>4, CreateSound, FaultSound
<1>5. ASSUME NEW i \in Ids, Settle(i) \/ OutOfBand(i)
      PROVE  CopiesSound'
  BY <1>5, StackitSound DEF Settle, OutOfBand
<1>6. ASSUME NEW m \in Managers, ReferencesReady(m) \/ ReferencesChange(m)
      PROVE  CopiesSound'
  BY <1>6, StackitSound DEF ReferencesReady, ReferencesChange
<1>7. CASE UNCHANGED vars
  BY <1>7, StackitSound DEF vars
<1> QED BY <1>1, <1>2, <1>3, <1>4, <1>5, <1>6, <1>7 DEF Next

(* Every copy of the object that a cache, an undelivered event or a worker *)
(* holds is the API server's copy or has an older resourceVersion; every   *)
(* ID in any of them names a server STACKIT has made; and no worker is     *)
(* about to drop the finalizer, or the ID, of a server that is still there.*)
THEOREM CopiesInvariant == Spec => []CopiesSound
<1>1. Init => TypeInv /\ CopiesSound
  BY InitType, InitSound
<1>2. TypeInv /\ CopiesSound /\ [Next]_vars => TypeInv' /\ CopiesSound'
  BY NextType, NextSound
<1> QED BY <1>1, <1>2, PTL DEF Spec

-----------------------------------------------------------------------------
(* The three ways a server can start or cease to be accounted for. *)

(* Only a create call makes a server. *)
LEMMA OnlyCreateMakes ==
  ASSUME TypeInv, [Next]_vars, NEW i \in Ids,
         cloud[i].state = "none", cloud'[i].state # "none"
  PROVE  \E m \in Managers :
           /\ CreateServer(i, w[m].obj)
           /\ w[m].pc = "create" /\ UNCHANGED api
           /\ \/ CreateAnswers(m) /\ Saves(m, i)
              \/ /\ CreateFailed(m) \/ CreateWithoutId(m)
                 /\ left'.faults < left.faults
<1> DEFINE OK == \E m \in Managers :
                   /\ CreateServer(i, w[m].obj)
                   /\ w[m].pc = "create" /\ UNCHANGED api
                   /\ \/ CreateAnswers(m) /\ Saves(m, i)
                      \/ /\ CreateFailed(m) \/ CreateWithoutId(m)
                         /\ left'.faults < left.faults
<1>0. /\ cloud \in [Ids -> Servers]
      /\ \A j \in Ids : cloud[j] \in Servers
      /\ left \in [edits: Nat, faults: Nat, outages: Nat]
  BY DEF TypeInv, TypeOK, KubeTypeOK
<1>a. cloud' # cloud
  OBVIOUS
<1>b. Spend("faults") => left'.faults < left.faults
  BY <1>0 DEF Spend
<1>c. ASSUME NEW m \in Managers, NEW j \in Ids, CreateServer(j, w[m].obj) PROVE j = i
  BY <1>0, <1>c DEF CreateServer
<1>1. ASSUME NEW m \in Managers, CreateAnswers(m) PROVE OK
  <2>1. PICK j \in Ids : CreateServer(j, w[m].obj) /\ Saves(m, j)
    BY <1>1 DEF CreateAnswers, Saves, NewStatus
  <2>2. w[m].pc = "create" /\ UNCHANGED api
    BY <1>1 DEF CreateAnswers
  <2> QED BY <1>1, <1>c, <2>1, <2>2
<1>2. ASSUME NEW m \in Managers, CreateFailed(m) \/ CreateWithoutId(m) PROVE OK
  <2>1. Spend("faults") /\ \E j \in Ids : CreateServer(j, w[m].obj)
    BY <1>2, <1>a DEF CreateFailed, CreateWithoutId
  <2>2. w[m].pc = "create" /\ UNCHANGED api
    BY <1>2 DEF CreateFailed, CreateWithoutId
  <2> QED BY <1>2, <1>b, <1>c, <2>1, <2>2
<1>3. ASSUME NEW m \in Managers, NEW call, NEW accepting, NEW v, Correct(m, call, accepting, v),
             Current(m).state \in accepting => Current(m).state \in States
      PROVE  FALSE
  BY <1>0, <1>3, KnownStates DEF Correct, Current
<1>4. ASSUME NEW m \in Managers,
             ResizeServer(m) \/ StopServer(m) \/ StartServer(m) \/ UpdateServer(m)
      PROVE  FALSE
  BY <1>3, <1>4, CorrectedStates
<1>5. ASSUME NEW m \in Managers, DeleteServer(m) PROVE FALSE
  BY <1>0, <1>5 DEF DeleteServer, IsNotFound, Absent, Servers
<1>6. ASSUME NEW j \in Ids, Settle(j) PROVE FALSE
  <2>1. "none" \notin transitionalStates
    BY DEF transitionalStates
  <2> QED BY <1>0, <1>6, <2>1 DEF Settle, Servers
<1>7. ASSUME NEW j \in Ids, OutOfBand(j) PROVE FALSE
  BY <1>0, <1>7 DEF OutOfBand, IsNotFound, Absent, Servers
<1>8. CASE User
  BY <1>8, <1>a DEF User
<1>9. ASSUME NEW m \in Managers,
             \/ Informer(m) \/ Reconcile(m) \/ Step(m) \/ CreateFailed(m)
             \/ CreateWithoutId(m) \/ Fail(m) \/ Crash(m)
             \/ ReferencesReady(m) \/ ReferencesChange(m)
      PROVE OK
  BY <1>9, <1>a, <1>1, <1>2, <1>4, <1>5
     DEF Informer, Reconcile, Step, AddFinalizer, DropFinalizer, Recheck,
         Unresolved, CreateSucceeds, CreateRefused, CreateRejected,
         ObserveMissing, ObserveServer, ObserveDrift, DeleteGet,
         WriteBack, Fail, Crash, ReferencesReady, ReferencesChange
<1> QED BY <1>a, <1>6, <1>7, <1>8, <1>9 DEF Next, vars

(* The worker whose create succeeded goes on to write the new ID. *)
LEMMA CreatedInHand ==
  ASSUME TypeInv, CopiesSound, NEW m \in Managers, NEW i \in Ids,
         CreateServer(i, w[m].obj), CreateAnswers(m), Saves(m, i)
  PROVE  InHand(m, i)'
<1> DEFINE st == NewStatus(w[m].obj, i, cloud'[i])
<1>1. st \in Statuses /\ st.id = i
  BY NewStatusType
<1>2. w[m].before.id = NoId /\ w[m].obj.status.id = NoId
  BY DEF CreateAnswers, CopiesSound, GoodWorker, Knows
<1>3. NoId \notin Ids
  BY ServerAssumption
<1>4. SaveStatus(m, st, NoStatus)
  BY DEF Saves
<1> HIDE DEF st
<1>5. ~ statusUnchanged(w[m].before, st)
  BY <1>1, <1>2, <1>3 DEF statusUnchanged
<1>6. w' = [w EXCEPT ![m].pc = "write", ![m].st = st]
  BY <1>4, <1>5 DEF SaveStatus
<1>7. /\ w'[m].pc = "write"
      /\ w'[m].st = st
      /\ w'[m].obj = w[m].obj
  BY <1>6, CopyType DEF TypeInv, TypeOK, Workers
<1> QED BY <1>1, <1>2, <1>7 DEF InHand

(* A worker about to write ends with that write, a failure or a restart. *)
LEMMA WriterOnlyStops ==
  ASSUME TypeInv, [Next]_vars, NEW m \in Managers, w[m].pc = "write"
  PROVE  w'[m] = w[m] \/ w'[m].pc = "idle"
<1> DEFINE OK == w'[m] = w[m] \/ w'[m].pc = "idle"
<1>0. w \in [Managers -> Workers(Statuses, Calls)]
  BY DEF TypeInv, TypeOK
<1>1. CASE UNCHANGED w
  BY <1>1
<1>2. ASSUME NEW n \in Managers, WriteBack(n) \/ Fail(n) \/ Crash(n) PROVE OK
  <2>1. w' = [w EXCEPT ![n] = Idle(NoStatus)]
    BY <1>2 DEF WriteBack, StatusUpdate, Fail, CallFails, Crash, Restart, Return
  <2> QED BY <1>0, <2>1 DEF Idle
<1>3. ASSUME NEW n \in Managers, Reconcile(n) PROVE OK
  <2>1. n # m
    BY <1>3 DEF Reconcile
  <2> QED BY <1>0, <1>3, <2>1 DEF Reconcile
<1>4. ASSUME NEW n \in Managers, Step(n) \/ CreateFailed(n) \/ CreateWithoutId(n),
             ~ WriteBack(n)
      PROVE  OK
  <2>1. n # m
    BY <1>4 DEF Step, AddFinalizer, ensureFinalizer, DropFinalizer,
                removeFinalizerAndUpdate, Recheck, idAlreadyPresent, Unresolved,
                CreateSucceeds, CreateRefused, CreateAnswers, CreateRejected,
                CreateFailed, CreateWithoutId, ObserveMissing, ObserveServer,
                ObserveDrift, ResizeServer, StopServer, StartServer, UpdateServer,
                Correct, DeleteGet, DeleteServer
  <2>2. w'[m] = w[m]
    BY <1>0, <1>4, <2>1
       DEF Step, AddFinalizer, ensureFinalizer, DropFinalizer,
           removeFinalizerAndUpdate, Recheck, idAlreadyPresent, Unresolved,
           CreateSucceeds, CreateRefused, CreateAnswers, CreateRejected,
           CreateFailed, CreateWithoutId, ObserveMissing, ObserveServer,
           ObserveDrift, ResizeServer, StopServer, StartServer, UpdateServer,
           Correct, DeleteGet, DeleteServer, SaveStatus, Return
  <2> QED BY <2>2
<1> QED BY <1>1, <1>2, <1>3, <1>4
        DEF Next, vars, User, Informer, Settle, OutOfBand,
            ReferencesReady, ReferencesChange

(* While a server is there, the object that records it stops to do so only *)
(* when a user deletes it and it has no finalizer.                         *)
LEMMA RecordKept ==
  ASSUME TypeInv, CopiesSound, [Next]_vars, NEW i \in Ids,
         Live(i), Recorded(i), ~ Recorded(i)'
  PROVE  ~ api.finalizer /\ ~ api'.exists
<1> DEFINE OK == ~ api.finalizer /\ ~ api'.exists
<1>0. api \in Versions(Statuses) /\ api.status \in Statuses
  BY DEF TypeInv, TypeOK, KubeTypeOK, Versions
<1>a. api' # api /\ api.exists /\ api.status.id = i
  BY DEF Recorded
<1>b. cloud[i].state # "gone" /\ i # NoId
  BY ServerAssumption DEF Live, IsNotFound, Absent
<1>1. CASE User
  <2>1. ASSUME NEW s \in Specs, UserEdit(s) PROVE FALSE
    <3>1. api'.status = api.status /\ api'.exists
      BY <1>0, <1>a, <2>1 DEF UserEdit, Publish, Versions
    <3> QED BY <1>a, <3>1 DEF Recorded
  <2>2. CASE UserDelete /\ api.finalizer
    <3>1. api'.status = api.status /\ api'.exists
      BY <1>0, <1>a, <2>2 DEF UserDelete, Publish, Versions
    <3> QED BY <1>a, <3>1 DEF Recorded
  <2>3. CASE UserDelete /\ ~ api.finalizer
    BY <1>0, <2>3 DEF UserDelete, Publish, Versions
  <2> QED BY <1>1, <1>a, <2>1, <2>2, <2>3 DEF User, UserCreate
<1>2. ASSUME NEW m \in Managers, AddFinalizer(m) PROVE FALSE
  <2>1. w[m].obj = api
    BY <1>2, <1>a, UpToDateIsCurrent DEF AddFinalizer, ensureFinalizer
  <2>2. api'.status = api.status /\ api'.exists
    BY <1>0, <1>2, <1>a, <2>1
       DEF AddFinalizer, ensureFinalizer, WriteFinalizer, Publish, Versions
  <2> QED BY <1>a, <2>2 DEF Recorded
<1>3. ASSUME NEW m \in Managers, DropFinalizer(m) PROVE FALSE
  <2>1. w[m].obj = api /\ w[m].pc = "dropFinalizer"
    BY <1>3, <1>a, UpToDateIsCurrent DEF DropFinalizer, removeFinalizerAndUpdate
  <2> QED BY <1>a, <1>b, <2>1 DEF CopiesSound, GoodWorker, Knows, Gone
<1>4. ASSUME NEW m \in Managers, WriteBack(m) PROVE FALSE
  <2>1. w[m].obj = api /\ w[m].pc = "write"
    BY <1>4, <1>a, UpToDateIsCurrent DEF WriteBack, StatusUpdate
  <2>2. w[m].st.id = i
    BY <1>a, <1>b, <2>1 DEF CopiesSound, GoodWorker, Knows, Gone
  <2>3. api'.status = w[m].st /\ api'.exists
    BY <1>0, <1>4, <1>a, <2>1, CopyType
       DEF WriteBack, StatusUpdate, WriteStatus, Publish, Versions
  <2> QED BY <2>2, <2>3 DEF Recorded
<1>5. ASSUME NEW m \in Managers,
             \/ Informer(m) \/ Reconcile(m) \/ Step(m) \/ CreateFailed(m)
             \/ CreateWithoutId(m) \/ Fail(m) \/ Crash(m)
             \/ ReferencesReady(m) \/ ReferencesChange(m)
      PROVE OK
  BY <1>a, <1>2, <1>3, <1>4, <1>5
     DEF Informer, Sync, Resync, Reconcile, Step, Recheck, idAlreadyPresent,
         Unresolved, CreateSucceeds, CreateRefused, CreateAnswers, CreateRejected,
         CreateFailed, CreateWithoutId, ObserveMissing, ObserveServer, ObserveDrift,
         ResizeServer, StopServer, StartServer, UpdateServer, Correct, DeleteGet,
         DeleteServer, Fail, CallFails, Crash, Restart, Relist,
         ReferencesReady, ReferencesChange
<1> QED BY <1>1, <1>5, <1>a DEF Next, vars, Settle, OutOfBand

(* For any number of managers, with or without leader election, a server   *)
(* that is still there is lost track of only if the reply to its creation  *)
(* or the status write after it is lost, or if its object is deleted while *)
(* it carries no finalizer: the NotFound branch of reconcileExisting and   *)
(* the end of reconcileDelete drop an ID only after STACKIT has answered   *)
(* 404 for it, and no write based on a stale copy overwrites one.          *)
THEOREM OnlyLostWritesOrphan == Spec => OrphanOnlyFromLostWrite
<1> DEFINE Allowed(i) ==
             \/ Orphan(i)
             \/ cloud[i].state = "none" /\ left'.faults < left.faults
             \/ \E m \in Managers : InHand(m, i) /\ w'[m].pc = "idle"
             \/ Recorded(i) /\ ~ api.finalizer /\ ~ api'.exists
<1>1. ASSUME TypeInv, CopiesSound, [Next]_vars, NEW i \in Ids, Orphan(i)'
      PROVE  Allowed(i)
  <2>0. Live(i)' /\ ~ Recorded(i)' /\ \A m \in Managers : ~ InHand(m, i)'
    BY <1>1 DEF Orphan
  <2>1. CASE ~ Live(i)
    <3>1. cloud[i].state = "none" /\ cloud'[i].state # "none"
      BY <1>1, <2>0, <2>1, CloudStep DEF Live, IsNotFound, Absent
    <3> QED BY <1>1, <2>0, <3>1, OnlyCreateMakes, CreatedInHand
  <2>2. CASE Live(i) /\ Recorded(i)
    BY <1>1, <2>0, <2>2, RecordKept
  <2>3. ASSUME NEW m \in Managers, InHand(m, i) PROVE Allowed(i)
    <3>1. w'[m] # w[m]
      BY <2>0, <2>3 DEF InHand
    <3> QED BY <1>1, <2>3, <3>1, WriterOnlyStops DEF InHand
  <2> QED BY <2>1, <2>2, <2>3 DEF Orphan
<1>2. TypeInv /\ CopiesSound /\ [Next]_vars
        => [\A i \in Ids : Orphan(i)' => Allowed(i)]_vars
  BY <1>1
<1> QED BY <1>2, TypeInvariant, CopiesInvariant, PTL
        DEF Spec, OrphanOnlyFromLostWrite
=============================================================================
