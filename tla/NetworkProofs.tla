---------------------------- MODULE NetworkProofs ----------------------------
(***************************************************************************)
(* Theorems about NetworkController, for any managers, any specs and any   *)
(* bounds: its types, that an adopted network is only observed, and that a *)
(* network is lost track of only with the answer to its create.            *)
(***************************************************************************)
EXTENDS NetworkController, TLAPS

(* What a worker knows of the copy it works on.  Every call on a network   *)
(* names one: an ID in the status, or spec.existingId.                     *)
NamesNetwork(x) ==
  /\ x.pc \in {"get", "update", "delGet", "delete"}
       => x.obj.status.id # NoId
  /\ x.pc = "adoptGet" => Adopted(x.obj)

Shape == \A m \in Managers : NamesNetwork(w[m])

TypeInv == TypeOK /\ Shape

-----------------------------------------------------------------------------
(* The operators on statuses, conditions and workers respect the types. *)

LEMMA NoStatusType == NoStatus \in Statuses
BY DEF NoStatus, Statuses, Reasons

LEMMA NoObjectType == NoObject(NoStatus) \in Versions(Statuses)
BY NoStatusType, SpecsAssumption DEF NoObject, Versions

LEMMA IdleType ==
  Idle(NoStatus) \in Workers(Statuses, Calls) /\ NamesNetwork(Idle(NoStatus))
BY NoStatusType, NoObjectType DEF Idle, Workers, NamesNetwork

LEMMA ApplyType ==
  ASSUME NEW o \in Versions(Statuses), NEW st \in Statuses, NEW c \in Networks,
         c.state \notin Absent
  PROVE  /\ applyNetworkStatus(o, st, c) \in Statuses
         /\ applyNetworkStatus(o, st, c).id = st.id
BY DEF applyNetworkStatus, Versions, Statuses, Networks

LEMMA ConditionType ==
  ASSUME NEW o \in Versions(Statuses), NEW st \in Statuses, NEW r \in Reasons
  PROVE  /\ setReadyCondition(o, st, r) \in Statuses
         /\ setReadyCondition(o, st, r).id = st.id
BY DEF setReadyCondition, Versions, Statuses

LEMMA ReasonType == \A s : ObservedReason(s) \in Reasons
BY DEF ObservedReason, Reasons

LEMMA IdType ==
  ASSUME NEW st \in Statuses, NEW i \in Ids \cup {Foreign, NoId}
  PROVE  [st EXCEPT !.id = i] \in Statuses /\ [st EXCEPT !.id = i].id = i
BY DEF Statuses

LEMMA PayloadType ==
  ASSUME NEW o \in Versions(Statuses), NEW c
  PROVE  reconcileDrift(o, c) \in Payloads
<1>1. o.spec.want \in Settings
  BY NetworkAssumption DEF Versions, NetworkSpec
<1>2. DOMAIN reconcileDrift(o, c) \subseteq Fields \cup Labels
  BY DEF reconcileDrift, Differing
<1>3. \A f \in DOMAIN reconcileDrift(o, c) :
        /\ reconcileDrift(o, c)[f] = o.spec.want[f]
        /\ o.spec.want[f] # Unset
  BY DEF reconcileDrift, Differing
<1>4. \A f \in DOMAIN reconcileDrift(o, c) : reconcileDrift(o, c)[f] \in FieldValues
  BY <1>1, <1>2, <1>3 DEF Settings
<1>5. reconcileDrift(o, c) \in [DOMAIN reconcileDrift(o, c) -> FieldValues]
  BY <1>4 DEF reconcileDrift
<1> QED BY <1>2, <1>5 DEF Payloads

LEMMA NothingType == Nothing \in Payloads
BY DEF Nothing, Payloads

LEMMA UpdatedType ==
  ASSUME NEW has \in Settings, NEW p \in Payloads
  PROVE  Updated(has, p) \in Settings
<1>1. PICK F \in SUBSET (Fields \cup Labels) : p \in [F -> FieldValues]
  BY DEF Payloads
<1>2. \A f \in DOMAIN p : p[f] \in FieldValues
  BY <1>1
<1> QED BY <1>2 DEF Updated, Settings

(* The first call of a reconcile is one that its copy is fit for. *)
LEMMA ReconcileType ==
  ASSUME NEW o \in Versions(Statuses)
  PROVE  /\ reconcile(o) \in Calls \cup {"idle"}
         /\ NamesNetwork(WorkingOn(reconcile(o), o))
         /\ WorkingOn(reconcile(o), o) \in Workers(Statuses, Calls)
<1>1. reconcile(o) \in Calls \cup {"idle"}
  BY DEF reconcile, reconcileDelete, Calls
<1>2. NamesNetwork(WorkingOn(reconcile(o), o))
  BY DEF reconcile, reconcileDelete, NamesNetwork, WorkingOn
<1>3. WorkingOn(reconcile(o), o) \in Workers(Statuses, Calls)
  BY <1>1 DEF WorkingOn, Workers, Versions
<1> QED BY <1>1, <1>2, <1>3

(* Return and SaveStatus change only the worker of m and its queue. *)
LEMMA ReturnType ==
  ASSUME NEW m \in Managers, NEW again \in BOOLEAN, TypeInv,
         Return(m, again, NoStatus)
  PROVE  /\ w' \in [Managers -> Workers(Statuses, Calls)]
         /\ queued' \in [Managers -> BOOLEAN]
         /\ Shape'
<1>1. w' \in [Managers -> Workers(Statuses, Calls)]
  BY IdleType DEF Return, TypeInv, TypeOK
<1>2. queued' \in [Managers -> BOOLEAN]
  BY DEF Return, TypeInv, TypeOK, KubeTypeOK
<1>3. Shape'
  BY IdleType DEF Return, TypeInv, TypeOK, Shape
<1> QED BY <1>1, <1>2, <1>3

LEMMA SaveStatusType ==
  ASSUME NEW m \in Managers, NEW st \in Statuses, TypeInv,
         SaveStatus(m, st, NoStatus)
  PROVE  /\ w' \in [Managers -> Workers(Statuses, Calls)]
         /\ queued' \in [Managers -> BOOLEAN]
         /\ Shape'
<1>1. CASE statusUnchanged(w[m].before, st)
  BY <1>1, ReturnType DEF SaveStatus
<1>2. CASE ~ statusUnchanged(w[m].before, st)
  <2>1. w' = [w EXCEPT ![m] = [w[m] EXCEPT !.pc = "write", !.st = st]]
    BY <1>2 DEF SaveStatus, TypeInv, TypeOK
  <2>2. [w[m] EXCEPT !.pc = "write", !.st = st] \in Workers(Statuses, Calls)
    BY DEF TypeInv, TypeOK, Workers, Calls
  <2>3. NamesNetwork([w[m] EXCEPT !.pc = "write", !.st = st])
    BY DEF TypeInv, TypeOK, Workers, NamesNetwork
  <2>4. queued' \in [Managers -> BOOLEAN]
    BY <1>2 DEF SaveStatus, TypeInv, TypeOK, KubeTypeOK
  <2> QED BY <2>1, <2>2, <2>3, <2>4 DEF TypeInv, TypeOK, Shape
<1> QED BY <1>1, <1>2

-----------------------------------------------------------------------------
(* The API server's side: every accepted write is a version. *)

LEMMA PublishType ==
  ASSUME TypeInv, NEW v \in Versions(Statuses), Publish(v)
  PROVE  /\ api' \in Versions(Statuses)
         /\ watch' \in [Managers -> SUBSET Versions(Statuses)]
<1>1. api' \in Versions(Statuses)
  BY DEF Publish, Versions, TypeInv, TypeOK, KubeTypeOK
<1>2. watch' \in [Managers -> SUBSET Versions(Statuses)]
  BY <1>1 DEF Publish, TypeInv, TypeOK, KubeTypeOK
<1> QED BY <1>1, <1>2

LEMMA SpendType ==
  ASSUME TypeInv, NEW what \in {"edits", "faults", "outages"}, Spend(what)
  PROVE  left' \in [edits: Nat, faults: Nat, outages: Nat]
BY DEF Spend, TypeInv, TypeOK, KubeTypeOK

LEMMA UserType == ASSUME TypeInv, User PROVE TypeInv'
<1> USE DEF User
<1>0. api \in Versions(Statuses)
  BY DEF TypeInv, TypeOK, KubeTypeOK
<1>1. CASE \E s \in Specs : UserCreate(s, NoStatus)
  <2>1. PICK s \in Specs : UserCreate(s, NoStatus)
    BY <1>1
  <2> DEFINE v == [exists |-> TRUE, rv |-> 0, gen |-> 1, deleting |-> FALSE,
                   finalizer |-> FALSE, spec |-> s, status |-> NoStatus]
  <2>2. v \in Versions(Statuses) /\ Publish(v)
    BY <2>1, NoStatusType DEF UserCreate, Versions
  <2>3. left' \in [edits: Nat, faults: Nat, outages: Nat]
    BY <2>1, SpendType DEF UserCreate, TypeInv, TypeOK, KubeTypeOK
  <2> HIDE DEF v
  <2> QED BY <2>1, <2>2, <2>3, PublishType
          DEF UserCreate, TypeInv, TypeOK, KubeTypeOK, Shape
<1>2. CASE \E s \in Specs : s.existing = api.spec.existing /\ UserEdit(s)
  <2>1. PICK s \in Specs : UserEdit(s)
    BY <1>2
  <2> DEFINE v == [api EXCEPT !.spec = s,
                              !.gen = IF s = api.spec THEN @ ELSE @ + 1]
  <2>2. Publish(v)
    BY <2>1 DEF UserEdit
  <2>4. v \in Versions(Statuses)
    <3>1. (IF s = api.spec THEN api.gen ELSE api.gen + 1) \in Nat
      BY <1>0 DEF Versions
    <3> QED BY <3>1, <1>0 DEF Versions
  <2>3. left' \in [edits: Nat, faults: Nat, outages: Nat]
    BY <2>1, SpendType DEF UserEdit
  <2> HIDE DEF v
  <2> QED BY <2>1, <2>2, <2>3, <2>4, PublishType
          DEF UserEdit, TypeInv, TypeOK, KubeTypeOK, Shape
<1>3. CASE UserDelete
  <2> DEFINE v == IF api.finalizer
                    THEN [api EXCEPT !.deleting = TRUE, !.gen = @ + 1]
                    ELSE [api EXCEPT !.exists = FALSE]
  <2>1. Publish(v)
    BY <1>3 DEF UserDelete
  <2>2. v \in Versions(Statuses)
    <3>0. api.gen + 1 \in Nat
      BY <1>0 DEF Versions
    <3>1. [api EXCEPT !.deleting = TRUE, !.gen = @ + 1] \in Versions(Statuses)
      BY <1>0, <3>0 DEF Versions
    <3>2. [api EXCEPT !.exists = FALSE] \in Versions(Statuses)
      BY <1>0 DEF Versions
    <3> QED BY <3>1, <3>2
  <2> HIDE DEF v
  <2> QED BY <1>3, <2>1, <2>2, PublishType
          DEF UserDelete, TypeInv, TypeOK, KubeTypeOK, Shape
<1> QED BY <1>1, <1>2, <1>3

LEMMA InformerType ==
  ASSUME TypeInv, NEW m \in Managers, Informer(m) PROVE TypeInv'
<1>1. CASE Sync(m)
  BY <1>1 DEF Sync, Informer, TypeInv, TypeOK, KubeTypeOK, Shape
<1>2. CASE Resync(m)
  BY <1>2 DEF Resync, Informer, TypeInv, TypeOK, KubeTypeOK, Shape
<1> QED BY <1>1, <1>2 DEF Informer

(* The writes to the API server that end a reconcile. *)
LEMMA WriteType ==
  ASSUME TypeInv, NEW m \in Managers,
         AddFinalizer(m) \/ DropFinalizer(m) \/ WriteBack(m)
  PROVE  TypeInv'
<1> DEFINE o == w[m].obj
<1>0. /\ o \in Versions(Statuses)
      /\ w[m].st \in Statuses
  BY DEF TypeInv, TypeOK, Workers
<1>1. CASE AddFinalizer(m)
  <2>1. [o EXCEPT !.finalizer = TRUE] \in Versions(Statuses)
    BY <1>0 DEF Versions
  <2>2. /\ api' \in Versions(Statuses)
        /\ watch' \in [Managers -> SUBSET Versions(Statuses)]
    BY <1>1, <2>1, PublishType
       DEF AddFinalizer, ensureFinalizer, WriteFinalizer, TypeInv, TypeOK, KubeTypeOK
  <2> QED BY <1>1, <2>2, ReturnType
          DEF AddFinalizer, ensureFinalizer, TypeInv, TypeOK, KubeTypeOK
<1>2. CASE DropFinalizer(m)
  <2>1. [o EXCEPT !.finalizer = FALSE, !.exists = ~ o.deleting] \in Versions(Statuses)
    BY <1>0 DEF Versions
  <2>2. /\ api' \in Versions(Statuses)
        /\ watch' \in [Managers -> SUBSET Versions(Statuses)]
    BY <1>2, <2>1, PublishType
       DEF DropFinalizer, removeFinalizerAndUpdate, WriteNoFinalizer, TypeInv, TypeOK, KubeTypeOK
  <2>3. Return(m, TRUE, NoStatus) \/ Return(m, FALSE, NoStatus)
    BY <1>2 DEF DropFinalizer, removeFinalizerAndUpdate
  <2> QED BY <1>2, <2>2, <2>3, ReturnType
          DEF DropFinalizer, removeFinalizerAndUpdate, TypeInv, TypeOK, KubeTypeOK
<1>3. CASE WriteBack(m)
  <2>1. [o EXCEPT !.status = w[m].st] \in Versions(Statuses)
    BY <1>0 DEF Versions
  <2>2. /\ api' \in Versions(Statuses)
        /\ watch' \in [Managers -> SUBSET Versions(Statuses)]
    BY <1>3, <2>1, PublishType
       DEF WriteBack, StatusUpdate, WriteStatus, TypeInv, TypeOK, KubeTypeOK
  <2>3. Return(m, TRUE, NoStatus)
    BY <1>3 DEF WriteBack, StatusUpdate
  <2> QED BY <1>3, <2>2, <2>3, ReturnType
          DEF WriteBack, StatusUpdate, TypeInv, TypeOK, KubeTypeOK
<1> QED BY <1>1, <1>2, <1>3

(* The parts of a worker's copy. *)
LEMMA CopyType ==
  ASSUME TypeInv, NEW m \in Managers
  PROVE  /\ w[m] \in Workers(Statuses, Calls)
         /\ w[m].obj \in Versions(Statuses)
         /\ w[m].obj.status \in Statuses
         /\ w[m].st \in Statuses
         /\ w[m].obj.status.id \in Ids \cup {Foreign, NoId}
         /\ w[m].obj.spec.existing \in {NoId, Foreign}
         /\ w[m].obj.spec.want \in Settings
         /\ payload[m] \in Payloads
<1> DEFINE o == w[m].obj
<1>1. w[m] \in Workers(Statuses, Calls)
  BY DEF TypeInv, TypeOK
<1>2. o \in Versions(Statuses) /\ w[m].st \in Statuses
  BY <1>1 DEF Workers
<1>3. o.status \in Statuses /\ o.spec \in Specs
  BY <1>2 DEF Versions
<1>4. o.status.id \in Ids \cup {Foreign, NoId}
  BY <1>3 DEF Statuses
<1>5. /\ o.spec.existing \in {NoId, Foreign}
      /\ o.spec.want \in Settings
  BY <1>3, NetworkAssumption DEF NetworkSpec
<1>6. payload[m] \in Payloads
  BY DEF TypeInv, TypeOK
<1> QED BY <1>1, <1>2, <1>3, <1>4, <1>5, <1>6

(* The calls that only read: the status they lead to is well typed. *)
LEMMA ReadType ==
  ASSUME TypeInv, NEW m \in Managers,
         \/ Reconcile(m) \/ AdoptGet(m) \/ Recheck(m)
         \/ ObserveMissing(m) \/ ObserveNetwork(m) \/ ObserveDrift(m) \/ DeleteGet(m)
  PROVE  TypeInv'
<1> DEFINE o == w[m].obj
           i == o.status.id
<1>0. /\ o \in Versions(Statuses)
      /\ o.status \in Statuses
      /\ w[m] \in Workers(Statuses, Calls)
      /\ i \in Ids \cup {Foreign, NoId}
      /\ o.spec.existing \in {NoId, Foreign}
  BY CopyType
<1>a. i # NoId /\ ~ IsNotFound(i) => cloud[i] \in Networks /\ cloud[i].state \notin Absent
  BY <1>0 DEF TypeInv, TypeOK, IsNotFound
<1> USE DEF Reasons
<1>1. CASE Reconcile(m)
  <2>1. cache[m] \in Versions(Statuses)
    BY DEF TypeInv, TypeOK, KubeTypeOK
  <2>2. PICK x : /\ w' = [w EXCEPT ![m] = x]
                 /\ x \in Workers(Statuses, Calls)
                 /\ NamesNetwork(x)
    BY <1>1, <2>1, ReconcileType, IdleType DEF Reconcile
  <2> QED BY <1>1, <2>2 DEF Reconcile, TypeInv, TypeOK, KubeTypeOK, Shape
<1>2. CASE AdoptGet(m)
  <2> DEFINE e == o.spec.existing
  <2>1. e = Foreign
    BY <1>0, <1>2 DEF AdoptGet, TypeInv, Shape, NamesNetwork, Adopted, isAdopted
  <2>2. ~ IsNotFound(e) => cloud[e] \in Networks /\ cloud[e].state \notin Absent
    BY <2>1 DEF TypeInv, TypeOK, IsNotFound
  <2>3. PICK st \in Statuses : SaveStatus(m, st, NoStatus)
    <3>1. setReadyCondition(o, o.status, "NotFound") \in Statuses
      BY <1>0, ConditionType
    <3>2. ~ IsNotFound(e) =>
            applyNetworkStatus(o, [o.status EXCEPT !.id = e], cloud[e]) \in Statuses
      BY <1>0, <2>1, <2>2, ApplyType, IdType
    <3> QED BY <1>2, <3>1, <3>2 DEF AdoptGet
  <2> QED BY <1>2, <2>3, SaveStatusType DEF AdoptGet, TypeInv, TypeOK, KubeTypeOK
<1>3. CASE Recheck(m)
  <2>1. CASE api.exists /\ api.status.id = NoId
    <3> DEFINE x == [pc |-> "create", obj |-> api, st |-> api.status,
                     before |-> w[m].before]
    <3>1. w' = [w EXCEPT ![m] = x] /\ UNCHANGED queued
      BY <1>3, <2>1 DEF Recheck, idAlreadyPresent, TypeInv, TypeOK
    <3>2. x \in Workers(Statuses, Calls) /\ NamesNetwork(x)
      BY <1>0 DEF TypeInv, TypeOK, KubeTypeOK, Workers, Versions, Calls, NamesNetwork
    <3> HIDE DEF x
    <3> QED BY <1>3, <3>1, <3>2
            DEF Recheck, idAlreadyPresent, TypeInv, TypeOK, KubeTypeOK, Shape
  <2>2. CASE ~ (api.exists /\ api.status.id = NoId)
    BY <1>3, <2>2, ReturnType
       DEF Recheck, idAlreadyPresent, TypeInv, TypeOK, KubeTypeOK
  <2> QED BY <2>1, <2>2
<1>4. CASE ObserveMissing(m)
  <2>1. NotFoundStatus(o) \in Statuses
    BY <1>0, ConditionType, IdType DEF NotFoundStatus
  <2> QED BY <1>4, <2>1, SaveStatusType
          DEF ObserveMissing, TypeInv, TypeOK, KubeTypeOK
<1>5. CASE ObserveNetwork(m)
  <2>1. cloud[i] \in Networks /\ cloud[i].state \notin Absent
    BY <1>5, <1>a DEF ObserveNetwork, TypeInv, Shape, NamesNetwork
  <2>2. setReadyCondition(o, applyNetworkStatus(o, o.status, cloud[i]),
                          ObservedReason(cloud[i].state)) \in Statuses
    BY <1>0, <2>1, ApplyType, ConditionType, ReasonType
  <2> QED BY <1>5, <2>2, SaveStatusType
          DEF ObserveNetwork, TypeInv, TypeOK, KubeTypeOK
<1>6. CASE ObserveDrift(m)
  <2> DEFINE x == [w[m] EXCEPT !.pc = "update"]
  <2>1. payload' \in [Managers -> Payloads]
    BY <1>0, <1>6, PayloadType DEF ObserveDrift, TypeInv, TypeOK
  <2>2. x \in Workers(Statuses, Calls)
    BY <1>0 DEF Workers, Calls
  <2>3. NamesNetwork(x)
    BY <1>0, <1>6 DEF ObserveDrift, TypeInv, Shape, NamesNetwork, Workers
  <2>4. w' = [w EXCEPT ![m] = x]
    BY <1>6 DEF ObserveDrift, TypeInv, TypeOK
  <2> HIDE DEF x
  <2> QED BY <1>6, <2>1, <2>2, <2>3, <2>4
          DEF ObserveDrift, TypeInv, TypeOK, KubeTypeOK, Shape
<1>7. CASE DeleteGet(m)
  <2> DEFINE st == applyNetworkStatus(o, o.status, cloud[i])
  <2>0. i # NoId
    BY <1>7 DEF DeleteGet, TypeInv, Shape, NamesNetwork
  <2>1. CASE IsNotFound(i)
    <3> DEFINE x == [w[m] EXCEPT !.pc = "dropFinalizer"]
    <3>1. x \in Workers(Statuses, Calls) /\ NamesNetwork(x)
      BY <1>0 DEF Workers, Calls, NamesNetwork
    <3>2. w' = [w EXCEPT ![m] = x] /\ UNCHANGED queued
      BY <1>7, <2>1 DEF DeleteGet, TypeInv, TypeOK, IsNotFound, Absent
    <3> HIDE DEF x
    <3> QED BY <1>7, <3>1, <3>2
            DEF DeleteGet, TypeInv, TypeOK, KubeTypeOK, Shape
  <2>2. CASE ~ IsNotFound(i) /\ cloud[i].state # "DELETING"
    <3> DEFINE x == [w[m] EXCEPT !.pc = "delete", !.st = st]
    <3>1. st \in Statuses
      BY <1>0, <1>a, <2>0, <2>2, ApplyType
    <3>2. x \in Workers(Statuses, Calls) /\ NamesNetwork(x)
      BY <1>0, <2>0, <3>1 DEF Workers, Calls, NamesNetwork
    <3>3. w' = [w EXCEPT ![m] = x] /\ UNCHANGED queued
      BY <1>7, <2>2 DEF DeleteGet, TypeInv, TypeOK
    <3> HIDE DEF x
    <3> QED BY <1>7, <3>2, <3>3
            DEF DeleteGet, TypeInv, TypeOK, KubeTypeOK, Shape
  <2>3. CASE ~ IsNotFound(i) /\ cloud[i].state = "DELETING"
    <3>1. setReadyCondition(o, st, "Deleting") \in Statuses
      BY <1>0, <1>a, <2>0, <2>3, ApplyType, ConditionType
    <3>2. SaveStatus(m, setReadyCondition(o, st, "Deleting"), NoStatus)
      BY <1>7, <2>3 DEF DeleteGet
    <3> QED BY <1>7, <3>1, <3>2, SaveStatusType
            DEF DeleteGet, TypeInv, TypeOK, KubeTypeOK
  <2> QED BY <2>1, <2>2, <2>3
<1> QED BY <1>1, <1>2, <1>3, <1>4, <1>5, <1>6, <1>7

(* The calls that change a network. *)
LEMMA CreateNetworkType ==
  ASSUME TypeInv, NEW m \in Managers, NEW i \in Ids, CreateNetwork(i, w[m].obj)
  PROVE  /\ cloud' \in [Ids \cup {Foreign} -> Networks]
         /\ cloud'[i] \in Networks
         /\ cloud'[i].state \notin Absent
<1> DEFINE v == [cloud[i] EXCEPT !.state = "CREATING", !.has = w[m].obj.spec.want]
<1>0. cloud[i] \in Networks
  BY DEF TypeInv, TypeOK
<1>1. v \in Networks /\ v.state \notin Absent
  BY <1>0, CopyType DEF Networks, States, networkTransitionalStates, Absent
<1>2. cloud' = [cloud EXCEPT ![i] = v]
  BY DEF CreateNetwork, TypeInv, TypeOK
<1> HIDE DEF v
<1> QED BY <1>1, <1>2 DEF TypeInv, TypeOK

LEMMA CreateType ==
  ASSUME TypeInv, NEW m \in Managers,
         CreateSucceeds(m) \/ CreateFailed(m)
  PROVE  TypeInv'
<1> DEFINE o == w[m].obj
<1>0. o \in Versions(Statuses) /\ o.status \in Statuses
  BY CopyType
<1> USE DEF Reasons
<1>1. CASE CreateSucceeds(m)
  <2>1. PICK i \in Ids :
          /\ CreateNetwork(i, o)
          /\ SaveStatus(m, setReadyCondition(o,
               applyNetworkStatus(o, [o.status EXCEPT !.id = i], cloud'[i]),
               "Creating"), NoStatus)
    BY <1>1 DEF CreateSucceeds
  <2>2. /\ cloud' \in [Ids \cup {Foreign} -> Networks]
        /\ cloud'[i] \in Networks
        /\ cloud'[i].state \notin Absent
    BY <2>1, CreateNetworkType
  <2>3. setReadyCondition(o,
          applyNetworkStatus(o, [o.status EXCEPT !.id = i], cloud'[i]),
          "Creating") \in Statuses
    BY <1>0, <2>2, IdType, ApplyType, ConditionType
  <2> QED BY <1>1, <2>1, <2>2, <2>3, SaveStatusType
          DEF CreateSucceeds, TypeInv, TypeOK, KubeTypeOK
<1>2. CASE CreateFailed(m)
  <2>1. setReadyCondition(o, o.status, "CreateFailed") \in Statuses
    BY <1>0, ConditionType
  <2>2. cloud' \in [Ids \cup {Foreign} -> Networks]
    BY <1>2, CreateNetworkType DEF CreateFailed, TypeInv, TypeOK
  <2>3. left' \in [edits: Nat, faults: Nat, outages: Nat]
    BY <1>2, SpendType DEF CreateFailed, TypeInv, TypeOK, KubeTypeOK
  <2> QED BY <1>2, <2>1, <2>2, <2>3, SaveStatusType
          DEF CreateFailed, TypeInv, TypeOK, KubeTypeOK
<1> QED BY <1>1, <1>2

LEMMA ChangeType ==
  ASSUME TypeInv, NEW m \in Managers, UpdateNetwork(m) \/ DeleteNetwork(m)
  PROVE  TypeInv'
<1> DEFINE o == w[m].obj
           i == o.status.id
<1>0. /\ o \in Versions(Statuses)
      /\ w[m].st \in Statuses
      /\ payload[m] \in Payloads
  BY CopyType
<1>a. i \in Ids \cup {Foreign}
  BY CopyType DEF UpdateNetwork, DeleteNetwork, TypeInv, Shape, NamesNetwork
<1>b. cloud[i] \in Networks /\ cloud[i].has \in Settings
  BY <1>a DEF TypeInv, TypeOK, Networks
<1>1. CASE UpdateNetwork(m)
  <2> DEFINE has == Updated(cloud[i].has, payload[m])
             v == [cloud[i] EXCEPT !.state = "UPDATING", !.has = has]
  <2>0. has \in Settings
    BY <1>0, <1>b, UpdatedType
  <2>2. cloud' = cloud \/ cloud' = [cloud EXCEPT ![i] = v]
    BY <1>1, <1>a DEF UpdateNetwork, TypeInv, TypeOK
  <2> HIDE DEF has
  <2>1. v \in Networks
    BY <1>b, <2>0 DEF Networks, States, networkTransitionalStates
  <2> HIDE DEF v
  <2>3. cloud' \in [Ids \cup {Foreign} -> Networks]
    BY <1>a, <2>1, <2>2 DEF TypeInv, TypeOK
  <2>4. payload' \in [Managers -> Payloads]
    BY <1>1, NothingType DEF UpdateNetwork, TypeInv, TypeOK
  <2> QED BY <1>1, <2>3, <2>4, ReturnType DEF UpdateNetwork, TypeInv, TypeOK, KubeTypeOK
<1>2. CASE DeleteNetwork(m)
  <2> DEFINE v == [cloud[i] EXCEPT !.state = "DELETING"]
  <2>1. v \in Networks
    BY <1>b DEF Networks, States, networkTransitionalStates
  <2>2. cloud' = cloud \/ cloud' = [cloud EXCEPT ![i] = v]
    BY <1>2, <1>a DEF DeleteNetwork, TypeInv, TypeOK
  <2> HIDE DEF v
  <2>3. cloud' \in [Ids \cup {Foreign} -> Networks]
    BY <1>a, <2>1, <2>2 DEF TypeInv, TypeOK
  <2>4. setReadyCondition(o, w[m].st, "Deleting") \in Statuses
    BY <1>0, ConditionType DEF Reasons
  <2> QED BY <1>2, <2>3, <2>4, SaveStatusType
          DEF DeleteNetwork, TypeInv, TypeOK, KubeTypeOK
<1> QED BY <1>1, <1>2

LEMMA FaultType ==
  ASSUME TypeInv, NEW m \in Managers, Fail(m) \/ Crash(m) PROVE TypeInv'
<1>0. payload' \in [Managers -> Payloads]
  BY NothingType DEF Fail, Crash, TypeInv, TypeOK
<1>1. CASE Fail(m)
  BY <1>0, <1>1, SpendType, ReturnType DEF Fail, CallFails, TypeInv, TypeOK, KubeTypeOK
<1>2. CASE Crash(m)
  <2>1. api \in Versions(Statuses) /\ api.exists \in BOOLEAN
    BY DEF TypeInv, TypeOK, KubeTypeOK, Versions
  <2>2. left' \in [edits: Nat, faults: Nat, outages: Nat]
    BY <1>2, SpendType DEF Crash, Restart
  <2> QED BY <1>0, <1>2, <2>1, <2>2, IdleType
          DEF Crash, Restart, Relist, TypeInv, TypeOK, KubeTypeOK, Shape
<1> QED BY <1>1, <1>2

LEMMA StackitType ==
  ASSUME TypeInv, NEW i \in Ids \cup {Foreign},
         Settle(i) \/ Detach(i) \/ OutOfBand(i)
  PROVE  TypeInv'
<1>0. cloud[i] \in Networks
  BY DEF TypeInv, TypeOK
<1>1. PICK v \in Networks : cloud' = [cloud EXCEPT ![i] = v]
  <2>1. \A s \in States \cup Absent : [cloud[i] EXCEPT !.state = s] \in Networks
    BY <1>0 DEF Networks
  <2>2. \A b \in BOOLEAN : [cloud[i] EXCEPT !.used = b] \in Networks
    BY <1>0 DEF Networks
  <2>3. ASSUME NEW f \in Fields \cup Labels, NEW x \in FieldValues \cup {Unset}
        PROVE  [cloud[i] EXCEPT !.has[f] = x] \in Networks
    <3>1. [cloud[i].has EXCEPT ![f] = x] \in Settings
      BY <1>0 DEF Networks, Settings
    <3> QED BY <1>0, <3>1 DEF Networks
  <2>4. OutageStates \subseteq States \cup Absent
    BY NetworkAssumption DEF Absent
  <2>5. CASE Settle(i)
    <3>1. PICK s \in States \cup Absent : cloud' = [cloud EXCEPT ![i] = [@ EXCEPT !.state = s]]
      BY <1>0, <2>5 DEF Settle, States, Absent, TypeInv, TypeOK
    <3> QED BY <2>1, <3>1
  <2>6. CASE Detach(i)
    BY <2>2, <2>6 DEF Detach, TypeInv, TypeOK
  <2>7. CASE OutOfBand(i)
    BY <2>1, <2>2, <2>3, <2>4, <2>7 DEF OutOfBand, TypeInv, TypeOK
  <2> QED BY <2>5, <2>6, <2>7
<1>2. left' \in [edits: Nat, faults: Nat, outages: Nat]
  BY SpendType DEF Settle, Detach, OutOfBand, TypeInv, TypeOK, KubeTypeOK
<1>3. cloud' \in [Ids \cup {Foreign} -> Networks]
  BY <1>1 DEF TypeInv, TypeOK
<1> QED BY <1>2, <1>3 DEF Settle, Detach, OutOfBand, TypeInv, TypeOK, KubeTypeOK, Shape

-----------------------------------------------------------------------------
LEMMA InitType == Init => TypeInv
<1> SUFFICES ASSUME Init PROVE TypeInv
  OBVIOUS
<1>1. KubeTypeOK(Statuses)
  BY NoObjectType, BoundsAssumption DEF Init, KubeInit, KubeTypeOK
<1>2. w \in [Managers -> Workers(Statuses, Calls)] /\ Shape
  BY IdleType DEF Init, Shape
<1>3. cloud \in [Ids \cup {Foreign} -> Networks]
  BY DEF Init, Networks, Settings, States, Absent
<1>4. payload \in [Managers -> Payloads]
  BY NothingType DEF Init
<1> QED BY <1>1, <1>2, <1>3, <1>4 DEF TypeInv, TypeOK

LEMMA NextType == TypeInv /\ [Next]_vars => TypeInv'
<1> SUFFICES ASSUME TypeInv, [Next]_vars PROVE TypeInv'
  OBVIOUS
<1>1. CASE User
  BY <1>1, UserType
<1>2. ASSUME NEW m \in Managers, Informer(m) PROVE TypeInv'
  BY <1>2, InformerType
<1>3. ASSUME NEW m \in Managers, Reconcile(m) \/ Step(m) PROVE TypeInv'
  BY <1>3, WriteType, ReadType, CreateType, ChangeType DEF Step
<1>4. ASSUME NEW m \in Managers, CreateFailed(m) \/ Fail(m) \/ Crash(m)
      PROVE  TypeInv'
  BY <1>4, CreateType, FaultType
<1>5. ASSUME NEW i \in Ids \cup {Foreign}, Settle(i) \/ Detach(i) \/ OutOfBand(i)
      PROVE  TypeInv'
  BY <1>5, StackitType
<1>6. CASE UNCHANGED vars
  BY <1>6 DEF vars, TypeInv, TypeOK, KubeTypeOK, Shape
<1>7. Reachable \subseteq Ids \cup {Foreign}
  BY NetworkAssumption DEF Reachable, NetworkSpec
<1> QED BY <1>1, <1>2, <1>3, <1>4, <1>5, <1>6, <1>7 DEF Next

LEMMA TypeInvariant == Spec => []TypeInv
BY InitType, NextType, PTL DEF Spec

(* The state of the Network controller, its caches and its workers stays   *)
(* well typed; in particular no worker makes a call without an ID and no   *)
(* answer to a call on a missing network reaches .status.                  *)
THEOREM TypeCorrect == Spec => []TypeOK
<1>1. TypeInv => TypeOK
  BY DEF TypeInv
<1> QED BY <1>1, TypeInvariant, PTL

-----------------------------------------------------------------------------
(***************************************************************************)
(* An adopted network is only observed.  This needs no resourceVersions:   *)
(* whatever copy a worker acts on, however stale, tells adopted and owned  *)
(* objects apart.                                                          *)
(***************************************************************************)

(* The ID of the adopted network is only in objects that adopt it, and     *)
(* these have no finalizer.                                                *)
KnowsOwner(o) ==
  /\ o.status.id = Foreign => Adopted(o)
  /\ Adopted(o) => ~ o.finalizer

(* A worker changes the object or a network only for an owned one. *)
Careful(x) ==
  /\ KnowsOwner(x.obj)
  /\ x.st.id = Foreign => Adopted(x.obj)
  /\ x.pc \in {"addFinalizer", "update"} => ~ Adopted(x.obj)
  /\ x.pc \in {"delGet", "delete"} => x.obj.finalizer

AdoptInv ==
  /\ KnowsOwner(api)
  /\ \A m \in Managers :
       /\ KnowsOwner(cache[m])
       /\ \A v \in watch[m] : KnowsOwner(v)
       /\ Careful(w[m])

-----------------------------------------------------------------------------
LEMMA ForeignDiffers == Foreign # NoId /\ Foreign \notin Ids
BY NetworkAssumption

LEMMA IdleCareful == Careful(Idle(NoStatus))
BY ForeignDiffers DEF Careful, KnowsOwner, Idle, NoObject, NoStatus

(* A step preserves AdoptInv if the object it writes and the worker it     *)
(* changes satisfy it.                                                     *)
LEMMA StaysCareful ==
  ASSUME TypeInv, AdoptInv, KnowsOwner(api'),
         \A m \in Managers : cache'[m] \in {cache[m], api} \cup watch[m],
         \A m \in Managers : watch'[m] \subseteq watch[m] \cup {api'},
         \A m \in Managers : w'[m] = w[m] \/ Careful(w'[m])
  PROVE  AdoptInv'
<1>1. ASSUME NEW m \in Managers
      PROVE  /\ KnowsOwner(cache'[m])
             /\ \A v \in watch'[m] : KnowsOwner(v)
             /\ Careful(w'[m])
  BY DEF AdoptInv
<1> QED BY <1>1 DEF AdoptInv, KnowsOwner, Careful, Adopted

LEMMA OnlyWorker ==
  ASSUME TypeInv, AdoptInv, NEW m \in Managers,
         UNCHANGED <<api, cache, watch>>,
         \A n \in Managers \ {m} : w'[n] = w[n],
         Careful(w'[m])
  PROVE  AdoptInv'
<1>1. KnowsOwner(api')
  BY DEF AdoptInv
<1> QED BY <1>1, StaysCareful

LEMMA SaveCareful ==
  ASSUME TypeInv, AdoptInv, NEW m \in Managers, NEW st,
         SaveStatus(m, st, NoStatus), st.id = Foreign => Adopted(w[m].obj)
  PROVE  Careful(w'[m])
<1>0. w \in [Managers -> Workers(Statuses, Calls)] /\ w[m] \in Workers(Statuses, Calls)
  BY DEF TypeInv, TypeOK
<1>1. CASE statusUnchanged(w[m].before, st)
  BY <1>0, <1>1, IdleCareful DEF SaveStatus, Return
<1>2. CASE ~ statusUnchanged(w[m].before, st)
  <2>1. /\ w'[m].pc = "write"
        /\ w'[m].st = st
        /\ w'[m].obj = w[m].obj
    BY <1>0, <1>2 DEF SaveStatus, Workers
  <2> QED BY <2>1 DEF AdoptInv, Careful
<1> QED BY <1>1, <1>2

-----------------------------------------------------------------------------
(* Users do not change existingId, and create objects without a finalizer. *)
LEMMA UserCareful ==
  ASSUME TypeInv, AdoptInv, User PROVE AdoptInv'
<1>0. api \in Versions(Statuses)
  BY DEF TypeInv, TypeOK, KubeTypeOK
<1>1. UNCHANGED <<w, cloud, cache>>
  BY DEF User, UserCreate, UserEdit, UserDelete
<1>2. watch' = [m \in Managers |-> watch[m] \cup {api'}]
  BY DEF User, UserCreate, UserEdit, UserDelete, Publish
<1>3. KnowsOwner(api')
  <2>1. ASSUME NEW s \in Specs, UserCreate(s, NoStatus) PROVE KnowsOwner(api')
    <3>1. api'.status.id = NoId /\ ~ api'.finalizer
      BY <2>1 DEF UserCreate, Publish, NoStatus
    <3> QED BY <3>1, ForeignDiffers DEF KnowsOwner
  <2>2. ASSUME NEW s \in Specs, s.existing = api.spec.existing, UserEdit(s)
        PROVE  KnowsOwner(api')
    <3>1. /\ api'.status = api.status
          /\ api'.finalizer = api.finalizer
          /\ api'.spec.existing = api.spec.existing
      BY <1>0, <2>2 DEF UserEdit, Publish, Versions
    <3> QED BY <3>1 DEF KnowsOwner, Adopted, AdoptInv
  <2>3. CASE UserDelete
    <3>1. /\ api'.status = api.status
          /\ api'.finalizer = api.finalizer
          /\ api'.spec = api.spec
      BY <1>0, <2>3 DEF UserDelete, Publish, Versions
    <3> QED BY <3>1 DEF KnowsOwner, Adopted, AdoptInv
  <2> QED BY <2>1, <2>2, <2>3 DEF User
<1> QED BY <1>1, <1>2, <1>3, StaysCareful

LEMMA InformerCareful ==
  ASSUME TypeInv, AdoptInv, NEW m \in Managers, Informer(m) PROVE AdoptInv'
<1>1. UNCHANGED <<w, api>>
  BY DEF Informer, Sync, Resync
<1>2. \A n \in Managers : cache'[n] \in {cache[n], api} \cup watch[n]
  BY DEF Informer, Sync, Resync, TypeInv, TypeOK, KubeTypeOK
<1>3. \A n \in Managers : watch'[n] \subseteq watch[n] \cup {api'}
  BY DEF Informer, Sync, Resync, TypeInv, TypeOK, KubeTypeOK
<1>4. KnowsOwner(api')
  BY <1>1 DEF AdoptInv
<1> QED BY <1>1, <1>2, <1>3, <1>4, StaysCareful

LEMMA WriteCareful ==
  ASSUME TypeInv, AdoptInv, NEW m \in Managers,
         AddFinalizer(m) \/ DropFinalizer(m) \/ WriteBack(m)
  PROVE  AdoptInv'
<1> DEFINE o == w[m].obj
<1>0. /\ o \in Versions(Statuses)
      /\ w \in [Managers -> Workers(Statuses, Calls)]
      /\ Careful(w[m])
      /\ KnowsOwner(api)
  BY CopyType DEF TypeInv, TypeOK, AdoptInv
<1>1. UNCHANGED cache
  BY DEF AddFinalizer, DropFinalizer, WriteBack, ensureFinalizer,
         removeFinalizerAndUpdate, StatusUpdate
<1>2. w' = [w EXCEPT ![m] = Idle(NoStatus)]
  BY DEF AddFinalizer, DropFinalizer, WriteBack, ensureFinalizer,
         removeFinalizerAndUpdate, StatusUpdate, Return
<1>3. \A n \in Managers : w'[n] = w[n] \/ Careful(w'[n])
  BY <1>0, <1>2, IdleCareful
<1>4. /\ watch' = watch \/ watch' = [n \in Managers |-> watch[n] \cup {api'}]
      /\ KnowsOwner(api')
  <2>1. CASE UNCHANGED <<api, watch>>
    BY <1>0, <2>1
  <2>2. CASE AddFinalizer(m) /\ UpToDate(o)
    <3>1. /\ api'.status = o.status
          /\ api'.spec = o.spec
          /\ watch' = [n \in Managers |-> watch[n] \cup {api'}]
          /\ w[m].pc = "addFinalizer"
      BY <1>0, <2>2 DEF AddFinalizer, ensureFinalizer, WriteFinalizer, Publish, Versions
    <3> QED BY <1>0, <3>1 DEF Careful, KnowsOwner, Adopted
  <2>3. CASE DropFinalizer(m) /\ UpToDate(o)
    <3>1. /\ api'.status = o.status
          /\ api'.spec = o.spec
          /\ ~ api'.finalizer
          /\ watch' = [n \in Managers |-> watch[n] \cup {api'}]
      BY <1>0, <2>3
         DEF DropFinalizer, removeFinalizerAndUpdate, WriteNoFinalizer, Publish, Versions
    <3> QED BY <1>0, <3>1 DEF Careful, KnowsOwner, Adopted
  <2>4. CASE WriteBack(m) /\ UpToDate(o) /\ w[m].st # o.status
    <3>1. /\ api'.status = w[m].st
          /\ api'.spec = o.spec
          /\ api'.finalizer = o.finalizer
          /\ watch' = [n \in Managers |-> watch[n] \cup {api'}]
      BY <1>0, <2>4 DEF WriteBack, StatusUpdate, WriteStatus, Publish, Versions
    <3> QED BY <1>0, <3>1 DEF Careful, KnowsOwner, Adopted
  <2> QED BY <2>1, <2>2, <2>3, <2>4
          DEF AddFinalizer, DropFinalizer, WriteBack, ensureFinalizer,
              removeFinalizerAndUpdate, StatusUpdate, WriteStatus
<1> QED BY <1>1, <1>3, <1>4, StaysCareful

LEMMA ReadCareful ==
  ASSUME TypeInv, AdoptInv, NEW m \in Managers,
         \/ Reconcile(m) \/ AdoptGet(m) \/ Recheck(m)
         \/ ObserveMissing(m) \/ ObserveNetwork(m) \/ ObserveDrift(m) \/ DeleteGet(m)
  PROVE  AdoptInv'
<1> DEFINE o == w[m].obj
           i == o.status.id
<1>0. /\ w \in [Managers -> Workers(Statuses, Calls)]
      /\ w[m] \in Workers(Statuses, Calls)
      /\ o \in Versions(Statuses)
      /\ o.status \in Statuses
      /\ Careful(w[m])
  BY CopyType DEF TypeInv, TypeOK, AdoptInv
<1>a. UNCHANGED <<api, cache, watch>>
  BY DEF Reconcile, AdoptGet, Recheck, idAlreadyPresent, ObserveMissing,
         ObserveNetwork, ObserveDrift, DeleteGet
<1>b. \A n \in Managers \ {m} : w'[n] = w[n]
  BY <1>0 DEF Reconcile, AdoptGet, Recheck, idAlreadyPresent, ObserveMissing,
              ObserveNetwork, ObserveDrift, DeleteGet, SaveStatus, Return
<1> SUFFICES Careful(w'[m])
  BY <1>a, <1>b, OnlyWorker
<1>1. CASE Reconcile(m)
  <2> DEFINE c == cache[m]
             x == WorkingOn(reconcile(c), c)
  <2>1. Careful(x)
    BY DEF AdoptInv, Careful, KnowsOwner, WorkingOn, reconcile, reconcileDelete
  <2>2. w'[m] = x \/ w'[m] = Idle(NoStatus)
    BY <1>0, <1>1 DEF Reconcile
  <2> QED BY <2>1, <2>2, IdleCareful
<1>2. CASE AdoptGet(m)
  <2>1. Adopted(o)
    BY <1>2 DEF AdoptGet, TypeInv, Shape, NamesNetwork
  <2> QED BY <1>2, <2>1, SaveCareful DEF AdoptGet
<1>3. CASE Recheck(m)
  <2>1. CASE api.exists /\ api.status.id = NoId
    <3>1. w'[m] = [pc |-> "create", obj |-> api, st |-> api.status,
                   before |-> w[m].before]
      BY <1>0, <1>3, <2>1 DEF Recheck, idAlreadyPresent
    <3> QED BY <3>1 DEF AdoptInv, Careful, KnowsOwner
  <2>2. CASE ~ (api.exists /\ api.status.id = NoId)
    BY <1>0, <1>3, <2>2, IdleCareful DEF Recheck, idAlreadyPresent, Return
  <2> QED BY <2>1, <2>2
<1>4. CASE ObserveMissing(m)
  <2>1. NotFoundStatus(o).id \in {i, NoId}
    BY <1>0 DEF NotFoundStatus, setReadyCondition, Statuses
  <2>2. NotFoundStatus(o).id = Foreign => Adopted(o)
    BY <1>0, <2>1, ForeignDiffers DEF Careful, KnowsOwner
  <2>3. SaveStatus(m, NotFoundStatus(o), NoStatus)
    BY <1>4 DEF ObserveMissing
  <2> QED BY <2>2, <2>3, SaveCareful
<1>5. CASE ObserveNetwork(m)
  <2> DEFINE st == setReadyCondition(o, applyNetworkStatus(o, o.status, cloud[i]),
                                     ObservedReason(cloud[i].state))
  <2>1. st.id = i
    BY <1>0 DEF setReadyCondition, applyNetworkStatus, Statuses
  <2>2. SaveStatus(m, st, NoStatus)
    BY <1>5 DEF ObserveNetwork
  <2> HIDE DEF st
  <2>3. st.id = Foreign => Adopted(o)
    BY <1>0, <2>1 DEF Careful, KnowsOwner
  <2> QED BY <2>2, <2>3, SaveCareful
<1>6. CASE ObserveDrift(m)
  <2>1. ~ Adopted(o)
    BY <1>6 DEF ObserveDrift, MustNotCorrect
  <2>2. /\ w'[m].obj = o
        /\ w'[m].st = w[m].st
        /\ w'[m].pc = "update"
    BY <1>0, <1>6 DEF ObserveDrift, Workers
  <2> QED BY <1>0, <2>1, <2>2 DEF Careful
<1>7. CASE DeleteGet(m)
  <2> DEFINE st == applyNetworkStatus(o, o.status, cloud[i])
  <2>1. st.id = i /\ setReadyCondition(o, st, "Deleting").id = i
    BY <1>0 DEF setReadyCondition, applyNetworkStatus, Statuses
  <2>2. (i = Foreign => Adopted(o)) /\ o.finalizer
    BY <1>0, <1>7 DEF Careful, KnowsOwner, DeleteGet
  <2>3. \/ w'[m] = [w[m] EXCEPT !.pc = "dropFinalizer"]
        \/ w'[m] = [w[m] EXCEPT !.pc = "delete", !.st = st]
        \/ SaveStatus(m, setReadyCondition(o, st, "Deleting"), NoStatus)
    BY <1>0, <1>7 DEF DeleteGet
  <2> HIDE DEF st
  <2>4. CASE w'[m] = [w[m] EXCEPT !.pc = "dropFinalizer"]
    <3>1. w'[m].obj = o /\ w'[m].st = w[m].st /\ w'[m].pc = "dropFinalizer"
      BY <1>0, <2>4 DEF Workers
    <3> QED BY <1>0, <3>1 DEF Careful
  <2>5. CASE w'[m] = [w[m] EXCEPT !.pc = "delete", !.st = st]
    <3>1. w'[m].obj = o /\ w'[m].st = st /\ w'[m].pc = "delete"
      BY <1>0, <2>5 DEF Workers
    <3> QED BY <1>0, <2>1, <2>2, <3>1 DEF Careful
  <2>6. CASE SaveStatus(m, setReadyCondition(o, st, "Deleting"), NoStatus)
    BY <2>1, <2>2, <2>6, SaveCareful
  <2> QED BY <2>3, <2>4, <2>5, <2>6
<1> QED BY <1>1, <1>2, <1>3, <1>4, <1>5, <1>6, <1>7

LEMMA CreateCareful ==
  ASSUME TypeInv, AdoptInv, NEW m \in Managers,
         CreateSucceeds(m) \/ CreateFailed(m)
  PROVE  AdoptInv'
<1> DEFINE o == w[m].obj
<1>0. /\ w \in [Managers -> Workers(Statuses, Calls)]
      /\ o.status \in Statuses
      /\ Careful(w[m])
  BY CopyType DEF TypeInv, TypeOK, AdoptInv
<1>a. UNCHANGED <<api, cache, watch>>
  BY DEF CreateSucceeds, CreateFailed
<1>b. \A n \in Managers \ {m} : w'[n] = w[n]
  BY <1>0 DEF CreateSucceeds, CreateFailed, SaveStatus, Return
<1> SUFFICES Careful(w'[m])
  BY <1>a, <1>b, OnlyWorker
<1>1. CASE CreateSucceeds(m)
  <2>1. PICK i \in Ids :
          SaveStatus(m, setReadyCondition(o,
            applyNetworkStatus(o, [o.status EXCEPT !.id = i], cloud'[i]),
            "Creating"), NoStatus)
    BY <1>1 DEF CreateSucceeds
  <2> DEFINE st == setReadyCondition(o,
                     applyNetworkStatus(o, [o.status EXCEPT !.id = i], cloud'[i]),
                     "Creating")
  <2>2. st.id = i
    BY <1>0 DEF setReadyCondition, applyNetworkStatus, Statuses
  <2> HIDE DEF st
  <2> QED BY <2>1, <2>2, ForeignDiffers, SaveCareful DEF st
<1>2. CASE CreateFailed(m)
  <2> DEFINE st == setReadyCondition(o, o.status, "CreateFailed")
  <2>1. st.id = o.status.id
    BY <1>0 DEF setReadyCondition, Statuses
  <2>2. SaveStatus(m, st, NoStatus)
    BY <1>2 DEF CreateFailed
  <2> HIDE DEF st
  <2> QED BY <1>0, <2>1, <2>2, SaveCareful DEF Careful, KnowsOwner
<1> QED BY <1>1, <1>2

LEMMA ChangeCareful ==
  ASSUME TypeInv, AdoptInv, NEW m \in Managers,
         UpdateNetwork(m) \/ DeleteNetwork(m)
  PROVE  AdoptInv'
<1> DEFINE o == w[m].obj
<1>0. /\ w \in [Managers -> Workers(Statuses, Calls)]
      /\ w[m].st \in Statuses
      /\ Careful(w[m])
  BY CopyType DEF TypeInv, TypeOK, AdoptInv
<1>a. UNCHANGED <<api, cache, watch>>
  BY DEF UpdateNetwork, DeleteNetwork
<1>b. \A n \in Managers \ {m} : w'[n] = w[n]
  BY <1>0 DEF UpdateNetwork, DeleteNetwork, SaveStatus, Return
<1> SUFFICES Careful(w'[m])
  BY <1>a, <1>b, OnlyWorker
<1>1. CASE UpdateNetwork(m)
  BY <1>0, <1>1, IdleCareful DEF UpdateNetwork, Return
<1>2. CASE DeleteNetwork(m)
  <2> DEFINE st == setReadyCondition(o, w[m].st, "Deleting")
  <2>1. st.id = w[m].st.id
    BY <1>0 DEF setReadyCondition, Statuses
  <2>2. SaveStatus(m, st, NoStatus)
    BY <1>2 DEF DeleteNetwork
  <2> HIDE DEF st
  <2> QED BY <1>0, <2>1, <2>2, SaveCareful DEF Careful
<1> QED BY <1>1, <1>2

LEMMA FaultCareful ==
  ASSUME TypeInv, AdoptInv, NEW m \in Managers, Fail(m) \/ Crash(m)
  PROVE  AdoptInv'
<1>0. /\ w \in [Managers -> Workers(Statuses, Calls)]
      /\ cache \in [Managers -> Versions(Statuses)]
      /\ watch \in [Managers -> SUBSET Versions(Statuses)]
  BY DEF TypeInv, TypeOK, KubeTypeOK
<1>1. UNCHANGED api /\ w' = [w EXCEPT ![m] = Idle(NoStatus)]
  BY DEF Fail, CallFails, Return, Crash, Restart, Relist
<1>2. \A n \in Managers : cache'[n] \in {cache[n], api} \cup watch[n]
  BY <1>0 DEF Fail, CallFails, Crash, Restart, Relist
<1>3. \A n \in Managers : watch'[n] \subseteq watch[n] \cup {api'}
  BY <1>0 DEF Fail, CallFails, Crash, Restart, Relist
<1>4. \A n \in Managers : w'[n] = w[n] \/ Careful(w'[n])
  BY <1>0, <1>1, IdleCareful
<1>5. KnowsOwner(api')
  BY <1>1 DEF AdoptInv
<1> QED BY <1>2, <1>3, <1>4, <1>5, StaysCareful

-----------------------------------------------------------------------------
LEMMA InitCareful == Init => AdoptInv
<1>1. KnowsOwner(NoObject(NoStatus))
  BY IdleCareful DEF Careful, Idle
<1> QED BY <1>1, IdleCareful DEF Init, KubeInit, AdoptInv

LEMMA NextCareful == TypeInv /\ AdoptInv /\ [Next]_vars => AdoptInv'
<1> SUFFICES ASSUME TypeInv, AdoptInv, [Next]_vars PROVE AdoptInv'
  OBVIOUS
<1>1. CASE User
  BY <1>1, UserCareful
<1>2. ASSUME NEW m \in Managers, Informer(m) PROVE AdoptInv'
  BY <1>2, InformerCareful
<1>3. ASSUME NEW m \in Managers, Reconcile(m) \/ Step(m) PROVE AdoptInv'
  BY <1>3, WriteCareful, ReadCareful, CreateCareful, ChangeCareful DEF Step
<1>4. ASSUME NEW m \in Managers, CreateFailed(m) \/ Fail(m) \/ Crash(m)
      PROVE  AdoptInv'
  BY <1>4, CreateCareful, FaultCareful
<1>5. CASE UNCHANGED <<api, cache, watch, w>>
  BY <1>5 DEF AdoptInv, Careful, KnowsOwner, Adopted
<1> QED BY <1>1, <1>2, <1>3, <1>4, <1>5 DEF Next, vars, Settle, Detach, OutOfBand

(* Only a third party changes the adopted network. *)
LEMMA ForeignChange ==
  ASSUME TypeInv, AdoptInv, [Next]_vars, cloud'[Foreign] # cloud[Foreign]
  PROVE  left'.outages < left.outages
<1> DEFINE OK == left'.outages < left.outages
<1>0. /\ cloud \in [Ids \cup {Foreign} -> Networks]
      /\ left \in [edits: Nat, faults: Nat, outages: Nat]
  BY DEF TypeInv, TypeOK, KubeTypeOK
<1>a. cloud' # cloud
  OBVIOUS
<1>1. ASSUME NEW m \in Managers, NEW j \in Ids, CreateNetwork(j, w[m].obj) PROVE FALSE
  BY <1>0, <1>1, ForeignDiffers DEF CreateNetwork
<1>2. ASSUME NEW m \in Managers,
             UpdateNetwork(m) \/ DeleteNetwork(m)
      PROVE  FALSE
  <2> DEFINE i == w[m].obj.status.id
  <2>1. i = Foreign
    BY <1>0, <1>2 DEF UpdateNetwork, DeleteNetwork
  <2> QED BY <1>2, <2>1
          DEF UpdateNetwork, DeleteNetwork, AdoptInv, Careful, KnowsOwner
<1>3. ASSUME NEW j \in Ids, Settle(j) PROVE FALSE
  BY <1>0, <1>3, ForeignDiffers DEF Settle
<1>4. ASSUME NEW j, OutOfBand(j) PROVE OK
  BY <1>0, <1>4 DEF OutOfBand, Spend
<1>5. CASE User
  BY <1>5, <1>a DEF User
<1>6. ASSUME NEW m \in Managers,
             \/ Informer(m) \/ Reconcile(m) \/ Step(m)
             \/ CreateFailed(m) \/ Fail(m) \/ Crash(m)
      PROVE FALSE
  BY <1>6, <1>a, <1>1, <1>2
     DEF Informer, Reconcile, Step, AddFinalizer, DropFinalizer, AdoptGet,
         Recheck, CreateSucceeds, CreateFailed,
         ObserveMissing, ObserveNetwork, ObserveDrift, DeleteGet,
         WriteBack, Fail, Crash
<1>7. ASSUME NEW j \in Ids, Detach(j) PROVE FALSE
  BY <1>0, <1>7, ForeignDiffers DEF Detach
<1> QED BY <1>a, <1>3, <1>4, <1>5, <1>6, <1>7 DEF Next, vars

(* For any number of managers and however stale their caches: an adopted   *)
(* network is changed by third parties only, and an object with existingId *)
(* never carries the finalizer.                                            *)
THEOREM AdoptedOnlyObserved == Spec => AdoptedUntouched
<1>1. Init => TypeInv /\ AdoptInv
  BY InitType, InitCareful
<1>2. TypeInv /\ AdoptInv /\ [Next]_vars => TypeInv' /\ AdoptInv'
  BY NextType, NextCareful
<1>3. TypeInv /\ AdoptInv /\ TypeInv' /\ AdoptInv' /\ [Next]_vars
        => [/\ cloud'[Foreign] # cloud[Foreign] => left'.outages < left.outages
            /\ api'.exists /\ isAdopted(api'.spec.existing) => ~ api'.finalizer]_vars
  BY ForeignChange DEF AdoptInv, KnowsOwner, Adopted
<1> QED BY <1>1, <1>2, <1>3, PTL DEF Spec, AdoptedUntouched

-----------------------------------------------------------------------------
(***************************************************************************)
(* What the copies of the object that are held anywhere - in caches,       *)
(* undelivered events and workers - say about the API server's copy and    *)
(* about STACKIT, and the safety theorems that rest on it.                 *)
(***************************************************************************)

(* An ID in a status is that of a network that has been made. *)
Made(st, c) == st.id \in Ids => c[st.id].state # "none"

(* A copy o is either older than the API server's copy a or equal to it,   *)
(* so that a write which passes the resourceVersion check changes exactly  *)
(* what the reconcile set out to change.                                   *)
Sound(o, a, c) ==
  /\ o.rv <= a.rv
  /\ o.rv = a.rv => o = a
  /\ Made(o.status, c)

Gone(i, c) == i \in Ids => c[i].state = "gone"

(* What a worker has established by the time it makes its next call. *)
Knows(x, c) ==
  LET id == x.obj.status.id
  IN  /\ x.pc = "dropFinalizer" => id = NoId \/ Gone(id, c)
      /\ x.pc = "write" => \/ x.st.id = id
                           \/ id = NoId
                           \/ x.st.id = NoId /\ Gone(id, c)
      /\ x.pc = "delete" => x.st.id = id
      /\ x.pc \in {"recheck", "create"} => x.before.id = NoId
      /\ x.pc \in {"adoptGet", "create"} => id = NoId

GoodWorker(x, a, c) == Sound(x.obj, a, c) /\ Made(x.st, c) /\ Knows(x, c)

CopiesSound ==
  /\ Sound(api, api, cloud)
  /\ Sound(NoObject(NoStatus), api, cloud)
  /\ \A m \in Managers :
       /\ Sound(cache[m], api, cloud)
       /\ \A v \in watch[m] : Sound(v, api, cloud)
       /\ GoodWorker(w[m], api, cloud)

-----------------------------------------------------------------------------
(* How STACKIT and the API server move on in one step. *)

LEMMA KnownStates ==
  /\ "none" \notin States
  /\ "gone" \notin States
  /\ "none" \notin OutageStates
BY NetworkAssumption DEF States, networkTransitionalStates

LEMMA ReachableKnown == Reachable \subseteq Ids \cup {Foreign}
BY NetworkAssumption DEF Reachable, NetworkSpec

(* A network once made has been made, and one that is gone does not return. *)
LEMMA CloudStep ==
  ASSUME TypeInv, [Next]_vars, NEW i \in Ids
  PROVE  /\ cloud[i].state # "none" => cloud'[i].state # "none"
         /\ cloud[i].state = "gone" => cloud'[i].state = "gone"
<1> DEFINE OK == /\ cloud[i].state # "none" => cloud'[i].state # "none"
                 /\ cloud[i].state = "gone" => cloud'[i].state = "gone"
<1>0. /\ cloud \in [Ids \cup {Foreign} -> Networks]
      /\ \A j \in Ids \cup {Foreign} : cloud[j] \in Networks
  BY DEF TypeInv, TypeOK
<1>1. CASE UNCHANGED cloud
  BY <1>1
<1>2. ASSUME NEW m \in Managers, NEW j \in Ids, CreateNetwork(j, w[m].obj) PROVE OK
  BY <1>0, <1>2 DEF CreateNetwork
<1>3. ASSUME NEW j \in Ids, Detach(j) PROVE OK
  BY <1>0, <1>3 DEF Detach, Networks
<1>4. ASSUME NEW m \in Managers, UpdateNetwork(m) PROVE OK
  <2> DEFINE j == w[m].obj.status.id
             has == Updated(cloud[j].has, payload[m])
  <2>1. \/ cloud' = cloud
        \/ /\ cloud[j].state \in {"CREATED", "UPDATED", "UNKNOWN"}
           /\ cloud' = [cloud EXCEPT ![j].state = "UPDATING", ![j].has = has]
    BY <1>4 DEF UpdateNetwork
  <2> HIDE DEF has
  <2> QED BY <1>0, <2>1 DEF Networks
<1>5. ASSUME NEW m \in Managers, DeleteNetwork(m) PROVE OK
  BY <1>0, <1>5 DEF DeleteNetwork, IsNotFound, Absent, Networks
<1>6. ASSUME NEW j \in Ids \cup {Foreign}, Settle(j) PROVE OK
  <2>1. "gone" \notin networkTransitionalStates /\ "none" \notin networkTransitionalStates
    BY DEF networkTransitionalStates
  <2> QED BY <1>0, <1>6, <2>1, KnownStates DEF Settle, Networks
<1>7. ASSUME NEW j \in Ids \cup {Foreign}, OutOfBand(j) PROVE OK
  BY <1>0, <1>7, KnownStates DEF OutOfBand, IsNotFound, Absent, Networks
<1>8. CASE User
  BY <1>8, <1>1 DEF User
<1>9. ASSUME NEW m \in Managers,
             \/ Informer(m) \/ Reconcile(m) \/ Step(m)
             \/ CreateFailed(m) \/ Fail(m) \/ Crash(m)
      PROVE OK
  <2>1. CASE CreateSucceeds(m) \/ CreateFailed(m)
    BY <2>1, <1>1, <1>2 DEF CreateSucceeds, CreateFailed
  <2>2. CASE UpdateNetwork(m) \/ DeleteNetwork(m)
    BY <2>2, <1>4, <1>5
  <2>3. CASE UNCHANGED cloud
    BY <2>3, <1>1
  <2> QED BY <1>9, <2>1, <2>2, <2>3
          DEF Informer, Reconcile, Step, AddFinalizer, DropFinalizer, AdoptGet,
              Recheck, ObserveMissing, ObserveNetwork, ObserveDrift, DeleteGet,
              WriteBack, Fail, Crash
<1>10. Reachable \subseteq Ids \cup {Foreign}
  BY ReachableKnown
<1> QED BY <1>1, <1>3, <1>6, <1>7, <1>8, <1>9, <1>10 DEF Next, vars

(* A step leaves the object alone or gives it the next resourceVersion. *)
LEMMA ApiStep ==
  ASSUME TypeInv, [Next]_vars
  PROVE  api' = api \/ api'.rv = api.rv + 1
<1> DEFINE OK == api' = api \/ api'.rv = api.rv + 1
<1>1. ASSUME NEW v \in Versions(Statuses), Publish(v) PROVE OK
  BY <1>1 DEF Publish, Versions
<1>2. CASE User
  <2>0. api \in Versions(Statuses)
    BY DEF TypeInv, TypeOK, KubeTypeOK
  <2>1. ASSUME NEW s \in Specs, UserCreate(s, NoStatus) PROVE OK
    BY <2>1 DEF UserCreate, Publish
  <2>2. ASSUME NEW s \in Specs, UserEdit(s) PROVE OK
    BY <2>0, <2>2 DEF UserEdit, Publish, Versions
  <2>3. CASE UserDelete
    BY <2>0, <2>3 DEF UserDelete, Publish, Versions
  <2> QED BY <1>2, <2>1, <2>2, <2>3 DEF User
<1>3. ASSUME NEW m \in Managers, AddFinalizer(m) \/ DropFinalizer(m) \/ WriteBack(m)
      PROVE  OK
  <2>0. w[m].obj \in Versions(Statuses) /\ w[m].st \in Statuses
    BY CopyType
  <2>1. CASE AddFinalizer(m)
    BY <2>0, <2>1 DEF AddFinalizer, ensureFinalizer, WriteFinalizer, Publish, Versions
  <2>2. CASE DropFinalizer(m)
    BY <2>0, <2>2
       DEF DropFinalizer, removeFinalizerAndUpdate, WriteNoFinalizer, Publish, Versions
  <2>3. CASE WriteBack(m)
    BY <2>0, <2>3 DEF WriteBack, StatusUpdate, WriteStatus, Publish, Versions
  <2> QED BY <1>3, <2>1, <2>2, <2>3
<1>4. CASE UNCHANGED api
  BY <1>4
<1>5. ASSUME NEW m \in Managers,
             \/ Informer(m) \/ Reconcile(m) \/ Step(m)
             \/ CreateFailed(m) \/ Fail(m) \/ Crash(m)
      PROVE OK
  BY <1>3, <1>4, <1>5
     DEF Informer, Sync, Resync, Reconcile, Step, AdoptGet, Recheck, idAlreadyPresent,
         CreateSucceeds, CreateFailed, ObserveMissing, ObserveNetwork, ObserveDrift,
         UpdateNetwork, DeleteGet, DeleteNetwork, Fail, CallFails, Crash, Restart, Relist
<1>6. ASSUME NEW i, Settle(i) \/ Detach(i) \/ OutOfBand(i) PROVE OK
  BY <1>6 DEF Settle, Detach, OutOfBand
<1> QED BY <1>2, <1>4, <1>5, <1>6 DEF Next, vars

(* Hence what the copies say stays true. *)
LEMMA StaysMade ==
  ASSUME TypeInv, [Next]_vars, NEW st \in Statuses, Made(st, cloud)
  PROVE  Made(st, cloud')
BY CloudStep DEF Made

LEMMA StaysSound ==
  ASSUME TypeInv, [Next]_vars, NEW o \in Versions(Statuses), Sound(o, api, cloud)
  PROVE  Sound(o, api', cloud')
<1>1. o.status \in Statuses /\ o.rv \in Nat /\ api.rv \in Nat
  BY DEF Versions, TypeInv, TypeOK, KubeTypeOK
<1>2. Made(o.status, cloud')
  BY <1>1, StaysMade DEF Sound
<1> QED BY <1>1, <1>2, ApiStep DEF Sound

LEMMA StaysGood ==
  ASSUME TypeInv, [Next]_vars, NEW x \in Workers(Statuses, Calls),
         GoodWorker(x, api, cloud)
  PROVE  GoodWorker(x, api', cloud')
<1>1. x.obj \in Versions(Statuses) /\ x.st \in Statuses
  BY DEF Workers
<1>2. Sound(x.obj, api', cloud') /\ Made(x.st, cloud')
  BY <1>1, StaysSound, StaysMade DEF GoodWorker
<1>3. \A i : Gone(i, cloud) => Gone(i, cloud')
  BY CloudStep DEF Gone
<1>4. Knows(x, cloud')
  BY <1>3 DEF GoodWorker, Knows
<1> QED BY <1>2, <1>4 DEF GoodWorker

-----------------------------------------------------------------------------
(* A step preserves CopiesSound if the object it writes and the worker it  *)
(* changes are good; caches and events only pass on what is already there. *)
LEMMA CopiesStaySound ==
  ASSUME TypeInv, CopiesSound, [Next]_vars,
         Made(api'.status, cloud'),
         \A m \in Managers : cache'[m] \in {cache[m], api} \cup watch[m],
         \A m \in Managers : watch'[m] \subseteq watch[m] \cup {api'},
         \A m \in Managers : w'[m] = w[m] \/ GoodWorker(w'[m], api', cloud')
  PROVE  CopiesSound'
<1>1. \A o \in Versions(Statuses) : Sound(o, api, cloud) => Sound(o, api', cloud')
  BY StaysSound
<1>2. api' \in Versions(Statuses)
  BY NextType DEF TypeInv, TypeOK, KubeTypeOK
<1>3. Sound(api', api', cloud')
  BY <1>2 DEF Sound, Versions
<1>4. Sound(NoObject(NoStatus), api', cloud')
  BY <1>1, NoObjectType DEF CopiesSound
<1>5. ASSUME NEW m \in Managers
      PROVE  /\ Sound(cache'[m], api', cloud')
             /\ \A v \in watch'[m] : Sound(v, api', cloud')
             /\ GoodWorker(w'[m], api', cloud')
  <2>1. /\ cache[m] \in Versions(Statuses)
        /\ api \in Versions(Statuses)
        /\ watch[m] \subseteq Versions(Statuses)
        /\ w[m] \in Workers(Statuses, Calls)
    BY DEF TypeInv, TypeOK, KubeTypeOK
  <2>2. Sound(cache'[m], api', cloud')
    BY <1>1, <2>1 DEF CopiesSound
  <2>3. \A v \in watch'[m] : Sound(v, api', cloud')
    BY <1>1, <1>3, <2>1 DEF CopiesSound
  <2>4. GoodWorker(w'[m], api', cloud')
    BY <2>1, StaysGood DEF CopiesSound
  <2> QED BY <2>2, <2>3, <2>4
<1> QED BY <1>3, <1>4, <1>5 DEF CopiesSound

(* A status with no ID of the operator's says nothing about its networks. *)
LEMMA NoIdMade ==
  /\ \A st, c : st.id \in {NoId, Foreign} => Made(st, c)
  /\ \A c : Made(NoStatus, c)
<1>1. NoId \notin Ids /\ Foreign \notin Ids
  BY NetworkAssumption
<1> QED BY <1>1 DEF Made, NoStatus

LEMMA IdleGood ==
  ASSUME TypeInv, CopiesSound, [Next]_vars
  PROVE  GoodWorker(Idle(NoStatus), api', cloud')
<1>1. Sound(NoObject(NoStatus), api', cloud')
  BY StaysSound, NoObjectType DEF CopiesSound
<1>2. Made(NoStatus, cloud')
  BY NoIdMade
<1> QED BY <1>1, <1>2 DEF GoodWorker, Knows, Idle

(* SaveStatus leads to a good worker if the status it saves keeps the ID,  *)
(* gives an ID to a copy that had none, or drops the ID of a network that  *)
(* is gone.                                                                *)
LEMMA SaveGood ==
  ASSUME TypeInv, CopiesSound, [Next]_vars, NEW m \in Managers,
         NEW st \in Statuses, SaveStatus(m, st, NoStatus), Made(st, cloud'),
         LET id == w[m].obj.status.id
         IN  st.id = id \/ id = NoId \/ (st.id = NoId /\ Gone(id, cloud'))
  PROVE  GoodWorker(w'[m], api', cloud')
<1>0. w \in [Managers -> Workers(Statuses, Calls)] /\ w[m] \in Workers(Statuses, Calls)
  BY DEF TypeInv, TypeOK
<1>1. CASE statusUnchanged(w[m].before, st)
  BY <1>0, <1>1, IdleGood DEF SaveStatus, Return
<1>2. CASE ~ statusUnchanged(w[m].before, st)
  <2>1. /\ w'[m].pc = "write"
        /\ w'[m].st = st
        /\ w'[m].obj = w[m].obj
    BY <1>0, <1>2 DEF SaveStatus, Workers
  <2>2. Sound(w[m].obj, api', cloud')
    BY CopyType, StaysSound DEF CopiesSound, GoodWorker
  <2> QED BY <2>1, <2>2 DEF GoodWorker, Knows
<1> QED BY <1>1, <1>2

(* A step that ends a reconcile, or only changes worker m and not the      *)
(* object, is covered by this form of CopiesStaySound.                     *)
LEMMA WorkerStaysSound ==
  ASSUME TypeInv, CopiesSound, [Next]_vars, NEW m \in Managers,
         UNCHANGED <<api, cache, watch>>,
         \A n \in Managers \ {m} : w'[n] = w[n],
         GoodWorker(w'[m], api', cloud')
  PROVE  CopiesSound'
<1>1. Made(api'.status, cloud')
  <2>1. api.status \in Statuses
    BY DEF TypeInv, TypeOK, KubeTypeOK, Versions
  <2> QED BY <2>1, StaysMade DEF CopiesSound, Sound
<1> QED BY <1>1, CopiesStaySound

(* The status that follows a successful create. *)
NewStatus(o, i, network) ==
  setReadyCondition(o, applyNetworkStatus(o, [o.status EXCEPT !.id = i], network),
                    "Creating")

Saves(m, i) == SaveStatus(m, NewStatus(w[m].obj, i, cloud'[i]), NoStatus)

LEMMA NewStatusType ==
  ASSUME TypeInv, NEW m \in Managers, NEW i \in Ids, CreateNetwork(i, w[m].obj)
  PROVE  /\ NewStatus(w[m].obj, i, cloud'[i]) \in Statuses
         /\ NewStatus(w[m].obj, i, cloud'[i]).id = i
<1> DEFINE o == w[m].obj
           s == [o.status EXCEPT !.id = i]
<1>1. s \in Statuses /\ s.id = i /\ o \in Versions(Statuses)
  BY CopyType, IdType
<1>2. cloud'[i] \in Networks /\ cloud'[i].state \notin Absent
  BY CreateNetworkType
<1>3. "Creating" \in Reasons
  BY DEF Reasons
<1>4. NewStatus(o, i, cloud'[i])
        = setReadyCondition(o, applyNetworkStatus(o, s, cloud'[i]), "Creating")
  BY DEF NewStatus
<1> HIDE DEF s
<1>5. applyNetworkStatus(o, s, cloud'[i]) \in Statuses
  BY <1>1, <1>2, ApplyType
<1>6. applyNetworkStatus(o, s, cloud'[i]).id = i
  BY <1>1, <1>2, ApplyType
<1> QED BY <1>1, <1>3, <1>4, <1>5, <1>6, ConditionType

-----------------------------------------------------------------------------
(* The steps, one by one. *)

LEMMA UserSound ==
  ASSUME TypeInv, CopiesSound, [Next]_vars, User PROVE CopiesSound'
<1>0. /\ api \in Versions(Statuses)
      /\ watch \in [Managers -> SUBSET Versions(Statuses)]
      /\ Made(api.status, cloud)
  BY DEF TypeInv, TypeOK, KubeTypeOK, CopiesSound, Sound
<1>1. UNCHANGED <<w, cloud, cache>>
  BY DEF User, UserCreate, UserEdit, UserDelete
<1>2. watch' = [m \in Managers |-> watch[m] \cup {api'}]
  BY DEF User, UserCreate, UserEdit, UserDelete, Publish
<1>3. api'.status \in {NoStatus, api.status}
  <2>1. ASSUME NEW s \in Specs, UserCreate(s, NoStatus) PROVE api'.status = NoStatus
    BY <2>1 DEF UserCreate, Publish
  <2>2. ASSUME NEW s \in Specs, UserEdit(s) PROVE api'.status = api.status
    BY <1>0, <2>2 DEF UserEdit, Publish, Versions
  <2>3. CASE UserDelete
    BY <1>0, <2>3 DEF UserDelete, Publish, Versions
  <2> QED BY <2>1, <2>2, <2>3 DEF User
<1>4. Made(api'.status, cloud')
  <2>1. CASE api'.status = NoStatus
    BY <2>1, NoIdMade
  <2>2. CASE api'.status = api.status
    BY <1>0, <1>1, <2>2
  <2> QED BY <1>3, <2>1, <2>2
<1> QED BY <1>1, <1>2, <1>4, CopiesStaySound

LEMMA InformerSound ==
  ASSUME TypeInv, CopiesSound, [Next]_vars, NEW m \in Managers, Informer(m)
  PROVE  CopiesSound'
<1>1. UNCHANGED <<w, cloud, api>>
  BY DEF Informer, Sync, Resync
<1>2. \A n \in Managers : cache'[n] \in {cache[n], api} \cup watch[n]
  BY DEF Informer, Sync, Resync, TypeInv, TypeOK, KubeTypeOK
<1>3. \A n \in Managers : watch'[n] \subseteq watch[n] \cup {api'}
  BY DEF Informer, Sync, Resync, TypeInv, TypeOK, KubeTypeOK
<1>4. Made(api'.status, cloud')
  BY <1>1 DEF CopiesSound, Sound
<1> QED BY <1>1, <1>2, <1>3, <1>4, CopiesStaySound

(* A copy that passes the resourceVersion check is the API server's copy. *)
LEMMA UpToDateIsCurrent ==
  ASSUME CopiesSound, NEW m \in Managers, UpToDate(w[m].obj)
  PROVE  w[m].obj = api
BY DEF CopiesSound, GoodWorker, Sound, UpToDate

LEMMA WriteSound ==
  ASSUME TypeInv, CopiesSound, [Next]_vars, NEW m \in Managers,
         AddFinalizer(m) \/ DropFinalizer(m) \/ WriteBack(m)
  PROVE  CopiesSound'
<1> DEFINE o == w[m].obj
<1>0. /\ api \in Versions(Statuses)
      /\ o \in Versions(Statuses)
      /\ w[m].st \in Statuses
      /\ w \in [Managers -> Workers(Statuses, Calls)]
      /\ watch \in [Managers -> SUBSET Versions(Statuses)]
      /\ Made(api.status, cloud)
      /\ Made(o.status, cloud)
      /\ Made(w[m].st, cloud)
  BY CopyType DEF TypeInv, TypeOK, KubeTypeOK, CopiesSound, Sound, GoodWorker
<1>1. UNCHANGED <<cloud, cache>>
  BY DEF AddFinalizer, DropFinalizer, WriteBack, ensureFinalizer,
         removeFinalizerAndUpdate, StatusUpdate
<1>2. w' = [w EXCEPT ![m] = Idle(NoStatus)]
  BY DEF AddFinalizer, DropFinalizer, WriteBack, ensureFinalizer,
         removeFinalizerAndUpdate, StatusUpdate, Return
<1>3. \A n \in Managers : w'[n] = w[n] \/ GoodWorker(w'[n], api', cloud')
  BY <1>0, <1>2, IdleGood
<1>4. /\ watch' = watch \/ watch' = [n \in Managers |-> watch[n] \cup {api'}]
      /\ api'.status \in {api.status, o.status, w[m].st}
  <2>1. CASE AddFinalizer(m)
    BY <1>0, <2>1 DEF AddFinalizer, ensureFinalizer, WriteFinalizer, Publish, Versions
  <2>2. CASE DropFinalizer(m)
    BY <1>0, <2>2
       DEF DropFinalizer, removeFinalizerAndUpdate, WriteNoFinalizer, Publish, Versions
  <2>3. CASE WriteBack(m)
    BY <1>0, <2>3 DEF WriteBack, StatusUpdate, WriteStatus, Publish, Versions
  <2> QED BY <2>1, <2>2, <2>3
<1>5. Made(api'.status, cloud')
  BY <1>0, <1>1, <1>4
<1> QED BY <1>0, <1>1, <1>3, <1>4, <1>5, CopiesStaySound

(* Reads. *)
LEMMA ReadSound ==
  ASSUME TypeInv, CopiesSound, [Next]_vars, NEW m \in Managers,
         \/ Reconcile(m) \/ AdoptGet(m) \/ Recheck(m)
         \/ ObserveMissing(m) \/ ObserveNetwork(m) \/ ObserveDrift(m) \/ DeleteGet(m)
  PROVE  CopiesSound'
<1> DEFINE o == w[m].obj
           i == o.status.id
<1>0. /\ w \in [Managers -> Workers(Statuses, Calls)]
      /\ w[m] \in Workers(Statuses, Calls)
      /\ o \in Versions(Statuses)
      /\ o.status \in Statuses
      /\ o.spec.existing \in {NoId, Foreign}
      /\ Made(o.status, cloud)
  BY CopyType DEF TypeInv, TypeOK, CopiesSound, GoodWorker, Sound
<1>a. UNCHANGED <<api, cache, watch, cloud>>
  BY DEF Reconcile, AdoptGet, Recheck, idAlreadyPresent, ObserveMissing,
         ObserveNetwork, ObserveDrift, DeleteGet
<1>b. \A n \in Managers \ {m} : w'[n] = w[n]
  BY <1>0 DEF Reconcile, AdoptGet, Recheck, idAlreadyPresent, ObserveMissing,
              ObserveNetwork, ObserveDrift, DeleteGet, SaveStatus, Return
<1> SUFFICES GoodWorker(w'[m], api', cloud')
  BY <1>a, <1>b, WorkerStaysSound
<1>c. i \in Ids => cloud[i].state # "none"
  BY <1>0 DEF Made
<1>d. {"NotFound", "Deleting"} \subseteq Reasons
  BY DEF Reasons
<1>1. CASE Reconcile(m)
  <2> DEFINE c == cache[m]
             x == WorkingOn(reconcile(c), c)
  <2>1. Sound(c, api, cloud)
    BY DEF CopiesSound
  <2>2. Knows(x, cloud)
    BY DEF Knows, WorkingOn, reconcile, reconcileDelete
  <2>3. GoodWorker(x, api, cloud)
    BY <2>1, <2>2 DEF GoodWorker, WorkingOn, Sound
  <2>4. w'[m] = x \/ w'[m] = Idle(NoStatus)
    BY <1>0, <1>1 DEF Reconcile
  <2> QED BY <1>a, <2>3, <2>4, IdleGood
<1>2. CASE AdoptGet(m)
  <2> DEFINE e == o.spec.existing
  <2>1. e = Foreign /\ i = NoId
    BY <1>0, <1>2 DEF AdoptGet, TypeInv, Shape, NamesNetwork, Adopted, isAdopted,
                      CopiesSound, GoodWorker, Knows
  <2>2. PICK st \in Statuses : SaveStatus(m, st, NoStatus) /\ st.id \in {NoId, Foreign}
    <3>1. CASE IsNotFound(e)
      BY <1>0, <1>2, <1>d, <2>1, <3>1, ConditionType DEF AdoptGet
    <3>2. CASE ~ IsNotFound(e)
      <4>1. cloud[e] \in Networks /\ cloud[e].state \notin Absent
        BY <2>1, <3>2 DEF TypeInv, TypeOK, IsNotFound
      <4> DEFINE s == [o.status EXCEPT !.id = e]
      <4>2. s \in Statuses /\ s.id = e
        BY <1>0, <2>1, IdType
      <4>3. SaveStatus(m, applyNetworkStatus(o, s, cloud[e]), NoStatus)
        BY <1>2, <3>2 DEF AdoptGet
      <4> HIDE DEF s
      <4>4. /\ applyNetworkStatus(o, s, cloud[e]) \in Statuses
            /\ applyNetworkStatus(o, s, cloud[e]).id = e
        BY <1>0, <4>1, <4>2, ApplyType
      <4> QED BY <2>1, <4>3, <4>4
    <3> QED BY <3>1, <3>2
  <2> QED BY <2>1, <2>2, NoIdMade, SaveGood
<1>3. CASE Recheck(m)
  <2>1. CASE api.exists /\ api.status.id = NoId
    <3>1. w'[m] = [pc |-> "create", obj |-> api, st |-> api.status,
                   before |-> w[m].before]
      BY <1>0, <1>3, <2>1 DEF Recheck, idAlreadyPresent
    <3>2. w[m].before.id = NoId
      BY <1>3 DEF Recheck, idAlreadyPresent, CopiesSound, GoodWorker, Knows
    <3> QED BY <1>a, <2>1, <3>1, <3>2 DEF CopiesSound, GoodWorker, Knows, Sound
  <2>2. CASE ~ (api.exists /\ api.status.id = NoId)
    BY <1>0, <1>3, <2>2, IdleGood DEF Recheck, idAlreadyPresent, Return
  <2> QED BY <2>1, <2>2
<1>4. CASE ObserveMissing(m)
  <2> DEFINE st == NotFoundStatus(o)
             cleared == IF Adopted(o) THEN o.status ELSE [o.status EXCEPT !.id = NoId]
  <2>0. cleared \in Statuses /\ cleared.id \in {i, NoId}
    BY <1>0, IdType
  <2>1. st \in Statuses /\ st.id \in {i, NoId}
    <3> HIDE DEF cleared
    <3>1. st = setReadyCondition(o, cleared, "NotFound")
      BY DEF NotFoundStatus, cleared
    <3> QED BY <1>0, <1>d, <2>0, <3>1, ConditionType
  <2>2. Gone(i, cloud')
    BY <1>4, <1>a, <1>c DEF ObserveMissing, IsNotFound, Absent, Gone
  <2>3. Made(st, cloud')
    BY <1>0, <1>a, <2>1, NoIdMade DEF Made
  <2>4. SaveStatus(m, st, NoStatus)
    BY <1>4 DEF ObserveMissing
  <2> HIDE DEF st
  <2> QED BY <2>1, <2>2, <2>3, <2>4, SaveGood
<1>5. CASE ObserveNetwork(m)
  <2> DEFINE st == setReadyCondition(o, applyNetworkStatus(o, o.status, cloud[i]),
                                     ObservedReason(cloud[i].state))
  <2>1. cloud[i] \in Networks /\ cloud[i].state \notin Absent
    BY <1>5, CopyType DEF ObserveNetwork, IsNotFound, TypeInv, TypeOK, Shape, NamesNetwork
  <2>2. st \in Statuses /\ st.id = i
    <3>1. applyNetworkStatus(o, o.status, cloud[i]) \in Statuses
      BY <1>0, <2>1, ApplyType
    <3>2. applyNetworkStatus(o, o.status, cloud[i]).id = i
      BY <1>0, <2>1, ApplyType
    <3>3. ObservedReason(cloud[i].state) \in Reasons
      BY ReasonType
    <3> QED BY <1>0, <3>1, <3>2, <3>3, ConditionType
  <2>3. Made(st, cloud')
    BY <1>0, <1>a, <2>2 DEF Made
  <2>4. SaveStatus(m, st, NoStatus)
    BY <1>5 DEF ObserveNetwork
  <2> HIDE DEF st
  <2> QED BY <2>2, <2>3, <2>4, SaveGood
<1>6. CASE ObserveDrift(m)
  <2>1. /\ w'[m].obj = o
        /\ w'[m].st = w[m].st
        /\ w'[m].pc = "update"
    BY <1>0, <1>6 DEF ObserveDrift, Workers
  <2> QED BY <1>a, <2>1 DEF CopiesSound, GoodWorker, Knows
<1>7. CASE DeleteGet(m)
  <2> DEFINE st == applyNetworkStatus(o, o.status, cloud[i])
  <2>1. CASE IsNotFound(i)
    <3>1. w'[m] = [w[m] EXCEPT !.pc = "dropFinalizer"]
      BY <1>0, <1>7, <2>1 DEF DeleteGet, IsNotFound, Absent
    <3>2. /\ w'[m].obj = o
          /\ w'[m].st = w[m].st
          /\ w'[m].pc = "dropFinalizer"
      BY <1>0, <3>1 DEF Workers
    <3>3. Gone(i, cloud')
      BY <1>a, <1>c, <2>1 DEF IsNotFound, Absent, Gone
    <3> QED BY <1>a, <3>2, <3>3 DEF CopiesSound, GoodWorker, Knows
  <2>2. CASE ~ IsNotFound(i)
    <3>1. cloud[i] \in Networks /\ cloud[i].state \notin Absent
      BY <1>7, <2>2, CopyType DEF DeleteGet, IsNotFound, TypeInv, TypeOK, Shape, NamesNetwork
    <3>2. st \in Statuses /\ st.id = i
      BY <1>0, <3>1, ApplyType
    <3>3. Made(st, cloud')
      BY <1>0, <1>a, <3>2 DEF Made
    <3> HIDE DEF st
    <3>4. CASE cloud[i].state # "DELETING"
      <4>1. w'[m] = [w[m] EXCEPT !.pc = "delete", !.st = st]
        BY <1>0, <1>7, <2>2, <3>4 DEF DeleteGet, st
      <4>2. /\ w'[m].obj = o
            /\ w'[m].st = st
            /\ w'[m].pc = "delete"
        BY <1>0, <4>1 DEF Workers
      <4> QED BY <1>a, <3>2, <3>3, <4>2 DEF CopiesSound, GoodWorker, Knows
    <3>5. CASE cloud[i].state = "DELETING"
      <4>1. SaveStatus(m, setReadyCondition(o, st, "Deleting"), NoStatus)
        BY <1>7, <2>2, <3>5 DEF DeleteGet, st
      <4>2. /\ setReadyCondition(o, st, "Deleting") \in Statuses
            /\ setReadyCondition(o, st, "Deleting").id = i
        BY <1>0, <1>d, <3>2, ConditionType
      <4> QED BY <1>0, <1>a, <4>1, <4>2, SaveGood DEF Made
    <3> QED BY <3>4, <3>5
  <2> QED BY <2>1, <2>2
<1> QED BY <1>1, <1>2, <1>3, <1>4, <1>5, <1>6, <1>7

(* STACKIT makes a network; only a reconcile that found no ID asks for one. *)
LEMMA CreateSound ==
  ASSUME TypeInv, CopiesSound, [Next]_vars, NEW m \in Managers,
         CreateSucceeds(m) \/ CreateFailed(m)
  PROVE  CopiesSound'
<1> DEFINE o == w[m].obj
<1>0. /\ w \in [Managers -> Workers(Statuses, Calls)]
      /\ o \in Versions(Statuses)
      /\ o.status \in Statuses
      /\ Made(o.status, cloud)
      /\ o.status.id = NoId
  BY CopyType DEF TypeInv, TypeOK, CopiesSound, GoodWorker, Sound, Knows,
                  CreateSucceeds, CreateFailed
<1>a. UNCHANGED <<api, cache, watch>>
  BY DEF CreateSucceeds, CreateFailed
<1>b. \A n \in Managers \ {m} : w'[n] = w[n]
  BY <1>0 DEF CreateSucceeds, CreateFailed, SaveStatus, Return
<1> SUFFICES GoodWorker(w'[m], api', cloud')
  BY <1>a, <1>b, WorkerStaysSound
<1>d. {"Creating", "CreateFailed"} \subseteq Reasons
  BY DEF Reasons
<1>1. CASE CreateSucceeds(m)
  <2>1. PICK i \in Ids : CreateNetwork(i, o) /\ Saves(m, i)
    BY <1>1 DEF CreateSucceeds, Saves, NewStatus
  <2>2. NewStatus(o, i, cloud'[i]) \in Statuses /\ NewStatus(o, i, cloud'[i]).id = i
    BY <1>0, <2>1, NewStatusType
  <2>3. cloud'[i].state # "none"
    BY <2>1, CreateNetworkType DEF Absent
  <2> QED BY <1>0, <2>1, <2>2, <2>3, SaveGood DEF Saves, Made
<1>2. CASE CreateFailed(m)
  <2> DEFINE st == setReadyCondition(o, o.status, "CreateFailed")
  <2>1. st \in Statuses /\ st.id = NoId
    BY <1>0, <1>d, ConditionType
  <2>2. SaveStatus(m, st, NoStatus)
    BY <1>2 DEF CreateFailed
  <2> HIDE DEF st
  <2> QED BY <1>0, <2>1, <2>2, NoIdMade, SaveGood
<1> QED BY <1>1, <1>2

(* The calls on a network that an ID names. *)
LEMMA ChangeSound ==
  ASSUME TypeInv, CopiesSound, [Next]_vars, NEW m \in Managers,
         UpdateNetwork(m) \/ DeleteNetwork(m)
  PROVE  CopiesSound'
<1> DEFINE o == w[m].obj
<1>0. /\ w \in [Managers -> Workers(Statuses, Calls)]
      /\ o \in Versions(Statuses)
      /\ w[m].st \in Statuses
      /\ Made(w[m].st, cloud')
  BY CopyType, StaysMade DEF TypeInv, TypeOK, CopiesSound, GoodWorker
<1>a. UNCHANGED <<api, cache, watch>>
  BY DEF UpdateNetwork, DeleteNetwork
<1>b. \A n \in Managers \ {m} : w'[n] = w[n]
  BY <1>0 DEF UpdateNetwork, DeleteNetwork, SaveStatus, Return
<1> SUFFICES GoodWorker(w'[m], api', cloud')
  BY <1>a, <1>b, WorkerStaysSound
<1>1. CASE UpdateNetwork(m)
  BY <1>0, <1>1, IdleGood DEF UpdateNetwork, Return
<1>2. CASE DeleteNetwork(m)
  <2> DEFINE st == setReadyCondition(o, w[m].st, "Deleting")
  <2>1. "Deleting" \in Reasons
    BY DEF Reasons
  <2>2. st \in Statuses /\ st.id = w[m].st.id
    BY <1>0, <2>1, ConditionType
  <2>3. SaveStatus(m, st, NoStatus)
    BY <1>2 DEF DeleteNetwork
  <2>4. w[m].st.id = o.status.id
    BY <1>2 DEF DeleteNetwork, CopiesSound, GoodWorker, Knows
  <2> HIDE DEF st
  <2> QED BY <1>0, <2>2, <2>3, <2>4, SaveGood DEF Made
<1> QED BY <1>1, <1>2

LEMMA FaultSound ==
  ASSUME TypeInv, CopiesSound, [Next]_vars, NEW m \in Managers, Fail(m) \/ Crash(m)
  PROVE  CopiesSound'
<1>0. /\ w \in [Managers -> Workers(Statuses, Calls)]
      /\ cache \in [Managers -> Versions(Statuses)]
      /\ watch \in [Managers -> SUBSET Versions(Statuses)]
  BY DEF TypeInv, TypeOK, KubeTypeOK
<1>1. UNCHANGED <<api, cloud>> /\ w' = [w EXCEPT ![m] = Idle(NoStatus)]
  BY DEF Fail, CallFails, Return, Crash, Restart, Relist
<1>2. \A n \in Managers : cache'[n] \in {cache[n], api} \cup watch[n]
  BY <1>0 DEF Fail, CallFails, Crash, Restart, Relist
<1>3. \A n \in Managers : watch'[n] \subseteq watch[n] \cup {api'}
  BY <1>0 DEF Fail, CallFails, Crash, Restart, Relist
<1>4. \A n \in Managers : w'[n] = w[n] \/ GoodWorker(w'[n], api', cloud')
  BY <1>0, <1>1, IdleGood
<1>5. Made(api'.status, cloud')
  BY <1>1 DEF CopiesSound, Sound
<1> QED BY <1>2, <1>3, <1>4, <1>5, CopiesStaySound

LEMMA StackitSound ==
  ASSUME TypeInv, CopiesSound, [Next]_vars,
         UNCHANGED <<api, cache, watch, w>>
  PROVE  CopiesSound'
<1>1. Made(api'.status, cloud')
  <2>1. api.status \in Statuses
    BY DEF TypeInv, TypeOK, KubeTypeOK, Versions
  <2> QED BY <2>1, StaysMade DEF CopiesSound, Sound
<1> QED BY <1>1, CopiesStaySound

-----------------------------------------------------------------------------
LEMMA InitSound == Init => CopiesSound
<1> SUFFICES ASSUME Init PROVE CopiesSound
  OBVIOUS
<1>1. Sound(NoObject(NoStatus), NoObject(NoStatus), cloud)
  BY NoIdMade DEF Sound, NoObject
<1>2. GoodWorker(Idle(NoStatus), NoObject(NoStatus), cloud)
  BY <1>1, NoIdMade DEF GoodWorker, Knows, Idle
<1> QED BY <1>1, <1>2 DEF Init, KubeInit, CopiesSound

LEMMA NextSound == TypeInv /\ CopiesSound /\ [Next]_vars => CopiesSound'
<1> SUFFICES ASSUME TypeInv, CopiesSound, [Next]_vars PROVE CopiesSound'
  OBVIOUS
<1>1. CASE User
  BY <1>1, UserSound
<1>2. ASSUME NEW m \in Managers, Informer(m) PROVE CopiesSound'
  BY <1>2, InformerSound
<1>3. ASSUME NEW m \in Managers, Reconcile(m) \/ Step(m) PROVE CopiesSound'
  BY <1>3, WriteSound, ReadSound, CreateSound, ChangeSound DEF Step
<1>4. ASSUME NEW m \in Managers, CreateFailed(m) \/ Fail(m) \/ Crash(m)
      PROVE  CopiesSound'
  BY <1>4, CreateSound, FaultSound
<1>5. ASSUME NEW i, Settle(i) \/ Detach(i) \/ OutOfBand(i) PROVE CopiesSound'
  BY <1>5, StackitSound DEF Settle, Detach, OutOfBand
<1>6. CASE UNCHANGED vars
  BY <1>6, StackitSound DEF vars
<1> QED BY <1>1, <1>2, <1>3, <1>4, <1>5, <1>6 DEF Next

(* Every copy of the object that a cache, an undelivered event or a worker *)
(* holds is the API server's copy or has an older resourceVersion; every   *)
(* ID in any of them names a network STACKIT has made; and no worker is    *)
(* about to drop the finalizer, or the ID, of a network still there.       *)
THEOREM CopiesInvariant == Spec => []CopiesSound
<1>1. Init => TypeInv /\ CopiesSound
  BY InitType, InitSound
<1>2. TypeInv /\ CopiesSound /\ [Next]_vars => TypeInv' /\ CopiesSound'
  BY NextType, NextSound
<1> QED BY <1>1, <1>2, PTL DEF Spec

-----------------------------------------------------------------------------
(* The three ways a network can start or cease to be accounted for. *)

(* Only a create call makes a network. *)
LEMMA OnlyCreateMakes ==
  ASSUME TypeInv, [Next]_vars, NEW i \in Ids,
         cloud[i].state = "none", cloud'[i].state # "none"
  PROVE  \E m \in Managers :
           /\ CreateNetwork(i, w[m].obj)
           /\ w[m].pc = "create" /\ UNCHANGED api
           /\ \/ CreateSucceeds(m) /\ Saves(m, i)
              \/ CreateFailed(m) /\ left'.faults < left.faults
<1> DEFINE OK == \E m \in Managers :
                   /\ CreateNetwork(i, w[m].obj)
                   /\ w[m].pc = "create" /\ UNCHANGED api
                   /\ \/ CreateSucceeds(m) /\ Saves(m, i)
                      \/ CreateFailed(m) /\ left'.faults < left.faults
<1>0. /\ cloud \in [Ids \cup {Foreign} -> Networks]
      /\ \A j \in Ids \cup {Foreign} : cloud[j] \in Networks
      /\ left \in [edits: Nat, faults: Nat, outages: Nat]
  BY DEF TypeInv, TypeOK, KubeTypeOK
<1>a. cloud' # cloud
  OBVIOUS
<1>b. Spend("faults") => left'.faults < left.faults
  BY <1>0 DEF Spend
<1>c. ASSUME NEW m \in Managers, NEW j \in Ids, CreateNetwork(j, w[m].obj) PROVE j = i
  BY <1>0, <1>c DEF CreateNetwork
<1>1. ASSUME NEW m \in Managers, CreateSucceeds(m) PROVE OK
  <2>1. PICK j \in Ids : CreateNetwork(j, w[m].obj) /\ Saves(m, j)
    BY <1>1 DEF CreateSucceeds, Saves, NewStatus
  <2>2. w[m].pc = "create" /\ UNCHANGED api
    BY <1>1 DEF CreateSucceeds
  <2> QED BY <1>1, <1>c, <2>1, <2>2
<1>2. ASSUME NEW m \in Managers, CreateFailed(m) PROVE OK
  <2>1. Spend("faults") /\ \E j \in Ids : CreateNetwork(j, w[m].obj)
    BY <1>2, <1>a DEF CreateFailed
  <2>2. w[m].pc = "create" /\ UNCHANGED api
    BY <1>2 DEF CreateFailed
  <2> QED BY <1>2, <1>b, <1>c, <2>1, <2>2
<1>3. ASSUME NEW j \in Ids, Detach(j) PROVE FALSE
  BY <1>0, <1>3 DEF Detach, Networks
<1>4. ASSUME NEW m \in Managers, UpdateNetwork(m) PROVE FALSE
  <2> DEFINE j == w[m].obj.status.id
             has == Updated(cloud[j].has, payload[m])
  <2>1. \/ cloud' = cloud
        \/ /\ cloud[j].state \in {"CREATED", "UPDATED", "UNKNOWN"}
           /\ cloud' = [cloud EXCEPT ![j].state = "UPDATING", ![j].has = has]
    BY <1>4 DEF UpdateNetwork
  <2> HIDE DEF has
  <2> QED BY <1>0, <2>1 DEF Networks
<1>5. ASSUME NEW m \in Managers, DeleteNetwork(m) PROVE FALSE
  BY <1>0, <1>5 DEF DeleteNetwork, IsNotFound, Absent, Networks
<1>6. ASSUME NEW j \in Ids \cup {Foreign}, Settle(j) PROVE FALSE
  <2>1. "none" \notin networkTransitionalStates
    BY DEF networkTransitionalStates
  <2> QED BY <1>0, <1>6, <2>1 DEF Settle, Networks
<1>7. ASSUME NEW j \in Ids \cup {Foreign}, OutOfBand(j) PROVE FALSE
  BY <1>0, <1>7 DEF OutOfBand, IsNotFound, Absent, Networks
<1>8. CASE User
  BY <1>8, <1>a DEF User
<1>9. ASSUME NEW m \in Managers,
             \/ Informer(m) \/ Reconcile(m) \/ Step(m)
             \/ CreateFailed(m) \/ Fail(m) \/ Crash(m)
      PROVE OK
  BY <1>9, <1>a, <1>1, <1>2, <1>4, <1>5
     DEF Informer, Reconcile, Step, AddFinalizer, DropFinalizer, AdoptGet,
         Recheck, ObserveMissing, ObserveNetwork, ObserveDrift, DeleteGet,
         WriteBack, Fail, Crash
<1>10. Reachable \subseteq Ids \cup {Foreign}
  BY ReachableKnown
<1> QED BY <1>a, <1>3, <1>6, <1>7, <1>8, <1>9, <1>10 DEF Next, vars

(* The worker whose create succeeded goes on to write the new ID. *)
LEMMA CreatedInHand ==
  ASSUME TypeInv, CopiesSound, NEW m \in Managers, NEW i \in Ids,
         CreateNetwork(i, w[m].obj), CreateSucceeds(m), Saves(m, i)
  PROVE  InHand(m, i)'
<1> DEFINE st == NewStatus(w[m].obj, i, cloud'[i])
<1>1. st \in Statuses /\ st.id = i
  BY NewStatusType
<1>2. w[m].before.id = NoId /\ w[m].obj.status.id = NoId
  BY DEF CreateSucceeds, CopiesSound, GoodWorker, Knows
<1>3. NoId \notin Ids
  BY NetworkAssumption
<1>4. SaveStatus(m, st, NoStatus)
  BY DEF Saves
<1> HIDE DEF st
<1>5. ~ statusUnchanged(w[m].before, st)
  BY <1>1, <1>2, <1>3 DEF statusUnchanged
<1>6. w' = [w EXCEPT ![m].pc = "write", ![m].st = st]
  BY <1>4, <1>5 DEF SaveStatus
<1>7. /\ w'[m].pc = "write"
      /\ w'[m].st = st
      /\ w'[m].obj = w[m].obj
  BY <1>6, CopyType DEF TypeInv, TypeOK, Workers
<1> QED BY <1>1, <1>2, <1>7 DEF InHand

(* A worker about to write ends with that write, a failure or a restart. *)
LEMMA WriterOnlyStops ==
  ASSUME TypeInv, [Next]_vars, NEW m \in Managers, w[m].pc = "write"
  PROVE  w'[m] = w[m] \/ w'[m].pc = "idle"
<1> DEFINE OK == w'[m] = w[m] \/ w'[m].pc = "idle"
<1>0. w \in [Managers -> Workers(Statuses, Calls)]
  BY DEF TypeInv, TypeOK
<1>1. CASE UNCHANGED w
  BY <1>1
<1>2. ASSUME NEW n \in Managers, WriteBack(n) \/ Fail(n) \/ Crash(n) PROVE OK
  <2>1. w' = [w EXCEPT ![n] = Idle(NoStatus)]
    BY <1>2 DEF WriteBack, StatusUpdate, Fail, CallFails, Crash, Restart, Return
  <2> QED BY <1>0, <2>1 DEF Idle
<1>3. ASSUME NEW n \in Managers, Reconcile(n) PROVE OK
  <2>1. n # m
    BY <1>3 DEF Reconcile
  <2> QED BY <1>0, <1>3, <2>1 DEF Reconcile
<1>4. ASSUME NEW n \in Managers, Step(n) \/ CreateFailed(n), ~ WriteBack(n) PROVE OK
  <2>1. n # m
    BY <1>4 DEF Step, AddFinalizer, ensureFinalizer, DropFinalizer,
                removeFinalizerAndUpdate, AdoptGet, Recheck, idAlreadyPresent,
                CreateSucceeds, CreateFailed, ObserveMissing, ObserveNetwork,
                ObserveDrift, UpdateNetwork, DeleteGet, DeleteNetwork
  <2>2. w'[m] = w[m]
    BY <1>0, <1>4, <2>1
       DEF Step, AddFinalizer, ensureFinalizer, DropFinalizer,
           removeFinalizerAndUpdate, AdoptGet, Recheck, idAlreadyPresent,
           CreateSucceeds, CreateFailed, ObserveMissing, ObserveNetwork,
           ObserveDrift, UpdateNetwork, DeleteGet, DeleteNetwork, SaveStatus, Return
  <2> QED BY <2>2
<1> QED BY <1>1, <1>2, <1>3, <1>4
        DEF Next, vars, User, Informer, Settle, Detach, OutOfBand

(* While a network is there, the object that records it stops to do so     *)
(* only when a user deletes it and it has no finalizer.                    *)
LEMMA RecordKept ==
  ASSUME TypeInv, CopiesSound, [Next]_vars, NEW i \in Ids,
         Live(i), Recorded(i), ~ Recorded(i)'
  PROVE  ~ api.finalizer /\ ~ api'.exists
<1> DEFINE OK == ~ api.finalizer /\ ~ api'.exists
<1>0. api \in Versions(Statuses) /\ api.status \in Statuses
  BY DEF TypeInv, TypeOK, KubeTypeOK, Versions
<1>a. api' # api /\ api.exists /\ api.status.id = i
  BY DEF Recorded
<1>b. cloud[i].state # "gone" /\ i # NoId
  BY NetworkAssumption DEF Live, IsNotFound, Absent
<1>1. CASE User
  <2>1. ASSUME NEW s \in Specs, UserEdit(s) PROVE FALSE
    <3>1. api'.status = api.status /\ api'.exists
      BY <1>0, <1>a, <2>1 DEF UserEdit, Publish, Versions
    <3> QED BY <1>a, <3>1 DEF Recorded
  <2>2. CASE UserDelete /\ api.finalizer
    <3>1. api'.status = api.status /\ api'.exists
      BY <1>0, <1>a, <2>2 DEF UserDelete, Publish, Versions
    <3> QED BY <1>a, <3>1 DEF Recorded
  <2>3. CASE UserDelete /\ ~ api.finalizer
    BY <1>0, <2>3 DEF UserDelete, Publish, Versions
  <2> QED BY <1>1, <1>a, <2>1, <2>2, <2>3 DEF User, UserCreate
<1>2. ASSUME NEW m \in Managers, AddFinalizer(m) PROVE FALSE
  <2>1. w[m].obj = api
    BY <1>2, <1>a, UpToDateIsCurrent DEF AddFinalizer, ensureFinalizer
  <2>2. api'.status = api.status /\ api'.exists
    BY <1>0, <1>2, <1>a, <2>1
       DEF AddFinalizer, ensureFinalizer, WriteFinalizer, Publish, Versions
  <2> QED BY <1>a, <2>2 DEF Recorded
<1>3. ASSUME NEW m \in Managers, DropFinalizer(m) PROVE FALSE
  <2>1. w[m].obj = api /\ w[m].pc = "dropFinalizer"
    BY <1>3, <1>a, UpToDateIsCurrent DEF DropFinalizer, removeFinalizerAndUpdate
  <2> QED BY <1>a, <1>b, <2>1 DEF CopiesSound, GoodWorker, Knows, Gone
<1>4. ASSUME NEW m \in Managers, WriteBack(m) PROVE FALSE
  <2>1. w[m].obj = api /\ w[m].pc = "write"
    BY <1>4, <1>a, UpToDateIsCurrent DEF WriteBack, StatusUpdate
  <2>2. w[m].st.id = i
    BY <1>a, <1>b, <2>1 DEF CopiesSound, GoodWorker, Knows, Gone
  <2>3. api'.status = w[m].st /\ api'.exists
    BY <1>0, <1>4, <1>a, <2>1, CopyType
       DEF WriteBack, StatusUpdate, WriteStatus, Publish, Versions
  <2> QED BY <2>2, <2>3 DEF Recorded
<1>5. ASSUME NEW m \in Managers,
             \/ Informer(m) \/ Reconcile(m) \/ Step(m)
             \/ CreateFailed(m) \/ Fail(m) \/ Crash(m)
      PROVE OK
  BY <1>a, <1>2, <1>3, <1>4, <1>5
     DEF Informer, Sync, Resync, Reconcile, Step, AdoptGet, Recheck,
         idAlreadyPresent, CreateSucceeds, CreateFailed, ObserveMissing,
         ObserveNetwork, ObserveDrift, UpdateNetwork, DeleteGet, DeleteNetwork,
         Fail, CallFails, Crash, Restart, Relist
<1> QED BY <1>1, <1>5, <1>a DEF Next, vars, Settle, Detach, OutOfBand

(* For any number of managers, with or without leader election, a network  *)
(* that is still there is lost track of only if the reply to its creation  *)
(* or the status write after it is lost, or if its object is deleted while *)
(* it carries no finalizer: the NotFound branch of reconcileExisting and   *)
(* the end of reconcileDelete drop an ID only after STACKIT has answered   *)
(* 404 for it, and no write based on a stale copy overwrites one.          *)
THEOREM OnlyLostWritesOrphan == Spec => OrphanOnlyFromLostWrite
<1> DEFINE Allowed(i) ==
             \/ Orphan(i)
             \/ cloud[i].state = "none" /\ left'.faults < left.faults
             \/ \E m \in Managers : InHand(m, i) /\ w'[m].pc = "idle"
             \/ Recorded(i) /\ ~ api.finalizer /\ ~ api'.exists
<1>1. ASSUME TypeInv, CopiesSound, [Next]_vars, NEW i \in Ids, Orphan(i)'
      PROVE  Allowed(i)
  <2>0. Live(i)' /\ ~ Recorded(i)' /\ \A m \in Managers : ~ InHand(m, i)'
    BY <1>1 DEF Orphan
  <2>1. CASE ~ Live(i)
    <3>1. cloud[i].state = "none" /\ cloud'[i].state # "none"
      BY <1>1, <2>0, <2>1, CloudStep DEF Live, IsNotFound, Absent
    <3> QED BY <1>1, <2>0, <3>1, OnlyCreateMakes, CreatedInHand
  <2>2. CASE Live(i) /\ Recorded(i)
    BY <1>1, <2>0, <2>2, RecordKept
  <2>3. ASSUME NEW m \in Managers, InHand(m, i) PROVE Allowed(i)
    <3>1. w'[m] # w[m]
      BY <2>0, <2>3 DEF InHand
    <3> QED BY <1>1, <2>3, <3>1, WriterOnlyStops DEF InHand
  <2> QED BY <2>1, <2>2, <2>3 DEF Orphan
<1>2. TypeInv /\ CopiesSound /\ [Next]_vars
        => [\A i \in Ids : Orphan(i)' => Allowed(i)]_vars
  BY <1>1
<1> QED BY <1>2, TypeInvariant, CopiesInvariant, PTL
        DEF Spec, OrphanOnlyFromLostWrite
=============================================================================
