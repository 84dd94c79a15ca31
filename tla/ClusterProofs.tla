---------------------------- MODULE ClusterProofs ----------------------------
(***************************************************************************)
(* Theorems about ClusterController: for any managers, its types, what its *)
(* corrections achieve and that an adopted cluster is only observed; for   *)
(* at most one manager, that no cluster is left behind and that only the   *)
(* cluster of an object that is there is changed.                          *)
(***************************************************************************)
EXTENDS ClusterController, FiniteSetTheorems, SequenceTheorems, TLAPS

-----------------------------------------------------------------------------
(***************************************************************************)
(* The comparisons of reconcileDrift find nothing to correct in what SKE   *)
(* makes of BuildClusterPayload.                                           *)
(***************************************************************************)

LEMMA ListIsSeq ==
  ASSUME NEW x, IsList(x)
  PROVE  /\ x \in Seq(ToSet(x))
         /\ DOMAIN x = 1..Len(x)
<1>1. Len(x) \in Nat /\ x \in [1..Len(x) -> ToSet(x)]
  BY DEF IsList, ToSet
<1> QED BY <1>1, SeqDef

(* A list that is mapped keeps its length. *)
LEMMA MappedLen ==
  ASSUME NEW n \in Nat, NEW y, y = [k \in 1..n |-> y[k]] PROVE Len(y) = n
<1>1. y \in [1..n -> ToSet(y)]
  BY DEF ToSet
<1>2. y \in Seq(ToSet(y))
  BY <1>1, SeqDef
<1> QED BY <1>1, <1>2, LenProperties

(* The place of the k-th element of a list of length n in its reverse. *)
LEMMA MirrorBijects ==
  ASSUME NEW z, IsList(z), NEW x
  PROVE  Cardinality({k \in DOMAIN Reverse(z) : Reverse(z)[k] = x})
           = Cardinality({k \in DOMAIN z : z[k] = x})
<1> DEFINE n == Len(z)
           r == Reverse(z)
           S == {k \in 1..n : z[k] = x}
           T == {k \in 1..n : r[k] = x}
           mirror == [k \in S |-> (n - k) + 1]
<1>1. n \in Nat /\ DOMAIN z = 1..n
  BY DEF IsList
<1>2. r = [k \in 1..n |-> z[(n - k) + 1]]
  BY DEF Reverse
<1> HIDE DEF n, r
<1>3. \A k \in 1..n : (n - k) + 1 \in 1..n /\ (n - ((n - k) + 1)) + 1 = k
  BY <1>1
<1>4. mirror \in Bijection(S, T)
  <2>1. mirror \in [S -> T]
    BY <1>2, <1>3
  <2>2. \A a, b \in S : mirror[a] = mirror[b] => a = b
    BY <1>1
  <2>3. ASSUME NEW t \in T PROVE \E s \in S : mirror[s] = t
    <3>1. (n - t) + 1 \in S /\ mirror[(n - t) + 1] = t
      BY <1>2, <1>3
    <3> QED BY <3>1
  <2> QED BY <2>1, <2>2, <2>3 DEF Bijection, Injection, Surjection, IsInjective
<1>5. IsFiniteSet(1..n)
  BY <1>1, FS_Interval
<1>6. IsFiniteSet(S)
  BY <1>5, FS_Subset
<1> HIDE DEF S, T, mirror
<1>7. Cardinality(T) = Cardinality(S)
  BY <1>4, <1>6, FS_Bijection DEF ExistsBijection
<1> QED BY <1>1, <1>2, <1>7 DEF S, T, n, r

(* SKE lists the zones of a pool in an order of its own. *)
LEMMA ReverseEqual ==
  ASSUME NEW z, IsList(z) PROVE stringSlicesEqualUnordered(Reverse(z), z)
<1> DEFINE n == Len(z)
           r == Reverse(z)
<1>1. n \in Nat /\ DOMAIN z = 1..n
  BY DEF IsList
<1>2. r = [k \in 1..n |-> z[(n - k) + 1]]
  BY DEF Reverse
<1> HIDE DEF n, r
<1>3. Len(r) = n
  BY <1>1, <1>2, MappedLen
<1>4. \A k \in 1..n : (n - k) + 1 \in 1..n /\ (n - ((n - k) + 1)) + 1 = k
  BY <1>1
<1>5. Range(r) = Range(z)
  BY <1>1, <1>2, <1>4 DEF Range
<1>6. \A x : Cardinality({k \in DOMAIN r : r[k] = x}) = Cardinality({k \in DOMAIN z : z[k] = x})
  BY MirrorBijects DEF r
<1>7. ToBag(r) = ToBag(z)
  BY <1>5, <1>6 DEF ToBag
<1> QED BY <1>3, <1>7 DEF n, r, stringSlicesEqualUnordered

(* What is left of a pool on the way to SKE and back. *)
LEMMA PoolSettles ==
  ASSUME NEW p, IsPool(p),
         NEW b, b = [p EXCEPT !.minimum = Int32(@), !.maximum = Int32(@), !.size = Int32(@)]
  PROVE  samePool(StoredPool(b), p) /\ StoredPool(b).name = p.name
<1> DEFINE q == StoredPool(b)
<1>1. p = [name |-> p.name, machine |-> p.machine, minimum |-> p.minimum,
           maximum |-> p.maximum, size |-> p.size, type |-> p.type, zones |-> p.zones]
  BY Zenon DEF IsPool
<1>2. b = [name |-> p.name, machine |-> p.machine, minimum |-> Int32(p.minimum),
           maximum |-> Int32(p.maximum), size |-> Int32(p.size), type |-> p.type,
           zones |-> p.zones]
  BY <1>1
<1>3. q = [b EXCEPT !.type = IF @ = "" THEN "standard" ELSE @, !.zones = Reverse(@)]
  BY DEF StoredPool
<1>4. /\ q.name = p.name /\ q.machine = p.machine
      /\ q.minimum = Int32(p.minimum) /\ q.maximum = Int32(p.maximum)
      /\ q.size = Int32(p.size)
      /\ q.type = IF p.type = "" THEN "standard" ELSE p.type
      /\ q.zones = Reverse(p.zones)
  BY <1>2, <1>3
<1>5. stringSlicesEqualUnordered(q.zones, p.zones)
  BY <1>4, ReverseEqual DEF IsPool
<1> QED BY <1>4, <1>5 DEF samePool

LEMMA PoolsSettle ==
  ASSUME NEW s \in Specs
  PROVE  nodepoolsEqual(Stored(BuildClusterPayload(s)).pools, s.pools)
<1> DEFINE n == Len(s.pools)
           sent == buildNodepools(s.pools)
           got == Stored(BuildClusterPayload(s)).pools
<1>1. n \in Nat /\ DOMAIN s.pools = 1..n
  BY ClusterAssumption DEF IsList
<1>2. sent = [k \in 1..n |-> [s.pools[k] EXCEPT !.minimum = Int32(@),
                                !.maximum = Int32(@), !.size = Int32(@)]]
  BY <1>1 DEF buildNodepools
<1>3. got = [k \in 1..n |-> StoredPool(sent[k])]
  BY <1>2 DEF Stored, BuildClusterPayload
<1> HIDE DEF sent, got
<1>4. Len(got) = n
  BY <1>1, <1>3, MappedLen
<1>5. ASSUME NEW j \in 1..n PROVE samePool(got[j], s.pools[j]) /\ got[j].name = s.pools[j].name
  <2>1. IsPool(s.pools[j])
    BY <1>1, ClusterAssumption
  <2> DEFINE p == s.pools[j]
             b == sent[j]
  <2>2. b = [p EXCEPT !.minimum = Int32(@), !.maximum = Int32(@), !.size = Int32(@)]
    BY <1>2
  <2>3. got[j] = StoredPool(b)
    BY <1>3
  <2> HIDE DEF b, p
  <2>4. IsPool(p)
    BY <2>1 DEF p
  <2>5. samePool(StoredPool(b), p) /\ StoredPool(b).name = p.name
    BY <2>2, <2>4, PoolSettles
  <2> QED BY <2>3, <2>5 DEF p
<1>6. ASSUME NEW j \in 1..n PROVE j \in byName(got, s.pools[j].name)
  <2>1. \A l \in 1..n : s.pools[l].name = s.pools[j].name => l = j
    BY <1>1, ClusterAssumption
  <2>2. DOMAIN got = 1..n
    BY <1>3
  <2>3. \A l \in DOMAIN got : got[l].name = s.pools[j].name => l = j
    BY <1>5, <2>1, <2>2
  <2>4. \A l \in DOMAIN got : got[l].name = s.pools[j].name => l <= j
    BY <1>1, <2>2, <2>3
  <2> QED BY <1>5, <2>2, <2>4 DEF byName
<1>7. \A j \in DOMAIN s.pools : \E k \in byName(got, s.pools[j].name) :
        samePool(got[k], s.pools[j])
  BY <1>1, <1>5, <1>6
<1> QED BY <1>4, <1>7 DEF nodepoolsEqual, got, n

LEMMA MaintenanceSettles ==
  ASSUME NEW s \in Specs
  PROVE  maintenanceEqual(StoredMaintenance(s.maintenance), s.maintenance)
<1> DEFINE mt == s.maintenance
<1> SUFFICES ASSUME mt # NoMaintenance PROVE maintenanceEqual(StoredMaintenance(mt), mt)
  BY DEF maintenanceEqual
<1>1. /\ mt = [kubernetesVersion |-> mt.kubernetesVersion,
               machineImage |-> mt.machineImage, start |-> mt.start, end |-> mt.end]
      /\ StoredMaintenance(mt) # NoMaintenance
  BY ClusterAssumption DEF IsMaintenance
<1>2. StoredMaintenance(mt)
        = [kubernetesVersion |-> mt.kubernetesVersion, machineImage |-> mt.machineImage,
           start |-> ClockOnly(mt.start), end |-> ClockOnly(mt.end)]
  BY <1>1 DEF StoredMaintenance
<1> QED BY <1>1, <1>2 DEF maintenanceEqual, sameTimeOfDay, ClockOnly

LEMMA SpecSettles ==
  ASSUME NEW s \in Specs
  PROVE  ~ reconcileDrift(Stored(BuildClusterPayload(s)), s)
BY PoolsSettle, MaintenanceSettles DEF reconcileDrift, Stored, BuildClusterPayload

-----------------------------------------------------------------------------
(***************************************************************************)
(* The copies of the object, what a worker may do with the one it holds,   *)
(* and the clusters.                                                       *)
(***************************************************************************)

(* The cluster an object stands for. *)
Target(o) == IF Adopted(o) THEN o.spec.existing ELSE clusterName(o)

Covered(o) == Adopted(o) \/ o.finalizer

(* No copy, however stale, records a cluster that is not its own, has a    *)
(* finalizer for an adopted cluster or lacks it for an owned one.          *)
Proper(o) ==
  /\ o.status.clusterName \in {NoId, Target(o)}
  /\ Adopted(o) => ~ o.finalizer
  /\ o.exists /\ o.status.clusterName # NoId => Covered(o)

(* The calls of the two branches of reconcile. *)
KeepCalls == {"addFinalizer", "adoptGet", "create", "existsGet", "get", "update"}

DeleteCalls == {"delGet", "delete", "dropFinalizer"}

(* A call is one that the copy calls for. *)
WorksOn(x) ==
  LET o == x.obj  n == o.status.clusterName
  IN  /\ Proper(o)
      /\ x.pc # "idle" => o.exists
      /\ x.pc \in KeepCalls => ~ o.deleting
      /\ x.pc \in DeleteCalls => o.deleting /\ o.finalizer
      /\ x.pc \in {"addFinalizer", "create", "existsGet", "update"} => ~ Adopted(o)
      /\ x.pc = "adoptGet" => Adopted(o)
      /\ x.pc \in {"create", "existsGet", "get", "update", "write"} => Covered(o)
      /\ x.pc \in {"get", "update", "delGet", "delete"} => n # NoId
      /\ x.pc \in {"delete", "write"} => x.st.clusterName \in {NoId, Target(o)}
      /\ x.pc \in {"delete", "write"} /\ o.deleting => x.st.clusterName = n

Objects == {o \in Versions(Statuses) : Proper(o)}

Works == {x \in Workers(Statuses, Calls) : WorksOn(x)}

IsCluster(c) ==
  /\ c = [state |-> c.state, cfg |-> c.cfg, operators |-> c.operators]
  /\ c.state \in States \cup {"none"}
  /\ c.state = "none" => c.cfg = NoCfg
  /\ c.state # "none" =>
       /\ c.cfg = [version |-> c.cfg.version, pools |-> c.cfg.pools,
                   maintenance |-> c.cfg.maintenance]
       /\ c.cfg.version \in Nat

Lefts == [edits: Nat, faults: Nat, outages: Nat]

CloudInv ==
  /\ cloud = [n \in Names |-> cloud[n]]
  /\ \A n \in Names : IsCluster(cloud[n])

TypeInv ==
  /\ api \in Objects
  /\ cache \in [Managers -> Objects]
  /\ watch \in [Managers -> SUBSET Objects]
  /\ queued \in [Managers -> BOOLEAN]
  /\ left \in Lefts
  /\ w \in [Managers -> Works]
  /\ CloudInv

(* NoCfg stands for no configuration. *)
NoCfgApart ==
  \A v, p, mt : NoCfg # [version |-> v, pools |-> p, maintenance |-> mt]

-----------------------------------------------------------------------------
(* The operators on statuses and workers respect the types. *)

LEMMA NoStatusType == NoStatus \in Statuses /\ NoStatus.clusterName = NoId
BY DEF NoStatus, Statuses, Reasons, States

LEMMA NoObjectType == NoObject(NoStatus) \in Objects
<1>1. NoObject(NoStatus) \in Versions(Statuses)
  BY NoStatusType, SpecsAssumption DEF NoObject, Versions
<1>2. Proper(NoObject(NoStatus))
  BY NoStatusType DEF NoObject, Proper
<1> QED BY <1>1, <1>2 DEF Objects

LEMMA IdleType == Idle(NoStatus) \in Works
<1>1. Idle(NoStatus) \in Workers(Statuses, Calls)
  BY NoStatusType, NoObjectType DEF Idle, Workers, Objects
<1>2. WorksOn(Idle(NoStatus))
  BY NoObjectType DEF Idle, WorksOn, Objects, KeepCalls, DeleteCalls
<1> QED BY <1>1, <1>2 DEF Works

LEMMA ApplyType ==
  ASSUME NEW o \in Objects, NEW st \in Statuses, NEW c, IsCluster(c), c.state # "none"
  PROVE  /\ applyClusterStatus(o, st, c) \in Statuses
         /\ applyClusterStatus(o, st, c).clusterName = st.clusterName
<1>1. o.gen \in Nat /\ c.state \in States /\ c.cfg.version \in Nat
  BY DEF Objects, Versions, IsCluster
<1> QED BY <1>1 DEF applyClusterStatus, Statuses

LEMMA ConditionType ==
  ASSUME NEW o \in Objects, NEW st \in Statuses, NEW r \in Reasons
  PROVE  /\ setReadyCondition(o, st, r) \in Statuses
         /\ setReadyCondition(o, st, r).clusterName = st.clusterName
BY DEF setReadyCondition, Objects, Versions, Statuses

LEMMA ReasonType == \A s : ObservedReason(s) \in Reasons
BY DEF ObservedReason, Reasons

LEMMA NameType ==
  ASSUME NEW st \in Statuses, NEW n \in Names \cup {NoId}
  PROVE  /\ [st EXCEPT !.clusterName = n] \in Statuses
         /\ [st EXCEPT !.clusterName = n].clusterName = n
BY DEF Statuses

LEMMA CreatedType ==
  ASSUME NEW o \in Objects, NEW n \in Names, NEW c, IsCluster(c), c.state # "none"
  PROVE  /\ CreatedStatus(o, n, c) \in Statuses
         /\ CreatedStatus(o, n, c).clusterName = n
<1> DEFINE st == [o.status EXCEPT !.clusterName = n]
           st2 == applyClusterStatus(o, st, c)
<1>1. st \in Statuses /\ st.clusterName = n
  BY NameType DEF Objects, Versions
<1> HIDE DEF st
<1>2. st2 \in Statuses /\ st2.clusterName = n
  BY <1>1, ApplyType
<1> HIDE DEF st2
<1>3. setReadyCondition(o, st2, "Creating") \in Statuses
      /\ setReadyCondition(o, st2, "Creating").clusterName = n
  BY <1>2, ConditionType DEF Reasons
<1> QED BY <1>3 DEF CreatedStatus, st2, st

(* The first call of a reconcile is one that its copy is fit for. *)
LEMMA ReconcileType ==
  ASSUME NEW o \in Objects, reconcile(o) # "idle"
  PROVE  WorkingOn(reconcile(o), o) \in Works
<1> DEFINE x == WorkingOn(reconcile(o), o)
<1>1. reconcile(o) \in Calls
  BY DEF reconcile, reconcileDelete, Calls
<1>2. x \in Workers(Statuses, Calls)
  BY <1>1 DEF WorkingOn, Workers, Objects, Versions
<1>3. x.obj = o /\ x.pc = reconcile(o) /\ x.st = o.status
  BY DEF WorkingOn
<1>4. Proper(o)
  BY DEF Objects
<1> HIDE DEF x
<1>5. WorksOn(x)
  BY <1>3, <1>4
     DEF reconcile, reconcileDelete, WorksOn, Covered, KeepCalls, DeleteCalls
<1> QED BY <1>2, <1>5 DEF Works, x

(* Return and SaveStatus change only the worker of m and its queue. *)
LEMMA ReturnType ==
  ASSUME NEW m \in Managers, NEW again \in BOOLEAN, TypeInv, Return(m, again, NoStatus)
  PROVE  w' \in [Managers -> Works] /\ queued' \in [Managers -> BOOLEAN]
BY IdleType DEF Return, TypeInv

LEMMA SaveStatusType ==
  ASSUME NEW m \in Managers, TypeInv, NEW st \in Statuses,
         w[m].pc # "idle", Covered(w[m].obj),
         st.clusterName \in {NoId, Target(w[m].obj)},
         w[m].obj.deleting => st.clusterName = w[m].obj.status.clusterName,
         SaveStatus(m, st, NoStatus)
  PROVE  w' \in [Managers -> Works] /\ queued' \in [Managers -> BOOLEAN]
<1>1. CASE statusUnchanged(w[m].before, st)
  BY <1>1, ReturnType DEF SaveStatus
<1>2. CASE ~ statusUnchanged(w[m].before, st)
  <2> DEFINE x == [w[m] EXCEPT !.pc = "write", !.st = st]
  <2>0. w[m] \in Workers(Statuses, Calls) /\ WorksOn(w[m])
    BY DEF TypeInv, Works
  <2>1. w' = [w EXCEPT ![m] = x] /\ UNCHANGED queued
    BY <1>2 DEF SaveStatus, TypeInv
  <2>2. x \in Workers(Statuses, Calls)
    BY <2>0 DEF Workers, Calls
  <2>3. x.pc = "write" /\ x.obj = w[m].obj /\ x.st = st
    BY <2>0 DEF Workers
  <2> HIDE DEF x
  <2>4. WorksOn(x)
    BY <2>0, <2>3 DEF WorksOn, KeepCalls, DeleteCalls
  <2> QED BY <2>1, <2>2, <2>4 DEF TypeInv, Works
<1> QED BY <1>1, <1>2

-----------------------------------------------------------------------------
(* The API server's side: every accepted write is a proper version. *)

LEMMA PublishType ==
  ASSUME TypeInv, NEW v \in Objects, Publish(v)
  PROVE  api' \in Objects /\ watch' \in [Managers -> SUBSET Objects]
<1> DEFINE u == [v EXCEPT !.rv = api.rv + 1]
<1>1. api' = u /\ api.rv \in Nat
  BY DEF Publish, TypeInv, Objects, Versions
<1>2. u \in Versions(Statuses)
  BY <1>1 DEF Objects, Versions
<1>3. /\ u.status = v.status /\ u.spec = v.spec
      /\ u.finalizer = v.finalizer /\ u.exists = v.exists
  BY DEF Objects, Versions
<1> HIDE DEF u
<1>4. Proper(u)
  BY <1>3 DEF Objects, Proper, Target, Covered, Adopted, clusterName
<1>5. api' \in Objects
  BY <1>1, <1>2, <1>4 DEF Objects
<1> QED BY <1>5 DEF Publish, TypeInv

LEMMA SpendType ==
  ASSUME TypeInv, NEW what \in {"edits", "faults", "outages"}, Spend(what)
  PROVE  left' \in Lefts
BY DEF Spend, TypeInv, Lefts

LEMMA UserType == ASSUME TypeInv, User PROVE TypeInv'
<1> USE DEF User
<1>0. api \in Versions(Statuses) /\ Proper(api)
  BY DEF TypeInv, Objects
<1>1. CASE \E s \in Specs : UserCreate(s, NoStatus)
  <2>1. PICK s \in Specs : UserCreate(s, NoStatus)
    BY <1>1
  <2> DEFINE v == [exists |-> TRUE, rv |-> 0, gen |-> 1, deleting |-> FALSE,
                   finalizer |-> FALSE, spec |-> s, status |-> NoStatus]
  <2>2. v \in Versions(Statuses) /\ Publish(v)
    BY <2>1, NoStatusType DEF UserCreate, Versions
  <2>3. v.status.clusterName = NoId /\ ~ v.finalizer
    BY NoStatusType
  <2> HIDE DEF v
  <2>4. v \in Objects
    BY <2>2, <2>3 DEF Objects, Proper
  <2>5. left' \in Lefts
    BY <2>1, SpendType DEF UserCreate, TypeInv
  <2> QED BY <2>1, <2>2, <2>4, <2>5, PublishType DEF UserCreate, TypeInv, CloudInv
<1>2. CASE \E s \in Specs : /\ s.existing = api.spec.existing /\ s.name = api.spec.name
                             /\ UserEdit(s)
  <2>1. PICK s \in Specs : /\ s.existing = api.spec.existing /\ s.name = api.spec.name
                           /\ UserEdit(s)
    BY <1>2
  <2> DEFINE g == IF s = api.spec THEN api.gen ELSE api.gen + 1
             v == [api EXCEPT !.spec = s, !.gen = g]
  <2>2. Publish(v)
    BY <2>1, <1>0 DEF UserEdit, Versions
  <2>3. g \in Nat
    BY <1>0 DEF Versions
  <2> HIDE DEF g
  <2>4. v \in Versions(Statuses)
    BY <1>0, <2>3 DEF Versions
  <2>5. /\ v.status = api.status /\ v.spec = s
        /\ v.finalizer = api.finalizer /\ v.exists = api.exists
    BY <1>0 DEF Versions
  <2> HIDE DEF v
  <2>6. v \in Objects
    BY <1>0, <2>1, <2>4, <2>5 DEF Objects, Proper, Target, Covered, Adopted, clusterName
  <2>7. left' \in Lefts
    BY <2>1, SpendType DEF UserEdit
  <2> QED BY <2>1, <2>2, <2>6, <2>7, PublishType DEF UserEdit, TypeInv, CloudInv
<1>3. CASE UserDelete
  <2> DEFINE v == IF api.finalizer
                    THEN [api EXCEPT !.deleting = TRUE, !.gen = @ + 1]
                    ELSE [api EXCEPT !.exists = FALSE]
  <2>1. Publish(v)
    BY <1>3 DEF UserDelete
  <2>2. v \in Versions(Statuses)
    <3>0. api.gen + 1 \in Nat
      BY <1>0 DEF Versions
    <3>1. [api EXCEPT !.deleting = TRUE, !.gen = @ + 1] \in Versions(Statuses)
      BY <1>0, <3>0 DEF Versions
    <3>2. [api EXCEPT !.exists = FALSE] \in Versions(Statuses)
      BY <1>0 DEF Versions
    <3> QED BY <3>1, <3>2
  <2>3. /\ v.status = api.status /\ v.spec = api.spec
        /\ v.finalizer = api.finalizer
        /\ v.exists => api.exists
    BY <1>0, <1>3 DEF Versions, UserDelete
  <2> HIDE DEF v
  <2>4. v \in Objects
    BY <1>0, <2>2, <2>3 DEF Objects, Proper, Target, Covered, Adopted, clusterName
  <2> QED BY <1>3, <2>1, <2>4, PublishType DEF UserDelete, TypeInv, CloudInv
<1> QED BY <1>1, <1>2, <1>3

LEMMA InformerType == ASSUME TypeInv, NEW m \in Managers, Informer(m) PROVE TypeInv'
<1>1. CASE Sync(m)
  BY <1>1 DEF Sync, Informer, TypeInv, CloudInv
<1>2. CASE Resync(m)
  BY <1>2 DEF Resync, Informer, TypeInv, CloudInv
<1> QED BY <1>1, <1>2 DEF Informer

(* The writes to the API server that end a reconcile. *)
LEMMA WriteType ==
  ASSUME TypeInv, NEW m \in Managers,
         AddFinalizer(m) \/ DropFinalizer(m) \/ WriteBack(m)
  PROVE  TypeInv'
<1> DEFINE o == w[m].obj
<1>0. /\ o \in Versions(Statuses) /\ Proper(o)
      /\ w[m].st \in Statuses
      /\ WorksOn(w[m])
  BY DEF TypeInv, Works, WorksOn, Workers
<1>1. CASE AddFinalizer(m)
  <2> DEFINE v == [o EXCEPT !.finalizer = TRUE]
  <2>1. v \in Versions(Statuses)
    BY <1>0 DEF Versions
  <2>2. v.status = o.status /\ v.spec = o.spec /\ v.finalizer
    BY <1>0 DEF Versions
  <2>3. ~ Adopted(o)
    BY <1>0, <1>1 DEF AddFinalizer, ensureFinalizer, WorksOn
  <2>4. UNCHANGED <<api, watch>> \/ Publish(v)
    BY <1>1 DEF AddFinalizer, ensureFinalizer, WriteFinalizer
  <2> HIDE DEF v
  <2>5. v \in Objects
    BY <1>0, <2>1, <2>2, <2>3 DEF Objects, Proper, Target, Covered, Adopted, clusterName
  <2>6. api' \in Objects /\ watch' \in [Managers -> SUBSET Objects]
    BY <2>4, <2>5, PublishType DEF TypeInv
  <2> QED BY <1>1, <2>6, ReturnType DEF AddFinalizer, ensureFinalizer, TypeInv, CloudInv
<1>2. CASE DropFinalizer(m)
  <2> DEFINE v == [o EXCEPT !.finalizer = FALSE, !.exists = ~ o.deleting]
  <2>1. v \in Versions(Statuses)
    BY <1>0 DEF Versions
  <2>2. o.deleting
    BY <1>0, <1>2 DEF DropFinalizer, removeFinalizerAndUpdate, WorksOn, DeleteCalls
  <2>3. v.status = o.status /\ v.spec = o.spec /\ ~ v.finalizer /\ ~ v.exists
    BY <1>0, <2>2 DEF Versions
  <2>4. UNCHANGED <<api, watch>> \/ Publish(v)
    BY <1>2 DEF DropFinalizer, removeFinalizerAndUpdate, WriteNoFinalizer
  <2> HIDE DEF v
  <2>5. v \in Objects
    BY <1>0, <2>1, <2>3 DEF Objects, Proper, Target, Adopted, clusterName
  <2>6. api' \in Objects /\ watch' \in [Managers -> SUBSET Objects]
    BY <2>4, <2>5, PublishType DEF TypeInv
  <2>7. Return(m, TRUE, NoStatus) \/ Return(m, FALSE, NoStatus)
    BY <1>2 DEF DropFinalizer, removeFinalizerAndUpdate
  <2> QED BY <1>2, <2>6, <2>7, ReturnType
          DEF DropFinalizer, removeFinalizerAndUpdate, TypeInv, CloudInv
<1>3. CASE WriteBack(m)
  <2> DEFINE v == [o EXCEPT !.status = w[m].st]
  <2>1. v \in Versions(Statuses)
    BY <1>0 DEF Versions
  <2>2. /\ v.status = w[m].st /\ v.spec = o.spec
        /\ v.finalizer = o.finalizer /\ v.exists = o.exists
    BY <1>0 DEF Versions
  <2>3. Covered(o) /\ w[m].st.clusterName \in {NoId, Target(o)}
    BY <1>0, <1>3 DEF WriteBack, StatusUpdate, WorksOn
  <2>4. UNCHANGED <<api, watch>> \/ Publish(v)
    BY <1>3 DEF WriteBack, StatusUpdate, WriteStatus
  <2> HIDE DEF v
  <2>5. v \in Objects
    BY <1>0, <2>1, <2>2, <2>3 DEF Objects, Proper, Target, Covered, Adopted, clusterName
  <2>6. api' \in Objects /\ watch' \in [Managers -> SUBSET Objects]
    BY <2>4, <2>5, PublishType DEF TypeInv
  <2>7. Return(m, TRUE, NoStatus)
    BY <1>3 DEF WriteBack, StatusUpdate
  <2> QED BY <1>3, <2>6, <2>7, ReturnType DEF WriteBack, StatusUpdate, TypeInv, CloudInv
<1> QED BY <1>1, <1>2, <1>3

-----------------------------------------------------------------------------
(* The calls of a worker. *)

(* The parts of a worker's copy. *)
LEMMA CopyType ==
  ASSUME TypeInv, NEW m \in Managers
  PROVE  /\ w[m] \in Workers(Statuses, Calls) /\ WorksOn(w[m])
         /\ w[m].obj \in Objects /\ w[m].obj \in Versions(Statuses)
         /\ w[m].obj.spec \in Specs
         /\ w[m].obj.status \in Statuses
         /\ w[m].st \in Statuses
         /\ w[m].obj.spec.name \in Names
         /\ Adopted(w[m].obj) => w[m].obj.spec.existing = Foreign
         /\ w[m].obj.status.clusterName \in {NoId, Target(w[m].obj)}
<1>1. w[m] \in Workers(Statuses, Calls) /\ WorksOn(w[m])
  BY DEF TypeInv, Works
<1>2. w[m].obj \in Versions(Statuses) /\ Proper(w[m].obj) /\ w[m].st \in Statuses
  BY <1>1 DEF Workers, WorksOn
<1>3. w[m].obj.spec \in Specs /\ w[m].obj.status \in Statuses
  BY <1>2 DEF Versions
<1>4. /\ w[m].obj.spec.name \in Names
      /\ w[m].obj.spec.existing \in {NoId, Foreign}
  BY <1>3, ClusterAssumption
<1> QED BY <1>1, <1>2, <1>3, <1>4 DEF Objects, Proper, Adopted, isAdopted

LEMMA TargetType ==
  ASSUME TypeInv, NEW m \in Managers
  PROVE  Target(w[m].obj) \in Names /\ Target(w[m].obj) # NoId
BY CopyType, ClusterAssumption DEF Target, clusterName

LEMMA ReconcileStepType ==
  ASSUME TypeInv, NEW m \in Managers, Reconcile(m) PROVE TypeInv'
<1>1. cache[m] \in Objects
  BY DEF TypeInv
<1>2. PICK x \in Works : w' = [w EXCEPT ![m] = x]
  BY <1>1, ReconcileType, IdleType DEF Reconcile
<1> QED BY <1>2 DEF Reconcile, TypeInv, CloudInv

LEMMA AdoptGetType ==
  ASSUME TypeInv, NEW m \in Managers, AdoptGet(m) PROVE TypeInv'
<1> DEFINE o == w[m].obj
           n == o.spec.existing
           st == [o.status EXCEPT !.clusterName = n]
<1>1. Adopted(o) /\ n = Target(o) /\ ~ o.deleting /\ w[m].pc # "idle"
  BY CopyType DEF AdoptGet, WorksOn, Target, KeepCalls
<1>2. n \in Names /\ o \in Objects /\ o.status \in Statuses
  BY <1>1, TargetType, CopyType
<1>3. st \in Statuses /\ st.clusterName = n
  BY <1>2, NameType
<1> HIDE DEF st
<1>4. /\ setReadyCondition(o, o.status, "NotFound") \in Statuses
      /\ setReadyCondition(o, o.status, "NotFound").clusterName = o.status.clusterName
  BY <1>2, ConditionType DEF Reasons
<1>5. ~ IsNotFound(n) =>
        /\ applyClusterStatus(o, st, cloud[n]) \in Statuses
        /\ applyClusterStatus(o, st, cloud[n]).clusterName = n
  BY <1>2, <1>3, ApplyType DEF TypeInv, CloudInv, IsNotFound
<1>6. PICK new \in Statuses :
        SaveStatus(m, new, NoStatus) /\ new.clusterName \in {NoId, n}
  <2>1. o.status.clusterName \in {NoId, n}
    BY <1>1, CopyType
  <2>2. SaveStatus(m, IF IsNotFound(n) THEN setReadyCondition(o, o.status, "NotFound")
                      ELSE applyClusterStatus(o, st, cloud[n]), NoStatus)
    BY DEF AdoptGet, st
  <2> QED BY <1>4, <1>5, <2>1, <2>2
<1>7. w' \in [Managers -> Works] /\ queued' \in [Managers -> BOOLEAN]
  BY <1>1, <1>6, SaveStatusType DEF Covered
<1> QED BY <1>7 DEF AdoptGet, TypeInv, CloudInv

(* The calls that observe a recorded cluster. *)
LEMMA ObserveType ==
  ASSUME TypeInv, NEW m \in Managers,
         ObserveMissing(m) \/ ObserveCluster(m) \/ ObserveDrift(m)
  PROVE  TypeInv'
<1> DEFINE o == w[m].obj
           n == o.status.clusterName
<1>0. /\ w[m].pc = "get" /\ n # NoId /\ n = Target(o) /\ n \in Names
      /\ ~ o.deleting /\ Covered(o)
  BY CopyType, TargetType
     DEF ObserveMissing, ObserveCluster, ObserveDrift, WorksOn, KeepCalls
<1>1. o \in Objects /\ o.status \in Statuses
  BY CopyType
<1>2. UNCHANGED <<api, cache, watch, left, cloud>>
  BY DEF ObserveMissing, ObserveCluster, ObserveDrift
<1>3. CASE ObserveMissing(m)
  <2>1. /\ NotFoundStatus(o) \in Statuses
        /\ NotFoundStatus(o).clusterName \in {NoId, n}
    BY <1>1, ConditionType, NameType DEF NotFoundStatus, Reasons
  <2>2. SaveStatus(m, NotFoundStatus(o), NoStatus)
    BY <1>3 DEF ObserveMissing
  <2>3. w' \in [Managers -> Works] /\ queued' \in [Managers -> BOOLEAN]
    BY <1>0, <2>1, <2>2, SaveStatusType
  <2> QED BY <1>2, <2>3 DEF TypeInv, CloudInv
<1>4. CASE ObserveCluster(m)
  <2> DEFINE st == applyClusterStatus(o, o.status, cloud[n])
  <2>1. IsCluster(cloud[n]) /\ cloud[n].state # "none"
    BY <1>0, <1>4 DEF ObserveCluster, IsNotFound, TypeInv, CloudInv
  <2>2. st \in Statuses /\ st.clusterName = n
    BY <1>1, <2>1, ApplyType
  <2>3. SaveStatus(m, setReadyCondition(o, st, ObservedReason(cloud[n].state)), NoStatus)
    BY <1>4 DEF ObserveCluster
  <2> HIDE DEF st
  <2>4. /\ setReadyCondition(o, st, ObservedReason(cloud[n].state)) \in Statuses
        /\ setReadyCondition(o, st, ObservedReason(cloud[n].state)).clusterName = n
    BY <1>1, <2>2, ConditionType, ReasonType
  <2>5. w' \in [Managers -> Works] /\ queued' \in [Managers -> BOOLEAN]
    BY <1>0, <2>3, <2>4, SaveStatusType
  <2> QED BY <1>2, <2>5 DEF TypeInv, CloudInv
<1>5. CASE ObserveDrift(m)
  <2> DEFINE x == [w[m] EXCEPT !.pc = "update"]
  <2>1. w' = [w EXCEPT ![m] = x] /\ UNCHANGED queued
    BY <1>5 DEF ObserveDrift, TypeInv
  <2>2. ~ Adopted(o)
    BY <1>5 DEF ObserveDrift, MustNotCorrect
  <2>3. x \in Workers(Statuses, Calls)
    BY CopyType DEF Workers, Calls
  <2>4. x.pc = "update" /\ x.obj = o
    BY CopyType DEF Workers
  <2> HIDE DEF x
  <2>5. WorksOn(x)
    BY <1>0, <2>2, <2>4, CopyType DEF WorksOn, KeepCalls, DeleteCalls
  <2> QED BY <1>2, <2>1, <2>3, <2>5 DEF TypeInv, Works, CloudInv
<1> QED BY <1>3, <1>4, <1>5

LEMMA DeleteGetType ==
  ASSUME TypeInv, NEW m \in Managers, DeleteGet(m) PROVE TypeInv'
<1> DEFINE o == w[m].obj
           n == o.status.clusterName
           st == applyClusterStatus(o, o.status, cloud[n])
<1>0. /\ w[m].pc = "delGet" /\ n # NoId /\ n = Target(o) /\ n \in Names
      /\ o.deleting /\ o.finalizer
  BY CopyType, TargetType DEF DeleteGet, WorksOn, DeleteCalls
<1>1. o \in Objects /\ o.status \in Statuses
  BY CopyType
<1>2. ~ IsNotFound(n) => st \in Statuses /\ st.clusterName = n
  BY <1>0, <1>1, ApplyType DEF IsNotFound, TypeInv, CloudInv
<1>3. UNCHANGED <<api, cache, watch, left, cloud>>
  BY DEF DeleteGet
<1>4. CASE IsNotFound(n) /\ w' = [w EXCEPT ![m].pc = "dropFinalizer"] /\ UNCHANGED queued
  <2> DEFINE x == [w[m] EXCEPT !.pc = "dropFinalizer"]
  <2>1. w' = [w EXCEPT ![m] = x]
    BY <1>4 DEF TypeInv
  <2>2. x \in Workers(Statuses, Calls)
    BY CopyType DEF Workers, Calls
  <2>3. x.pc = "dropFinalizer" /\ x.obj = o
    BY CopyType DEF Workers
  <2> HIDE DEF x
  <2>4. WorksOn(x)
    BY <1>0, <2>3, CopyType DEF WorksOn, KeepCalls, DeleteCalls
  <2> QED BY <1>3, <1>4, <2>1, <2>2, <2>4 DEF TypeInv, Works, CloudInv
<1>5. CASE /\ ~ IsNotFound(n) /\ UNCHANGED queued
           /\ w' = [w EXCEPT ![m].pc = "delete", ![m].st = st]
  <2>0. st \in Statuses /\ st.clusterName = n
    BY <1>2, <1>5
  <2> HIDE DEF st
  <2> DEFINE x == [w[m] EXCEPT !.pc = "delete", !.st = st]
  <2>1. w' = [w EXCEPT ![m] = x]
    BY <1>5 DEF TypeInv
  <2>2. x \in Workers(Statuses, Calls)
    BY <2>0, CopyType DEF Workers, Calls
  <2>3. x.pc = "delete" /\ x.obj = o /\ x.st = st
    BY CopyType DEF Workers
  <2> HIDE DEF x
  <2>4. WorksOn(x)
    BY <1>0, <2>0, <2>3, CopyType DEF WorksOn, KeepCalls, DeleteCalls
  <2> QED BY <1>3, <1>5, <2>1, <2>2, <2>4 DEF TypeInv, Works, CloudInv
<1>6. CASE /\ cloud[n].state = "STATE_DELETING"
           /\ SaveStatus(m, setReadyCondition(o, st, "Deleting"), NoStatus)
  <2>0. st \in Statuses /\ st.clusterName = n
    BY <1>2, <1>6 DEF IsNotFound
  <2> HIDE DEF st
  <2>1. /\ setReadyCondition(o, st, "Deleting") \in Statuses
        /\ setReadyCondition(o, st, "Deleting").clusterName = n
    BY <1>1, <2>0, ConditionType DEF Reasons
  <2>2. w' \in [Managers -> Works] /\ queued' \in [Managers -> BOOLEAN]
    BY <1>0, <1>6, <2>1, SaveStatusType DEF Covered
  <2> QED BY <1>3, <2>2 DEF TypeInv, CloudInv
<1> QED BY <1>4, <1>5, <1>6 DEF DeleteGet

-----------------------------------------------------------------------------
(* The calls that change a cluster. *)

LEMMA ReplaceType ==
  ASSUME CloudInv, NEW n \in Names, NEW v, IsCluster(v), cloud' = [cloud EXCEPT ![n] = v]
  PROVE  /\ CloudInv'
         /\ cloud'[n] = v
         /\ \A k \in Names \ {n} : cloud'[k] = cloud[k]
<1>1. /\ cloud' = [k \in Names |-> cloud'[k]]
      /\ cloud'[n] = v
      /\ \A k \in Names \ {n} : cloud'[k] = cloud[k]
  BY DEF CloudInv
<1>2. \A k \in Names : IsCluster(cloud'[k])
  BY <1>1 DEF CloudInv
<1> QED BY <1>1, <1>2 DEF CloudInv, IsCluster

LEMMA StateType ==
  ASSUME NEW c, IsCluster(c), c.state # "none", NEW s \in States
  PROVE  IsCluster([c EXCEPT !.state = s])
<1> DEFINE v == [c EXCEPT !.state = s]
<1>1. v = [state |-> s, cfg |-> c.cfg, operators |-> c.operators]
  BY DEF IsCluster
<1>2. s # "none"
  BY DEF States, clusterTransitionalStates
<1> HIDE DEF v
<1>3. v.state = s /\ v.cfg = c.cfg /\ v.operators = c.operators
  BY <1>1
<1>4. IsCluster(v)
  BY <1>1, <1>2, <1>3 DEF IsCluster
<1> QED BY <1>4 DEF v

LEMMA NoClusterType == IsCluster(NoCluster)
BY DEF IsCluster, NoCluster

(* What SKE has after an upsert. *)
LEMMA UpsertType ==
  ASSUME CloudInv, NEW n \in Names, NEW s \in Specs,
         CreateOrUpdateCluster(n, BuildClusterPayload(s))
  PROVE  /\ CloudInv'
         /\ IsCluster(cloud'[n])
         /\ cloud'[n].state \in {"", "STATE_RECONCILING"}
         /\ cloud'[n].cfg = Stored(BuildClusterPayload(s))
         /\ \A k \in Names \ {n} : cloud'[k] = cloud[k]
<1> DEFINE cfg == Stored(BuildClusterPayload(s))
           v == IF IsNotFound(n) THEN [state |-> "", cfg |-> cfg, operators |-> TRUE]
                ELSE [cloud[n] EXCEPT !.state = "STATE_RECONCILING", !.cfg = cfg]
<1>1. cloud' = [cloud EXCEPT ![n] = v]
  BY DEF CreateOrUpdateCluster, CloudInv
<1>2. /\ cfg = [version |-> cfg.version, pools |-> cfg.pools,
                maintenance |-> cfg.maintenance]
      /\ cfg.version \in Nat
  BY ClusterAssumption DEF Stored, BuildClusterPayload
<1> HIDE DEF cfg
<1>3. cloud[n] = [state |-> cloud[n].state, cfg |-> cloud[n].cfg,
                  operators |-> cloud[n].operators]
  BY DEF CloudInv, IsCluster
<1>4. /\ v = [state |-> v.state, cfg |-> cfg, operators |-> v.operators]
      /\ v.state \in {"", "STATE_RECONCILING"}
      /\ v.cfg = cfg
  BY <1>3
<1> HIDE DEF v
<1>5. IsCluster(v)
  BY <1>2, <1>4 DEF IsCluster, States, clusterTransitionalStates
<1>6. CloudInv' /\ cloud'[n] = v /\ \A k \in Names \ {n} : cloud'[k] = cloud[k]
  BY <1>1, <1>5, ReplaceType
<1> QED BY <1>4, <1>5, <1>6 DEF cfg

LEMMA CreateType ==
  ASSUME TypeInv, NEW m \in Managers, CreateSucceeds(m) \/ CreateFailed(m)
  PROVE  TypeInv'
<1> DEFINE o == w[m].obj
           n == clusterName(o)
<1>0. /\ w[m].pc = "create" /\ ~ Adopted(o) /\ Covered(o) /\ ~ o.deleting
      /\ n = Target(o) /\ n \in Names
  BY CopyType DEF CreateSucceeds, CreateFailed, WorksOn, KeepCalls, Target, clusterName
<1>1. o \in Objects /\ o.status \in Statuses /\ o.spec \in Specs
      /\ o.status.clusterName \in {NoId, n}
  BY <1>0, CopyType
<1>2. CASE CreateSucceeds(m)
  <2>1. /\ CreateOrUpdateCluster(n, BuildClusterPayload(o.spec))
        /\ SaveStatus(m, CreatedStatus(o, n, cloud'[n]), NoStatus)
    BY <1>2 DEF CreateSucceeds
  <2>2. CloudInv' /\ IsCluster(cloud'[n]) /\ cloud'[n].state # "none"
    BY <1>0, <1>1, <2>1, UpsertType DEF TypeInv
  <2>3. /\ CreatedStatus(o, n, cloud'[n]) \in Statuses
        /\ CreatedStatus(o, n, cloud'[n]).clusterName = n
    BY <1>0, <1>1, <2>2, CreatedType
  <2>4. w' \in [Managers -> Works] /\ queued' \in [Managers -> BOOLEAN]
    BY <1>0, <2>1, <2>3, SaveStatusType
  <2> QED BY <1>2, <2>2, <2>4 DEF CreateSucceeds, TypeInv
<1>3. CASE CreateFailed(m)
  <2>1. CloudInv'
    <3>1. UNCHANGED cloud \/ CreateOrUpdateCluster(n, BuildClusterPayload(o.spec))
      BY <1>3 DEF CreateFailed
    <3>2. UNCHANGED cloud => CloudInv'
      BY DEF TypeInv, CloudInv
    <3> QED BY <1>0, <1>1, <3>1, <3>2, UpsertType DEF TypeInv
  <2>2. left' \in Lefts
    BY <1>3, SpendType DEF CreateFailed, TypeInv
  <2>3. SaveStatus(m, setReadyCondition(o, o.status, "CreateFailed"), NoStatus)
    BY <1>3 DEF CreateFailed
  <2>4. /\ setReadyCondition(o, o.status, "CreateFailed") \in Statuses
        /\ setReadyCondition(o, o.status, "CreateFailed").clusterName \in {NoId, n}
    BY <1>1, ConditionType DEF Reasons
  <2>5. w' \in [Managers -> Works] /\ queued' \in [Managers -> BOOLEAN]
    BY <1>0, <2>3, <2>4, SaveStatusType
  <2> QED BY <1>3, <2>1, <2>2, <2>5 DEF CreateFailed, TypeInv
<1> QED BY <1>2, <1>3

LEMMA ConflictType ==
  ASSUME TypeInv, NEW m \in Managers, CreateConflicts(m) \/ ExistsGet(m)
  PROVE  TypeInv'
<1> DEFINE o == w[m].obj
           n == clusterName(o)
<1>0. /\ w[m].pc \in {"create", "existsGet"} /\ ~ Adopted(o) /\ Covered(o) /\ ~ o.deleting
      /\ n = Target(o) /\ n \in Names /\ o.exists
  BY CopyType DEF CreateConflicts, ExistsGet, WorksOn, KeepCalls, Target, clusterName
<1>1. CASE CreateConflicts(m)
  <2> DEFINE x == [w[m] EXCEPT !.pc = "existsGet"]
  <2>1. w' = [w EXCEPT ![m] = x]
    BY <1>1 DEF CreateConflicts, TypeInv
  <2>2. x \in Workers(Statuses, Calls)
    BY CopyType DEF Workers, Calls
  <2>3. x.pc = "existsGet" /\ x.obj = o
    BY CopyType DEF Workers
  <2> HIDE DEF x
  <2>4. WorksOn(x)
    BY <1>0, <2>3, CopyType DEF WorksOn, KeepCalls, DeleteCalls
  <2> QED BY <1>1, <2>1, <2>2, <2>4 DEF CreateConflicts, TypeInv, Works, CloudInv
<1>2. CASE ExistsGet(m)
  <2>1. CASE IsNotFound(n)
    BY <1>2, <2>1, ReturnType DEF ExistsGet, TypeInv, CloudInv
  <2>2. CASE ~ IsNotFound(n)
    <3>1. IsCluster(cloud[n]) /\ cloud[n].state # "none"
      BY <1>0, <2>2 DEF IsNotFound, TypeInv, CloudInv
    <3>2. /\ CreatedStatus(o, n, cloud[n]) \in Statuses
          /\ CreatedStatus(o, n, cloud[n]).clusterName = n
      BY <1>0, <3>1, CreatedType, CopyType
    <3>3. SaveStatus(m, CreatedStatus(o, n, cloud[n]), NoStatus)
      BY <1>2, <2>2 DEF ExistsGet
    <3>4. w' \in [Managers -> Works] /\ queued' \in [Managers -> BOOLEAN]
      BY <1>0, <3>2, <3>3, SaveStatusType
    <3> QED BY <1>2, <3>4 DEF ExistsGet, TypeInv, CloudInv
  <2> QED BY <2>1, <2>2
<1> QED BY <1>1, <1>2

LEMMA ChangeType ==
  ASSUME TypeInv, NEW m \in Managers, UpdateCluster(m) \/ DeleteCluster(m)
  PROVE  TypeInv'
<1> DEFINE o == w[m].obj
           n == o.status.clusterName
<1>0. n \in Names /\ n = Target(o)
  BY CopyType, TargetType DEF UpdateCluster, DeleteCluster, WorksOn
<1>1. CASE UpdateCluster(m)
  <2>1. UNCHANGED cloud \/ CreateOrUpdateCluster(n, BuildClusterPayload(o.spec))
    BY <1>1 DEF UpdateCluster
  <2>2. UNCHANGED cloud => CloudInv'
    BY DEF TypeInv, CloudInv
  <2>3. CloudInv'
    BY <1>0, <2>1, <2>2, UpsertType, CopyType DEF TypeInv
  <2> QED BY <1>1, <2>3, ReturnType DEF UpdateCluster, TypeInv
<1>2. CASE DeleteCluster(m)
  <2>0. /\ w[m].pc = "delete" /\ o.deleting /\ Covered(o)
        /\ w[m].st \in Statuses /\ w[m].st.clusterName = n
    BY <1>2, CopyType DEF DeleteCluster, WorksOn, DeleteCalls, Covered
  <2> DEFINE v == [cloud[n] EXCEPT !.state = "STATE_DELETING"]
  <2>1. UNCHANGED cloud \/ (~ IsNotFound(n) /\ cloud' = [cloud EXCEPT ![n] = v])
    BY <1>2 DEF DeleteCluster, TypeInv, CloudInv
  <2>2. ~ IsNotFound(n) => IsCluster(v)
    BY <1>0, StateType DEF IsNotFound, TypeInv, CloudInv, States, clusterTransitionalStates
  <2> HIDE DEF v
  <2>3. CloudInv'
    <3>1. UNCHANGED cloud => CloudInv'
      BY DEF TypeInv, CloudInv
    <3> QED BY <1>0, <2>1, <2>2, <3>1, ReplaceType DEF TypeInv
  <2>4. /\ setReadyCondition(o, w[m].st, "Deleting") \in Statuses
        /\ setReadyCondition(o, w[m].st, "Deleting").clusterName = n
    BY <2>0, ConditionType, CopyType DEF Reasons
  <2>5. w' \in [Managers -> Works] /\ queued' \in [Managers -> BOOLEAN]
    BY <1>0, <1>2, <2>0, <2>4, SaveStatusType DEF DeleteCluster
  <2> QED BY <1>2, <2>3, <2>5 DEF DeleteCluster, TypeInv
<1> QED BY <1>1, <1>2

LEMMA FaultType ==
  ASSUME TypeInv, NEW m \in Managers, Fail(m) \/ Crash(m) PROVE TypeInv'
<1>1. CASE Fail(m)
  BY <1>1, SpendType, ReturnType DEF Fail, CallFails, TypeInv, CloudInv
<1>2. CASE Crash(m)
  <2>1. api \in Objects /\ api.exists \in BOOLEAN
    BY DEF TypeInv, Objects, Versions
  <2>2. left' \in Lefts
    BY <1>2, SpendType DEF Crash, Restart
  <2> QED BY <1>2, <2>1, <2>2, IdleType DEF Crash, Restart, Relist, TypeInv, CloudInv
<1> QED BY <1>1, <1>2

(* What happens in SKE; a cluster that is not there does not come back. *)
LEMMA SkeChange ==
  ASSUME CloudInv, NEW n \in Names, Settle(n) \/ OutOfBand(n)
  PROVE  \E v : /\ IsCluster(v) /\ cloud' = [cloud EXCEPT ![n] = v]
                /\ ~ IsNotFound(n)
<1> DEFINE c == cloud[n]
<1>0. IsCluster(c)
  BY DEF CloudInv
<1>1. ~ IsNotFound(n)
  BY DEF Settle, OutOfBand, IsNotFound, clusterTransitionalStates
<1>2. c.state # "none"
  BY <1>1 DEF IsNotFound
<1>3. \A s \in States : IsCluster([c EXCEPT !.state = s])
  BY <1>0, <1>2, StateType
<1>4. CASE Settle(n)
  <2>1. \/ cloud' = [cloud EXCEPT ![n] = NoCluster]
        \/ \E s \in States : cloud' = [cloud EXCEPT ![n] = [c EXCEPT !.state = s]]
    BY <1>4 DEF Settle, CloudInv, States, clusterTransitionalStates
  <2> QED BY <1>1, <1>3, <2>1, NoClusterType
<1>5. CASE OutOfBand(n)
  <2> DEFINE pooled == [c EXCEPT !.cfg = [c.cfg EXCEPT !.pools = <<>>]]
             newer == [c EXCEPT !.cfg = [c.cfg EXCEPT !.version = c.cfg.version + 1]]
  <2>1. /\ c = [state |-> c.state, cfg |-> c.cfg, operators |-> c.operators]
        /\ c.cfg = [version |-> c.cfg.version, pools |-> c.cfg.pools,
                    maintenance |-> c.cfg.maintenance]
        /\ c.cfg.version \in Nat
        /\ c.state \in States \cup {"none"}
    BY <1>0, <1>2 DEF IsCluster
  <2>2. IsCluster(pooled)
    <3>1. [c.cfg EXCEPT !.pools = <<>>]
            = [version |-> c.cfg.version, pools |-> <<>>, maintenance |-> c.cfg.maintenance]
      BY <2>1
    <3>2. pooled = [state |-> c.state, cfg |-> [c.cfg EXCEPT !.pools = <<>>],
                    operators |-> c.operators]
      BY <2>1
    <3> QED BY <1>2, <2>1, <3>1, <3>2 DEF IsCluster
  <2>3. IsCluster(newer)
    <3>1. [c.cfg EXCEPT !.version = c.cfg.version + 1]
            = [version |-> c.cfg.version + 1, pools |-> c.cfg.pools,
               maintenance |-> c.cfg.maintenance]
      BY <2>1
    <3>2. newer = [state |-> c.state, cfg |-> [c.cfg EXCEPT !.version = c.cfg.version + 1],
                   operators |-> c.operators]
      BY <2>1
    <3>3. c.cfg.version + 1 \in Nat
      BY <2>1
    <3> QED BY <1>2, <2>1, <3>1, <3>2, <3>3 DEF IsCluster
  <2>4. \/ cloud' = [cloud EXCEPT ![n] = NoCluster]
        \/ \E s \in OutageStates \ {"none"} :
             cloud' = [cloud EXCEPT ![n] = [c EXCEPT !.state = s]]
        \/ cloud' = [cloud EXCEPT ![n] = pooled]
        \/ cloud' = [cloud EXCEPT ![n] = newer]
    BY <1>5 DEF OutOfBand, CloudInv
  <2> HIDE DEF pooled, newer
  <2>5. OutageStates \ {"none"} \subseteq States
    BY ClusterAssumption
  <2>6. PICK v : IsCluster(v) /\ cloud' = [cloud EXCEPT ![n] = v]
    BY <1>3, <2>2, <2>3, <2>4, <2>5, NoClusterType
  <2> QED BY <1>1, <2>6
<1> QED BY <1>4, <1>5

LEMMA SkeType ==
  ASSUME TypeInv, NEW n \in Names, Settle(n) \/ OutOfBand(n) PROVE TypeInv'
<1>1. CloudInv'
  BY SkeChange, ReplaceType DEF TypeInv
<1>2. left' \in Lefts
  BY SpendType DEF Settle, OutOfBand, TypeInv
<1> QED BY <1>1, <1>2 DEF Settle, OutOfBand, TypeInv

-----------------------------------------------------------------------------
LEMMA InitType == Init => TypeInv
<1> SUFFICES ASSUME Init PROVE TypeInv
  OBVIOUS
<1>1. /\ api \in Objects /\ cache \in [Managers -> Objects]
      /\ watch \in [Managers -> SUBSET Objects] /\ queued \in [Managers -> BOOLEAN]
      /\ left \in Lefts
  BY NoObjectType, BoundsAssumption DEF Init, KubeInit, Lefts
<1>2. w \in [Managers -> Works]
  BY IdleType DEF Init
<1> DEFINE there == [state |-> "STATE_HEALTHY", cfg |-> OtherCfg, operators |-> FALSE]
<1>3. IsCluster(there)
  BY DEF IsCluster, OtherCfg, Stored, States
<1> HIDE DEF there
<1>4. cloud = [n \in Names |-> IF n \in Existing THEN there ELSE NoCluster]
  BY DEF Init, there
<1>5. CloudInv
  BY <1>3, <1>4, NoClusterType DEF CloudInv
<1> QED BY <1>1, <1>2, <1>5 DEF TypeInv

LEMMA NextType == TypeInv /\ [Next]_vars => TypeInv'
<1> SUFFICES ASSUME TypeInv, [Next]_vars PROVE TypeInv'
  OBVIOUS
<1>1. CASE User
  BY <1>1, UserType
<1>2. ASSUME NEW m \in Managers, Informer(m) PROVE TypeInv'
  BY <1>2, InformerType
<1>3. ASSUME NEW m \in Managers, Reconcile(m) \/ Step(m) PROVE TypeInv'
  BY <1>3, WriteType, ReconcileStepType, AdoptGetType, CreateType, ConflictType,
     ObserveType, ChangeType, DeleteGetType DEF Step
<1>4. ASSUME NEW m \in Managers, Fail(m) \/ Crash(m) PROVE TypeInv'
  BY <1>4, FaultType
<1>5. ASSUME NEW n \in Names, Settle(n) \/ OutOfBand(n) PROVE TypeInv'
  BY <1>5, SkeType
<1>6. CASE UNCHANGED vars
  BY <1>6 DEF vars, TypeInv, CloudInv
<1> QED BY <1>1, <1>2, <1>3, <1>4, <1>5, <1>6 DEF Next

LEMMA TypeInvariant == Spec => []TypeInv
BY InitType, NextType, PTL DEF Spec

(* The state of the Cluster controller stays well typed: a call always     *)
(* names a cluster of SKE, and no answer about a missing cluster is read   *)
(* for a configuration.                                                    *)
THEOREM TypeCorrect ==
  ASSUME NoCfgApart PROVE Spec => []TypeOK
<1>1. TypeInv => TypeOK
  <2> SUFFICES ASSUME TypeInv PROVE TypeOK
    OBVIOUS
  <2>1. Objects \subseteq Versions(Statuses) /\ Works \subseteq Workers(Statuses, Calls)
    BY DEF Objects, Works
  <2>2. /\ KubeTypeOK(Statuses)
        /\ w \in [Managers -> Workers(Statuses, Calls)]
    BY <2>1 DEF TypeInv, KubeTypeOK, Lefts
  <2>3. ASSUME NEW n \in Names
        PROVE  /\ cloud[n].state \in States \cup {"none"}
               /\ cloud[n].cfg = NoCfg <=> cloud[n].state = "none"
    <3>1. IsCluster(cloud[n])
      BY DEF TypeInv, CloudInv
    <3>2. cloud[n].state # "none" => cloud[n].cfg # NoCfg
      BY <3>1 DEF IsCluster, NoCfgApart
    <3> QED BY <3>1, <3>2 DEF IsCluster
  <2> QED BY <2>2, <2>3 DEF TypeOK
<1> QED BY <1>1, TypeInvariant, PTL

-----------------------------------------------------------------------------
(***************************************************************************)
(* What changes a cluster: SKE or someone else, in a step of no worker, or *)
(* a worker, on behalf of a copy that owns the cluster.                    *)
(***************************************************************************)

Upserts(m) ==
  LET o == w[m].obj  n == clusterName(o)
  IN  /\ w[m].pc \in {"create", "update"}
      /\ ~ o.deleting
      /\ cloud'[n].cfg = Stored(BuildClusterPayload(o.spec))
      /\ cloud'[n].state \in {"", "STATE_RECONCILING"}

Deletes(m) ==
  LET o == w[m].obj  n == clusterName(o)
  IN  /\ w[m].pc = "delete"
      /\ o.deleting /\ o.status.clusterName = n
      /\ ~ IsNotFound(n)
      /\ cloud'[n].state = "STATE_DELETING"

ChangesOwn(m) ==
  LET o == w[m].obj  n == clusterName(o)
  IN  /\ ~ Adopted(o) /\ o.exists /\ o.finalizer
      /\ \A k \in Names \ {n} : cloud'[k] = cloud[k]
      /\ \A i \in Managers \ {m} : w'[i] = w[i]
      /\ Upserts(m) \/ Deletes(m)

(* What SaveStatus and Return leave of the workers. *)
LEMMA OthersRest ==
  ASSUME TypeInv, NEW m \in Managers,
         \/ \E st : SaveStatus(m, st, NoStatus)
         \/ \E again : Return(m, again, NoStatus)
  PROVE  \A i \in Managers \ {m} : w'[i] = w[i]
BY DEF SaveStatus, Return, TypeInv

LEMMA WorkerChange ==
  ASSUME TypeInv, NEW m \in Managers,
         CreateSucceeds(m) \/ CreateFailed(m) \/ UpdateCluster(m) \/ DeleteCluster(m)
  PROVE  UNCHANGED cloud \/ (ChangesOwn(m) /\ UNCHANGED <<api, cache, watch>>)
<1> DEFINE o == w[m].obj
           n == clusterName(o)
<1>0. UNCHANGED <<api, cache, watch>>
  BY DEF CreateSucceeds, CreateFailed, UpdateCluster, DeleteCluster
<1>1. /\ w[m].pc \in {"create", "update", "delete"} /\ ~ Adopted(o)
      /\ o.exists /\ o.finalizer /\ n \in Names
      /\ o.deleting <=> w[m].pc = "delete"
      /\ w[m].pc \in {"update", "delete"} => o.status.clusterName = n
  BY CopyType DEF CreateSucceeds, CreateFailed, UpdateCluster, DeleteCluster,
     WorksOn, Proper, Covered, Target, clusterName, KeepCalls, DeleteCalls
<1>2. \A i \in Managers \ {m} : w'[i] = w[i]
  BY OthersRest DEF CreateSucceeds, CreateFailed, UpdateCluster, DeleteCluster
<1>3. CASE CreateOrUpdateCluster(n, BuildClusterPayload(o.spec)) /\ w[m].pc # "delete"
  <2>1. /\ cloud'[n].state \in {"", "STATE_RECONCILING"}
        /\ cloud'[n].cfg = Stored(BuildClusterPayload(o.spec))
        /\ \A k \in Names \ {n} : cloud'[k] = cloud[k]
    BY <1>1, <1>3, UpsertType, CopyType DEF TypeInv
  <2>2. Upserts(m)
    BY <1>1, <1>3, <2>1 DEF Upserts
  <2> QED BY <1>0, <1>1, <1>2, <2>1, <2>2 DEF ChangesOwn
<1>4. CASE DeleteCluster(m) /\ ~ UNCHANGED cloud
  <2>0. w[m].pc = "delete" /\ o.status.clusterName = n
    BY <1>1, <1>4 DEF DeleteCluster
  <2> DEFINE v == [cloud[n] EXCEPT !.state = "STATE_DELETING"]
  <2>1. ~ IsNotFound(n) /\ cloud' = [cloud EXCEPT ![n] = v]
    BY <1>1, <1>4, <2>0 DEF DeleteCluster, TypeInv, CloudInv
  <2>2. IsCluster(v)
    BY <1>1, <2>1, StateType
       DEF IsNotFound, TypeInv, CloudInv, States, clusterTransitionalStates
  <2>3. v.state = "STATE_DELETING"
    BY <1>1 DEF TypeInv, CloudInv, IsCluster
  <2> HIDE DEF v
  <2>4. cloud'[n] = v /\ \A k \in Names \ {n} : cloud'[k] = cloud[k]
    BY <1>1, <2>1, <2>2, ReplaceType DEF TypeInv
  <2>5. Deletes(m)
    BY <1>1, <2>0, <2>1, <2>3, <2>4 DEF Deletes
  <2> QED BY <1>0, <1>1, <1>2, <2>4, <2>5 DEF ChangesOwn
<1>5. CASE CreateSucceeds(m) \/ CreateFailed(m) \/ UpdateCluster(m)
  <2>1. w[m].pc # "delete"
    BY <1>5 DEF CreateSucceeds, CreateFailed, UpdateCluster
  <2>2. UNCHANGED cloud \/ CreateOrUpdateCluster(n, BuildClusterPayload(o.spec))
    BY <1>1, <1>5 DEF CreateSucceeds, CreateFailed, UpdateCluster
  <2> QED BY <1>3, <2>1, <2>2
<1> QED BY <1>4, <1>5

LEMMA CloudSteps ==
  ASSUME TypeInv, [Next]_vars
  PROVE  \/ UNCHANGED cloud
         \/ /\ UNCHANGED <<api, cache, watch, w>>
            /\ \E n \in Names : Settle(n) \/ OutOfBand(n)
         \/ \E m \in Managers : ChangesOwn(m) /\ UNCHANGED <<api, cache, watch>>
<1>1. CASE User \/ UNCHANGED vars
  BY <1>1 DEF User, vars
<1>2. ASSUME NEW m \in Managers, Informer(m) \/ Reconcile(m) \/ Fail(m) \/ Crash(m)
      PROVE  UNCHANGED cloud
  BY <1>2 DEF Informer, Reconcile, Fail, Crash
<1>3. ASSUME NEW m \in Managers, Step(m)
      PROVE  UNCHANGED cloud \/ (ChangesOwn(m) /\ UNCHANGED <<api, cache, watch>>)
  <2>1. CASE CreateSucceeds(m) \/ CreateFailed(m) \/ UpdateCluster(m) \/ DeleteCluster(m)
    BY <2>1, WorkerChange
  <2>2. CASE ~ (CreateSucceeds(m) \/ CreateFailed(m) \/ UpdateCluster(m) \/ DeleteCluster(m))
    BY <1>3, <2>2 DEF Step, AddFinalizer, DropFinalizer, AdoptGet, CreateConflicts,
       ExistsGet, ObserveMissing, ObserveCluster, ObserveDrift, DeleteGet, WriteBack
  <2> QED BY <2>1, <2>2
<1>4. ASSUME NEW n \in Names, Settle(n) \/ OutOfBand(n)
      PROVE  UNCHANGED <<api, cache, watch, w>>
  BY <1>4 DEF Settle, OutOfBand
<1> QED BY <1>1, <1>2, <1>3, <1>4 DEF Next

-----------------------------------------------------------------------------
(* For any number of managers and however stale their copies: after an     *)
(* upsert SKE has nothing that would be corrected for the spec sent; so    *)
(* one edit is one upsert, not a storm of them.                            *)
THEOREM UpsertSettles == Spec => CorrectionSettles
<1>1. ASSUME TypeInv, [Next]_vars, NEW m \in Managers, NEW n \in Names,
             w[m].pc \in {"create", "update"}, w'[m] # w[m], cloud'[n] # cloud[n]
      PROVE  ~ reconcileDrift(cloud'[n].cfg, w[m].obj.spec)
  <2>1. PICK k \in Managers : ChangesOwn(k)
    BY <1>1, CloudSteps
  <2>2. k = m /\ n = clusterName(w[m].obj)
    BY <1>1, <2>1 DEF ChangesOwn
  <2>3. cloud'[n].cfg = Stored(BuildClusterPayload(w[m].obj.spec))
    BY <1>1, <2>1, <2>2 DEF ChangesOwn, Upserts, Deletes
  <2> QED BY <1>1, <2>3, SpecSettles, CopyType
<1>2. TypeInv /\ [Next]_vars
        => [\A m \in Managers, n \in Names :
              w[m].pc \in {"create", "update"} /\ w'[m] # w[m] /\ cloud'[n] # cloud[n]
                => ~ reconcileDrift(cloud'[n].cfg, w[m].obj.spec)]_vars
  BY <1>1
<1> QED BY <1>2, TypeInvariant, PTL DEF Spec, CorrectionSettles

(* No object the operator creates a cluster for has the name of one that   *)
(* is there to be adopted.                                                 *)
NamesApart == \A s \in Specs : s.name = Foreign => isAdopted(s.existing)

(* For any number of managers: the reconciler only observes an adopted     *)
(* cluster.  Every copy of an object says whether its cluster is adopted,  *)
(* so no stale one can mislead it.                                         *)
THEOREM AdoptedOnlyObserved ==
  ASSUME NamesApart PROVE Spec => AdoptedUntouched
<1>1. ASSUME TypeInv, TypeInv', [Next]_vars
      PROVE  /\ cloud'[Foreign] # cloud[Foreign] => UNCHANGED w
             /\ api'.exists /\ isAdopted(api'.spec.existing) => ~ api'.finalizer
  <2>1. ASSUME cloud'[Foreign] # cloud[Foreign], ~ UNCHANGED w PROVE FALSE
    <3>1. PICK m \in Managers : ChangesOwn(m)
      BY <1>1, <2>1, CloudSteps
    <3>2. clusterName(w[m].obj) = Foreign /\ ~ Adopted(w[m].obj)
      BY <2>1, <3>1, ClusterAssumption DEF ChangesOwn
    <3>3. w[m].obj.spec \in Specs
      BY <1>1, CopyType
    <3> QED BY <3>2, <3>3 DEF NamesApart, clusterName, Adopted
  <2>2. api' \in Objects
    BY <1>1 DEF TypeInv
  <2>3. isAdopted(api'.spec.existing) => ~ api'.finalizer
    BY <2>2 DEF Objects, Proper, Adopted
  <2> QED BY <2>1, <2>3
<1>2. TypeInv /\ TypeInv' /\ [Next]_vars
        => [/\ cloud'[Foreign] # cloud[Foreign] => UNCHANGED w
            /\ api'.exists /\ isAdopted(api'.spec.existing) => ~ api'.finalizer]_vars
  BY <1>1
<1> QED BY <1>2, TypeInvariant, PTL DEF Spec, AdoptedUntouched

-----------------------------------------------------------------------------
(***************************************************************************)
(* What ClusterController guarantees when at most one manager runs, which  *)
(* is what leader election is for (config/manager/manager.yaml).           *)
(***************************************************************************)

OneManager == \A m, n \in Managers : m = n

(* Copy v is a version that the API server, now at a, has had. *)
Sound(v, a) == v.rv <= a.rv /\ (v.rv = a.rv => v = a)

(* What a copy with the finalizer says still holds of the object, a: it is *)
(* there, for the same cluster, and a deletion is not taken back.          *)
Fresh(v, a) ==
  v.exists /\ v.finalizer =>
    /\ a.exists /\ a.finalizer
    /\ a.spec.name = v.spec.name /\ a.spec.existing = v.spec.existing
    /\ v.deleting => a.deleting /\ a.status.clusterName = v.status.clusterName

Missing(v, c) ==
  v.status.clusterName # NoId => c[v.status.clusterName].state = "none"

(* A stale copy of an object whose deletion this manager has completed. *)
Released(v, c) == v.exists /\ v.deleting /\ Missing(v, c)

(* The worker's copy, the cache and the events follow the API server in    *)
(* this order.                                                             *)
Synced(m) ==
  /\ Sound(cache[m], api)
  /\ \A v \in watch[m] : Sound(v, api) /\ cache[m].rv < v.rv
  /\ \A u, v \in watch[m] : u.rv = v.rv => u = v
  /\ w[m].pc # "idle" => Sound(w[m].obj, api) /\ w[m].obj.rv <= cache[m].rv

Informed(m) ==
  /\ \A v \in watch[m] : Fresh(v, api)
  /\ Fresh(cache[m], api) \/ Released(cache[m], cloud)

(* Only the calls of a deletion that find no cluster are made for a        *)
(* released object, and no cluster is made meanwhile.                      *)
Entitled(m) ==
  LET x == w[m]
  IN  /\ x.pc # "idle" =>
           \/ Fresh(x.obj, api) /\ Fresh(cache[m], api)
           \/ x.pc \in {"delGet", "dropFinalizer"} /\ Released(x.obj, cloud)
      /\ x.pc = "dropFinalizer" => Missing(x.obj, cloud)

OneInv == \A m \in Managers : Synced(m) /\ Informed(m) /\ Entitled(m)

-----------------------------------------------------------------------------
(* How one step may change what OneInv is about. *)

(* The object is replaced by a version that no copy is misled by; one with *)
(* the finalizer stays.                                                    *)
Kept ==
  /\ \A v : Fresh(v, api) => Fresh(v, api')
  /\ api.exists /\ api.finalizer => api'.exists

(* The finalizer of the object is removed by worker m. *)
Dropped(m) == DropFinalizer(m) /\ w[m].obj = api

(* The API server accepts a write. *)
Accepted ==
  /\ api' \in Versions(Statuses)
  /\ api'.rv = api.rv + 1
  /\ watch' = [m \in Managers |-> watch[m] \cup {api'}]
  /\ UNCHANGED <<cache, cloud>>

LEMMA PublishAccepts ==
  ASSUME TypeInv, TypeInv', NEW v \in Versions(Statuses), Publish(v), UNCHANGED <<cache, cloud>>
  PROVE  /\ Accepted
         /\ api'.exists = v.exists /\ api'.deleting = v.deleting
         /\ api'.finalizer = v.finalizer
         /\ api'.spec = v.spec /\ api'.status = v.status
<1>1. api.rv \in Nat /\ api' \in Versions(Statuses)
  BY DEF TypeInv, Objects, Versions
<1>2. api' = [v EXCEPT !.rv = api.rv + 1]
  BY DEF Publish
<1>3. /\ api'.rv = api.rv + 1
      /\ api'.exists = v.exists /\ api'.deleting = v.deleting
      /\ api'.finalizer = v.finalizer
      /\ api'.spec = v.spec /\ api'.status = v.status
  BY <1>2 DEF Versions
<1> QED BY <1>1, <1>3 DEF Publish, Accepted

LEMMA UserKeeps ==
  ASSUME TypeInv, TypeInv', User PROVE Accepted /\ Kept /\ UNCHANGED w
<1>0. api \in Versions(Statuses) /\ UNCHANGED <<cache, cloud, w>>
  BY DEF TypeInv, Objects, User, UserCreate, UserEdit, UserDelete
<1>1. ASSUME NEW s \in Specs, UserCreate(s, NoStatus) PROVE Accepted /\ Kept
  <2> DEFINE v == [exists |-> TRUE, rv |-> 0, gen |-> 1, deleting |-> FALSE,
                   finalizer |-> FALSE, spec |-> s, status |-> NoStatus]
  <2>1. v \in Versions(Statuses) /\ Publish(v)
    BY <1>1, NoStatusType DEF UserCreate, Versions
  <2> HIDE DEF v
  <2>2. Accepted
    BY <1>0, <2>1, PublishAccepts
  <2> QED BY <1>1, <2>2 DEF UserCreate, Kept, Fresh
<1>2. ASSUME NEW s \in Specs, s.existing = api.spec.existing, s.name = api.spec.name,
             UserEdit(s)
      PROVE  Accepted /\ Kept
  <2> DEFINE g == IF s = api.spec THEN api.gen ELSE api.gen + 1
             v == [api EXCEPT !.spec = s, !.gen = g]
  <2>1. Publish(v) /\ g \in Nat
    BY <1>0, <1>2 DEF UserEdit, Versions
  <2> HIDE DEF g
  <2>2. /\ v \in Versions(Statuses)
        /\ v.exists = api.exists /\ v.deleting = api.deleting
        /\ v.finalizer = api.finalizer
        /\ v.spec = s /\ v.status = api.status
    BY <1>0, <2>1 DEF Versions
  <2> HIDE DEF v
  <2>3. /\ Accepted
        /\ api'.exists = api.exists /\ api'.deleting = api.deleting
        /\ api'.finalizer = api.finalizer
        /\ api'.spec = s /\ api'.status = api.status
    BY <1>0, <2>1, <2>2, PublishAccepts
  <2> QED BY <1>2, <2>3 DEF Kept, Fresh
<1>3. CASE UserDelete /\ api.finalizer
  <2> DEFINE v == [api EXCEPT !.deleting = TRUE, !.gen = @ + 1]
  <2>1. Publish(v)
    BY <1>3 DEF UserDelete
  <2>2. /\ v \in Versions(Statuses)
        /\ v.exists = api.exists /\ v.deleting /\ v.finalizer = api.finalizer
        /\ v.spec = api.spec /\ v.status = api.status
    <3>1. api.gen + 1 \in Nat
      BY <1>0 DEF Versions
    <3> QED BY <1>0, <3>1 DEF Versions
  <2> HIDE DEF v
  <2>3. /\ Accepted
        /\ api'.exists = api.exists /\ api'.deleting
        /\ api'.finalizer = api.finalizer
        /\ api'.spec = api.spec /\ api'.status = api.status
    BY <1>0, <2>1, <2>2, PublishAccepts
  <2> QED BY <1>0, <2>3 DEF Kept, Fresh
<1>4. CASE UserDelete /\ ~ api.finalizer
  <2> DEFINE v == [api EXCEPT !.exists = FALSE]
  <2>1. Publish(v) /\ v \in Versions(Statuses)
    BY <1>0, <1>4 DEF UserDelete, Versions
  <2> HIDE DEF v
  <2>2. Accepted
    BY <1>0, <2>1, PublishAccepts
  <2>3. ~ api.finalizer
    BY <1>4
  <2>4. Kept
    BY <2>3 DEF Kept, Fresh
  <2> QED BY <1>0, <2>2, <2>4
<1> QED BY <1>0, <1>1, <1>2, <1>3, <1>4 DEF User

LEMMA WriteKeeps ==
  ASSUME TypeInv, TypeInv', NEW m \in Managers, Synced(m),
         AddFinalizer(m) \/ DropFinalizer(m) \/ WriteBack(m)
  PROVE  /\ w' = [w EXCEPT ![m] = Idle(NoStatus)]
         /\ UNCHANGED <<cache, cloud>>
         /\ UNCHANGED <<api, watch>> \/ (Accepted /\ (Kept \/ Dropped(m)))
<1> DEFINE o == w[m].obj
<1>0. api \in Versions(Statuses) /\ o \in Versions(Statuses) /\ w[m].st \in Statuses
  BY CopyType DEF TypeInv, Objects
<1>1. w' = [w EXCEPT ![m] = Idle(NoStatus)] /\ UNCHANGED <<cache, cloud>>
  BY DEF AddFinalizer, DropFinalizer, WriteBack, ensureFinalizer,
         removeFinalizerAndUpdate, StatusUpdate, Return
<1>2. UpToDate(o) => o = api /\ api.exists
  <2>1. w[m].pc # "idle"
    BY DEF AddFinalizer, DropFinalizer, WriteBack, ensureFinalizer,
           removeFinalizerAndUpdate, StatusUpdate
  <2> QED BY <2>1 DEF Synced, Sound, UpToDate
<1>3. CASE AddFinalizer(m) /\ UpToDate(o)
  <2> DEFINE v == [api EXCEPT !.finalizer = TRUE]
  <2>1. Publish(v)
    BY <1>2, <1>3 DEF AddFinalizer, ensureFinalizer, WriteFinalizer
  <2>2. /\ v \in Versions(Statuses)
        /\ v.exists = api.exists /\ v.deleting = api.deleting /\ v.finalizer
        /\ v.spec = api.spec /\ v.status = api.status
    BY <1>0 DEF Versions
  <2> HIDE DEF v
  <2>3. /\ Accepted
        /\ api'.exists = api.exists /\ api'.deleting = api.deleting
        /\ api'.finalizer
        /\ api'.spec = api.spec /\ api'.status = api.status
    BY <1>1, <2>1, <2>2, PublishAccepts
  <2>4. Kept
    BY <2>3 DEF Kept, Fresh
  <2> QED BY <1>1, <2>3, <2>4
<1>4. CASE DropFinalizer(m) /\ UpToDate(o)
  <2> DEFINE v == [api EXCEPT !.finalizer = FALSE, !.exists = ~ api.deleting]
  <2>1. Publish(v)
    BY <1>2, <1>4 DEF DropFinalizer, removeFinalizerAndUpdate, WriteNoFinalizer
  <2>2. v \in Versions(Statuses)
    BY <1>0 DEF Versions
  <2> HIDE DEF v
  <2>3. Accepted
    BY <1>1, <2>1, <2>2, PublishAccepts
  <2> QED BY <1>1, <1>2, <1>4, <2>3 DEF Dropped
<1>5. CASE WriteBack(m) /\ UpToDate(o) /\ w[m].st # o.status
  <2> DEFINE v == [api EXCEPT !.status = w[m].st]
  <2>1. Publish(v)
    BY <1>2, <1>5 DEF WriteBack, StatusUpdate, WriteStatus
  <2>2. /\ v \in Versions(Statuses)
        /\ v.exists = api.exists /\ v.deleting = api.deleting
        /\ v.finalizer = api.finalizer
        /\ v.spec = api.spec /\ v.status = w[m].st
    BY <1>0 DEF Versions
  <2> HIDE DEF v
  <2>3. /\ Accepted
        /\ api'.exists = api.exists /\ api'.deleting = api.deleting
        /\ api'.finalizer = api.finalizer
        /\ api'.spec = api.spec /\ api'.status = w[m].st
    BY <1>1, <2>1, <2>2, PublishAccepts
  <2>4. api.deleting => w[m].st.clusterName = api.status.clusterName
    BY <1>2, <1>5, CopyType DEF WorksOn, WriteBack, StatusUpdate
  <2>5. Kept
    BY <2>3, <2>4 DEF Kept, Fresh
  <2> QED BY <1>1, <2>3, <2>5
<1> QED BY <1>1, <1>3, <1>4, <1>5
        DEF AddFinalizer, DropFinalizer, WriteBack, ensureFinalizer,
            removeFinalizerAndUpdate, StatusUpdate, WriteStatus

(* The calls of a worker that leave the API server's copy alone. *)
Calling(m) ==
  \/ AdoptGet(m) \/ CreateSucceeds(m) \/ CreateConflicts(m) \/ ExistsGet(m)
  \/ CreateFailed(m) \/ ObserveMissing(m) \/ ObserveCluster(m) \/ ObserveDrift(m)
  \/ UpdateCluster(m) \/ DeleteGet(m) \/ DeleteCluster(m) \/ Fail(m)

(* Such a call ends the reconcile or goes on with the same copy; only the  *)
(* look-up of a deletion leads to the finalizer.                           *)
LEMMA CallKeeps ==
  ASSUME TypeInv, NEW m \in Managers, Calling(m)
  PROVE  /\ UNCHANGED <<api, cache, watch>>
         /\ w[m].pc # "idle"
         /\ \A i \in Managers \ {m} : w'[i] = w[i]
         /\ \/ w'[m].pc = "idle"
            \/ /\ w'[m].obj = w[m].obj /\ w'[m].pc # "delGet"
               /\ w[m].pc # "dropFinalizer"
               /\ w[m].pc = "delGet" =>
                    LET n == w[m].obj.status.clusterName
                    IN  IF w'[m].pc = "dropFinalizer" THEN IsNotFound(n) ELSE ~ IsNotFound(n)
               /\ w'[m].pc = "dropFinalizer" => w[m].pc = "delGet" /\ UNCHANGED cloud
<1>0. w \in [Managers -> Works] /\ w[m] \in Workers(Statuses, Calls)
  BY CopyType DEF TypeInv
<1>1. UNCHANGED <<api, cache, watch>>
  BY DEF Calling, AdoptGet, CreateSucceeds, CreateConflicts, ExistsGet, CreateFailed,
         ObserveMissing, ObserveCluster, ObserveDrift, UpdateCluster, DeleteGet,
         DeleteCluster, Fail, CallFails
<1>2. ASSUME NEW st, SaveStatus(m, st, NoStatus), w[m].pc \notin {"idle", "dropFinalizer"},
             w[m].pc = "delGet" => ~ IsNotFound(w[m].obj.status.clusterName)
      PROVE  /\ w[m].pc # "idle"
             /\ \A i \in Managers \ {m} : w'[i] = w[i]
             /\ \/ w'[m].pc = "idle"
                \/ /\ w'[m].obj = w[m].obj /\ w'[m].pc = "write"
                   /\ w[m].pc # "dropFinalizer"
                   /\ w[m].pc = "delGet" => ~ IsNotFound(w[m].obj.status.clusterName)
  <2>1. CASE statusUnchanged(w[m].before, st)
    BY <1>0, <1>2, <2>1 DEF SaveStatus, Return, Idle
  <2>2. CASE ~ statusUnchanged(w[m].before, st)
    BY <1>0, <1>2, <2>2 DEF SaveStatus, Workers
  <2> QED BY <2>1, <2>2
<1>3. ASSUME NEW again, Return(m, again, NoStatus)
      PROVE  w'[m].pc = "idle" /\ \A i \in Managers \ {m} : w'[i] = w[i]
  BY <1>0, <1>3 DEF Return, Idle
<1>4. CASE CreateConflicts(m) \/ ObserveDrift(m)
  <2>1. PICK pc \in {"existsGet", "update"} : w' = [w EXCEPT ![m] = [@ EXCEPT !.pc = pc]]
    BY <1>0, <1>4 DEF CreateConflicts, ObserveDrift
  <2>2. w'[m].pc = pc /\ w'[m].obj = w[m].obj /\ \A i \in Managers \ {m} : w'[i] = w[i]
    BY <1>0, <2>1 DEF Workers
  <2>3. w[m].pc \in {"create", "get"}
    BY <1>4 DEF CreateConflicts, ObserveDrift
  <2> QED BY <1>1, <2>2, <2>3
<1>5. CASE DeleteGet(m)
  <2> DEFINE n == w[m].obj.status.clusterName
             st == applyClusterStatus(w[m].obj, w[m].obj.status, cloud[n])
  <2>1. w[m].pc = "delGet" /\ UNCHANGED cloud
    BY <1>5 DEF DeleteGet
  <2>2. CASE IsNotFound(n) /\ w' = [w EXCEPT ![m].pc = "dropFinalizer"]
    BY <1>0, <1>1, <2>1, <2>2 DEF Workers
  <2>3. CASE ~ IsNotFound(n) /\ w' = [w EXCEPT ![m].pc = "delete", ![m].st = st]
    <3> HIDE DEF st
    <3> QED BY <1>0, <1>1, <2>1, <2>3 DEF Workers
  <2>4. CASE /\ cloud[n].state = "STATE_DELETING"
             /\ SaveStatus(m, setReadyCondition(w[m].obj, st, "Deleting"), NoStatus)
    <3>1. ~ IsNotFound(n)
      BY <2>4 DEF IsNotFound
    <3>2. PICK new : SaveStatus(m, new, NoStatus)
      BY <2>4
    <3>3. /\ \A i \in Managers \ {m} : w'[i] = w[i]
          /\ w'[m].pc = "idle" \/ (w'[m].obj = w[m].obj /\ w'[m].pc = "write")
      BY <1>2, <2>1, <3>1, <3>2
    <3> QED BY <1>1, <2>1, <3>1, <3>3
  <2> QED BY <1>5, <2>2, <2>3, <2>4 DEF DeleteGet
<1>6. CASE Fail(m) \/ UpdateCluster(m)
  BY <1>1, <1>3, <1>6 DEF Fail, CallFails, UpdateCluster
<1>7. CASE ExistsGet(m)
  BY <1>1, <1>2, <1>3, <1>7 DEF ExistsGet
<1>8. CASE \/ AdoptGet(m) \/ CreateSucceeds(m) \/ CreateFailed(m)
           \/ ObserveMissing(m) \/ ObserveCluster(m) \/ DeleteCluster(m)
  <2>1. PICK st : SaveStatus(m, st, NoStatus)
    BY <1>8 DEF AdoptGet, CreateSucceeds, CreateFailed, ObserveMissing,
                ObserveCluster, DeleteCluster
  <2>2. w[m].pc \notin {"idle", "dropFinalizer", "delGet"}
    BY <1>8 DEF AdoptGet, CreateSucceeds, CreateFailed, ObserveMissing,
                ObserveCluster, DeleteCluster
  <2> QED BY <1>1, <1>2, <2>1, <2>2
<1> QED BY <1>4, <1>5, <1>6, <1>7, <1>8 DEF Calling

LEMMA StepKinds ==
  ASSUME [Next]_vars
  PROVE  \/ User
         \/ \E m \in Managers : AddFinalizer(m) \/ DropFinalizer(m) \/ WriteBack(m)
         \/ \E m \in Managers : Calling(m) \/ Reconcile(m) \/ Informer(m) \/ Crash(m)
         \/ \E n \in Names : Settle(n) \/ OutOfBand(n)
         \/ UNCHANGED vars
BY DEF Next, Step, Calling

-----------------------------------------------------------------------------
(* Copies come from the API server, in order. *)
LEMMA SyncedStays ==
  ASSUME TypeInv, TypeInv', [Next]_vars, NEW m \in Managers,
         \A k \in Managers : Synced(k)
  PROVE  Synced(m)'
<1>0. /\ api \in Versions(Statuses) /\ api.rv \in Nat
      /\ cache \in [Managers -> Objects]
      /\ cache[m] \in Versions(Statuses) /\ cache[m].rv \in Nat
      /\ watch \in [Managers -> SUBSET Objects]
      /\ \A v \in watch[m] : v.rv \in Nat /\ v.rv <= api.rv
      /\ w[m].obj.rv \in Nat
      /\ w \in [Managers -> Works]
      /\ Synced(m)
  BY CopyType DEF TypeInv, Objects, Versions, Synced, Sound
<1> DEFINE WorkerKept == w'[m].pc = "idle" \/ (w[m].pc # "idle" /\ w'[m].obj = w[m].obj)
<1>1. CASE UNCHANGED <<api, cache, watch>> /\ WorkerKept
  BY <1>0, <1>1 DEF Synced, Sound
<1>2. CASE Accepted /\ WorkerKept
  <2>1. cache'[m] = cache[m] /\ watch'[m] = watch[m] \cup {api'} /\ api'.rv = api.rv + 1
    BY <1>2 DEF Accepted
  <2>2. Sound(cache'[m], api')
    BY <1>0, <2>1 DEF Synced, Sound
  <2>3. \A v \in watch'[m] : Sound(v, api') /\ cache'[m].rv < v.rv
    BY <1>0, <2>1 DEF Synced, Sound
  <2>4. \A u, v \in watch'[m] : u.rv = v.rv => u = v
    BY <1>0, <2>1 DEF Synced
  <2>5. w'[m].pc # "idle" => Sound(w'[m].obj, api') /\ w'[m].obj.rv <= cache'[m].rv
    <3>1. ASSUME w[m].pc # "idle", w'[m].obj = w[m].obj
          PROVE  Sound(w'[m].obj, api') /\ w'[m].obj.rv <= cache'[m].rv
      BY <1>0, <2>1, <3>1 DEF Synced, Sound
    <3> QED BY <1>2, <3>1
  <2> QED BY <2>2, <2>3, <2>4, <2>5 DEF Synced
<1>3. CASE UNCHANGED w => WorkerKept
  <2>1. CASE User
    BY <1>2, <1>3, <2>1, UserKeeps
  <2>2. ASSUME NEW k \in Managers, AddFinalizer(k) \/ DropFinalizer(k) \/ WriteBack(k)
        PROVE  Synced(m)'
    <3>1. WorkerKept
      BY <1>0, <1>3, <2>2, WriteKeeps DEF Idle
    <3> QED BY <1>1, <1>2, <2>2, <3>1, WriteKeeps
  <2>3. ASSUME NEW k \in Managers, Calling(k) PROVE Synced(m)'
    <3>1. WorkerKept
      BY <1>3, <2>3, CallKeeps
    <3> QED BY <1>1, <2>3, <3>1, CallKeeps
  <2>4. ASSUME NEW k \in Managers, Reconcile(k) PROVE Synced(m)'
    <3>1. UNCHANGED <<api, cache, watch>>
      BY <2>4 DEF Reconcile
    <3>2. CASE k # m
      <4>1. w'[m] = w[m]
        BY <1>0, <2>4, <3>2 DEF Reconcile
      <4> QED BY <1>1, <1>3, <3>1, <4>1
    <3>3. CASE k = m
      <4>1. w'[m].pc = "idle" \/ w'[m].obj = cache[m]
        BY <1>0, <2>4, <3>3 DEF Reconcile, WorkingOn, Idle
      <4> QED BY <1>0, <3>1, <4>1 DEF Synced, Sound
    <3> QED BY <3>2, <3>3
  <2>5. ASSUME NEW k \in Managers, Informer(k) PROVE Synced(m)'
    <3>1. UNCHANGED <<api, w>>
      BY <2>5 DEF Informer, Sync, Resync
    <3>2. CASE Resync(k) \/ k # m
      <4>1. cache'[m] = cache[m] /\ watch'[m] = watch[m] /\ w'[m] = w[m]
        BY <1>0, <2>5, <3>1, <3>2 DEF Informer, Sync, Resync
      <4> QED BY <1>0, <3>1, <4>1 DEF Synced
    <3>3. CASE Sync(k) /\ k = m
      <4>1. PICK v \in watch[m] : /\ \A u \in watch[m] : v.rv <= u.rv
                                  /\ cache' = [cache EXCEPT ![m] = v]
                                  /\ watch' = [watch EXCEPT ![m] = @ \ {v}]
        BY <3>3 DEF Sync
      <4>2. cache'[m] = v /\ watch'[m] = watch[m] \ {v} /\ w'[m] = w[m]
        BY <3>1, <4>1 DEF TypeInv
      <4>3. \A u \in watch[m] \ {v} : v.rv < u.rv
        <5>1. \A u \in watch[m] : u.rv = v.rv => u = v
          BY <1>0, <4>1 DEF Synced
        <5>2. \A u \in watch[m] : u.rv \in Nat /\ v.rv <= u.rv
          BY <1>0, <4>1
        <5>3. v.rv \in Nat
          BY <1>0, <4>1
        <5> QED BY <5>1, <5>2, <5>3
      <4>4. w[m].pc # "idle" => w[m].obj.rv <= v.rv
        BY <1>0, <4>1 DEF Synced
      <4> QED BY <1>0, <3>1, <4>1, <4>2, <4>3, <4>4 DEF Synced
    <3> QED BY <2>5, <3>2, <3>3 DEF Informer
  <2>6. ASSUME NEW k \in Managers, Crash(k) PROVE Synced(m)'
    <3>1. CASE k # m
      <4>1. api' = api /\ cache'[m] = cache[m] /\ watch'[m] = watch[m] /\ w'[m] = w[m]
        BY <1>0, <2>6, <3>1 DEF Crash, Restart, Relist
      <4> QED BY <1>0, <4>1 DEF Synced
    <3>2. CASE k = m
      <4>1. api' = api /\ cache'[m] = api /\ watch'[m] = {} /\ w'[m].pc = "idle"
        BY <1>0, <2>6, <3>2 DEF Crash, Restart, Relist, Idle
      <4> QED BY <1>0, <4>1 DEF Synced, Sound
    <3> QED BY <3>1, <3>2
  <2>7. ASSUME NEW n \in Names, Settle(n) \/ OutOfBand(n) PROVE Synced(m)'
    BY <1>1, <1>3, <2>7 DEF Settle, OutOfBand
  <2>8. CASE UNCHANGED vars
    BY <1>1, <1>3, <2>8 DEF vars
  <2> QED BY <2>1, <2>2, <2>3, <2>4, <2>5, <2>6, <2>7, <2>8, StepKinds
<1>4. w'[m] = w[m] => WorkerKept
  OBVIOUS
<1> QED BY <1>3, <1>4

-----------------------------------------------------------------------------
LEMMA MissingStays ==
  ASSUME TypeInv, NEW v \in Objects, Missing(v, cloud),
         \/ UNCHANGED cloud
         \/ \E n \in Names : Settle(n) \/ OutOfBand(n)
  PROVE  Missing(v, cloud')
<1> DEFINE n == v.status.clusterName
<1>1. n \in Names \cup {NoId}
  BY DEF Objects, Versions, Statuses
<1>2. ASSUME NEW k \in Names, Settle(k) \/ OutOfBand(k), n # NoId
      PROVE  cloud'[n] = cloud[n]
  <2>1. k # n
    BY <1>2, SkeChange DEF Missing, IsNotFound, TypeInv
  <2> QED BY <1>1, <1>2, <2>1 DEF Settle, OutOfBand, TypeInv, CloudInv
<1> QED BY <1>2 DEF Missing

(* A copy's finalizer is gone from the API server only when the manager    *)
(* has removed it. *)
LEMMA FreshStays ==
  ASSUME UNCHANGED api \/ Kept, NEW v, Fresh(v, api) PROVE Fresh(v, api')
BY DEF Kept

(* The steps that keep what a manager is informed of and entitled to:      *)
(* those of the API server, the informer and SKE.                          *)
LEMMA OthersKeep ==
  ASSUME TypeInv, TypeInv', NEW m \in Managers, Synced(m), Informed(m), Entitled(m),
         UNCHANGED api \/ Kept,
         cache'[m] \in watch[m] \cup {cache[m]},
         watch'[m] \subseteq watch[m] \cup {api'},
         w'[m] = w[m] \/ w'[m].pc = "idle",
         UNCHANGED cloud \/ \E n \in Names : Settle(n) \/ OutOfBand(n)
  PROVE  Informed(m)' /\ Entitled(m)'
<1>0. cache[m] \in Objects /\ w[m].obj \in Objects
  BY CopyType DEF TypeInv
<1>1. Fresh(api', api')
  BY DEF Fresh
<1>2. \A v \in watch[m] \cup {cache[m], w[m].obj} : Fresh(v, api) => Fresh(v, api')
  BY FreshStays
<1>3. \A v \in {cache[m], w[m].obj} : Missing(v, cloud) => Missing(v, cloud')
  BY <1>0, MissingStays
<1>4. \A v \in watch'[m] : Fresh(v, api')
  BY <1>1, <1>2 DEF Informed
<1>5. Fresh(cache'[m], api') \/ Released(cache'[m], cloud')
  BY <1>2, <1>3 DEF Informed, Released
<1>6. Informed(m)'
  BY <1>4, <1>5 DEF Informed
<1>7. Fresh(cache[m], api) => Fresh(cache'[m], api')
  BY <1>2 DEF Informed
<1>8. Entitled(m)'
  BY <1>2, <1>3, <1>7 DEF Entitled, Released
<1> QED BY <1>6, <1>8

LEMMA ReconcileKeeps ==
  ASSUME TypeInv, NEW m \in Managers, Informed(m), Reconcile(m)
  PROVE  Informed(m)' /\ Entitled(m)'
<1> DEFINE o == cache[m]
<1>0. UNCHANGED <<api, cache, watch, cloud>> /\ w \in [Managers -> Works]
  BY DEF Reconcile, TypeInv
<1>1. w'[m].pc = "idle" \/ (w'[m].obj = o /\ w'[m].pc = reconcile(o))
  BY <1>0 DEF Reconcile, WorkingOn, Idle
<1>2. Informed(m)'
  BY <1>0 DEF Informed
<1>3. CASE w'[m].pc = "idle"
  BY <1>2, <1>3 DEF Entitled
<1>4. CASE w'[m].obj = o /\ w'[m].pc = reconcile(o)
  <2>1. o.deleting => reconcile(o) \in {"idle", "delGet", "dropFinalizer"}
    BY DEF reconcile, reconcileDelete
  <2>2. reconcile(o) = "dropFinalizer" => o.status.clusterName = NoId
    BY DEF reconcile, reconcileDelete
  <2>3. reconcile(o) = "dropFinalizer" => Missing(o, cloud)
    BY <2>2 DEF Missing
  <2>4. Fresh(o, api) \/ Released(o, cloud)
    BY DEF Informed
  <2>5. Released(o, cloud) => o.deleting
    BY DEF Released
  <2> QED BY <1>0, <1>2, <1>4, <2>1, <2>3, <2>4, <2>5 DEF Entitled
<1> QED BY <1>1, <1>3, <1>4

LEMMA CallingKeeps ==
  ASSUME TypeInv, OneManager, NEW m \in Managers, Informed(m), Entitled(m), Calling(m)
  PROVE  Informed(m)' /\ Entitled(m)'
<1> DEFINE x == w[m]
           y == w'[m]
           n == x.obj.status.clusterName
<1>0. /\ UNCHANGED <<api, cache, watch>> /\ x.pc # "idle"
      /\ \/ y.pc = "idle"
         \/ /\ y.obj = x.obj /\ y.pc # "delGet" /\ x.pc # "dropFinalizer"
            /\ x.pc = "delGet" =>
                 IF y.pc = "dropFinalizer" THEN IsNotFound(n) ELSE ~ IsNotFound(n)
            /\ y.pc = "dropFinalizer" => x.pc = "delGet" /\ UNCHANGED cloud
  BY CallKeeps
<1>1. x.pc = "delGet" => n # NoId
  BY CopyType DEF WorksOn
<1>2. UNCHANGED cloud \/ Fresh(cache[m], api)
  <2>1. CASE CreateSucceeds(m) \/ CreateFailed(m) \/ UpdateCluster(m) \/ DeleteCluster(m)
    <3>1. UNCHANGED cloud \/ x.pc \in {"create", "update", "delete"}
      BY <2>1, WorkerChange DEF ChangesOwn, Upserts, Deletes
    <3> QED BY <3>1 DEF Entitled
  <2>2. CASE ~ (CreateSucceeds(m) \/ CreateFailed(m) \/ UpdateCluster(m) \/ DeleteCluster(m))
    BY <2>2 DEF Calling, AdoptGet, CreateConflicts, ExistsGet, ObserveMissing,
       ObserveCluster, ObserveDrift, DeleteGet, Fail
  <2> QED BY <2>1, <2>2
<1>3. Informed(m)'
  BY <1>0, <1>2 DEF Informed
<1>4. CASE y.pc = "idle"
  BY <1>3, <1>4 DEF Entitled
<1>5. CASE y.pc # "idle" /\ Fresh(x.obj, api) /\ Fresh(cache[m], api)
  <2>1. Fresh(y.obj, api') /\ Fresh(cache'[m], api')
    BY <1>0, <1>5
  <2>2. y.pc = "dropFinalizer" => Missing(y.obj, cloud')
    BY <1>0, <1>5 DEF Missing, IsNotFound
  <2>3. Entitled(m)'
    BY <2>1, <2>2 DEF Entitled
  <2> QED BY <1>3, <2>3
<1>6. CASE y.pc # "idle" /\ x.pc = "delGet" /\ Released(x.obj, cloud)
  <2>1. IsNotFound(n)
    BY <1>1, <1>6 DEF Released, Missing, IsNotFound
  <2>2. y.pc = "dropFinalizer" /\ UNCHANGED cloud /\ y.obj = x.obj
    BY <1>0, <1>6, <2>1
  <2>3. Released(y.obj, cloud') /\ Missing(y.obj, cloud')
    BY <1>6, <2>2 DEF Released
  <2>4. Entitled(m)'
    BY <2>2, <2>3 DEF Entitled
  <2> QED BY <1>3, <2>4
<1> QED BY <1>0, <1>4, <1>5, <1>6 DEF Entitled

(* A deletion completes: the object goes with its finalizer, and so the    *)
(* cache is left with a version that nothing more is done for.             *)
LEMMA DropKeeps ==
  ASSUME TypeInv, NEW m \in Managers, Synced(m), Entitled(m), Dropped(m), Accepted,
         w' = [w EXCEPT ![m] = Idle(NoStatus)]
  PROVE  Informed(m)' /\ Entitled(m)'
<1>1. /\ w[m].pc = "dropFinalizer" /\ w[m].obj = api
      /\ UNCHANGED <<cache, cloud>> /\ watch'[m] = watch[m] \cup {api'}
  BY DEF Dropped, DropFinalizer, removeFinalizerAndUpdate, Accepted
<1>2. /\ api.rv \in Nat /\ cache[m].rv \in Nat
      /\ \A v \in watch[m] : v.rv \in Nat
  BY DEF TypeInv, Objects, Versions
<1>3. cache[m] = api
  <2>1. api.rv <= cache[m].rv /\ cache[m].rv <= api.rv
    BY <1>1 DEF Synced, Sound
  <2> QED BY <1>2, <2>1 DEF Synced, Sound
<1>4. watch[m] = {}
  <2>1. \A v \in watch[m] : v.rv <= api.rv /\ api.rv < v.rv
    BY <1>3 DEF Synced, Sound
  <2> QED BY <1>2, <2>1
<1>5. \A v \in watch'[m] : Fresh(v, api')
  BY <1>1, <1>4 DEF Fresh
<1>6. Released(cache'[m], cloud')
  <2>1. api.exists /\ api.deleting
    BY <1>1, CopyType DEF WorksOn, DeleteCalls
  <2>2. Missing(api, cloud)
    BY <1>1 DEF Entitled
  <2> QED BY <1>1, <1>3, <2>1, <2>2 DEF Released
<1>7. Informed(m)'
  BY <1>5, <1>6 DEF Informed
<1>8. w'[m].pc = "idle"
  BY DEF TypeInv, Idle
<1> QED BY <1>7, <1>8 DEF Entitled

LEMMA OneInit == Init => OneInv
<1> SUFFICES ASSUME Init, NEW m \in Managers PROVE Synced(m) /\ Informed(m) /\ Entitled(m)
  BY DEF OneInv
<1>1. w[m].pc = "idle" /\ cache[m] = api /\ watch[m] = {}
  BY DEF Init, KubeInit, Idle
<1>2. api.rv <= api.rv
  BY InitType DEF TypeInv, Objects, Versions
<1>3. Synced(m)
  BY <1>1, <1>2 DEF Synced, Sound
<1>4. Informed(m)
  BY <1>1 DEF Informed, Fresh
<1> QED BY <1>1, <1>3, <1>4 DEF Entitled

LEMMA OneNext ==
  ASSUME OneManager, TypeInv, TypeInv', OneInv, [Next]_vars PROVE OneInv'
<1> SUFFICES ASSUME NEW m \in Managers PROVE Synced(m)' /\ Informed(m)' /\ Entitled(m)'
  BY DEF OneInv
<1>0. /\ Synced(m) /\ Informed(m) /\ Entitled(m)
      /\ \A k \in Managers : k = m
      /\ cache \in [Managers -> Objects]
      /\ watch \in [Managers -> SUBSET Objects]
      /\ w \in [Managers -> Works]
  BY DEF OneInv, OneManager, TypeInv
<1>1. Synced(m)'
  BY SyncedStays DEF OneInv
<1> DEFINE Rest == Informed(m)' /\ Entitled(m)'
<1>2. CASE User
  <2>1. /\ Kept /\ UNCHANGED <<w, cloud>> /\ cache'[m] = cache[m]
        /\ watch'[m] = watch[m] \cup {api'}
    BY <1>2, UserKeeps DEF Accepted
  <2>2. Rest
    BY <1>0, <2>1, OthersKeep
  <2> QED BY <1>1, <2>2
<1>3. CASE AddFinalizer(m) \/ DropFinalizer(m) \/ WriteBack(m)
  <2>1. /\ w' = [w EXCEPT ![m] = Idle(NoStatus)]
        /\ UNCHANGED <<cache, cloud>>
        /\ UNCHANGED <<api, watch>> \/ (Accepted /\ (Kept \/ Dropped(m)))
    BY <1>0, <1>3, WriteKeeps
  <2>2. w'[m].pc = "idle"
    BY <1>0, <2>1 DEF Idle
  <2>3. CASE Accepted /\ Dropped(m)
    BY <1>0, <1>1, <2>1, <2>3, DropKeeps
  <2>4. CASE UNCHANGED <<api, watch>> \/ (Accepted /\ Kept)
    <3>1. /\ UNCHANGED api \/ Kept
          /\ watch'[m] \subseteq watch[m] \cup {api'}
      BY <2>4 DEF Accepted
    <3>2. Rest
      BY <1>0, <2>1, <2>2, <3>1, OthersKeep
    <3> QED BY <1>1, <3>2
  <2> QED BY <2>1, <2>3, <2>4
<1>4. CASE Calling(m)
  BY <1>0, <1>1, <1>4, CallingKeeps
<1>5. CASE Reconcile(m)
  BY <1>0, <1>1, <1>5, ReconcileKeeps
<1>6. CASE Informer(m)
  <2>1. UNCHANGED <<api, w, cloud>>
    BY <1>6 DEF Informer, Sync, Resync
  <2>2. /\ cache'[m] \in watch[m] \cup {cache[m]}
        /\ watch'[m] \subseteq watch[m] \cup {api'}
    BY <1>0, <1>6 DEF Informer, Sync, Resync
  <2>3. Rest
    BY <1>0, <2>1, <2>2, OthersKeep
  <2> QED BY <1>1, <2>3
<1>7. CASE Crash(m)
  <2>1. /\ UNCHANGED api /\ cache'[m] = api /\ watch'[m] = {} /\ w'[m].pc = "idle"
    BY <1>0, <1>7 DEF Crash, Restart, Relist, Idle
  <2>2. Fresh(api, api)
    BY DEF Fresh
  <2>3. Informed(m)'
    BY <2>1, <2>2 DEF Informed
  <2> QED BY <1>1, <2>1, <2>3 DEF Entitled
<1>8. CASE \E n \in Names : Settle(n) \/ OutOfBand(n)
  <2>1. UNCHANGED <<api, cache, watch, w>>
    BY <1>8 DEF Settle, OutOfBand
  <2>2. Rest
    BY <1>0, <1>8, <2>1, OthersKeep
  <2> QED BY <1>1, <2>2
<1>9. CASE UNCHANGED vars
  <2>1. UNCHANGED <<api, cache, watch, w, cloud>>
    BY <1>9 DEF vars
  <2>2. Rest
    BY <1>0, <2>1, OthersKeep
  <2> QED BY <1>1, <2>2
<1> QED BY <1>0, <1>2, <1>3, <1>4, <1>5, <1>6, <1>7, <1>8, <1>9, StepKinds

LEMMA OneInvariant == ASSUME OneManager PROVE Spec => []OneInv
<1>1. TypeInv /\ TypeInv' /\ OneInv /\ [Next]_vars => OneInv'
  BY OneNext
<1> QED BY <1>1, OneInit, TypeInvariant, PTL DEF Spec

-----------------------------------------------------------------------------
(* With one manager, an object that records a cluster of its own goes only *)
(* once SKE has answered that the cluster is gone, and none is made again  *)
(* in between.                                                             *)
THEOREM NoClusterLeft ==
  ASSUME OneManager PROVE Spec => RecordedClusterNotLeft
<1>1. ASSUME TypeInv, TypeInv', OneInv, [Next]_vars, NEW n \in Names,
             Recorded(n), Live(n), ~ Adopted(api)
      PROVE  api'.exists
  <2>1. api.exists /\ api.status.clusterName = n /\ cloud[n].state # "none"
    BY <1>1 DEF Recorded, Live, IsNotFound
  <2>2. n # NoId
    BY ClusterAssumption
  <2>3. api.finalizer
    BY <1>1, <2>1, <2>2 DEF TypeInv, Objects, Proper, Covered
  <2>4. ~ Missing(api, cloud)
    BY <2>1, <2>2 DEF Missing
  <2>5. CASE UNCHANGED api
    BY <2>1, <2>5
  <2>6. CASE User
    BY <1>1, <2>1, <2>3, <2>6, UserKeeps DEF Kept
  <2>7. ASSUME NEW m \in Managers, AddFinalizer(m) \/ DropFinalizer(m) \/ WriteBack(m)
        PROVE  api'.exists
    <3>1. Synced(m) /\ Entitled(m)
      BY <1>1 DEF OneInv
    <3>2. ~ Dropped(m)
      BY <2>4, <3>1 DEF Dropped, DropFinalizer, removeFinalizerAndUpdate, Entitled
    <3>3. UNCHANGED api \/ Kept
      BY <1>1, <2>7, <3>1, <3>2, WriteKeeps
    <3> QED BY <2>1, <2>3, <3>3 DEF Kept
  <2>8. ASSUME NEW m \in Managers, Calling(m) \/ Reconcile(m) \/ Informer(m) \/ Crash(m)
        PROVE  UNCHANGED api
    BY <1>1, <2>8, CallKeeps DEF Reconcile, Informer, Sync, Resync, Crash, Restart, Relist
  <2> QED BY <1>1, <2>5, <2>6, <2>7, <2>8, StepKinds DEF Settle, OutOfBand, vars
<1>2. TypeInv /\ TypeInv' /\ OneInv /\ [Next]_vars
        => [\A n \in Names :
              Recorded(n) /\ Live(n) /\ ~ Adopted(api) => api'.exists]_vars
  BY <1>1
<1> QED BY <1>2, TypeInvariant, OneInvariant, PTL DEF Spec, RecordedClusterNotLeft

(* With one manager, every upsert and delete is made for an object that is *)
(* there now, owns the name and has the finalizer - although it is decided *)
(* on a cached copy that nothing re-reads - and every delete while the     *)
(* object is being deleted.                                                *)
THEOREM OwnedTouchedOnly ==
  ASSUME OneManager PROVE Spec => OnlyOwnedTouched
<1>1. ASSUME TypeInv, OneInv, [Next]_vars, NEW n \in Names, NEW m \in Managers,
             cloud'[n] # cloud[n], w'[m] # w[m]
      PROVE  /\ api.exists /\ api.finalizer /\ ~ Adopted(api) /\ clusterName(api) = n
             /\ cloud'[n].state = "STATE_DELETING" => api.deleting /\ Recorded(n)
  <2> DEFINE o == w[m].obj
  <2>1. ChangesOwn(m)
    BY <1>1, CloudSteps DEF OneManager
  <2>2. /\ ~ Adopted(o) /\ o.exists /\ o.finalizer /\ clusterName(o) = n
        /\ w[m].pc \in {"create", "update", "delete"}
        /\ cloud'[n].state = "STATE_DELETING" => o.deleting /\ o.status.clusterName = n
    BY <1>1, <2>1 DEF ChangesOwn, Upserts, Deletes
  <2>3. Fresh(o, api)
    BY <1>1, <2>2 DEF OneInv, Entitled
  <2> QED BY <2>2, <2>3 DEF Fresh, Adopted, clusterName, Recorded
<1>2. TypeInv /\ OneInv /\ [Next]_vars
        => [\A n \in Names, m \in Managers :
              cloud'[n] # cloud[n] /\ w'[m] # w[m] =>
                /\ api.exists /\ api.finalizer /\ ~ Adopted(api) /\ clusterName(api) = n
                /\ cloud'[n].state = "STATE_DELETING" => api.deleting /\ Recorded(n)]_vars
  BY <1>1
<1> QED BY <1>2, TypeInvariant, OneInvariant, PTL DEF Spec, OnlyOwnedTouched
=============================================================================
