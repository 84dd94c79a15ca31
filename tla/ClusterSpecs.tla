----------------------------- MODULE ClusterSpecs -----------------------------
(***************************************************************************)
(* What the Cluster reconciler sends to SKE and how it compares that with  *)
(* what SKE has: BuildClusterPayload (internal/stackit/clusters.go) and    *)
(* the comparisons of reconcileDrift (internal/controller/                 *)
(* cluster_controller.go), as operators.                                   *)
(*                                                                         *)
(* A Kubernetes version is a number.  A node pool's machine type, image    *)
(* name and image version are one value, machine; allowSystemComponents    *)
(* and labels, which are sent but never compared, are left out.  A time is *)
(* a date and a clock.                                                     *)
(***************************************************************************)
EXTENDS Integers, SequencesExt

CONSTANTS
  Half,             \* an int32 goes from -Half to Half - 1
  NoMaintenance     \* an unset spec.maintenance

ASSUME HalfAssumption == Half \in Nat \ {0}

-----------------------------------------------------------------------------
(* The fields of a spec. *)
IsList(x) == Len(x) \in Nat /\ x = [k \in 1..Len(x) |-> x[k]]

IsPool(p) ==
  /\ p = [name |-> p.name, machine |-> p.machine, minimum |-> p.minimum,
          maximum |-> p.maximum, size |-> p.size, type |-> p.type, zones |-> p.zones]
  /\ IsList(p.zones)

IsMaintenance(mt) ==
  mt = [kubernetesVersion |-> mt.kubernetesVersion, machineImage |-> mt.machineImage,
        start |-> mt.start, end |-> mt.end]

-----------------------------------------------------------------------------
(* int32(n) of an int64 n. *)
Int32(n) == ((n + Half) % (2 * Half)) - Half

(* buildNodepools: the pools of a spec as the payload has them. *)
buildNodepools(specs) ==
  [k \in DOMAIN specs |->
     [specs[k] EXCEPT !.minimum = Int32(@), !.maximum = Int32(@), !.size = Int32(@)]]

BuildClusterPayload(s) ==
  [version |-> s.version, pools |-> buildNodepools(s.pools),
   maintenance |-> s.maintenance]

(* What SKE makes of a payload: it fills in its defaults, lists a pool's   *)
(* zones in its own order, and keeps only the clock of a time.             *)
StoredPool(p) ==
  [p EXCEPT !.type = IF @ = "" THEN "standard" ELSE @, !.zones = Reverse(@)]

ClockOnly(t) == [date |-> 0, clock |-> t.clock]

DefaultMaintenance ==
  [kubernetesVersion |-> TRUE, machineImage |-> TRUE,
   start |-> [date |-> 0, clock |-> 1], end |-> [date |-> 0, clock |-> 2]]

StoredMaintenance(mt) ==
  IF mt = NoMaintenance THEN DefaultMaintenance
  ELSE [mt EXCEPT !.start = ClockOnly(@), !.end = ClockOnly(@)]

Stored(payload) ==
  [version |-> payload.version,
   pools |-> [k \in DOMAIN payload.pools |-> StoredPool(payload.pools[k])],
   maintenance |-> StoredMaintenance(payload.maintenance)]

(* SKE refuses a pool without room for a node. *)
Refused(payload) ==
  \E p \in ToSet(payload.pools) :
    p.minimum < 0 \/ p.maximum < 1 \/ p.maximum < p.minimum \/ p.size < 1

-----------------------------------------------------------------------------
(* Defect: zones are compared in the order they are listed. *)
stringSlicesEqualUnordered_Ordered(a, b) == a = b

stringSlicesEqualUnordered(a, b) == Len(a) = Len(b) /\ ToBag(a) = ToBag(b)

(* The comparison of an observed pool with the desired one of its name. *)
samePool(got, want) ==
  /\ got.machine = want.machine
  /\ got.minimum = Int32(want.minimum)
  /\ got.maximum = Int32(want.maximum)
  /\ got.size = Int32(want.size)
  /\ want.type \in {"", got.type}
  /\ stringSlicesEqualUnordered(got.zones, want.zones)

(* byName: of pools with the same name the map keeps the last. *)
byName(current, name) ==
  {k \in DOMAIN current :
     current[k].name = name
       /\ \A l \in DOMAIN current : current[l].name = name => l <= k}

nodepoolsEqual(current, desired) ==
  /\ Len(current) = Len(desired)
  /\ \A j \in DOMAIN desired : \E k \in byName(current, desired[j].name) :
       samePool(current[k], desired[j])

(* Defect: times are compared with their dates. *)
sameTimeOfDay_WithDate(a, b) == a = b

sameTimeOfDay(a, b) == a.clock = b.clock

(* An unset maintenance is never drift. *)
maintenanceEqual(current, desired) ==
  \/ desired = NoMaintenance
  \/ /\ current # NoMaintenance
     /\ current.kubernetesVersion = desired.kubernetesVersion
     /\ current.machineImage = desired.machineImage
     /\ sameTimeOfDay(current.start, desired.start)
     /\ sameTimeOfDay(current.end, desired.end)

(* reconcileDrift resubmits the whole spec if one of three parts differs. *)
reconcileDrift(current, s) ==
  \/ current.version # s.version
  \/ ~ nodepoolsEqual(current.pools, s.pools)
  \/ ~ maintenanceEqual(current.maintenance, s.maintenance)

-----------------------------------------------------------------------------
(* What the README promises of a cluster, said without the operators of    *)
(* the code: it has the version, exactly the pools and, if there is one,   *)
(* the maintenance window of the spec.                                     *)
Describes(s, current) ==
  /\ current.version = s.version
  /\ {p.name : p \in ToSet(current.pools)} = {p.name : p \in ToSet(s.pools)}
  /\ \A p \in ToSet(s.pools), q \in ToSet(current.pools) :
       p.name = q.name =>
         /\ [q EXCEPT !.zones = ToSet(@), !.type = "any"]
              = [p EXCEPT !.zones = ToSet(@), !.type = "any"]
         /\ p.type \in {"", q.type}
  /\ s.maintenance # NoMaintenance =>
       StoredMaintenance(s.maintenance) = current.maintenance

(* Numbers that an int32 can hold. *)
Fits(s) ==
  \A p \in ToSet(s.pools) : {p.minimum, p.maximum, p.size} \subseteq (-Half)..(Half - 1)
===============================================================================
