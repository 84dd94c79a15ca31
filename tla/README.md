# TLA+ models of stackit-compute-operator

The operator keeps objects in STACKIT (servers, volumes, networks, Kubernetes
clusters) in line with custom resources in a Kubernetes cluster. This directory
models its controllers in TLA+, checks the models with TLC and proves some of
their properties with TLAPS.

## 1. The system

| Part | Where | State it keeps | Operations |
|---|---|---|---|
| Volume controller | `internal/controller/volume_controller.go` | none of its own: the ID and observed state in `.status`, the finalizer | create or adopt, observe, resize, update, delete |
| Server controller | `internal/controller/server_controller.go` | the same | resolve references, create, observe, resize, stop, start, update, delete |
| Network controller | `internal/controller/network_controller.go` | the same | create or adopt, observe, update, delete |
| Cluster controller | `internal/controller/cluster_controller.go` | the same, keyed by name | upsert or adopt, observe, upsert on drift, delete |
| Shared helpers | `internal/controller/lifecycle.go` | - | finalizers, re-read before create, status comparison, error demotion |
| STACKIT wrappers | `internal/stackit` | - | one call each, payload builders, error classification |
| Manager | `cmd/main.go`, controller-runtime | informer cache, work queue | one worker per object and manager, leader election if asked for |

The parts interact through two services that are not in the repository. The
Kubernetes API server has the objects, orders their versions by
`resourceVersion` and rejects writes based on an older one. STACKIT has the
real resources, works on them asynchronously and may have them changed behind
the operator's back. A controller reads the object from a cache that may lag,
makes one or more calls, writes `.status`, and asks to be called again. Servers
read Networks and Volumes through the same cache, and hold them in STACKIT.

What is hard: the ID of a created resource exists only in the worker until the
status write succeeds; every decision is taken on a copy that may be stale; a
call may fail, or its reply be lost, at any point; the manager may die between
any two calls; users edit, delete and re-create objects meanwhile; a correction
must end up comparing equal, or it never ends; and nobody but a requeue or a
watch event gets a stalled object going again. `PROJECT.json` lists these
hazards line by line, with the properties that would catch them.

What makes a controller correct:

- it makes one STACKIT resource per object, and does not lose track of one;
- it deletes what it made, and nothing else, before the object goes;
- it changes only what its object records, and never an adopted resource;
- a Ready condition is about the current spec;
- in the end the resource is as specified and mirrored, or gone.

## 2. The modules

    KubeApi            API server, caches, watch events, work queue (external)
      Lifecycle        lifecycle.go and the shape of a reconcile
        VolumeController     volume_controller.go, and volumes in STACKIT
          MCVolume           instances for TLC
          VolumeProofs       types; adopted volumes are only observed; Ready;
                             copies of the object; lost volumes
            VolumeOneManagerProofs   with one manager: the finalizer,
                             duplicates, OwnedResource, what is touched
        ServerController     server_controller.go, and servers in STACKIT
          MCServer
          ServerProofs       types; Ready; copies of the object; lost servers
            ServerOneManagerProofs   with one manager: creates, OwnedResource
        NetworkController    network_controller.go, and networks in STACKIT
          MCNetwork
          NetworkProofs      types; adopted networks; copies; lost networks
            NetworkOneManagerProofs  with one manager: the finalizer,
                             duplicates, OwnedResource
        ClusterController    cluster_controller.go, and clusters in SKE
          MCCluster
          ClusterProofs      types; what a correction achieves; adopted
                             clusters; with one manager: what is left, touched
    ClusterSpecs       payloads and comparisons of clusters (EXTENDed there)
    OwnedResource      what a controller promises (abstract specification)
    Stack              VolumeController and ServerController side by side
      MCStack
      StackProofs      the Volume outlives the servers that boot from it

**KubeApi** models one object: `api` is the API server's version of it (it
exists or not, `rv` is the resourceVersion, `gen` the generation), `cache[m]`
what `client.Get` returns in manager `m`, `watch[m]` the versions its informer
has yet to see, in order of `rv`, and `queued[m]` whether the key is due. Users
create, edit, delete and re-create the object. `left` counts how many edits,
faults and outages may still happen.

**Lifecycle** adds a worker per manager: `w[m].pc` is the call it makes next,
`w[m].obj` the copy of the object it holds, `w[m].before` the snapshot for
`statusUnchanged`, `w[m].st` the status it is about to write. A reconcile is cut
at its calls: an action makes one call - on the API server, on STACKIT - and
computes everything up to the next one, because between two calls nothing else
can see or disturb it. The trailing status write is the call `write`. A
reconcile ends in `Return`, which says whether it asks to be called again;
intervals are left out, and so is the difference between an error and a
requeue, which is all `demoteTransientAuthError` changes.

**The four controllers** have one action per call of the Go code, named after
it:

| Go | Volume | Server | Network | Cluster |
|---|---|---|---|---|
| `Reconcile`, and `reconcile` up to the first call | `Reconcile`, `reconcile` | the same | the same | the same |
| finalizer added, removed | `AddFinalizer`, `DropFinalizer` | the same | the same | the same |
| adoption | `AdoptGet` | - | `AdoptGet` | `AdoptGet` |
| `idAlreadyPresent` | `Recheck` | `Recheck`, with the references | `Recheck` | - |
| references not ready or invalid | - | `Unresolved` | - | - |
| create and its outcomes | `CreateSucceeds`, `CreateFailed`, `CreateWithoutId` | these and `CreateRefused` | `CreateSucceeds`, `CreateFailed` | `CreateSucceeds`, `CreateConflicts` and `ExistsGet`, `CreateFailed` |
| `reconcileExisting` | `ObserveMissing`, `ObserveVolume`, `ObserveDrift` | `..., ObserveServer, ...` | `..., ObserveNetwork, ...` | `..., ObserveCluster, ...` |
| `reconcileDrift` | `ResizeVolume`, `UpdateVolume` | `ResizeServer`, `StopServer`, `StartServer`, `UpdateServer` | `UpdateNetwork` | `UpdateCluster` |
| `reconcileDelete` | `DeleteGet`, `DeleteVolume` | `DeleteGet`, `DeleteServer` | `DeleteGet`, `DeleteNetwork` | `DeleteGet`, `DeleteCluster` |
| `Status().Update` | `WriteBack` | `WriteBack` | `WriteBack` | `WriteBack` |
| any call fails; the manager restarts | `Fail`, `Crash` | `Fail`, `Crash` | `Fail`, `Crash` | `Fail`, `Crash` |

`cloud[i]` is the STACKIT resource with ID `i`; its state is `"none"` before it
is made and `"gone"` afterwards, both of which STACKIT answers with 404. STACKIT
gives an ID once. For clusters `cloud[n]` is the cluster named `n`, which may be
made again. `Settle` ends an operation of STACKIT's, `OutOfBand` is a change by
someone else. `refs[m]` is what the cache of `m` shows of the Network and the
Volume a Server refers to.

*Networks.* Drift is compared field by field and label by label (`Differing`),
and the correction carries the fields that differ and, if one label differs, all
labels of the spec (`reconcileDrift`, `Updated`). Because `UpdateNetwork` takes
what the observation before it has found, the worker keeps that in `payload[m]`.

*Clusters.* `ClusterSpecs` has the payload builder, what SKE makes of a payload
(`Stored`: its defaults, zones in its own order, a time without its date), and
the comparisons. An `int64` of a spec becomes an `int32` by `Int32`, whose width
is the constant `Half`. `ClusterController` creates and corrects with one call,
`CreateOrUpdateCluster`.

**OwnedResource** says what the operator promises of an object and the resources
made for it, without caches, queues or calls. A resource is not made, made with
its ID on the way, held by the object, lost, or gone; one is made only for an
object that has none; the object goes only when nothing is held or on the way;
a resource is lost only while its ID is on the way. `ImplementsOwned` in the
Volume, Server and Network controllers says that they implement it, with the
object's state computed by `Promised` and a resource's by `Stage`. It takes one
manager. The Cluster controller does not implement it: its resources have no IDs
of their own and its create may find one that is there.

**Stack** puts a Server and the Volume of its `bootVolumeRef` together. Its
steps are those of the two controllers, instantiated with variables of their
own, with two changes: what the Server controller sees of the Volume is computed
from the Volume's cache (`VolumeView`), and a server that is made takes hold of
its volume in STACKIT, until it goes and releases it or, with
`deleteOnTermination`, takes it along. A volume whose operation ends is
`ATTACHED` afterwards just when a server holds it. `Stack` starts with a Server that runs, or
with one that was deleted and has just been applied again while the Volume's
`.status` still says `ATTACHED`.

Abstractions. Of a Volume or Server, the fields an update call corrects (name,
description, bootable, labels) are one value, `meta`. A condition is its reason
and generation: the status follows from the reason, and the message is left out.
NICs, `serverId`, addresses, poll intervals and log lines are left out. A failed
call has no effect, except for the create, which may also fail after STACKIT has
made the resource; a correction that takes effect and fails is followed by the
same steps as one that succeeds. What STACKIT accepts is modelled as the code
and its comments assume: a volume only grows, a volume needs a size, a busy
resource is not deleted, a server does not boot from a volume that is not
`AVAILABLE`, SKE refuses an older Kubernetes version and a pool without room for
a node, and answers `AlreadyExists` while a cluster is busy. Users do not change
`spec.existingId` or `spec.existingClusterName`, which the repository's README
calls unsupported, nor the name of a cluster (`cluster_types.go`).

A definition whose name ends in `_Something` and whose comment begins with
"Defect" is a wrong version of the one that follows. No specification uses
it; it documents which mistake a property would catch.

## 3. The runs

Properties that hold:

| Run | Checks | Shows |
|---|---|---|
| `volume_safety` | `TypeOK`, `FinalizerCoversRecorded`, `ReadyInSync`, `OrphanOnlyFromLostWrite`, `NoDuplicateCreate`, `OnlyRecordedTouched`, `AdoptedUntouched`, `ImplementsOwned` | any two of: an edit or re-creation; a failed call, lost reply or restart; a change or loss out of band. Deletion anywhere, owned and adopted volumes |
| `volume_recovers` | `EventuallyMirrored`, `DeletionCompletes` | after any two of an edit or re-creation, a fault, and a deletion out of band the volume is there and mirrored, or gone with its object. Sizes are unset, grown or shrunk: a refused create is reported |
| `server_safety` | `TypeOK`, `ReadyInSync`, `OrphanOnlyFromLostWrite`, `CreateOnlyWhenNeeded`, `ImplementsOwned` | as `volume_safety`, with edits of machine type and power state |
| `server_references` | `EventuallyAsSpecified`, `DeletionCompletes` | missing, unfinished and contradictory references; deletion at any point |
| `network_safety` | `TypeOK`, `OrphanOnlyFromLostWrite`, `AdoptedUntouched`, `ImplementsOwned` | as `volume_safety`, with networks in use |
| `network_recovers` | `DeletionCompletes`, `EventuallyAsSpecified` | partial updates converge to every field and label of the spec, after an edit, a fault or an outage |
| `cluster_safety` | `TypeOK`, `RecordedClusterNotLeft`, `OnlyOwnedTouched`, `AdoptedUntouched`, `CorrectionSettles` | upserts from stale copies, `AlreadyExists`, adoption, numbers that wrap |
| `cluster_recovers` | `DeletionCompletes`, `EventuallyAsSpecified` | a cluster that is lost, or loses its pools or version, is as specified again, or gone with its object |
| `stack` | `VolumeOutlivesServer`, `BothGo`, `ServerBootsFromVolume` | deletion in either order, and a boot volume that goes with its server under both controllers' stale views |

Statements of the repository that the code does not keep (`findings` in
`PROJECT.json` quotes them):

| Run | Property | What happens |
|---|---|---|
| `volume_leak` | `FinalizerGuaranteesDeletion` | `kubectl delete` between the create and its status write: the write conflicts, the ID is lost, the finalizer goes, the volume stays |
| `cluster_takeover` | `CreatesOnlyMissing` | a Cluster whose name an unrelated cluster has replaces that cluster's configuration |
| `cluster_autoupdate` | `AutoUpdatesStay` | an automatic version update that the spec asks for is corrected as drift |

`OrphanOnlyFromLostWrite` is the positive side of `volume_leak`: it says that
the lost write, the lost reply and an object without its finalizer are the only
ways to lose a resource. It does not say that these lose none. In the same way
`EventuallyMirrored` says that a refused shrink (`ShrinkRefused`) is all that
keeps a Volume's `.status` behind for good. `RecordedClusterNotLeft` is about
clusters the object records: one whose first reply or status write is lost is
left behind if the object is deleted before the upsert is repeated.

Four more disagreements are plain from the code and have no run: a size that is
made smaller is refused in every reconcile, which returns before it writes
`.status` (`volume_controller.go:214`), so that this may say `CREATING` for good
of a volume that is `AVAILABLE`, against the README's "Mirrors STACKIT's observed
status onto `.status`"; a Server is
created on a Network that has an ID but is not Ready (`server_controller.go:188`,
against the README's "isn't Ready yet, the Server just waits"); a Server is
corrected in any state that is not transitional or `ERROR`, such as `PAUSED`
(`server_controller.go:280`, against "once in a steady state"); and a maintenance
window that is moved to another day of the week only is not sent
(`sameTimeOfDay`, `cluster_controller.go:445`), although `cluster_types.go:82-84`
says that "the time-of-day and day-of-week are meaningful to SKE". On the last
the repository contradicts itself: the comment of `sameTimeOfDay` says that the
window recurs daily and that SKE echoes no date.

**Bounds.** Every run but `stack` has one object. `MaxEdits` counts user writes
after the first creation; a deletion is free, so one edit covers create - delete
- create again. `MaxFaults` and `MaxOutages` count failures and out-of-band
changes, and `MaxTogether` how many of all three: the safety runs have one of
each and two together, in any order and at any moment, because the hazards are
about what follows one disturbance while another is under way. `Ids` must not
run out where liveness is checked - a create with no ID left is not enabled - so
those runs have as many as creations can happen; in the safety runs two
suffice, since a property relates at most two resources. The liveness runs of
Volumes and Networks have failed calls, lost replies and restarts; those of
Servers and Clusters have none, and their properties say nothing of them beyond
what a conflict, an edit or a refused call does as well, which also end a
reconcile and have it retried. In `volume_recovers` an edit, a fault and an
outage come in pairs, with three sizes. Its only outage is a deletion out of
band, which shows as `DELETING` and then as a 404; volumes that others attach or
change are in `volume_safety`, and one that its server holds is in `stack`. Two
sizes, machine types or labels make both directions of a change possible. `Half` is 8,
so that a size of 18 wraps to 2. `stack` has no edits, faults or outages, which
the runs of its parts have: what it adds is the order of their steps; two
servers and three volumes are as many as can be made. One manager is what leader
election gives (`config/manager/manager.yaml` asks for it; the flag's default is
off). What holds for any number is in section 4. Deadlock is not checked,
because the system may stop: once the object is gone and the bounds are used up
nothing has to happen.

**Fairness.** `FairSpec` asks for weak fairness of a manager's worker (taking a
queued key, and making the next call of the reconcile), of its informer, and of
STACKIT's asynchronous operations: controller-runtime keeps its workers and
informers running, client calls return or time out, and STACKIT finishes what
it starts. For a Server alone the referenced objects become ready, which is what
their own controllers do; in `stack` the Volume controller has to do it. No
fairness is asked of users, of failures, of out-of-band changes, of servers
leaving a network, or of a resync that nobody scheduled: an object that is not
queued stays so until an event comes.

## 4. The proofs

The theorems hold for any specs, IDs and bounds, from the assumptions on the
constants (`BoundsAssumption`, `SpecsAssumption`, `HalfAssumption`,
`StackAssumption` and one per controller): IDs, the adopted ID and "no ID" are different, specs are what the
CRD admits - node pools have unique names, for one - and STACKIT reports known
states. `OneManager` is a hypothesis of the theorems that need it and of no
other; `manager.yaml` asks for it, and section 1 says what may go wrong.

### For any set of managers

- `TypeCorrect` (each `...Proofs`): `Spec => []TypeOK`. `TypeOK` is not
  inductive: that an observed state is a state and not a 404 depends on the call
  having an ID, hence `Shape`, which says that every call on a resource names
  one. For clusters it also takes that SKE's configuration of a payload is one
  (`CloudInv`), and that no configuration equals the constant `NoCfg`
  (`NoCfgApart`, a hypothesis).
- `CopiesInvariant` (`VolumeProofs`, `ServerProofs`, `NetworkProofs`):
  `Spec => []CopiesSound`. Each copy of the object - cached, undelivered or held
  by a worker - is equal to the API server's or has a smaller resourceVersion,
  and an ID in it is that of a resource that has been made. `Knows` says what a
  worker has found out before its next call: that the resource is gone before it
  drops the finalizer or the ID; that there was no ID before it creates. The
  lemmas `CloudStep` and `ApiStep` say that the world moves so that this stays
  true of a worker that waits (what is gone stays gone; a new version has a new
  resourceVersion), and the rest is one lemma per group of actions.
- `OnlyLostWritesOrphan` (the same modules): `Spec => OrphanOnlyFromLostWrite`.
  Only a create makes a resource (`OnlyCreateMakes`), and the worker whose create
  succeeds goes on to write its ID (`CreatedInHand`: the snapshot had none, so
  `statusUnchanged` is false); it stops doing so only by that write, a failure or
  a restart (`WriterOnlyStops`); and the object keeps the ID of a live resource
  (`RecordKept`), because a write that passes the resourceVersion check is based
  on the current version (`UpToDateIsCurrent`) and `Knows` rules out the writes
  that drop an ID.
- `AdoptedOnlyObserved` (`VolumeProofs`, `NetworkProofs`):
  `Spec => AdoptedUntouched`. The invariant `AdoptInv` says of every copy of the
  object, however stale, that the adopted ID is only in an object that adopts it
  and that such an object has no finalizer (`KnowsOwner`); and of every worker
  that it is about to correct a resource only for an object it owns, and to
  delete one only for an object with the finalizer (`Careful`). No copy has to
  be current for this, so the argument needs no resourceVersions; it does need
  that `existingId` does not change. In `ClusterProofs` the same follows from
  `Proper` and `WorksOn`, which say of every copy and every call that they are
  about the copy's own cluster (`Target`); it takes that no spec of an owned
  cluster has the adopted name (`NamesApart`), or else the operator is asked for
  the takeover of `cluster_takeover`.
- `ReadyNeverStale` (`VolumeProofs`, `ServerProofs`): `Spec => []ReadyInSync`.
  `HonestInv` says that a Ready status, in any copy and about to be written, is
  true of the spec in the *same copy* if it is stamped with that copy's
  generation, and is never stamped with a later one. A reconcile computes both
  from one copy, and an edit that changes the spec changes the generation too, so
  a stale writer cannot make an old condition look current even without the
  resourceVersion check.
- `UpsertSettles` (`ClusterProofs`): `Spec => CorrectionSettles`. The content is
  in the lemmas `PoolsSettle`, `MaintenanceSettles` and `SpecSettles`: for every
  spec `s`, `Stored(BuildClusterPayload(s))` is no drift for `s`. Both sides narrow
  alike, whatever the width; pools are found by name, since names are unique; a
  list in another order has the same members and length. The rest is that an
  upsert sends the spec of the worker's copy (`ChangesOwn`).

- `VolumeStays` (`StackProofs`): `Spec => VolumeOutlivesServer`. The Volume's side
  of `Stack` takes the steps of `VolumeController`, so `StackProofs` instantiates
  `VolumeProofs` (`P`) and has its types and `CopiesSound`; what is new are the
  steps of the Server's side, which change volumes behind the Volume
  controller's back. `StackInv` adds that a volume which a server holds is
  `ATTACHED` or `RESIZING`, which STACKIT does not delete, and that no two servers
  hold one volume (`Holding`), so that a server which goes releases no volume of
  another; and that the Volume is never made anew (`Lasting`). The object goes
  only when a worker drops the finalizer of the current version (`OnlyDropRemoves`);
  that worker has found the volume gone (`Knows`), and what is gone stays gone and
  is held by no server.

### For at most one manager

- `FinalizerAlwaysCovers` and `NeverDuplicates` (Volume, Network) and
  `CreatesOnlyWhenNeeded` (Server) follow from `OneInv`, which is about what a
  stale copy can still tell its only reader. Events come in order (`Ordered`); a
  copy of an object that was wanted and had the finalizer is misleading only if
  the finalizer has been removed since, and only this manager removes it, after
  it has seen the deletion (`NotMisled`); so when a worker re-reads the object
  before a create, the object is still covered by the finalizer, it has no ID
  when the create is made, and nobody else gives it one before the status write
  (`Steady`). A second manager could do any of this in between, and both could
  make a resource after their re-reads.
- `VolumeImplementsOwned`, `ServerImplementsOwned`, `NetworkImplementsOwned`:
  `ImplementsOwned`. The lemmas `UserMaps`, `ReleaseMaps`, `RecordMaps`,
  `MakeMaps`, `CallMaps` and `StackitMaps` give each group of steps its step of
  `OwnedResource`, or none. A resource counts as made while its ID is in a
  worker's hand, so a worker that stops without its write loses it; `OneInv`
  shows that the object then has no other, which is the guard of `Make`, and that
  it cannot go while a resource is in hand, which is the guard of `Remove`.
- `OneVolumeAtMost`, `OneServerAtMost`, `OneNetworkAtMost`:
  `Spec => []Owned!OneAtMost`, an invariant of the abstract specification, proved
  of the mapped variables of the code from `OneInv`.
- `OnlyRecordedChanged` (`VolumeOneManagerProofs`): `Spec => OnlyRecordedTouched`.
  Correction and deletion act on copies nothing re-reads. `TracedInv`: the ID in
  a copy, however old, is that of a volume that is gone or that the object still
  records, and a deletion that a copy shows has not been taken back. This holds
  because the object keeps the ID of a live volume and the only manager drops its
  finalizer after the volume is gone.
- `NoClusterLeft` and `OwnedTouchedOnly` (`ClusterProofs`):
  `RecordedClusterNotLeft` and `OnlyOwnedTouched`. Clusters have no IDs and are
  made again by any upsert, so that "what is gone stays gone" fails and the
  argument is another one. A copy with the finalizer is `Fresh` if the object is
  still there with it, for the same name, and with the deletion the copy shows;
  it is `Released` if its deletion was completed by this manager and its cluster
  is missing. Undelivered events are fresh; the cache is fresh or released; a
  worker's copy is no newer than the cache (`Synced`) and is fresh, unless the
  worker is on the calls of a deletion of a released object, which find no
  cluster (`Entitled`). So an upsert is made only for a fresh copy: of an object
  that is there, owns the name and has the finalizer. And when the finalizer is
  dropped the cluster is missing and no upsert is under way.

### What stays with TLC

The liveness properties: `EventuallyMirrored`, `EventuallyAsSpecified`,
`DeletionCompletes`, `BothGo` and `ServerBootsFromVolume`. Proving them takes
ENABLED, which is out of the prover's reach. Every other property of a run that
holds is a theorem above.

## 5. Not modelled

- The payload builders of Volumes and Servers field by field, client
  construction, flags and health checks, generated code, the inspection of error
  bodies, CRD validation other than as assumptions on the constants.
- More than one object of a kind. The controllers treat objects independently,
  except for two Clusters of one name, which fight over one cluster: each is an
  unrelated cluster to the other, as in `cluster_takeover`.
- Settings of a cluster that the spec does not have and a full-replace upsert
  resets, and the pool labels and `allowSystemComponents`, which are sent but
  never compared.
- A Server with the Network it refers to in one model. A network is used by
  servers in `NetworkController`, and a Server sees the Network's progress in
  `refs`; unlike a boot volume, a network never goes with a server, so there is
  no state in which one controller's view of the other's resource matters beyond
  that.
- Poll intervals and back-off: a requeue comes some time.

## 6. Plan

1. Two Cluster objects of one name, and an abstract specification of what a
   controller keyed by name promises.
2. `stack` with faults and out-of-band changes, and with a Network.
