-------------------------------- MODULE Stack --------------------------------
(***************************************************************************)
(* A Server and the Volume its spec.bootVolumeRef names, with the          *)
(* controllers of both in one manager: VolumeController and                *)
(* ServerController side by side.  They meet in two places.  The Server    *)
(* controller reads the Volume object from the manager's cache             *)
(* (resolveBootVolumeRef), and in STACKIT a server holds the volume it     *)
(* boots from.  There are no faults and no changes out of band here, and   *)
(* the periodic resync is left out.                                        *)
(***************************************************************************)
EXTENDS Naturals

CONSTANTS
  Managers, NoId, MachineTypes, Metas,
  VolumeIds,            \* IDs of volumes
  ServerIds,            \* IDs of servers
  Foreign,              \* ID of a volume that no object is about
  VolumeSpecs,          \* specs of the Volume
  ServerSpecs,          \* specs of the Server, which refer to the Volume
  FirstVolume,          \* the volume and the server
  FirstServer,          \* that are there at first
  DeleteOnTermination   \* servers made with spec.bootVolume.deleteOnTermination

VARIABLES
  vApi, vCache, vWatch, vQueued, vLeft, vW, vCloud,   \* the Volume's side
  sApi, sCache, sWatch, sQueued, sLeft, sW, sCloud,   \* the Server's side
  resolved,   \* [Managers -> ID]: the boot volume resolveBootVolumeRef found
  boots       \* [ServerIds -> ID]: the volume a server boots from

volumeVars == <<vApi, vCache, vWatch, vQueued, vLeft, vW, vCloud>>
serverVars == <<sApi, sCache, sWatch, sQueued, sLeft, sW, sCloud>>
vars == <<volumeVars, serverVars, resolved, boots>>

V == INSTANCE VolumeController WITH
  api <- vApi, cache <- vCache, watch <- vWatch, queued <- vQueued,
  left <- vLeft, w <- vW, cloud <- vCloud,
  Ids <- VolumeIds, Specs <- VolumeSpecs, SettledStates <- {"AVAILABLE", "ATTACHED"},
  OutageStates <- {}, MaxEdits <- 0, MaxFaults <- 0, MaxOutages <- 0, MaxTogether <- 0

(* The Volume is the operator's own. *)
ASSUME StackAssumption ==
  /\ FirstVolume \in VolumeIds /\ FirstServer \in ServerIds
  /\ Foreign \notin VolumeIds /\ NoId \notin VolumeIds \cup {Foreign}
  /\ VolumeSpecs # {} /\ Metas # {}
  /\ \A s \in VolumeSpecs : s \in V!VolumeSpec /\ s.existing = NoId

(* What a cached Volume object shows the Server controller of itself. *)
VolumeView(o) ==
  IF ~ o.exists                        THEN "missing"
  ELSE IF o.status.id = NoId           THEN "noId"
  ELSE IF o.status.state = "AVAILABLE" THEN "AVAILABLE"
  ELSE "CREATING"

S == INSTANCE ServerController WITH
  api <- sApi, cache <- sCache, watch <- sWatch, queued <- sQueued,
  left <- sLeft, w <- sW, cloud <- sCloud,
  refs <- [m \in Managers |-> [network |-> "CREATED", volume |-> VolumeView(vCache[m])]],
  Ids <- ServerIds, Specs <- ServerSpecs, SettledPower <- {"RUNNING"},
  OutageStates <- {}, OutageViews <- {},
  MaxEdits <- 0, MaxFaults <- 0, MaxOutages <- 0, MaxTogether <- 0

(* What becomes of its boot volume when server i goes. *)
Released(i) == IF i \in DeleteOnTermination THEN "gone" ELSE "AVAILABLE"

(* An object as its controller leaves it when all is done. *)
Settled(spec, status) ==
  [exists |-> TRUE, rv |-> 1, gen |-> 1, deleting |-> FALSE, finalizer |-> TRUE,
   spec |-> spec, status |-> status]

(* A Server that runs from a Volume, both of them Ready; or a Server that  *)
(* was deleted and has just been applied again, when the Volume still says *)
(* that it is attached to the former server.                               *)
Init ==
  \E running \in BOOLEAN, vs \in VolumeSpecs, ss \in ServerSpecs :
    /\ vCloud = [v \in VolumeIds \cup {Foreign} |->
         [state |-> IF v = Foreign          THEN "AVAILABLE"
                    ELSE IF v # FirstVolume THEN "none"
                    ELSE IF running         THEN "ATTACHED"
                    ELSE Released(FirstServer),
          size |-> vs.size, meta |-> vs.meta]]
    /\ vApi = Settled(vs,
         [id |-> FirstVolume, state |-> "ATTACHED", size |-> vs.size,
          observedGeneration |-> 1, reason |-> "Attached", condGen |-> 1])
    /\ sCloud = [i \in ServerIds |->
         [state |-> IF i # FirstServer THEN "none" ELSE IF running THEN "ACTIVE" ELSE "gone",
          power |-> IF i = FirstServer THEN "RUNNING" ELSE "",
          machineType |-> ss.machineType, meta |-> ss.meta]]
    /\ sApi = IF running
                THEN Settled(ss,
                  [id |-> FirstServer, state |-> "ACTIVE", powerStatus |-> "RUNNING",
                   machineType |-> ss.machineType, observedGeneration |-> 1,
                   reason |-> "Active", condGen |-> 1])
                ELSE [Settled(ss, S!NoStatus) EXCEPT !.finalizer = FALSE]
    /\ vCache = [m \in Managers |-> vApi] /\ sCache = [m \in Managers |-> sApi]
    /\ vWatch = [m \in Managers |-> {}] /\ sWatch = [m \in Managers |-> {}]
    /\ vQueued = [m \in Managers |-> TRUE] /\ sQueued = [m \in Managers |-> TRUE]
    /\ vLeft = [edits |-> 0, faults |-> 0, outages |-> 0]
    /\ sLeft = [edits |-> 0, faults |-> 0, outages |-> 0]
    /\ vW = [m \in Managers |-> V!Idle(V!NoStatus)]
    /\ sW = [m \in Managers |-> S!Idle(S!NoStatus)]
    /\ resolved = [m \in Managers |-> NoId]
    /\ boots = [i \in ServerIds |-> IF running /\ i = FirstServer THEN FirstVolume ELSE NoId]

-----------------------------------------------------------------------------
(* The Volume's side moves, and the Server's does not. *)
VolumeUser == UNCHANGED <<serverVars, resolved, boots>> /\ V!User

VolumeSync(m) ==
  /\ UNCHANGED <<serverVars, resolved, boots, vW, vCloud>>
  /\ V!Sync(m)

VolumeReconcile(m) == UNCHANGED <<serverVars, resolved, boots>> /\ V!Reconcile(m)

VolumeStep(m) == UNCHANGED <<serverVars, resolved, boots>> /\ V!Step(m)

(* STACKIT finishes what it does to a volume, which is ATTACHED afterwards *)
(* just when a server holds it.                                            *)
VolumeSettle(v) ==
  /\ UNCHANGED <<serverVars, resolved, boots>>
  /\ V!Settle(v)
  /\ vCloud'[v].state # "gone" =>
       (vCloud'[v].state = "ATTACHED" <=> \E i \in ServerIds : boots[i] = v)

-----------------------------------------------------------------------------
(* The Server's side moves, and the Volume's does not. *)
ServerUser ==
  /\ UNCHANGED <<volumeVars, resolved, boots, sW, sCloud>>
  /\ S!UserDelete

ServerSync(m) ==
  /\ UNCHANGED <<volumeVars, resolved, boots, sW, sCloud>>
  /\ S!Sync(m)

ServerReconcile(m) == UNCHANGED <<volumeVars, resolved, boots>> /\ S!Reconcile(m)

(* The re-read, with the ID that resolveBootVolumeRef takes from the       *)
(* cached Volume.                                                          *)
Resolve(m) ==
  /\ UNCHANGED <<volumeVars, boots>>
  /\ S!Recheck(m)
  /\ resolved' = [resolved EXCEPT ![m] =
       IF sW'[m].pc = "create" /\ sW'[m].obj.spec.bootVolumeRef
         THEN vCache[m].status.id ELSE NoId]

(* STACKIT boots a server only from a volume that is AVAILABLE. *)
Bootable(m) == resolved[m] # NoId => vCloud[resolved[m]].state = "AVAILABLE"

(* The create call: the new server holds the volume it boots from... *)
CreateFromVolume(m) ==
  /\ UNCHANGED <<vApi, vCache, vWatch, vQueued, vLeft, vW>>
  /\ S!CreateAnswers(m)
  /\ Bootable(m)
  /\ vCloud' = IF resolved[m] = NoId THEN vCloud
               ELSE [vCloud EXCEPT ![resolved[m]].state = "ATTACHED"]
  /\ boots' = [i \in ServerIds |->
                 IF sCloud'[i] # sCloud[i] THEN resolved[m] ELSE boots[i]]
  /\ resolved' = [resolved EXCEPT ![m] = NoId]

(* ...or is refused, because the volume has gone or changed since. *)
CreateRefused(m) ==
  /\ UNCHANGED <<volumeVars, boots>>
  /\ ~ Bootable(m)
  /\ S!CreateRejected(m)
  /\ resolved' = [resolved EXCEPT ![m] = NoId]

(* Any other call of the Server controller. *)
ServerCall(m) ==
  /\ UNCHANGED <<volumeVars, resolved, boots>>
  /\ \/ S!AddFinalizer(m) \/ S!DropFinalizer(m) \/ S!Unresolved(m)
     \/ S!ObserveMissing(m) \/ S!ObserveServer(m)
     \/ S!DeleteGet(m) \/ S!DeleteServer(m) \/ S!WriteBack(m)

ServerStep(m) == Resolve(m) \/ CreateFromVolume(m) \/ CreateRefused(m) \/ ServerCall(m)

(* STACKIT finishes what it does to a server; one that is gone releases    *)
(* its boot volume, or takes it along.                                     *)
ServerSettle(i) ==
  /\ UNCHANGED <<vApi, vCache, vWatch, vQueued, vLeft, vW, resolved>>
  /\ S!Settle(i)
  /\ IF sCloud'[i].state = "gone" /\ boots[i] # NoId
       THEN /\ vCloud' = [vCloud EXCEPT ![boots[i]].state = Released(i)]
            /\ boots' = [boots EXCEPT ![i] = NoId]
       ELSE UNCHANGED <<vCloud, boots>>

Next ==
  \/ VolumeUser \/ ServerUser
  \/ \E m \in Managers :
       \/ VolumeSync(m) \/ VolumeReconcile(m) \/ VolumeStep(m)
       \/ ServerSync(m) \/ ServerReconcile(m) \/ ServerStep(m)
  \/ \E i \in VolumeIds : VolumeSettle(i)
  \/ \E i \in ServerIds : ServerSettle(i)

Spec == Init /\ [][Next]_vars

(* As for the two controllers, each of which has its own worker; a worker  *)
(* that can begin a reconcile has none under way.                          *)
Fairness ==
  /\ \A m \in Managers :
       /\ WF_vars(VolumeSync(m)) /\ WF_vars(VolumeReconcile(m) \/ VolumeStep(m))
       /\ WF_vars(ServerSync(m)) /\ WF_vars(ServerReconcile(m) \/ ServerStep(m))
  /\ WF_vars(\E i \in VolumeIds : VolumeSettle(i))
  /\ WF_vars(\E i \in ServerIds : ServerSettle(i))

FairSpec == Spec /\ Fairness

-----------------------------------------------------------------------------
(***************************************************************************)
(* Properties.                                                             *)
(***************************************************************************)

(* A server that no object records and no worker is about to record, and   *)
(* that holds volume v. *)
HeldByLost(v) ==
  \E i \in ServerIds : S!Orphan(i) /\ boots[i] = v

Unwanted(o) == ~ o.exists \/ o.deleting

(* A Server and its boot Volume that are both deleted, in either order and *)
(* at any moment, are both gone in the end: the Volume's deletion is       *)
(* refused for as long as the server holds it and retried, and the Server  *)
(* waits for no volume any more.  Only a server that was lost track of     *)
(* keeps the Volume waiting.                                               *)
BothGo ==
  <>[](Unwanted(vApi) /\ Unwanted(sApi) =>
         \/ ~ vApi.exists /\ ~ sApi.exists
         \/ \E v \in VolumeIds : V!Recorded(v) /\ HeldByLost(v))

(* A Server and its boot Volume that are both wanted end up with the       *)
(* server running from the volume that the Volume object records, also     *)
(* after the Server was deleted and applied again and took its volume      *)
(* along, so that the Volume controller had to make another one.           *)
ServerBootsFromVolume ==
  <>[](/\ vApi.exists /\ ~ vApi.deleting
       /\ sApi.exists /\ ~ sApi.deleting
       => \E v \in VolumeIds :
            /\ V!Recorded(v)
            /\ vCloud[v].state = "ATTACHED"
            /\ \/ HeldByLost(v)
               \/ \E i \in ServerIds :
                    /\ S!Recorded(i)
                    /\ boots[i] = v
                    /\ S!IsReady(sApi.status))

(* kubectl delete of a Volume does not complete while a server boots from *)
(* the volume it records, whatever the Server controller does meanwhile:   *)
(* the 409 of a volume in use keeps the finalizer on.                      *)
VolumeOutlivesServer ==
  [][\A v \in VolumeIds, i \in ServerIds :
       V!Recorded(v) /\ boots[i] = v => vApi'.exists]_vars
=============================================================================
