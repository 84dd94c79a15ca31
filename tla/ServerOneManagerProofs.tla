----------------------- MODULE ServerOneManagerProofs -----------------------
(***************************************************************************)
(* What ServerController guarantees when at most one manager runs, which   *)
(* is what leader election is for (config/manager/manager.yaml): a server  *)
(* is made only when one is needed, and the controller implements          *)
(* OwnedResource.                                                          *)
(***************************************************************************)
EXTENDS ServerProofs

OneManager == \A m, n \in Managers : m = n

(* The object is there and cannot go without a reconcile. *)
Covered == api.exists /\ api.finalizer

(* A copy for which a reconcile may make a server. *)
Wanted(o) == o.exists /\ o.finalizer /\ ~ o.deleting

(* An object that records a server of the operator's has the finalizer. *)
FinalizerCoversRecorded ==
  \A i \in Ids : Recorded(i) => api.finalizer

(* Events are delivered in order: each is newer than the cache. *)
Ordered(m) ==
  /\ \A v \in watch[m] : cache[m].rv < v.rv
  /\ \A u, v \in watch[m] : u.rv = v.rv => u = v

(* No stale copy shows an object in which the finalizer has been removed   *)
(* since: the manager removed it itself, having seen the deletion.         *)
NotMisled(m) == \A v \in watch[m] \cup {cache[m]} : Wanted(v) => Covered

(* A worker that creates a server does so for a covered object without ID, *)
(* up to the write of that ID; one that deletes has seen the deletion.     *)
Steady(m) ==
  LET x == w[m]
  IN  /\ x.pc \in {"delGet", "dropFinalizer"}
           => x.obj.deleting /\ x.obj.rv <= cache[m].rv
      /\ x.pc = "recheck" => Covered
      /\ x.pc = "create" => Covered /\ api.status.id = NoId
      /\ \A i \in Ids : InHand(m, i) => Covered /\ api.status.id = NoId

OneInv ==
  /\ FinalizerCoversRecorded
  /\ \A m \in Managers : Ordered(m) /\ NotMisled(m) /\ Steady(m)

-----------------------------------------------------------------------------
(* How one step may change what OneInv is about. *)

(* The ways the API server's copy changes. *)
Applied ==
  /\ ~ api.exists /\ api'.exists
  /\ ~ api'.deleting /\ ~ api'.finalizer
  /\ api'.status = NoStatus

Edited ==
  /\ api.exists /\ api'.exists
  /\ api'.deleting = api.deleting
  /\ api.finalizer => api'.finalizer
  /\ api'.status = api.status

Marked ==
  /\ api.exists /\ api'.exists
  /\ ~ api.deleting /\ api'.deleting
  /\ api.finalizer /\ api'.finalizer
  /\ api'.status = api.status

RemovedAtOnce ==
  /\ api.exists /\ ~ api'.exists
  /\ ~ api.deleting /\ ~ api.finalizer
  /\ api'.status = api.status

Released(m) ==
  /\ w[m].pc = "dropFinalizer" /\ w[m].obj = api
  /\ api.exists /\ api'.exists = ~ api.deleting
  /\ api'.status = api.status

Written(m) ==
  /\ w[m].pc = "write" /\ w[m].obj = api
  /\ api.exists /\ api'.exists
  /\ api'.deleting = api.deleting /\ api'.finalizer = api.finalizer
  /\ api'.status = w[m].st

LEMMA UserKinds ==
  ASSUME TypeInv, User
  PROVE  /\ Applied \/ Edited \/ Marked \/ RemovedAtOnce
         /\ UNCHANGED <<cache, w, cloud>>
         /\ watch' = [m \in Managers |-> watch[m] \cup {api'}]
         /\ api'.rv = api.rv + 1
<1>0. api \in Versions(Statuses)
  BY DEF TypeInv, TypeOK, KubeTypeOK
<1>1. UNCHANGED <<cache, w, cloud>> /\ watch' = [m \in Managers |-> watch[m] \cup {api'}]
  BY DEF User, UserCreate, UserEdit, UserDelete, Publish
<1>2. ASSUME NEW s \in Specs, UserCreate(s, NoStatus)
      PROVE  Applied /\ api'.rv = api.rv + 1
  BY <1>2 DEF UserCreate, Publish, Applied
<1>3. ASSUME NEW s \in Specs, UserEdit(s) PROVE Edited /\ api'.rv = api.rv + 1
  BY <1>0, <1>3 DEF UserEdit, Publish, Edited, Versions
<1>4. CASE UserDelete /\ api.finalizer
  <2>1. Marked /\ api'.rv = api.rv + 1
    BY <1>0, <1>4 DEF UserDelete, Publish, Marked, Versions
  <2> QED BY <1>1, <2>1
<1>5. CASE UserDelete /\ ~ api.finalizer
  <2>1. RemovedAtOnce /\ api'.rv = api.rv + 1
    BY <1>0, <1>5 DEF UserDelete, Publish, RemovedAtOnce, Versions
  <2> QED BY <1>1, <2>1
<1> QED BY <1>1, <1>2, <1>3, <1>4, <1>5 DEF User

LEMMA WriteKinds ==
  ASSUME TypeInv, CopiesSound, NEW m \in Managers,
         AddFinalizer(m) \/ DropFinalizer(m) \/ WriteBack(m)
  PROVE  /\ w' = [w EXCEPT ![m] = Idle(NoStatus)]
         /\ UNCHANGED <<cache, cloud>>
         /\ \/ UNCHANGED <<api, watch>>
            \/ /\ Edited \/ Released(m) \/ Written(m)
               /\ watch' = [n \in Managers |-> watch[n] \cup {api'}]
               /\ api'.rv = api.rv + 1
<1>0. api \in Versions(Statuses) /\ w[m].st \in Statuses
  BY CopyType DEF TypeInv, TypeOK, KubeTypeOK
<1>1. w' = [w EXCEPT ![m] = Idle(NoStatus)] /\ UNCHANGED <<cache, cloud>>
  BY DEF AddFinalizer, DropFinalizer, WriteBack, ensureFinalizer,
         removeFinalizerAndUpdate, StatusUpdate, Return
<1>2. UpToDate(w[m].obj) => w[m].obj = api /\ api.exists
  BY UpToDateIsCurrent DEF UpToDate
<1>3. CASE AddFinalizer(m) /\ UpToDate(w[m].obj)
  <2>1. /\ Edited
        /\ watch' = [n \in Managers |-> watch[n] \cup {api'}]
        /\ api'.rv = api.rv + 1
    BY <1>0, <1>2, <1>3
       DEF AddFinalizer, ensureFinalizer, WriteFinalizer, Publish, Edited, Versions
  <2> QED BY <1>1, <2>1
<1>4. CASE DropFinalizer(m) /\ UpToDate(w[m].obj)
  <2>1. /\ w[m].pc = "dropFinalizer"
        /\ Publish([api EXCEPT !.finalizer = FALSE, !.exists = ~ api.deleting])
    BY <1>2, <1>4 DEF DropFinalizer, removeFinalizerAndUpdate, WriteNoFinalizer
  <2>2. api'.rv = api.rv + 1
    BY <1>0, <2>1 DEF Publish, Versions
  <2>3. Released(m)
    BY <1>0, <1>2, <1>4, <2>1 DEF Publish, Released, Versions
  <2> QED BY <1>1, <2>1, <2>2, <2>3 DEF Publish
<1>5. CASE WriteBack(m) /\ UpToDate(w[m].obj) /\ w[m].st # w[m].obj.status
  <2>1. /\ Written(m)
        /\ watch' = [n \in Managers |-> watch[n] \cup {api'}]
        /\ api'.rv = api.rv + 1
    BY <1>0, <1>2, <1>5
       DEF WriteBack, StatusUpdate, WriteStatus, Publish, Written, Versions
  <2> QED BY <1>1, <2>1
<1>6. CASE UNCHANGED <<api, watch>>
  BY <1>1, <1>6
<1> QED BY <1>3, <1>4, <1>5, <1>6
        DEF AddFinalizer, DropFinalizer, WriteBack, ensureFinalizer,
            removeFinalizerAndUpdate, StatusUpdate, WriteStatus

(* The actions of a worker that leave the API server's copy alone. *)
Calling(m) ==
  \/ Reconcile(m) \/ Recheck(m) \/ Unresolved(m)
  \/ ObserveMissing(m) \/ ObserveServer(m) \/ ObserveDrift(m) \/ DeleteGet(m)
  \/ CreateAnswers(m) \/ CreateRejected(m) \/ CreateFailed(m) \/ CreateWithoutId(m)
  \/ ResizeServer(m) \/ StopServer(m) \/ StartServer(m) \/ UpdateServer(m)
  \/ DeleteServer(m) \/ Fail(m)

LEMMA CallingKeeps ==
  ASSUME NEW m \in Managers, Calling(m) PROVE UNCHANGED <<api, cache, watch>>
BY DEF Calling, Reconcile, Recheck, idAlreadyPresent, Unresolved, ObserveMissing,
       ObserveServer, ObserveDrift, DeleteGet, CreateAnswers, CreateRejected,
       CreateFailed, CreateWithoutId, ResizeServer, StopServer, StartServer,
       UpdateServer, Correct, DeleteServer, Fail, CallFails

(* Every step, sorted by what it may change. *)
LEMMA StepKinds ==
  ASSUME [Next]_vars
  PROVE  \/ User
         \/ \E m \in Managers : AddFinalizer(m) \/ DropFinalizer(m) \/ WriteBack(m)
         \/ \E m \in Managers : Calling(m) \/ Informer(m) \/ Crash(m)
         \/ \E i \in Ids : Settle(i) \/ OutOfBand(i)
         \/ UNCHANGED <<api, cache, watch, w, cloud>>
BY DEF Next, Step, Calling, CreateSucceeds, CreateRefused, ReferencesReady,
       ReferencesChange, vars

(* What SaveStatus leaves in the worker. *)
LEMMA SaveShape ==
  ASSUME TypeInv, NEW m \in Managers, NEW st, SaveStatus(m, st, NoStatus)
  PROVE  \/ w'[m].pc = "idle"
         \/ w'[m].pc = "write" /\ w'[m].st = st /\ w'[m].obj = w[m].obj
<1>0. w \in [Managers -> Workers(Statuses, Calls)] /\ w[m] \in Workers(Statuses, Calls)
  BY DEF TypeInv, TypeOK
<1>1. CASE statusUnchanged(w[m].before, st)
  BY <1>0, <1>1 DEF SaveStatus, Return, Idle
<1>2. CASE ~ statusUnchanged(w[m].before, st)
  BY <1>0, <1>2 DEF SaveStatus, Workers
<1> QED BY <1>1, <1>2

LEMMA IdleSteady ==
  ASSUME NEW m \in Managers, w[m].pc = "idle" PROVE Steady(m)
BY DEF Steady, InHand

-----------------------------------------------------------------------------
(* The cache and the events of a manager. *)
LEMMA OrderedStays ==
  ASSUME TypeInv, CopiesSound, [Next]_vars, NEW m \in Managers, Ordered(m)
  PROVE  Ordered(m)' /\ cache[m].rv <= cache'[m].rv
<1>0. /\ api \in Versions(Statuses) /\ api.rv \in Nat
      /\ cache \in [Managers -> Versions(Statuses)] /\ cache[m].rv \in Nat
      /\ watch \in [Managers -> SUBSET Versions(Statuses)]
      /\ \A v \in watch[m] : v.rv \in Nat /\ v.rv <= api.rv
      /\ cache[m].rv <= api.rv
  BY DEF TypeInv, TypeOK, KubeTypeOK, Versions, CopiesSound, Sound
<1>1. CASE UNCHANGED <<cache, watch>>
  BY <1>0, <1>1 DEF Ordered
<1>2. CASE /\ UNCHANGED cache
           /\ watch' = [n \in Managers |-> watch[n] \cup {api'}]
           /\ api'.rv = api.rv + 1
  <2>1. watch'[m] = watch[m] \cup {api'} /\ cache'[m] = cache[m]
    BY <1>2
  <2>2. \A v \in watch'[m] : cache'[m].rv < v.rv
    BY <1>0, <1>2, <2>1 DEF Ordered
  <2>3. \A u, v \in watch'[m] : u.rv = v.rv => u = v
    BY <1>0, <1>2, <2>1 DEF Ordered
  <2> QED BY <1>0, <2>1, <2>2, <2>3 DEF Ordered
<1>3. ASSUME NEW n \in Managers, Informer(n) PROVE Ordered(m)' /\ cache[m].rv <= cache'[m].rv
  <2>1. CASE Sync(n)
    <3>1. PICK v \in watch[n] :
            /\ \A u \in watch[n] : v.rv <= u.rv
            /\ cache' = [cache EXCEPT ![n] = v]
            /\ watch' = [watch EXCEPT ![n] = @ \ {v}]
      BY <2>1 DEF Sync
    <3>2. CASE n = m
      <4>1. cache'[m] = v /\ watch'[m] = watch[m] \ {v}
        BY <1>0, <3>1, <3>2
      <4>2. \A u \in watch[m] \ {v} : v.rv < u.rv
        BY <1>0, <3>1, <3>2 DEF Ordered
      <4>3. cache[m].rv <= v.rv
        BY <1>0, <3>1, <3>2 DEF Ordered
      <4> QED BY <4>1, <4>2, <4>3 DEF Ordered
    <3>3. CASE n # m
      BY <1>0, <3>1, <3>3 DEF Ordered
    <3> QED BY <3>2, <3>3
  <2>2. CASE Resync(n)
    BY <1>1, <2>2 DEF Resync
  <2> QED BY <1>3, <2>1, <2>2 DEF Informer
<1>4. ASSUME NEW n \in Managers, Crash(n) PROVE Ordered(m)' /\ cache[m].rv <= cache'[m].rv
  <2>1. cache' = [cache EXCEPT ![n] = api] /\ watch' = [watch EXCEPT ![n] = {}]
    BY <1>4 DEF Crash, Restart, Relist
  <2> QED BY <1>0, <2>1 DEF Ordered
<1>5. CASE User
  BY <1>2, <1>5, UserKinds
<1>6. ASSUME NEW n \in Managers, AddFinalizer(n) \/ DropFinalizer(n) \/ WriteBack(n)
      PROVE  Ordered(m)' /\ cache[m].rv <= cache'[m].rv
  BY <1>1, <1>2, <1>6, WriteKinds
<1>7. ASSUME NEW n \in Managers, Calling(n) PROVE Ordered(m)' /\ cache[m].rv <= cache'[m].rv
  BY <1>1, <1>7, CallingKeeps
<1> QED BY <1>1, <1>3, <1>4, <1>5, <1>6, <1>7, StepKinds DEF Settle, OutOfBand

(* The object ceases to be covered only when a reconcile drops the         *)
(* finalizer.                                                              *)
LEMMA CoveredStays ==
  ASSUME TypeInv, CopiesSound, [Next]_vars, Covered
  PROVE  Covered' \/ \E m \in Managers : DropFinalizer(m) /\ Released(m)
<1>1. CASE UNCHANGED api
  BY <1>1 DEF Covered
<1>2. CASE User
  BY <1>2, UserKinds DEF Covered, Applied, Edited, Marked, RemovedAtOnce
<1>3. ASSUME NEW m \in Managers, AddFinalizer(m) \/ DropFinalizer(m) \/ WriteBack(m)
      PROVE  Covered' \/ (DropFinalizer(m) /\ Released(m))
  <2>1. CASE Released(m)
    BY <1>3, <2>1 DEF Released, AddFinalizer, ensureFinalizer, WriteBack, StatusUpdate
  <2>2. CASE Edited
    BY <2>2 DEF Covered, Edited
  <2>3. CASE Written(m)
    BY <2>3, Zenon DEF Covered, Written
  <2>4. UNCHANGED api \/ Edited \/ Released(m) \/ Written(m)
    BY <1>3, WriteKinds
  <2>5. CASE UNCHANGED api
    BY <2>5 DEF Covered
  <2> QED BY <2>1, <2>2, <2>3, <2>4, <2>5
<1>4. ASSUME NEW m \in Managers, Calling(m) \/ Informer(m) \/ Crash(m) PROVE UNCHANGED api
  BY <1>4, CallingKeeps DEF Informer, Sync, Resync, Crash, Restart, Relist
<1> QED BY <1>1, <1>2, <1>3, <1>4, StepKinds DEF Settle, OutOfBand

(* What a manager's cache and events hold after a step was there before or *)
(* is the API server's copy.                                               *)
LEMMA CopiesCome ==
  ASSUME TypeInv, CopiesSound, [Next]_vars, NEW m \in Managers
  PROVE  \A v \in watch'[m] \cup {cache'[m]} :
            v \in watch[m] \cup {cache[m], api, api'}
<1> DEFINE OK == \A v \in watch'[m] \cup {cache'[m]} :
                    v \in watch[m] \cup {cache[m], api, api'}
<1>0. /\ cache \in [Managers -> Versions(Statuses)]
      /\ watch \in [Managers -> SUBSET Versions(Statuses)]
  BY DEF TypeInv, TypeOK, KubeTypeOK
<1>1. CASE UNCHANGED <<cache, watch>>
  BY <1>1
<1>2. CASE UNCHANGED cache /\ watch' = [n \in Managers |-> watch[n] \cup {api'}]
  BY <1>2
<1>3. ASSUME NEW n \in Managers, Informer(n) \/ Crash(n) PROVE OK
  BY <1>0, <1>3 DEF Informer, Sync, Resync, Crash, Restart, Relist
<1>4. ASSUME NEW n \in Managers, AddFinalizer(n) \/ DropFinalizer(n) \/ WriteBack(n)
      PROVE  OK
  BY <1>1, <1>2, <1>4, WriteKinds
<1> QED BY <1>1, <1>2, <1>3, <1>4, UserKinds, CallingKeeps, StepKinds
        DEF Settle, OutOfBand

LEMMA NotMisledStays ==
  ASSUME TypeInv, CopiesSound, [Next]_vars, OneManager, OneInv, NEW m \in Managers
  PROVE  NotMisled(m)'
<1>0. /\ api \in Versions(Statuses) /\ api.rv \in Nat /\ api.finalizer \in BOOLEAN
      /\ cache[m] \in Versions(Statuses) /\ cache[m].rv \in Nat
      /\ \A v \in watch[m] : v.rv \in Nat /\ v.rv <= api.rv
      /\ Sound(cache[m], api, cloud)
  BY DEF TypeInv, TypeOK, KubeTypeOK, Versions, CopiesSound, Sound
<1>1. Wanted(api) => Covered
  BY DEF Wanted, Covered
<1>2. Wanted(api') => Covered'
  BY DEF Wanted, Covered
<1>3. \A v \in watch[m] \cup {cache[m], api} : Wanted(v) => Covered
  BY <1>1 DEF OneInv, NotMisled
<1>4. ASSUME NEW n \in Managers, DropFinalizer(n), Released(n), Covered
      PROVE  \A v \in watch'[m] \cup {cache'[m]} : ~ Wanted(v) \/ v = api'
  <2>1. n = m
    BY DEF OneManager
  <2>2. api.deleting /\ api.rv <= cache[m].rv
    BY <1>4, <2>1 DEF Released, OneInv, Steady
  <2>3. cache[m] = api
    BY <1>0, <2>2 DEF Sound
  <2>4. watch[m] = {}
    BY <1>0, <2>3 DEF OneInv, Ordered
  <2> QED BY <2>2, <2>3, <2>4, CopiesCome DEF Wanted
<1>5. CASE ~ Covered \/ Covered'
  BY <1>2, <1>3, <1>5, CopiesCome DEF NotMisled
<1> QED BY <1>2, <1>4, <1>5, CoveredStays DEF NotMisled

(* What a worker relies on is not taken from it by a step of another       *)
(* actor.                                                                  *)
LEMMA OthersLeaveSteady ==
  ASSUME TypeInv, CopiesSound, [Next]_vars, OneManager, OneInv,
         NEW m \in Managers, UNCHANGED w
  PROVE  Steady(m)'
<1> DEFINE x == w[m]
<1>0. cache[m].rv \in Nat /\ cache'[m].rv \in Nat /\ x.obj.rv \in Nat
  BY CopyType, NextType DEF TypeInv, TypeOK, KubeTypeOK, Versions
<1>1. cache[m].rv <= cache'[m].rv
  BY OrderedStays DEF OneInv
<1>2. ~ \E n \in Managers : AddFinalizer(n) \/ DropFinalizer(n) \/ WriteBack(n)
  <2>1. ASSUME NEW n \in Managers, AddFinalizer(n) \/ DropFinalizer(n) \/ WriteBack(n)
        PROVE  FALSE
    <3>1. w[n].pc # "idle"
      BY <2>1 DEF AddFinalizer, ensureFinalizer, DropFinalizer,
                  removeFinalizerAndUpdate, WriteBack, StatusUpdate
    <3>2. w'[n] = Idle(NoStatus)
      BY <2>1, WriteKinds DEF TypeInv, TypeOK
    <3> QED BY <3>1, <3>2 DEF Idle
  <2> QED BY <2>1
<1>3. Covered => Covered'
  BY <1>2, CoveredStays
<1>4. Covered /\ api.status.id = NoId => api'.status.id = NoId
  <2>1. CASE User
    BY <2>1, UserKinds
       DEF Covered, Applied, Edited, Marked, RemovedAtOnce, User, UserDelete, Publish,
           TypeInv, TypeOK, KubeTypeOK, Versions
  <2>2. ASSUME NEW n \in Managers, Calling(n) \/ Informer(n) \/ Crash(n) PROVE UNCHANGED api
    BY <2>2, CallingKeeps DEF Informer, Sync, Resync, Crash, Restart, Relist
  <2> QED BY <1>2, <2>1, <2>2, StepKinds DEF Settle, OutOfBand
<1>5. \A i : InHand(m, i)' <=> InHand(m, i)
  BY DEF InHand
<1> QED BY <1>0, <1>1, <1>3, <1>4, <1>5 DEF OneInv, Steady

(* A worker that goes on with an ID in its copy, or with none of the       *)
(* operator's in the status it writes, has no new server in hand.          *)
LEMMA SavesOld ==
  ASSUME TypeInv, NEW m \in Managers, NEW st, SaveStatus(m, st, NoStatus),
         w[m].obj.status.id # NoId \/ st.id \notin Ids
  PROVE  /\ Steady(m)'
         /\ \A i \in Ids : ~ InHand(m, i)'
BY SaveShape DEF Steady, InHand

(* A call leaves a worker with what it relies on, and only a successful    *)
(* create, or a server in hand before, leaves it a server in hand.         *)
LEMMA CallingSteady ==
  ASSUME TypeInv, CopiesSound, [Next]_vars, OneInv, NEW m \in Managers, Calling(m)
  PROVE  /\ Steady(m)'
         /\ ~ CreateAnswers(m) => \A i \in Ids : ~ InHand(m, i)'
<1> DEFINE o == w[m].obj
           i == o.status.id
<1>0. /\ w \in [Managers -> Workers(Statuses, Calls)]
      /\ w[m] \in Workers(Statuses, Calls)
      /\ o \in Versions(Statuses)
      /\ o.status \in Statuses
      /\ cache[m] \in Versions(Statuses)
      /\ cache[m].rv \in Nat
      /\ Knows(w[m], cloud)
      /\ Steady(m) /\ NotMisled(m)
  BY CopyType DEF TypeInv, TypeOK, KubeTypeOK, Versions, CopiesSound, GoodWorker, OneInv
<1>a. UNCHANGED <<api, cache, watch>>
  BY CallingKeeps
<1>b. Covered' <=> Covered
  BY <1>a DEF Covered
<1>c. NoId \notin Ids
  BY ServerAssumption
<1>d. w[m].pc \in {"get", "delGet", "delete"} => i # NoId
  BY DEF TypeInv, Shape, NamesServer
<1>1. CASE Reconcile(m)
  <2> DEFINE c == cache[m]
             x == WorkingOn(reconcile(c), c)
  <2>1. w'[m] = Idle(NoStatus) \/ w'[m] = x
    BY <1>0, <1>1 DEF Reconcile
  <2>2. reconcile(c) \in {"delGet", "dropFinalizer"} => c.deleting
    BY DEF reconcile
  <2>5. reconcile(c) = "recheck" => Wanted(c)
    BY DEF reconcile, reconcileDelete, Wanted
  <2>6. reconcile(c) \notin {"create", "write"}
    BY DEF reconcile, reconcileDelete
  <2>3. CASE w'[m] = x
    <3>1. w'[m].pc = reconcile(c) /\ w'[m].obj = c
      BY <2>3 DEF WorkingOn
    <3> QED BY <1>0, <1>a, <1>b, <2>2, <2>5, <2>6, <3>1 DEF Steady, InHand, NotMisled
  <2>4. CASE w'[m] = Idle(NoStatus)
    BY <2>4 DEF Idle, Steady, InHand
  <2> QED BY <2>1, <2>3, <2>4
<1>2. CASE Unresolved(m)
  <2> DEFINE st == setReadyCondition(api, api.status, Resolved(api.spec, refs[m]))
             x  == [pc |-> "write", obj |-> api, before |-> api.status, st |-> st]
  <2>1. w'[m] = Idle(NoStatus) \/ w'[m] = x
    BY <1>0, <1>2 DEF Unresolved, Return
  <2>2. st.id = NoId
    <3>1. api.status \in Statuses /\ api.status.id = NoId
      BY <1>2 DEF Unresolved, TypeInv, TypeOK, KubeTypeOK, Versions
    <3> QED BY <3>1 DEF setReadyCondition, Statuses
  <2> HIDE DEF st
  <2>3. w'[m].pc = "idle" \/ (w'[m].pc = "write" /\ w'[m].st.id = NoId)
    BY <2>1, <2>2 DEF Idle
  <2> QED BY <1>c, <2>3 DEF Steady, InHand
<1>3. CASE Recheck(m)
  <2>1. \/ w'[m].pc = "idle"
        \/ w'[m].pc = "create" /\ api.status.id = NoId
    BY <1>0, <1>3 DEF Recheck, idAlreadyPresent, Return, Idle
  <2>2. Covered
    BY <1>0, <1>3 DEF Recheck, idAlreadyPresent, Steady
  <2> QED BY <1>a, <1>b, <2>1, <2>2 DEF Steady, InHand
<1>4. CASE ObserveMissing(m) \/ ObserveServer(m)
  <2>1. \E st : SaveStatus(m, st, NoStatus)
    BY <1>4 DEF ObserveMissing, ObserveServer
  <2> QED BY <1>4, <1>d, <2>1, SavesOld DEF ObserveMissing, ObserveServer
<1>5. CASE ObserveDrift(m)
  <2>1. w'[m].pc \in {"resize", "stop", "start", "update"}
    BY <1>0, <1>5 DEF ObserveDrift, MustNotCorrect, reconcileDrift
  <2> QED BY <2>1 DEF Steady, InHand
<1>6. CASE DeleteGet(m)
  <2>1. CASE \E st : SaveStatus(m, st, NoStatus)
    BY <1>6, <1>d, <2>1, SavesOld DEF DeleteGet
  <2>2. CASE w' = [w EXCEPT ![m].pc = "dropFinalizer"]
    <3>1. w'[m].pc = "dropFinalizer" /\ w'[m].obj = o
      BY <1>0, <2>2 DEF Workers
    <3>2. o.deleting /\ o.rv <= cache'[m].rv
      BY <1>0, <1>6, <1>a DEF DeleteGet, Steady
    <3> QED BY <3>1, <3>2 DEF Steady, InHand
  <2>3. CASE \E st : w' = [w EXCEPT ![m].pc = "delete", ![m].st = st]
    <3>1. w'[m].pc = "delete"
      BY <1>0, <2>3 DEF Workers
    <3> QED BY <3>1 DEF Steady, InHand
  <2> QED BY <1>6, <2>1, <2>2, <2>3 DEF DeleteGet
<1>7. CASE CreateAnswers(m)
  <2>1. Covered /\ api.status.id = NoId
    BY <1>0, <1>7 DEF CreateAnswers, Steady
  <2>2. \E st : SaveStatus(m, st, NoStatus)
    BY <1>7 DEF CreateAnswers
  <2>3. w'[m].pc \in {"idle", "write"}
    BY <2>2, SaveShape
  <2> QED BY <1>7, <1>a, <1>b, <2>1, <2>3 DEF Steady
<1>e. CASE CreateRejected(m) \/ CreateFailed(m)
  <2> DEFINE st == setReadyCondition(o, o.status, "CreateFailed")
  <2>1. st.id = i /\ i = NoId
    BY <1>0, <1>e DEF setReadyCondition, Statuses, CreateRejected, CreateFailed, Knows
  <2>2. SaveStatus(m, st, NoStatus)
    BY <1>e DEF CreateRejected, CreateFailed
  <2> HIDE DEF st
  <2> QED BY <1>c, <2>1, <2>2, SavesOld
<1>8. CASE DeleteServer(m)
  <2>1. Return(m, TRUE, NoStatus) \/ \E st : SaveStatus(m, st, NoStatus)
    BY <1>8 DEF DeleteServer
  <2>2. CASE Return(m, TRUE, NoStatus)
    BY <1>0, <2>2 DEF Return, Idle, Steady, InHand
  <2> QED BY <1>8, <1>d, <2>1, <2>2, SavesOld DEF DeleteServer
<1>9. CASE \/ CreateWithoutId(m) \/ ResizeServer(m) \/ StopServer(m)
           \/ StartServer(m) \/ UpdateServer(m) \/ Fail(m)
  <2>1. w'[m] = Idle(NoStatus)
    BY <1>0, <1>9
       DEF CreateWithoutId, ResizeServer, StopServer, StartServer, UpdateServer,
           Correct, Fail, CallFails, Return
  <2> QED BY <2>1 DEF Idle, Steady, InHand
<1> QED BY <1>1, <1>2, <1>3, <1>4, <1>5, <1>6, <1>7, <1>8, <1>9, <1>e DEF Calling

LEMMA SteadyStays ==
  ASSUME TypeInv, CopiesSound, [Next]_vars, OneManager, OneInv, NEW m \in Managers
  PROVE  Steady(m)'
<1>1. CASE UNCHANGED w
  BY <1>1, OthersLeaveSteady
<1>2. CASE Calling(m)
  BY <1>2, CallingSteady
<1>3. CASE w' = [w EXCEPT ![m] = Idle(NoStatus)]
  <2>1. w'[m].pc = "idle"
    BY <1>3 DEF Idle, TypeInv, TypeOK
  <2> QED BY <2>1 DEF Steady, InHand
<1>4. ASSUME NEW n \in Managers PROVE n = m
  BY DEF OneManager
<1>5. ASSUME AddFinalizer(m) \/ DropFinalizer(m) \/ WriteBack(m)
      PROVE  w' = [w EXCEPT ![m] = Idle(NoStatus)]
  BY <1>5, WriteKinds
<1>6. ASSUME Crash(m) PROVE w' = [w EXCEPT ![m] = Idle(NoStatus)]
  BY <1>6 DEF Crash, Restart
<1>7. User \/ Informer(m) => UNCHANGED w
  BY DEF User, Informer
<1> QED BY <1>1, <1>2, <1>3, <1>4, <1>5, <1>6, <1>7, StepKinds
        DEF Settle, OutOfBand

-----------------------------------------------------------------------------
(* An object that records a server carries the finalizer: an ID enters a   *)
(* status only for a covered object, and the finalizer leaves with it.     *)
LEMMA FinalizerStays ==
  ASSUME TypeInv, CopiesSound, [Next]_vars, OneInv PROVE FinalizerCoversRecorded'
<1> SUFFICES ASSUME NEW i \in Ids, Recorded(i)' PROVE api'.finalizer
  BY DEF FinalizerCoversRecorded
<1>0. api.finalizer \in BOOLEAN /\ api'.finalizer \in BOOLEAN
  BY NextType DEF TypeInv, TypeOK, KubeTypeOK, Versions
<1>a. i # NoId
  BY ServerAssumption
<1>b. Recorded(i) => api.finalizer
  BY DEF OneInv, FinalizerCoversRecorded
<1>1. CASE UNCHANGED api
  BY <1>b, <1>1 DEF Recorded
<1>2. CASE User
  <2>1. Applied \/ Edited \/ Marked \/ RemovedAtOnce
    BY <1>2, UserKinds
  <2>2. ~ Applied
    <3>1. NoStatus.id = NoId /\ api'.status.id = i
      BY DEF NoStatus, Recorded
    <3> QED BY <1>a, <3>1 DEF Applied
  <2>3. ~ RemovedAtOnce
    BY DEF Recorded, RemovedAtOnce
  <2> QED BY <1>b, <2>1, <2>2, <2>3 DEF Recorded, Edited, Marked
<1>3. ASSUME NEW m \in Managers, AddFinalizer(m) \/ DropFinalizer(m) \/ WriteBack(m)
      PROVE  api'.finalizer
  <2>1. CASE Edited
    BY <1>b, <2>1 DEF Edited, Recorded
  <2>2. CASE Released(m)
    <3>1. api.deleting
      BY <2>2 DEF Released, OneInv, Steady
    <3> QED BY <2>2, <3>1 DEF Released, Recorded
  <2>3. CASE Written(m)
    <3>1. api'.status.id = i /\ w[m].pc = "write" /\ w[m].st.id = i /\ w[m].obj = api
      BY <2>3 DEF Written, Recorded
    <3>2. api.exists /\ (api.status.id = i => Recorded(i))
      BY <2>3 DEF Written, Recorded
    <3>3. api.status.id = i \/ api.status.id = NoId
      BY <1>a, <3>1 DEF CopiesSound, GoodWorker, Knows
    <3>4. api.status.id = NoId => InHand(m, i)
      BY <3>1 DEF InHand
    <3>5. api.finalizer
      BY <1>b, <3>2, <3>3, <3>4 DEF OneInv, Steady, Covered
    <3>6. api'.finalizer = api.finalizer
      BY <2>3 DEF Written
    <3> QED BY <3>5, <3>6
  <2>4. UNCHANGED api \/ Edited \/ Released(m) \/ Written(m)
    BY <1>3, WriteKinds
  <2> QED BY <1>1, <2>1, <2>2, <2>3, <2>4
<1>4. ASSUME NEW m \in Managers, Calling(m) \/ Informer(m) \/ Crash(m) PROVE UNCHANGED api
  BY <1>4, CallingKeeps DEF Informer, Sync, Resync, Crash, Restart, Relist
<1> QED BY <1>1, <1>2, <1>3, <1>4, StepKinds DEF Settle, OutOfBand

LEMMA InitOne == Init => OneInv
<1> SUFFICES ASSUME Init PROVE OneInv
  OBVIOUS
<1>1. api = NoObject(NoStatus) /\ ~ api.exists
  BY DEF Init, KubeInit, NoObject
<1>2. \A m \in Managers : cache[m] = api /\ watch[m] = {} /\ w[m].pc = "idle"
  BY DEF Init, KubeInit, Idle
<1>3. FinalizerCoversRecorded
  BY <1>1 DEF FinalizerCoversRecorded, Recorded
<1>4. \A m \in Managers : Ordered(m) /\ NotMisled(m) /\ Steady(m)
  BY <1>1, <1>2, IdleSteady DEF Ordered, NotMisled, Wanted
<1> QED BY <1>3, <1>4 DEF OneInv

LEMMA NextOne ==
  OneManager /\ TypeInv /\ CopiesSound /\ OneInv /\ [Next]_vars => OneInv'
BY OrderedStays, NotMisledStays, SteadyStays, FinalizerStays DEF OneInv

LEMMA OneInvariant ==
  ASSUME OneManager PROVE Spec => [](TypeInv /\ CopiesSound /\ OneInv)
<1>1. Init => TypeInv /\ CopiesSound /\ OneInv
  BY InitType, InitSound, InitOne
<1>2. TypeInv /\ CopiesSound /\ OneInv /\ [Next]_vars
        => TypeInv' /\ CopiesSound' /\ OneInv'
  BY NextType, NextSound, NextOne
<1> QED BY <1>1, <1>2, PTL DEF Spec

(* With one manager, the re-read in reconcileCreate and the finalizer rule *)
(* out a second server and an unguarded one: a server is made only while   *)
(* the object records none that is still there and, if the object is       *)
(* there, it has the finalizer - even if the cache that started the        *)
(* reconcile was stale and the object was edited or deleted since.         *)
THEOREM CreatesOnlyWhenNeeded ==
  ASSUME OneManager PROVE Spec => CreateOnlyWhenNeeded
<1>1. ASSUME TypeInv, CopiesSound, OneInv, [Next]_vars, NEW i \in Ids,
             cloud[i].state = "none", cloud'[i].state # "none"
      PROVE  /\ \A j \in Ids : ~ (Recorded(j) /\ Live(j))
             /\ api.exists => api.finalizer
  <2>1. PICK m \in Managers : w[m].pc = "create"
    BY <1>1, OnlyCreateMakes
  <2>2. Covered /\ api.status.id = NoId
    BY <1>1, <2>1 DEF OneInv, Steady
  <2> QED BY <2>2, ServerAssumption DEF Recorded, Covered
<1>2. TypeInv /\ CopiesSound /\ OneInv /\ [Next]_vars
        => [\A i \in Ids :
              cloud[i].state = "none" /\ cloud'[i].state # "none"
                => /\ \A j \in Ids : ~ (Recorded(j) /\ Live(j))
                   /\ api.exists => api.finalizer]_vars
  BY <1>1
<1> QED BY <1>2, OneInvariant, PTL DEF Spec, CreateOnlyWhenNeeded

-----------------------------------------------------------------------------
(***************************************************************************)
(* With at most one manager, ServerController implements OwnedResource:    *)
(* every step of the controller, its users and STACKIT is a step of        *)
(* OwnedResource or leaves Promised and every Stage as they are.           *)
(***************************************************************************)

Hand(i) == \E m \in Managers : InHand(m, i)

(* What a step of the lemmas below may rely on. *)
Running == TypeInv /\ CopiesSound /\ OneInv /\ OneManager /\ [Next]_vars

MappedStep == [Owned!Next]_(Owned!vars)

-----------------------------------------------------------------------------
(* How the stages follow from the server, the record and the worker. *)

LEMMA Untouched ==
  ASSUME Promised' = Promised, \A i \in Ids : Stage(i)' = Stage(i)
  PROVE  MappedStep
<1>1. [i \in Ids |-> Stage(i)]' = [i \in Ids |-> Stage(i)]
  OBVIOUS
<1> QED BY <1>1 DEF MappedStep, Owned!vars

(* Only the stage of server i changes. *)
LEMMA OneMoves ==
  ASSUME NEW i \in Ids, \A j \in Ids \ {i} : Stage(j)' = Stage(j)
  PROVE  [j \in Ids |-> Stage(j)]'
           = [[j \in Ids |-> Stage(j)] EXCEPT ![i] = Stage(i)']
OBVIOUS

LEMMA StageKept ==
  ASSUME NEW i \in Ids,
         cloud'[i].state = "none" <=> cloud[i].state = "none",
         IsNotFound(i)' <=> IsNotFound(i),
         ~ IsNotFound(i) => (Recorded(i)' <=> Recorded(i)),
         ~ IsNotFound(i) /\ ~ Recorded(i) => (Hand(i)' <=> Hand(i))
  PROVE  Stage(i)' = Stage(i)
BY DEF Stage, Hand

(* A server in hand is one that has been made, for an object without one. *)
LEMMA HandFacts ==
  ASSUME TypeInv, CopiesSound, OneInv, NEW i \in Ids, Hand(i)
  PROVE  /\ cloud[i].state # "none"
         /\ Covered /\ api.status.id = NoId
         /\ \A j \in Ids : ~ Recorded(j)
<1>1. PICK m \in Managers : InHand(m, i)
  BY DEF Hand
<1>2. Covered /\ api.status.id = NoId
  BY <1>1 DEF OneInv, Steady
<1>3. cloud[i].state # "none"
  BY <1>1 DEF InHand, CopiesSound, GoodWorker, Made
<1> QED BY <1>2, <1>3, ServerAssumption DEF Recorded

(* There is at most one server in hand, and then none is recorded: what    *)
(* keeps nothing in hand and nothing recorded is free.                     *)
LEMMA FreeOnes ==
  ASSUME \A i \in Ids : IsNotFound(i) \/ (~ Recorded(i) /\ ~ Hand(i))
  PROVE  Owned!Free
<1>1. ASSUME NEW i \in Ids PROVE Stage(i) \notin {"made", "held"}
  BY DEF Stage, Hand
<1> QED BY <1>1 DEF Owned!Free

(* A worker that stops, whatever it was doing: the server in its hand, if  *)
(* any, is lost.                                                           *)
LEMMA Stops ==
  ASSUME Running, NEW m \in Managers,
         w' = [w EXCEPT ![m] = Idle(NoStatus)], UNCHANGED cloud,
         Promised' = Promised, \A i \in Ids : Recorded(i)' <=> Recorded(i)
  PROVE  MappedStep
<1>0. \A n \in Managers : n = m
  BY DEF Running, OneManager
<1>1. \A j \in Ids : ~ Hand(j)'
  BY <1>0 DEF Running, TypeInv, TypeOK, Hand, InHand, Idle
<1>2. CASE \A j \in Ids : IsNotFound(j) \/ ~ Hand(j)
  BY <1>1, <1>2, StageKept, Untouched DEF IsNotFound
<1>3. ASSUME NEW i \in Ids, Hand(i), ~ IsNotFound(i) PROVE MappedStep
  <2>1. Stage(i) = "made" /\ Stage(i)' = "lost"
    <3>1. cloud[i].state # "none" /\ ~ Recorded(i)
      BY <1>3, HandFacts DEF Running
    <3> QED BY <1>1, <1>3, <3>1 DEF Stage, Hand, IsNotFound
  <2>2. ASSUME NEW j \in Ids \ {i} PROVE Stage(j)' = Stage(j)
    <3>1. ~ Hand(j)
      BY <1>0, <1>3 DEF Hand, InHand
    <3> QED BY <1>1, <3>1, StageKept DEF IsNotFound
  <2>3. Owned!Record(i)
    BY <2>1, <2>2, OneMoves DEF Owned!Record
  <2> QED BY <2>3 DEF MappedStep, Owned!Next
<1> QED BY <1>2, <1>3

-----------------------------------------------------------------------------
(* The steps, sorted as in StepKinds. *)

LEMMA UserMaps ==
  ASSUME Running, User PROVE MappedStep
<1>0. UNCHANGED <<w, cloud>> /\ (Applied \/ Edited \/ Marked \/ RemovedAtOnce)
  BY UserKinds DEF Running
<1>1. /\ \A i \in Ids : Hand(i)' <=> Hand(i)
      /\ \A i \in Ids : IsNotFound(i)' <=> IsNotFound(i)
      /\ UNCHANGED cloud
  BY <1>0 DEF Hand, InHand, IsNotFound
<1>2. ASSUME \A i \in Ids : Recorded(i)' <=> Recorded(i)
      PROVE  \A i \in Ids : Stage(i)' = Stage(i)
  BY <1>1, <1>2, StageKept
<1>3. CASE Applied
  <2>1. NoStatus.id = NoId
    BY DEF NoStatus
  <2>2. \A i \in Ids : ~ Recorded(i) /\ ~ Recorded(i)'
    BY <1>3, <2>1, ServerAssumption DEF Applied, Recorded
  <2>3. Promised = "absent" /\ Promised' = "wanted"
    BY <1>3 DEF Applied, Promised
  <2>4. Owned!Apply
    BY <1>2, <2>2, <2>3 DEF Owned!Apply
  <2> QED BY <2>4 DEF MappedStep, Owned!Next
<1>4. CASE Edited
  <2>1. Promised' = Promised /\ \A i \in Ids : Recorded(i)' <=> Recorded(i)
    BY <1>4 DEF Edited, Promised, Recorded
  <2> QED BY <1>2, <2>1, Untouched
<1>5. CASE Marked
  <2>1. Promised = "wanted" /\ Promised' = "going"
    BY <1>5 DEF Marked, Promised
  <2>2. \A i \in Ids : Recorded(i)' <=> Recorded(i)
    BY <1>5 DEF Marked, Recorded
  <2>3. Owned!Delete
    BY <1>2, <2>1, <2>2 DEF Owned!Delete
  <2> QED BY <2>3 DEF MappedStep, Owned!Next
<1>6. CASE RemovedAtOnce
  <2>1. Promised = "wanted" /\ Promised' = "absent"
    BY <1>6 DEF RemovedAtOnce, Promised
  <2>2. \A i \in Ids : ~ Recorded(i) /\ ~ Hand(i)
    BY <1>6, HandFacts
       DEF Running, OneInv, FinalizerCoversRecorded, RemovedAtOnce, Covered
  <2>3. \A i \in Ids : ~ Recorded(i)'
    BY <1>6 DEF RemovedAtOnce, Recorded
  <2>4. Owned!Free
    BY <2>2, FreeOnes
  <2>5. Owned!Remove
    BY <1>2, <2>1, <2>2, <2>3, <2>4 DEF Owned!Remove
  <2> QED BY <2>5 DEF MappedStep, Owned!Next
<1> QED BY <1>0, <1>3, <1>4, <1>5, <1>6

(* The finalizer is dropped for an object whose server is gone, and the    *)
(* object goes with it.                                                    *)
LEMMA ReleaseMaps ==
  ASSUME Running, NEW m \in Managers, Released(m),
         w' = [w EXCEPT ![m] = Idle(NoStatus)], UNCHANGED cloud
  PROVE  MappedStep
<1>1. w[m].pc = "dropFinalizer" /\ w[m].obj = api /\ api.exists
  BY DEF Released
<1>2. api.deleting
  BY <1>1 DEF Running, OneInv, Steady
<1>3. ~ api'.exists
  BY <1>2 DEF Released
<1>4. Promised = "going" /\ Promised' = "absent"
  BY <1>1, <1>2, <1>3 DEF Promised
<1>5. \A i \in Ids : ~ Hand(i) /\ ~ Hand(i)'
  BY <1>1 DEF Running, OneManager, TypeInv, TypeOK, Hand, InHand, Idle
<1>6. \A i \in Ids : Recorded(i) => IsNotFound(i)
  BY <1>1, ServerAssumption
     DEF Running, CopiesSound, GoodWorker, Knows, Gone, Recorded, IsNotFound, Absent
<1>7. \A i \in Ids : ~ Recorded(i)'
  BY <1>3 DEF Recorded
<1>8. \A i \in Ids : Stage(i)' = Stage(i)
  BY <1>5, <1>6, <1>7, StageKept DEF IsNotFound
<1>9. Owned!Free
  BY <1>5, <1>6, FreeOnes
<1>10. Owned!Remove
  BY <1>4, <1>8, <1>9 DEF Owned!Remove
<1> QED BY <1>10 DEF MappedStep, Owned!Next

(* A status write that succeeds records the server in hand, and forgets    *)
(* only one that is gone.                                                  *)
LEMMA RecordMaps ==
  ASSUME Running, NEW m \in Managers, Written(m),
         w' = [w EXCEPT ![m] = Idle(NoStatus)], UNCHANGED cloud
  PROVE  MappedStep
<1> DEFINE id == api.status.id
           new == w[m].st.id
<1>1. /\ w[m].pc = "write" /\ w[m].obj = api
      /\ api.exists /\ api'.exists
      /\ api'.status.id = new
  BY DEF Written
<1>2. Promised' = Promised
  BY Zenon DEF Written, Promised
<1>0. \A n \in Managers : n = m
  BY DEF Running, OneManager
<1>3. new = id \/ id = NoId \/ (new = NoId /\ Gone(id, cloud))
  BY <1>1 DEF Running, CopiesSound, GoodWorker, Knows
<1>4. NoId \notin Ids
  BY ServerAssumption
<1>5. \A i \in Ids : ~ Hand(i)'
  BY <1>0 DEF Running, TypeInv, TypeOK, Hand, InHand, Idle
<1>6. \A i \in Ids : Hand(i) <=> new = i /\ id = NoId
  BY <1>0, <1>1 DEF Hand, InHand
<1>7. \A i \in Ids : (Recorded(i) <=> id = i) /\ (Recorded(i)' <=> new = i)
  BY <1>1 DEF Recorded
<1> HIDE DEF id, new
<1>8. ASSUME NEW i \in Ids, id = NoId, new = i, ~ IsNotFound(i) PROVE MappedStep
  <2>1. \A j \in Ids \ {i} : Stage(j)' = Stage(j)
    BY <1>4, <1>5, <1>6, <1>7, <1>8, StageKept DEF IsNotFound
  <2>2. cloud[i].state # "none"
    BY <1>6, <1>8, HandFacts DEF Running
  <2>3. Hand(i) /\ ~ Recorded(i) /\ Recorded(i)'
    BY <1>4, <1>6, <1>7, <1>8
  <2>4. Stage(i) = "made" /\ Stage(i)' = "held"
    BY <1>8, <2>2, <2>3 DEF Stage, Hand, IsNotFound
  <2>5. Owned!Record(i)
    BY <1>2, <2>1, <2>4, OneMoves DEF Owned!Record
  <2> QED BY <2>5 DEF MappedStep, Owned!Next
<1>9. CASE ~ (id = NoId /\ new \in Ids /\ ~ IsNotFound(new))
  <2>1. ASSUME NEW i \in Ids, ~ IsNotFound(i)
        PROVE  (Recorded(i)' <=> Recorded(i)) /\ ~ Hand(i)
    <3>1. ~ Gone(i, cloud)
      BY <2>1 DEF Gone, IsNotFound, Absent
    <3> QED BY <1>3, <1>4, <1>6, <1>7, <1>9, <2>1, <3>1
  <2>2. \A i \in Ids : Stage(i)' = Stage(i)
    BY <1>5, <2>1, StageKept DEF IsNotFound
  <2> QED BY <1>2, <2>2, Untouched
<1> QED BY <1>8, <1>9

LEMMA WriteMaps ==
  ASSUME Running, NEW m \in Managers, AddFinalizer(m) \/ DropFinalizer(m) \/ WriteBack(m)
  PROVE  MappedStep
<1>1. /\ w' = [w EXCEPT ![m] = Idle(NoStatus)]
      /\ UNCHANGED cloud
      /\ UNCHANGED api \/ Edited \/ Released(m) \/ Written(m)
  BY WriteKinds DEF Running
<1>2. CASE UNCHANGED api \/ Edited
  <2>1. Promised' = Promised /\ \A i \in Ids : Recorded(i)' <=> Recorded(i)
    BY <1>2 DEF Edited, Promised, Recorded
  <2> QED BY <1>1, <2>1, Stops
<1> QED BY <1>1, <1>2, ReleaseMaps, RecordMaps

(* A server is made for a covered object without one; its ID is in hand,   *)
(* unless the reply was lost.                                              *)
LEMMA MakeMaps ==
  ASSUME Running, UNCHANGED api, NEW i \in Ids,
         cloud[i].state = "none", cloud'[i].state # "none"
  PROVE  MappedStep
<1>1. PICK m \in Managers :
        /\ CreateServer(i, w[m].obj) /\ w[m].pc = "create"
        /\ \/ CreateAnswers(m) /\ Saves(m, i)
           \/ /\ CreateFailed(m) \/ CreateWithoutId(m)
              /\ left'.faults < left.faults
  BY OnlyCreateMakes DEF Running
<1>2. Covered /\ api.status.id = NoId
  BY <1>1 DEF Running, OneInv, Steady
<1>3. \A j \in Ids : ~ Recorded(j) /\ ~ Recorded(j)'
  BY <1>2, ServerAssumption DEF Recorded
<1>4. \A j \in Ids : ~ Hand(j)
  BY <1>1 DEF Running, OneManager, Hand, InHand
<1>5. \A j \in Ids \ {i} : cloud'[j] = cloud[j]
  BY <1>1 DEF CreateServer, Running, TypeInv, TypeOK
<1>6. Promised' = Promised
  BY DEF Promised
<1>7. cloud'[i].state \notin Absent
  BY <1>1, CreateServerType DEF Running
<1>8. ASSUME \A j \in Ids \ {i} : ~ Hand(j)' PROVE MappedStep
  <2>1. ASSUME NEW j \in Ids \ {i} PROVE Stage(j)' = Stage(j)
    BY <1>3, <1>4, <1>5, <1>8, StageKept DEF IsNotFound
  <2>2. Stage(i) = "none" /\ Stage(i)' \in {"made", "lost"}
    BY <1>3, <1>7 DEF Stage, IsNotFound
  <2>3. Owned!Free
    BY <1>3, <1>4, FreeOnes
  <2>4. Promised # "absent"
    BY <1>2 DEF Covered, Promised
  <2>5. Owned!Make(i)
    BY <1>6, <2>1, <2>2, <2>3, <2>4, OneMoves DEF Owned!Make
  <2> QED BY <2>5 DEF MappedStep, Owned!Next
<1>9. CASE CreateAnswers(m) /\ Saves(m, i)
  <2>1. InHand(m, i)'
    BY <1>1, <1>9, CreatedInHand DEF Running
  <2>2. \A j \in Ids \ {i} : ~ Hand(j)'
    BY <2>1 DEF Running, OneManager, Hand, InHand
  <2> QED BY <1>8, <2>2
<1>10. CASE (CreateFailed(m) \/ CreateWithoutId(m)) /\ left'.faults < left.faults
  <2>1. ~ CreateAnswers(m)
    BY <1>10 DEF CreateAnswers, Running, TypeInv, TypeOK, KubeTypeOK
  <2>2. \A j \in Ids : ~ InHand(m, j)'
    BY <1>10, <2>1, CallingSteady DEF Running, Calling
  <2> QED BY <1>8, <2>2 DEF Running, OneManager, Hand
<1> QED BY <1>1, <1>9, <1>10

(* A worker that calls STACKIT or reads: nothing the object stands for     *)
(* changes, but for a server that is made, or lost with a failed write.    *)
LEMMA CallMaps ==
  ASSUME Running, NEW m \in Managers, Calling(m) PROVE MappedStep
<1>0. /\ cloud \in [Ids -> Servers]
      /\ w \in [Managers -> Workers(Statuses, Calls)]
      /\ \A n \in Managers : n = m
      /\ UNCHANGED api
  BY CallingKeeps DEF Running, TypeInv, TypeOK, OneManager
<1>1. Promised' = Promised /\ \A i \in Ids : Recorded(i)' <=> Recorded(i)
  BY <1>0 DEF Promised, Recorded
<1>2. CASE \E i \in Ids : cloud[i].state = "none" /\ cloud'[i].state # "none"
  BY <1>0, <1>2, MakeMaps
<1>3. CASE Fail(m)
  <2>1. w' = [w EXCEPT ![m] = Idle(NoStatus)] /\ UNCHANGED cloud
    BY <1>3 DEF Fail, CallFails, Return
  <2> QED BY <1>1, <2>1, Stops
<1>4. CASE CreateAnswers(m)
  <2>1. PICK i \in Ids : CreateServer(i, w[m].obj)
    BY <1>4 DEF CreateAnswers
  <2>2. cloud[i].state = "none" /\ cloud'[i].state = "CREATING"
    BY <1>0, <2>1 DEF CreateServer
  <2> QED BY <1>0, <2>2, MakeMaps
<1>5. CASE /\ ~ Fail(m) /\ ~ CreateAnswers(m)
           /\ ~ \E i \in Ids : cloud[i].state = "none" /\ cloud'[i].state # "none"
  <2>0. ~ \E i \in Ids : cloud[i].state = "none" /\ cloud'[i].state # "none"
    BY <1>5
  <2>1. w[m].pc # "write"
    <3>1. CASE ResizeServer(m) \/ StopServer(m) \/ StartServer(m) \/ UpdateServer(m)
      <4>1. PICK call, accepting, v :
              Correct(m, call, accepting, v) /\ call \in {"resize", "stop", "start", "update"}
        BY <3>1, CorrectedStates DEF Running
      <4> QED BY <4>1 DEF Correct
    <3> QED
      BY <1>5, <3>1
         DEF Calling, Reconcile, Recheck, idAlreadyPresent, Unresolved, ObserveMissing,
             ObserveServer, ObserveDrift, DeleteGet, CreateRejected, CreateFailed,
             CreateWithoutId, DeleteServer
  <2>2. \A i \in Ids : ~ Hand(i) /\ ~ Hand(i)'
    BY <1>0, <1>5, <2>1, CallingSteady DEF Running, Hand, InHand
  <2>3. ASSUME NEW i \in Ids
        PROVE  /\ cloud'[i].state = "none" <=> cloud[i].state = "none"
               /\ IsNotFound(i)' <=> IsNotFound(i)
    <3> DEFINE Same == /\ cloud'[i].state = "none" <=> cloud[i].state = "none"
                       /\ IsNotFound(i)' <=> IsNotFound(i)
    <3>1. cloud[i] \in Servers
      BY <1>0
    <3>2. CASE UNCHANGED cloud
      BY <3>2 DEF IsNotFound
    <3>3. CASE ResizeServer(m) \/ StopServer(m) \/ StartServer(m) \/ UpdateServer(m)
      <4>1. PICK call, accepting, v :
              /\ Correct(m, call, accepting, v)
              /\ Current(m).state \in accepting
                   => Current(m).state \in States /\ v.state \in States
        BY <3>3, CorrectedStates DEF Running
      <4> QED BY <1>0, <4>1, KnownStates DEF Correct, Current, IsNotFound, Absent
    <3>5. CASE DeleteServer(m)
      BY <1>0, <3>1, <3>5 DEF DeleteServer, IsNotFound, Absent, Servers
    <3>6. ASSUME NEW j \in Ids, CreateServer(j, w[m].obj) PROVE FALSE
      <4>1. cloud[j].state = "none" /\ cloud'[j].state = "CREATING"
        BY <1>0, <3>6 DEF CreateServer
      <4> QED BY <2>0, <4>1
    <3> QED BY <1>5, <3>2, <3>3, <3>5, <3>6
            DEF Calling, Reconcile, Recheck, Unresolved, ObserveMissing, ObserveServer,
                ObserveDrift, DeleteGet, CreateRejected, CreateFailed, CreateWithoutId
  <2>4. \A i \in Ids : Stage(i)' = Stage(i)
    BY <1>1, <2>2, <2>3, StageKept
  <2> QED BY <1>1, <2>4, Untouched
<1> QED BY <1>2, <1>3, <1>4, <1>5

(* What happens in STACKIT of itself: a server goes, or only changes state.*)
LEMMA StackitMaps ==
  ASSUME Running, NEW k \in Ids, Settle(k) \/ OutOfBand(k)
  PROVE  MappedStep
<1>0. /\ cloud \in [Ids -> Servers]
      /\ UNCHANGED <<api, w>>
      /\ cloud[k] \in Servers
  BY DEF Running, TypeInv, TypeOK, Settle, OutOfBand
<1>1. /\ Promised' = Promised
      /\ \A i \in Ids : Recorded(i)' <=> Recorded(i)
      /\ \A i \in Ids : Hand(i)' <=> Hand(i)
  BY <1>0 DEF Promised, Recorded, Hand, InHand
<1>2. cloud[k].state \notin Absent /\ cloud'[k].state # "none"
  <2>1. "none" \notin transitionalStates /\ "gone" \notin transitionalStates
    BY DEF transitionalStates
  <2>2. cloud[k].state \notin Absent
    BY <2>1 DEF Settle, OutOfBand, IsNotFound, Absent
  <2>3. cloud[k].state # "none" => cloud'[k].state # "none"
    BY CloudStep DEF Running
  <2> QED BY <2>2, <2>3 DEF Absent
<1>3. \A i \in Ids \ {k} : cloud'[i] = cloud[i]
  BY <1>0 DEF Settle, OutOfBand
<1>4. \A i \in Ids \ {k} : Stage(i)' = Stage(i)
  BY <1>1, <1>3, StageKept DEF IsNotFound
<1>5. CASE k \in Ids /\ cloud'[k].state = "gone"
  <2>1. Stage(k) \in {"made", "held", "lost"} /\ Stage(k)' = "gone"
    BY <1>2, <1>5 DEF Stage, IsNotFound, Absent
  <2>2. Owned!Vanish(k)
    BY <1>1, <1>4, <1>5, <2>1, OneMoves DEF Owned!Vanish
  <2> QED BY <1>5, <2>2 DEF MappedStep, Owned!Next
<1>6. CASE k \in Ids /\ cloud'[k].state # "gone"
  <2>1. Stage(k)' = Stage(k)
    BY <1>1, <1>2, <1>6, StageKept DEF IsNotFound, Absent
  <2> QED BY <1>1, <1>4, <2>1, Untouched
<1> QED BY <1>5, <1>6

-----------------------------------------------------------------------------
LEMMA InitMaps == Init => Owned!Init
<1> SUFFICES ASSUME Init PROVE Owned!Init
  OBVIOUS
<1>1. Promised = "absent"
  BY DEF Init, KubeInit, NoObject, Promised
<1>2. ASSUME NEW i \in Ids PROVE Stage(i) = "none"
  BY ServerAssumption DEF Init, Stage
<1> QED BY <1>1, <1>2 DEF Owned!Init

LEMMA NextMaps == Running => MappedStep
<1> SUFFICES ASSUME Running PROVE MappedStep
  OBVIOUS
<1>1. ASSUME NEW m \in Managers, Informer(m) PROVE MappedStep
  <2>1. UNCHANGED <<api, w, cloud>>
    BY <1>1 DEF Informer, Sync, Resync
  <2>2. Promised' = Promised /\ \A i \in Ids : Stage(i)' = Stage(i)
    BY <2>1 DEF Promised, Stage, Recorded, InHand, IsNotFound
  <2> QED BY <2>2, Untouched
<1>2. ASSUME NEW m \in Managers, Crash(m) PROVE MappedStep
  <2>1. UNCHANGED <<api, cloud>> /\ w' = [w EXCEPT ![m] = Idle(NoStatus)]
    BY <1>2 DEF Crash, Restart, Relist
  <2>2. Promised' = Promised /\ \A i \in Ids : Recorded(i)' <=> Recorded(i)
    BY <2>1 DEF Promised, Recorded
  <2> QED BY <2>1, <2>2, Stops
<1>3. CASE UNCHANGED <<api, cache, watch, w, cloud>>
  <2>1. Promised' = Promised /\ \A i \in Ids : Stage(i)' = Stage(i)
    BY <1>3 DEF Promised, Stage, Recorded, InHand, IsNotFound
  <2> QED BY <2>1, Untouched
<1>4. [Next]_vars
  BY DEF Running
<1> QED BY <1>1, <1>2, <1>3, <1>4, UserMaps, WriteMaps, CallMaps, StackitMaps, StepKinds

(* With one manager, the Server controller - stale caches, conflicts,      *)
(* failed and lost calls, restarts and polls included - behaves as         *)
(* OwnedResource says: one server at a time, made only for an object that  *)
(* is there, recorded or lost but never held twice, and gone before the    *)
(* object that records it goes.                                            *)
THEOREM ServerImplementsOwned ==
  ASSUME OneManager PROVE Spec => ImplementsOwned
<1>1. TypeInv /\ CopiesSound /\ OneInv /\ [Next]_vars => [Owned!Next]_(Owned!vars)
  BY NextMaps DEF Running, MappedStep
<1> QED BY <1>1, InitMaps, OneInvariant, PTL DEF Spec, ImplementsOwned, Owned!Spec

(* With one manager, an object stands for one server at a time: there is   *)
(* never a second one recorded or on the way, and none once the object is  *)
(* gone.                                                                   *)
THEOREM OneServerAtMost ==
  ASSUME OneManager PROVE Spec => []Owned!OneAtMost
<1>1. ASSUME TypeInv, CopiesSound, OneInv, NEW i \in Ids, Stage(i) \in {"made", "held"}
      PROVE  /\ Promised # "absent"
             /\ \A j \in Ids : Stage(j) \in {"made", "held"} => i = j
  <2>1. \A j \in Ids : Stage(j) \in {"made", "held"} => Recorded(j) \/ Hand(j)
    BY DEF Stage, Hand
  <2>2. CASE Hand(i)
    <3>1. Covered /\ \A j \in Ids : ~ Recorded(j)
      BY <1>1, <2>2, HandFacts
    <3>2. \A j \in Ids : Hand(j) => i = j
      BY <2>2 DEF Hand, InHand, OneManager
    <3> QED BY <2>1, <3>1, <3>2 DEF Covered, Promised
  <2>3. CASE Recorded(i)
    <3>1. \A j \in Ids : ~ Hand(j)
      BY <1>1, <2>3, HandFacts
    <3>2. \A j \in Ids : Recorded(j) => i = j
      BY <2>3 DEF Recorded
    <3> QED BY <2>1, <2>3, <3>1, <3>2 DEF Recorded, Promised
  <2> QED BY <1>1, <2>1, <2>2, <2>3
<1>2. TypeInv /\ CopiesSound /\ OneInv => Owned!OneAtMost
  BY <1>1 DEF Owned!OneAtMost
<1> QED BY <1>2, OneInvariant, PTL

=============================================================================
