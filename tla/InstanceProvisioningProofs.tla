----------------------- MODULE InstanceProvisioningProofs -----------------------
(***************************************************************************)
(* AuraInstanceReconciler implements InstanceProvisioning, for all ids,    *)
(* users, troubles, bounds and lags of the cache.                          *)
(*                                                                         *)
(* What has to be known is where an id in a copy of the AuraInstance can   *)
(* come from (Aura handed it out), and, when reconciles start from the     *)
(* newest version, that the copy a reconcile began with names the instance *)
(* the object still names when the status is patched.                      *)
(***************************************************************************)
EXTENDS AuraInstanceReconcilerProofs

Known(version) ==
    version # None /\ version.status.instanceID # None =>
        remote[version.status.instanceID].state # "unused"

\* The reconcile at work: what it began with, and what it has made of it.
WorkInv ==
    LET before == snapshot.status.instanceID
        now == instance.status.instanceID IN
    /\ Known(instance)
    /\ pc \in {"get", "delete", "update"} => now = before
    /\ pc \in {"list", "post", "create"} => before = None
    /\ pc = "delete" => remote[now].state = "gone"
    /\ pc = "patch" /\ now # before => before = None \/ remote[before].state = "gone"

Newest == IF watch = <<>> THEN cache ELSE watch[Len(watch)]

VersionsInv ==
    /\ Known(object)
    /\ Known(cache)
    /\ \A k \in 1 .. Len(watch) : Known(watch[k])
    /\ Newest = object

\* The object names no other instance than the one the reconcile began with.
NamedInv ==
    MaxLag = 0 /\ pc # "idle" /\ object # None =>
        object.status.instanceID \in {None, snapshot.status.instanceID}

BindingInv == WorkInv /\ VersionsInv /\ NamedInv

--------------------------------------------------------------------------------

(***************************************************************************)
(* An id never becomes unused again, and what is gone stays gone.          *)
(***************************************************************************)
Onwards ==
    \A id \in InstanceIds :
        /\ remote[id].state # "unused" => remote'[id].state # "unused"
        /\ remote[id].state = "gone" => remote'[id].state = "gone"

\* Nor does a step change what has become of any id.
FatesKept == \A id \in InstanceIds : Fate(id)' = Fate(id)

LEMMA RemoteKept ==
  ASSUME UNCHANGED remote PROVE Onwards /\ FatesKept
  BY DEF Onwards, FatesKept, Fate, Live

LEMMA ProvisionOnwards ==
  ASSUME TypeOK, NEW id \in InstanceIds, NEW config, NEW late \in BOOLEAN,
         Provision(id, config, late)
  PROVE  /\ Onwards
         /\ remote[id].state = "unused"
         /\ remote'[id].state = "creating"
         /\ remote'[id].late = late
         /\ \A other \in InstanceIds : other # id => remote'[other] = remote[other]
<1> DEFINE new == [state |-> "creating", config |-> config, late |-> late]
<1>1. remote'[id] = new /\ remote[id].state = "unused"
  BY DEF Provision, TypeOK, CloudTypeOK
<1>2. \A other \in InstanceIds : other # id => remote'[other] = remote[other]
  BY DEF Provision, TypeOK, CloudTypeOK
<1>3. new.state = "creating" /\ new.late = late
  OBVIOUS
<1> HIDE DEF new
<1>4. QED
  BY <1>1, <1>2, <1>3 DEF Onwards

LEMMA ReconfigureOnwards ==
  ASSUME TypeOK, NEW id \in InstanceIds, NEW config, Reconfigure(id, config)
  PROVE  Onwards /\ FatesKept
<1>1. PICK state \in {"running", "busy"} :
        remote' = [remote EXCEPT ![id].config = config, ![id].state = state]
  BY DEF Reconfigure
<1>2. remote \in [InstanceIds -> Remote] /\ remote[id].state = "running"
  BY DEF TypeOK, CloudTypeOK, Reconfigure
<1>3. ASSUME NEW other \in InstanceIds, other # id
      PROVE  remote'[other] = remote[other]
  BY <1>1, <1>2, <1>3
<1>4. remote'[id].state \in {"running", "busy"} /\ remote'[id].late = remote[id].late
  BY <1>1, <1>2 DEF Remote
<1>5. QED
  BY <1>2, <1>3, <1>4 DEF Onwards, FatesKept, Fate, Live

LEMMA ConsoleOnwards ==
  ASSUME TypeOK, NEW id \in InstanceIds,
         Settle(id) \/ Occupy(id) \/ \E config \in Configs : Drift(id, config)
  PROVE  Onwards /\ FatesKept
<1>1. remote \in [InstanceIds -> Remote]
  BY DEF TypeOK, CloudTypeOK
<1>2. ASSUME NEW other \in InstanceIds, other # id
      PROVE  remote'[other] = remote[other]
  BY <1>1, <1>2 DEF Settle, Occupy, Drift
<1>3. /\ remote[id].state \in {"creating", "running", "busy"}
      /\ remote'[id].state \in {"running", "busy"}
      /\ remote'[id].late = remote[id].late
  BY <1>1 DEF Settle, Occupy, Drift, Remote
<1>4. QED
  BY <1>2, <1>3 DEF Onwards, FatesKept, Fate, Live

LEMMA DestroyOnwards ==
  ASSUME TypeOK, NEW id \in InstanceIds, Destroy(id)
  PROVE  /\ Onwards
         /\ Fate(id) \in {"requested", "late"}
         /\ Fate(id)' = "gone"
         /\ \A other \in InstanceIds : other # id => Fate(other)' = Fate(other)
<1>1. remote \in [InstanceIds -> Remote] /\ remote[id].late \in BOOLEAN
  BY DEF TypeOK, CloudTypeOK, Remote
<1>2. ASSUME NEW other \in InstanceIds, other # id
      PROVE  remote'[other] = remote[other]
  BY <1>1, <1>2 DEF Destroy
<1>3. Live(id) /\ remote'[id].state = "gone"
  BY <1>1 DEF Destroy, Remote
<1>4. QED
  BY <1>1, <1>2, <1>3 DEF Onwards, Fate, Live

--------------------------------------------------------------------------------

(***************************************************************************)
(* Reconcile, call by call: the copy it works on keeps naming what it has  *)
(* named, unless that is gone or there was nothing to name.                *)
(***************************************************************************)
LEMMA ReturnBinds ==
  ASSUME NEW changed \in AuraInstance, NEW failed \in BOOLEAN, NEW requeue,
         changed.status.instanceID # None =>
             remote'[changed.status.instanceID].state # "unused",
         \/ changed.status.instanceID = snapshot.status.instanceID
         \/ snapshot.status.instanceID = None
         \/ remote'[snapshot.status.instanceID].state = "gone",
         Return(changed, failed, requeue)
  PROVE  WorkInv'
<1>1. /\ pc' = "patch"
      /\ instance' = Reviewed(changed, failed)
      /\ snapshot' = snapshot
  BY DEF Return
<1>2. instance'.status.instanceID = changed.status.instanceID
  BY <1>1, ReviewedDerived
<1>3. QED
  BY <1>1, <1>2 DEF WorkInv, Known

LEMMA ProceedBinds ==
  ASSUME NEW changed, NEW step \in Steps \ {"patch"},
         changed.status.instanceID # None =>
             remote'[changed.status.instanceID].state # "unused",
         step \in {"get", "delete", "update"} =>
             changed.status.instanceID = snapshot.status.instanceID,
         step \in {"list", "post", "create"} => snapshot.status.instanceID = None,
         step = "delete" => remote'[changed.status.instanceID].state = "gone",
         Proceed(step, changed)
  PROVE  WorkInv'
  BY DEF WorkInv, Known, Proceed

LEMMA FinishBinds ==
  ASSUME NEW again, Finish(again) PROVE WorkInv'
  BY DEF WorkInv, Known, Finish

LEMMA PanicBinds == ASSUME Panic PROVE WorkInv'
  BY FinishBinds DEF Panic

LEMMA FailBinds ==
  ASSUME TypeOK, WorkInv, Onwards, pc \in Steps \ {"idle", "patch"}, Fail(instance)
  PROVE  WorkInv'
<1>1. instance \in AuraInstance /\ instance.status.instanceID \in InstanceIds \cup {None}
  BY DEF TypeOK, ControllerTypeOK, AuraInstance, AuraInstanceStatus
<1>2. instance.status.instanceID # None =>
          remote'[instance.status.instanceID].state # "unused"
  BY <1>1, NoneAssumption DEF WorkInv, Known, Onwards
<1>3. \/ instance.status.instanceID = snapshot.status.instanceID
      \/ snapshot.status.instanceID = None
  BY DEF WorkInv, Steps
<1>4. QED
  BY <1>1, <1>2, <1>3, ReturnBinds DEF Fail

LEMMA StartBinds ==
  ASSUME TypeOK, VersionsInv,
         \/ StartNothingToDo \/ StartReadFails
         \/ StartReconcile \/ StartWithoutCredentials
  PROVE  WorkInv'
<1>1. UNCHANGED remote
  BY DEF StartNothingToDo, StartReadFails, StartReconcile, StartWithoutCredentials,
         Start, cloudVars
<1>2. CASE StartNothingToDo \/ StartReadFails
  BY <1>2, FinishBinds DEF StartNothingToDo, StartReadFails
<1>3. CASE StartReconcile
  BY <1>1, <1>3 DEF StartReconcile, Wanted, FirstCall, WorkInv, VersionsInv, Known
<1>4. CASE StartWithoutCredentials
  <2>1. cache \in AuraInstance /\ cache # None
    BY <1>4 DEF StartWithoutCredentials, Wanted, TypeOK, KubernetesTypeOK
  <2>2. instance'.status.instanceID = cache.status.instanceID
    BY <1>4, <2>1, ReviewedDerived DEF StartWithoutCredentials
  <2>3. QED
    BY <1>1, <1>4, <2>1, <2>2 DEF StartWithoutCredentials, WorkInv, VersionsInv, Known
<1>5. QED
  BY <1>2, <1>3, <1>4

LEMMA CheckDriftBinds ==
  ASSUME NEW changed \in AuraInstance, NEW config, NEW data,
         changed.status.instanceID # None =>
             remote'[changed.status.instanceID].state # "unused",
         changed.status.instanceID = snapshot.status.instanceID,
         CheckDrift(changed, config, data)
  PROVE  WorkInv'
<1> DEFINE updating == AuraInstanceReconciling(changed, "True", "UpdatingInstance")
<1>1. CASE Return(changed, FALSE, "none")
  BY <1>1, ReturnBinds
<1>2. CASE Proceed("update", updating)
  <2>1. updating.status.instanceID = changed.status.instanceID
    BY ReconcilingDerived DEF Reasons
  <2> HIDE DEF updating
  <2>2. QED
    BY <1>2, <2>1, ProceedBinds DEF Steps
<1>3. QED
  BY <1>1, <1>2, PanicBinds DEF CheckDrift

LEMMA ExamineBinds ==
  ASSUME TypeOK, WorkInv, UNCHANGED remote, pc = "get", NEW found, NEW data,
         Examine(found, data)
  PROVE  WorkInv'
<1> DEFINE read == [instance EXCEPT !.status.instanceStatus = found.state]
<1> DEFINE cleared == DeleteReconciling(read)
<1> DEFINE creating == AuraInstanceReconciling(read, "True", "InstanceCreating")
<1> DEFINE running == AuraInstanceReady(cleared, "True", "InstanceRunning")
<1> DEFINE notReady == AuraInstanceReady(read, "False", "InstanceNotReady")
<1> DEFINE Same(changed) ==
             /\ changed \in AuraInstance
             /\ changed.status.instanceID = instance.status.instanceID
<1>1. /\ instance \in AuraInstance /\ instance # None
      /\ instance.status.instanceID = snapshot.status.instanceID
      /\ instance.status.instanceID # None =>
             remote'[instance.status.instanceID].state # "unused"
  BY NoneAssumption DEF TypeOK, ControllerTypeOK, WorkInv, Known
<1>2. found.state \in InstanceStatuses
  BY DEF Examine, InstanceStatuses
<1>3. Same(read)
  BY <1>1, <1>2 DEF AuraInstance, AuraInstanceStatus
<1> HIDE DEF read
<1>4. Same(cleared)
  BY <1>3, DeleteReconcilingDerived DEF Derived
<1> HIDE DEF cleared
<1>5. Same(creating) /\ Same(running) /\ Same(notReady)
  BY <1>3, <1>4, ReadyDerived, ReconcilingDerived DEF Derived, Reasons
<1> HIDE DEF creating, running, notReady
<1>6. \/ Return(creating, FALSE, "requeueAfter")
      \/ CheckDrift(running, found.config, data)
      \/ CheckDrift(notReady, found.config, data)
  BY DEF Examine, read, cleared, creating, running, notReady
<1>7. QED
  BY <1>1, <1>5, <1>6, ReturnBinds, CheckDriftBinds

LEMMA GetInstanceBinds ==
  ASSUME TypeOK, WorkInv, GetInstance PROVE WorkInv'
<1> DEFINE id == instance.status.instanceID
<1> DEFINE code == IF Live(id) THEN 200 ELSE 404
<1>1. /\ pc = "get" /\ UNCHANGED remote
      /\ instance \in AuraInstance /\ instance # None /\ id \in InstanceIds /\ id # None
      /\ id = snapshot.status.instanceID
      /\ remote[id].state # "unused"
  BY NoneAssumption DEF GetInstance, cloudVars, TypeOK, ControllerTypeOK, WorkInv, Known
<1>2. PICK reply \in Reply \cup {NoReply} :
          LET response == ParseGetInstanceIdResponse(reply) IN
          /\ Answered(reply, code)
          /\ \/ Fail(instance) \/ Panic
             \/ Missing(response) /\ Proceed("delete", instance)
             \/ Examine(remote[id], response.data)
  BY DEF GetInstance
<1>3. CASE Missing(ParseGetInstanceIdResponse(reply)) /\ Proceed("delete", instance)
  <2>1. reply.code = 404 /\ reply # NoReply
    BY <1>3 DEF Missing, ParseGetInstanceIdResponse, Parse, Failure
  <2>2. code = 404
    BY <1>2, <2>1 DEF Answered, Honest, Troubled
  <2>3. remote[id].state = "gone"
    BY <1>1, <2>2 DEF Live, TypeOK, CloudTypeOK, Remote, States
  <2>4. QED
    BY <1>1, <1>3, <2>3, ProceedBinds DEF Steps
<1>4. CASE Examine(remote[id], ParseGetInstanceIdResponse(reply).data)
  BY <1>1, <1>4, ExamineBinds
<1>5. CASE Fail(instance) \/ Panic
  BY <1>1, <1>5, RemoteKept, FailBinds, PanicBinds DEF Steps
<1>6. QED
  BY <1>2, <1>3, <1>4, <1>5

LEMMA DeleteSecretBinds ==
  ASSUME TypeOK, WorkInv, DeleteSecret PROVE WorkInv'
<1> DEFINE forgotten == [instance EXCEPT !.status.instanceID = None,
                                         !.status.connectionSecret = None]
<1>1. /\ pc = "delete" /\ UNCHANGED remote
      /\ instance \in AuraInstance
      /\ remote[snapshot.status.instanceID].state = "gone"
  BY DEF DeleteSecret, cloudVars, TypeOK, ControllerTypeOK, WorkInv
<1>2. forgotten \in AuraInstance /\ forgotten.status.instanceID = None
  BY <1>1 DEF AuraInstance, AuraInstanceStatus
<1> HIDE DEF forgotten
<1>3. ForgetInstance => WorkInv'
  BY <1>1, <1>2, ReturnBinds DEF ForgetInstance, forgotten
<1>4. QED
  BY <1>1, <1>3, RemoteKept, FailBinds DEF DeleteSecret, Steps

LEMMA UpdateInstanceOnwards ==
  ASSUME TypeOK, UpdateInstance PROVE Onwards /\ FatesKept
<1>1. instance.status.instanceID \in InstanceIds
  BY DEF UpdateInstance, TypeOK, ControllerTypeOK
<1>2. UNCHANGED remote \/ Reconfigure(instance.status.instanceID, instance.spec.config)
  BY DEF UpdateInstance, cloudVars
<1>3. QED
  BY <1>1, <1>2, RemoteKept, ReconfigureOnwards

LEMMA UpdateInstanceBinds ==
  ASSUME TypeOK, WorkInv, UpdateInstance PROVE WorkInv'
<1>1. /\ pc = "update" /\ instance \in AuraInstance /\ instance # None
      /\ instance.status.instanceID \in InstanceIds
      /\ instance.status.instanceID = snapshot.status.instanceID
      /\ instance.status.instanceID # None =>
             remote[instance.status.instanceID].state # "unused"
  BY NoneAssumption DEF UpdateInstance, TypeOK, ControllerTypeOK, WorkInv, Known
<1>2. Onwards
  BY UpdateInstanceOnwards
<1>3. remote'[instance.status.instanceID].state # "unused"
  BY <1>1, <1>2, NoneAssumption DEF Onwards
<1>4. Return(instance, FALSE, "none") => WorkInv'
  BY <1>1, <1>3, ReturnBinds
<1>5. QED
  BY <1>1, <1>2, <1>4, FailBinds DEF UpdateInstance, Steps

LEMMA ListInstancesBinds ==
  ASSUME TypeOK, WorkInv, ListInstances PROVE WorkInv'
<1> DEFINE creating == AuraInstanceReconciling(instance, "True", "CreatingInstance")
<1>1. /\ pc = "list" /\ UNCHANGED remote
      /\ instance \in AuraInstance /\ instance # None
      /\ snapshot.status.instanceID = None
  BY NoneAssumption DEF ListInstances, cloudVars, TypeOK, ControllerTypeOK, WorkInv
<1>2. ASSUME NEW id \in Named,
             Return([instance EXCEPT !.status.instanceID = id], FALSE, "requeue")
      PROVE  WorkInv'
  <2> DEFINE adopted == [instance EXCEPT !.status.instanceID = id]
  <2>1. adopted \in AuraInstance /\ adopted.status.instanceID = id
    BY <1>1 DEF AuraInstance, AuraInstanceStatus, Named
  <2>2. remote'[id].state # "unused"
    BY <1>1 DEF Named, Live
  <2> HIDE DEF adopted
  <2>3. QED
    BY <1>1, <1>2, <2>1, <2>2, ReturnBinds DEF adopted
<1>3. Proceed("post", creating) => WorkInv'
  <2>1. creating.status.instanceID = instance.status.instanceID
    BY <1>1, ReconcilingDerived DEF Reasons
  <2> HIDE DEF creating
  <2>2. QED
    BY <1>1, <2>1, ProceedBinds DEF Steps, WorkInv, Known
<1>4. QED
  BY <1>1, <1>2, <1>3, RemoteKept, FailBinds, PanicBinds DEF ListInstances, Steps

LEMMA PostInstanceBinds ==
  ASSUME TypeOK, WorkInv, PostInstance PROVE WorkInv'
<1> DEFINE created(id) ==
             [instance EXCEPT !.status.instanceID = id,
                              !.status.connectionSecret = connectionSecretName(instance)]
<1>1. /\ pc = "post" /\ instance \in AuraInstance /\ instance # None
      /\ snapshot.status.instanceID = None
  BY NoneAssumption DEF PostInstance, TypeOK, ControllerTypeOK, WorkInv
<1>2. ASSUME NEW id \in InstanceIds, Provision(id, instance.spec.config, FALSE),
             Fail(instance) \/ Panic \/ Proceed("create", created(id))
      PROVE  WorkInv'
  <2>1. /\ Onwards
        /\ remote'[id].state # "unused"
    BY <1>2, ProvisionOnwards
  <2>2. created(id).status.instanceID = id
    BY <1>1 DEF AuraInstance, AuraInstanceStatus
  <2> HIDE DEF created
  <2>3. Proceed("create", created(id)) => WorkInv'
    BY <1>1, <2>1, <2>2, ProceedBinds DEF Steps
  <2>4. QED
    BY <1>1, <1>2, <2>1, <2>3, FailBinds, PanicBinds DEF Steps
<1>3. UNCHANGED remote /\ Fail(instance) => WorkInv'
  BY <1>1, RemoteKept, FailBinds DEF Steps
<1>4. QED
  BY <1>2, <1>3 DEF PostInstance, cloudVars

LEMMA CreateSecretBinds ==
  ASSUME TypeOK, WorkInv, CreateSecret PROVE WorkInv'
<1>1. /\ pc = "create" /\ UNCHANGED remote
      /\ instance \in AuraInstance /\ instance # None
      /\ snapshot.status.instanceID = None
  BY NoneAssumption DEF CreateSecret, cloudVars, TypeOK, ControllerTypeOK, WorkInv
<1>2. Return(instance, FALSE, "requeueAfter") => WorkInv'
  BY <1>1, ReturnBinds DEF WorkInv, Known
<1>3. QED
  BY <1>1, <1>2, RemoteKept, FailBinds DEF CreateSecret, Steps

--------------------------------------------------------------------------------

(***************************************************************************)
(* The versions of the object: every one names what Aura handed out.       *)
(***************************************************************************)
KnownAfter(version) ==
    version # None /\ version.status.instanceID # None =>
        remote'[version.status.instanceID].state # "unused"

LEMMA StaysKnown ==
  ASSUME Onwards, NEW version \in AuraInstance \cup {None}, Known(version)
  PROVE  KnownAfter(version)
<1>1. version # None => version.status.instanceID \in InstanceIds \cup {None}
  BY DEF AuraInstance, AuraInstanceStatus
<1>2. QED
  BY <1>1 DEF Known, KnownAfter, Onwards

LEMMA VersionsKept ==
  ASSUME TypeOK, VersionsInv, Onwards, UNCHANGED <<object, cache, watch>>
  PROVE  VersionsInv'
<1>1. \A k \in 1 .. Len(watch) : watch[k] \in AuraInstance \cup {None}
  BY DEF TypeOK, KubernetesTypeOK
<1>2. /\ KnownAfter(object) /\ KnownAfter(cache)
      /\ \A k \in 1 .. Len(watch) : KnownAfter(watch[k])
  BY <1>1, StaysKnown DEF VersionsInv, TypeOK, KubernetesTypeOK
<1>3. QED
  BY <1>2 DEF VersionsInv, Newest, Known, KnownAfter

LEMMA StoreVersions ==
  ASSUME TypeOK, VersionsInv, Onwards, UNCHANGED cache,
         NEW version \in AuraInstance \cup {None}, KnownAfter(version), Store(version)
  PROVE  VersionsInv'
<1>1. CASE version = object
  BY <1>1, VersionsKept DEF Store
<1>2. CASE version # object
  <2>1. watch \in Seq(AuraInstance \cup {None}) /\ watch' = Append(watch, version)
    BY <1>2 DEF Store, TypeOK, KubernetesTypeOK
  <2>2. /\ Len(watch') = Len(watch) + 1 /\ watch' # <<>>
        /\ watch'[Len(watch')] = version
        /\ \A k \in 1 .. Len(watch) : watch'[k] = watch[k]
    BY <2>1
  <2>3. KnownAfter(cache) /\ \A k \in 1 .. Len(watch) : KnownAfter(watch[k])
    BY <2>1, StaysKnown DEF VersionsInv, TypeOK, KubernetesTypeOK
  <2>4. \A k \in 1 .. Len(watch') : KnownAfter(watch'[k])
    BY <2>1, <2>2, <2>3
  <2>5. QED
    BY <2>2, <2>3, <2>4 DEF Store, VersionsInv, Newest, Known, KnownAfter
<1>3. QED
  BY <1>1, <1>2

LEMMA SyncCacheVersions ==
  ASSUME TypeOK, VersionsInv, UNCHANGED remote, SyncCache PROVE VersionsInv'
<1>1. /\ watch \in Seq(AuraInstance \cup {None}) /\ watch # <<>>
      /\ cache' = watch[1] /\ watch' = Tail(watch) /\ object' = object
  BY DEF SyncCache, TypeOK, KubernetesTypeOK
<1>2. /\ Len(watch) \in Nat \ {0}
      /\ Len(watch') = Len(watch) - 1
      /\ \A k \in 1 .. Len(watch') : watch'[k] = watch[k + 1]
      /\ watch' = <<>> <=> Len(watch) = 1
  BY <1>1
<1>3. \A k \in 1 .. Len(watch') : Known(watch'[k])
  BY <1>1, <1>2 DEF VersionsInv
<1>4. Known(cache') /\ Known(object)
  BY <1>1, <1>2 DEF VersionsInv
<1>5. watch[Len(watch)] = object
  BY <1>1 DEF VersionsInv, Newest
<1>6. Newest' = object
  BY <1>1, <1>2, <1>5 DEF Newest
<1>7. QED
  BY <1>1, <1>3, <1>4, <1>6 DEF VersionsInv, Known

LEMMA PatchedNames ==
  ASSUME TypeOK, pc # "idle", object # None, NEW reworded \in BOOLEAN
  PROVE  Patched(reworded).status.instanceID =
             IF instance.status.instanceID = snapshot.status.instanceID
             THEN object.status.instanceID
             ELSE instance.status.instanceID
<1> DEFINE merged == MergePatch(object.status, snapshot.status, instance.status, reworded)
<1>1. object \in AuraInstance
  BY DEF TypeOK, KubernetesTypeOK
<1>2. Patched(reworded).status = merged
  BY <1>1 DEF Patched, AuraInstance
<1>3. merged.instanceID = IF instance.status.instanceID = snapshot.status.instanceID
                          THEN object.status.instanceID
                          ELSE instance.status.instanceID
  BY DEF MergePatch, Merged
<1> HIDE DEF merged
<1>4. QED
  BY <1>2, <1>3

--------------------------------------------------------------------------------

(***************************************************************************)
(* What does not concern the object leaves its invariants alone.           *)
(***************************************************************************)
LEMMA AsideBinds ==
  ASSUME TypeOK, BindingInv, Onwards, UNCHANGED <<object, cache, watch, pc, snapshot, instance>>
  PROVE  BindingInv'
<1>1. VersionsInv'
  BY VersionsKept DEF BindingInv
<1>2. instance \in AuraInstance \cup {None} /\ KnownAfter(instance)
  BY StaysKnown DEF BindingInv, WorkInv, TypeOK, ControllerTypeOK
<1>3. pc \in {"delete", "patch"} =>
        /\ snapshot.status.instanceID \in InstanceIds \cup {None}
        /\ instance.status.instanceID \in InstanceIds \cup {None}
  BY DEF TypeOK, ControllerTypeOK, AuraInstance, AuraInstanceStatus
<1>4. pc = "delete" => instance.status.instanceID \in InstanceIds
  BY DEF TypeOK, ControllerTypeOK
<1>5. WorkInv'
  BY <1>2, <1>3, <1>4 DEF BindingInv, WorkInv, Known, KnownAfter, Onwards
<1>6. NamedInv'
  BY DEF BindingInv, NamedInv
<1>7. QED
  BY <1>1, <1>5, <1>6 DEF BindingInv

LEMMA ReconcileBinds ==
  ASSUME TypeOK, BindingInv, Reconcile, ~PatchStatus
  PROVE  BindingInv' /\ Onwards /\ UNCHANGED object
<1>1. UNCHANGED <<object, cache, watch>>
  BY DEF Reconcile, Start, StartNothingToDo, StartReadFails, StartReconcile,
         StartWithoutCredentials, GetInstance, DeleteSecret, UpdateInstance,
         ListInstances, PostInstance, CreateSecret, kubernetesVars
<1>2. Onwards
  <2>1. CASE UpdateInstance
    BY <2>1, UpdateInstanceOnwards
  <2>2. CASE PostInstance
    <3>1. UNCHANGED remote
          \/ \E id \in InstanceIds : Provision(id, instance.spec.config, FALSE)
      BY <2>2 DEF PostInstance, cloudVars
    <3>2. QED
      BY <3>1, RemoteKept, ProvisionOnwards
  <2>3. CASE ~UpdateInstance /\ ~PostInstance
    <3>1. UNCHANGED remote
      BY <2>3 DEF Reconcile, Start, StartNothingToDo, StartReadFails, StartReconcile,
                  StartWithoutCredentials, GetInstance, DeleteSecret, ListInstances,
                  CreateSecret, cloudVars
    <3>2. QED
      BY <3>1, RemoteKept
  <2>4. QED
    BY <2>1, <2>2, <2>3
<1>3. VersionsInv'
  BY <1>1, <1>2, VersionsKept DEF BindingInv
<1>4. WorkInv'
  BY StartBinds, GetInstanceBinds, DeleteSecretBinds, UpdateInstanceBinds,
     ListInstancesBinds, PostInstanceBinds, CreateSecretBinds
     DEF Reconcile, BindingInv
<1>5. NamedInv'
  <2>1. CASE StartNothingToDo \/ StartReadFails
    BY <2>1 DEF StartNothingToDo, StartReadFails, Finish, NamedInv
  <2>2. CASE StartReconcile \/ StartWithoutCredentials
    <3>1. MaxLag = 0 => watch = <<>>
      <4>1. Len(watch) <= MaxLag
        BY <2>2 DEF StartReconcile, StartWithoutCredentials, Start
      <4>2. watch \in Seq(AuraInstance \cup {None})
        BY DEF TypeOK, KubernetesTypeOK
      <4>3. QED
        BY <4>1, <4>2
    <3>2. MaxLag = 0 => cache = object
      BY <3>1 DEF BindingInv, VersionsInv, Newest
    <3>3. QED
      BY <1>1, <2>2, <3>2 DEF StartReconcile, StartWithoutCredentials, NamedInv
  <2>3. CASE /\ ~StartNothingToDo /\ ~StartReadFails
             /\ ~StartReconcile /\ ~StartWithoutCredentials
    <3>1. pc # "idle"
      BY <2>3 DEF Reconcile, GetInstance, DeleteSecret, UpdateInstance, ListInstances,
                  PostInstance, CreateSecret
    <3>2. pc' # "idle" => snapshot' = snapshot
      <4>1. ASSUME NEW changed, NEW failed, NEW requeue, Return(changed, failed, requeue)
            PROVE  snapshot' = snapshot
        BY <4>1 DEF Return
      <4>2. ASSUME NEW step, NEW changed, Proceed(step, changed)
            PROVE  snapshot' = snapshot
        BY <4>2 DEF Proceed
      <4>3. ASSUME Panic PROVE pc' = "idle"
        BY <4>3 DEF Panic, Finish
      <4>4. ASSUME NEW changed, NEW config, NEW data, CheckDrift(changed, config, data)
            PROVE  pc' # "idle" => snapshot' = snapshot
        BY <4>1, <4>2, <4>3, <4>4 DEF CheckDrift
      <4>5. ASSUME NEW found, NEW data, Examine(found, data)
            PROVE  pc' # "idle" => snapshot' = snapshot
        BY <4>1, <4>4, <4>5 DEF Examine
      <4>6. CASE GetInstance
        <5>1. \/ Fail(instance) \/ Panic \/ Proceed("delete", instance)
              \/ \E data : Examine(remote[instance.status.instanceID], data)
          BY <4>6 DEF GetInstance
        <5>2. QED
          BY <4>1, <4>2, <4>3, <4>5, <5>1 DEF Fail
      <4>7. CASE DeleteSecret
        BY <4>1, <4>7 DEF DeleteSecret, ForgetInstance, Fail
      <4>8. CASE UpdateInstance
        BY <4>1, <4>8 DEF UpdateInstance, Fail
      <4>9. CASE ListInstances
        BY <4>1, <4>2, <4>3, <4>9 DEF ListInstances, Fail
      <4>10. CASE PostInstance
        BY <4>1, <4>2, <4>3, <4>10 DEF PostInstance, Fail
      <4>11. CASE CreateSecret
        BY <4>1, <4>11 DEF CreateSecret, Fail
      <4>12. QED
        BY <2>3, <4>6, <4>7, <4>8, <4>9, <4>10, <4>11 DEF Reconcile
    <3>3. QED
      BY <1>1, <3>1, <3>2 DEF BindingInv, NamedInv
  <2>4. QED
    BY <2>1, <2>2, <2>3
<1>6. QED
  BY <1>1, <1>2, <1>3, <1>4, <1>5 DEF BindingInv

LEMMA PatchStatusBinds ==
  ASSUME TypeOK, BindingInv, PatchStatus
  PROVE  BindingInv' /\ UNCHANGED remote
<1>1. pc = "patch" /\ UNCHANGED <<remote, cache>> /\ pc' = "idle" /\ instance' = None
  BY DEF PatchStatus, Finish, cloudVars
<1>2. CASE UNCHANGED <<object, watch>>
  BY <1>1, <1>2, RemoteKept, VersionsKept DEF BindingInv, WorkInv, Known, NamedInv
<1>3. ASSUME NEW reworded \in Rewordings, object # None, Store(Patched(reworded))
      PROVE  BindingInv'
  <2>1. reworded \in BOOLEAN
    BY DEF Rewordings
  <2>2. Patched(reworded) \in AuraInstance
    BY <1>1, <1>3, <2>1, PatchedType
  <2>3. Patched(reworded).status.instanceID
          \in {object.status.instanceID, instance.status.instanceID}
    BY <1>1, <1>3, <2>1, PatchedNames
  <2>4. instance # None
    BY <1>1, NoneAssumption DEF TypeOK, ControllerTypeOK
  <2>5. KnownAfter(Patched(reworded))
    BY <1>1, <1>3, <2>3, <2>4 DEF KnownAfter, Known, BindingInv, WorkInv, VersionsInv
  <2>6. VersionsInv'
    BY <1>1, <1>3, <2>2, <2>5, RemoteKept, StoreVersions DEF BindingInv
  <2>7. QED
    BY <1>1, <2>6 DEF BindingInv, WorkInv, Known, NamedInv
<1>4. QED
  BY <1>1, <1>2, <1>3 DEF PatchStatus

LEMMA StoredBinds ==
  ASSUME TypeOK, BindingInv, UNCHANGED <<remote, cache, pc, snapshot, instance>>,
         NEW version \in AuraInstance \cup {None}, Store(version),
         version # None =>
             version.status.instanceID
                 = IF object = None THEN None ELSE object.status.instanceID
  PROVE  BindingInv'
<1>1. KnownAfter(version)
  BY DEF KnownAfter, Known, BindingInv, VersionsInv
<1>2. VersionsInv'
  BY <1>1, RemoteKept, StoreVersions DEF BindingInv
<1>3. WorkInv'
  BY DEF BindingInv, WorkInv, Known
<1>4. NamedInv'
  BY DEF BindingInv, NamedInv, Store
<1>5. QED
  BY <1>2, <1>3, <1>4 DEF BindingInv

LEMMA UserCreatesBinds ==
  ASSUME TypeOK, BindingInv, UserCreates
  PROVE  /\ BindingInv' /\ UNCHANGED remote
         /\ object = None /\ object' # None /\ object'.status.instanceID = None
<1>1. PICK spec \in Specs : CreateAuraInstance(spec)
  BY DEF UserCreates
<1> DEFINE new == [uid |-> uids + 1, generation |-> 1, spec |-> spec,
                   status |-> EmptyStatus]
<1>2. new \in AuraInstance /\ new.status.instanceID = None /\ new # None
  <2>1. uids + 1 \in Nat
    BY DEF TypeOK, KubernetesTypeOK
  <2>2. new \in AuraInstance
    BY <2>1, EmptyStatusType DEF AuraInstance
  <2>3. EmptyStatus.instanceID = None
    BY DEF EmptyStatus
  <2>4. new.status = EmptyStatus
    OBVIOUS
  <2> HIDE DEF new
  <2>5. QED
    BY <2>2, <2>3, <2>4, NoneAssumption
<1>3. Store(new) /\ object = None /\ UNCHANGED cache
  BY <1>1 DEF CreateAuraInstance
<1> HIDE DEF new
<1>4. UNCHANGED <<remote, pc, snapshot, instance>>
  BY DEF UserCreates, cloudVars, workerVars
<1>5. BindingInv'
  BY <1>2, <1>3, <1>4, StoredBinds
<1>6. QED
  BY <1>2, <1>3, <1>4, <1>5 DEF Store

LEMMA UserEditsBinds ==
  ASSUME TypeOK, BindingInv, UserEdits
  PROVE  /\ BindingInv' /\ UNCHANGED remote
         /\ object # None /\ object' # None
         /\ object'.status.instanceID = object.status.instanceID
<1>1. PICK spec \in Specs : EditAuraInstance(spec)
  BY DEF UserEdits
<1> DEFINE new == [object EXCEPT !.spec = spec, !.generation = @ + 1]
<1>2. object \in AuraInstance /\ object # None
  BY <1>1 DEF EditAuraInstance, TypeOK, KubernetesTypeOK
<1>3. new \in AuraInstance /\ new # None /\ new.status = object.status
  <2>1. new = [object EXCEPT !.spec = spec, !.generation = object.generation + 1]
    BY <1>2 DEF AuraInstance
  <2>2. object.generation + 1 \in Nat
    BY <1>2 DEF AuraInstance
  <2> HIDE DEF new
  <2>3. QED
    BY <1>2, <2>1, <2>2, NoneAssumption DEF AuraInstance
<1>4. Store(new) /\ UNCHANGED cache
  BY <1>1 DEF EditAuraInstance
<1> HIDE DEF new
<1>5. UNCHANGED <<remote, pc, snapshot, instance>>
  BY DEF UserEdits, cloudVars, workerVars
<1>6. BindingInv'
  BY <1>2, <1>3, <1>4, <1>5, StoredBinds
<1>7. QED
  BY <1>2, <1>3, <1>4, <1>5, <1>6 DEF Store

LEMMA UserDeletesBinds ==
  ASSUME TypeOK, BindingInv, UserDeletes
  PROVE  /\ BindingInv' /\ UNCHANGED remote
         /\ object # None /\ object' = None
<1>1. Store(None) /\ object # None /\ UNCHANGED <<remote, cache, pc, snapshot, instance>>
  BY DEF UserDeletes, DeleteAuraInstance, cloudVars, workerVars
<1>2. BindingInv'
  BY <1>1, StoredBinds
<1>3. QED
  BY <1>1, <1>2 DEF Store

LEMMA CrashRestartBinds ==
  ASSUME TypeOK, BindingInv, CrashRestart
  PROVE  BindingInv' /\ UNCHANGED <<object, remote>>
<1>1. /\ UNCHANGED <<object, remote>> /\ cache' = object /\ watch' = <<>>
      /\ pc' = "idle" /\ instance' = None
  BY DEF CrashRestart, Relist
<1>2. QED
  BY <1>1 DEF BindingInv, WorkInv, VersionsInv, Newest, NamedInv, Known

LEMMA CacheSyncedBinds ==
  ASSUME TypeOK, BindingInv, CacheSynced
  PROVE  BindingInv' /\ UNCHANGED <<object, remote>>
<1>1. SyncCache /\ UNCHANGED <<object, remote, pc, snapshot, instance>>
  BY DEF CacheSynced, SyncCache, cloudVars
<1>2. VersionsInv'
  BY <1>1, SyncCacheVersions DEF BindingInv
<1>3. WorkInv' /\ NamedInv'
  BY <1>1 DEF BindingInv, WorkInv, NamedInv, Known
<1>4. QED
  BY <1>1, <1>2, <1>3 DEF BindingInv

(***************************************************************************)
(* What Aura and its console do.                                           *)
(***************************************************************************)
LEMMA LateOnwards ==
  ASSUME TypeOK, RequestArrivesLate
  PROVE  /\ Onwards
         /\ \/ FatesKept
            \/ \E id \in InstanceIds :
                   /\ Fate(id) = "unused" /\ Fate(id)' = "late"
                   /\ \A other \in InstanceIds : other # id => Fate(other)' = Fate(other)
<1>1. PICK request \in orphans : ArriveLate(request)
  BY DEF RequestArrivesLate
<1>2. request.id \in InstanceIds \cup {None}
  BY DEF TypeOK, CloudTypeOK, Request
<1>3. ASSUME NEW id \in InstanceIds, Provision(id, request.config, TRUE)
      PROVE  /\ Onwards
             /\ Fate(id) = "unused" /\ Fate(id)' = "late"
             /\ \A other \in InstanceIds : other # id => Fate(other)' = Fate(other)
  BY <1>3, ProvisionOnwards DEF Fate, Live
<1>4. CASE request.id # None /\ Reconfigure(request.id, request.config)
  BY <1>2, <1>4, ReconfigureOnwards
<1>5. CASE UNCHANGED remote
  BY <1>5, RemoteKept
<1>6. QED
  BY <1>1, <1>3, <1>4, <1>5 DEF ArriveLate

LEMMA AuraDisturbedOnwards ==
  ASSUME TypeOK, AuraSettles \/ AuraDisturbed
  PROVE  /\ Onwards
         /\ \/ FatesKept
            \/ \E id \in InstanceIds :
                   /\ Fate(id) \in {"requested", "late"} /\ Fate(id)' = "gone"
                   /\ \A other \in InstanceIds : other # id => Fate(other)' = Fate(other)
<1>1. PICK id \in InstanceIds :
        \/ Settle(id) \/ Occupy(id) \/ \E config \in Configs : Drift(id, config)
        \/ Destroy(id)
  BY DEF AuraSettles, AuraDisturbed
<1>2. CASE Destroy(id)
  BY <1>2, DestroyOnwards
<1>3. CASE Settle(id) \/ Occupy(id) \/ \E config \in Configs : Drift(id, config)
  BY <1>3, ConsoleOnwards
<1>4. QED
  BY <1>1, <1>2, <1>3

LEMMA AuraBinds ==
  ASSUME TypeOK, BindingInv, AuraSettles \/ AuraDisturbed \/ RequestArrivesLate
  PROVE  BindingInv' /\ UNCHANGED object
<1>1. UNCHANGED <<object, cache, watch, pc, snapshot, instance>>
  BY DEF AuraSettles, AuraDisturbed, RequestArrivesLate, kubernetesVars, workerVars
<1>2. QED
  BY <1>1, AsideBinds, LateOnwards, AuraDisturbedOnwards

\* All other steps have nothing to do with instances.
Elsewhere ==
    \/ TimerFires \/ SecretTampered \/ SecretCollected \/ SecretSynced
    \/ CredentialsSynced \/ CredentialsEventDropped \/ UNCHANGED vars

LEMMA ElsewhereBinds ==
  ASSUME TypeOK, BindingInv, Elsewhere
  PROVE  BindingInv' /\ UNCHANGED <<object, remote>>
<1>1. UNCHANGED <<object, cache, watch, pc, snapshot, instance, remote>>
  BY DEF Elsewhere, TimerFires, SecretTampered, SecretCollected, SecretSynced,
         CredentialsSynced, CredentialsEventDropped, PutForeignSecret, RemoveSecret,
         CollectSecret, SyncSecret, SyncCredentials, vars, kubernetesVars, cloudVars,
         workerVars
<1>2. QED
  BY <1>1, RemoteKept, AsideBinds

(***************************************************************************)
(* The invariants hold throughout.                                         *)
(***************************************************************************)
LEMMA Binding == Spec => []BindingInv
<1>1. Init => BindingInv
  BY DEF Init, KubernetesInit, BindingInv, WorkInv, VersionsInv, Newest, NamedInv, Known
<1>2. TypeOK /\ BindingInv /\ [Next]_vars => BindingInv'
  <2> SUFFICES ASSUME TypeOK, BindingInv, [Next]_vars PROVE BindingInv'
    OBVIOUS
  <2>1. CASE Reconcile
    BY <2>1, ReconcileBinds, PatchStatusBinds
  <2>2. CASE CrashRestart
    BY <2>2, CrashRestartBinds
  <2>3. CASE TimerFires \/ Environment \/ UNCHANGED vars
    BY <2>3, UserCreatesBinds, UserEditsBinds, UserDeletesBinds, CacheSyncedBinds,
       AuraBinds, ElsewhereBinds
       DEF Environment, Elsewhere
  <2>4. QED
    BY <2>1, <2>2, <2>3 DEF Next
<1>3. QED
  BY <1>1, <1>2, Typing, PTL DEF Spec

--------------------------------------------------------------------------------

(***************************************************************************)
(* Every step is a step of InstanceProvisioning, or none.                  *)
(***************************************************************************)
Simulated == [Provisioning!Next]_(Provisioning!vars)

LEMMA StutterSimulated ==
  ASSUME FatesKept, UNCHANGED object PROVE Simulated
<1>1. [id \in InstanceIds |-> Fate(id)]' = [id \in InstanceIds |-> Fate(id)]
  BY DEF FatesKept
<1>2. QED
  BY <1>1 DEF Simulated, Provisioning!vars

LEMMA UserSimulated ==
  ASSUME TypeOK, BindingInv, UserCreates \/ UserEdits \/ UserDeletes
  PROVE  Simulated
<1>1. UNCHANGED remote
  BY UserCreatesBinds, UserEditsBinds, UserDeletesBinds
<1>2. [id \in InstanceIds |-> Fate(id)]' = [id \in InstanceIds |-> Fate(id)]
  BY <1>1, RemoteKept DEF FatesKept
<1>3. CASE UserCreates
  <2>1. Provisioning!Create
    BY <1>2, <1>3, UserCreatesBinds DEF Provisioning!Create
  <2>2. QED
    BY <2>1 DEF Simulated, Provisioning!Next
<1>4. CASE UserEdits
  BY <1>2, <1>4, UserEditsBinds DEF Simulated, Provisioning!vars
<1>5. CASE UserDeletes
  <2>1. Provisioning!Delete
    BY <1>2, <1>5, UserDeletesBinds DEF Provisioning!Delete
  <2>2. QED
    BY <2>1 DEF Simulated, Provisioning!Next
<1>6. QED
  BY <1>3, <1>4, <1>5

\* One id's fate changes, and nothing else.
LEMMA FateChanged ==
  ASSUME NEW id \in InstanceIds, NEW fate, Fate(id)' = fate,
         \A other \in InstanceIds : other # id => Fate(other)' = Fate(other)
  PROVE  [i \in InstanceIds |-> Fate(i)]'
             = [[i \in InstanceIds |-> Fate(i)] EXCEPT ![id] = fate]
  OBVIOUS

LEMMA PostSimulated ==
  ASSUME TypeOK, SingleCreationInv, PostInstance PROVE Simulated
<1>1. UNCHANGED object
  BY DEF PostInstance, kubernetesVars
<1>2. CASE UNCHANGED remote
  BY <1>1, <1>2, RemoteKept, StutterSimulated
<1>3. ASSUME NEW id \in InstanceIds, Provision(id, instance.spec.config, FALSE)
      PROVE  Simulated
  <2>1. /\ Fate(id) = "unused" /\ Fate(id)' = "requested"
        /\ \A other \in InstanceIds : other # id => Fate(other)' = Fate(other)
    BY <1>3, ProvisionOnwards DEF Fate, Live
  <2>2. \A other \in InstanceIds : Fate(other) # "requested"
    BY DEF SingleCreationInv, PostInstance, Fate, Live, TypeOK, CloudTypeOK, Remote, States
  <2>3. [i \in InstanceIds |-> Fate(i)]'
            = [[i \in InstanceIds |-> Fate(i)] EXCEPT ![id] = "requested"]
    BY <2>1, FateChanged
  <2>4. Provisioning!Request(id)
    BY <1>1, <2>1, <2>2, <2>3 DEF Provisioning!Request
  <2>5. QED
    BY <2>4 DEF Simulated, Provisioning!Next
<1>4. QED
  BY <1>2, <1>3 DEF PostInstance, cloudVars

LEMMA AuraSimulated ==
  ASSUME TypeOK, AuraSettles \/ AuraDisturbed \/ RequestArrivesLate
  PROVE  Simulated
<1>1. UNCHANGED object
  BY DEF AuraSettles, AuraDisturbed, RequestArrivesLate, kubernetesVars
<1>2. CASE FatesKept
  BY <1>1, <1>2, StutterSimulated
<1>3. ASSUME NEW id \in InstanceIds, Fate(id) = "unused", Fate(id)' = "late",
             \A other \in InstanceIds : other # id => Fate(other)' = Fate(other)
      PROVE  Simulated
  <2>1. Provisioning!ArriveLate(id)
    BY <1>1, <1>3, FateChanged DEF Provisioning!ArriveLate
  <2>2. QED
    BY <2>1 DEF Simulated, Provisioning!Next
<1>4. ASSUME NEW id \in InstanceIds,
             Fate(id) \in {"requested", "late"}, Fate(id)' = "gone",
             \A other \in InstanceIds : other # id => Fate(other)' = Fate(other)
      PROVE  Simulated
  <2>1. Provisioning!Lose(id)
    BY <1>1, <1>4, FateChanged DEF Provisioning!Lose
  <2>2. QED
    BY <2>1 DEF Simulated, Provisioning!Next
<1>5. QED
  BY <1>2, <1>3, <1>4, LateOnwards, AuraDisturbedOnwards

(***************************************************************************)
(* The patch: an id is put in place of another, or of none, only when the  *)
(* reconcile began with the id the object names and found it gone.         *)
(***************************************************************************)
LEMMA PatchSimulated ==
  ASSUME TypeOK, BindingInv, PatchStatus PROVE Simulated
<1>1. pc = "patch" /\ UNCHANGED remote
  BY DEF PatchStatus, cloudVars
<1>2. [id \in InstanceIds |-> Fate(id)]' = [id \in InstanceIds |-> Fate(id)]
  BY <1>1, RemoteKept DEF FatesKept
<1>3. CASE UNCHANGED object
  BY <1>1, <1>3, RemoteKept, StutterSimulated
<1>4. ASSUME NEW reworded \in Rewordings, object # None, Store(Patched(reworded))
      PROVE  Simulated
  <2> DEFINE named == object.status.instanceID
  <2> DEFINE now == instance.status.instanceID
  <2> DEFINE before == snapshot.status.instanceID
  <2>1. reworded \in BOOLEAN
    BY DEF Rewordings
  <2>2. /\ Patched(reworded) \in AuraInstance
        /\ Patched(reworded).status.instanceID = IF now = before THEN named ELSE now
    BY <1>1, <1>4, <2>1, PatchedType, PatchedNames
  <2>3. /\ object' # None
        /\ object'.status.instanceID = IF now = before THEN named ELSE now
    BY <1>4, <2>2, NoneAssumption DEF Store
  <2>4. CASE now = before
    BY <1>2, <1>4, <2>3, <2>4 DEF Simulated, Provisioning!vars
  <2>5. CASE now # before
    <3>1. /\ named \in InstanceIds \cup {None}
          /\ before \in InstanceIds \cup {None}
          /\ now \in InstanceIds \cup {None}
          /\ instance # None
      BY <1>1, <1>4, NoneAssumption
         DEF TypeOK, KubernetesTypeOK, ControllerTypeOK, AuraInstance, AuraInstanceStatus
    <3>2. before = None \/ remote[before].state = "gone"
      BY <1>1, <2>5 DEF BindingInv, WorkInv
    <3>3. MaxLag = 0 => named \in {None, before}
      BY <1>1, <1>4 DEF BindingInv, NamedInv
    <3>4. named = None \/ Fate(named) = "gone" \/ MaxLag # 0
      BY <3>1, <3>2, <3>3 DEF Fate, Live
    <3>5. Provisioning!Free
      BY <1>4, <3>1, <3>4 DEF Provisioning!Free
    <3>6. CASE now = None
      <4>1. Provisioning!Forget
        BY <1>2, <1>4, <2>3, <2>5, <3>5, <3>6 DEF Provisioning!Forget
      <4>2. QED
        BY <4>1 DEF Simulated, Provisioning!Next
    <3>7. CASE now # None
      <4>1. Fate(now) # "unused"
        BY <3>1, <3>7 DEF BindingInv, WorkInv, Known, Fate, Live
      <4>2. Provisioning!Name(now)
        BY <1>2, <1>4, <2>3, <2>5, <3>1, <3>5, <3>7, <4>1 DEF Provisioning!Name
      <4>3. QED
        BY <3>1, <3>7, <4>2 DEF Simulated, Provisioning!Next
    <3>8. QED
      BY <3>6, <3>7
  <2>6. QED
    BY <2>4, <2>5
<1>5. QED
  BY <1>3, <1>4 DEF PatchStatus

LEMMA StepSimulated ==
  ASSUME TypeOK, SingleCreationInv, BindingInv, [Next]_vars PROVE Simulated
<1>1. CASE PatchStatus
  BY <1>1, PatchSimulated
<1>2. CASE PostInstance
  BY <1>2, PostSimulated
<1>3. CASE Reconcile /\ ~PatchStatus /\ ~PostInstance
  <2>1. UNCHANGED object
    BY <1>3, ReconcileBinds
  <2>2. UNCHANGED remote \/ UpdateInstance
    BY <1>3 DEF Reconcile, Start, StartNothingToDo, StartReadFails, StartReconcile,
                StartWithoutCredentials, GetInstance, DeleteSecret, ListInstances,
                CreateSecret, cloudVars
  <2>3. QED
    BY <2>1, <2>2, RemoteKept, UpdateInstanceOnwards, StutterSimulated
<1>4. CASE CrashRestart \/ CacheSynced \/ Elsewhere
  BY <1>4, CrashRestartBinds, CacheSyncedBinds, ElsewhereBinds, RemoteKept, StutterSimulated
<1>5. CASE UserCreates \/ UserEdits \/ UserDeletes
  BY <1>5, UserSimulated
<1>6. CASE AuraSettles \/ AuraDisturbed \/ RequestArrivesLate
  BY <1>6, AuraSimulated
<1>7. QED
  BY <1>1, <1>2, <1>3, <1>4, <1>5, <1>6 DEF Next, Environment, Reconcile, Elsewhere

(***************************************************************************)
(* The controller implements InstanceProvisioning (reconcile, lines        *)
(* 223-374; patchStatus, lines 377-385), whatever the lag of its cache;    *)
(* when it may lag, a reconcile may let go of a live instance, and of      *)
(* nothing else more.                                                      *)
(***************************************************************************)
THEOREM Implements == Spec => ProvidesOneInstance
<1>1. Init => Provisioning!Init
  BY DEF Init, KubernetesInit, CloudInit, Provisioning!Init, Fate, Live
<1>2. TypeOK /\ SingleCreationInv /\ BindingInv /\ [Next]_vars
          => [Provisioning!Next]_(Provisioning!vars)
  BY StepSimulated DEF Simulated
<1>3. QED
  BY <1>1, <1>2, Typing, CreationGuarded, Binding, PTL
     DEF Spec, ProvidesOneInstance, Provisioning!Spec

(***************************************************************************)
(* ... and so never lets go of a live instance when reconciles start from  *)
(* the newest version of the resource (lines 230-255, 315-320, 377-385).   *)
(***************************************************************************)
THEOREM KeepsLiveInstances == MaxLag = 0 => (Spec => BoundWhileLive)
<1> SUFFICES ASSUME MaxLag = 0 PROVE Spec => BoundWhileLive
  OBVIOUS
<1>1. TypeOK /\ SingleCreationInv /\ BindingInv /\ [Next]_vars
          => [\A id \in InstanceIds : LetsGo(id) => ~Live(id)]_vars
  <2> SUFFICES ASSUME TypeOK, SingleCreationInv, BindingInv, [Next]_vars,
                      NEW id \in InstanceIds, LetsGo(id)
               PROVE  ~Live(id)
    OBVIOUS
  <2>1. /\ object # None /\ object' # None
        /\ object.status.instanceID = id /\ object'.status.instanceID # id
    BY DEF LetsGo
  <2>2. [Provisioning!Next]_(Provisioning!vars)
    BY StepSimulated DEF Simulated
  <2>3. Provisioning!Free
    BY <2>1, <2>2
       DEF Provisioning!Next, Provisioning!vars, Provisioning!Create, Provisioning!Delete,
           Provisioning!Forget, Provisioning!Request, Provisioning!ArriveLate,
           Provisioning!Lose, Provisioning!Name
  <2>4. Fate(id) = "gone"
    BY <2>1, <2>3, NoneAssumption DEF Provisioning!Free
  <2>5. QED
    BY <2>4 DEF Fate
<1>2. QED
  BY <1>1, Typing, CreationGuarded, Binding, PTL DEF Spec, BoundWhileLive

================================================================================
