---------------------- MODULE AuraInstanceCredentialsProofs ----------------------
(***************************************************************************)
(* No live instance loses its connection secret to the controller, for all *)
(* ids, users, troubles and bounds, when reconciles start from the newest  *)
(* version of the resource.                                                *)
(*                                                                         *)
(* The controller deletes the secret of a name, whatever instance it is    *)
(* about.  What saves the others is that there are none: as long as no     *)
(* late request made an instance, the id the resource names, and the id a  *)
(* reconcile works with, is the only one that can be alive.                *)
(***************************************************************************)
EXTENDS InstanceProvisioningProofs

OnlyLive(id) == \A other \in InstanceIds : Live(other) => other = id

SoleInv ==
    /\ pc \in {"list", "post"} => instance.status.instanceID = None
    /\ NoneLate /\ object # None /\ object.status.instanceID # None =>
           OnlyLive(object.status.instanceID)
    /\ NoneLate /\ pc # "idle" /\ instance.status.instanceID # None =>
           OnlyLive(instance.status.instanceID)

\* No instance comes alive, unless by a late request.
NoMore ==
    NoneLate' => NoneLate /\ \A id \in InstanceIds : Live(id)' => Live(id)

\* The object names what it named, or nothing.
ObjectNamesKept ==
    object' # None /\ object'.status.instanceID # None =>
        object # None /\ object'.status.instanceID = object.status.instanceID

\* So does the copy the reconcile at work changes.
CopyNamesKept ==
    pc' # "idle" =>
        /\ pc # "idle"
        /\ instance'.status.instanceID \in {None, instance.status.instanceID}
        /\ pc' \notin {"list", "post"}

--------------------------------------------------------------------------------

(***************************************************************************)
(* What happens to the instances.                                          *)
(***************************************************************************)
LEMMA RemoteNoMore ==
  ASSUME UNCHANGED remote PROVE NoMore
  BY DEF NoMore, NoneLate, Live

LEMMA ReconfigureNoMore ==
  ASSUME TypeOK, NEW id \in InstanceIds, NEW config, Reconfigure(id, config)
  PROVE  NoMore
<1>1. PICK state \in {"running", "busy"} :
        remote' = [remote EXCEPT ![id].config = config, ![id].state = state]
  BY DEF Reconfigure
<1>2. remote \in [InstanceIds -> Remote] /\ remote[id].state = "running"
  BY DEF TypeOK, CloudTypeOK, Reconfigure
<1>3. ASSUME NEW other \in InstanceIds
      PROVE  remote'[other].late = remote[other].late /\ (Live(other)' => Live(other))
  BY <1>1, <1>2, <1>3 DEF Live, Remote
<1>4. QED
  BY <1>3 DEF NoMore, NoneLate

LEMMA UpdateNoMore ==
  ASSUME TypeOK, UpdateInstance PROVE NoMore
<1>1. instance.status.instanceID \in InstanceIds
  BY DEF UpdateInstance, TypeOK, ControllerTypeOK
<1>2. UNCHANGED remote \/ Reconfigure(instance.status.instanceID, instance.spec.config)
  BY DEF UpdateInstance, cloudVars
<1>3. QED
  BY <1>1, <1>2, RemoteNoMore, ReconfigureNoMore

LEMMA AuraNoMore ==
  ASSUME TypeOK, AuraSettles \/ AuraDisturbed \/ RequestArrivesLate
  PROVE  NoMore
<1>1. ASSUME NEW id \in InstanceIds,
             \/ Settle(id) \/ Occupy(id) \/ Destroy(id)
             \/ \E config \in Configs : Drift(id, config)
      PROVE  NoMore
  <2>1. ASSUME NEW other \in InstanceIds
        PROVE  remote'[other].late = remote[other].late /\ (Live(other)' => Live(other))
    BY <1>1, <2>1 DEF Settle, Occupy, Destroy, Drift, Live, TypeOK, CloudTypeOK, Remote
  <2>2. QED
    BY <2>1 DEF NoMore, NoneLate
<1>2. ASSUME NEW request \in orphans, ArriveLate(request)
      PROVE  NoMore
  <2>1. request.id \in InstanceIds \cup {None}
    BY <1>2 DEF TypeOK, CloudTypeOK, Request
  <2>2. ASSUME NEW id \in InstanceIds, Provision(id, request.config, TRUE)
        PROVE  NoMore
    BY <2>2, ProvisionOnwards DEF NoMore, NoneLate
  <2>3. QED
    BY <1>2, <2>1, <2>2, RemoteNoMore, ReconfigureNoMore DEF ArriveLate
<1>3. QED
  BY <1>1, <1>2 DEF AuraSettles, AuraDisturbed, RequestArrivesLate

--------------------------------------------------------------------------------

(***************************************************************************)
(* When nothing comes alive, names that are kept stay the only live ones.  *)
(***************************************************************************)
LEMMA SoleKept ==
  ASSUME SoleInv, NoMore, ObjectNamesKept,
         CopyNamesKept \/ UNCHANGED <<pc, instance>>
  PROVE  SoleInv'
<1>1. ASSUME NoneLate' PROVE \A id \in InstanceIds : Live(id)' => Live(id)
  BY <1>1 DEF NoMore
<1>2. ASSUME NoneLate', object' # None, object'.status.instanceID # None
      PROVE  OnlyLive(object.status.instanceID)
  BY <1>2 DEF SoleInv, NoMore, ObjectNamesKept
<1>3. ASSUME NoneLate', pc' # "idle", instance'.status.instanceID # None
      PROVE  /\ instance'.status.instanceID = instance.status.instanceID
             /\ OnlyLive(instance.status.instanceID)
  BY <1>3 DEF SoleInv, NoMore, CopyNamesKept
<1>4. pc' \in {"list", "post"} => instance'.status.instanceID = None
  BY DEF SoleInv, CopyNamesKept
<1>5. QED
  BY <1>1, <1>2, <1>3, <1>4 DEF SoleInv, OnlyLive, ObjectNamesKept

(***************************************************************************)
(* Reconcile, call by call.                                                *)
(***************************************************************************)
LEMMA ReturnNames ==
  ASSUME NEW changed \in AuraInstance, NEW failed \in BOOLEAN, NEW requeue,
         Return(changed, failed, requeue)
  PROVE  pc' = "patch" /\ instance'.status.instanceID = changed.status.instanceID
  BY ReviewedDerived DEF Return

LEMMA FailNames ==
  ASSUME TypeOK, pc # "idle", Fail(instance)
  PROVE  pc' = "patch" /\ instance'.status.instanceID = instance.status.instanceID
  BY ReturnNames DEF Fail, TypeOK, ControllerTypeOK

LEMMA PanicNames == ASSUME Panic PROVE pc' = "idle"
  BY DEF Panic, Finish

LEMMA CheckDriftNames ==
  ASSUME pc # "idle", NEW changed \in AuraInstance, NEW config, NEW data,
         changed.status.instanceID = instance.status.instanceID,
         CheckDrift(changed, config, data)
  PROVE  CopyNamesKept
<1> DEFINE updating == AuraInstanceReconciling(changed, "True", "UpdatingInstance")
<1>1. CASE Return(changed, FALSE, "none")
  BY <1>1, ReturnNames DEF CopyNamesKept
<1>2. CASE Proceed("update", updating)
  <2>1. updating.status.instanceID = changed.status.instanceID
    BY ReconcilingDerived DEF Reasons
  <2> HIDE DEF updating
  <2>2. QED
    BY <1>2, <2>1 DEF Proceed, CopyNamesKept
<1>3. QED
  BY <1>1, <1>2, PanicNames DEF CheckDrift, CopyNamesKept

LEMMA ExamineNames ==
  ASSUME TypeOK, pc = "get", NEW found, NEW data, Examine(found, data)
  PROVE  CopyNamesKept
<1> DEFINE read == [instance EXCEPT !.status.instanceStatus = found.state]
<1> DEFINE cleared == DeleteReconciling(read)
<1> DEFINE creating == AuraInstanceReconciling(read, "True", "InstanceCreating")
<1> DEFINE running == AuraInstanceReady(cleared, "True", "InstanceRunning")
<1> DEFINE notReady == AuraInstanceReady(read, "False", "InstanceNotReady")
<1> DEFINE Same(changed) ==
             /\ changed \in AuraInstance
             /\ changed.status.instanceID = instance.status.instanceID
<1>1. instance \in AuraInstance
  BY DEF TypeOK, ControllerTypeOK
<1>2. found.state \in InstanceStatuses
  BY DEF Examine, InstanceStatuses
<1>3. Same(read)
  BY <1>1, <1>2 DEF AuraInstance, AuraInstanceStatus
<1> HIDE DEF read
<1>4. Same(cleared)
  BY <1>3, DeleteReconcilingDerived DEF Derived
<1> HIDE DEF cleared
<1>5. Same(creating) /\ Same(running) /\ Same(notReady)
  BY <1>3, <1>4, ReadyDerived, ReconcilingDerived DEF Derived, Reasons
<1> HIDE DEF creating, running, notReady
<1>6. \/ Return(creating, FALSE, "requeueAfter")
      \/ CheckDrift(running, found.config, data)
      \/ CheckDrift(notReady, found.config, data)
  BY DEF Examine, read, cleared, creating, running, notReady
<1>7. Return(creating, FALSE, "requeueAfter") => CopyNamesKept
  BY <1>5, ReturnNames DEF CopyNamesKept
<1>8. QED
  BY <1>5, <1>6, <1>7, CheckDriftNames

LEMMA GetInstanceNames ==
  ASSUME TypeOK, GetInstance PROVE CopyNamesKept
<1>1. pc = "get"
  BY DEF GetInstance
<1>2. \/ Fail(instance) \/ Panic \/ Proceed("delete", instance)
      \/ \E data : Examine(remote[instance.status.instanceID], data)
  BY DEF GetInstance
<1>3. Proceed("delete", instance) => CopyNamesKept
  BY <1>1 DEF Proceed, CopyNamesKept
<1>4. Fail(instance) => CopyNamesKept
  BY <1>1, FailNames DEF CopyNamesKept
<1>5. Panic => CopyNamesKept
  BY PanicNames DEF CopyNamesKept
<1>6. QED
  BY <1>1, <1>2, <1>3, <1>4, <1>5, ExamineNames

LEMMA DeleteSecretNames ==
  ASSUME TypeOK, DeleteSecret PROVE CopyNamesKept
<1> DEFINE forgotten == [instance EXCEPT !.status.instanceID = None,
                                         !.status.connectionSecret = None]
<1>1. pc = "delete" /\ instance \in AuraInstance
  BY DEF DeleteSecret, TypeOK, ControllerTypeOK
<1>2. forgotten \in AuraInstance /\ forgotten.status.instanceID = None
  BY <1>1 DEF AuraInstance, AuraInstanceStatus
<1> HIDE DEF forgotten
<1>3. ForgetInstance => CopyNamesKept
  BY <1>1, <1>2, ReturnNames DEF ForgetInstance, forgotten, CopyNamesKept
<1>4. QED
  BY <1>1, <1>3, FailNames DEF DeleteSecret, CopyNamesKept

LEMMA UpdateInstanceNames ==
  ASSUME TypeOK, UpdateInstance PROVE CopyNamesKept
<1>1. pc = "update" /\ instance \in AuraInstance
  BY DEF UpdateInstance, TypeOK, ControllerTypeOK
<1>2. Return(instance, FALSE, "none") => CopyNamesKept
  BY <1>1, ReturnNames DEF CopyNamesKept
<1>3. QED
  BY <1>1, <1>2, FailNames DEF UpdateInstance, CopyNamesKept

LEMMA CreateSecretNames ==
  ASSUME TypeOK, CreateSecret PROVE CopyNamesKept
<1>1. pc = "create" /\ instance \in AuraInstance
  BY DEF CreateSecret, TypeOK, ControllerTypeOK
<1>2. Return(instance, FALSE, "requeueAfter") => CopyNamesKept
  BY <1>1, ReturnNames DEF CopyNamesKept
<1>3. QED
  BY <1>1, <1>2, FailNames DEF CreateSecret, CopyNamesKept

(***************************************************************************)
(* A reconcile starts from the object itself, when the cache never lags.   *)
(***************************************************************************)
LEMMA StartSole ==
  ASSUME MaxLag = 0, TypeOK, VersionsInv, SoleInv,
         \/ StartNothingToDo \/ StartReadFails
         \/ StartReconcile \/ StartWithoutCredentials
  PROVE  SoleInv'
<1>1. UNCHANGED <<object, remote>> /\ Len(watch) <= MaxLag
  BY DEF StartNothingToDo, StartReadFails, StartReconcile, StartWithoutCredentials,
         Start, cloudVars, kubernetesVars
<1>2. NoMore /\ ObjectNamesKept
  BY <1>1, RemoteNoMore DEF ObjectNamesKept
<1>3. CASE StartNothingToDo \/ StartReadFails
  BY <1>2, <1>3, SoleKept DEF StartNothingToDo, StartReadFails, Finish, CopyNamesKept
<1>4. CASE StartReconcile \/ StartWithoutCredentials
  <2>1. watch \in Seq(AuraInstance \cup {None})
    BY DEF TypeOK, KubernetesTypeOK
  <2>2. watch = <<>>
    BY <1>1, <2>1
  <2>3. cache = object
    BY <2>2 DEF VersionsInv, Newest
  <2>4. cache \in AuraInstance /\ cache # None
    BY <1>4 DEF StartReconcile, StartWithoutCredentials, Wanted, TypeOK, KubernetesTypeOK
  <2>5. instance'.status.instanceID = cache.status.instanceID
    BY <1>4, <2>4, ReviewedDerived DEF StartReconcile, StartWithoutCredentials
  <2>6. pc' \notin {"list", "post"} \/ cache.status.instanceID = None
    BY <1>4 DEF StartReconcile, StartWithoutCredentials, FirstCall
  <2>7. QED
    BY <1>1, <2>3, <2>4, <2>5, <2>6 DEF SoleInv, OnlyLive, NoneLate, Live
<1>5. QED
  BY <1>3, <1>4

(***************************************************************************)
(* What a list names is all there is, and what is created is the first.    *)
(***************************************************************************)
LEMMA ListInstancesSole ==
  ASSUME TypeOK, SingleCreation, SoleInv, ListInstances PROVE SoleInv'
<1> DEFINE creating == AuraInstanceReconciling(instance, "True", "CreatingInstance")
<1>1. /\ pc = "list" /\ UNCHANGED <<object, remote>>
      /\ instance \in AuraInstance
      /\ instance.status.instanceID = None
  BY DEF ListInstances, cloudVars, kubernetesVars, TypeOK, ControllerTypeOK, SoleInv
<1>2. NoMore /\ ObjectNamesKept
  BY <1>1, RemoteNoMore DEF ObjectNamesKept
<1>3. ASSUME NEW id \in Named,
             Return([instance EXCEPT !.status.instanceID = id], FALSE, "requeue")
      PROVE  SoleInv'
  <2> DEFINE adopted == [instance EXCEPT !.status.instanceID = id]
  <2>1. adopted \in AuraInstance /\ adopted.status.instanceID = id
    BY <1>1 DEF AuraInstance, AuraInstanceStatus, Named
  <2> HIDE DEF adopted
  <2>2. pc' = "patch" /\ instance'.status.instanceID = id
    BY <1>3, <2>1, ReturnNames DEF adopted
  <2>3. NoneLate => OnlyLive(id)
    BY <1>3 DEF NoneLate, OnlyLive, SingleCreation, Named
  <2>4. QED
    BY <1>1, <2>2, <2>3 DEF SoleInv, OnlyLive, NoneLate, Live
<1>4. ASSUME Proceed("post", creating) PROVE SoleInv'
  <2>1. creating.status.instanceID = None
    BY <1>1, ReconcilingDerived DEF Reasons
  <2> HIDE DEF creating
  <2>2. pc' = "post" /\ instance'.status.instanceID = None
    BY <1>4, <2>1 DEF Proceed
  <2>3. QED
    BY <1>1, <2>2 DEF SoleInv, OnlyLive, NoneLate, Live
<1>5. Fail(instance) \/ Panic => CopyNamesKept
  BY <1>1, FailNames, PanicNames DEF CopyNamesKept
<1>6. QED
  BY <1>2, <1>3, <1>4, <1>5, SoleKept DEF ListInstances

LEMMA PostInstanceSole ==
  ASSUME MaxLag = 0, TypeOK, SingleCreationInv, WorkInv, NamedInv, SoleInv, PostInstance
  PROVE  SoleInv'
<1> DEFINE created(id) ==
             [instance EXCEPT !.status.instanceID = id,
                              !.status.connectionSecret = connectionSecretName(instance)]
<1>1. /\ pc = "post" /\ UNCHANGED object
      /\ instance \in AuraInstance
      /\ instance.status.instanceID = None
      /\ object # None => object.status.instanceID = None
  BY DEF PostInstance, kubernetesVars, TypeOK, ControllerTypeOK, SoleInv, WorkInv, NamedInv
<1>2. Fail(instance) \/ Panic => CopyNamesKept
  BY <1>1, FailNames, PanicNames DEF CopyNamesKept
<1>3. ASSUME NEW id \in InstanceIds, Provision(id, instance.spec.config, FALSE)
      PROVE  NoneLate' => OnlyLive(id)'
  <2>1. \A other \in InstanceIds : Live(other) => remote[other].late
    BY <1>1 DEF SingleCreationInv
  <2>2. \A other \in InstanceIds : other # id => remote'[other] = remote[other]
    BY <1>3, ProvisionOnwards
  <2>3. QED
    BY <2>1, <2>2 DEF NoneLate, OnlyLive, Live
<1>4. ASSUME NEW id \in InstanceIds, Provision(id, instance.spec.config, FALSE),
             Proceed("create", created(id))
      PROVE  SoleInv'
  <2>1. created(id).status.instanceID = id
    BY <1>1 DEF AuraInstance, AuraInstanceStatus
  <2> HIDE DEF created
  <2>2. pc' = "create" /\ instance'.status.instanceID = id
    BY <1>4, <2>1 DEF Proceed
  <2>3. QED
    BY <1>1, <1>3, <1>4, <2>2 DEF SoleInv
<1>5. ASSUME CopyNamesKept PROVE SoleInv'
  BY <1>1, <1>5 DEF SoleInv, CopyNamesKept
<1>6. QED
  BY <1>2, <1>4, <1>5 DEF PostInstance

LEMMA ReconcileSole ==
  ASSUME MaxLag = 0, TypeOK, SingleCreationInv, BindingInv, SoleInv,
         Reconcile, ~PatchStatus
  PROVE  SoleInv'
<1>1. CASE GetInstance \/ DeleteSecret \/ UpdateInstance \/ CreateSecret
  <2>1. UNCHANGED object
    BY <1>1 DEF GetInstance, DeleteSecret, UpdateInstance, CreateSecret, kubernetesVars
  <2>2. NoMore
    BY <1>1, RemoteNoMore, UpdateNoMore
       DEF GetInstance, DeleteSecret, CreateSecret, cloudVars
  <2>3. CopyNamesKept
    BY <1>1, GetInstanceNames, DeleteSecretNames, UpdateInstanceNames, CreateSecretNames
  <2>4. QED
    BY <2>1, <2>2, <2>3, SoleKept DEF ObjectNamesKept
<1>2. QED
  BY <1>1, StartSole, ListInstancesSole, PostInstanceSole
     DEF Reconcile, BindingInv, SingleCreationInv

(***************************************************************************)
(* The patch stores the id the object names, or the one the reconcile      *)
(* worked with.                                                            *)
(***************************************************************************)
LEMMA PatchStatusSole ==
  ASSUME TypeOK, SoleInv, PatchStatus PROVE SoleInv'
<1>1. pc = "patch" /\ pc' = "idle" /\ UNCHANGED remote
  BY DEF PatchStatus, Finish, cloudVars
<1>2. NoMore /\ CopyNamesKept
  BY <1>1, RemoteNoMore DEF CopyNamesKept
<1>3. CASE UNCHANGED object
  BY <1>2, <1>3, SoleKept DEF ObjectNamesKept
<1>4. ASSUME NEW reworded \in Rewordings, object # None, Store(Patched(reworded))
      PROVE  SoleInv'
  <2>1. reworded \in BOOLEAN
    BY DEF Rewordings
  <2>2. object'.status.instanceID
          \in {object.status.instanceID, instance.status.instanceID}
    BY <1>1, <1>4, <2>1, PatchedNames DEF Store
  <2>3. QED
    BY <1>1, <1>4, <2>2 DEF SoleInv, OnlyLive, NoneLate, Live
<1>5. QED
  BY <1>3, <1>4 DEF PatchStatus

LEMMA AroundSole ==
  ASSUME TypeOK, BindingInv, SoleInv,
         TimerFires \/ CrashRestart \/ Environment \/ UNCHANGED vars
  PROVE  SoleInv'
<1>1. CASE UserCreates \/ UserEdits \/ UserDeletes
  <2>1. NoMore /\ ObjectNamesKept
    BY <1>1, RemoteNoMore, UserCreatesBinds, UserEditsBinds, UserDeletesBinds
       DEF ObjectNamesKept
  <2>2. UNCHANGED <<pc, instance>>
    BY <1>1 DEF UserCreates, UserEdits, UserDeletes, workerVars
  <2>3. QED
    BY <2>1, <2>2, SoleKept
<1>2. CASE CrashRestart
  <2>1. NoMore /\ ObjectNamesKept
    BY <1>2, RemoteNoMore, CrashRestartBinds DEF ObjectNamesKept
  <2>2. CopyNamesKept
    BY <1>2 DEF CrashRestart, CopyNamesKept
  <2>3. QED
    BY <2>1, <2>2, SoleKept
<1>3. CASE AuraSettles \/ AuraDisturbed \/ RequestArrivesLate
  <2>1. UNCHANGED <<object, pc, instance>>
    BY <1>3 DEF AuraSettles, AuraDisturbed, RequestArrivesLate, kubernetesVars, workerVars
  <2>2. QED
    BY <1>3, <2>1, AuraNoMore, SoleKept DEF ObjectNamesKept
<1>4. CASE CacheSynced \/ Elsewhere
  <2>1. NoMore /\ ObjectNamesKept
    BY <1>4, RemoteNoMore, CacheSyncedBinds, ElsewhereBinds DEF ObjectNamesKept
  <2>2. UNCHANGED <<pc, instance>>
    BY <1>4 DEF CacheSynced, Elsewhere, TimerFires, SecretTampered, SecretCollected,
                SecretSynced, CredentialsSynced, CredentialsEventDropped, vars, workerVars
  <2>3. QED
    BY <2>1, <2>2, SoleKept
<1>5. QED
  BY <1>1, <1>2, <1>3, <1>4 DEF Environment, Elsewhere

LEMMA Sole == MaxLag = 0 => (Spec => []SoleInv)
<1> SUFFICES ASSUME MaxLag = 0 PROVE Spec => []SoleInv
  OBVIOUS
<1>1. Init => SoleInv
  BY DEF Init, KubernetesInit, SoleInv
<1>2. TypeOK /\ SingleCreationInv /\ BindingInv /\ SoleInv /\ [Next]_vars => SoleInv'
  BY ReconcileSole, PatchStatusSole, AroundSole DEF Next
<1>3. QED
  BY <1>1, <1>2, Typing, CreationGuarded, Binding, PTL DEF Spec

--------------------------------------------------------------------------------

(***************************************************************************)
(* The secret that is deleted on a 404 holds the details of no live        *)
(* instance (reconcile, lines 230-249).                                    *)
(***************************************************************************)
THEOREM KeepsLiveCredentials == MaxLag = 0 => (Spec => LiveCredentialsKept)
<1> SUFFICES ASSUME MaxLag = 0 PROVE Spec => LiveCredentialsKept
  OBVIOUS
<1> DEFINE Kept ==
      DeleteSecret =>
          \A name \in SecretNames :
              LET secret == secrets[name] IN
              secrets'[name] # secret /\ secret.instance # None /\ NoneLate =>
                  ~Live(secret.instance)
<1>1. TypeOK /\ BindingInv /\ SoleInv => Kept
  <2> SUFFICES ASSUME TypeOK, BindingInv, SoleInv, DeleteSecret, NEW name \in SecretNames,
                      secrets'[name] # secrets[name],
                      secrets[name].instance # None, NoneLate
               PROVE  ~Live(secrets[name].instance)
    OBVIOUS
  <2> DEFINE id == instance.status.instanceID
  <2>1. /\ pc = "delete" /\ id \in InstanceIds /\ id # None
        /\ remote[id].state = "gone"
    BY NoneAssumption
       DEF DeleteSecret, TypeOK, ControllerTypeOK, BindingInv, WorkInv
  <2>2. OnlyLive(id) /\ ~Live(id)
    BY <2>1 DEF SoleInv, Live
  <2>3. secrets[name] # None
    <3>1. secrets' \in {secrets, [secrets EXCEPT ![connectionSecretName(instance)] = None]}
      BY DEF DeleteSecret
    <3>2. secrets \in [SecretNames -> Secret \cup {None}]
      BY DEF TypeOK, KubernetesTypeOK
    <3>3. QED
      BY <3>1, <3>2
  <2>4. secrets[name].instance \in InstanceIds
    BY <2>3 DEF TypeOK, KubernetesTypeOK, Secret
  <2>5. QED
    BY <2>2, <2>4 DEF OnlyLive
<1>2. TypeOK /\ BindingInv /\ SoleInv /\ [Next]_vars => [Kept]_vars
  BY <1>1
<1>3. QED
  BY <1>2, Typing, Binding, Sole, PTL DEF Spec, LiveCredentialsKept

================================================================================
