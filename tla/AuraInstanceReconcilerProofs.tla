----------------------- MODULE AuraInstanceReconcilerProofs -----------------------
(***************************************************************************)
(* Theorems about AuraInstanceReconciler, for all ids, configurations,     *)
(* secrets, troubles, lags and bounds.                                     *)
(***************************************************************************)
EXTENDS AuraInstanceProperties, AuraInstanceTypesProofs

(***************************************************************************)
(* The ways out of reconcile keep the controller well typed.                   *)
(***************************************************************************)
LEMMA ReviewedDerived ==
  ASSUME NEW changed \in AuraInstance, NEW failed \in BOOLEAN
  PROVE  /\ Derived(Reviewed(changed, failed), changed)
         /\ Reviewed(changed, failed).status.instanceID = changed.status.instanceID
         /\ Reviewed(changed, failed).status.observedGeneration = changed.generation
<1> DEFINE failure == AuraInstanceReady(changed, "False", "ReconciliationFailed")
<1>1. changed.generation \in Nat
  BY DEF AuraInstance
<1>2. Derived(failure, changed) /\ failure.status.instanceID = changed.status.instanceID
  BY ReadyDerived DEF Reasons
<1>3. CASE failed
  <2>1. Reviewed(changed, failed) =
          [failure EXCEPT !.status.observedGeneration = changed.generation]
    BY <1>3 DEF Reviewed
  <2> HIDE DEF failure
  <2>2. QED
    BY <1>1, <1>2, <2>1, ObservedDerived DEF Derived
<1>4. CASE ~failed
  <2>1. Reviewed(changed, failed) =
          [changed EXCEPT !.status.observedGeneration = changed.generation]
    BY <1>4 DEF Reviewed
  <2>2. QED
    BY <1>1, <2>1, ObservedDerived
<1>5. QED
  BY <1>3, <1>4

LEMMA ReturnType ==
  ASSUME TypeOK, pc # "idle",
         NEW changed \in AuraInstance, NEW failed \in BOOLEAN, NEW requeue \in Results,
         Return(changed, failed, requeue)
  PROVE  ControllerTypeOK'
<1>1. Reviewed(changed, failed) \in AuraInstance
  BY ReviewedDerived DEF Derived
<1>2. QED
  BY <1>1 DEF TypeOK, ControllerTypeOK, Return, Steps, queueVars

LEMMA ProceedType ==
  ASSUME TypeOK, pc # "idle",
         NEW step \in Steps \ {"idle"}, NEW changed \in AuraInstance,
         step \in {"get", "delete", "update", "create"} =>
             changed.status.instanceID \in InstanceIds,
         Proceed(step, changed)
  PROVE  ControllerTypeOK'
  BY DEF TypeOK, ControllerTypeOK, Proceed, Steps, queueVars

LEMMA FinishType ==
  ASSUME TypeOK, NEW again \in BOOLEAN, Finish(again), queued' \in BOOLEAN
  PROVE  ControllerTypeOK'
<1>1. timer' \in BOOLEAN
  BY DEF Finish, TypeOK, ControllerTypeOK
<1>2. QED
  BY <1>1 DEF ControllerTypeOK, Finish, Steps, Results

LEMMA PanicType ==
  ASSUME TypeOK, Panic PROVE ControllerTypeOK'
<1>1. Finish(TRUE) /\ queued' \in BOOLEAN
  BY DEF Panic, TypeOK, ControllerTypeOK
<1>2. QED
  BY <1>1, FinishType

LEMMA DisturbType ==
  ASSUME TypeOK
  PROVE  /\ \A kind : Disturb(kind) => disturbances' \in Nat
         /\ Calm => disturbances' \in Nat
  BY DEF TypeOK, Disturb, Calm

LEMMA AnsweredType ==
  ASSUME TypeOK, NEW reply, NEW code, Answered(reply, code)
  PROVE  disturbances' \in Nat
  BY DEF TypeOK, Disturb, Calm, Answered

(***************************************************************************)
(* What a step leaves alone stays well typed.                              *)
(***************************************************************************)
LEMMA KubernetesUnchanged ==
  ASSUME TypeOK, UNCHANGED kubernetesVars PROVE KubernetesTypeOK'
  BY DEF TypeOK, KubernetesTypeOK, kubernetesVars

LEMMA CloudUnchanged ==
  ASSUME TypeOK, UNCHANGED cloudVars PROVE CloudTypeOK'
  BY DEF TypeOK, CloudTypeOK, cloudVars

LEMMA ControllerUnchanged ==
  ASSUME TypeOK, UNCHANGED workerVars, queued' \in BOOLEAN, timer' \in BOOLEAN
  PROVE  ControllerTypeOK'
  BY DEF TypeOK, ControllerTypeOK, workerVars

--------------------------------------------------------------------------------

(***************************************************************************)
(* One lemma per action of Reconcile.                                      *)
(***************************************************************************)
LEMMA StartType ==
  ASSUME TypeOK,
         \/ StartNothingToDo \/ StartReadFails
         \/ StartReconcile \/ StartWithoutCredentials
  PROVE  TypeOK'
<1>1. Start /\ KubernetesTypeOK' /\ CloudTypeOK' /\ queued' \in BOOLEAN
  BY KubernetesUnchanged, CloudUnchanged
     DEF Start, StartNothingToDo, StartReadFails, StartReconcile, StartWithoutCredentials
<1>2. disturbances' \in Nat
  BY DisturbType
     DEF StartNothingToDo, StartReadFails, StartReconcile, StartWithoutCredentials
<1>3. ASSUME NEW again \in BOOLEAN, Finish(again)
      PROVE  TypeOK'
  BY <1>1, <1>2, <1>3, FinishType DEF TypeOK
<1>4. CASE StartReconcile
  <2>1. cache \in AuraInstance /\ cache.status.instanceID \in InstanceIds \cup {None}
    BY <1>4 DEF StartReconcile, Wanted, TypeOK, KubernetesTypeOK, AuraInstance,
                AuraInstanceStatus
  <2>2. ControllerTypeOK'
    BY <1>1, <1>4, <2>1 DEF StartReconcile, FirstCall, TypeOK, ControllerTypeOK, Steps
  <2>3. QED
    BY <1>1, <1>2, <2>2 DEF TypeOK
<1>5. CASE StartWithoutCredentials
  <2>1. cache \in AuraInstance
    BY <1>5 DEF StartWithoutCredentials, Wanted, TypeOK, KubernetesTypeOK
  <2>2. Reviewed(cache, TRUE) \in AuraInstance
    BY <2>1, ReviewedDerived DEF Derived
  <2>3. ControllerTypeOK'
    BY <1>1, <1>5, <2>1, <2>2 DEF StartWithoutCredentials, TypeOK, ControllerTypeOK, Steps
  <2>4. QED
    BY <1>1, <1>2, <2>3 DEF TypeOK
<1>6. QED
  BY <1>3, <1>4, <1>5 DEF StartNothingToDo, StartReadFails

LEMMA CheckDriftType ==
  ASSUME TypeOK, pc # "idle",
         NEW changed \in AuraInstance, changed.status.instanceID \in InstanceIds,
         NEW config, NEW data, CheckDrift(changed, config, data)
  PROVE  ControllerTypeOK'
<1> DEFINE updating == AuraInstanceReconciling(changed, "True", "UpdatingInstance")
<1>1. CASE Return(changed, FALSE, "none")
  BY <1>1, ReturnType DEF Results
<1>2. CASE Proceed("update", updating)
  <2>1. /\ updating \in AuraInstance
        /\ updating.status.instanceID \in InstanceIds
    BY ReconcilingDerived DEF Reasons, Derived
  <2> HIDE DEF updating
  <2>2. QED
    BY <1>2, <2>1, ProceedType DEF Steps
<1>3. CASE Panic
  BY <1>3, PanicType
<1>4. QED
  BY <1>1, <1>2, <1>3 DEF CheckDrift

LEMMA ExamineType ==
  ASSUME TypeOK, pc = "get", NEW found, NEW data, Examine(found, data)
  PROVE  ControllerTypeOK'
<1> DEFINE read == [instance EXCEPT !.status.instanceStatus = found.state]
<1>1. instance \in AuraInstance /\ instance.status.instanceID \in InstanceIds
  BY DEF TypeOK, ControllerTypeOK
<1>2. ASSUME found.state \in InstanceStatuses
      PROVE  read \in AuraInstance /\ read.status.instanceID \in InstanceIds
  BY <1>1, <1>2 DEF AuraInstance, AuraInstanceStatus
<1> HIDE DEF read
<1>3. CASE /\ found.state = "creating"
           /\ Return(AuraInstanceReconciling(read, "True", "InstanceCreating"),
                     FALSE, "requeueAfter")
  <2>1. read \in AuraInstance
    BY <1>2, <1>3 DEF InstanceStatuses
  <2>2. AuraInstanceReconciling(read, "True", "InstanceCreating") \in AuraInstance
    BY <2>1, ReconcilingDerived DEF Reasons, Derived
  <2>3. QED
    BY <1>3, <2>2, ReturnType DEF Results
<1>4. CASE /\ found.state = "running"
           /\ CheckDrift(AuraInstanceReady(DeleteReconciling(read), "True",
                                           "InstanceRunning"), found.config, data)
  <2> DEFINE cleared == DeleteReconciling(read)
  <2> DEFINE ready == AuraInstanceReady(cleared, "True", "InstanceRunning")
  <2>1. read \in AuraInstance /\ read.status.instanceID \in InstanceIds
    BY <1>2, <1>4 DEF InstanceStatuses
  <2>2. cleared \in AuraInstance /\ cleared.status.instanceID \in InstanceIds
    BY <2>1, DeleteReconcilingDerived DEF Derived
  <2> HIDE DEF cleared
  <2>3. ready \in AuraInstance /\ ready.status.instanceID \in InstanceIds
    BY <2>2, ReadyDerived DEF Derived, Reasons
  <2>4. CheckDrift(ready, found.config, data)
    BY <1>4 DEF cleared
  <2> HIDE DEF ready
  <2>5. QED
    BY <2>3, <2>4, CheckDriftType
<1>5. CASE /\ found.state = "busy"
           /\ CheckDrift(AuraInstanceReady(read, "False", "InstanceNotReady"),
                         found.config, data)
  <2> DEFINE ready == AuraInstanceReady(read, "False", "InstanceNotReady")
  <2>1. read \in AuraInstance /\ read.status.instanceID \in InstanceIds
    BY <1>2, <1>5 DEF InstanceStatuses
  <2>2. ready \in AuraInstance /\ ready.status.instanceID \in InstanceIds
    BY <2>1, ReadyDerived DEF Derived, Reasons
  <2> HIDE DEF ready
  <2>3. QED
    BY <1>5, <2>2, CheckDriftType DEF ready
<1>6. QED
  BY <1>3, <1>4, <1>5 DEF Examine, read

LEMMA GetInstanceType == ASSUME TypeOK, GetInstance PROVE TypeOK'
<1>1. pc # "idle" /\ instance \in AuraInstance /\ instance.status.instanceID \in InstanceIds
  BY DEF TypeOK, ControllerTypeOK, GetInstance
<1>2. disturbances' \in Nat
  <2> DEFINE code == IF Live(instance.status.instanceID) THEN 200 ELSE 404
  <2>1. PICK reply : Answered(reply, code)
    BY DEF GetInstance
  <2> HIDE DEF code
  <2>2. QED
    BY <2>1, AnsweredType
<1>3. Fail(instance) => ControllerTypeOK'
  BY <1>1, ReturnType DEF Fail, Results
<1>4. Proceed("delete", instance) => ControllerTypeOK'
  BY <1>1, ProceedType DEF Steps
<1>5. Panic => ControllerTypeOK'
  BY PanicType
<1>6. ASSUME NEW found, NEW data, Examine(found, data) PROVE ControllerTypeOK'
  BY <1>6, ExamineType DEF GetInstance
<1>7. ControllerTypeOK'
  BY <1>3, <1>4, <1>5, <1>6 DEF GetInstance
<1>8. QED
  BY <1>2, <1>7, KubernetesUnchanged, CloudUnchanged DEF GetInstance, TypeOK

LEMMA DeleteSecretType == ASSUME TypeOK, DeleteSecret PROVE TypeOK'
<1> DEFINE name == connectionSecretName(instance)
<1> DEFINE Deleted == [secrets EXCEPT ![name] = None]
<1>1. pc # "idle" /\ instance \in AuraInstance
  BY DEF TypeOK, ControllerTypeOK, DeleteSecret
<1>2. name \in SecretNames
  BY <1>1, ConnectionSecretNameType
<1> HIDE DEF name
<1>3. secrets' \in {secrets, Deleted}
  BY DEF DeleteSecret, name
<1>4. Deleted \in [SecretNames -> Secret \cup {None}]
  BY <1>2 DEF TypeOK, KubernetesTypeOK
<1> HIDE DEF Deleted
<1>5. KubernetesTypeOK'
  BY <1>3, <1>4 DEF TypeOK, KubernetesTypeOK, DeleteSecret
<1>6. CloudTypeOK'
  BY CloudUnchanged DEF DeleteSecret
<1>7. disturbances' \in Nat
  BY DisturbType DEF DeleteSecret
<1>8. Fail(instance) => ControllerTypeOK'
  BY <1>1, ReturnType DEF Fail, Results
<1>9. ForgetInstance => ControllerTypeOK'
  <2> DEFINE forgotten == [instance EXCEPT !.status.instanceID = None,
                                           !.status.connectionSecret = None]
  <2>1. forgotten \in AuraInstance
    BY <1>1 DEF AuraInstance, AuraInstanceStatus
  <2> HIDE DEF forgotten
  <2>2. QED
    BY <1>1, <2>1, ReturnType DEF ForgetInstance, forgotten, Results
<1>10. ControllerTypeOK'
  BY <1>8, <1>9 DEF DeleteSecret
<1>11. QED
  BY <1>5, <1>6, <1>7, <1>10 DEF TypeOK

LEMMA ProvisionType ==
  ASSUME CloudTypeOK, NEW id \in InstanceIds, NEW config \in Configs,
         NEW late \in BOOLEAN, Provision(id, config, late)
  PROVE  remote' \in [InstanceIds -> Remote]
<1> DEFINE new == [state |-> "creating", config |-> config, late |-> late]
<1>1. new \in Remote
  BY DEF Remote, States
<1> HIDE DEF new
<1>2. QED
  BY <1>1 DEF CloudTypeOK, Provision, new

LEMMA ReconfigureType ==
  ASSUME CloudTypeOK, NEW id \in InstanceIds, NEW config \in Configs,
         Reconfigure(id, config)
  PROVE  remote' \in [InstanceIds -> Remote]
<1>1. PICK state \in {"running", "busy"} :
        remote' = [remote EXCEPT ![id].config = config, ![id].state = state]
  BY DEF Reconfigure
<1>2. QED
  BY <1>1 DEF CloudTypeOK, Remote, States

LEMMA AbandonType ==
  ASSUME CloudTypeOK, NEW id \in InstanceIds \cup {None}, NEW config \in Configs,
         Abandon(id, config)
  PROVE  orphans' \subseteq Request
  BY DEF CloudTypeOK, Abandon, Request

LEMMA UpdateInstanceType == ASSUME TypeOK, UpdateInstance PROVE TypeOK'
<1> DEFINE id == instance.status.instanceID
<1> DEFINE config == instance.spec.config
<1>1. pc # "idle" /\ instance \in AuraInstance /\ id \in InstanceIds
  BY DEF TypeOK, ControllerTypeOK, UpdateInstance
<1>2. config \in Configs
  BY <1>1, SpecsAssumption DEF AuraInstance, AuraInstanceSpec
<1>3. remote' \in [InstanceIds -> Remote] /\ orphans' \subseteq Request
  <2>1. CASE Reconfigure(id, config) /\ UNCHANGED orphans
    BY <1>1, <1>2, <2>1, ReconfigureType DEF TypeOK, CloudTypeOK
  <2>2. CASE UNCHANGED cloudVars
    BY <2>2 DEF cloudVars, TypeOK, CloudTypeOK
  <2>3. CASE Abandon(id, config) /\ UNCHANGED remote
    BY <1>1, <1>2, <2>3, AbandonType DEF TypeOK, CloudTypeOK
  <2>4. QED
    BY <2>1, <2>2, <2>3 DEF UpdateInstance
<1>4. disturbances' \in Nat
  <2>1. \/ \E code \in {200, 202} : \E reply \in Reply \cup {NoReply} :
               Answered(reply, code)
        \/ Calm
        \/ Disturb("reply") \/ Disturb("inflight")
    BY DEF UpdateInstance
  <2>2. ASSUME NEW reply, NEW code, Answered(reply, code)
        PROVE  disturbances' \in Nat
    BY <2>2, AnsweredType
  <2>3. QED
    BY <2>1, <2>2, DisturbType, Zenon
<1>5. ControllerTypeOK'
  <2>1. Fail(instance) => ControllerTypeOK'
    BY <1>1, ReturnType DEF Fail, Results
  <2>2. Return(instance, FALSE, "none") => ControllerTypeOK'
    BY <1>1, ReturnType DEF Results
  <2>3. QED
    BY <2>1, <2>2 DEF UpdateInstance
<1>6. QED
  BY <1>3, <1>4, <1>5, KubernetesUnchanged DEF UpdateInstance, TypeOK, CloudTypeOK

LEMMA ListInstancesType == ASSUME TypeOK, ListInstances PROVE TypeOK'
<1> DEFINE creating == AuraInstanceReconciling(instance, "True", "CreatingInstance")
<1>1. pc # "idle" /\ instance \in AuraInstance
  BY DEF TypeOK, ControllerTypeOK, ListInstances
<1>2. disturbances' \in Nat
  <2>1. PICK reply : Answered(reply, 200)
    BY DEF ListInstances
  <2>2. QED
    BY <2>1, AnsweredType
<1>3. Fail(instance) => ControllerTypeOK'
  BY <1>1, ReturnType DEF Fail, Results
<1>4. ASSUME NEW id \in Named,
             Return([instance EXCEPT !.status.instanceID = id], FALSE, "requeue")
      PROVE  ControllerTypeOK'
  <2> DEFINE adopted == [instance EXCEPT !.status.instanceID = id]
  <2>1. adopted \in AuraInstance
    BY <1>1 DEF AuraInstance, AuraInstanceStatus, Named
  <2> HIDE DEF adopted
  <2>2. QED
    BY <1>1, <1>4, <2>1, ReturnType DEF adopted, Results
<1>5. Proceed("post", creating) => ControllerTypeOK'
  <2>1. creating \in AuraInstance
    BY <1>1, ReconcilingDerived DEF Reasons, Derived
  <2> HIDE DEF creating
  <2>2. QED
    BY <1>1, <2>1, ProceedType DEF Steps
<1>6. ControllerTypeOK'
  BY <1>3, <1>4, <1>5, PanicType DEF ListInstances
<1>7. QED
  BY <1>2, <1>6, KubernetesUnchanged, CloudUnchanged DEF ListInstances, TypeOK

LEMMA PostInstanceType == ASSUME TypeOK, PostInstance PROVE TypeOK'
<1> DEFINE config == instance.spec.config
<1> DEFINE created(id) ==
             [instance EXCEPT !.status.instanceID = id,
                              !.status.connectionSecret = connectionSecretName(instance)]
<1>1. pc # "idle" /\ instance \in AuraInstance
  BY DEF TypeOK, ControllerTypeOK, PostInstance
<1>2. config \in Configs
  BY <1>1, SpecsAssumption DEF AuraInstance, AuraInstanceSpec
<1>3. remote' \in [InstanceIds -> Remote] /\ orphans' \subseteq Request
  <2>1. ASSUME NEW id \in InstanceIds, Provision(id, config, FALSE), UNCHANGED orphans
        PROVE  remote' \in [InstanceIds -> Remote] /\ orphans' \subseteq Request
    BY <1>2, <2>1, ProvisionType DEF TypeOK, CloudTypeOK
  <2>2. CASE UNCHANGED cloudVars
    BY <2>2 DEF cloudVars, TypeOK, CloudTypeOK
  <2>3. CASE Abandon(None, config) /\ UNCHANGED remote
    BY <1>2, <2>3, AbandonType DEF TypeOK, CloudTypeOK
  <2>4. QED
    BY <2>1, <2>2, <2>3 DEF PostInstance
<1>4. disturbances' \in Nat
  <2>1. ASSUME NEW reply, Answered(reply, 202)
        PROVE  disturbances' \in Nat
    BY <2>1, AnsweredType
  <2>2. QED
    BY <2>1, DisturbType DEF PostInstance
<1>5. Fail(instance) => ControllerTypeOK'
  BY <1>1, ReturnType DEF Fail, Results
<1>6. ASSUME NEW id \in InstanceIds, Proceed("create", created(id))
      PROVE  ControllerTypeOK'
  <2>1. created(id) \in AuraInstance /\ created(id).status.instanceID \in InstanceIds
    BY <1>1, ConnectionSecretNameType DEF AuraInstance, AuraInstanceStatus
  <2> HIDE DEF created
  <2>2. QED
    BY <1>1, <1>6, <2>1, ProceedType DEF Steps
<1>7. ControllerTypeOK'
  BY <1>5, <1>6, PanicType DEF PostInstance
<1>8. QED
  BY <1>3, <1>4, <1>7, KubernetesUnchanged DEF PostInstance, TypeOK, CloudTypeOK

LEMMA CreateSecretType == ASSUME TypeOK, CreateSecret PROVE TypeOK'
<1> DEFINE name == connectionSecretName(instance)
<1> DEFINE secret == [owner    |-> instance.uid,
                      instance |-> instance.status.instanceID]
<1> DEFINE written == [secrets EXCEPT ![name] = secret]
<1>1. pc # "idle" /\ instance \in AuraInstance
  BY DEF TypeOK, ControllerTypeOK, CreateSecret
<1>2. name \in SecretNames
  BY <1>1, ConnectionSecretNameType
<1>3. secret \in Secret
  BY <1>1 DEF Secret, AuraInstance, AuraInstanceStatus
<1> HIDE DEF name, secret
<1>4. written \in [SecretNames -> Secret \cup {None}]
  BY <1>2, <1>3 DEF TypeOK, KubernetesTypeOK
<1>5. secrets' \in {secrets, written}
  BY DEF CreateSecret, name, secret
<1> HIDE DEF written
<1>6. KubernetesTypeOK'
  BY <1>4, <1>5 DEF TypeOK, KubernetesTypeOK, CreateSecret
<1>7. CloudTypeOK'
  BY CloudUnchanged DEF CreateSecret
<1>8. disturbances' \in Nat
  BY DisturbType DEF CreateSecret
<1>9. ControllerTypeOK'
  <2>1. Fail(instance) => ControllerTypeOK'
    BY <1>1, ReturnType DEF Fail, Results
  <2>2. Return(instance, FALSE, "requeueAfter") => ControllerTypeOK'
    BY <1>1, ReturnType DEF Results
  <2>3. QED
    BY <2>1, <2>2 DEF CreateSecret
<1>10. QED
  BY <1>6, <1>7, <1>8, <1>9 DEF TypeOK

LEMMA StoreType ==
  ASSUME KubernetesTypeOK, NEW version \in AuraInstance \cup {None}, Store(version)
  PROVE  /\ object' \in AuraInstance \cup {None}
         /\ watch' \in Seq(AuraInstance \cup {None})
  BY DEF KubernetesTypeOK, Store

LEMMA PatchedType ==
  ASSUME TypeOK, pc # "idle", object # None, NEW reworded \in BOOLEAN
  PROVE  /\ Patched(reworded) \in AuraInstance
         /\ Patched(reworded).uid = object.uid
         /\ Patched(reworded).generation = object.generation
         /\ Patched(reworded).status.observedGeneration
              \in {object.status.observedGeneration, instance.status.observedGeneration}
<1> DEFINE merged == MergePatch(object.status, snapshot.status, instance.status, reworded)
<1>1. object \in AuraInstance /\ snapshot \in AuraInstance /\ instance \in AuraInstance
  BY DEF TypeOK, KubernetesTypeOK, ControllerTypeOK
<1>2. /\ merged \in AuraInstanceStatus
      /\ merged.observedGeneration
           \in {object.status.observedGeneration, instance.status.observedGeneration}
  <2>1. /\ object.status \in AuraInstanceStatus
        /\ snapshot.status \in AuraInstanceStatus
        /\ instance.status \in AuraInstanceStatus
    BY <1>1 DEF AuraInstance
  <2>2. QED
    BY <2>1, MergePatchType
<1>3. Patched(reworded) = [object EXCEPT !.status = merged]
  BY <1>1 DEF Patched, AuraInstance
<1> HIDE DEF merged
<1>4. QED
  BY <1>1, <1>2, <1>3 DEF AuraInstance

LEMMA PatchStatusType == ASSUME TypeOK, PatchStatus PROVE TypeOK'
<1>1. pc # "idle" /\ err \in BOOLEAN /\ queued' \in BOOLEAN
  BY DEF PatchStatus, TypeOK, ControllerTypeOK
<1>2. object' \in AuraInstance \cup {None} /\ watch' \in Seq(AuraInstance \cup {None})
  <2>1. ASSUME NEW reworded \in Rewordings, object # None, Store(Patched(reworded))
        PROVE  /\ object' \in AuraInstance \cup {None}
               /\ watch' \in Seq(AuraInstance \cup {None})
    BY <1>1, <2>1, PatchedType, StoreType DEF Rewordings, TypeOK
  <2>2. CASE UNCHANGED <<object, watch>>
    BY <2>2 DEF TypeOK, KubernetesTypeOK
  <2>3. QED
    BY <2>1, <2>2 DEF PatchStatus
<1>3. KubernetesTypeOK' /\ CloudTypeOK'
  BY <1>2, CloudUnchanged DEF PatchStatus, TypeOK, KubernetesTypeOK
<1>4. disturbances' \in Nat
  BY DisturbType DEF PatchStatus
<1>5. ControllerTypeOK'
  <2>1. ASSUME NEW again \in BOOLEAN, Finish(again) PROVE ControllerTypeOK'
    BY <1>1, <2>1, FinishType
  <2>2. object # None => Again \in BOOLEAN
    BY SpecsAssumption
       DEF Again, TypeOK, KubernetesTypeOK, ControllerTypeOK, AuraInstance, AuraInstanceSpec
  <2>3. QED
    BY <2>1, <2>2 DEF PatchStatus
<1>6. QED
  BY <1>3, <1>4, <1>5 DEF TypeOK

--------------------------------------------------------------------------------

(***************************************************************************)
(* One lemma per step taken around Reconcile.                              *)
(***************************************************************************)
LEMMA TimerFiresType == ASSUME TypeOK, TimerFires PROVE TypeOK'
<1>1. timer' \in BOOLEAN /\ queued' \in BOOLEAN
  BY DEF TimerFires
<1>2. KubernetesTypeOK' /\ CloudTypeOK' /\ ControllerTypeOK'
  BY <1>1, KubernetesUnchanged, CloudUnchanged, ControllerUnchanged DEF TimerFires
<1>3. QED
  BY <1>2 DEF TypeOK, TimerFires

LEMMA CrashRestartType == ASSUME TypeOK, CrashRestart PROVE TypeOK'
<1>1. KubernetesTypeOK'
  BY DEF TypeOK, KubernetesTypeOK, CrashRestart, Relist
<1>2. orphans' \subseteq Request
  <2>1. ASSUME NEW id, pc \in {"post", "update"},
               id = IF pc = "post" THEN None ELSE instance.status.instanceID,
               Abandon(id, instance.spec.config)
        PROVE  orphans' \subseteq Request
    <3>1. id \in InstanceIds \cup {None} /\ instance \in AuraInstance
      BY <2>1 DEF TypeOK, ControllerTypeOK
    <3>2. instance.spec.config \in Configs
      BY <3>1, SpecsAssumption DEF AuraInstance, AuraInstanceSpec
    <3>3. QED
      BY <2>1, <3>1, <3>2, AbandonType DEF TypeOK
  <2>2. QED
    BY <2>1 DEF CrashRestart, TypeOK, CloudTypeOK
<1>3. CloudTypeOK'
  BY <1>2 DEF CrashRestart, TypeOK, CloudTypeOK
<1>4. ControllerTypeOK'
  BY DEF CrashRestart, ControllerTypeOK, Steps, Results
<1>5. disturbances' \in Nat
  BY DisturbType DEF CrashRestart
<1>6. QED
  BY <1>1, <1>3, <1>4, <1>5 DEF TypeOK

LEMMA UserType ==
  ASSUME TypeOK, UserCreates \/ UserEdits \/ UserDeletes
  PROVE  TypeOK'
<1>1. /\ object' \in AuraInstance \cup {None}
      /\ watch' \in Seq(AuraInstance \cup {None})
      /\ uids' \in Nat
      /\ UNCHANGED <<cache, secrets, secretCache, credentials>>
  <2>1. CASE UserCreates
    <3>1. PICK spec \in Specs : CreateAuraInstance(spec)
      BY <2>1 DEF UserCreates
    <3> DEFINE new == [uid |-> uids + 1, generation |-> 1, spec |-> spec,
                       status |-> EmptyStatus]
    <3>2. new \in AuraInstance
      BY EmptyStatusType DEF AuraInstance, TypeOK, KubernetesTypeOK
    <3>3. Store(new) /\ uids' = uids + 1
      BY <3>1 DEF CreateAuraInstance
    <3> HIDE DEF new
    <3>4. QED
      BY <3>1, <3>2, <3>3, StoreType DEF CreateAuraInstance, TypeOK, KubernetesTypeOK
  <2>2. CASE UserEdits
    <3>1. PICK spec \in Specs : EditAuraInstance(spec)
      BY <2>2 DEF UserEdits
    <3> DEFINE new == [object EXCEPT !.spec = spec, !.generation = @ + 1]
    <3>2. new \in AuraInstance
      <4>1. object \in AuraInstance
        BY <3>1 DEF EditAuraInstance, TypeOK, KubernetesTypeOK
      <4>2. new = [object EXCEPT !.spec = spec, !.generation = object.generation + 1]
        BY <4>1 DEF AuraInstance
      <4>3. object.generation + 1 \in Nat
        BY <4>1 DEF AuraInstance
      <4> HIDE DEF new
      <4>4. QED
        BY <4>1, <4>2, <4>3 DEF AuraInstance
    <3>3. Store(new)
      BY <3>1 DEF EditAuraInstance
    <3> HIDE DEF new
    <3>4. QED
      BY <3>1, <3>2, <3>3, StoreType DEF EditAuraInstance, TypeOK, KubernetesTypeOK
  <2>3. CASE UserDeletes
    BY <2>3, StoreType DEF UserDeletes, DeleteAuraInstance, TypeOK, KubernetesTypeOK
  <2>4. QED
    BY <2>1, <2>2, <2>3
<1>2. KubernetesTypeOK'
  BY <1>1 DEF TypeOK, KubernetesTypeOK
<1>3. CloudTypeOK' /\ ControllerTypeOK'
  <2>1. UNCHANGED <<cloudVars, workerVars, queueVars>>
    BY DEF UserCreates, UserEdits, UserDeletes
  <2>2. QED
    BY <2>1, CloudUnchanged, ControllerUnchanged DEF queueVars, TypeOK, ControllerTypeOK
<1>4. disturbances' \in Nat
  BY DisturbType DEF UserCreates, UserEdits, UserDeletes, TypeOK
<1>5. QED
  BY <1>2, <1>3, <1>4 DEF TypeOK

LEMMA SecretsType ==
  ASSUME TypeOK, SecretTampered \/ SecretCollected \/ SecretSynced
  PROVE  TypeOK'
<1>1. ASSUME NEW name \in SecretNames, NEW owner \in {NoOwner, OtherOwner},
             PutForeignSecret(name, owner)
      PROVE  KubernetesTypeOK'
  <2> DEFINE new == [owner |-> owner, instance |-> None]
  <2>1. new \in Secret
    BY DEF Secret, NoOwner, OtherOwner
  <2> HIDE DEF new
  <2>2. secrets' \in [SecretNames -> Secret \cup {None}]
    BY <1>1, <2>1 DEF PutForeignSecret, TypeOK, KubernetesTypeOK, new
  <2>3. QED
    BY <1>1, <2>2 DEF PutForeignSecret, TypeOK, KubernetesTypeOK
<1>2. ASSUME NEW name \in SecretNames, RemoveSecret(name)
      PROVE  KubernetesTypeOK'
  BY <1>2 DEF RemoveSecret, TypeOK, KubernetesTypeOK
<1>3. ASSUME NEW name \in SecretNames, SyncSecret(name)
      PROVE  KubernetesTypeOK'
  BY <1>3 DEF SyncSecret, TypeOK, KubernetesTypeOK
<1>4. KubernetesTypeOK'
  BY <1>1, <1>2, <1>3 DEF SecretTampered, SecretCollected, SecretSynced, CollectSecret
<1>5. UNCHANGED <<cloudVars, workerVars, queueVars>>
  BY DEF SecretTampered, SecretCollected, SecretSynced
<1>6. CloudTypeOK' /\ ControllerTypeOK'
  BY <1>5, CloudUnchanged, ControllerUnchanged DEF queueVars, TypeOK, ControllerTypeOK
<1>7. disturbances' \in Nat
  BY DisturbType DEF SecretTampered, SecretCollected, SecretSynced, TypeOK
<1>8. QED
  BY <1>4, <1>6, <1>7 DEF TypeOK

LEMMA CacheSyncedType == ASSUME TypeOK, CacheSynced PROVE TypeOK'
<1>1. cache' \in AuraInstance \cup {None} /\ watch' \in Seq(AuraInstance \cup {None})
  BY DEF CacheSynced, SyncCache, TypeOK, KubernetesTypeOK
<1>2. KubernetesTypeOK' /\ CloudTypeOK'
  BY <1>1, CloudUnchanged DEF CacheSynced, SyncCache, TypeOK, KubernetesTypeOK
<1>3. moved' \in BOOLEAN /\ queued' \in BOOLEAN
  BY DEF CacheSynced
<1>4. ControllerTypeOK'
  BY <1>3 DEF CacheSynced, TypeOK, ControllerTypeOK
<1>5. QED
  BY <1>2, <1>4 DEF TypeOK, CacheSynced

LEMMA CredentialsType ==
  ASSUME TypeOK, CredentialsSynced \/ CredentialsEventDropped
  PROVE  TypeOK'
<1>1. /\ credentials' \in BOOLEAN
      /\ UNCHANGED <<object, cache, watch, uids, secrets, secretCache>>
  BY DEF CredentialsSynced, CredentialsEventDropped, SyncCredentials, TypeOK,
         KubernetesTypeOK
<1>2. KubernetesTypeOK'
  BY <1>1 DEF TypeOK, KubernetesTypeOK
<1>3. /\ UNCHANGED <<cloudVars, workerVars, timer>>
      /\ queued' \in BOOLEAN
  BY DEF CredentialsSynced, CredentialsEventDropped, queueVars, TypeOK, ControllerTypeOK
<1>4. CloudTypeOK' /\ ControllerTypeOK'
  BY <1>3, CloudUnchanged, ControllerUnchanged DEF TypeOK, ControllerTypeOK
<1>5. disturbances' \in Nat
  BY DisturbType DEF CredentialsSynced, CredentialsEventDropped
<1>6. QED
  BY <1>2, <1>4, <1>5 DEF TypeOK

LEMMA AuraType ==
  ASSUME TypeOK, AuraSettles \/ AuraDisturbed \/ RequestArrivesLate
  PROVE  TypeOK'
<1>1. remote' \in [InstanceIds -> Remote] /\ orphans' \subseteq Request
  <2>1. ASSUME NEW id \in InstanceIds,
               \/ Settle(id) \/ Occupy(id) \/ Destroy(id)
               \/ \E config \in Configs : Drift(id, config)
        PROVE  remote' \in [InstanceIds -> Remote] /\ orphans' \subseteq Request
    BY <2>1 DEF Settle, Occupy, Destroy, Drift, TypeOK, CloudTypeOK, Remote, States
  <2>2. ASSUME NEW request \in orphans, ArriveLate(request)
        PROVE  remote' \in [InstanceIds -> Remote] /\ orphans' \subseteq Request
    <3>1. /\ request.id \in InstanceIds \cup {None}
          /\ request.config \in Configs
          /\ orphans' \subseteq Request
      BY <2>2 DEF ArriveLate, TypeOK, CloudTypeOK, Request
    <3>2. QED
      BY <2>2, <3>1, ProvisionType, ReconfigureType DEF ArriveLate, TypeOK, CloudTypeOK
  <2>3. QED
    BY <2>1, <2>2 DEF AuraSettles, AuraDisturbed, RequestArrivesLate
<1>2. UNCHANGED <<kubernetesVars, workerVars, queueVars>>
  BY DEF AuraSettles, AuraDisturbed, RequestArrivesLate
<1>3. KubernetesTypeOK' /\ ControllerTypeOK'
  BY <1>2, KubernetesUnchanged, ControllerUnchanged DEF queueVars, TypeOK, ControllerTypeOK
<1>4. disturbances' \in Nat
  BY DisturbType DEF AuraSettles, AuraDisturbed, RequestArrivesLate, TypeOK
<1>5. QED
  BY <1>1, <1>3, <1>4 DEF TypeOK, CloudTypeOK

--------------------------------------------------------------------------------

(***************************************************************************)
(* Every variable keeps its type; in particular the controller asks Aura   *)
(* about, deletes for, updates and stores details of an instance only when *)
(* it has an id for it.                                                    *)
(***************************************************************************)
THEOREM Typing == Spec => []TypeOK
<1>1. Init => TypeOK
  <2> SUFFICES ASSUME Init PROVE TypeOK
    OBVIOUS
  <2>1. KubernetesTypeOK
    BY DEF Init, KubernetesInit, KubernetesTypeOK
  <2>2. CloudTypeOK
    BY DEF Init, CloudInit, CloudTypeOK, Remote, States
  <2>3. ControllerTypeOK
    BY DEF Init, ControllerTypeOK, Steps, Results
  <2>4. QED
    BY <2>1, <2>2, <2>3 DEF Init, TypeOK
<1>2. TypeOK /\ [Next]_vars => TypeOK'
  <2> SUFFICES ASSUME TypeOK, [Next]_vars PROVE TypeOK'
    OBVIOUS
  <2>1. CASE Reconcile
    BY <2>1, StartType, GetInstanceType, DeleteSecretType, UpdateInstanceType,
       ListInstancesType, PostInstanceType, CreateSecretType, PatchStatusType
       DEF Reconcile
  <2>2. CASE TimerFires
    BY <2>2, TimerFiresType
  <2>3. CASE CrashRestart
    BY <2>3, CrashRestartType
  <2>4. CASE Environment
    BY <2>4, UserType, SecretsType, CacheSyncedType, CredentialsType, AuraType
       DEF Environment
  <2>5. CASE UNCHANGED vars
    <3>1. UNCHANGED <<kubernetesVars, cloudVars, workerVars, queueVars, disturbances>>
      BY <2>5 DEF vars
    <3>2. KubernetesTypeOK' /\ CloudTypeOK' /\ ControllerTypeOK'
      BY <3>1, KubernetesUnchanged, CloudUnchanged, ControllerUnchanged
         DEF queueVars, TypeOK, ControllerTypeOK
    <3>3. QED
      BY <3>1, <3>2 DEF TypeOK
  <2>6. QED
    BY <2>1, <2>2, <2>3, <2>4, <2>5 DEF Next
<1>3. QED
  BY <1>1, <1>2, PTL DEF Spec

--------------------------------------------------------------------------------

(***************************************************************************)
(* SingleCreation is not inductive: a second POST must be excluded.  What  *)
(* excludes it is that the LIST before it found nothing, and that only     *)
(* late requests make instances between the two.                           *)
(***************************************************************************)
SingleCreationInv ==
    /\ pc = "post" => \A id \in InstanceIds : Live(id) => remote[id].late
    /\ SingleCreation

\* Every instance that lives after the step lived before it, or came late.
NothingNewInTime ==
    \A id \in InstanceIds :
        remote'[id].state \in {"creating", "running", "busy"} =>
            \/ remote'[id].late
            \/ Live(id) /\ ~remote[id].late

LEMMA SingleCreationKept ==
  ASSUME SingleCreationInv, NothingNewInTime, pc' = "post" => pc = "post"
  PROVE  SingleCreationInv'
  BY DEF SingleCreationInv, SingleCreation, NothingNewInTime, Live

LEMMA RemoteUnchanged ==
  ASSUME TypeOK, UNCHANGED remote PROVE NothingNewInTime
  BY DEF NothingNewInTime, Live

LEMMA ReconfigureNothingNew ==
  ASSUME TypeOK, NEW id \in InstanceIds, NEW config, Reconfigure(id, config)
  PROVE  NothingNewInTime
<1>1. PICK state \in {"running", "busy"} :
        remote' = [remote EXCEPT ![id].config = config, ![id].state = state]
  BY DEF Reconfigure
<1>2. remote \in [InstanceIds -> Remote] /\ remote[id].state = "running"
  BY DEF TypeOK, CloudTypeOK, Reconfigure
<1>3. ASSUME NEW other \in InstanceIds
      PROVE  remote'[other].late = remote[other].late /\ (Live(other)' => Live(other))
  BY <1>1, <1>2, <1>3 DEF Live, Remote
<1>4. QED
  BY <1>3 DEF NothingNewInTime, Live

LEMMA ArriveLateNothingNew ==
  ASSUME TypeOK, NEW request \in orphans, ArriveLate(request)
  PROVE  NothingNewInTime
<1>1. request.id \in InstanceIds \cup {None}
  BY DEF TypeOK, CloudTypeOK, Request
<1>2. ASSUME NEW id \in InstanceIds, Provision(id, request.config, TRUE)
      PROVE  NothingNewInTime
  BY <1>2 DEF Provision, NothingNewInTime, Live, TypeOK, CloudTypeOK
<1>3. CASE request.id # None /\ Reconfigure(request.id, request.config)
  BY <1>1, <1>3, ReconfigureNothingNew
<1>4. CASE UNCHANGED remote
  BY <1>4, RemoteUnchanged
<1>5. QED
  BY <1>2, <1>3, <1>4 DEF ArriveLate

LEMMA ConsoleNothingNew ==
  ASSUME TypeOK, NEW id \in InstanceIds,
         \/ Settle(id) \/ Occupy(id) \/ Destroy(id)
         \/ \E config \in Configs : Drift(id, config)
  PROVE  NothingNewInTime
<1>1. ASSUME NEW other \in InstanceIds
      PROVE  remote'[other].late = remote[other].late /\ (Live(other)' => Live(other))
  BY <1>1 DEF Settle, Occupy, Destroy, Drift, Live, TypeOK, CloudTypeOK, Remote
<1>2. QED
  BY <1>1 DEF NothingNewInTime, Live

(***************************************************************************)
(* Only ListInstances leads to a POST.                                     *)
(***************************************************************************)
LEMMA OnlyListLeadsToPost ==
  ASSUME Reconcile, ~ListInstances PROVE pc' # "post"
<1>1. CASE StartNothingToDo \/ StartReadFails
  BY <1>1 DEF StartNothingToDo, StartReadFails, Finish
<1>2. CASE StartReconcile \/ StartWithoutCredentials
  BY <1>2 DEF StartReconcile, StartWithoutCredentials, FirstCall
<1>3. CASE GetInstance
  <2>1. ASSUME NEW changed, NEW config, NEW data, CheckDrift(changed, config, data)
        PROVE  pc' # "post"
    BY <2>1 DEF CheckDrift, Return, Proceed, Panic, Finish
  <2>2. ASSUME NEW found, NEW data, Examine(found, data) PROVE pc' # "post"
    BY <2>1, <2>2 DEF Examine, Return
  <2>3. (Fail(instance) \/ Panic \/ Proceed("delete", instance)) => pc' # "post"
    BY DEF Fail, Return, Panic, Finish, Proceed
  <2>4. QED
    BY <1>3, <2>2, <2>3 DEF GetInstance
<1>4. CASE DeleteSecret \/ UpdateInstance \/ CreateSecret
  BY <1>4 DEF DeleteSecret, UpdateInstance, CreateSecret, ForgetInstance, Fail, Return
<1>5. CASE PostInstance
  <2>1. ASSUME NEW changed, Proceed("create", changed) PROVE pc' # "post"
    BY <2>1 DEF Proceed
  <2>2. (Fail(instance) \/ Panic) => pc' # "post"
    BY DEF Fail, Return, Panic, Finish
  <2>3. QED
    BY <1>5, <2>1, <2>2 DEF PostInstance
<1>6. CASE PatchStatus
  BY <1>6 DEF PatchStatus, Finish
<1>7. QED
  BY <1>1, <1>2, <1>3, <1>4, <1>5, <1>6 DEF Reconcile

LEMMA ListInstancesCreation ==
  ASSUME TypeOK, SingleCreationInv, ListInstances PROVE SingleCreationInv'
<1>1. UNCHANGED remote
  BY DEF ListInstances, cloudVars
<1>2. SingleCreation'
  BY <1>1 DEF SingleCreationInv, SingleCreation, Live
<1>3. pc' = "post" => Named = {}
  <2>1. ASSUME NEW id, Return([instance EXCEPT !.status.instanceID = id], FALSE, "requeue")
        PROVE  pc' # "post"
    BY <2>1 DEF Return
  <2>2. (Fail(instance) \/ Panic) => pc' # "post"
    BY DEF Fail, Return, Panic, Finish
  <2>3. QED
    BY <2>1, <2>2 DEF ListInstances
<1>4. QED
  BY <1>1, <1>2, <1>3 DEF SingleCreationInv, Named, Live

LEMMA PostInstanceCreation ==
  ASSUME TypeOK, SingleCreationInv, PostInstance PROVE SingleCreationInv'
<1>1. \A id \in InstanceIds : Live(id) => remote[id].late
  BY DEF SingleCreationInv, PostInstance
<1>2. pc' # "post"
  BY OnlyListLeadsToPost DEF Reconcile, PostInstance, ListInstances
<1>3. CASE UNCHANGED remote
  BY <1>2, <1>3 DEF SingleCreationInv, SingleCreation, Live
<1>4. ASSUME NEW id \in InstanceIds, Provision(id, instance.spec.config, FALSE)
      PROVE  SingleCreationInv'
  <2>1. ASSUME NEW other \in InstanceIds, other # id, Live(other)'
        PROVE  remote'[other].late
    BY <1>1, <1>4, <2>1 DEF Provision, Live, TypeOK, CloudTypeOK
  <2>2. QED
    BY <1>2, <2>1 DEF SingleCreationInv, SingleCreation, Live
<1>5. QED
  BY <1>3, <1>4 DEF PostInstance, cloudVars

(***************************************************************************)
(* The strengthened invariant holds throughout.                            *)
(***************************************************************************)
LEMMA CreationGuarded == Spec => []SingleCreationInv
<1>1. Init => SingleCreationInv
  BY DEF Init, CloudInit, SingleCreationInv, SingleCreation, Live
<1>2. TypeOK /\ SingleCreationInv /\ [Next]_vars => SingleCreationInv'
  <2> SUFFICES ASSUME TypeOK, SingleCreationInv, [Next]_vars PROVE SingleCreationInv'
    OBVIOUS
  <2>1. CASE ListInstances
    BY <2>1, ListInstancesCreation
  <2>2. CASE PostInstance
    BY <2>2, PostInstanceCreation
  <2>3. CASE Reconcile /\ ~ListInstances /\ ~PostInstance
    <3>1. UNCHANGED remote \/ UpdateInstance
      BY <2>3 DEF Reconcile, Start, StartNothingToDo, StartReadFails, StartReconcile,
                  StartWithoutCredentials, GetInstance, DeleteSecret, CreateSecret,
                  PatchStatus, cloudVars
    <3>2. ASSUME UpdateInstance PROVE NothingNewInTime
      <4>1. instance.status.instanceID \in InstanceIds
        BY <3>2 DEF UpdateInstance, TypeOK, ControllerTypeOK
      <4>2. UNCHANGED remote \/ Reconfigure(instance.status.instanceID, instance.spec.config)
        BY <3>2 DEF UpdateInstance, cloudVars
      <4>3. QED
        BY <4>1, <4>2, RemoteUnchanged, ReconfigureNothingNew
    <3>3. QED
      BY <2>3, <3>1, <3>2, RemoteUnchanged, OnlyListLeadsToPost, SingleCreationKept
  <2>4. CASE TimerFires \/ CrashRestart
    <3>1. UNCHANGED remote /\ (pc' = "post" => pc = "post")
      BY <2>4 DEF TimerFires, CrashRestart, cloudVars, workerVars
    <3>2. QED
      BY <3>1, RemoteUnchanged, SingleCreationKept
  <2>5. CASE Environment
    <3>1. UNCHANGED pc
      BY <2>5 DEF Environment, UserCreates, UserEdits, UserDeletes, SecretTampered,
                  SecretCollected, CacheSynced, SecretSynced, CredentialsSynced,
                  CredentialsEventDropped, AuraSettles, AuraDisturbed,
                  RequestArrivesLate, workerVars
    <3>2. CASE AuraSettles \/ AuraDisturbed
      BY <3>1, <3>2, ConsoleNothingNew, SingleCreationKept DEF AuraSettles, AuraDisturbed
    <3>3. CASE RequestArrivesLate
      BY <3>1, <3>3, ArriveLateNothingNew, SingleCreationKept DEF RequestArrivesLate
    <3>4. CASE UNCHANGED remote
      BY <3>1, <3>4, RemoteUnchanged, SingleCreationKept
    <3>5. QED
      BY <2>5, <3>2, <3>3, <3>4
         DEF Environment, UserCreates, UserEdits, UserDeletes, SecretTampered,
             SecretCollected, CacheSynced, SecretSynced, CredentialsSynced,
             CredentialsEventDropped, cloudVars
  <2>6. CASE UNCHANGED vars
    BY <2>6, RemoteUnchanged, SingleCreationKept DEF vars, cloudVars, workerVars
  <2>7. QED
    BY <2>1, <2>2, <2>3, <2>4, <2>5, <2>6 DEF Next
<1>3. QED
  BY <1>1, <1>2, Typing, PTL DEF Spec

(***************************************************************************)
(* For any number of ids, any troubles and any lag of the cache, requests  *)
(* the controller waits for never make two live instances                  *)
(* (reconcile, lines 301-344).                                             *)
(***************************************************************************)
THEOREM CreatesOnce == Spec => []SingleCreation
<1>1. SingleCreationInv => SingleCreation
  BY DEF SingleCreationInv
<1>2. QED
  BY <1>1, CreationGuarded, PTL

--------------------------------------------------------------------------------

(***************************************************************************)
(* NeverUnattended is not inductive: an event that only carries a status   *)
(* is not queued, so one has to know that the version before it was        *)
(* attended to, that is, of the same object; and a reconcile that ends for *)
(* good read a specification, so that it must be the one the object has.   *)
(***************************************************************************)

\* A copy is no newer than its object, and of one generation there is one
\* specification.
FaithfulTo(version, current, last) ==
    version # None =>
        /\ version.uid <= last
        /\ current # None /\ version.uid = current.uid =>
               /\ version.generation <= current.generation
               /\ version.generation = current.generation => version.spec = current.spec

\* Between two objects of one name the cache sees the name free.
Successive(old, new) == old # None /\ new # None => old.uid = new.uid

\* What the cache will see ends in what is stored.
WatchInv ==
    /\ object # None => object.uid = uids
    /\ Len(watch) = 0 => cache = object
    /\ Len(watch) # 0 => watch[Len(watch)] = object /\ Successive(cache, watch[1])
    /\ \A k \in 1 .. Len(watch) - 1 : Successive(watch[k], watch[k + 1])
    /\ FaithfulTo(cache, object, uids)
    /\ \A k \in 1 .. Len(watch) : FaithfulTo(watch[k], object, uids)

\* The versions Store is given: none, the first of a new object, or one more.
NextVersion(version) ==
    version # None =>
        \/ object = None /\ version.uid = uids + 1 /\ uids' = uids + 1
        \/ /\ object # None
           /\ uids' = uids
           /\ version.uid = object.uid
           /\ \/ version.generation > object.generation
              \/ version.generation = object.generation /\ version.spec = object.spec

LEMMA NewerFaithful ==
  ASSUME TypeOK, WatchInv, NEW version \in AuraInstance \cup {None}, NextVersion(version),
         version = None => uids' = uids,
         NEW copy \in AuraInstance \cup {None}, FaithfulTo(copy, object, uids)
  PROVE  FaithfulTo(copy, version, uids')
<1>1. /\ uids \in Nat
      /\ object # None => object.uid = uids /\ object.generation \in Nat
      /\ version # None => version.generation \in Nat
      /\ copy # None => copy.uid \in Nat /\ copy.generation \in Nat
  BY DEF TypeOK, KubernetesTypeOK, AuraInstance, WatchInv
<1>2. QED
  BY <1>1 DEF FaithfulTo, NextVersion

LEMMA StoreWatch ==
  ASSUME TypeOK, WatchInv, NEW version \in AuraInstance \cup {None}, NextVersion(version),
         version = None => uids' = uids,
         Store(version), UNCHANGED cache
  PROVE  WatchInv'
<1> DEFINE n == Len(watch)
<1>1. /\ watch \in Seq(AuraInstance \cup {None})
      /\ n \in Nat
      /\ cache \in AuraInstance \cup {None}
      /\ object' = version
  BY DEF TypeOK, KubernetesTypeOK, Store
<1>2. FaithfulTo(cache, object, uids)' /\ FaithfulTo(version, version, uids')
  <2>1. FaithfulTo(cache, version, uids')
    BY <1>1, NewerFaithful DEF WatchInv
  <2>2. version # None => version.uid = uids' /\ version.uid \in Nat
                          /\ version.generation \in Nat
    BY DEF NextVersion, WatchInv, AuraInstance
  <2>3. QED
    BY <1>1, <2>1, <2>2 DEF FaithfulTo
<1>3. \A k \in 1 .. n : FaithfulTo(watch[k], version, uids')
  BY <1>1, NewerFaithful DEF WatchInv
<1>4. Successive(object, version)
  BY DEF NextVersion, Successive
<1>5. (object # None => object.uid = uids)'
  BY <1>1 DEF NextVersion, WatchInv
<1>6. CASE version = object
  BY <1>1, <1>2, <1>3, <1>5, <1>6 DEF WatchInv, Store
<1>7. CASE version # object
  <2>1. watch' = Append(watch, version)
    BY <1>7 DEF Store
  <2>2. /\ Len(watch') = n + 1
        /\ watch'[n + 1] = version
        /\ \A k \in 1 .. n : watch'[k] = watch[k]
    BY <1>1, <2>1
  <2>3. Successive(cache, watch'[1])
    <3>1. CASE n = 0
      BY <1>1, <1>4, <2>2, <3>1 DEF WatchInv
    <3>2. CASE n # 0
      BY <1>1, <2>2, <3>2 DEF WatchInv
    <3>3. QED
      BY <3>1, <3>2
  <2>4. ASSUME NEW k \in 1 .. n PROVE Successive(watch'[k], watch'[k + 1])
    <3>1. CASE k = n
      BY <1>1, <1>4, <2>2, <3>1 DEF WatchInv
    <3>2. CASE k # n
      BY <1>1, <2>2, <3>2 DEF WatchInv
    <3>3. QED
      BY <3>1, <3>2
  <2>5. \A k \in 1 .. n + 1 : FaithfulTo(watch'[k], version, uids')
    BY <1>1, <1>2, <1>3, <2>2
  <2>6. QED
    BY <1>1, <1>2, <1>5, <2>2, <2>3, <2>4, <2>5 DEF WatchInv
<1>8. QED
  BY <1>6, <1>7

LEMMA SyncCacheWatch == ASSUME TypeOK, WatchInv, SyncCache PROVE WatchInv'
<1> DEFINE n == Len(watch)
<1>1. /\ watch \in Seq(AuraInstance \cup {None}) /\ watch # <<>>
      /\ n \in Nat \ {0}
      /\ cache' = watch[1]
      /\ Len(watch') = n - 1
      /\ \A k \in 1 .. n - 1 : watch'[k] = watch[k + 1]
      /\ UNCHANGED <<object, uids>>
  <2>1. /\ watch \in Seq(AuraInstance \cup {None}) /\ watch # <<>>
        /\ cache' = Head(watch)
        /\ watch' = Tail(watch)
        /\ UNCHANGED <<object, uids>>
    BY DEF TypeOK, KubernetesTypeOK, SyncCache
  <2>2. /\ n \in Nat \ {0}
        /\ Head(watch) = watch[1]
        /\ Len(Tail(watch)) = n - 1
        /\ \A k \in 1 .. n - 1 : Tail(watch)[k] = watch[k + 1]
        /\ Tail(watch) \in Seq(AuraInstance \cup {None})
    BY <2>1
  <2>3. QED
    BY <2>1, <2>2
<1>2. (Len(watch) = 0 => cache = object)'
  <2>1. watch[n] = object
    BY <1>1 DEF WatchInv
  <2>2. Len(watch') = 0 => n = 1
    BY <1>1
  <2>3. QED
    BY <1>1, <2>1, <2>2
<1>3. (Len(watch) # 0 => watch[Len(watch)] = object /\ Successive(cache, watch[1]))'
  <2> SUFFICES ASSUME n # 1
               PROVE  watch'[n - 1] = object /\ Successive(watch[1], watch'[1])
    BY <1>1 DEF Successive
  <2>1. watch'[n - 1] = watch[n] /\ watch'[1] = watch[2] /\ 1 \in 1 .. n - 1
    BY <1>1
  <2>2. watch[n] = object /\ Successive(watch[1], watch[1 + 1])
    BY <1>1, <2>1 DEF WatchInv
  <2>3. QED
    BY <2>1, <2>2
<1>4. ASSUME NEW k \in 1 .. n - 2 PROVE Successive(watch'[k], watch'[k + 1])
  <2>1. watch'[k] = watch[k + 1] /\ watch'[k + 1] = watch[k + 2] /\ k + 1 \in 1 .. n - 1
    BY <1>1
  <2>2. QED
    BY <1>1, <2>1 DEF WatchInv
<1>5. \A k \in 1 .. n - 1 : FaithfulTo(watch'[k], object, uids)
  BY <1>1 DEF WatchInv
<1>6. QED
  BY <1>1, <1>2, <1>3, <1>4, <1>5 DEF WatchInv

(***************************************************************************)
(* A reconcile is over when the key has been added again, except where it  *)
(* found nothing to do, and where the interval did not ask for more.       *)
(***************************************************************************)
LEMMA OnlyTwoEndForGood ==
  ASSUME TypeOK, Reconcile, ~StartNothingToDo, ~PatchStatus
  PROVE  timer' \/ pc' # "idle"
<1>1. CASE StartReadFails
  BY <1>1 DEF StartReadFails, Finish
<1>2. CASE StartReconcile \/ StartWithoutCredentials
  BY <1>2 DEF StartReconcile, StartWithoutCredentials, FirstCall
<1>3. /\ \A changed : Fail(changed) => pc' # "idle"
      /\ \A changed, requeue : Return(changed, FALSE, requeue) => pc' # "idle"
      /\ \A step \in {"delete", "update", "post", "create"} :
             \A changed : Proceed(step, changed) => pc' # "idle"
      /\ Panic => timer'
  BY DEF Fail, Return, Proceed, Panic, Finish
<1>4. CASE GetInstance
  <2>1. ASSUME NEW changed, NEW config, NEW data, CheckDrift(changed, config, data)
        PROVE  timer' \/ pc' # "idle"
    BY <1>3, <2>1 DEF CheckDrift
  <2>2. ASSUME NEW found, NEW data, Examine(found, data) PROVE timer' \/ pc' # "idle"
    BY <1>3, <2>1, <2>2 DEF Examine
  <2>3. QED
    BY <1>3, <1>4, <2>2 DEF GetInstance
<1>5. CASE DeleteSecret \/ UpdateInstance \/ CreateSecret
  BY <1>3, <1>5 DEF DeleteSecret, UpdateInstance, CreateSecret, ForgetInstance
<1>6. CASE ListInstances \/ PostInstance
  BY <1>3, <1>6 DEF ListInstances, PostInstance
<1>7. QED
  BY <1>1, <1>2, <1>4, <1>5, <1>6 DEF Reconcile

AttendedInv == WatchInv /\ NeverUnattended

LEMMA AttendedKept ==
  ASSUME AttendedInv, UNCHANGED <<object, cache, watch, uids>>,
         \/ queued' \/ timer' \/ pc' # "idle"
         \/ (queued => queued') /\ (timer => timer') /\ UNCHANGED pc
  PROVE  AttendedInv'
<1>1. WatchInv'
  BY DEF AttendedInv, WatchInv
<1>2. NeverUnattended'
  BY DEF AttendedInv, NeverUnattended
<1>3. QED
  BY <1>1, <1>2 DEF AttendedInv

LEMMA StartAttended ==
  ASSUME TypeOK, AttendedInv, StartNothingToDo PROVE AttendedInv'
<1>1. UNCHANGED <<object, cache, watch, uids>>
  BY DEF StartNothingToDo, Start, kubernetesVars
<1>2. NeverUnattended'
  BY <1>1 DEF StartNothingToDo, Wanted, NeverUnattended, AttendedInv, WatchInv, FaithfulTo
<1>3. QED
  BY <1>1, <1>2 DEF AttendedInv, WatchInv

LEMMA PatchAttended ==
  ASSUME TypeOK, AttendedInv, PatchStatus PROVE AttendedInv'
<1>1. UNCHANGED <<cache, uids>>
  BY DEF PatchStatus
<1>2. CASE UNCHANGED <<object, watch>> /\ Finish(TRUE)
  BY <1>1, <1>2, AttendedKept DEF Finish
<1>3. ASSUME NEW reworded \in Rewordings, object # None, Store(Patched(reworded)),
             Finish(Again) \/ Finish(TRUE)
      PROVE  AttendedInv'
  <2> DEFINE version == Patched(reworded)
  <2>1. /\ version \in AuraInstance /\ version # None
        /\ version.uid = object.uid
        /\ version.generation = object.generation
        /\ version.spec = object.spec
    <3>1. reworded \in BOOLEAN /\ pc # "idle" /\ object \in AuraInstance
      BY <1>3 DEF Rewordings, PatchStatus, TypeOK, ControllerTypeOK, KubernetesTypeOK
    <3>2. Patched(reworded).spec = object.spec
      BY <3>1 DEF Patched, AuraInstance
    <3>3. QED
      BY <1>3, <3>1, <3>2, PatchedType, NoneAssumption
  <2>2. NextVersion(version)
    BY <1>1, <1>3, <2>1 DEF NextVersion
  <2>3. object' = version
    BY <1>3 DEF Store
  <2>4. WatchInv'
    <3> HIDE DEF version
    <3>1. Store(version)
      BY <1>3 DEF version
    <3>2. QED
      BY <1>1, <2>1, <2>2, <3>1, StoreWatch DEF AttendedInv
  <2> HIDE DEF version
  <2>5. object.spec.interval = "positive" => timer'
    BY <1>3 DEF Again, Finish
  <2>6. NeverUnattended'
    BY <2>1, <2>3, <2>5 DEF NeverUnattended
  <2>7. QED
    BY <2>4, <2>6 DEF AttendedInv
<1>4. QED
  BY <1>2, <1>3 DEF PatchStatus

LEMMA UserAttended ==
  ASSUME TypeOK, AttendedInv, UserCreates \/ UserEdits \/ UserDeletes
  PROVE  AttendedInv'
<1>1. UNCHANGED <<cache, queued, timer, pc>>
  BY DEF UserCreates, CreateAuraInstance, UserEdits, EditAuraInstance, UserDeletes,
         DeleteAuraInstance, workerVars, queueVars
<1>2. uids \in Nat /\ FaithfulTo(cache, object, uids)
      /\ (cache # None => cache \in AuraInstance)
      /\ (object # None => object \in AuraInstance)
  BY DEF TypeOK, KubernetesTypeOK, AttendedInv, WatchInv
<1>3. CASE UserCreates
  <2>1. PICK spec \in Specs : CreateAuraInstance(spec)
    BY <1>3 DEF UserCreates
  <2> DEFINE new == [uid |-> uids + 1, generation |-> 1, spec |-> spec,
                     status |-> EmptyStatus]
  <2>2. new \in AuraInstance
    BY <1>2, EmptyStatusType DEF AuraInstance
  <2>3. /\ Store(new) /\ uids' = uids + 1
        /\ object = None
        /\ new.uid = uids + 1
    BY <2>1 DEF CreateAuraInstance
  <2> HIDE DEF new
  <2>4. NextVersion(new) /\ object' = new
    BY <2>3 DEF NextVersion, Store
  <2>5. WatchInv'
    BY <1>1, <2>2, <2>3, <2>4, NoneAssumption, StoreWatch DEF AttendedInv
  <2>6. NeverUnattended'
    BY <1>1, <1>2, <2>3, <2>4 DEF NeverUnattended, FaithfulTo, AuraInstance
  <2>7. QED
    BY <2>5, <2>6 DEF AttendedInv
<1>4. CASE UserEdits
  <2>1. PICK spec \in Specs : EditAuraInstance(spec)
    BY <1>4 DEF UserEdits
  <2> DEFINE new == [object EXCEPT !.spec = spec, !.generation = @ + 1]
  <2>2. /\ object \in AuraInstance /\ object # None
        /\ UNCHANGED uids
        /\ Store(new)
    BY <1>2, <2>1 DEF EditAuraInstance
  <2>3. /\ new \in AuraInstance
        /\ new.uid = object.uid
        /\ new.generation = object.generation + 1
    <3>1. new = [object EXCEPT !.spec = spec, !.generation = object.generation + 1]
      BY <2>2 DEF AuraInstance
    <3>2. object.generation + 1 \in Nat
      BY <2>2 DEF AuraInstance
    <3> HIDE DEF new
    <3>3. QED
      BY <2>2, <3>1, <3>2 DEF AuraInstance
  <2> HIDE DEF new
  <2>4. object.generation \in Nat /\ object' = new
    BY <2>2 DEF AuraInstance, Store
  <2>5. NextVersion(new)
    BY <2>2, <2>3, <2>4 DEF NextVersion
  <2>6. WatchInv'
    BY <1>1, <2>2, <2>3, <2>5, StoreWatch DEF AttendedInv
  <2>7. NeverUnattended'
    BY <1>1, <1>2, <2>2, <2>3, <2>4 DEF NeverUnattended, FaithfulTo, AuraInstance
  <2>8. QED
    BY <2>6, <2>7 DEF AttendedInv
<1>5. CASE UserDeletes
  <2>1. Store(None) /\ object' = None /\ UNCHANGED uids /\ NextVersion(None)
    BY <1>5 DEF UserDeletes, DeleteAuraInstance, Store, NextVersion
  <2>2. WatchInv'
    BY <1>1, <2>1, StoreWatch DEF AttendedInv
  <2>3. QED
    BY <2>1, <2>2 DEF AttendedInv, NeverUnattended
<1>6. QED
  BY <1>3, <1>4, <1>5

LEMMA CacheSyncedAttended ==
  ASSUME TypeOK, AttendedInv, CacheSynced PROVE AttendedInv'
<1>1. /\ SyncCache
      /\ UNCHANGED <<object, pc, timer>>
      /\ queued' = (queued \/ GenerationChanged(cache, cache'))
  BY DEF CacheSynced, SyncCache
<1>2. WatchInv'
  BY <1>1, SyncCacheWatch DEF AttendedInv
<1>3. Successive(cache, cache')
  BY <1>1 DEF SyncCache, AttendedInv, WatchInv, TypeOK, KubernetesTypeOK
<1>4. NeverUnattended'
  BY <1>1, <1>3 DEF GenerationChanged, Successive, NeverUnattended, AttendedInv
<1>5. QED
  BY <1>2, <1>4 DEF AttendedInv

LEMMA CrashAttended ==
  ASSUME TypeOK, AttendedInv, CrashRestart PROVE AttendedInv'
<1>1. /\ UNCHANGED <<object, uids>>
      /\ cache' = object /\ watch' = <<>>
      /\ queued' = (object # None)
  BY DEF CrashRestart, Relist
<1>2. object # None => object.uid \in Nat /\ object.generation \in Nat
  BY DEF TypeOK, KubernetesTypeOK, AuraInstance
<1>3. WatchInv'
  BY <1>1, <1>2 DEF AttendedInv, WatchInv, FaithfulTo
<1>4. QED
  BY <1>1, <1>3 DEF AttendedInv, NeverUnattended

(***************************************************************************)
(* For any users, troubles, lags and bounds, an AuraInstance with an       *)
(* interval whose specification the cache knows is never left without a    *)
(* waiting key, a pending timer or a running reconcile (lines 145-164).    *)
(***************************************************************************)
THEOREM NeverForgotten == Spec => []NeverUnattended
<1>1. Init => AttendedInv
  BY DEF Init, KubernetesInit, AttendedInv, WatchInv, NeverUnattended, FaithfulTo
<1>2. TypeOK /\ AttendedInv /\ [Next]_vars => AttendedInv'
  <2> SUFFICES ASSUME TypeOK, AttendedInv, [Next]_vars PROVE AttendedInv'
    OBVIOUS
  <2>1. CASE StartNothingToDo
    BY <2>1, StartAttended
  <2>2. CASE PatchStatus
    BY <2>2, PatchAttended
  <2>3. CASE Reconcile /\ ~StartNothingToDo /\ ~PatchStatus
    <3>1. UNCHANGED <<object, cache, watch, uids>>
      BY <2>3 DEF Reconcile, Start, StartReadFails, StartReconcile,
                  StartWithoutCredentials, GetInstance, DeleteSecret, UpdateInstance,
                  ListInstances, PostInstance, CreateSecret, kubernetesVars
    <3>2. QED
      BY <2>3, <3>1, OnlyTwoEndForGood, AttendedKept
  <2>4. CASE TimerFires
    BY <2>4, AttendedKept DEF TimerFires, kubernetesVars
  <2>5. CASE CrashRestart
    BY <2>5, CrashAttended
  <2>6. CASE Environment
    <3>1. CASE UserCreates \/ UserEdits \/ UserDeletes
      BY <3>1, UserAttended
    <3>2. CASE CacheSynced
      BY <3>2, CacheSyncedAttended
    <3>3. CASE \/ SecretTampered \/ SecretCollected \/ SecretSynced
               \/ CredentialsSynced \/ CredentialsEventDropped
               \/ AuraSettles \/ AuraDisturbed \/ RequestArrivesLate
      <4>1. UNCHANGED <<object, cache, watch, uids, pc, timer>>
        BY <3>3 DEF SecretTampered, PutForeignSecret, RemoveSecret, SecretCollected,
                    CollectSecret, SecretSynced, SyncSecret, CredentialsSynced,
                    CredentialsEventDropped, SyncCredentials, AuraSettles, AuraDisturbed,
                    RequestArrivesLate, kubernetesVars, workerVars, queueVars
      <4>2. queued => queued'
        BY <3>3 DEF SecretTampered, SecretCollected, SecretSynced, CredentialsSynced,
                    CredentialsEventDropped, AuraSettles, AuraDisturbed,
                    RequestArrivesLate, queueVars
      <4>3. QED
        BY <4>1, <4>2, AttendedKept
    <3>4. QED
      BY <2>6, <3>1, <3>2, <3>3 DEF Environment
  <2>7. CASE UNCHANGED vars
    BY <2>7, AttendedKept DEF vars, kubernetesVars, workerVars, queueVars
  <2>8. QED
    BY <2>1, <2>2, <2>3, <2>4, <2>5, <2>6, <2>7 DEF Next
<1>3. AttendedInv => NeverUnattended
  BY DEF AttendedInv
<1>4. QED
  BY <1>1, <1>2, <1>3, Typing, PTL DEF Spec

================================================================================
