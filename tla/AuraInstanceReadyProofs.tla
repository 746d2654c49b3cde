------------------------- MODULE AuraInstanceReadyProofs -------------------------
(***************************************************************************)
(* What Ready = True says of the instance's configuration, for all ids,    *)
(* users, incarnations and lags, as long as nobody but the controller      *)
(* changes the configuration: Aura's console does not (drift), and no      *)
(* request arrives after its sender has given up on it (inflight).         *)
(*                                                                         *)
(* The conditions travel in copies, through patches that carry them only   *)
(* when they differ from another copy.  So what has to be known is for     *)
(* which generation every copy speaks, and, of the reconcile at work, that *)
(* it sends conditions of its own only after it has compared.              *)
(***************************************************************************)
EXTENDS AuraInstanceGenerationProofs

Settled(conditions) ==
    /\ conditions.Ready # None
    /\ conditions.Ready.status = "True"
    /\ conditions.Reconciling = None

ConfiguredAs(config) ==
    \A id \in InstanceIds : Live(id) => remote[id].config = config

\* A version speaks of no later generation than its own.
Modest(version) ==
    uids = 1 /\ version # None /\ version.status.conditions.Ready # None =>
        version.status.conditions.Ready.generation <= version.generation

\* The reconcile at work: it keeps the conditions it began with, or says that it
\* is changing something, or failed, or has found what it asked for.
ReviewInv ==
    LET before == snapshot.status.conditions
        now == instance.status.conditions IN
    /\ pc # "idle" => Modest(instance)
    /\ pc \in {"get", "delete", "list"} => now = before
    /\ pc \in {"post", "create", "update"} => now.Reconciling # None
    /\ pc = "patch" =>
           \/ ~err /\ now = before
           \/ ~Settled(now)
           \/ /\ now.Ready.generation = instance.generation
              /\ ConfiguredAs(instance.spec.config)

ModestInv ==
    /\ Modest(object)
    /\ Modest(cache)
    /\ \A k \in 1 .. Len(watch) : Modest(watch[k])

\* What the first object says about readiness, the cache has seen, and no
\* reconcile works on anything older.
SeenInv ==
    object # None /\ uids = 1 /\ object.status.conditions.Ready # None =>
        LET generation == object.status.conditions.Ready.generation IN
        /\ cache # None /\ generation <= cache.generation
        /\ pc # "idle" => generation <= instance.generation

\* ReadyMeansConfigured, of every instance the object may come to name.
ClaimInv ==
    /\ object # None
    /\ uids = 1
    /\ Settled(object.status.conditions)
    /\ object.status.conditions.Ready.generation = object.generation
    => ConfiguredAs(object.spec.config)

\* Every request was awaited.
TimelyInv == NoneLate /\ orphans = {}

ReadyInv == ReviewInv /\ ModestInv /\ SeenInv /\ ClaimInv /\ TimelyInv

--------------------------------------------------------------------------------

(***************************************************************************)
(* What the helpers do to the conditions (api/v1beta1/types.go, lines      *)
(* 25-44; aurainstance_types.go, lines 125-146).                           *)
(***************************************************************************)
LEMMA SetConditionSets ==
  ASSUME NEW set \in AuraInstance, NEW condition \in {"Ready", "Reconciling"},
         NEW status \in {"True", "False"}, NEW reason \in Reasons,
         NEW generation \in Nat
  PROVE  setResourceCondition(set, condition, status, reason, generation).status.conditions
           = [set.status.conditions EXCEPT ![condition] =
                 [status |-> status, reason |-> reason, generation |-> generation]]
<1> DEFINE conditions ==
             [set.status.conditions EXCEPT ![condition] =
                 [status |-> status, reason |-> reason, generation |-> generation]]
<1>1. setResourceCondition(set, condition, status, reason, generation)
        = [set EXCEPT !.status.conditions = conditions]
  BY DEF setResourceCondition, AuraInstance, AuraInstanceStatus
<1>2. conditions \in Conditions
  <2>1. set.status.conditions \in Conditions
    BY DEF AuraInstance, AuraInstanceStatus
  <2>2. QED
    BY <2>1 DEF Conditions, Condition
<1> HIDE DEF conditions
<1>3. [set EXCEPT !.status.conditions = conditions].status.conditions = conditions
  BY <1>2 DEF AuraInstance, AuraInstanceStatus
<1>4. QED
  BY <1>1, <1>3 DEF conditions

LEMMA ReadySets ==
  ASSUME NEW set \in AuraInstance,
         NEW status \in {"True", "False"}, NEW reason \in Reasons
  PROVE  LET conditions == AuraInstanceReady(set, status, reason).status.conditions IN
         /\ conditions.Ready.status = status
         /\ conditions.Ready.generation = set.generation
         /\ conditions.Reconciling = set.status.conditions.Reconciling
<1> DEFINE new == [status |-> status, reason |-> reason, generation |-> set.generation]
<1>1. set.status.conditions \in Conditions /\ set.generation \in Nat
  BY DEF AuraInstance, AuraInstanceStatus
<1>2. AuraInstanceReady(set, status, reason).status.conditions
        = [set.status.conditions EXCEPT !["Ready"] = new]
  BY <1>1, SetConditionSets DEF AuraInstanceReady
<1>3. new.status = status /\ new.generation = set.generation
  OBVIOUS
<1> HIDE DEF new
<1>4. QED
  BY <1>1, <1>2, <1>3 DEF Conditions

LEMMA ReconcilingSets ==
  ASSUME NEW set \in AuraInstance,
         NEW status \in {"True", "False"}, NEW reason \in Reasons
  PROVE  LET conditions == AuraInstanceReconciling(set, status, reason).status.conditions IN
         /\ conditions.Ready = set.status.conditions.Ready
         /\ conditions.Reconciling # None
<1> DEFINE new == [status |-> status, reason |-> reason, generation |-> set.generation]
<1>1. set.status.conditions \in Conditions /\ set.generation \in Nat
  BY DEF AuraInstance, AuraInstanceStatus
<1>2. new \in Condition
  BY <1>1 DEF Condition
<1>3. new # None
  BY <1>2, NoneAssumption
<1>4. AuraInstanceReconciling(set, status, reason).status.conditions
        = [set.status.conditions EXCEPT !["Reconciling"] = new]
  BY <1>1, SetConditionSets DEF AuraInstanceReconciling
<1> HIDE DEF new
<1>5. QED
  BY <1>1, <1>3, <1>4 DEF Conditions

LEMMA DeleteReconcilingSets ==
  ASSUME NEW set \in AuraInstance
  PROVE  DeleteReconciling(set).status.conditions.Ready = set.status.conditions.Ready
  BY DEF DeleteReconciling, AuraInstance, AuraInstanceStatus, Conditions

LEMMA ReviewedSets ==
  ASSUME NEW changed \in AuraInstance, NEW failed \in BOOLEAN
  PROVE  LET conditions == Reviewed(changed, failed).status.conditions IN
         IF failed THEN /\ conditions.Ready.status = "False"
                        /\ conditions.Ready.generation = changed.generation
                   ELSE conditions = changed.status.conditions
<1> DEFINE failure == AuraInstanceReady(changed, "False", "ReconciliationFailed")
<1>1. failure \in AuraInstance
  BY ReadyDerived DEF Reasons, Derived
<1>2. /\ failure.status.conditions.Ready.status = "False"
      /\ failure.status.conditions.Ready.generation = changed.generation
  BY ReadySets DEF Reasons
<1> HIDE DEF failure
<1>3. CASE failed
  <2>1. Reviewed(changed, failed)
          = [failure EXCEPT !.status.observedGeneration = changed.generation]
    BY <1>3 DEF Reviewed, failure
  <2>2. Reviewed(changed, failed).status.conditions = failure.status.conditions
    BY <1>1, <2>1 DEF AuraInstance, AuraInstanceStatus
  <2>3. QED
    BY <1>2, <1>3, <2>2
<1>4. CASE ~failed
  BY <1>4 DEF Reviewed, AuraInstance, AuraInstanceStatus
<1>5. QED
  BY <1>3, <1>4

--------------------------------------------------------------------------------

(***************************************************************************)
(* The instances, as long as only the controller configures them.          *)
(***************************************************************************)
Undisturbed == Troubles \cap {"drift", "inflight"} = {}

ConfiguredAfter(config) ==
    \A id \in InstanceIds : Live(id)' => remote'[id].config = config

\* No instance appears, and those there are keep their configuration.
ConfigsKept ==
    \A id \in InstanceIds : Live(id)' => Live(id) /\ remote'[id].config = remote[id].config

LEMMA RemoteConfigsKept ==
  ASSUME UNCHANGED remote PROVE ConfigsKept
  BY DEF ConfigsKept, Live

LEMMA ConfiguredStays ==
  ASSUME ConfigsKept, NEW config, ConfiguredAs(config) PROVE ConfiguredAfter(config)
  BY DEF ConfigsKept, ConfiguredAs, ConfiguredAfter

LEMMA AuraConfigsKept ==
  ASSUME Undisturbed, TypeOK, TimelyInv, AuraSettles \/ AuraDisturbed
  PROVE  ConfigsKept /\ TimelyInv'
<1>1. PICK id \in InstanceIds : Settle(id) \/ Occupy(id) \/ Destroy(id)
  BY DEF AuraSettles, AuraDisturbed, Disturb, Undisturbed
<1>2. ASSUME NEW other \in InstanceIds
      PROVE  /\ remote'[other].late = remote[other].late
             /\ Live(other)' => Live(other) /\ remote'[other].config = remote[other].config
  BY <1>1, <1>2 DEF Settle, Occupy, Destroy, Live, TypeOK, CloudTypeOK, Remote
<1>3. UNCHANGED orphans
  BY <1>1 DEF Settle, Occupy, Destroy
<1>4. QED
  BY <1>2, <1>3 DEF ConfigsKept, TimelyInv, NoneLate

\* There is one instance, so the update configures all there are ...
LEMMA UpdateConfigures ==
  ASSUME Undisturbed, TypeOK, SingleCreation, TimelyInv, UpdateInstance
  PROVE  /\ ConfigsKept \/ ConfiguredAfter(instance.spec.config)
         /\ TimelyInv'
<1> DEFINE id == instance.status.instanceID
<1> DEFINE config == instance.spec.config
<1>1. id \in InstanceIds
  BY DEF UpdateInstance, TypeOK, ControllerTypeOK
<1>2. /\ UNCHANGED orphans
      /\ UNCHANGED remote \/ Reconfigure(id, config)
  BY DEF UpdateInstance, cloudVars, Disturb, Undisturbed
<1>3. CASE Reconfigure(id, config)
  <2>1. PICK state \in {"running", "busy"} :
          remote' = [remote EXCEPT ![id].config = config, ![id].state = state]
    BY <1>3 DEF Reconfigure
  <2>2. remote \in [InstanceIds -> Remote] /\ Live(id)
    BY <1>3 DEF TypeOK, CloudTypeOK, Reconfigure, Live
  <2> HIDE DEF id, config
  <2>3. ASSUME NEW other \in InstanceIds
        PROVE  /\ remote'[other].late = remote[other].late
               /\ Live(other)' => Live(other)
    BY <1>1, <2>1, <2>2, <2>3 DEF Live, Remote
  <2>4. remote'[id].config = config
    BY <1>1, <2>1, <2>2 DEF Remote
  <2>5. \A other \in InstanceIds : Live(other) => other = id
    BY <1>1, <2>2 DEF SingleCreation, TimelyInv, NoneLate
  <2>6. QED
    BY <1>2, <2>3, <2>4, <2>5 DEF ConfiguredAfter, TimelyInv, NoneLate, config
<1>4. QED
  BY <1>2, <1>3, RemoteConfigsKept DEF TimelyInv, NoneLate

LEMMA ProvisionSets ==
  ASSUME TypeOK, NEW id \in InstanceIds, NEW config, NEW late, Provision(id, config, late)
  PROVE  /\ remote'[id] = [state |-> "creating", config |-> config, late |-> late]
         /\ \A other \in InstanceIds : other # id => remote'[other] = remote[other]
  BY DEF Provision, TypeOK, CloudTypeOK

\* ... and there is none before the creation.
LEMMA PostConfigures ==
  ASSUME Undisturbed, TypeOK, SingleCreationInv, TimelyInv, PostInstance
  PROVE  /\ ConfigsKept \/ ConfiguredAfter(instance.spec.config)
         /\ TimelyInv'
<1> DEFINE config == instance.spec.config
<1>1. pc = "post" /\ UNCHANGED orphans
  BY DEF PostInstance, cloudVars, Disturb, Undisturbed
<1>2. \A id \in InstanceIds : ~Live(id)
  BY <1>1 DEF SingleCreationInv, TimelyInv, NoneLate
<1>3. ASSUME NEW id \in InstanceIds, Provision(id, config, FALSE)
      PROVE  ConfiguredAfter(config) /\ TimelyInv'
  <2> HIDE DEF config
  <2>1. /\ remote'[id] = [state |-> "creating", config |-> config, late |-> FALSE]
        /\ \A other \in InstanceIds : other # id => remote'[other] = remote[other]
    BY <1>3, ProvisionSets
  <2>2. remote'[id].config = config /\ remote'[id].late = FALSE
    BY <2>1
  <2>3. QED
    BY <1>1, <1>2, <2>1, <2>2 DEF ConfiguredAfter, TimelyInv, NoneLate, Live
<1>4. CASE UNCHANGED remote
  BY <1>1, <1>4, RemoteConfigsKept DEF TimelyInv, NoneLate
<1>5. QED
  BY <1>3, <1>4 DEF PostInstance, cloudVars
--------------------------------------------------------------------------------

(***************************************************************************)
(* Reconcile, call by call.                                                *)
(***************************************************************************)
LEMMA ReturnReviews ==
  ASSUME NEW changed \in AuraInstance, NEW failed \in BOOLEAN, NEW requeue,
         UNCHANGED uids, Modest(changed),
         \/ failed
         \/ changed.status.conditions = snapshot.status.conditions
         \/ ~Settled(changed.status.conditions)
         \/ /\ changed.status.conditions.Ready.generation = changed.generation
            /\ ConfiguredAfter(changed.spec.config),
         Return(changed, failed, requeue)
  PROVE  ReviewInv'
<1>1. /\ pc' = "patch" /\ instance' = Reviewed(changed, failed)
      /\ err' = failed /\ snapshot' = snapshot
  BY DEF Return
<1>2. /\ instance'.generation = changed.generation
      /\ instance'.spec = changed.spec
      /\ changed.generation \in Nat
  BY <1>1, ReviewedDerived DEF Derived, AuraInstance
<1>3. CASE failed
  <2>1. /\ instance'.status.conditions.Ready.status = "False"
        /\ instance'.status.conditions.Ready.generation = changed.generation
    BY <1>1, <1>3, ReviewedSets
  <2>2. QED
    BY <1>1, <1>2, <2>1 DEF ReviewInv, Modest, Settled
<1>4. CASE ~failed
  <2>1. instance'.status.conditions = changed.status.conditions
    BY <1>1, <1>4, ReviewedSets
  <2>2. Modest(instance)'
    BY <1>2, <2>1, NoneAssumption DEF Modest
  <2>3. QED
    BY <1>1, <1>2, <1>4, <2>1, <2>2 DEF ReviewInv, Settled, ConfiguredAs, ConfiguredAfter
<1>5. QED
  BY <1>3, <1>4

LEMMA ProceedReviews ==
  ASSUME NEW changed, NEW step \in {"delete", "post", "create", "update"},
         UNCHANGED uids, Modest(changed),
         IF step = "delete"
         THEN changed.status.conditions = snapshot.status.conditions
         ELSE changed.status.conditions.Reconciling # None,
         Proceed(step, changed)
  PROVE  ReviewInv'
<1>1. pc' = step /\ instance' = changed /\ snapshot' = snapshot
  BY DEF Proceed
<1>2. Modest(instance)'
  BY <1>1 DEF Modest
<1>3. QED
  BY <1>1, <1>2 DEF ReviewInv

LEMMA FinishReviews == ASSUME NEW again, Finish(again) PROVE ReviewInv'
  BY DEF Finish, ReviewInv

LEMMA PanicReviews == ASSUME Panic PROVE ReviewInv'
  BY FinishReviews DEF Panic

LEMMA FailReviews ==
  ASSUME TypeOK, ReviewInv, pc # "idle", UNCHANGED uids, Fail(instance)
  PROVE  ReviewInv'
<1>1. instance \in AuraInstance /\ Modest(instance)
  BY DEF TypeOK, ControllerTypeOK, ReviewInv
<1>2. QED
  BY <1>1, ReturnReviews DEF Fail

LEMMA StartReviews ==
  ASSUME TypeOK, Modest(cache),
         \/ StartNothingToDo \/ StartReadFails
         \/ StartReconcile \/ StartWithoutCredentials
  PROVE  ReviewInv'
<1>1. UNCHANGED uids
  BY DEF StartNothingToDo, StartReadFails, StartReconcile, StartWithoutCredentials,
         Start, kubernetesVars
<1>2. CASE StartNothingToDo \/ StartReadFails
  BY <1>2, FinishReviews DEF StartNothingToDo, StartReadFails
<1>3. CASE StartReconcile
  BY <1>1, <1>3 DEF StartReconcile, FirstCall, ReviewInv, Modest
<1>4. CASE StartWithoutCredentials
  <2>1. /\ cache \in AuraInstance
        /\ pc' = "patch" /\ instance' = Reviewed(cache, TRUE)
    BY <1>4 DEF StartWithoutCredentials, Wanted, TypeOK, KubernetesTypeOK
  <2>2. /\ instance'.generation = cache.generation /\ cache.generation \in Nat
        /\ instance'.status.conditions.Ready.status = "False"
        /\ instance'.status.conditions.Ready.generation = cache.generation
    BY <2>1, ReviewedDerived, ReviewedSets DEF Derived, AuraInstance
  <2>3. Modest(instance)'
    BY <2>2 DEF Modest
  <2>4. ~Settled(instance'.status.conditions)
    BY <2>2 DEF Settled
  <2>5. QED
    BY <2>1, <2>3, <2>4 DEF ReviewInv, Settled
<1>5. QED
  BY <1>2, <1>3, <1>4

LEMMA CheckDriftReviews ==
  ASSUME NEW changed \in AuraInstance, NEW config, NEW data,
         UNCHANGED uids, Modest(changed),
         \/ ~Settled(changed.status.conditions)
         \/ /\ changed.status.conditions.Ready.generation = changed.generation
            /\ ConfiguredAfter(config),
         CheckDrift(changed, config, data)
  PROVE  ReviewInv'
<1> DEFINE updating == AuraInstanceReconciling(changed, "True", "UpdatingInstance")
<1>1. CASE changed.spec.config = config /\ Return(changed, FALSE, "none")
  BY <1>1, ReturnReviews
<1>2. CASE Proceed("update", updating)
  <2>1. /\ updating \in AuraInstance /\ updating.generation = changed.generation
        /\ updating.status.conditions.Ready = changed.status.conditions.Ready
        /\ updating.status.conditions.Reconciling # None
    BY ReconcilingDerived, ReconcilingSets DEF Reasons, Derived
  <2> HIDE DEF updating
  <2>2. Modest(updating)
    BY <2>1, NoneAssumption DEF Modest
  <2>3. QED
    BY <1>2, <2>1, <2>2, ProceedReviews
<1>3. QED
  BY <1>1, <1>2, PanicReviews DEF CheckDrift
LEMMA ModestNow ==
  ASSUME NEW set \in AuraInstance, set.status.conditions.Ready.generation = set.generation
  PROVE  Modest(set)
<1>1. set.generation \in Nat
  BY DEF AuraInstance
<1>2. QED
  BY <1>1 DEF Modest

LEMMA ModestLike ==
  ASSUME NEW set, NEW other \in AuraInstance, Modest(other),
         set.generation = other.generation,
         set.status.conditions.Ready = other.status.conditions.Ready
  PROVE  Modest(set)
  BY NoneAssumption DEF Modest

LEMMA ExamineReviews ==
  ASSUME TypeOK, ReviewInv, SingleCreation, TimelyInv, pc = "get",
         UNCHANGED <<uids, remote>>,
         NEW id \in InstanceIds, NEW data, Examine(remote[id], data)
  PROVE  ReviewInv'
<1> DEFINE found == remote[id]
<1> DEFINE read == [instance EXCEPT !.status.instanceStatus = found.state]
<1> DEFINE cleared == DeleteReconciling(read)
<1> DEFINE creating == AuraInstanceReconciling(read, "True", "InstanceCreating")
<1> DEFINE running == AuraInstanceReady(cleared, "True", "InstanceRunning")
<1> DEFINE notReady == AuraInstanceReady(read, "False", "InstanceNotReady")
<1>1. instance \in AuraInstance /\ Modest(instance)
  BY DEF TypeOK, ControllerTypeOK, ReviewInv
<1>2. found.state \in InstanceStatuses
  BY DEF Examine, InstanceStatuses
<1>3. /\ read \in AuraInstance /\ read.generation = instance.generation
      /\ read.status.conditions = instance.status.conditions
  BY <1>1, <1>2 DEF AuraInstance, AuraInstanceStatus
<1>4. \/ Return(creating, FALSE, "requeueAfter")
      \/ found.state = "running" /\ CheckDrift(running, found.config, data)
      \/ CheckDrift(notReady, found.config, data)
  BY DEF Examine
<1> HIDE DEF read
<1>5. Modest(read)
  BY <1>1, <1>3, ModestLike
<1>6. cleared \in AuraInstance
  BY <1>3, DeleteReconcilingDerived DEF Derived
<1>7. /\ creating \in AuraInstance /\ Modest(creating)
      /\ ~Settled(creating.status.conditions)
  <2>1. /\ creating \in AuraInstance /\ creating.generation = read.generation
        /\ creating.status.conditions.Ready = read.status.conditions.Ready
        /\ creating.status.conditions.Reconciling # None
    BY <1>3, ReconcilingDerived, ReconcilingSets DEF Reasons, Derived
  <2> HIDE DEF creating
  <2>2. QED
    BY <1>3, <1>5, <2>1, ModestLike DEF Settled
<1>8. /\ running \in AuraInstance /\ Modest(running)
      /\ running.status.conditions.Ready.generation = running.generation
  <2> HIDE DEF cleared
  <2>1. /\ running \in AuraInstance
        /\ running.status.conditions.Ready.generation = running.generation
    BY <1>6, ReadyDerived, ReadySets DEF Reasons, Derived
  <2> HIDE DEF running
  <2>2. QED
    BY <2>1, ModestNow
<1>9. /\ notReady \in AuraInstance /\ Modest(notReady)
      /\ ~Settled(notReady.status.conditions)
  <2>1. /\ notReady \in AuraInstance
        /\ notReady.status.conditions.Ready.generation = notReady.generation
        /\ notReady.status.conditions.Ready.status = "False"
    BY <1>3, ReadyDerived, ReadySets DEF Reasons, Derived
  <2> HIDE DEF notReady
  <2>2. QED
    BY <2>1, ModestNow DEF Settled
<1> HIDE DEF cleared, creating, running, notReady
<1>10. CASE Return(creating, FALSE, "requeueAfter")
  BY <1>7, <1>10, ReturnReviews
<1>11. CASE found.state = "running" /\ CheckDrift(running, found.config, data)
  <2>1. \A other \in InstanceIds : Live(other) => other = id
    BY <1>11 DEF SingleCreation, TimelyInv, NoneLate, Live
  <2>2. ConfiguredAfter(found.config)
    BY <2>1 DEF ConfiguredAfter, Live
  <2>3. QED
    BY <1>8, <1>11, <2>2, CheckDriftReviews
<1>12. CASE CheckDrift(notReady, found.config, data)
  BY <1>9, <1>12, CheckDriftReviews
<1>13. QED
  BY <1>4, <1>10, <1>11, <1>12

LEMMA GetInstanceReviews ==
  ASSUME TypeOK, ReviewInv, SingleCreation, TimelyInv, GetInstance
  PROVE  ReviewInv'
<1>1. /\ pc = "get" /\ UNCHANGED <<uids, remote>>
      /\ Modest(instance)
      /\ instance.status.conditions = snapshot.status.conditions
      /\ instance.status.instanceID \in InstanceIds
  BY DEF GetInstance, kubernetesVars, cloudVars, ReviewInv, TypeOK, ControllerTypeOK
<1>2. \/ Fail(instance) \/ Panic \/ Proceed("delete", instance)
      \/ \E data : Examine(remote[instance.status.instanceID], data)
  BY DEF GetInstance
<1>3. Proceed("delete", instance) => ReviewInv'
  BY <1>1, ProceedReviews
<1>4. QED
  BY <1>1, <1>2, <1>3, FailReviews, PanicReviews, ExamineReviews

LEMMA DeleteSecretReviews ==
  ASSUME TypeOK, ReviewInv, DeleteSecret PROVE ReviewInv'
<1> DEFINE forgotten == [instance EXCEPT !.status.instanceID = None,
                                         !.status.connectionSecret = None]
<1>1. /\ pc = "delete" /\ UNCHANGED uids
      /\ instance \in AuraInstance /\ Modest(instance)
      /\ instance.status.conditions = snapshot.status.conditions
  BY DEF DeleteSecret, TypeOK, ControllerTypeOK, ReviewInv
<1>2. /\ forgotten \in AuraInstance /\ forgotten.generation = instance.generation
      /\ forgotten.status.conditions = instance.status.conditions
  BY <1>1 DEF AuraInstance, AuraInstanceStatus
<1> HIDE DEF forgotten
<1>3. ForgetInstance => ReviewInv'
  BY <1>1, <1>2, ModestLike, ReturnReviews DEF ForgetInstance, forgotten
<1>4. QED
  BY <1>1, <1>3, FailReviews DEF DeleteSecret

LEMMA UpdateInstanceReviews ==
  ASSUME TypeOK, ReviewInv, UpdateInstance PROVE ReviewInv'
<1>1. /\ pc = "update" /\ UNCHANGED uids
      /\ instance \in AuraInstance /\ Modest(instance)
      /\ ~Settled(instance.status.conditions)
  BY DEF UpdateInstance, kubernetesVars, TypeOK, ControllerTypeOK, ReviewInv, Settled
<1>2. Return(instance, FALSE, "none") => ReviewInv'
  BY <1>1, ReturnReviews
<1>3. QED
  BY <1>1, <1>2, FailReviews DEF UpdateInstance

LEMMA ListInstancesReviews ==
  ASSUME TypeOK, ReviewInv, ListInstances PROVE ReviewInv'
<1> DEFINE creating == AuraInstanceReconciling(instance, "True", "CreatingInstance")
<1>1. /\ pc = "list" /\ UNCHANGED uids
      /\ instance \in AuraInstance /\ Modest(instance)
      /\ instance.status.conditions = snapshot.status.conditions
  BY DEF ListInstances, kubernetesVars, TypeOK, ControllerTypeOK, ReviewInv
<1>2. ASSUME NEW id \in Named,
             Return([instance EXCEPT !.status.instanceID = id], FALSE, "requeue")
      PROVE  ReviewInv'
  <2> DEFINE adopted == [instance EXCEPT !.status.instanceID = id]
  <2>1. /\ adopted \in AuraInstance /\ adopted.generation = instance.generation
        /\ adopted.status.conditions = instance.status.conditions
    BY <1>1 DEF AuraInstance, AuraInstanceStatus, Named
  <2> HIDE DEF adopted
  <2>2. QED
    BY <1>1, <1>2, <2>1, ModestLike, ReturnReviews DEF adopted
<1>3. Proceed("post", creating) => ReviewInv'
  <2>1. /\ creating.generation = instance.generation
        /\ creating.status.conditions.Ready = instance.status.conditions.Ready
        /\ creating.status.conditions.Reconciling # None
    BY <1>1, ReconcilingDerived, ReconcilingSets DEF Reasons, Derived
  <2> HIDE DEF creating
  <2>2. QED
    BY <1>1, <2>1, ModestLike, ProceedReviews
<1>4. QED
  BY <1>1, <1>2, <1>3, FailReviews, PanicReviews DEF ListInstances

LEMMA PostInstanceReviews ==
  ASSUME TypeOK, ReviewInv, PostInstance PROVE ReviewInv'
<1> DEFINE created(id) ==
             [instance EXCEPT !.status.instanceID = id,
                              !.status.connectionSecret = connectionSecretName(instance)]
<1>1. /\ pc = "post" /\ UNCHANGED uids
      /\ instance \in AuraInstance /\ Modest(instance)
      /\ instance.status.conditions.Reconciling # None
  BY DEF PostInstance, kubernetesVars, TypeOK, ControllerTypeOK, ReviewInv
<1>2. ASSUME NEW id \in InstanceIds, Proceed("create", created(id))
      PROVE  ReviewInv'
  <2>1. /\ created(id).generation = instance.generation
        /\ created(id).status.conditions = instance.status.conditions
    BY <1>1 DEF AuraInstance, AuraInstanceStatus
  <2> HIDE DEF created
  <2>2. Modest(created(id))
    BY <1>1, <2>1, ModestLike
  <2>3. QED
    BY <1>1, <1>2, <2>1, <2>2, ProceedReviews
<1>3. QED
  BY <1>1, <1>2, FailReviews, PanicReviews DEF PostInstance

LEMMA CreateSecretReviews ==
  ASSUME TypeOK, ReviewInv, CreateSecret PROVE ReviewInv'
<1>1. /\ pc = "create" /\ UNCHANGED uids
      /\ instance \in AuraInstance /\ Modest(instance)
      /\ ~Settled(instance.status.conditions)
  BY DEF CreateSecret, TypeOK, ControllerTypeOK, ReviewInv, Settled
<1>2. Return(instance, FALSE, "requeueAfter") => ReviewInv'
  BY <1>1, ReturnReviews
<1>3. QED
  BY <1>1, <1>2, FailReviews DEF CreateSecret
--------------------------------------------------------------------------------

(***************************************************************************)
(* The claim outlives a step that changes no configuration, or changes it  *)
(* to what the copy at work asks for: a copy older than the claim would be *)
(* older than what the cache has seen.                                     *)
(***************************************************************************)
LEMMA ClaimKept ==
  ASSUME TypeOK, GenerationInv, SeenInv, ClaimInv, UNCHANGED <<object, uids>>,
         ConfigsKept \/ (pc # "idle" /\ ConfiguredAfter(instance.spec.config))
  PROVE  ClaimInv'
<1> SUFFICES ASSUME object # None, uids = 1,
                    Settled(object.status.conditions),
                    object.status.conditions.Ready.generation = object.generation
             PROVE  ConfiguredAfter(object.spec.config)
  BY DEF ClaimInv, ConfiguredAs, ConfiguredAfter
<1>1. CASE ConfigsKept
  BY <1>1, ConfiguredStays DEF ClaimInv
<1>2. CASE pc # "idle" /\ ConfiguredAfter(instance.spec.config)
  <2>1. object \in AuraInstance /\ instance \in AuraInstance /\ instance # None
    BY <1>2, NoneAssumption DEF TypeOK, KubernetesTypeOK, ControllerTypeOK
  <2>2. object.generation \in Nat /\ instance.generation \in Nat
    BY <2>1 DEF AuraInstance
  <2>3. object.generation <= instance.generation
    BY <1>2 DEF SeenInv, Settled
  <2>4. /\ instance.generation <= object.generation
        /\ instance.generation = object.generation => instance.spec = object.spec
    BY <2>1 DEF GenerationInv, Dated
  <2>5. instance.spec = object.spec
    BY <2>2, <2>3, <2>4
  <2>6. QED
    BY <1>2, <2>5
<1>3. QED
  BY <1>1, <1>2

LEMMA SeenKept ==
  ASSUME SeenInv, CopyKept, UNCHANGED <<object, cache, uids>> PROVE SeenInv'
  BY DEF SeenInv, CopyKept, SameGeneration

LEMMA ReconcileReady ==
  ASSUME Undisturbed, TypeOK, SingleCreationInv, GenerationInv, ReadyInv,
         Reconcile, ~PatchStatus
  PROVE  ReadyInv'
<1>1. UNCHANGED <<object, cache, watch, uids>>
  BY DEF Reconcile, Start, StartNothingToDo, StartReadFails, StartReconcile,
         StartWithoutCredentials, GetInstance, DeleteSecret, UpdateInstance,
         ListInstances, PostInstance, CreateSecret, kubernetesVars
<1>2. CopyKept
  BY StartKeeps, GetInstanceKeeps, DeleteSecretKeeps, UpdateInstanceKeeps,
     ListInstancesKeeps, PostInstanceKeeps, CreateSecretKeeps DEF Reconcile
<1>3. ReviewInv'
  BY StartReviews, GetInstanceReviews, DeleteSecretReviews, UpdateInstanceReviews,
     ListInstancesReviews, PostInstanceReviews, CreateSecretReviews
     DEF Reconcile, ReadyInv, ModestInv, SingleCreationInv
<1>4. /\ ConfigsKept \/ (pc # "idle" /\ ConfiguredAfter(instance.spec.config))
      /\ TimelyInv'
  <2>1. CASE UpdateInstance
    BY <2>1, UpdateConfigures DEF ReadyInv, SingleCreationInv, UpdateInstance
  <2>2. CASE PostInstance
    BY <2>2, PostConfigures DEF ReadyInv, PostInstance
  <2>3. CASE ~UpdateInstance /\ ~PostInstance
    <3>1. UNCHANGED <<remote, orphans>>
      BY <2>3 DEF Reconcile, Start, StartNothingToDo, StartReadFails, StartReconcile,
                  StartWithoutCredentials, GetInstance, DeleteSecret, ListInstances,
                  CreateSecret, cloudVars
    <3>2. QED
      BY <3>1, RemoteConfigsKept DEF ReadyInv, TimelyInv, NoneLate
  <2>4. QED
    BY <2>1, <2>2, <2>3
<1>5. ClaimInv' /\ SeenInv'
  BY <1>1, <1>2, <1>4, ClaimKept, SeenKept DEF ReadyInv
<1>6. ModestInv'
  BY <1>1 DEF ReadyInv, ModestInv, Modest
<1>7. QED
  BY <1>3, <1>4, <1>5, <1>6 DEF ReadyInv

(***************************************************************************)
(* What leaves the object, the caches and the worker alone.                *)
(***************************************************************************)
LEMMA AsideReady ==
  ASSUME TypeOK, GenerationInv, ReadyInv, ConfigsKept, TimelyInv',
         UNCHANGED <<object, cache, watch, uids, pc, snapshot, instance, err>>
  PROVE  ReadyInv'
<1>1. ReviewInv'
  <2>1. ConfiguredAs(instance.spec.config) => ConfiguredAfter(instance.spec.config)
    BY ConfiguredStays
  <2>2. QED
    BY <2>1 DEF ReadyInv, ReviewInv, Modest, ConfiguredAs, ConfiguredAfter
<1>2. ModestInv' /\ SeenInv'
  BY DEF ReadyInv, ModestInv, Modest, SeenInv
<1>3. ClaimInv'
  BY ClaimKept DEF ReadyInv
<1>4. QED
  BY <1>1, <1>2, <1>3 DEF ReadyInv

\* Modest, after the step.
ModestAfter(version) ==
    uids' = 1 /\ version # None /\ version.status.conditions.Ready # None =>
        version.status.conditions.Ready.generation <= version.generation

LEMMA StoreModest ==
  ASSUME TypeOK, NEW version, Store(version), UNCHANGED cache,
         ModestAfter(version), ModestAfter(cache),
         \A k \in 1 .. Len(watch) : ModestAfter(watch[k])
  PROVE  ModestInv'
<1>1. watch \in Seq(AuraInstance \cup {None})
  BY DEF TypeOK, KubernetesTypeOK
<1>2. \A k \in 1 .. Len(watch') : ModestAfter(watch'[k])
  <2>1. CASE watch' = watch
    BY <2>1
  <2>2. CASE watch' = Append(watch, version)
    <3>1. Len(watch') = Len(watch) + 1 /\ Len(watch) \in Nat
      BY <1>1, <2>2
    <3>2. ASSUME NEW k \in 1 .. Len(watch') PROVE ModestAfter(watch'[k])
      <4>1. CASE k = Len(watch) + 1
        BY <1>1, <2>2, <4>1
      <4>2. CASE k \in 1 .. Len(watch)
        BY <1>1, <2>2, <4>2
      <4>3. QED
        BY <3>1, <4>1, <4>2
    <3>3. QED
      BY <3>2
  <2>3. QED
    BY <2>1, <2>2 DEF Store
<1>3. QED
  BY <1>2 DEF Store, ModestInv, Modest, ModestAfter
(***************************************************************************)
(* The patch sends the conditions of the copy, or leaves those stored.     *)
(***************************************************************************)
LEMMA PatchedConditions ==
  ASSUME TypeOK, object # None, NEW reworded \in BOOLEAN
  PROVE  Patched(reworded).status.conditions =
             IF ~reworded /\ instance.status.conditions = snapshot.status.conditions
             THEN object.status.conditions
             ELSE instance.status.conditions
<1> DEFINE merged == MergePatch(object.status, snapshot.status, instance.status, reworded)
<1>1. object \in AuraInstance
  BY DEF TypeOK, KubernetesTypeOK
<1>2. Patched(reworded).status = merged
  BY <1>1 DEF Patched, AuraInstance
<1>3. merged.conditions =
          IF ~reworded /\ instance.status.conditions = snapshot.status.conditions
          THEN object.status.conditions
          ELSE instance.status.conditions
  BY DEF MergePatch, Merged
<1> HIDE DEF merged
<1>4. QED
  BY <1>2, <1>3

LEMMA PatchedReady ==
  ASSUME TypeOK, GenerationInv, ReadyInv, pc = "patch", ~moved, object # None,
         NEW reworded \in Rewordings, UNCHANGED <<cache, uids, remote, orphans>>,
         Store(Patched(reworded)), pc' = "idle"
  PROVE  ReadyInv'
<1> DEFINE new == Patched(reworded)
<1> DEFINE stored == object.status.conditions
<1> DEFINE sent == instance.status.conditions
<1>1. reworded \in BOOLEAN
  BY DEF Rewordings
<1>2. /\ new \in AuraInstance
      /\ new.generation = object.generation /\ new.spec = object.spec
  BY <1>1, PatchObserves DEF SameGeneration
<1>3. \/ new.status.conditions = stored
      \/ /\ new.status.conditions = sent
         /\ \/ ~Settled(sent)
            \/ /\ sent.Ready.generation = instance.generation
               /\ ConfiguredAs(instance.spec.config)
  <2>1. reworded => err \/ ~Settled(sent)
    BY DEF Rewordings, Settled
  <2>2. new.status.conditions =
            IF ~reworded /\ sent = snapshot.status.conditions THEN stored ELSE sent
    BY <1>1, PatchedConditions
  <2>3. \/ ~err /\ sent = snapshot.status.conditions
        \/ ~Settled(sent)
        \/ /\ sent.Ready.generation = instance.generation
           /\ ConfiguredAs(instance.spec.config)
    BY DEF ReadyInv, ReviewInv
  <2> HIDE DEF new, stored, sent
  <2>4. QED
    BY <2>1, <2>2, <2>3
<1>4. object' = new /\ object' # None
  BY <1>2, NoneAssumption DEF Store
<1>5. Store(new)
  OBVIOUS
<1>6. /\ instance # None /\ cache # None
      /\ instance.generation = cache.generation
      /\ Dated(instance)
  BY NoneAssumption DEF TypeOK, ControllerTypeOK, GenerationInv, CopyInv, SameGeneration
<1>7. object \in AuraInstance /\ instance \in AuraInstance
  BY DEF TypeOK, KubernetesTypeOK, ControllerTypeOK
<1>8. object.generation \in Nat /\ instance.generation \in Nat
  BY <1>7 DEF AuraInstance
<1> HIDE DEF new
<1>9. sent.Ready # None => sent.Ready \in Condition
  <2>1. instance.status.conditions \in Conditions
    BY <1>7 DEF AuraInstance, AuraInstanceStatus
  <2>2. QED
    BY <2>1 DEF Conditions
<1>10. ASSUME uids = 1, sent.Ready # None
       PROVE  /\ sent.Ready.generation <= instance.generation
              /\ sent.Ready.generation <= object.generation
  <2>1. sent.Ready.generation <= instance.generation
    BY <1>6, <1>10 DEF ReadyInv, ReviewInv, Modest
  <2>2. instance.generation <= object.generation
    BY <1>6, <1>10 DEF Dated
  <2>3. sent.Ready.generation \in Nat
    BY <1>9, <1>10 DEF Condition
  <2>4. QED
    BY <1>8, <2>1, <2>2, <2>3
<1>11. ModestAfter(new)
  <2>1. Modest(object)
    BY DEF ReadyInv, ModestInv
  <2>2. QED
    BY <1>2, <1>3, <1>10, <2>1 DEF Modest, ModestAfter
<1>12. ModestInv'
  BY <1>5, <1>11, StoreModest DEF ReadyInv, ModestInv, Modest, ModestAfter
<1>13. SeenInv'
  BY <1>3, <1>4, <1>6, <1>10 DEF ReadyInv, SeenInv
<1>14. ClaimInv'
  <2> SUFFICES ASSUME uids = 1, Settled(new.status.conditions),
                      new.status.conditions.Ready.generation = object.generation
               PROVE  ConfiguredAs(object.spec.config)
    BY <1>2, <1>4 DEF ClaimInv, ConfiguredAs, Live
  <2>1. CASE new.status.conditions = stored
    BY <2>1 DEF ReadyInv, ClaimInv
  <2>2. CASE /\ sent.Ready.generation = instance.generation
             /\ new.status.conditions = sent
             /\ ConfiguredAs(instance.spec.config)
    BY <1>6, <2>2 DEF Dated
  <2>3. QED
    BY <1>3, <2>1, <2>2
<1>15. ReviewInv' /\ TimelyInv'
  BY DEF ReviewInv, ReadyInv, TimelyInv, NoneLate
<1>16. QED
  BY <1>12, <1>13, <1>14, <1>15 DEF ReadyInv

LEMMA PatchStatusReady ==
  ASSUME TypeOK, GenerationInv, ReadyInv, PatchStatus PROVE ReadyInv'
<1>1. /\ pc = "patch" /\ pc' = "idle" /\ instance' = None
      /\ UNCHANGED <<cache, uids, remote, orphans>>
  BY DEF PatchStatus, Finish, cloudVars
<1>2. CASE UNCHANGED <<object, watch>>
  <2>1. ReviewInv' /\ TimelyInv' /\ SeenInv'
    BY <1>1, <1>2 DEF ReviewInv, ReadyInv, TimelyInv, NoneLate, SeenInv
  <2>2. ModestInv'
    BY <1>1, <1>2 DEF ReadyInv, ModestInv, Modest
  <2>3. ClaimInv'
    BY <1>1, <1>2, RemoteConfigsKept, ClaimKept DEF ReadyInv
  <2>4. QED
    BY <2>1, <2>2, <2>3 DEF ReadyInv
<1>3. ASSUME NEW reworded \in Rewordings, object # None, ~moved,
             Store(Patched(reworded))
      PROVE  ReadyInv'
  BY <1>1, <1>3, PatchedReady
<1>4. QED
  BY <1>2, <1>3 DEF PatchStatus

(***************************************************************************)
(* Users: a new object says nothing, and a new specification takes back    *)
(* what was said of the last one.                                          *)
(***************************************************************************)
LEMMA UserCreatesReady ==
  ASSUME TypeOK, GenerationInv, ReadyInv, UserCreates PROVE ReadyInv'
<1>1. UNCHANGED <<cache, remote, orphans, pc, snapshot, instance, err>>
  BY DEF UserCreates, CreateAuraInstance, cloudVars, workerVars
<1>2. PICK spec \in Specs : CreateAuraInstance(spec)
  BY DEF UserCreates
<1> DEFINE new == [uid |-> uids + 1, generation |-> 1, spec |-> spec,
                   status |-> EmptyStatus]
<1>3. /\ Store(new) /\ object' = new /\ uids \in Nat
      /\ uids' = 1 => uids = 0
  BY <1>2 DEF CreateAuraInstance, Store, TypeOK, KubernetesTypeOK
<1>4. new.status.conditions.Ready = None
  BY DEF EmptyStatus
<1> HIDE DEF new
<1>5. uids = 0 => cache = None /\ instance = None /\ watch = <<>>
  BY DEF GenerationInv, Dated
<1>6. ModestAfter(new) /\ ModestAfter(cache)
  BY <1>3, <1>4, <1>5 DEF ModestAfter
<1>7. \A k \in 1 .. Len(watch) : ModestAfter(watch[k])
  BY <1>3, <1>5 DEF ModestAfter
<1>8. ModestInv'
  BY <1>1, <1>3, <1>6, <1>7, StoreModest
<1>9. SeenInv' /\ ClaimInv'
  BY <1>3, <1>4 DEF SeenInv, ClaimInv, Settled
<1>10. Modest(instance)'
  BY <1>1, <1>3, <1>5 DEF Modest
<1>11. ReviewInv' /\ TimelyInv'
  BY <1>1, <1>10 DEF ReadyInv, ReviewInv, TimelyInv, NoneLate, ConfiguredAs, Live
<1>12. QED
  BY <1>8, <1>9, <1>11 DEF ReadyInv

LEMMA UserEditsReady ==
  ASSUME TypeOK, GenerationInv, ReadyInv, UserEdits PROVE ReadyInv'
<1>1. UNCHANGED <<cache, uids, remote, orphans, pc, snapshot, instance, err>>
  BY DEF UserEdits, EditAuraInstance, cloudVars, workerVars
<1>2. PICK spec \in Specs : EditAuraInstance(spec)
  BY DEF UserEdits
<1> DEFINE new == [object EXCEPT !.spec = spec, !.generation = @ + 1]
<1>3. Store(new) /\ object' = new /\ object # None /\ object \in AuraInstance
  BY <1>2 DEF EditAuraInstance, Store, TypeOK, KubernetesTypeOK
<1>4. /\ new.generation = object.generation + 1 /\ object.generation \in Nat
      /\ new.status = object.status
  BY <1>3 DEF AuraInstance
<1> HIDE DEF new
<1>5. object.status.conditions.Ready # None =>
          object.status.conditions.Ready.generation \in Nat
  <2>1. object.status.conditions \in Conditions
    BY <1>3 DEF AuraInstance, AuraInstanceStatus
  <2>2. QED
    BY <2>1 DEF Conditions, Condition
<1>6. ASSUME uids = 1, new.status.conditions.Ready # None
      PROVE  new.status.conditions.Ready.generation < new.generation
  BY <1>3, <1>4, <1>5, <1>6 DEF ReadyInv, ModestInv, Modest
<1>7. ModestAfter(new)
  <2>1. new.status.conditions.Ready # None =>
            new.status.conditions.Ready.generation \in Nat
    BY <1>4, <1>5
  <2>2. new.generation \in Nat
    BY <1>4
  <2>3. QED
    BY <1>1, <1>6, <2>1, <2>2 DEF ModestAfter
<1>8. ModestInv'
  BY <1>1, <1>3, <1>7, StoreModest DEF ReadyInv, ModestInv, Modest, ModestAfter
<1>9. SeenInv'
  BY <1>1, <1>3, <1>4 DEF ReadyInv, SeenInv
<1>10. ClaimInv'
  <2>1. new.generation \in Nat
    BY <1>4
  <2>2. QED
    BY <1>1, <1>3, <1>6, <2>1 DEF ClaimInv, Settled
<1>11. ReviewInv' /\ TimelyInv'
  BY <1>1 DEF ReadyInv, ReviewInv, Modest, TimelyInv, NoneLate, ConfiguredAs, Live
<1>12. QED
  BY <1>8, <1>9, <1>10, <1>11 DEF ReadyInv

LEMMA UserDeletesReady ==
  ASSUME TypeOK, GenerationInv, ReadyInv, UserDeletes PROVE ReadyInv'
<1>1. UNCHANGED <<cache, uids, remote, orphans, pc, snapshot, instance, err>>
  BY DEF UserDeletes, DeleteAuraInstance, cloudVars, workerVars
<1>2. Store(None) /\ object' = None
  BY DEF UserDeletes, DeleteAuraInstance, Store
<1>3. ModestInv'
  BY <1>1, <1>2, StoreModest DEF ReadyInv, ModestInv, Modest, ModestAfter
<1>4. SeenInv' /\ ClaimInv'
  BY <1>2 DEF SeenInv, ClaimInv
<1>5. ReviewInv' /\ TimelyInv'
  BY <1>1 DEF ReadyInv, ReviewInv, Modest, TimelyInv, NoneLate, ConfiguredAs, Live
<1>6. QED
  BY <1>3, <1>4, <1>5 DEF ReadyInv

LEMMA CacheSyncedReady ==
  ASSUME TypeOK, GenerationInv, ReadyInv, CacheSynced PROVE ReadyInv'
<1>1. /\ watch \in Seq(AuraInstance \cup {None}) /\ watch # <<>>
      /\ cache' = watch[1] /\ watch' = Tail(watch)
      /\ UNCHANGED <<object, uids, remote, orphans, pc, snapshot, instance, err>>
  BY DEF CacheSynced, SyncCache, cloudVars, TypeOK, KubernetesTypeOK
<1>2. 1 \in 1 .. Len(watch) /\ Len(watch') = Len(watch) - 1 /\ Len(watch) \in Nat
  BY <1>1
<1>3. \A k \in 1 .. Len(watch') : watch'[k] = watch[k + 1] /\ k + 1 \in 1 .. Len(watch)
  BY <1>1, <1>2
<1>4. ModestInv'
  <2>1. Modest(object) /\ Modest(watch[1])
    BY <1>2 DEF ReadyInv, ModestInv
  <2>2. \A k \in 1 .. Len(watch') : Modest(watch[k + 1])
    BY <1>3 DEF ReadyInv, ModestInv
  <2>3. QED
    BY <1>1, <1>3, <2>1, <2>2 DEF ModestInv, Modest
<1>5. SeenInv'
  <2> SUFFICES ASSUME object # None, uids = 1, object.status.conditions.Ready # None
               PROVE  LET generation == object.status.conditions.Ready.generation IN
                      /\ watch[1] # None /\ generation <= watch[1].generation
                      /\ pc # "idle" => generation <= instance.generation
    BY <1>1 DEF SeenInv
  <2> DEFINE generation == object.status.conditions.Ready.generation
  <2>1. /\ cache # None /\ generation <= cache.generation
        /\ pc # "idle" => generation <= instance.generation
    BY DEF ReadyInv, SeenInv
  <2>2. watch[1] # None /\ cache.generation <= watch[1].generation
    BY <1>2, <2>1 DEF GenerationInv, Ordered
  <2>3. /\ cache \in AuraInstance /\ watch[1] \in AuraInstance /\ object \in AuraInstance
    BY <1>1, <1>2, <2>1, <2>2 DEF TypeOK, KubernetesTypeOK
  <2>4. cache.generation \in Nat /\ watch[1].generation \in Nat
    BY <2>3 DEF AuraInstance
  <2>5. generation \in Nat
    <3>1. object.status.conditions \in Conditions
      BY <2>3 DEF AuraInstance, AuraInstanceStatus
    <3>2. QED
      BY <3>1 DEF Conditions, Condition
  <2>6. QED
    BY <2>1, <2>2, <2>4, <2>5
<1>6. ClaimInv'
  BY <1>1, RemoteConfigsKept, ClaimKept DEF ReadyInv
<1>7. ReviewInv' /\ TimelyInv'
  BY <1>1 DEF ReadyInv, ReviewInv, Modest, TimelyInv, NoneLate, ConfiguredAs, Live
<1>8. QED
  BY <1>4, <1>5, <1>6, <1>7 DEF ReadyInv

LEMMA CrashRestartReady ==
  ASSUME Undisturbed, TypeOK, GenerationInv, ReadyInv, CrashRestart PROVE ReadyInv'
<1>1. /\ cache' = object /\ watch' = <<>> /\ pc' = "idle"
      /\ UNCHANGED <<object, uids, remote, orphans>>
  BY DEF CrashRestart, Relist, Undisturbed
<1>2. Modest(object)
  BY DEF ReadyInv, ModestInv
<1>3. ModestInv'
  BY <1>1, <1>2 DEF ModestInv, Modest
<1>4. SeenInv'
  BY <1>1, <1>2 DEF SeenInv, Modest
<1>5. ClaimInv'
  BY <1>1, RemoteConfigsKept, ClaimKept DEF ReadyInv
<1>6. ReviewInv' /\ TimelyInv'
  BY <1>1 DEF ReadyInv, ReviewInv, TimelyInv, NoneLate
<1>7. QED
  BY <1>3, <1>4, <1>5, <1>6 DEF ReadyInv

LEMMA AroundReady ==
  ASSUME Undisturbed, TypeOK, GenerationInv, ReadyInv,
         \/ TimerFires \/ SecretTampered \/ SecretCollected \/ SecretSynced
         \/ CredentialsSynced \/ CredentialsEventDropped
         \/ AuraSettles \/ AuraDisturbed \/ RequestArrivesLate
         \/ UNCHANGED vars
  PROVE  ReadyInv'
<1>1. UNCHANGED <<object, cache, watch, uids, pc, snapshot, instance, err>>
  BY DEF TimerFires, SecretTampered, SecretCollected, CollectSecret,
         PutForeignSecret, RemoveSecret, SecretSynced, SyncSecret,
         CredentialsSynced, CredentialsEventDropped, SyncCredentials,
         AuraSettles, AuraDisturbed, RequestArrivesLate,
         vars, kubernetesVars, workerVars
<1>2. ~RequestArrivesLate
  BY DEF RequestArrivesLate, ReadyInv, TimelyInv
<1>3. CASE AuraSettles \/ AuraDisturbed
  BY <1>1, <1>3, AuraConfigsKept, AsideReady DEF ReadyInv
<1>4. CASE ~AuraSettles /\ ~AuraDisturbed
  <2>1. UNCHANGED <<remote, orphans>>
    BY <1>2, <1>4 DEF TimerFires, SecretTampered, SecretCollected, SecretSynced,
       CredentialsSynced, CredentialsEventDropped, vars, cloudVars
  <2>2. ConfigsKept /\ TimelyInv'
    BY <2>1, RemoteConfigsKept DEF ReadyInv, TimelyInv, NoneLate
  <2>3. QED
    BY <1>1, <2>2, AsideReady
<1>5. QED
  BY <1>3, <1>4

LEMMA Readiness == Undisturbed => (Spec => []ReadyInv)
<1> SUFFICES ASSUME Undisturbed PROVE Spec => []ReadyInv
  OBVIOUS
<1>1. Init => ReadyInv
  BY DEF Init, KubernetesInit, CloudInit, ReadyInv, ReviewInv, ModestInv, Modest, SeenInv,
         ClaimInv, TimelyInv, NoneLate
<1>2. TypeOK /\ SingleCreationInv /\ GenerationInv /\ ReadyInv /\ [Next]_vars => ReadyInv'
  BY ReconcileReady, PatchStatusReady, UserCreatesReady, UserEditsReady, UserDeletesReady,
     CacheSyncedReady, CrashRestartReady, AroundReady DEF Next, Environment
<1>3. QED
  BY <1>1, <1>2, Typing, CreationGuarded, Generations, PTL DEF Spec

(***************************************************************************)
(* Ready = True for the current generation, with no Reconciling condition, *)
(* is true of the instance the status names (reconcile, lines 263-298, and *)
(* patchStatus, lines 377-385).                                            *)
(***************************************************************************)
THEOREM ReadyIsTrue ==
  Troubles \cap {"drift", "inflight"} = {} => (Spec => []ReadyMeansConfigured)
<1> SUFFICES ASSUME Undisturbed PROVE Spec => []ReadyMeansConfigured
  BY DEF Undisturbed
<1>1. TypeOK /\ GenerationInv /\ ReadyInv => ReadyMeansConfigured
  <2> SUFFICES ASSUME TypeOK, GenerationInv, ReadyInv, object # None, object.uid = 1,
                      Settled(object.status.conditions),
                      object.status.conditions.Ready.generation = object.generation,
                      object.status.instanceID # None, Live(object.status.instanceID)
               PROVE  remote[object.status.instanceID].config = object.spec.config
    BY DEF ReadyMeansConfigured, Settled
  <2>1. object.status.instanceID \in InstanceIds
    BY DEF TypeOK, KubernetesTypeOK, AuraInstance, AuraInstanceStatus
  <2>2. ConfiguredAs(object.spec.config)
    BY DEF ReadyInv, ClaimInv, GenerationInv
  <2>3. QED
    BY <2>1, <2>2 DEF ConfiguredAs
<1>2. QED
  BY <1>1, Typing, Generations, Readiness, PTL

================================================================================
