---------------------- MODULE AuraInstanceGenerationProofs ----------------------
(***************************************************************************)
(* The observed generation, for all users, edits, incarnations and lags.   *)
(*                                                                         *)
(* The controller copies a generation it read from the cache, so what has  *)
(* to be known is that no copy of the AuraInstance, wherever it is, is     *)
(* newer than the object.  Nothing of the kind holds once the name is used *)
(* again, when old copies meet an object that counts from one again.       *)
(***************************************************************************)
EXTENDS AuraInstanceReconcilerProofs

\* No older than the name; of the first object under it no newer version, and
\* no other specification of its newest generation.
Dated(version) ==
    version # None =>
        /\ uids > 0
        /\ object # None /\ uids = 1 =>
               /\ version.generation <= object.generation
               /\ version.generation = object.generation => version.spec = object.spec

\* The cache is given the versions of the first object in their order.
Ordered ==
    object # None /\ uids = 1 =>
        \A k \in 1 .. Len(watch) :
            /\ watch[k] # None
            /\ cache # None => cache.generation <= watch[k].generation
            /\ \A j \in 1 .. k : watch[j].generation <= watch[k].generation

\* What the first object says it has observed, the cache has seen.
Observed ==
    object # None /\ uids = 1 /\ object.status.observedGeneration # 0 =>
        cache # None /\ object.status.observedGeneration <= cache.generation

SameGeneration(version, other) ==
    version.generation = other.generation /\ version.spec = other.spec

\* The copy a reconcile works on is the cached one, unless that has changed.
CopyInv ==
    /\ pc = "idle" => instance = None
    /\ pc # "idle" /\ ~moved => cache # None /\ SameGeneration(instance, cache)
    /\ pc = "patch" => instance.status.observedGeneration = instance.generation

GenerationInv ==
    /\ object # None => uids > 0 /\ object.uid = uids
    /\ uids = 0 => watch = <<>>
    /\ Dated(cache)
    /\ Dated(instance)
    /\ \A k \in 1 .. Len(watch) : Dated(watch[k])
    /\ Ordered
    /\ Observed
    /\ CopyInv

(***************************************************************************)
(* What a step of Reconcile does to the copy it works on: its generation   *)
(* and specification are those of the cache it is read from, and stay so,  *)
(* and what PatchStatus writes has been through line 146.                  *)
(***************************************************************************)
CopyKept ==
    /\ pc' # "idle" =>
        \/ pc # "idle" /\ SameGeneration(instance', instance) /\ moved' = moved
        \/ pc = "idle" /\ cache # None /\ SameGeneration(instance', cache)
    /\ pc' = "idle" => instance' = None
    /\ pc' = "patch" => instance'.status.observedGeneration = instance'.generation

LEMMA ReturnKeeps ==
  ASSUME NEW changed \in AuraInstance, NEW failed \in BOOLEAN, NEW requeue,
         pc # "idle", SameGeneration(changed, instance),
         Return(changed, failed, requeue)
  PROVE  CopyKept
  BY ReviewedDerived DEF CopyKept, Return, Derived, SameGeneration

LEMMA ProceedKeeps ==
  ASSUME NEW changed, NEW step \in Steps \ {"idle", "patch"},
         pc # "idle", SameGeneration(changed, instance),
         Proceed(step, changed)
  PROVE  CopyKept
  BY DEF CopyKept, Proceed

LEMMA FinishKeeps ==
  ASSUME NEW again, Finish(again) PROVE CopyKept
  BY DEF CopyKept, Finish

LEMMA PanicKeeps == ASSUME Panic PROVE CopyKept
  BY FinishKeeps DEF Panic

LEMMA FailKeeps ==
  ASSUME TypeOK, pc # "idle", Fail(instance) PROVE CopyKept
<1>1. instance \in AuraInstance
  BY DEF TypeOK, ControllerTypeOK
<1>2. QED
  BY <1>1, ReturnKeeps DEF Fail, SameGeneration

LEMMA StartKeeps ==
  ASSUME TypeOK,
         \/ StartNothingToDo \/ StartReadFails
         \/ StartReconcile \/ StartWithoutCredentials
  PROVE  CopyKept
<1>1. CASE StartNothingToDo \/ StartReadFails
  BY <1>1, FinishKeeps DEF StartNothingToDo, StartReadFails
<1>2. CASE StartReconcile
  BY <1>2 DEF StartReconcile, Start, Wanted, FirstCall, CopyKept, SameGeneration
<1>3. CASE StartWithoutCredentials
  <2>1. cache \in AuraInstance /\ cache # None
    BY <1>3 DEF StartWithoutCredentials, Wanted, TypeOK, KubernetesTypeOK
  <2>2. QED
    BY <1>3, <2>1, ReviewedDerived
       DEF StartWithoutCredentials, Start, CopyKept, Derived, SameGeneration
<1>4. QED
  BY <1>1, <1>2, <1>3

LEMMA CheckDriftKeeps ==
  ASSUME NEW changed \in AuraInstance, NEW config, NEW data,
         pc # "idle", SameGeneration(changed, instance),
         CheckDrift(changed, config, data)
  PROVE  CopyKept
<1> DEFINE updating == AuraInstanceReconciling(changed, "True", "UpdatingInstance")
<1>1. CASE Return(changed, FALSE, "none")
  BY <1>1, ReturnKeeps
<1>2. CASE Proceed("update", updating)
  <2>1. SameGeneration(updating, instance)
    BY ReconcilingDerived DEF Reasons, Derived, SameGeneration
  <2> HIDE DEF updating
  <2>2. QED
    BY <1>2, <2>1, ProceedKeeps DEF Steps
<1>3. QED
  BY <1>1, <1>2, PanicKeeps DEF CheckDrift

LEMMA ExamineKeeps ==
  ASSUME TypeOK, pc = "get", NEW found, NEW data, Examine(found, data)
  PROVE  CopyKept
<1> DEFINE read == [instance EXCEPT !.status.instanceStatus = found.state]
<1> DEFINE cleared == DeleteReconciling(read)
<1> DEFINE creating == AuraInstanceReconciling(read, "True", "InstanceCreating")
<1> DEFINE running == AuraInstanceReady(cleared, "True", "InstanceRunning")
<1> DEFINE notReady == AuraInstanceReady(read, "False", "InstanceNotReady")
<1>1. instance \in AuraInstance /\ instance # None
  BY NoneAssumption DEF TypeOK, ControllerTypeOK
<1>2. found.state \in InstanceStatuses
  BY DEF Examine, InstanceStatuses
<1>3. Derived(read, instance)
  BY <1>1, <1>2 DEF Derived, AuraInstance, AuraInstanceStatus
<1> HIDE DEF read
<1>4. Derived(cleared, instance)
  BY <1>3, DeleteReconcilingDerived DEF Derived
<1> HIDE DEF cleared
<1>5. Derived(creating, instance) /\ Derived(running, instance) /\ Derived(notReady, instance)
  BY <1>3, <1>4, ReadyDerived, ReconcilingDerived DEF Derived, Reasons
<1> HIDE DEF creating, running, notReady
<1>6. \/ Return(creating, FALSE, "requeueAfter")
      \/ CheckDrift(running, found.config, data)
      \/ CheckDrift(notReady, found.config, data)
  BY DEF Examine, read, cleared, creating, running, notReady
<1>7. QED
  BY <1>1, <1>5, <1>6, ReturnKeeps, CheckDriftKeeps DEF Derived, SameGeneration

LEMMA GetInstanceKeeps == ASSUME TypeOK, GetInstance PROVE CopyKept
<1>1. pc = "get" /\ instance # None
  BY NoneAssumption DEF GetInstance, TypeOK, ControllerTypeOK
<1>2. Proceed("delete", instance) => CopyKept
  BY <1>1, ProceedKeeps DEF Steps, SameGeneration
<1>3. ASSUME NEW found, NEW data, Examine(found, data) PROVE CopyKept
  BY <1>1, <1>3, ExamineKeeps
<1>4. Fail(instance) \/ Panic => CopyKept
  BY <1>1, FailKeeps, PanicKeeps
<1>5. QED
  BY <1>2, <1>3, <1>4 DEF GetInstance

LEMMA DeleteSecretKeeps == ASSUME TypeOK, DeleteSecret PROVE CopyKept
<1> DEFINE forgotten == [instance EXCEPT !.status.instanceID = None,
                                         !.status.connectionSecret = None]
<1>1. pc = "delete" /\ instance \in AuraInstance /\ instance # None
  BY NoneAssumption DEF DeleteSecret, TypeOK, ControllerTypeOK
<1>2. forgotten \in AuraInstance /\ SameGeneration(forgotten, instance)
  BY <1>1 DEF AuraInstance, AuraInstanceStatus, SameGeneration
<1> HIDE DEF forgotten
<1>3. ForgetInstance => CopyKept
  BY <1>1, <1>2, ReturnKeeps DEF ForgetInstance, forgotten
<1>4. QED
  BY <1>1, <1>3, FailKeeps DEF DeleteSecret

LEMMA UpdateInstanceKeeps == ASSUME TypeOK, UpdateInstance PROVE CopyKept
<1>1. pc = "update" /\ instance \in AuraInstance /\ instance # None
  BY NoneAssumption DEF UpdateInstance, TypeOK, ControllerTypeOK
<1>2. Return(instance, FALSE, "none") => CopyKept
  BY <1>1, ReturnKeeps DEF SameGeneration
<1>3. QED
  BY <1>1, <1>2, FailKeeps DEF UpdateInstance

LEMMA ListInstancesKeeps == ASSUME TypeOK, ListInstances PROVE CopyKept
<1> DEFINE creating == AuraInstanceReconciling(instance, "True", "CreatingInstance")
<1>1. pc = "list" /\ instance \in AuraInstance /\ instance # None
  BY NoneAssumption DEF ListInstances, TypeOK, ControllerTypeOK
<1>2. ASSUME NEW id \in Named,
             Return([instance EXCEPT !.status.instanceID = id], FALSE, "requeue")
      PROVE  CopyKept
  <2> DEFINE adopted == [instance EXCEPT !.status.instanceID = id]
  <2>1. adopted \in AuraInstance /\ SameGeneration(adopted, instance)
    BY <1>1 DEF AuraInstance, AuraInstanceStatus, Named, SameGeneration
  <2> HIDE DEF adopted
  <2>2. QED
    BY <1>1, <1>2, <2>1, ReturnKeeps DEF adopted
<1>3. Proceed("post", creating) => CopyKept
  <2>1. SameGeneration(creating, instance)
    BY <1>1, ReconcilingDerived DEF Reasons, Derived, SameGeneration
  <2> HIDE DEF creating
  <2>2. QED
    BY <1>1, <2>1, ProceedKeeps DEF Steps
<1>4. QED
  BY <1>1, <1>2, <1>3, FailKeeps, PanicKeeps DEF ListInstances

LEMMA PostInstanceKeeps == ASSUME TypeOK, PostInstance PROVE CopyKept
<1> DEFINE created(id) ==
             [instance EXCEPT !.status.instanceID = id,
                              !.status.connectionSecret = connectionSecretName(instance)]
<1>1. pc = "post" /\ instance \in AuraInstance /\ instance # None
  BY NoneAssumption DEF PostInstance, TypeOK, ControllerTypeOK
<1>2. ASSUME NEW id \in InstanceIds, Proceed("create", created(id))
      PROVE  CopyKept
  <2>1. SameGeneration(created(id), instance)
    BY <1>1 DEF AuraInstance, SameGeneration
  <2> HIDE DEF created
  <2>2. QED
    BY <1>1, <1>2, <2>1, ProceedKeeps DEF Steps
<1>3. QED
  BY <1>1, <1>2, FailKeeps, PanicKeeps DEF PostInstance

LEMMA CreateSecretKeeps == ASSUME TypeOK, CreateSecret PROVE CopyKept
<1>1. pc = "create" /\ instance \in AuraInstance /\ instance # None
  BY NoneAssumption DEF CreateSecret, TypeOK, ControllerTypeOK
<1>2. Return(instance, FALSE, "requeueAfter") => CopyKept
  BY <1>1, ReturnKeeps DEF SameGeneration
<1>3. QED
  BY <1>1, <1>2, FailKeeps DEF CreateSecret

--------------------------------------------------------------------------------

\* Dated, after the step.
StillDated(version) ==
    version # None =>
        /\ uids' > 0
        /\ object' # None /\ uids' = 1 =>
               /\ version.generation <= object'.generation
               /\ version.generation = object'.generation => version.spec = object'.spec

(***************************************************************************)
(* A step that leaves the object and the cache alone.                      *)
(***************************************************************************)
LEMMA QuietGeneration ==
  ASSUME TypeOK, GenerationInv, CopyKept, UNCHANGED <<object, cache, watch, uids>>
  PROVE  GenerationInv'
<1>1. pc # "idle" => instance # None
  BY NoneAssumption DEF TypeOK, ControllerTypeOK
<1>2. Dated(instance)'
  BY <1>1 DEF GenerationInv, CopyKept, Dated, SameGeneration
<1>3. CopyInv'
  BY DEF GenerationInv, CopyInv, CopyKept, SameGeneration
<1>4. QED
  BY <1>2, <1>3 DEF GenerationInv, Dated, Ordered, Observed

(***************************************************************************)
(* A new version is watched like the ones before it, and after them.       *)
(***************************************************************************)
LEMMA StoreDates ==
  ASSUME TypeOK, NEW version, Store(version), StillDated(version),
         \A k \in 1 .. Len(watch) : StillDated(watch[k])
  PROVE  \A k \in 1 .. Len(watch') : StillDated(watch'[k])
<1>1. watch \in Seq(AuraInstance \cup {None})
  BY DEF TypeOK, KubernetesTypeOK
<1>2. CASE watch' = watch
  BY <1>2
<1>3. CASE watch' = Append(watch, version)
  <2>1. Len(watch') = Len(watch) + 1 /\ Len(watch) \in Nat
    BY <1>1, <1>3
  <2>2. ASSUME NEW k \in 1 .. Len(watch') PROVE StillDated(watch'[k])
    <3>1. CASE k = Len(watch) + 1
      BY <1>1, <1>3, <3>1
    <3>2. CASE k \in 1 .. Len(watch)
      BY <1>1, <1>3, <3>2
    <3>3. QED
      BY <2>1, <3>1, <3>2
  <2>3. QED
    BY <2>2
<1>4. QED
  BY <1>2, <1>3 DEF Store

LEMMA StoreOrders ==
  ASSUME TypeOK, GenerationInv, UNCHANGED <<cache, uids>>, object # None,
         NEW version \in AuraInstance, Store(version),
         version.generation >= object.generation
  PROVE  Ordered'
<1> SUFFICES ASSUME uids = 1, NEW k \in 1 .. Len(watch')
             PROVE  /\ watch'[k] # None
                    /\ cache # None => cache.generation <= watch'[k].generation
                    /\ \A j \in 1 .. k : watch'[j].generation <= watch'[k].generation
  BY DEF Ordered
<1>1. /\ watch \in Seq(AuraInstance \cup {None})
      /\ cache # None => cache \in AuraInstance
      /\ object \in AuraInstance
  BY DEF TypeOK, KubernetesTypeOK
<1>2. \A j \in 1 .. Len(watch) :
          /\ watch[j] \in AuraInstance /\ watch[j] # None
          /\ cache # None => cache.generation <= watch[j].generation
          /\ \A i \in 1 .. j : watch[i].generation <= watch[j].generation
  BY <1>1 DEF GenerationInv, Ordered
<1>3. \A j \in 1 .. Len(watch) : watch[j].generation <= object.generation
  BY <1>2 DEF GenerationInv, Dated
<1>4. cache # None => cache.generation <= object.generation
  BY DEF GenerationInv, Dated
<1>5. CASE watch' = watch
  BY <1>2, <1>5
<1>6. CASE watch' = Append(watch, version)
  <2>1. /\ Len(watch') = Len(watch) + 1 /\ Len(watch) \in Nat
        /\ watch'[Len(watch) + 1] = version
        /\ \A j \in 1 .. Len(watch) : watch'[j] = watch[j]
    BY <1>1, <1>6
  <2>2. CASE k \in 1 .. Len(watch)
    <3>1. watch'[k] = watch[k] /\ \A j \in 1 .. k : watch'[j] = watch[j]
      BY <2>1, <2>2
    <3>2. QED
      BY <1>2, <2>2, <3>1
  <2>3. CASE k = Len(watch) + 1
    <3>1. watch'[k] = version /\ version # None
      BY <2>1, <2>3, NoneAssumption
    <3>2. version.generation \in Nat /\ object.generation \in Nat
      BY <1>1 DEF AuraInstance
    <3>3. \A j \in 1 .. Len(watch) : watch[j].generation \in Nat
      BY <1>2 DEF AuraInstance
    <3>4. cache # None => cache.generation \in Nat
      BY <1>1 DEF AuraInstance
    <3>5. cache # None => cache.generation <= version.generation
      BY <1>4, <3>2, <3>4
    <3>6. ASSUME NEW j \in 1 .. k PROVE watch'[j].generation <= version.generation
      <4>1. CASE j = k
        BY <3>1, <3>2, <4>1
      <4>2. CASE j \in 1 .. Len(watch)
        BY <1>3, <2>1, <3>2, <3>3, <4>2
      <4>3. QED
        BY <2>1, <2>3, <4>1, <4>2
    <3>7. QED
      BY <3>1, <3>5, <3>6
  <2>4. QED
    BY <2>1, <2>2, <2>3
<1>7. QED
  BY <1>5, <1>6 DEF Store

(***************************************************************************)
(* The next version of the same object is no older than the last.          *)
(***************************************************************************)
LEMMA NewVersionGeneration ==
  ASSUME TypeOK, TypeOK', GenerationInv, object # None, UNCHANGED <<cache, uids>>,
         NEW version \in AuraInstance, Store(version), version.uid = object.uid,
         \/ SameGeneration(version, object)
         \/ version.generation > object.generation,
         uids = 1 /\ version.status.observedGeneration # 0 =>
             cache # None /\ version.status.observedGeneration <= cache.generation,
         \/ UNCHANGED <<instance, pc, moved>>
         \/ instance' = None /\ pc' = "idle"
  PROVE  GenerationInv'
<1>1. /\ object' = version /\ object' # None
      /\ object.generation \in Nat /\ version.generation \in Nat
      /\ version.generation >= object.generation
  BY NoneAssumption DEF Store, TypeOK, KubernetesTypeOK, AuraInstance, SameGeneration
<1>2. ASSUME NEW copy, copy # None => copy \in AuraInstance, Dated(copy)
      PROVE  StillDated(copy)
  <2>1. copy # None => copy.generation \in Nat
    BY <1>2 DEF AuraInstance
  <2>2. QED
    BY <1>1, <1>2, <2>1 DEF Dated, StillDated, SameGeneration
<1>3. \A k \in 1 .. Len(watch) : watch[k] # None => watch[k] \in AuraInstance
  BY DEF TypeOK, KubernetesTypeOK
<1>4. \A k \in 1 .. Len(watch) : StillDated(watch[k])
  BY <1>2, <1>3 DEF GenerationInv
<1>5. StillDated(version)
  BY <1>1 DEF StillDated, GenerationInv
<1>6. (\A k \in 1 .. Len(watch) : Dated(watch[k]))'
  <2>1. \A k \in 1 .. Len(watch') : StillDated(watch'[k])
    BY <1>4, <1>5, StoreDates
  <2>2. QED
    BY <2>1 DEF Dated, StillDated
<1>7. StillDated(cache) /\ (instance' = instance => StillDated(instance))
  BY <1>2 DEF GenerationInv, TypeOK, KubernetesTypeOK, ControllerTypeOK
<1>8. Dated(cache)' /\ Dated(instance)'
  BY <1>7 DEF Dated, StillDated
<1>9. Ordered'
  BY <1>1, StoreOrders
<1>10. Observed'
  BY <1>1 DEF Observed
<1>11. CopyInv'
  BY DEF GenerationInv, CopyInv, SameGeneration
<1>12. /\ object' # None => uids' > 0 /\ object'.uid = uids'
       /\ uids' = 0 => watch' = <<>>
  BY <1>1 DEF GenerationInv
<1>13. QED
  BY <1>6, <1>8, <1>9, <1>10, <1>11, <1>12 DEF GenerationInv

LEMMA UserCreatesGeneration ==
  ASSUME TypeOK, GenerationInv, UserCreates PROVE GenerationInv'
<1>1. UNCHANGED <<cache, instance, pc, moved>>
  BY DEF UserCreates, CreateAuraInstance, workerVars
<1>2. PICK spec \in Specs : CreateAuraInstance(spec)
  BY DEF UserCreates
<1> DEFINE new == [uid |-> uids + 1, generation |-> 1, spec |-> spec,
                   status |-> EmptyStatus]
<1>3. /\ Store(new) /\ uids' = uids + 1 /\ uids \in Nat
      /\ object = None /\ object' = new
  BY <1>2 DEF CreateAuraInstance, Store, TypeOK, KubernetesTypeOK
<1>4. /\ new.uid = uids + 1 /\ new.generation = 1
      /\ new.status.observedGeneration = 0
  BY EmptyStatusType
<1>5. new \in AuraInstance /\ new # None
  BY <1>3, EmptyStatusType, NoneAssumption DEF AuraInstance
<1> HIDE DEF new
<1>6. ASSUME NEW copy, Dated(copy) PROVE StillDated(copy)
  BY <1>3, <1>6 DEF Dated, StillDated
<1>7. StillDated(new)
  BY <1>3, <1>4 DEF StillDated
<1>8. \A k \in 1 .. Len(watch) : StillDated(watch[k])
  BY <1>6 DEF GenerationInv
<1>9. (\A k \in 1 .. Len(watch) : Dated(watch[k]))'
  <2>1. \A k \in 1 .. Len(watch') : StillDated(watch'[k])
    BY <1>3, <1>7, <1>8, StoreDates
  <2>2. QED
    BY <2>1 DEF Dated, StillDated
<1>10. Dated(cache)' /\ Dated(instance)'
  BY <1>1, <1>6 DEF GenerationInv, Dated, StillDated
<1>11. Ordered'
  <2> SUFFICES ASSUME uids = 0 PROVE Ordered'
    BY <1>3 DEF Ordered
  <2>1. watch = <<>> /\ cache' = None
    BY <1>1 DEF GenerationInv, Dated
  <2>2. watch' = <<new>>
    BY <1>3, <1>5, <2>1 DEF Store
  <2>3. Len(watch') = 1 /\ watch'[1] = new
    BY <2>2
  <2>4. QED
    BY <1>4, <1>5, <2>1, <2>3 DEF Ordered
<1>12. Observed'
  BY <1>3, <1>4 DEF Observed
<1>13. CopyInv'
  BY <1>1 DEF GenerationInv, CopyInv, SameGeneration
<1>14. QED
  BY <1>3, <1>4, <1>9, <1>10, <1>11, <1>12, <1>13 DEF GenerationInv

LEMMA UserEditsGeneration ==
  ASSUME TypeOK, TypeOK', GenerationInv, UserEdits PROVE GenerationInv'
<1>1. UNCHANGED <<cache, instance, pc, moved>>
  BY DEF UserEdits, EditAuraInstance, workerVars
<1>2. PICK spec \in Specs : EditAuraInstance(spec)
  BY DEF UserEdits
<1> DEFINE new == [object EXCEPT !.spec = spec, !.generation = @ + 1]
<1>3. Store(new) /\ object # None /\ object \in AuraInstance /\ uids' = uids
  BY <1>2 DEF EditAuraInstance, TypeOK, KubernetesTypeOK
<1>4. /\ new \in AuraInstance
      /\ new.uid = object.uid
      /\ new.generation = object.generation + 1
      /\ new.status = object.status
  <2>1. object.generation + 1 \in Nat
    BY <1>3 DEF AuraInstance
  <2>2. new = [object EXCEPT !.spec = spec, !.generation = object.generation + 1]
    BY <1>3 DEF AuraInstance
  <2> HIDE DEF new
  <2>3. QED
    BY <1>3, <2>1, <2>2 DEF AuraInstance
<1> HIDE DEF new
<1>5. object.generation \in Nat
  BY <1>3 DEF AuraInstance
<1>6. new.generation > object.generation
  BY <1>4, <1>5
<1>7. uids = 1 /\ new.status.observedGeneration # 0 =>
          cache # None /\ new.status.observedGeneration <= cache.generation
  BY <1>3, <1>4 DEF GenerationInv, Observed
<1>8. QED
  BY <1>1, <1>3, <1>4, <1>6, <1>7, NewVersionGeneration

LEMMA UserDeletesGeneration ==
  ASSUME TypeOK, GenerationInv, UserDeletes PROVE GenerationInv'
<1>1. UNCHANGED <<cache, instance, pc, moved, uids>>
  BY DEF UserDeletes, DeleteAuraInstance, workerVars
<1>2. Store(None) /\ object' = None /\ object # None
  BY DEF UserDeletes, DeleteAuraInstance, Store
<1>3. ASSUME NEW copy, Dated(copy) PROVE StillDated(copy)
  BY <1>1, <1>2, <1>3 DEF Dated, StillDated
<1>4. (\A k \in 1 .. Len(watch) : Dated(watch[k]))'
  <2>1. \A k \in 1 .. Len(watch') : StillDated(watch'[k])
    BY <1>2, <1>3, StoreDates DEF GenerationInv, StillDated
  <2>2. QED
    BY <2>1 DEF Dated, StillDated
<1>5. Dated(cache)' /\ Dated(instance)'
  BY <1>1, <1>3 DEF GenerationInv, Dated, StillDated
<1>6. Ordered' /\ Observed'
  BY <1>2 DEF Ordered, Observed
<1>7. CopyInv'
  BY <1>1 DEF GenerationInv, CopyInv, SameGeneration
<1>8. QED
  BY <1>1, <1>2, <1>4, <1>5, <1>6, <1>7 DEF GenerationInv

(***************************************************************************)
(* The status patch writes the generation of the copy, or leaves the one   *)
(* that is stored.  The copy is the cached one, since the server would     *)
(* refuse the patch if the cache had moved on.                             *)
(***************************************************************************)
LEMMA PatchObserves ==
  ASSUME TypeOK, GenerationInv, pc = "patch", ~moved, object # None,
         NEW reworded \in BOOLEAN
  PROVE  LET new == Patched(reworded) IN
         /\ new \in AuraInstance
         /\ new.uid = object.uid
         /\ SameGeneration(new, object)
         /\ uids = 1 /\ new.status.observedGeneration # 0 =>
                cache # None /\ new.status.observedGeneration <= cache.generation
         /\ uids = 1 =>
                new.status.observedGeneration >= object.status.observedGeneration
<1> DEFINE new == Patched(reworded)
<1>1. /\ new \in AuraInstance
      /\ new.uid = object.uid
      /\ new.generation = object.generation
      /\ new.status.observedGeneration
           \in {object.status.observedGeneration, instance.status.observedGeneration}
  BY PatchedType
<1>2. new.spec = object.spec
  BY DEF Patched, TypeOK, KubernetesTypeOK, AuraInstance
<1> HIDE DEF new
<1>3. /\ cache # None
      /\ instance.status.observedGeneration = cache.generation
  BY DEF GenerationInv, CopyInv, SameGeneration
<1>4. cache.generation \in Nat
  BY <1>3 DEF TypeOK, KubernetesTypeOK, AuraInstance
<1>5. object.status.observedGeneration \in Nat
  BY DEF TypeOK, KubernetesTypeOK, AuraInstance, AuraInstanceStatus
<1>6. uids = 1 => object.status.observedGeneration <= cache.generation
  BY <1>3, <1>4, <1>5 DEF GenerationInv, Observed
<1>7. QED
  BY <1>1, <1>2, <1>3, <1>4, <1>5, <1>6 DEF SameGeneration, new

LEMMA PatchStatusGeneration ==
  ASSUME TypeOK, TypeOK', GenerationInv, PatchStatus PROVE GenerationInv'
<1>1. /\ pc = "patch" /\ instance' = None /\ pc' = "idle"
      /\ UNCHANGED <<cache, uids>>
      /\ err \in BOOLEAN
  BY DEF PatchStatus, Finish, TypeOK, ControllerTypeOK
<1>2. CASE UNCHANGED <<object, watch>>
  <2>1. CopyKept
    BY <1>1 DEF CopyKept
  <2>2. QED
    BY <1>1, <1>2, <2>1, QuietGeneration
<1>3. ASSUME NEW reworded \in Rewordings, object # None, ~moved,
             Store(Patched(reworded))
      PROVE  GenerationInv'
  <2> DEFINE new == Patched(reworded)
  <2>1. /\ new \in AuraInstance
        /\ new.uid = object.uid
        /\ SameGeneration(new, object)
        /\ uids = 1 /\ new.status.observedGeneration # 0 =>
               cache # None /\ new.status.observedGeneration <= cache.generation
    BY <1>1, <1>3, PatchObserves DEF Rewordings
  <2>2. Store(new)
    BY <1>3
  <2> HIDE DEF new
  <2>3. QED
    BY <1>1, <1>3, <2>1, <2>2, NewVersionGeneration
<1>4. QED
  BY <1>2, <1>3 DEF PatchStatus

LEMMA CacheSyncedGeneration ==
  ASSUME TypeOK, GenerationInv, CacheSynced PROVE GenerationInv'
<1>1. /\ watch \in Seq(AuraInstance \cup {None}) /\ watch # <<>>
      /\ cache' = watch[1] /\ watch' = Tail(watch)
      /\ UNCHANGED <<object, uids, instance, pc>>
      /\ moved' = (pc # "idle")
  BY DEF CacheSynced, SyncCache, TypeOK, KubernetesTypeOK
<1>2. 1 \in 1 .. Len(watch) /\ Len(watch') = Len(watch) - 1 /\ Len(watch) \in Nat
  BY <1>1
<1>3. \A k \in 1 .. Len(watch') : watch'[k] = watch[k + 1] /\ k + 1 \in 1 .. Len(watch)
  BY <1>1, <1>2
<1>4. Dated(cache)' /\ Dated(instance)'
  BY <1>1, <1>2 DEF GenerationInv, Dated
<1>5. \A k \in 1 .. Len(watch') : Dated(watch[k + 1])
  BY <1>3 DEF GenerationInv
<1>6. (\A k \in 1 .. Len(watch) : Dated(watch[k]))'
  BY <1>1, <1>3, <1>5 DEF Dated
<1>7. Ordered'
  <2> SUFFICES ASSUME object # None, uids = 1, NEW k \in 1 .. Len(watch')
               PROVE  /\ watch'[k] # None
                      /\ watch[1].generation <= watch'[k].generation
                      /\ \A j \in 1 .. k : watch'[j].generation <= watch'[k].generation
    BY <1>1 DEF Ordered
  <2>1. \A j \in 1 .. k : j \in 1 .. Len(watch') /\ j + 1 \in 1 .. k + 1
    BY <1>2
  <2>2. watch'[k] = watch[k + 1] /\ \A j \in 1 .. k : watch'[j] = watch[j + 1]
    BY <1>3, <2>1
  <2>3. /\ watch[k + 1] # None
        /\ \A j \in 1 .. k + 1 : watch[j].generation <= watch[k + 1].generation
    BY <1>3 DEF GenerationInv, Ordered
  <2>4. 1 \in 1 .. k + 1
    BY <1>2
  <2>5. QED
    BY <2>1, <2>2, <2>3, <2>4
<1>8. Observed'
  <2> SUFFICES ASSUME object # None, uids = 1, object.status.observedGeneration # 0
               PROVE  /\ watch[1] # None
                      /\ object.status.observedGeneration <= watch[1].generation
    BY <1>1 DEF Observed
  <2>1. /\ cache # None /\ object.status.observedGeneration <= cache.generation
        /\ watch[1] # None /\ cache.generation <= watch[1].generation
    BY <1>2 DEF GenerationInv, Observed, Ordered
  <2>2. /\ cache \in AuraInstance /\ watch[1] \in AuraInstance /\ object \in AuraInstance
    BY <1>1, <1>2, <2>1 DEF TypeOK, KubernetesTypeOK
  <2>3. /\ object.status.observedGeneration \in Nat
        /\ cache.generation \in Nat /\ watch[1].generation \in Nat
    BY <2>2 DEF AuraInstance, AuraInstanceStatus
  <2>4. QED
    BY <2>1, <2>3
<1>9. CopyInv'
  BY <1>1 DEF GenerationInv, CopyInv
<1>10. uids' = 0 => watch' = <<>>
  BY <1>1 DEF GenerationInv
<1>11. QED
  BY <1>1, <1>4, <1>6, <1>7, <1>8, <1>9, <1>10 DEF GenerationInv

LEMMA CrashRestartGeneration ==
  ASSUME TypeOK, GenerationInv, CrashRestart PROVE GenerationInv'
<1>1. /\ cache' = object /\ watch' = <<>> /\ instance' = None /\ pc' = "idle"
      /\ UNCHANGED <<object, uids>>
  BY DEF CrashRestart, Relist
<1>2. Dated(object)
  BY DEF GenerationInv, Dated, TypeOK, KubernetesTypeOK, AuraInstance
<1>3. Observed'
  <2> SUFFICES ASSUME object # None, uids = 1, object.status.observedGeneration # 0
               PROVE  object.status.observedGeneration <= object.generation
    BY <1>1 DEF Observed
  <2>1. /\ cache # None /\ object.status.observedGeneration <= cache.generation
        /\ cache.generation <= object.generation
    BY DEF GenerationInv, Observed, Dated
  <2>2. cache \in AuraInstance /\ object \in AuraInstance
    BY <2>1 DEF TypeOK, KubernetesTypeOK
  <2>3. /\ object.status.observedGeneration \in Nat
        /\ cache.generation \in Nat /\ object.generation \in Nat
    BY <2>2 DEF AuraInstance, AuraInstanceStatus
  <2>4. QED
    BY <2>1, <2>3
<1>4. Dated(cache)' /\ Dated(instance)' /\ Ordered' /\ CopyInv'
  BY <1>1, <1>2 DEF Dated, Ordered, CopyInv
<1>5. QED
  BY <1>1, <1>3, <1>4 DEF GenerationInv

(***************************************************************************)
(* The strengthened invariant holds throughout.                            *)
(***************************************************************************)
LEMMA Generations == Spec => []GenerationInv
<1>1. Init => GenerationInv
  BY DEF Init, KubernetesInit, GenerationInv, Dated, Ordered, Observed, CopyInv
<1>2. TypeOK /\ TypeOK' /\ GenerationInv /\ [Next]_vars => GenerationInv'
  <2> SUFFICES ASSUME TypeOK, TypeOK', GenerationInv, [Next]_vars PROVE GenerationInv'
    OBVIOUS
  <2>1. CASE Reconcile /\ ~PatchStatus
    <3>1. UNCHANGED <<object, cache, watch, uids>>
      BY <2>1 DEF Reconcile, Start, StartNothingToDo, StartReadFails, StartReconcile,
                  StartWithoutCredentials, GetInstance, DeleteSecret, UpdateInstance,
                  ListInstances, PostInstance, CreateSecret, kubernetesVars
    <3>2. CopyKept
      BY <2>1, StartKeeps, GetInstanceKeeps, DeleteSecretKeeps, UpdateInstanceKeeps,
         ListInstancesKeeps, PostInstanceKeeps, CreateSecretKeeps DEF Reconcile
    <3>3. QED
      BY <3>1, <3>2, QuietGeneration
  <2>2. CASE PatchStatus
    BY <2>2, PatchStatusGeneration
  <2>3. CASE UserCreates \/ UserEdits \/ UserDeletes
    BY <2>3, UserCreatesGeneration, UserEditsGeneration, UserDeletesGeneration
  <2>4. CASE CacheSynced
    BY <2>4, CacheSyncedGeneration
  <2>5. CASE CrashRestart
    BY <2>5, CrashRestartGeneration
  <2>6. CASE \/ TimerFires \/ SecretTampered \/ SecretCollected \/ SecretSynced
             \/ CredentialsSynced \/ CredentialsEventDropped
             \/ AuraSettles \/ AuraDisturbed \/ RequestArrivesLate
             \/ UNCHANGED vars
    <3>1. UNCHANGED <<object, cache, watch, uids, instance, pc, moved>>
      BY <2>6 DEF TimerFires, SecretTampered, SecretCollected, CollectSecret,
                  PutForeignSecret, RemoveSecret, SecretSynced, SyncSecret,
                  CredentialsSynced, CredentialsEventDropped, SyncCredentials,
                  AuraSettles, AuraDisturbed, RequestArrivesLate,
                  vars, kubernetesVars, workerVars
    <3>2. CopyKept
      BY <3>1 DEF CopyKept, GenerationInv, CopyInv, SameGeneration
    <3>3. QED
      BY <3>1, <3>2, QuietGeneration
  <2>7. QED
    BY <2>1, <2>2, <2>3, <2>4, <2>5, <2>6 DEF Next, Environment
<1>3. QED
  BY <1>1, <1>2, Typing, PTL DEF Spec

(***************************************************************************)
(* However stale the cache, however often the patch is lost, repeated or   *)
(* refused, the first object of its name never reports a generation it has *)
(* not had (Reconcile, line 146, and patchStatus, lines 377-385).          *)
(***************************************************************************)
THEOREM ObservesRealGenerations == Spec => []ObservedGenerationReal
<1>1. TypeOK /\ GenerationInv => ObservedGenerationReal
  <2> SUFFICES ASSUME TypeOK, GenerationInv, object # None, object.uid = 1
               PROVE  object.status.observedGeneration <= object.generation
    BY DEF ObservedGenerationReal
  <2>1. uids = 1 /\ object \in AuraInstance
    BY DEF GenerationInv, TypeOK, KubernetesTypeOK
  <2>2. object.status.observedGeneration \in Nat /\ object.generation \in Nat
    BY <2>1 DEF AuraInstance, AuraInstanceStatus
  <2>3. CASE object.status.observedGeneration = 0
    BY <2>2, <2>3
  <2>4. CASE object.status.observedGeneration # 0
    <3>1. /\ cache # None /\ object.status.observedGeneration <= cache.generation
          /\ cache.generation <= object.generation
      BY <2>1, <2>4 DEF GenerationInv, Observed, Dated
    <3>2. cache.generation \in Nat
      BY <3>1 DEF TypeOK, KubernetesTypeOK, AuraInstance
    <3>3. QED
      BY <2>2, <3>1, <3>2
  <2>5. QED
    BY <2>3, <2>4
<1>2. QED
  BY <1>1, Typing, Generations, PTL

(***************************************************************************)
(* Nor does it take a generation back: the patch that would is refused as  *)
(* a conflict, or carries no generation (patchStatus, lines 377-385).      *)
(***************************************************************************)
THEOREM ObservesForward == Spec => ObservedGenerationMonotone
<1> DEFINE Forward ==
             object # None /\ object.uid = 1 /\ object' # None /\ object'.uid = 1 =>
                 object'.status.observedGeneration >= object.status.observedGeneration
<1>1. ASSUME TypeOK, GenerationInv, [Next]_vars PROVE [Forward]_vars
  <2> SUFFICES ASSUME object # None, object.uid = 1, object' # None
               PROVE  object'.status.observedGeneration
                        >= object.status.observedGeneration
    BY DEF Forward
  <2>1. object \in AuraInstance /\ object.status.observedGeneration \in Nat /\ uids = 1
    BY <1>1 DEF TypeOK, KubernetesTypeOK, AuraInstance, AuraInstanceStatus, GenerationInv
  <2>2. CASE object' = object
    BY <2>1, <2>2
  <2>3. CASE UserEdits
    BY <2>1, <2>3 DEF UserEdits, EditAuraInstance, Store, AuraInstance
  <2>4. CASE PatchStatus
    <3>1. pc = "patch" /\ err \in BOOLEAN
      BY <1>1, <2>4 DEF PatchStatus, TypeOK, ControllerTypeOK
    <3>2. ASSUME NEW reworded \in Rewordings, ~moved, Store(Patched(reworded))
          PROVE  object'.status.observedGeneration >= object.status.observedGeneration
      BY <1>1, <2>1, <3>1, <3>2, PatchObserves DEF Rewordings, Store
    <3>3. QED
      BY <2>2, <2>4, <3>2 DEF PatchStatus
  <2>5. CASE \/ Reconcile /\ ~PatchStatus
             \/ TimerFires \/ CrashRestart \/ UserCreates \/ UserDeletes
             \/ SecretTampered \/ SecretCollected \/ CacheSynced \/ SecretSynced
             \/ CredentialsSynced \/ CredentialsEventDropped
             \/ AuraSettles \/ AuraDisturbed \/ RequestArrivesLate
             \/ UNCHANGED vars
    <3>1. object' = object
      BY <2>5 DEF Reconcile, Start, StartNothingToDo, StartReadFails, StartReconcile,
                  StartWithoutCredentials, GetInstance, DeleteSecret, UpdateInstance,
                  ListInstances, PostInstance, CreateSecret, kubernetesVars,
                  TimerFires, CrashRestart, Relist, UserCreates, CreateAuraInstance,
                  UserDeletes, DeleteAuraInstance, Store,
                  SecretTampered, SecretCollected, CollectSecret, PutForeignSecret,
                  RemoveSecret, CacheSynced, SyncCache, SecretSynced, SyncSecret,
                  CredentialsSynced, CredentialsEventDropped, SyncCredentials,
                  AuraSettles, AuraDisturbed, RequestArrivesLate, vars
    <3>2. QED
      BY <2>2, <3>1
  <2>6. QED
    BY <1>1, <2>3, <2>4, <2>5 DEF Next, Environment
<1>2. QED
  BY <1>1, Typing, Generations, PTL DEF Spec, ObservedGenerationMonotone

================================================================================
