------------------------- MODULE AuraInstanceReconciler -------------------------
(***************************************************************************)
(* The controller: one process reconciling one AuraInstance against the    *)
(* Aura API, as internal/controllers/aurainstance_controller.go does.      *)
(*                                                                         *)
(* Reconcile runs from Start to PatchStatus.  It is cut at every call to   *)
(* another system, so that users, the cache, Aura and a crash interleave   *)
(* with it at each of them; pc names the call that comes next.             *)
(*                                                                         *)
(*     Start -- get -- delete -----------------.                           *)
(*         \       \-- update ------------------- patch -- idle            *)
(*          \-- list -- post -- create --------'                           *)
(*                                                                         *)
(* The work queue is what controller-runtime makes of it for one key: a    *)
(* set of waiting keys (queued) and one pending delayed add (timer), for   *)
(* RequeueAfter and for the back-off after errors alike.                   *)
(***************************************************************************)
EXTENDS Kubernetes, AuraCloud

CONSTANTS
    Troubles,           \* the kinds of trouble that may happen ...
    MaxDisturbances,    \* ... and how often, over all kinds
    MaxGeneration,      \* bound on the edits of one incarnation
    MaxUid,             \* bound on the incarnations
    MaxLag              \* versions the cache may miss when a reconcile starts

TroubleKinds ==
    {"reply", "inflight", "crash", "status", "secret", "event", "read",
     "credentials", "occupy", "drift", "destroy", "foreign", "delete"}

ASSUME BoundsAssumption ==
    /\ Troubles \subseteq TroubleKinds
    /\ {MaxDisturbances, MaxGeneration, MaxUid, MaxLag} \subseteq Nat

VARIABLES
    pc,             \* the call Reconcile makes next
    snapshot,       \* the AuraInstance as Reconcile read it
    instance,       \* ... and as it has changed it since
    err,            \* whether reconcile returned an error
    result,         \* the ctrl.Result it returned
    moved,          \* the cached AuraInstance changed since Start
    queued,         \* the key waits in the work queue
    timer,          \* a delayed add of the key is pending
    disturbances    \* troubles so far

workerVars == <<pc, snapshot, instance, err, result, moved>>
queueVars == <<queued, timer>>
vars == <<kubernetesVars, cloudVars, workerVars, queueVars, disturbances>>

Steps == {"idle", "get", "delete", "list", "post", "create", "update", "patch"}
Results == {"none", "requeue", "requeueAfter"}

ControllerTypeOK ==
    /\ pc \in Steps
    /\ snapshot \in AuraInstance \cup {None}
    /\ instance \in AuraInstance \cup {None}
    /\ pc # "idle" => snapshot \in AuraInstance /\ instance \in AuraInstance
    /\ pc \in {"get", "delete", "update", "create"} =>
           instance.status.instanceID \in InstanceIds
    /\ err \in BOOLEAN
    /\ result \in Results
    /\ moved \in BOOLEAN
    /\ queued \in BOOLEAN
    /\ timer \in BOOLEAN

TypeOK ==
    /\ KubernetesTypeOK
    /\ CloudTypeOK
    /\ ControllerTypeOK
    /\ disturbances \in Nat

Init ==
    /\ KubernetesInit
    /\ CloudInit
    /\ pc = "idle"
    /\ snapshot = None
    /\ instance = None
    /\ err = FALSE
    /\ result = "none"
    /\ moved = FALSE
    /\ queued = FALSE
    /\ timer = FALSE
    /\ disturbances = 0

Disturb(kind) ==
    /\ kind \in Troubles
    /\ disturbances < MaxDisturbances
    /\ disturbances' = disturbances + 1

Calm == UNCHANGED disturbances

\* A reply is the one the request deserves, or the API is in trouble.
Answered(reply, code) ==
    \/ reply = Honest(code) /\ Calm
    \/ reply \in Troubled(code) /\ Disturb("reply")

--------------------------------------------------------------------------------

(***************************************************************************)
(* The ways out of reconcile.                                              *)
(***************************************************************************)

\* Defect: the generation is counted, not copied.
ReviewedByCounting(changed, failed) ==
    [IF failed THEN AuraInstanceReady(changed, "False", "ReconciliationFailed") ELSE changed
     EXCEPT !.status.observedGeneration = @ + 1]

\* Defect: an error is returned with a zero AuraInstance.
ReviewedZeroOnError(changed, failed) ==
    IF failed
    THEN AuraInstanceReady([changed EXCEPT !.status = EmptyStatus],
                           "False", "ReconciliationFailed")
    ELSE [changed EXCEPT !.status.observedGeneration = changed.generation]

\* Reconcile notes the generation and the error.
Reviewed(changed, failed) ==
    [IF failed THEN AuraInstanceReady(changed, "False", "ReconciliationFailed") ELSE changed
     EXCEPT !.status.observedGeneration = changed.generation]

\* It returns, and the status is patched next.
Return(changed, failed, requeue) ==
    /\ pc' = "patch"
    /\ instance' = Reviewed(changed, failed)
    /\ err' = failed
    /\ result' = requeue
    /\ UNCHANGED <<snapshot, moved, queueVars>>

Fail(changed) == Return(changed, TRUE, "none")

\* It goes on to the next call.
Proceed(step, changed) ==
    /\ pc' = step
    /\ instance' = changed
    /\ UNCHANGED <<snapshot, err, result, moved, queueVars>>

\* Reconcile is over; controller-runtime adds the key again after a while.
Finish(again) ==
    /\ pc' = "idle"
    /\ snapshot' = None
    /\ instance' = None
    /\ err' = FALSE
    /\ result' = "none"
    /\ moved' = FALSE
    /\ timer' = (timer \/ again)

\* A nil pointer: controller-runtime recovers and takes the panic for an error.
Panic == Finish(TRUE) /\ UNCHANGED queued

--------------------------------------------------------------------------------

(***************************************************************************)
(* Reconcile reads the AuraInstance from the cache, and the credentials.   *)
(***************************************************************************)
Start ==
    /\ pc = "idle"
    /\ queued
    /\ Len(watch) <= MaxLag
    /\ queued' = FALSE
    /\ UNCHANGED <<kubernetesVars, cloudVars>>

Wanted == cache # None /\ ~cache.spec.suspend

StartNothingToDo ==
    /\ Start
    /\ ~Wanted
    /\ Finish(FALSE)
    /\ Calm

StartReadFails ==
    /\ Start
    /\ Finish(TRUE)
    /\ Disturb("read")

\* Defect: the status is not asked whether there is an instance.
FirstCallGet(read) == "get"

FirstCall(read) == IF read.status.instanceID # None THEN "get" ELSE "list"

StartReconcile ==
    /\ Start
    /\ Wanted
    /\ credentials
    /\ pc' = FirstCall(cache)
    /\ snapshot' = cache
    /\ instance' = cache
    /\ UNCHANGED <<err, result, moved, timer>>
    /\ Calm

StartWithoutCredentials ==
    /\ Start
    /\ Wanted
    /\ ~credentials
    /\ pc' = "patch"
    /\ snapshot' = cache
    /\ instance' = Reviewed(cache, TRUE)
    /\ err' = TRUE
    /\ UNCHANGED <<result, moved, timer>>
    /\ Calm
--------------------------------------------------------------------------------

(***************************************************************************)
(* The resource has an instance id: ask Aura about the instance.           *)
(***************************************************************************)

\* Defect: a running instance is never compared with the specification.
CheckDriftNever(changed, config, data) == Return(changed, FALSE, "none")

\* The comparison with the specification.  A missing optional field is a nil
\* pointer, unless an earlier field already differs.
CheckDrift(changed, config, data) ==
    \/ /\ data = "full"
       /\ changed.spec.config = config
       /\ Return(changed, FALSE, "none")
    \/ /\ changed.spec.config # config
       /\ Proceed("update", AuraInstanceReconciling(changed, "True", "UpdatingInstance"))
    \/ /\ data = "partial"
       /\ Panic

\* Defect: nobody comes back for an instance that is being created.
ExamineOnce(found, data) ==
    LET read == [instance EXCEPT !.status.instanceStatus = found.state] IN
    IF found.state = "creating"
    THEN Return(AuraInstanceReconciling(read, "True", "InstanceCreating"), FALSE, "none")
    ELSE CheckDrift(AuraInstanceReady(DeleteReconciling(read), "True", "InstanceRunning"),
                    found.config, data)

Examine(found, data) ==
    LET read == [instance EXCEPT !.status.instanceStatus = found.state] IN
    \/ /\ found.state = "creating"
       /\ Return(AuraInstanceReconciling(read, "True", "InstanceCreating"),
                 FALSE, "requeueAfter")
    \/ /\ found.state = "running"
       /\ CheckDrift(AuraInstanceReady(DeleteReconciling(read), "True", "InstanceRunning"),
                     found.config, data)
    \/ /\ found.state = "busy"
       /\ CheckDrift(AuraInstanceReady(read, "False", "InstanceNotReady"),
                     found.config, data)

\* Defect: every answer but 200 is taken for an instance that is gone.
MissingUnlessFound(response) == response.err \/ response.code # 200

Missing(response) == ~response.err /\ response.code = 404

GetInstance ==
    /\ pc = "get"
    /\ \E reply \in Reply \cup {NoReply} :
           LET id == instance.status.instanceID
               response == ParseGetInstanceIdResponse(reply) IN
           /\ Answered(reply, IF Live(id) THEN 200 ELSE 404)
           /\ \/ response.err /\ Fail(instance)
              \/ Missing(response) /\ Proceed("delete", instance)
              \/ ~response.err /\ response.code \notin {200, 404} /\ Fail(instance)
              \/ ~response.err /\ response.code = 200 /\ response.data = "nil" /\ Panic
              \/ /\ response.code = 200
                 /\ response.data # "nil"
                 /\ Examine(remote[id], response.data)
    /\ UNCHANGED <<kubernetesVars, cloudVars>>

(***************************************************************************)
(* Aura does not know the id: delete the connection secret the current     *)
(* specification names, as the cache shows it, and forget the instance.    *)
(***************************************************************************)
ForgetInstance ==
    Return([instance EXCEPT !.status.instanceID = None, !.status.connectionSecret = None],
           FALSE, "requeue")

DeleteSecret ==
    /\ pc = "delete"
    /\ LET name == connectionSecretName(instance)
           seen == secretCache[name]
           Deletable == seen # None /\ seen.owner \in {NoOwner, instance.uid}
           Deleted == [secrets EXCEPT ![name] = None] IN
       \/ seen = None /\ secrets' = secrets /\ ForgetInstance /\ Calm
       \/ seen # None /\ ~Deletable /\ secrets' = secrets /\ Fail(instance) /\ Calm
       \/ Deletable /\ secrets[name] # None /\ secrets' = Deleted /\ ForgetInstance /\ Calm
       \/ Deletable /\ secrets[name] = None /\ secrets' = secrets /\ Fail(instance) /\ Calm
       \/ Deletable /\ secrets' \in {secrets, Deleted} /\ Fail(instance) /\ Disturb("secret")
       \/ secrets' = secrets /\ Fail(instance) /\ Disturb("read")
    /\ UNCHANGED <<object, cache, watch, uids, secretCache, credentials, cloudVars>>

(***************************************************************************)
(* The instance runs under another configuration: update it.               *)
(***************************************************************************)
UpdateInstance ==
    /\ pc = "update"
    /\ LET id == instance.status.instanceID
           config == instance.spec.config IN
       \/ \E code \in {200, 202} : \E reply \in Reply \cup {NoReply} :
              /\ Reconfigure(id, config)
              /\ UNCHANGED orphans
              /\ Answered(reply, code)
              /\ LET response == ParsePatchInstanceIdResponse(reply) IN
                 \/ response.err /\ Fail(instance)
                 \/ ~response.err /\ response.code # 202 /\ Fail(instance)
                 \/ response.code = 202 /\ Return(instance, FALSE, "none")
       \/ /\ remote[id].state # "running"
          /\ UNCHANGED cloudVars
          /\ Fail(instance)
          /\ Calm
       \/ UNCHANGED cloudVars /\ Fail(instance) /\ Disturb("reply")
       \/ Abandon(id, config) /\ UNCHANGED remote /\ Fail(instance) /\ Disturb("inflight")
    /\ UNCHANGED kubernetesVars

--------------------------------------------------------------------------------

(***************************************************************************)
(* The resource has no instance id: adopt the instance of its name ...     *)
(***************************************************************************)
\* Defect: an instance that is still being created is not adopted.
NamedRunning == {id \in InstanceIds : remote[id].state = "running"}

Named == {id \in InstanceIds : Live(id)}

ListInstances ==
    /\ pc = "list"
    /\ \E reply \in {r \in Reply : r.body # "partial"} \cup {NoReply} :
           LET response == ParseGetInstancesResponse(reply) IN
           /\ Answered(reply, 200)
           /\ \/ response.err /\ Fail(instance)
              \/ ~response.err /\ response.code # 200 /\ Fail(instance)
              \/ ~response.err /\ response.code = 200 /\ response.data = "nil" /\ Panic
              \/ /\ response.data # "nil"
                 /\ \E id \in Named :
                        Return([instance EXCEPT !.status.instanceID = id], FALSE, "requeue")
              \/ /\ response.data # "nil"
                 /\ Named = {}
                 /\ Proceed("post", AuraInstanceReconciling(instance, "True",
                                                            "CreatingInstance"))
    /\ UNCHANGED <<kubernetesVars, cloudVars>>

(***************************************************************************)
(* ... or create one.  Aura may carry the request out and the reply be     *)
(* lost, refuse it, or carry it out later than anybody waits for it.       *)
(***************************************************************************)
PostInstance ==
    /\ pc = "post"
    /\ \/ \E id \in InstanceIds, reply \in Reply \cup {NoReply} :
              LET response == ParsePostInstancesResponse(reply) IN
              /\ Provision(id, instance.spec.config, FALSE)
              /\ UNCHANGED orphans
              /\ Answered(reply, 202)
              /\ \/ response.err /\ Fail(instance)
                 \/ ~response.err /\ response.code # 202 /\ Fail(instance)
                 \/ ~response.err /\ response.code = 202 /\ response.data # "full" /\ Panic
                 \/ /\ response.data = "full"
                    /\ Proceed("create",
                               [instance EXCEPT
                                   !.status.instanceID = id,
                                   !.status.connectionSecret = connectionSecretName(instance)])
       \/ UNCHANGED cloudVars /\ Fail(instance) /\ Disturb("reply")
       \/ /\ Abandon(None, instance.spec.config)
          /\ UNCHANGED remote
          /\ Fail(instance)
          /\ Disturb("inflight")
    /\ UNCHANGED kubernetesVars

\* The password is in the reply to the POST only; it goes into the secret.
CreateSecret ==
    /\ pc = "create"
    /\ LET name == connectionSecretName(instance)
           written == [secrets EXCEPT ![name] =
                          [owner    |-> instance.uid,
                           instance |-> instance.status.instanceID]] IN
       \/ /\ secrets[name] = None
          /\ secrets' = written
          /\ Return(instance, FALSE, "requeueAfter")
          /\ Calm
       \/ /\ secrets[name] # None
          /\ secrets' = secrets
          /\ Fail(instance)
          /\ Calm
       \/ /\ secrets[name] = None
          /\ secrets' \in {secrets, written}
          /\ Fail(instance)
          /\ Disturb("secret")
    /\ UNCHANGED <<object, cache, watch, uids, secretCache, credentials, cloudVars>>

--------------------------------------------------------------------------------

(***************************************************************************)
(* patchStatus reads the cache again and sends the difference.  Once the   *)
(* cache has moved on, the difference holds the resourceVersion and the    *)
(* server refuses the patch as a conflict; as long as it has not, the      *)
(* patch is applied to whatever is stored under the name.                  *)
(***************************************************************************)
Patched(reworded) ==
    [object EXCEPT !.status = MergePatch(@, snapshot.status, instance.status, reworded)]

\* What the model leaves out of a condition changes with an error, with a status
\* that is neither running nor creating, and when an update deletes Reconciling
\* and sets it again.
Rewordings ==
    {reworded \in BOOLEAN : reworded =>
        LET conditions == instance.status.conditions IN
        \/ err
        \/ /\ result = "none"
           /\ \/ conditions.Reconciling # None
              \/ conditions.Ready # None /\ conditions.Ready.status = "False"}

\* Defect: the interval is not looked at.
AgainWithoutInterval == err \/ result # "none"

\* After a success the interval of the stored version, if it has one, takes the
\* place of the delay reconcile asked for; a delay of zero is no delay at all.
Again ==
    \/ err
    \/ result = "requeue"
    \/ result = "requeueAfter" /\ object.spec.interval = "unset"
    \/ object.spec.interval = "positive"

PatchStatus ==
    /\ pc = "patch"
    /\ \/ \E reworded \in Rewordings :
              /\ object # None
              /\ ~moved
              /\ Store(Patched(reworded))
              /\ \/ Finish(Again) /\ Calm
                 \/ Finish(TRUE) /\ Disturb("status")
       \/ /\ object = None \/ moved
          /\ UNCHANGED <<object, watch>>
          /\ Finish(TRUE)
          /\ Calm
       \/ /\ UNCHANGED <<object, watch>>
          /\ Finish(TRUE)
          /\ Disturb("status")
    /\ UNCHANGED <<cache, uids, secrets, secretCache, credentials, cloudVars, queued>>

TimerFires ==
    /\ timer
    /\ timer' = FALSE
    /\ queued' = TRUE
    /\ UNCHANGED <<kubernetesVars, cloudVars, workerVars, disturbances>>

(***************************************************************************)
(* The process dies and another one takes over.                            *)
(***************************************************************************)
CrashRestart ==
    /\ Disturb("crash")
    /\ Relist
    /\ pc' = "idle"
    /\ snapshot' = None
    /\ instance' = None
    /\ err' = FALSE
    /\ result' = "none"
    /\ moved' = FALSE
    /\ queued' = (object # None)
    /\ timer' = FALSE
    /\ UNCHANGED remote
    /\ \/ UNCHANGED orphans
       \/ /\ "inflight" \in Troubles
          /\ pc \in {"post", "update"}
          /\ Abandon(IF pc = "post" THEN None ELSE instance.status.instanceID,
                     instance.spec.config)

--------------------------------------------------------------------------------

(***************************************************************************)
(* What happens around the controller.                                     *)
(***************************************************************************)
UserCreates ==
    /\ uids < MaxUid
    /\ \E spec \in Specs : CreateAuraInstance(spec)
    /\ UNCHANGED <<cloudVars, workerVars, queueVars, disturbances>>

UserEdits ==
    /\ object # None /\ object.generation < MaxGeneration
    /\ \E spec \in Specs : EditAuraInstance(spec)
    /\ UNCHANGED <<cloudVars, workerVars, queueVars, disturbances>>

UserDeletes ==
    /\ DeleteAuraInstance
    /\ Disturb("delete")
    /\ UNCHANGED <<cloudVars, workerVars, queueVars>>

SecretTampered ==
    /\ \E name \in SecretNames :
           \/ \E owner \in {NoOwner, OtherOwner} : PutForeignSecret(name, owner)
           \/ RemoveSecret(name)
    /\ Disturb("foreign")
    /\ UNCHANGED <<cloudVars, workerVars, queueVars>>

SecretCollected ==
    /\ \E name \in SecretNames : CollectSecret(name)
    /\ UNCHANGED <<cloudVars, workerVars, queueVars, disturbances>>

\* The informer delivers one event and the predicate judges it.
CacheSynced ==
    /\ SyncCache
    /\ moved' = (pc # "idle")
    /\ queued' = (queued \/ GenerationChanged(cache, cache'))
    /\ UNCHANGED <<cloudVars, pc, snapshot, instance, err, result, timer, disturbances>>

SecretSynced ==
    /\ \E name \in SecretNames : SyncSecret(name)
    /\ UNCHANGED <<cloudVars, workerVars, queueVars, disturbances>>

\* requestsForSecretChange: nothing is enqueued when the lookup fails.
CredentialsSynced ==
    /\ \E usable \in BOOLEAN :
           /\ usable # credentials
           /\ SyncCredentials(usable)
           /\ IF usable THEN Calm ELSE Disturb("credentials")
    /\ queued' = (queued \/ cache # None)
    /\ UNCHANGED <<cloudVars, workerVars, timer>>

CredentialsEventDropped ==
    /\ SyncCredentials(~credentials)
    /\ Disturb("event")
    /\ UNCHANGED <<cloudVars, workerVars, queueVars>>

AuraSettles ==
    /\ \E id \in InstanceIds : Settle(id)
    /\ UNCHANGED <<kubernetesVars, workerVars, queueVars, disturbances>>

AuraDisturbed ==
    /\ \E id \in InstanceIds :
           \/ Occupy(id) /\ Disturb("occupy")
           \/ \E config \in Configs : Drift(id, config) /\ Disturb("drift")
           \/ Destroy(id) /\ Disturb("destroy")
    /\ UNCHANGED <<kubernetesVars, workerVars, queueVars>>

RequestArrivesLate ==
    /\ \E request \in orphans : ArriveLate(request)
    /\ UNCHANGED <<kubernetesVars, workerVars, queueVars, disturbances>>

--------------------------------------------------------------------------------

Reconcile ==
    \/ StartNothingToDo \/ StartReadFails \/ StartReconcile \/ StartWithoutCredentials
    \/ GetInstance \/ DeleteSecret \/ UpdateInstance
    \/ ListInstances \/ PostInstance \/ CreateSecret
    \/ PatchStatus

Environment ==
    \/ UserCreates \/ UserEdits \/ UserDeletes
    \/ SecretTampered \/ SecretCollected
    \/ CacheSynced \/ SecretSynced \/ CredentialsSynced \/ CredentialsEventDropped
    \/ AuraSettles \/ AuraDisturbed \/ RequestArrivesLate

Next == Reconcile \/ TimerFires \/ CrashRestart \/ Environment

Spec == Init /\ [][Next]_vars

(***************************************************************************)
(* The worker, the timer and the informers never rest, the garbage         *)
(* collector gets round to every secret, and Aura finishes what it does.   *)
(***************************************************************************)
LiveSpec ==
    /\ Spec
    /\ WF_vars(Reconcile)
    /\ WF_vars(TimerFires)
    /\ WF_vars(CacheSynced)
    /\ WF_vars(SecretSynced)
    /\ WF_vars(SecretCollected)
    /\ WF_vars(AuraSettles)

================================================================================
