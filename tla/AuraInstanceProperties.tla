------------------------- MODULE AuraInstanceProperties -------------------------
(***************************************************************************)
(* What AuraInstanceReconciler promises its users, and what the comments   *)
(* and the README of the repository say of it.                             *)
(***************************************************************************)
EXTENDS AuraInstanceReconciler

(***************************************************************************)
(* Whatever is lost, late, stale or crashed between the POST and the       *)
(* status patch, two live instances never both come from requests the      *)
(* controller was waiting for: LIST by name before POST makes creation     *)
(* idempotent (reconcile, lines 301-344).                                  *)
(***************************************************************************)
SingleCreation ==
    \A i, j \in InstanceIds :
        /\ Live(i) /\ ~remote[i].late
        /\ Live(j) /\ ~remote[j].late
        => i = j

(***************************************************************************)
(* A request the client gave up on may still be carried out and make a     *)
(* second instance of the name; one property is about the time before.     *)
(***************************************************************************)
NoneLate == \A id \in InstanceIds : ~remote[id].late

(***************************************************************************)
(* The controller never lets go of a live instance: an id in the status    *)
(* is replaced or cleared only when the instance is gone, whatever fails,  *)
(* conflicts or crashes, as long as a reconcile starts from the newest     *)
(* version (MaxLag = 0; lines 230-255, 315-320, 346 and 377-385).          *)
(***************************************************************************)
LetsGo(id) ==
    /\ object # None
    /\ object' # None
    /\ object.uid = object'.uid
    /\ object.status.instanceID = id
    /\ object'.status.instanceID # id

BoundWhileLive == [][\A id \in InstanceIds : LetsGo(id) => ~Live(id)]_vars

Fate(id) ==
    CASE Live(id) /\ ~remote[id].late -> "requested"
      [] Live(id) /\ remote[id].late  -> "late"
      [] OTHER                        -> remote[id].state

Provisioning ==
    INSTANCE InstanceProvisioning
        WITH Ids    <- InstanceIds,
             Stale  <- MaxLag # 0,
             exists <- object # None,
             named  <- IF object = None THEN None ELSE object.status.instanceID,
             fate   <- [id \in InstanceIds |-> Fate(id)]

(***************************************************************************)
(* All the controller does about instances, over users, crashes, lost      *)
(* replies and late requests, amounts to asking for one instance at a      *)
(* time, naming what Aura handed out and forgetting what is gone           *)
(* (reconcile, lines 223-374; patchStatus, lines 377-385).                 *)
(***************************************************************************)
ProvidesOneInstance == Provisioning!Spec

(***************************************************************************)
(* The observed generation of the first object of its name is a generation *)
(* that object has had (line 146).                                         *)
(***************************************************************************)
ObservedGenerationReal ==
    object # None /\ object.uid = 1 =>
        object.status.observedGeneration <= object.generation

(***************************************************************************)
(* ... and it never goes back, although every status patch is computed     *)
(* from a cached copy (lines 146 and 377-385).                             *)
(***************************************************************************)
ObservedGenerationMonotone ==
    [][object # None /\ object.uid = 1 /\ object' # None /\ object'.uid = 1 =>
          object'.status.observedGeneration >= object.status.observedGeneration]_vars

(***************************************************************************)
(* Nor does the controller delete the secret that holds a live instance's  *)
(* password, which Aura shows only once (lines 230-249; MaxLag = 0).       *)
(***************************************************************************)
LiveCredentialsKept ==
    [][DeleteSecret =>
          \A name \in SecretNames :
              LET secret == secrets[name] IN
              secrets'[name] # secret /\ secret.instance # None /\ NoneLate =>
                  ~Live(secret.instance)]_vars

(***************************************************************************)
(* Ready = True for the current generation, with an instance and no        *)
(* Reconciling condition, means that the instance has the configuration    *)
(* the specification asks for (lines 263-298 and 377-385).  A successor    *)
(* may be given its predecessor's conditions, as its observed generation.  *)
(***************************************************************************)
ReadyMeansConfigured ==
    object # None /\ object.uid = 1 =>
        LET ready == object.status.conditions.Ready IN
        /\ ready # None
        /\ ready.status = "True"
        /\ ready.generation = object.generation
        /\ object.status.conditions.Reconciling = None
        /\ object.status.instanceID # None
        /\ Live(object.status.instanceID)
        => remote[object.status.instanceID].config = object.spec.config

(***************************************************************************)
(* An AuraInstance with an interval is never left to itself: once the      *)
(* cache knows its specification, its key waits in the queue, is about to  *)
(* be added again, or is being worked on, whatever was lost, failed or     *)
(* crashed (lines 145-164; GenerationChangedPredicate, line 87).  It is    *)
(* what Convergence rests on.                                              *)
(***************************************************************************)
NeverUnattended ==
    /\ object # None /\ ~object.spec.suspend /\ object.spec.interval = "positive"
    /\ cache # None /\ cache.uid = object.uid /\ cache.generation = object.generation
    => queued \/ timer \/ pc # "idle"

(***************************************************************************)
(* The observed generation is one the object has had, "the last generation *)
(* reconciled by the controller" (aurainstance_types.go, line 97), for     *)
(* every object of the name.                                               *)
(***************************************************************************)
ObservedGenerationOfThisObject ==
    object # None => object.status.observedGeneration <= object.generation

--------------------------------------------------------------------------------

\* A resource the controller is asked, and able, to work on.
Active == object # None /\ ~object.spec.suspend /\ credentials

Bound == object.status.instanceID # None /\ Live(object.status.instanceID)

Configured ==
    Bound /\ remote[object.status.instanceID].config = object.spec.config

Reported ==
    /\ object.status.observedGeneration = object.generation
    /\ object.status.instanceStatus = "running"
    /\ object.status.conditions.Reconciling = None
    /\ object.status.conditions.Ready # None
    /\ object.status.conditions.Ready.status = "True"
    /\ object.status.conditions.Ready.generation = object.generation

(***************************************************************************)
(* With an interval the controller repairs everything: once users, Aura    *)
(* and the network calm down, the resource has an instance of the right    *)
(* configuration and says so, for good (Reconcile, lines 145-164).         *)
(***************************************************************************)
Convergence ==
    <>[](Active /\ object.spec.interval = "positive" => Configured /\ Reported)

(***************************************************************************)
(* Without one the specification still reaches Aura, unless somebody       *)
(* changes the instance behind the controller's back: every error and      *)
(* every unfinished creation is retried (lines 145-164, 263-298, 374).     *)
(* An interval of zero is left out: it cancels the poll of an instance     *)
(* that is being created (lines 160-162), and nobody comes back.           *)
(***************************************************************************)
ConfigurationApplied ==
    <>[](Active /\ object.spec.interval # "zero" => Configured)

(***************************************************************************)
(* An instance that runs as specified is not reported as Reconciling for   *)
(* ever: the condition "gives insight about the current state of the       *)
(* resource" (README.md, lines 73-74).                                     *)
(***************************************************************************)
ReconcilingEnds ==
    <>[](Active /\ Configured => object.status.conditions.Reconciling = None)

(***************************************************************************)
(* The secret the status names is, in the end, the one "which contains the *)
(* connection details" (aurainstance_types.go, line 104) of the instance   *)
(* the status names.                                                       *)
(***************************************************************************)
ConnectionSecretAccurate ==
    object.status.connectionSecret # None =>
        LET secret == secrets[object.status.connectionSecret] IN
        secret # None /\ secret.instance = object.status.instanceID

ConnectionSecretSettles == <>[](Active => ConnectionSecretAccurate)

(***************************************************************************)
(* Some secret "will contain the connection details"                       *)
(* (aurainstance_types.go, line 68) of an instance the controller made and *)
(* reports as running, unless somebody removes it.                         *)
(***************************************************************************)
DetailsSaved ==
    \E name \in SecretNames :
        secrets[name] # None /\ secrets[name].instance = object.status.instanceID

ConnectionDetailsSaved == <>[](Active /\ Configured /\ Reported => DetailsSaved)

================================================================================
