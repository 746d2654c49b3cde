--------------------------- MODULE AuraInstanceTypes ---------------------------
(***************************************************************************)
(* The AuraInstance custom resource (api/v1beta1): what a user may ask     *)
(* for, what the controller writes back, and the helpers that set          *)
(* conditions.  One resource is followed, so its name is left out; its     *)
(* successive incarnations under that name differ by uid.                  *)
(*                                                                         *)
(* A config stands for the three fields an update can change (memory,      *)
(* vectorOptimized, graphAnalyticsPlugin); connectionSecret = None is the  *)
(* empty name.  Of the interval only its sign matters: no property is      *)
(* about how long it is.                                                   *)
(***************************************************************************)
EXTENDS Integers

CONSTANTS
    None,               \* an absent object, name or condition
    InstanceIds,        \* the ids Aura hands out
    Configs,
    SecretNames,
    DefaultSecretName,  \* "<name>-connection"
    Specs               \* the specifications users write

\* "zero" stands for every interval that is not positive.
Intervals == {"unset", "zero", "positive"}

AuraInstanceSpec ==
    [config : Configs, connectionSecret : SecretNames \cup {None},
     suspend : BOOLEAN, interval : Intervals]

ASSUME SpecsAssumption ==
    /\ Specs \subseteq AuraInstanceSpec
    /\ DefaultSecretName \in SecretNames

--------------------------------------------------------------------------------

Reasons == {"InstanceRunning", "InstanceNotReady", "ReconciliationFailed",
            "InstanceCreating", "UpdatingInstance", "CreatingInstance"}

Condition == [status : {"True", "False"}, reason : Reasons, generation : Nat]

Conditions == [Ready : Condition \cup {None}, Reconciling : Condition \cup {None}]

\* "busy" stands for every status that is neither running nor creating.
InstanceStatuses == {"", "creating", "running", "busy"}

AuraInstanceStatus ==
    [conditions         : Conditions,
     observedGeneration : Nat,
     instanceID         : InstanceIds \cup {None},
     connectionSecret   : SecretNames \cup {None},
     instanceStatus     : InstanceStatuses]

AuraInstance ==
    [uid : Nat, generation : Nat, spec : Specs, status : AuraInstanceStatus]

ASSUME NoneAssumption ==
    /\ None \notin InstanceIds \cup SecretNames
    /\ None \notin AuraInstance
    /\ None \notin Condition

EmptyStatus ==
    [conditions         |-> [Ready |-> None, Reconciling |-> None],
     observedGeneration |-> 0,
     instanceID         |-> None,
     connectionSecret   |-> None,
     instanceStatus     |-> ""]

--------------------------------------------------------------------------------

setResourceCondition(set, condition, status, reason, generation) ==
    [set EXCEPT !.status.conditions =
        [@ EXCEPT ![condition] =
            [status |-> status, reason |-> reason, generation |-> generation]]]

AuraInstanceReady(set, status, reason) ==
    setResourceCondition(set, "Ready", status, reason, set.generation)

AuraInstanceReconciling(set, status, reason) ==
    setResourceCondition(set, "Reconciling", status, reason, set.generation)

DeleteReconciling(set) == [set EXCEPT !.status.conditions.Reconciling = None]

connectionSecretName(instance) ==
    IF instance.spec.connectionSecret = None
    THEN DefaultSecretName
    ELSE instance.spec.connectionSecret

(***************************************************************************)
(* What the API server makes of the JSON merge patch that turns original   *)
(* into modified: it carries a field only when the two differ, and the     *)
(* list of conditions is one field.  reworded says that a message or the   *)
(* time of a transition, which the model leaves out, differs although the  *)
(* conditions do not.                                                      *)
(***************************************************************************)
Merged(current, original, modified) ==
    IF modified = original THEN current ELSE modified

MergePatch(current, original, modified, reworded) ==
    [conditions         |-> IF reworded THEN modified.conditions
                            ELSE Merged(current.conditions, original.conditions,
                                        modified.conditions),
     observedGeneration |-> Merged(current.observedGeneration,
                                   original.observedGeneration,
                                   modified.observedGeneration),
     instanceID         |-> Merged(current.instanceID, original.instanceID,
                                   modified.instanceID),
     connectionSecret   |-> Merged(current.connectionSecret,
                                   original.connectionSecret,
                                   modified.connectionSecret),
     instanceStatus     |-> Merged(current.instanceStatus,
                                   original.instanceStatus,
                                   modified.instanceStatus)]

================================================================================
