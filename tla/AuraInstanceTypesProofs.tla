------------------------- MODULE AuraInstanceTypesProofs -------------------------
(***************************************************************************)
(* What the helpers on AuraInstances return, and what they leave alone.    *)
(***************************************************************************)
EXTENDS AuraInstanceTypes, TLAPS

\* changed is the same object as set, under another status.
Derived(changed, set) ==
    /\ changed \in AuraInstance
    /\ changed.uid = set.uid
    /\ changed.generation = set.generation
    /\ changed.spec = set.spec

(***************************************************************************)
(* The initial status of an object is a status.                            *)
(***************************************************************************)
LEMMA EmptyStatusType ==
  EmptyStatus \in AuraInstanceStatus /\ EmptyStatus.observedGeneration = 0
  BY DEF EmptyStatus, AuraInstanceStatus, Conditions, InstanceStatuses

(***************************************************************************)
(* Another list of conditions makes another AuraInstance of the same       *)
(* object, and leaves the rest of the status alone.                        *)
(***************************************************************************)
LEMMA ConditionsDerived ==
  ASSUME NEW set \in AuraInstance, NEW conditions \in Conditions
  PROVE  LET changed == [set EXCEPT !.status.conditions = conditions] IN
         /\ Derived(changed, set)
         /\ changed.status.instanceID = set.status.instanceID
         /\ changed.status.observedGeneration = set.status.observedGeneration
  BY DEF Derived, AuraInstance, AuraInstanceStatus

(***************************************************************************)
(* setResourceCondition changes one condition and nothing else             *)
(* (api/v1beta1/types.go, lines 32-44).                                    *)
(***************************************************************************)
LEMMA SetConditionDerived ==
  ASSUME NEW set \in AuraInstance, NEW condition \in {"Ready", "Reconciling"},
         NEW status \in {"True", "False"}, NEW reason \in Reasons,
         NEW generation \in Nat
  PROVE  LET changed == setResourceCondition(set, condition, status, reason, generation) IN
         /\ Derived(changed, set)
         /\ changed.status.instanceID = set.status.instanceID
         /\ changed.status.observedGeneration = set.status.observedGeneration
<1> DEFINE new == [status |-> status, reason |-> reason, generation |-> generation]
<1> DEFINE conditions == [set.status.conditions EXCEPT ![condition] = new]
<1>1. new \in Condition
  BY DEF Condition
<1>2. set.status.conditions \in Conditions
  BY DEF AuraInstance, AuraInstanceStatus
<1>3. conditions \in Conditions
  BY <1>1, <1>2 DEF Conditions
<1>4. setResourceCondition(set, condition, status, reason, generation)
        = [set EXCEPT !.status.conditions = conditions]
  BY DEF setResourceCondition, AuraInstance, AuraInstanceStatus
<1> HIDE DEF conditions
<1>5. QED
  BY <1>3, <1>4, ConditionsDerived

(***************************************************************************)
(* AuraInstanceReady and AuraInstanceReconciling are calls of it           *)
(* (aurainstance_types.go, lines 125-133).                                 *)
(***************************************************************************)
LEMMA ReadyDerived ==
  ASSUME NEW set \in AuraInstance,
         NEW status \in {"True", "False"}, NEW reason \in Reasons
  PROVE  /\ Derived(AuraInstanceReady(set, status, reason), set)
         /\ AuraInstanceReady(set, status, reason).status.instanceID
              = set.status.instanceID
<1>1. set.generation \in Nat
  BY DEF AuraInstance
<1>2. QED
  BY <1>1, SetConditionDerived DEF AuraInstanceReady

LEMMA ReconcilingDerived ==
  ASSUME NEW set \in AuraInstance,
         NEW status \in {"True", "False"}, NEW reason \in Reasons
  PROVE  /\ Derived(AuraInstanceReconciling(set, status, reason), set)
         /\ AuraInstanceReconciling(set, status, reason).status.instanceID
              = set.status.instanceID
<1>1. set.generation \in Nat
  BY DEF AuraInstance
<1>2. QED
  BY <1>1, SetConditionDerived DEF AuraInstanceReconciling

LEMMA DeleteReconcilingDerived ==
  ASSUME NEW set \in AuraInstance
  PROVE  /\ Derived(DeleteReconciling(set), set)
         /\ DeleteReconciling(set).status.instanceID = set.status.instanceID
<1> DEFINE conditions == [set.status.conditions EXCEPT !.Reconciling = None]
<1>1. conditions \in Conditions
  BY DEF AuraInstance, AuraInstanceStatus, Conditions
<1>2. DeleteReconciling(set) = [set EXCEPT !.status.conditions = conditions]
  BY DEF DeleteReconciling, AuraInstance, AuraInstanceStatus
<1> HIDE DEF conditions
<1>3. QED
  BY <1>1, <1>2, ConditionsDerived

(***************************************************************************)
(* The observed generation becomes the object's own (controller, line 146).*)
(***************************************************************************)
LEMMA ObservedDerived ==
  ASSUME NEW set \in AuraInstance, NEW generation \in Nat
  PROVE  LET changed == [set EXCEPT !.status.observedGeneration = generation] IN
         /\ Derived(changed, set)
         /\ changed.status.instanceID = set.status.instanceID
         /\ changed.status.observedGeneration = generation
  BY DEF Derived, AuraInstance, AuraInstanceStatus

(***************************************************************************)
(* Status().Patch applies a merge patch to a status and yields a status    *)
(* (controller, lines 377-385).                                            *)
(***************************************************************************)
LEMMA MergePatchType ==
  ASSUME NEW current \in AuraInstanceStatus, NEW original \in AuraInstanceStatus,
         NEW modified \in AuraInstanceStatus, NEW reworded \in BOOLEAN
  PROVE  /\ MergePatch(current, original, modified, reworded) \in AuraInstanceStatus
         /\ MergePatch(current, original, modified, reworded).observedGeneration
              \in {current.observedGeneration, modified.observedGeneration}
  BY DEF MergePatch, Merged, AuraInstanceStatus

(***************************************************************************)
(* A connection secret always has a name (lines 218-221).                  *)
(***************************************************************************)
LEMMA ConnectionSecretNameType ==
  ASSUME NEW set \in AuraInstance
  PROVE  connectionSecretName(set) \in SecretNames
  BY SpecsAssumption DEF connectionSecretName, AuraInstance, AuraInstanceSpec

================================================================================
