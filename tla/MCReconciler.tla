------------------------------ MODULE MCReconciler ------------------------------
(***************************************************************************)
(* AuraInstanceReconciler on small instances.                              *)
(***************************************************************************)
EXTENDS AuraInstanceProperties, TLC

CONSTANTS i1, i2, i3, c1, c2, n1, n2

Wants(config, name, suspend, interval) ==
    [config |-> config, connectionSecret |-> name,
     suspend |-> suspend, interval |-> interval]

OneSpec == {Wants(c1, None, FALSE, "positive")}
TwoConfigs == {Wants(c1, None, FALSE, "unset"), Wants(c2, None, FALSE, "positive")}
NoInterval == {Wants(c1, None, FALSE, "unset"), Wants(c2, None, FALSE, "unset")}
TwoNames == {Wants(c1, None, FALSE, "positive"), Wants(c1, n2, FALSE, "positive")}
Suspendable == {Wants(c1, None, FALSE, "positive"), Wants(c2, None, TRUE, "unset"),
                Wants(c2, None, FALSE, "unset"), Wants(c2, None, FALSE, "zero")}

IdSymmetry == Permutations(InstanceIds)

================================================================================
