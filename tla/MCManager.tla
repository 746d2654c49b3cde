-------------------------------- MODULE MCManager --------------------------------
(***************************************************************************)
(* Manager on small instances.                                             *)
(***************************************************************************)
EXTENDS Manager, TLC

CONSTANTS p1, p2, r1, r2, s1, s2

\* Two replicas that elect a leader, for all resources or for one.
Replicas ==
    {[election |-> TRUE,
      selector |-> [p \in Processes |-> Everything],
      label    |-> [r \in Resources |-> s1]]}

ReplicasOfOne ==
    {[election |-> TRUE,
      selector |-> [p \in Processes |-> s1],
      label    |-> r1 :> s1 @@ r2 :> s2]}

\* A shard for each process, or one with all resources and one with none.
Shards ==
    {[election |-> TRUE,
      selector |-> p1 :> s1 @@ p2 :> s2,
      label    |-> r1 :> s1 @@ r2 :> label] : label \in {s1, s2}}

Fleets == ReplicasOfOne \cup Shards

EditedOnce == [r \in Resources |-> 2]
FirstEditedOnce == [r \in Resources |-> IF r = r1 THEN 2 ELSE 1]

Once == [suspend |-> FALSE, interval |-> "unset"]
Never == [suspend |-> FALSE, interval |-> "zero"]
Often == [suspend |-> FALSE, interval |-> "positive"]
Resting == [suspend |-> TRUE, interval |-> "unset"]

OnlyOnce == {Once}
AllSpecs == {Once, Never, Often, Resting}

================================================================================
