-------------------------- MODULE InstanceProvisioning --------------------------
(***************************************************************************)
(* What the controller promises about instances, without saying how: it    *)
(* asks Aura for one only while no instance it asked for is alive, its     *)
(* resource names only ids Aura has handed out, and an id that is named    *)
(* stays named until its instance is gone.                                 *)
(***************************************************************************)
CONSTANTS
    None,
    Ids,            \* the ids Aura hands out
    Stale           \* reconciles may start from old copies of the resource

VARIABLES
    exists,         \* whether there is a resource
    named,          \* the id its status names
    fate            \* what has become of each id

vars == <<exists, named, fate>>

\* "late": alive, made by a request nobody waited for any more.
Fates == {"unused", "requested", "late", "gone"}

TypeOK ==
    /\ exists \in BOOLEAN
    /\ named \in Ids \cup {None}
    /\ fate \in [Ids -> Fates]

Init ==
    /\ exists = FALSE
    /\ named = None
    /\ fate = [id \in Ids |-> "unused"]

--------------------------------------------------------------------------------

Create ==
    /\ ~exists
    /\ exists' = TRUE
    /\ UNCHANGED <<named, fate>>

Delete ==
    /\ exists
    /\ exists' = FALSE
    /\ named' = None
    /\ UNCHANGED fate

Request(id) ==
    /\ fate[id] = "unused"
    /\ \A other \in Ids : fate[other] # "requested"
    /\ fate' = [fate EXCEPT ![id] = "requested"]
    /\ UNCHANGED <<exists, named>>

ArriveLate(id) ==
    /\ fate[id] = "unused"
    /\ fate' = [fate EXCEPT ![id] = "late"]
    /\ UNCHANGED <<exists, named>>

Lose(id) ==
    /\ fate[id] \in {"requested", "late"}
    /\ fate' = [fate EXCEPT ![id] = "gone"]
    /\ UNCHANGED <<exists, named>>

\* Nothing alive is let go of, unless it is not known to be named.
Free == named = None \/ fate[named] = "gone" \/ Stale

Name(id) ==
    /\ exists
    /\ Free
    /\ fate[id] # "unused"
    /\ named' = id
    /\ UNCHANGED <<exists, fate>>

Forget ==
    /\ exists
    /\ Free
    /\ named' = None
    /\ UNCHANGED <<exists, fate>>

--------------------------------------------------------------------------------

Next ==
    \/ Create \/ Delete \/ Forget
    \/ \E id \in Ids : Request(id) \/ ArriveLate(id) \/ Lose(id) \/ Name(id)

Spec == Init /\ [][Next]_vars

================================================================================
