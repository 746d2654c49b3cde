-------------------------------- MODULE AuraCloud --------------------------------
(***************************************************************************)
(* The Aura API as the controller uses it (external): the instances of one *)
(* tenant that carry the resource's name, and the requests the client gave *)
(* up on while they were still on their way.                               *)
(*                                                                         *)
(* Assumed of Aura: a list names every live instance; an id is never used  *)
(* twice; an update is accepted only of a running instance.                *)
(***************************************************************************)
EXTENDS AuraInstanceTypes, AuraClient

VARIABLES
    remote,     \* what Aura holds under each id
    orphans     \* abandoned requests Aura may still carry out

cloudVars == <<remote, orphans>>

States == {"unused", "creating", "running", "busy", "gone"}

\* late: created by a request its sender had given up on (history only).
Remote == [state : States, config : Configs \cup {None}, late : BOOLEAN]

\* id = None asks for a new instance, any other id for an update of that one.
Request == [id : InstanceIds \cup {None}, config : Configs]

Live(id) == remote[id].state \in {"creating", "running", "busy"}

CloudTypeOK ==
    /\ remote \in [InstanceIds -> Remote]
    /\ orphans \subseteq Request

CloudInit ==
    /\ remote = [id \in InstanceIds |->
                    [state |-> "unused", config |-> None, late |-> FALSE]]
    /\ orphans = {}

--------------------------------------------------------------------------------

Honest(code) == [code |-> code, json |-> TRUE, body |-> "full"]

(***************************************************************************)
(* The replies of an API in trouble: none at all, a refusal, or the right  *)
(* code under a body the client cannot use.                                *)
(***************************************************************************)
Troubled(code) ==
    {NoReply} \cup {reply \in Reply : reply.code \in {code, 500} /\ reply # Honest(code)}

Provision(id, config, late) ==
    /\ remote[id].state = "unused"
    /\ remote' = [remote EXCEPT ![id] =
                    [state |-> "creating", config |-> config, late |-> late]]

Reconfigure(id, config) ==
    /\ remote[id].state = "running"
    /\ \E state \in {"running", "busy"} :
           remote' = [remote EXCEPT ![id].config = config, ![id].state = state]

Abandon(id, config) == orphans' = orphans \cup {[id |-> id, config |-> config]}

--------------------------------------------------------------------------------

\* Aura finishes what it was doing to an instance.
Settle(id) ==
    /\ remote[id].state \in {"creating", "busy"}
    /\ remote' = [remote EXCEPT ![id].state = "running"]
    /\ UNCHANGED orphans

\* Aura, or somebody at its console, pauses, restores or overwrites one.
Occupy(id) ==
    /\ remote[id].state = "running"
    /\ remote' = [remote EXCEPT ![id].state = "busy"]
    /\ UNCHANGED orphans

\* Somebody at the console changes an instance ...
Drift(id, config) ==
    /\ remote[id].state = "running"
    /\ remote[id].config # config
    /\ remote' = [remote EXCEPT ![id].config = config]
    /\ UNCHANGED orphans

\* ... or destroys it.
Destroy(id) ==
    /\ Live(id)
    /\ remote' = [remote EXCEPT ![id].state = "gone", ![id].config = None]
    /\ UNCHANGED orphans

\* An abandoned request arrives; one that can do nothing any more is dropped.
ArriveLate(request) ==
    /\ orphans' = orphans \ {request}
    /\ \/ /\ request.id = None
          /\ \E id \in InstanceIds : Provision(id, request.config, TRUE)
       \/ /\ request.id # None
          /\ Reconfigure(request.id, request.config)
       \/ UNCHANGED remote

================================================================================
