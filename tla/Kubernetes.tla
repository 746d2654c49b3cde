------------------------------- MODULE Kubernetes -------------------------------
(***************************************************************************)
(* The API server and the manager's informer cache (external): the one     *)
(* AuraInstance, the connection secrets, and what the controller's cache   *)
(* has seen of them.  Reads are served from the cache, writes go to the    *)
(* server.  The cache learns of every version of the AuraInstance in order *)
(* (watch holds what it has not seen yet); of a secret only the current    *)
(* version matters, so its cached copy jumps to it.                        *)
(***************************************************************************)
EXTENDS AuraInstanceTypes, Sequences

VARIABLES
    object,         \* the AuraInstance on the API server
    cache,          \* the AuraInstance in the informer cache
    watch,          \* versions the cache has not seen yet
    uids,           \* incarnations so far
    secrets,        \* the connection secrets on the API server
    secretCache,    \* ... and in the cache
    credentials     \* whether the cached API credentials are usable

kubernetesVars ==
    <<object, cache, watch, uids, secrets, secretCache, credentials>>

\* A secret's first owner reference: a uid of ours, another object's, or none.
NoOwner == 0
OtherOwner == -1

\* instance: whose connection details the secret holds (None: somebody's data).
Secret == [owner : Nat \cup {OtherOwner}, instance : InstanceIds \cup {None}]

KubernetesTypeOK ==
    /\ object \in AuraInstance \cup {None}
    /\ cache \in AuraInstance \cup {None}
    /\ watch \in Seq(AuraInstance \cup {None})
    /\ uids \in Nat
    /\ secrets \in [SecretNames -> Secret \cup {None}]
    /\ secretCache \in [SecretNames -> Secret \cup {None}]
    /\ credentials \in BOOLEAN

KubernetesInit ==
    /\ object = None
    /\ cache = None
    /\ watch = <<>>
    /\ uids = 0
    /\ secrets = [name \in SecretNames |-> None]
    /\ secretCache = secrets
    /\ credentials = TRUE

--------------------------------------------------------------------------------

\* Every change of the AuraInstance is one more version to watch.
Store(version) ==
    /\ object' = version
    /\ watch' = IF version = object THEN watch ELSE Append(watch, version)

CreateAuraInstance(spec) ==
    /\ object = None
    /\ uids' = uids + 1
    /\ Store([uid |-> uids + 1, generation |-> 1, spec |-> spec,
              status |-> EmptyStatus])
    /\ UNCHANGED <<cache, secrets, secretCache, credentials>>

\* The generation counts the changes of the specification.
EditAuraInstance(spec) ==
    /\ object # None
    /\ spec # object.spec
    /\ Store([object EXCEPT !.spec = spec, !.generation = @ + 1])
    /\ UNCHANGED <<cache, uids, secrets, secretCache, credentials>>

\* No finalizer holds the object back.
DeleteAuraInstance ==
    /\ object # None
    /\ Store(None)
    /\ UNCHANGED <<cache, uids, secrets, secretCache, credentials>>

\* A secret somebody else puts where, or in place of where, ours would be.
PutForeignSecret(name, owner) ==
    /\ secrets' = [secrets EXCEPT ![name] = [owner |-> owner, instance |-> None]]
    /\ secrets' # secrets
    /\ UNCHANGED <<object, cache, watch, uids, secretCache, credentials>>

RemoveSecret(name) ==
    /\ secrets[name] # None
    /\ secrets' = [secrets EXCEPT ![name] = None]
    /\ UNCHANGED <<object, cache, watch, uids, secretCache, credentials>>

\* The garbage collector removes a secret whose owner no longer exists.
CollectSecret(name) ==
    /\ RemoveSecret(name)
    /\ secrets[name].owner > NoOwner
    /\ object # None => object.uid # secrets[name].owner

--------------------------------------------------------------------------------

(***************************************************************************)
(* GenerationChangedPredicate lets creations, deletions and changes of the *)
(* generation through to the queue, and not the controller's own status.   *)
(***************************************************************************)
GenerationChanged(old, new) ==
    \/ old = None
    \/ new = None
    \/ old.generation # new.generation

SyncCache ==
    /\ watch # <<>>
    /\ cache' = Head(watch)
    /\ watch' = Tail(watch)
    /\ UNCHANGED <<object, uids, secrets, secretCache, credentials>>

SyncSecret(name) ==
    /\ secretCache[name] # secrets[name]
    /\ secretCache' = [secretCache EXCEPT ![name] = secrets[name]]
    /\ UNCHANGED <<object, cache, watch, uids, secrets, credentials>>

\* The cached secret with the API credentials changes, or goes.
SyncCredentials(usable) ==
    /\ credentials' = usable
    /\ UNCHANGED <<object, cache, watch, uids, secrets, secretCache>>

\* A new process lists before it watches.
Relist ==
    /\ cache' = object
    /\ watch' = <<>>
    /\ secretCache' = secrets
    /\ UNCHANGED <<object, uids, secrets, credentials>>

================================================================================
