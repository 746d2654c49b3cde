--------------------------------- MODULE Manager ---------------------------------
(***************************************************************************)
(* The processes main.go starts: each takes part in a leader election,     *)
(* watches the AuraInstances of its label selector and lets a pool of      *)
(* workers reconcile them.  Here reconcile is its calls of Aura, any of    *)
(* which may fail or never be answered, what it makes of their replies and *)
(* when it is done again; conditions and secrets are the business of       *)
(* AuraInstanceReconciler.                                                 *)
(*                                                                         *)
(* A process reads its cache, which learns of the versions of a resource   *)
(* in order and after any delay (watch holds what is on its way); it does  *)
(* so from the start, leading or not, for the field index asks for it.     *)
(*                                                                         *)
(* The queue is client-go's: dirty holds the keys that ask for a           *)
(* reconcile, for whatever reason and after whatever delay; a key that is  *)
(* being processed stays there until its worker is done with it.           *)
(*                                                                         *)
(* A request that outlives the process or the reconcile that sent it is    *)
(* the business of AuraInstanceReconciler, too: no call is late here.      *)
(***************************************************************************)
EXTENDS Integers, Sequences

CONSTANTS
    None,
    Resources,
    Processes,
    Selectors,          \* values of --watch-label-selector, Everything for ""
    Everything,
    Deployments,        \* how the processes are started, the resources labelled
    Specs,              \* what users ask for
    Concurrent,         \* --concurrent
    MaxGeneration,      \* bound on the generations of each resource
    MaxFailures,        \* bounds on the calls that fail ...
    MaxHangs,           \* ... on those that are never answered ...
    MaxExits,           \* ... on the processes that stop or die ...
    MaxLosses           \* ... and on the instances destroyed in Aura's console

Deployment ==
    [election : BOOLEAN,                    \* --enable-leader-election
     selector : [Processes -> Selectors],
     label    : [Resources -> Selectors]]

\* The cache of a process holds what its selector selects.
Watched(d, p) == {r \in Resources : d.selector[p] \in {Everything, d.label[r]}}

(***************************************************************************)
(* What decides whether a resource is reconciled, and when again.  What    *)
(* Aura is asked for is told by the generation: each asks for something    *)
(* that differs from what the others ask for.                              *)
(***************************************************************************)
AuraInstanceSpec == [suspend : BOOLEAN, interval : {"unset", "zero", "positive"}]

(***************************************************************************)
(* Two processes that share a resource have the same selector and elect a  *)
(* leader.                                                                 *)
(***************************************************************************)
ASSUME DeploymentsAssumption ==
    /\ Deployments \subseteq Deployment
    /\ \A d \in Deployments : \A p, q \in Processes :
           p # q /\ Watched(d, p) \cap Watched(d, q) # {} =>
               d.election /\ d.selector[p] = d.selector[q]

ASSUME ManagerAssumption ==
    /\ None \notin Resources \cup Processes
    /\ Everything \in Selectors
    /\ Specs \subseteq AuraInstanceSpec
    /\ Concurrent \in Nat \ {0}
    /\ MaxGeneration \in [Resources -> Nat]
    /\ {MaxFailures, MaxHangs, MaxExits, MaxLosses} \subseteq Nat

VARIABLES
    deployment,
    specs,          \* of each AuraInstance, by generation; the last is the current
    named,          \* the instance its status names, 0 for none
    instances,      \* what has become of each instance Aura has made for it
    applied,        \* the generation Aura was last given, and by whom
    status,         \* of each process
    lease,          \* who leads, for every lease
    cache,          \* the version of each resource a process knows
    watch,          \* the later versions on their way to it
    dirty,          \* keys in the queue of each process
    jobs,           \* what its workers do
    failures, hangs, exits, losses

clusterVars == <<deployment, specs, named>>
auraVars == <<instances, applied>>
informerVars == <<cache, watch>>
processVars == <<status, lease, dirty, jobs>>
counters == <<failures, hangs, exits, losses>>
vars == <<clusterVars, auraVars, informerVars, processVars, counters>>

\* A version of a resource: its specification is that of its generation.
Version == [generation : Nat, named : Nat]

Unread == [generation |-> 0, named |-> 0]

Stored(r) == [generation |-> Len(specs[r]), named |-> named[r]]

(***************************************************************************)
(* seen is the version the worker has read; moved, that the cache has      *)
(* learnt of another since; names, the instance the status is to name;     *)
(* result, what reconcile returns; hung, that the call the worker waits    *)
(* for is never answered.                                                  *)
(***************************************************************************)
Steps == {"idle", "list", "post", "get", "patch"}

Results == {"none", "requeue", "requeueAfter"}

Job ==
    {job \in [key : Resources \cup {None}, step : Steps, seen : Version, moved : BOOLEAN,
              names : Nat, result : Results, hung : BOOLEAN] :
        job.step = "idle" <=> job.key = None}

Idle == [key |-> None, step |-> "idle", seen |-> Unread, moved |-> FALSE,
         names |-> 0, result |-> "none", hung |-> FALSE]

Workers == 1..Concurrent

TypeOK ==
    /\ deployment \in Deployments
    /\ specs \in [Resources -> Seq(Specs)]
    /\ \A r \in Resources : specs[r] # <<>>
    /\ named \in [Resources -> Nat]
    /\ instances \in [Resources -> Seq({"creating", "running", "lost"})]
    /\ applied \in [Resources -> [generation : Nat, by : Processes \cup {None}]]
    /\ status \in [Processes -> {"down", "waiting", "leading", "stopping"}]
    /\ lease \in [Selectors -> Processes \cup {None}]
    /\ cache \in [Processes -> [Resources -> Version]]
    /\ watch \in [Processes -> [Resources -> Seq(Version)]]
    /\ dirty \in [Processes -> SUBSET Resources]
    /\ jobs \in [Processes -> [Workers -> Job]]
    /\ failures \in Nat
    /\ hangs \in Nat
    /\ exits \in Nat
    /\ losses \in Nat

Init ==
    /\ deployment \in Deployments
    /\ \E asked \in [Resources -> Specs] : specs = [r \in Resources |-> <<asked[r]>>]
    /\ named = [r \in Resources |-> 0]
    /\ instances = [r \in Resources |-> <<>>]
    /\ applied = [r \in Resources |-> [generation |-> 0, by |-> None]]
    /\ status = [p \in Processes |-> "down"]
    /\ lease = [s \in Selectors |-> None]
    /\ cache = [p \in Processes |-> [r \in Resources |-> Unread]]
    /\ watch = [p \in Processes |-> [r \in Resources |-> <<>>]]
    /\ dirty = [p \in Processes |-> {}]
    /\ jobs = [p \in Processes |-> [w \in Workers |-> Idle]]
    /\ failures = 0
    /\ hangs = 0
    /\ exits = 0
    /\ losses = 0

--------------------------------------------------------------------------------

(***************************************************************************)
(* Starting and leading.                                                   *)
(***************************************************************************)
Watches(p, r) == status[p] \in {"waiting", "leading"} /\ r \in Watched(deployment, p)

\* The informers list before the election begins.
Start(p) ==
    /\ status[p] = "down"
    /\ status' = [status EXCEPT ![p] = "waiting"]
    /\ cache' = [cache EXCEPT ![p] =
                   [r \in Resources |->
                      IF r \in Watched(deployment, p) THEN Stored(r) ELSE Unread]]
    /\ UNCHANGED <<clusterVars, auraVars, watch, lease, dirty, jobs, counters>>

\* Defect: the flag is not handed to the manager.
ElectsNobody == FALSE

ElectsLeader == deployment.election

\* The id of the lease is made from the selector.
LeaseOf(p) == deployment.selector[p]

\* A leader's controller is told of all that is in the cache, late as it may be.
Lead(p) ==
    /\ status[p] = "waiting"
    /\ \/ /\ ElectsLeader
          /\ lease[LeaseOf(p)] = None
          /\ lease' = [lease EXCEPT ![LeaseOf(p)] = p]
       \/ /\ ~ElectsLeader
          /\ UNCHANGED lease
    /\ status' = [status EXCEPT ![p] = "leading"]
    /\ dirty' = [dirty EXCEPT ![p] = Watched(deployment, p)]
    /\ UNCHANGED <<clusterVars, auraVars, informerVars, jobs, counters>>

--------------------------------------------------------------------------------

(***************************************************************************)
(* The informers.                                                          *)
(***************************************************************************)
Publish(r, version) ==
    watch' = [p \in Processes |->
                IF Watches(p, r) THEN [watch[p] EXCEPT ![r] = Append(@, version)]
                                 ELSE watch[p]]

\* The predicate lets changes of the generation through to a leader's queue.
Notifies(p, r, version) ==
    status[p] = "leading" /\ version.generation # cache[p][r].generation

\* A process learns of the next version; who works on an older one is overtaken.
Sync(p, r) ==
    /\ Watches(p, r)
    /\ watch[p][r] # <<>>
    /\ cache' = [cache EXCEPT ![p][r] = Head(watch[p][r])]
    /\ watch' = [watch EXCEPT ![p][r] = Tail(@)]
    /\ dirty' = IF Notifies(p, r, Head(watch[p][r]))
                THEN [dirty EXCEPT ![p] = @ \cup {r}]
                ELSE dirty
    /\ jobs' = [jobs EXCEPT ![p] =
                  [w \in Workers |-> IF jobs[p][w].key = r
                                     THEN [jobs[p][w] EXCEPT !.moved = TRUE]
                                     ELSE jobs[p][w]]]
    /\ UNCHANGED <<clusterVars, auraVars, status, lease, counters>>

--------------------------------------------------------------------------------

(***************************************************************************)
(* The queue and the pool.                                                 *)
(***************************************************************************)

\* Defect: MaxConcurrentReconciles is left at its default.
PoolOfOne == {1}

Pool == Workers

Processing(p) == {jobs[p][w].key : w \in Workers}

\* Defect: a key is handed out although a worker has it.
ReadyAtOnce(p) == dirty[p]

Ready(p) == dirty[p] \ Processing(p)

Assign(p, w, job) == jobs' = [jobs EXCEPT ![p][w] = job]

\* What a reconcile begins with: a resource without an instance is looked for by
\* name, any other is asked for by id.
Reads(p, r) ==
    [key |-> r, step |-> IF cache[p][r].named = 0 THEN "list" ELSE "get",
     seen |-> cache[p][r], moved |-> FALSE,
     names |-> cache[p][r].named, result |-> "none", hung |-> FALSE]

Suspended(p, r) == specs[r][cache[p][r].generation].suspend

\* A worker takes a key and reads the resource, which may be suspended.
Take(p, w, r) ==
    /\ status[p] = "leading"
    /\ jobs[p][w].key = None
    /\ r \in Ready(p)
    /\ \/ ~Suspended(p, r) /\ Assign(p, w, Reads(p, r))
       \/ Suspended(p, r) /\ UNCHANGED jobs
    /\ dirty' = [dirty EXCEPT ![p] = @ \ {r}]
    /\ UNCHANGED <<clusterVars, auraVars, informerVars, status, lease, counters>>

\* Defect: the worker forgets its key before it puts it back.
DoneWithNothing(p, w, again) ==
    /\ Assign(p, w, Idle)
    /\ dirty' = IF again THEN [dirty EXCEPT ![p] = @ \cup {jobs'[p][w].key}] ELSE dirty

\* The worker is done with its key, which goes back if it has to.
Done(p, w, again) ==
    /\ Assign(p, w, Idle)
    /\ dirty' = IF again THEN [dirty EXCEPT ![p] = @ \cup {jobs[p][w].key}] ELSE dirty

--------------------------------------------------------------------------------

(***************************************************************************)
(* A reconcile.  A worker at "patch" has had its request carried out; the  *)
(* reply and the status patch are still to come.                           *)
(***************************************************************************)
At(p, w, step) == jobs[p][w].step = step /\ ~jobs[p][w].hung

Alive(r) == {k \in DOMAIN instances[r] : instances[r][k] # "lost"}

\* reconcile returns: what the status is to name, and when to be done again.
Returns(p, w, names, result) ==
    Assign(p, w, [jobs[p][w] EXCEPT !.step = "patch", !.names = names, !.result = result])

Gives(p, w) ==
    applied' = [applied EXCEPT ![jobs[p][w].key] =
                  [generation |-> jobs[p][w].seen.generation, by |-> p]]

\* The list names an instance, which is adopted, or none.
Listed(p, w) ==
    LET r == jobs[p][w].key
    IN  /\ status[p] = "leading"
        /\ At(p, w, "list")
        /\ \/ \E k \in Alive(r) : Returns(p, w, k, "requeue")
           \/ Alive(r) = {} /\ Assign(p, w, [jobs[p][w] EXCEPT !.step = "post"])
        /\ UNCHANGED <<clusterVars, auraVars, informerVars, status, lease, dirty, counters>>

\* Aura makes an instance.
Posted(p, w) ==
    LET r == jobs[p][w].key
    IN  /\ At(p, w, "post")
        /\ instances' = [instances EXCEPT ![r] = Append(@, "creating")]
        /\ Gives(p, w)
        /\ Returns(p, w, Len(instances[r]) + 1, "requeueAfter")
        /\ UNCHANGED <<clusterVars, informerVars, status, lease, dirty, counters>>

\* Defect: an instance that is being created is not looked at again.
GotOnce(p, w) ==
    LET r == jobs[p][w].key
        k == jobs[p][w].seen.named
    IN  /\ At(p, w, "get")
        /\ k \in Alive(r)
        /\ \/ /\ instances[r][k] = "creating"
              /\ Returns(p, w, k, "none")
              /\ UNCHANGED applied
           \/ /\ instances[r][k] = "running"
              /\ Returns(p, w, k, "none")
              /\ Gives(p, w)
        /\ UNCHANGED <<clusterVars, instances, informerVars, status, lease, dirty, counters>>

\* Aura does not know the instance, still creates it, or knows it (running, or in
\* any other state) and is given what differs.
Got(p, w) ==
    LET r == jobs[p][w].key
        k == jobs[p][w].seen.named
    IN  /\ At(p, w, "get")
        /\ \/ /\ k \notin Alive(r)
              /\ Returns(p, w, 0, "requeue")
              /\ UNCHANGED applied
           \/ /\ k \in Alive(r) /\ instances[r][k] = "creating"
              /\ Returns(p, w, k, "requeueAfter")
              /\ UNCHANGED applied
           \/ /\ k \in Alive(r) /\ instances[r][k] = "running"
              /\ Returns(p, w, k, "none")
              /\ Gives(p, w)
        /\ UNCHANGED <<clusterVars, instances, informerVars, status, lease, dirty, counters>>

\* A merge patch of what the cache holds writes what differs from it; the version
\* it was made from goes along once the cache has moved, and is refused.
PatchStatus(job) ==
    LET r == job.key
    IN  IF job.names = job.seen.named \/ job.names = named[r]
        THEN UNCHANGED <<named, watch>>
        ELSE /\ named' = [named EXCEPT ![r] = job.names]
             /\ Publish(r, [Stored(r) EXCEPT !.named = job.names])

\* The patch answers with the version stored: its interval takes the place of the
\* delay reconcile asked for, also when it is zero.
Again(job) ==
    LET interval == specs[job.key][Len(specs[job.key])].interval
    IN  \/ interval = "positive"
        \/ job.result = "requeue"
        \/ interval = "unset" /\ job.result = "requeueAfter"

Patch(p, w) ==
    /\ status[p] = "leading"
    /\ At(p, w, "patch")
    /\ \/ /\ jobs[p][w].moved
          /\ Done(p, w, TRUE)
          /\ UNCHANGED <<named, watch>>
       \/ /\ ~jobs[p][w].moved
          /\ Done(p, w, Again(jobs[p][w]))
          /\ PatchStatus(jobs[p][w])
    /\ UNCHANGED <<deployment, specs, auraVars, cache, status, lease, counters>>

\* A request or its reply is lost or refused, whether Aura's or that of the status
\* patch; which is refused, too, when a version has come that differs from the one
\* read in no more than its conditions.
Failed(p, w) ==
    /\ status[p] = "leading"
    /\ jobs[p][w].key # None /\ ~jobs[p][w].hung
    /\ failures < MaxFailures
    /\ failures' = failures + 1
    /\ Done(p, w, TRUE)
    /\ \/ UNCHANGED <<named, watch>>
       \/ ~jobs[p][w].moved /\ PatchStatus(jobs[p][w])
    /\ UNCHANGED <<deployment, specs, auraVars, cache, status, lease, hangs, exits, losses>>

\* Nobody ever answers, and neither the client nor spec.timeout ends the call.
Hang(p, w) ==
    /\ status[p] = "leading"
    /\ jobs[p][w].key # None /\ ~jobs[p][w].hung
    /\ hangs < MaxHangs
    /\ hangs' = hangs + 1
    /\ Assign(p, w, [jobs[p][w] EXCEPT !.hung = TRUE])
    /\ UNCHANGED <<clusterVars, auraVars, informerVars, status, lease, dirty, failures, exits, losses>>

--------------------------------------------------------------------------------

(***************************************************************************)
(* Stopping.  What is on its way to Aura may still be carried out, until   *)
(* the call is cancelled.                                                  *)
(***************************************************************************)
Exit ==
    /\ exits < MaxExits
    /\ exits' = exits + 1

\* A signal cancels the context of every reconcile.
Stop(p) ==
    /\ Exit
    /\ status[p] \in {"waiting", "leading"}
    /\ status' = [status EXCEPT ![p] = "stopping"]
    /\ UNCHANGED <<clusterVars, auraVars, informerVars, lease, dirty, jobs, failures, hangs, losses>>

\* Every call of a cancelled reconcile fails, the status patch included.
Cancelled(p, w) ==
    /\ status[p] = "stopping"
    /\ jobs[p][w].key # None
    /\ Assign(p, w, Idle)
    /\ UNCHANGED <<clusterVars, auraVars, informerVars, status, lease, dirty, counters>>

\* Defect: workers are not waited for.
DrainedAtOnce(p) == TRUE

Drained(p) == \A w \in Workers : jobs[p][w].key = None

\* What a process knew goes with it.
Forget(p) ==
    /\ cache' = [cache EXCEPT ![p] = [r \in Resources |-> Unread]]
    /\ watch' = [watch EXCEPT ![p] = [r \in Resources |-> <<>>]]
    /\ dirty' = [dirty EXCEPT ![p] = {}]

\* When the workers have finished the lease is given back, or left to expire.
Leave(p) ==
    /\ status[p] = "stopping"
    /\ Drained(p)
    /\ status' = [status EXCEPT ![p] = "down"]
    /\ \/ lease' = [s \in Selectors |-> IF lease[s] = p THEN None ELSE lease[s]]
       \/ UNCHANGED lease      \* --leader-election-release-on-cancel=false
    /\ Forget(p)
    /\ UNCHANGED <<clusterVars, auraVars, jobs, counters>>

\* A process that dies, or cannot renew its lease and exits, does not.
Die(p) ==
    /\ Exit
    /\ status[p] # "down"
    /\ status' = [status EXCEPT ![p] = "down"]
    /\ jobs' = [jobs EXCEPT ![p] = [w \in Workers |-> Idle]]
    /\ Forget(p)
    /\ UNCHANGED <<clusterVars, auraVars, lease, failures, hangs, losses>>

\* The lease of a process that is no longer there runs out.
Expire(s) ==
    /\ lease[s] # None
    /\ status[lease[s]] \in {"down", "waiting"}
    /\ lease' = [lease EXCEPT ![s] = None]
    /\ UNCHANGED <<clusterVars, auraVars, informerVars, status, dirty, jobs, counters>>

--------------------------------------------------------------------------------

(***************************************************************************)
(* Users and Aura.                                                         *)
(***************************************************************************)
Edit(r) ==
    /\ Len(specs[r]) < MaxGeneration[r]
    /\ \E spec \in Specs : specs' = [specs EXCEPT ![r] = Append(@, spec)]
    /\ Publish(r, [Stored(r) EXCEPT !.generation = Len(specs[r]) + 1])
    /\ UNCHANGED <<deployment, named, auraVars, cache, processVars, counters>>

Becomes(r, k, state) == instances' = [instances EXCEPT ![r][k] = state]

\* An instance is created in the end.
Settle(r) ==
    /\ \E k \in Alive(r) : instances[r][k] = "creating" /\ Becomes(r, k, "running")
    /\ UNCHANGED <<clusterVars, applied, informerVars, processVars, counters>>

\* Somebody destroys an instance in Aura's console.
Lose(r) ==
    /\ losses < MaxLosses
    /\ losses' = losses + 1
    /\ \E k \in Alive(r) : Becomes(r, k, "lost")
    /\ UNCHANGED <<clusterVars, applied, informerVars, processVars, failures, hangs, exits>>

--------------------------------------------------------------------------------

Lives(p) == Start(p) \/ Lead(p) \/ Leave(p)

Work(p, w) ==
    \/ Listed(p, w) \/ Posted(p, w) \/ Got(p, w) \/ Patch(p, w) \/ Cancelled(p, w)

Takes(r) == \E p \in Processes : \E w \in Pool : Take(p, w, r)

Trouble(p) == Stop(p) \/ Die(p) \/ \E w \in Workers : Failed(p, w) \/ Hang(p, w)

Next ==
    \/ \E p \in Processes : Lives(p) \/ Trouble(p)
    \/ \E p \in Processes, w \in Workers : Work(p, w)
    \/ \E p \in Processes, r \in Resources : Sync(p, r)
    \/ \E s \in Selectors : Expire(s)
    \/ \E r \in Resources : Takes(r) \/ Edit(r) \/ Settle(r) \/ Lose(r)

Spec == Init /\ [][Next]_vars

(***************************************************************************)
(* Pods are started again, leases run out, informers catch up, Aura gets   *)
(* its instances done, a call that does not hang is answered; and the      *)
(* queue hands its keys out in turn, so that none is passed over for ever  *)
(* although others keep coming back.                                       *)
(***************************************************************************)
LiveSpec ==
    /\ Spec
    /\ \A p \in Processes :
           /\ WF_vars(Lives(p))
           /\ WF_vars(\E r \in Resources : Sync(p, r))
           /\ \A w \in Workers : WF_vars(Work(p, w))
    /\ \A s \in Selectors : WF_vars(Expire(s))
    /\ \A r \in Resources : WF_vars(Settle(r)) /\ SF_vars(Takes(r))

--------------------------------------------------------------------------------

(***************************************************************************)
(* "Enabling this will ensure there is only one active controller manager" *)
(* (README.md, --enable-leader-election): no resource is reconciled twice  *)
(* at a time, neither by two workers nor by two processes (main.go, lines  *)
(* 125-131; SetupWithManager, lines 84-94).                                *)
(***************************************************************************)
SingleFlight ==
    \A p, q \in Processes : \A v, w \in Workers :
        jobs[p][v].key # None /\ jobs[p][v].key = jobs[q][w].key => p = q /\ v = w

(***************************************************************************)
(* ... so that nobody else makes an instance between a worker's LIST and   *)
(* its POST: a resource never has two instances at a time, across restarts *)
(* and rolling updates, failed calls, stale caches and the deletion of the *)
(* instance it had (reconcile, lines 230-255 and 301-337).                 *)
(***************************************************************************)
OnePerResource == \A r \in Resources : \A j, k \in Alive(r) : j = k

(***************************************************************************)
(* A process that has given Aura a configuration never takes it back to an *)
(* older one, whichever of its workers, and however late its cache and     *)
(* their calls are (Reconcile, line 131; reconcile, lines 274-296).  This  *)
(* is said of one process on purpose: the next leader's cache may be       *)
(* behind, and its first reconcile then does take Aura back, until the     *)
(* newer version arrives.                                                  *)
(***************************************************************************)
AppliedInOrder ==
    [][\A r \in Resources :
          applied'[r].by = applied[r].by =>
              applied'[r].generation >= applied[r].generation]_vars

(***************************************************************************)
(* No edit is forgotten: when the leader has learnt of the newest          *)
(* generation and Aura was last given another, older or taken back to, the *)
(* resource's key is in the leader's queue or in a worker's hands; although*)
(* edits meet reconciles that have read what was before, instances that    *)
(* are still being created, and failures (Reconcile, lines 139-164;        *)
(* reconcile, lines 267-296; SetupWithManager, lines 84-94; main.go, line  *)
(* 183).  Not so with a zero interval, which takes the place of the delay  *)
(* before an instance under creation is looked at again (lines 160-161):   *)
(* nobody comes back, and what was edited meanwhile waits for the next     *)
(* edit.                                                                   *)
(***************************************************************************)
Wanted(r) == LET spec == specs[r][Len(specs[r])] IN ~spec.suspend /\ spec.interval # "zero"

EditsRemembered ==
    \A p \in Processes : \A r \in Watched(deployment, p) :
        /\ status[p] = "leading"
        /\ cache[p][r].generation = Len(specs[r])
        /\ applied[r].generation # Len(specs[r])
        /\ Wanted(r)
        => r \in dirty[p] \/ \E w \in Workers : jobs[p][w].key = r

(***************************************************************************)
(* Every edit reaches Aura in the end, and stays, whatever stops, dies or  *)
(* fails, whoever leads with whatever cache, and although a call of        *)
(* another resource hangs for ever; a process that is restarted, or a      *)
(* worker that is free, takes over (main.go, lines 81-82 and 103-131).     *)
(* Suspended resources wait, and so may those with a zero interval.        *)
(***************************************************************************)
Stuck(r) == \E p \in Processes, w \in Workers : jobs[p][w].key = r /\ jobs[p][w].hung

EditsApplied ==
    <>[](\A r \in Resources :
            (\E p \in Processes : r \in Watched(deployment, p)) =>
                Stuck(r) \/ ~Wanted(r) \/ applied[r].generation = Len(specs[r]))

================================================================================
