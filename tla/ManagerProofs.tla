------------------------------ MODULE ManagerProofs ------------------------------
(***************************************************************************)
(* Theorems about Manager, for all processes, workers, resources, shards,  *)
(* specifications and bounds on what goes wrong.                           *)
(*                                                                         *)
(* SingleFlight is not inductive: what keeps two processes apart is that   *)
(* one that works on anything holds the lease of its selector, and that    *)
(* it works on nothing outside that selector.  All else rests on it.       *)
(***************************************************************************)
EXTENDS Manager, TLAPS

Busy(p, w) == jobs[p][w].key # None

\* Leading, or stopping with work still to finish.
Leads(p) == status[p] = "leading" \/ \E w \in Workers : Busy(p, w)

LeaseHeld == deployment.election => \A p \in Processes : Leads(p) => lease[LeaseOf(p)] = p

JobsInPlace ==
    \A p \in Processes :
        /\ dirty[p] \subseteq Watched(deployment, p)
        /\ \A w \in Workers :
               Busy(p, w) => /\ status[p] \in {"leading", "stopping"}
                             /\ jobs[p][w].key \in Watched(deployment, p)

\* Within a process no key is handed out twice.
KeysApart ==
    \A p \in Processes : \A v, w \in Workers :
        Busy(p, v) /\ jobs[p][v].key = jobs[p][w].key => v = w

LeadershipInv == LeaseHeld /\ JobsInPlace /\ KeysApart

\* Nobody else makes an instance between a LIST that found none and its POST.
WorkInv ==
    /\ OnePerResource
    /\ \A p \in Processes, w \in Workers :
           jobs[p][w].step = "post" => Alive(jobs[p][w].key) = {}

(***************************************************************************)
(* News reaches a process in the order of the generations, and what it has *)
(* given Aura it has learnt of before.                                     *)
(***************************************************************************)
InOrder(known, coming, newest) ==
    /\ known.generation <= newest
    /\ \A i \in 1..Len(coming) :
           /\ known.generation <= coming[i].generation
           /\ coming[i].generation <= newest
           /\ \A j \in i..Len(coming) : coming[i].generation <= coming[j].generation

NewsInv ==
    /\ \A r \in Resources : applied[r].generation <= Len(specs[r])
    /\ \A p \in Processes, r \in Resources :
           /\ InOrder(cache[p][r], watch[p][r], Len(specs[r]))
           /\ status[p] = "down" => Len(watch[p][r]) = 0
           /\ status[p] # "down" /\ applied[r].by = p /\ r \in Watched(deployment, p) =>
                  applied[r].generation <= cache[p][r].generation

ReadInv ==
    \A p \in Processes, w \in Workers :
        LET job == jobs[p][w] IN
        Busy(p, w) =>
            /\ job.seen.generation <= cache[p][job.key].generation
            /\ applied[job.key].by = p =>
                   applied[job.key].generation <= job.seen.generation

(***************************************************************************)
(* What a leader remembers.  A worker may let go of a key for good only    *)
(* when what it read is what its process knows, and Aura has been given it.*)
(***************************************************************************)
Faithful(p, w) ==
    LET job == jobs[p][w] IN
    /\ ~job.moved => job.seen.generation = cache[p][job.key].generation
    /\ job.step = "patch" /\ job.result = "none" =>
           applied[job.key].generation = job.seen.generation

RememberInv ==
    /\ EditsRemembered
    /\ \A p \in Processes, w \in Workers :
           status[p] = "leading" /\ Busy(p, w) => Faithful(p, w)

--------------------------------------------------------------------------------

(***************************************************************************)
(* Type correctness.                                                       *)
(***************************************************************************)
Jobs == [Processes -> [Workers -> Job]]

Caches == [Processes -> [Resources -> Version]]

Coming == [Processes -> [Resources -> Seq(Version)]]

LEMMA IdleType ==
  /\ Idle \in Job /\ Idle.key = None /\ Idle.step = "idle" /\ ~Idle.hung
  /\ Unread \in Version /\ Unread.generation = 0
  BY DEF Idle, Job, Unread, Version, Steps, Results

LEMMA WatchedType ==
  ASSUME TypeOK, NEW p \in Processes
  PROVE  /\ Watched(deployment, p) \subseteq Resources
         /\ None \notin Watched(deployment, p)
         /\ LeaseOf(p) \in Selectors
         /\ deployment \in Deployment
  BY ManagerAssumption, DeploymentsAssumption
     DEF TypeOK, Watched, LeaseOf, Deployment

\* A resource has a current specification and a version.
LEMMA StoredType ==
  ASSUME TypeOK, NEW r \in Resources
  PROVE  /\ Len(specs[r]) \in Nat /\ Len(specs[r]) # 0
         /\ specs[r][Len(specs[r])] \in AuraInstanceSpec
         /\ Stored(r) \in Version
         /\ Stored(r).generation = Len(specs[r])
<1>1. specs[r] \in Seq(Specs) /\ specs[r] # <<>> /\ named[r] \in Nat
  BY DEF TypeOK
<1>2. Len(specs[r]) \in Nat /\ Len(specs[r]) # 0
  BY <1>1
<1>3. specs[r][Len(specs[r])] \in Specs
  BY <1>1, <1>2
<1>4. QED
  BY <1>1, <1>2, <1>3, ManagerAssumption DEF Stored, Version

LEMMA NewsType ==
  ASSUME TypeOK, NEW p \in Processes, NEW r \in Resources
  PROVE  /\ cache[p][r] \in Version /\ cache[p][r].generation \in Nat
         /\ watch[p][r] \in Seq(Version)
         /\ applied[r].generation \in Nat
  BY DEF TypeOK, Version

\* Assign gives one worker another job.
Reassigned(p, w, job) ==
    /\ jobs' \in Jobs
    /\ jobs'[p][w] = job
    /\ \A q \in Processes, v \in Workers :
           ~(q = p /\ v = w) => jobs'[q][v] = jobs[q][v]

LEMMA AssignReassigns ==
  ASSUME TypeOK, NEW p \in Processes, NEW w \in Workers, NEW job \in Job, Assign(p, w, job)
  PROVE  Reassigned(p, w, job)
<1>1. jobs \in [Processes -> [Workers -> Job]]
  BY DEF TypeOK
<1>2. jobs' = [jobs EXCEPT ![p] = [jobs[p] EXCEPT ![w] = job]]
  BY <1>1 DEF Assign
<1>3. [jobs[p] EXCEPT ![w] = job] \in [Workers -> Job]
  BY <1>1
<1>4. jobs' \in Jobs
  BY <1>1, <1>2, <1>3 DEF Jobs
<1>5. jobs'[p] = [jobs[p] EXCEPT ![w] = job]
  BY <1>1, <1>2
<1>6. \A q \in Processes : q # p => jobs'[q] = jobs[q]
  BY <1>1, <1>2
<1>7. QED
  BY <1>1, <1>4, <1>5, <1>6 DEF Reassigned

LEMMA DoneReassigns ==
  ASSUME TypeOK, NEW p \in Processes, NEW w \in Workers, NEW again, Done(p, w, again)
  PROVE  /\ Reassigned(p, w, Idle)
         /\ dirty' = dirty \/ dirty' = [dirty EXCEPT ![p] = @ \cup {jobs[p][w].key}]
  BY IdleType, AssignReassigns DEF Done

LEMMA JobType ==
  ASSUME TypeOK, NEW p \in Processes, NEW w \in Workers
  PROVE  /\ jobs[p][w] \in Job
         /\ jobs[p][w].key \in Resources \cup {None}
         /\ jobs[p][w].step = "idle" <=> jobs[p][w].key = None
         /\ jobs[p][w].seen \in Version /\ jobs[p][w].seen.generation \in Nat
         /\ jobs[p][w].seen.named \in Nat
         /\ jobs[p][w].names \in Nat
         /\ jobs[p][w].result \in Results
<1>1. jobs[p][w] \in Job
  BY DEF TypeOK
<1>2. jobs[p][w].seen \in Version
  BY <1>1 DEF Job
<1>3. QED
  BY <1>1, <1>2 DEF Job, Version

\* A worker that waits for an answer waits for its resource.
LEMMA WorkersKey ==
  ASSUME TypeOK, NEW p \in Processes, NEW w \in Workers, jobs[p][w].step # "idle"
  PROVE  jobs[p][w].key \in Resources /\ jobs[p][w].key # None
  BY JobType, ManagerAssumption

\* The same reconcile, at another step.
Continues(job, next) ==
    /\ next \in Job
    /\ next.key = job.key /\ next.seen = job.seen /\ next.moved = job.moved

Posting(job) == [job EXCEPT !.step = "post"]

Patching(job, names, result) == [job EXCEPT !.step = "patch", !.names = names, !.result = result]

LEMMA NextJobType ==
  ASSUME NEW job \in Job, job.step # "idle", NEW names \in Nat, NEW result \in Results
  PROVE  /\ Continues(job, Posting(job)) /\ Posting(job).step = "post"
         /\ Continues(job, Patching(job, names, result))
         /\ Patching(job, names, result).step = "patch"
         /\ Patching(job, names, result).result = result
  BY DEF Job, Continues, Posting, Patching, Steps

LEMMA HungJobType ==
  ASSUME NEW job \in Job
  PROVE  /\ Continues(job, [job EXCEPT !.hung = TRUE])
         /\ [job EXCEPT !.hung = TRUE].step = job.step
         /\ [job EXCEPT !.hung = TRUE].result = job.result
  BY DEF Job, Continues

LEMMA OvertakenJobType ==
  ASSUME NEW job \in Job
  PROVE  LET next == [job EXCEPT !.moved = TRUE] IN
         /\ next \in Job /\ next.moved
         /\ next.key = job.key /\ next.seen = job.seen /\ next.step = job.step
         /\ next.result = job.result
  BY DEF Job

(***************************************************************************)
(* What a call of Aura makes of a job: a POST only when no instance is     *)
(* alive, and an end without a return only when Aura was given what was    *)
(* read.                                                                   *)
(***************************************************************************)
LEMMA AliveType ==
  ASSUME TypeOK, NEW r \in Resources
  PROVE  /\ Alive(r) \subseteq 1..Len(instances[r]) /\ Alive(r) \subseteq Nat
         /\ Len(instances[r]) + 1 \in Nat
<1>1. instances[r] \in Seq({"creating", "running", "lost"})
  BY DEF TypeOK
<1>2. DOMAIN instances[r] = 1..Len(instances[r]) /\ Len(instances[r]) \in Nat
  BY <1>1
<1>3. QED
  BY <1>2 DEF Alive

LEMMA Asked ==
  ASSUME TypeOK, NEW p \in Processes, NEW w \in Workers,
         Listed(p, w) \/ Posted(p, w) \/ Got(p, w)
  PROVE  \E job \in Job :
           /\ Continues(jobs[p][w], job)
           /\ Reassigned(p, w, job)
           /\ job.step \in {"post", "patch"}
           /\ job.step = "post" => Listed(p, w) /\ Alive(job.key) = {}
           /\ job.step = "patch" /\ job.result = "none" => Gives(p, w)
<1> DEFINE job == jobs[p][w]
<1>1. job.step # "idle" /\ job \in Job /\ job.key \in Resources /\ job.seen.named \in Nat
  BY JobType, WorkersKey DEF Listed, Posted, Got, At
<1>2. {"none", "requeue", "requeueAfter"} \subseteq Results
  BY DEF Results
<1>3. \/ Assign(p, w, Posting(job)) /\ Listed(p, w) /\ Alive(job.key) = {}
      \/ \E names \in Nat, result \in Results :
             /\ Assign(p, w, Patching(job, names, result))
             /\ result = "none" => Gives(p, w)
  <2>1. CASE Listed(p, w)
    <3>1. CASE \E k \in Alive(job.key) : Returns(p, w, k, "requeue")
      <4>1. PICK k \in Alive(job.key) : Returns(p, w, k, "requeue")
        BY <3>1
      <4>2. k \in Nat
        BY <1>1, AliveType
      <4>3. QED
        BY <1>2, <4>1, <4>2 DEF Returns, Patching
    <3>2. CASE Alive(job.key) = {} /\ Assign(p, w, [jobs[p][w] EXCEPT !.step = "post"])
      BY <2>1, <3>2 DEF Posting
    <3>3. QED
      BY <2>1, <3>1, <3>2 DEF Listed
  <2>2. CASE Posted(p, w)
    <3>1. Returns(p, w, Len(instances[job.key]) + 1, "requeueAfter")
      BY <2>2 DEF Posted
    <3>2. Len(instances[job.key]) + 1 \in Nat
      BY <1>1, AliveType
    <3>3. QED
      BY <1>2, <3>1, <3>2 DEF Returns, Patching
  <2>3. CASE Got(p, w)
    <3>1. \/ Returns(p, w, 0, "requeue")
          \/ Returns(p, w, job.seen.named, "requeueAfter")
          \/ Returns(p, w, job.seen.named, "none") /\ Gives(p, w)
      BY <2>3 DEF Got
    <3>2. QED
      BY <1>1, <1>2, <3>1 DEF Returns, Patching
  <2>4. QED
    BY <2>1, <2>2, <2>3
<1>4. CASE Assign(p, w, Posting(job)) /\ Listed(p, w) /\ Alive(job.key) = {}
  <2>1. Continues(job, Posting(job)) /\ Posting(job).step = "post"
    BY <1>1, <1>2, NextJobType
  <2>2. QED
    BY <1>4, <2>1, AssignReassigns DEF Continues
<1>5. CASE \E names \in Nat, result \in Results :
             /\ Assign(p, w, Patching(job, names, result))
             /\ result = "none" => Gives(p, w)
  <2>1. PICK names \in Nat, result \in Results :
             /\ Assign(p, w, Patching(job, names, result))
             /\ result = "none" => Gives(p, w)
    BY <1>5
  <2>2. /\ Continues(job, Patching(job, names, result))
        /\ Patching(job, names, result).step = "patch"
        /\ Patching(job, names, result).result = result
    BY <1>1, NextJobType
  <2>3. QED
    BY <2>1, <2>2, AssignReassigns DEF Continues
<1>6. QED
  BY <1>3, <1>4, <1>5


\* Whatever a worker takes up: a reconcile, or nothing when it is suspended.
LEMMA TakeReassigns ==
  ASSUME TypeOK, NEW p \in Processes, NEW w \in Workers, NEW r, Take(p, w, r)
  PROVE  /\ r \in Ready(p) /\ r \in Resources
         /\ dirty' = [dirty EXCEPT ![p] = @ \ {r}]
         /\ \/ Reassigned(p, w, Reads(p, r)) /\ Reads(p, r) \in Job /\ ~Suspended(p, r)
            \/ Reassigned(p, w, jobs[p][w]) /\ Suspended(p, r)
<1>1. /\ r \in Ready(p)
      /\ \/ ~Suspended(p, r) /\ Assign(p, w, Reads(p, r))
         \/ Suspended(p, r) /\ UNCHANGED jobs
      /\ dirty' = [dirty EXCEPT ![p] = @ \ {r}]
  BY DEF Take
<1>2. r \in Resources
  BY <1>1 DEF Ready, TypeOK
<1>3. Reads(p, r) \in Job
  <2>1. cache[p][r] \in Version /\ cache[p][r].named \in Nat
    BY <1>2 DEF TypeOK, Version
  <2>2. r # None
    BY <1>2, ManagerAssumption
  <2>3. QED
    BY <1>2, <2>1, <2>2 DEF Reads, Job, Steps, Results
<1>4. CASE Assign(p, w, Reads(p, r)) /\ ~Suspended(p, r)
  BY <1>1, <1>2, <1>3, <1>4, AssignReassigns
<1>5. CASE UNCHANGED jobs /\ Suspended(p, r)
  BY <1>1, <1>2, <1>5 DEF Reassigned, TypeOK, Jobs
<1>6. QED
  BY <1>1, <1>4, <1>5

\* A version is put on its way to whoever watches.
Arrives(r, version) ==
    /\ watch' \in Coming
    /\ \A q \in Processes, s \in Resources :
           \/ watch'[q][s] = watch[q][s]
           \/ s = r /\ Watches(q, r) /\ watch'[q][s] = Append(watch[q][s], version)

LEMMA Published ==
  ASSUME TypeOK, NEW r \in Resources, NEW version \in Version, Publish(r, version)
  PROVE  Arrives(r, version)
<1>1. watch \in [Processes -> [Resources -> Seq(Version)]]
  BY DEF TypeOK
<1>2. ASSUME NEW q \in Processes
      PROVE  /\ watch'[q] \in [Resources -> Seq(Version)]
             /\ \A s \in Resources :
                    \/ watch'[q][s] = watch[q][s]
                    \/ s = r /\ Watches(q, r) /\ watch'[q][s] = Append(watch[q][s], version)
  <2>1. watch'[q] = IF Watches(q, r) THEN [watch[q] EXCEPT ![r] = Append(@, version)]
                                     ELSE watch[q]
    BY DEF Publish
  <2>2. watch[q] \in [Resources -> Seq(Version)] /\ Append(watch[q][r], version) \in Seq(Version)
    BY <1>1
  <2>3. QED
    BY <2>1, <2>2
<1>3. watch' = [q \in Processes |-> watch'[q]]
  BY DEF Publish
<1>4. QED
  BY <1>2, <1>3 DEF Arrives, Coming

\* The status patch changes no generation.
LEMMA StatusWritten ==
  ASSUME TypeOK, NEW p \in Processes, NEW w \in Workers, jobs[p][w].key # None,
         PatchStatus(jobs[p][w])
  PROVE  /\ named' \in [Resources -> Nat]
         /\ \/ watch' = watch
            \/ \E r \in Resources, version \in Version :
                   version.generation = Len(specs[r]) /\ Arrives(r, version)
<1> DEFINE r == jobs[p][w].key
           version == [Stored(r) EXCEPT !.named = jobs[p][w].names]
<1>1. r \in Resources /\ jobs[p][w].names \in Nat
  BY JobType
<1>2. version \in Version /\ version.generation = Len(specs[r])
  BY <1>1, StoredType DEF Stored, Version
<1>3. \/ UNCHANGED <<named, watch>>
      \/ /\ named' = [named EXCEPT ![r] = jobs[p][w].names]
         /\ Publish(r, version)
  BY DEF PatchStatus
<1> HIDE DEF version
<1>4. QED
  BY <1>1, <1>2, <1>3, Published DEF TypeOK

\* The head of what is on its way becomes what is known.
LEMMA Synced ==
  ASSUME TypeOK, NEW p \in Processes, NEW r \in Resources, Sync(p, r)
  PROVE  /\ Watches(p, r) /\ Len(watch[p][r]) # 0
         /\ cache' \in Caches /\ watch' \in Coming
         /\ cache'[p][r] = watch[p][r][1] /\ watch'[p][r] = Tail(watch[p][r])
         /\ \A q \in Processes, s \in Resources :
                ~(q = p /\ s = r) => cache'[q][s] = cache[q][s] /\ watch'[q][s] = watch[q][s]
<1>1. /\ cache \in [Processes -> [Resources -> Version]]
      /\ watch \in [Processes -> [Resources -> Seq(Version)]]
  BY DEF TypeOK
<1>2. /\ Watches(p, r) /\ watch[p][r] # <<>>
      /\ cache' = [cache EXCEPT ![p][r] = Head(watch[p][r])]
      /\ watch' = [watch EXCEPT ![p][r] = Tail(@)]
  BY DEF Sync
<1>3. /\ watch[p][r] \in Seq(Version) /\ Len(watch[p][r]) # 0
      /\ Head(watch[p][r]) = watch[p][r][1]
      /\ Head(watch[p][r]) \in Version /\ Tail(watch[p][r]) \in Seq(Version)
  BY <1>1, <1>2
<1>4. cache' = [cache EXCEPT ![p] = [cache[p] EXCEPT ![r] = Head(watch[p][r])]]
  BY <1>1, <1>2
<1>5. watch' = [watch EXCEPT ![p] = [watch[p] EXCEPT ![r] = Tail(watch[p][r])]]
  BY <1>1, <1>2
<1>6. /\ [cache[p] EXCEPT ![r] = Head(watch[p][r])] \in [Resources -> Version]
      /\ [watch[p] EXCEPT ![r] = Tail(watch[p][r])] \in [Resources -> Seq(Version)]
  BY <1>1, <1>3
<1>7. cache' \in Caches /\ watch' \in Coming
  BY <1>1, <1>4, <1>5, <1>6 DEF Caches, Coming
<1>8. cache'[p][r] = watch[p][r][1] /\ watch'[p][r] = Tail(watch[p][r])
  BY <1>1, <1>3, <1>4, <1>5
<1>9. ASSUME NEW q \in Processes, NEW s \in Resources, ~(q = p /\ s = r)
      PROVE  cache'[q][s] = cache[q][s] /\ watch'[q][s] = watch[q][s]
  BY <1>1, <1>4, <1>5, <1>9
<1>10. QED
  BY <1>2, <1>3, <1>7, <1>8, <1>9

\* Who works on the resource is overtaken, and goes on.
LEMMA Overtaken ==
  ASSUME TypeOK, NEW p \in Processes, NEW r \in Resources, Sync(p, r)
  PROVE  /\ jobs' \in Jobs
         /\ \A q \in Processes, v \in Workers :
                /\ jobs'[q][v].key = jobs[q][v].key /\ jobs'[q][v].seen = jobs[q][v].seen
                /\ jobs'[q][v].step = jobs[q][v].step /\ jobs'[q][v].result = jobs[q][v].result
                /\ q = p /\ jobs[q][v].key = r => jobs'[q][v].moved
                /\ ~(q = p /\ jobs[q][v].key = r) => jobs'[q][v] = jobs[q][v]
<1> DEFINE After(v) == IF jobs[p][v].key = r THEN [jobs[p][v] EXCEPT !.moved = TRUE]
                                            ELSE jobs[p][v]
<1>1. jobs \in [Processes -> [Workers -> Job]]
  BY DEF TypeOK
<1>2. ASSUME NEW v \in Workers
      PROVE  /\ After(v) \in Job
             /\ After(v).key = jobs[p][v].key /\ After(v).seen = jobs[p][v].seen
             /\ After(v).step = jobs[p][v].step /\ After(v).result = jobs[p][v].result
             /\ jobs[p][v].key = r => After(v).moved
             /\ jobs[p][v].key # r => After(v) = jobs[p][v]
  <2>1. jobs[p][v] \in Job
    BY <1>1
  <2>2. CASE jobs[p][v].key = r
    BY <2>1, <2>2, OvertakenJobType
  <2>3. CASE jobs[p][v].key # r
    BY <2>1, <2>3
  <2>4. QED
    BY <2>2, <2>3
<1>3. jobs' = [jobs EXCEPT ![p] = [v \in Workers |-> After(v)]]
  BY DEF Sync
<1> HIDE DEF After
<1>4. jobs' \in Jobs
  BY <1>1, <1>2, <1>3 DEF Jobs
<1>5. \A v \in Workers : jobs'[p][v] = After(v)
  BY <1>1, <1>3
<1>6. \A q \in Processes : q # p => jobs'[q] = jobs[q]
  BY <1>1, <1>3
<1>7. QED
  BY <1>2, <1>4, <1>5, <1>6

LEMMA GivesType ==
  ASSUME TypeOK, NEW p \in Processes, NEW w \in Workers, jobs[p][w].step # "idle",
         Gives(p, w) \/ UNCHANGED applied
  PROVE  /\ applied' \in [Resources -> [generation : Nat, by : Processes \cup {None}]]
         /\ \A r \in Resources : r # jobs[p][w].key => applied'[r] = applied[r]
         /\ Gives(p, w) => /\ applied'[jobs[p][w].key].generation = jobs[p][w].seen.generation
                           /\ applied'[jobs[p][w].key].by = p
<1>1. jobs[p][w].key \in Resources /\ jobs[p][w].seen.generation \in Nat
  BY WorkersKey, JobType
<1>2. applied \in [Resources -> [generation : Nat, by : Processes \cup {None}]]
  BY DEF TypeOK
<1> DEFINE given == [generation |-> jobs[p][w].seen.generation, by |-> p]
<1>3. given \in [generation : Nat, by : Processes \cup {None}]
  BY <1>1
<1>4. given.generation = jobs[p][w].seen.generation /\ given.by = p
  OBVIOUS
<1>5. Gives(p, w) => applied' = [applied EXCEPT ![jobs[p][w].key] = given]
  BY DEF Gives
<1> HIDE DEF given
<1>6. QED
  BY <1>1, <1>2, <1>3, <1>4, <1>5

\* An instance more, or another state of one.
LEMMA InstancesType ==
  ASSUME TypeOK, NEW r \in Resources, NEW state \in {"creating", "running", "lost"},
         \/ instances' = [instances EXCEPT ![r] = Append(@, state)]
         \/ \E k \in Alive(r) : Becomes(r, k, state)
  PROVE  instances' \in [Resources -> Seq({"creating", "running", "lost"})]
<1>1. instances \in [Resources -> Seq({"creating", "running", "lost"})]
  BY DEF TypeOK
<1>2. CASE instances' = [instances EXCEPT ![r] = Append(@, state)]
  BY <1>1, <1>2
<1>3. CASE \E k \in Alive(r) : Becomes(r, k, state)
  <2>1. PICK k \in Alive(r) : instances' = [instances EXCEPT ![r][k] = state]
    BY <1>3 DEF Becomes
  <2>2. k \in 1..Len(instances[r])
    BY AliveType
  <2>3. [instances[r] EXCEPT ![k] = state] \in Seq({"creating", "running", "lost"})
    BY <1>1, <2>2
  <2>4. instances' = [instances EXCEPT ![r] = [instances[r] EXCEPT ![k] = state]]
    BY <1>1, <2>1
  <2>5. QED
    BY <1>1, <2>3, <2>4
<1>4. QED
  BY <1>2, <1>3

WorkerActs(p, w) ==
    \/ \E r \in Resources : Take(p, w, r)
    \/ Listed(p, w) \/ Posted(p, w) \/ Got(p, w) \/ Patch(p, w)
    \/ Cancelled(p, w) \/ Failed(p, w) \/ Hang(p, w)

ProcessActs(p) == Start(p) \/ Lead(p) \/ Stop(p) \/ Leave(p) \/ Die(p)

LEMMA WorkerType ==
  ASSUME TypeOK, NEW p \in Processes, NEW w \in Workers, WorkerActs(p, w)
  PROVE  TypeOK'
<1>1. ASSUME NEW r \in Resources, Take(p, w, r) PROVE TypeOK'
  <2>1. dirty' = [dirty EXCEPT ![p] = @ \ {r}] /\ jobs' \in Jobs
    BY <1>1, TakeReassigns DEF Reassigned
  <2>2. dirty' \in [Processes -> SUBSET Resources]
    BY <2>1 DEF TypeOK
  <2>3. QED
    BY <1>1, <2>1, <2>2
       DEF Take, TypeOK, Jobs, clusterVars, auraVars, informerVars, counters
<1>2. CASE Listed(p, w)
  <2>1. jobs' \in Jobs
    BY <1>2, Asked DEF Reassigned
  <2>2. QED
    BY <1>2, <2>1 DEF Listed, TypeOK, Jobs, clusterVars, auraVars, informerVars, counters
<1>3. CASE Posted(p, w)
  <2>1. jobs' \in Jobs
    BY <1>3, Asked DEF Reassigned
  <2>2. jobs[p][w].step # "idle" /\ jobs[p][w].key \in Resources /\ Gives(p, w)
    BY <1>3, WorkersKey DEF Posted, At
  <2>3. instances' \in [Resources -> Seq({"creating", "running", "lost"})]
    BY <1>3, <2>2, InstancesType DEF Posted
  <2>4. QED
    BY <1>3, <2>1, <2>2, <2>3, GivesType
       DEF Posted, TypeOK, Jobs, clusterVars, informerVars, counters
<1>4. CASE Got(p, w)
  <2>1. jobs' \in Jobs
    BY <1>4, Asked DEF Reassigned
  <2>2. jobs[p][w].step # "idle" /\ (Gives(p, w) \/ UNCHANGED applied)
    BY <1>4 DEF Got, At
  <2>3. QED
    BY <1>4, <2>1, <2>2, GivesType
       DEF Got, TypeOK, Jobs, clusterVars, informerVars, counters
<1>5. ASSUME NEW again, jobs[p][w].key # None, Done(p, w, again)
      PROVE  jobs' \in Jobs /\ dirty' \in [Processes -> SUBSET Resources]
  <2>1. jobs[p][w].key \in Resources /\ dirty \in [Processes -> SUBSET Resources]
    BY <1>5, JobType DEF TypeOK
  <2>2. /\ Reassigned(p, w, Idle)
        /\ dirty' = dirty \/ dirty' = [dirty EXCEPT ![p] = @ \cup {jobs[p][w].key}]
    BY <1>5, DoneReassigns
  <2>3. QED
    BY <2>1, <2>2 DEF Reassigned
<1>6. ASSUME jobs[p][w].key # None, UNCHANGED <<named, watch>> \/ PatchStatus(jobs[p][w])
      PROVE  named' \in [Resources -> Nat] /\ watch' \in Coming
  <2>1. named \in [Resources -> Nat] /\ watch \in Coming
    BY DEF TypeOK, Coming
  <2>2. CASE PatchStatus(jobs[p][w])
    BY <1>6, <2>1, <2>2, StatusWritten DEF Arrives
  <2>3. QED
    BY <1>6, <2>1, <2>2
<1>7. CASE Patch(p, w)
  <2>1. jobs[p][w].key # None
    BY <1>7, JobType DEF Patch, At
  <2>2. \E again : Done(p, w, again)
    BY <1>7 DEF Patch
  <2>3. UNCHANGED <<named, watch>> \/ PatchStatus(jobs[p][w])
    BY <1>7 DEF Patch
  <2>4. QED
    BY <1>5, <1>6, <1>7, <2>1, <2>2, <2>3 DEF Patch, TypeOK, Jobs, Coming, auraVars, counters
<1>8. CASE Failed(p, w)
  <2>1. failures' \in Nat
    BY <1>8 DEF Failed, TypeOK
  <2>2. jobs[p][w].key # None /\ Done(p, w, TRUE)
    BY <1>8 DEF Failed
  <2>3. UNCHANGED <<named, watch>> \/ PatchStatus(jobs[p][w])
    BY <1>8 DEF Failed
  <2>4. QED
    BY <1>5, <1>6, <1>8, <2>1, <2>2, <2>3 DEF Failed, TypeOK, Jobs, Coming, auraVars
<1>9. CASE Cancelled(p, w)
  <2>1. jobs' \in Jobs
    BY <1>9, IdleType, AssignReassigns DEF Cancelled, Reassigned
  <2>2. QED
    BY <1>9, <2>1 DEF Cancelled, TypeOK, Jobs, clusterVars, auraVars, informerVars, counters
<1>10. CASE Hang(p, w)
  <2>1. jobs' \in Jobs
    BY <1>10, JobType, HungJobType, AssignReassigns DEF Hang, Reassigned, Continues
  <2>2. hangs' \in Nat
    BY <1>10 DEF Hang, TypeOK
  <2>3. QED
    BY <1>10, <2>1, <2>2 DEF Hang, TypeOK, Jobs, clusterVars, auraVars, informerVars
<1>11. QED
  BY <1>1, <1>2, <1>3, <1>4, <1>7, <1>8, <1>9, <1>10 DEF WorkerActs

LEMMA ForgetType ==
  ASSUME TypeOK, NEW p \in Processes, Forget(p)
  PROVE  /\ cache' \in Caches /\ watch' \in Coming
         /\ dirty' \in [Processes -> SUBSET Resources]
         /\ dirty'[p] = {} /\ \A r \in Resources : cache'[p][r] = Unread /\ Len(watch'[p][r]) = 0
         /\ \A q \in Processes : q # p =>
                cache'[q] = cache[q] /\ watch'[q] = watch[q] /\ dirty'[q] = dirty[q]
<1>1. [r \in Resources |-> Unread] \in [Resources -> Version]
  BY IdleType
<1>2. [r \in Resources |-> <<>>] \in [Resources -> Seq(Version)]
  OBVIOUS
<1>3. QED
  BY <1>1, <1>2 DEF Forget, TypeOK, Caches, Coming

LEMMA ProcessType ==
  ASSUME TypeOK, NEW p \in Processes, ProcessActs(p)
  PROVE  TypeOK'
<1>1. /\ Watched(deployment, p) \subseteq Resources
      /\ LeaseOf(p) \in Selectors
  BY WatchedType
<1>2. CASE Start(p)
  <2>1. \A r \in Resources : (IF r \in Watched(deployment, p) THEN Stored(r) ELSE Unread) \in Version
    BY StoredType, IdleType
  <2>2. cache' \in [Processes -> [Resources -> Version]]
    BY <1>2, <2>1 DEF Start, TypeOK
  <2>3. QED
    BY <1>2, <2>2 DEF Start, TypeOK, clusterVars, auraVars, counters
<1>3. CASE Lead(p)
  BY <1>1, <1>3 DEF Lead, TypeOK, clusterVars, auraVars, informerVars, counters
<1>4. CASE Stop(p)
  BY <1>4 DEF Stop, Exit, TypeOK, clusterVars, auraVars, informerVars
<1>5. CASE Leave(p)
  <2>1. lease' \in [Selectors -> Processes \cup {None}]
    BY <1>5 DEF Leave, TypeOK
  <2>2. Forget(p)
    BY <1>5 DEF Leave
  <2>3. QED
    BY <1>5, <2>1, <2>2, ForgetType
       DEF Leave, TypeOK, Caches, Coming, clusterVars, auraVars, counters
<1>6. CASE Die(p)
  <2>1. [w \in Workers |-> Idle] \in [Workers -> Job]
    BY IdleType
  <2>2. jobs' \in [Processes -> [Workers -> Job]]
    BY <1>6, <2>1 DEF Die, TypeOK
  <2>3. Forget(p)
    BY <1>6 DEF Die
  <2>4. QED
    BY <1>6, <2>2, <2>3, ForgetType
       DEF Die, Exit, TypeOK, Caches, Coming, clusterVars, auraVars
<1>7. QED
  BY <1>2, <1>3, <1>4, <1>5, <1>6 DEF ProcessActs

\* An edit is one more generation, which goes to whoever watches.
LEMMA Edited ==
  ASSUME TypeOK, NEW r \in Resources, Edit(r)
  PROVE  /\ specs' \in [Resources -> Seq(Specs)]
         /\ Len(specs'[r]) = Len(specs[r]) + 1
         /\ \A s \in Resources : s # r => specs'[s] = specs[s]
         /\ \E version \in Version :
                version.generation = Len(specs'[r]) /\ Arrives(r, version)
<1>1. PICK spec \in Specs : specs' = [specs EXCEPT ![r] = Append(@, spec)]
  BY DEF Edit
<1>2. specs \in [Resources -> Seq(Specs)]
  BY DEF TypeOK
<1>3. specs'[r] = Append(specs[r], spec)
  BY <1>1, <1>2
<1>4. Len(specs'[r]) = Len(specs[r]) + 1 /\ Append(specs[r], spec) \in Seq(Specs)
  BY <1>2, <1>3
<1>5. specs' \in [Resources -> Seq(Specs)] /\ \A s \in Resources : s # r => specs'[s] = specs[s]
  BY <1>1, <1>2, <1>4
<1> DEFINE version == [Stored(r) EXCEPT !.generation = Len(specs[r]) + 1]
<1>6. version \in Version /\ version.generation = Len(specs[r]) + 1
  BY StoredType DEF Stored, Version
<1>7. Publish(r, version)
  BY DEF Edit
<1> HIDE DEF version
<1>8. QED
  BY <1>4, <1>5, <1>6, <1>7, Published

LEMMA SurroundingsType ==
  ASSUME TypeOK,
         \/ \E s \in Selectors : Expire(s)
         \/ \E r \in Resources : Edit(r) \/ Settle(r) \/ Lose(r)
         \/ \E p \in Processes, r \in Resources : Sync(p, r)
  PROVE  TypeOK'
<1>1. ASSUME NEW s \in Selectors, Expire(s) PROVE TypeOK'
  BY <1>1 DEF Expire, TypeOK, clusterVars, auraVars, informerVars, counters
<1>2. ASSUME NEW r \in Resources, Edit(r) PROVE TypeOK'
  <2>1. \A s \in Resources : specs'[s] # <<>>
    BY <1>2, Edited, StoredType DEF TypeOK
  <2>2. watch' \in Coming /\ specs' \in [Resources -> Seq(Specs)]
    BY <1>2, Edited DEF Arrives
  <2>3. QED
    BY <1>2, <2>1, <2>2 DEF Edit, TypeOK, Coming, auraVars, processVars, counters
<1>3. ASSUME NEW r \in Resources, Settle(r) PROVE TypeOK'
  <2>1. instances' \in [Resources -> Seq({"creating", "running", "lost"})]
    BY <1>3, InstancesType DEF Settle
  <2>2. QED
    BY <1>3, <2>1 DEF Settle, TypeOK, clusterVars, informerVars, processVars, counters
<1>4. ASSUME NEW r \in Resources, Lose(r) PROVE TypeOK'
  <2>1. instances' \in [Resources -> Seq({"creating", "running", "lost"})]
    BY <1>4, InstancesType DEF Lose
  <2>2. losses' \in Nat
    BY <1>4 DEF Lose, TypeOK
  <2>3. QED
    BY <1>4, <2>1, <2>2 DEF Lose, TypeOK, clusterVars, informerVars, processVars
<1>5. ASSUME NEW p \in Processes, NEW r \in Resources, Sync(p, r) PROVE TypeOK'
  <2>1. cache' \in Caches /\ watch' \in Coming /\ jobs' \in Jobs
    BY <1>5, Synced, Overtaken
  <2>2. dirty' \in [Processes -> SUBSET Resources]
    BY <1>5 DEF Sync, TypeOK
  <2>3. QED
    BY <1>5, <2>1, <2>2 DEF Sync, TypeOK, Caches, Coming, Jobs, clusterVars, auraVars, counters
<1>6. QED
  BY <1>1, <1>2, <1>3, <1>4, <1>5

\* The steps: a worker's, a process's, and those of all around them.
LEMMA AllSteps ==
  ASSUME Next
  PROVE  \/ \E p \in Processes, w \in Workers : WorkerActs(p, w)
         \/ \E p \in Processes : ProcessActs(p)
         \/ \E s \in Selectors : Expire(s)
         \/ \E r \in Resources : Edit(r) \/ Settle(r) \/ Lose(r)
         \/ \E p \in Processes, r \in Resources : Sync(p, r)
  BY DEF Next, Lives, Trouble, Work, Takes, Pool, WorkerActs, ProcessActs

(***************************************************************************)
(* Every variable keeps its type; a worker in the middle of a reconcile    *)
(* has a key, and only such a worker has (main.go, SetupWithManager).      *)
(***************************************************************************)
THEOREM ManagerTyping == Spec => []TypeOK
<1>1. Init => TypeOK
  <2> SUFFICES ASSUME Init PROVE TypeOK
    OBVIOUS
  <2>1. PICK asked \in [Resources -> Specs] : specs = [r \in Resources |-> <<asked[r]>>]
    BY DEF Init
  <2>2. specs \in [Resources -> Seq(Specs)] /\ \A r \in Resources : specs[r] # <<>>
    BY <2>1
  <2>3. cache \in [Processes -> [Resources -> Version]]
    BY IdleType DEF Init
  <2>4. jobs \in [Processes -> [Workers -> Job]]
    BY IdleType DEF Init
  <2>5. QED
    BY <2>2, <2>3, <2>4 DEF Init, TypeOK
<1>2. TypeOK /\ [Next]_vars => TypeOK'
  <2> SUFFICES ASSUME TypeOK, [Next]_vars PROVE TypeOK'
    OBVIOUS
  <2>1. CASE Next
    BY <2>1, AllSteps, WorkerType, ProcessType, SurroundingsType
  <2>2. CASE UNCHANGED vars
    BY <2>2 DEF vars, clusterVars, auraVars, informerVars, processVars, counters, TypeOK
  <2>3. QED
    BY <2>1, <2>2
<1>3. QED
  BY <1>1, <1>2, PTL DEF Spec


--------------------------------------------------------------------------------

(***************************************************************************)
(* Leadership.  A worker's step changes the job of that worker only, and   *)
(* only Take gives it another key.                                         *)
(***************************************************************************)
Begins(p, w, job) == status[p] = "leading" /\ jobs[p][w].key = None /\ job.key \in Ready(p)

Keeps(p, w, job) == job.key = None \/ job.key = jobs[p][w].key

Requeues(p, w) ==
    \A q \in Processes : \A r \in dirty'[q] :
        r \in dirty[q] \/ (q = p /\ Busy(p, w) /\ r = jobs[p][w].key)

LEMMA WorkerStep ==
  ASSUME TypeOK, NEW p \in Processes, NEW w \in Workers, WorkerActs(p, w)
  PROVE  /\ UNCHANGED <<deployment, status, lease>>
         /\ Requeues(p, w)
         /\ \E job \in Job :
                Reassigned(p, w, job) /\ (Begins(p, w, job) \/ Keeps(p, w, job))
<1>1. UNCHANGED <<deployment, status, lease>>
  BY DEF WorkerActs, Take, Listed, Posted, Got, Patch, Cancelled, Failed, Hang, clusterVars
<1>2. ASSUME NEW r \in Resources, Take(p, w, r)
      PROVE  /\ Requeues(p, w)
             /\ \E job \in Job :
                    Reassigned(p, w, job) /\ (Begins(p, w, job) \/ Keeps(p, w, job))
  <2>1. /\ r \in Ready(p)
        /\ dirty' = [dirty EXCEPT ![p] = @ \ {r}]
        /\ \/ Reassigned(p, w, Reads(p, r)) /\ Reads(p, r) \in Job
           \/ Reassigned(p, w, jobs[p][w])
    BY <1>2, TakeReassigns
  <2>2. Requeues(p, w)
    BY <2>1 DEF Requeues, TypeOK
  <2>3. Begins(p, w, Reads(p, r))
    BY <1>2, <2>1 DEF Begins, Take, Reads
  <2>4. Keeps(p, w, jobs[p][w]) /\ jobs[p][w] \in Job
    BY JobType DEF Keeps
  <2>5. QED
    BY <2>1, <2>2, <2>3, <2>4
<1>3. CASE Listed(p, w) \/ Posted(p, w) \/ Got(p, w)
  <2>1. Requeues(p, w)
    BY <1>3 DEF Listed, Posted, Got, Requeues
  <2>2. QED
    BY <1>1, <1>3, <2>1, Asked DEF Continues, Keeps
<1>4. ASSUME NEW again, Busy(p, w), Done(p, w, again)
      PROVE  Requeues(p, w) /\ Reassigned(p, w, Idle)
  <2>1. dirty \in [Processes -> SUBSET Resources]
    BY DEF TypeOK
  <2>2. /\ Reassigned(p, w, Idle)
        /\ dirty' = dirty \/ dirty' = [dirty EXCEPT ![p] = @ \cup {jobs[p][w].key}]
    BY <1>4, DoneReassigns
  <2>3. QED
    BY <1>4, <2>1, <2>2 DEF Requeues
<1>5. CASE Patch(p, w) \/ Failed(p, w)
  <2>1. Busy(p, w) /\ \E again : Done(p, w, again)
    BY <1>5, JobType DEF Patch, Failed, At, Busy
  <2>2. QED
    BY <1>1, <1>4, <2>1, IdleType DEF Keeps
<1>6. CASE Cancelled(p, w)
  <2>1. Reassigned(p, w, Idle) /\ Requeues(p, w)
    BY <1>6, IdleType, AssignReassigns DEF Cancelled, Requeues
  <2>2. QED
    BY <1>1, <2>1, IdleType DEF Keeps
<1>7. CASE Hang(p, w)
  <2>1. Requeues(p, w)
    BY <1>7 DEF Hang, Requeues
  <2>2. QED
    BY <1>1, <1>7, <2>1, JobType, HungJobType, AssignReassigns DEF Hang, Keeps, Continues
<1>8. QED
  BY <1>1, <1>2, <1>3, <1>5, <1>6, <1>7 DEF WorkerActs

LEMMA WorkerLeadership ==
  ASSUME TypeOK, LeadershipInv, NEW p \in Processes, NEW w \in Workers, NEW job \in Job,
         UNCHANGED <<deployment, status, lease>>, Requeues(p, w), Reassigned(p, w, job),
         Begins(p, w, job) \/ Keeps(p, w, job)
  PROVE  LeadershipInv'
<1>1. \A q \in Processes, v \in Workers :
        \/ jobs'[q][v] = jobs[q][v]
        \/ q = p /\ v = w /\ jobs'[q][v] = job
  BY DEF Reassigned
<1>2. ASSUME NEW q \in Processes, NEW v \in Workers, Busy(q, v)'
      PROVE  /\ Leads(q) /\ status[q] \in {"leading", "stopping"}
             /\ jobs'[q][v].key \in Watched(deployment, q)
  <2>1. CASE jobs'[q][v] = jobs[q][v]
    BY <1>2, <2>1 DEF Busy, Leads, LeadershipInv, JobsInPlace
  <2>2. CASE q = p /\ v = w /\ jobs'[q][v] = job
    BY <1>2, <2>2 DEF Busy, Leads, LeadershipInv, JobsInPlace, Begins, Keeps, Ready
  <2>3. QED
    BY <1>1, <2>1, <2>2
<1>3. \A q \in Processes : Leads(q)' => Leads(q)
  BY <1>2 DEF Leads
<1>4. LeaseHeld'
  BY <1>3 DEF LeadershipInv, LeaseHeld, LeaseOf
<1>5. \A q \in Processes : dirty'[q] \subseteq Watched(deployment, q)
  BY DEF Requeues, LeadershipInv, JobsInPlace
<1>6. JobsInPlace'
  BY <1>2, <1>5 DEF JobsInPlace, Watched
<1>7. KeysApart'
  <2> SUFFICES ASSUME NEW q \in Processes, NEW u \in Workers, NEW v \in Workers,
                      Busy(q, u)', jobs'[q][u].key = jobs'[q][v].key
               PROVE  u = v
    BY DEF KeysApart
  <2>1. CASE Begins(p, w, job)
    BY <1>1, <2>1 DEF Begins, Ready, Processing, Busy, LeadershipInv, KeysApart
  <2>2. CASE Keeps(p, w, job)
    BY <1>1, <2>2 DEF Keeps, Busy, LeadershipInv, KeysApart
  <2>3. QED
    BY <2>1, <2>2
<1>8. QED
  BY <1>4, <1>6, <1>7 DEF LeadershipInv

LEMMA ProcessLeadership ==
  ASSUME TypeOK, LeadershipInv, NEW p \in Processes,
         ProcessActs(p)
  PROVE  LeadershipInv'
<1>1. deployment' = deployment
  BY DEF ProcessActs, Start, Lead, Stop, Leave, Die, clusterVars
<1>2. \A q \in Processes : Watched(deployment, q)' = Watched(deployment, q) /\ LeaseOf(q)' = LeaseOf(q)
  BY <1>1 DEF Watched, LeaseOf
<1>3. status \in [Processes -> {"down", "waiting", "leading", "stopping"}]
  BY DEF TypeOK
<1>4. CASE Start(p) \/ Stop(p)
  <2>1. jobs' = jobs /\ dirty' = dirty /\ lease' = lease
    BY <1>4 DEF Start, Stop
  <2>2. \A q \in Processes : q # p => status'[q] = status[q]
    BY <1>3, <1>4 DEF Start, Stop
  <2>3. \/ status[p] = "down" /\ status'[p] = "waiting"
        \/ status[p] \in {"waiting", "leading"} /\ status'[p] = "stopping"
    BY <1>3, <1>4 DEF Start, Stop
  <2>4. \A q \in Processes : Leads(q)' => Leads(q)
    BY <2>1, <2>2, <2>3 DEF Leads, Busy
  <2>5. LeaseHeld'
    BY <1>1, <1>2, <2>1, <2>4 DEF LeadershipInv, LeaseHeld
  <2>6. JobsInPlace'
    BY <1>2, <2>1, <2>2, <2>3 DEF LeadershipInv, JobsInPlace, Busy
  <2>7. QED
    BY <2>1, <2>5, <2>6 DEF LeadershipInv, KeysApart, Busy
<1>5. CASE Lead(p)
  <2>1. jobs' = jobs /\ status[p] = "waiting"
    BY <1>5 DEF Lead
  <2>2. status'[p] = "leading" /\ \A q \in Processes : q # p => status'[q] = status[q]
    BY <1>3, <1>5 DEF Lead
  <2>3. dirty'[p] = Watched(deployment, p) /\ \A q \in Processes : q # p => dirty'[q] = dirty[q]
    BY <1>5 DEF Lead, TypeOK
  <2>4. ASSUME deployment.election, NEW q \in Processes, Leads(q)'
        PROVE  lease'[LeaseOf(q)] = q
    <3>1. /\ lease[LeaseOf(p)] = None
          /\ lease' = [lease EXCEPT ![LeaseOf(p)] = p]
      BY <1>5, <2>4 DEF Lead, ElectsLeader
    <3>2. LeaseOf(p) \in Selectors /\ LeaseOf(q) \in Selectors /\ lease \in [Selectors -> Processes \cup {None}]
      BY WatchedType DEF TypeOK
    <3>3. CASE q = p
      BY <3>1, <3>2, <3>3
    <3>4. CASE q # p
      <4>1. Leads(q)
        BY <2>1, <2>2, <2>4, <3>4 DEF Leads, Busy
      <4>2. lease[LeaseOf(q)] = q
        BY <2>4, <4>1 DEF LeadershipInv, LeaseHeld
      <4>3. q # None
        BY ManagerAssumption
      <4>4. QED
        BY <3>1, <3>2, <4>2, <4>3
    <3>5. QED
      BY <3>3, <3>4
  <2>5. LeaseHeld'
    BY <1>1, <1>2, <2>4 DEF LeaseHeld
  <2>6. JobsInPlace'
    BY <1>2, <2>1, <2>2, <2>3 DEF LeadershipInv, JobsInPlace, Busy
  <2>7. QED
    BY <2>1, <2>5, <2>6 DEF LeadershipInv, KeysApart, Busy
<1>6. CASE Leave(p)
  <2>1. jobs' = jobs /\ \A w \in Workers : ~Busy(p, w)
    BY <1>6 DEF Leave, Drained, Busy
  <2>2. status'[p] = "down" /\ \A q \in Processes : q # p => status'[q] = status[q]
    BY <1>3, <1>6 DEF Leave
  <2>3. \A q \in Processes : dirty'[q] \subseteq dirty[q]
    BY <1>6 DEF Leave, Forget, TypeOK
  <2>4. \A q \in Processes : Leads(q)' => q # p /\ Leads(q)
    BY <2>1, <2>2 DEF Leads, Busy
  <2>5. \A q \in Processes : q # p /\ lease[LeaseOf(q)] = q => lease'[LeaseOf(q)] = q
    BY <1>6, WatchedType DEF Leave
  <2>6. LeaseHeld'
    BY <1>1, <1>2, <2>4, <2>5 DEF LeadershipInv, LeaseHeld
  <2>7. JobsInPlace'
    BY <1>2, <2>1, <2>2, <2>3 DEF LeadershipInv, JobsInPlace, Busy
  <2>8. QED
    BY <2>1, <2>6, <2>7 DEF LeadershipInv, KeysApart, Busy
<1>7. CASE Die(p)
  <2>1. \A w \in Workers : jobs'[p][w].key = None
    BY <1>7, IdleType DEF Die, TypeOK
  <2>2. /\ lease' = lease
        /\ status'[p] = "down"
        /\ \A q \in Processes : q # p => jobs'[q] = jobs[q] /\ status'[q] = status[q]
    BY <1>3, <1>7 DEF Die, TypeOK
  <2>3. \A q \in Processes : dirty'[q] \subseteq dirty[q]
    BY <1>7 DEF Die, Forget, TypeOK
  <2>4. \A q \in Processes : Leads(q)' => Leads(q)
    BY <2>1, <2>2 DEF Leads, Busy
  <2>5. LeaseHeld'
    BY <1>1, <1>2, <2>2, <2>4 DEF LeadershipInv, LeaseHeld
  <2>6. JobsInPlace'
    BY <1>2, <2>1, <2>2, <2>3 DEF LeadershipInv, JobsInPlace, Busy
  <2>7. KeysApart'
    BY <2>1, <2>2 DEF LeadershipInv, KeysApart, Busy
  <2>8. QED
    BY <2>5, <2>6, <2>7 DEF LeadershipInv
<1>8. QED
  BY <1>4, <1>5, <1>6, <1>7 DEF ProcessActs

\* Only the lease of a process that neither leads nor works runs out.
LEMMA ExpireLeadership ==
  ASSUME TypeOK, LeadershipInv, NEW s \in Selectors, Expire(s)
  PROVE  LeadershipInv'
<1>1. UNCHANGED <<deployment, status, dirty, jobs>>
  BY DEF Expire, clusterVars
<1>2. ASSUME deployment.election, NEW q \in Processes, Leads(q)
      PROVE  lease'[LeaseOf(q)] = q
  <2>1. lease[LeaseOf(q)] = q
    BY <1>2 DEF LeadershipInv, LeaseHeld
  <2>2. status[q] \notin {"down", "waiting"}
    BY <1>2 DEF Leads, LeadershipInv, JobsInPlace
  <2>3. LeaseOf(q) # s
    BY <2>1, <2>2 DEF Expire
  <2>4. QED
    BY <2>1, <2>3, WatchedType DEF Expire, TypeOK
<1>3. LeaseHeld'
  BY <1>1, <1>2 DEF LeaseHeld, Leads, Busy, LeaseOf
<1>4. QED
  BY <1>1, <1>3 DEF LeadershipInv, JobsInPlace, KeysApart, Busy, Watched

\* News puts no key into a queue that is not watched, and hands none out.
LEMMA SyncLeadership ==
  ASSUME TypeOK, LeadershipInv, NEW p \in Processes, NEW r \in Resources, Sync(p, r)
  PROVE  LeadershipInv'
<1>1. UNCHANGED <<deployment, status, lease>>
  BY DEF Sync, clusterVars
<1>2. \A q \in Processes, v \in Workers : jobs'[q][v].key = jobs[q][v].key
  BY Overtaken
<1>3. \A q \in Processes : dirty'[q] \subseteq Watched(deployment, q)
  BY DEF Sync, Watches, LeadershipInv, JobsInPlace, TypeOK
<1>4. QED
  BY <1>1, <1>2, <1>3
     DEF LeadershipInv, LeaseHeld, Leads, JobsInPlace, KeysApart, Busy, Watched, LeaseOf

LEMMA UnchangedLeadership ==
  ASSUME LeadershipInv, UNCHANGED <<deployment, status, lease, dirty, jobs>>
  PROVE  LeadershipInv'
  BY DEF LeadershipInv, LeaseHeld, Leads, JobsInPlace, KeysApart, Busy, Watched, LeaseOf

LEMMA UsersAndAura ==
  ASSUME NEW r \in Resources, Edit(r) \/ Settle(r) \/ Lose(r)
  PROVE  UNCHANGED <<deployment, named, applied, cache, status, lease, dirty, jobs>>
  BY DEF Edit, Settle, Lose, clusterVars, auraVars, informerVars, processVars

LEMMA Leadership == Spec => [](TypeOK /\ LeadershipInv)
<1>1. Init => LeadershipInv
  BY IdleType
     DEF Init, LeadershipInv, LeaseHeld, Leads, JobsInPlace, KeysApart, Busy
<1>2. TypeOK /\ LeadershipInv /\ [Next]_vars => LeadershipInv'
  <2> SUFFICES ASSUME TypeOK, LeadershipInv, [Next]_vars PROVE LeadershipInv'
    OBVIOUS
  <2>1. CASE Next
    BY <2>1, AllSteps, WorkerStep, WorkerLeadership, ProcessLeadership, ExpireLeadership,
       SyncLeadership, UnchangedLeadership, UsersAndAura
  <2>2. CASE UNCHANGED vars
    BY <2>2, UnchangedLeadership DEF vars, clusterVars, processVars
  <2>3. QED
    BY <2>1, <2>2
<1>3. QED
  BY <1>1, <1>2, ManagerTyping, PTL DEF Spec

\* Nobody else works on what a worker works on.
LEMMA WorksAlone == TypeOK /\ LeadershipInv => SingleFlight
<1> SUFFICES ASSUME TypeOK, LeadershipInv, NEW p \in Processes, NEW q \in Processes,
                    NEW v \in Workers, NEW w \in Workers,
                    jobs[p][v].key # None, jobs[p][v].key = jobs[q][w].key
             PROVE  p = q /\ v = w
  BY DEF SingleFlight
<1>1. p = q
  <2> SUFFICES ASSUME p # q PROVE FALSE
    OBVIOUS
  <2>1. Watched(deployment, p) \cap Watched(deployment, q) # {}
    BY DEF LeadershipInv, JobsInPlace, Busy
  <2>2. deployment.election /\ LeaseOf(p) = LeaseOf(q)
    BY <2>1, DeploymentsAssumption DEF TypeOK, LeaseOf
  <2>3. lease[LeaseOf(p)] = p /\ lease[LeaseOf(q)] = q
    BY <2>2 DEF LeadershipInv, LeaseHeld, Leads, Busy
  <2>4. QED
    BY <2>2, <2>3
<1>2. QED
  BY <1>1 DEF LeadershipInv, KeysApart, Busy

(***************************************************************************)
(* No resource is reconciled twice at a time, whatever number of processes *)
(* and workers there is, across restarts, deaths and changes of leadership *)
(* (main.go, lines 99-131; SetupWithManager, lines 84-94).                 *)
(***************************************************************************)
THEOREM OneAtATime == Spec => []SingleFlight
  BY Leadership, WorksAlone, PTL

--------------------------------------------------------------------------------

(***************************************************************************)
(* One instance for each resource.                                         *)
(***************************************************************************)
LEMMA NoMoreAlive ==
  ASSUME WorkInv, TypeOK',
         \A r \in Resources : Alive(r)' \subseteq Alive(r),
         \A p \in Processes, w \in Workers :
             jobs'[p][w].step = "post" =>
                 \/ jobs[p][w].step = "post" /\ jobs'[p][w].key = jobs[p][w].key
                 \/ Alive(jobs'[p][w].key) = {}
  PROVE  WorkInv'
<1>1. OnePerResource'
  BY DEF WorkInv, OnePerResource
<1>2. ASSUME NEW p \in Processes, NEW w \in Workers, jobs'[p][w].step = "post"
      PROVE  Alive(jobs[p][w].key)' = {}
  <2>1. jobs'[p][w] \in Job
    BY DEF TypeOK
  <2>2. jobs'[p][w].key \in Resources
    BY <1>2, <2>1 DEF Job
  <2>3. Alive(jobs'[p][w].key) = {}
    BY <1>2 DEF WorkInv
  <2> DEFINE r == jobs'[p][w].key
  <2>4. {k \in DOMAIN instances'[r] : instances'[r][k] # "lost"} = {}
    BY <2>2, <2>3 DEF Alive
  <2>5. QED
    BY <2>4 DEF Alive
<1>3. QED
  BY <1>1, <1>2 DEF WorkInv

\* The one POST there is makes the one instance.
LEMMA PostedMakesOne ==
  ASSUME TypeOK, TypeOK', WorkInv, SingleFlight, NEW p \in Processes, NEW w \in Workers,
         Posted(p, w)
  PROVE  WorkInv'
<1> DEFINE r == jobs[p][w].key
           n == Len(instances[r]) + 1
<1>1. r \in Resources /\ r # None /\ jobs[p][w].step = "post" /\ Alive(r) = {}
  BY WorkersKey DEF Posted, At, WorkInv
<1>2. instances \in [Resources -> Seq({"creating", "running", "lost"})]
  BY DEF TypeOK
<1>3. instances' = [instances EXCEPT ![r] = Append(@, "creating")]
  BY DEF Posted
<1>4. instances'[r] = Append(instances[r], "creating")
  BY <1>1, <1>2, <1>3
<1>5. {k \in DOMAIN instances'[r] : instances'[r][k] # "lost"} \subseteq {n}
  <2>1. \A k \in 1..Len(instances[r]) : instances[r][k] = "lost"
    BY <1>1, <1>2 DEF Alive
  <2>2. DOMAIN instances'[r] = 1..n /\ \A k \in 1..Len(instances[r]) : instances'[r][k] = instances[r][k]
    BY <1>1, <1>2, <1>4
  <2>3. Len(instances[r]) \in Nat
    BY <1>1, <1>2
  <2>4. QED
    BY <2>1, <2>2, <2>3
<1>6. \A s \in Resources : s # r => {k \in DOMAIN instances'[s] : instances'[s][k] # "lost"} = Alive(s)
  <2>1. \A s \in Resources : s # r => instances'[s] = instances[s]
    BY <1>1, <1>2, <1>3
  <2>2. QED
    BY <2>1 DEF Alive
<1>7. OnePerResource'
  <2>1. \A s \in Resources : \A j, k \in {i \in DOMAIN instances'[s] : instances'[s][i] # "lost"} : j = k
    BY <1>5, <1>6 DEF WorkInv, OnePerResource
  <2>2. QED
    BY <2>1 DEF OnePerResource, Alive
<1>8. ASSUME NEW q \in Processes, NEW v \in Workers, jobs'[q][v].step = "post"
      PROVE  Alive(jobs[q][v].key)' = {}
  <2>1. PICK job \in Job :
            Reassigned(p, w, job) /\ (job.step = "post" => Listed(p, w))
    BY Asked
  <2>2. job.step # "post"
    BY <1>1, <2>1 DEF Listed, At
  <2>3. ~(q = p /\ v = w) /\ jobs'[q][v] = jobs[q][v]
    BY <1>8, <2>1, <2>2 DEF Reassigned
  <2>4. jobs[q][v].key # r /\ jobs[q][v].key \in Resources /\ Alive(jobs[q][v].key) = {}
    BY <1>1, <1>8, <2>3, WorkersKey DEF SingleFlight, WorkInv
  <2>5. QED
    BY <1>6, <2>3, <2>4 DEF Alive
<1>9. QED
  BY <1>7, <1>8 DEF WorkInv

LEMMA SameAlive ==
  ASSUME UNCHANGED instances
  PROVE  \A r \in Resources : Alive(r)' = Alive(r)
  BY DEF Alive

LEMMA WorkerMakesOne ==
  ASSUME TypeOK, TypeOK', WorkInv, SingleFlight, NEW p \in Processes, NEW w \in Workers,
         WorkerActs(p, w)
  PROVE  WorkInv'
<1>1. CASE Posted(p, w)
  BY <1>1, PostedMakesOne
<1>2. ASSUME UNCHANGED instances, NEW job, Reassigned(p, w, job),
             job.step = "post" => \/ jobs[p][w].step = "post" /\ job.key = jobs[p][w].key
                                  \/ Alive(job.key) = {}
      PROVE  WorkInv'
  <2>1. \A q \in Processes, v \in Workers :
          jobs'[q][v] = jobs[q][v] \/ (q = p /\ v = w /\ jobs'[q][v] = job)
    BY <1>2 DEF Reassigned
  <2>2. QED
    BY <1>2, <2>1, SameAlive, NoMoreAlive
<1>3. ~Posted(p, w) => UNCHANGED instances
  BY DEF WorkerActs, Take, Listed, Got, Patch, Cancelled, Failed, Hang, auraVars
<1>4. ASSUME NEW r \in Resources, Take(p, w, r), ~Posted(p, w) PROVE WorkInv'
  BY <1>2, <1>3, <1>4, TakeReassigns DEF Reads
<1>5. CASE (Listed(p, w) \/ Got(p, w)) /\ ~Posted(p, w)
  BY <1>2, <1>3, <1>5, Asked
<1>6. CASE (Patch(p, w) \/ Failed(p, w) \/ Cancelled(p, w)) /\ ~Posted(p, w)
  <2>1. Reassigned(p, w, Idle)
    BY <1>6, IdleType, AssignReassigns, DoneReassigns DEF Patch, Failed, Cancelled
  <2>2. QED
    BY <1>2, <1>3, <1>6, <2>1, IdleType
<1>7. CASE Hang(p, w) /\ ~Posted(p, w)
  <2> DEFINE job == [jobs[p][w] EXCEPT !.hung = TRUE]
  <2>1. job \in Job /\ job.key = jobs[p][w].key /\ job.step = jobs[p][w].step
    BY JobType, HungJobType DEF Continues
  <2>2. Reassigned(p, w, job)
    BY <1>7, <2>1, AssignReassigns DEF Hang
  <2> HIDE DEF job
  <2>3. QED
    BY <1>2, <1>3, <1>7, <2>1, <2>2
<1>8. QED
  BY <1>1, <1>4, <1>5, <1>6, <1>7 DEF WorkerActs

LEMMA OthersMakeNone ==
  ASSUME TypeOK, TypeOK', WorkInv,
         \/ \E p \in Processes : ProcessActs(p)
         \/ \E s \in Selectors : Expire(s)
         \/ \E r \in Resources : Edit(r) \/ Settle(r) \/ Lose(r)
         \/ \E p \in Processes, r \in Resources : Sync(p, r)
  PROVE  WorkInv'
<1>1. ASSUME NEW p \in Processes, ProcessActs(p) PROVE WorkInv'
  <2>1. UNCHANGED instances
    BY <1>1 DEF ProcessActs, Start, Lead, Stop, Leave, Die, auraVars
  <2>2. \A q \in Processes, w \in Workers : jobs'[q][w] = jobs[q][w] \/ jobs'[q][w] = Idle
    <3>1. CASE Die(p)
      BY <3>1 DEF Die, TypeOK
    <3>2. CASE Start(p) \/ Lead(p) \/ Stop(p) \/ Leave(p)
      BY <3>2 DEF Start, Lead, Stop, Leave
    <3>3. QED
      BY <1>1, <3>1, <3>2 DEF ProcessActs
  <2>3. QED
    BY <2>1, <2>2, IdleType, SameAlive, NoMoreAlive
<1>2. ASSUME UNCHANGED <<instances, jobs>> PROVE WorkInv'
  BY <1>2, SameAlive, NoMoreAlive
<1>3. ASSUME NEW r \in Resources, NEW state \in {"running", "lost"},
             \E k \in Alive(r) : Becomes(r, k, state), UNCHANGED jobs
      PROVE  WorkInv'
  <2>1. PICK k \in Alive(r) : instances' = [instances EXCEPT ![r][k] = state]
    BY <1>3 DEF Becomes
  <2>2. instances \in [Resources -> Seq({"creating", "running", "lost"})] /\ k \in DOMAIN instances[r]
    BY DEF TypeOK, Alive
  <2>3. instances'[r] = [instances[r] EXCEPT ![k] = state]
    BY <2>1, <2>2
  <2>4. {i \in DOMAIN instances'[r] : instances'[r][i] # "lost"} \subseteq Alive(r)
    BY <2>1, <2>2, <2>3 DEF Alive
  <2>5. \A s \in Resources : s # r => instances'[s] = instances[s]
    BY <2>1, <2>2
  <2>6. \A s \in Resources : {i \in DOMAIN instances'[s] : instances'[s][i] # "lost"} \subseteq Alive(s)
    BY <2>4, <2>5 DEF Alive
  <2>7. \A s \in Resources : Alive(s)' \subseteq Alive(s)
    BY <2>6 DEF Alive
  <2>8. QED
    BY <1>3, <2>7, NoMoreAlive
<1>4. ASSUME NEW r \in Resources, Edit(r) \/ Settle(r) \/ Lose(r) PROVE WorkInv'
  BY <1>2, <1>3, <1>4 DEF Edit, Settle, Lose, auraVars, processVars
<1>5. ASSUME NEW p \in Processes, NEW r \in Resources, Sync(p, r) PROVE WorkInv'
  <2>1. UNCHANGED instances
    BY <1>5 DEF Sync, auraVars
  <2>2. QED
    BY <1>5, <2>1, Overtaken, SameAlive, NoMoreAlive
<1>6. ASSUME NEW s \in Selectors, Expire(s) PROVE WorkInv'
  BY <1>2, <1>6 DEF Expire, auraVars
<1>7. QED
  BY <1>1, <1>4, <1>5, <1>6

(***************************************************************************)
(* A resource never has two instances: while a worker is between its LIST  *)
(* and its POST nobody else makes one (reconcile, lines 301-337).          *)
(***************************************************************************)
THEOREM MakesOne == Spec => []OnePerResource
<1>1. Init => WorkInv
  BY IdleType DEF Init, WorkInv, OnePerResource, Alive
<1>2. TypeOK /\ TypeOK' /\ SingleFlight /\ WorkInv /\ [Next]_vars => WorkInv'
  <2> SUFFICES ASSUME TypeOK, TypeOK', SingleFlight, WorkInv, [Next]_vars PROVE WorkInv'
    OBVIOUS
  <2>1. CASE Next
    BY <2>1, AllSteps, WorkerMakesOne, OthersMakeNone
  <2>2. CASE UNCHANGED vars
    BY <2>2, SameAlive, NoMoreAlive DEF vars, auraVars, processVars
  <2>3. QED
    BY <2>1, <2>2
<1>3. WorkInv => OnePerResource
  BY DEF WorkInv
<1>4. QED
  BY <1>1, <1>2, <1>3, ManagerTyping, OneAtATime, PTL DEF Spec

--------------------------------------------------------------------------------

(***************************************************************************)
(* The order of the news.                                                  *)
(***************************************************************************)
LEMMA OneMoreComes ==
  ASSUME NEW known \in Version, NEW coming \in Seq(Version), NEW version \in Version,
         NEW newest \in Nat, InOrder(known, coming, newest), newest <= version.generation
  PROVE  InOrder(known, Append(coming, version), version.generation)
<1> DEFINE more == Append(coming, version)
           n == Len(coming)
<1>1. n \in Nat /\ Len(more) = n + 1 /\ more[n + 1] = version
      /\ \A i \in 1..n : more[i] = coming[i]
  OBVIOUS
<1>2. \A i \in 1..n : coming[i].generation \in Nat
  <2>1. \A i \in 1..n : coming[i] \in Version
    OBVIOUS
  <2>2. QED
    BY <2>1 DEF Version
<1>3. known.generation \in Nat /\ version.generation \in Nat
  BY DEF Version
<1>4. ASSUME NEW i \in 1..(n + 1)
      PROVE  /\ known.generation <= more[i].generation
             /\ more[i].generation <= version.generation
             /\ \A j \in i..(n + 1) : more[i].generation <= more[j].generation
  <2>1. CASE i = n + 1
    BY <1>1, <1>3, <2>1 DEF InOrder
  <2>2. CASE i \in 1..n
    <3>1. /\ known.generation <= coming[i].generation
          /\ coming[i].generation <= newest
          /\ \A j \in i..n : coming[i].generation <= coming[j].generation
      BY <2>2 DEF InOrder
    <3>2. coming[i].generation <= version.generation
      BY <1>2, <1>3, <2>2, <3>1
    <3>3. ASSUME NEW j \in i..(n + 1) PROVE more[i].generation <= more[j].generation
      <4>1. CASE j = n + 1
        BY <1>1, <2>2, <3>2, <4>1
      <4>2. CASE j \in i..n
        <5>1. j \in 1..n
          BY <1>1, <2>2, <4>2
        <5>2. QED
          BY <1>1, <2>2, <3>1, <4>2, <5>1
      <4>3. QED
        BY <1>1, <4>1, <4>2
    <3>4. QED
      BY <1>1, <2>2, <3>1, <3>2, <3>3
  <2>3. QED
    BY <1>1, <2>1, <2>2
<1>5. known.generation <= version.generation
  BY <1>3 DEF InOrder
<1> HIDE DEF more, n
<1>6. QED
  BY <1>1, <1>4, <1>5 DEF InOrder, more, n

LEMMA OneLessComes ==
  ASSUME NEW known \in Version, NEW coming \in Seq(Version), Len(coming) # 0,
         NEW newest \in Nat, InOrder(known, coming, newest)
  PROVE  /\ InOrder(coming[1], Tail(coming), newest)
         /\ known.generation <= coming[1].generation
         /\ coming[1] \in Version
<1> DEFINE n == Len(coming)
<1>1. n \in Nat /\ 1 \in 1..n /\ Len(Tail(coming)) = n - 1
      /\ \A i \in 1..(n - 1) : Tail(coming)[i] = coming[i + 1]
  OBVIOUS
<1>2. /\ \A i \in 1..n : known.generation <= coming[i].generation /\ coming[i].generation <= newest
      /\ \A i \in 1..n : \A j \in i..n : coming[i].generation <= coming[j].generation
  BY DEF InOrder
<1>3. coming[1].generation <= newest /\ known.generation <= coming[1].generation
  BY <1>1, <1>2
<1>4. ASSUME NEW i \in 1..(n - 1)
      PROVE  /\ coming[1].generation <= coming[i + 1].generation
             /\ coming[i + 1].generation <= newest
             /\ \A j \in i..(n - 1) : coming[i + 1].generation <= coming[j + 1].generation
  <2>1. i + 1 \in 1..n /\ \A j \in i..(n - 1) : j + 1 \in (i + 1)..n
    BY <1>1
  <2>2. QED
    BY <1>1, <1>2, <2>1
<1>5. \A i \in 1..(n - 1) : \A j \in i..(n - 1) : j \in 1..(n - 1)
  BY <1>1
<1>6. coming[1] \in Version
  BY <1>1
<1> HIDE DEF n
<1>7. QED
  BY <1>1, <1>3, <1>4, <1>5, <1>6 DEF InOrder

LEMMA LaterNewest ==
  ASSUME NEW known \in Version, NEW coming \in Seq(Version), NEW newest \in Nat,
         NEW later \in Nat, newest <= later, InOrder(known, coming, newest)
  PROVE  InOrder(known, coming, later)
<1>1. \A i \in 1..Len(coming) : coming[i].generation \in Nat
  <2>1. \A i \in 1..Len(coming) : coming[i] \in Version
    OBVIOUS
  <2>2. QED
    BY <2>1 DEF Version
<1>2. known.generation \in Nat
  BY DEF Version
<1>3. QED
  BY <1>1, <1>2 DEF InOrder

\* A step that does not change what is known leaves what is known in order.
LEMMA ComesInOrder ==
  ASSUME TypeOK, TypeOK', NewsInv, UNCHANGED <<cache, status>>,
         \A s \in Resources : Len(specs[s]) <= Len(specs'[s]),
         \/ watch' = watch
         \/ \E r \in Resources, version \in Version :
                version.generation = Len(specs'[r]) /\ Arrives(r, version)
  PROVE  \A p \in Processes, r \in Resources :
             /\ InOrder(cache'[p][r], watch'[p][r], Len(specs'[r]))
             /\ status'[p] = "down" => Len(watch'[p][r]) = 0
<1> SUFFICES ASSUME NEW p \in Processes, NEW r \in Resources
             PROVE  /\ InOrder(cache[p][r], watch'[p][r], Len(specs'[r]))
                    /\ status[p] = "down" => Len(watch'[p][r]) = 0
  OBVIOUS
<1>1. /\ cache[p][r] \in Version /\ watch[p][r] \in Seq(Version)
      /\ Len(specs[r]) \in Nat
      /\ InOrder(cache[p][r], watch[p][r], Len(specs[r]))
      /\ status[p] = "down" => Len(watch[p][r]) = 0
  BY NewsType, StoredType DEF NewsInv
<1>2. Len(specs'[r]) \in Nat
  BY DEF TypeOK
<1>3. CASE watch'[p][r] = watch[p][r]
  BY <1>1, <1>2, <1>3, LaterNewest
<1>4. ASSUME NEW version \in Version, version.generation = Len(specs'[r]), Watches(p, r),
             watch'[p][r] = Append(watch[p][r], version)
      PROVE  InOrder(cache[p][r], watch'[p][r], Len(specs'[r])) /\ status[p] # "down"
  <2>1. InOrder(cache[p][r], Append(watch[p][r], version), version.generation)
    BY <1>1, <1>4, OneMoreComes
  <2>2. QED
    BY <1>4, <2>1 DEF Watches
<1>5. QED
  BY <1>3, <1>4 DEF Arrives

(***************************************************************************)
(* What a worker has read its process knew, and what the process has given *)
(* Aura a worker had read.                                                 *)
(***************************************************************************)
OrderInv == NewsInv /\ ReadInv

\* Others do not touch what a worker works on.
Undisturbed(p, w) ==
    \A q \in Processes, v \in Workers :
        Busy(q, v) /\ ~(q = p /\ v = w) => applied'[jobs[q][v].key] = applied[jobs[q][v].key]

LEMMA WorkerOrder ==
  ASSUME TypeOK, TypeOK', OrderInv, NEW p \in Processes, NEW w \in Workers,
         UNCHANGED <<deployment, specs, cache, status>>,
         \/ watch' = watch
         \/ \E r \in Resources, version \in Version :
                version.generation = Len(specs[r]) /\ Arrives(r, version),
         \A r \in Resources :
             \/ applied'[r] = applied[r]
             \/ applied'[r].by = p /\ applied'[r].generation <= cache[p][r].generation,
         Undisturbed(p, w),
         NEW job \in Job, Reassigned(p, w, job),
         job.key # None =>
             /\ job.seen.generation <= cache[p][job.key].generation
             /\ applied'[job.key].by = p =>
                    applied'[job.key].generation <= job.seen.generation
  PROVE  OrderInv'
<1>1. \A s \in Resources : Len(specs'[s]) \in Nat /\ Len(specs[s]) <= Len(specs'[s])
  BY StoredType
<1>2. \A q \in Processes, r \in Resources :
             /\ InOrder(cache'[q][r], watch'[q][r], Len(specs'[r]))
             /\ status'[q] = "down" => Len(watch'[q][r]) = 0
  BY <1>1, ComesInOrder DEF OrderInv
<1>3. ASSUME NEW r \in Resources
      PROVE  applied'[r].generation <= Len(specs'[r])
  <2>1. applied[r].generation <= Len(specs[r]) /\ cache[p][r].generation <= Len(specs[r])
    BY DEF OrderInv, NewsInv, InOrder
  <2>2. /\ Len(specs[r]) \in Nat /\ cache[p][r].generation \in Nat
        /\ applied[r].generation \in Nat /\ applied'[r].generation \in Nat
    <3>1. applied'[r].generation \in Nat
      BY DEF TypeOK
    <3>2. QED
      BY <3>1, StoredType, NewsType
  <2>3. QED
    BY <2>1, <2>2
<1>4. ASSUME NEW q \in Processes, NEW r \in Resources, status[q] # "down",
             applied'[r].by = q, r \in Watched(deployment, q)
      PROVE  applied'[r].generation <= cache[q][r].generation
  BY <1>4 DEF OrderInv, NewsInv
<1>5. NewsInv'
  BY <1>2, <1>3, <1>4 DEF NewsInv, Watched
<1>6. ASSUME NEW q \in Processes, NEW v \in Workers, jobs'[q][v].key # None
      PROVE  /\ jobs'[q][v].seen.generation <= cache[q][jobs'[q][v].key].generation
             /\ applied'[jobs'[q][v].key].by = q =>
                    applied'[jobs'[q][v].key].generation <= jobs'[q][v].seen.generation
  <2>1. CASE q = p /\ v = w
    BY <1>6, <2>1 DEF Reassigned
  <2>2. CASE ~(q = p /\ v = w)
    <3>1. jobs'[q][v] = jobs[q][v] /\ Busy(q, v)
      BY <1>6, <2>2 DEF Reassigned, Busy
    <3>2. applied'[jobs[q][v].key] = applied[jobs[q][v].key]
      BY <2>2, <3>1 DEF Undisturbed
    <3>3. QED
      BY <3>1, <3>2 DEF OrderInv, ReadInv
  <2>3. QED
    BY <2>1, <2>2
<1>7. ReadInv'
  BY <1>6 DEF ReadInv, Busy
<1>8. QED
  BY <1>5, <1>7 DEF OrderInv

\* Somebody's request changes what Aura has of his own resource only.
LEMMA GivesOne ==
  ASSUME TypeOK, SingleFlight, NEW p \in Processes, NEW w \in Workers,
         jobs[p][w].step # "idle", Gives(p, w) \/ UNCHANGED applied
  PROVE  Undisturbed(p, w)
<1> SUFFICES ASSUME NEW q \in Processes, NEW v \in Workers, Busy(q, v), ~(q = p /\ v = w)
             PROVE  applied'[jobs[q][v].key] = applied[jobs[q][v].key]
  BY DEF Undisturbed
<1>1. jobs[q][v].key \in Resources
  BY JobType DEF Busy
<1>2. jobs[q][v].key # jobs[p][w].key
  BY DEF SingleFlight, Busy
<1>3. QED
  BY <1>1, <1>2, GivesType

LEMMA GivesOrNot ==
  ASSUME NEW p \in Processes, NEW w \in Workers, Listed(p, w) \/ Posted(p, w) \/ Got(p, w)
  PROVE  /\ Gives(p, w) \/ UNCHANGED applied
         /\ jobs[p][w].step # "idle"
         /\ UNCHANGED <<deployment, specs, cache, watch, status, dirty>>
  BY DEF Listed, Posted, Got, At, clusterVars, auraVars, informerVars

LEMMA AskedOrder ==
  ASSUME TypeOK, TypeOK', OrderInv, SingleFlight, NEW p \in Processes, NEW w \in Workers,
         Listed(p, w) \/ Posted(p, w) \/ Got(p, w)
  PROVE  OrderInv'
<1> DEFINE k == jobs[p][w].key
<1>1. k \in Resources /\ k # None
  BY GivesOrNot, WorkersKey
<1>2. Undisturbed(p, w)
  BY GivesOrNot, GivesOne
<1>3. /\ jobs[p][w].seen.generation <= cache[p][k].generation
      /\ applied[k].by = p => applied[k].generation <= jobs[p][w].seen.generation
      /\ jobs[p][w].seen.generation \in Nat
  BY <1>1, JobType DEF OrderInv, ReadInv, Busy
<1>4. \/ UNCHANGED applied
      \/ /\ applied'[k].by = p /\ applied'[k].generation = jobs[p][w].seen.generation
         /\ \A r \in Resources : r # k => applied'[r] = applied[r]
  BY GivesOrNot, GivesType
<1>5. \A r \in Resources :
         \/ applied'[r] = applied[r]
         \/ applied'[r].by = p /\ applied'[r].generation <= cache[p][r].generation
  BY <1>3, <1>4
<1>6. PICK job \in Job : Continues(jobs[p][w], job) /\ Reassigned(p, w, job)
  BY Asked
<1>7. /\ job.seen.generation <= cache[p][job.key].generation
      /\ applied'[job.key].by = p => applied'[job.key].generation <= job.seen.generation
  BY <1>3, <1>4, <1>6 DEF Continues
<1>8. QED
  BY <1>2, <1>5, <1>6, <1>7, GivesOrNot, WorkerOrder

LEMMA TakeOrder ==
  ASSUME TypeOK, TypeOK', OrderInv, LeadershipInv, NEW p \in Processes, NEW w \in Workers,
         NEW r \in Resources, Take(p, w, r)
  PROVE  OrderInv'
<1>1. UNCHANGED <<deployment, specs, cache, watch, status, applied>> /\ status[p] = "leading"
  BY DEF Take, clusterVars, auraVars, informerVars
<1>2. Undisturbed(p, w)
  BY <1>1 DEF Undisturbed
<1>3. r \in Watched(deployment, p)
  BY TakeReassigns DEF Ready, LeadershipInv, JobsInPlace
<1>4. applied[r].by = p => applied[r].generation <= cache[p][r].generation
  BY <1>1, <1>3 DEF OrderInv, NewsInv
<1>5. CASE Reassigned(p, w, Reads(p, r)) /\ Reads(p, r) \in Job
  <2>1. Reads(p, r).key = r /\ Reads(p, r).seen = cache[p][r] /\ cache[p][r].generation \in Nat
    BY NewsType DEF Reads
  <2>2. QED
    BY <1>1, <1>2, <1>4, <1>5, <2>1, WorkerOrder
<1>6. CASE Reassigned(p, w, jobs[p][w])
  <2>1. jobs[p][w].key = None /\ jobs[p][w] \in Job
    BY JobType DEF Take
  <2>2. QED
    BY <1>1, <1>2, <1>6, <2>1, WorkerOrder
<1>7. QED
  BY <1>5, <1>6, TakeReassigns

LEMMA DoneOrder ==
  ASSUME TypeOK, TypeOK', OrderInv, NEW p \in Processes, NEW w \in Workers,
         Patch(p, w) \/ Failed(p, w) \/ Cancelled(p, w)
  PROVE  OrderInv'
<1>1. UNCHANGED <<deployment, specs, cache, status, applied>>
  BY DEF Patch, Failed, Cancelled, clusterVars, auraVars, informerVars
<1>2. Reassigned(p, w, Idle)
  BY IdleType, AssignReassigns, DoneReassigns DEF Patch, Failed, Cancelled
<1>3. jobs[p][w].key # None
  BY JobType DEF Patch, Failed, Cancelled, At
<1>4. watch' = watch \/ PatchStatus(jobs[p][w])
  BY DEF Patch, Failed, Cancelled, informerVars
<1>5. \/ watch' = watch
      \/ \E r \in Resources, version \in Version :
                version.generation = Len(specs[r]) /\ Arrives(r, version)
  BY <1>3, <1>4, StatusWritten
<1>6. Undisturbed(p, w)
  BY <1>1 DEF Undisturbed
<1>7. QED
  BY <1>1, <1>2, <1>5, <1>6, IdleType, WorkerOrder

LEMMA HangOrder ==
  ASSUME TypeOK, TypeOK', OrderInv, NEW p \in Processes, NEW w \in Workers, Hang(p, w)
  PROVE  OrderInv'
<1> DEFINE job == [jobs[p][w] EXCEPT !.hung = TRUE]
<1>1. job \in Job /\ job.key = jobs[p][w].key /\ job.seen = jobs[p][w].seen
  BY JobType, HungJobType DEF Continues
<1>2. Reassigned(p, w, job)
  BY <1>1, AssignReassigns DEF Hang
<1> HIDE DEF job
<1>3. UNCHANGED <<deployment, specs, cache, watch, status, applied>> /\ Busy(p, w)
  BY DEF Hang, Busy, clusterVars, auraVars, informerVars
<1>4. Undisturbed(p, w)
  BY <1>3 DEF Undisturbed
<1>5. QED
  BY <1>1, <1>2, <1>3, <1>4, WorkerOrder DEF OrderInv, ReadInv

\* A process that starts knows all there is; one that ends, nothing.
LEMMA ProcessOrder ==
  ASSUME TypeOK, TypeOK', OrderInv, LeadershipInv, NEW p \in Processes, ProcessActs(p)
  PROVE  OrderInv'
<1>1. UNCHANGED <<deployment, specs, applied>>
  BY DEF ProcessActs, Start, Lead, Stop, Leave, Die, clusterVars, auraVars
<1>2. status \in [Processes -> {"down", "waiting", "leading", "stopping"}]
  BY DEF TypeOK
<1>3. \A q \in Processes : q # p =>
          /\ cache'[q] = cache[q] /\ watch'[q] = watch[q]
          /\ status'[q] = status[q] /\ jobs'[q] = jobs[q]
  <2>1. CASE Start(p)
    BY <1>2, <2>1 DEF Start, TypeOK
  <2>2. CASE Lead(p) \/ Stop(p)
    BY <1>2, <2>2 DEF Lead, Stop, informerVars
  <2>3. CASE Leave(p)
    BY <1>2, <2>3, ForgetType DEF Leave
  <2>4. CASE Die(p)
    <3>1. \A q \in Processes : q # p => status'[q] = status[q] /\ jobs'[q] = jobs[q]
      BY <1>2, <2>4 DEF Die, TypeOK
    <3>2. Forget(p)
      BY <2>4 DEF Die
    <3>3. QED
      BY <3>1, <3>2, ForgetType
  <2>5. QED
    BY <2>1, <2>2, <2>3, <2>4 DEF ProcessActs
<1>4. ASSUME NEW r \in Resources
      PROVE  /\ InOrder(cache'[p][r], watch'[p][r], Len(specs[r]))
             /\ status'[p] = "down" => Len(watch'[p][r]) = 0
             /\ status'[p] # "down" /\ applied[r].by = p /\ r \in Watched(deployment, p) =>
                    applied[r].generation <= cache'[p][r].generation
  <2>1. Len(specs[r]) \in Nat /\ applied[r].generation <= Len(specs[r])
    BY StoredType DEF OrderInv, NewsInv
  <2>2. CASE Start(p)
    <3>1. watch' = watch /\ Len(watch[p][r]) = 0
      BY <2>2 DEF Start, OrderInv, NewsInv
    <3>2. cache'[p][r] = IF r \in Watched(deployment, p) THEN Stored(r) ELSE Unread
      BY <2>2 DEF Start, TypeOK
    <3>3. Stored(r).generation = Len(specs[r]) /\ Unread.generation = 0
      BY StoredType, IdleType
    <3>4. status'[p] = "waiting"
      BY <1>2, <2>2 DEF Start
    <3>5. QED
      BY <2>1, <3>1, <3>2, <3>3, <3>4 DEF InOrder
  <2>3. CASE Lead(p) \/ Stop(p)
    <3>1. cache' = cache /\ watch' = watch /\ status[p] # "down" /\ status'[p] # "down"
      BY <1>2, <2>3 DEF Lead, Stop, informerVars
    <3>2. QED
      BY <3>1 DEF OrderInv, NewsInv
  <2>4. CASE Leave(p) \/ Die(p)
    <3>1. status'[p] = "down" /\ cache'[p][r] = Unread /\ Len(watch'[p][r]) = 0
      BY <1>2, <2>4, ForgetType DEF Leave, Die
    <3>2. QED
      BY <2>1, <3>1, IdleType DEF InOrder
  <2>5. QED
    BY <2>2, <2>3, <2>4 DEF ProcessActs
<1>5. ASSUME NEW q \in Processes, NEW r \in Resources
      PROVE  /\ InOrder(cache'[q][r], watch'[q][r], Len(specs[r]))
             /\ status'[q] = "down" => Len(watch'[q][r]) = 0
             /\ status'[q] # "down" /\ applied[r].by = q /\ r \in Watched(deployment, q) =>
                    applied[r].generation <= cache'[q][r].generation
  BY <1>3, <1>4 DEF OrderInv, NewsInv
<1>6. NewsInv'
  BY <1>1, <1>5 DEF OrderInv, NewsInv, Watched
<1>7. ASSUME NEW w \in Workers, jobs'[p][w].key # None
      PROVE  jobs'[p][w] = jobs[p][w] /\ cache'[p] = cache[p]
  <2>1. CASE Start(p)
    BY <1>7, <2>1 DEF Start, LeadershipInv, JobsInPlace, Busy
  <2>2. CASE Lead(p) \/ Stop(p)
    BY <2>2 DEF Lead, Stop, informerVars
  <2>3. CASE Leave(p)
    BY <1>7, <2>3 DEF Leave, Drained
  <2>4. CASE Die(p)
    BY <1>7, <2>4, IdleType DEF Die, TypeOK
  <2>5. QED
    BY <2>1, <2>2, <2>3, <2>4 DEF ProcessActs
<1>8. ReadInv'
  BY <1>1, <1>3, <1>7 DEF OrderInv, ReadInv, Busy
<1>9. QED
  BY <1>6, <1>8 DEF OrderInv

LEMMA SyncOrder ==
  ASSUME TypeOK, TypeOK', OrderInv, NEW p \in Processes, NEW r \in Resources, Sync(p, r)
  PROVE  OrderInv'
<1>1. UNCHANGED <<deployment, specs, applied, status>>
  BY DEF Sync, clusterVars, auraVars
<1>2. /\ Watches(p, r) /\ Len(watch[p][r]) # 0
      /\ cache'[p][r] = watch[p][r][1] /\ watch'[p][r] = Tail(watch[p][r])
      /\ \A q \in Processes, s \in Resources :
             ~(q = p /\ s = r) => cache'[q][s] = cache[q][s] /\ watch'[q][s] = watch[q][s]
  BY Synced
<1>3. /\ InOrder(watch[p][r][1], Tail(watch[p][r]), Len(specs[r]))
      /\ cache[p][r].generation <= watch[p][r][1].generation
  <2>1. InOrder(cache[p][r], watch[p][r], Len(specs[r]))
    BY DEF OrderInv, NewsInv
  <2>2. QED
    BY <1>2, <2>1, NewsType, StoredType, OneLessComes
<1>4. \A q \in Processes, s \in Resources :
          /\ cache[q][s].generation \in Nat /\ cache'[q][s].generation \in Nat
          /\ cache[q][s].generation <= cache'[q][s].generation
  <2>1. \A q \in Processes, s \in Resources : cache'[q][s].generation \in Nat
    BY Synced DEF Caches, Version
  <2>2. QED
    BY <1>2, <1>3, <2>1, NewsType
<1>5. status[p] # "down"
  BY <1>2 DEF Watches
<1>6. \A s \in Resources : applied[s].generation \in Nat
  BY NewsType
<1>7. NewsInv'
  <2>1. ASSUME NEW q \in Processes, NEW s \in Resources
        PROVE  /\ InOrder(cache'[q][s], watch'[q][s], Len(specs[s]))
               /\ status[q] = "down" => Len(watch'[q][s]) = 0
               /\ status[q] # "down" /\ applied[s].by = q /\ s \in Watched(deployment, q) =>
                      applied[s].generation <= cache'[q][s].generation
    BY <1>2, <1>3, <1>4, <1>5, <1>6 DEF OrderInv, NewsInv
  <2>2. QED
    BY <1>1, <2>1 DEF OrderInv, NewsInv, Watched
<1>8. ASSUME NEW q \in Processes, NEW v \in Workers, jobs'[q][v].key # None
      PROVE  /\ jobs'[q][v].seen.generation <= cache'[q][jobs'[q][v].key].generation
             /\ applied[jobs'[q][v].key].by = q =>
                    applied[jobs'[q][v].key].generation <= jobs'[q][v].seen.generation
  <2>1. jobs'[q][v].key = jobs[q][v].key /\ jobs'[q][v].seen = jobs[q][v].seen /\ Busy(q, v)
    BY <1>8, Overtaken DEF Busy
  <2>2. jobs[q][v].key \in Resources /\ jobs[q][v].seen.generation \in Nat
    BY <2>1, JobType DEF Busy
  <2>3. QED
    BY <1>4, <2>1, <2>2 DEF OrderInv, ReadInv
<1>9. ReadInv'
  BY <1>1, <1>8 DEF ReadInv, Busy
<1>10. QED
  BY <1>7, <1>9 DEF OrderInv

LEMMA AroundOrder ==
  ASSUME TypeOK, TypeOK', OrderInv,
         UNCHANGED <<deployment, applied, cache, status, jobs>>,
         \A s \in Resources : Len(specs[s]) <= Len(specs'[s]),
         \/ watch' = watch
         \/ \E r \in Resources, version \in Version :
                version.generation = Len(specs'[r]) /\ Arrives(r, version)
  PROVE  OrderInv'
<1>1. \A p \in Processes, r \in Resources :
             /\ InOrder(cache'[p][r], watch'[p][r], Len(specs'[r]))
             /\ status'[p] = "down" => Len(watch'[p][r]) = 0
  BY ComesInOrder DEF OrderInv
<1>2. ASSUME NEW s \in Resources
      PROVE  applied[s].generation <= Len(specs'[s])
  <2>1. Len(specs'[s]) \in Nat
    BY DEF TypeOK
  <2>2. applied[s].generation <= Len(specs[s])
    BY DEF OrderInv, NewsInv
  <2>3. Len(specs[s]) \in Nat /\ applied[s].generation \in Nat
    <3>1. Len(specs[s]) \in Nat
      BY StoredType
    <3>2. QED
      BY <3>1 DEF TypeOK
  <2>4. QED
    BY <2>1, <2>2, <2>3
<1>3. NewsInv'
  BY <1>1, <1>2 DEF OrderInv, NewsInv, Watched
<1>4. ReadInv'
  BY DEF OrderInv, ReadInv, Busy
<1>5. QED
  BY <1>3, <1>4 DEF OrderInv

LEMMA EditOrder ==
  ASSUME TypeOK, TypeOK', OrderInv, NEW r \in Resources, Edit(r) \/ Settle(r) \/ Lose(r)
  PROVE  OrderInv'
<1>1. UNCHANGED <<deployment, applied, cache, status, jobs>>
  BY UsersAndAura
<1>2. CASE Edit(r)
  <2>1. \A s \in Resources : Len(specs[s]) <= Len(specs'[s])
    <3>1. \A s \in Resources : Len(specs[s]) \in Nat
      BY StoredType
    <3>2. QED
      BY <1>2, <3>1, Edited
  <2>2. QED
    BY <1>1, <1>2, <2>1, Edited, AroundOrder
<1>3. CASE Settle(r) \/ Lose(r)
  <2>1. UNCHANGED <<specs, watch>>
    BY <1>3 DEF Settle, Lose, clusterVars, informerVars
  <2>2. \A s \in Resources : Len(specs[s]) <= Len(specs'[s])
    BY <2>1, StoredType
  <2>3. QED
    BY <1>1, <2>1, <2>2, AroundOrder
<1>4. QED
  BY <1>2, <1>3

LEMMA Order == Spec => [](TypeOK /\ LeadershipInv /\ SingleFlight /\ OrderInv)
<1>1. Init => OrderInv
  <2> SUFFICES ASSUME Init PROVE OrderInv
    OBVIOUS
  <2>1. PICK asked \in [Resources -> Specs] : specs = [r \in Resources |-> <<asked[r]>>]
    BY DEF Init
  <2>2. \A r \in Resources : Len(specs[r]) = 1 /\ applied[r].generation = 0 /\ applied[r].by = None
    BY <2>1 DEF Init
  <2>3. \A p \in Processes, r \in Resources : cache[p][r].generation = 0 /\ Len(watch[p][r]) = 0
    BY IdleType DEF Init
  <2>4. \A p \in Processes : p # None /\ \A w \in Workers : jobs[p][w].key = None
    BY IdleType, ManagerAssumption DEF Init
  <2>5. QED
    BY <2>2, <2>3, <2>4 DEF OrderInv, NewsInv, ReadInv, InOrder, Busy
<1>2. TypeOK /\ TypeOK' /\ LeadershipInv /\ SingleFlight /\ OrderInv /\ [Next]_vars => OrderInv'
  <2> SUFFICES ASSUME TypeOK, TypeOK', LeadershipInv, SingleFlight, OrderInv, [Next]_vars
               PROVE  OrderInv'
    OBVIOUS
  <2>1. ASSUME NEW p \in Processes, NEW w \in Workers, WorkerActs(p, w) PROVE OrderInv'
    BY <2>1, TakeOrder, AskedOrder, DoneOrder, HangOrder DEF WorkerActs
  <2>2. ASSUME UNCHANGED <<deployment, specs, applied, cache, watch, status, jobs>>
        PROVE  OrderInv'
    BY <2>2, StoredType, AroundOrder
  <2>3. ASSUME NEW s \in Selectors, Expire(s) PROVE OrderInv'
    BY <2>2, <2>3 DEF Expire, clusterVars, auraVars, informerVars
  <2>4. CASE UNCHANGED vars
    BY <2>2, <2>4 DEF vars, clusterVars, auraVars, informerVars, processVars
  <2>5. CASE Next
    BY <2>1, <2>3, <2>5, AllSteps, ProcessOrder, SyncOrder, EditOrder
  <2>6. QED
    BY <2>4, <2>5
<1>3. QED
  BY <1>1, <1>2, ManagerTyping, Leadership, OneAtATime, PTL DEF Spec

(***************************************************************************)
(* No process takes Aura back to an older configuration than it has itself *)
(* given, whichever worker is at it and however late the cache, which      *)
(* learns of the generations in order (Reconcile, line 131; reconcile,     *)
(* lines 274-296).                                                         *)
(***************************************************************************)
THEOREM NeverBack == Spec => AppliedInOrder
<1> DEFINE Forward(r) == applied'[r].by = applied[r].by =>
                            applied'[r].generation >= applied[r].generation
<1>1. TypeOK /\ TypeOK' /\ OrderInv /\ [Next]_vars => [\A r \in Resources : Forward(r)]_vars
  <2> SUFFICES ASSUME TypeOK, TypeOK', OrderInv, Next
               PROVE  \A r \in Resources : Forward(r)
    OBVIOUS
  <2>1. CASE UNCHANGED applied
    BY <2>1 DEF TypeOK
  <2>2. ASSUME NEW p \in Processes, NEW w \in Workers, Gives(p, w), jobs[p][w].step # "idle"
        PROVE  \A r \in Resources : Forward(r)
    <3> DEFINE k == jobs[p][w].key
    <3>1. /\ applied'[k].by = p /\ applied'[k].generation = jobs[p][w].seen.generation
          /\ \A r \in Resources : r # k => applied'[r] = applied[r]
      BY <2>2, GivesType
    <3>2. applied[k].by = p => applied[k].generation <= jobs[p][w].seen.generation
      BY <2>2, WorkersKey DEF OrderInv, ReadInv, Busy
    <3>3. jobs[p][w].seen.generation \in Nat /\ \A r \in Resources : applied[r].generation \in Nat
      BY JobType, NewsType
    <3>4. k \in Resources
      BY <2>2, WorkersKey
    <3>5. ASSUME NEW r \in Resources, applied'[r].by = applied[r].by
          PROVE  applied'[r].generation >= applied[r].generation
      <4>1. CASE r = k
        BY <3>1, <3>2, <3>3, <3>5, <4>1
      <4>2. CASE r # k
        BY <3>1, <3>3, <4>2
      <4>3. QED
        BY <4>1, <4>2
    <3>6. QED
      BY <3>5
  <2>3. ASSUME NEW p \in Processes, NEW w \in Workers, WorkerActs(p, w)
        PROVE  UNCHANGED applied \/ (Gives(p, w) /\ jobs[p][w].step # "idle")
    <3>1. CASE Listed(p, w) \/ Posted(p, w) \/ Got(p, w)
      BY <3>1, GivesOrNot
    <3>2. CASE (\E r \in Resources : Take(p, w, r)) \/ Patch(p, w) \/ Failed(p, w) \/ Cancelled(p, w) \/ Hang(p, w)
      BY <3>2 DEF Take, Patch, Failed, Cancelled, Hang, auraVars
    <3>3. QED
      BY <2>3, <3>1, <3>2 DEF WorkerActs
  <2>4. ~(\E p \in Processes, w \in Workers : WorkerActs(p, w)) => UNCHANGED applied
    BY AllSteps, UsersAndAura
       DEF ProcessActs, Start, Lead, Stop, Leave, Die, Expire, Sync, auraVars
  <2>5. QED
    BY <2>1, <2>2, <2>3, <2>4
<1>2. QED
  BY <1>1, ManagerTyping, Order, PTL DEF Spec, AppliedInOrder

--------------------------------------------------------------------------------

(***************************************************************************)
(* What a leader remembers: the resources whose newest generation it knows *)
(* and that ask for something.                                             *)
(***************************************************************************)
Remembered(p, r) == r \in dirty[p] \/ \E w \in Workers : jobs[p][w].key = r

Pending(p, r) == cache[p][r].generation = Len(specs[r]) /\ Wanted(r)

LEMMA Remembers ==
  EditsRemembered <=>
      \A p \in Processes : \A r \in Watched(deployment, p) :
          status[p] = "leading" /\ Pending(p, r) /\ applied[r].generation # Len(specs[r]) =>
              Remembered(p, r)
  BY DEF EditsRemembered, Pending, Remembered

\* Who works on a resource is the only one to lead where it is watched.
LEMMA LeadsAlone ==
  ASSUME TypeOK, LeadershipInv, NEW p \in Processes, NEW w \in Workers, Busy(p, w),
         NEW q \in Processes, status[q] = "leading",
         jobs[p][w].key \in Watched(deployment, q)
  PROVE  q = p
<1> SUFFICES ASSUME p # q PROVE FALSE
  OBVIOUS
<1>1. Watched(deployment, p) \cap Watched(deployment, q) # {}
  BY DEF LeadershipInv, JobsInPlace
<1>2. deployment.election /\ LeaseOf(p) = LeaseOf(q)
  BY <1>1, DeploymentsAssumption DEF TypeOK, LeaseOf
<1>3. lease[LeaseOf(p)] = p /\ lease[LeaseOf(q)] = q
  BY <1>2 DEF LeadershipInv, LeaseHeld, Leads
<1>4. QED
  BY <1>2, <1>3

LEMMA WorkerRemembers ==
  ASSUME TypeOK, RememberInv, NEW p \in Processes, NEW w \in Workers, NEW job \in Job,
         Reassigned(p, w, job),
         UNCHANGED <<deployment, status, specs, cache>>,
         \A q \in Processes : q # p => dirty'[q] = dirty[q],
         \A r \in dirty[p] : \/ r \in dirty'[p]
                             \/ r = job.key /\ \A v \in Workers : jobs[p][v].key # r
                             \/ ~Pending(p, r),
         Undisturbed(p, w),
         \A q \in Processes : \A r \in Watched(deployment, q) :
             status[q] = "leading" /\ applied'[r] # applied[r] => q = p /\ r = job.key,
         status[p] = "leading" /\ job.key # None => Faithful(p, w)',
         status[p] = "leading" /\ Busy(p, w) =>
             \/ job.key = jobs[p][w].key
             \/ jobs[p][w].key \in dirty'[p]
             \/ ~Pending(p, jobs[p][w].key)
             \/ applied'[jobs[p][w].key].generation = Len(specs[jobs[p][w].key])
  PROVE  RememberInv'
<1>1. /\ jobs'[p][w] = job
      /\ \A q \in Processes, v \in Workers : ~(q = p /\ v = w) => jobs'[q][v] = jobs[q][v]
  BY DEF Reassigned
<1>2. ASSUME NEW q \in Processes, NEW r \in Watched(deployment, q),
             status[q] = "leading", Pending(q, r), applied'[r].generation # Len(specs[r])
      PROVE  r \in dirty'[q] \/ \E v \in Workers : jobs'[q][v].key = r
  <2>1. r \in Resources /\ r # None
    BY WatchedType
  <2>2. CASE applied'[r] # applied[r]
    BY <1>1, <1>2, <2>2
  <2>3. CASE applied'[r] = applied[r]
    <3>1. Remembered(q, r)
      BY <1>2, <2>3, Remembers DEF RememberInv
    <3>2. CASE r \in dirty[q]
      BY <1>1, <1>2, <3>2
    <3>3. CASE \E v \in Workers : jobs[q][v].key = r
      <4>1. PICK v \in Workers : jobs[q][v].key = r
        BY <3>3
      <4>2. CASE q = p /\ v = w
        BY <1>1, <1>2, <2>1, <4>1, <4>2 DEF Busy
      <4>3. CASE ~(q = p /\ v = w)
        BY <1>1, <4>1, <4>3
      <4>4. QED
        BY <4>2, <4>3
    <3>4. QED
      BY <3>1, <3>2, <3>3 DEF Remembered
  <2>4. QED
    BY <2>2, <2>3
<1>3. EditsRemembered'
  BY <1>2 DEF EditsRemembered, Pending, Wanted, Watched
<1>4. ASSUME NEW q \in Processes, NEW v \in Workers, status[q] = "leading", Busy(q, v)'
      PROVE  Faithful(q, v)'
  <2>1. CASE q = p /\ v = w
    BY <1>1, <1>4, <2>1 DEF Busy
  <2>2. CASE ~(q = p /\ v = w)
    <3>1. jobs'[q][v] = jobs[q][v] /\ Busy(q, v)
      BY <1>1, <1>4, <2>2 DEF Busy
    <3>2. Faithful(q, v) /\ applied'[jobs[q][v].key] = applied[jobs[q][v].key]
      BY <1>4, <2>2, <3>1 DEF RememberInv, Undisturbed
    <3>3. QED
      BY <3>1, <3>2 DEF Faithful
  <2>3. QED
    BY <2>1, <2>2
<1>5. QED
  BY <1>3, <1>4 DEF RememberInv

\* A resource that is let go of because it is suspended wants nothing.
LEMMA TakeRemembers ==
  ASSUME TypeOK, RememberInv, NEW p \in Processes, NEW w \in Workers, NEW r \in Resources,
         Take(p, w, r)
  PROVE  RememberInv'
<1>1. /\ UNCHANGED <<deployment, status, specs, cache, applied>>
      /\ ~Busy(p, w)
  BY DEF Take, clusterVars, auraVars, informerVars, Busy
<1>2. /\ r \in Ready(p)
      /\ dirty' = [dirty EXCEPT ![p] = @ \ {r}]
  BY TakeReassigns
<1>3. /\ \A q \in Processes : q # p => dirty'[q] = dirty[q]
      /\ \A s \in dirty[p] : s # r => s \in dirty'[p]
  BY <1>2 DEF TypeOK
<1>4. \A v \in Workers : jobs[p][v].key # r
  BY <1>2 DEF Ready, Processing
<1>5. Undisturbed(p, w)
  BY <1>1 DEF Undisturbed
<1>6. CASE Reassigned(p, w, Reads(p, r)) /\ Reads(p, r) \in Job
  <2>1. /\ Reads(p, r).key = r /\ Reads(p, r).seen = cache[p][r]
        /\ Reads(p, r).step # "patch"
    BY DEF Reads
  <2>2. Faithful(p, w)'
    BY <1>1, <1>6, <2>1 DEF Faithful, Reassigned
  <2>3. QED
    BY <1>1, <1>3, <1>4, <1>5, <1>6, <2>1, <2>2, WorkerRemembers
<1>7. CASE Reassigned(p, w, jobs[p][w]) /\ Suspended(p, r)
  <2>1. jobs[p][w] \in Job /\ jobs[p][w].key = None
    BY <1>1, JobType DEF Busy
  <2>2. ~Pending(p, r)
    BY <1>7 DEF Suspended, Pending, Wanted
  <2>3. QED
    BY <1>1, <1>3, <1>5, <1>7, <2>1, <2>2, WorkerRemembers
<1>8. QED
  BY <1>6, <1>7, TakeReassigns

LEMMA AskedRemembers ==
  ASSUME TypeOK, SingleFlight, LeadershipInv, RememberInv, NEW p \in Processes,
         NEW w \in Workers, Listed(p, w) \/ Posted(p, w) \/ Got(p, w)
  PROVE  RememberInv'
<1> DEFINE k == jobs[p][w].key
<1>1. k \in Resources /\ Busy(p, w)
  BY GivesOrNot, WorkersKey DEF Busy
<1>2. PICK job \in Job :
          /\ Continues(jobs[p][w], job)
          /\ Reassigned(p, w, job)
          /\ job.step = "patch" /\ job.result = "none" => Gives(p, w)
  BY Asked
<1>3. /\ job.key = k /\ job.seen = jobs[p][w].seen /\ job.moved = jobs[p][w].moved
      /\ jobs'[p][w] = job
  BY <1>2 DEF Continues, Reassigned
<1>4. /\ \A r \in Resources : r # k => applied'[r] = applied[r]
      /\ Gives(p, w) => applied'[k].generation = jobs[p][w].seen.generation
  BY GivesOrNot, GivesType
<1>5. ASSUME NEW q \in Processes, NEW r \in Watched(deployment, q),
             status[q] = "leading", applied'[r] # applied[r]
      PROVE  q = p /\ r = k
  <2>1. r = k
    BY <1>4, <1>5, WatchedType
  <2>2. QED
    BY <1>1, <1>5, <2>1, LeadsAlone
<1>6. ASSUME status[p] = "leading" PROVE Faithful(p, w)'
  <2>1. Faithful(p, w)
    BY <1>1, <1>6 DEF RememberInv
  <2>2. UNCHANGED cache
    BY GivesOrNot
  <2>3. QED
    BY <1>2, <1>3, <1>4, <2>1, <2>2 DEF Faithful
<1>7. Undisturbed(p, w)
  BY GivesOrNot, GivesOne
<1>8. QED
  BY <1>2, <1>3, <1>5, <1>6, <1>7, GivesOrNot, WorkerRemembers

\* A worker lets go for good only when it has done what its process wants.
LEMMA LetsGo ==
  ASSUME TypeOK, NEW p \in Processes, NEW w \in Workers, jobs[p][w].step = "patch",
         Faithful(p, w), ~jobs[p][w].moved, ~Again(jobs[p][w]), Pending(p, jobs[p][w].key)
  PROVE  applied[jobs[p][w].key].generation = Len(specs[jobs[p][w].key])
<1> DEFINE k == jobs[p][w].key
           interval == specs[k][Len(specs[k])].interval
<1>1. k \in Resources /\ jobs[p][w].result \in Results
  BY WorkersKey, JobType
<1>2. interval \in {"unset", "zero", "positive"}
  <2>1. specs[k][Len(specs[k])] \in AuraInstanceSpec
    BY <1>1, StoredType
  <2>2. QED
    BY <2>1 DEF AuraInstanceSpec
<1>3. interval # "zero"
  BY DEF Pending, Wanted
<1>4. ~(interval = "positive" \/ jobs[p][w].result = "requeue"
        \/ (interval = "unset" /\ jobs[p][w].result = "requeueAfter"))
  BY DEF Again
<1>5. jobs[p][w].result = "none"
  BY <1>1, <1>2, <1>3, <1>4 DEF Results
<1>6. QED
  BY <1>5 DEF Faithful, Pending

LEMMA DoneRemembers ==
  ASSUME TypeOK, RememberInv, NEW p \in Processes, NEW w \in Workers,
         Patch(p, w) \/ Failed(p, w)
  PROVE  RememberInv'
<1> DEFINE k == jobs[p][w].key
<1>1. UNCHANGED <<deployment, status, specs, cache, applied>> /\ status[p] = "leading"
  BY DEF Patch, Failed, auraVars
<1>2. \/ Done(p, w, TRUE)
      \/ Done(p, w, Again(jobs[p][w])) /\ jobs[p][w].step = "patch" /\ ~jobs[p][w].moved
  BY DEF Patch, Failed, At
<1>3. Busy(p, w) /\ k \in Resources
  BY JobType DEF Patch, Failed, At, Busy
<1>4. Reassigned(p, w, Idle)
  BY <1>2, DoneReassigns
<1>5. dirty \in [Processes -> SUBSET Resources]
  BY DEF TypeOK
<1>6. /\ \A q \in Processes : q # p => dirty'[q] = dirty[q]
      /\ \A r \in dirty[p] : r \in dirty'[p]
  BY <1>2, <1>5 DEF Done
<1>7. k \in dirty'[p] \/ ~Pending(p, k) \/ applied'[k].generation = Len(specs[k])
  <2>1. CASE Done(p, w, TRUE)
    BY <1>5, <2>1 DEF Done
  <2>2. CASE Done(p, w, Again(jobs[p][w])) /\ jobs[p][w].step = "patch" /\ ~jobs[p][w].moved
    <3>1. CASE Again(jobs[p][w])
      BY <1>5, <2>2, <3>1 DEF Done
    <3>2. CASE ~Again(jobs[p][w])
      <4>1. Faithful(p, w)
        BY <1>1, <1>3 DEF RememberInv
      <4>2. QED
        BY <1>1, <2>2, <3>2, <4>1, LetsGo
    <3>3. QED
      BY <3>1, <3>2
  <2>3. QED
    BY <1>2, <2>1, <2>2
<1>8. Undisturbed(p, w)
  BY <1>1 DEF Undisturbed
<1>9. QED
  BY <1>1, <1>4, <1>6, <1>7, <1>8, IdleType, WorkerRemembers

LEMMA HangRemembers ==
  ASSUME TypeOK, RememberInv, NEW p \in Processes, NEW w \in Workers, Hang(p, w)
  PROVE  RememberInv'
<1> DEFINE job == [jobs[p][w] EXCEPT !.hung = TRUE]
<1>1. /\ job \in Job /\ job.key = jobs[p][w].key /\ job.seen = jobs[p][w].seen
      /\ job.moved = jobs[p][w].moved /\ job.step = jobs[p][w].step
      /\ job.result = jobs[p][w].result
  BY JobType, HungJobType DEF Continues
<1>2. Assign(p, w, job)
  BY DEF Hang
<1> HIDE DEF job
<1>3. Reassigned(p, w, job)
  BY <1>1, <1>2, AssignReassigns
<1>4. /\ UNCHANGED <<deployment, status, specs, cache, applied, dirty>>
      /\ Busy(p, w) /\ status[p] = "leading"
  BY DEF Hang, clusterVars, auraVars, informerVars, Busy
<1>5. Faithful(p, w)'
  BY <1>1, <1>3, <1>4 DEF RememberInv, Faithful, Reassigned
<1>6. Undisturbed(p, w)
  BY <1>4 DEF Undisturbed
<1>7. QED
  BY <1>1, <1>3, <1>4, <1>5, <1>6, WorkerRemembers

LEMMA CancelledRemembers ==
  ASSUME TypeOK, RememberInv, NEW p \in Processes, NEW w \in Workers, Cancelled(p, w)
  PROVE  RememberInv'
<1>1. /\ UNCHANGED <<deployment, status, specs, cache, applied, dirty>>
      /\ status[p] = "stopping"
  BY DEF Cancelled, clusterVars, auraVars, informerVars
<1>2. Reassigned(p, w, Idle)
  BY IdleType, AssignReassigns DEF Cancelled
<1>3. Undisturbed(p, w)
  BY <1>1 DEF Undisturbed
<1>4. QED
  BY <1>1, <1>2, <1>3, IdleType, WorkerRemembers

\* A process that begins to lead has everything it watches in its queue; one
\* that ends has nothing to remember.
LEMMA ProcessRemembers ==
  ASSUME TypeOK, LeadershipInv, RememberInv, NEW p \in Processes, ProcessActs(p)
  PROVE  RememberInv'
<1>1. UNCHANGED <<deployment, specs, applied>>
  BY DEF ProcessActs, Start, Lead, Stop, Leave, Die, clusterVars, auraVars
<1>2. status \in [Processes -> {"down", "waiting", "leading", "stopping"}]
  BY DEF TypeOK
<1>3. \A q \in Processes : q # p =>
          /\ status'[q] = status[q] /\ dirty'[q] = dirty[q]
          /\ jobs'[q] = jobs[q] /\ cache'[q] = cache[q]
  <2>1. CASE Start(p)
    BY <1>2, <2>1 DEF Start, TypeOK
  <2>2. CASE Lead(p)
    BY <1>2, <2>2 DEF Lead, informerVars, TypeOK
  <2>3. CASE Stop(p)
    BY <1>2, <2>3 DEF Stop, informerVars
  <2>4. CASE Leave(p) \/ Die(p)
    <3>1. Forget(p) /\ \A q \in Processes : q # p => status'[q] = status[q] /\ jobs'[q] = jobs[q]
      BY <1>2, <2>4 DEF Leave, Die, TypeOK
    <3>2. QED
      BY <3>1, ForgetType
  <2>5. QED
    BY <2>1, <2>2, <2>3, <2>4 DEF ProcessActs
<1>4. \/ status'[p] # "leading"
      \/ /\ dirty'[p] = Watched(deployment, p)
         /\ \A w \in Workers : jobs'[p][w].key = None
  <2>1. CASE Start(p) \/ Stop(p) \/ Leave(p) \/ Die(p)
    BY <1>2, <2>1 DEF Start, Stop, Leave, Die
  <2>2. CASE Lead(p)
    <3>1. dirty'[p] = Watched(deployment, p) /\ jobs' = jobs /\ status[p] = "waiting"
      BY <2>2 DEF Lead, TypeOK
    <3>2. QED
      BY <3>1 DEF LeadershipInv, JobsInPlace, Busy
  <2>3. QED
    BY <2>1, <2>2 DEF ProcessActs
<1>5. ASSUME NEW q \in Processes, NEW r \in Watched(deployment, q), status'[q] = "leading",
             cache'[q][r].generation = Len(specs[r]), Wanted(r),
             applied[r].generation # Len(specs[r])
      PROVE  r \in dirty'[q] \/ \E w \in Workers : jobs'[q][w].key = r
  BY <1>3, <1>4, <1>5 DEF RememberInv, EditsRemembered
<1>6. ASSUME NEW q \in Processes, NEW w \in Workers, status'[q] = "leading", Busy(q, w)'
      PROVE  Faithful(q, w)'
  <2>1. q # p
    BY <1>4, <1>6 DEF Busy
  <2>2. jobs'[q][w] = jobs[q][w] /\ cache'[q] = cache[q] /\ status[q] = "leading" /\ Busy(q, w)
    BY <1>3, <1>6, <2>1 DEF Busy
  <2>3. QED
    BY <1>1, <2>2 DEF RememberInv, Faithful
<1>7. EditsRemembered'
  BY <1>1, <1>5 DEF EditsRemembered, Wanted, Watched
<1>8. QED
  BY <1>6, <1>7 DEF RememberInv

\* What a leader learns goes into its queue, and overtakes who works on less.
LEMMA SyncRemembers ==
  ASSUME TypeOK, RememberInv, NEW p \in Processes, NEW r \in Resources, Sync(p, r)
  PROVE  RememberInv'
<1>1. UNCHANGED <<deployment, specs, applied, status>>
  BY DEF Sync, clusterVars, auraVars
<1>2. /\ cache'[p][r] = Head(watch[p][r])
      /\ \A q \in Processes, s \in Resources : ~(q = p /\ s = r) => cache'[q][s] = cache[q][s]
  <2>1. watch[p][r] \in Seq(Version) /\ watch[p][r] # <<>>
    BY DEF Sync, TypeOK
  <2>2. Head(watch[p][r]) = watch[p][r][1]
    BY <2>1
  <2>3. QED
    BY <2>2, Synced
<1>3. /\ \A q \in Processes : dirty[q] \subseteq dirty'[q]
      /\ status[p] = "leading" /\ cache'[p][r].generation # cache[p][r].generation =>
             r \in dirty'[p]
  <2>1. dirty \in [Processes -> SUBSET Resources]
    BY DEF TypeOK
  <2>2. dirty' = IF Notifies(p, r, Head(watch[p][r]))
                 THEN [dirty EXCEPT ![p] = @ \cup {r}] ELSE dirty
    BY DEF Sync
  <2>3. QED
    BY <1>2, <2>1, <2>2 DEF Notifies
<1>4. \A q \in Processes, v \in Workers : jobs'[q][v].key = jobs[q][v].key
  BY Overtaken
<1>5. ASSUME NEW q \in Processes, NEW s \in Watched(deployment, q), status[q] = "leading",
             cache'[q][s].generation = Len(specs[s]), Wanted(s),
             applied[s].generation # Len(specs[s])
      PROVE  s \in dirty'[q] \/ \E w \in Workers : jobs'[q][w].key = s
  <2>1. s \in Resources
    BY WatchedType
  <2>2. CASE cache'[q][s].generation = cache[q][s].generation
    <3>1. s \in dirty[q] \/ \E w \in Workers : jobs[q][w].key = s
      BY <1>5, <2>2 DEF RememberInv, EditsRemembered
    <3>2. QED
      BY <1>3, <1>4, <3>1
  <2>3. CASE cache'[q][s].generation # cache[q][s].generation
    <3>1. q = p /\ s = r
      BY <1>2, <2>1, <2>3
    <3>2. QED
      BY <1>3, <1>5, <2>3, <3>1
  <2>4. QED
    BY <2>2, <2>3
<1>6. ASSUME NEW q \in Processes, NEW v \in Workers, status[q] = "leading",
             jobs'[q][v].key # None
      PROVE  /\ ~jobs'[q][v].moved =>
                    jobs'[q][v].seen.generation = cache'[q][jobs'[q][v].key].generation
             /\ jobs'[q][v].step = "patch" /\ jobs'[q][v].result = "none" =>
                    applied[jobs'[q][v].key].generation = jobs'[q][v].seen.generation
  <2>1. Busy(q, v) /\ Faithful(q, v) /\ jobs[q][v].key \in Resources
    BY <1>4, <1>6, JobType DEF Busy, RememberInv
  <2>2. CASE q = p /\ jobs[q][v].key = r
    BY <2>1, <2>2, Overtaken DEF Faithful
  <2>3. CASE ~(q = p /\ jobs[q][v].key = r)
    <3>1. jobs'[q][v] = jobs[q][v]
      BY <2>3, Overtaken
    <3>2. QED
      BY <1>2, <2>1, <2>3, <3>1 DEF Faithful
  <2>4. QED
    BY <2>2, <2>3
<1>7. EditsRemembered'
  BY <1>1, <1>5 DEF EditsRemembered, Wanted, Watched
<1>8. QED
  BY <1>1, <1>6, <1>7 DEF RememberInv, Faithful, Busy

\* Nobody knows of an edit yet.
LEMMA EditRemembers ==
  ASSUME TypeOK, NewsInv, RememberInv, NEW r \in Resources, Edit(r)
  PROVE  RememberInv'
<1>1. UNCHANGED <<deployment, applied, cache, status, dirty, jobs>>
  BY UsersAndAura
<1>2. \A q \in Processes : cache[q][r].generation # Len(specs'[r])
  <2>1. \A q \in Processes : cache[q][r].generation <= Len(specs[r])
    BY DEF NewsInv, InOrder
  <2>2. /\ Len(specs[r]) \in Nat /\ Len(specs'[r]) = Len(specs[r]) + 1
        /\ \A q \in Processes : cache[q][r].generation \in Nat
    BY StoredType, NewsType, Edited
  <2>3. QED
    BY <2>1, <2>2
<1>3. \A s \in Resources : s # r => specs'[s] = specs[s]
  BY Edited
<1>4. ASSUME NEW q \in Processes, NEW s \in Watched(deployment, q), status[q] = "leading",
             cache[q][s].generation = Len(specs'[s]), applied[s].generation # Len(specs'[s]),
             ~specs'[s][Len(specs'[s])].suspend, specs'[s][Len(specs'[s])].interval # "zero"
      PROVE  s \in dirty[q] \/ \E w \in Workers : jobs[q][w].key = s
  <2>1. s # r /\ specs'[s] = specs[s]
    BY <1>2, <1>3, <1>4, WatchedType
  <2>2. QED
    BY <1>4, <2>1 DEF RememberInv, EditsRemembered, Wanted
<1>5. EditsRemembered'
  BY <1>1, <1>4 DEF EditsRemembered, Wanted, Watched
<1>6. QED
  BY <1>1, <1>5 DEF RememberInv, Faithful, Busy

LEMMA NothingRemembers ==
  ASSUME RememberInv,
         UNCHANGED <<deployment, specs, applied, cache, status, dirty, jobs>>
  PROVE  RememberInv'
  BY DEF RememberInv, EditsRemembered, Wanted, Faithful, Busy, Watched

(***************************************************************************)
(* A leader forgets no edit it has learnt of: one that comes while a       *)
(* worker is at an older generation, while the instance is being created,  *)
(* before a call that fails or after an adoption is in its queue or in a   *)
(* worker's hands until Aura has been given it (Reconcile, lines 139-164;  *)
(* reconcile, lines 267-296; SetupWithManager, lines 84-94; main.go, line  *)
(* 183); and so is one a stale leader has taken back.                      *)
(***************************************************************************)
THEOREM ForgetsNoEdit == Spec => []EditsRemembered
<1>1. Init => RememberInv
  BY IdleType DEF Init, RememberInv, EditsRemembered, Busy
<1>2. TypeOK /\ LeadershipInv /\ SingleFlight /\ OrderInv /\ RememberInv /\ [Next]_vars
        => RememberInv'
  <2> SUFFICES ASSUME TypeOK, LeadershipInv, SingleFlight, OrderInv, RememberInv, [Next]_vars
               PROVE  RememberInv'
    OBVIOUS
  <2>1. ASSUME NEW p \in Processes, NEW w \in Workers, WorkerActs(p, w)
        PROVE  RememberInv'
    BY <2>1, TakeRemembers, AskedRemembers, DoneRemembers, HangRemembers, CancelledRemembers
       DEF WorkerActs
  <2>2. ASSUME NEW s \in Selectors, Expire(s) PROVE RememberInv'
    BY <2>2, NothingRemembers DEF Expire, clusterVars, auraVars, informerVars
  <2>3. ASSUME NEW r \in Resources, Settle(r) \/ Lose(r) PROVE RememberInv'
    BY <2>3, NothingRemembers, UsersAndAura DEF Settle, Lose, clusterVars
  <2>4. CASE UNCHANGED vars
    BY <2>4, NothingRemembers DEF vars, clusterVars, auraVars, informerVars, processVars
  <2>5. CASE Next
    BY <2>1, <2>2, <2>3, <2>5, AllSteps, ProcessRemembers, SyncRemembers, EditRemembers
       DEF OrderInv
  <2>6. QED
    BY <2>4, <2>5
<1>3. RememberInv => EditsRemembered
  BY DEF RememberInv
<1>4. QED
  BY <1>1, <1>2, <1>3, Order, PTL DEF Spec

================================================================================
