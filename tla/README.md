# A formal model of neo4j-aura-controller

The controller keeps one Neo4j Aura instance for every `AuraInstance` resource
of a Kubernetes cluster. It reads the resource from a cache, calls the Aura
API, writes a secret and patches the resource's status. No two of these steps
are atomic together, any of them may fail, and the process may die between any
two; several such processes may run, each with several workers. These modules
say what it does in every order that can happen, TLC checks it on small
instances, and TLAPS proves the safety that TLC checks for all of them.

## The system

| component | state | operations | hard parts |
|---|---|---|---|
| **controller** `internal/controllers/aurainstance_controller.go` | none between two reconciles; within one, the copy of the resource it works on | `Reconcile` (read, `reconcile`, `patchStatus`), `httpClient`, `requestsForSecretChange` | stale reads, calls whose effect is known and whose reply is not, crashes, retries |
| **API** `api/v1beta1` | the resource: specification, generation, status (`instanceId`, conditions, observed generation, connection secret) | setters of the conditions | conditions outlive what they said; the status names things that live elsewhere |
| **Aura client** `pkg/aura/client` (generated) | the base URL; per reconcile, a token source | 26 operations, each with a request builder and a parser; the controller calls four: list, create, get, update | which replies are errors, which leave nil pointers; 26 routes written one by one, ids that are dots among them; stale tokens |
| **Aura cloud** (external) | instances by id, their state and configuration | carries out requests, possibly after the sender has given up; its console | asynchronous creation, changes behind the controller's back |
| **API server, cache, secrets** (external) | the object, its watch events, connection secrets, API credentials | writes at the server, reads from the cache, garbage collection | the cache lags; a merge patch without a `resourceVersion` hits whatever is stored |
| **work queue** (controller-runtime) | waiting keys, delayed adds | one worker per key, back-off, `RequeueAfter` | a dropped event, a key nobody adds again |
| **manager** `main.go` | flags, a lease per label selector, one shared HTTP client | start, elect, lead, stop, exit | two processes at once, a new leader with an old cache, shutdown in the middle of a reconcile, four workers and no timeout |
| **logging transport** `internal/http/middleware` | none | passes requests on | |
| deep copies, chart, CRD, RBAC | none | | |

Interaction: users write the specification; the informer puts changes of the
generation and of the credentials secret into the queue; a worker runs
`Reconcile`, which calls Aura, through a client made for this one reconcile, and
the API server in the order below; its result, or its error, puts the key back
after a while. Processes that watch the same resources share a lease, and only
its holder has workers.

What makes the controller correct: it never has two instances made for one
resource; it never forgets a live instance or deletes the secret with its
password; no two workers are at one resource, in one process or in two; what the
status says of generations and readiness is true; and in the
end Aura runs what the specification asks for and the status says so.

## Modules

| module | models |
|---|---|
| `AuraInstanceTypes` | `api/v1beta1`: the resource, its conditions, the JSON merge patch of a status |
| `AuraClient` | the 26 reply parsers of `client.gen.go`: error, code, or code with data; nil pointers |
| `AuraRequests` | its 26 request builders, the base URL and how a path is resolved against it, dot segments included |
| `AuraCalls` | a reconcile that calls the client: token source, editors, the logging transport |
| `AuraCloud` | Aura as the controller meets it: instances of one name, abandoned requests, the console (external) |
| `Kubernetes` | API server and informer cache: one object and its incarnations, watch events in order, secrets (external) |
| `AuraInstanceReconciler` | the controller, composed with `Kubernetes` and `AuraCloud`: one process, one key |
| `InstanceProvisioning` | what the controller promises about instances, in seven one-line steps |
| `AuraInstanceProperties` | invariants, action properties, liveness, the mapping to `InstanceProvisioning` |
| `Manager` | several processes of `main.go`, their election, caches, queues and workers, many resources |
| `MCReconciler`, `MCAuraCalls`, `MCManager` | small instances for TLC |
| `AuraInstanceTypesProofs` | lemmas on the helpers of the resource |
| `AuraInstanceReconcilerProofs` | `Typing`, `CreatesOnce`, `NeverForgotten` |
| `AuraInstanceGenerationProofs` | `ObservesRealGenerations`, `ObservesForward` |
| `AuraInstanceReadyProofs` | `ReadyIsTrue` |
| `InstanceProvisioningProofs` | `Implements`, `KeepsLiveInstances` |
| `AuraInstanceCredentialsProofs` | `KeepsLiveCredentials` |
| `AuraCallsProofs` | `OwnCredentialsHolds`, `BelowBaseURLHolds`, `RoutesIdentifyHolds`, `CallsTypeOK` |
| `ManagerProofs` | `ManagerTyping`, `OneAtATime`, `MakesOne`, `NeverBack`, `ForgetsNoEdit` |

`AuraInstanceReconciler` looks at one resource and cuts `Reconcile` at every call.
`Manager` looks at many resources, workers and processes, each with a cache that is
as late as it likes, and keeps of a reconcile its calls of Aura (LIST or GET, POST,
PATCH), what it makes of their replies, and the status patch and the delay at its
end. What one leaves out the other has: late requests, bad replies, secrets and
conditions are in the first; concurrency, leadership and a leader whose cache is
behind in the second.

### State and code

`Reconcile` is cut at every call to another system; `pc` names the call that
comes next. Everything between two calls, line 146 and the error branch of
`Reconcile` included, is part of the action that makes the first of them.

| `pc` | action | controller lines |
|---|---|---|
| idle | `StartNothingToDo`, `StartReadFails`, `StartReconcile`, `StartWithoutCredentials` | 127-142, 167-216 |
| get | `GetInstance` (`Examine`, `CheckDrift`, `Missing`) | 223-278 |
| delete | `DeleteSecret`, `ForgetInstance` | 230-255 |
| update | `UpdateInstance` | 277-298 |
| list | `ListInstances` | 301-323 |
| post | `PostInstance` | 325-347 |
| create | `CreateSecret` | 349-374 |
| patch | `PatchStatus` (`Patched`, `Again`) | 154-165, 377-385 |

`snapshot` is the resource as it was read, `instance` the copy `reconcile`
changes and returns, `err` and `result` what it returns. `queued` and `timer`
are the queue for one key: a set, and one pending delayed add for
`RequeueAfter`, for `Requeue` and for the back-off after errors alike. A panic
is what controller-runtime makes of it, an error without a status patch.

`patchStatus` reads the cache again and sends the difference between that and
its own copy. As long as the cached object is the one `Reconcile` started from
(`moved = FALSE`), the difference holds only status fields that changed, and the
server applies it to whatever it stores under the name: an edited object, or a
new one. Once the cache has moved on, the difference also holds the old
`resourceVersion` and the server answers with a conflict. `Patched`,
`MergePatch` and `moved` are this; `reworded` says that a condition's message,
transition time or place in the list, which are left out otherwise, has changed, so
that the whole list is sent. `Rewordings` says when that may be: after an error, after
a message of an instance that is not ready, and after Reconciling was deleted and set
again.

`Manager` and `main.go`: `deployment` is the command line (`--enable-leader-election`,
`--watch-label-selector`) and the labels of the resources; `lease` has an owner for
every lease id, which `LeaseOf` makes from the selector (lines 98-101); `status` is
where a process is between `mgr.Start` (line 183) and its exit. `Start`, `Lead`,
`Stop`, `Leave`, `Die` and `Expire` are its life; `Take`, `Listed`, `Posted`, `Got`,
`Patch`, `Failed`, `Hang` and `Cancelled` that of a worker. `cache` is what a process
knows of each resource and `watch` what is on its way there (`Publish`, `Sync`); it
fills while the process waits for the lease, too, because the field index (controller,
line 68) starts the informer. `specs` has the specification of every generation,
`named` the id in the status, `instances` the fate of each instance Aura made
(creating, running, lost), `applied` the generation Aura was last given and by which
process.

`Take` reads the cache (line 131) and puts a suspended resource aside (139-142). `Got`
has the three ends of a GET: the instance is gone and the status is to forget it
(230-255), it is being created and will be looked at again (267-269), or it is given
what the worker has read (274-298). `Posted` and `Listed` end in a delay and in a
requeue (301-374). A worker at `"patch"` has had its request carried out and has yet to
hear of it. `PatchStatus` is the merge patch above, refused once the cache has moved;
`Again` is lines 154-165: the interval of the stored version takes the place of the
delay, when it is zero as well.

`AuraCalls` and `client.gen.go`: `step` is where a call stands between its builder
(`Call`), its editors (`EditorFails`), the token (`Authorize`), the wire (`RoundTrip`,
the logging transport) and the parser (`ReadReply`). `Begin` is `httpClient` and
`NewClientWithResponses`.

### What is abstracted

- In `AuraInstanceReconciler`, one resource; its name and namespace are left out, its incarnations have a
  `uid`. Aura shows the instances that carry its name.
- memory, vectorOptimized and graphAnalyticsPlugin are one `config`. A reply
  with missing optional fields (`"partial"`) leads to an update or to a panic,
  as the order of the comparison makes it.
- Time: an interval is positive, zero or not set. A zero interval replaces the
  30 s poll of an instance that is being created (lines 160-162) by nothing, and
  no property of convergence is claimed for it. Delays end, in any order with
  other steps.
- In `AuraRequests`, a URL is the sequence of its path segments; an id is one
  segment, since the builders escape the slashes in it. They do not escape dots, and
  `serverURL.Parse` then takes the ids `.` and `..` for steps of a path and removes
  them: `Resolve` does so. Of a body only its content type is kept.
- In `Manager`, namespaces divide the resources as selectors do and are not told
  apart from them; keys wait in one set, whatever for and however long; of a
  specification it knows whether it is suspended and its interval, and what it asks
  Aura for is told by its generation, each asking for something of its own. What Aura
  was last given is what it was sent, not what the console made of it.
- `"busy"` stands for one Aura status that is neither creating nor running.
- The credentials are usable or not; token requests fail like other requests.

### What is assumed

- Of Aura: a list with code 200 names every live instance of the tenant; an id
  is not used twice; 404 is answered only for instances that are gone; an
  update is accepted only of a running instance. A list reply without data
  would make the controller create a second instance, which is why this
  assumption matters.
- Of Kubernetes: the cache learns of every version in order; `MaxLag` bounds
  how many it may be missing when a reconcile starts; a restarted process lists
  first; writes are linearizable.
- Of the base URL: it has no dot segments of its own.
- Of the deployment: processes that watch a common resource elect a leader and
  have the same selector (`DeploymentsAssumption`). Leader election is not on by
  default, and two selectors may overlap; with either, a resource may get two
  instances, as the mutant `ElectsNobody` shows.
- Of a leader: it stops working before another one may take its lease, which is
  what lease and renewal times are for; workers of a stopping process finish
  within `--graceful-shutdown-timeout`, because all their calls are cancelled. A
  request that outlives its process is in `AuraInstanceReconciler` (`inflight`), not
  in `Manager`. Nothing is assumed of a new leader's cache: it may be behind, and the
  first reconcile then gives Aura an older specification than its predecessor did,
  until the newer one arrives. `AppliedInOrder` is therefore said of one process;
  `EditsApplied` says that such a step back does not last.

## Runs

Of `MCReconciler`: `Troubles` names the kinds of trouble that may
happen in a run (`reply`: a bad or no reply; `inflight`: an abandoned request is
carried out later; `crash`; `status`, `secret`, `read`: calls to Kubernetes that
fail, with or without effect; `event`: a secret event dropped; `credentials`:
they become unusable; `occupy`, `drift`, `destroy`: at Aura; `foreign`: other
people's secrets; `delete`: the user deletes the resource) and
`MaxDisturbances` how often in all. Users create and edit freely within
`MaxGeneration` and `MaxUid`. `CHECK_DEADLOCK FALSE`, because a resource that is
suspended, deleted or finished without an interval really leaves nothing to do.

| run | checks | bounds | states |
|---|---|---|---|
| `binding` | `BoundWhileLive`, `LiveCredentialsKept`, `ProvidesOneInstance` | 3 ids, 2 configs, 2 troubles of 9 kinds, lag 0 | 881 000 |
| `status` | `ObservedGenerationReal`, `ObservedGenerationMonotone`, `ReadyMeansConfigured`, `NeverUnattended` | 2 ids, 2 configs, 2 generations, 2 incarnations, 1 trouble of 5 kinds, lag 1 | 1 377 000 |
| `recovery` | `TypeOK`, `SingleCreation`, `Convergence` | 3 ids, 2 configs, 2 troubles of 8 kinds, lag 1 | 906 000 |
| `applied` | `ConfigurationApplied` | 2 ids, 4 specifications, 2 troubles of 8 kinds, lag 0 | 448 000 |

Of `MCAuraCalls` and `MCManager`:

| run | checks | bounds | states |
|---|---|---|---|
| `calls` | `TypeOK`, `RoutesIdentify`, `BelowBaseURL`, `OwnCredentials` | 26 operations, 4 ids, 3 base URLs, 4 codes, credentials changed once | 826 000 |
| `replicas` | `TypeOK`, `SingleFlight`, `OnePerResource`, `EditsRemembered`, `AppliedInOrder` | 2 processes of 2 workers, 1 resource, 4 specifications, 2 generations; one failed call, one exit, one instance lost | 2 465 000 |
| `fleet` | `EditsApplied` | 2 processes of 2 workers, 2 resources: replicas with one of them, a shard for each, or both in one shard; one edit, one call that hangs, one exit | 413 000 |

Why the bounds are enough: the worst that is known needs two troubles (an
instance made by a request whose reply is lost, then a crash or a lost patch).
Every trouble uses up at most one id, so one id more than troubles never runs
out. Two configurations and two generations are enough for an edit to overtake
a reconcile; one missed version is enough for a reconcile to start from before
the controller's own last patch. With `MaxLag = 1`, `binding` fails: a status
that is one version old, met by somebody destroying the instance, makes the
controller forget the instance's successor. The property is therefore claimed
for an up-to-date cache only; `recovery`, with the old one, shows that the successor
is found again by its name.

In `applied` two troubles are what a lost wake-up takes: credentials that become unusable
and then usable again, and the event that says so dropped.

In `calls` an id may be the word `sizing`, which is also a segment of two routes, so
that an id can be taken for a route, or one of the two dot segments, which lead up to
another route; a second version of the credentials is enough to have a token of the
first. In `replicas` two workers are the least that can meet at one key, and two
processes the least to elect among; one generation more than the first is enough for
a cache to be behind, for an edit to overtake a worker and to meet an instance under
creation. All intervals are among the specifications, the zero one too, so that the
case `EditsRemembered` leaves out does occur. In `fleet` two resources and two workers
are the least with which one call may hang and work go on (`EditsApplied` needs
`MaxHangs < Concurrent`). No interval is set there, so that nobody looks again in passing:
only what the code remembers brings an edit to Aura. Calls that fail are in
`replicas` only. Its safety properties are proved for any number of everything.
`CHECK_DEADLOCK FALSE` in both: when every exit, edit and failure is used up and all is
applied, nothing is left to do.

### Where code and documentation disagree

Each of these runs checks one sentence of the repository, and TLC shows how the
code breaks it.

| run | sentence | what happens |
|---|---|---|
| `cex_connection_details` | "a reference to a secret which will contain the connection details" (`aurainstance_types.go:68`) | the process dies after the POST; the instance is adopted by name, runs and is ready, and its password is nowhere |
| `cex_connection_secret` | "the secret name which contains the connection details" (`aurainstance_types.go:104`) | an edit makes the status patch after the creation a conflict and the instance is destroyed; the retry creates another one, whose secret cannot be created because the old one is in the way, and the status names the old one for ever |
| `cex_reconciling` | conditions "give the necessary insight about the current state" (`README.md:74`) | without an interval, Reconciling = True, UpdatingInstance stays after a successful update |
| `cex_observed_generation` | "the last generation reconciled by the controller" (`aurainstance_types.go:97`) | a patch computed for a deleted object lands on its successor |
| `cex_timeout` | "Timeout used for upstream http requests" (`aurainstance_types.go:84`) | no code reads `spec.timeout`, the shared client has none (`main.go:161`), and a request nobody answers is never given up |

All but `cex_observed_generation` are temporal properties, refuted under the fairness
below.

Noticed on the way, outside any model: `--min-retry-delay` and `--max-retry-delay`, the
QPS and burst flags of the API client are parsed (`main.go:88-92`) and handed to
nobody.

### Fairness

`LiveSpec` asks for weak fairness of `Reconcile` (controller-runtime's workers
run as long as the process does), `TimerFires` (delayed adds come), `CacheSynced`
and `SecretSynced` (watches deliver), `SecretCollected` (the garbage collector)
and `AuraSettles` (Aura finishes creating and updating). Nothing is assumed of
users, of the console, of abandoned requests, or of credentials becoming usable
again; `Active` restricts the liveness properties to resources the controller
is able to work on. Troubles end because they are bounded, so the properties
say: once they end, this follows.

`AuraCalls` asks for fairness of what the worker does by itself (`Begin`, `Call`,
`ReadReply`, `End`), and for none of `Authorize` and `RoundTrip`: it is Aura and the token
endpoint that answer, and nothing in the code ends a request they do not answer.
That is the point of `cex_timeout`. `Manager` asks for weak fairness of every process
(`Lives`: pods are started again, a candidate takes a free lease, a drained process
exits), of its informers (`Sync`), of each of its workers (`Work`: calls which do not
hang are answered), of `Expire` and of Aura (`Settle`); and for strong fairness of
`Takes(r)`, some worker's taking of the key `r`. Weak fairness is not enough there: a
key that is ready while all workers are busy is not always ready to be taken, but
client-go's queue hands its keys out in turn, so none is passed over for ever.

## The refinement

`InstanceProvisioning` has three variables: whether there is a resource, the id its
status names, and the fate of each id (unused, requested, made by a request nobody
waited for any more, gone). It says that an instance is requested only while none
that was requested is alive, that only ids Aura has handed out are named, and that
an id is replaced or forgotten only when its instance is gone, unless reconciles
may start from old copies (`Stale`, which is `MaxLag # 0`). `Provisioning` in
`AuraInstanceProperties` maps the controller, its users and Aura to it:
`ProvidesOneInstance` is that the mapped behaviours satisfy its specification.
`PostInstance` is a `Request` or a stutter, `RequestArrivesLate` an `ArriveLate`,
`Destroy` a `Lose`, `PatchStatus` a `Name`, a `Forget` or a stutter.

## Proofs

For all constants that satisfy the modules' assumptions; the bounds of the runs,
`MaxLag`, `MaxExits` and the like included, may be any numbers.

- `Typing`: `Spec => []TypeOK`. TypeOK says more than types: before a call that
  needs one, the controller's copy has an instance id. One lemma per action.
- `CreatesOnce`: `Spec => []SingleCreation`. The property is not inductive, since
  a second POST would break it. `SingleCreationInv` adds that before a POST
  every live instance came from a late request: the LIST that led to the POST
  found nothing (`ListInstancesCreation`), no other action leads to a POST
  (`OnlyListLeadsToPost`), and no step of anybody else makes an instance that is
  not late (`NothingNewInTime`).
- `NeverForgotten`: `Spec => []NeverUnattended`, what `Convergence` rests on as far as it
  is safety: no wake-up is lost. Only two actions end a reconcile without adding the key
  again (`OnlyTwoEndForGood`). `StartNothingToDo` read a suspended specification or none,
  and `WatchInv` says that a copy of the stored generation has the stored specification
  (`FaithfulTo`); `PatchStatus` looks at the interval of the stored version. Events that
  carry a new status only are not queued, which is harmless because the version before
  was of the same object (`Successive`).
- `ObservesRealGenerations`: `Spec => []ObservedGenerationReal`, and `ObservesForward`:
  `Spec => ObservedGenerationMonotone`. `GenerationInv` says of every copy of the resource
  (cached, on its way to the cache, being worked on) that it is not newer than the
  first object of its name (`Dated`); of the watch, that it brings versions in their
  order (`Ordered`); of the generation the status reports, that the cache has seen it
  (`Observed`); and of a worker's copy, that it is the cached one unless the cache has
  moved on, and has been through line 146 when it is patched (`CopyInv`). A patch that
  would take the generation back is made from an older copy than the cache holds, and is
  therefore a conflict. All of it is about the first object: the counterexample above
  shows that for its successors the claim is false.
- `ReadyIsTrue`: if `Troubles` has neither `drift` nor `inflight`,
  `Spec => []ReadyMeansConfigured`. Without the hypothesis it is false for a reason that
  is not the controller's: the console, or a request its sender has given up on, changes
  the configuration after it was compared. `ReadyInv` has a part for every place a
  condition can be: `ReviewInv` says that the reconcile at work keeps the conditions it
  began with, or reports a change or a failure, or has compared the configuration;
  `ModestInv` that no version speaks of a later generation than its own; `SeenInv` that
  what the object says of readiness is not newer than what the worker has read, so that
  an old worker's patch cannot be mistaken for news about an edited object; `ClaimInv` is
  the property, of every id the object may come to name. Every other kind of trouble,
  lag, crashes and lost patches included, is covered.
- `Implements`: `Spec => ProvidesOneInstance`, the refinement. Its invariant says of
  every copy of the resource, stored, cached, on its way or in a worker's hands,
  that it names only ids Aura has handed out, and, with an up-to-date cache, that
  the copy a reconcile started from names what the stored object names, so that
  what is patched over was seen to be gone.
- `KeepsLiveInstances`: for `MaxLag = 0`, `Spec => BoundWhileLive`, read off the
  refinement: no step of `InstanceProvisioning` lets go of a live instance.
- `KeepsLiveCredentials`: for `MaxLag = 0`, `Spec => LiveCredentialsKept`. The code deletes
  the secret of a name, whatever instance it is about. `SoleInv` says why that harms
  none: while no late request made an instance, the id the resource names, and the id a
  worker has in hand, is the only one that can be alive. It rests on the invariants of
  `CreatesOnce` and `Implements`.
- `ManagerTyping`, `OneAtATime`: `SingleFlight` is not inductive, because it does not
  say why another process has no worker on the resource. `LeadershipInv` does: in a
  deployment with election whoever leads, or has a worker that is not done, holds
  the lease of its selector (`LeaseHeld`); workers and queues hold only what the
  selector selects (`JobsInPlace`); within a process keys are apart (`KeysApart`). Two
  processes at one resource would, by `DeploymentsAssumption`, hold one lease.
- `MakesOne`: `Spec => []OnePerResource`. `WorkInv` says that before a POST no instance of
  the resource is alive. The LIST saw that it was so, and by `OneAtATime` no other
  worker has the key in the meantime, in whatever process.
- `NeverBack`: `Spec => AppliedInOrder`. `OrderInv` is `NewsInv`, that a process learns of
  generations in their order (`InOrder`) and has given Aura nothing it does not know
  of, and `ReadInv`, that what a worker has read is not older than what its process
  last gave Aura. It takes `OneAtATime` again: else two workers of one process could
  have read different generations of one key and give them in the wrong order. Of two
  processes the claim is false, as said above.
- `ForgetsNoEdit`: `Spec => []EditsRemembered`, the counterpart in `Manager` of
  `NeverForgotten`: when the leader knows of the newest generation and Aura was last
  given another, the key is in the leader's queue or hands. `RememberInv` adds that
  a worker has read what its process knows unless the cache has moved, and that a
  reconcile that asks for no further look has given Aura what it read (`Faithful`): an
  instance that is gone, adopted, new or still being created is looked at again. With a
  zero interval that last step fails (lines 160-161 let nobody come back to an
  instance that is being created, and an edit made meanwhile waits for the next
  one), so such resources are left out of the claim, as suspended ones are.
- `OwnCredentialsHolds`: `TokenInv` says that the token of the source is for the
  credentials the source was made with, and that while a reconcile is at work these
  are the ones it has read: `httpClient` makes a source per reconcile.
- `BelowBaseURLHolds`: `CallInv` says that the client in use was made by `NewClient`
  from `--base-url` and that the call is one of its operations; `OperationsBuilt`
  goes through all 26 of them and finds that each builds its request by `Build` from
  a path of ids and fixed words. The claim is about every id. `ResolveBelow` says why
  dots do no harm to it: each path starts with a fixed word, two ids never follow one
  another, so every step up takes back a segment the path itself brought.
- `RoutesIdentifyHolds`: `Route` is the table by which a server would tell the operations
  apart, and `OperationsBuilt` finds each of the 26 in its place there. Ids that are dot
  segments are left out, because with them the claim is false: `GetSnapshots(".")`
  and `GetInstanceId("snapshots")` are one request. Any other id is kept as it is
  (`ResolvePlain`), so that two calls that look alike have, below one base, one path
  (`CommonPrefix`), and so one place in the table (`SameRequestSameRoute`). The words
  of the templates may be ids: `POST instances/sizing` and `GET instances/sizing`
  differ in their method.
- `CallsTypeOK`: the type invariant of `AuraCalls`. What needs an argument is that a parser
  answers every reply with a response (`ParseResponds`, `ParsedIsResponse`): a body that
  does not decode is an error, never data; and that there is one for every operation
  (`OperationsAreNamed`).

The invariants were checked by TLC, with the bounds of the runs, before they were
proved. Of constants the proofs assume only what the modules state, and TLC evaluates:
that bounds are numbers and the rest has its type (`BoundsAssumption`, `SpecsAssumption`,
`ManagerAssumption`, `CallsAssumption`), that `None` is no id, name, resource or
condition (`NoneAssumption`), and `DeploymentsAssumption`, which is discussed above.

Every invariant and action property of the passing runs is a theorem. Only
model-checked is what is temporal: `Convergence`, `ConfigurationApplied` and
`EditsApplied` need fairness, and with it ENABLED, which is out of the prover's reach.

## Not modelled

- Two resources with one name in two namespaces of one tenant: they adopt the same
  instance and update it in turn (lines 315-320). `AuraInstanceReconciler` has one
  resource, `Manager`'s have names of their own.
- How long anything takes: delays, back-off, token and lease times.
- The field-wise comparison of lines 274-276, where an omitted memory always differs.
- The closing of reply bodies: each of the 26 parsers closes its own, and a model with
  one definition for them all would say nothing of any one.
- The accessors of the refusals' unions in `client.gen.go` (lines 685-1178) and the
  client's options no code uses: they keep no state and nobody calls them.
- Events, logs, metrics, probes; deep copies and scheme registration; the CRD schema,
  RBAC and the chart.

The list of hazards in `PROJECT.json` says which of them bite where.

## Plan

What could come next: a fleet of two resources of one name, a composition in which
`Manager`'s reconcile is `AuraInstanceReconciler`'s, and the counterpart of
`NeverUnattended` for resources without an interval: which disagreements with Aura a
reconcile that ends for good may leave behind.
