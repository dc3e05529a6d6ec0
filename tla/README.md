# A verification development of provider-dynatrace-native-iam

The repository is a Crossplane provider in Go: it keeps Dynatrace IAM groups,
policies, boundaries, bindings, users, service users, cost centers and
management zones as custom resources of a Kubernetes cluster declare them, and
looks host entities up. This directory holds TLA+ models of it, the TLC runs
that check them on small instances, and proofs that TLAPS checks for every
instance.

## 1. The system

| component | source | state it keeps | operations | talks to |
|---|---|---|---|---|
| reconcile loop | `internal/controller/helper/setup.go`, `cmd/provider/main.go`, crossplane-runtime | per reconcile, a copy of the custom resource; on the API server: spec, external name, creation annotations, finalizer, deletion mark, version | reconcile = connect, Observe, then nothing, or one of Create, Update, Delete, with the API server calls around them | API server, cache, external client |
| Group, Policy, PolicyBoundary, ServiceUser, ZoneV2 controllers | `internal/controller/iam/*`, `management/zonev2` | none; the Dynatrace object is identified by the external name | Observe (by external name, else by name), Create, Update, Delete | client, API server (a service user's groups) |
| User, CostCenter controllers | `internal/controller/iam/user`, `costcenter` | none; the object is identified by a key of the spec | the same four; Update does nothing | client, API server (a user's groups) |
| PolicyBindingsV2 controller | `internal/controller/iam/policybindingsv2` | none; one resource is a list of bindings | the same four, one call per policy | client, API server (groups, policies, boundaries) |
| host entity lookup | `internal/controller/host/entity`, `clients/dynatrace/hostentities.go` | none; its result is the status of the resource | Observe only | client |
| HTTP client | `internal/clients/dynatrace/client.go` and one file per API | credentials | request with retries, throttling, fallback credential | token manager, Dynatrace |
| token manager | `internal/clients/dynatrace/oauth.go` | cached token and its expiry, behind a read-write lock | GetToken | Dynatrace SSO |
| provider configuration | `internal/clients/dynatrace/connector.go`, `internal/controller/config` | none | finds the credentials and makes a client, for every reconcile; keeps a finalizer on configurations | API server |
| set-up | `internal/controller/dynatrace.go`, `setup.go` | per controller: waiting for its CRD, or running | a gate that calls back once | API server |

What is hard in it:

* **Concurrency.** Up to ten reconciles run at once (`main.go:126`), replicas
  race because leader election is off by default (`main.go:57`), and a
  reconcile starts from a cache that may be behind.
* **No transaction** spans the API server and Dynatrace. A process may die, a
  call fail or a reply get lost between any two of: announcing a creation, the
  POST, recording the identifier.
* **Retries** repeat requests that are not idempotent.
* **Other hands** edit the spec, delete the resource, rotate a Secret, and
  change or delete the object in the console, at any moment.
* **Lists** are partial: bindings are set one call at a time, cost centers are
  read one page at a time.
* **References** go out of date: what a name resolves to may be deleted, or made
  anew under another identifier, between two calls.

What makes the components correct:

* the reconcile loop: one object per resource at a time; none left when the
  resource leaves the cluster; an external name in use stays; no object deleted
  for a resource it was not made for; drift corrected; deletions end;
* bindings: only listed policies are unbound; partial work is made good; a
  teardown leaves nothing bound;
* the single kinds: an object comes to be what its manifest states, whatever the
  manifest leaves out; updates end; one object however often a creation fails;
  the status of a zone tells its rules;
* keyed kinds: only named objects are deleted; listings end; nothing is left;
* host entities: the status tells an entity the spec selects, and the first one;
* the client: requests are bounded; a duplicate needs a lost reply; what counts
  as success is success;
* the token manager: cached tokens are valid; and, were it shared, a miss would
  cost one fetch and calls return. In this program it is not: every `Connect`
  makes a client and a token manager of its own (`connector.go:115`).

`PROJECT.json` lists the hazards at their lines, with the properties that
address them. Where the code does what a hazard fears, no property can promise otherwise:
the hazard says so, and names the run that shows it if one does.

## 2. The modules

| module | models | how |
|---|---|---|
| `NamedResource` | reconcile loop and the kinds with a server-made identifier, read from `policyboundary` | a task `<<replica, resource>>` walks through `pc`: `Connect`, `ObserveFound`/`ObserveAbsent`, `AddFinalizer`, `AnnounceCreate`, `Create`..., `RecordCreate`, `Update`, `Delete`, `RemoveFinalizer`; one action per call |
| `Ownership` | what the loop promises, without a loop | `Acquire`, `Lose`, `Retire`; `NamedResource` implements it under the mapping `owned` = live objects made for a resource, `retired` = resources gone; so does `KeyedResource` for users |
| `NamedResourceInv` | | two inductive invariants, `LockInv` and `OwnInv`; TLC checks the second, the proofs use both |
| `PolicyBindings` | `policybindingsv2` | one resource; `at` walks through the list of policies, one PUT or DELETE a step; `group`, `ref` and `to` are the group in Dynatrace, what its resource tells of it, and what an operation resolved it to |
| `KeyedResource` | `user`, `costcenter`, `ListCostCenters` | several resources; `page` and `seen` walk through the listing, which is cut anew for each page; `kind` is chosen initially |
| `Kinds` | what `group`, `policy`, `policyboundary`, `serviceuser` and `zonev2` send and compare, where they look, and how they are deleted | one resource, observed, updated, made again and deleted; `kind` and the kind of `server` are chosen initially; `Sent` is the body of a request, `Shown` what a reply tells, `UpToDate` the comparison |
| `ZoneRules` | `toManagementZoneV2Value`, `toZoneV2Observation` | operators on records; used by `Kinds` |
| `Configuration` | `connector.go`, `NewClient`, the credential of a request for an environment | operators: configuration and Secret to credentials, credentials to a client, a client to what the server lets in |
| `HostEntity` | `host/entity`, `LookupHostEntity`, the gate, the life of a `ClusterProviderConfig`; composes `Configuration` with the reconcile | `Establish` opens a gate, `Connect` resolves the configuration, `Observe` applies the selector, `AddFinalizer` and `WriteStatus` are two writes; users rotate Secrets, the environment moves |
| `RetryClient` | `doRequest`, `doEnvRequest` | one call; `attempt`, the response in hand, the server's objects |
| `TokenManager` | `GetToken`, `fetchToken` | callers under a read-write lock and a clock; a contract of the class, since no two goroutines of this program share one |
| `MC*` | | values of constants for TLC |
| `*_proofs` | | theorems and proofs |

Correspondence of state. `cr[c]` is the API server's object with exactly what
the provider's behaviour depends on: the spec, `crossplane.io/external-name`,
the state of the `external-create-*` annotations, the finalizer, the deletion
timestamp and the resource version. `mem` is the Go object in a reconcile,
`cache` the informer's copy. `account` is the Dynatrace account; each object
carries who made it, which no code reads and the properties need. `Unnamed`
stands for an external name equal to `metadata.name`, which every `Observe`
treats as none. Variables called *history* only record.

crossplane-runtime, the API server, the informer cache, `sync.RWMutex` and the
Dynatrace server are outside the repository. They are modelled from how it
configures and calls them, and marked external in the map:

* updates are refused when the version differs, except the one that records the
  outcome of a creation, which retries until it is written;
* a creation announced and not recorded stops the resource (`CreateIncomplete`);
  the grace period of 1 ns (`setup.go:76`) leaves no delay to model;
* a status update writes no annotation, so the external name an `Observe` sets
  in memory persists only with the next update of the object itself, the one
  that adds the finalizer or announces or records a creation;
* the reply to an update of the object is decoded over the one in memory, so
  what `Observe` wrote into the status may or may not survive it
  (`HostEntity!AddFinalizer`);
* the server hands each identifier out once, and pages are cut from the records
  present when the page is asked for.

`KeyedResource`, `PolicyBindings`, `Kinds` and `HostEntity` use one replica with a
current cache. The races of replicas and stale caches are the loop's, and
`NamedResource` checks and proves them; what the others add is in the calls
between the loop's steps. `HostEntity` has versions, because its two writes lie
apart.

A resource that is being deleted can still be edited, in every model: the spec a
reconcile walks through and the one on the API server may differ while it
deletes.

## 3. The runs

| run | shows | instance |
|---|---|---|
| `NamedResource_replicas` | types, the invariant `OwnInv`, exclusive creation, no orphans and drift corrected with two racing replicas | two replicas, one resource, two identifiers, two names, two bodies, 1 fault, 1 edit, console deletions |
| `NamedResource_two_resources` | external names in use are stable; deletions only of own objects | two resources, four identifiers, lost replies and repeated POSTs, no unique names, console deletions |
| `NamedResource_adoption` | `Ownership`, teardown and drift with lost replies on a server with unique names, from an empty account or one with a foreign object | one resource, four identifiers, 2 faults, 2 edits |
| `Kinds` | the object becomes what the manifest states, updates end, one object and one more for each cause that is counted, a faithful status, deletions end | five kinds, every manifest with fields left out, empty or set, two levels, zones of no group of rules, one, one that holds none and three, every combination of what replies may hide; 1 fault, 2 edits |
| `PolicyBindings` | only listed policies unbound, clean teardown without failures, teardown ends, drift corrected | two policies listed, a third not, a group deleted and made anew; 2 faults, 1 console change, 2 edits |
| `PolicyBindings_teardown` | **violated**: `NothingBound`, without a failure | one more policy listed, no faults |
| `PolicyBindings_references` | **violated**: `TeardownInAnyOrder` | the group goes first, no faults |
| `KeyedResource` | listings end, known causes of orphans, only named objects deleted, `Ownership` for users, teardown ends, missing objects remade | two resources, four keys, one record a page, a key edited to a new one or the other's, groups that come and go |
| `KeyedResource_paging` | **violated**: `NoOrphans` with two concurrent deletions and no failure | |
| `HostEntity` | an entity never selected is never told, the status comes to be true, deletions end | two hosts, two configurations, two Secret keys with both naming conventions, tokens and malformed data; 1 fault, 1 change of the environment, 1 edit; 306 000 states |
| `RetryClient` | bounded requests, duplicates only after a loss, honest success | every method, credential set and refusal; `maxRetries` = 3 as in the code |
| `TokenManager` | the contract of the class: exclusion, valid hits, no wasted fetch, every call returns | two callers, a unit of 15 s, lifetimes none, 15 s and 45 s, six instants |

Bounds. `MaxFaults` bounds failed calls and crashes together, `MaxEdits` (and
`MaxConsole`, `MaxMoves`) what people and environments change, `MaxTime` the
clock; `Ids` bounds creations. Every behaviour that the properties are about
needs few of each: a race needs two replicas, an orphan one lost reply or crash
and one deletion, a repeated creation two identifiers, a stale group one
deletion and one creation, an ambiguous lookup two hosts. What is unbounded in
the code and bounded only by these (the number of reconciles, versions,
requests) is bounded by nothing else in the models. The proofs assume none of
the bounds.

Fairness. All models of reconciles assume weak fairness of the steps of every
task: a resource is polled every minute (`setup.go:77`, `main.go:60`) and
requeued after an error, and the next call of a reconcile happens unless the
process dies; weak fairness of `SyncCache` says that watches deliver, of
`Establish` that CRDs are established. Faults, crashes, edits and console
changes are never fair, and neither is anything about a group or a Secret: the
liveness of `PolicyBindings`, `KeyedResource`, `Kinds` and `HostEntity` is stated
under `<>[]` of a condition on them (references resolve, groups are ready, the
Secret holds what `how_to_test.md` asks for). `TokenManager` assumes that
goroutines run and requests end (by the HTTP timeout at the latest), and strong
fairness of taking the lock, since `sync.RWMutex` hands over to the waiters in
turn.

The loops stop when the resource is gone, and a call of the client ends: their
configurations do not check deadlock. `TokenManager` never stops, and does.

### What the violated runs show

* **`PolicyBindings_teardown`.** One unbound policy is reported as the absence
  of the whole list (`policybindingsv2/controller.go:226`), and the reconciler
  lets a deleted resource go whose object is absent. A policy is added to the
  list; the resource is deleted before the next reconcile has bound it; the
  resource goes, and the other policies stay bound. `how_to_test.md:252` promises
  that deletion removes the external entities. `TeardownIsClean` proves that,
  without failures and console changes, such an edit is necessary.
* **`PolicyBindings_references`.** `Observe` resolves the group before anything
  else (`:256`) and so does `Delete` (`:383`): after the Group resource is deleted
  the bindings never leave the cluster. `how_to_test.md:255` deletes the group
  first.
* **`KeyedResource_paging`.** Two cost centers are deleted at once. One
  reconcile has read a page; the other deletes a record on it; the record the
  first one looks for moves into the page it has already read. It is reported
  absent and its resource goes. No failure is needed. The same miss does no harm
  to a resource that is not being deleted: the creation it leads to is answered
  "already exists", which `Create` counts as success. `KeyedTeardownIsClean`
  proves that a record lost between two pages, or an edited key, is necessary.

### Excepted states

Some properties except states in which the code really falls short; they are
named, not hidden.

| name | module | the state |
|---|---|---|
| `Wedged` | all loops | a process died between announcing and recording a creation, and crossplane refuses to go on until somebody intervenes |
| `Forgotten` | `PolicyBindings` | all bindings were removed in the console, or went with a group made anew, and the server answers 404, which `handleMissingBindings` takes for up to date |
| `Shared` | `KeyedResource` | two resources of one key, one of them deleted: it removes the object, the other makes it again, and they may take turns |
| `Churns` | `Kinds` | a zone without rules, or whose groups hold none, on a server that shows it without a list of them is updated for ever, because `[]` is compared with `null` (`zonev2/controller.go:409`) |
| `Unseen` | `Kinds` | a policy whose creation lost its reply is known by name only; if lists hide statements its statement is never compared |
| `Blocked` | `Kinds` | an object of the name exists where the provider does not look, and the server refuses another |
| `forsaken` | `Kinds` | counts what makes the provider lose sight of an object for good: an edit of the level, after which the external name is looked for at the other level; a lost reply to the creation of a zone beyond the one page of 500 that is listed; a lost reply while a former external name keeps the search by name off (`policyboundary/controller.go:78`). `OneObject` allows one object for each |
| dropped | `PolicyBindings` | a policy an edit took off the list stays bound: `Update` binds and never unbinds (`policybindingsv2/controller.go:361`) |
| failed gate | `HostEntity` | the gate calls back once, and an error of the set-up is logged and nothing else: the controller never runs |
| spec without name | `HostEntity` | `Observe` returns before it touches the status, which goes on telling what it told |

An emptied body counts as equal (`policyboundary/controller.go:133`).
`NamedResource!NoOrphans` and `OwnInv` hold when no reply to an executed POST is
lost. What happens otherwise is the last case of `forsaken`: after the object is
deleted in the console, a new one is posted, its reply is lost, the stale
external name stays, every later lookup is a 404, and a deletion drops the
finalizer and leaves the object.

## 4. The proofs

| module | theorem | states |
|---|---|---|
| `NamedResource_proofs` | `TypeCorrect`, `AnnouncementIsALock`, `CreationIsExclusive` | `Spec => []TypeOK`, `[]LockInv`, `[]CreateExclusive` |
| | `NamesAreStable` | `Spec => NameStable` |
| | `OwnershipIsTracked`, `NothingLeftBehind`, `ImplementsOwnership` | with `LostReplies = FALSE`: `[]OwnInv`, `[]NoOrphans`, `OwnershipKept` |
| | `DeletesOnlyForDeletions` | with `NamesApart`: `DeletesOnlyDoomed` |
| | `DeletesWhatWasMadeForIt` | with `NamesApart` and `LostReplies = FALSE`: `DeletesOnlyOwn` |
| `Kinds_proofs` | `KindsTypeCorrect`, `OneObjectAtMost`, `ZoneStatusIsFaithful` | `[]TypeOK`, `[]OneObject`, `[]StatusIsFaithful` |
| | `ComparisonIsRight`, `WhatIsWrittenAgrees` | `ComparesRightly`, `WritesAgree` |
| `ZoneRules_proofs` | `RulesReadBack` | rules converted for the status and back are the rules |
| `PolicyBindings_proofs` | `BindingsTypeCorrect`, `UnbindsOnlyWhatIsListed`, `TeardownIsClean` | `[]TypeOK`, `UnbindsOnlyListed`, `[]CleanTeardown` |
| `KeyedResource_proofs` | `KeyedTypeCorrect`, `DeletesWhatIsNamed`, `KeyedTeardownIsClean` | `[]TypeOK`, `DeletesOnlyNamed`, `[]CleanTeardown` |
| | `UsersImplementOwnership` | `OwnershipKept` |
| `HostEntity_proofs` | `HostTypeCorrect`, `EntityFitsSpec` | `[]TypeOK`, `NeverAnother` |
| `TokenManager_proofs` | `TokenInvariant`, `CacheIsExclusive`, `CachedTokensAreValid`, `FetchesAreNeeded` | `[]TokenInv`, `[]CacheExclusive`, `HitsAreValid`, `NoWastedFetch` |
| `RetryClient_proofs` | `RetryInvariant`, `SendsAreBounded`, `DuplicatesComeFromLoss`, `SuccessIsHonest` | `[]RetryInv` and its consequences |

They hold for all values of the constants that satisfy the modules' named
assumptions, which TLC evaluates on the runs' instances: any number of replicas,
resources, policies, pages, edits and failures.

*Exclusive creation.* Two tasks are both creating only if both announced the
creation. The announcement is an update, so it needs the current version, and it
leaves "pending" on the server. `CreateExclusive` is not inductive because a
task might announce from another copy of the same version; `LockInv` adds that
copies are never ahead of the server and agree with it when the version is
equal (`CacheCoherent`, `MemoryCoherent`), that a task on its way to the
announcement started from a resource with nothing pending (`PhaseFacts`), and
that "pending" and the finalizer stay while a task creates (`CreationLock`).

*No orphans, Ownership.* `OwnInv` says what a resource owns at each stage:
nothing without a finalizer, at most the object its external name identifies
when no creation is pending, nothing in the hands of a task that saw nothing and
whose version is still current (`SawNothing`), and at most what the creating
task knows while it is between the POST and the record. The assumption that no
reply to an executed POST is lost is needed (section 3, excepted states). With
lost replies and unique names, and without console deletions, `Ownership` is
model-checked (`NamedResource_adoption`).

*Stable names.* Three calls write an external name: adding the finalizer,
announcing a creation, recording its outcome. `NameInv` rests on identifiers
being handed out once: one that was given out and identifies no object never
will again (`Ages`). It says that every name around is such a one or none, that
a task on its way to create has found its own to identify nothing (`Idle`), and
that while its version is current its name is the server's. It needs no
assumption on lost replies.

*Whose object is deleted.* With two resources of one name the loop does delete
the object of the other, which it adopted; so the theorems assume that the names
a resource is applied with and edited to are its own (`NamesApart`). `ApartInv`
says that an object carries a name of the resource it was made for, that every
copy of a resource, of whatever version, leads by its external name to an object
made for that resource or by hand (`LeadsHome`), that a copy being deleted tells
of a deletion that nobody took back (`Doomed`), and that a task which deletes has
read one. A search by name then finds only what leads home. Each step is shown
to keep the creator of every object (`Keeps`), to take no deletion back and to
move versions one by one (`Forward`, `Onward`), and what it writes on the API
server is traced to where it came from (`Writes`). `DeletesOnlyDoomed` holds with
lost replies; that the resource is still there (`DeletesOnlyOwn`) then follows
from `OwnInv`, which needs the replies. With them lost, the run
`NamedResource_two_resources` checks it for one replica.

*Bindings.* The list in memory that `Delete` walks through holds nothing but what
the server's lists or an edit dropped, and deletion is final (`BindInv`): only
policies that are listed, or were, are unbound. For the clean teardown, an operation has bound, or may still have to unbind, the policies
on one side of the place it has reached in the list (`Progress`), the list in
memory and the server's agree but for what edits dropped (`ListsAgree`), and
between operations a list is bound as a whole or not the resource's
(`AllOrNothing`); so when `Observe` misses one binding, none is the resource's.

*Keys.* `KeyInv` says that a task on its way to delete belongs to a resource that
is being deleted, and holds its key unless the resource was edited since the
reconcile began. `KeptInv` adds, for a resource whose key was not edited and
whose listing was not cut: an object it made exists under its key only
(`KeyKept`) and not without a finalizer (`FinalizerFirst`), and a task about to
drop the finalizer leaves none (`LeavesNothing`). That a listing which found
nothing missed nothing (`Listing`) needs counting: the rank of a record among
those present tells its page, a creation only moves it to a later page, and a
deletion, which alone could move it back, is recorded in `shrunk`. For users no
listing is ever cut (`UsersPage`), so `KeptInv` makes every step one of
`Ownership`: an account is made only when the resource has none, because it would
have the same key. A resource whose key is edited gives up what it had claimed.
Cost centers are left out of the mapping, as the run `KeyedResource_paging` shows
they must be.

*Kinds.* `SightInv` counts: there are no more objects than the one that is found,
if one is, and those in `forsaken`. A POST follows only on a search that found
none, and then either its reply is recorded, or the search by name will find the
object, or it is counted; an edit of the level is counted when there is an object
or a POST under way, so that what it puts out of sight has been accounted for. A
deletion removes the one that is found, so none but the counted are left when
the resource goes. The bound is met: without the counter TLC finds an object left
by an edit of the level and no failure.

*Zones.* The rules of a zone are lists of groups of rules, each with lists of
attribute rules and dimension rules, converted in both directions with the folds
of the community modules. `ZoneRules_proofs` proves by induction on the numbers
below the length, in the form of a least counterexample (`EveryNumber`: the
principle of the library takes an operator as a parameter and cannot be
used), what flattening a list of lists returns, and from it that a conversion is
of the type a request or a status has and that the one for a request undoes the
one for the status. `StatusIsFaithful` and the types of `Kinds` follow. So does
`ComparesRightly`: an observation orders an update exactly when what the server
shows does not agree with the manifest or the manifest is one that churns; the
attempt to prove it showed that groups without rules churn as well. `WritesAgree`
says that what is written by the present manifest agrees with it: together, an
update is followed by rest unless somebody edits, which `Settles` checks.

*Host entities.* The version of the object in memory vouches for its spec: while
it is current, the entity in memory is one the spec selects, or the status has
it already (`LookedUp`).

*Tokens.* A request in flight is younger than the timeout and its token was
issued no earlier than it was sent (`InFlight`), so the reply is at most one
timeout old when the expiry is computed; `Timeout <= Margin`, 30 s each in the
code, makes the cache give the token up before the server does.

*One call.* `Counted` relates the loop counter to the requests sent and the
objects made to the replies lost; `Honest` relates the response in hand to what
the server holds.

Only model-checked: every liveness property, for fairness and ENABLED are out of
the prover's reach, and `Ownership` of `NamedResource` with lost replies on a
server with unique names. No module uses a RECURSIVE operator.

## 5. Not modelled

* Names and legacy identifiers of zones in `Kinds`: names are `NamedResource`'s,
  the legacy identifier is treated like the description. Fields that are copied
  alike stand for each other in `ZoneRules`.
* The level of bindings is fixed: an edit of it leaves the bindings at the former
  level, as an edit that drops a policy leaves that policy's.
* Parameters and metadata of bindings, and the groups a user or service user is
  in: sent and never compared. That they resolve, or do not yet, is modelled.
* Later edits of a service user, a user or a cost center beyond its key: `Update`
  does nothing and `Observe` reports every existing object as current.
* The permissions of a group: neither sent (`group/controller.go:135`) nor
  compared, so no step depends on them.
* Namespaced provider configurations: `how_to_test.md:21` speaks of them, but
  `connector.go:31` looks a `ClusterProviderConfig` up and nothing else.
* Usage records: no code writes one, so a configuration is let go while
  resources use it (`HostEntity!Usages`).
* `initProvider`: its name satisfies the validation of a manifest and no code
  reads it.
* The order of lists: the models' servers show boundaries, attribute values and
  tags in the order they were sent, and the code compares them in order.
* Metrics, flags and feature gates of the process, generated deep copies,
  accessors and registrations, manifests and CRDs.
* Management policies other than the default, and pausing: library features.
* Contexts: a cancelled reconcile is a failed call; the back-off between two
  attempts does not look at the context.

## 6. What could follow

* *Proofs*: `Ownership` with lost replies on a server with unique names, where
  the search by name adopts what a lost reply was about.
* *Composition*: `RetryClient` beneath `NamedResource`, whose `CreateFails` and
  `CreateRepeated` are now the outcomes `RetryClient` allows, stated again.
* *Process set-up*: flags and leader election as parameters of `NamedResource`.
