# A verification of the BOSH operator

This directory holds TLA+ models of the Kubernetes operator in `src/`, TLC
configurations that check them on small instances, and TLAPS proofs. Paths in
this file are relative to `src/`.

The operator manages *BOSH Directors* through Kubernetes custom resources. A
user writes a `Release`, an `AZ`, a `Team` and so on; a controller for each kind
makes the counterpart of the resource on a Director (or in the UAA that
authenticates its clients), freezes the first spec in the status, and removes
the counterpart before the resource goes away.

## 1. Inventory

| Component | Source | State it keeps | Operations |
|---|---|---|---|
| The loop `reconcileWithBOSH` | `controllers/common.go:202-250` | none: works on a copy of one object | delete the counterpart and drop the finalizer, or freeze, claim, create, mark available |
| Clients of a namespace and of a Director | `controllers/common.go:59-200` | none | find Team, Secret and Director resource, log in |
| Release, BaseImage | `controllers/release_controller.go`, `baseimage_controller.go`, `api/v1/release_types.go`, `base_image_types.go` | original spec, warning, available | has, upload, delete by name and version |
| AZ, Extension | `controllers/az_controller.go`, `extension_controller.go`, `api/v1/az_types.go`, `extension_types.go` | original cloud properties, warning, available | post and delete a named cloud config |
| Compilation | `controllers/compilation_controller.go`, `api/v1/compilation_types.go` | original Director, warning, available | the same, with the current settings |
| Network | `controllers/network_controller.go`, `api/v1/network_types.go` | original spec, warning, available | resolve AZs, post and delete a config; compare specs |
| Deployment | `controllers/deployment_controller.go`, `api/v1/deployment_types.go` | available | log in through the one Team of the namespace, resolve all references one by one, deploy, delete; lower the flag `force_reconciliation` |
| Role | `api/v1/role_types.go` | none (no controller) | read by Deployment |
| Team | `controllers/team_controller.go`, `api/v1/team_types.go`, `controllers/helpers.go` | original Director, Secret's namespace, warning, available; a Secret | make and delete a UAA client and a Secret |
| Director | `controllers/director_controller.go`, `api/v1/director_types.go` | none | make and delete the Team of the Director |
| BOSH and UAA clients | `remote-clients/` | none | the remote calls |
| Manager | `main.go` | none | starts one controller per kind |
| API group, names, deep copies, CRDs, manifests | `api/v1/common.go`, `helpers.go`, `groupversion_info.go`, `zz_generated.deepcopy.go`, `config/`, `hack/` | none | registration, generated code, configuration |

**Interactions.** Users write specs through the API server. Watch events bring an
informer cache up to date and put keys in a work queue; the single worker of a
controller takes a key, reads the object *from the cache*, and writes status and
metadata back with the resource version it read, so that a write from an
outdated copy is refused. An error puts the key back. Between those writes the
worker calls the Director or the UAA. The other kinds depend on a Team (its
Secret has the password) and on a Director resource (it has the URLs); Networks
depend on AZs, Deployments on everything.

**What is hard.** A reconciliation is up to six remote writes to two systems that
share no transaction, started from a copy that may be old, interrupted by errors
and crashes at any point, and repeated from the start. The owner edits, deletes
and re-creates the resource meanwhile. The properties that make a component
correct are the same in spirit everywhere:

* nothing on a Director or a UAA is without a resource that will remove it;
* what is removed is what the *original* spec named, and only on demand;
* an available resource has its counterpart, with the original properties;
* the original spec never changes, and the warning tells whether the spec has;
* once all is quiet every resource is in the state its owner waits for;
* a deleted resource goes away, a created one becomes available.

Every hazard of the code is listed in `PROJECT.json` at its line, with the
properties that watch it or the reason why none does.

## 2. Modules

| Module | Models | How |
|---|---|---|
| `Controller` | what every reconciler runs on | API server, cache, queue, worker, users, errors, crashes; the shared steps that freeze the spec and set the finalizer |
| `Lifecycle` | the abstract promise | a resource is declared, claimed, terminating or gone; its counterpart exists only from the claim to the end of termination |
| `UploadController` | Release and BaseImage | artifacts on a Director, upload tasks |
| `CloudConfigController` | AZ and Extension | cloud configs by their joined names |
| `CompilationController` | Compilation | cloud configs on several Directors that come and go |
| `NetworkMatch` | the comparison of two Network specs | what it decides and how it leaves the lists it sorts in place |
| `NetworkController` | Network | cloud configs that refer to AZ resources, which come and go |
| `TeamController` | Team | clients by UAA, Secrets, Director resources that come and go |
| `DirectorController` | Director | the Director resources, and what is done to their Teams |
| `DeploymentController` | Deployment and Role | manifests by Director; the Roles, Releases and others that a manifest is made of and the Teams of the namespace, which change while it is made |
| `Tenancy` | Director and Team in one manager | composes `DirectorController` and `TeamController`; the Team reconciler finds in the shared cache what the Director reconciler lets go |
| `ControllerProofs` | | what every reconciler on `Controller` keeps, and what each kind of step does to the phases of `Lifecycle` |
| `UploadProofs`, `CloudConfigProofs`, `CompilationProofs`, `NetworkProofs`, `DeploymentProofs`, `TeamProofs` | | the theorems on each reconciler; `NetworkProofs` begins with those on the comparison |
| `TenancyProofs` | | the theorems on the Director and the Team reconcilers together |
| `MCUpload`, `MCCloudConfig`, `MCCompilation`, `MCNetwork`, `MCDeployment`, `MCTeam`, `MCTenancy` | | small instances for TLC |

The reconcilers extend `Controller` and, the Director's excepted, refine
`Lifecycle` (`ImplementsLifecycle`). `Tenancy` refines `TeamController`
(`ImplementsTeams`): to a Team, the Director reconciler is a user who creates and
deletes it, and the cached Director resources are the `director` of
`TeamController`, where an operator changes them at will. So the safety shown of
Teams alone holds in the composition, which has each reconciler with its own
cache, queue, worker and faults, and one crash for both.

**State.** An object of the API server is a record: `rv` its resource version,
`live`, `del` (deletion timestamp), `fin` (finalizer), `spec`, `orig` (the frozen
spec in the status), `warn`, `avail`. `api` and `cache` have one for each key and
`mem` the copy in the variable of the running `Reconcile`. `pc` says which call
of `Reconcile` is next, so that between two calls anything else can happen. A
spec is a model value; constants tell what a property distinguishes in it (the
artifact it names, the Director it names); the spec of a Network is a record,
because its comparison depends on the order of its lists. `rv` survives the deletion of an
object, so that a re-created one is never mistaken for the one before.

**Actions.** `Get` is the beginning of `Reconcile`; each further action is one
remote call with everything up to the next. `SaveIfPrepared` and
`UpdateIfFinalizer` are the two patterns "if the method changed something, save
it". `StatusUpdate` and `Update` follow the API server: the status is a
subresource (`config/crd/patches`), a write that changes nothing keeps the
version, the last finalizer of a deleted object takes it away, the response
replaces the copy. `Fail` is any call that returns an error without effect; a
call that had its effect and *then* returned an error is the step followed by
`Fail`. `Crash` loses everything but the API server and the remote systems, and
starts with a fresh list. Building the client of a namespace is the first such
call: its failure is `Fail` right after `Get`. `DeploymentController` (`Client`) and
`CompilationController` have it as a step of its own, because what it finds
there decides where the rest of the reconciliation goes.

**Deployments.** `Resolve` is one lookup. `work` holds the lookups still to make
(`left`) and what the former ones found, so that a Role or a Release can change
between the two times it is read (`api/v1/deployment_types.go:237-330`). A lookup is
what it is for, the resource it is of, and its place in the list that it fills;
one that finds a Role is followed by that of the Release the Role names, and
one that finds it for a job also by those of the Deployments the container
imports from (`Found`). What the manifest takes from the spec alone (the update
strategy, sums of resources, links) is part of `want`, for nothing can come
between. `moved` is a history variable: a reference has changed since the key
was last taken.

**Networks.** A subnet has four lists, in the order in which `match` sorts and
compares them; its range stands for the fields compared before, its cloud
properties for the one compared after. The words of a list are numbers, and
`Ascending` is the one sequence that has them in order: what sorting *is*, not how
`sort.StringSlice` does it. `MatchSubnet` says of each list whether the comparison
gets as far as sorting it.

**Abstractions.** There is one worker per kind, as in `main.go`
(`MaxConcurrentReconciles` is 1 and two managers are excluded by leader
election or by the single replica of the manifest). A Director or UAA call is
atomic. `DiffConfig` followed by `UpdateConfig` is one step (nobody else writes
the config; if somebody does, the second call errs, which is `Fail`). Random
passwords are only compared, so a draw is any password not in use. Names built
with a hash (`standardName`) are taken to be distinct; names built with hyphens
(`InternalName`) are modelled as what they are, concatenations, in
`CloudConfigController`; in `NetworkController` and `CompilationController` the
resources are taken to have different ones. The AZs of a Network are looked up
in one step. Informer caches of other kinds are taken for the truth of those
kinds, which changes at any moment: an outdated cache is a resource that has not
changed yet.

Definitions marked `Mutant` are versions of the definition below them with a
plausible bug. No action uses them; each property is known to fail when one of
them takes the place of the original (`PROJECT.json`, `mutants`).

## 3. Runs

| Run | Expected | Question |
|---|---|---|
| `Upload` | pass | Does one Release survive every interleaving of its owner, an outdated cache and two faults, an upload task that outlives a failed call among them, and does it get done? |
| `CloudConfig` | pass | Has the Director the original properties and nothing else, whatever the owners edit; do equal names in two namespaces stay apart? |
| `CloudConfigAmbiguous` | violation | Do any two names stay apart? |
| `Network` | pass | Does comparing, which reorders both specs, ever make another network or a false warning; does a Network whose AZs come late become available? |
| `NetworkReordered` | violation | Does a network stay as it was created? |
| `Deployment` | pass | Is any edit or force lost, is a manifest torn by anything but a change on the way, while references and Teams change between the lookups, and does a second Team that goes again keep a Deployment waiting? |
| `DeploymentImport` | violation | Is the Deployment of an import optional? |
| `Compilation` | pass | Do the latest settings reach the first Director and no other? |
| `Team` | pass | Are client and Secret always cleaned up, and do they agree until something fails? |
| `TeamRetry` | violation | Do client and Secret agree always? |
| `Tenancy` | pass | Does a Director that is deleted and re-created at any moment never leave a Team nobody deletes, and get a Team in the end? |
| `TenancyStranded` | violation | Does the Team of a deleted Director go? |

**Bounds.** `Versions` bounds the versions at which *users* write, never the
controller. Creating a resource, storing spec, finalizer and availability are
versions 1 to 4; a deletion and the release make 5 and 6. With versions up to 6 a
resource is created, made available, deleted and re-created (with another spec)
and reconciled again; with those up to 5 re-creation follows an interrupted
creation; up to 4 is enough for an edit or a deletion of an available resource,
and for a warning that comes and is withdrawn. `MaxFaults` bounds errors and
crashes; conflicts from outdated copies are not counted and happen in every run.
Two faults let a retry fail once more; in the runs with one, the state is larger
(two UAAs, two Directors) and a second fault repeats what a conflict does. A
Network has two subnets, a DNS list that comes in both orders and one AZ: the
comparison can end in the first subnet with the second one unsorted. In `Tenancy`
versions up to 4 let a Director be deleted and re-created; the generated Teams are written by
the Director reconciler and have no such bound. Two keys are enough for
interference because the state of a key is only shared through the Director and
the worker. Both are in `CloudConfig`, with versions up to 4 and one fault: each can be
made available and deleted or edited while the other is worked on.
In `Upload` one of two artifacts is `Slow`: its upload task may complete after the call
that began it has failed. In `Deployment` the owner has a container or two and
the flag; versions up to 3 let him create, edit or force, and delete. All
references are there at first but that the Network may be missing and a Release
may not have its original spec yet (`Shown0`), and one Team or two of one Director
(`Teams0`); then one thing
changes (`MaxChanges`), at any moment: one change between two lookups is what
tears a manifest, and one that removes a Role, a Release, the Network or the Team is what
makes a lookup fail. With two Teams nobody can log in until the change takes one of
them away, and the Deployment that was put off must then become available. Deadlock is not checked: with the bounds
reached and nothing to do, the system rests. TLC's constants are model values;
no symmetry is used, because liveness is checked.

**Fairness.** `WF(Step)`: a call returns (or fails, which the bound ends). `WF` of
`Watch`: the API server delivers its events. `SF(Get)`: the queue is first in
first out, so a waiting key is taken although others keep the worker busy;
weak fairness would not do, for `Get` is disabled while the worker is busy. None
is assumed of users, operators, faults and resyncs. `CloudConfigController` has no
liveness of its own: its progress is that of `Compilation`, with one Director.
The liveness of Teams and Compilations supposes that the Director's resource
stays, the creation of a Network that its AZs stay, and that of a Deployment
that from some time on its references are there and one can log in, for the
code cannot proceed without them. `Tenancy` assumes `WF` of the resync of Directors, which controller-runtime does every ten
hours: nothing else tells the Director reconciler that a Team it found
terminating has gone (`controllers/director_controller.go:89` ignores that it is
there). The other runs do not count on a resync.

### What the violations show

* **`TeamRetry`** (`controllers/team_controller.go:183-199`). Each run of the loop
  draws a password. The first stores it in the Secret and fails before it creates
  the client; the second finds the Secret, ignores that, and creates the client
  with its own password. The Team shows available and nobody can log in with its
  Secret; no later run repairs it. `UsableUntilFault` states what is left: without
  a fault they never part.
* **`CloudConfigAmbiguous`** (`api/v1/az_types.go:99-105`). The AZ `c` of the
  namespace `a-b` and the AZ `b-c` of the namespace `a` are both `az-a-b-c`. The
  second replaces the cloud properties of the first, which stays available.
* **`TenancyStranded`** (`controllers/director_controller.go:68-80`). The
  reconciler asks for the deletion of the Team and drops the Director's finalizer.
  When the Team is reconciled its Director is gone, `uaaAdminForDirector` errs on
  every retry, and the Team stays terminating, with its client and its Secret,
  until somebody creates a Director of that name again. `DirectorGetsTeam` shows
  that this repairs it.
* **`NetworkReordered`** (`api/v1/network_types.go:82-92`). `sort.StringSlice(s.DNS)`
  is a view of the list and not a copy, so the comparison in `PrepareToSave` sorts
  the lists of `status.original_spec`. The network that the second reconciliation
  posts has its DNS servers in another order than the one that was created, and
  `original_spec` is saved in that order. `OriginalIsSame` and `ConfigIsOriginal`
  state what is left: it is the same network but for the order of lists.

* **`DeploymentImport`** (`api/v1/deployment_types.go:339-346`). Each import is looked up
  as a Deployment, under the name in `imported_from`. `README.md:571` calls this
  name optional, but without it the lookup is for the empty name, which nothing has,
  and the Deployment is retried for ever. `DeploymentCompletes` is the liveness
  that is left: it wants everything named to be there, the empty name included.

Four more limits appear as assumptions.

* An upload task that outlives its call (`Slow`) leaves an artifact that nobody
  claims, so `NoOrphan` is about the others. `AvailableIsPresent` and the rest hold
  for all.
* A url that serves something else than the spec declares gives a resource that
  is available without its artifact; the properties suppose `Served = Declared`.
* A Team whose Director resource is pointed to another UAA leaves its client
  behind in the first one; in the runs each Director resource has one UAA.
* A Deployment whose Team is replaced by one of another Director is deleted there
  and stays on the first; in the run all Teams are of one Director.

And one appears in a property: a manifest can be torn, with a job whose release
is not in its list, by a change between two lookups. Nobody is told, so it stays
until a resync or a forced reconciliation. `SettledIsDictated` states that nothing
else tears one: not an edit, a fault, a retry or a change before the last `Get`. It
is also what says that no force is lost: `moved` is down from the `Get` that
finds the flag, so a forced reconciliation that resets the flag and then fails
cannot rest with the manifest of before a change. `SettledIsDeployed` alone would
be content with the flag down and the old manifest.

## 4. Proofs

`tlapm` checks the following for every set of resources and specs and all bounds.

| Theorem | States | Assumes |
|---|---|---|
| `UploadProofs!Typing` | `Spec => []TypeOK` | |
| `UploadProofs!FinalizerFrozen` | `Spec => []FinalizerIsFrozen` | |
| `UploadProofs!OriginalFrozen` | `Spec => OriginalIsFrozen` | |
| `UploadProofs!NoOrphans` | `Spec => []NoOrphan` | `Served = Declared` |
| `UploadProofs!AvailablePresent` | `Spec => []AvailableIsPresent` | `Served = Declared`, `Disjoint` |
| `UploadProofs!DeletedOnlyOnDemand` | `Spec => DeletedOnDemand` | `Served = Declared`, `Disjoint` |
| `UploadProofs!UploadImplementsLifecycle` | `Spec => ImplementsLifecycle` | `Served = Declared`, `Disjoint` |
| `UploadProofs!UploadSettled` | `Spec => []SettledIsConverged` | |
| `CloudConfigProofs!CloudConfigTyping` | `Spec => []TypeOK` | |
| `CloudConfigProofs!ConfigOriginal` | `Spec => []ConfigIsOriginal` | `Distinct` |
| `CloudConfigProofs!AvailableConfigured` | `Spec => []AvailableIsConfigured` | `Distinct` |
| `CloudConfigProofs!CloudConfigImplementsLifecycle` | `Spec => ImplementsLifecycle` | `Distinct` |
| `CloudConfigProofs!CloudConfigSettled` | `Spec => []SettledIsConverged` | |
| `CompilationProofs!CompilationTyping` | `Spec => []TypeOK` | |
| `CompilationProofs!ConfigClaimed` | `Spec => []ConfigIsClaimed` | |
| `CompilationProofs!CompilationImplementsLifecycle` | `Spec => ImplementsLifecycle` | |
| `CompilationProofs!CompilationSettled` | `Spec => []SettledIsCurrent` | |
| `NetworkProofs!ComparisonDecides` | `Match` decides `Same` and leaves the same networks | |
| `NetworkProofs!NetworkTyping` | `Spec => []TypeOK` | |
| `NetworkProofs!NetworkOriginal` | `Spec => []ConfigIsOriginal` | |
| `NetworkProofs!NetworkSettled` | `Spec => []SettledIsConverged` | |
| `NetworkProofs!NetworkOriginalIsSame` | `Spec => OriginalIsSame` | |
| `NetworkProofs!NetworkImplementsLifecycle` | `Spec => ImplementsLifecycle` | |
| `DeploymentProofs!DeploymentTyping` | `Spec => []TypeOK` | |
| `DeploymentProofs!DeploymentImplementsLifecycle` | `Spec => ImplementsLifecycle` | `OneDirector` |
| `DeploymentProofs!DeploymentSettled` | `Spec => []SettledIsDeployed` | |
| `DeploymentProofs!DeploymentDictated` | `Spec => []SettledIsDictated` | |
| `TeamProofs!TeamTyping` | `Spec => []TypeOK` | |
| `TeamProofs!NoOrphanedSecret` | `Spec => []NoOrphanSecret` | |
| `TeamProofs!NoOrphanedClient` | `Spec => []NoOrphanClient` | `OneUAA` |
| `TeamProofs!TeamUsable` | `Spec => []UsableUntilFault` | `OneUAA` |
| `TeamProofs!TeamImplementsLifecycle` | `Spec => ImplementsLifecycle` | `OneUAA` |
| `TenancyProofs!TenancyTyping` | `Spec => []TypeOK` | |
| `TenancyProofs!TenancyImplementsTeams` | `Spec => ImplementsTeams` | |
| `TenancyProofs!TeamsHaveDirectors` | `Spec => []TeamHasDirector` | |
| `TenancyProofs!TenantsLeaveNoSecret` | `Spec => []T!NoOrphanSecret` | |
| `TenancyProofs!TenantsLeaveNoClient` | `Spec => [](T!NoOrphanClient /\ T!UsableUntilFault)` | `OneUAA` |

Beside the assumptions on constants that each module declares, which TLC
evaluates, there are five. `Served = Declared`: a url serves the artifact that the
spec names. `Disjoint`: no two resources ever name the same artifact. `Distinct`: no
two resources have the same joined name; `CloudConfigAmbiguous` shows what comes
of one that they share. `OneUAA`: a Director resource is not pointed to another UAA.
`OneDirector`: the Teams of a namespace log in to one Director; with two, a Deployment
whose Team is replaced is deleted on the wrong one.

The assumption of `NetworkController` that what a comparison leaves of two specs
is a spec restricts nothing: `ComparisonDecides` shows that the set of all networks
has this property.

**What every reconciler keeps.** `FinalizerIsFrozen` and `OriginalIsFrozen` are not
inductive: a write is made from `mem`, and nothing in them speaks of copies. The
strengthening, `CtrlInv` in `ControllerProofs`, says of every object and copy
that it is `Sane` (a deletion timestamp implies a finalizer, an absent object is
blank) and, where the kind has an original spec, `Frozen` (a finalizer comes with
it), that at most one key is being
reconciled, and of each copy, in the cache or in memory, that it is a `Copy`: not
newer than the stored object, equal to it if the versions are equal, and, if it
shows a finalizer and no deletion, then the stored object still has that
finalizer and the same original spec. So a write either is refused or starts
from the truth. `CtrlInv` is preserved by users, watch, resync, errors and
crashes (`EnvironmentStep`, `UserStep`) and by the two kinds of write (`WriteStep`
and the lemmas on it), for any reconciler; the module of a reconciler adds only
what holds *at* its steps (`AtStep`): what each value of `pc` implies of `mem` (at
`upload`, for instance, the copy has a finalizer and no deletion).

**Nothing orphaned** (`NoOrphans`, `ConfigOriginal`, `ConfigClaimed`, `NoOrphanedClient`,
`NoOrphanedSecret`). This needs the third part of `Copy`: when the counterpart is
made the object may already be terminating, but only a reconciliation can remove
its finalizer, one runs at a time, and it runs from a copy that shows the
deletion. So what is made is claimed. In the other direction the invariants
(`ArtifactInv`, `ConfInv`, `ClientInv`, `SecretInv`) say that at `unfinalize` the Director,
or the UAA, no longer has what the resource names.

**The refinement of `Lifecycle`.** The phase of a resource is a function of its
object, so the question is what a write does to it. `PhaseInv` adds what an
outdated copy still tells: if it shows a deletion, then the object that is there
now is terminating as well *or* has no finalizer (`Deletion`), so nobody's
counterpart is deleted by mistake; and an available object has its finalizer.
From these `ControllerProofs` shows for each kind of step that the phases stay or one
of them makes a move of `Lifecycle`; `OwnerMoves` are those of the users. The
module of a reconciler joins this with its invariant about the counterparts,
step by step.

**No change is lost** (`UploadSettled`, `CloudConfigSettled`, `CompilationSettled`,
`NetworkSettled`, `DeploymentSettled`).
`SettledIsConverged` speaks of states at rest, so the invariant must say for each
state that is not at rest why the resource is not forgotten: its key is queued,
or the cache is outdated (so a watch event will queue it), or a reconciliation is
running whose copy is the cached one and whose steps so far have found or put
everything in place (`Followed`, `Tracked`). The point of the proof is that a write
that is refused puts the key back, and one that is accepted makes the cache
outdated unless it changes nothing.

**Client and Secret** (`TeamUsable`). Between two calls they differ. `PairInv` says
when: after the Secret is made the UAA has no client, and the password in the
variables of the reconciliation is that of the Secret; between the two deletions there is
no client. That a deletion from an outdated copy goes to the right UAA is
`OriginInv`: such a copy has the original Director of the object that is there.

**Comparing networks** (`ComparisonDecides`). Three things are shown of a sequence of
numbers: it has an ascending arrangement, it has only one, and two sequences
have the same one exactly if they have the same elements equally often. The first
would be an induction over sequences; instead, there is no least number of places
that cannot be put right, for a swap with the least of the rest puts one more
right (`PlaceOne`, `CanBeSorted`). From there the lists, the subnets and the networks follow, each "up to the first
difference": whatever was sorted before the comparison ended, each spec is still
`Same` as itself.

**Networks.** A comparison that finds nothing to report still leaves `mem` sorted,
and nothing is saved: `mem` and the stored object then differ at the same version,
and `CtrlInv` does not hold. `NetworkInv` has its clauses up to the order of lists
(`SameSpec`, `Near`, `Seen`), for each resource its object, its two copies, its step
and its network (`Local`). Every action is shown to be a `KeyStep`, which changes
these of one key and keeps `Local` of it; the others follow. `ComparisonDecides` is what the
comparing step needs, and the network that is posted is that of the copy, so it is
the original up to order.

**Deployments.** The status has no original spec, and `force_reconciliation` makes the
reconciler write the *spec*, so that any spec must be accepted of any owner
(`AnySpec`). `WorkInv` types the lookups: each pending one is of a place that the spec
has, and there is at least one at `resolve`. `SettledIsDictated` needs that
what is put together while nothing changes is right although it is incomplete.
`FaithInv` says so part by part: the part is what the resources dictate, *or* the lookup that
brings it is pending; each pending lookup of a Release is of the one the Role names
now; and no release is listed that no Role names. So when nothing is pending
everything is there. `TrackedInv` carries the manifest from there to rest.
Only for the refinement is there a hypothesis, `OneDirector`, for what is deleted is
deleted where the Team now points.

**Directors and Teams.** `TenancyProofs` instantiates `ControllerProofs` for the Directors
and `TeamProofs` for the Teams, so that its own lemmas are only about what joins the
two. Every step of the composition is a step of `TeamController` or leaves it alone
(`TenancyImplementsTeams`): the Director reconciler creates Teams as a user does,
its deletion is a user's, and what it does to the cached Directors is an
operator's change, because a cached Director only ever takes specs it may
point to. The theorems on Teams follow for the composition. `TeamHasDirector` needs
`TeamsInv`: a Team that stays has a Director with a finalizer, and when the finalizer is about
to go the Team does not stay. What could break it, a Team made from an outdated copy of a Director,
is excluded by `Copy`: the copy shows a finalizer and no deletion, so the finalizer is still there.

**Only model-checked**: liveness (`Completes`, `CreationCompletes`, `DeletionCompletes`,
`DeploymentCompletes`, `DirectorDeletionCompletes`, `DirectorGetsTeam`), which rests on
fairness and so on ENABLED, out of the prover's reach; and the five properties that
the code violates. Every invariant, action property and refinement that a passing
run checks is also a theorem.

## 5. Not modelled

* Two Directors in one namespace. The other kinds log in through the one Team of
  their namespace; if that Team is replaced by one of another Director, what they
  made stays on the first. `DeploymentController` has Teams that come, go and are
  doubled, all of one Director; for the other kinds the login is a call that
  may fail.
* Users who write the Team that was generated for a Director.
* Two resources that name one artifact: the Director has it once, and deleting
  one resource deletes it for both. `README.md:744-747` says that resources are
  global and prone to collision. The theorems assume that the owners name
  different ones (`Disjoint`).
* A manual deletion of a Secret; names longer than Kubernetes allows; a list
  after a restart that is itself outdated.
* The rejection of a Director or a Compilation outside the manager's namespace
  (`controllers/director_controller.go`, `compilation_controller.go`), which changes no state.
* Connections, certificates, tokens, logging, metrics, flags, scheme registration,
  manifests; and generated code: `api/v1/zz_generated.deepcopy.go` is a quarter of
  the implementation's lines and copies structures.

## 6. Plan

Done: `Controller`, `Lifecycle`, the reconcilers of all kinds, `Tenancy`; proofs of
every safety property of the runs. Next, in this order:

1. Weaker hypotheses: what `OneUAA` and `OneDirector` leave of `NoOrphanClient` and
   `ImplementsLifecycle`, for instance for the Teams whose Director resource was
   not changed since they were claimed.
2. `NoOrphan` without `Served = Declared`, for the artifacts that the specs declare.
3. The steps on which liveness rests, as theorems that need no fairness: that a
   deleted resource moves only towards its end, a queued key stays queued until
   it is taken.
4. Two Directors in a namespace: what a Team that is replaced leaves behind, for
   Deployments and for one of the other kinds.
