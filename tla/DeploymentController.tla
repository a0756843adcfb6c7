------------------------- MODULE DeploymentController --------------------------
(***************************************************************************)
(* The Deployment reconciler.  A Deployment is posted to the Director that *)
(* the one Team of its namespace logs in to, as a manifest that is put     *)
(* together from the resources it refers to: the Role of each container,   *)
(* the Release of each Role, a BaseImage, AZs, Extensions, a Network, and  *)
(* other Deployments to import from.  They are looked up one after the     *)
(* other in the manager's cache, while others change them, and nobody is   *)
(* told of their changes: an owner sets force_reconciliation to have a     *)
(* manifest made anew.                                                     *)
(*                                                                         *)
(* The status has no original spec and no warning; both stay None, FALSE.  *)
(***************************************************************************)
EXTENDS Controller, SequencesExt

CONSTANTS
    Want,        \* what a spec asks for, but for force_reconciliation
    Role, Release, Other,   \* the resources referred to, by kind and name
    NoName,      \* the empty name, which a spec may give for a Deployment
    RolesOf,     \* RolesOf[w]: the Roles of the containers of w
    ImportsOf,   \* ImportsOf[w][i]: the Deployments its container i imports from
    ImageOf, AZsOf,  \* the BaseImage and the AZs of w
    RestOf,      \* the Extensions of w, then its Network
    Content,     \* what a resource can say: the spec of a Role, the original
                 \* spec of a Release or a BaseImage, just that it is there
    ContentOf,   \* ContentOf[r]: what r can say
    ReleaseOf,   \* ReleaseOf[c]: the Release that the Role spec c names
    Team, Director, Unready,
    Shown0, Teams0,  \* what the manager may find of both when it starts first
    MaxChanges       \* bound: changes of both from then on

Ref == Role \union Release \union Other \union {NoName}

\* What is posted to the Director.
Job == [role : Content \union {None}, release : Content \union {None}]
Jobs == UNION {[DOMAIN RolesOf[w] -> Job] : w \in Want}
Manifest == [want : Want, releases : SUBSET Content, image : Content, jobs : Jobs]

ASSUME DeploymentAssumption ==
    /\ Specs = [want : Want, force : BOOLEAN]
    /\ RolesOf \in [Want -> Seq(Role)]
    /\ \A w \in Want : ImportsOf[w] \in [DOMAIN RolesOf[w] -> Seq(Ref)]
    /\ ImageOf \in [Want -> Other]
    /\ AZsOf \in [Want -> Seq(Other)]
    /\ RestOf \in [Want -> Seq(Other)]
    /\ ContentOf \in [Ref -> SUBSET Content]
    /\ ContentOf[NoName] = {}
    /\ \A r \in Role : \A c \in ContentOf[r] : ReleaseOf[c] \in Release
    /\ Shown0 \subseteq [Ref -> Content \union {None}]
    /\ \A s \in Shown0, r \in Ref : s[r] \in ContentOf[r] \union {None}
    /\ Teams0 \subseteq [Team -> Director \union {None, Unready}]
    /\ None \notin Content \union Director \union Manifest
    /\ Unready \notin Director \union {None}
    /\ MaxChanges \in Nat

VARIABLES
    manifest,  \* the manifest of each deployment, by Director
    shown,     \* what the cache has of each resource; None: not found
    teams,     \* the Director each Team logs in to; None: no such Team
    changes,   \* changes of shown and teams so far
    work,      \* what the running Reconcile holds in its variables
    moved      \* history: a resource has changed since the last Get of a key

external == <<manifest, shown, teams, changes>>
vars == <<ctrlVars, external, work, moved>>

CreateSteps == {"finalize", "resolve", "create", "save"}
DeleteSteps == {"delete", "unfinalize"}

\* A reference to resolve: what for, and at which place of which list.
Uses == {"list", "listed", "job", "released", "image", "exists"}
Lookup == [use : Uses, ref : Ref, at : Nat]

NoWork == [director |-> None, left |-> <<>>, releases |-> {}, image |-> None,
           jobs |-> <<>>]

TypeOK ==
    /\ CtrlTypeOK({"idle", "reset", "client"} \union CreateSteps \union DeleteSteps)
    /\ manifest \in [Director -> [Key -> Manifest \union {None}]]
    /\ shown \in [Ref -> Content \union {None}]
    /\ teams \in [Team -> Director \union {None, Unready}]
    /\ changes \in 0..MaxChanges
    /\ work \in [director : Director \union {None},
                 left : Seq(Lookup), releases : SUBSET Content,
                 image : Content \union {None}, jobs : Jobs \union {<<>>}]
    /\ moved \in [Key -> BOOLEAN]

Init ==
    /\ CtrlInit
    /\ manifest = [d \in Director |-> [k \in Key |-> None]]
    /\ shown \in Shown0
    /\ teams \in Teams0
    /\ changes = 0
    /\ work = NoWork
    /\ moved = [k \in Key |-> FALSE]

-----------------------------------------------------------------------------
KeepWork == work' = IF Idle' THEN NoWork ELSE work

Get(k) ==
    /\ Dequeue(k)
    /\ \/ ~ cache[k].live /\ Goto(k, "idle", cache[k])
       \/ /\ cache[k].live
          /\ Goto(k, IF cache[k].spec.force THEN "reset" ELSE "client", cache[k])
    /\ moved' = [moved EXCEPT ![k] = FALSE]
    /\ UNCHANGED <<api, cache, faults, external, work>>

\* Mutant: the flag is reset on the copy and not saved.
ResetForceUnsaved(k) ==
    /\ pc[k] = "reset"
    /\ Goto(k, "client", [mem[k] EXCEPT !.spec.force = FALSE])
    /\ UNCHANGED <<api, cache, queue, faults, external, work, moved>>

\* Before anything else, and for a Deployment that is being deleted as well.
ResetForce(k) ==
    /\ pc[k] = "reset"
    /\ Update(k, [mem[k] EXCEPT !.spec.force = FALSE], "client")
    /\ KeepWork
    /\ UNCHANGED <<external, moved>>

-----------------------------------------------------------------------------
(* The lookups that resolve the references of w, in the order of the code.  *)
(* The Roles are looked up twice, and each time the Release of the Role as  *)
(* it is then: for the list of releases, and for the jobs.                  *)

Each(use, refs) == [i \in DOMAIN refs |-> [use |-> use, ref |-> refs[i], at |-> i]]

\* The releases, the stemcell, and then, with the imports of each container
\* after its job (see Found), the instance group.
Lookups(w) ==
    Each("list", RolesOf[w])
      \o Each("image", <<ImageOf[w]>>)
      \o Each("exists", AZsOf[w])
      \o Each("job", RolesOf[w])
      \o Each("exists", RestOf[w])

\* The work for the spec w at the first lookup.
Begun(w) ==
    [work EXCEPT !.left = Lookups(w),
                 !.jobs = [i \in DOMAIN RolesOf[w] |-> [role |-> None, release |-> None]]]

\* boshClientForNamespace wants exactly one Team in the namespace, with its
\* Secret and its Director.
TheTeam(t) == {u \in Team : teams[u] # None} = {t} /\ teams[t] # Unready

\* Mutant: a Deployment whose Team is gone is let go.
ClientGivingUp(k) ==
    /\ pc[k] = "client"
    /\ \/ \E t \in Team :
             /\ TheTeam(t)
             /\ work' = [NoWork EXCEPT !.director = teams[t]]
             /\ Goto(k, IF mem[k].del THEN "delete" ELSE "finalize", mem[k])
             /\ UNCHANGED queue
       \/ /\ \A t \in Team : ~ TheTeam(t)
          /\ work' = NoWork
          /\ IF mem[k].del THEN Goto(k, "unfinalize", mem[k]) /\ UNCHANGED queue
                           ELSE Retry(k)
    /\ UNCHANGED <<api, cache, faults, external, moved>>

Client(k) ==
    /\ pc[k] = "client"
    /\ \/ \E t \in Team :
             /\ TheTeam(t)
             /\ work' = [NoWork EXCEPT !.director = teams[t]]
             /\ Goto(k, IF mem[k].del THEN "delete" ELSE "finalize", mem[k])
             /\ UNCHANGED queue
       \/ /\ \A t \in Team : ~ TheTeam(t)
          /\ work' = NoWork
          /\ Retry(k)
    /\ UNCHANGED <<api, cache, faults, external, moved>>

\* Mutant: one that is available already is not posted again.
EnsureFinalizerOnce(k) ==
    /\ pc[k] = "finalize"
    /\ UpdateIfFinalizer(k, TRUE, IF mem[k].avail THEN "save" ELSE "resolve")
    /\ work' = IF Idle' THEN NoWork
               ELSE Begun(mem[k].spec.want)
    /\ UNCHANGED <<external, moved>>

EnsureFinalizer(k) ==
    /\ pc[k] = "finalize"
    /\ UpdateIfFinalizer(k, TRUE, "resolve")
    /\ work' = IF Idle' THEN NoWork
               ELSE Begun(mem[k].spec.want)
    /\ UNCHANGED <<external, moved>>

\* Mutant: the list keeps the last release alone.
FoundLast(w, c) ==
    LET i == Head(work.left).at
        rest == [work EXCEPT !.left = Tail(@)]
        next(use, refs) ==
            [work EXCEPT !.left = <<[use |-> use, ref |-> ReleaseOf[c], at |-> i]>>
                                     \o refs \o Tail(@)]
        job == [role |-> c, release |-> None]
        imports == Each("exists", ImportsOf[w][i])
    IN
    CASE Head(work.left).use = "list"     -> next("listed", <<>>)
      [] Head(work.left).use = "listed"   -> [rest EXCEPT !.releases = {c}]
      [] Head(work.left).use = "image"    -> [rest EXCEPT !.image = c]
      [] Head(work.left).use = "job"      -> [next("released", imports) EXCEPT !.jobs[i] = job]
      [] Head(work.left).use = "released" -> [rest EXCEPT !.jobs[i].release = c]
      [] Head(work.left).use = "exists"   -> rest

\* The work for the spec w after the first lookup has found c.
Found(w, c) ==
    LET i == Head(work.left).at
        rest == [work EXCEPT !.left = Tail(@)]
        next(use, refs) ==
            [work EXCEPT !.left = <<[use |-> use, ref |-> ReleaseOf[c], at |-> i]>>
                                     \o refs \o Tail(@)]
        job == [role |-> c, release |-> None]
        imports == Each("exists", ImportsOf[w][i])
    IN
    CASE Head(work.left).use = "list"     -> next("listed", <<>>)
      [] Head(work.left).use = "listed"   -> [rest EXCEPT !.releases = @ \union {c}]
      [] Head(work.left).use = "image"    -> [rest EXCEPT !.image = c]
      [] Head(work.left).use = "job"      -> [next("released", imports) EXCEPT !.jobs[i] = job]
      [] Head(work.left).use = "released" -> [rest EXCEPT !.jobs[i].release = c]
      [] Head(work.left).use = "exists"   -> rest

\* Mutant: what is not found is passed over.
ResolvePassing(k) ==
    LET l == Head(work.left)
        c == shown[l.ref]
    IN
    /\ pc[k] = "resolve"
    /\ \/ /\ c # None \/ l.use \in {"image", "exists"}
          /\ work' = Found(mem[k].spec.want, c)
          /\ Goto(k, IF work'.left = <<>> THEN "create" ELSE "resolve", mem[k])
          /\ UNCHANGED queue
       \/ /\ c = None /\ l.use \notin {"image", "exists"}
          /\ work' = NoWork
          /\ Retry(k)
    /\ UNCHANGED <<api, cache, faults, external, moved>>

Resolve(k) ==
    LET c == shown[Head(work.left).ref] IN
    /\ pc[k] = "resolve"
    /\ \/ /\ c # None
          /\ work' = Found(mem[k].spec.want, c)
          /\ Goto(k, IF work'.left = <<>> THEN "create" ELSE "resolve", mem[k])
          /\ UNCHANGED queue
       \/ /\ c = None
          /\ work' = NoWork
          /\ Retry(k)
    /\ UNCHANGED <<api, cache, faults, external, moved>>

-----------------------------------------------------------------------------
\* What else is in the manifest follows from the spec.
Assembled(k) ==
    [want |-> mem[k].spec.want, releases |-> work.releases, image |-> work.image,
     jobs |-> work.jobs]

\* The manifest is posted again in every reconciliation, changed or not.
CreateDeployment(k) ==
    /\ pc[k] = "create"
    /\ manifest' = [manifest EXCEPT ![work.director][k] = Assembled(k)]
    /\ Goto(k, "save", mem[k])
    /\ UNCHANGED <<api, cache, queue, faults, shown, teams, changes, work, moved>>

SaveAvailable(k) ==
    /\ pc[k] = "save"
    /\ StatusUpdate(k, [mem[k] EXCEPT !.avail = TRUE], "idle")
    /\ work' = NoWork
    /\ UNCHANGED <<external, moved>>

DeleteDeployment(k) ==
    /\ pc[k] = "delete"
    /\ manifest' = [manifest EXCEPT ![work.director][k] = None]
    /\ Goto(k, "unfinalize", mem[k])
    /\ UNCHANGED <<api, cache, queue, faults, shown, teams, changes, work, moved>>

EnsureNoFinalizer(k) ==
    /\ pc[k] = "unfinalize"
    /\ UpdateIfFinalizer(k, FALSE, "idle")
    /\ work' = NoWork
    /\ UNCHANGED <<external, moved>>

-----------------------------------------------------------------------------
\* Owners and the other reconcilers change what is referred to, and the
\* manager sees it.
Change(r) ==
    /\ changes < MaxChanges
    /\ changes' = changes + 1
    /\ \E c \in ContentOf[r] \union {None} :
          c # shown[r] /\ shown' = [shown EXCEPT ![r] = c]
    /\ moved' = [k \in Key |-> TRUE]
    /\ UNCHANGED <<ctrlVars, manifest, teams, work>>

\* So they do with the Teams of the namespace.
ChangeTeam(t) ==
    /\ changes < MaxChanges
    /\ changes' = changes + 1
    /\ \E d \in Director \union {None, Unready} :
          d # teams[t] /\ teams' = [teams EXCEPT ![t] = d]
    /\ UNCHANGED <<ctrlVars, manifest, shown, work, moved>>

Step(k) ==
    \/ ResetForce(k) \/ Client(k) \/ EnsureFinalizer(k) \/ Resolve(k)
    \/ CreateDeployment(k) \/ SaveAvailable(k)
    \/ DeleteDeployment(k) \/ EnsureNoFinalizer(k)

Environment(k) ==
    /\ \/ UserCreate(k) \/ UserEdit(k) \/ UserDelete(k)
       \/ Watch(k) \/ Resync(k) \/ Fail(k) \/ Crash
    /\ KeepWork
    /\ UNCHANGED <<external, moved>>

Next ==
    \/ \E k \in Key : Get(k) \/ Step(k) \/ Environment(k)
    \/ \E r \in Ref : Change(r)
    \/ \E t \in Team : ChangeTeam(t)

Spec == Init /\ [][Next]_vars

Fairness ==
    \A k \in Key : /\ WF_vars(Step(k))
                   /\ WF_vars(Watch(k) /\ KeepWork /\ UNCHANGED <<external, moved>>)
                   /\ SF_vars(Get(k))

FairSpec == Spec /\ Fairness

-----------------------------------------------------------------------------
\* The manifest that the resources, as the cache has them now, make of w.
Dictated(w) ==
    LET role(i) == shown[RolesOf[w][i]]
        release(i) == shown[ReleaseOf[role(i)]]
        containers == DOMAIN RolesOf[w]
    IN
    [want |-> w,
     releases |-> {release(i) : i \in containers},
     image |-> shown[ImageOf[w]],
     jobs |-> [i \in containers |-> [role |-> role(i), release |-> release(i)]]]

\* No edit is lost and no flag stays up: once nothing is queued or running for
\* a Deployment, its flag is down, it is available, not waiting to be deleted,
\* and a Director has what the latest spec wants.  (That a forced one has been
\* posted again is part of SettledIsDictated.)
SettledIsDeployed ==
    \A k \in Key : Settled(k) /\ api[k].live =>
        /\ ~ api[k].del /\ api[k].avail /\ ~ api[k].spec.force
        /\ \E d \in Director : /\ manifest[d][k] # None
                               /\ manifest[d][k].want = api[k].spec.want

\* Looking things up one by one tears a manifest only if something changed on
\* the way: what a Director is left with is otherwise what the resources
\* dictate, each job with a release that is in the list.  As moved is down from
\* the last Get on, a force_reconciliation that is reset and then fails does
\* not come to rest with the manifest of before a change.
SettledIsDictated ==
    \A k \in Key : Settled(k) /\ api[k].live /\ ~ moved[k] =>
        \E d \in Director : manifest[d][k] = Dictated(api[k].spec.want)

\* A namespace from which one can log in, and all that w names in it.
Login == \E t \in Team : TheTeam(t)
Named(w) == UNION {{RolesOf[w][i]} \union ToSet(ImportsOf[w][i]) : i \in DOMAIN RolesOf[w]}
            \union {ImageOf[w]} \union ToSet(AZsOf[w]) \union ToSet(RestOf[w])
Resolvable(w, refs) ==
    /\ \A r \in refs : shown[r] # None
    /\ \A r \in refs \intersect Role : shown[ReleaseOf[shown[r]]] # None

\* A Deployment becomes available with its flag down, unless its owner deletes
\* it first, if what it refers to is there from some time on.
DeploymentCompletes ==
    \A k \in Key :
        api[k].live /\ [](Login /\ (api[k].live => Resolvable(api[k].spec.want,
                                                              Named(api[k].spec.want))))
            ~> ~ api[k].live \/ api[k].del \/ (api[k].avail /\ ~ api[k].spec.force)

\* "imported_from: Optional string referencing the name of another Deployment"
\* (README.md:571): an import that names none does not stand in the way.
ImportIsOptional ==
    \A k \in Key :
        api[k].live /\ [](Login /\ (api[k].live => Resolvable(api[k].spec.want,
                                          Named(api[k].spec.want) \ {NoName})))
            ~> ~ api[k].live \/ api[k].del \/ api[k].avail

Promise == INSTANCE Lifecycle WITH
    phase <- [k \in Key |-> Phase(api[k])],
    ext <- [k \in Key |-> \E d \in Director : manifest[d][k] # None]

\* The Deployment reconciler keeps the promise of every reconciler, if all
\* Teams of the namespace log in to one Director.
ImplementsLifecycle == Promise!Spec

=============================================================================
