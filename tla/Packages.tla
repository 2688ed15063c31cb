------------------------------- MODULE Packages -------------------------------
(***************************************************************************)
(* How projects resolve a dependency (src/compiler/internal/pkgmgr): every *)
(* project has a lock file kaula.lock with the version it resolved, and    *)
(* all projects of a user share one cache directory per package, which     *)
(* holds one version of it and, in resolved.json, which one.               *)
(*                                                                         *)
(* The model has one package: the loop over the dependencies treats them   *)
(* one after the other and writes kaula.lock at the end, and a failure at  *)
(* a later package ends the command before that.  A version stands for a   *)
(* tag and its order, a constraint for the set of versions it matches      *)
(* (semver).  Every write and removal can fail or be cut short.  Patches   *)
(* and "pkg add" of a local path are left out.                             *)
(***************************************************************************)
EXTENDS Integers

CONSTANTS
  Projects,
  MaxVersion,   (* bound: versions ever published                          *)
  Constraints,  (* the constraints kaula.json may state                    *)
  Faults        (* whether commands are interrupted and writes fail        *)

Versions == 1 .. MaxVersion

ASSUME PackagesAssumption ==
  /\ MaxVersion \in Nat \ {0}
  /\ Constraints \subseteq SUBSET Versions
  /\ Faults \in BOOLEAN

VARIABLES
  published,   (* the registry has the tags 1 .. published                 *)
  dir,         (* the tree in the cache directory of the package           *)
  resolved,    (* resolved.json in that directory                          *)
  lock,        (* the version in kaula.lock of each project                *)
  constraint,  (* the constraint in kaula.json of each project             *)
  pc,          (* where the command of each project is                     *)
  building,    (* whether that command is a build                          *)
  want,        (* the version it reports                                   *)
  cloner,      (* whose git clone is filling the directory                 *)
  overtaken,   (* history: projects whose kaula.lock was last written      *)
               (* before the tree last changed, or while it was suspect    *)
  suspect      (* history: resolved.json may not tell what the tree is     *)

cache   == <<dir, resolved>>
history == <<overtaken, suspect>>
vars == <<published, cache, lock, constraint, pc, building, want, cloner, history>>

None    == 0    (* no file, no directory                                   *)
Torn    == -1   (* a file cut short, which does not parse                  *)
NoGit   == -2   (* a directory without .git                                *)
Damaged == -3   (* .git is there, but not all of some version              *)
Added   == -4   (* a branch that "pkg add" cloned: no version at all       *)

HasGit == dir > 0 \/ dir \in {Damaged, Added}

Init ==
  /\ published = 1
  /\ dir = None /\ resolved = None
  /\ lock = [p \in Projects |-> None]
  /\ constraint \in [Projects -> Constraints]
  /\ pc = [p \in Projects |-> "idle"]
  /\ building = [p \in Projects |-> FALSE]
  /\ want = [p \in Projects |-> None]
  /\ cloner = None
  /\ overtaken = {}
  /\ suspect = FALSE

Goto(p, place) == pc' = [pc EXCEPT ![p] = place]
Wants(p, v)    == want' = [want EXCEPT ![p] = v]

(* The command is over, its local variables are gone.                      *)
Ends(p) ==
  /\ Goto(p, "idle")
  /\ Wants(p, None)
  /\ building' = [building EXCEPT ![p] = FALSE]

Meets(p) == \E q \in Projects \ {p} : pc[q] # "idle"

(* There is a new tree, or none: no lock has been written since.  Another  *)
(* command at work may know, or be about to note, what is no longer so.    *)
StartsAfresh(p) ==
  /\ overtaken' = Projects
  /\ suspect' = Meets(p)

Doubtful == overtaken' = Projects /\ suspect' = TRUE

(* What is there is not yet, or no longer, what was there.                 *)
ChangesTree(p) == IF suspect THEN Doubtful ELSE StartsAfresh(p)

(* os.RemoveAll                                                            *)
RemoveDir(p) ==
  /\ dir' = None /\ resolved' = None
  /\ StartsAfresh(p)

Idle(p, isBuild) ==
  /\ pc[p] = "idle" /\ lock[p] # Torn
  /\ building' = [building EXCEPT ![p] = isBuild]

-----------------------------------------------------------------------------
(* The commands.                                                           *)

Unlocked(p) == HasGit    \* fault: a package without an entry is taken from the cache
Reusable(p) == lock[p] # None /\ HasGit

(* ResolveDependencies: a locked version is taken when the cache directory *)
(* has a .git.  With --offline the command ends when it has none.          *)
Build(p) ==
  /\ Idle(p, TRUE)
  /\ IF Reusable(p) THEN Goto(p, "keep") /\ Wants(p, lock[p])
                    ELSE Goto(p, "fetch") /\ UNCHANGED want
  /\ UNCHANGED <<published, cache, lock, constraint, cloner, history>>

(* FetchDependencies                                                       *)
FetchAll(p) ==
  /\ Idle(p, FALSE)
  /\ Goto(p, "fetch")
  /\ UNCHANGED <<published, cache, lock, constraint, want, cloner, history>>

(* UpdateDependencies: a directory with a resolved.json is removed first.  *)
Update(p) ==
  /\ Idle(p, FALSE)
  /\ Goto(p, "remove")
  /\ UNCHANGED <<published, cache, lock, constraint, want, cloner, history>>

Remove(p) ==
  /\ pc[p] = "remove"
  /\ IF resolved > 0 THEN RemoveDir(p) ELSE UNCHANGED <<cache, history>>
  /\ Goto(p, "fetch")
  /\ UNCHANGED <<published, lock, constraint, building, want, cloner>>

(* Fetch, step 1: what is resolved satisfies the constraint.               *)
AnyResolved(p) == resolved > 0 /\ HasGit   \* fault: the constraint is not asked
Satisfied(p) == resolved > 0 /\ resolved \in constraint[p] /\ HasGit

FetchCached(p) ==
  /\ pc[p] = "fetch" /\ Satisfied(p)
  /\ Wants(p, resolved)
  /\ Goto(p, "save")
  /\ UNCHANGED <<published, cache, lock, constraint, building, cloner, history>>

(* Step 2: the highest tag that matches.                                   *)
Matching(p) == constraint[p] \intersect (1 .. published)

ListTags(p) ==
  /\ pc[p] = "fetch" /\ ~Satisfied(p)
  /\ \E v \in Matching(p) :
       /\ \A u \in Matching(p) : u <= v
       /\ Wants(p, v)
  /\ Goto(p, "replace")
  /\ UNCHANGED <<published, cache, lock, constraint, building, cloner, history>>

(* The registry is out of reach, or no tag matches.                        *)
ListTagsFails(p) ==
  /\ pc[p] = "fetch" /\ ~Satisfied(p)
  /\ Ends(p)
  /\ UNCHANGED <<published, cache, lock, constraint, cloner, history>>

(* Step 3: another version makes way.                                      *)
NeverOutdated(p) == FALSE   \* fault: the old version stays
Outdated(p) == resolved > 0 /\ resolved # want[p]

Replace(p) ==
  /\ pc[p] = "replace"
  /\ IF Outdated(p) THEN RemoveDir(p) ELSE UNCHANGED <<cache, history>>
  /\ Goto(p, "clone")
  /\ UNCHANGED <<published, lock, constraint, building, want, cloner>>

(* CloneTag: nothing to do when there is a .git; git clone itself refuses  *)
(* a directory with something in it, and is removed when it fails.         *)
CloneSkipped(p) ==
  /\ pc[p] = "clone" /\ HasGit
  /\ Goto(p, "record")
  /\ UNCHANGED <<published, cache, lock, constraint, building, want, cloner, history>>

CloneBegins(p) ==
  /\ pc[p] = "clone" /\ dir = None
  /\ dir' = Damaged
  /\ cloner' = p
  /\ StartsAfresh(p)
  /\ Goto(p, "cloning")
  /\ UNCHANGED <<published, resolved, lock, constraint, building, want>>

CloneEnds(p) ==
  /\ pc[p] = "cloning" /\ dir = Damaged /\ cloner = p
  /\ dir' = want[p]
  /\ cloner' = None
  /\ ChangesTree(p)
  /\ Goto(p, "record")
  /\ UNCHANGED <<published, resolved, lock, constraint, building, want>>

Leftover(p) == UNCHANGED <<cache, history>>   \* fault: remains are not removed
CleanUp(p)  == RemoveDir(p)

CloneFails(p) ==
  /\ \/ pc[p] = "cloning"
     \/ pc[p] = "clone" /\ dir = NoGit
  /\ CleanUp(p)
  /\ cloner' = IF cloner = p THEN None ELSE cloner
  /\ Ends(p)
  /\ UNCHANGED <<published, lock, constraint>>

(* Step 4, SaveResolved: a failure is only a warning.                      *)
Record(p) ==
  /\ pc[p] = "record"
  /\ dir' = IF dir = None THEN NoGit ELSE dir
  /\ \/ /\ resolved' = want[p]
        /\ IF Meets(p) THEN Doubtful ELSE UNCHANGED history
     \/ Faults /\ resolved' \in {resolved, Torn} /\ Doubtful
  /\ Goto(p, "save")
  /\ UNCHANGED <<published, lock, constraint, building, want, cloner>>

(* SetPackage and SaveProjectLock; a failure is only a warning.            *)
Save(p) ==
  /\ pc[p] = "save"
  /\ \/ /\ lock' = [lock EXCEPT ![p] = want[p]]
        /\ overtaken' = IF suspect THEN overtaken ELSE overtaken \ {p}
     \/ /\ Faults
        /\ \E left \in {lock[p], Torn} : lock' = [lock EXCEPT ![p] = left]
        /\ UNCHANGED overtaken
  /\ IF building[p] THEN Goto(p, "use") /\ UNCHANGED <<building, want>> ELSE Ends(p)
  /\ UNCHANGED <<published, cache, constraint, cloner, suspect>>

(* The same file is written again when the lock was reused.                *)
Keep(p) ==
  /\ pc[p] = "keep"
  /\ \/ UNCHANGED lock
     \/ Faults /\ lock' = [lock EXCEPT ![p] = Torn]
  /\ Goto(p, "use")
  /\ UNCHANGED <<published, cache, constraint, building, want, cloner, history>>

(* A later package fails: the command ends and kaula.lock stays as it was, *)
(* whatever has been done to the directory of this one.                    *)
LaterFails(p) ==
  /\ pc[p] \in {"save", "keep"}
  /\ Ends(p)
  /\ UNCHANGED <<published, cache, lock, constraint, cloner, history>>

(* LoadPkgLibraries: the build loads what the directory now holds.         *)
Use(p) ==
  /\ pc[p] = "use"
  /\ Ends(p)
  /\ UNCHANGED <<published, cache, lock, constraint, cloner, history>>

-----------------------------------------------------------------------------
(* pkg add and pkg remove work on the same directory and read no lock.     *)

(* AddGitRepo without a .git: a shallow clone of a branch or of any ref,   *)
(* which is given no resolved.json.  Where there is a .git it is a pull,   *)
(* which fails on the detached HEAD of a tag and leaves a branch a branch; *)
(* git clone refuses a directory with something in it.                     *)
AddBegins(p) ==
  /\ pc[p] = "idle" /\ dir = None
  /\ dir' = Damaged
  /\ cloner' = p
  /\ Doubtful
  /\ Goto(p, "adding")
  /\ UNCHANGED <<published, resolved, lock, constraint, building, want>>

AddEnds(p) ==
  /\ pc[p] = "adding" /\ dir = Damaged /\ cloner = p
  /\ dir' \in {Added} \union (1 .. published)
  /\ cloner' = None
  /\ Doubtful
  /\ Ends(p)
  /\ UNCHANGED <<published, resolved, lock, constraint>>

(* A git clone that fails takes away what it made.                         *)
AddFails(p) ==
  /\ pc[p] = "adding"
  /\ dir' = None /\ resolved' = None
  /\ cloner' = IF cloner = p THEN None ELSE cloner
  /\ Doubtful
  /\ Ends(p)
  /\ UNCHANGED <<published, lock, constraint>>

(* PkgTarget.Remove                                                        *)
Discard(p) ==
  /\ pc[p] = "idle" /\ dir # None
  /\ Goto(p, "discard")
  /\ UNCHANGED <<published, cache, lock, constraint, building, want, cloner, history>>

Discarded(p) ==
  /\ pc[p] = "discard"
  /\ RemoveDir(p)
  /\ Ends(p)
  /\ UNCHANGED <<published, lock, constraint, cloner>>

-----------------------------------------------------------------------------
(* The rest of the world.                                                  *)

Removing(p) ==
  \/ pc[p] = "replace" /\ Outdated(p)
  \/ pc[p] = "remove" /\ resolved > 0
  \/ pc[p] = "discard" /\ dir # None

(* The command of p is interrupted: what it was writing is cut short, what *)
(* it was removing is half gone, what it was cloning stays as it is.       *)
Interrupt(p) ==
  /\ Faults /\ pc[p] # "idle"
  /\ \/ /\ pc[p] \notin {"cloning", "adding", "record"}
        /\ UNCHANGED <<cache, lock, history>>
     \/ /\ pc[p] \in {"save", "keep"}
        /\ lock' = [lock EXCEPT ![p] = Torn]
        /\ UNCHANGED <<cache, history>>
     \/ /\ pc[p] = "record"
        /\ \/ resolved' = Torn /\ dir' = IF dir = None THEN NoGit ELSE dir
           \/ UNCHANGED cache
        /\ Doubtful
        /\ UNCHANGED lock
     \/ /\ Removing(p)
        /\ dir' \in {dir, NoGit, Damaged}
        /\ resolved' \in {None, resolved}
        /\ Doubtful
        /\ UNCHANGED lock
     \/ /\ pc[p] \in {"cloning", "adding"}
        /\ dir' \in IF dir = None THEN {None} ELSE {dir, NoGit}
        /\ Doubtful
        /\ UNCHANGED <<resolved, lock>>
  /\ cloner' = IF cloner = p THEN None ELSE cloner
  /\ Ends(p)
  /\ UNCHANGED <<published, constraint>>

Publish ==
  /\ published < MaxVersion
  /\ published' = published + 1
  /\ UNCHANGED <<cache, lock, constraint, pc, building, want, cloner, history>>

EditConstraint(p) ==
  /\ pc[p] = "idle"
  /\ \E c \in Constraints : constraint' = [constraint EXCEPT ![p] = c]
  /\ UNCHANGED <<published, cache, lock, pc, building, want, cloner, history>>

DeleteLock(p) ==
  /\ pc[p] = "idle"
  /\ lock' = [lock EXCEPT ![p] = None]
  /\ UNCHANGED <<published, cache, constraint, pc, building, want, cloner, history>>

Command(p) == Build(p) \/ FetchAll(p) \/ Update(p) \/ AddBegins(p) \/ Discard(p)

Step(p) ==
  \/ Remove(p) \/ FetchCached(p) \/ ListTags(p) \/ Replace(p)
  \/ CloneSkipped(p) \/ CloneBegins(p) \/ CloneEnds(p) \/ CloneFails(p)
  \/ Record(p) \/ Save(p) \/ Keep(p) \/ Use(p)
  \/ AddEnds(p) \/ AddFails(p) \/ Discarded(p)

Next ==
  \/ \E p \in Projects :
       \/ Command(p) \/ Step(p) \/ ListTagsFails(p) \/ LaterFails(p) \/ Interrupt(p)
       \/ EditConstraint(p) \/ DeleteLock(p)
  \/ Publish

Spec == Init /\ [][Next]_vars

(* A command that runs goes on, each project is built again and again, a   *)
(* user gets rid of a lock file that does not parse, and the registry is   *)
(* not out of reach for ever.                                              *)
FairSpec ==
  /\ Spec
  /\ \A p \in Projects :
       /\ WF_vars(Step(p)) /\ WF_vars(Build(p))
       /\ SF_vars(ListTags(p))
       /\ WF_vars(lock[p] = Torn /\ DeleteLock(p))

-----------------------------------------------------------------------------
(* Properties.                                                             *)

Wantless == {"idle", "remove", "fetch", "adding", "discard"}

TypeOK ==
  /\ published \in Versions
  /\ dir \in Versions \union {None, NoGit, Damaged, Added}
  /\ resolved \in Versions \union {None, Torn}
  /\ lock \in [Projects -> Versions \union {None, Torn}]
  /\ constraint \in [Projects -> Constraints]
  /\ pc \in [Projects -> {"idle", "remove", "fetch", "replace", "clone", "cloning", "record",
                          "save", "keep", "use", "adding", "discard"}]
  /\ building \in [Projects -> BOOLEAN]
  /\ want \in [Projects -> Versions \union {None}]
  /\ \A p \in Projects : pc[p] \in Wantless <=> want[p] = None
  /\ cloner \in Projects \union {None}
  /\ overtaken \subseteq Projects
  /\ suspect \in BOOLEAN

(* kaula.lock gets a version only from a fetch that found it in the        *)
(* registry, or in the cache, and within the constraint of that project,   *)
(* whatever the other projects and the interruptions left in the cache.    *)
LockedVersionsMatch ==
  [][\A p \in Projects :
       lock'[p] > 0 /\ lock'[p] # lock[p] => lock'[p] \in Matching(p)]_vars

(* kaula.lock "records the exact version each dependency resolved to, so   *)
(* that builds are reproducible" (projectlock.go:28).  A build loads the   *)
(* version it reports, through updates, new tags, edits and failed clones, *)
(* with two exceptions, and no other:                                      *)
(* - it took the version from a lock that was written before the tree last *)
(*   changed: by another project, by "pkg add" or "pkg remove", or by a    *)
(*   fetch or an update of its own that then failed at a later package, or *)
(*   whose lock could not be written;                                      *)
(* - the tree is suspect: a command was cut short in a clone, a removal or *)
(*   before resolved.json was written, that file could not be written,     *)
(*   "pkg add" made the tree, or two commands met at the directory.  It    *)
(*   stays suspect until a command that is alone removes or clones it.     *)
LockOutdated(p) == p \in overtaken /\ lock[p] \in {want[p], Torn}

BuildsWhatItReports ==
  \A p \in Projects :
    pc[p] = "use" => dir = want[p] \/ LockOutdated(p) \/ suspect

(* No remains of an interrupted command keep the package from being        *)
(* fetched for ever: once commands only fail by themselves and are no      *)
(* longer cut short, a directory without .git disappears.                  *)
CutShort ==
  \E p \in Projects :
    Interrupt(p) /\ ~CloneFails(p) /\ ~ListTagsFails(p) /\ ~LaterFails(p) /\ ~AddFails(p)

RemainsDisappear ==
  []<><<CutShort>>_vars \/ (dir = NoGit ~> dir # NoGit)

=============================================================================
