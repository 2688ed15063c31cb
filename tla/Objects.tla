------------------------------- MODULE Objects -------------------------------
(***************************************************************************)
(* What the linker is given beside the program (compileCCode,               *)
(* compileBootKernel and compileUserProgram of cmd/kaulac/main.go, and      *)
(* internal/stdlib/builder.go): objects of the std modules in use and of    *)
(* the runtime, reused by their times, the archive of a library, and for a  *)
(* bare machine objects that are compiled anew.                             *)
(*                                                                          *)
(* One build runs at a time, with several clang beside each other; it may   *)
(* be killed, and sources may be edited, at any time.  The text of a source *)
(* stands for it alone: the headers it includes and the options it is       *)
(* compiled with have no part in the reuse of its object.  clang and ar put *)
(* their output in place at once.                                           *)
(***************************************************************************)
EXTENDS Naturals, FiniteSets

CONSTANTS
  Modules, Deps,         \* the std modules, and dependencies.json
  StdFiles, ModuleOf,    \* their C files, of all std directories that are found
  RuntimeFiles,          \* kmm_scoped_allocator_v4.c, spend_call.c, allocator.c
  LibFiles,              \* the sources of a library
  Required, Optional,    \* on a bare machine: program and stub; runtime and allocator
  Texts,                 \* what a source may contain
  None,                  \* no file
  CPUs                   \* runtime.NumCPU

\* A file has one role, and an object that is there tells from none.
ObjectsAssumption ==
  /\ Deps \in [Modules -> SUBSET Modules] /\ ModuleOf \in [StdFiles -> Modules]
  /\ None \notin Texts /\ None \notin [LibFiles -> Texts]
  /\ Modules \cap (RuntimeFiles \cup LibFiles \cup Required \cup Optional) = {}
  /\ StdFiles \cap (RuntimeFiles \cup LibFiles \cup Required \cup Optional) = {}
  /\ RuntimeFiles \cap (LibFiles \cup Required \cup Optional) = {}
  /\ LibFiles \cap (Required \cup Optional) = {}

Sources == StdFiles \cup RuntimeFiles \cup LibFiles \cup Required \cup Optional
\* A module that several directories have shares one object, its name.
ObjectOf(s) == IF s \in StdFiles THEN ModuleOf[s] ELSE s
Objects == {ObjectOf(s) : s \in Sources}
FilesOf(m) == {s \in StdFiles : ModuleOf[s] = m}

VARIABLES
  text,      \* the sources
  object,    \* the text that an object was compiled from
  newer,     \* the sources that their object is not older than
  archive,   \* the texts in the archive of the library
  fresh,     \* the sources that the archive is not older than
  pc,        \* where the build is
  kind,      \* the program: with the source tree, with installed libraries, for a bare machine
  library,   \* the program uses the library
  used,      \* usedModules, of the program and its imports
  queue, listed,  \* modules whose dependencies are to be added, and have been
  todo,      \* sources that are to be compiled
  clangs,    \* the running compilers: source and the text they have read
  failed,    \* sources that could not be compiled in this build
  linked,    \* the objects given to the linker, with their text
  since,     \* history: the texts of a source since the build began
  raced      \* history: sources that had been edited when their last output, the object
             \* or the archive, was put in place

files == <<object, newer, archive, fresh>>
request == <<kind, library, used>>
work == <<queue, listed, todo, clangs, failed, linked>>
history == <<since, raced>>
vars == <<text, files, pc, request, work, history>>

PCs == {"idle", "modules", "std", "runtime", "library", "archive", "bare", "link", "done", "failed"}

TypeOK ==
  /\ text \in [Sources -> Texts]
  /\ object \in [Objects -> Texts \cup {None}]
  /\ newer \subseteq Sources
  /\ archive \in [LibFiles -> Texts] \cup {None}
  /\ fresh \subseteq LibFiles
  /\ pc \in PCs
  /\ kind \in {"tree", "installed", "bare"}
  /\ used \subseteq Modules /\ queue \subseteq Modules /\ listed \subseteq Modules
  /\ library \in BOOLEAN
  /\ todo \subseteq Sources /\ failed \subseteq Sources /\ raced \subseteq Sources
  /\ clangs \subseteq [source: Sources, text: Texts]
  /\ linked \subseteq [object: Objects, text: Texts]
  /\ since \in [Sources -> SUBSET Texts]

Init ==
  /\ text \in [Sources -> Texts]
  /\ object = [o \in Objects |-> None] /\ newer = {}
  /\ archive = None /\ fresh = {}
  /\ pc = "idle"
  /\ kind \in {"tree", "installed", "bare"} /\ library \in BOOLEAN
  /\ kind = "bare" => ~library
  /\ used = {} /\ queue = {} /\ listed = {} /\ todo = {} /\ clangs = {} /\ failed = {} /\ linked = {}
  /\ since = [s \in Sources |-> {text[s]}] /\ raced = {}
-----------------------------------------------------------------------------
\* The sources that builds of the program compile.
Relevant ==
  CASE kind = "bare" -> Required \cup Optional
    [] kind = "installed" -> StdFiles \cup (IF library THEN LibFiles ELSE {})
    [] OTHER -> StdFiles \cup RuntimeFiles \cup (IF library THEN LibFiles ELSE {})

Edit ==
  \E s \in Relevant, t \in Texts :
    /\ t # text[s]
    /\ text' = [text EXCEPT ![s] = t]
    /\ newer' = newer \ {s} /\ fresh' = fresh \ {s}
    /\ since' = [since EXCEPT ![s] = IF pc = "idle" THEN {t} ELSE @ \cup {t}]
    /\ UNCHANGED <<object, archive, pc, request, work, raced>>

Begin ==
  /\ pc = "idle"
  /\ used' \in SUBSET Modules
  /\ kind = "bare" => used' = {}
  /\ pc' = IF kind = "bare" THEN "bare" ELSE "modules"
  /\ queue' = used' /\ listed' = {}
  /\ todo' = IF kind = "bare" THEN Required \cup Optional ELSE {}
  /\ clangs' = {} /\ failed' = {} /\ linked' = {}
  /\ since' = [s \in Sources |-> {text[s]}]
  /\ UNCHANGED <<text, files, kind, library, raced>>

\* resolveModuleDependencies
Visit(m) ==
  /\ pc = "modules" /\ m \in queue
  /\ listed' = listed \cup {m}
  /\ queue' = (queue \cup Deps[m]) \ listed'
  /\ UNCHANGED <<text, files, pc, request, todo, clangs, failed, linked, history>>

\* fault: an object that is there is used.
IfMissing(s) == object[ObjectOf(s)] = None
NeedsRebuild(s) == object[ObjectOf(s)] = None \/ s \notin newer

\* The times are compared before anything is compiled.
ListFiles ==
  /\ pc = "modules" /\ queue = {}
  /\ todo' = {s \in StdFiles : ModuleOf[s] \in listed /\ NeedsRebuild(s)}
  /\ pc' = "std"
  /\ UNCHANGED <<text, files, request, queue, listed, clangs, failed, linked, history>>

\* Modules and libraries are compiled side by side, the others one after the other.
Room ==
  IF pc \in {"std", "library"} THEN Cardinality(clangs) < CPUs
  ELSE pc \in {"runtime", "bare"} /\ clangs = {}

\* What is compiled on a bare machine starts with the program, and ends at a failure.
MayStart(s) ==
  CASE pc = "runtime" -> NeedsRebuild(s)
    [] pc = "bare" -> failed \cap Required = {} /\ (s \in Optional => todo \cap Required = {})
    [] OTHER -> TRUE

ClangStarts(s) ==
  /\ s \in todo /\ Room /\ MayStart(s)
  /\ todo' = todo \ {s}
  /\ clangs' = clangs \cup {[source |-> s, text |-> text[s]]}
  /\ UNCHANGED <<text, files, pc, request, queue, listed, failed, linked, history>>

\* The output of S is newer than what was written in the meantime.
Races(S, new) == raced' = (raced \ S) \cup {s \in S : new[s] # text[s]}

\* What is linked on a bare machine is what has just been compiled.
ClangEnds(c) ==
  /\ object' = [object EXCEPT ![ObjectOf(c.source)] = c.text]
  /\ newer' = newer \cup {s \in Sources : ObjectOf(s) = ObjectOf(c.source)}
  /\ clangs' = clangs \ {c}
  /\ linked' = IF pc = "bare" THEN linked \cup {[object |-> c.source, text |-> c.text]} ELSE linked
  /\ Races({c.source} \ LibFiles, [s \in {c.source} |-> c.text])
  /\ UNCHANGED <<text, archive, fresh, pc, request, queue, listed, todo, failed, since>>

\* An object of an earlier build may stay.
ClangFails(c) ==
  /\ object' \in {object, [object EXCEPT ![ObjectOf(c.source)] = None]}
  /\ failed' = failed \cup {c.source}
  /\ clangs' = clangs \ {c}
  /\ UNCHANGED <<text, newer, archive, fresh, pc, request, queue, listed, todo, linked, history>>

\* The object of a runtime file is not older than the file.
Skip(s) ==
  /\ pc = "runtime" /\ s \in todo /\ clangs = {} /\ ~NeedsRebuild(s)
  /\ todo' = todo \ {s}
  /\ UNCHANGED <<text, files, pc, request, queue, listed, clangs, failed, linked, history>>

Idle(stage) == pc = stage /\ todo = {} /\ clangs = {}
\* LibNeedsBuild
LibNeedsBuild == LibFiles # {} /\ (archive = None \/ LibFiles \ fresh # {})

Goto(stage) ==
  /\ pc' = stage
  /\ todo' = CASE stage = "runtime" /\ kind = "tree" -> RuntimeFiles
               [] stage = "library" -> LibFiles
               [] OTHER -> {}
  /\ UNCHANGED <<text, object, newer, fresh, request, queue, listed, clangs, failed, linked, history>>

StdCompiled ==
  /\ Idle("std")
  /\ Goto(IF failed = {} THEN "runtime" ELSE "failed")
  /\ UNCHANGED archive

\* A runtime file that could not be compiled is a warning.  The library is built
\* if it is used and its archive is missing or older than a source, or if the
\* user asks for it.
RuntimeCompiled ==
  /\ Idle("runtime")
  /\ \E force \in BOOLEAN :
       Goto(IF library /\ (force \/ LibNeedsBuild) THEN "library" ELSE "link")
  /\ UNCHANGED archive

\* BuildLibrary: the old archive goes when all sources are compiled; when one is
\* not, the build goes on with the old one.
LibCompiled ==
  /\ Idle("library")
  /\ IF failed \cap LibFiles = {} THEN Goto("archive") /\ archive' = None
     ELSE Goto("link") /\ UNCHANGED archive

Archive ==
  /\ pc = "archive"
  /\ archive' = [s \in LibFiles |-> object[s]] /\ fresh' = LibFiles
  /\ Races(LibFiles, object)
  /\ pc' = "link"
  /\ UNCHANGED <<text, object, newer, request, work, since>>

ArchiverFails ==
  /\ pc = "archive"
  /\ failed' = failed \cup LibFiles
  /\ pc' = "link"
  /\ UNCHANGED <<text, files, request, queue, listed, todo, clangs, linked, history>>

BareCompiled ==
  /\ pc = "bare" /\ clangs = {}
  /\ \/ failed \cap Required # {} /\ Goto("failed")
     \/ failed \cap Required = {} /\ todo = {} /\ Goto("link")
  /\ UNCHANGED archive

WithText(O) == {[object |-> o, text |-> object[o]] : o \in O}
InArchive == {[object |-> s, text |-> archive[s]] : s \in LibFiles}
ListedObjects == {m \in listed : FilesOf(m) # {}}

\* The objects of the modules are named to the linker, those of the runtime if they exist.
Link ==
  /\ pc = "link"
  /\ kind = "tree" => \A m \in ListedObjects : object[m] # None
  /\ library => archive # None
  /\ linked' = linked
       \cup (IF kind = "tree" THEN WithText(ListedObjects \cup {r \in RuntimeFiles : object[r] # None}) ELSE {})
       \cup (IF library THEN InArchive ELSE {})
  /\ pc' = "done"
  /\ UNCHANGED <<text, files, request, queue, listed, todo, clangs, failed, history>>

LinkFails ==
  /\ pc = "link"
  /\ pc' = "failed"
  /\ UNCHANGED <<text, files, request, work, history>>

Stop ==
  /\ pc' = "idle"
  /\ used' = {} /\ queue' = {} /\ listed' = {}
  /\ todo' = {} /\ clangs' = {} /\ failed' = {} /\ linked' = {}
  /\ since' = [s \in Sources |-> {text[s]}]
  /\ UNCHANGED <<text, files, kind, library, raced>>

Exit == pc \in {"done", "failed"} /\ Stop
Kill == pc \notin {"idle", "done", "failed"} /\ Stop

Next ==
  \/ Edit \/ Begin \/ ListFiles
  \/ \E m \in Modules : Visit(m)
  \/ \E s \in Sources : ClangStarts(s) \/ Skip(s)
  \/ \E c \in clangs : ClangEnds(c) \/ ClangFails(c)
  \/ StdCompiled \/ RuntimeCompiled \/ LibCompiled \/ Archive \/ ArchiverFails
  \/ BareCompiled \/ Link \/ LinkFails \/ Exit \/ Kill

Spec == Init /\ [][Next]_vars
-----------------------------------------------------------------------------
\* All modules that are needed, one through another.
Needed == {m \in Modules : \A S \in SUBSET Modules :
             used \subseteq S /\ (\A n \in S : Deps[n] \subseteq S) => m \in S}

\* One of the sources S of object o has had the linked text in this build, or was
\* edited while it was compiled: its object looks newer than it is.
Current(o, S) ==
  \E l \in linked : l.object = o /\ \E s \in S : l.text \in since[s] \/ s \in raced

(***************************************************************************)
(* A program is linked with everything it needs, each compiled from what    *)
(* its source is during the build or reused from then on, or the build has  *)
(* failed or has said that a file could not be compiled; on a bare machine  *)
(* such a file is left out, never taken from an earlier build.  (The times  *)
(* of objects and archives, and the order of the stages of compileCCode.)   *)
(***************************************************************************)
LinksWhatIsNeeded ==
  pc = "done" =>
    /\ kind = "tree" =>
         /\ \A m \in Needed : FilesOf(m) # {} => Current(m, FilesOf(m))
         /\ \A r \in RuntimeFiles \ failed : Current(r, {r})
    /\ library /\ failed \cap LibFiles = {} => \A s \in LibFiles : Current(s, {s})
    /\ kind = "bare" =>
         /\ \A s \in (Required \cup Optional) \ failed : Current(s, {s})
         /\ Required \cap failed = {}
         /\ \A l \in linked : l.object \notin failed
=============================================================================
