------------------------------- MODULE MCBuild -------------------------------
(***************************************************************************)
(* Three parts of a build that do not read each other's state, in one run:  *)
(* the cache and the executable, the local imports, and the objects that    *)
(* are linked.                                                              *)
(***************************************************************************)
EXTENDS BuildCache, Naturals, Sequences

CONSTANTS
  LocalFiles, Main, Dirs, DirOf, Names, At, MaxImports, MaxMain, MaxStack,  \* of Imports
  \* and of Objects
  Modules, Deps, StdFiles, ModuleOf, RuntimeFiles, LibFiles, Required, Optional, SourceTexts, CPUs

VARIABLES
  part,                                                             \* which one moves
  cwd, given, imports, phase, calls, collected, compiled, hashes, emitted, errors,
  sources, object, current, archive, fresh, stage, kind, library, used,
  queue, listed, todo, clangs, failed, linked, since, raced

I == INSTANCE Imports WITH Files <- LocalFiles

O == INSTANCE Objects WITH Texts <- SourceTexts, text <- sources, newer <- current, pc <- stage

ASSUME ImportsAssumption == I!ImportsAssumption
ASSUME ObjectsAssumption == O!ObjectsAssumption

\* "x" is in the directory of the program, "lib/x" in one below it.
FileNames == {"x", "lib/x", "main"}
DirNames == {".", "lib"}
ImportNames == {"x", "lib/x", "main"}
InLib == {"lib/x"}
Places(n) ==
  CASE n = "x" -> {<<".", "x">>, <<"lib", "lib/x">>}
    [] OTHER -> {<<".", n>>}
Find(d, n) == IF \E p \in Places(n) : p[1] = d THEN (CHOOSE p \in Places(n) : p[1] = d)[2] ELSE None
DirOfFile == [f \in FileNames |-> IF f \in InLib THEN "lib" ELSE "."]
FileAtName == [d \in DirNames |-> [n \in ImportNames |-> Find(d, n)]]

\* Two modules, of which one needs the other.
ModuleFiles == [f \in {"io.c", "base.c"} |-> IF f = "io.c" THEN "io" ELSE "base"]
ModuleDeps == [m \in {"io", "base"} |-> IF m = "io" THEN {"base"} ELSE {}]

locals == <<cwd, given, imports, phase, calls, collected, compiled, hashes, emitted, errors>>
objects == <<sources, object, current, archive, fresh, stage, kind, library, used,
             queue, listed, todo, clangs, failed, linked, since, raced>>

\* The parts that do not move stay as they are here.
NoCache ==
  /\ text = [f \in Inputs |-> CHOOSE t \in Texts : TRUE]
  /\ cfile = [f \in CFiles |-> None] /\ meta = [f \in Inputs |-> None]
  /\ exe = None /\ newer = {} /\ boot = FALSE /\ run = None /\ pc = "idle"
  /\ hit = FALSE /\ stored = FALSE /\ writer = "none" /\ damaged = FALSE
NoImports ==
  /\ cwd = (CHOOSE d \in Dirs : TRUE) /\ given = "relative" /\ imports = [f \in LocalFiles |-> <<>>]
  /\ phase = "collect" /\ calls = <<[file |-> Main, rest |-> <<>>]>>
  /\ collected = {} /\ compiled = {} /\ hashes = {} /\ emitted = <<>> /\ errors = FALSE

\* Bounds: one text to begin with; a program uses the library, or modules and the
\* source tree, and names the module that needs the other.
ObjectsInit ==
  /\ sources = [s \in O!Sources |-> CHOOSE t \in SourceTexts : TRUE]
  /\ O!Init
  /\ library => kind # "tree"
ObjectsNext == O!Next /\ used' \subseteq {"io"} /\ (library => used' = {})
NoObjects == ObjectsInit /\ kind = "tree"

MCInit ==
  \/ part = "cache" /\ NoImports /\ NoObjects /\ Init
  \/ part = "imports" /\ NoCache /\ NoObjects /\ I!Init
  \/ part = "objects" /\ NoCache /\ NoImports /\ ObjectsInit

MCNext ==
  \/ part = "cache" /\ Next /\ UNCHANGED <<part, locals, objects>>
  \/ part = "imports" /\ I!Next /\ UNCHANGED <<part, vars, objects>>
  \/ part = "objects" /\ ObjectsNext /\ UNCHANGED <<part, vars, locals>>

MCSpec == MCInit /\ [][MCNext]_<<part, vars, locals, objects>>

(* Imported files come once and before what imports them (main.go).        *)
ImportsInOrder == I!ImportsInOrder
(* What is linked is what is needed and current (main.go, builder.go).     *)
LinksWhatIsNeeded == O!LinksWhatIsNeeded
=============================================================================
