------------------------------- MODULE Imports -------------------------------
(***************************************************************************)
(* The local files that a program imports (cmd/kaulac/main.go): first their *)
(* exported names are collected for the analysis of the program, then each  *)
(* file is compiled and its definitions are put before those of the program.*)
(* Both walk the imports depth first; only the second one remembers where   *)
(* it has been, by the path that the parser has left in the import.         *)
(***************************************************************************)
EXTENDS Naturals, Sequences, FiniteSets, SequencesExt

CONSTANTS
  Files,       \* the .kl files
  Main,        \* the program, one of them
  Dirs, DirOf, \* their directories
  Names, At,   \* what imports are written with, and the file it names from a directory
  None,        \* no file
  MaxImports,  \* bound on the imports of a file, those of the program excepted
  MaxMain,     \* bound on the imports of the program
  MaxStack     \* the calls that fit on the Go stack

ImportsAssumption ==
  /\ IsFiniteSet(Files) /\ Main \in Files /\ None \notin Files
  /\ DirOf \in [Files -> Dirs]
  /\ At \in [Dirs -> [Names -> Files \cup {None}]]
  /\ MaxImports \in Nat /\ MaxMain \in Nat
  /\ MaxStack \in Nat /\ MaxStack >= Cardinality(Files)

\* import my.util, or import "util.kl"
Import == [how: {"module", "path"}, name: Names]

VARIABLES
  cwd,        \* where the compiler runs
  given,      \* the path of the program: "relative" or "absolute"
  imports,    \* the import statements of every file
  phase,      \* "collect", "compile", "done", or "crashed"
  calls,      \* the open calls of visit or compileFile: a file and the imports left in it
  collected,  \* the files whose exported names are known to the analysis
  compiled,   \* the map of localCompileState, by path
  hashes,     \* fileHashes: the files in the key of the cache entry
  emitted,    \* allCode, as the files whose definitions are in it
  errors      \* a file has a parse error

program == <<cwd, given, imports>>
vars == <<program, phase, calls, collected, compiled, hashes, emitted, errors>>

(***************************************************************************)
(* The path that the parser leaves.  A module name is tried as it is, from  *)
(* where the compiler runs, then beside the importing file, whose path is   *)
(* absolute but for the program.  A file name is made absolute.             *)
(***************************************************************************)
Relative(name) == [kind |-> "relative", name |-> name]
Beside(file) == [kind |-> "beside", file |-> file]
Absolute(file) == [kind |-> "absolute", file |-> file]

ModulePath(name, f) ==
  IF At[cwd][name] # None THEN Relative(name)
  ELSE IF f = Main /\ given = "relative" THEN Beside(At[DirOf[f]][name])
  ELSE Absolute(At[DirOf[f]][name])

FilePath(name, f) ==
  Absolute(IF At[DirOf[f]][name] # None THEN At[DirOf[f]][name] ELSE At[cwd][name])

LocalPath(i, f) == IF i.how = "module" THEN ModulePath(i.name, f) ELSE FilePath(i.name, f)

\* The driver tries a relative path from the directory of the importing file first.
FileAt(path, dir) ==
  IF path.kind # "relative" THEN path.file
  ELSE IF At[dir][path.name] # None THEN At[dir][path.name] ELSE At[cwd][path.name]

Paths(f) == [n \in DOMAIN imports[f] |-> LocalPath(imports[f][n], f)]
\* An import that names no file is a parse error of the file that has it.
HasErrors(f) == \E n \in DOMAIN imports[f] : Paths(f)[n] \in {Absolute(None), Beside(None)}

Call(f) == [file |-> f, rest |-> Paths(f)]

Init ==
  /\ cwd \in Dirs
  /\ given \in {"relative", "absolute"}
  /\ \E m \in BoundedSeq(Import, MaxMain), g \in [Files \ {Main} -> BoundedSeq(Import, MaxImports)] :
       imports = [f \in Files |-> IF f = Main THEN m ELSE g[f]]
  /\ ~HasErrors(Main)
  /\ phase = "collect"
  /\ calls = <<Call(Main)>>
  /\ collected = {} /\ compiled = {} /\ hashes = {} /\ emitted = <<>>
  /\ errors = FALSE
-----------------------------------------------------------------------------
Top == Last(calls)
Path == Head(Top.rest)
File == FileAt(Path, DirOf[Top.file])
\* The call goes to its next import, and into f when there is one.
Advance == Front(calls) \o <<[Top EXCEPT !.rest = Tail(@)]>>
Enter(f) == Advance \o <<Call(f)>>

\* visit of collectLocalPubFuncs, of all functions, variables and types.
Collect ==
  /\ phase = "collect" /\ Top.rest # <<>>
  /\ IF HasErrors(File)
     THEN calls' = Advance /\ UNCHANGED <<collected, phase>>
     ELSE /\ calls' = Enter(File)
          /\ collected' = collected \cup {File}
          /\ phase' = IF Len(calls) < MaxStack THEN phase ELSE "crashed"
  /\ UNCHANGED <<program, compiled, hashes, emitted, errors>>

Collected ==
  /\ phase = "collect" /\ Top.rest = <<>>
  /\ IF Len(calls) = 1 THEN calls' = <<Call(Main)>> /\ phase' = "compile"
     ELSE calls' = Front(calls) /\ UNCHANGED phase
  /\ UNCHANGED <<program, collected, compiled, hashes, emitted, errors>>

\* fault: the map does not tell what has been compiled.
NeverCompiled(path) == FALSE
IsCompiled(path) == path \in compiled

\* compileFile: the imports of a file before its own definitions.
Compile ==
  /\ phase = "compile" /\ Top.rest # <<>> /\ ~IsCompiled(Path)
  /\ compiled' = compiled \cup {Path}
  /\ hashes' = hashes \cup {File}
  /\ errors' = (errors \/ HasErrors(File))
  /\ calls' = IF HasErrors(File) THEN Advance ELSE Enter(File)
  /\ UNCHANGED <<program, phase, collected, emitted>>

CompiledBefore ==
  /\ phase = "compile" /\ Top.rest # <<>> /\ IsCompiled(Path)
  /\ calls' = Advance
  /\ UNCHANGED <<program, phase, collected, compiled, hashes, emitted, errors>>

Emit ==
  /\ phase = "compile" /\ Top.rest = <<>> /\ Len(calls) > 1
  /\ emitted' = Append(emitted, Top.file)
  /\ calls' = Front(calls)
  /\ UNCHANGED <<program, phase, collected, compiled, hashes, errors>>

Finish ==
  /\ phase = "compile" /\ Top.rest = <<>> /\ Len(calls) = 1
  /\ phase' = "done"
  /\ UNCHANGED <<program, calls, collected, compiled, hashes, emitted, errors>>

Next == Collect \/ Collected \/ Compile \/ CompiledBefore \/ Emit \/ Finish

Spec == Init /\ [][Next]_vars
-----------------------------------------------------------------------------
\* injectLocalCode: the definitions of the program come after the imported ones.
Output == Append(emitted, Main)

Imported(f) == {FileAt(Paths(f)[n], DirOf[f]) : n \in DOMAIN Paths(f)}
Uses == UNION {{f} \X DOMAIN Paths(f) : f \in Files}
PathOf(u) == Paths(u[1])[u[2]]
FileOf(u) == FileAt(PathOf(u), DirOf[u[1]])

\* A relative path means one file wherever it is imported, and a file has one path.
Unambiguous == \A u, v \in Uses : PathOf(u) = PathOf(v) <=> FileOf(u) = FileOf(v)

\* Some files import one another: each of them imports one of them.
Circular == \E C \in SUBSET Files : C # {} /\ \A f \in C : Imported(f) \cap C # {}

(***************************************************************************)
(* Every file whose names the analysis has accepted is in the output once,  *)
(* after all it imports, and in the key of the cache entry; the compiler    *)
(* runs out of stack only on files that import one another.  It needs that  *)
(* paths and files correspond: the map of what is compiled is by path.      *)
(***************************************************************************)
ImportsInOrder ==
  /\ phase = "crashed" => Circular
  /\ phase = "done" /\ ~errors /\ Unambiguous =>
       /\ collected = ToSet(emitted) /\ IsInjective(emitted)
       /\ collected \subseteq hashes
       /\ \A n \in DOMAIN Output : Imported(Output[n]) \subseteq ToSet(SubSeq(Output, 1, n - 1))
=============================================================================
