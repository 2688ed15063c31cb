------------------------------ MODULE BuildCache ------------------------------
(***************************************************************************)
(* Incremental builds: the cache of generated C (internal/cache/cache.go)   *)
(* and the executable that a build reuses or compiles (cmd/kaulac/main.go). *)
(* One compiler runs at a time; it may be killed between any two steps.     *)
(*                                                                          *)
(* A text is a source file with the files it imports: both are hashed, so   *)
(* the hashes of two texts agree when the texts do.  The inputs have the    *)
(* same base name and one output directory.  File times are kept as what is *)
(* asked of them: whether the executable is older than a C file.            *)
(***************************************************************************)
EXTENDS FiniteSets

CONSTANTS
  Inputs,      \* the source files
  Texts,       \* what a source file may contain
  Broken,      \* the texts that the front end refuses
  Options,     \* what is passed to clang
  Torn,        \* the content of a file that was being written
  None         \* no file

\* The C file of builds without cache: inputName.c, of all inputs.
Plain == "inputName.c"

ASSUME TextsAssumption ==
  /\ Broken \subseteq Texts
  /\ Torn \notin Texts /\ None \notin Texts /\ Torn # None
  /\ Plain \notin Inputs

CFiles == Inputs \cup {Plain}

VARIABLES
  text,     \* the source files
  cfile,    \* the C files: key.c of each input, and inputName.c
  meta,     \* the manifests, as the text whose hashes they hold
  exe,      \* the executable: its text, input, options, and whether the build stored its C
  newer,    \* the C files that the executable is not older than
  boot,     \* builds go through compileBootKernel or compileUserProgram
  run,      \* the build that runs: its input, options, text and whether it uses the cache
  pc,       \* where it is
  hit,      \* cacheHit
  stored,   \* Store has succeeded, or was not needed
  writer,   \* the goroutine that writes the C file beside clang
  damaged   \* history: a build was killed, or Store has failed

files == <<cfile, meta, exe, newer>>
build == <<run, hit, stored>>
vars == <<text, files, boot, build, pc, writer, damaged>>

Runs == [input: Inputs, cached: BOOLEAN, options: Options, text: Texts]
Exes == [input: Inputs, options: Options, text: Texts, stored: BOOLEAN]
PCs == {"idle", "check", "store", "storing", "manifest", "closing", "compile",
        "wait", "failing", "done"}

TypeOK ==
  /\ text \in [Inputs -> Texts]
  /\ cfile \in [CFiles -> Texts \cup {Torn, None}]
  /\ meta \in [Inputs -> Texts \cup {Torn, None}]
  /\ exe \in Exes \cup {None}
  /\ newer \subseteq CFiles
  /\ boot \in BOOLEAN
  /\ run \in Runs \cup {None}
  /\ pc \in PCs
  /\ hit \in BOOLEAN /\ stored \in BOOLEAN
  /\ writer \in {"none", "ready", "writing"}
  /\ damaged \in BOOLEAN

Init ==
  /\ text \in [Inputs -> Texts]
  /\ cfile = [f \in CFiles |-> None]
  /\ meta = [f \in Inputs |-> None]
  /\ exe = None /\ newer = {}
  /\ boot \in BOOLEAN
  /\ run = None /\ pc = "idle"
  /\ hit = FALSE /\ stored = FALSE
  /\ writer = "none"
  /\ damaged = FALSE
-----------------------------------------------------------------------------
\* os.WriteFile truncates the file, then fills it: the file is newer than the
\* executable from the first of the two.
Truncate(f) == cfile' = [cfile EXCEPT ![f] = Torn] /\ newer' = newer \ {f}
Fill(f) == cfile' = [cfile EXCEPT ![f] = run.text] /\ newer' = newer \ {f}

\* cacheFile
File == IF run.cached THEN run.input ELSE Plain

Edit ==
  /\ \E f \in Inputs, t \in Texts : text' = [text EXCEPT ![f] = t]
  /\ UNCHANGED <<files, boot, build, pc, writer, damaged>>

\* -clean-cache and -purge-cache, interrupted or not: some entries lose their C
\* file, some of these their manifest; purging also takes manifests alone.
Clean ==
  /\ pc = "idle"
  /\ \E C \in SUBSET CFiles, M \in SUBSET Inputs :
       /\ cfile' = [f \in CFiles |-> IF f \in C THEN None ELSE cfile[f]]
       /\ meta' = [f \in Inputs |-> IF f \in M THEN None ELSE meta[f]]
       /\ newer' = newer \ C
  /\ UNCHANGED <<text, exe, boot, build, pc, writer, damaged>>

\* The front end reads the text and translates it, whatever the cache holds.
FrontEnd ==
  /\ pc = "idle"
  /\ \E f \in Inputs, c \in BOOLEAN, o \in Options :
       /\ run' = [input |-> f, cached |-> c, options |-> o, text |-> text[f]]
       /\ pc' = IF c THEN "check" ELSE "store"
  /\ hit' = FALSE /\ stored' = FALSE /\ writer' = "none"
  /\ UNCHANGED <<text, files, boot, damaged>>

\* fault: the manifest is not compared with the text.
AnyManifest(f) == meta[f] \in Texts /\ cfile[f] # None
IsHit(f) == meta[f] = run.text /\ cfile[f] # None

\* C is not compiled when the front end has found errors.
AfterStore == IF run.text \in Broken THEN "failing" ELSE "compile"
Goroutine == IF hit' \/ run.text \in Broken THEN "none" ELSE "ready"

Check ==
  /\ pc = "check"
  /\ hit' = IsHit(run.input)
  /\ stored' = hit'
  /\ pc' = IF hit' THEN AfterStore ELSE "store"
  /\ UNCHANGED <<text, files, boot, run, writer, damaged>>

(***************************************************************************)
(* Store: the C file, then the manifest, each in place.  A build without    *)
(* cache writes its C file only.                                            *)
(***************************************************************************)
Store ==
  /\ pc = "store"
  /\ Truncate(File)
  /\ pc' = "storing"
  /\ UNCHANGED <<text, meta, exe, boot, build, writer, damaged>>

Storing ==
  /\ pc = "storing"
  /\ Fill(File)
  /\ IF run.cached THEN pc' = "manifest" /\ UNCHANGED <<hit, writer>>
     ELSE pc' = AfterStore /\ hit' = FALSE /\ writer' = Goroutine
  /\ UNCHANGED <<text, meta, exe, boot, run, stored, damaged>>

Manifest ==
  /\ pc = "manifest"
  /\ meta' = [meta EXCEPT ![run.input] = Torn]
  /\ pc' = "closing"
  /\ UNCHANGED <<text, cfile, exe, newer, boot, build, writer, damaged>>

Closing ==
  /\ pc = "closing"
  /\ meta' = [meta EXCEPT ![run.input] = run.text]
  /\ pc' = AfterStore
  /\ stored' = TRUE /\ hit' = FALSE /\ writer' = Goroutine
  /\ UNCHANGED <<text, cfile, exe, newer, boot, run, damaged>>

\* A write that fails leaves the file as it was or torn; the build goes on.
StoreFails ==
  /\ pc \in {"store", "storing", "manifest", "closing"}
  /\ pc' = AfterStore
  /\ hit' = FALSE /\ writer' = Goroutine
  /\ damaged' = TRUE
  /\ UNCHANGED <<text, files, boot, run, stored>>

(***************************************************************************)
(* concurrentCompile: after a miss the C file is written a second time,     *)
(* while clang runs.  The error of this write is ignored.                   *)
(***************************************************************************)
WriterStarts ==
  /\ writer = "ready" /\ pc \in {"compile", "wait"}
  /\ \/ Truncate(File) /\ writer' = "writing"
     \/ UNCHANGED <<cfile, newer>> /\ writer' = "none"
  /\ UNCHANGED <<text, meta, exe, boot, build, pc, damaged>>

WriterEnds ==
  /\ writer = "writing"
  /\ Fill(File)
  /\ writer' = "none"
  /\ UNCHANGED <<text, meta, exe, boot, build, pc, damaged>>

\* fault: any executable will do.
AnyExe == hit /\ exe # None
Reusable == hit /\ exe # None /\ File \in newer

Reuse ==
  /\ pc = "compile"
  /\ Reusable
  /\ pc' = "wait"
  /\ UNCHANGED <<text, files, boot, build, writer, damaged>>

\* What clang is given: the text in memory, or the C file as it is now.
Given == IF boot THEN cfile[File] ELSE run.text

\* clang refuses a torn file.  The compiler waits for it; its output appears at once.
Clang ==
  /\ pc = "compile"
  /\ ~Reusable
  /\ Given \in Texts
  /\ exe' = [input |-> run.input, options |-> run.options, text |-> Given, stored |-> stored]
  /\ newer' = {f \in CFiles : cfile[f] # None}
  /\ pc' = "wait"
  /\ UNCHANGED <<text, cfile, meta, boot, build, writer, damaged>>

ClangFails ==
  /\ pc = "compile"
  /\ ~Reusable
  /\ pc' = "failing"
  /\ UNCHANGED <<text, files, boot, build, writer, damaged>>

\* wg.Wait, and the report of success.
Succeed ==
  /\ pc = "wait" /\ writer = "none"
  /\ pc' = "done"
  /\ UNCHANGED <<text, files, boot, build, writer, damaged>>

Exit ==
  /\ pc \in {"done", "failing"} /\ writer \in {"none", "ready"}
  /\ pc' = "idle" /\ run' = None
  /\ hit' = FALSE /\ stored' = FALSE /\ writer' = "none"
  /\ UNCHANGED <<text, files, boot, damaged>>

Kill ==
  /\ pc # "idle"
  /\ pc' = "idle" /\ run' = None
  /\ hit' = FALSE /\ stored' = FALSE /\ writer' = "none"
  /\ damaged' = TRUE
  /\ UNCHANGED <<text, files, boot>>

Next ==
  \/ Edit \/ Clean \/ FrontEnd \/ Check
  \/ Store \/ Storing \/ Manifest \/ Closing \/ StoreFails
  \/ WriterStarts \/ WriterEnds \/ Reuse \/ Clang \/ ClangFails
  \/ Succeed \/ Exit \/ Kill

Spec == Init /\ [][Next]_vars
-----------------------------------------------------------------------------
\* The executable is this build's, or one that a build of the same input with the
\* same options has left, through the cache.
SameProducer == exe.input = run.input /\ exe.options = run.options /\ exe.stored

(***************************************************************************)
(* A build that reports success leaves the program of the text it has read, *)
(* compiled or reused, whatever was killed, edited or cleaned in between:   *)
(* the order of the two writes of Store and the time of the C file make a   *)
(* damaged entry harmless.  It needs the executable to come from the cached *)
(* builds of this input, and for what reads the C file back, that nothing   *)
(* was interrupted.                                                         *)
(***************************************************************************)
BuildsWhatItRead ==
  pc = "done" /\ (boot => ~damaged) /\ (hit => SameProducer) => exe.text = run.text
=============================================================================
