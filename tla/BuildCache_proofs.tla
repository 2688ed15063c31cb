-------------------------- MODULE BuildCache_proofs --------------------------
(***************************************************************************)
(* A build that reports success leaves the program of the text it has read, *)
(* for any number of inputs, texts and options, and whatever is killed,     *)
(* edited or cleaned between two steps.                                     *)
(* Then, through the instances of MCBuild: what is linked is what is needed *)
(* and current (O), and imported files come once and in order (I).          *)
(***************************************************************************)
EXTENDS MCBuild, TLAPS, FiniteSetTheorems, SequenceTheorems

(* What the conclusion is about: a build that reads its C file back is      *)
(* excused once something was interrupted.                                  *)
Trusted == boot => ~damaged

(* There is a run while the compiler runs, a hit is one of the cache, and   *)
(* the goroutine is there after the front end only.                         *)
RunOK ==
  /\ pc # "idle" => run \in Runs
  /\ pc \in {"check", "manifest", "closing"} => run.cached
  /\ hit => stored
  /\ stored => /\ pc \in {"compile", "wait", "failing", "done"}
               /\ run.cached
               /\ meta[run.input] = run.text
  /\ writer # "none" => pc \in {"compile", "wait", "failing"}

(* From its first write to clang, the C file is newer than the executable.  *)
FileIsNewer == pc \in {"storing", "manifest", "closing"} => File \notin newer

(* An executable that came through the cache and is not older than the C    *)
(* file of its input is what the manifest says, if that says anything.      *)
ExeMatchesManifest ==
  exe \in Exes /\ exe.stored /\ exe.input \in newer /\ meta[exe.input] \in Texts
    => exe.text = meta[exe.input]

(* As long as nothing was interrupted, a manifest that says something says  *)
(* what is in the C file, but for the writes of the run.                    *)
BeingWritten(f) ==
  /\ pc # "idle" /\ run.cached /\ f = run.input
  /\ \/ pc \in {"storing", "manifest"}
     \/ writer = "writing" /\ cfile[f] = Torn
Matches(f) == meta[f] \in Texts => cfile[f] \in {meta[f], None} \/ BeingWritten(f)
CFileMatchesManifest == ~damaged => \A f \in Inputs : Matches(f)

(* What clang may be given then.                                            *)
CFileIsRead ==
  /\ ~damaged /\ pc \in {"manifest", "closing", "compile", "wait", "failing", "done"}
       => cfile[File] = run.text \/ (writer = "writing" /\ cfile[File] = Torn)
  /\ ~damaged /\ pc \in {"compile", "wait", "failing", "done"} /\ run.cached
       => meta[run.input] = run.text

Conclusion ==
  pc \in {"wait", "done"} /\ (hit => SameProducer) => exe.text = run.text

IInv ==
  /\ TypeOK /\ RunOK /\ FileIsNewer /\ CFileMatchesManifest /\ CFileIsRead
  /\ Trusted => ExeMatchesManifest /\ Conclusion

USE TextsAssumption DEF files, build, vars
-----------------------------------------------------------------------------
LEMMA InitIInv == ASSUME Init PROVE IInv
BY DEF Init, IInv, TypeOK, PCs, RunOK, FileIsNewer, ExeMatchesManifest, CFileMatchesManifest,
       Matches, CFileIsRead, Conclusion, CFiles

LEMMA FileTyped ==
  ASSUME RunOK, pc # "idle"
  PROVE  /\ File \in CFiles
         /\ run \in Runs
         /\ run.input \in Inputs /\ run.text \in Texts
         /\ run.options \in Options /\ run.cached \in BOOLEAN
         /\ run.cached => File = run.input
         /\ ~run.cached => File \notin Inputs
BY DEF RunOK, Runs, File, CFiles

LEMMA AfterIs == AfterStore \in {"failing", "compile"}
BY DEF AfterStore

LEMMA GoroutineIs == Goroutine \in {"none", "ready"}
BY DEF Goroutine

LEMMA NextTypeOK == ASSUME TypeOK, RunOK, [Next]_vars PROVE TypeOK'
<1> USE DEF TypeOK
<1>1. CASE Edit BY <1>1 DEF Edit
<1>2. CASE Clean BY <1>2 DEF Clean, CFiles
<1>3. CASE FrontEnd
  <2>1. PICK f \in Inputs, c \in BOOLEAN, o \in Options :
          /\ run' = [input |-> f, cached |-> c, options |-> o, text |-> text[f]]
          /\ pc' = IF c THEN "check" ELSE "store"
    BY <1>3 DEF FrontEnd
  <2>2. text[f] \in Texts OBVIOUS
  <2>3. run' \in Runs BY <2>1, <2>2 DEF Runs
  <2>4. pc' \in PCs BY <2>1 DEF PCs
  <2>5. QED BY <1>3, <2>3, <2>4 DEF FrontEnd
<1>4. CASE Check BY <1>4 DEF Check, AfterStore, IsHit, PCs
<1>5. CASE Store BY <1>5, FileTyped DEF Store, Truncate, PCs
<1>6. CASE Storing
  <2>0. pc = "storing" BY <1>6 DEF Storing
  <2>1. File \in CFiles /\ run.text \in Texts BY <2>0, FileTyped
  <2>2. cfile' \in [CFiles -> Texts \cup {Torn, None}] /\ newer' \subseteq CFiles
    BY <1>6, <2>1 DEF Storing, Fill
  <2>3. pc' \in PCs BY <1>6, AfterIs DEF Storing, PCs
  <2>4. hit' \in BOOLEAN /\ writer' \in {"none", "ready", "writing"}
    BY <1>6, GoroutineIs DEF Storing
  <2>5. QED BY <1>6, <2>2, <2>3, <2>4 DEF Storing
<1>7. CASE Manifest BY <1>7, FileTyped DEF Manifest, PCs
<1>8. CASE Closing
  <2>0. pc = "closing" BY <1>8 DEF Closing
  <2>1. run.input \in Inputs /\ run.text \in Texts BY <2>0, FileTyped
  <2>2. meta' \in [Inputs -> Texts \cup {Torn, None}] BY <1>8, <2>1 DEF Closing
  <2>3. QED BY <1>8, <2>2, AfterIs, GoroutineIs DEF Closing, PCs
<1>9. CASE StoreFails BY <1>9, AfterIs, GoroutineIs DEF StoreFails, PCs
<1>10. CASE WriterStarts BY <1>10, FileTyped DEF WriterStarts, Truncate
<1>11. CASE WriterEnds
  <2>1. pc # "idle" BY <1>11 DEF WriterEnds, RunOK
  <2>2. File \in CFiles /\ run.text \in Texts BY <2>1, FileTyped
  <2>3. QED BY <1>11, <2>2 DEF WriterEnds, Fill
<1>12. CASE Reuse BY <1>12 DEF Reuse, PCs
<1>13. CASE Clang
  <2>0. pc = "compile" BY <1>13 DEF Clang
  <2>1. run.input \in Inputs /\ run.options \in Options BY <2>0, FileTyped
  <2>2. exe' \in Exes BY <1>13, <2>1 DEF Clang, Exes
  <2>3. QED BY <1>13, <2>2 DEF Clang, PCs
<1>14. CASE ClangFails BY <1>14 DEF ClangFails, PCs
<1>15. CASE Succeed BY <1>15 DEF Succeed, PCs
<1>16. CASE Exit BY <1>16 DEF Exit, PCs
<1>17. CASE Kill BY <1>17 DEF Kill, PCs
<1>18. CASE UNCHANGED vars BY <1>18
<1>19. QED BY <1>1, <1>2, <1>3, <1>4, <1>5, <1>6, <1>7, <1>8, <1>9, <1>10, <1>11, <1>12,
              <1>13, <1>14, <1>15, <1>16, <1>17, <1>18 DEF Next

LEMMA NextRunOK ==
  ASSUME TypeOK, RunOK, [Next]_vars
  PROVE  RunOK'
<1> USE DEF TypeOK, RunOK
<1>1. CASE Edit BY <1>1 DEF Edit
<1>2. CASE Clean BY <1>2 DEF Clean
<1>3. CASE FrontEnd BY <1>3 DEF FrontEnd, Runs
<1>4. CASE Check BY <1>4, AfterIs DEF Check, IsHit
<1>5. CASE Store BY <1>5 DEF Store
<1>6. CASE Storing BY <1>6, AfterIs, GoroutineIs DEF Storing
<1>7. CASE Manifest BY <1>7 DEF Manifest
<1>8. CASE Closing BY <1>8, AfterIs, GoroutineIs DEF Closing, Runs
<1>9. CASE StoreFails BY <1>9, AfterIs, GoroutineIs DEF StoreFails
<1>10. CASE WriterStarts BY <1>10 DEF WriterStarts
<1>11. CASE WriterEnds BY <1>11 DEF WriterEnds
<1>12. CASE Reuse BY <1>12 DEF Reuse
<1>13. CASE Clang BY <1>13 DEF Clang
<1>14. CASE ClangFails BY <1>14 DEF ClangFails
<1>15. CASE Succeed BY <1>15 DEF Succeed
<1>16. CASE Exit BY <1>16 DEF Exit
<1>17. CASE Kill BY <1>17 DEF Kill
<1>18. CASE UNCHANGED vars BY <1>18
<1>19. QED BY <1>1, <1>2, <1>3, <1>4, <1>5, <1>6, <1>7, <1>8, <1>9, <1>10, <1>11, <1>12,
              <1>13, <1>14, <1>15, <1>16, <1>17, <1>18 DEF Next

LEMMA NextFileIsNewer ==
  ASSUME TypeOK, RunOK, FileIsNewer, [Next]_vars
  PROVE  FileIsNewer'
<1> USE DEF FileIsNewer, File
<1>1. CASE Edit BY <1>1 DEF Edit
<1>2. CASE Clean BY <1>2 DEF Clean
<1>3. CASE FrontEnd BY <1>3 DEF FrontEnd
<1>4. CASE Check BY <1>4, AfterIs DEF Check
<1>5. CASE Store BY <1>5 DEF Store, Truncate
<1>6. CASE Storing BY <1>6, AfterIs DEF Storing, Fill
<1>7. CASE Manifest BY <1>7 DEF Manifest
<1>8. CASE Closing BY <1>8, AfterIs DEF Closing
<1>9. CASE StoreFails BY <1>9, AfterIs DEF StoreFails
<1>10. CASE WriterStarts BY <1>10 DEF WriterStarts, Truncate, RunOK
<1>11. CASE WriterEnds BY <1>11 DEF WriterEnds, Fill
<1>12. CASE Reuse BY <1>12 DEF Reuse
<1>13. CASE Clang BY <1>13 DEF Clang
<1>14. CASE ClangFails BY <1>14 DEF ClangFails
<1>15. CASE Succeed BY <1>15 DEF Succeed
<1>16. CASE Exit BY <1>16 DEF Exit
<1>17. CASE Kill BY <1>17 DEF Kill
<1>18. CASE UNCHANGED vars BY <1>18
<1>19. QED BY <1>1, <1>2, <1>3, <1>4, <1>5, <1>6, <1>7, <1>8, <1>9, <1>10, <1>11, <1>12,
              <1>13, <1>14, <1>15, <1>16, <1>17, <1>18 DEF Next

LEMMA NextExe ==
  ASSUME TypeOK, RunOK, FileIsNewer, CFileIsRead, Trusted => ExeMatchesManifest, [Next]_vars
  PROVE  Trusted' => ExeMatchesManifest'
<1> USE DEF Trusted, ExeMatchesManifest
<1>1. CASE Edit BY <1>1 DEF Edit
<1>2. CASE Clean BY <1>2 DEF Clean, Exes
<1>3. CASE FrontEnd BY <1>3 DEF FrontEnd
<1>4. CASE Check BY <1>4 DEF Check
<1>5. CASE Store BY <1>5 DEF Store, Truncate
<1>6. CASE Storing BY <1>6 DEF Storing, Fill
<1>7. CASE Manifest BY <1>7 DEF Manifest, TypeOK
<1>8. CASE Closing BY <1>8 DEF Closing, FileIsNewer, File, RunOK
<1>9. CASE StoreFails BY <1>9 DEF StoreFails
<1>10. CASE WriterStarts BY <1>10 DEF WriterStarts, Truncate
<1>11. CASE WriterEnds BY <1>11 DEF WriterEnds, Fill
<1>12. CASE Reuse BY <1>12 DEF Reuse
<1>13. CASE Clang BY <1>13 DEF Clang, Given, CFileIsRead, RunOK
<1>14. CASE ClangFails BY <1>14 DEF ClangFails
<1>15. CASE Succeed BY <1>15 DEF Succeed
<1>16. CASE Exit BY <1>16 DEF Exit
<1>17. CASE Kill BY <1>17 DEF Kill
<1>18. CASE UNCHANGED vars BY <1>18
<1>19. QED BY <1>1, <1>2, <1>3, <1>4, <1>5, <1>6, <1>7, <1>8, <1>9, <1>10, <1>11, <1>12,
              <1>13, <1>14, <1>15, <1>16, <1>17, <1>18 DEF Next

LEMMA NextCFile ==
  ASSUME TypeOK, RunOK, CFileMatchesManifest, CFileIsRead, [Next]_vars
  PROVE  CFileMatchesManifest'
<1> SUFFICES ASSUME ~damaged', NEW f \in Inputs PROVE Matches(f)'
  BY DEF CFileMatchesManifest
<1>0. ~damaged => Matches(f)
  BY DEF CFileMatchesManifest
<1>a. /\ cfile \in [CFiles -> Texts \cup {Torn, None}] /\ meta \in [Inputs -> Texts \cup {Torn, None}]
      /\ f \in CFiles
  BY DEF TypeOK, CFiles
<1> USE <1>0, <1>a DEF Matches, BeingWritten
<1>1. CASE Edit BY <1>1 DEF Edit
<1>2. CASE Clean BY <1>2 DEF Clean
<1>3. CASE FrontEnd BY <1>3 DEF FrontEnd, RunOK
<1>4. CASE Check BY <1>4, AfterIs DEF Check
<1>5. CASE Store BY <1>5, FileTyped DEF Store, Truncate
<1>6. CASE Storing BY <1>6, FileTyped DEF Storing, Fill
<1>7. CASE Manifest BY <1>7, FileTyped DEF Manifest
<1>8. CASE Closing
  <2>1. /\ pc = "closing" /\ writer = "none" /\ UNCHANGED <<run, cfile, damaged>>
        /\ meta' = [meta EXCEPT ![run.input] = run.text]
    BY <1>8 DEF Closing, RunOK
  <2>2. run.input \in Inputs /\ run.cached /\ File = run.input
    BY <2>1, FileTyped DEF RunOK
  <2>3. cfile[run.input] = run.text BY <2>1, <2>2 DEF CFileIsRead
  <2>4. QED BY <2>1, <2>2, <2>3
<1>9. CASE StoreFails BY <1>9 DEF StoreFails
<1>10. CASE WriterStarts BY <1>10, FileTyped DEF WriterStarts, Truncate, RunOK
<1>11. CASE WriterEnds BY <1>11, FileTyped DEF WriterEnds, Fill, RunOK, CFileIsRead
<1>12. CASE Reuse BY <1>12 DEF Reuse
<1>13. CASE Clang BY <1>13 DEF Clang, RunOK
<1>14. CASE ClangFails BY <1>14 DEF ClangFails
<1>15. CASE Succeed BY <1>15 DEF Succeed
<1>16. CASE Exit BY <1>16 DEF Exit, RunOK
<1>17. CASE Kill BY <1>17 DEF Kill
<1>18. CASE UNCHANGED vars BY <1>18
<1>19. QED BY <1>1, <1>2, <1>3, <1>4, <1>5, <1>6, <1>7, <1>8, <1>9, <1>10, <1>11, <1>12,
              <1>13, <1>14, <1>15, <1>16, <1>17, <1>18 DEF Next

LEMMA NextRead ==
  ASSUME TypeOK, RunOK, CFileMatchesManifest, CFileIsRead, [Next]_vars
  PROVE  CFileIsRead'
<1>a. cfile \in [CFiles -> Texts \cup {Torn, None}] /\ meta \in [Inputs -> Texts \cup {Torn, None}]
  BY DEF TypeOK
<1> USE <1>a DEF CFileIsRead
<1>1. CASE Edit BY <1>1 DEF Edit, File
<1>2. CASE Clean BY <1>2 DEF Clean
<1>3. CASE FrontEnd BY <1>3 DEF FrontEnd
<1>4. CASE Check
  <2>1. pc = "check" /\ UNCHANGED <<run, cfile, meta, writer, damaged>> BY <1>4 DEF Check
  <2>2. writer = "none" /\ run.cached /\ run.input \in Inputs /\ run.text \in Texts /\ File = run.input
    BY <2>1, FileTyped DEF RunOK
  <2>3. hit' => meta[run.input] = run.text /\ cfile[run.input] # None BY <1>4 DEF Check, IsHit
  <2>4. ~damaged => Matches(run.input) BY <2>2 DEF CFileMatchesManifest
  <2>5. ~damaged /\ hit' => cfile[run.input] = run.text
    BY <2>1, <2>2, <2>3, <2>4 DEF Matches, BeingWritten
  <2>6. ~hit' => pc' = "store" BY <1>4 DEF Check
  <2>7. File' = File BY <2>1 DEF File
  <2>8. QED BY <2>1, <2>2, <2>3, <2>5, <2>6, <2>7
<1>5. CASE Store BY <1>5 DEF Store, Truncate
<1>6. CASE Storing
  <2>1. pc = "storing" /\ UNCHANGED <<run, meta, damaged>> /\ Fill(File) BY <1>6 DEF Storing
  <2>2. File \in CFiles /\ File' = File BY <2>1, FileTyped DEF File
  <2>3. cfile'[File] = run.text BY <2>1, <2>2 DEF Fill
  <2>4. pc' \in {"manifest", "compile", "failing"} /\ (run.cached => pc' = "manifest")
    BY <1>6, AfterIs DEF Storing
  <2>5. QED BY <2>1, <2>2, <2>3, <2>4
<1>7. CASE Manifest BY <1>7, FileTyped DEF Manifest, File, RunOK
<1>8. CASE Closing
  <2>1. /\ pc = "closing" /\ UNCHANGED <<run, cfile, damaged>> /\ pc' = AfterStore
        /\ meta' = [meta EXCEPT ![run.input] = run.text]
    BY <1>8 DEF Closing
  <2>2. run.input \in Inputs /\ File' = File /\ writer = "none" BY <2>1, FileTyped DEF File, RunOK
  <2>3. QED BY <2>1, <2>2, AfterIs
<1>9. CASE StoreFails BY <1>9 DEF StoreFails
<1>10. CASE WriterStarts
  <2>1. /\ pc \in {"compile", "wait"} /\ writer = "ready" /\ UNCHANGED <<run, meta, pc, damaged>>
        /\ \/ cfile' = [cfile EXCEPT ![File] = Torn] /\ writer' = "writing"
           \/ UNCHANGED cfile
    BY <1>10 DEF WriterStarts, Truncate
  <2>2. File \in CFiles /\ File' = File BY <2>1, FileTyped DEF File
  <2>3. QED BY <2>1, <2>2
<1>11. CASE WriterEnds
  <2>1. /\ pc # "idle" /\ UNCHANGED <<run, meta, pc, damaged>>
        /\ cfile' = [cfile EXCEPT ![File] = run.text]
    BY <1>11 DEF WriterEnds, Fill, RunOK
  <2>2. File \in CFiles /\ File' = File BY <2>1, FileTyped DEF File
  <2>3. QED BY <2>1, <2>2
<1>12. CASE Reuse BY <1>12 DEF Reuse, File
<1>13. CASE Clang BY <1>13 DEF Clang, File
<1>14. CASE ClangFails BY <1>14 DEF ClangFails, File
<1>15. CASE Succeed BY <1>15 DEF Succeed, File
<1>16. CASE Exit BY <1>16 DEF Exit
<1>17. CASE Kill BY <1>17 DEF Kill
<1>18. CASE UNCHANGED vars BY <1>18 DEF File
<1>19. QED BY <1>1, <1>2, <1>3, <1>4, <1>5, <1>6, <1>7, <1>8, <1>9, <1>10, <1>11, <1>12,
              <1>13, <1>14, <1>15, <1>16, <1>17, <1>18 DEF Next

LEMMA NextConclusion ==
  ASSUME TypeOK, RunOK, Trusted => ExeMatchesManifest /\ Conclusion, CFileIsRead, [Next]_vars
  PROVE  Trusted' => Conclusion'
<1> USE DEF Trusted, Conclusion, SameProducer
<1>1. CASE Edit BY <1>1 DEF Edit
<1>2. CASE Clean BY <1>2 DEF Clean
<1>3. CASE FrontEnd BY <1>3 DEF FrontEnd
<1>4. CASE Check BY <1>4, AfterIs DEF Check
<1>5. CASE Store BY <1>5 DEF Store
<1>6. CASE Storing BY <1>6, AfterIs DEF Storing
<1>7. CASE Manifest BY <1>7 DEF Manifest
<1>8. CASE Closing BY <1>8, AfterIs DEF Closing
<1>9. CASE StoreFails BY <1>9, AfterIs DEF StoreFails
<1>10. CASE WriterStarts BY <1>10 DEF WriterStarts
<1>11. CASE WriterEnds BY <1>11 DEF WriterEnds
<1>12. CASE Reuse
  <2>1. /\ pc = "compile" /\ hit /\ exe # None /\ File \in newer
        /\ UNCHANGED <<run, exe, boot, damaged, hit>>
    BY <1>12 DEF Reuse, Reusable
  <2>2. exe \in Exes BY <2>1 DEF TypeOK
  <2>3. run.cached /\ meta[run.input] = run.text /\ File = run.input /\ run.text \in Texts
    BY <2>1, FileTyped DEF RunOK
  <2>4. QED BY <2>1, <2>2, <2>3 DEF ExeMatchesManifest
<1>13. CASE Clang
  <2>1. /\ pc = "compile" /\ exe'.text = Given /\ Given \in Texts
        /\ UNCHANGED <<run, boot, damaged>>
    BY <1>13 DEF Clang
  <2>2. Trusted => Given = run.text BY <2>1 DEF Given, CFileIsRead
  <2>3. QED BY <2>1, <2>2
<1>14. CASE ClangFails BY <1>14 DEF ClangFails
<1>15. CASE Succeed BY <1>15 DEF Succeed
<1>16. CASE Exit BY <1>16 DEF Exit
<1>17. CASE Kill BY <1>17 DEF Kill
<1>18. CASE UNCHANGED vars BY <1>18
<1>19. QED BY <1>1, <1>2, <1>3, <1>4, <1>5, <1>6, <1>7, <1>8, <1>9, <1>10, <1>11, <1>12,
              <1>13, <1>14, <1>15, <1>16, <1>17, <1>18 DEF Next

LEMMA NextIInv == ASSUME IInv, [Next]_vars PROVE IInv'
BY NextTypeOK, NextRunOK, NextFileIsNewer, NextExe, NextCFile, NextRead, NextConclusion DEF IInv

(* A build that reports success leaves the program of the text it has read. *)
THEOREM BuildsFresh == Spec => []BuildsWhatItRead
<1>1. Init => IInv
  BY InitIInv
<1>2. IInv /\ [Next]_vars => IInv'
  BY NextIInv
<1>3. IInv => BuildsWhatItRead
  BY DEF IInv, Trusted, Conclusion, BuildsWhatItRead
<1>4. QED BY <1>1, <1>2, <1>3, PTL DEF Spec

-----------------------------------------------------------------------------
(* What is linked (O!Spec).  The invariant: an object, or the archive, that *)
(* a build may reuse has the text of a source, or it is older than it, or   *)
(* the source was edited before the output was in place.                    *)
TextIsRecent == \A s \in O!Sources : sources[s] \in since[s]

MayReuse(o, S) ==
  object[o] # None => \E s \in S : object[o] = sources[s] \/ s \in raced \/ s \notin current
ObjectsReusable ==
  /\ \A m \in Modules : O!FilesOf(m) # {} => MayReuse(m, O!FilesOf(m))
  /\ \A r \in RuntimeFiles : MayReuse(r, {r})
ArchiveReusable ==
  archive # None => \A s \in LibFiles : archive[s] = sources[s] \/ s \in raced \/ s \notin fresh

(* The stages: what is compiled, and what has been.                        *)
Bare == Required \cup Optional
StageFiles ==
  {s \in O!Sources : \/ stage = "std" /\ s \in StdFiles
                     \/ stage = "runtime" /\ s \in RuntimeFiles
                     \/ stage = "library" /\ s \in LibFiles
                     \/ stage = "bare" /\ s \in Bare}
WorkOK ==
  /\ todo \subseteq StageFiles
  /\ \A c \in clangs : c.source \in StageFiles /\ c.text \in since[c.source]
  /\ stage \in {"modules", "std", "runtime", "library", "archive"} => kind # "bare"
  /\ stage = "bare" => kind = "bare"
  /\ kind = "bare" => ~library

Compiling(s) == \E c \in clangs : c.source = s
Unfinished(s) == s \in todo \/ Compiling(s) \/ s \in failed
Fit(o, S) == object[o] # None /\ \E s \in S : object[o] \in since[s] \/ s \in raced

Beyond(stages) == stage \in stages /\ kind # "bare"

ModulesListed ==
  /\ stage = "modules" => used \subseteq listed \cup queue /\ \A n \in listed : Deps[n] \subseteq listed \cup queue
  /\ Beyond({"std", "runtime", "library", "archive", "link", "done"}) =>
       used \subseteq listed /\ \A n \in listed : Deps[n] \subseteq listed
ModulesFit ==
  /\ stage = "std" => \A m \in O!ListedObjects : Fit(m, O!FilesOf(m)) \/ \E s \in O!FilesOf(m) : Unfinished(s)
  /\ Beyond({"runtime", "library", "archive", "link"}) => \A m \in O!ListedObjects : Fit(m, O!FilesOf(m))
RuntimeFits ==
  /\ stage = "runtime" /\ kind = "tree" => \A r \in RuntimeFiles : Fit(r, {r}) \/ Unfinished(r)
  /\ stage \in {"library", "archive", "link"} /\ kind = "tree" => \A r \in RuntimeFiles : Fit(r, {r}) \/ r \in failed
LibraryFits ==
  /\ stage = "library" => \A s \in LibFiles : object[s] \in since[s] \/ Unfinished(s)
  /\ stage = "archive" => \A s \in LibFiles : object[s] \in since[s]
  /\ stage = "link" /\ library /\ failed \cap LibFiles = {} /\ archive # None =>
       \A s \in LibFiles : archive[s] \in since[s] \/ s \in raced

(* On a bare machine a source waits, is compiled, has failed or is linked.  *)
OneOf(s) ==
  /\ s \in todo => ~Compiling(s) /\ s \notin failed
  /\ Compiling(s) => s \notin failed
  /\ \A c, d \in clangs : c.source = s /\ d.source = s => c = d
  /\ \A l \in linked : l.object = s => ~Unfinished(s)
BareFits ==
  /\ stage \in {"bare", "link"} /\ kind = "bare" =>
       \A s \in Bare : /\ OneOf(s)
                       /\ Unfinished(s) \/ \E l \in linked : l.object = s /\ l.text \in since[s]
  /\ stage \in {"bare", "link"} /\ kind = "bare" => \A l \in linked : l.object \in Bare
  /\ stage = "link" /\ kind = "bare" => Required \cap failed = {}

ObjectsInv ==
  /\ O!TypeOK /\ TextIsRecent /\ ObjectsReusable /\ ArchiveReusable /\ WorkOK
  /\ ModulesListed /\ ModulesFit /\ RuntimeFits /\ LibraryFits /\ BareFits /\ O!LinksWhatIsNeeded

-----------------------------------------------------------------------------
(* Names.                                                                  *)
LEMMA ObjectNames ==
  ASSUME O!ObjectsAssumption
  PROVE  /\ \A s \in StdFiles : O!ObjectOf(s) = ModuleOf[s] /\ ModuleOf[s] \in Modules /\ ModuleOf[s] \in O!Objects
         /\ \A s \in RuntimeFiles \cup LibFiles \cup Bare :
              O!ObjectOf(s) = s /\ s \in O!Objects /\ s \notin StdFiles /\ s \notin Modules
         /\ \A s \in O!Sources : s \in StdFiles \/ s \in RuntimeFiles \/ s \in LibFiles \/ s \in Bare
         /\ \A s \in StdFiles \cup RuntimeFiles \cup LibFiles \cup Bare : s \in O!Sources
         /\ \A s \in O!Sources : O!ObjectOf(s) \in O!Objects
         /\ \A r \in RuntimeFiles : r \notin LibFiles /\ r \notin Bare
         /\ \A s \in LibFiles : s \notin Bare
<1>1. \A s \in StdFiles : O!ObjectOf(s) = ModuleOf[s] /\ ModuleOf[s] \in Modules
  BY DEF O!ObjectOf, O!ObjectsAssumption
<1>2. \A s \in RuntimeFiles \cup LibFiles \cup Bare : O!ObjectOf(s) = s /\ s \notin StdFiles /\ s \notin Modules
  BY DEF O!ObjectOf, O!ObjectsAssumption, Bare
<1>3. /\ \A s \in O!Sources : s \in StdFiles \/ s \in RuntimeFiles \/ s \in LibFiles \/ s \in Bare
      /\ \A s \in StdFiles \cup RuntimeFiles \cup LibFiles \cup Bare : s \in O!Sources
  BY DEF O!Sources, Bare
<1>4. \A s \in O!Sources : O!ObjectOf(s) \in O!Objects
  BY DEF O!Objects
<1>5. (\A r \in RuntimeFiles : r \notin LibFiles /\ r \notin Bare) /\ \A s \in LibFiles : s \notin Bare
  BY DEF O!ObjectsAssumption, Bare
<1> HIDE DEF Bare
<1>6. QED BY <1>1, <1>2, <1>3, <1>4, <1>5

LEMMA FilesOfModules ==
  ASSUME O!ObjectsAssumption
  PROVE  /\ \A m : \A s \in O!FilesOf(m) : s \in StdFiles /\ ModuleOf[s] = m /\ O!ObjectOf(s) = m /\ m \in O!Objects
         /\ \A s \in StdFiles : s \in O!FilesOf(ModuleOf[s])
BY ObjectNames DEF O!FilesOf

-----------------------------------------------------------------------------
LEMMA InitObjects ==
  ASSUME O!ObjectsAssumption, O!Init
  PROVE  ObjectsInv
<1>1. O!TypeOK
  BY ObjectNames DEF O!Init, O!TypeOK, O!PCs
<1>2. TextIsRecent
  BY DEF O!Init, TextIsRecent
<1>3. ObjectsReusable /\ ArchiveReusable
  BY ObjectNames, FilesOfModules DEF O!Init, ObjectsReusable, MayReuse, ArchiveReusable
<1>4. WorkOK
  BY DEF O!Init, WorkOK
<1>5. ModulesListed /\ ModulesFit /\ RuntimeFits /\ LibraryFits /\ BareFits /\ O!LinksWhatIsNeeded
  BY DEF O!Init, ModulesListed, Beyond, ModulesFit, RuntimeFits, LibraryFits, BareFits, O!LinksWhatIsNeeded
<1>6. QED BY <1>1, <1>2, <1>3, <1>4, <1>5 DEF ObjectsInv

\* A source is edited.
LEMMA EditStep ==
  ASSUME O!ObjectsAssumption, ObjectsInv, O!Edit
  PROVE  ObjectsInv'
<1>1. PICK s \in O!Relevant, t \in SourceTexts :
        /\ sources' = [sources EXCEPT ![s] = t]
        /\ current' = current \ {s} /\ fresh' = fresh \ {s}
        /\ since' = [since EXCEPT ![s] = IF stage = "idle" THEN {t} ELSE @ \cup {t}]
        /\ UNCHANGED <<object, archive, stage, O!request, O!work, raced>>
  BY DEF O!Edit
<1>2. s \in O!Sources
  BY DEF O!Relevant, O!Sources
<1>3. O!TypeOK /\ TextIsRecent
  BY DEF ObjectsInv
<1>4. /\ sources' \in [O!Sources -> SourceTexts] /\ sources'[s] = t /\ \A u \in O!Sources : u # s => sources'[u] = sources[u]
      /\ since' \in [O!Sources -> SUBSET SourceTexts] /\ t \in since'[s]
      /\ \A u \in O!Sources : u # s => since'[u] = since[u]
      /\ stage # "idle" => \A u \in O!Sources : since[u] \subseteq since'[u]
  BY <1>1, <1>2, <1>3 DEF O!TypeOK
<1>5. UNCHANGED <<object, archive, stage, kind, library, used, queue, listed, todo, clangs, failed, linked, raced>>
  BY <1>1 DEF O!request, O!work
<1>6. O!TypeOK' /\ TextIsRecent'
  BY <1>1, <1>3, <1>4, <1>5 DEF O!TypeOK, TextIsRecent
<1>7. ObjectsReusable'
  <2>1. ASSUME NEW o, NEW S \in SUBSET O!Sources, MayReuse(o, S) PROVE MayReuse(o, S)'
    BY <1>1, <1>4, <1>5, <2>1 DEF MayReuse
  <2>2. \A m \in Modules : O!FilesOf(m) \in SUBSET O!Sources
    BY FilesOfModules, ObjectNames
  <2>3. \A r \in RuntimeFiles : {r} \in SUBSET O!Sources
    BY ObjectNames
  <2>4. QED BY <2>1, <2>2, <2>3 DEF ObjectsInv, ObjectsReusable
<1>8. ArchiveReusable'
  BY <1>1, <1>4, <1>5, ObjectNames DEF ObjectsInv, ArchiveReusable
<1>9. WorkOK'
  <2>1. stage = "idle" => clangs = {}
    BY DEF ObjectsInv, WorkOK, StageFiles
  <2>2. QED BY <1>1, <1>4, <1>5, <2>1 DEF ObjectsInv, WorkOK, StageFiles
<1>10. ModulesListed'
  BY <1>5 DEF ObjectsInv, ModulesListed, Beyond
<1>11. ASSUME NEW o, NEW S \in SUBSET O!Sources, stage # "idle", Fit(o, S) PROVE Fit(o, S)'
  BY <1>4, <1>5, <1>11 DEF Fit
<1>12. ModulesFit' /\ RuntimeFits'
  <2>1. \A m \in Modules : O!FilesOf(m) \in SUBSET O!Sources
    BY FilesOfModules, ObjectNames
  <2>2. \A r \in RuntimeFiles : {r} \in SUBSET O!Sources
    BY ObjectNames
  <2>3. listed \subseteq Modules
    BY <1>3 DEF O!TypeOK
  <2>4. ModulesFit'
    BY <1>5, <1>11, <2>1, <2>3 DEF ObjectsInv, ModulesFit, O!ListedObjects, Unfinished, Compiling, Beyond
  <2>5. RuntimeFits'
    BY <1>5, <1>11, <2>2 DEF ObjectsInv, RuntimeFits, Unfinished, Compiling
  <2>6. QED BY <2>4, <2>5
<1>13. LibraryFits'
  BY <1>4, <1>5, ObjectNames DEF ObjectsInv, LibraryFits, Unfinished, Compiling
<1>14. BareFits'
  BY <1>4, <1>5, ObjectNames DEF ObjectsInv, BareFits, OneOf, Unfinished, Compiling
<1>15. O!LinksWhatIsNeeded'
  <2>1. ASSUME NEW o, NEW S \in SUBSET O!Sources, stage = "done", O!Current(o, S) PROVE O!Current(o, S)'
    BY <1>4, <1>5, <2>1 DEF O!Current
  <2>2. \A m \in Modules : O!FilesOf(m) \in SUBSET O!Sources
    BY FilesOfModules, ObjectNames
  <2>3. \A u \in RuntimeFiles \cup LibFiles \cup Required \cup Optional : {u} \in SUBSET O!Sources
    BY DEF O!Sources
  <2>4. O!LinksWhatIsNeeded /\ O!Needed' = O!Needed /\ O!Needed \subseteq Modules
    BY <1>5 DEF ObjectsInv, O!Needed
  <2>5. QED BY <1>5, <2>1, <2>2, <2>3, <2>4 DEF O!LinksWhatIsNeeded
<1>16. QED
  BY <1>6, <1>7, <1>8, <1>9, <1>10, <1>12, <1>13, <1>14, <1>15 DEF ObjectsInv

\* What reads only the sources and their outputs.
OutputsOK == TextIsRecent /\ ObjectsReusable /\ ArchiveReusable
LEMMA OutputsKept ==
  ASSUME OutputsOK, UNCHANGED <<sources, object, current, archive, fresh, raced, since>>
  PROVE  OutputsOK'
BY DEF OutputsOK, TextIsRecent, ObjectsReusable, MayReuse, ArchiveReusable

Parts == O!TypeOK /\ OutputsOK /\ WorkOK
Stages == ModulesListed /\ ModulesFit /\ RuntimeFits /\ LibraryFits /\ BareFits /\ O!LinksWhatIsNeeded
LEMMA ObjectsSplit == ObjectsInv <=> Parts /\ Stages
BY DEF ObjectsInv, Parts, OutputsOK, Stages

\* A build begins, and ends or is killed.
LEMMA BeginStep ==
  ASSUME O!ObjectsAssumption, ObjectsInv, O!Begin
  PROVE  ObjectsInv'
<1>1. O!TypeOK /\ OutputsOK /\ WorkOK
  BY ObjectsSplit DEF Parts
<1>2. /\ UNCHANGED <<sources, object, current, archive, fresh, kind, library, raced>>
      /\ clangs' = {} /\ failed' = {} /\ linked' = {} /\ listed' = {} /\ queue' = used' /\ used' \in SUBSET Modules
      /\ since' = [u \in O!Sources |-> {sources[u]}]
  BY DEF O!Begin, O!files
<1>3. CASE kind = "bare"
  <2>1. stage' = "bare" /\ todo' = Required \cup Optional
    BY <1>3 DEF O!Begin
  <2>2. todo' = Bare /\ Bare \subseteq O!Sources
    BY <2>1, ObjectNames DEF Bare
  <2>3. O!TypeOK'
    BY <1>1, <1>2, <2>1, <2>2 DEF O!TypeOK, O!PCs
  <2>4. OutputsOK'
    BY <1>1, <1>2 DEF OutputsOK, TextIsRecent, ObjectsReusable, MayReuse, ArchiveReusable
  <2>5. WorkOK'
    BY <1>1, <1>2, <1>3, <2>1, <2>2 DEF WorkOK, StageFiles
  <2>6. ModulesListed' /\ ModulesFit' /\ RuntimeFits' /\ LibraryFits' /\ O!LinksWhatIsNeeded'
    BY <1>2, <1>3, <2>1 DEF ModulesListed, Beyond, ModulesFit, RuntimeFits, LibraryFits, O!LinksWhatIsNeeded
  <2>7. BareFits'
    <3>1. stage' # "link" /\ (\A u \in Bare : u \in todo')
      BY <2>1, <2>2
    <3>2. \A u \in Bare : OneOf(u)' /\ Unfinished(u)'
      BY <1>2, <3>1 DEF OneOf, Compiling, Unfinished
    <3>3. \A l \in linked' : FALSE
      BY <1>2
    <3>4. QED BY <3>1, <3>2, <3>3 DEF BareFits
  <2>8. QED BY <2>3, <2>4, <2>5, <2>6, <2>7 DEF ObjectsInv, OutputsOK, Stages
<1>4. CASE kind # "bare"
  <2>1. stage' = "modules" /\ todo' = {}
    BY <1>4 DEF O!Begin
  <2>2. O!TypeOK'
    BY <1>1, <1>2, <2>1 DEF O!TypeOK, O!PCs
  <2>3. OutputsOK'
    BY <1>1, <1>2 DEF OutputsOK, TextIsRecent, ObjectsReusable, MayReuse, ArchiveReusable
  <2>4. WorkOK'
    BY <1>1, <1>2, <1>4, <2>1 DEF WorkOK, StageFiles
  <2>5. Stages'
    <3>1. ModulesListed'
      BY <1>2, <2>1 DEF ModulesListed, Beyond
    <3>2. ModulesFit'
      BY <1>2, <2>1 DEF ModulesFit, Beyond
    <3>3. RuntimeFits'
      BY <1>2, <2>1 DEF RuntimeFits
    <3>4. LibraryFits'
      BY <1>2, <2>1 DEF LibraryFits
    <3>5. BareFits'
      BY <1>2, <2>1 DEF BareFits
    <3>6. O!LinksWhatIsNeeded'
      BY <1>2, <2>1 DEF O!LinksWhatIsNeeded
    <3>7. QED BY <3>1, <3>2, <3>3, <3>4, <3>5, <3>6 DEF Stages
  <2>6. QED BY <2>2, <2>3, <2>4, <2>5 DEF ObjectsInv, OutputsOK, Stages
<1>5. QED BY <1>3, <1>4

LEMMA StopStep ==
  ASSUME O!ObjectsAssumption, ObjectsInv, O!Stop
  PROVE  ObjectsInv'
<1>1. O!TypeOK /\ OutputsOK /\ WorkOK
  BY ObjectsSplit DEF Parts
<1>2. /\ UNCHANGED <<sources, object, current, archive, fresh, kind, library, raced>>
      /\ stage' = "idle" /\ used' = {} /\ queue' = {} /\ listed' = {} /\ todo' = {} /\ clangs' = {}
      /\ failed' = {} /\ linked' = {} /\ since' = [u \in O!Sources |-> {sources[u]}]
  BY DEF O!Stop, O!files
<1>3. O!TypeOK'
  BY <1>1, <1>2 DEF O!TypeOK, O!PCs
<1>4. OutputsOK'
  BY <1>1, <1>2 DEF OutputsOK, TextIsRecent, ObjectsReusable, MayReuse, ArchiveReusable
<1>5. WorkOK'
  BY <1>1, <1>2 DEF WorkOK, StageFiles
<1>6. Stages'
  <2>1. ModulesListed'
    BY <1>2 DEF ModulesListed, Beyond
  <2>2. ModulesFit'
    BY <1>2 DEF ModulesFit, Beyond
  <2>3. RuntimeFits'
    BY <1>2 DEF RuntimeFits
  <2>4. LibraryFits'
    BY <1>2 DEF LibraryFits
  <2>5. BareFits'
    BY <1>2 DEF BareFits
  <2>6. O!LinksWhatIsNeeded'
    BY <1>2 DEF O!LinksWhatIsNeeded
  <2>7. QED BY <2>1, <2>2, <2>3, <2>4, <2>5, <2>6 DEF Stages
<1>7. QED BY <1>3, <1>4, <1>5, <1>6 DEF ObjectsInv, OutputsOK, Stages

\* Modules are listed.
LEMMA VisitStep ==
  ASSUME O!ObjectsAssumption, ObjectsInv, NEW m \in Modules, O!Visit(m)
  PROVE  ObjectsInv'
<1>1. O!TypeOK /\ OutputsOK /\ WorkOK /\ ModulesListed
  BY ObjectsSplit DEF Parts, Stages
<1>2. /\ UNCHANGED <<sources, object, current, archive, fresh, kind, library, used, stage, todo, clangs, failed, linked,
                     raced, since>>
      /\ stage = "modules" /\ m \in queue /\ listed' = listed \cup {m} /\ queue' = (queue \cup Deps[m]) \ listed'
  BY DEF O!Visit, O!files, O!request, O!history
<1>3. Deps[m] \subseteq Modules
  BY DEF O!ObjectsAssumption
<1>4. O!TypeOK'
  BY <1>1, <1>2, <1>3 DEF O!TypeOK
<1>5. OutputsOK'
  BY <1>1, <1>2, OutputsKept
<1>6. WorkOK'
  BY <1>1, <1>2 DEF WorkOK, StageFiles
<1>7. ModulesListed'
  BY <1>1, <1>2 DEF ModulesListed, Beyond
<1>8. ModulesFit' /\ RuntimeFits' /\ LibraryFits' /\ BareFits' /\ O!LinksWhatIsNeeded'
  <2>1. ModulesFit'
    BY <1>2 DEF ModulesFit, Beyond
  <2>2. RuntimeFits'
    BY <1>2 DEF RuntimeFits
  <2>3. LibraryFits'
    BY <1>2 DEF LibraryFits
  <2>4. BareFits'
    BY <1>2 DEF BareFits
  <2>5. O!LinksWhatIsNeeded'
    BY <1>2 DEF O!LinksWhatIsNeeded
  <2>6. QED BY <2>1, <2>2, <2>3, <2>4, <2>5
<1>9. QED BY <1>4, <1>5, <1>6, <1>7, <1>8 DEF ObjectsInv, OutputsOK, Stages

\* An object that is reused is fit.
LEMMA ReusedIsFit ==
  ASSUME TextIsRecent, NEW o, NEW S \in SUBSET O!Sources, MayReuse(o, S), object[o] # None, S \subseteq current
  PROVE  Fit(o, S)
BY DEF TextIsRecent, MayReuse, Fit

LEMMA ListFilesStep ==
  ASSUME O!ObjectsAssumption, ObjectsInv, O!ListFiles
  PROVE  ObjectsInv'
<1>1. O!TypeOK /\ OutputsOK /\ WorkOK /\ ModulesListed
  BY ObjectsSplit DEF Parts, Stages
<1>2. /\ UNCHANGED <<sources, object, current, archive, fresh, kind, library, used, queue, listed, clangs, failed,
                     linked, raced, since>>
      /\ stage = "modules" /\ queue = {} /\ stage' = "std"
      /\ todo' = {s \in StdFiles : ModuleOf[s] \in listed /\ O!NeedsRebuild(s)}
  BY DEF O!ListFiles, O!files, O!request, O!history
<1>3. todo' \subseteq StdFiles /\ StdFiles \subseteq O!Sources /\ clangs = {} /\ listed \subseteq Modules
  BY <1>1, <1>2, ObjectNames DEF WorkOK, StageFiles, O!TypeOK
<1>4. O!TypeOK'
  BY <1>1, <1>2, <1>3 DEF O!TypeOK, O!PCs
<1>5. OutputsOK'
  BY <1>1, <1>2, OutputsKept
<1>6. WorkOK'
  BY <1>1, <1>2, <1>3 DEF WorkOK, StageFiles
<1>7. ModulesListed'
  BY <1>1, <1>2 DEF ModulesListed, Beyond
<1>8. ModulesFit'
  <2>1. ASSUME NEW m \in O!ListedObjects, \A s \in O!FilesOf(m) : s \notin todo'
        PROVE  Fit(m, O!FilesOf(m))
    <3>1. m \in listed /\ O!FilesOf(m) # {} /\ m \in Modules
      BY <1>3 DEF O!ListedObjects
    <3>2. \A s \in O!FilesOf(m) : ~O!NeedsRebuild(s)
      BY <1>2, <2>1, <3>1, FilesOfModules
    <3>3. object[m] # None /\ O!FilesOf(m) \subseteq current
      BY <3>1, <3>2, FilesOfModules DEF O!NeedsRebuild
    <3>4. MayReuse(m, O!FilesOf(m)) /\ O!FilesOf(m) \in SUBSET O!Sources /\ TextIsRecent
      BY <1>1, <3>1, FilesOfModules, ObjectNames DEF OutputsOK, ObjectsReusable
    <3>5. QED BY <3>3, <3>4, ReusedIsFit
  <2>2. O!ListedObjects' = O!ListedObjects /\ \A m \in O!ListedObjects : Fit(m, O!FilesOf(m)) => Fit(m, O!FilesOf(m))'
    BY <1>2 DEF O!ListedObjects, Fit
  <2>3. QED BY <1>2, <2>1, <2>2 DEF ModulesFit, Beyond, Unfinished
<1>9. RuntimeFits' /\ LibraryFits' /\ BareFits' /\ O!LinksWhatIsNeeded'
  <2>1. RuntimeFits'
    BY <1>2 DEF RuntimeFits
  <2>2. LibraryFits'
    BY <1>2 DEF LibraryFits
  <2>3. BareFits'
    BY <1>2 DEF BareFits
  <2>4. O!LinksWhatIsNeeded'
    BY <1>2 DEF O!LinksWhatIsNeeded
  <2>5. QED BY <2>1, <2>2, <2>3, <2>4
<1>10. QED BY <1>4, <1>5, <1>6, <1>7, <1>8, <1>9 DEF ObjectsInv, OutputsOK, Stages

\* A compiler starts.
LEMMA StageOf ==
  ASSUME NEW s \in StageFiles
  PROVE  /\ s \in O!Sources /\ stage \in {"std", "runtime", "library", "bare"}
         /\ stage = "std" => s \in StdFiles
         /\ stage = "runtime" => s \in RuntimeFiles
         /\ stage = "library" => s \in LibFiles
         /\ stage = "bare" => s \in Bare
BY DEF StageFiles

LEMMA ClangStartsStep ==
  ASSUME O!ObjectsAssumption, ObjectsInv, NEW s \in O!Sources, O!ClangStarts(s)
  PROVE  ObjectsInv'
<1>1. O!TypeOK /\ OutputsOK /\ WorkOK /\ Stages
  BY ObjectsSplit DEF Parts
<1>2. /\ UNCHANGED <<sources, object, current, archive, fresh, stage, kind, library, used, queue, listed, failed, linked,
                     raced, since>>
      /\ s \in todo /\ todo' = todo \ {s} /\ clangs' = clangs \cup {[source |-> s, text |-> sources[s]]}
  BY DEF O!ClangStarts, O!files, O!request, O!history
<1>3. s \in StageFiles
  BY <1>1, <1>2 DEF WorkOK
<1>4. stage \in {"std", "runtime", "library", "bare"}
  BY <1>3, StageOf
<1>5. (\A u : Compiling(u)' <=> Compiling(u) \/ u = s) /\ (\A u : Unfinished(u)' <=> Unfinished(u))
  <2> DEFINE c0 == [source |-> s, text |-> sources[s]]
  <2>1. clangs' = clangs \cup {c0} /\ c0.source = s
    BY <1>2
  <2>2. \A u : Compiling(u)' <=> Compiling(u) \/ u = s
    BY <2>1 DEF Compiling
  <2>3. \A u : Unfinished(u)' <=> Unfinished(u)
    BY <1>2, <2>2 DEF Unfinished
  <2>4. QED BY <2>2, <2>3
<1>6. sources[s] \in SourceTexts /\ sources[s] \in since[s]
  BY <1>1 DEF O!TypeOK, OutputsOK, TextIsRecent
<1>7. O!TypeOK'
  BY <1>1, <1>2, <1>6 DEF O!TypeOK
<1>8. OutputsOK'
  BY <1>1, <1>2, OutputsKept
<1>9. WorkOK'
  <2>1. StageFiles' = StageFiles
    BY <1>2 DEF StageFiles
  <2>2. \A c \in clangs' : c.source \in StageFiles' /\ c.text \in since'[c.source]
    BY <1>1, <1>2, <1>3, <1>6, <2>1 DEF WorkOK
  <2>3. QED BY <1>1, <1>2, <2>1, <2>2 DEF WorkOK
<1>10. ModulesListed'
  BY <1>1, <1>2 DEF Stages, ModulesListed, Beyond
<1>11. \A o, S : Fit(o, S)' <=> Fit(o, S)
  BY <1>2 DEF Fit
<1>12. ModulesFit'
  BY <1>1, <1>2, <1>5, <1>11 DEF Stages, ModulesFit, O!ListedObjects, Beyond
<1>13. RuntimeFits'
  BY <1>1, <1>2, <1>5, <1>11 DEF Stages, RuntimeFits
<1>14. LibraryFits'
  BY <1>1, <1>2, <1>4, <1>5 DEF Stages, LibraryFits
<1>15. BareFits'
  <2>1. ASSUME stage = "bare", kind = "bare", NEW u \in Bare PROVE OneOf(u)'
    <3>1. OneOf(u) /\ OneOf(s)
      BY <1>1, <1>3, <2>1, StageOf DEF Stages, BareFits
    <3>2. u \in todo' => ~Compiling(u)' /\ u \notin failed'
      BY <1>2, <1>5, <3>1 DEF OneOf
    <3>3. Compiling(u)' => u \notin failed'
      BY <1>2, <1>5, <3>1 DEF OneOf
    <3>4. \A l \in linked' : l.object = u => ~Unfinished(u)'
      BY <1>2, <1>5, <3>1 DEF OneOf
    <3>5. ~Compiling(s)
      BY <1>2, <3>1 DEF OneOf
    <3>6. \A c, d \in clangs' : c.source = u /\ d.source = u => c = d
      BY <1>2, <3>1, <3>5 DEF OneOf, Compiling
    <3>7. QED BY <3>2, <3>3, <3>4, <3>6 DEF OneOf
  <2>2. QED BY <1>1, <1>2, <1>4, <1>5, <2>1 DEF Stages, BareFits
<1>16. O!LinksWhatIsNeeded'
  BY <1>2, <1>4 DEF O!LinksWhatIsNeeded
<1>17. QED
  BY <1>7, <1>8, <1>9, <1>10, <1>12, <1>13, <1>14, <1>15, <1>16 DEF ObjectsInv, OutputsOK

\* An object has been compiled: that of source s.  The others are as they were.
LEMMA ClangEndsStep ==
  ASSUME O!ObjectsAssumption, ObjectsInv, NEW c \in clangs, O!ClangEnds(c)
  PROVE  ObjectsInv'
<1> DEFINE s == c.source
           o == O!ObjectOf(c.source)
<1>1. O!TypeOK /\ OutputsOK /\ WorkOK /\ Stages
  BY ObjectsSplit DEF Parts
<1>2. /\ UNCHANGED <<sources, archive, fresh, stage, kind, library, used, queue, listed, todo, failed, since>>
      /\ object' = [object EXCEPT ![o] = c.text]
      /\ current' = current \cup {u \in O!Sources : O!ObjectOf(u) = o}
      /\ clangs' = clangs \ {c}
      /\ linked' = IF stage = "bare" THEN linked \cup {[object |-> s, text |-> c.text]} ELSE linked
  BY DEF O!ClangEnds, O!request
<1>3. raced' = (raced \ ({s} \ LibFiles)) \cup {u \in {s} \ LibFiles : c.text # sources[u]}
  BY DEF O!ClangEnds, O!Races
<1>4. s \in StageFiles /\ c.text \in since[s] /\ s \in O!Sources /\ c.text \in SourceTexts
  BY <1>1 DEF WorkOK, O!TypeOK
<1>5. stage \in {"std", "runtime", "library", "bare"}
  BY <1>4, StageOf
<1>6. o \in O!Objects
  BY <1>4, ObjectNames
<1>7. object'[o] = c.text /\ \A p \in O!Objects : p # o => object'[p] = object[p]
  BY <1>1, <1>2, <1>6 DEF O!TypeOK
<1>8. /\ \A u : u # s => (u \in raced' <=> u \in raced)
      /\ s \notin LibFiles => c.text = sources[s] \/ s \in raced'
      /\ \A u \in LibFiles : u \in raced' <=> u \in raced
  BY <1>3
<1>9. c.text # None
  BY <1>4 DEF O!ObjectsAssumption
<1>10. \A u : Compiling(u)' => Compiling(u)
  BY <1>2 DEF Compiling
<1>11. \A u : u # s => (Unfinished(u)' <=> Unfinished(u))
  BY <1>2 DEF Compiling, Unfinished
<1>12. /\ s \in StdFiles => o \in Modules /\ s \in O!FilesOf(o)
       /\ s \notin StdFiles => o = s /\ o \notin Modules
  BY <1>4, ObjectNames, FilesOfModules
<1>13. \A m \in Modules : m # o => \A u \in O!FilesOf(m) : u # s /\ m \in O!Objects /\ (u \in current' <=> u \in current)
  BY <1>2, FilesOfModules
<1>14. \A r \in RuntimeFiles : r # s => r # o /\ r \in O!Objects /\ (r \in current' <=> r \in current)
  BY <1>2, <1>12, ObjectNames
<1>15. \A r \in LibFiles : r # s => r # o /\ r \in O!Objects
  BY <1>12, ObjectNames
<1> HIDE DEF s, o
<1>16. O!TypeOK'
  <2>1. object' \in [O!Objects -> SourceTexts \cup {None}]
    BY <1>1, <1>2, <1>4 DEF O!TypeOK
  <2>2. linked' \subseteq [object: O!Objects, text: SourceTexts]
    <3>1. stage = "bare" => s \in O!Objects
      BY <1>4, StageOf, ObjectNames
    <3>2. QED BY <1>1, <1>2, <1>4, <3>1 DEF O!TypeOK
  <2>3. raced' \subseteq O!Sources /\ current' \subseteq O!Sources
    BY <1>1, <1>2, <1>3, <1>4 DEF O!TypeOK
  <2>4. QED BY <1>1, <1>2, <2>1, <2>2, <2>3 DEF O!TypeOK
<1>17. OutputsOK'
  <2>1. TextIsRecent'
    BY <1>1, <1>2 DEF OutputsOK, TextIsRecent
  <2>2. ArchiveReusable'
    BY <1>1, <1>2, <1>8 DEF OutputsOK, ArchiveReusable
  <2>3. ASSUME NEW m \in Modules, O!FilesOf(m) # {} PROVE MayReuse(m, O!FilesOf(m))'
    <3>1. CASE m = o
      BY <1>2, <1>7, <1>8, <1>12, <3>1, ObjectNames, <1>4 DEF MayReuse
    <3>2. CASE m # o
      <4>1. MayReuse(m, O!FilesOf(m))
        BY <1>1, <2>3 DEF OutputsOK, ObjectsReusable
      <4>2. m \in O!Objects
        BY <2>3, FilesOfModules
      <4>3. QED BY <1>2, <1>7, <1>8, <1>13, <3>2, <4>1, <4>2 DEF MayReuse
    <3>3. QED BY <3>1, <3>2
  <2>4. ASSUME NEW r \in RuntimeFiles PROVE MayReuse(r, {r})'
    <3>1. CASE r = s
      BY <1>2, <1>7, <1>8, <1>12, <3>1, ObjectNames DEF MayReuse
    <3>2. CASE r # s
      BY <1>1, <1>2, <1>7, <1>8, <1>14, <3>2 DEF OutputsOK, ObjectsReusable, MayReuse
    <3>3. QED BY <3>1, <3>2
  <2>5. ObjectsReusable'
    BY <2>3, <2>4 DEF ObjectsReusable
  <2>6. QED BY <2>1, <2>2, <2>5 DEF OutputsOK
<1>18. WorkOK'
  BY <1>1, <1>2 DEF WorkOK, StageFiles
<1>19. ModulesListed'
  BY <1>1, <1>2 DEF Stages, ModulesListed, Beyond
<1>20. O!ListedObjects' = O!ListedObjects /\ O!ListedObjects \subseteq Modules
  BY <1>1, <1>2 DEF O!ListedObjects, O!TypeOK
<1>21. ASSUME NEW m \in Modules, m # o, Fit(m, O!FilesOf(m)) PROVE Fit(m, O!FilesOf(m))'
  BY <1>2, <1>7, <1>8, <1>13, <1>21 DEF Fit
<1>22. ASSUME NEW r \in RuntimeFiles, r # s, Fit(r, {r}) PROVE Fit(r, {r})'
  BY <1>2, <1>7, <1>8, <1>14, <1>22 DEF Fit
<1>23. s \in StdFiles => Fit(o, O!FilesOf(o))'
  BY <1>2, <1>4, <1>7, <1>9, <1>12 DEF Fit
<1>24. s \in RuntimeFiles => Fit(s, {s})'
  BY <1>2, <1>4, <1>7, <1>9, <1>12, ObjectNames DEF Fit
<1>25. ModulesFit'
  <2>1. ASSUME stage = "std", NEW m \in O!ListedObjects
        PROVE  Fit(m, O!FilesOf(m))' \/ \E u \in O!FilesOf(m) : Unfinished(u)'
    <3>1. CASE m = o
      BY <1>4, <1>23, <2>1, <3>1, StageOf
    <3>2. CASE m # o
      <4>1. m \in Modules /\ (Fit(m, O!FilesOf(m)) \/ \E u \in O!FilesOf(m) : Unfinished(u))
        BY <1>1, <1>20, <2>1 DEF Stages, ModulesFit
      <4>2. QED BY <1>11, <1>13, <1>21, <3>2, <4>1
    <3>3. QED BY <3>1, <3>2
  <2>2. ASSUME Beyond({"runtime", "library", "archive", "link"}), NEW m \in O!ListedObjects
        PROVE  Fit(m, O!FilesOf(m))'
    <3>1. s \notin StdFiles
      BY <1>4, <1>5, <2>2, StageOf, ObjectNames DEF Beyond
    <3>2. m # o /\ m \in Modules
      BY <1>12, <1>20, <3>1
    <3>3. Fit(m, O!FilesOf(m))
      BY <1>1, <2>2 DEF Stages, ModulesFit
    <3>4. QED BY <1>21, <3>2, <3>3
  <2>3. QED BY <1>2, <1>20, <2>1, <2>2 DEF ModulesFit, Beyond
<1>26. RuntimeFits'
  <2>1. ASSUME NEW r \in RuntimeFiles, Fit(r, {r}) \/ Unfinished(r)
        PROVE  Fit(r, {r})' \/ Unfinished(r)'
    BY <1>11, <1>22, <1>24, <2>1
  <2>2. stage = "library" => s \notin RuntimeFiles
    BY <1>4, StageOf, ObjectNames
  <2>3. stage = "library" => \A r \in RuntimeFiles : r # s /\ (Fit(r, {r}) => Fit(r, {r})')
    BY <1>22, <2>2
  <2>4. QED BY <1>1, <1>2, <1>5, <2>1, <2>3 DEF Stages, RuntimeFits
<1>27. LibraryFits'
  <2>1. ASSUME stage = "library", NEW r \in LibFiles PROVE object'[r] \in since'[r] \/ Unfinished(r)'
    <3>1. CASE r = s
      BY <1>2, <1>4, <1>7, <1>12, <2>1, <3>1, ObjectNames
    <3>2. CASE r # s
      BY <1>1, <1>2, <1>7, <1>11, <1>15, <2>1, <3>2 DEF Stages, LibraryFits
    <3>3. QED BY <3>1, <3>2
  <2>2. QED BY <1>2, <1>5, <2>1 DEF LibraryFits
<1>28. BareFits'
  <2>1. ASSUME stage = "bare", kind = "bare", NEW u \in Bare
        PROVE  OneOf(u)' /\ (Unfinished(u)' \/ \E l \in linked' : l.object = u /\ l.text \in since'[u])
    <3>1. OneOf(u) /\ (Unfinished(u) \/ \E l \in linked : l.object = u /\ l.text \in since[u])
      BY <1>1, <2>1 DEF Stages, BareFits
    <3>2. linked' = linked \cup {[object |-> s, text |-> c.text]}
      BY <1>2, <2>1
    <3>3. CASE u = s
      <4>1. Compiling(s)
        BY DEF Compiling, s
      <4>2. u \notin todo /\ u \notin failed
        BY <3>1, <3>3, <4>1 DEF OneOf
      <4>3. ~Compiling(u)'
        BY <1>2, <3>1, <3>3 DEF OneOf, Compiling, s
      <4>4. ~Unfinished(u)'
        BY <1>2, <4>2, <4>3 DEF Unfinished
      <4>5. \A d, e \in clangs' : d.source = u /\ e.source = u => d = e
        BY <1>2, <3>1 DEF OneOf
      <4>6. OneOf(u)'
        BY <1>2, <4>2, <4>3, <4>4, <4>5 DEF OneOf
      <4>7. \E l \in linked' : l.object = u /\ l.text \in since'[u]
        <5>1. [object |-> s, text |-> c.text] \in linked'
          BY <3>2
        <5>2. QED BY <1>2, <1>4, <3>3, <5>1
      <4>8. QED BY <4>6, <4>7
    <3>4. CASE u # s
      <4>1. \A l \in linked' : l.object = u => l \in linked
        BY <3>2, <3>4
      <4>2. Compiling(u)' <=> Compiling(u)
        BY <1>2, <3>4 DEF Compiling, s
      <4>3. OneOf(u)'
        BY <1>2, <1>11, <3>1, <3>4, <4>1, <4>2 DEF OneOf
      <4>4. QED BY <1>2, <1>11, <3>1, <3>2, <3>4, <4>3
    <3>5. QED BY <3>3, <3>4
  <2>2. ASSUME stage = "bare", kind = "bare", NEW l \in linked' PROVE l.object \in Bare
    BY <1>1, <1>2, <1>4, <2>2, StageOf DEF Stages, BareFits
  <2>3. stage' # "link" /\ (stage' = "bare" => stage = "bare") /\ kind' = kind
    BY <1>2, <1>5
  <2>4. QED BY <2>1, <2>2, <2>3 DEF BareFits
<1>29. O!LinksWhatIsNeeded'
  BY <1>2, <1>5 DEF O!LinksWhatIsNeeded
<1>30. QED
  BY <1>16, <1>17, <1>18, <1>19, <1>25, <1>26, <1>27, <1>28, <1>29 DEF ObjectsInv, OutputsOK

\* A compiler fails: the object that it would have written is as it was, or gone.
LEMMA ClangFailsStep ==
  ASSUME O!ObjectsAssumption, ObjectsInv, NEW c \in clangs, O!ClangFails(c)
  PROVE  ObjectsInv'
<1> DEFINE s == c.source
           o == O!ObjectOf(c.source)
<1>1. O!TypeOK /\ OutputsOK /\ WorkOK /\ Stages
  BY ObjectsSplit DEF Parts
<1>2. /\ UNCHANGED <<sources, current, archive, fresh, stage, kind, library, used, queue, listed, todo, linked, raced, since>>
      /\ object' \in {object, [object EXCEPT ![o] = None]}
      /\ failed' = failed \cup {s} /\ clangs' = clangs \ {c}
  BY DEF O!ClangFails, O!request, O!history
<1>3. s \in StageFiles /\ s \in O!Sources
  BY <1>1 DEF WorkOK, O!TypeOK
<1>4. stage \in {"std", "runtime", "library", "bare"}
  BY <1>3, StageOf
<1>5. o \in O!Objects
  BY <1>3, ObjectNames
<1>6. /\ \A p \in O!Objects : p # o => object'[p] = object[p]
      /\ object'[o] = object[o] \/ object'[o] = None
  BY <1>1, <1>2, <1>5 DEF O!TypeOK
<1>7. (\A u : u # s => (Unfinished(u)' <=> Unfinished(u))) /\ Unfinished(s)'
  BY <1>2 DEF Compiling, Unfinished
<1>8. /\ s \in StdFiles => o \in Modules /\ s \in O!FilesOf(o)
      /\ s \notin StdFiles => o = s /\ o \notin Modules
  BY <1>3, ObjectNames, FilesOfModules
<1>9. \A m \in Modules : m # o => \A u \in O!FilesOf(m) : u # s /\ m \in O!Objects
  BY FilesOfModules
<1>10. \A r \in RuntimeFiles \cup LibFiles : r # s => r # o /\ r \in O!Objects
  BY <1>8, ObjectNames
<1> HIDE DEF s, o
<1>11. O!TypeOK'
  <2>1. object' \in [O!Objects -> SourceTexts \cup {None}]
    BY <1>1, <1>2 DEF O!TypeOK
  <2>2. QED BY <1>1, <1>2, <1>3, <2>1 DEF O!TypeOK
<1>12. OutputsOK'
  <2>1. TextIsRecent' /\ ArchiveReusable'
    BY <1>1, <1>2 DEF OutputsOK, TextIsRecent, ArchiveReusable
  <2>2. ASSUME NEW p \in O!Objects, NEW S, MayReuse(p, S) PROVE MayReuse(p, S)'
    BY <1>2, <1>6, <2>2 DEF MayReuse
  <2>3. \A m \in Modules : O!FilesOf(m) # {} => m \in O!Objects
    BY FilesOfModules
  <2>4. \A r \in RuntimeFiles : r \in O!Objects
    BY ObjectNames
  <2>5. ObjectsReusable'
    BY <1>1, <2>2, <2>3, <2>4 DEF OutputsOK, ObjectsReusable
  <2>6. QED BY <2>1, <2>5 DEF OutputsOK
<1>13. WorkOK'
  BY <1>1, <1>2 DEF WorkOK, StageFiles
<1>14. ModulesListed'
  BY <1>1, <1>2 DEF Stages, ModulesListed, Beyond
<1>15. O!ListedObjects' = O!ListedObjects /\ O!ListedObjects \subseteq Modules
  BY <1>1, <1>2 DEF O!ListedObjects, O!TypeOK
<1>16. ASSUME NEW p \in O!Objects, p # o, NEW S, Fit(p, S) PROVE Fit(p, S)'
  BY <1>2, <1>6, <1>16 DEF Fit
<1>17. \A m \in O!ListedObjects : m \in O!Objects
  BY FilesOfModules DEF O!ListedObjects
<1>18. ModulesFit'
  <2>1. ASSUME stage = "std", NEW m \in O!ListedObjects
        PROVE  Fit(m, O!FilesOf(m))' \/ \E u \in O!FilesOf(m) : Unfinished(u)'
    <3>1. CASE m = o
      BY <1>3, <1>7, <1>8, <2>1, <3>1, StageOf
    <3>2. CASE m # o
      <4>1. m \in Modules /\ (Fit(m, O!FilesOf(m)) \/ \E u \in O!FilesOf(m) : Unfinished(u))
        BY <1>1, <1>15, <2>1 DEF Stages, ModulesFit
      <4>2. QED BY <1>7, <1>9, <1>16, <1>17, <3>2, <4>1
    <3>3. QED BY <3>1, <3>2
  <2>2. ASSUME Beyond({"runtime", "library", "archive", "link"}), NEW m \in O!ListedObjects
        PROVE  Fit(m, O!FilesOf(m))'
    <3>1. s \notin StdFiles
      BY <1>3, <1>4, <2>2, StageOf, ObjectNames DEF Beyond
    <3>2. m # o /\ m \in O!Objects
      BY <1>8, <1>15, <1>17, <3>1
    <3>3. Fit(m, O!FilesOf(m))
      BY <1>1, <2>2 DEF Stages, ModulesFit
    <3>4. QED BY <1>16, <3>2, <3>3
  <2>3. QED BY <1>2, <1>15, <2>1, <2>2 DEF ModulesFit, Beyond
<1>19. RuntimeFits'
  <2>1. ASSUME NEW r \in RuntimeFiles, Fit(r, {r}) \/ Unfinished(r)
        PROVE  Fit(r, {r})' \/ Unfinished(r)'
    BY <1>7, <1>10, <1>16, <2>1
  <2>2. stage = "library" => s \notin RuntimeFiles
    BY <1>3, StageOf, ObjectNames
  <2>3. stage = "library" => \A r \in RuntimeFiles : Fit(r, {r}) => Fit(r, {r})'
    BY <1>10, <1>16, <2>2
  <2>4. QED BY <1>1, <1>2, <1>4, <2>1, <2>3 DEF Stages, RuntimeFits
<1>20. LibraryFits'
  <2>1. ASSUME stage = "library", NEW r \in LibFiles PROVE object'[r] \in since'[r] \/ Unfinished(r)'
    BY <1>1, <1>2, <1>6, <1>7, <1>10, <2>1 DEF Stages, LibraryFits
  <2>2. QED BY <1>2, <1>4, <2>1 DEF LibraryFits
<1>21. BareFits'
  <2>1. ASSUME stage = "bare", kind = "bare", NEW u \in Bare
        PROVE  OneOf(u)' /\ (Unfinished(u)' \/ \E l \in linked' : l.object = u /\ l.text \in since'[u])
    <3>1. OneOf(u) /\ (Unfinished(u) \/ \E l \in linked : l.object = u /\ l.text \in since[u])
      BY <1>1, <2>1 DEF Stages, BareFits
    <3>2. CASE u = s
      <4>1. Compiling(s) /\ Unfinished(s)
        BY DEF Compiling, Unfinished, s
      <4>2. u \notin todo /\ \A l \in linked : l.object # u
        BY <3>1, <3>2, <4>1 DEF OneOf
      <4>3. ~Compiling(u)'
        BY <1>2, <3>1, <3>2 DEF OneOf, Compiling, s
      <4>4. \A d, e \in clangs' : d.source = u /\ e.source = u => d = e
        BY <1>2, <3>1 DEF OneOf
      <4>5. OneOf(u)'
        BY <1>2, <4>2, <4>3, <4>4 DEF OneOf
      <4>6. QED BY <1>7, <3>2, <4>5
    <3>3. CASE u # s
      <4>1. (Compiling(u)' <=> Compiling(u)) /\ (u \in failed' <=> u \in failed)
        BY <1>2, <3>3 DEF Compiling, s
      <4>2. OneOf(u)'
        BY <1>2, <1>7, <3>1, <3>3, <4>1 DEF OneOf
      <4>3. QED BY <1>2, <1>7, <3>1, <3>3, <4>2
    <3>4. QED BY <3>2, <3>3
  <2>2. stage = "bare" /\ kind = "bare" => \A l \in linked' : l.object \in Bare
    BY <1>1, <1>2 DEF Stages, BareFits
  <2>3. stage' # "link" /\ (stage' = "bare" => stage = "bare") /\ kind' = kind
    BY <1>2, <1>4
  <2>4. QED BY <2>1, <2>2, <2>3 DEF BareFits
<1>22. O!LinksWhatIsNeeded'
  BY <1>2, <1>4 DEF O!LinksWhatIsNeeded
<1>23. QED
  BY <1>11, <1>12, <1>13, <1>14, <1>18, <1>19, <1>20, <1>21, <1>22 DEF ObjectsInv, OutputsOK

\* A runtime file is not compiled.
LEMMA SkipStep ==
  ASSUME O!ObjectsAssumption, ObjectsInv, NEW s \in O!Sources, O!Skip(s)
  PROVE  ObjectsInv'
<1>1. O!TypeOK /\ OutputsOK /\ WorkOK /\ Stages
  BY ObjectsSplit DEF Parts
<1>2. /\ UNCHANGED <<sources, object, current, archive, fresh, stage, kind, library, used, queue, listed, clangs, failed,
                     linked, raced, since>>
      /\ stage = "runtime" /\ s \in todo /\ ~O!NeedsRebuild(s) /\ todo' = todo \ {s}
  BY DEF O!Skip, O!files, O!request, O!history
<1>3. s \in RuntimeFiles
  BY <1>1, <1>2, StageOf DEF WorkOK
<1>4. O!TypeOK'
  BY <1>1, <1>2 DEF O!TypeOK
<1>5. OutputsOK'
  BY <1>1, <1>2, OutputsKept
<1>6. WorkOK'
  BY <1>1, <1>2 DEF WorkOK, StageFiles
<1>7. ModulesListed' /\ ModulesFit'
  <2>1. O!ListedObjects' = O!ListedObjects /\ \A o, S : Fit(o, S)' <=> Fit(o, S)
    BY <1>2 DEF O!ListedObjects, Fit
  <2>2. ModulesListed'
    BY <1>1, <1>2 DEF Stages, ModulesListed, Beyond
  <2>3. ModulesFit'
    BY <1>1, <1>2, <2>1 DEF Stages, ModulesFit, Beyond
  <2>4. QED BY <2>2, <2>3
<1>8. RuntimeFits'
  <2>1. object[s] # None /\ s \in current
    BY <1>2, <1>3, ObjectNames DEF O!NeedsRebuild
  <2>2. MayReuse(s, {s}) /\ {s} \in SUBSET O!Sources
    BY <1>1, <1>3 DEF OutputsOK, ObjectsReusable
  <2>3. Fit(s, {s})
    BY <1>1, <2>1, <2>2, ReusedIsFit DEF OutputsOK
  <2>4. \A r : r # s => (Unfinished(r)' <=> Unfinished(r))
    BY <1>2 DEF Unfinished, Compiling
  <2>5. \A o, S : Fit(o, S)' <=> Fit(o, S)
    BY <1>2 DEF Fit
  <2>6. QED BY <1>1, <1>2, <2>3, <2>4, <2>5 DEF Stages, RuntimeFits
<1>9. LibraryFits' /\ BareFits' /\ O!LinksWhatIsNeeded'
  <2>1. LibraryFits'
    BY <1>2 DEF LibraryFits
  <2>2. BareFits'
    BY <1>2 DEF BareFits
  <2>3. O!LinksWhatIsNeeded'
    BY <1>2 DEF O!LinksWhatIsNeeded
  <2>4. QED BY <2>1, <2>2, <2>3
<1>10. QED BY <1>4, <1>5, <1>6, <1>7, <1>8, <1>9 DEF ObjectsInv, OutputsOK, Stages

\* The build goes to another stage: of the archive only what is there is told from none.
Beside == <<sources, object, current, fresh, kind, library, used, queue, listed, clangs, failed, linked, raced, since>>
LEMMA GotoKept ==
  ASSUME O!ObjectsAssumption, ObjectsInv, UNCHANGED Beside, clangs = {}, archive' \in {archive, None},
         stage' \in O!PCs \ {"idle", "modules"}, todo' \subseteq StageFiles', stage' # "bare",
         kind = "bare" => stage' \in {"link", "done", "failed"}
  PROVE  O!TypeOK' /\ OutputsOK' /\ WorkOK'
<1>1. O!TypeOK /\ OutputsOK /\ WorkOK
  BY ObjectsSplit DEF Parts
<1>2. todo' \subseteq O!Sources
  BY DEF StageFiles
<1>3. O!TypeOK'
  BY <1>1, <1>2 DEF O!TypeOK, Beside
<1>4. OutputsOK'
  BY <1>1 DEF OutputsOK, TextIsRecent, ObjectsReusable, MayReuse, ArchiveReusable, Beside
<1>5. WorkOK'
  BY <1>1 DEF WorkOK, Beside
<1>6. QED BY <1>3, <1>4, <1>5

LEMMA GotoModules ==
  ASSUME ObjectsInv, UNCHANGED Beside, stage' \notin {"idle", "modules", "std"},
         Beyond({"std", "runtime", "library", "archive", "link"}) \/ stage' = "failed" \/ kind = "bare",
         \A m \in O!ListedObjects : Fit(m, O!FilesOf(m)) \/ stage' = "failed" \/ kind = "bare"
  PROVE  ModulesListed' /\ ModulesFit'
<1>1. Stages
  BY ObjectsSplit
<1>2. O!ListedObjects' = O!ListedObjects /\ \A o, S : Fit(o, S)' <=> Fit(o, S)
  BY DEF O!ListedObjects, Fit, Beside
<1>3. ModulesListed'
  BY <1>1 DEF Stages, ModulesListed, Beyond, Beside
<1>4. ModulesFit'
  BY <1>2 DEF ModulesFit, Beyond, Beside
<1>5. QED BY <1>3, <1>4

LEMMA StdCompiledStep ==
  ASSUME O!ObjectsAssumption, ObjectsInv, O!StdCompiled
  PROVE  ObjectsInv'
<1>1. O!TypeOK /\ OutputsOK /\ WorkOK /\ Stages
  BY ObjectsSplit DEF Parts
<1>2. stage = "std" /\ todo = {} /\ clangs = {} /\ kind # "bare"
  BY <1>1 DEF O!StdCompiled, O!Idle, WorkOK
<1>3. UNCHANGED Beside /\ archive' = archive
  BY DEF O!StdCompiled, O!Goto, Beside, O!request, O!history
<1>4. CASE failed = {}
  <2>1. stage' = "runtime" /\ todo' \in {RuntimeFiles, {}} /\ (kind = "tree" => todo' = RuntimeFiles)
    BY <1>4 DEF O!StdCompiled, O!Goto
  <2>2. todo' \subseteq StageFiles'
    BY <2>1, ObjectNames DEF StageFiles
  <2>3. O!TypeOK' /\ OutputsOK' /\ WorkOK'
    BY <1>2, <1>3, <2>1, <2>2, GotoKept DEF O!PCs
  <2>4. \A m \in O!ListedObjects : Fit(m, O!FilesOf(m))
    BY <1>1, <1>2, <1>4 DEF Stages, ModulesFit, Unfinished, Compiling
  <2>5. ModulesListed' /\ ModulesFit'
    BY <1>2, <1>3, <2>1, <2>4, GotoModules DEF Beyond
  <2>6. RuntimeFits'
    <3>1. kind' = "tree" => \A r \in RuntimeFiles : r \in todo'
      BY <1>3, <2>1 DEF Beside
    <3>2. QED BY <2>1, <3>1 DEF RuntimeFits, Unfinished
  <2>7. LibraryFits'
    BY <2>1 DEF LibraryFits
  <2>8. BareFits'
    BY <2>1 DEF BareFits
  <2>9. O!LinksWhatIsNeeded'
    BY <2>1 DEF O!LinksWhatIsNeeded
  <2>10. QED BY <2>3, <2>5, <2>6, <2>7, <2>8, <2>9 DEF ObjectsInv, OutputsOK
<1>5. CASE failed # {}
  <2>1. stage' = "failed" /\ todo' = {}
    BY <1>5 DEF O!StdCompiled, O!Goto
  <2>2. O!TypeOK' /\ OutputsOK' /\ WorkOK'
    BY <1>2, <1>3, <2>1, GotoKept DEF O!PCs
  <2>3. ModulesListed' /\ ModulesFit'
    BY <1>3, <2>1, GotoModules
  <2>4. RuntimeFits'
    BY <2>1 DEF RuntimeFits
  <2>5. LibraryFits'
    BY <2>1 DEF LibraryFits
  <2>6. BareFits'
    BY <2>1 DEF BareFits
  <2>7. O!LinksWhatIsNeeded'
    BY <2>1 DEF O!LinksWhatIsNeeded
  <2>8. QED BY <2>2, <2>3, <2>4, <2>5, <2>6, <2>7 DEF ObjectsInv, OutputsOK
<1>6. QED BY <1>4, <1>5

\* The library is built, or its archive is used as it is: each source is as old as the
\* archive, or was edited while it was built.
LEMMA RuntimeCompiledStep ==
  ASSUME O!ObjectsAssumption, ObjectsInv, O!RuntimeCompiled
  PROVE  ObjectsInv'
<1>1. O!TypeOK /\ OutputsOK /\ WorkOK /\ Stages
  BY ObjectsSplit DEF Parts
<1>2. stage = "runtime" /\ todo = {} /\ clangs = {} /\ kind # "bare"
  BY <1>1 DEF O!RuntimeCompiled, O!Idle, WorkOK
<1>3. UNCHANGED Beside /\ archive' = archive
  BY DEF O!RuntimeCompiled, O!Goto, Beside, O!request, O!history
<1>4. \/ stage' = "library" /\ todo' = LibFiles
      \/ stage' = "link" /\ todo' = {} /\ (library => ~O!LibNeedsBuild)
  BY DEF O!RuntimeCompiled, O!Goto
<1>5. todo' \subseteq StageFiles'
  BY <1>4, ObjectNames DEF StageFiles
<1>6. O!TypeOK' /\ OutputsOK' /\ WorkOK'
  BY <1>2, <1>3, <1>4, <1>5, GotoKept DEF O!PCs
<1>7. \A m \in O!ListedObjects : Fit(m, O!FilesOf(m))
  BY <1>1, <1>2 DEF Stages, ModulesFit, Beyond
<1>8. ModulesListed' /\ ModulesFit'
  BY <1>2, <1>3, <1>4, <1>7, GotoModules DEF Beyond
<1>9. RuntimeFits'
  <2>1. kind = "tree" => \A r \in RuntimeFiles : Fit(r, {r}) \/ r \in failed
    BY <1>1, <1>2 DEF Stages, RuntimeFits, Unfinished, Compiling
  <2>2. \A o, S : Fit(o, S)' <=> Fit(o, S)
    BY <1>3 DEF Fit, Beside
  <2>3. kind' = kind /\ failed' = failed /\ stage' # "runtime"
    BY <1>3, <1>4 DEF Beside
  <2>4. QED BY <2>1, <2>2, <2>3 DEF RuntimeFits
<1>10. LibraryFits'
  <2>1. CASE stage' = "library"
    <3>1. \A s \in LibFiles : Unfinished(s)'
      BY <1>4, <2>1 DEF Unfinished
    <3>2. QED BY <2>1, <3>1 DEF LibraryFits
  <2>2. CASE stage' = "link"
    <3>1. ASSUME library, archive # None, NEW s \in LibFiles PROVE archive[s] \in since[s] \/ s \in raced
      <4>1. s \in fresh
        BY <1>4, <2>2, <3>1 DEF O!LibNeedsBuild
      <4>2. s \in O!Sources
        BY ObjectNames
      <4>3. QED BY <1>1, <3>1, <4>1, <4>2 DEF OutputsOK, ArchiveReusable, TextIsRecent
    <3>2. UNCHANGED <<library, archive, since, raced>>
      BY <1>3 DEF Beside
    <3>3. QED BY <2>2, <3>1, <3>2 DEF LibraryFits
  <2>3. QED BY <1>4, <2>1, <2>2
<1>11. BareFits'
  <2>1. kind' # "bare"
    BY <1>2, <1>3 DEF Beside
  <2>2. QED BY <2>1 DEF BareFits
<1>12. O!LinksWhatIsNeeded'
  BY <1>4 DEF O!LinksWhatIsNeeded
<1>13. QED BY <1>6, <1>8, <1>9, <1>10, <1>11, <1>12 DEF ObjectsInv, OutputsOK

LEMMA LibCompiledStep ==
  ASSUME O!ObjectsAssumption, ObjectsInv, O!LibCompiled
  PROVE  ObjectsInv'
<1>1. O!TypeOK /\ OutputsOK /\ WorkOK /\ Stages
  BY ObjectsSplit DEF Parts
<1>2. stage = "library" /\ todo = {} /\ clangs = {} /\ kind # "bare"
  BY <1>1 DEF O!LibCompiled, O!Idle, WorkOK
<1>3. UNCHANGED Beside
  BY DEF O!LibCompiled, O!Goto, Beside, O!request, O!history
<1>4. \/ stage' = "archive" /\ todo' = {} /\ archive' = None /\ failed \cap LibFiles = {}
      \/ stage' = "link" /\ todo' = {} /\ archive' = archive /\ failed \cap LibFiles # {}
  BY DEF O!LibCompiled, O!Goto
<1>5. O!TypeOK' /\ OutputsOK' /\ WorkOK'
  BY <1>2, <1>3, <1>4, GotoKept DEF O!PCs
<1>6. \A m \in O!ListedObjects : Fit(m, O!FilesOf(m))
  BY <1>1, <1>2 DEF Stages, ModulesFit, Beyond
<1>7. ModulesListed' /\ ModulesFit'
  BY <1>2, <1>3, <1>4, <1>6, GotoModules DEF Beyond
<1>8. RuntimeFits'
  <2>1. kind = "tree" => \A r \in RuntimeFiles : Fit(r, {r}) \/ r \in failed
    BY <1>1, <1>2 DEF Stages, RuntimeFits
  <2>2. \A o, S : Fit(o, S)' <=> Fit(o, S)
    BY <1>3 DEF Fit, Beside
  <2>3. kind' = kind /\ failed' = failed /\ stage' # "runtime"
    BY <1>3, <1>4 DEF Beside
  <2>4. QED BY <2>1, <2>2, <2>3 DEF RuntimeFits
<1>9. LibraryFits'
  <2>1. stage' = "archive" => \A s \in LibFiles : object'[s] \in since'[s]
    BY <1>1, <1>2, <1>3, <1>4 DEF Stages, LibraryFits, Unfinished, Compiling, Beside
  <2>2. stage' = "link" => failed' \cap LibFiles # {}
    BY <1>3, <1>4 DEF Beside
  <2>3. stage' # "library"
    BY <1>4
  <2>4. QED BY <2>1, <2>2, <2>3 DEF LibraryFits
<1>10. BareFits'
  <2>1. kind' # "bare"
    BY <1>2, <1>3 DEF Beside
  <2>2. QED BY <2>1 DEF BareFits
<1>11. O!LinksWhatIsNeeded'
  BY <1>4 DEF O!LinksWhatIsNeeded
<1>12. QED BY <1>5, <1>7, <1>8, <1>9, <1>10, <1>11 DEF ObjectsInv, OutputsOK

LEMMA BareCompiledStep ==
  ASSUME O!ObjectsAssumption, ObjectsInv, O!BareCompiled
  PROVE  ObjectsInv'
<1>1. O!TypeOK /\ OutputsOK /\ WorkOK /\ Stages
  BY ObjectsSplit DEF Parts
<1>2. stage = "bare" /\ clangs = {} /\ kind = "bare"
  BY <1>1 DEF O!BareCompiled, WorkOK
<1>3. UNCHANGED Beside /\ archive' = archive
  BY DEF O!BareCompiled, O!Goto, Beside, O!request, O!history
<1>4. /\ todo' = {}
      /\ stage' = "failed" \/ (stage' = "link" /\ failed \cap Required = {} /\ todo = {})
  <2>1. CASE failed \cap Required # {} /\ O!Goto("failed")
    BY <2>1 DEF O!Goto
  <2>2. CASE failed \cap Required = {} /\ todo = {} /\ O!Goto("link")
    BY <2>2 DEF O!Goto
  <2>3. QED BY <2>1, <2>2 DEF O!BareCompiled
<1>5. O!TypeOK' /\ OutputsOK' /\ WorkOK'
  BY <1>2, <1>3, <1>4, GotoKept DEF O!PCs
<1>6. ModulesListed' /\ ModulesFit'
  BY <1>2, <1>3, <1>4, GotoModules
<1>7. kind' = "bare" /\ UNCHANGED <<library, clangs, failed, linked, since>>
  BY <1>2, <1>3 DEF Beside
<1>8. RuntimeFits'
  BY <1>4, <1>7 DEF RuntimeFits
<1>9. LibraryFits'
  <2>1. ~library
    BY <1>1, <1>2 DEF WorkOK
  <2>2. QED BY <1>4, <1>7, <2>1 DEF LibraryFits
<1>10. BareFits'
  <2>1. ASSUME stage' = "link", NEW s \in Bare
        PROVE  OneOf(s)' /\ (Unfinished(s)' \/ \E l \in linked' : l.object = s /\ l.text \in since'[s])
    <3>1. OneOf(s) /\ (Unfinished(s) \/ \E l \in linked : l.object = s /\ l.text \in since[s])
      BY <1>1, <1>2 DEF Stages, BareFits
    <3>2. todo' = todo
      BY <1>4, <2>1
    <3>3. (OneOf(s)' <=> OneOf(s)) /\ (Unfinished(s)' <=> Unfinished(s))
      BY <1>7, <3>2 DEF OneOf, Unfinished, Compiling
    <3>4. QED BY <1>7, <3>1, <3>3
  <2>2. \A l \in linked' : l.object \in Bare
    BY <1>1, <1>2, <1>7 DEF Stages, BareFits
  <2>3. stage' = "link" => Required \cap failed' = {}
    BY <1>4, <1>7
  <2>4. stage' # "bare"
    BY <1>4
  <2>5. QED BY <2>1, <2>2, <2>3, <2>4 DEF BareFits
<1>11. O!LinksWhatIsNeeded'
  BY <1>4 DEF O!LinksWhatIsNeeded
<1>12. QED BY <1>5, <1>6, <1>8, <1>9, <1>10, <1>11 DEF ObjectsInv, OutputsOK

\* The archive is made of the objects, or not at all.
LEMMA ArchiveStep ==
  ASSUME O!ObjectsAssumption, ObjectsInv, O!Archive
  PROVE  ObjectsInv'
<1>1. O!TypeOK /\ OutputsOK /\ WorkOK /\ Stages
  BY ObjectsSplit DEF Parts
<1>2. /\ UNCHANGED <<sources, object, current, kind, library, used, queue, listed, todo, clangs, failed, linked, since>>
      /\ stage = "archive" /\ stage' = "link" /\ archive' = [s \in LibFiles |-> object[s]] /\ fresh' = LibFiles
  BY DEF O!Archive, O!request, O!work
<1>3. raced' = (raced \ LibFiles) \cup {s \in LibFiles : object[s] # sources[s]}
  BY DEF O!Archive, O!Races
<1>4. \A u : u \notin LibFiles => (u \in raced' <=> u \in raced)
  BY <1>3
<1>5. kind # "bare" /\ \A s \in LibFiles : object[s] \in since[s] /\ s \in O!Sources
  BY <1>1, <1>2, ObjectNames DEF Stages, LibraryFits, WorkOK
<1>6. O!TypeOK'
  <2>1. archive' \in [LibFiles -> SourceTexts]
    BY <1>1, <1>2, <1>5 DEF O!TypeOK
  <2>2. raced' \subseteq O!Sources
    BY <1>1, <1>3, <1>5 DEF O!TypeOK
  <2>3. QED BY <1>1, <1>2, <2>1, <2>2 DEF O!TypeOK, O!PCs
<1>7. (\A m : \A u \in O!FilesOf(m) : u \notin LibFiles) /\ (\A r \in RuntimeFiles : r \notin LibFiles)
  BY ObjectNames, FilesOfModules
<1>8. OutputsOK'
  <2>1. TextIsRecent'
    BY <1>1, <1>2 DEF OutputsOK, TextIsRecent
  <2>2. ObjectsReusable'
    BY <1>1, <1>2, <1>4, <1>7 DEF OutputsOK, ObjectsReusable, MayReuse
  <2>3. ArchiveReusable'
    BY <1>2, <1>3 DEF ArchiveReusable
  <2>4. QED BY <2>1, <2>2, <2>3 DEF OutputsOK
<1>9. WorkOK'
  <2>1. todo = {} /\ clangs = {}
    BY <1>1, <1>2 DEF WorkOK, StageFiles
  <2>2. QED BY <1>1, <1>2, <2>1 DEF WorkOK
<1>10. ModulesListed'
  BY <1>1, <1>2 DEF Stages, ModulesListed, Beyond
<1>11. ModulesFit'
  <2>1. O!ListedObjects' = O!ListedObjects /\ \A m \in O!ListedObjects : Fit(m, O!FilesOf(m))
    BY <1>1, <1>2, <1>5 DEF Stages, ModulesFit, Beyond, O!ListedObjects
  <2>2. ASSUME NEW m, Fit(m, O!FilesOf(m)) PROVE Fit(m, O!FilesOf(m))'
    BY <1>2, <1>4, <1>7, <2>2 DEF Fit
  <2>3. QED BY <1>2, <2>1, <2>2 DEF ModulesFit, Beyond
<1>12. RuntimeFits'
  <2>1. kind = "tree" => \A r \in RuntimeFiles : Fit(r, {r}) \/ r \in failed
    BY <1>1, <1>2 DEF Stages, RuntimeFits
  <2>2. ASSUME NEW r \in RuntimeFiles, Fit(r, {r}) PROVE Fit(r, {r})'
    BY <1>2, <1>4, <1>7, <2>2 DEF Fit
  <2>3. QED BY <1>2, <2>1, <2>2 DEF RuntimeFits
<1>13. LibraryFits'
  BY <1>2, <1>5 DEF LibraryFits
<1>14. BareFits'
  BY <1>2, <1>5 DEF BareFits
<1>15. O!LinksWhatIsNeeded'
  BY <1>2 DEF O!LinksWhatIsNeeded
<1>16. QED
  BY <1>6, <1>8, <1>9, <1>10, <1>11, <1>12, <1>13, <1>14, <1>15 DEF ObjectsInv, OutputsOK

LEMMA ArchiverFailsStep ==
  ASSUME O!ObjectsAssumption, ObjectsInv, O!ArchiverFails
  PROVE  ObjectsInv'
<1>1. O!TypeOK /\ OutputsOK /\ WorkOK /\ Stages
  BY ObjectsSplit DEF Parts
<1>2. /\ UNCHANGED <<sources, object, current, archive, fresh, kind, library, used, queue, listed, todo, clangs, linked,
                     raced, since>>
      /\ stage = "archive" /\ stage' = "link" /\ failed' = failed \cup LibFiles
  BY DEF O!ArchiverFails, O!files, O!request, O!history
<1>3. kind # "bare" /\ LibFiles \subseteq O!Sources
  BY <1>1, <1>2, ObjectNames DEF WorkOK
<1>4. O!TypeOK'
  BY <1>1, <1>2, <1>3 DEF O!TypeOK, O!PCs
<1>5. OutputsOK'
  BY <1>1, <1>2, OutputsKept
<1>6. WorkOK'
  <2>1. todo = {} /\ clangs = {}
    BY <1>1, <1>2 DEF WorkOK, StageFiles
  <2>2. QED BY <1>1, <1>2, <2>1 DEF WorkOK
<1>7. ModulesListed'
  BY <1>1, <1>2 DEF Stages, ModulesListed, Beyond
<1>8. \A o, S : Fit(o, S)' <=> Fit(o, S)
  BY <1>2 DEF Fit
<1>9. ModulesFit'
  BY <1>1, <1>2, <1>3, <1>8 DEF Stages, ModulesFit, Beyond, O!ListedObjects
<1>10. RuntimeFits'
  BY <1>1, <1>2, <1>8 DEF Stages, RuntimeFits
<1>11. LibraryFits'
  <2>1. failed' \cap LibFiles = LibFiles
    BY <1>2
  <2>2. QED BY <1>2, <2>1 DEF LibraryFits
<1>12. BareFits'
  BY <1>2, <1>3 DEF BareFits
<1>13. O!LinksWhatIsNeeded'
  BY <1>2 DEF O!LinksWhatIsNeeded
<1>14. QED
  BY <1>4, <1>5, <1>6, <1>7, <1>9, <1>10, <1>11, <1>12, <1>13 DEF ObjectsInv, OutputsOK

-----------------------------------------------------------------------------
(* Linking.                                                                *)
LEMMA NeededIsListed ==
  ASSUME listed \subseteq Modules, used \subseteq listed, \A n \in listed : Deps[n] \subseteq listed
  PROVE  O!Needed \subseteq listed
BY DEF O!Needed

LEMMA FitIsCurrent ==
  ASSUME NEW o, NEW S, Fit(o, S), [object |-> o, text |-> object[o]] \in linked', UNCHANGED <<since, raced>>
  PROVE  O!Current(o, S)'
BY DEF Fit, O!Current

LEMMA LinkStep ==
  ASSUME O!ObjectsAssumption, ObjectsInv, O!Link
  PROVE  ObjectsInv'
<1>1. O!TypeOK /\ OutputsOK /\ WorkOK /\ Stages
  BY ObjectsSplit DEF Parts
<1>2. /\ UNCHANGED <<sources, object, current, archive, fresh, kind, library, used, queue, listed, todo, clangs, failed,
                     raced, since>>
      /\ stage = "link" /\ stage' = "done"
      /\ kind = "tree" => \A m \in O!ListedObjects : object[m] # None
      /\ library => archive # None
  BY DEF O!Link, O!files, O!request, O!history
<1>3. /\ linked \subseteq linked'
      /\ kind = "tree" => O!WithText(O!ListedObjects \cup {r \in RuntimeFiles : object[r] # None}) \subseteq linked'
      /\ library => O!InArchive \subseteq linked'
      /\ kind = "bare" => linked' = linked
  BY <1>1 DEF O!Link, WorkOK
<1>4. linked' \subseteq [object: O!Objects, text: SourceTexts]
  <2>1. kind = "tree" => O!WithText(O!ListedObjects \cup {r \in RuntimeFiles : object[r] # None}) \subseteq [object: O!Objects, text: SourceTexts]
    <3>1. ASSUME kind = "tree", NEW o \in O!ListedObjects \cup {r \in RuntimeFiles : object[r] # None}
          PROVE  o \in O!Objects /\ object[o] \in SourceTexts
      <4>1. o \in O!Objects
        BY ObjectNames, FilesOfModules DEF O!ListedObjects
      <4>2. object[o] # None
        BY <1>2, <3>1
      <4>3. QED BY <1>1, <4>1, <4>2 DEF O!TypeOK
    <3>2. QED BY <3>1 DEF O!WithText
  <2>2. library => O!InArchive \subseteq [object: O!Objects, text: SourceTexts]
    <3>1. ASSUME library, NEW s \in LibFiles PROVE s \in O!Objects /\ archive[s] \in SourceTexts
      BY <1>1, <1>2, <3>1, ObjectNames DEF O!TypeOK
    <3>2. QED BY <3>1 DEF O!InArchive
  <2>3. linked \subseteq [object: O!Objects, text: SourceTexts]
    BY <1>1 DEF O!TypeOK
  <2>4. QED BY <2>1, <2>2, <2>3 DEF O!Link
<1>5. O!TypeOK'
  BY <1>1, <1>2, <1>4 DEF O!TypeOK, O!PCs
<1>6. OutputsOK'
  BY <1>1, <1>2, OutputsKept
<1>7. todo = {} /\ clangs = {}
  BY <1>1, <1>2 DEF WorkOK, StageFiles
<1>8. WorkOK'
  BY <1>1, <1>2, <1>7 DEF WorkOK
<1>9. ModulesListed'
  BY <1>1, <1>2 DEF Stages, ModulesListed, Beyond
<1>10. ModulesFit'
  BY <1>2 DEF ModulesFit, Beyond
<1>11. RuntimeFits'
  BY <1>2 DEF RuntimeFits
<1>12. LibraryFits'
  BY <1>2 DEF LibraryFits
<1>13. BareFits'
  BY <1>2 DEF BareFits
<1>14. ASSUME kind = "tree", NEW m \in O!Needed', O!FilesOf(m) # {} PROVE O!Current(m, O!FilesOf(m))'
  <2>1. m \in O!Needed
    BY <1>2 DEF O!Needed
  <2>2. used \subseteq listed /\ (\A n \in listed : Deps[n] \subseteq listed) /\ listed \subseteq Modules
    BY <1>1, <1>2, <1>14 DEF Stages, ModulesListed, Beyond, O!TypeOK
  <2>3. m \in O!ListedObjects
    BY <1>14, <2>1, <2>2, NeededIsListed DEF O!ListedObjects
  <2>4. Fit(m, O!FilesOf(m))
    BY <1>1, <1>2, <1>14, <2>3 DEF Stages, ModulesFit, Beyond
  <2>5. [object |-> m, text |-> object[m]] \in linked'
    BY <1>3, <1>14, <2>3 DEF O!WithText
  <2>6. QED BY <1>2, <2>4, <2>5, FitIsCurrent
<1>15. ASSUME kind = "tree", NEW r \in RuntimeFiles \ failed PROVE O!Current(r, {r})'
  <2>1. Fit(r, {r})
    BY <1>1, <1>2, <1>15 DEF Stages, RuntimeFits
  <2>2. [object |-> r, text |-> object[r]] \in linked'
    BY <1>3, <1>15, <2>1 DEF O!WithText, Fit
  <2>3. QED BY <1>2, <2>1, <2>2, FitIsCurrent
<1>16. ASSUME library, failed \cap LibFiles = {}, NEW s \in LibFiles PROVE O!Current(s, {s})'
  <2>1. archive[s] \in since[s] \/ s \in raced
    BY <1>1, <1>2, <1>16 DEF Stages, LibraryFits
  <2>2. [object |-> s, text |-> archive[s]] \in linked'
    BY <1>3, <1>16 DEF O!InArchive
  <2>3. QED BY <1>2, <2>1, <2>2 DEF O!Current
<1>17. ASSUME kind = "bare"
       PROVE  /\ \A s \in Bare \ failed : O!Current(s, {s})'
              /\ Required \cap failed = {} /\ \A l \in linked' : l.object \notin failed
  <2>1. /\ \A s \in Bare : OneOf(s) /\ (Unfinished(s) \/ \E l \in linked : l.object = s /\ l.text \in since[s])
        /\ Required \cap failed = {} /\ \A l \in linked : l.object \in Bare
    BY <1>1, <1>2, <1>17 DEF Stages, BareFits
  <2>2. \A s \in Bare \ failed : O!Current(s, {s})'
    BY <1>2, <1>3, <1>7, <2>1 DEF Unfinished, Compiling, O!Current
  <2>3. \A l \in linked : l.object \notin failed
    BY <2>1 DEF OneOf, Unfinished
  <2>4. QED BY <1>3, <1>17, <2>1, <2>2, <2>3
<1>18. O!LinksWhatIsNeeded'
  <2>1. kind' = kind /\ library' = library /\ failed' = failed
    BY <1>2
  <2>2. kind' = "tree" => \A m \in O!Needed' : O!FilesOf(m) # {} => O!Current(m, O!FilesOf(m))'
    BY <1>14, <2>1
  <2>3. kind' = "tree" => \A r \in RuntimeFiles \ failed' : O!Current(r, {r})'
    BY <1>15, <2>1
  <2>4. library' /\ failed' \cap LibFiles = {} => \A s \in LibFiles : O!Current(s, {s})'
    BY <1>16, <2>1
  <2>5. kind' = "bare" => /\ \A s \in (Required \cup Optional) \ failed' : O!Current(s, {s})'
                          /\ Required \cap failed' = {} /\ \A l \in linked' : l.object \notin failed'
    BY <1>17, <2>1 DEF Bare
  <2>6. QED BY <2>2, <2>3, <2>4, <2>5 DEF O!LinksWhatIsNeeded
<1>19. QED
  BY <1>5, <1>6, <1>8, <1>9, <1>10, <1>11, <1>12, <1>13, <1>18 DEF ObjectsInv, OutputsOK

LEMMA LinkFailsStep ==
  ASSUME O!ObjectsAssumption, ObjectsInv, O!LinkFails
  PROVE  ObjectsInv'
<1>1. O!TypeOK /\ OutputsOK /\ WorkOK /\ Stages
  BY ObjectsSplit DEF Parts
<1>2. /\ UNCHANGED <<sources, object, current, archive, fresh, kind, library, used, queue, listed, todo, clangs, failed,
                     linked, raced, since>>
      /\ stage = "link" /\ stage' = "failed"
  BY DEF O!LinkFails, O!files, O!request, O!work, O!history
<1>3. O!TypeOK'
  BY <1>1, <1>2 DEF O!TypeOK, O!PCs
<1>4. OutputsOK'
  BY <1>1, <1>2, OutputsKept
<1>5. WorkOK'
  <2>1. todo = {} /\ clangs = {}
    BY <1>1, <1>2 DEF WorkOK, StageFiles
  <2>2. QED BY <1>1, <1>2, <2>1 DEF WorkOK
<1>6. ModulesListed'
  BY <1>2 DEF ModulesListed, Beyond
<1>7. ModulesFit'
  BY <1>2 DEF ModulesFit, Beyond
<1>8. RuntimeFits'
  BY <1>2 DEF RuntimeFits
<1>9. LibraryFits'
  BY <1>2 DEF LibraryFits
<1>10. BareFits'
  BY <1>2 DEF BareFits
<1>11. O!LinksWhatIsNeeded'
  BY <1>2 DEF O!LinksWhatIsNeeded
<1>12. QED BY <1>3, <1>4, <1>5, <1>6, <1>7, <1>8, <1>9, <1>10, <1>11 DEF ObjectsInv, OutputsOK

LEMMA Stutters ==
  ASSUME ObjectsInv, UNCHANGED O!vars
  PROVE  ObjectsInv'
<1>1. UNCHANGED <<sources, object, current, archive, fresh, stage, kind, library, used, queue, listed, todo, clangs, failed,
                  linked, raced, since>>
  BY DEF O!vars, O!files, O!request, O!work, O!history
<1>2. Parts'
  BY <1>1, ObjectsSplit DEF Parts, O!TypeOK, OutputsOK, TextIsRecent, ObjectsReusable, MayReuse, ArchiveReusable, WorkOK, StageFiles
<1>3. ModulesListed' /\ ModulesFit' /\ RuntimeFits'
  BY <1>1 DEF ObjectsInv, ModulesListed, Beyond, ModulesFit, O!ListedObjects, Fit, Unfinished, Compiling, RuntimeFits
<1>4. LibraryFits' /\ BareFits'
  BY <1>1 DEF ObjectsInv, LibraryFits, BareFits, OneOf, Unfinished, Compiling
<1>5. O!LinksWhatIsNeeded'
  <2>1. O!Needed' = O!Needed /\ \A o, S : O!Current(o, S)' <=> O!Current(o, S)
    BY <1>1 DEF O!Needed, O!Current
  <2>2. QED BY <1>1, <2>1 DEF ObjectsInv, O!LinksWhatIsNeeded
<1>6. QED BY <1>2, <1>3, <1>4, <1>5 DEF ObjectsInv, Parts, OutputsOK

LEMMA NextObjects ==
  ASSUME O!ObjectsAssumption, ObjectsInv, [O!Next]_(O!vars)
  PROVE  ObjectsInv'
<1>1. CASE O!Edit
  BY <1>1, EditStep
<1>2. CASE O!Begin
  BY <1>2, BeginStep
<1>3. CASE O!ListFiles
  BY <1>3, ListFilesStep
<1>4. CASE \E m \in Modules : O!Visit(m)
  BY <1>4, VisitStep
<1>5. CASE \E s \in O!Sources : O!ClangStarts(s) \/ O!Skip(s)
  BY <1>5, ClangStartsStep, SkipStep
<1>6. CASE \E c \in clangs : O!ClangEnds(c) \/ O!ClangFails(c)
  BY <1>6, ClangEndsStep, ClangFailsStep
<1>7. CASE O!StdCompiled \/ O!RuntimeCompiled \/ O!LibCompiled \/ O!BareCompiled
  BY <1>7, StdCompiledStep, RuntimeCompiledStep, LibCompiledStep, BareCompiledStep
<1>8. CASE O!Archive \/ O!ArchiverFails \/ O!Link \/ O!LinkFails
  BY <1>8, ArchiveStep, ArchiverFailsStep, LinkStep, LinkFailsStep
<1>9. CASE O!Exit \/ O!Kill
  BY <1>9, StopStep DEF O!Exit, O!Kill
<1>10. CASE UNCHANGED O!vars
  BY <1>10, Stutters
<1>11. QED BY <1>1, <1>2, <1>3, <1>4, <1>5, <1>6, <1>7, <1>8, <1>9, <1>10 DEF O!Next

(* A program that has been linked has everything it needs, each as its      *)
(* source is during the build or reused from then on, for any number of     *)
(* modules, files and texts (the objects and archives of main.go and        *)
(* builder.go).                                                             *)
THEOREM LinkedIsCurrent == O!Spec => []LinksWhatIsNeeded
<1>1. O!Init => ObjectsInv
  BY ObjectsAssumption, InitObjects
<1>2. ObjectsInv /\ [O!Next]_(O!vars) => ObjectsInv'
  BY ObjectsAssumption, NextObjects
<1>3. ObjectsInv => LinksWhatIsNeeded
  BY DEF ObjectsInv, LinksWhatIsNeeded
<1>4. QED BY <1>1, <1>2, <1>3, PTL DEF O!Spec
-----------------------------------------------------------------------------
(***************************************************************************)
(* The local imports, for any files and directories.                        *)
(***************************************************************************)
HIDE TextsAssumption DEF files, build, vars

\* What the parser leaves of the imports of a file, and the files they name.
Ways == {I!Relative(n) : n \in Names} \cup UNION {{I!Beside(f), I!Absolute(f)} : f \in LocalFiles \cup {None}}
ImportPaths == [f \in LocalFiles |-> I!Paths(f)]
ImportFiles == [f \in LocalFiles |-> [j \in 1 .. Len(I!Paths(f)) |-> I!FileAt(I!Paths(f)[j], DirOf[f])]]
WithErrors == {f \in LocalFiles : I!HasErrors(f)}

IsGraph(P, T, E) ==
  /\ P \in [LocalFiles -> Seq(Ways)]
  /\ \A f \in LocalFiles \ E : \A j \in 1 .. Len(P[f]) : T[f][j] \in LocalFiles
  /\ Main \notin E

(* The open calls: each frame has taken some imports of a file without      *)
(* errors, and the last one it took is the file of the frame above.         *)
Taken(P, c) == Len(P[c.file]) - Len(c.rest)
FrameOK(P, E, c) ==
  /\ c.file \notin E
  /\ Len(c.rest) <= Len(P[c.file])
  /\ \A j \in 1 .. Len(c.rest) : c.rest[j] = P[c.file][Taken(P, c) + j]
Frames == [file : LocalFiles, rest : Seq(Ways)]
FramesAre(P, T, E, s) ==
  /\ s \in Seq(Frames) /\ Len(s) >= 1
  /\ s[1].file = Main
  /\ \A i \in 1 .. Len(s) : FrameOK(P, E, s[i])
  /\ \A i \in 1 .. Len(s) - 1 :
       Taken(P, s[i]) >= 1 /\ T[s[i].file][Taken(P, s[i])] = s[i + 1].file

(* Files without errors that a file imports; a file is tame when it leads    *)
(* into no circle of them.                                                  *)
Good(P, T, E, f) == {T[f][j] : j \in 1 .. Len(P[f])} \ E
Tame(P, T, E, f) ==
  \A C \in SUBSET LocalFiles : f \in C => \E g \in C : Good(P, T, E, g) \cap C = {}

(* The walk that collects.  What an import named that was taken was         *)
(* collected and is tame, unless the call for it is open.                   *)
Seen(P, T, E, s, coll) ==
  \A i \in 1 .. Len(s) : \A j \in 1 .. Taken(P, s[i]) :
    LET g == T[s[i].file][j] IN
      g \notin E => g \in coll /\ (Tame(P, T, E, g) \/ (i < Len(s) /\ j = Taken(P, s[i])))
Finished(P, T, E, s, coll) ==
  \A g \in coll :
    /\ g \in LocalFiles \ E
    /\ \/ Tame(P, T, E, g) /\ Good(P, T, E, g) \subseteq coll
       \/ \E i \in 2 .. Len(s) : s[i].file = g
OpenIsCollected(s, coll) == \A i \in 2 .. Len(s) : s[i].file \in coll
Least(P, T, E, coll) ==
  \A S \in SUBSET LocalFiles :
    Good(P, T, E, Main) \subseteq S /\ (\A g \in S : Good(P, T, E, g) \subseteq S) => coll \subseteq S
CollectInv(P, T, E, s, coll) ==
  /\ FramesAre(P, T, E, s) /\ Seen(P, T, E, s, coll) /\ Finished(P, T, E, s, coll)
  /\ OpenIsCollected(s, coll) /\ Least(P, T, E, coll)

(* What it leaves.                                                          *)
Walked(P, T, E, coll) ==
  /\ Least(P, T, E, coll)
  /\ \A g \in coll \cup {Main} :
       g \in LocalFiles \ E /\ Tame(P, T, E, g) /\ Good(P, T, E, g) \subseteq coll

(* The walk that compiles.                                                  *)
OnePath(P, T) ==
  \A f, g \in LocalFiles : \A i \in 1 .. Len(P[f]), j \in 1 .. Len(P[g]) :
    P[f][i] = P[g][j] <=> T[f][i] = T[g][j]
Means(P, T, p, f) == \E u \in LocalFiles : \E j \in 1 .. Len(P[u]) : P[u][j] = p /\ T[u][j] = f
Out(emit) == {emit[n] : n \in 1 .. Len(emit)}
Open(s) == {s[i].file : i \in 1 .. Len(s)}
Above(s) == {s[i].file : i \in 2 .. Len(s)}

TakenIsOut(P, T, s, emit) ==
  \A i \in 1 .. Len(s) : \A j \in 1 .. Taken(P, s[i]) :
    T[s[i].file][j] \in Out(emit) \/ (i < Len(s) /\ j = Taken(P, s[i]))
CompiledIsOut(P, T, s, comp, emit) ==
  \A p \in comp : \E f \in Out(emit) \cup Open(s) : Means(P, T, p, f)
HasPath(P, T, s, coll, comp, hash, emit) ==
  \A g \in Out(emit) \cup Above(s) : g \in coll /\ g \in hash /\ \E p \in comp : Means(P, T, p, g)
OutOnce(s, emit) ==
  /\ \A m, n \in 1 .. Len(emit) : emit[m] = emit[n] => m = n
  /\ Above(s) \cap Out(emit) = {}
OutInOrder(P, T, emit) ==
  \A n \in 1 .. Len(emit) : \A j \in 1 .. Len(P[emit[n]]) :
    \E m \in 1 .. n - 1 : emit[m] = T[emit[n]][j]
CompileInv(P, T, E, s, coll, comp, hash, emit, err) ==
  /\ FramesAre(P, T, E, s) /\ Walked(P, T, E, coll)
  /\ emit \in Seq(LocalFiles)
  /\ ~err => CompiledIsOut(P, T, s, comp, emit)
  /\ HasPath(P, T, s, coll, comp, hash, emit)
  /\ OnePath(P, T) => OutOnce(s, emit)
  /\ ~err /\ OnePath(P, T) => TakenIsOut(P, T, s, emit) /\ OutInOrder(P, T, emit)

ProgramOK == cwd \in Dirs /\ imports \in [LocalFiles -> Seq(I!Import)]
ImportsInv ==
  /\ ProgramOK /\ IsGraph(ImportPaths, ImportFiles, WithErrors)
  /\ phase \in {"collect", "compile", "done", "crashed"} /\ errors \in BOOLEAN
  /\ phase = "collect" =>
       /\ CollectInv(ImportPaths, ImportFiles, WithErrors, calls, collected)
       /\ compiled = {} /\ hashes = {} /\ emitted = <<>> /\ errors = FALSE
  /\ phase \in {"compile", "done"} =>
       CompileInv(ImportPaths, ImportFiles, WithErrors, calls, collected, compiled, hashes, emitted, errors)
  /\ phase = "done" => Len(calls) = 1 /\ calls[1].rest = <<>>
  /\ phase = "crashed" => I!Circular

-----------------------------------------------------------------------------
(* Names, and what the definitions of the sequences module are.             *)
LEMMA InstanceSizes == \A S : I!Cardinality(S) = Cardinality(S) /\ I!IsFiniteSet(S) = IsFiniteSet(S)
BY DEF I!Cardinality, Cardinality, I!IsFiniteSet, IsFiniteSet

LEMMA ImportConstants ==
  /\ IsFiniteSet(LocalFiles) /\ Main \in LocalFiles /\ None \notin LocalFiles
  /\ DirOf \in [LocalFiles -> Dirs]
  /\ At \in [Dirs -> [Names -> LocalFiles \cup {None}]]
  /\ MaxStack \in Nat /\ MaxStack >= Cardinality(LocalFiles)
  /\ MaxImports \in Nat /\ MaxMain \in Nat
BY ImportsAssumption, InstanceSizes DEF I!ImportsAssumption

(* The paths of a file without errors name files.                           *)
LEMMA PathsTyped ==
  ASSUME ProgramOK, NEW f \in LocalFiles
  PROVE  I!Paths(f) \in Seq(Ways) /\ Len(I!Paths(f)) = Len(imports[f])
<1>1. imports[f] \in Seq(I!Import) /\ DirOf[f] \in Dirs /\ cwd \in Dirs
  BY ImportConstants DEF ProgramOK
<1>2. \A n \in Names : At[cwd][n] \in LocalFiles \cup {None} /\ At[DirOf[f]][n] \in LocalFiles \cup {None}
  BY <1>1, ImportConstants
<1>3. ASSUME NEW i \in I!Import PROVE I!LocalPath(i, f) \in Ways
  <2>1. i.name \in Names
    BY DEF I!Import
  <2>2. I!ModulePath(i.name, f) \in Ways /\ I!FilePath(i.name, f) \in Ways
    BY <1>2, <2>1 DEF I!ModulePath, I!FilePath, Ways
  <2>3. QED BY <2>2 DEF I!LocalPath
<1>4. I!Paths(f) = [n \in 1 .. Len(imports[f]) |-> I!LocalPath(imports[f][n], f)]
  BY <1>1 DEF I!Paths
<1>5. \A n \in 1 .. Len(imports[f]) : I!LocalPath(imports[f][n], f) \in Ways
  BY <1>1, <1>3
<1>6. QED BY <1>1, <1>4, <1>5

LEMMA FileKnown ==
  ASSUME ProgramOK, NEW f \in LocalFiles, ~I!HasErrors(f), NEW j \in 1 .. Len(I!Paths(f))
  PROVE  I!FileAt(I!Paths(f)[j], DirOf[f]) \in LocalFiles
<1>1. imports[f] \in Seq(I!Import) /\ DirOf[f] \in Dirs /\ cwd \in Dirs /\ Len(I!Paths(f)) = Len(imports[f])
  BY ImportConstants, PathsTyped DEF ProgramOK
<1>2. \A n \in Names : At[cwd][n] \in LocalFiles \cup {None} /\ At[DirOf[f]][n] \in LocalFiles \cup {None}
  BY <1>1, ImportConstants
<1>3. I!Paths(f) = [n \in 1 .. Len(imports[f]) |-> I!LocalPath(imports[f][n], f)]
  BY <1>1 DEF I!Paths
<1>4. PICK i \in I!Import : I!Paths(f)[j] = I!LocalPath(i, f)
  BY <1>1, <1>3
<1>5. i.name \in Names
  BY DEF I!Import
<1>6. I!Paths(f)[j] \notin {I!Absolute(None), I!Beside(None)}
  <2>1. \A n \in DOMAIN imports[f] : I!Paths(f)[n] \notin {I!Absolute(None), I!Beside(None)}
    BY DEF I!HasErrors
  <2>2. j \in DOMAIN imports[f]
    BY <1>1
  <2>3. QED BY <2>1, <2>2
<1>7. CASE I!Paths(f)[j] = I!Relative(i.name) /\ At[cwd][i.name] # None
  BY <1>2, <1>5, <1>7 DEF I!FileAt, I!Relative
<1>8. CASE \E g \in LocalFiles \cup {None} : I!Paths(f)[j] \in {I!Beside(g), I!Absolute(g)}
  BY <1>6, <1>8 DEF I!FileAt, I!Beside, I!Absolute
<1>9. QED
  BY <1>2, <1>4, <1>5, <1>7, <1>8 DEF I!LocalPath, I!ModulePath, I!FilePath

LEMMA GraphIs ==
  ASSUME ProgramOK, ~I!HasErrors(Main)
  PROVE  IsGraph(ImportPaths, ImportFiles, WithErrors)
<1>1. ImportPaths \in [LocalFiles -> Seq(Ways)]
  BY PathsTyped DEF ImportPaths
<1>2. ASSUME NEW f \in LocalFiles \ WithErrors, NEW j \in 1 .. Len(ImportPaths[f])
      PROVE  ImportFiles[f][j] \in LocalFiles
  BY <1>2, FileKnown DEF WithErrors, ImportPaths, ImportFiles
<1>3. QED BY <1>1, <1>2 DEF IsGraph, WithErrors

-----------------------------------------------------------------------------
(* What the calls become.                                                   *)
Advanced(s, t) ==
  /\ t \in Seq(Frames) /\ Len(t) = Len(s)
  /\ \A i \in 1 .. Len(s) - 1 : t[i] = s[i]
  /\ t[Len(s)] = [file |-> s[Len(s)].file, rest |-> Tail(s[Len(s)].rest)]
Entered(P, s, t, f) ==
  /\ t \in Seq(Frames) /\ Len(t) = Len(s) + 1
  /\ \A i \in 1 .. Len(s) - 1 : t[i] = s[i]
  /\ t[Len(s)] = [file |-> s[Len(s)].file, rest |-> Tail(s[Len(s)].rest)]
  /\ t[Len(s) + 1] = [file |-> f, rest |-> P[f]]
Left(s, t) ==
  /\ t \in Seq(Frames) /\ Len(t) = Len(s) - 1
  /\ \A i \in 1 .. Len(s) - 1 : t[i] = s[i]

LEMMA FrontIs ==
  ASSUME calls \in Seq(Frames), Len(calls) >= 1
  PROVE  Left(calls, I!Front(calls))
<1> DEFINE n == Len(calls) - 1
<1>1. n \in Int /\ n >= 0 /\ Len(calls) = n + 1 /\ \A i \in 1 .. n : calls[i] \in Frames
  OBVIOUS
<1>2. I!Front(calls) = SubSeq(calls, 1, n)
  BY DEF I!Front
<1> HIDE DEF n
<1>3. /\ SubSeq(calls, 1, n) \in Seq(Frames)
      /\ Len(SubSeq(calls, 1, n)) = IF 1 <= n THEN n - 1 + 1 ELSE 0
      /\ \A i \in 1 .. n - 1 + 1 : SubSeq(calls, 1, n)[i] = calls[1 + i - 1]
  BY <1>1, SubSeqProperties
<1>4. Len(SubSeq(calls, 1, n)) = n /\ \A i \in 1 .. n : SubSeq(calls, 1, n)[i] = calls[i]
  BY <1>1, <1>3
<1>5. QED BY <1>2, <1>3, <1>4 DEF Left, n

LEMMA RestOf ==
  ASSUME NEW c, NEW x, NEW y, c = [file |-> x, rest |-> y]
  PROVE  [c EXCEPT !.rest = Tail(@)] = [file |-> x, rest |-> Tail(y)]
<1>1. PICK d : d = [c EXCEPT !.rest = Tail(@)]
  OBVIOUS
<1>2. d = [file |-> x, rest |-> Tail(y)]
  BY <1>1
<1>3. QED BY <1>1, <1>2

LEMMA AdvanceIs ==
  ASSUME calls \in Seq(Frames), Len(calls) >= 1, calls[Len(calls)].rest # <<>>
  PROVE  Advanced(calls, I!Advance)
<1> DEFINE n == Len(calls)
           c == [file |-> calls[n].file, rest |-> Tail(calls[n].rest)]
<1>1. n \in Nat /\ n >= 1 /\ calls[n] \in Frames
  OBVIOUS
<1>2. c \in Frames /\ [I!Top EXCEPT !.rest = Tail(@)] = c
  <2>1. PICK x \in LocalFiles, y \in Seq(Ways) : calls[n] = [file |-> x, rest |-> y]
    BY <1>1 DEF Frames
  <2>2. y # <<>> /\ I!Top = [file |-> x, rest |-> y] /\ c = [file |-> x, rest |-> Tail(y)]
    BY <2>1 DEF I!Top, I!Last
  <2>3. c \in Frames
    BY <2>1, <2>2 DEF Frames
  <2> HIDE DEF c
  <2>4. [I!Top EXCEPT !.rest = Tail(@)] = [file |-> x, rest |-> Tail(y)]
    BY <2>2, RestOf
  <2>5. QED BY <2>2, <2>3, <2>4
<1>3. I!Front(calls) \in Seq(Frames) /\ Len(I!Front(calls)) = n - 1
      /\ \A i \in 1 .. n - 1 : I!Front(calls)[i] = calls[i]
  BY <1>1, FrontIs DEF Left
<1>4. I!Advance = I!Front(calls) \o <<c>>
  BY <1>2 DEF I!Advance
<1> HIDE DEF c
<1>5. <<c>> \in Seq(Frames) /\ Len(<<c>>) = 1 /\ <<c>>[1] = c
  BY <1>2
<1>6. I!Advance \in Seq(Frames) /\ Len(I!Advance) = n /\ I!Advance[n] = c
      /\ \A i \in 1 .. n - 1 : I!Advance[i] = calls[i]
  BY <1>1, <1>3, <1>4, <1>5
<1>7. QED BY <1>6 DEF Advanced, c

LEMMA EnterIs ==
  ASSUME calls \in Seq(Frames), Len(calls) >= 1, calls[Len(calls)].rest # <<>>,
         NEW f \in LocalFiles, ImportPaths[f] \in Seq(Ways)
  PROVE  Entered(ImportPaths, calls, I!Enter(f), f)
<1>1. Advanced(calls, I!Advance)
  BY AdvanceIs
<1> DEFINE c == [file |-> f, rest |-> ImportPaths[f]]
<1>2. I!Call(f) = c /\ c \in Frames
  BY DEF I!Call, ImportPaths, Frames
<1>3. I!Enter(f) = I!Advance \o <<c>>
  BY <1>2 DEF I!Enter
<1> HIDE DEF c
<1>4. <<c>> \in Seq(Frames) /\ Len(<<c>>) = 1 /\ <<c>>[1] = c
  BY <1>2
<1>10. I!Advance \in Seq(Frames) /\ Len(I!Advance) = Len(calls) /\ Len(calls) \in Nat
  BY <1>1 DEF Advanced
<1>5. I!Enter(f) \in Seq(Frames) /\ Len(I!Enter(f)) = Len(calls) + 1 /\ I!Enter(f)[Len(calls) + 1] = c
      /\ \A i \in 1 .. Len(calls) : I!Enter(f)[i] = I!Advance[i]
  BY <1>3, <1>4, <1>10
<1>6. Len(calls) \in Nat /\ \A i \in 1 .. Len(calls) - 1 : i \in 1 .. Len(calls)
  OBVIOUS
<1>7. \A i \in 1 .. Len(calls) - 1 : I!Enter(f)[i] = calls[i]
  BY <1>1, <1>5, <1>6 DEF Advanced
<1>8. I!Enter(f)[Len(calls)] = [file |-> calls[Len(calls)].file, rest |-> Tail(calls[Len(calls)].rest)]
  BY <1>1, <1>5, <1>6 DEF Advanced
<1>9. QED BY <1>5, <1>7, <1>8 DEF Entered, c

LEMMA Difference ==
  ASSUME NEW a \in Nat, NEW b \in Nat, b <= a
  PROVE  /\ a - b \in 0 .. a /\ (b = 0 => a - b = a)
         /\ b >= 1 => a - b + 1 \in 1 .. a /\ a - (b - 1) = a - b + 1
OBVIOUS

LEMMA AdvancedFrames ==
  ASSUME NEW P, NEW T, NEW E, IsGraph(P, T, E), NEW s, NEW t, FramesAre(P, T, E, s),
         s[Len(s)].rest # <<>>, Advanced(s, t)
  PROVE  /\ FramesAre(P, T, E, t)
         /\ \A i \in 1 .. Len(s) - 1 : Taken(P, t[i]) = Taken(P, s[i])
         /\ \A i \in 1 .. Len(s) : t[i].file = s[i].file
         /\ Taken(P, t[Len(s)]) = Taken(P, s[Len(s)]) + 1
         /\ Taken(P, t[Len(s)]) \in 1 .. Len(P[s[Len(s)].file])
         /\ Head(s[Len(s)].rest) = P[s[Len(s)].file][Taken(P, t[Len(s)])]
<1> DEFINE n == Len(s)
           c == s[n]
<1>1. n \in Nat /\ n >= 1 /\ c.file \in LocalFiles /\ c.rest \in Seq(Ways) /\ FrameOK(P, E, c)
      /\ Len(t) = n /\ t \in Seq(Frames)
  <2>1. n \in Nat /\ n >= 1 /\ FrameOK(P, E, c) /\ Len(t) = n /\ t \in Seq(Frames) /\ c \in Frames
    BY DEF FramesAre, Advanced
  <2>2. QED BY <2>1 DEF Frames
<1>2. P[c.file] \in Seq(Ways)
  BY <1>1 DEF IsGraph
<1>3. t[n].file = c.file /\ t[n].rest = Tail(c.rest)
  BY DEF Advanced
<1>4. Len(c.rest) \in Nat /\ Len(c.rest) >= 1 /\ Len(Tail(c.rest)) = Len(c.rest) - 1
      /\ (\A j \in 1 .. Len(c.rest) - 1 : Tail(c.rest)[j] = c.rest[j + 1]) /\ Head(c.rest) = c.rest[1]
  BY <1>1
<1> DEFINE k == Taken(P, c)
<1>5. k + 1 \in 1 .. Len(P[c.file]) /\ k \in Nat /\ Len(P[c.file]) \in Nat /\ Taken(P, t[n]) = k + 1
  <2>1. Len(P[c.file]) \in Nat /\ Len(c.rest) <= Len(P[c.file])
    BY <1>1, <1>2 DEF FrameOK
  <2>2. Taken(P, t[n]) = Len(P[c.file]) - (Len(c.rest) - 1)
    BY <1>3, <1>4 DEF Taken
  <2>3. k = Len(P[c.file]) - Len(c.rest)
    BY DEF Taken
  <2>4. PICK a, b : a = Len(P[c.file]) /\ b = Len(c.rest)
    OBVIOUS
  <2>5. a \in Nat /\ b \in Nat /\ b >= 1 /\ b <= a /\ k = a - b /\ Taken(P, t[n]) = a - (b - 1)
    BY <1>4, <2>1, <2>2, <2>3, <2>4
  <2> HIDE DEF k
  <2>6. k + 1 \in 1 .. a /\ k \in Nat /\ Taken(P, t[n]) = k + 1
    BY <2>5
  <2>7. QED BY <2>4, <2>5, <2>6
<1>11. \A j \in 1 .. Len(c.rest) : c.rest[j] = P[c.file][k + j]
  BY <1>1 DEF FrameOK
<1> HIDE DEF k
<1>12. Head(c.rest) = P[c.file][k + 1]
  BY <1>4, <1>11
<1>6. FrameOK(P, E, t[n])
  <2>1. t[n].file \notin E /\ Len(t[n].rest) <= Len(P[t[n].file])
    BY <1>1, <1>3, <1>4 DEF FrameOK
  <2>2. \A j \in 1 .. Len(t[n].rest) : t[n].rest[j] = P[t[n].file][Taken(P, t[n]) + j]
    <3>1. TAKE j \in 1 .. Len(t[n].rest)
    <3>2. j \in 1 .. Len(c.rest) - 1
      BY <1>3, <1>4
    <3>4. j + 1 \in 1 .. Len(c.rest) /\ k + (j + 1) = (k + 1) + j
      <4>1. k \in Nat /\ Len(c.rest) \in Nat
        BY <1>4, <1>5
      <4>2. QED BY <3>2, <4>1
    <3>5. t[n].rest[j] = c.rest[j + 1]
      BY <1>3, <1>4, <3>2
    <3>3. QED BY <1>3, <1>5, <1>11, <3>4, <3>5
  <2>3. QED BY <2>1, <2>2 DEF FrameOK
<1>7. \A i \in 1 .. n - 1 : t[i] = s[i]
  BY DEF Advanced
<1>8. \A i \in 1 .. n : t[i].file = s[i].file
  BY <1>1, <1>3, <1>7
<1>9. FramesAre(P, T, E, t)
  <2>1. t \in Seq(Frames)
    BY <1>1
  <2>2. \A i \in 1 .. n : FrameOK(P, E, t[i])
    BY <1>1, <1>6, <1>7 DEF FramesAre
  <2>3. \A i \in 1 .. n - 1 : Taken(P, t[i]) >= 1 /\ T[t[i].file][Taken(P, t[i])] = t[i + 1].file
    <3>1. TAKE i \in 1 .. n - 1
    <3>2. t[i] = s[i] /\ t[i + 1].file = s[i + 1].file
      BY <1>1, <1>7, <1>8
    <3>3. QED BY <3>2 DEF FramesAre
  <2>4. t[1].file = Main
    BY <1>1, <1>8 DEF FramesAre
  <2>5. QED BY <1>1, <2>1, <2>2, <2>3, <2>4 DEF FramesAre
<1>10. QED BY <1>5, <1>7, <1>8, <1>9, <1>12 DEF k

LEMMA EnteredFrames ==
  ASSUME NEW P, NEW T, NEW E, IsGraph(P, T, E), NEW s, NEW t, FramesAre(P, T, E, s),
         s[Len(s)].rest # <<>>, NEW f \in LocalFiles \ E, Entered(P, s, t, f),
         f = T[s[Len(s)].file][Taken(P, s[Len(s)]) + 1]
  PROVE  /\ FramesAre(P, T, E, t)
         /\ \A i \in 1 .. Len(s) - 1 : Taken(P, t[i]) = Taken(P, s[i])
         /\ \A i \in 1 .. Len(s) : t[i].file = s[i].file
         /\ Taken(P, t[Len(s)]) = Taken(P, s[Len(s)]) + 1
         /\ Taken(P, t[Len(s)]) \in 1 .. Len(P[s[Len(s)].file])
         /\ Taken(P, t[Len(s) + 1]) = 0
         /\ t[Len(s) + 1].file = f
<1> DEFINE n == Len(s)
           u == [i \in 1 .. n |-> t[i]]
<1>1. n \in Nat /\ n >= 1 /\ Len(t) = n + 1 /\ t \in Seq(Frames)
  BY DEF FramesAre, Entered
<1>2. Advanced(s, u)
  BY <1>1 DEF Advanced, Entered
<1>3. /\ FramesAre(P, T, E, u)
      /\ \A i \in 1 .. n - 1 : Taken(P, u[i]) = Taken(P, s[i])
      /\ \A i \in 1 .. n : u[i].file = s[i].file
      /\ Taken(P, u[n]) = Taken(P, s[n]) + 1
      /\ Taken(P, u[n]) \in 1 .. Len(P[s[n].file])
  BY <1>2, AdvancedFrames
<1>4. \A i \in 1 .. n : u[i] = t[i]
  OBVIOUS
<1>5. Len(u) = n
  BY <1>2 DEF Advanced
<1> HIDE DEF u
<1>6. t[n + 1].file = f /\ t[n + 1].rest = P[f] /\ P[f] \in Seq(Ways)
  BY DEF Entered, IsGraph
<1>7. Taken(P, t[n + 1]) = 0 /\ FrameOK(P, E, t[n + 1])
  <2>1. Len(P[f]) \in Nat /\ Len(P[f]) - Len(P[f]) = 0
    BY <1>6
  <2>2. Taken(P, t[n + 1]) = 0
    BY <1>6, <2>1 DEF Taken
  <2>3. QED BY <1>6, <2>1, <2>2 DEF FrameOK
<1>8. FramesAre(P, T, E, t)
  <2>1. t \in Seq(Frames)
    BY <1>1
  <2>2. \A i \in 1 .. n + 1 : FrameOK(P, E, t[i])
    BY <1>1, <1>3, <1>4, <1>5, <1>7 DEF FramesAre
  <2>3. \A i \in 1 .. n : Taken(P, t[i]) >= 1 /\ T[t[i].file][Taken(P, t[i])] = t[i + 1].file
    <3>1. TAKE i \in 1 .. n
    <3>2. CASE i = n
      BY <1>1, <1>3, <1>4, <1>6, <3>2
    <3>3. CASE i \in 1 .. n - 1
      <4>1. u[i] = t[i] /\ u[i + 1] = t[i + 1]
        BY <1>1, <1>4, <3>3
      <4>2. QED BY <1>3, <1>5, <3>3, <4>1 DEF FramesAre
    <3>4. QED BY <1>1, <3>2, <3>3
  <2>4. t[1].file = Main
    BY <1>1, <1>3, <1>4 DEF FramesAre
  <2>5. QED BY <1>1, <2>1, <2>2, <2>3, <2>4 DEF FramesAre
<1>9. QED BY <1>1, <1>3, <1>4, <1>6, <1>7, <1>8

LEMMA LeftFrames ==
  ASSUME NEW P, NEW T, NEW E, NEW s, NEW t, FramesAre(P, T, E, s), Len(s) > 1, Left(s, t)
  PROVE  FramesAre(P, T, E, t)
<1>1. Len(s) \in Nat /\ Len(t) = Len(s) - 1 /\ t \in Seq(Frames)
      /\ \A i \in 1 .. Len(s) - 1 : t[i] = s[i]
  BY DEF FramesAre, Left
<1>2. \A i \in 1 .. Len(t) : t[i] = s[i] /\ i \in 1 .. Len(s)
  BY <1>1
<1>3. \A i \in 1 .. Len(t) : FrameOK(P, E, t[i])
  BY <1>2 DEF FramesAre
<1>4. \A i \in 1 .. Len(t) - 1 : Taken(P, t[i]) >= 1 /\ T[t[i].file][Taken(P, t[i])] = t[i + 1].file
  <2>1. TAKE i \in 1 .. Len(t) - 1
  <2>2. t[i] = s[i] /\ t[i + 1] = s[i + 1] /\ i \in 1 .. Len(s) - 1
    BY <1>1, <1>2
  <2>3. QED BY <2>2 DEF FramesAre
<1>5. t[1].file = Main /\ Len(t) >= 1
  BY <1>1, <1>2 DEF FramesAre
<1>6. QED BY <1>1, <1>3, <1>4, <1>5 DEF FramesAre

\* A frame has taken some of the imports of its file, and all when none is left.
LEMMA TakenIs ==
  ASSUME NEW P, NEW T, NEW E, IsGraph(P, T, E), NEW s, FramesAre(P, T, E, s), NEW i \in 1 .. Len(s)
  PROVE  /\ s[i].file \in LocalFiles \ E /\ P[s[i].file] \in Seq(Ways)
         /\ Taken(P, s[i]) \in 0 .. Len(P[s[i].file])
         /\ s[i].rest = <<>> => Taken(P, s[i]) = Len(P[s[i].file])
<1>1. s[i].file \in LocalFiles /\ s[i].rest \in Seq(Ways) /\ FrameOK(P, E, s[i])
  <2>1. s[i] \in Frames /\ FrameOK(P, E, s[i])
    BY DEF FramesAre
  <2>2. QED BY <2>1 DEF Frames
<1>2. P[s[i].file] \in Seq(Ways)
  BY <1>1 DEF IsGraph
<1>3. s[i].file \notin E /\ Len(s[i].rest) <= Len(P[s[i].file])
  BY <1>1 DEF FrameOK
<1>4. Len(s[i].rest) \in Nat /\ Len(P[s[i].file]) \in Nat /\ (s[i].rest = <<>> => Len(s[i].rest) = 0)
  BY <1>1, <1>2
<1>5. Len(P[s[i].file]) - Len(s[i].rest) \in 0 .. Len(P[s[i].file])
      /\ (Len(s[i].rest) = 0 => Len(P[s[i].file]) - Len(s[i].rest) = Len(P[s[i].file]))
  BY <1>3, <1>4, Difference
<1>6. QED BY <1>1, <1>2, <1>3, <1>4, <1>5 DEF Taken

-----------------------------------------------------------------------------
(* Circles.                                                                 *)
LEMMA TameStep ==
  ASSUME NEW P, NEW T, NEW E, NEW f \in LocalFiles, \A g \in Good(P, T, E, f) : Tame(P, T, E, g)
  PROVE  Tame(P, T, E, f)
<1>1. SUFFICES ASSUME NEW C \in SUBSET LocalFiles, f \in C, \A g \in C : Good(P, T, E, g) \cap C # {}
               PROVE  FALSE
  BY DEF Tame
<1>2. PICK g \in Good(P, T, E, f) : g \in C
  BY <1>1
<1>3. QED BY <1>1, <1>2 DEF Tame

(* From frame i on, each file imports the next: the last one, its own.      *)
LEMMA CircleIsWild ==
  ASSUME NEW P, NEW T, NEW E, IsGraph(P, T, E), NEW s, FramesAre(P, T, E, s), NEW i \in 1 .. Len(s),
         NEW j \in 1 .. Len(P[s[Len(s)].file]), T[s[Len(s)].file][j] = s[i].file
  PROVE  ~Tame(P, T, E, s[i].file)
<1> DEFINE n == Len(s)
           C == {s[k].file : k \in i .. n}
<1>1. n \in Nat /\ i \in Nat /\ \A k \in i .. n : k \in 1 .. n
  BY DEF FramesAre
<1>2. \A k \in 1 .. n : s[k].file \in LocalFiles \ E /\ Taken(P, s[k]) \in 0 .. Len(P[s[k].file])
                        /\ P[s[k].file] \in Seq(Ways)
  BY TakenIs
<1>3. C \in SUBSET LocalFiles /\ s[i].file \in C
  BY <1>1, <1>2
<1>4. ASSUME NEW k \in i .. n PROVE Good(P, T, E, s[k].file) \cap C # {}
  <2>1. CASE k = n
    BY <1>1, <1>2, <1>3, <2>1 DEF Good
  <2>2. CASE k # n
    <3>1. k \in 1 .. n - 1 /\ k + 1 \in i .. n /\ k \in 1 .. n /\ k + 1 \in 1 .. n
      BY <1>1, <2>2
    <3>2. Taken(P, s[k]) \in 1 .. Len(P[s[k].file]) /\ T[s[k].file][Taken(P, s[k])] = s[k + 1].file
      BY <1>2, <3>1 DEF FramesAre
    <3>3. s[k + 1].file \in C /\ s[k + 1].file \notin E
      BY <1>2, <3>1
    <3>4. QED BY <3>2, <3>3 DEF Good
  <2>3. QED BY <2>1, <2>2
<1>5. \A g \in C : Good(P, T, E, g) \cap C # {}
  BY <1>4
<1> HIDE DEF C
<1>6. QED BY <1>3, <1>5 DEF Tame

(* As many calls as files, and one more: a file is open twice.              *)
LEMMA TooDeep ==
  ASSUME NEW P, NEW T, NEW E, IsGraph(P, T, E), NEW s, FramesAre(P, T, E, s),
         Len(s) > Cardinality(LocalFiles)
  PROVE  \E C \in SUBSET LocalFiles : C # {} /\ \A f \in C : \E j \in 1 .. Len(P[f]) : T[f][j] \in C
<1> DEFINE n == Len(s)
           file == [k \in 1 .. n |-> s[k].file]
<1>1. n \in Nat /\ IsFiniteSet(LocalFiles) /\ Cardinality(LocalFiles) \in Nat
  BY ImportConstants, FS_CardinalityType DEF FramesAre
<1>2. \A k \in 1 .. n : s[k].file \in LocalFiles \ E /\ Taken(P, s[k]) \in 0 .. Len(P[s[k].file])
  BY TakenIs
<1>3. IsFiniteSet(1 .. n) /\ Cardinality(1 .. n) = n
  <2>1. 1 \in Int /\ n \in Int /\ n >= 1
    BY <1>1 DEF FramesAre
  <2>2. Cardinality(1 .. n) = (IF 1 > n THEN 0 ELSE n - 1 + 1) /\ IsFiniteSet(1 .. n)
    BY <2>1, FS_Interval
  <2>3. QED BY <1>1, <2>1, <2>2
<1>4. PICK a, b \in 1 .. n : a # b /\ s[a].file = s[b].file
  <2>1. file \in [1 .. n -> LocalFiles]
    BY <1>2
  <2>2. Cardinality(LocalFiles) < Cardinality(1 .. n)
    BY <1>1, <1>3
  <2> HIDE DEF file, n
  <2>3. \E a, b \in 1 .. n : a # b /\ file[a] = file[b]
    BY <1>1, <1>3, <2>1, <2>2, FS_PigeonHole
  <2>4. QED BY <2>3 DEF file
<1>5. PICK i, k \in 1 .. n : i < k /\ s[i].file = s[k].file
  BY <1>4
<1> DEFINE C == {s[m].file : m \in i .. k - 1}
<1>6. \A m \in i .. k - 1 : m \in 1 .. n - 1 /\ m \in 1 .. n
  BY <1>1, <1>5
<1>7. C \in SUBSET LocalFiles /\ C # {} /\ s[i].file \in C
  <2>1. i \in i .. k - 1 /\ i \in 1 .. n
    BY <1>1, <1>5
  <2>2. QED BY <1>2, <1>6, <2>1
<1>8. ASSUME NEW m \in i .. k - 1 PROVE \E j \in 1 .. Len(P[s[m].file]) : T[s[m].file][j] \in C
  <2>1. Taken(P, s[m]) \in 1 .. Len(P[s[m].file]) /\ T[s[m].file][Taken(P, s[m])] = s[m + 1].file
    <3>1. Taken(P, s[m]) >= 1 /\ T[s[m].file][Taken(P, s[m])] = s[m + 1].file /\ m \in 1 .. n
      BY <1>6 DEF FramesAre
    <3>2. QED BY <1>2, <3>1
  <2>2. m + 1 = k \/ m + 1 \in i .. k - 1
    BY <1>5
  <2>3. s[m + 1].file \in C
    BY <1>5, <1>7, <2>2
  <2>4. QED BY <2>1, <2>3
<1>9. \A f \in C : \E j \in 1 .. Len(P[f]) : T[f][j] \in C
  BY <1>8
<1> HIDE DEF C
<1>10. QED BY <1>7, <1>9

-----------------------------------------------------------------------------
(* The walk that collects.                                                  *)
LEMMA CollectSkips ==
  ASSUME NEW P, NEW T, NEW E, IsGraph(P, T, E), NEW s, NEW t, NEW coll, CollectInv(P, T, E, s, coll),
         s[Len(s)].rest # <<>>, Advanced(s, t), T[s[Len(s)].file][Taken(P, s[Len(s)]) + 1] \in E
  PROVE  CollectInv(P, T, E, t, coll)
<1> DEFINE n == Len(s)
<1>1. FramesAre(P, T, E, s) /\ n \in Nat /\ n >= 1 /\ Len(t) = n
  BY DEF CollectInv, FramesAre, Advanced
<1>2. /\ FramesAre(P, T, E, t)
      /\ \A i \in 1 .. n - 1 : Taken(P, t[i]) = Taken(P, s[i])
      /\ \A i \in 1 .. n : t[i].file = s[i].file
      /\ Taken(P, t[n]) = Taken(P, s[n]) + 1
  BY <1>1, AdvancedFrames
<1>3. Taken(P, s[n]) \in Nat
  BY <1>1, TakenIs
<1>4. Seen(P, T, E, t, coll)
  <2>1. SUFFICES ASSUME NEW i \in 1 .. n, NEW j \in 1 .. Taken(P, t[i]), T[s[i].file][j] \notin E
                 PROVE  LET g == T[s[i].file][j]
                        IN g \in coll /\ (Tame(P, T, E, g) \/ (i < n /\ j = Taken(P, t[i])))
    BY <1>1, <1>2 DEF Seen
  <2>2. j \in 1 .. Taken(P, s[i])
    BY <1>1, <1>2, <1>3, <2>1
  <2>3. i < n => Taken(P, t[i]) = Taken(P, s[i])
    BY <1>1, <1>2
  <2>4. QED BY <2>1, <2>2, <2>3 DEF CollectInv, Seen
<1>5. Finished(P, T, E, t, coll) /\ OpenIsCollected(t, coll)
  <2>1. \A i \in 2 .. n : i \in 1 .. n
    BY <1>1
  <2>2. QED BY <1>1, <1>2, <2>1 DEF CollectInv, Finished, OpenIsCollected
<1>6. QED BY <1>2, <1>4, <1>5 DEF CollectInv

LEMMA CollectEnters ==
  ASSUME NEW P, NEW T, NEW E, IsGraph(P, T, E), NEW s, NEW t, NEW coll, CollectInv(P, T, E, s, coll),
         s[Len(s)].rest # <<>>, NEW f \in LocalFiles \ E, Entered(P, s, t, f),
         f = T[s[Len(s)].file][Taken(P, s[Len(s)]) + 1]
  PROVE  CollectInv(P, T, E, t, coll \cup {f})
<1> DEFINE n == Len(s)
<1>1. FramesAre(P, T, E, s) /\ n \in Nat /\ n >= 1 /\ Len(t) = n + 1
  BY DEF CollectInv, FramesAre, Entered
<1>2. /\ FramesAre(P, T, E, t)
      /\ \A i \in 1 .. n - 1 : Taken(P, t[i]) = Taken(P, s[i])
      /\ \A i \in 1 .. n : t[i].file = s[i].file
      /\ Taken(P, t[n]) = Taken(P, s[n]) + 1
      /\ Taken(P, t[n]) \in 1 .. Len(P[s[n].file])
      /\ Taken(P, t[n + 1]) = 0
      /\ t[n + 1].file = f
  BY <1>1, EnteredFrames
<1>3. Taken(P, s[n]) \in Nat
  BY <1>1, TakenIs
<1>4. Seen(P, T, E, t, coll \cup {f})
  <2>1. SUFFICES ASSUME NEW i \in 1 .. n + 1, NEW j \in 1 .. Taken(P, t[i]), T[t[i].file][j] \notin E
                 PROVE  LET g == T[t[i].file][j]
                        IN g \in coll \cup {f} /\ (Tame(P, T, E, g) \/ (i < n + 1 /\ j = Taken(P, t[i])))
    BY <1>1, <1>2 DEF Seen
  <2>2. i \in 1 .. n /\ t[i].file = s[i].file
    BY <1>1, <1>2
  <2>3. CASE j \in 1 .. Taken(P, s[i])
    <3>1. i < n => Taken(P, t[i]) = Taken(P, s[i])
      BY <1>1, <1>2, <2>2
    <3>2. QED BY <1>1, <2>1, <2>2, <2>3, <3>1 DEF CollectInv, Seen
  <2>4. CASE i = n /\ j = Taken(P, t[n])
    BY <1>1, <1>2, <2>2, <2>4
  <2>5. QED BY <1>1, <1>2, <1>3, <2>2, <2>3, <2>4
<1>5. \A i \in 2 .. n : i \in 1 .. n /\ i \in 2 .. n + 1
  BY <1>1
<1>6. n + 1 \in 2 .. n + 1 /\ \A i \in 2 .. n + 1 : i = n + 1 \/ i \in 2 .. n
  BY <1>1
<1>7. Finished(P, T, E, t, coll \cup {f})
  <2>1. \A i \in 2 .. n : t[i].file = s[i].file
    BY <1>2, <1>5
  <2>2. QED BY <1>1, <1>2, <1>5, <1>6, <2>1 DEF CollectInv, Finished
<1>8. OpenIsCollected(t, coll \cup {f})
  BY <1>1, <1>2, <1>5, <1>6 DEF CollectInv, OpenIsCollected
<1>9. f \in Good(P, T, E, s[n].file)
  BY <1>2 DEF Good
<1>10. s[n].file = Main \/ s[n].file \in coll
  BY <1>1 DEF CollectInv, FramesAre, OpenIsCollected
<1>11. Least(P, T, E, coll \cup {f})
  BY <1>9, <1>10 DEF CollectInv, Least
<1>12. QED BY <1>2, <1>4, <1>7, <1>8, <1>11 DEF CollectInv

(* A call that took all its imports without leaving one open.               *)
LEMMA LastIsTame ==
  ASSUME NEW P, NEW T, NEW E, IsGraph(P, T, E), NEW s, NEW coll, CollectInv(P, T, E, s, coll),
         s[Len(s)].rest = <<>>
  PROVE  /\ Tame(P, T, E, s[Len(s)].file) /\ Good(P, T, E, s[Len(s)].file) \subseteq coll
         /\ s[Len(s)].file \in LocalFiles \ E
<1> DEFINE n == Len(s)
<1>1. n \in Nat /\ n >= 1 /\ FramesAre(P, T, E, s)
  BY DEF CollectInv, FramesAre
<1>2. s[n].file \in LocalFiles \ E /\ Taken(P, s[n]) = Len(P[s[n].file])
  BY <1>1, TakenIs
<1>3. \A g \in Good(P, T, E, s[n].file) : g \in coll /\ Tame(P, T, E, g)
  BY <1>1, <1>2 DEF CollectInv, Seen, Good
<1>4. QED BY <1>2, <1>3, TameStep

LEMMA CollectLeaves ==
  ASSUME NEW P, NEW T, NEW E, IsGraph(P, T, E), NEW s, NEW t, NEW coll, CollectInv(P, T, E, s, coll),
         s[Len(s)].rest = <<>>, Len(s) > 1, Left(s, t)
  PROVE  CollectInv(P, T, E, t, coll)
<1> DEFINE n == Len(s)
           f == s[n].file
<1>1. n \in Nat /\ n > 1 /\ FramesAre(P, T, E, s) /\ Len(t) = n - 1 /\ \A i \in 1 .. n - 1 : t[i] = s[i]
  <2>1. FramesAre(P, T, E, s)
    BY DEF CollectInv
  <2>2. s \in Seq(Frames)
    BY <2>1 DEF FramesAre
  <2>3. QED BY <2>1, <2>2 DEF Left
<1>2. FramesAre(P, T, E, t)
  BY <1>1, LeftFrames
<1>3. Tame(P, T, E, f) /\ Good(P, T, E, f) \subseteq coll /\ f \in LocalFiles \ E
  BY LastIsTame
<1>4. \A i \in 1 .. n - 1 : i \in 1 .. n /\ (i < n - 1 \/ i + 1 = n)
  BY <1>1
<1>5. Seen(P, T, E, t, coll)
  <2>1. SUFFICES ASSUME NEW i \in 1 .. n - 1, NEW j \in 1 .. Taken(P, s[i]), T[s[i].file][j] \notin E
                 PROVE  LET g == T[s[i].file][j]
                        IN g \in coll /\ (Tame(P, T, E, g) \/ (i < n - 1 /\ j = Taken(P, s[i])))
    BY <1>1 DEF Seen
  <2>2. CASE i < n - 1
    BY <1>4, <2>1, <2>2 DEF CollectInv, Seen
  <2>3. CASE i + 1 = n
    <3>1. T[s[i].file][Taken(P, s[i])] = f
      BY <1>1, <2>3 DEF FramesAre
    <3>2. QED BY <1>3, <1>4, <2>1, <3>1 DEF CollectInv, Seen
  <2>4. QED BY <1>4, <2>2, <2>3
<1>6. \A i \in 2 .. n : i = n \/ (i \in 2 .. n - 1 /\ i \in 1 .. n - 1)
  BY <1>1
<1>7. \A i \in 2 .. n - 1 : i \in 2 .. n /\ i \in 1 .. n - 1
  BY <1>1
<1>8. Finished(P, T, E, t, coll)
  BY <1>1, <1>3, <1>6 DEF CollectInv, Finished
<1>9. OpenIsCollected(t, coll)
  BY <1>1, <1>7 DEF CollectInv, OpenIsCollected
<1>10. QED BY <1>2, <1>5, <1>8, <1>9 DEF CollectInv

LEMMA CollectEnds ==
  ASSUME NEW P, NEW T, NEW E, IsGraph(P, T, E), NEW s, NEW coll, CollectInv(P, T, E, s, coll),
         s[Len(s)].rest = <<>>, Len(s) = 1
  PROVE  Walked(P, T, E, coll)
<1>1. s[1].file = Main
  BY DEF CollectInv, FramesAre
<1>2. Tame(P, T, E, Main) /\ Good(P, T, E, Main) \subseteq coll /\ Main \in LocalFiles \ E
  BY <1>1, LastIsTame
<1>3. \A i \in 2 .. Len(s) : FALSE
  OBVIOUS
<1>4. QED BY <1>2, <1>3 DEF CollectInv, Finished, Walked

-----------------------------------------------------------------------------
(* The walk that compiles.                                                  *)
LEMMA OpenFiles ==
  ASSUME NEW P, NEW T, NEW E, IsGraph(P, T, E), NEW s, FramesAre(P, T, E, s)
  PROVE  /\ \A i \in 1 .. Len(s) : s[i].file \in Open(s)
         /\ \A i \in 2 .. Len(s) : s[i].file \in Above(s)
         /\ Open(s) = Above(s) \cup {Main}
<1>1. Len(s) \in Nat /\ Len(s) >= 1 /\ s[1].file = Main
  BY DEF FramesAre
<1>2. \A i \in 1 .. Len(s) : i = 1 \/ i \in 2 .. Len(s)
  BY <1>1
<1>3. 1 \in 1 .. Len(s) /\ \A i \in 2 .. Len(s) : i \in 1 .. Len(s)
  BY <1>1
<1>4. QED BY <1>1, <1>2, <1>3 DEF Open, Above

LEMMA CompileStarts ==
  ASSUME NEW P, NEW T, NEW E, IsGraph(P, T, E), NEW coll, Walked(P, T, E, coll)
  PROVE  CompileInv(P, T, E, <<[file |-> Main, rest |-> P[Main]]>>, coll, {}, {}, <<>>, FALSE)
<1> DEFINE c == [file |-> Main, rest |-> P[Main]]
           s == <<c>>
<1>1. Main \in LocalFiles \ E /\ P[Main] \in Seq(Ways) /\ c \in Frames /\ c.file = Main /\ c.rest = P[Main]
  BY ImportConstants DEF IsGraph, Frames
<1> HIDE DEF c
<1>2. s \in Seq(Frames) /\ Len(s) = 1 /\ s[1] = c
  BY <1>1
<1>3. Len(P[Main]) \in Nat /\ Len(P[Main]) - Len(P[Main]) = 0
  BY <1>1
<1> HIDE DEF s
<1>4. Taken(P, s[1]) = 0
  BY <1>1, <1>2, <1>3 DEF Taken
<1>5. FrameOK(P, E, s[1])
  <2>1. \A j \in 1 .. Len(P[Main]) : 0 + j = j
    OBVIOUS
  <2>2. QED BY <1>1, <1>2, <1>3, <1>4, <2>1 DEF FrameOK
<1>6. \A i \in 1 .. Len(s) : i = 1
  BY <1>2
<1>7. FramesAre(P, T, E, s)
  BY <1>1, <1>2, <1>5, <1>6 DEF FramesAre
<1>8. Above(s) = {} /\ Out(<<>>) = {} /\ <<>> \in Seq(LocalFiles) /\ Len(<<>>) = 0
  <2>1. \A i \in 2 .. Len(s) : FALSE
    BY <1>2
  <2>2. QED BY <2>1 DEF Above, Out
<1>9. CompiledIsOut(P, T, s, {}, <<>>) /\ HasPath(P, T, s, coll, {}, {}, <<>>)
  BY <1>8 DEF CompiledIsOut, HasPath
<1>10. OutOnce(s, <<>>) /\ OutInOrder(P, T, <<>>)
  BY <1>8 DEF OutOnce, OutInOrder
<1>11. TakenIsOut(P, T, s, <<>>)
  BY <1>4, <1>6 DEF TakenIsOut
<1>12. CompileInv(P, T, E, s, coll, {}, {}, <<>>, FALSE)
  BY <1>7, <1>8, <1>9, <1>10, <1>11 DEF CompileInv
<1>13. QED BY <1>12 DEF s, c

LEMMA CompileSkips ==
  ASSUME NEW P, NEW T, NEW E, IsGraph(P, T, E), NEW s, NEW t, NEW coll, NEW comp, NEW hash, NEW emit, NEW err,
         CompileInv(P, T, E, s, coll, comp, hash, emit, err),
         s[Len(s)].rest # <<>>, Advanced(s, t), NEW p, NEW h
  PROVE  CompileInv(P, T, E, t, coll, comp \cup {p}, hash \cup {h}, emit, TRUE)
<1>1. FramesAre(P, T, E, s) /\ Len(t) = Len(s) /\ Len(s) \in Nat /\ \A i \in 2 .. Len(s) : i \in 1 .. Len(s)
  BY DEF CompileInv, FramesAre, Advanced
<1>2. FramesAre(P, T, E, t) /\ \A i \in 1 .. Len(s) : t[i].file = s[i].file
  BY <1>1, AdvancedFrames
<1>3. Above(t) = Above(s)
  BY <1>1, <1>2 DEF Above
<1>4. HasPath(P, T, t, coll, comp \cup {p}, hash \cup {h}, emit)
  BY <1>3 DEF CompileInv, HasPath
<1>5. OnePath(P, T) => OutOnce(t, emit)
  BY <1>3 DEF CompileInv, OutOnce
<1>6. QED BY <1>2, <1>4, <1>5 DEF CompileInv

LEMMA CompileEnters ==
  ASSUME NEW P, NEW T, NEW E, IsGraph(P, T, E), NEW s, NEW t, NEW coll, NEW comp, NEW hash, NEW emit, NEW err,
         CompileInv(P, T, E, s, coll, comp, hash, emit, err),
         s[Len(s)].rest # <<>>, NEW f \in LocalFiles \ E, Entered(P, s, t, f),
         f = T[s[Len(s)].file][Taken(P, s[Len(s)]) + 1],
         P[s[Len(s)].file][Taken(P, s[Len(s)]) + 1] \notin comp
  PROVE  CompileInv(P, T, E, t, coll, comp \cup {P[s[Len(s)].file][Taken(P, s[Len(s)]) + 1]},
                    hash \cup {f}, emit, err)
<1> DEFINE n == Len(s)
<1>1. FramesAre(P, T, E, s) /\ n \in Nat /\ n >= 1 /\ Len(t) = n + 1
  BY DEF CompileInv, FramesAre, Entered
<1>2. /\ FramesAre(P, T, E, t)
      /\ \A i \in 1 .. n - 1 : Taken(P, t[i]) = Taken(P, s[i])
      /\ \A i \in 1 .. n : t[i].file = s[i].file
      /\ Taken(P, t[n]) = Taken(P, s[n]) + 1
      /\ Taken(P, t[n]) \in 1 .. Len(P[s[n].file])
      /\ Taken(P, t[n + 1]) = 0
      /\ t[n + 1].file = f
  BY <1>1, EnteredFrames
<1> DEFINE u == s[n].file
           p == P[u][Taken(P, s[n]) + 1]
<1>3. Taken(P, s[n]) \in Nat /\ u \in LocalFiles
  BY <1>1, TakenIs
<1> DEFINE j0 == Taken(P, s[n]) + 1
<1>4. j0 \in 1 .. Len(P[u]) /\ p = P[u][j0] /\ f = T[u][j0] /\ p \notin comp
  BY <1>2
<1> HIDE DEF j0, p
<1>5. Means(P, T, p, f)
  BY <1>3, <1>4 DEF Means
<1>6. f \in coll
  <2>1. u \in coll \cup {Main}
    <3>1. u \in Above(s) \cup {Main}
      BY <1>1, OpenFiles
    <3>2. QED BY <3>1 DEF CompileInv, HasPath
  <2>2. f \in Good(P, T, E, u)
    BY <1>4 DEF Good
  <2>3. QED BY <2>1, <2>2 DEF CompileInv, Walked
<1>7. Above(t) = Above(s) \cup {f} /\ Open(t) = Open(s) \cup {f}
  <2>1. \A i \in 2 .. n + 1 : i = n + 1 \/ i \in 2 .. n
    BY <1>1
  <2>2. \A i \in 2 .. n : i \in 2 .. n + 1 /\ i \in 1 .. n
    BY <1>1
  <2>3. n + 1 \in 2 .. n + 1
    BY <1>1
  <2>4. Above(t) = Above(s) \cup {f}
    BY <1>1, <1>2, <2>1, <2>2, <2>3 DEF Above
  <2>5. Open(t) = Above(t) \cup {Main} /\ Open(s) = Above(s) \cup {Main}
    BY <1>1, <1>2, OpenFiles
  <2>6. QED BY <2>4, <2>5
<1>8. ~err => CompiledIsOut(P, T, t, comp \cup {p}, emit)
  BY <1>5, <1>7 DEF CompileInv, CompiledIsOut
<1>9. HasPath(P, T, t, coll, comp \cup {p}, hash \cup {f}, emit)
  BY <1>5, <1>6, <1>7 DEF CompileInv, HasPath
<1>10. ASSUME OnePath(P, T) PROVE f \notin Out(emit)
  <2>1. SUFFICES ASSUME f \in Out(emit) PROVE FALSE
    OBVIOUS
  <2>2. PICK q \in comp : Means(P, T, q, f)
    BY <2>1 DEF CompileInv, HasPath
  <2>3. PICK v \in LocalFiles : \E j \in 1 .. Len(P[v]) : P[v][j] = q /\ T[v][j] = f
    BY <2>2 DEF Means
  <2>4. q = p
    BY <1>3, <1>4, <1>10, <2>3 DEF OnePath
  <2>5. QED BY <1>4, <2>2, <2>4
<1>11. OnePath(P, T) => OutOnce(t, emit)
  BY <1>7, <1>10 DEF CompileInv, OutOnce
<1>12. ASSUME ~err, OnePath(P, T) PROVE TakenIsOut(P, T, t, emit)
  <2>1. SUFFICES ASSUME NEW i \in 1 .. n + 1, NEW j \in 1 .. Taken(P, t[i])
                 PROVE  T[t[i].file][j] \in Out(emit) \/ (i < n + 1 /\ j = Taken(P, t[i]))
    BY <1>1 DEF TakenIsOut
  <2>2. i \in 1 .. n /\ t[i].file = s[i].file
    BY <1>1, <1>2
  <2>3. CASE j \in 1 .. Taken(P, s[i])
    <3>1. i < n => Taken(P, t[i]) = Taken(P, s[i])
      BY <1>1, <1>2, <2>2
    <3>2. T[s[i].file][j] \in Out(emit) \/ (i < n /\ j = Taken(P, s[i]))
      BY <1>12, <2>2, <2>3 DEF CompileInv, TakenIsOut
    <3>3. QED BY <1>1, <2>2, <3>1, <3>2
  <2>4. CASE i = n /\ j = Taken(P, t[n])
    BY <1>1, <2>4
  <2>5. QED BY <1>1, <1>2, <1>3, <2>2, <2>3, <2>4
<1>13. CompileInv(P, T, E, t, coll, comp \cup {p}, hash \cup {f}, emit, err)
  BY <1>2, <1>8, <1>9, <1>11, <1>12 DEF CompileInv
<1>14. QED BY <1>13 DEF p

(* A path that is known: its file is out, since it cannot be open.          *)
LEMMA CompilePasses ==
  ASSUME NEW P, NEW T, NEW E, IsGraph(P, T, E), NEW s, NEW t, NEW coll, NEW comp, NEW hash, NEW emit, NEW err,
         CompileInv(P, T, E, s, coll, comp, hash, emit, err),
         s[Len(s)].rest # <<>>, Advanced(s, t),
         NEW p, p = P[s[Len(s)].file][Taken(P, s[Len(s)]) + 1], p \in comp
  PROVE  CompileInv(P, T, E, t, coll, comp, hash, emit, err)
<1> DEFINE n == Len(s)
           u == s[n].file
<1>1. FramesAre(P, T, E, s) /\ n \in Nat /\ n >= 1 /\ Len(t) = n /\ \A i \in 2 .. n : i \in 1 .. n
  BY DEF CompileInv, FramesAre, Advanced
<1>2. /\ FramesAre(P, T, E, t)
      /\ \A i \in 1 .. n - 1 : Taken(P, t[i]) = Taken(P, s[i])
      /\ \A i \in 1 .. n : t[i].file = s[i].file
      /\ Taken(P, t[n]) = Taken(P, s[n]) + 1
      /\ Taken(P, t[n]) \in 1 .. Len(P[s[n].file])
  BY <1>1, AdvancedFrames
<1>3. Taken(P, s[n]) \in Nat /\ u \in LocalFiles
  BY <1>1, TakenIs
<1> DEFINE j0 == Taken(P, s[n]) + 1
<1>4. j0 \in 1 .. Len(P[u]) /\ p = P[u][j0]
  BY <1>2
<1>5. ASSUME ~err, OnePath(P, T) PROVE T[u][j0] \in Out(emit)
  <2>1. PICK f \in Out(emit) \cup Open(s) : Means(P, T, p, f)
    BY <1>5 DEF CompileInv, CompiledIsOut
  <2> HIDE DEF j0
  <2>2. PICK v \in LocalFiles : \E j \in 1 .. Len(P[v]) : P[v][j] = p /\ T[v][j] = f
    BY <2>1 DEF Means
  <2>3. T[u][j0] = f
    BY <1>3, <1>4, <1>5, <2>2 DEF OnePath
  <2>4. CASE f \in Open(s)
    <3>1. PICK i \in 1 .. n : f = s[i].file
      BY <2>4 DEF Open
    <3>2. ~Tame(P, T, E, f)
      BY <1>1, <1>4, <2>3, <3>1, CircleIsWild
    <3>3. f \in Above(s) \cup {Main}
      BY <1>1, <2>4, OpenFiles
    <3>4. Tame(P, T, E, f)
      BY <3>3 DEF CompileInv, HasPath, Walked
    <3>5. QED BY <3>2, <3>4
  <2>5. QED BY <2>1, <2>3, <2>4
<1>6. Above(t) = Above(s) /\ Open(t) = Open(s)
  BY <1>1, <1>2 DEF Above, Open
<1>7. ASSUME ~err, OnePath(P, T) PROVE TakenIsOut(P, T, t, emit)
  <2>1. SUFFICES ASSUME NEW i \in 1 .. n, NEW j \in 1 .. Taken(P, t[i])
                 PROVE  T[t[i].file][j] \in Out(emit) \/ (i < n /\ j = Taken(P, t[i]))
    BY <1>1 DEF TakenIsOut
  <2>2. t[i].file = s[i].file
    BY <1>2
  <2>3. CASE j \in 1 .. Taken(P, s[i])
    <3>1. i < n => Taken(P, t[i]) = Taken(P, s[i])
      BY <1>1, <1>2
    <3>2. T[s[i].file][j] \in Out(emit) \/ (i < n /\ j = Taken(P, s[i]))
      BY <1>7, <2>3 DEF CompileInv, TakenIsOut
    <3>3. QED BY <2>2, <3>1, <3>2
  <2>4. CASE i = n /\ j = Taken(P, t[n])
    BY <1>2, <1>5, <1>7, <2>2, <2>4
  <2>5. QED BY <1>1, <1>2, <1>3, <2>3, <2>4
<1>8. HasPath(P, T, t, coll, comp, hash, emit)
  BY <1>6 DEF CompileInv, HasPath
<1>9. ~err => CompiledIsOut(P, T, t, comp, emit)
  BY <1>6 DEF CompileInv, CompiledIsOut
<1>10. OnePath(P, T) => OutOnce(t, emit)
  BY <1>6 DEF CompileInv, OutOnce
<1>11. QED BY <1>2, <1>7, <1>8, <1>9, <1>10 DEF CompileInv

LEMMA CompileEmits ==
  ASSUME NEW P, NEW T, NEW E, IsGraph(P, T, E), NEW s, NEW t, NEW coll, NEW comp, NEW hash, NEW emit, NEW err,
         CompileInv(P, T, E, s, coll, comp, hash, emit, err),
         s[Len(s)].rest = <<>>, Len(s) > 1, Left(s, t)
  PROVE  CompileInv(P, T, E, t, coll, comp, hash, Append(emit, s[Len(s)].file), err)
<1> DEFINE n == Len(s)
           f == s[n].file
           out == Append(emit, f)
           k == Len(emit)
<1>1. n \in Nat /\ n > 1 /\ FramesAre(P, T, E, s) /\ Len(t) = n - 1 /\ \A i \in 1 .. n - 1 : t[i] = s[i]
  <2>1. FramesAre(P, T, E, s)
    BY DEF CompileInv
  <2>2. s \in Seq(Frames)
    BY <2>1 DEF FramesAre
  <2>3. QED BY <2>1, <2>2 DEF Left
<1>2. FramesAre(P, T, E, t)
  BY <1>1, LeftFrames
<1>3. n \in 1 .. n /\ n \in 2 .. n /\ n - 1 \in 1 .. n - 1 /\ n - 1 \in 1 .. n
  BY <1>1
<1>4. f \in LocalFiles \ E /\ Taken(P, s[n]) = Len(P[f]) /\ P[f] \in Seq(Ways)
  BY <1>1, <1>3, TakenIs
<1>5. Above(s) = Above(t) \cup {f} /\ Open(s) = Open(t) \cup {f}
  <2>1. \A i \in 2 .. n : i = n \/ i \in 2 .. n - 1
    BY <1>1
  <2>2. \A i \in 2 .. n - 1 : i \in 2 .. n /\ i \in 1 .. n - 1
    BY <1>1
  <2>3. Above(s) = Above(t) \cup {f}
    BY <1>1, <1>3, <2>1, <2>2 DEF Above
  <2>4. Open(t) = Above(t) \cup {Main} /\ Open(s) = Above(s) \cup {Main}
    BY <1>1, <1>2, OpenFiles
  <2>5. QED BY <2>3, <2>4
<1>6. f \in Above(s) /\ Tame(P, T, E, f)
  BY <1>5 DEF CompileInv, HasPath, Walked
<1>7. f \notin Above(t)
  <2>1. SUFFICES ASSUME NEW i \in 2 .. Len(t), t[i].file = f PROVE FALSE
    BY DEF Above
  <2>2. i \in 1 .. Len(t)
    BY <1>1
  <2>3. t[Len(t)] = s[n - 1] /\ Taken(P, s[n - 1]) \in 1 .. Len(P[s[n - 1].file])
        /\ T[s[n - 1].file][Taken(P, s[n - 1])] = f
    <3>1. \A m \in 1 .. Len(s) : Taken(P, s[m]) \in 0 .. Len(P[s[m].file]) /\ P[s[m].file] \in Seq(Ways)
      BY <1>1, TakenIs
    <3>2. Taken(P, s[n - 1]) >= 1 /\ T[s[n - 1].file][Taken(P, s[n - 1])] = s[n - 1 + 1].file
      BY <1>1, <1>3 DEF FramesAre
    <3>3. n - 1 + 1 = n
      BY <1>1
    <3>4. QED BY <1>1, <1>3, <3>1, <3>2, <3>3
  <2>4. ~Tame(P, T, E, f)
    BY <1>2, <2>1, <2>2, <2>3, CircleIsWild
  <2>5. QED BY <1>6, <2>4
<1>8. emit \in Seq(LocalFiles)
  BY DEF CompileInv
<1>9. /\ out \in Seq(LocalFiles) /\ Len(out) = k + 1 /\ k \in Nat /\ out[k + 1] = f
      /\ \A m \in 1 .. k : out[m] = emit[m]
  BY <1>4, <1>8
<1> HIDE DEF out, k
<1>10. \A m \in 1 .. k + 1 : m = k + 1 \/ m \in 1 .. k
  BY <1>9
<1>11. Out(out) = Out(emit) \cup {f}
  <2>1. \A m \in 1 .. k : m \in 1 .. k + 1
    BY <1>9
  <2>2. k + 1 \in 1 .. k + 1
    BY <1>9
  <2>3. QED BY <1>9, <1>10, <2>1, <2>2 DEF Out, k
<1>12. HasPath(P, T, t, coll, comp, hash, out)
  BY <1>5, <1>11 DEF CompileInv, HasPath
<1>13. ~err => CompiledIsOut(P, T, t, comp, out)
  BY <1>5, <1>11 DEF CompileInv, CompiledIsOut
<1>14. ASSUME OnePath(P, T) PROVE OutOnce(t, out)
  <2>1. OutOnce(s, emit)
    BY <1>14 DEF CompileInv
  <2>2. f \notin Out(emit)
    BY <1>6, <2>1 DEF OutOnce
  <2>3. \A m \in 1 .. k : emit[m] # f
    BY <2>2 DEF Out, k
  <2>4. ASSUME NEW a \in 1 .. k + 1, NEW b \in 1 .. k + 1, out[a] = out[b] PROVE a = b
    <3>1. CASE a \in 1 .. k /\ b \in 1 .. k
      BY <1>9, <2>1, <2>4, <3>1 DEF OutOnce, k
    <3>2. CASE a = k + 1 /\ b \in 1 .. k
      BY <1>9, <2>3, <2>4, <3>2
    <3>3. CASE b = k + 1 /\ a \in 1 .. k
      BY <1>9, <2>3, <2>4, <3>3
    <3>4. QED BY <1>10, <3>1, <3>2, <3>3
  <2>5. Above(t) \cap Out(out) = {}
    BY <1>5, <1>7, <1>11, <2>1 DEF OutOnce
  <2>6. QED BY <1>9, <2>4, <2>5 DEF OutOnce
<1>15. ASSUME ~err, OnePath(P, T) PROVE TakenIsOut(P, T, t, out)
  <2>1. SUFFICES ASSUME NEW i \in 1 .. n - 1, NEW j \in 1 .. Taken(P, s[i])
                 PROVE  T[s[i].file][j] \in Out(out) \/ (i < n - 1 /\ j = Taken(P, s[i]))
    BY <1>1 DEF TakenIsOut
  <2>2. T[s[i].file][j] \in Out(emit) \/ (i < n /\ j = Taken(P, s[i]))
    <3>1. i \in 1 .. n
      BY <1>1
    <3>2. QED BY <1>15, <3>1 DEF CompileInv, TakenIsOut
  <2>3. CASE i < n - 1
    BY <1>11, <2>2, <2>3
  <2>4. CASE i + 1 = n
    <3>1. T[s[i].file][Taken(P, s[i])] = f
      BY <1>1, <2>4 DEF FramesAre
    <3>2. QED BY <1>11, <2>2, <3>1
  <2>5. QED BY <1>1, <2>3, <2>4
<1>16. ASSUME ~err, OnePath(P, T) PROVE OutInOrder(P, T, out)
  <2>1. OutInOrder(P, T, emit) /\ TakenIsOut(P, T, s, emit)
    BY <1>16 DEF CompileInv
  <2>2. \A j \in 1 .. Len(P[f]) : T[f][j] \in Out(emit)
    BY <1>1, <1>3, <1>4, <2>1 DEF TakenIsOut
  <2>3. ASSUME NEW j \in 1 .. Len(P[f]) PROVE \E m \in 1 .. k : out[m] = T[f][j]
    BY <1>9, <2>2 DEF Out, k
  <2>4. ASSUME NEW a \in 1 .. k, NEW j \in 1 .. Len(P[emit[a]])
        PROVE  \E m \in 1 .. a - 1 : out[m] = T[emit[a]][j]
    <3>1. PICK m \in 1 .. a - 1 : emit[m] = T[emit[a]][j]
      BY <2>1 DEF OutInOrder, k
    <3>2. m \in 1 .. k
      BY <1>9
    <3>3. QED BY <1>9, <3>1, <3>2
  <2>5. ASSUME NEW a \in 1 .. k + 1, NEW j \in 1 .. Len(P[out[a]])
        PROVE  \E m \in 1 .. a - 1 : out[m] = T[out[a]][j]
    <3>1. CASE a \in 1 .. k
      BY <1>9, <2>4, <3>1
    <3>2. CASE a = k + 1
      <4>1. a - 1 = k
        BY <1>9, <3>2
      <4>2. QED BY <1>9, <2>3, <3>2, <4>1
    <3>3. QED BY <1>10, <3>1, <3>2
  <2>6. QED BY <1>9, <2>5 DEF OutInOrder
<1>17. CompileInv(P, T, E, t, coll, comp, hash, out, err)
  BY <1>2, <1>9, <1>12, <1>13, <1>14, <1>15, <1>16 DEF CompileInv
<1>18. QED BY <1>17 DEF out

(* The end: all that was collected is out, and the program needs no more.   *)
LEMMA CompileEnds ==
  ASSUME NEW P, NEW T, NEW E, IsGraph(P, T, E), NEW s, NEW coll, NEW comp, NEW hash, NEW emit,
         CompileInv(P, T, E, s, coll, comp, hash, emit, FALSE), OnePath(P, T),
         s[Len(s)].rest = <<>>, Len(s) = 1
  PROVE  /\ coll = Out(emit) /\ coll \subseteq hash
         /\ \A j \in 1 .. Len(P[Main]) : T[Main][j] \in Out(emit)
<1>1. FramesAre(P, T, E, s) /\ s[1].file = Main /\ 1 \in 1 .. Len(s)
  BY DEF CompileInv, FramesAre
<1>2. Taken(P, s[1]) = Len(P[Main])
  <2>1. \A i \in 1 .. Len(s) : s[i].rest = <<>> => Taken(P, s[i]) = Len(P[s[i].file])
    BY <1>1, TakenIs
  <2>2. s[1].rest = <<>>
    OBVIOUS
  <2>3. QED BY <1>1, <2>1, <2>2
<1>3. \A j \in 1 .. Len(P[Main]) : T[Main][j] \in Out(emit)
  BY <1>1, <1>2 DEF CompileInv, TakenIsOut
<1>4. ASSUME NEW g \in Out(emit) PROVE Good(P, T, E, g) \subseteq Out(emit)
  <2>1. PICK n \in 1 .. Len(emit) : g = emit[n]
    BY DEF Out
  <2>2. \A j \in 1 .. Len(P[g]) : \E m \in 1 .. n - 1 : emit[m] = T[g][j]
    BY <2>1 DEF CompileInv, OutInOrder
  <2>3. \A m \in 1 .. n - 1 : m \in 1 .. Len(emit)
    BY DEF CompileInv
  <2>4. QED BY <2>2, <2>3 DEF Good, Out
<1>5. Out(emit) \in SUBSET LocalFiles /\ Good(P, T, E, Main) \subseteq Out(emit)
  BY <1>3 DEF CompileInv, Out, Good
<1>6. coll \subseteq Out(emit)
  BY <1>4, <1>5 DEF CompileInv, Walked, Least
<1>7. Out(emit) \subseteq coll /\ Out(emit) \subseteq hash
  BY DEF CompileInv, HasPath
<1>8. QED BY <1>3, <1>6, <1>7

-----------------------------------------------------------------------------
(* The steps.                                                               *)
LEMMA ProgramKept ==
  ASSUME UNCHANGED I!program
  PROVE  /\ ImportPaths' = ImportPaths /\ ImportFiles' = ImportFiles /\ WithErrors' = WithErrors
         /\ I!Circular' = I!Circular /\ ProgramOK' = ProgramOK
<1>1. cwd' = cwd /\ given' = given /\ imports' = imports
  BY DEF I!program
<1>2. ImportPaths' = ImportPaths
  BY <1>1 DEF ImportPaths, I!Paths, I!LocalPath, I!ModulePath, I!FilePath
<1>3. ImportFiles' = ImportFiles
  BY <1>1 DEF ImportFiles, I!Paths, I!LocalPath, I!ModulePath, I!FilePath, I!FileAt
<1>4. WithErrors' = WithErrors
  BY <1>1 DEF WithErrors, I!HasErrors, I!Paths, I!LocalPath, I!ModulePath, I!FilePath
<1>5. I!Circular' = I!Circular
  BY <1>1 DEF I!Circular, I!Imported, I!Paths, I!LocalPath, I!ModulePath, I!FilePath, I!FileAt
<1>6. ProgramOK' = ProgramOK
  BY <1>1 DEF ProgramOK
<1>7. QED BY <1>2, <1>3, <1>4, <1>5, <1>6

\* The import that the last call takes next.
LEMMA NextImport ==
  ASSUME ProgramOK, IsGraph(ImportPaths, ImportFiles, WithErrors),
         FramesAre(ImportPaths, ImportFiles, WithErrors, calls), I!Top.rest # <<>>
  PROVE  LET top == calls[Len(calls)]
             k == Taken(ImportPaths, top) + 1
         IN /\ top.rest # <<>> /\ Len(calls) >= 1
            /\ I!Path = ImportPaths[top.file][k]
            /\ I!File = ImportFiles[top.file][k]
            /\ I!File \in LocalFiles
            /\ I!HasErrors(I!File) <=> I!File \in WithErrors
            /\ Advanced(calls, I!Advance)
            /\ Entered(ImportPaths, calls, I!Enter(I!File), I!File)
<1> DEFINE n == Len(calls)
           top == calls[n]
           k == Taken(ImportPaths, top) + 1
<1>1. calls \in Seq(Frames) /\ n >= 1 /\ n \in Nat /\ I!Top = top
  BY DEF FramesAre, I!Top, I!Last
<1>2. top.rest # <<>>
  BY <1>1
<1>3. Advanced(calls, I!Advance)
  BY <1>1, <1>2, AdvanceIs
<1>4. /\ Taken(ImportPaths, I!Advance[n]) = k
      /\ k \in 1 .. Len(ImportPaths[top.file])
      /\ Head(top.rest) = ImportPaths[top.file][Taken(ImportPaths, I!Advance[n])]
  BY <1>2, <1>3, AdvancedFrames
<1>5. top.file \in LocalFiles \ WithErrors
  BY <1>1, TakenIs
<1> HIDE DEF k
<1>6. I!Path = ImportPaths[top.file][k]
  BY <1>1, <1>4 DEF I!Path
<1>7. I!File = ImportFiles[top.file][k]
  BY <1>1, <1>4, <1>5, <1>6 DEF I!File, ImportFiles, ImportPaths
<1>8. I!File \in LocalFiles
  BY <1>4, <1>5, <1>7 DEF IsGraph
<1>9. Entered(ImportPaths, calls, I!Enter(I!File), I!File)
  <2>1. ImportPaths[I!File] \in Seq(Ways)
    BY <1>8 DEF IsGraph
  <2>2. QED BY <1>1, <1>2, <1>8, <2>1, EnterIs
<1>10. I!HasErrors(I!File) <=> I!File \in WithErrors
  BY <1>8 DEF WithErrors
<1>11. QED BY <1>1, <1>2, <1>3, <1>6, <1>7, <1>8, <1>9, <1>10 DEF k

LEMMA CircularIs ==
  ASSUME \E C \in SUBSET LocalFiles :
           C # {} /\ \A f \in C : \E j \in 1 .. Len(ImportPaths[f]) : ImportFiles[f][j] \in C,
         ImportPaths \in [LocalFiles -> Seq(Ways)]
  PROVE  I!Circular
<1>1. PICK C \in SUBSET LocalFiles :
        C # {} /\ \A f \in C : \E j \in 1 .. Len(ImportPaths[f]) : ImportFiles[f][j] \in C
  OBVIOUS
<1>2. ASSUME NEW f \in C PROVE I!Imported(f) \cap C # {}
  <2>1. PICK j \in 1 .. Len(ImportPaths[f]) : ImportFiles[f][j] \in C
    BY <1>1
  <2>2. f \in LocalFiles /\ ImportPaths[f] = I!Paths(f) /\ I!Paths(f) \in Seq(Ways)
    BY DEF ImportPaths
  <2>3. j \in DOMAIN I!Paths(f) /\ ImportFiles[f][j] = I!FileAt(I!Paths(f)[j], DirOf[f])
    BY <2>1, <2>2 DEF ImportFiles
  <2>4. QED BY <2>1, <2>3 DEF I!Imported
<1>3. QED BY <1>1, <1>2 DEF I!Circular

LEMMA CollectStarts ==
  ASSUME NEW P, NEW T, NEW E, IsGraph(P, T, E)
  PROVE  CollectInv(P, T, E, <<[file |-> Main, rest |-> P[Main]]>>, {})
<1> DEFINE c == [file |-> Main, rest |-> P[Main]]
           s == <<c>>
<1>1. Main \in LocalFiles \ E /\ P[Main] \in Seq(Ways) /\ c \in Frames /\ c.file = Main /\ c.rest = P[Main]
  BY ImportConstants DEF IsGraph, Frames
<1> HIDE DEF c
<1>2. s \in Seq(Frames) /\ Len(s) = 1 /\ s[1] = c
  BY <1>1
<1>3. Len(P[Main]) \in Nat /\ Len(P[Main]) - Len(P[Main]) = 0
  BY <1>1
<1> HIDE DEF s
<1>4. Taken(P, s[1]) = 0
  BY <1>1, <1>2, <1>3 DEF Taken
<1>5. FrameOK(P, E, s[1])
  <2>1. \A j \in 1 .. Len(P[Main]) : 0 + j = j
    OBVIOUS
  <2>2. QED BY <1>1, <1>2, <1>3, <1>4, <2>1 DEF FrameOK
<1>6. \A i \in 1 .. Len(s) : i = 1
  BY <1>2
<1>7. FramesAre(P, T, E, s)
  BY <1>1, <1>2, <1>5, <1>6 DEF FramesAre
<1>8. Seen(P, T, E, s, {})
  BY <1>4, <1>6 DEF Seen
<1>9. \A i \in 2 .. Len(s) : FALSE
  BY <1>2
<1>10. Finished(P, T, E, s, {}) /\ OpenIsCollected(s, {}) /\ Least(P, T, E, {})
  BY <1>9 DEF Finished, OpenIsCollected, Least
<1>11. CollectInv(P, T, E, s, {})
  BY <1>7, <1>8, <1>10 DEF CollectInv
<1>12. QED BY <1>11 DEF s, c

LEMMA MainCall ==
  I!Call(Main) = [file |-> Main, rest |-> ImportPaths[Main]]
BY ImportConstants DEF I!Call, ImportPaths

LEMMA BoundedIsSeq ==
  ASSUME NEW S, NEW n \in Nat, NEW s \in I!BoundedSeq(S, n)
  PROVE  s \in Seq(S)
<1>1. PICK m \in 0 .. n : s \in [1 .. m -> S]
  BY DEF I!BoundedSeq, I!SeqOf
<1>2. QED BY <1>1

LEMMA ImportsInit ==
  ASSUME I!Init
  PROVE  ImportsInv
<1>1. ProgramOK
  <2>1. cwd \in Dirs
    BY DEF I!Init
  <2>2. PICK m \in I!BoundedSeq(I!Import, MaxMain),
             g \in [LocalFiles \ {Main} -> I!BoundedSeq(I!Import, MaxImports)] :
          imports = [f \in LocalFiles |-> IF f = Main THEN m ELSE g[f]]
    BY DEF I!Init
  <2>3. m \in Seq(I!Import)
    BY ImportConstants, BoundedIsSeq
  <2>4. \A f \in LocalFiles \ {Main} : g[f] \in Seq(I!Import)
    BY ImportConstants, BoundedIsSeq
  <2>5. QED BY <2>1, <2>2, <2>3, <2>4 DEF ProgramOK
<1>2. IsGraph(ImportPaths, ImportFiles, WithErrors)
  BY <1>1, GraphIs DEF I!Init
<1>3. /\ phase = "collect" /\ calls = <<I!Call(Main)>> /\ collected = {} /\ compiled = {} /\ hashes = {}
      /\ emitted = <<>> /\ errors = FALSE
  BY DEF I!Init
<1>4. CollectInv(ImportPaths, ImportFiles, WithErrors, calls, collected)
  BY <1>2, <1>3, CollectStarts, MainCall
<1>5. QED BY <1>1, <1>2, <1>3, <1>4 DEF ImportsInv

LEMMA CollectStep ==
  ASSUME ImportsInv, I!Collect
  PROVE  ImportsInv'
<1>1. PICK P, T, E : P = ImportPaths /\ T = ImportFiles /\ E = WithErrors
  OBVIOUS
<1>2. /\ ProgramOK' /\ ImportPaths' = P /\ ImportFiles' = T /\ WithErrors' = E /\ I!Circular' = I!Circular
  BY <1>1, ProgramKept DEF ImportsInv, I!Collect
<1>3. IsGraph(P, T, E) /\ CollectInv(P, T, E, calls, collected) /\ FramesAre(P, T, E, calls)
  BY <1>1 DEF ImportsInv, I!Collect, CollectInv
<1>4. LET top == calls[Len(calls)]
      IN /\ top.rest # <<>> /\ Len(calls) >= 1
         /\ I!File = T[top.file][Taken(P, top) + 1]
         /\ I!File \in LocalFiles
         /\ I!HasErrors(I!File) <=> I!File \in E
         /\ Advanced(calls, I!Advance)
         /\ Entered(P, calls, I!Enter(I!File), I!File)
  BY <1>1, <1>3, NextImport DEF ImportsInv, I!Collect
<1>5. compiled' = {} /\ hashes' = {} /\ emitted' = <<>> /\ errors' = FALSE
  BY DEF ImportsInv, I!Collect
<1>6. CASE I!HasErrors(I!File)
  <2>1. calls' = I!Advance /\ collected' = collected /\ phase' = "collect"
    BY <1>6 DEF I!Collect
  <2>2. CollectInv(P, T, E, calls', collected')
    BY <1>3, <1>4, <1>6, <2>1, CollectSkips
  <2>3. QED BY <1>2, <1>3, <1>5, <2>1, <2>2 DEF ImportsInv
<1>7. CASE ~I!HasErrors(I!File)
  <2>1. calls' = I!Enter(I!File) /\ collected' = collected \cup {I!File}
        /\ phase' = (IF Len(calls) < MaxStack THEN phase ELSE "crashed") /\ phase = "collect"
    BY <1>7 DEF I!Collect
  <2>2. CollectInv(P, T, E, calls', collected')
    BY <1>3, <1>4, <1>7, <2>1, CollectEnters
  <2>3. CASE Len(calls) < MaxStack
    BY <1>2, <1>3, <1>5, <2>1, <2>2, <2>3 DEF ImportsInv
  <2>4. CASE ~(Len(calls) < MaxStack)
    <3>1. Len(calls') > Cardinality(LocalFiles)
      <4>1. Len(calls') = Len(calls) + 1 /\ Len(calls) \in Nat
        BY <1>3, <1>4, <2>1 DEF Entered, FramesAre
      <4>2. Cardinality(LocalFiles) \in Nat
        BY ImportConstants, FS_CardinalityType
      <4>3. QED BY <2>4, <4>1, <4>2, ImportConstants
    <3>2. \E C \in SUBSET LocalFiles : C # {} /\ \A f \in C : \E j \in 1 .. Len(P[f]) : T[f][j] \in C
      BY <1>3, <2>2, <3>1, TooDeep DEF CollectInv
    <3>3. I!Circular
      BY <1>1, <1>3, <3>2, CircularIs DEF IsGraph
    <3>4. QED BY <1>2, <1>3, <1>5, <2>1, <2>4, <3>3 DEF ImportsInv
  <2>5. QED BY <2>3, <2>4
<1>8. QED BY <1>6, <1>7

LEMMA CollectedStep ==
  ASSUME ImportsInv, I!Collected
  PROVE  ImportsInv'
<1>1. PICK P, T, E : P = ImportPaths /\ T = ImportFiles /\ E = WithErrors
  OBVIOUS
<1>2. /\ ProgramOK' /\ ImportPaths' = P /\ ImportFiles' = T /\ WithErrors' = E
  BY <1>1, ProgramKept DEF ImportsInv, I!Collected
<1>3. IsGraph(P, T, E) /\ CollectInv(P, T, E, calls, collected) /\ FramesAre(P, T, E, calls)
  BY <1>1 DEF ImportsInv, I!Collected, CollectInv
<1>4. /\ calls[Len(calls)].rest = <<>> /\ calls \in Seq(Frames) /\ Len(calls) >= 1 /\ Len(calls) \in Nat
  BY <1>3 DEF FramesAre, I!Collected, I!Top, I!Last
<1>5. collected' = collected /\ compiled' = {} /\ hashes' = {} /\ emitted' = <<>> /\ errors' = FALSE
      /\ phase = "collect"
  BY DEF ImportsInv, I!Collected
<1>6. CASE Len(calls) = 1
  <2>1. calls' = <<[file |-> Main, rest |-> P[Main]]>> /\ phase' = "compile"
    BY <1>1, <1>6, MainCall DEF I!Collected
  <2>2. CompileInv(P, T, E, calls', collected', {}, {}, <<>>, FALSE)
    BY <1>3, <1>4, <1>5, <1>6, <2>1, CollectEnds, CompileStarts
  <2>3. QED BY <1>2, <1>3, <1>5, <2>1, <2>2 DEF ImportsInv
<1>7. CASE Len(calls) # 1
  <2>1. calls' = I!Front(calls) /\ phase' = "collect"
    BY <1>5, <1>7 DEF I!Collected
  <2>2. Left(calls, calls')
    BY <1>4, <2>1, FrontIs
  <2>5. calls[Len(calls)].rest = <<>>
    BY <1>4
  <2>6. Len(calls) > 1
    <3>1. PICK n : n = Len(calls)
      OBVIOUS
    <3>2. n \in Nat /\ n >= 1 /\ n # 1
      BY <1>4, <1>7, <3>1
    <3>3. QED BY <3>1, <3>2
  <2>3. CollectInv(P, T, E, calls', collected')
    BY <1>3, <1>5, <2>2, <2>5, <2>6, CollectLeaves
  <2>4. QED BY <1>2, <1>3, <1>5, <2>1, <2>3 DEF ImportsInv
<1>8. QED BY <1>6, <1>7

LEMMA CompileStep ==
  ASSUME ImportsInv, I!Compile \/ I!CompiledBefore
  PROVE  ImportsInv'
<1>1. PICK P, T, E : P = ImportPaths /\ T = ImportFiles /\ E = WithErrors
  OBVIOUS
<1>2. /\ ProgramOK' /\ ImportPaths' = P /\ ImportFiles' = T /\ WithErrors' = E
  BY <1>1, ProgramKept DEF ImportsInv, I!Compile, I!CompiledBefore
<1>3. /\ IsGraph(P, T, E) /\ FramesAre(P, T, E, calls)
      /\ CompileInv(P, T, E, calls, collected, compiled, hashes, emitted, errors)
  BY <1>1 DEF ImportsInv, I!Compile, I!CompiledBefore, CompileInv
<1>4. LET top == calls[Len(calls)]
          k == Taken(P, top) + 1
      IN /\ top.rest # <<>> /\ Len(calls) >= 1
         /\ I!Path = P[top.file][k] /\ I!File = T[top.file][k]
         /\ I!File \in LocalFiles
         /\ I!HasErrors(I!File) <=> I!File \in E
         /\ Advanced(calls, I!Advance)
         /\ Entered(P, calls, I!Enter(I!File), I!File)
  BY <1>1, <1>3, NextImport DEF ImportsInv, I!Compile, I!CompiledBefore
<1>5. phase' = "compile" /\ emitted' = emitted /\ collected' = collected /\ errors \in BOOLEAN
  BY DEF ImportsInv, I!Compile, I!CompiledBefore
<1>6. CASE I!Compile /\ I!HasErrors(I!File)
  <2>1. /\ calls' = I!Advance /\ compiled' = compiled \cup {I!Path} /\ hashes' = hashes \cup {I!File}
        /\ errors' = TRUE
    BY <1>5, <1>6 DEF I!Compile
  <2>2. CompileInv(P, T, E, calls', collected', compiled', hashes', emitted', errors')
    BY <1>3, <1>4, <1>5, <2>1, CompileSkips
  <2>3. QED BY <1>2, <1>3, <1>5, <2>1, <2>2 DEF ImportsInv
<1>7. CASE I!Compile /\ ~I!HasErrors(I!File)
  <2>1. /\ calls' = I!Enter(I!File) /\ compiled' = compiled \cup {I!Path} /\ hashes' = hashes \cup {I!File}
        /\ errors' = errors /\ I!Path \notin compiled
    BY <1>5, <1>7 DEF I!Compile, I!IsCompiled
  <2>2. CompileInv(P, T, E, calls', collected', compiled', hashes', emitted', errors')
    BY <1>3, <1>4, <1>5, <1>7, <2>1, CompileEnters
  <2>3. QED BY <1>2, <1>3, <1>5, <2>1, <2>2 DEF ImportsInv
<1>8. CASE I!CompiledBefore
  <2>1. /\ calls' = I!Advance /\ compiled' = compiled /\ hashes' = hashes
        /\ errors' = errors /\ I!Path \in compiled
    BY <1>5, <1>8 DEF I!CompiledBefore, I!IsCompiled
  <2>2. CompileInv(P, T, E, calls', collected', compiled', hashes', emitted', errors')
    BY <1>3, <1>4, <1>5, <2>1, CompilePasses
  <2>3. QED BY <1>2, <1>3, <1>5, <2>1, <2>2 DEF ImportsInv
<1>9. QED BY <1>6, <1>7, <1>8

LEMMA EmitStep ==
  ASSUME ImportsInv, I!Emit \/ I!Finish
  PROVE  ImportsInv'
<1>1. PICK P, T, E : P = ImportPaths /\ T = ImportFiles /\ E = WithErrors
  OBVIOUS
<1>2. /\ ProgramOK' /\ ImportPaths' = P /\ ImportFiles' = T /\ WithErrors' = E
  BY <1>1, ProgramKept DEF ImportsInv, I!Emit, I!Finish
<1>3. /\ IsGraph(P, T, E) /\ FramesAre(P, T, E, calls)
      /\ CompileInv(P, T, E, calls, collected, compiled, hashes, emitted, errors)
  BY <1>1 DEF ImportsInv, I!Emit, I!Finish, CompileInv
<1>4. /\ calls[Len(calls)].rest = <<>> /\ calls \in Seq(Frames) /\ Len(calls) >= 1 /\ Len(calls) \in Nat
      /\ I!Top = calls[Len(calls)]
  BY <1>3 DEF FramesAre, I!Emit, I!Finish, I!Top, I!Last
<1>5. /\ collected' = collected /\ compiled' = compiled /\ hashes' = hashes /\ errors' = errors
      /\ errors \in BOOLEAN
  BY DEF ImportsInv, I!Emit, I!Finish
<1>6. CASE I!Emit
  <2>1. /\ calls' = I!Front(calls) /\ phase' = "compile" /\ Len(calls) > 1
        /\ emitted' = Append(emitted, calls[Len(calls)].file)
    BY <1>4, <1>6 DEF I!Emit
  <2>2. Left(calls, calls')
    BY <1>4, <2>1, FrontIs
  <2>3. CompileInv(P, T, E, calls', collected', compiled', hashes', emitted', errors')
    BY <1>3, <1>4, <1>5, <2>1, <2>2, CompileEmits
  <2>4. QED BY <1>2, <1>3, <1>5, <2>1, <2>3 DEF ImportsInv
<1>7. CASE I!Finish
  <2>1. calls' = calls /\ phase' = "done" /\ emitted' = emitted /\ Len(calls) = 1
    BY <1>7 DEF I!Finish
  <2>2. Len(calls') = 1 /\ calls'[1].rest = <<>>
    BY <1>4, <2>1
  <2>3. QED BY <1>2, <1>3, <1>5, <2>1, <2>2 DEF ImportsInv
<1>8. QED BY <1>6, <1>7

LEMMA ImportsStep ==
  ASSUME ImportsInv, [I!Next]_(I!vars)
  PROVE  ImportsInv'
<1>1. CASE I!Next
  BY <1>1, CollectStep, CollectedStep, CompileStep, EmitStep DEF I!Next
<1>2. CASE UNCHANGED I!vars
  <2>1. PICK P, T, E : P = ImportPaths /\ T = ImportFiles /\ E = WithErrors
    OBVIOUS
  <2>2. /\ ProgramOK' /\ ImportPaths' = P /\ ImportFiles' = T /\ WithErrors' = E /\ I!Circular' = I!Circular
    BY <1>2, <2>1, ProgramKept DEF ImportsInv, I!vars
  <2>3. /\ phase' = phase /\ calls' = calls /\ collected' = collected /\ compiled' = compiled
        /\ hashes' = hashes /\ emitted' = emitted /\ errors' = errors
    BY <1>2 DEF I!vars
  <2>4. QED BY <2>1, <2>2, <2>3 DEF ImportsInv
<1>3. QED BY <1>1, <1>2

-----------------------------------------------------------------------------
(* A path means one file wherever it is, and a file has one path.           *)
LEMMA PathsAreOne ==
  ASSUME I!Unambiguous, ImportPaths \in [LocalFiles -> Seq(Ways)]
  PROVE  OnePath(ImportPaths, ImportFiles)
<1>1. SUFFICES ASSUME NEW f \in LocalFiles, NEW g \in LocalFiles,
                      NEW i \in 1 .. Len(ImportPaths[f]), NEW j \in 1 .. Len(ImportPaths[g])
               PROVE  ImportPaths[f][i] = ImportPaths[g][j] <=> ImportFiles[f][i] = ImportFiles[g][j]
  BY DEF OnePath
<1>2. /\ ImportPaths[f] = I!Paths(f) /\ ImportPaths[g] = I!Paths(g)
      /\ I!Paths(f) \in Seq(Ways) /\ I!Paths(g) \in Seq(Ways)
  BY DEF ImportPaths
<1>3. /\ i \in DOMAIN I!Paths(f) /\ ImportFiles[f][i] = I!FileAt(I!Paths(f)[i], DirOf[f])
      /\ j \in DOMAIN I!Paths(g) /\ ImportFiles[g][j] = I!FileAt(I!Paths(g)[j], DirOf[g])
  BY <1>1, <1>2 DEF ImportFiles
<1> DEFINE u == <<f, i>>
           v == <<g, j>>
<1>4. u \in I!Uses /\ v \in I!Uses
  BY <1>3 DEF I!Uses
<1>5. I!PathOf(u) = I!PathOf(v) <=> I!FileOf(u) = I!FileOf(v)
  BY <1>4 DEF I!Unambiguous
<1>6. QED BY <1>2, <1>3, <1>5 DEF I!PathOf, I!FileOf

LEMMA InOrder ==
  ASSUME ImportsInv
  PROVE  ImportsInOrder
<1>1. ASSUME phase = "done", ~errors, I!Unambiguous
      PROVE  /\ collected = I!ToSet(emitted) /\ I!IsInjective(emitted)
             /\ collected \subseteq hashes
             /\ \A n \in DOMAIN I!Output :
                  I!Imported(I!Output[n]) \subseteq I!ToSet(SubSeq(I!Output, 1, n - 1))
  <2>1. PICK P, T, E : P = ImportPaths /\ T = ImportFiles /\ E = WithErrors
    OBVIOUS
  <2>2. /\ IsGraph(P, T, E) /\ CompileInv(P, T, E, calls, collected, compiled, hashes, emitted, FALSE)
        /\ OnePath(P, T) /\ Len(calls) = 1 /\ calls[Len(calls)].rest = <<>>
    BY <1>1, <2>1, PathsAreOne DEF ImportsInv, IsGraph
  <2>3. /\ collected = Out(emitted) /\ collected \subseteq hashes
        /\ \A j \in 1 .. Len(P[Main]) : T[Main][j] \in Out(emitted)
    BY <2>2, CompileEnds
  <2>4. /\ emitted \in Seq(LocalFiles) /\ OutInOrder(P, T, emitted)
        /\ \A m, n \in 1 .. Len(emitted) : emitted[m] = emitted[n] => m = n
    BY <2>2 DEF CompileInv, OutOnce
  <2> DEFINE k == Len(emitted)
             out == Append(emitted, Main)
  <2>5. k \in Nat /\ DOMAIN emitted = 1 .. k
    BY <2>4
  <2>6. collected = I!ToSet(emitted) /\ I!IsInjective(emitted)
    BY <2>3, <2>4, <2>5 DEF I!ToSet, I!IsInjective, Out
  <2>7. /\ out \in Seq(LocalFiles) /\ Len(out) = k + 1 /\ DOMAIN out = 1 .. k + 1 /\ out[k + 1] = Main
        /\ \A m \in 1 .. k : out[m] = emitted[m]
    BY <2>4, ImportConstants
  <2> HIDE DEF out
  <2>8. ASSUME NEW n \in 1 .. k + 1, NEW x \in I!Imported(out[n]) PROVE \E m \in 1 .. n - 1 : out[m] = x
    <3>1. out[n] \in LocalFiles
      BY <2>7
    <3>2. PICK j \in 1 .. Len(P[out[n]]) : x = T[out[n]][j]
      <4>1. P[out[n]] = I!Paths(out[n]) /\ I!Paths(out[n]) \in Seq(Ways)
        BY <2>1, <2>2, <3>1 DEF ImportPaths, IsGraph
      <4>2. PICK j \in DOMAIN I!Paths(out[n]) : x = I!FileAt(I!Paths(out[n])[j], DirOf[out[n]])
        BY DEF I!Imported
      <4>3. j \in 1 .. Len(I!Paths(out[n]))
        BY <4>1, <4>2
      <4>4. ImportFiles[out[n]][j] = I!FileAt(I!Paths(out[n])[j], DirOf[out[n]])
        BY <3>1, <4>3 DEF ImportFiles
      <4>5. QED BY <2>1, <4>1, <4>2, <4>3, <4>4
    <3>3. CASE n \in 1 .. k
      <4>1. PICK m \in 1 .. n - 1 : emitted[m] = T[emitted[n]][j]
        BY <2>4, <2>7, <3>2, <3>3 DEF OutInOrder
      <4>2. m \in 1 .. k
        BY <2>5, <3>3
      <4>3. QED BY <2>7, <3>2, <3>3, <4>1, <4>2
    <3>4. CASE n = k + 1
      <4>1. x \in Out(emitted) /\ n - 1 = k
        BY <2>3, <2>5, <2>7, <3>2, <3>4
      <4>2. QED BY <2>7, <4>1 DEF Out
    <3>5. QED BY <2>5, <3>3, <3>4
  <2>9. ASSUME NEW n \in 1 .. k + 1
        PROVE  I!Imported(out[n]) \subseteq I!ToSet(SubSeq(out, 1, n - 1))
    <3>1. n - 1 \in 0 .. k
      BY <2>5
    <3>2. /\ Len(SubSeq(out, 1, n - 1)) = n - 1 /\ SubSeq(out, 1, n - 1) \in Seq(LocalFiles)
          /\ \A m \in 1 .. n - 1 : SubSeq(out, 1, n - 1)[m] = out[m]
      BY <2>5, <2>7, <3>1
    <3>3. \A m \in 1 .. n - 1 : out[m] \in I!ToSet(SubSeq(out, 1, n - 1))
      BY <3>2 DEF I!ToSet
    <3>4. QED BY <2>8, <3>3
  <2>10. QED BY <2>3, <2>6, <2>7, <2>9 DEF I!Output, out
<1>2. QED BY <1>1 DEF ImportsInv, ImportsInOrder, I!ImportsInOrder

(* ImportsInOrder (main.go) for any files, directories and bounds.          *)
THEOREM ImportsAreInOrder == I!Spec => []ImportsInOrder
<1>1. I!Init => ImportsInv
  BY ImportsInit
<1>2. ImportsInv /\ [I!Next]_(I!vars) => ImportsInv'
  BY ImportsStep
<1>3. ImportsInv => ImportsInOrder
  BY InOrder
<1>4. QED BY <1>1, <1>2, <1>3, PTL DEF I!Spec
=============================================================================
