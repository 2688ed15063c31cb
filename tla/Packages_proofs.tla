---------------------------- MODULE Packages_proofs ----------------------------
(***************************************************************************)
(* For every set of projects, number of versions and set of constraints:   *)
(* locks only get versions that match, and a build loads what it reports   *)
(* unless it reports an outdated lock or the tree is suspect.              *)
(* The second part is about the parser, for a text of any length over any  *)
(* kinds of tokens: attributes are taken by the declaration they are for.  *)
(***************************************************************************)
EXTENDS Packages, Parser, SequenceTheorems, TLAPS

(* Another project is between the start of a clone and its resolved.json:  *)
(* one more step of either makes the tree suspect.                         *)
Busy(p) == \E q \in Projects \ {p} : pc[q] \in {"cloning", "record"}

Fetching == {"replace", "clone", "cloning", "record", "save"}

FetchesMatch ==
  \A p \in Projects : pc[p] \in Fetching => want[p] \in Matching(p)

ResolvedPublished == resolved <= published

(* resolved.json is in the directory.                                      *)
InTree == dir = None => resolved = None

(* The directory and resolved.json agree, but for a clone under way.       *)
DirOK ==
  /\ resolved # Torn /\ dir \notin {NoGit, Added}
  /\ resolved > 0 => dir = resolved
  /\ dir = Damaged => \E p \in Projects : pc[p] = "cloning"
  /\ dir > 0 /\ resolved = None => \E p \in Projects : pc[p] = "record"

(* What a project that is at its place p may rely on.                      *)
PlaceOK(p) ==
  /\ pc[p] = "cloning" => dir = Damaged /\ cloner = p /\ resolved = None
  /\ pc[p] = "record" => dir > 0 \/ Busy(p)
  /\ pc[p] \in {"clone", "record"} /\ HasGit => dir = want[p] \/ Busy(p)
  /\ pc[p] = "save" => dir = want[p]
  /\ pc[p] = "use" => dir = want[p] \/ LockOutdated(p)
  /\ pc[p] = "keep" => want[p] = lock[p] /\ HasGit

(* A lock agrees with the tree, or it is older than the tree.              *)
LockOK(p) == lock[p] > 0 /\ HasGit => dir = lock[p] \/ p \in overtaken

Unsuspected == DirOK /\ \A p \in Projects : PlaceOK(p) /\ LockOK(p)

IInv ==
  /\ TypeOK /\ FetchesMatch /\ ResolvedPublished /\ InTree
  /\ suspect \/ Unsuspected

USE PackagesAssumption DEF None, Torn, NoGit, Damaged, Added

-----------------------------------------------------------------------------
(* Who changes the directory and leaves it unsuspected is alone, and every *)
(* lock is older than the tree.                                            *)
Alone(p) == \A q \in Projects \ {p} : pc[q] = "idle"

LEMMA AfreshAlone ==
  ASSUME NEW p \in Projects, StartsAfresh(p) \/ ChangesTree(p), ~suspect'
  PROVE  Alone(p) /\ overtaken' = Projects /\ (ChangesTree(p) => ~suspect \/ StartsAfresh(p))
  BY DEF StartsAfresh, ChangesTree, Doubtful, Meets, Alone

LEMMA HistoryTyped ==
  ASSUME NEW p \in Projects, TypeOK, StartsAfresh(p) \/ ChangesTree(p) \/ Doubtful \/ UNCHANGED history
  PROVE  overtaken' \subseteq Projects /\ suspect' \in BOOLEAN
  BY DEF TypeOK, StartsAfresh, ChangesTree, Doubtful, Meets, history

-----------------------------------------------------------------------------
(* One step of a command keeps the types.                                  *)
LEMMA StepTypeOK ==
  ASSUME TypeOK, NEW p \in Projects, Command(p) \/ Step(p) \/ ListTagsFails(p) \/ LaterFails(p)
  PROVE  TypeOK'
<1> USE DEF Goto, Wants, Ends, Wantless, cache, history
<1>1. CASE Build(p)
  BY <1>1 DEF TypeOK, Build, Idle, Reusable, HasGit
<1>2. CASE FetchAll(p) \/ Update(p)
  BY <1>2 DEF TypeOK, FetchAll, Update, Idle
<1>16. CASE AddBegins(p) \/ AddFails(p)
  BY <1>16, HistoryTyped DEF TypeOK, AddBegins, AddFails
<1>17. CASE AddEnds(p)
  BY <1>17, HistoryTyped DEF TypeOK, AddEnds, Versions
<1>18. CASE Discard(p) \/ Discarded(p)
  BY <1>18, HistoryTyped DEF TypeOK, Discard, Discarded, RemoveDir
<1>3. CASE Remove(p)
  BY <1>3, HistoryTyped DEF TypeOK, Remove, RemoveDir
<1>4. CASE FetchCached(p)
  BY <1>4 DEF TypeOK, FetchCached, Satisfied
<1>5. CASE ListTags(p)
  BY <1>5 DEF TypeOK, ListTags, Matching, Versions
<1>6. CASE Replace(p)
  BY <1>6, HistoryTyped DEF TypeOK, Replace, RemoveDir
<1>7. CASE CloneSkipped(p)
  BY <1>7 DEF TypeOK, CloneSkipped
<1>8. CASE CloneBegins(p)
  BY <1>8, HistoryTyped DEF TypeOK, CloneBegins
<1>9. CASE CloneEnds(p)
  BY <1>9, HistoryTyped DEF TypeOK, CloneEnds
<1>10. CASE CloneFails(p)
  BY <1>10, HistoryTyped DEF TypeOK, CloneFails, CleanUp, RemoveDir
<1>11. CASE Record(p)
  BY <1>11, HistoryTyped DEF TypeOK, Record
<1>12. CASE Save(p)
  <2>1. overtaken' \subseteq Projects /\ suspect' \in BOOLEAN
    BY <1>12 DEF TypeOK, Save
  <2>2. lock' \in [Projects -> Versions \union {None, Torn}]
    BY <1>12 DEF TypeOK, Save
  <2>3. CASE building[p]
    BY <1>12, <2>1, <2>2, <2>3 DEF TypeOK, Save
  <2>4. CASE ~building[p]
    BY <1>12, <2>1, <2>2, <2>4, ZenonT(30) DEF TypeOK, Save
  <2>5. QED BY <2>3, <2>4
<1>13. CASE Keep(p)
  BY <1>13, HistoryTyped DEF TypeOK, Keep
<1>14. CASE Use(p) \/ ListTagsFails(p) \/ LaterFails(p)
  BY <1>14 DEF TypeOK, Use, ListTagsFails, LaterFails
<1>15. QED
  BY <1>1, <1>2, <1>3, <1>4, <1>5, <1>6, <1>7, <1>8, <1>9, <1>10, <1>11, <1>12, <1>13, <1>14,
     <1>16, <1>17, <1>18
  DEF Command, Step

LEMMA InterruptTypeOK ==
  ASSUME TypeOK, NEW p \in Projects, Interrupt(p)
  PROVE  TypeOK'
<1>1. dir' \in Versions \union {None, NoGit, Damaged, Added} /\ resolved' \in Versions \union {None, Torn}
  BY DEF TypeOK, Interrupt, cache
<1>2. lock' \in [Projects -> Versions \union {None, Torn}]
  BY DEF TypeOK, Interrupt
<1>3. overtaken' \subseteq Projects /\ suspect' \in BOOLEAN
  BY DEF TypeOK, Interrupt, Doubtful, history
<1>4. QED
  BY <1>1, <1>2, <1>3 DEF TypeOK, Interrupt, Goto, Wants, Ends, Wantless

LEMMA NextTypeOK == ASSUME TypeOK, [Next]_vars PROVE TypeOK'
<1>1. CASE \E p \in Projects : Command(p) \/ Step(p) \/ ListTagsFails(p) \/ LaterFails(p)
  BY <1>1, StepTypeOK
<1>2. CASE \E p \in Projects : Interrupt(p)
  BY <1>2, InterruptTypeOK
<1>3. CASE \E p \in Projects : EditConstraint(p) \/ DeleteLock(p)
  BY <1>3 DEF TypeOK, EditConstraint, DeleteLock, cache, history
<1>4. CASE Publish \/ UNCHANGED vars
  BY <1>4 DEF TypeOK, Publish, vars, cache, history, Versions
<1>5. QED BY <1>1, <1>2, <1>3, <1>4 DEF Next

-----------------------------------------------------------------------------
(* What is fetched is in the registry and within the constraint.           *)
LEMMA NextMatch ==
  ASSUME TypeOK, FetchesMatch, ResolvedPublished, [Next]_vars
  PROVE  FetchesMatch' /\ ResolvedPublished'
<1> USE DEF FetchesMatch, ResolvedPublished, Fetching, Matching, TypeOK, Versions, Goto, Wants, Ends,
            cache, history
<1>1. ASSUME NEW p \in Projects, Step(p) \/ Command(p) \/ ListTagsFails(p) \/ LaterFails(p)
      PROVE  ResolvedPublished'
  <2>1. CASE Record(p)
    BY <2>1 DEF Record
  <2>2. CASE Remove(p) \/ Replace(p) \/ CloneFails(p) \/ Discarded(p) \/ AddFails(p)
    BY <2>2 DEF Remove, Replace, CloneFails, CleanUp, Discarded, AddFails, RemoveDir
  <2>3. CASE \/ Command(p) \/ FetchCached(p) \/ ListTags(p) \/ ListTagsFails(p) \/ CloneSkipped(p)
             \/ CloneBegins(p) \/ CloneEnds(p) \/ Save(p) \/ Keep(p) \/ Use(p)
             \/ LaterFails(p) \/ AddEnds(p)
    BY <2>3 DEF Command, Build, FetchAll, Update, AddBegins, AddEnds, Discard, LaterFails, FetchCached, ListTags, ListTagsFails, CloneSkipped,
       CloneBegins, CloneEnds, Save, Keep, Use
  <2>4. QED BY <1>1, <2>1, <2>2, <2>3 DEF Step
<1>2. ASSUME NEW p \in Projects, Command(p) \/ ListTagsFails(p) \/ LaterFails(p) PROVE FetchesMatch'
  BY <1>2 DEF Command, Build, FetchAll, Update, AddBegins, Discard, Idle, ListTagsFails, LaterFails
<1>3. ASSUME NEW p \in Projects, Step(p) PROVE FetchesMatch'
  <2>1. CASE FetchCached(p)
    BY <2>1 DEF FetchCached, Satisfied
  <2>2. CASE ListTags(p)
    BY <2>2 DEF ListTags
  <2>3. CASE Remove(p) \/ Replace(p) \/ CloneSkipped(p) \/ CloneBegins(p) \/ CloneEnds(p)
    BY <2>3 DEF Remove, Replace, CloneSkipped, CloneBegins, CloneEnds
  <2>4. CASE CloneFails(p) \/ Record(p) \/ Save(p) \/ Keep(p) \/ Use(p)
    BY <2>4 DEF CloneFails, Record, Save, Keep, Use
  <2>6. CASE AddEnds(p) \/ AddFails(p) \/ Discarded(p)
    BY <2>6 DEF AddEnds, AddFails, Discarded
  <2>5. QED BY <1>3, <2>1, <2>2, <2>3, <2>4, <2>6 DEF Step
<1>4. ASSUME NEW p \in Projects, Interrupt(p) PROVE FetchesMatch' /\ ResolvedPublished'
  BY <1>4 DEF Interrupt
<1>5. ASSUME NEW p \in Projects, EditConstraint(p) \/ DeleteLock(p) PROVE FetchesMatch' /\ ResolvedPublished'
  BY <1>5 DEF EditConstraint, DeleteLock
<1>6. CASE Publish \/ UNCHANGED vars
  BY <1>6 DEF Publish, vars
<1>7. QED BY <1>1, <1>2, <1>3, <1>4, <1>5, <1>6 DEF Next

-----------------------------------------------------------------------------
(* resolved.json goes with the directory.                                  *)
LEMMA NextInTree == ASSUME TypeOK, InTree, [Next]_vars PROVE InTree'
<1> USE DEF TypeOK, InTree, cache
<1>1. ASSUME NEW p \in Projects, Step(p) PROVE InTree'
  <2>1. CASE Remove(p) \/ Replace(p) \/ CloneFails(p) \/ Discarded(p)
    BY <2>1 DEF Remove, Replace, CloneFails, CleanUp, Discarded, RemoveDir
  <2>2. CASE CloneBegins(p) \/ CloneEnds(p)
    BY <2>2 DEF CloneBegins, CloneEnds, Wantless
  <2>3. CASE AddEnds(p) \/ AddFails(p)
    BY <2>3 DEF AddEnds, AddFails
  <2>4. CASE Record(p)
    BY <2>4 DEF Record
  <2>5. CASE FetchCached(p) \/ ListTags(p) \/ CloneSkipped(p) \/ Save(p) \/ Keep(p) \/ Use(p)
    BY <2>5 DEF FetchCached, ListTags, CloneSkipped, Save, Keep, Use
  <2>6. QED BY <1>1, <2>1, <2>2, <2>3, <2>4, <2>5 DEF Step
<1>2. ASSUME NEW p \in Projects, Command(p) \/ ListTagsFails(p) \/ LaterFails(p) PROVE InTree'
  BY <1>2 DEF Command, Build, FetchAll, Update, AddBegins, Discard, ListTagsFails, LaterFails
<1>3. ASSUME NEW p \in Projects, Interrupt(p) PROVE InTree'
  BY <1>3 DEF Interrupt, Removing, Outdated
<1>4. ASSUME NEW p \in Projects, EditConstraint(p) \/ DeleteLock(p) PROVE InTree'
  BY <1>4 DEF EditConstraint, DeleteLock
<1>5. CASE Publish \/ UNCHANGED vars
  BY <1>5 DEF Publish, vars
<1>6. QED BY <1>1, <1>2, <1>3, <1>4, <1>5 DEF Next

-----------------------------------------------------------------------------
(* Steps that leave the directory alone.                                   *)
LEMMA QuietUnsuspected ==
  ASSUME IInv, ~suspect', NEW p \in Projects,
         \/ Build(p) \/ FetchAll(p) \/ Update(p) \/ Discard(p) \/ FetchCached(p) \/ ListTags(p)
         \/ ListTagsFails(p) \/ LaterFails(p) \/ CloneSkipped(p) \/ Save(p) \/ Keep(p) \/ Use(p)
         \/ EditConstraint(p) \/ DeleteLock(p)
  PROVE  Unsuspected'
<1> USE DEF IInv, TypeOK, Unsuspected, DirOK, PlaceOK, LockOK, LockOutdated, Busy, HasGit, Versions,
            Goto, Wants, Ends, cache, history
<1>1. CASE Build(p)
  BY <1>1 DEF Build, Idle, Reusable
<1>2. CASE FetchAll(p) \/ Update(p) \/ Discard(p)
  BY <1>2 DEF FetchAll, Update, Discard, Idle
<1>3. CASE FetchCached(p)
  BY <1>3 DEF FetchCached, Satisfied
<1>4. CASE ListTags(p) \/ ListTagsFails(p) \/ LaterFails(p)
  BY <1>4 DEF ListTags, ListTagsFails, LaterFails
<1>5. CASE CloneSkipped(p)
  BY <1>5 DEF CloneSkipped
<1>6. CASE Save(p)
  BY <1>6 DEF Save
<1>7. CASE Keep(p)
  <2>1. UNCHANGED <<dir, resolved, want, cloner, overtaken, suspect>> /\ pc' = [pc EXCEPT ![p] = "use"]
    BY <1>7 DEF Keep
  <2>2. lock' = lock \/ lock' = [lock EXCEPT ![p] = Torn]
    BY <1>7 DEF Keep
  <2>3. dir = want[p] \/ p \in overtaken
    BY <1>7, <2>1 DEF Keep, Wantless
  <2>4. lock[p] = want[p] /\ HasGit
    BY <1>7, <2>1 DEF Keep, Wantless
  <2>5. DirOK' /\ \A q \in Projects : LockOK(q)'
    BY <1>7, <2>1, <2>2 DEF Keep
  <2>6. PlaceOK(p)'
    BY <2>1, <2>2, <2>3, <2>4
  <2>7. ASSUME NEW q \in Projects \ {p} PROVE PlaceOK(q)'
    BY <1>7, <2>1, <2>2 DEF Keep
  <2>8. QED BY <2>5, <2>6, <2>7
<1>8. CASE Use(p)
  BY <1>8 DEF Use
<1>9. CASE EditConstraint(p) \/ DeleteLock(p)
  BY <1>9 DEF EditConstraint, DeleteLock
<1>10. QED
  BY <1>1, <1>2, <1>3, <1>4, <1>5, <1>6, <1>7, <1>8, <1>9

(* Steps that change it: the others are idle.                              *)
LEMMA TouchUnsuspected ==
  ASSUME IInv, ~suspect', NEW p \in Projects,
         \/ Remove(p) \/ Replace(p) \/ CloneBegins(p) \/ CloneEnds(p) \/ CloneFails(p) \/ Record(p)
         \/ Discarded(p)
  PROVE  Unsuspected'
<1> USE DEF IInv, TypeOK, Unsuspected, DirOK, PlaceOK, LockOK, LockOutdated, Busy, HasGit, Versions,
            Goto, Wants, Ends, Alone, cache, history
<1>1. CASE Remove(p)
  BY <1>1, AfreshAlone DEF Remove, RemoveDir
<1>2. CASE Replace(p)
  BY <1>2, AfreshAlone DEF Replace, RemoveDir, Outdated
<1>3. CASE CloneBegins(p)
  BY <1>3, AfreshAlone DEF CloneBegins, InTree
<1>4. CASE CloneEnds(p)
  <2>1. Alone(p) /\ overtaken' = Projects /\ ~suspect
    BY <1>4, AfreshAlone DEF CloneEnds, ChangesTree, Doubtful
  <2>2. QED BY <1>4, <2>1 DEF CloneEnds, Wantless
<1>5. CASE CloneFails(p)
  BY <1>5, AfreshAlone DEF CloneFails, CleanUp, RemoveDir
<1>6. CASE Record(p)
  BY <1>6 DEF Record, Doubtful, Meets
<1>8. CASE Discarded(p)
  BY <1>8, AfreshAlone DEF Discarded, RemoveDir
<1>7. QED BY <1>1, <1>2, <1>3, <1>4, <1>5, <1>6, <1>8

(* A command that is cut short where it does no harm ends as if it failed. *)
LEMMA InterruptUnsuspected ==
  ASSUME IInv, ~suspect', NEW p \in Projects, Interrupt(p)
  PROVE  Unsuspected'
<1>1. /\ UNCHANGED <<dir, resolved, overtaken, suspect>>
      /\ pc[p] \notin {"cloning", "adding", "record"}
      /\ lock' = lock \/ lock' = [lock EXCEPT ![p] = Torn]
  BY DEF Interrupt, Doubtful, cache, history
<1>2. /\ pc' = [pc EXCEPT ![p] = "idle"] /\ want' = [want EXCEPT ![p] = None]
      /\ cloner' = IF cloner = p THEN None ELSE cloner
  BY DEF Interrupt, Ends, Goto, Wants
<1>3. DirOK' /\ \A q \in Projects : LockOK(q)'
  BY <1>1, <1>2 DEF IInv, TypeOK, Unsuspected, DirOK, LockOK, HasGit, Versions
<1>4. ASSUME NEW q \in Projects PROVE PlaceOK(q)'
  BY <1>1, <1>2 DEF IInv, TypeOK, Unsuspected, PlaceOK, LockOutdated, Busy, HasGit, Versions
<1>5. QED BY <1>3, <1>4 DEF Unsuspected

LEMMA NextUnsuspected ==
  ASSUME IInv, [Next]_vars PROVE suspect' \/ Unsuspected'
<1> SUFFICES ASSUME ~suspect' PROVE Unsuspected'
  OBVIOUS
<1>1. ASSUME NEW p \in Projects,
             Command(p) \/ Step(p) \/ ListTagsFails(p) \/ LaterFails(p) \/ EditConstraint(p) \/ DeleteLock(p)
      PROVE  Unsuspected'
  <2>1. CASE AddBegins(p) \/ AddEnds(p) \/ AddFails(p)
    BY <2>1 DEF AddBegins, AddEnds, AddFails, Doubtful
  <2>2. QED BY <1>1, <2>1, QuietUnsuspected, TouchUnsuspected DEF Step, Command
<1>2. CASE \E p \in Projects : Interrupt(p)
  BY <1>2, InterruptUnsuspected
<1>3. CASE Publish \/ UNCHANGED vars
  BY <1>3 DEF Publish, vars, cache, history, IInv, Unsuspected, DirOK, PlaceOK, LockOK, LockOutdated,
     Busy, HasGit
<1>4. QED BY <1>1, <1>2, <1>3 DEF Next

-----------------------------------------------------------------------------
LEMMA InitIInv == ASSUME Init PROVE IInv
<1>1. TypeOK
  <2>1. published \in Versions
    BY DEF Init, Versions
  <2>2. QED
    BY <2>1 DEF Init, TypeOK, Wantless
<1>2. FetchesMatch /\ ResolvedPublished /\ InTree
  BY DEF Init, FetchesMatch, ResolvedPublished, InTree, Fetching
<1>3. Unsuspected
  BY DEF Init, Unsuspected, DirOK, PlaceOK, LockOK, HasGit
<1>4. QED BY <1>1, <1>2, <1>3 DEF IInv

LEMMA NextIInv == ASSUME IInv, [Next]_vars PROVE IInv'
  BY NextTypeOK, NextMatch, NextInTree, NextUnsuspected DEF IInv

(* A build loads the version that it reports and that kaula.lock gets,     *)
(* unless it took it from a lock older than the tree, or resolved.json may *)
(* not tell what the tree is.                                              *)
THEOREM BuildsFaithful == Spec => [](TypeOK /\ BuildsWhatItReports)
<1>1. Init => IInv
  BY InitIInv
<1>2. IInv /\ [Next]_vars => IInv'
  BY NextIInv
<1>3. IInv => TypeOK /\ BuildsWhatItReports
  BY DEF IInv, Unsuspected, PlaceOK, BuildsWhatItReports
<1>4. QED BY <1>1, <1>2, <1>3, PTL DEF Spec

LEMMA NextLocks ==
  ASSUME IInv, Next, NEW p \in Projects, lock'[p] > 0, lock'[p] # lock[p]
  PROVE  lock'[p] \in Matching(p)
<1> USE DEF IInv, TypeOK
<1>1. ASSUME NEW q \in Projects, Save(q) PROVE lock'[p] \in Matching(p)
  BY <1>1 DEF Save, FetchesMatch, Fetching
<1>2. ASSUME NEW q \in Projects,
             \/ Command(q) \/ Remove(q) \/ FetchCached(q) \/ ListTags(q) \/ Replace(q)
             \/ CloneSkipped(q) \/ CloneBegins(q) \/ CloneEnds(q) \/ CloneFails(q)
             \/ Record(q) \/ Use(q) \/ ListTagsFails(q) \/ LaterFails(q)
             \/ AddEnds(q) \/ AddFails(q) \/ Discarded(q)
      PROVE  FALSE
  <2>1. lock' = lock
    BY <1>2 DEF Command, Build, FetchAll, Update, AddBegins, Discard, Remove, FetchCached, ListTags,
       Replace, CloneSkipped, CloneBegins, CloneEnds, CloneFails, Record, Use, ListTagsFails, LaterFails,
       AddEnds, AddFails, Discarded
  <2>2. QED BY <2>1
<1>3. ASSUME NEW q \in Projects, Keep(q) \/ Interrupt(q) \/ EditConstraint(q) \/ DeleteLock(q) PROVE FALSE
  BY <1>3 DEF Keep, Interrupt, EditConstraint, DeleteLock
<1>4. CASE Publish
  BY <1>4 DEF Publish
<1>5. QED BY <1>1, <1>2, <1>3, <1>4 DEF Next, Step

(* A version enters kaula.lock only from the registry and within the       *)
(* constraint, even when commands meet at the cache, fail or are cut short.*)
THEOREM LocksMatch == Spec => LockedVersionsMatch
<1>1. Init => IInv
  BY InitIInv
<1>2. IInv /\ [Next]_vars => IInv'
  BY NextIInv
<1>3. IInv /\ [Next]_vars =>
        [\A p \in Projects : lock'[p] > 0 /\ lock'[p] # lock[p] => lock'[p] \in Matching(p)]_vars
  BY NextLocks
<1>4. QED BY <1>1, <1>2, <1>3, PTL DEF Spec, LockedVersionsMatch

-----------------------------------------------------------------------------
(***************************************************************************)
(* The parser.  Every instruction of its table except those of             *)
(* AttributedPub hands no attributes on, so while they wait the parser is  *)
(* on the one way that leads to the declaration: the innermost call and    *)
(* the tokens in front say where on that way it is.                        *)
(***************************************************************************)

\* f is a function of the table, i an instruction that only goes to functions of
\* the table and hands no attributes on.
Known(f) == f \in DOMAIN Code
Fine(i) ==
  /\ i[1] # "pend"
  /\ i[1] \in {"jump", "when", "unless", "pair", "on", "maybe", "same"} => Known(i[Len(i)])
  /\ i[1] = "sub" => Known(i[2])
  /\ i[1] \in {"if", "loop"} => Known(i[3])
Body(s) == Len(s) \in Nat /\ \A k \in 1 .. Len(s) : Fine(s[k])

FunctionNames ==
  {"Nothing", "Node", "Nil", "Eaten", "EatenComma", "PutBack", "PutBackAndSkip",
   "SkippingBlock", "InsideBlock", "ThenSkipBlock", "ClauseBlock", "PrefixBlock",
   "StatementOrSkip", "StatementOrSkipInside", "StatementThenSkip", "StatementOnly",
   "StatementCounted", "Program", "ProgramItem", "While", "IfStmt", "Else", "For", "ForIn",
   "ReturnStmt", "Leave", "ExpressionStatement", "Spend", "SpendBlock", "SpendItem",
   "CallClause", "CallStmt", "CallBody", "Parenthesised", "Prefix", "AtPrefix", "NamedPrefix",
   "PrefixArgs", "PrefixArg", "ValueComma", "Tree", "Object", "ObjectSelf", "ObjectArgs",
   "ObjectArg", "ObjectBlock", "ObjectField", "ObjectValue", "Assigned", "Yield", "Release",
   "Holders", "Extract", "ExtractIndex", "Import", "ModulePath", "ModuleDot", "VarDecl",
   "TypedName", "PlainName", "SignatureName", "GenericName", "ArrayName", "Declared",
   "Undeclared", "DeclarationOrExpression", "ArraySize", "Auto", "Const", "ConstValue",
   "NonLocal", "Static", "Extern", "ExternFn", "ExternParams", "ExternResult", "TypeString",
   "TypeForDecl", "TypeParts", "TypeWord", "ArrayType", "Signature", "TypeArgs", "TypeArg",
   "GenericArgs", "ArgNames", "TypeParams", "ParamNames", "TypeAlias", "AliasOf", "FuncType",
   "FuncTypeParam", "Function", "FunctionBlock", "Params", "Param", "TypedParam", "NamedParam",
   "Struct", "StructFields", "StructField", "Field", "BitWidth", "Enum", "EnumBlock", "Variant",
   "Skimmed", "Class", "Implements", "Names", "ClassBody", "ClassItem", "Member", "NamedCtor",
   "Method", "NamedMethod", "ClosedMethod", "LateMethod", "LateName", "LateParams",
   "MethodBody", "MethodParams", "ParamList", "FnMember", "CtorMember", "Ctor", "Interface",
   "InterfaceBlock", "InterfaceItem", "FnSignature", "BareSignature", "AttributedPub",
   "AttributedVar", "Pub", "Export", "Expression", "Operators", "Unary", "Identifier",
   "Postfix", "Selected", "Applied", "GenericOrLess", "GenericCall", "Index", "Arguments",
   "Argument", "ArgumentValue", "NamedArgument", "Grouped", "Array", "Element", "SizeOf",
   "Cast", "Comptime", "StructLiteral", "LiteralField", "FieldValue", "ObjectLiteral",
   "EmptyObject", "NamedValue", "Lambda", "TypedLambda", "LambdaBody", "LambdaParams",
   "LambdaParam", "LambdaType", "Match", "MatchTarget", "MatchBlock", "ArmOrSkip", "Arm",
   "Pattern", "ArmBody", "ArmBlock", "ArmStatements", "Statement", "Primary", "Unexpected"}

LEMMA NamesAre == DOMAIN Code = FunctionNames
  BY SMTT(30) DEF Code, FunctionNames

LEMMA FunctionsAre ==
  /\ Known("Nothing") /\ Known("Node") /\ Known("Nil") /\ Known("Eaten") /\
     Known("EatenComma") /\ Known("PutBack") /\ Known("PutBackAndSkip") /\
     Known("SkippingBlock") /\ Known("InsideBlock") /\ Known("ThenSkipBlock") /\
     Known("ClauseBlock") /\ Known("PrefixBlock") /\ Known("StatementOrSkip") /\
     Known("StatementOrSkipInside") /\ Known("StatementThenSkip") /\ Known("StatementOnly") /\
     Known("StatementCounted") /\ Known("Program") /\ Known("ProgramItem") /\ Known("While") /\
     Known("IfStmt") /\ Known("Else") /\ Known("For") /\ Known("ForIn") /\
     Known("ReturnStmt") /\ Known("Leave") /\ Known("ExpressionStatement") /\ Known("Spend") /\
     Known("SpendBlock") /\ Known("SpendItem") /\ Known("CallClause") /\ Known("CallStmt") /\
     Known("CallBody") /\ Known("Parenthesised") /\ Known("Prefix") /\ Known("AtPrefix") /\
     Known("NamedPrefix") /\ Known("PrefixArgs") /\ Known("PrefixArg") /\ Known("ValueComma") /\
     Known("Tree") /\ Known("Object") /\ Known("ObjectSelf") /\ Known("ObjectArgs") /\
     Known("ObjectArg") /\ Known("ObjectBlock") /\ Known("ObjectField") /\
     Known("ObjectValue") /\ Known("Assigned") /\ Known("Yield") /\ Known("Release") /\
     Known("Holders") /\ Known("Extract") /\ Known("ExtractIndex") /\ Known("Import") /\
     Known("ModulePath") /\ Known("ModuleDot") /\ Known("VarDecl") /\ Known("TypedName") /\
     Known("PlainName") /\ Known("SignatureName") /\ Known("GenericName") /\
     Known("ArrayName") /\ Known("Declared") /\ Known("Undeclared") /\
     Known("DeclarationOrExpression") /\ Known("ArraySize") /\ Known("Auto") /\
     Known("Const") /\ Known("ConstValue") /\ Known("NonLocal") /\ Known("Static") /\
     Known("Extern") /\ Known("ExternFn") /\ Known("ExternParams") /\ Known("ExternResult") /\
     Known("TypeString") /\ Known("TypeForDecl") /\ Known("TypeParts") /\ Known("TypeWord") /\
     Known("ArrayType") /\ Known("Signature") /\ Known("TypeArgs") /\ Known("TypeArg") /\
     Known("GenericArgs") /\ Known("ArgNames") /\ Known("TypeParams") /\ Known("ParamNames") /\
     Known("TypeAlias") /\ Known("AliasOf") /\ Known("FuncType") /\ Known("FuncTypeParam") /\
     Known("Function") /\ Known("FunctionBlock") /\ Known("Params") /\ Known("Param") /\
     Known("TypedParam") /\ Known("NamedParam") /\ Known("Struct") /\ Known("StructFields") /\
     Known("StructField") /\ Known("Field") /\ Known("BitWidth") /\ Known("Enum") /\
     Known("EnumBlock") /\ Known("Variant") /\ Known("Skimmed") /\ Known("Class") /\
     Known("Implements") /\ Known("Names") /\ Known("ClassBody") /\ Known("ClassItem") /\
     Known("Member") /\ Known("NamedCtor") /\ Known("Method") /\ Known("NamedMethod") /\
     Known("ClosedMethod") /\ Known("LateMethod") /\ Known("LateName") /\ Known("LateParams") /\
     Known("MethodBody") /\ Known("MethodParams") /\ Known("ParamList") /\ Known("FnMember") /\
     Known("CtorMember") /\ Known("Ctor") /\ Known("Interface") /\ Known("InterfaceBlock") /\
     Known("InterfaceItem") /\ Known("FnSignature") /\ Known("BareSignature") /\
     Known("AttributedPub") /\ Known("AttributedVar") /\ Known("Pub") /\ Known("Export") /\
     Known("Expression") /\ Known("Operators") /\ Known("Unary") /\ Known("Identifier") /\
     Known("Postfix") /\ Known("Selected") /\ Known("Applied") /\ Known("GenericOrLess") /\
     Known("GenericCall") /\ Known("Index") /\ Known("Arguments") /\ Known("Argument") /\
     Known("ArgumentValue") /\ Known("NamedArgument") /\ Known("Grouped") /\ Known("Array") /\
     Known("Element") /\ Known("SizeOf") /\ Known("Cast") /\ Known("Comptime") /\
     Known("StructLiteral") /\ Known("LiteralField") /\ Known("FieldValue") /\
     Known("ObjectLiteral") /\ Known("EmptyObject") /\ Known("NamedValue") /\ Known("Lambda") /\
     Known("TypedLambda") /\ Known("LambdaBody") /\ Known("LambdaParams") /\
     Known("LambdaParam") /\ Known("LambdaType") /\ Known("Match") /\ Known("MatchTarget") /\
     Known("MatchBlock") /\ Known("ArmOrSkip") /\ Known("Arm") /\ Known("Pattern") /\
     Known("ArmBody") /\ Known("ArmBlock") /\ Known("ArmStatements") /\ Known("Statement") /\
     Known("Primary") /\ Known("Unexpected")
<1>1. Known("Nothing") /\ Known("Node") /\ Known("Nil") /\ Known("Eaten") /\
      Known("EatenComma") /\ Known("PutBack") /\ Known("PutBackAndSkip") /\
      Known("SkippingBlock")
  BY NamesAre DEF Known, FunctionNames
<1>2. Known("InsideBlock") /\ Known("ThenSkipBlock") /\ Known("ClauseBlock") /\
      Known("PrefixBlock") /\ Known("StatementOrSkip") /\ Known("StatementOrSkipInside") /\
      Known("StatementThenSkip") /\ Known("StatementOnly")
  BY NamesAre DEF Known, FunctionNames
<1>3. Known("StatementCounted") /\ Known("Program") /\ Known("ProgramItem") /\ Known("While") /\
      Known("IfStmt") /\ Known("Else") /\ Known("For") /\ Known("ForIn")
  BY NamesAre DEF Known, FunctionNames
<1>4. Known("ReturnStmt") /\ Known("Leave") /\ Known("ExpressionStatement") /\ Known("Spend") /\
      Known("SpendBlock") /\ Known("SpendItem") /\ Known("CallClause") /\ Known("CallStmt")
  BY NamesAre DEF Known, FunctionNames
<1>5. Known("CallBody") /\ Known("Parenthesised") /\ Known("Prefix") /\ Known("AtPrefix") /\
      Known("NamedPrefix") /\ Known("PrefixArgs") /\ Known("PrefixArg") /\ Known("ValueComma")
  BY NamesAre DEF Known, FunctionNames
<1>6. Known("Tree") /\ Known("Object") /\ Known("ObjectSelf") /\ Known("ObjectArgs") /\
      Known("ObjectArg") /\ Known("ObjectBlock") /\ Known("ObjectField") /\ Known("ObjectValue")
  BY NamesAre DEF Known, FunctionNames
<1>7. Known("Assigned") /\ Known("Yield") /\ Known("Release") /\ Known("Holders") /\
      Known("Extract") /\ Known("ExtractIndex") /\ Known("Import") /\ Known("ModulePath")
  BY NamesAre DEF Known, FunctionNames
<1>8. Known("ModuleDot") /\ Known("VarDecl") /\ Known("TypedName") /\ Known("PlainName") /\
      Known("SignatureName") /\ Known("GenericName") /\ Known("ArrayName") /\ Known("Declared")
  BY NamesAre DEF Known, FunctionNames
<1>9. Known("Undeclared") /\ Known("DeclarationOrExpression") /\ Known("ArraySize") /\
      Known("Auto") /\ Known("Const") /\ Known("ConstValue") /\ Known("NonLocal") /\
      Known("Static")
  BY NamesAre DEF Known, FunctionNames
<1>10. Known("Extern") /\ Known("ExternFn") /\ Known("ExternParams") /\ Known("ExternResult") /\
      Known("TypeString") /\ Known("TypeForDecl") /\ Known("TypeParts") /\ Known("TypeWord")
  BY NamesAre DEF Known, FunctionNames
<1>11. Known("ArrayType") /\ Known("Signature") /\ Known("TypeArgs") /\ Known("TypeArg") /\
      Known("GenericArgs") /\ Known("ArgNames") /\ Known("TypeParams") /\ Known("ParamNames")
  BY NamesAre DEF Known, FunctionNames
<1>12. Known("TypeAlias") /\ Known("AliasOf") /\ Known("FuncType") /\ Known("FuncTypeParam") /\
      Known("Function") /\ Known("FunctionBlock") /\ Known("Params") /\ Known("Param")
  BY NamesAre DEF Known, FunctionNames
<1>13. Known("TypedParam") /\ Known("NamedParam") /\ Known("Struct") /\ Known("StructFields") /\
      Known("StructField") /\ Known("Field") /\ Known("BitWidth") /\ Known("Enum")
  BY NamesAre DEF Known, FunctionNames
<1>14. Known("EnumBlock") /\ Known("Variant") /\ Known("Skimmed") /\ Known("Class") /\
      Known("Implements") /\ Known("Names") /\ Known("ClassBody") /\ Known("ClassItem")
  BY NamesAre DEF Known, FunctionNames
<1>15. Known("Member") /\ Known("NamedCtor") /\ Known("Method") /\ Known("NamedMethod") /\
      Known("ClosedMethod") /\ Known("LateMethod") /\ Known("LateName") /\ Known("LateParams")
  BY NamesAre DEF Known, FunctionNames
<1>16. Known("MethodBody") /\ Known("MethodParams") /\ Known("ParamList") /\
      Known("FnMember") /\ Known("CtorMember") /\ Known("Ctor") /\ Known("Interface") /\
      Known("InterfaceBlock")
  BY NamesAre DEF Known, FunctionNames
<1>17. Known("InterfaceItem") /\ Known("FnSignature") /\ Known("BareSignature") /\
      Known("AttributedPub") /\ Known("AttributedVar") /\ Known("Pub") /\ Known("Export") /\
      Known("Expression")
  BY NamesAre DEF Known, FunctionNames
<1>18. Known("Operators") /\ Known("Unary") /\ Known("Identifier") /\ Known("Postfix") /\
      Known("Selected") /\ Known("Applied") /\ Known("GenericOrLess") /\ Known("GenericCall")
  BY NamesAre DEF Known, FunctionNames
<1>19. Known("Index") /\ Known("Arguments") /\ Known("Argument") /\ Known("ArgumentValue") /\
      Known("NamedArgument") /\ Known("Grouped") /\ Known("Array") /\ Known("Element")
  BY NamesAre DEF Known, FunctionNames
<1>20. Known("SizeOf") /\ Known("Cast") /\ Known("Comptime") /\ Known("StructLiteral") /\
      Known("LiteralField") /\ Known("FieldValue") /\ Known("ObjectLiteral") /\
      Known("EmptyObject")
  BY NamesAre DEF Known, FunctionNames
<1>21. Known("NamedValue") /\ Known("Lambda") /\ Known("TypedLambda") /\ Known("LambdaBody") /\
      Known("LambdaParams") /\ Known("LambdaParam") /\ Known("LambdaType") /\ Known("Match")
  BY NamesAre DEF Known, FunctionNames
<1>22. Known("MatchTarget") /\ Known("MatchBlock") /\ Known("ArmOrSkip") /\ Known("Arm") /\
      Known("Pattern") /\ Known("ArmBody") /\ Known("ArmBlock") /\ Known("ArmStatements")
  BY NamesAre DEF Known, FunctionNames
<1>23. Known("Statement") /\ Known("Primary") /\ Known("Unexpected")
  BY NamesAre DEF Known, FunctionNames
<1>24. QED
  BY <1>1, <1>2, <1>3, <1>4, <1>5, <1>6, <1>7, <1>8, <1>9, <1>10, <1>11, <1>12, <1>13, <1>14,
     <1>15, <1>16, <1>17, <1>18, <1>19, <1>20, <1>21, <1>22, <1>23

LEMMA FineInstructions ==
  /\ Fine(Eat) /\ Fine(Remember) /\ Fine(Restore) /\ Fine(Rewind) /\ Fine(Count) /\ Fine(Take) /\
     Fine(Dispatch)
  /\ \A K : Fine(Opt(K)) /\ Fine(But(K)) /\ Fine(EatIfNil(K)) /\ Fine(Return(K))
  /\ \A f : Known(f) => Fine(Sub(f)) /\ Fine(Jump(f)) /\ Fine(Maybe(f)) /\ Fine(Same(f))
  /\ \A f, K : Known(f) =>
       Fine(If(K, f)) /\ Fine(Loop(K, f)) /\ Fine(When(K, f)) /\ Fine(Unless(K, f)) /\ Fine(On(K, f))
  /\ \A f, K, L : Known(f) => Fine(Pair(K, L, f))
<1>1. Fine(Eat) /\ Fine(Remember) /\ Fine(Restore) /\ Fine(Rewind) /\ Fine(Count) /\ Fine(Take) /\
     Fine(Dispatch)
  BY DEF Fine, Eat, Remember, Restore, Rewind, Count, Take, Dispatch
<1>2. \A K : Fine(Opt(K)) /\ Fine(But(K)) /\ Fine(EatIfNil(K)) /\ Fine(Return(K))
  BY DEF Fine, Opt, But, EatIfNil, Return
<1>3. \A f : Known(f) => Fine(Sub(f)) /\ Fine(Jump(f)) /\ Fine(Maybe(f)) /\ Fine(Same(f))
  BY DEF Fine, Sub, Jump, Maybe, Same
<1>4. \A f, K : Known(f) => Fine(If(K, f)) /\ Fine(Loop(K, f))
  BY DEF Fine, If, Loop
<1>5. \A f, K : Known(f) => Fine(When(K, f)) /\ Fine(Unless(K, f)) /\ Fine(On(K, f))
  BY DEF Fine, When, Unless, On
<1>6. \A f, K, L : Known(f) => Fine(Pair(K, L, f))
  BY DEF Fine, Pair
<1>7. QED BY <1>1, <1>2, <1>3, <1>4, <1>5, <1>6

(* Only pub with attributes in front leaves them to what follows.           *)
LEMMA BodiesKeepTheWay ==
  \A f \in DOMAIN Code : f # "AttributedPub" => Body(Code[f])
<1>1. \A f \in {"Nothing", "Node", "Nil", "Eaten", "EatenComma", "PutBack", "PutBackAndSkip",
      "SkippingBlock"} : Body(Code[f])
  <2>1. Body(Nothing) /\ Body(Node) /\ Body(Nil) /\ Body(Eaten) /\ Body(EatenComma) /\
        Body(PutBack) /\ Body(PutBackAndSkip) /\ Body(SkippingBlock)
    BY FunctionsAre, FineInstructions DEF Body, Block, Nothing, Node, Nil, Eaten, EatenComma,
       PutBack, PutBackAndSkip, SkippingBlock
  <2>2. Code["Nothing"] = Nothing /\ Code["Node"] = Node /\ Code["Nil"] = Nil /\
        Code["Eaten"] = Eaten /\ Code["EatenComma"] = EatenComma /\ Code["PutBack"] = PutBack /\
        Code["PutBackAndSkip"] = PutBackAndSkip /\ Code["SkippingBlock"] = SkippingBlock
    BY SMTT(30) DEF Code
  <2>3. QED BY <2>1, <2>2
<1>2. \A f \in {"InsideBlock", "ThenSkipBlock", "ClauseBlock", "PrefixBlock", "StatementOrSkip",
      "StatementOrSkipInside", "StatementThenSkip", "StatementOnly"} : Body(Code[f])
  <2>1. Body(InsideBlock) /\ Body(ThenSkipBlock) /\ Body(ClauseBlock) /\ Body(PrefixBlock) /\
        Body(StatementOrSkip) /\ Body(StatementOrSkipInside) /\ Body(StatementThenSkip) /\
        Body(StatementOnly)
    BY FunctionsAre, FineInstructions DEF Body, Block, InsideBlock, ThenSkipBlock, ClauseBlock,
       PrefixBlock, StatementOrSkip, StatementOrSkipInside, StatementThenSkip, StatementOnly
  <2>2. Code["InsideBlock"] = InsideBlock /\ Code["ThenSkipBlock"] = ThenSkipBlock /\
        Code["ClauseBlock"] = ClauseBlock /\ Code["PrefixBlock"] = PrefixBlock /\
        Code["StatementOrSkip"] = StatementOrSkip /\
        Code["StatementOrSkipInside"] = StatementOrSkipInside /\
        Code["StatementThenSkip"] = StatementThenSkip /\ Code["StatementOnly"] = StatementOnly
    BY SMTT(30) DEF Code
  <2>3. QED BY <2>1, <2>2
<1>3. \A f \in {"StatementCounted", "Program", "ProgramItem", "While", "IfStmt", "Else", "For",
      "ForIn"} : Body(Code[f])
  <2>1. Body(StatementCounted) /\ Body(Program) /\ Body(ProgramItem) /\ Body(While) /\
        Body(IfStmt) /\ Body(Else) /\ Body(For) /\ Body(ForIn)
    BY FunctionsAre, FineInstructions DEF Body, Block, StatementCounted, Program, ProgramItem,
       While, IfStmt, Else, For, ForIn
  <2>2. Code["StatementCounted"] = StatementCounted /\ Code["Program"] = Program /\
        Code["ProgramItem"] = ProgramItem /\ Code["While"] = While /\ Code["IfStmt"] = IfStmt /\
        Code["Else"] = Else /\ Code["For"] = For /\ Code["ForIn"] = ForIn
    BY SMTT(30) DEF Code
  <2>3. QED BY <2>1, <2>2
<1>4. \A f \in {"ReturnStmt", "Leave", "ExpressionStatement", "Spend", "SpendBlock",
      "SpendItem", "CallClause", "CallStmt"} : Body(Code[f])
  <2>1. Body(ReturnStmt) /\ Body(Leave) /\ Body(ExpressionStatement) /\ Body(Spend) /\
        Body(SpendBlock) /\ Body(SpendItem) /\ Body(CallClause) /\ Body(CallStmt)
    BY FunctionsAre, FineInstructions DEF Body, Block, ReturnStmt, Leave, ExpressionStatement,
       Spend, SpendBlock, SpendItem, CallClause, CallStmt
  <2>2. Code["ReturnStmt"] = ReturnStmt /\ Code["Leave"] = Leave /\
        Code["ExpressionStatement"] = ExpressionStatement /\ Code["Spend"] = Spend /\
        Code["SpendBlock"] = SpendBlock /\ Code["SpendItem"] = SpendItem /\
        Code["CallClause"] = CallClause /\ Code["CallStmt"] = CallStmt
    BY SMTT(30) DEF Code
  <2>3. QED BY <2>1, <2>2
<1>5. \A f \in {"CallBody", "Parenthesised", "Prefix", "AtPrefix", "NamedPrefix", "PrefixArgs",
      "PrefixArg", "ValueComma"} : Body(Code[f])
  <2>1. Body(CallBody) /\ Body(Parenthesised) /\ Body(Prefix) /\ Body(AtPrefix) /\
        Body(NamedPrefix) /\ Body(PrefixArgs) /\ Body(PrefixArg) /\ Body(ValueComma)
    BY FunctionsAre, FineInstructions DEF Body, Block, CallBody, Parenthesised, Prefix,
       AtPrefix, NamedPrefix, PrefixArgs, PrefixArg, ValueComma
  <2>2. Code["CallBody"] = CallBody /\ Code["Parenthesised"] = Parenthesised /\
        Code["Prefix"] = Prefix /\ Code["AtPrefix"] = AtPrefix /\
        Code["NamedPrefix"] = NamedPrefix /\ Code["PrefixArgs"] = PrefixArgs /\
        Code["PrefixArg"] = PrefixArg /\ Code["ValueComma"] = ValueComma
    BY SMTT(30) DEF Code
  <2>3. QED BY <2>1, <2>2
<1>6. \A f \in {"Tree", "Object", "ObjectSelf", "ObjectArgs", "ObjectArg", "ObjectBlock",
      "ObjectField", "ObjectValue"} : Body(Code[f])
  <2>1. Body(Tree) /\ Body(Object) /\ Body(ObjectSelf) /\ Body(ObjectArgs) /\ Body(ObjectArg) /\
        Body(ObjectBlock) /\ Body(ObjectField) /\ Body(ObjectValue)
    BY FunctionsAre, FineInstructions DEF Body, Block, Tree, Object, ObjectSelf, ObjectArgs,
       ObjectArg, ObjectBlock, ObjectField, ObjectValue
  <2>2. Code["Tree"] = Tree /\ Code["Object"] = Object /\ Code["ObjectSelf"] = ObjectSelf /\
        Code["ObjectArgs"] = ObjectArgs /\ Code["ObjectArg"] = ObjectArg /\
        Code["ObjectBlock"] = ObjectBlock /\ Code["ObjectField"] = ObjectField /\
        Code["ObjectValue"] = ObjectValue
    BY SMTT(30) DEF Code
  <2>3. QED BY <2>1, <2>2
<1>7. \A f \in {"Assigned", "Yield", "Release", "Holders", "Extract", "ExtractIndex", "Import",
      "ModulePath"} : Body(Code[f])
  <2>1. Body(Assigned) /\ Body(Yield) /\ Body(Release) /\ Body(Holders) /\ Body(Extract) /\
        Body(ExtractIndex) /\ Body(Import) /\ Body(ModulePath)
    BY FunctionsAre, FineInstructions DEF Body, Block, Assigned, Yield, Release, Holders,
       Extract, ExtractIndex, Import, ModulePath
  <2>2. Code["Assigned"] = Assigned /\ Code["Yield"] = Yield /\ Code["Release"] = Release /\
        Code["Holders"] = Holders /\ Code["Extract"] = Extract /\
        Code["ExtractIndex"] = ExtractIndex /\ Code["Import"] = Import /\
        Code["ModulePath"] = ModulePath
    BY SMTT(30) DEF Code
  <2>3. QED BY <2>1, <2>2
<1>8. \A f \in {"ModuleDot", "VarDecl", "TypedName", "PlainName", "SignatureName",
      "GenericName", "ArrayName", "Declared"} : Body(Code[f])
  <2>1. Body(ModuleDot) /\ Body(VarDecl) /\ Body(TypedName) /\ Body(PlainName) /\
        Body(SignatureName) /\ Body(GenericName) /\ Body(ArrayName) /\ Body(Declared)
    BY FunctionsAre, FineInstructions DEF Body, Block, ModuleDot, VarDecl, TypedName, PlainName,
       SignatureName, GenericName, ArrayName, Declared
  <2>2. Code["ModuleDot"] = ModuleDot /\ Code["VarDecl"] = VarDecl /\
        Code["TypedName"] = TypedName /\ Code["PlainName"] = PlainName /\
        Code["SignatureName"] = SignatureName /\ Code["GenericName"] = GenericName /\
        Code["ArrayName"] = ArrayName /\ Code["Declared"] = Declared
    BY SMTT(30) DEF Code
  <2>3. QED BY <2>1, <2>2
<1>9. \A f \in {"Undeclared", "DeclarationOrExpression", "ArraySize", "Auto", "Const",
      "ConstValue", "NonLocal", "Static"} : Body(Code[f])
  <2>1. Body(Undeclared) /\ Body(DeclarationOrExpression) /\ Body(ArraySize) /\
        Body(AutoDecl) /\ Body(Const) /\ Body(ConstValue) /\ Body(NonLocal) /\ Body(Static)
    BY FunctionsAre, FineInstructions DEF Body, Block, Undeclared, DeclarationOrExpression,
       ArraySize, AutoDecl, Const, ConstValue, NonLocal, Static
  <2>2. Code["Undeclared"] = Undeclared /\
        Code["DeclarationOrExpression"] = DeclarationOrExpression /\
        Code["ArraySize"] = ArraySize /\ Code["Auto"] = AutoDecl /\ Code["Const"] = Const /\
        Code["ConstValue"] = ConstValue /\ Code["NonLocal"] = NonLocal /\
        Code["Static"] = Static
    BY SMTT(30) DEF Code
  <2>3. QED BY <2>1, <2>2
<1>10. \A f \in {"Extern", "ExternFn", "ExternParams", "ExternResult", "TypeString",
      "TypeForDecl", "TypeParts", "TypeWord"} : Body(Code[f])
  <2>1. Body(Extern) /\ Body(ExternFn) /\ Body(ExternParams) /\ Body(ExternResult) /\
        Body(TypeString) /\ Body(TypeForDecl) /\ Body(TypeParts) /\ Body(TypeWord)
    BY FunctionsAre, FineInstructions DEF Body, Block, Extern, ExternFn, ExternParams,
       ExternResult, TypeString, TypeForDecl, TypeParts, TypeWord
  <2>2. Code["Extern"] = Extern /\ Code["ExternFn"] = ExternFn /\
        Code["ExternParams"] = ExternParams /\ Code["ExternResult"] = ExternResult /\
        Code["TypeString"] = TypeString /\ Code["TypeForDecl"] = TypeForDecl /\
        Code["TypeParts"] = TypeParts /\ Code["TypeWord"] = TypeWord
    BY SMTT(30) DEF Code
  <2>3. QED BY <2>1, <2>2
<1>11. \A f \in {"ArrayType", "Signature", "TypeArgs", "TypeArg", "GenericArgs", "ArgNames",
      "TypeParams", "ParamNames"} : Body(Code[f])
  <2>1. Body(ArrayType) /\ Body(Signature) /\ Body(TypeArgs) /\ Body(TypeArg) /\
        Body(GenericArgs) /\ Body(ArgNames) /\ Body(TypeParams) /\ Body(ParamNames)
    BY FunctionsAre, FineInstructions DEF Body, Block, ArrayType, Signature, TypeArgs, TypeArg,
       GenericArgs, ArgNames, TypeParams, ParamNames
  <2>2. Code["ArrayType"] = ArrayType /\ Code["Signature"] = Signature /\
        Code["TypeArgs"] = TypeArgs /\ Code["TypeArg"] = TypeArg /\
        Code["GenericArgs"] = GenericArgs /\ Code["ArgNames"] = ArgNames /\
        Code["TypeParams"] = TypeParams /\ Code["ParamNames"] = ParamNames
    BY SMTT(30) DEF Code
  <2>3. QED BY <2>1, <2>2
<1>12. \A f \in {"TypeAlias", "AliasOf", "FuncType", "FuncTypeParam", "Function",
      "FunctionBlock", "Params", "Param"} : Body(Code[f])
  <2>1. Body(TypeAlias) /\ Body(AliasOf) /\ Body(FuncType) /\ Body(FuncTypeParam) /\
        Body(Function) /\ Body(FunctionBlock) /\ Body(Params) /\ Body(Param)
    BY FunctionsAre, FineInstructions DEF Body, Block, TypeAlias, AliasOf, FuncType,
       FuncTypeParam, Function, FunctionBlock, Params, Param
  <2>2. Code["TypeAlias"] = TypeAlias /\ Code["AliasOf"] = AliasOf /\
        Code["FuncType"] = FuncType /\ Code["FuncTypeParam"] = FuncTypeParam /\
        Code["Function"] = Function /\ Code["FunctionBlock"] = FunctionBlock /\
        Code["Params"] = Params /\ Code["Param"] = Param
    BY SMTT(30) DEF Code
  <2>3. QED BY <2>1, <2>2
<1>13. \A f \in {"TypedParam", "NamedParam", "Struct", "StructFields", "StructField", "Field",
      "BitWidth", "Enum"} : Body(Code[f])
  <2>1. Body(TypedParam) /\ Body(NamedParam) /\ Body(Struct) /\ Body(StructFields) /\
        Body(StructField) /\ Body(Field) /\ Body(BitWidth) /\ Body(Enum)
    BY FunctionsAre, FineInstructions DEF Body, Block, TypedParam, NamedParam, Struct,
       StructFields, StructField, Field, BitWidth, Enum
  <2>2. Code["TypedParam"] = TypedParam /\ Code["NamedParam"] = NamedParam /\
        Code["Struct"] = Struct /\ Code["StructFields"] = StructFields /\
        Code["StructField"] = StructField /\ Code["Field"] = Field /\
        Code["BitWidth"] = BitWidth /\ Code["Enum"] = Enum
    BY SMTT(30) DEF Code
  <2>3. QED BY <2>1, <2>2
<1>14. \A f \in {"EnumBlock", "Variant", "Skimmed", "Class", "Implements", "Names", "ClassBody",
      "ClassItem"} : Body(Code[f])
  <2>1. Body(EnumBlock) /\ Body(Variant) /\ Body(Skimmed) /\ Body(Class) /\ Body(Implements) /\
        Body(Names) /\ Body(ClassBody) /\ Body(ClassItem)
    BY FunctionsAre, FineInstructions DEF Body, Block, EnumBlock, Variant, Skimmed, Class,
       Implements, Names, ClassBody, ClassItem
  <2>2. Code["EnumBlock"] = EnumBlock /\ Code["Variant"] = Variant /\
        Code["Skimmed"] = Skimmed /\ Code["Class"] = Class /\ Code["Implements"] = Implements /\
        Code["Names"] = Names /\ Code["ClassBody"] = ClassBody /\ Code["ClassItem"] = ClassItem
    BY SMTT(30) DEF Code
  <2>3. QED BY <2>1, <2>2
<1>15. \A f \in {"Member", "NamedCtor", "Method", "NamedMethod", "ClosedMethod", "LateMethod",
      "LateName", "LateParams"} : Body(Code[f])
  <2>1. Body(Member) /\ Body(NamedCtor) /\ Body(Method) /\ Body(NamedMethod) /\
        Body(ClosedMethod) /\ Body(LateMethod) /\ Body(LateName) /\ Body(LateParams)
    BY FunctionsAre, FineInstructions DEF Body, Block, Member, NamedCtor, Method, NamedMethod,
       ClosedMethod, LateMethod, LateName, LateParams
  <2>2. Code["Member"] = Member /\ Code["NamedCtor"] = NamedCtor /\ Code["Method"] = Method /\
        Code["NamedMethod"] = NamedMethod /\ Code["ClosedMethod"] = ClosedMethod /\
        Code["LateMethod"] = LateMethod /\ Code["LateName"] = LateName /\
        Code["LateParams"] = LateParams
    BY SMTT(30) DEF Code
  <2>3. QED BY <2>1, <2>2
<1>16. \A f \in {"MethodBody", "MethodParams", "ParamList", "FnMember", "CtorMember", "Ctor",
      "Interface", "InterfaceBlock"} : Body(Code[f])
  <2>1. Body(MethodBody) /\ Body(MethodParams) /\ Body(ParamList) /\ Body(FnMember) /\
        Body(CtorMember) /\ Body(Ctor) /\ Body(Interface) /\ Body(InterfaceBlock)
    BY FunctionsAre, FineInstructions DEF Body, Block, MethodBody, MethodParams, ParamList,
       FnMember, CtorMember, Ctor, Interface, InterfaceBlock
  <2>2. Code["MethodBody"] = MethodBody /\ Code["MethodParams"] = MethodParams /\
        Code["ParamList"] = ParamList /\ Code["FnMember"] = FnMember /\
        Code["CtorMember"] = CtorMember /\ Code["Ctor"] = Ctor /\
        Code["Interface"] = Interface /\ Code["InterfaceBlock"] = InterfaceBlock
    BY SMTT(30) DEF Code
  <2>3. QED BY <2>1, <2>2
<1>17. \A f \in {"InterfaceItem", "FnSignature", "BareSignature", "AttributedVar", "Pub",
      "Export", "Expression", "Operators"} : Body(Code[f])
  <2>1. Body(InterfaceItem) /\ Body(FnSignature) /\ Body(BareSignature) /\
        Body(AttributedVar) /\ Body(Pub) /\ Body(Export) /\ Body(Expression) /\ Body(Operators)
    BY FunctionsAre, FineInstructions DEF Body, Block, InterfaceItem, FnSignature,
       BareSignature, AttributedVar, Pub, Export, Expression, Operators
  <2>2. Code["InterfaceItem"] = InterfaceItem /\ Code["FnSignature"] = FnSignature /\
        Code["BareSignature"] = BareSignature /\ Code["AttributedVar"] = AttributedVar /\
        Code["Pub"] = Pub /\ Code["Export"] = Export /\ Code["Expression"] = Expression /\
        Code["Operators"] = Operators
    BY SMTT(30) DEF Code
  <2>3. QED BY <2>1, <2>2
<1>18. \A f \in {"Unary", "Identifier", "Postfix", "Selected", "Applied", "GenericOrLess",
      "GenericCall", "Index"} : Body(Code[f])
  <2>1. Body(Unary) /\ Body(Identifier) /\ Body(Postfix) /\ Body(Selected) /\ Body(Applied) /\
        Body(GenericOrLess) /\ Body(GenericCall) /\ Body(Index)
    BY FunctionsAre, FineInstructions DEF Body, Block, Unary, Identifier, Postfix, Selected,
       Applied, GenericOrLess, GenericCall, Index
  <2>2. Code["Unary"] = Unary /\ Code["Identifier"] = Identifier /\ Code["Postfix"] = Postfix /\
        Code["Selected"] = Selected /\ Code["Applied"] = Applied /\
        Code["GenericOrLess"] = GenericOrLess /\ Code["GenericCall"] = GenericCall /\
        Code["Index"] = Index
    BY SMTT(30) DEF Code
  <2>3. QED BY <2>1, <2>2
<1>19. \A f \in {"Arguments", "Argument", "ArgumentValue", "NamedArgument", "Grouped", "Array",
      "Element", "SizeOf"} : Body(Code[f])
  <2>1. Body(Arguments) /\ Body(Argument) /\ Body(ArgumentValue) /\ Body(NamedArgument) /\
        Body(Grouped) /\ Body(Array) /\ Body(Element) /\ Body(SizeOf)
    BY FunctionsAre, FineInstructions DEF Body, Block, Arguments, Argument, ArgumentValue,
       NamedArgument, Grouped, Array, Element, SizeOf
  <2>2. Code["Arguments"] = Arguments /\ Code["Argument"] = Argument /\
        Code["ArgumentValue"] = ArgumentValue /\ Code["NamedArgument"] = NamedArgument /\
        Code["Grouped"] = Grouped /\ Code["Array"] = Array /\ Code["Element"] = Element /\
        Code["SizeOf"] = SizeOf
    BY SMTT(30) DEF Code
  <2>3. QED BY <2>1, <2>2
<1>20. \A f \in {"Cast", "Comptime", "StructLiteral", "LiteralField", "FieldValue",
      "ObjectLiteral", "EmptyObject", "NamedValue"} : Body(Code[f])
  <2>1. Body(Cast) /\ Body(Comptime) /\ Body(StructLiteral) /\ Body(LiteralField) /\
        Body(FieldValue) /\ Body(ObjectLiteral) /\ Body(EmptyObject) /\ Body(NamedValue)
    BY FunctionsAre, FineInstructions DEF Body, Block, Cast, Comptime, StructLiteral,
       LiteralField, FieldValue, ObjectLiteral, EmptyObject, NamedValue
  <2>2. Code["Cast"] = Cast /\ Code["Comptime"] = Comptime /\
        Code["StructLiteral"] = StructLiteral /\ Code["LiteralField"] = LiteralField /\
        Code["FieldValue"] = FieldValue /\ Code["ObjectLiteral"] = ObjectLiteral /\
        Code["EmptyObject"] = EmptyObject /\ Code["NamedValue"] = NamedValue
    BY SMTT(30) DEF Code
  <2>3. QED BY <2>1, <2>2
<1>21. \A f \in {"Lambda", "TypedLambda", "LambdaBody", "LambdaParams", "LambdaParam",
      "LambdaType", "Match", "MatchTarget"} : Body(Code[f])
  <2>1. Body(Lambda) /\ Body(TypedLambda) /\ Body(LambdaBody) /\ Body(LambdaParams) /\
        Body(LambdaParam) /\ Body(LambdaType) /\ Body(Match) /\ Body(MatchTarget)
    BY FunctionsAre, FineInstructions DEF Body, Block, Lambda, TypedLambda, LambdaBody,
       LambdaParams, LambdaParam, LambdaType, Match, MatchTarget
  <2>2. Code["Lambda"] = Lambda /\ Code["TypedLambda"] = TypedLambda /\
        Code["LambdaBody"] = LambdaBody /\ Code["LambdaParams"] = LambdaParams /\
        Code["LambdaParam"] = LambdaParam /\ Code["LambdaType"] = LambdaType /\
        Code["Match"] = Match /\ Code["MatchTarget"] = MatchTarget
    BY SMTT(30) DEF Code
  <2>3. QED BY <2>1, <2>2
<1>22. \A f \in {"MatchBlock", "ArmOrSkip", "Arm", "Pattern", "ArmBody", "ArmBlock",
      "ArmStatements", "Statement"} : Body(Code[f])
  <2>1. Body(MatchBlock) /\ Body(ArmOrSkip) /\ Body(Arm) /\ Body(Pattern) /\ Body(ArmBody) /\
        Body(ArmBlock) /\ Body(ArmStatements) /\ Body(Statement)
    BY FunctionsAre, FineInstructions DEF Body, Block, MatchBlock, ArmOrSkip, Arm, Pattern,
       ArmBody, ArmBlock, ArmStatements, Statement
  <2>2. Code["MatchBlock"] = MatchBlock /\ Code["ArmOrSkip"] = ArmOrSkip /\ Code["Arm"] = Arm /\
        Code["Pattern"] = Pattern /\ Code["ArmBody"] = ArmBody /\ Code["ArmBlock"] = ArmBlock /\
        Code["ArmStatements"] = ArmStatements /\ Code["Statement"] = Statement
    BY SMTT(30) DEF Code
  <2>3. QED BY <2>1, <2>2
<1>23. \A f \in {"Primary", "Unexpected"} : Body(Code[f])
  <2>1. Body(Primary) /\ Body(Unexpected)
    BY FunctionsAre, FineInstructions DEF Body, Block, Primary, Unexpected
  <2>2. Code["Primary"] = Primary /\ Code["Unexpected"] = Unexpected
    BY SMTT(30) DEF Code
  <2>3. QED BY <2>1, <2>2
<1>24. DOMAIN Code = FunctionNames
  BY NamesAre
<1>25. QED
  BY <1>1, <1>2, <1>3, <1>4, <1>5, <1>6, <1>7, <1>8, <1>9, <1>10, <1>11, <1>12, <1>13, <1>14,
     <1>15, <1>16, <1>17, <1>18, <1>19, <1>20, <1>21, <1>22, <1>23, <1>24 DEF FunctionNames
-----------------------------------------------------------------------------
(* The calls of the parser.                                                *)
IsFrame(c) ==
  /\ c = [f |-> c.f, pc |-> c.pc, n |-> c.n, save |-> c.save]
  /\ Known(c.f) /\ c.pc \in Nat /\ c.pc >= 1
AreCalls(s) == (\E S : s \in Seq(S)) /\ \A i \in 1 .. Len(s) : IsFrame(s[i])

(* Until the attributes in front of a pub are taken, the parser is on its   *)
(* way to the function, structure or variable that takes them.              *)
Handed == {"fn", "struct", "auto", "id", "ty", "void"}
OnTheWay(s, c, p, w) ==
  w \in Handed =>
    /\ Len(s) >= 1
    /\ LET top == s[Len(s)] IN
         \/ top.f = "AttributedPub" /\ top.pc = 3 /\ p = w
         \/ top.f = "Pub" /\ top.pc = 1 /\ p = w
         \/ top.f = "Pub" /\ top.pc = 2 /\ c = w
         \/ top.f = "Pub" /\ top.pc = 3 /\ c = w /\ w # "fn"
         \/ top.f = "Pub" /\ top.pc \in {4, 5} /\ c = w /\ w \notin {"fn", "struct"}
         \/ top.f \in {"Function", "Struct", "VarDecl"} /\ top.pc = 1 /\ c = w
ParserInv == AreCalls(stack) /\ OnTheWay(stack, cur, peek, pending)

\* All calls but the last.
LEMMA Front ==
  ASSUME NEW R, NEW s \in Seq(R), Len(s) >= 1
  PROVE  LET b == SubSeq(s, 1, Len(s) - 1) IN
           /\ b \in Seq(R) /\ Len(b) = Len(s) - 1 /\ \A i \in 1 .. Len(s) - 1 : b[i] = s[i]
           /\ Len(s) \in Nat
<1>1. PICK n : n = Len(s) - 1 /\ n \in Nat /\ n \in 0 .. Len(s) /\ 1 \in 1 .. Len(s) + 1
              /\ Len(s) \in Nat
  OBVIOUS
<1>2. /\ SubSeq(s, 1, n) \in Seq(R)
      /\ Len(SubSeq(s, 1, n)) = IF 1 <= n THEN n - 1 + 1 ELSE 0
      /\ \A i \in 1 .. n - 1 + 1 : SubSeq(s, 1, n)[i] = s[1 + i - 1]
  BY <1>1, SubSeqProperties
<1>3. (IF 1 <= n THEN n - 1 + 1 ELSE 0) = n /\ \A i \in 1 .. n : i \in 1 .. n - 1 + 1 /\ 1 + i - 1 = i
  BY <1>1
<1>4. Len(SubSeq(s, 1, n)) = n /\ \A i \in 1 .. n : SubSeq(s, 1, n)[i] = s[i]
  BY <1>2, <1>3
<1>5. QED BY <1>1, <1>2, <1>4

\* The last call replaced by c, or by c and a call of it.
LEMMA Replaced ==
  ASSUME NEW s, AreCalls(s), Len(s) >= 1, NEW c, IsFrame(c)
  PROVE  LET t == Append(SubSeq(s, 1, Len(s) - 1), c)
         IN AreCalls(t) /\ Len(t) = Len(s) /\ t[Len(t)] = c
<1>1. PICK S : s \in Seq(S)
  BY DEF AreCalls
<1> DEFINE R == S \cup {c}
           b == SubSeq(s, 1, Len(s) - 1)
           t == Append(b, c)
<1>8. s \in Seq(R) /\ Len(s) \in Nat /\ Len(s) >= 1
  BY <1>1
<1> HIDE DEF R
<1>2. /\ b \in Seq(R) /\ Len(b) = Len(s) - 1 /\ \A i \in 1 .. Len(s) - 1 : b[i] = s[i]
      /\ Len(s) \in Nat
  BY <1>8, Front
<1> HIDE DEF b
<1>9. c \in R
  BY DEF R
<1>3. /\ t \in Seq(R) /\ Len(t) = Len(s) /\ t[Len(s)] = c
      /\ \A i \in 1 .. Len(s) - 1 : t[i] = b[i]
  BY <1>2, <1>9
<1>4. \A i \in 1 .. Len(t) : i \in 1 .. Len(s) /\ (i \in 1 .. Len(s) - 1 \/ i = Len(s))
  BY <1>2, <1>3
<1> HIDE DEF t
<1>5. \A i \in 1 .. Len(t) : IsFrame(t[i])
  BY <1>2, <1>3, <1>4 DEF AreCalls
<1>6. AreCalls(t)
  BY <1>3, <1>5 DEF AreCalls
<1>7. QED BY <1>3, <1>6 DEF t, b

LEMMA Stacked ==
  ASSUME NEW s, AreCalls(s), Len(s) >= 1, NEW c, IsFrame(c), NEW d, IsFrame(d)
  PROVE  AreCalls(SubSeq(s, 1, Len(s) - 1) \o <<c, d>>)
<1>1. PICK S : s \in Seq(S)
  BY DEF AreCalls
<1> DEFINE R == S \cup {c, d}
           b == SubSeq(s, 1, Len(s) - 1)
           e == <<c, d>>
           t == b \o e
<1>8. s \in Seq(R) /\ Len(s) \in Nat /\ Len(s) >= 1
  BY <1>1
<1> HIDE DEF R
<1>2. /\ b \in Seq(R) /\ Len(b) = Len(s) - 1 /\ \A i \in 1 .. Len(s) - 1 : b[i] = s[i]
      /\ Len(s) \in Nat
  BY <1>8, Front
<1>3. e \in Seq(R) /\ Len(e) = 2 /\ e[1] = c /\ e[2] = d
  BY DEF R
<1> HIDE DEF b, e
<1>4. /\ t \in Seq(R) /\ Len(t) = Len(s) + 1 /\ t[Len(s)] = c /\ t[Len(s) + 1] = d
      /\ \A i \in 1 .. Len(s) - 1 : t[i] = b[i]
  <2>1. t \in Seq(R) /\ Len(t) = Len(b) + Len(e)
        /\ \A i \in 1 .. Len(b) + Len(e) : t[i] = IF i <= Len(b) THEN b[i] ELSE e[i - Len(b)]
    BY <1>2, <1>3, ConcatProperties
  <2>2. /\ \A i \in 1 .. Len(b) : t[i] = b[i]
        /\ \A i \in 1 .. Len(e) : t[Len(b) + i] = e[i]
    <3>1. PICK n \in Nat : n = Len(b)
      BY <1>2
    <3>2. \A i \in 1 .. n : i \in 1 .. n + 2 /\ i <= n
      BY <3>1
    <3>3. \A i \in 1 .. 2 : n + i \in 1 .. n + 2 /\ ~(n + i <= n) /\ n + i - n = i
      BY <3>1
    <3>4. QED BY <1>3, <2>1, <3>1, <3>2, <3>3
  <2>3. t[Len(b) + 1] = e[1] /\ t[Len(b) + 2] = e[2]
    <3>1. 1 \in 1 .. Len(e) /\ 2 \in 1 .. Len(e)
      BY <1>3
    <3>2. QED BY <1>3, <2>2, <3>1
  <2>4. Len(b) + 1 = Len(s) /\ Len(b) + 2 = Len(s) + 1
    BY <1>2
  <2>5. QED BY <1>2, <1>3, <2>1, <2>3, <2>4
<1>5. \A i \in 1 .. Len(t) :
        (i \in 1 .. Len(s) - 1 /\ i \in 1 .. Len(s)) \/ i = Len(s) \/ i = Len(s) + 1
  BY <1>2, <1>4
<1> HIDE DEF t
<1>6. \A i \in 1 .. Len(t) : IsFrame(t[i])
  BY <1>2, <1>4, <1>5 DEF AreCalls
<1>7. AreCalls(t)
  BY <1>4, <1>6 DEF AreCalls
<1>9. QED BY <1>7 DEF t, b, e

LEMMA OneLess ==
  ASSUME NEW s, AreCalls(s), Len(s) >= 1
  PROVE  AreCalls(SubSeq(s, 1, Len(s) - 1))
<1>1. PICK S : s \in Seq(S)
  BY DEF AreCalls
<1> DEFINE b == SubSeq(s, 1, Len(s) - 1)
<1>2. /\ b \in Seq(S) /\ Len(b) = Len(s) - 1 /\ \A i \in 1 .. Len(s) - 1 : b[i] = s[i]
      /\ Len(s) \in Nat
  BY <1>1, Front
<1> HIDE DEF b
<1>3. \A i \in 1 .. Len(b) : b[i] = s[i] /\ i \in 1 .. Len(s)
  BY <1>2
<1>4. AreCalls(b)
  BY <1>2, <1>3 DEF AreCalls
<1>5. QED BY <1>4 DEF b

LEMMA PastIs ==
  ASSUME NEW c, IsFrame(c)
  PROVE  LET d == [c EXCEPT !.pc = @ + 1] IN IsFrame(d) /\ d.f = c.f /\ d.pc = c.pc + 1
<1>1. PICK d : d = [c EXCEPT !.pc = @ + 1]
  OBVIOUS
<1>2. PICK f, k, n, save : c = [f |-> f, pc |-> k, n |-> n, save |-> save]
  BY DEF IsFrame
<1>3. d = [f |-> f, pc |-> k + 1, n |-> n, save |-> save]
  BY <1>1, <1>2
<1>4. d.f = f /\ d.pc = k + 1 /\ d.n = n /\ d.save = save /\ c.f = f /\ c.pc = k
  BY <1>2, <1>3
<1>5. d = [f |-> d.f, pc |-> d.pc, n |-> d.n, save |-> d.save]
  BY <1>3, <1>4
<1>6. Known(f) /\ k + 1 \in Nat /\ k + 1 >= 1
  BY <1>4 DEF IsFrame
<1>7. IsFrame(d)
  BY <1>4, <1>5, <1>6 DEF IsFrame
<1>8. QED BY <1>1, <1>4, <1>7

LEMMA GoOnIs ==
  ASSUME NEW c, IsFrame(c), NEW g, Known(g)
  PROVE  LET d == [c EXCEPT !.f = g, !.pc = 1] IN IsFrame(d) /\ d.f = g /\ d.pc = 1
<1>1. PICK d : d = [c EXCEPT !.f = g, !.pc = 1]
  OBVIOUS
<1>2. PICK f, k, n, save : c = [f |-> f, pc |-> k, n |-> n, save |-> save]
  BY DEF IsFrame
<1>3. d = [f |-> g, pc |-> 1, n |-> n, save |-> save]
  BY <1>1, <1>2
<1>4. d.f = g /\ d.pc = 1 /\ d.n = n /\ d.save = save
  BY <1>3
<1>5. d = [f |-> d.f, pc |-> d.pc, n |-> d.n, save |-> d.save]
  BY <1>3, <1>4
<1>6. IsFrame(d)
  BY <1>4, <1>5 DEF IsFrame
<1>7. QED BY <1>1, <1>4, <1>6

LEMMA SaveIs ==
  ASSUME NEW c, IsFrame(c), NEW v
  PROVE  IsFrame([c EXCEPT !.save = v])
<1>1. PICK d : d = [c EXCEPT !.save = v]
  OBVIOUS
<1>2. PICK f, k, n, save : c = [f |-> f, pc |-> k, n |-> n, save |-> save]
  BY DEF IsFrame
<1>3. d = [f |-> f, pc |-> k, n |-> n, save |-> v]
  BY <1>1, <1>2
<1>4. d.f = f /\ d.pc = k /\ d.n = n /\ d.save = v /\ c.f = f /\ c.pc = k
  BY <1>2, <1>3
<1>5. d = [f |-> d.f, pc |-> d.pc, n |-> d.n, save |-> d.save]
  BY <1>3, <1>4
<1>6. IsFrame(d)
  BY <1>4, <1>5 DEF IsFrame
<1>7. QED BY <1>1, <1>6

LEMMA CountIs ==
  ASSUME NEW c, IsFrame(c), NEW v
  PROVE  IsFrame([c EXCEPT !.n = v])
<1>1. PICK d : d = [c EXCEPT !.n = v]
  OBVIOUS
<1>2. PICK f, k, n, save : c = [f |-> f, pc |-> k, n |-> n, save |-> save]
  BY DEF IsFrame
<1>3. d = [f |-> f, pc |-> k, n |-> v, save |-> save]
  BY <1>1, <1>2
<1>4. d.f = f /\ d.pc = k /\ d.n = v /\ d.save = save /\ c.f = f /\ c.pc = k
  BY <1>2, <1>3
<1>5. d = [f |-> d.f, pc |-> d.pc, n |-> d.n, save |-> d.save]
  BY <1>3, <1>4
<1>6. IsFrame(d)
  BY <1>4, <1>5 DEF IsFrame
<1>7. QED BY <1>1, <1>6

LEMMA NewFrame ==
  ASSUME NEW f, Known(f)
  PROVE  IsFrame(Frame(f))
<1>1. PICK d : d = [f |-> f, pc |-> 1, n |-> 0, save |-> <<>>]
  OBVIOUS
<1>2. d.f = f /\ d.pc = 1 /\ d.n = 0 /\ d.save = <<>>
  BY <1>1
<1>3. d = [f |-> d.f, pc |-> d.pc, n |-> d.n, save |-> d.save]
  BY <1>1, <1>2
<1>4. QED BY <1>1, <1>2, <1>3 DEF IsFrame, Frame

-----------------------------------------------------------------------------
(* The instructions on the way.                                             *)
LEMMA PubCode ==
  /\ Len(Code["AttributedPub"]) = 3
  /\ Code["AttributedPub"][1] = <<"eat">> /\ Code["AttributedPub"][2] = <<"pend">>
  /\ Code["AttributedPub"][3] = <<"jump", "Pub">>
  /\ Len(Code["Pub"]) = 7
  /\ Code["Pub"][1] = <<"eat">> /\ Code["Pub"][2] = <<"when", {"fn"}, "Function">>
  /\ Code["Pub"][3] = <<"when", {"struct"}, "Struct">>
  /\ Code["Pub"][4] = <<"when", {"class"}, "Class">>
  /\ Code["Pub"][5] = <<"when", {"id", "ty", "void"} \cup {"auto"}, "VarDecl">>
  /\ \A g \in {"Function", "Struct", "VarDecl"} : Len(Code[g]) >= 1 /\ Code[g][1] = <<"take">>
<1>1. /\ Code["AttributedPub"] = AttributedPub /\ Code["Pub"] = Pub
      /\ Code["Function"] = Function /\ Code["Struct"] = Struct /\ Code["VarDecl"] = VarDecl
  BY SMTT(30) DEF Code
<1>2. /\ Len(AttributedPub) = 3
      /\ AttributedPub[1] = <<"eat">> /\ AttributedPub[2] = <<"pend">>
      /\ AttributedPub[3] = <<"jump", "Pub">>
  BY DEF AttributedPub, Eat, Pend, Jump
<1>3. /\ Len(Pub) = 7
      /\ Pub[1] = <<"eat">> /\ Pub[2] = <<"when", {"fn"}, "Function">>
      /\ Pub[3] = <<"when", {"struct"}, "Struct">>
      /\ Pub[4] = <<"when", {"class"}, "Class">>
      /\ Pub[5] = <<"when", {"id", "ty", "void"} \cup {"auto"}, "VarDecl">>
  BY DEF Pub, Eat, When, TypeName
<1>4. /\ Len(Function) >= 1 /\ Function[1] = <<"take">>
      /\ Len(Struct) >= 1 /\ Struct[1] = <<"take">>
      /\ Len(VarDecl) >= 1 /\ VarDecl[1] = <<"take">>
  BY DEF Function, Struct, VarDecl, Take
<1>5. QED BY <1>1, <1>2, <1>3, <1>4

LEMMA TopIs ==
  ASSUME ParserInv, Running
  PROVE  /\ IsFrame(Top) /\ Len(stack) >= 1 /\ Top = stack[Len(stack)]
         /\ (Top.f = "AttributedPub" /\ Top.pc = 2 /\ Instr = <<"pend">>) \/ Fine(Instr)
<1>1. PICK S : stack \in Seq(S)
  BY DEF ParserInv, AreCalls
<1>2. Len(stack) \in Nat /\ Len(stack) >= 1
  BY <1>1 DEF Running
<1>3. IsFrame(Top) /\ Top = stack[Len(stack)]
  BY <1>2 DEF ParserInv, AreCalls, Top
<1>4. PICK f, k : f = Top.f /\ k = Top.pc
  OBVIOUS
<1>5. f \in DOMAIN Code /\ k \in Nat /\ k >= 1 /\ k <= Len(Code[f]) /\ Instr = Code[f][k]
  BY <1>3, <1>4 DEF IsFrame, Known, Running, Instr
<1>6. CASE f # "AttributedPub"
  <2>1. Body(Code[f])
    BY <1>5, <1>6, BodiesKeepTheWay
  <2>2. k \in 1 .. Len(Code[f])
    BY <1>5, <2>1 DEF Body
  <2>3. QED BY <1>2, <1>3, <1>5, <2>1, <2>2 DEF Body
<1>7. CASE f = "AttributedPub"
  <2>1. k \in {1, 2, 3}
    BY <1>5, <1>7, PubCode
  <2>2. CASE k = 2
    BY <1>2, <1>3, <1>4, <1>5, <1>7, <2>2, PubCode
  <2>3. CASE k = 1
    BY <1>2, <1>3, <1>5, <1>7, <2>3, PubCode, FineInstructions DEF Eat
  <2>4. CASE k = 3
    BY <1>2, <1>3, <1>5, <1>7, <2>4, PubCode, FineInstructions, FunctionsAre DEF Jump
  <2>5. QED BY <2>1, <2>2, <2>3, <2>4
<1>8. QED BY <1>6, <1>7

\* What the parser does next on the way.
LEMMA WayIs ==
  ASSUME ParserInv, pending \in Handed
  PROVE  /\ Running
         /\ \/ Instr = <<"jump", "Pub">> /\ peek = pending
            \/ Instr = <<"eat">> /\ Top.f = "Pub" /\ Top.pc = 1 /\ peek = pending
            \/ /\ Instr[1] = "when" /\ cur = pending
               /\ \/ /\ Instr = <<"when", {"fn"}, "Function">>
                     /\ Top.f = "Pub" /\ Top.pc = 2
                  \/ /\ Instr = <<"when", {"struct"}, "Struct">> /\ pending # "fn"
                     /\ Top.f = "Pub" /\ Top.pc = 3
                  \/ /\ Instr = <<"when", {"class"}, "Class">> /\ pending \notin {"fn", "struct"}
                     /\ Top.f = "Pub" /\ Top.pc = 4
                  \/ /\ Instr = <<"when", {"id", "ty", "void"} \cup {"auto"}, "VarDecl">>
                     /\ pending \notin {"fn", "struct"}
            \/ Instr = <<"take">> /\ cur = pending
<1>1. PICK S : stack \in Seq(S)
  BY DEF ParserInv, AreCalls
<1>2. Len(stack) \in Nat /\ Len(stack) >= 1 /\ stack # <<>> /\ Top = stack[Len(stack)]
  BY <1>1 DEF ParserInv, OnTheWay, Top
<1>3. PICK f, k : f = Top.f /\ k = Top.pc
  OBVIOUS
<1>4. Instr = Code[f][k] /\ (Running <=> k <= Len(Code[f]))
  BY <1>2, <1>3 DEF Instr, Running
<1>5. \/ f = "AttributedPub" /\ k = 3 /\ peek = pending
      \/ f = "Pub" /\ k = 1 /\ peek = pending
      \/ f = "Pub" /\ k = 2 /\ cur = pending
      \/ f = "Pub" /\ k = 3 /\ cur = pending /\ pending # "fn"
      \/ f = "Pub" /\ k \in {4, 5} /\ cur = pending /\ pending \notin {"fn", "struct"}
      \/ f \in {"Function", "Struct", "VarDecl"} /\ k = 1 /\ cur = pending
  BY <1>2, <1>3 DEF ParserInv, OnTheWay
<1>6. CASE f = "AttributedPub" /\ k = 3 /\ peek = pending
  BY <1>4, <1>6, PubCode
<1>7. CASE f = "Pub" /\ k = 1 /\ peek = pending
  BY <1>3, <1>4, <1>7, PubCode
<1>8. CASE f = "Pub" /\ k = 2 /\ cur = pending
  BY <1>3, <1>4, <1>8, PubCode
<1>9. CASE f = "Pub" /\ k = 3 /\ cur = pending /\ pending # "fn"
  BY <1>3, <1>4, <1>9, PubCode
<1>10. CASE f = "Pub" /\ k = 4 /\ cur = pending /\ pending \notin {"fn", "struct"}
  BY <1>3, <1>4, <1>10, PubCode
<1>11. CASE f = "Pub" /\ k = 5 /\ cur = pending /\ pending \notin {"fn", "struct"}
  BY <1>3, <1>4, <1>11, PubCode
<1>12. CASE f \in {"Function", "Struct", "VarDecl"} /\ k = 1 /\ cur = pending
  BY <1>3, <1>4, <1>12, PubCode
<1>13. QED BY <1>5, <1>6, <1>7, <1>8, <1>9, <1>10, <1>11, <1>12

-----------------------------------------------------------------------------
(* The steps.                                                               *)
LEMMA Continued ==
  ASSUME ParserInv, Running, NEW c, IsFrame(c), Continue(c)
  PROVE  AreCalls(stack') /\ Len(stack') >= 1 /\ stack'[Len(stack')] = c
<1>1. AreCalls(stack) /\ Len(stack) >= 1
  BY TopIs DEF ParserInv
<1>2. stack' = Append(SubSeq(stack, 1, Len(stack) - 1), c)
  BY DEF Continue, Below
<1>3. QED BY <1>1, <1>2, Replaced

LEMMA Passed ==
  ASSUME ParserInv, Running, Continue(Past)
  PROVE  /\ AreCalls(stack') /\ Len(stack') >= 1
         /\ stack'[Len(stack')].f = Top.f /\ stack'[Len(stack')].pc = Top.pc + 1
<1>1. IsFrame(Past) /\ Past.f = Top.f /\ Past.pc = Top.pc + 1
  BY TopIs, PastIs DEF Past
<1>2. QED BY <1>1, Continued

\* Nothing waits: any step keeps to that.
LEMMA NobodyWaits ==
  ASSUME AreCalls(stack'), pending' \notin Handed
  PROVE  ParserInv'
BY DEF ParserInv, OnTheWay

LEMMA ConsumeStep ==
  ASSUME ParserInv, Consume
  PROVE  ParserInv'
<1>1. Running /\ Instr[1] \in {"eat", "opt", "but", "ifnil"} /\ Continue(Past) /\ pending' = pending
  BY DEF Consume
<1>2. /\ AreCalls(stack') /\ Len(stack') >= 1
      /\ stack'[Len(stack')].f = Top.f /\ stack'[Len(stack')].pc = Top.pc + 1
  BY <1>1, Passed
<1>3. CASE pending \notin Handed
  BY <1>1, <1>2, <1>3, NobodyWaits
<1>4. CASE pending \in Handed
  <2>1. Instr = <<"eat">> /\ Top.f = "Pub" /\ Top.pc = 1 /\ peek = pending
    BY <1>1, <1>4, WayIs
  <2>2. Consumes(Instr)
    BY <2>1 DEF Consumes
  <2>3. cur' = peek
    BY <2>2 DEF Consume, NextToken
  <2>4. QED BY <1>1, <1>2, <2>1, <2>3 DEF ParserInv, OnTheWay
<1>5. QED BY <1>3, <1>4

LEMMA CallsStep ==
  ASSUME ParserInv, Calls \/ Iterate
  PROVE  ParserInv'
<1>1. Running /\ Instr[1] \in {"sub", "if", "loop"} /\ pending' = pending
  BY DEF Calls, Iterate, At
<1>2. pending \notin Handed
  BY <1>1, WayIs
<1>3. IsFrame(Top) /\ Len(stack) >= 1 /\ Fine(Instr)
  BY <1>1, TopIs
<1>4. IsFrame(Past)
  BY <1>3, PastIs DEF Past
<1>5. \/ Continue(Past)
      \/ \E c \in {Past, Top} : \E f : Known(f) /\ Call(c, f)
  <2>1. Instr[1] = "sub" => Known(Instr[2])
    BY <1>3 DEF Fine
  <2>2. Instr[1] \in {"if", "loop"} => Known(Instr[3])
    BY <1>3 DEF Fine
  <2>3. QED BY <1>1, <2>1, <2>2 DEF Calls, Iterate, At
<1>6. AreCalls(stack')
  <2>1. CASE Continue(Past)
    BY <1>1, <2>1, Passed
  <2>2. CASE \E c \in {Past, Top} : \E f : Known(f) /\ Call(c, f)
    <3>1. PICK c, f : c \in {Past, Top} /\ Known(f) /\ Call(c, f)
      BY <2>2
    <3>2. IsFrame(c) /\ IsFrame(Frame(f)) /\ AreCalls(stack)
      BY <1>3, <1>4, <3>1, NewFrame DEF ParserInv
    <3>3. stack' = SubSeq(stack, 1, Len(stack) - 1) \o <<c, Frame(f)>>
      BY <3>1 DEF Call, Below
    <3>4. QED BY <1>3, <3>2, <3>3, Stacked
  <2>3. QED BY <1>5, <2>1, <2>2
<1>7. QED BY <1>1, <1>2, <1>6, NobodyWaits

LEMMA BranchStep ==
  ASSUME ParserInv, Branch
  PROVE  ParserInv'
<1>1. /\ Running /\ Instr[1] \in {"jump", "when", "unless", "pair", "on", "maybe", "same"}
      /\ pending' = pending /\ cur' = cur /\ peek' = peek
  BY DEF Branch
<1>2. IsFrame(Top) /\ Fine(Instr)
  BY <1>1, TopIs
<1>3. Known(Instr[Len(Instr)])
  BY <1>1, <1>2 DEF Fine
<1>4. CASE Jumps(Instr) /\ Continue(GoOn(Instr[Len(Instr)]))
  <2> DEFINE g == Instr[Len(Instr)]
  <2>1. IsFrame(GoOn(g)) /\ GoOn(g).f = g /\ GoOn(g).pc = 1
    BY <1>2, <1>3, GoOnIs DEF GoOn
  <2>2. AreCalls(stack') /\ Len(stack') >= 1 /\ stack'[Len(stack')].f = g /\ stack'[Len(stack')].pc = 1
    BY <1>1, <1>4, <2>1, Continued
  <2>3. CASE pending \notin Handed
    BY <1>1, <2>2, <2>3, NobodyWaits
  <2>4. CASE pending \in Handed
    <3>1. \/ g = "Pub" /\ peek = pending
          \/ g \in {"Function", "Struct", "VarDecl"} /\ cur = pending
      <4>1. Instr[1] = "when" => cur \in Instr[2]
        BY <1>4 DEF Jumps
      <4>2. CASE Instr = <<"jump", "Pub">> /\ peek = pending
        BY <4>2
      <4>3. CASE Instr[1] = "when" /\ cur = pending
        BY <1>1, <2>4, <4>1, <4>3, WayIs DEF Handed
      <4>4. QED BY <1>1, <2>4, <4>2, <4>3, WayIs
    <3> HIDE DEF g
    <3>2. QED BY <1>1, <2>2, <3>1 DEF ParserInv, OnTheWay
  <2>5. QED BY <2>3, <2>4
<1>5. CASE Stays(Instr) /\ Continue(Past)
  <2>1. /\ AreCalls(stack') /\ Len(stack') >= 1
        /\ stack'[Len(stack')].f = Top.f /\ stack'[Len(stack')].pc = Top.pc + 1
    BY <1>1, <1>5, Passed
  <2>2. CASE pending \notin Handed
    BY <1>1, <2>1, <2>2, NobodyWaits
  <2>3. CASE pending \in Handed
    <3>1. Instr[1] = "when" /\ cur \notin Instr[2]
      BY <1>1, <1>5, <2>3, WayIs DEF Stays, Jumps
    <3>2. /\ Top.f = "Pub" /\ cur = pending
          /\ \/ Top.pc = 2 /\ pending # "fn"
             \/ Top.pc \in {3, 4} /\ pending \notin {"fn", "struct"}
      BY <1>1, <2>3, <3>1, WayIs DEF Handed
    <3>3. QED BY <1>1, <2>1, <3>2 DEF ParserInv, OnTheWay
  <2>4. QED BY <2>2, <2>3
<1>6. QED BY <1>4, <1>5 DEF Branch

\* A statement or an operand is one of the functions.
LEMMA SelectedIs ==
  /\ \A c, p : Known(StatementOf(c, p))
  /\ \A c, p : Known(PrimaryOf(c, p))
<1>1. \A c \in DOMAIN StatementWord : Known(StatementWord[c])
  BY FunctionsAre DEF StatementWord
<1>2. \A c \in DOMAIN Attributed : Known(Attributed[c])
  BY FunctionsAre DEF Attributed
<1>3. \A c \in DOMAIN PrimaryWord : Known(PrimaryWord[c])
  BY FunctionsAre DEF PrimaryWord
<1>4. \A c, p : Known(StatementOf(c, p))
  BY <1>1, <1>2, FunctionsAre DEF StatementOf
<1>5. \A c, p : Known(PrimaryOf(c, p))
  BY <1>3, FunctionsAre DEF PrimaryOf
<1>6. QED BY <1>4, <1>5

LEMMA SelectStep ==
  ASSUME ParserInv, Select
  PROVE  ParserInv'
<1>1. Running /\ Instr[1] = "dispatch" /\ pending' = pending
  BY DEF Select, At
<1>2. pending \notin Handed
  BY <1>1, WayIs
<1>3. PICK g : Known(g) /\ Continue(GoOn(g))
  BY SelectedIs DEF Select
<1>4. IsFrame(GoOn(g))
  BY <1>1, <1>3, TopIs, GoOnIs DEF GoOn
<1>5. AreCalls(stack')
  BY <1>1, <1>3, <1>4, Continued
<1>6. QED BY <1>1, <1>2, <1>5, NobodyWaits

LEMMA GiveBackStep ==
  ASSUME ParserInv, GiveBack
  PROVE  ParserInv'
<1>1. pending \notin Handed /\ pending' = pending
  BY WayIs DEF GiveBack
<1>2. AreCalls(stack) /\ Len(stack) >= 1
  <2>1. PICK S : stack \in Seq(S)
    BY DEF ParserInv, AreCalls
  <2>2. QED BY <2>1 DEF ParserInv, GiveBack
<1>3. AreCalls(stack')
  BY <1>2, OneLess DEF GiveBack, Below
<1>4. QED BY <1>1, <1>3, NobodyWaits

LEMMA TokensStep ==
  ASSUME ParserInv, SaveTokens \/ RestoreTokens
  PROVE  ParserInv'
<1>1. Running /\ Instr[1] \in {"save", "restore", "rewind"} /\ pending' = pending
  BY DEF SaveTokens, RestoreTokens, At
<1>2. pending \notin Handed
  BY <1>1, WayIs
<1>3. IsFrame(Past)
  BY <1>1, TopIs, PastIs DEF Past
<1>4. CASE SaveTokens
  <2>1. PICK c : IsFrame(c) /\ Continue(c)
    BY <1>3, <1>4, SaveIs DEF SaveTokens
  <2>2. QED BY <1>1, <1>2, <2>1, Continued, NobodyWaits
<1>5. CASE RestoreTokens
  BY <1>1, <1>2, <1>5, Passed, NobodyWaits DEF RestoreTokens
<1>6. QED BY <1>4, <1>5

LEMMA CountStep ==
  ASSUME ParserInv, CountStatement
  PROVE  ParserInv'
<1>1. Running /\ Instr[1] = "count" /\ pending' = pending
  BY DEF CountStatement, At
<1>2. pending \notin Handed
  BY <1>1, WayIs
<1>3. PICK k, v : stack' = [stack EXCEPT ![k].n = v, ![Len(stack)].pc = @ + 1]
  BY DEF CountStatement
<1>4. PICK S : stack \in Seq(S)
  BY DEF ParserInv, AreCalls
<1>5. DOMAIN stack = 1 .. Len(stack) /\ Len(stack) \in Nat
  BY <1>4
<1> DEFINE mid == [stack EXCEPT ![k].n = v]
<1>6. DOMAIN mid = 1 .. Len(stack) /\ \A i \in 1 .. Len(stack) : IsFrame(mid[i])
  BY <1>5, CountIs DEF ParserInv, AreCalls
<1>7. stack' = [mid EXCEPT ![Len(stack)].pc = @ + 1]
  BY <1>3
<1> HIDE DEF mid
<1>8. DOMAIN stack' = 1 .. Len(stack) /\ \A i \in 1 .. Len(stack) : IsFrame(stack'[i])
  BY <1>5, <1>6, <1>7, PastIs
<1>9. AreCalls(stack')
  <2>1. PICK R : R = {stack'[i] : i \in 1 .. Len(stack)}
    OBVIOUS
  <2>2. stack' = [i \in 1 .. Len(stack) |-> stack'[i]]
    BY <1>6, <1>7, <1>8
  <2>3. stack' \in Seq(R) /\ Len(stack') = Len(stack)
    BY <1>5, <2>1, <2>2
  <2>4. QED BY <1>8, <2>3 DEF AreCalls
<1>10. QED BY <1>1, <1>2, <1>9, NobodyWaits

LEMMA TakeStep ==
  ASSUME ParserInv, TakeAttributes
  PROVE  ParserInv'
<1>1. Running /\ Instr[1] = "take" /\ Continue(Past)
  BY DEF TakeAttributes, At
<1>2. pending' \notin Handed
  <2>1. CASE cur = "attr"
    <3>1. pending' = pending
      BY <2>1 DEF TakeAttributes
    <3>2. pending \in Handed => cur = pending
      BY <1>1, WayIs
    <3>3. QED BY <2>1, <3>1, <3>2 DEF Handed
  <2>2. CASE cur # "attr"
    BY <2>2 DEF TakeAttributes, NoPub, Handed
  <2>3. QED BY <2>1, <2>2
<1>3. QED BY <1>1, <1>2, Passed, NobodyWaits

LEMMA KeepStep ==
  ASSUME ParserInv, KeepAttributes
  PROVE  ParserInv'
<1>1. Running /\ Instr[1] = "pend" /\ Continue(Past) /\ pending' = peek /\ peek' = peek
  BY DEF KeepAttributes, At
<1>2. Top.f = "AttributedPub" /\ Top.pc = 2
  BY <1>1, TopIs DEF Fine
<1>3. /\ AreCalls(stack') /\ Len(stack') >= 1
      /\ stack'[Len(stack')].f = Top.f /\ stack'[Len(stack')].pc = Top.pc + 1
  BY <1>1, Passed
<1>4. QED BY <1>1, <1>2, <1>3 DEF ParserInv, OnTheWay

\* When a statement begins, the attributes written in front of a pub function,
\* structure or variable have been taken by it (parseStatementIterative,
\* parsePubStatementIterative), for a text of any length over any kinds of
\* tokens.
THEOREM AttributesReachTheirDeclaration == ParserSpec => []AttributesTaken
<1>1. ParserInit => ParserInv
  <2>1. SUFFICES ASSUME ParserInit PROVE ParserInv
    OBVIOUS
  <2>2. PICK c : c = Frame("Program") /\ IsFrame(c)
    BY FunctionsAre, NewFrame
  <2>3. stack = <<c>> /\ pending \notin Handed
    <3>1. stack = <<c>>
      BY <2>1, <2>2 DEF ParserInit
    <3>2. pending = "none"
      BY <2>1 DEF ParserInit, NoPub
    <3>3. QED BY <3>1, <3>2 DEF Handed
  <2>4. stack \in Seq({c}) /\ \A i \in 1 .. Len(stack) : stack[i] = c
    BY <2>3
  <2>5. QED BY <2>2, <2>3, <2>4 DEF ParserInv, AreCalls, OnTheWay
<1>2. ParserInv /\ [ParserNext]_(parserVars) => ParserInv'
  <2>1. SUFFICES ASSUME ParserInv, [ParserNext]_(parserVars) PROVE ParserInv'
    OBVIOUS
  <2>2. CASE UNCHANGED parserVars
    BY <2>1, <2>2 DEF parserVars, ParserInv
  <2>3. CASE ParserStep
    BY <2>1, <2>3, ConsumeStep, CallsStep, BranchStep, SelectStep, GiveBackStep, TokensStep,
       CountStep, TakeStep, KeepStep DEF ParserStep
  <2>4. QED BY <2>1, <2>2, <2>3 DEF ParserNext, Ended
<1>3. ParserInv => AttributesTaken
  <2>1. SUFFICES ASSUME ParserInv, At("dispatch"), pending \in Handed PROVE FALSE
    BY DEF AttributesTaken, TypeName, Handed
  <2>2. Instr[1] = "dispatch"
    BY <2>1 DEF At
  <2>3. QED BY <2>1, <2>2, WayIs
<1>4. QED BY <1>1, <1>2, <1>3, PTL DEF ParserSpec
=============================================================================
