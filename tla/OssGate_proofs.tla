--------------------------- MODULE OssGate_proofs ----------------------------
(***************************************************************************)
(* What the release scripts guarantee for every tree, every set of edits   *)
(* made while they run and every order in which names are listed; and that *)
(* the safety check and the boundary check each implement FileAudit.       *)
(***************************************************************************)
EXTENDS OssGate, SequenceTheorems, TLAPS

(***************************************************************************)
(* Paths and the directories above them.                                   *)
(***************************************************************************)
LEMMA AboveTransitive ==
    ASSUME NEW S, NEW path \in Seq(S), NEW e \in Above(path), NEW d \in Above(e)
    PROVE  d \in Above(path)
<1>1. PICK n \in 0..(Len(path) - 1) : e = SubSeq(path, 1, n)
  BY DEF Above
<1>2. Len(e) = n
  BY <1>1
<1>3. PICK m \in 0..(n - 1) : d = SubSeq(e, 1, m)
  BY <1>2 DEF Above
<1>4. d = SubSeq(path, 1, m)
  BY <1>1, <1>3
<1> QED
  BY <1>4 DEF Above

\* Below a directory on the way to a path lies the next one, or the path itself.
LEMMA NextOnTheWay ==
    ASSUME NEW S, NEW path \in Seq(S), NEW d \in Above(path), d # DirOf(path)
    PROVE  \E e \in Above(path) :
              /\ e # <<>> /\ DirOf(e) = d
              /\ Base(e) = path[Len(e)] /\ Len(e) \in 1..(Len(path) - 1)
<1>1. PICK n \in 0..(Len(path) - 1) : d = SubSeq(path, 1, n)
  BY DEF Above
<1>2. n # Len(path) - 1
  BY <1>1 DEF DirOf
<1> DEFINE e == SubSeq(path, 1, n + 1)
<1>3. e \in Above(path)
  BY <1>2 DEF Above
<1>4. Len(e) = n + 1 /\ \A i \in 1..(n + 1) : e[i] = path[i]
  BY <1>2
<1>5. SubSeq(e, 1, n) = d
  BY <1>1, <1>2, <1>4
<1> HIDE DEF e
<1>6. e # <<>>
  BY <1>4
<1> QED
  BY <1>2, <1>3, <1>4, <1>5, <1>6 DEF DirOf, Base

LEMMA Front ==
    ASSUME NEW S, NEW path \in Seq(S), path # <<>>
    PROVE  /\ Len(path) \in Nat \ {0} /\ Len(DirOf(path)) = Len(path) - 1
           /\ \A n \in 1..(Len(path) - 1) : DirOf(path)[n] = path[n]
<1>1. Len(path) \in Nat \ {0}
  OBVIOUS
<1>2. PICK m \in 0..(Len(path) - 1) : m = Len(path) - 1
  BY <1>1
<1>3. DirOf(path) = SubSeq(path, 1, m)
  BY <1>2 DEF DirOf
<1>4. Len(SubSeq(path, 1, m)) = m /\ \A n \in 1..m : SubSeq(path, 1, m)[n] = path[n]
  BY <1>1, <1>2
<1> QED
  BY <1>1, <1>2, <1>3, <1>4

(***************************************************************************)
(* Types.                                                                  *)
(***************************************************************************)
LEMMA TreeTypeStep ==
    ASSUME TreeTypeOK, Forget \/ UNCHANGED past \/ Others,
           Others \/ UNCHANGED <<tracked, file, edited, edits>>
    PROVE  TreeTypeOK'
<1> USE CheckoutAssumption DEF TreeTypeOK
<1>1. ASSUME NEW tree \in [Path -> Content \cup {Absent}], Becomes(tree)
      PROVE  TreeTypeOK'
  BY <1>1 DEF Becomes
<1>2. CASE Others
  <2>1. ASSUME NEW edit \in Edit, WriteFile(edit[1], edit[2])
        PROVE  TreeTypeOK'
    <3>1. edit[1] \in Path /\ edit[2] \in Content
      BY <2>1 DEF WriteFile
    <3> QED
      BY <1>1, <2>1, <3>1 DEF WriteFile
  <2>2. ASSUME NEW edit \in Edit, DeleteFile(edit[1])
        PROVE  TreeTypeOK'
    BY <1>1, <2>2 DEF DeleteFile
  <2>3. ASSUME NEW dir \in Removable, RemoveDir(dir)
        PROVE  TreeTypeOK'
    BY <1>1, <2>3 DEF RemoveDir
  <2> QED
    BY <1>2, <2>1, <2>2, <2>3 DEF Others
<1>3. CASE UNCHANGED <<tracked, file, edited, edits>> /\ (Forget \/ UNCHANGED past)
  BY <1>3 DEF Forget
<1> QED
  BY <1>2, <1>3

LEMMA LineHitsType ==
    ASSUME NEW c \in Content \cup {Absent}
    PROVE  LineHits(c) \subseteq LineFinding
<1>1. CASE c = Absent
  BY <1>1 DEF LineHits
<1>2. CASE c # Absent
  <2>1. c.lines \in Seq(SUBSET Pattern)
    BY <1>2, CheckoutAssumption
  <2>2. DOMAIN c.lines \subseteq Nat
    BY <2>1
  <2> QED
    BY <2>2 DEF LineHits, LineFinding
<1> QED
  BY <1>1, <1>2

LEMMA SafetyTypeStep ==
    ASSUME TreeTypeOK, SafetyTypeOK, SafetyStep
    PROVE  SafetyTypeOK'
<1> USE DEF TreeTypeOK, SafetyTypeOK
<1>1. CASE ListTracked \/ ListFails
  BY <1>1 DEF ListTracked, ListFails, treeVars
<1>2. ASSUME NEW path \in Path, JudgeFile(path)
      PROVE  SafetyTypeOK'
  <2>1. ForbiddenRules(path) \subseteq SafetyRule
    BY DEF ForbiddenRules
  <2>2. pathHits' \subseteq Path \X SafetyRule
    BY <1>2, <2>1 DEF JudgeFile
  <2> QED
    BY <1>2, <2>2 DEF JudgeFile
<1>3. ASSUME NEW path \in Path, ReadTracked(path)
      PROVE  SafetyTypeOK'
  <2>1. LineHits(file[path]) \subseteq LineFinding
    BY LineHitsType
  <2>2. contentHits' \subseteq Path \X LineFinding
    BY <1>3, <2>1 DEF ReadTracked
  <2> QED
    BY <1>3, <2>2 DEF ReadTracked
<1>4. CASE SafetyVerdict
  BY <1>4 DEF SafetyVerdict
<1> QED
  BY <1>1, <1>2, <1>3, <1>4 DEF SafetyStep

LEMMA BoundaryTypeStep ==
    ASSUME BoundaryTypeOK, BoundaryStep
    PROVE  BoundaryTypeOK'
<1> USE DEF BoundaryTypeOK
<1>1. CASE StartWalk \/ UnknownProfile
  BY <1>1 DEF StartWalk, UnknownProfile
<1>2. ASSUME NEW dir, ListDir(dir) \/ ListDirThrows(dir)
      PROVE  BoundaryTypeOK'
  <2>1. FilesIn(dir) \subseteq Path
    BY DEF FilesIn
  <2> QED
    BY <1>2, <2>1 DEF ListDir, ListDirThrows
<1>3. CASE JudgePaths
  BY <1>3 DEF JudgePaths
<1>4. ASSUME NEW path \in Path, StatFile(path)
      PROVE  BoundaryTypeOK'
  BY <1>4 DEF StatFile
<1>5. ASSUME NEW path \in Path, ReadListed(path)
      PROVE  BoundaryTypeOK'
  <2>1. Secrets(file[path]) \subseteq BoundaryPattern
    BY DEF Secrets
  <2>2. secrets' \subseteq files \X BoundaryPattern
    BY <1>5, <2>1 DEF ReadListed
  <2> QED
    BY <1>5, <2>2 DEF ReadListed
<1>6. CASE BoundaryVerdict
  BY <1>6 DEF BoundaryVerdict
<1> QED
  BY <1>1, <1>2, <1>3, <1>4, <1>5, <1>6 DEF BoundaryStep

LEMMA SmokeTypeStep ==
    ASSUME SmokeTypeOK, SmokeStep
    PROVE  SmokeTypeOK'
<1> USE DEF SmokeTypeOK, Stage
<1>0. Len(Probes) = 11
  BY DEF Probes
<1>1. CASE StartSmoke \/ MakeTemp
  BY <1>1 DEF StartSmoke, MakeTemp
<1>2. CASE Probe
  BY <1>0, <1>2 DEF Probe
<1>3. CASE GitInit \/ Walkthrough
  BY <1>3 DEF GitInit, Walkthrough
<1>4. CASE WritePlan \/ ListCandidates
  BY <1>4 DEF WritePlan, ListCandidates
<1>5. CASE CleanUp
  BY <1>5 DEF CleanUp
<1> QED
  BY <1>1, <1>2, <1>3, <1>4, <1>5 DEF SmokeStep

\* What each step of a script does to the tree and its history.
LEMMA StepOnTree ==
    /\ SafetyStep => UNCHANGED <<tracked, file, dirs, edited, edits>>
                     /\ (UNCHANGED past \/ (safety = "idle" /\ safety' = "judging" /\ Forget))
    /\ BoundaryStep => UNCHANGED <<tracked, file, dirs, edited, edits, profile>>
                     /\ (UNCHANGED past \/ (boundary = "idle" /\ boundary' = "walking" /\ Forget))
    /\ SmokeStep => UNCHANGED treeVars
<1>1. ASSUME SafetyStep
      PROVE  /\ UNCHANGED <<tracked, file, dirs, edited, edits>>
             /\ UNCHANGED past \/ (safety = "idle" /\ safety' = "judging" /\ Forget)
  <2>1. CASE ListTracked
    BY <2>1 DEF ListTracked
  <2>2. CASE ListFails \/ SafetyVerdict
    BY <2>2 DEF ListFails, SafetyVerdict, treeVars
  <2>3. CASE \E path \in Path : JudgeFile(path) \/ ReadTracked(path)
    BY <2>3 DEF JudgeFile, ReadTracked, treeVars
  <2> QED
    BY <1>1, <2>1, <2>2, <2>3 DEF SafetyStep
<1>2. ASSUME BoundaryStep
      PROVE  /\ UNCHANGED <<tracked, file, dirs, edited, edits, profile>>
             /\ UNCHANGED past \/ (boundary = "idle" /\ boundary' = "walking" /\ Forget)
  <2>1. CASE StartWalk
    BY <2>1 DEF StartWalk
  <2>2. CASE UnknownProfile \/ JudgePaths \/ BoundaryVerdict
    BY <2>2 DEF UnknownProfile, JudgePaths, BoundaryVerdict, treeVars
  <2>3. CASE \E dir \in unread : ListDir(dir) \/ ListDirThrows(dir)
    BY <2>3 DEF ListDir, ListDirThrows, treeVars
  <2>4. CASE \E path \in Path : StatFile(path) \/ ReadListed(path)
    BY <2>4 DEF StatFile, ReadListed, treeVars
  <2> QED
    BY <1>2, <2>1, <2>2, <2>3, <2>4 DEF BoundaryStep
<1>3. SmokeStep => UNCHANGED treeVars
  BY DEF SmokeStep, StartSmoke, Probe, MakeTemp, GitInit, Walkthrough, WritePlan,
         ListCandidates, CleanUp, Stage
<1> QED
  BY <1>1, <1>2, <1>3

\* Every step of the gate is one of four kinds.
LEMMA Kinds ==
    ASSUME [Next]_gateVars
    PROVE  \/ gate = "oss:check" /\ SafetyStep /\ UNCHANGED <<boundaryVars, smokeVars, gate>>
           \/ gate = "oss:check:boundary" /\ BoundaryStep /\ UNCHANGED <<safetyVars, smokeVars, gate>>
           \/ gate = "cli:smoke" /\ SmokeStep /\ UNCHANGED <<safetyVars, boundaryVars, gate>>
           \/ Others /\ UNCHANGED <<safetyVars, boundaryVars, smokeVars, gate>>
           \/ UNCHANGED <<treeVars, safetyVars, boundaryVars, smokeVars>>
BY DEF Next, GateStep, OssCheck, OssCheckEnds, OssCheckBoundary, OssCheckBoundaryEnds,
       CliHelp, CliSmoke, CliSmokeEnds, HandOver, Kill, Edits, gateVars

\* The type invariant holds of every reachable state.
THEOREM TypeCorrect == Spec => []TypeOK
<1>1. Init => TypeOK
  <2> SUFFICES ASSUME Init PROVE TypeOK
    OBVIOUS
  <2>1. TreeTypeOK
    BY CheckoutAssumption DEF Init, InitTree, TreeTypeOK
  <2>2. SafetyTypeOK /\ BoundaryTypeOK
    BY DEF Init, InitSafety, SafetyTypeOK, InitBoundary, BoundaryTypeOK
  <2>3. SmokeTypeOK
    <3>1. Len(Probes) = 11
      BY DEF Probes
    <3>2. probe \in 0..Len(Probes)
      BY <3>1 DEF Init, InitSmoke
    <3>3. error \in BOOLEAN
      BY DEF Init, InitSmoke
    <3> QED
      BY <3>2, <3>3 DEF Init, InitSmoke, SmokeTypeOK
  <2> QED
    BY <2>1, <2>2, <2>3 DEF Init, TypeOK, Ended
<1>2. TypeOK /\ [Next]_gateVars => TypeOK'
  <2> SUFFICES ASSUME TypeOK, [Next]_gateVars
               PROVE  TypeOK'
    OBVIOUS
  <2>1. gate' \in {"oss:check", "oss:check:boundary", "cli:help", "cli:smoke"} \cup Ended
    BY DEF TypeOK, Ended, Next, GateStep, OssCheck, OssCheckEnds, OssCheckBoundary,
           OssCheckBoundaryEnds, CliHelp, CliSmoke, CliSmokeEnds, HandOver, Kill, Edits, gateVars
  <2>2. TreeTypeOK'
    BY Kinds, StepOnTree, TreeTypeStep DEF TypeOK, treeVars
  <2>3. SafetyTypeOK'
    BY Kinds, SafetyTypeStep DEF TypeOK, SafetyTypeOK, safetyVars
  <2>4. BoundaryTypeOK'
    BY Kinds, BoundaryTypeStep DEF TypeOK, BoundaryTypeOK, boundaryVars
  <2>5. SmokeTypeOK'
    BY Kinds, SmokeTypeStep DEF TypeOK, SmokeTypeOK, smokeVars
  <2> QED
    BY <2>1, <2>2, <2>3, <2>4, <2>5 DEF TypeOK
<1> QED
  BY <1>1, <1>2, PTL DEF Spec

(***************************************************************************)
(* The tree, its history and its directories.                              *)
(***************************************************************************)
Name == Seq(STRING)

History ==
    \A path \in Path : /\ file[path] \in past[path]
                       /\ path \notin edited => past[path] = {file[path]}

\* Whatever is in the tree has its directories, and directories are paths.
Directories ==
    /\ dirs \subseteq Seq(Name)
    /\ \A path \in Path : file[path] # Absent => Above(path) \subseteq dirs

LEMMA PathsAreSequences ==
    ASSUME NEW path \in Path
    PROVE  path \in Seq(Name) /\ Len(path) \in Nat \ {0} /\ Above(path) \subseteq Seq(Name)
<1>1. path \in Seq(Name) /\ Len(path) \in Nat \ {0}
  BY CheckoutAssumption DEF Name
<1>2. ASSUME NEW n \in 0..(Len(path) - 1) PROVE SubSeq(path, 1, n) \in Seq(Name)
  BY <1>1
<1> QED
  BY <1>1, <1>2 DEF Above

LEMMA TreeChange ==
    ASSUME TreeTypeOK, History, Directories, Others
    PROVE  /\ History' /\ Directories'
           /\ \A path \in Path : past[path] \subseteq past'[path]
           /\ tracked' = tracked /\ edited \subseteq edited'
           /\ \A path \in Path \ edited' : file'[path] = file[path]
<1> USE CheckoutAssumption DEF TreeTypeOK
<1>1. ASSUME NEW tree \in [Path -> Content \cup {Absent}], Becomes(tree)
      PROVE  /\ History' /\ file' = tree
             /\ \A path \in Path : past[path] \subseteq past'[path]
             /\ tracked' = tracked /\ edited \subseteq edited'
             /\ \A path \in Path \ edited' : file'[path] = file[path]
  BY <1>1 DEF Becomes, History
<1>2. ASSUME NEW edit \in Edit, WriteFile(edit[1], edit[2])
      PROVE  /\ Becomes([file EXCEPT ![edit[1]] = edit[2]])
             /\ [file EXCEPT ![edit[1]] = edit[2]] \in [Path -> Content \cup {Absent}]
             /\ file' = [file EXCEPT ![edit[1]] = edit[2]] => Directories'
  <2>1. edit[1] \in Path /\ edit[2] \in Content
    BY <1>2 DEF WriteFile
  <2>2. Above(edit[1]) \subseteq Seq(Name)
    BY <2>1, PathsAreSequences
  <2>3. dirs' = dirs \cup Above(edit[1])
    BY <1>2 DEF WriteFile
  <2> QED
    BY <1>2, <2>1, <2>2, <2>3 DEF WriteFile, Directories
<1>3. ASSUME NEW edit \in Edit, DeleteFile(edit[1])
      PROVE  /\ Becomes([file EXCEPT ![edit[1]] = Absent])
             /\ [file EXCEPT ![edit[1]] = Absent] \in [Path -> Content \cup {Absent}]
             /\ file' = [file EXCEPT ![edit[1]] = Absent] => Directories'
  BY <1>3 DEF DeleteFile, Directories
<1>4. ASSUME NEW dir \in Removable, RemoveDir(dir)
      PROVE  LET tree == [path \in Path |-> IF dir \in Above(path) THEN Absent ELSE file[path]]
             IN  /\ Becomes(tree)
                 /\ tree \in [Path -> Content \cup {Absent}]
                 /\ file' = tree => Directories'
  <2> DEFINE tree == [path \in Path |-> IF dir \in Above(path) THEN Absent ELSE file[path]]
  <2>1. Becomes(tree) /\ tree \in [Path -> Content \cup {Absent}]
    BY <1>4 DEF RemoveDir
  <2>2. ASSUME file' = tree, NEW path \in Path, file'[path] # Absent, NEW e \in Above(path)
        PROVE  e \in dirs'
    <3>1. dir \notin Above(path) /\ file[path] # Absent
      BY <2>2
    <3>2. dir \notin Above(e)
      BY <3>1, PathsAreSequences, AboveTransitive
    <3>3. e \in dirs
      BY <3>1 DEF Directories
    <3> QED
      BY <1>4, <2>2, <3>1, <3>2, <3>3 DEF RemoveDir
  <2>3. dirs' \subseteq Seq(Name)
    BY <1>4 DEF RemoveDir, Directories
  <2> QED
    BY <2>1, <2>2, <2>3 DEF Directories
<1> QED
  BY <1>1, <1>2, <1>3, <1>4 DEF Others

(***************************************************************************)
(* The order of the scripts, and what is empty before each begins.         *)
(***************************************************************************)
InOrder ==
    /\ gate = "oss:check" => boundary = "idle" /\ smoke = "idle"
    /\ gate \in {"oss:check:boundary", "cli:help", "cli:smoke", "passed"} => safety = "passed"
    /\ gate \in {"cli:help", "cli:smoke", "passed"} => boundary = "passed"

Fresh ==
    /\ safety = "idle" => todo = {} /\ reading = {} /\ pathHits = {} /\ envHits = {} /\ contentHits = {}
    /\ boundary = "idle" => files = {}
    /\ boundary \in {"idle", "walking"} =>
           unscanned = {} /\ scanning = {} /\ missing = {} /\ forbidden = {} /\ secrets = {}
    /\ boundary \in {"scanning", "passed"} => unread = {}

LEMMA InOrderStep ==
    ASSUME InOrder, [Next]_gateVars
    PROVE  InOrder'
<1> USE DEF InOrder
<1>1. CASE OssCheck
  BY <1>1 DEF OssCheck, boundaryVars, smokeVars
<1>2. CASE OssCheckEnds
  BY <1>2 DEF OssCheckEnds, HandOver, safetyVars, boundaryVars, smokeVars
<1>3. CASE OssCheckBoundary
  BY <1>3 DEF OssCheckBoundary, safetyVars, smokeVars
<1>4. CASE OssCheckBoundaryEnds
  BY <1>4 DEF OssCheckBoundaryEnds, HandOver, safetyVars, boundaryVars, smokeVars
<1>5. CASE CliHelp \/ CliSmoke \/ CliSmokeEnds
  BY <1>5 DEF CliHelp, CliSmoke, CliSmokeEnds, HandOver, safetyVars, boundaryVars, smokeVars
<1>6. CASE Kill
  BY <1>6 DEF Kill, safetyVars, boundaryVars, smokeVars
<1>7. CASE Edits \/ UNCHANGED gateVars
  BY <1>7 DEF Edits, gateVars, safetyVars, boundaryVars, smokeVars
<1> QED
  BY <1>1, <1>2, <1>3, <1>4, <1>5, <1>6, <1>7 DEF Next, GateStep

LEMMA FreshStep ==
    ASSUME Fresh, [Next]_gateVars
    PROVE  Fresh'
<1> USE DEF Fresh
<1>1. CASE SafetyStep /\ UNCHANGED boundaryVars
  <2>1. CASE ListTracked \/ ListFails \/ SafetyVerdict
    BY <1>1, <2>1 DEF ListTracked, ListFails, SafetyVerdict, boundaryVars
  <2>2. CASE \E path \in Path : JudgeFile(path) \/ ReadTracked(path)
    BY <1>1, <2>2 DEF JudgeFile, ReadTracked, boundaryVars
  <2> QED
    BY <1>1, <2>1, <2>2 DEF SafetyStep
<1>2. CASE BoundaryStep /\ UNCHANGED safetyVars
  <2>1. CASE StartWalk \/ UnknownProfile \/ JudgePaths \/ BoundaryVerdict
    BY <1>2, <2>1 DEF StartWalk, UnknownProfile, JudgePaths, BoundaryVerdict, safetyVars
  <2>2. CASE \E dir \in unread : ListDir(dir) \/ ListDirThrows(dir)
    BY <1>2, <2>2 DEF ListDir, ListDirThrows, safetyVars
  <2>3. CASE \E path \in Path : StatFile(path) \/ ReadListed(path)
    BY <1>2, <2>3 DEF StatFile, ReadListed, safetyVars
  <2> QED
    BY <1>2, <2>1, <2>2, <2>3 DEF BoundaryStep
<1>3. CASE UNCHANGED <<safetyVars, boundaryVars>>
  BY <1>3 DEF safetyVars, boundaryVars
<1> QED
  BY <1>1, <1>2, <1>3, Kinds

(***************************************************************************)
(* The walk.                                                               *)
(***************************************************************************)
\* No name of the directory is skipped.
Clear(dir) == \A n \in 1..Len(dir) : dir[n] \notin SkippedNames

\* While the walk goes on, a path that was a file all along and is not listed lies
\* below a directory that is still on the stack.
WalkInv ==
    /\ \A dir \in unread : dir \in Seq(Name) /\ Clear(dir)
    /\ boundary \in {"walking", "scanning", "passed"} =>
           \A path \in Path :
               /\ path \in files => Walked(path) /\ \E c \in past[path] : IsFile(c)
               /\ path \notin files /\ Walked(path) /\ (\A c \in past[path] : IsFile(c))
                      => \E dir \in unread : dir \in Above(path)

\* The directories and files listed with a directory of the walk are of the walk.
LEMMA Listed ==
    ASSUME Directories, NEW dir \in Seq(Name), Clear(dir)
    PROVE  /\ \A sub \in SubDirs(dir) :
                 Base(sub) \notin SkippedNames => sub \in Seq(Name) /\ Clear(sub)
           /\ \A path \in FilesIn(dir) : Walked(path)
<1>1. ASSUME NEW sub \in SubDirs(dir), Base(sub) \notin SkippedNames
      PROVE  sub \in Seq(Name) /\ Clear(sub)
  <2>1. sub \in Seq(Name) /\ sub # <<>> /\ dir = DirOf(sub)
    BY <1>1 DEF SubDirs, Directories
  <2>2. /\ Len(sub) \in Nat \ {0} /\ Len(dir) = Len(sub) - 1
        /\ \A n \in 1..(Len(sub) - 1) : dir[n] = sub[n]
    BY <2>1, Front
  <2>3. ASSUME NEW n \in 1..Len(sub) PROVE sub[n] \notin SkippedNames
    BY <1>1, <2>2 DEF Clear, Base
  <2> QED
    BY <2>1, <2>3 DEF Clear
<1>2. ASSUME NEW path \in FilesIn(dir)
      PROVE  Walked(path)
  <2>1. path \in Seq(Name) /\ Len(path) \in Nat \ {0} /\ dir = DirOf(path)
    BY PathsAreSequences DEF FilesIn
  <2>2. Len(dir) = Len(path) - 1 /\ \A n \in 1..(Len(path) - 1) : dir[n] = path[n]
    BY <2>1, Front
  <2> QED
    BY <2>2 DEF Walked, Clear
<1> QED
  BY <1>1, <1>2

LEMMA ListDirStep ==
    ASSUME TreeTypeOK, History, Directories, WalkInv, NEW dir \in unread, ListDir(dir)
    PROVE  WalkInv'
<1>1. /\ unread' = (unread \ {dir}) \cup {sub \in SubDirs(dir) : Base(sub) \notin SkippedNames}
      /\ files' = files \cup FilesIn(dir)
      /\ boundary = "walking" /\ boundary' = "walking"
      /\ past' = past /\ file' = file
  BY DEF ListDir, treeVars
<1>2. dir \in Seq(Name) /\ Clear(dir)
  BY DEF WalkInv
<1>3. \A d \in unread' : d \in Seq(Name) /\ Clear(d)
  BY <1>1, <1>2, Listed DEF WalkInv
<1>4. ASSUME NEW path \in Path, path \in files'
      PROVE  Walked(path) /\ \E c \in past[path] : IsFile(c)
  <2>1. CASE path \in files
    BY <1>1, <2>1 DEF WalkInv
  <2>2. CASE path \in FilesIn(dir)
    BY <1>2, <2>2, Listed DEF FilesIn, History
  <2> QED
    BY <1>1, <1>4, <2>1, <2>2
<1>5. ASSUME NEW path \in Path, path \notin files', Walked(path), \A c \in past[path] : IsFile(c)
      PROVE  \E d \in unread' : d \in Above(path)
  <2>1. PICK d \in unread : d \in Above(path)
    BY <1>1, <1>5 DEF WalkInv
  <2>2. CASE d # dir
    BY <1>1, <2>1, <2>2
  <2>3. CASE d = dir
    <3>1. IsFile(file[path])
      BY <1>5 DEF History
    <3>2. dir # DirOf(path)
      BY <1>1, <1>5, <3>1 DEF FilesIn
    <3>3. PICK e \in Above(path) : /\ e # <<>> /\ DirOf(e) = dir
                                   /\ Base(e) = path[Len(e)] /\ Len(e) \in 1..(Len(path) - 1)
      BY <2>1, <2>3, <3>2, PathsAreSequences, NextOnTheWay
    <3>4. e \in dirs
      BY <3>1, <3>3 DEF IsFile, Directories
    <3>5. Base(e) \notin SkippedNames
      BY <1>5, <3>3 DEF Walked
    <3> QED
      BY <1>1, <3>3, <3>4, <3>5 DEF SubDirs
  <2> QED
    BY <2>2, <2>3
<1> QED
  BY <1>1, <1>3, <1>4, <1>5 DEF WalkInv

LEMMA WalkStep ==
    ASSUME TypeOK, History, Directories, InOrder, Fresh, Fresh', WalkInv, [Next]_gateVars
    PROVE  WalkInv'
<1>1. CASE gate = "oss:check" /\ SafetyStep /\ UNCHANGED boundaryVars
  BY <1>1 DEF WalkInv, InOrder, boundaryVars
<1>2. CASE BoundaryStep
  <2>1. CASE StartWalk
    <3>1. unread' = {<<>>} /\ files' = {} /\ file' = file /\ past' = [path \in Path |-> {file[path]}]
      BY <2>1 DEF StartWalk, Fresh, Forget
    <3>2. <<>> \in Seq(Name) /\ Clear(<<>>)
      BY DEF Clear
    <3>3. ASSUME NEW path \in Path PROVE <<>> \in Above(path)
      <4>1. SubSeq(path, 1, 0) = <<>> /\ 0 \in 0..(Len(path) - 1)
        BY PathsAreSequences
      <4> QED
        BY <4>1 DEF Above
    <3> QED
      BY <3>1, <3>2, <3>3 DEF WalkInv
  <2>2. ASSUME NEW dir \in unread, ListDir(dir)
        PROVE  WalkInv'
    BY <2>2, ListDirStep DEF TypeOK
  <2>3. CASE UnknownProfile \/ BoundaryVerdict \/ JudgePaths
    BY <2>3 DEF UnknownProfile, BoundaryVerdict, JudgePaths, treeVars, WalkInv
  <2>4. CASE \E dir \in unread : ListDirThrows(dir)
    BY <2>4 DEF ListDirThrows, treeVars, WalkInv
  <2>5. CASE \E path \in Path : StatFile(path) \/ ReadListed(path)
    BY <2>5 DEF StatFile, ReadListed, treeVars, WalkInv
  <2> QED
    BY <1>2, <2>1, <2>2, <2>3, <2>4, <2>5 DEF BoundaryStep
<1>3. CASE Others /\ UNCHANGED boundaryVars
  <2>1. \A path \in Path : past[path] \subseteq past'[path]
    BY <1>3, TreeChange DEF TypeOK
  <2> QED
    BY <1>3, <2>1 DEF WalkInv, boundaryVars
<1>4. CASE UNCHANGED <<treeVars, boundaryVars>>
  BY <1>4 DEF WalkInv, treeVars, boundaryVars
<1>5. CASE SmokeStep /\ UNCHANGED boundaryVars
  BY <1>5, <1>4, StepOnTree
<1> QED
  BY <1>1, <1>2, <1>3, <1>4, <1>5, Kinds

LEMMA TreeStep ==
    ASSUME TreeTypeOK, History, Directories, [Next]_gateVars
    PROVE  History' /\ Directories'
<1>1. CASE Others
  BY <1>1, TreeChange
<1>2. CASE UNCHANGED <<tracked, file, dirs, edited, edits>> /\ (UNCHANGED past \/ Forget)
  BY <1>2 DEF Forget, History, Directories
<1>3. CASE UNCHANGED treeVars
  BY <1>2, <1>3 DEF treeVars
<1> QED
  BY <1>1, <1>2, <1>3, Kinds, StepOnTree

BaseInv == TypeOK /\ History /\ Directories /\ InOrder /\ Fresh /\ WalkInv

LEMMA BaseInvariant == Spec => []BaseInv
<1>1. Init => History /\ Directories /\ InOrder /\ Fresh /\ WalkInv
  <2> SUFFICES ASSUME Init
               PROVE  History /\ Directories /\ InOrder /\ Fresh /\ WalkInv
    OBVIOUS
  <2>1. History
    BY CheckoutAssumption DEF Init, InitTree, History
  <2>2. Directories
    <3>1. <<>> \in Seq(Name)
      OBVIOUS
    <3> QED
      BY <3>1, PathsAreSequences DEF Init, InitTree, Directories
  <2>3. InOrder /\ Fresh /\ WalkInv
    BY DEF Init, InitSafety, InitBoundary, InitSmoke, InOrder, Fresh, WalkInv
  <2> QED
    BY <2>1, <2>2, <2>3
<1>2. TypeOK /\ History /\ Directories /\ InOrder /\ Fresh /\ WalkInv /\ [Next]_gateVars
          => (History /\ Directories /\ InOrder /\ Fresh /\ WalkInv)'
  BY TreeStep, InOrderStep, FreshStep, WalkStep DEF TypeOK
<1> QED
  BY <1>1, <1>2, TypeCorrect, PTL DEF Spec, BaseInv

\* The walk of the boundary check leaves no file out that was there all along, whatever
\* directories and files others make and remove while it is under way.
THEOREM WalkComplete == Spec => []WalkMissesNothing
<1>1. BaseInv => WalkMissesNothing
  BY DEF BaseInv, WalkInv, WalkMissesNothing
<1> QED
  BY <1>1, BaseInvariant, PTL

(***************************************************************************)
(* The temporary directory of the smoke check.                             *)
(***************************************************************************)
TempInv == smoke \in {"idle", "probing", "passed", "failed"} => tmp = {}

\* Whatever fails in the smoke check, it fails or passes without its directory.
THEOREM TempAlwaysRemoved == Spec => []TempRemoved
<1>1. Init => TempInv
  BY DEF Init, InitSmoke, TempInv
<1>2. TempInv /\ [Next]_gateVars => TempInv'
  <2> SUFFICES ASSUME TempInv, [Next]_gateVars PROVE TempInv'
    OBVIOUS
  <2>1. CASE SmokeStep
    BY <2>1 DEF TempInv, SmokeStep, StartSmoke, Probe, MakeTemp, GitInit, Walkthrough,
                WritePlan, ListCandidates, CleanUp, Stage
  <2>2. CASE UNCHANGED smokeVars
    BY <2>2 DEF TempInv, smokeVars
  <2> QED
    BY <2>1, <2>2, Kinds
<1>3. TempInv => TempRemoved
  BY DEF TempInv, TempRemoved
<1> QED
  BY <1>1, <1>2, <1>3, PTL DEF Spec

(***************************************************************************)
(* What the two scripts have recorded of the files they have judged.       *)
(***************************************************************************)
TrackedJudged ==
    /\ safety \in {"judging", "passed"} =>
           \A path \in tracked \ todo :
               /\ {path} \X ForbiddenRules(path) \subseteq pathHits
               /\ EnvFinding(path) => path \in envHits
               /\ path \notin reading \cup edited /\ ShouldScan(path) /\ SafetyFits(file[path])
                      => {path} \X LineHits(file[path]) \subseteq contentHits
    /\ safety = "passed" =>
           todo = {} /\ reading = {} /\ pathHits = {} /\ envHits = {} /\ contentHits = {}

ListedJudged ==
    /\ boundary \in {"scanning", "passed"} =>
           /\ missing = Required(profile) \ files
           /\ forbidden = {path \in files : Forbidden(profile, path)}
           /\ \A path \in files \ (unscanned \cup scanning \cup edited) :
                  IsText(path) /\ BoundaryFits(file[path])
                      => {path} \X Secrets(file[path]) \subseteq secrets
    /\ boundary = "passed" =>
           unscanned = {} /\ scanning = {} /\ missing = {} /\ secrets = {} /\ forbidden = {}

LEMMA TrackedJudgedStep ==
    ASSUME TypeOK, Fresh, TrackedJudged, SafetyStep
    PROVE  TrackedJudged'
<1> USE DEF TrackedJudged
<1>1. CASE ListTracked
  BY <1>1 DEF ListTracked, Fresh
<1>2. CASE ListFails
  BY <1>2 DEF ListFails
<1>3. ASSUME NEW path \in Path, JudgeFile(path)
      PROVE  TrackedJudged'
  <2>1. /\ safety = "judging" /\ safety' = "judging" /\ reading = {}
        /\ todo' = todo \ {path}
        /\ pathHits' = pathHits \cup ({path} \X ForbiddenRules(path))
        /\ envHits' = envHits \cup (IF EnvFinding(path) THEN {path} ELSE {})
        /\ reading' = IF ShouldScan(path) /\ SafetyFits(file[path]) THEN {path} ELSE {}
        /\ UNCHANGED <<tracked, file, edited, contentHits>>
    BY <1>3 DEF JudgeFile, treeVars
  <2>2. ASSUME NEW other \in tracked' \ todo'
        PROVE  /\ {other} \X ForbiddenRules(other) \subseteq pathHits'
               /\ EnvFinding(other) => other \in envHits'
               /\ other \notin reading' \cup edited' /\ ShouldScan(other) /\ SafetyFits(file'[other])
                      => {other} \X LineHits(file'[other]) \subseteq contentHits'
    <3>1. CASE other = path
      BY <2>1, <3>1
    <3>2. CASE other # path
      BY <2>1, <2>2, <3>2
    <3> QED
      BY <3>1, <3>2
  <2> QED
    BY <2>1, <2>2
<1>4. ASSUME NEW path \in Path, ReadTracked(path)
      PROVE  TrackedJudged'
  BY <1>4 DEF ReadTracked, treeVars
<1>5. CASE SafetyVerdict
  BY <1>5 DEF SafetyVerdict, treeVars
<1> QED
  BY <1>1, <1>2, <1>3, <1>4, <1>5 DEF SafetyStep

LEMMA ListedJudgedStep ==
    ASSUME TypeOK, Fresh, ListedJudged, BoundaryStep
    PROVE  ListedJudged'
<1> USE DEF ListedJudged
<1>1. CASE StartWalk \/ UnknownProfile
  BY <1>1 DEF StartWalk, UnknownProfile
<1>2. CASE \E dir \in unread : ListDir(dir) \/ ListDirThrows(dir)
  BY <1>2 DEF ListDir, ListDirThrows
<1>3. CASE JudgePaths
  BY <1>3 DEF JudgePaths, treeVars
<1>4. ASSUME NEW path \in Path, StatFile(path)
      PROVE  ListedJudged'
  BY <1>4 DEF StatFile, treeVars
<1>5. ASSUME NEW path \in Path, ReadListed(path)
      PROVE  ListedJudged'
  BY <1>5 DEF ReadListed, treeVars
<1>6. CASE BoundaryVerdict
  BY <1>6 DEF BoundaryVerdict, treeVars
<1> QED
  BY <1>1, <1>2, <1>3, <1>4, <1>5, <1>6 DEF BoundaryStep

VerdictInv == BaseInv /\ TrackedJudged /\ ListedJudged

LEMMA VerdictInvariant == Spec => []VerdictInv
<1>1. Init => TrackedJudged /\ ListedJudged
  BY DEF Init, InitSafety, InitBoundary, TrackedJudged, ListedJudged
<1>2. BaseInv /\ TrackedJudged /\ ListedJudged /\ [Next]_gateVars
          => TrackedJudged' /\ ListedJudged'
  <2> SUFFICES ASSUME BaseInv, TrackedJudged, ListedJudged, [Next]_gateVars
               PROVE  TrackedJudged' /\ ListedJudged'
    OBVIOUS
  <2> USE DEF BaseInv
  <2>1. CASE SafetyStep /\ UNCHANGED boundaryVars
    <3>1. UNCHANGED <<tracked, file, edited>>
      BY <2>1, StepOnTree
    <3> QED
      BY <2>1, <3>1, TrackedJudgedStep DEF ListedJudged, boundaryVars
  <2>2. CASE BoundaryStep /\ UNCHANGED safetyVars
    <3>1. UNCHANGED <<tracked, file, edited>>
      BY <2>2, StepOnTree
    <3> QED
      BY <2>2, <3>1, ListedJudgedStep DEF TrackedJudged, safetyVars
  <2>3. CASE UNCHANGED <<safetyVars, boundaryVars>> /\ UNCHANGED treeVars
    BY <2>3 DEF TrackedJudged, ListedJudged, safetyVars, boundaryVars, treeVars
  <2>4. CASE UNCHANGED <<safetyVars, boundaryVars>> /\ Others
    <3>1. tracked' = tracked /\ edited \subseteq edited'
          /\ \A path \in Path \ edited' : file'[path] = file[path]
      BY <2>4, TreeChange DEF TypeOK
    <3>2. tracked \subseteq Path /\ files \subseteq Path
      BY DEF TypeOK, TreeTypeOK, BoundaryTypeOK
    <3>3. TrackedJudged'
      BY <2>4, <3>1, <3>2 DEF TrackedJudged, safetyVars
    <3>4. ListedJudged'
      BY <2>4, <3>1, <3>2 DEF ListedJudged, boundaryVars
    <3> QED
      BY <3>3, <3>4
  <2> QED
    BY <2>1, <2>2, <2>3, <2>4, Kinds, StepOnTree
<1> QED
  BY <1>1, <1>2, BaseInvariant, PTL DEF Spec, VerdictInv

LEMMA NothingFound ==
    ASSUME NEW x, NEW S, {x} \X S \subseteq {}
    PROVE  S = {}
<1>1. ASSUME NEW y \in S PROVE <<x, y>> \in {x} \X S
  BY <1>1
<1> QED
  BY <1>1

LEMMA SecondOfTwo ==
    ASSUME NEW S, NEW a \in S, NEW b \in S
    PROVE  /\ <<a>> \o <<b>> \in Seq(S)
           /\ Len(<<a>> \o <<b>>) = 2 /\ (<<a>> \o <<b>>)[2] = b
<1>1. <<a>> \in Seq(S) /\ <<b>> \in Seq(S) /\ Len(<<a>>) = 1 /\ Len(<<b>>) = 1
  OBVIOUS
<1> QED
  BY <1>1

LEMMA SecondOfMore ==
    ASSUME NEW S, NEW dir \in Seq(S), Len(dir) = 2, NEW c \in S
    PROVE  /\ dir \o <<c>> \in Seq(S)
           /\ Len(dir \o <<c>>) = 3 /\ (dir \o <<c>>)[2] = dir[2]
<1> DEFINE last == <<c>>
<1>1. last \in Seq(S) /\ Len(last) = 1
  OBVIOUS
<1> HIDE DEF last
<1>2. dir \o last \in Seq(S) /\ Len(dir \o last) = Len(dir) + Len(last)
  BY <1>1, ConcatProperties
<1>3. (dir \o last)[2] = dir[2]
  BY <1>1, ConcatProperties
<1> QED
  BY <1>1, <1>2, <1>3 DEF last

LEMMA SecondBelow ==
    ASSUME NEW S, NEW path \in Seq(S), NEW dir, Len(dir) \in {2, 3}, Below(path, dir)
    PROVE  path[2] = dir[2]
<1>1. PICK n \in {2, 3} : n = Len(dir)
  OBVIOUS
<1>2. Len(path) > n /\ SubSeq(path, 1, n) = dir
  BY <1>1 DEF Below
<1>3. SubSeq(path, 1, n)[2] = path[2]
  BY <1>1, <1>2
<1> QED
  BY <1>2, <1>3

\* The name of a directory below .neurcode is the second name of what is in it.
LEMMA SecondName ==
    ASSUME NEW path \in Seq(Seq(STRING)), NEW name,
           \/ Below(path, NeurcodeDir(name))
           \/ \E sub : Below(path, NeurcodeDir(name) \o << <<sub>> >>)
    PROVE  path[2] = <<name>>
<1> DEFINE dir == NeurcodeDir(name)
<1>1. ASSUME NEW S, <<"", "neurcode">> \in S, <<name>> \in S
      PROVE  dir \in Seq(S) /\ Len(dir) = 2 /\ dir[2] = <<name>>
  BY <1>1, SecondOfTwo DEF NeurcodeDir, Neurcode
<1> HIDE DEF dir
<1>2. CASE Below(path, dir)
  <2> DEFINE S == {<<"", "neurcode">>, <<name>>}
  <2>1. <<"", "neurcode">> \in S /\ <<name>> \in S
    OBVIOUS
  <2> HIDE DEF S
  <2>2. Len(dir) = 2 /\ dir[2] = <<name>>
    BY <1>1, <2>1
  <2> QED
    BY <1>2, <2>2, SecondBelow
<1>3. ASSUME NEW sub, Below(path, dir \o << <<sub>> >>)
      PROVE  path[2] = <<name>>
  <2> DEFINE S == {<<"", "neurcode">>, <<name>>, <<sub>>}
             deep == dir \o << <<sub>> >>
  <2>0. <<"", "neurcode">> \in S /\ <<name>> \in S /\ <<sub>> \in S
    OBVIOUS
  <2> HIDE DEF S
  <2>1. dir \in Seq(S) /\ Len(dir) = 2 /\ dir[2] = <<name>>
    BY <1>1, <2>0
  <2>2. Len(deep) = 3 /\ deep[2] = <<name>>
    BY <2>0, <2>1, SecondOfMore
  <2> HIDE DEF deep
  <2>3. Below(path, deep)
    BY <1>3 DEF deep
  <2> QED
    BY <2>2, <2>3, SecondBelow
<1> QED
  BY <1>2, <1>3 DEF dir

\* The boundary check's list of what is runtime state below .neurcode is the longer one,
\* but what it adds the safety check rejects as not allowlisted.
LEMMA BoundaryListIsNoStricter ==
    ASSUME NEW path \in Path, NeurcodeBoundaryViolation(path)
    PROVE  NeurcodePathViolation(path)
<1>0. path \in Seq(Seq(STRING))
  BY CheckoutAssumption
<1>1. Below(path, Neurcode) /\ (RuntimeOnly(path) \/ ~AllowedSource(path))
  BY DEF NeurcodeBoundaryViolation, Neurcode, NeurcodeTop
<1>2. CASE Below(path, NeurcodeSub("evidence"))
  <2>1. NeurcodeSub("evidence") = NeurcodeDir("evidence")
    BY DEF NeurcodeSub, NeurcodeDir, NeurcodeTop, Neurcode
  <2>2. path[2] = <<"evidence">>
    <3>1. Below(path, NeurcodeDir("evidence"))
      BY <1>2, <2>1
    <3> QED
      BY <1>0, <3>1, SecondName, Zenon
  <2>3. \A name : <<name>> = <<"evidence">> => name = "evidence"
    OBVIOUS
  <2>4. ASSUME NEW name, name # "evidence"
        PROVE  /\ ~Below(path, NeurcodeDir(name))
               /\ \A sub : ~Below(path, NeurcodeDir(name) \o << <<sub>> >>)
    BY <1>0, <2>2, <2>3, <2>4, SecondName
  <2>5. /\ ~Below(path, NeurcodeDir("policies")) /\ ~Below(path, NeurcodeDir("templates"))
        /\ ~Below(path, NeurcodeDir("control-plane"))
        /\ ~Below(path, NeurcodeDir("workspaces") \o << <<"definitions">> >>)
    <3>1. /\ "policies" # "evidence" /\ "templates" # "evidence"
          /\ "control-plane" # "evidence" /\ "workspaces" # "evidence"
      OBVIOUS
    <3> QED
      BY <2>4, <3>1, Zenon
  <2>6. ~SafetyAllowedSource(path)
    BY <2>5 DEF SafetyAllowedSource, DirectFile
  <2> QED
    BY <1>1, <2>6 DEF NeurcodePathViolation
<1>3. CASE ~Below(path, NeurcodeSub("evidence"))
  <2>1. RuntimeOnly(path) => SafetyRuntimeForbidden(path)
    BY <1>3 DEF RuntimeOnly, SafetyRuntimeForbidden, NeurcodeSub, NeurcodeDir, NeurcodeTop, Neurcode
  <2>2. SafetyAllowedSource(path) <=> AllowedSource(path)
    BY DEF AllowedSource, SafetyAllowedSource, NeurcodeSub, NeurcodeDir, NeurcodeTop, Neurcode
  <2> QED
    BY <1>1, <2>1, <2>2 DEF NeurcodePathViolation
<1> QED
  BY <1>2, <1>3

\* A path below .neurcode that the boundary check rejects after a passed safety check is
\* one git does not track.
THEOREM ListsAgree == Spec => []NeurcodeListsAgree
<1>1. VerdictInv => NeurcodeListsAgree
  <2> SUFFICES ASSUME VerdictInv, safety = "passed",
                      NEW path \in forbidden, NeurcodeBoundaryViolation(path), path \in tracked
               PROVE  FALSE
    BY DEF NeurcodeListsAgree
  <2>1. path \in Path
    BY DEF VerdictInv, BaseInv, TypeOK, BoundaryTypeOK
  <2>2. NeurcodePathViolation(path)
    BY <2>1, BoundaryListIsNoStricter
  <2>3. "neurcode" \in ForbiddenRules(path)
    BY <2>2 DEF ForbiddenRules, SafetyRule, Breaks
  <2>4. {path} \X ForbiddenRules(path) \subseteq {}
    BY DEF VerdictInv, TrackedJudged
  <2> QED
    BY <2>3, <2>4, NothingFound
<1> QED
  BY <1>1, VerdictInvariant, PTL

\* A gate that has passed vouches for every path nobody touched while it ran.
THEOREM PassedGateVouches == Spec => []PassedGateHolds
<1>1. VerdictInv => PassedGateHolds
  <2> SUFFICES ASSUME VerdictInv, gate = "passed"
               PROVE  /\ \A path \in tracked \ edited :
                            /\ ~BadPath(path)
                            /\ ~(ShouldScan(path) /\ SafetyFits(file[path]) /\ LineHits(file[path]) # {})
                      /\ \A path \in Path \ edited :
                            IsFile(file[path]) /\ Walked(path) =>
                                /\ ~Forbidden(profile, path)
                                /\ ~(IsText(path) /\ BoundaryFits(file[path]) /\ Secrets(file[path]) # {})
                      /\ \A path \in Required(profile) : \E c \in Held(path) : IsFile(c)
    BY DEF PassedGateHolds
  <2>1. safety = "passed" /\ boundary = "passed" /\ unread = {}
    BY DEF VerdictInv, BaseInv, InOrder, Fresh
  <2>2. ASSUME NEW path \in tracked \ edited
        PROVE  /\ ~BadPath(path)
               /\ ~(ShouldScan(path) /\ SafetyFits(file[path]) /\ LineHits(file[path]) # {})
    <3>1. {path} \X ForbiddenRules(path) \subseteq {} /\ ~EnvFinding(path)
      BY <2>1 DEF VerdictInv, TrackedJudged
    <3>2. ShouldScan(path) /\ SafetyFits(file[path]) => {path} \X LineHits(file[path]) \subseteq {}
      BY <2>1 DEF VerdictInv, TrackedJudged
    <3> QED
      BY <3>1, <3>2, NothingFound DEF BadPath
  <2>3. ASSUME NEW path \in Path \ edited, IsFile(file[path]), Walked(path)
        PROVE  /\ ~Forbidden(profile, path)
               /\ ~(IsText(path) /\ BoundaryFits(file[path]) /\ Secrets(file[path]) # {})
    <3>1. path \in files
      BY <2>1, <2>3 DEF VerdictInv, BaseInv, WalkInv, History
    <3>2. ~Forbidden(profile, path)
      BY <2>1, <3>1 DEF VerdictInv, ListedJudged
    <3>3. IsText(path) /\ BoundaryFits(file[path]) => {path} \X Secrets(file[path]) \subseteq {}
      BY <2>1, <3>1, <2>3 DEF VerdictInv, ListedJudged
    <3> QED
      BY <3>2, <3>3, NothingFound
  <2>4. ASSUME NEW path \in Required(profile)
        PROVE  \E c \in Held(path) : IsFile(c)
    <3>1. path \in files
      BY <2>1 DEF VerdictInv, ListedJudged
    <3>2. path \in Path
      BY <3>1 DEF VerdictInv, BaseInv, TypeOK, BoundaryTypeOK
    <3> QED
      BY <2>1, <3>1, <3>2 DEF VerdictInv, BaseInv, WalkInv, Held
  <2> QED
    BY <2>2, <2>3, <2>4
<1> QED
  BY <1>1, VerdictInvariant, PTL

-----------------------------------------------------------------------------
(***************************************************************************)
(* Items are pairs of a kind and a path.                                   *)
(***************************************************************************)
LEMMA TwoKinds ==
    ASSUME NEW A, NEW B, NEW item
    PROVE  item \in ({"path"} \X A) \cup ({"content"} \X B)
              <=> /\ item = <<item[1], item[2]>>
                  /\ \/ item[1] = "path" /\ item[2] \in A
                     \/ item[1] = "content" /\ item[2] \in B
OBVIOUS

LEMMA TwoKindsOfItem ==
    ASSUME NEW A, NEW item
    PROVE  item \in {"path", "content"} \X A
              <=> /\ item = <<item[1], item[2]>>
                  /\ item[1] \in {"path", "content"} /\ item[2] \in A
OBVIOUS

LEMMA FirstsOfMore ==
    ASSUME NEW hits, NEW path, NEW S, NEW q
    PROVE  q \in {hit[1] : hit \in hits \cup ({path} \X S)}
              <=> q \in {hit[1] : hit \in hits} \/ (q = path /\ S # {})
<1>1. ASSUME NEW s \in S PROVE <<path, s>> \in {path} \X S /\ <<path, s>>[1] = path
  BY <1>1
<1>2. \A hit \in {path} \X S : hit[1] = path /\ S # {}
  OBVIOUS
<1> QED
  BY <1>1, <1>2

(***************************************************************************)
(* The file that has been measured and not yet read.                       *)
(***************************************************************************)
InHand ==
    /\ todo \subseteq tracked /\ reading \subseteq tracked /\ reading \cap todo = {}
    /\ \A path \in reading : ShouldScan(path) /\ \E c \in past[path] : SafetyFits(c)
    /\ scanning \cap unscanned = {}
    /\ \A path \in scanning : IsText(path) /\ \E c \in past[path] : BoundaryFits(c)

LEMMA InHandStep ==
    ASSUME VerdictInv, InHand, [Next]_gateVars
    PROVE  InHand'
<1> USE DEF InHand
<1>1. tracked \subseteq Path /\ files \subseteq Path /\ scanning \subseteq files
      /\ \A path \in Path : file[path] \in past[path]
  BY DEF VerdictInv, BaseInv, TypeOK, TreeTypeOK, BoundaryTypeOK, History
<1>2. CASE gate = "oss:check" /\ SafetyStep /\ UNCHANGED boundaryVars
  <2>1. unscanned = {} /\ scanning = {} /\ unscanned' = {} /\ scanning' = {}
    BY <1>2 DEF VerdictInv, BaseInv, InOrder, Fresh, boundaryVars
  <2>2. CASE ListTracked
    BY <2>1, <2>2 DEF ListTracked, VerdictInv, BaseInv, Fresh
  <2>3. CASE ListFails \/ SafetyVerdict
    BY <2>1, <2>3 DEF ListFails, SafetyVerdict, treeVars
  <2>4. CASE \E path \in Path : JudgeFile(path) \/ ReadTracked(path)
    BY <1>1, <2>1, <2>4 DEF JudgeFile, ReadTracked, treeVars
  <2> QED
    BY <1>2, <2>2, <2>3, <2>4 DEF SafetyStep
<1>3. CASE gate = "oss:check:boundary" /\ BoundaryStep /\ UNCHANGED safetyVars
  <2>1. todo = {} /\ reading = {} /\ todo' = {} /\ reading' = {}
    BY <1>3 DEF VerdictInv, BaseInv, InOrder, TrackedJudged, safetyVars
  <2>2. CASE StartWalk
    BY <2>1, <2>2 DEF StartWalk, VerdictInv, BaseInv, Fresh
  <2>3. CASE UnknownProfile \/ BoundaryVerdict \/ \E dir \in unread : ListDir(dir) \/ ListDirThrows(dir)
    BY <2>1, <2>3 DEF UnknownProfile, BoundaryVerdict, ListDir, ListDirThrows, treeVars
  <2>4. CASE JudgePaths
    BY <2>1, <2>4 DEF JudgePaths, treeVars, VerdictInv, BaseInv, Fresh
  <2>5. CASE \E path \in Path : StatFile(path) \/ ReadListed(path)
    BY <1>1, <2>1, <2>5 DEF StatFile, ReadListed, treeVars
  <2> QED
    BY <1>3, <2>2, <2>3, <2>4, <2>5 DEF BoundaryStep
<1>4. CASE Others /\ UNCHANGED <<safetyVars, boundaryVars>>
  <2>1. tracked' = tracked /\ \A path \in Path : past[path] \subseteq past'[path]
    BY <1>4, TreeChange DEF VerdictInv, BaseInv, TypeOK
  <2> QED
    BY <1>1, <1>4, <2>1 DEF safetyVars, boundaryVars
<1>5. CASE UNCHANGED <<treeVars, safetyVars, boundaryVars>>
  BY <1>5 DEF treeVars, safetyVars, boundaryVars
<1> QED
  BY <1>2, <1>3, <1>4, <1>5, Kinds, StepOnTree

AuditInv == VerdictInv /\ InHand

LEMMA AuditInvariant == Spec => []AuditInv
<1>1. Init => InHand
  BY DEF Init, InitSafety, InitBoundary, InHand
<1> QED
  BY <1>1, InHandStep, VerdictInvariant, PTL DEF Spec, AuditInv

(***************************************************************************)
(* The safety check.                                                       *)
(***************************************************************************)
\* The tree changes under a script that is not judging, or only adds to the history.
LEMMA SafetyGoesOn ==
    ASSUME UNCHANGED <<safetyVars, tracked>>,
           safety = "judging" => \A path \in Path : past[path] \subseteq past'[path]
    PROVE  SafetyAudit!Next
<1>1. UNCHANGED <<safety, SafetyPending, SafetyFound>>
  BY DEF safetyVars, SafetyPending, SafetyFound
<1>2. ASSUME safety = "judging"
      PROVE  SafetyClean \subseteq SafetyClean' /\ SafetyBad \subseteq SafetyBad'
  <2>1. \A item \in SafetyItem : item[2] \in Path
    BY DEF SafetyItem
  <2>2. SafetyClean \subseteq SafetyClean'
    BY <1>2, <2>1 DEF SafetyClean
  <2>3. SafetyBad \subseteq SafetyBad'
    BY <1>2, <2>1 DEF SafetyBad
  <2> QED
    BY <2>2, <2>3
<1> QED
  BY <1>1, <1>2 DEF SafetyAudit!Next, SafetyAudit!Change

LEMMA SafetyCollects ==
    ASSUME AuditInv, ListTracked
    PROVE  SafetyAudit!Collect
<1>1. /\ safety = "idle" /\ safety' = "judging" /\ tracked' = tracked /\ tracked \subseteq Path
      /\ todo' = tracked /\ reading' = {} /\ pathHits' = {} /\ envHits' = {} /\ contentHits' = {}
  BY DEF ListTracked, AuditInv, VerdictInv, BaseInv, Fresh, TypeOK, TreeTypeOK
<1>2. SafetyPending' = ({"path"} \X tracked) \cup ({"content"} \X tracked)
  BY <1>1 DEF SafetyPending
<1>3. SafetyFound' = {}
  BY <1>1 DEF SafetyFound
<1>4. SafetyPending' \subseteq SafetyItem
  BY <1>1, <1>2 DEF SafetyItem
<1>5. ASSUME NEW item \in SafetyItem, item \notin SafetyPending'
      PROVE  item \in SafetyClean'
  <2>1. item[2] \notin tracked
    BY <1>2, <1>5, TwoKinds, TwoKindsOfItem DEF SafetyItem
  <2> QED
    BY <1>1, <1>5, <2>1 DEF SafetyClean
<1> QED
  BY <1>1, <1>3, <1>4, <1>5 DEF SafetyAudit!Collect

\* What the findings of the files judged so far amount to.
FoundPaths == {hit[1] : hit \in pathHits} \cup envHits
FoundContents == {hit[1] : hit \in contentHits}

LEMMA SafetyJudgesPath ==
    ASSUME AuditInv, NEW path \in Path, JudgeFile(path)
    PROVE  SafetyAudit!Judge
<1>1. /\ safety = "judging" /\ path \in todo /\ reading = {} /\ todo' = todo \ {path}
      /\ pathHits' = pathHits \cup ({path} \X ForbiddenRules(path))
      /\ envHits' = envHits \cup (IF EnvFinding(path) THEN {path} ELSE {})
      /\ reading' = IF ShouldScan(path) /\ SafetyFits(file[path]) THEN {path} ELSE {}
      /\ UNCHANGED <<treeVars, safety, contentHits>>
  BY DEF JudgeFile
<1>2. path \in tracked /\ todo \subseteq Path /\ file[path] \in past[path]
  BY <1>1 DEF AuditInv, InHand, VerdictInv, BaseInv, History, TypeOK, SafetyTypeOK
<1>3. UNCHANGED <<safety, SafetyClean, SafetyBad>>
  BY <1>1 DEF treeVars, SafetyClean, SafetyBad
<1>4. \A q : q \in FoundPaths' <=> q \in FoundPaths \/ (q = path /\ BadPath(path))
  BY <1>1, FirstsOfMore DEF FoundPaths, BadPath
<1>5. FoundContents' = FoundContents
  BY <1>1 DEF FoundContents
<1>6. /\ SafetyPending = ({"path"} \X todo) \cup ({"content"} \X todo)
      /\ SafetyPending' = ({"path"} \X todo') \cup ({"content"} \X (todo' \cup reading'))
      /\ SafetyFound = ({"path"} \X FoundPaths) \cup ({"content"} \X FoundContents)
      /\ SafetyFound' = ({"path"} \X FoundPaths') \cup ({"content"} \X FoundContents')
  BY <1>1 DEF SafetyPending, SafetyFound, FoundPaths, FoundContents
<1>7. todo' \cup reading' \subseteq todo
  BY <1>1
<1>8. SafetyPending' \subseteq SafetyPending
  BY <1>1, <1>6, <1>7, TwoKinds
<1>9. SafetyFound \subseteq SafetyFound'
  BY <1>4, <1>5, <1>6, TwoKinds
<1>10. ASSUME NEW item \in SafetyFound', item \notin SafetyFound
       PROVE  item \in SafetyPending /\ item \notin SafetyPending' /\ item \in SafetyBad
  <2>1. item = <<"path", path>> /\ item[1] = "path" /\ item[2] = path /\ BadPath(path)
    BY <1>4, <1>5, <1>6, <1>10, TwoKinds
  <2>2. item \in SafetyItem
    BY <2>1 DEF SafetyItem
  <2>3. item \in SafetyBad
    BY <1>2, <2>1, <2>2 DEF SafetyBad
  <2> QED
    BY <1>1, <1>6, <2>1, <2>3, TwoKinds
<1>11. ASSUME NEW item \in SafetyPending, item \notin SafetyPending', item \notin SafetyFound'
       PROVE  item \in SafetyClean
  <2>1. item[2] = path /\ item = <<item[1], item[2]>> /\ item[1] \in {"path", "content"}
    BY <1>1, <1>6, <1>11, TwoKinds
  <2>2. item \in SafetyItem
    BY <2>1, TwoKindsOfItem DEF SafetyItem
  <2>3. CASE item[1] = "path"
    <3>1. ~BadPath(path)
      BY <1>4, <1>6, <1>11, <2>1, <2>3, TwoKinds
    <3> QED
      BY <2>1, <2>2, <2>3, <3>1 DEF SafetyClean
  <2>4. CASE item[1] = "content"
    <3>1. path \notin reading'
      BY <1>6, <1>11, <2>1, <2>4, TwoKinds
    <3>2. ~ShouldScan(path) \/ Overlooked(file[path])
      BY <1>1, <3>1 DEF Overlooked
    <3> QED
      BY <1>2, <2>1, <2>2, <2>4, <3>2 DEF SafetyClean
  <2> QED
    BY <2>1, <2>3, <2>4
<1> QED
  BY <1>1, <1>3, <1>8, <1>9, <1>10, <1>11 DEF SafetyAudit!Judge

LEMMA SafetyJudgesContents ==
    ASSUME AuditInv, NEW path \in Path, ReadTracked(path)
    PROVE  SafetyAudit!Judge
<1>1. /\ safety = "judging" /\ reading = {path} /\ reading' = {}
      /\ contentHits' = contentHits \cup ({path} \X LineHits(file[path]))
      /\ UNCHANGED <<treeVars, safety, todo, pathHits, envHits>>
  BY DEF ReadTracked
<1>2. /\ path \in tracked /\ path \notin todo /\ file[path] \in past[path]
      /\ ShouldScan(path) /\ \E c \in past[path] : SafetyFits(c)
  BY <1>1 DEF AuditInv, InHand, VerdictInv, BaseInv, History
<1>3. UNCHANGED <<safety, SafetyClean, SafetyBad>>
  BY <1>1 DEF treeVars, SafetyClean, SafetyBad
<1>4. \A q : q \in FoundContents' <=> q \in FoundContents \/ (q = path /\ LineHits(file[path]) # {})
  BY <1>1, FirstsOfMore DEF FoundContents
<1>5. FoundPaths' = FoundPaths
  BY <1>1 DEF FoundPaths
<1>6. /\ SafetyPending = ({"path"} \X todo) \cup ({"content"} \X (todo \cup {path}))
      /\ SafetyPending' = ({"path"} \X todo) \cup ({"content"} \X todo)
      /\ SafetyFound = ({"path"} \X FoundPaths) \cup ({"content"} \X FoundContents)
      /\ SafetyFound' = ({"path"} \X FoundPaths') \cup ({"content"} \X FoundContents')
  BY <1>1 DEF SafetyPending, SafetyFound, FoundPaths, FoundContents
<1>7. SafetyPending' \subseteq SafetyPending
  BY <1>6, TwoKinds
<1>8. SafetyFound \subseteq SafetyFound'
  BY <1>4, <1>5, <1>6, TwoKinds
<1>9. <<"content", path>> \in SafetyItem
  BY DEF SafetyItem
<1>10. ASSUME NEW item \in SafetyFound', item \notin SafetyFound
       PROVE  item \in SafetyPending /\ item \notin SafetyPending' /\ item \in SafetyBad
  <2>1. item = <<"content", path>> /\ item[1] = "content" /\ item[2] = path
        /\ LineHits(file[path]) # {}
    BY <1>4, <1>5, <1>6, <1>10, TwoKinds
  <2>2. item \in SafetyBad
    BY <1>2, <1>9, <2>1 DEF SafetyBad
  <2> QED
    BY <1>2, <1>6, <2>1, <2>2, TwoKinds
<1>11. ASSUME NEW item \in SafetyPending, item \notin SafetyPending', item \notin SafetyFound'
       PROVE  item \in SafetyClean
  <2>1. item = <<"content", path>> /\ item[1] = "content" /\ item[2] = path
    BY <1>6, <1>11, TwoKinds
  <2>2. LineHits(file[path]) = {}
    BY <1>4, <1>6, <1>11, <2>1, TwoKinds
  <2> QED
    BY <1>2, <1>9, <2>1, <2>2 DEF SafetyClean, Overlooked
<1> QED
  BY <1>1, <1>3, <1>7, <1>8, <1>10, <1>11 DEF SafetyAudit!Judge

LEMMA SafetyConcludes ==
    ASSUME SafetyVerdict
    PROVE  SafetyAudit!Conclude
<1>1. /\ safety = "judging" /\ todo = {} /\ reading = {}
      /\ safety' = IF pathHits = {} /\ envHits = {} /\ contentHits = {} THEN "passed" ELSE "failed"
      /\ UNCHANGED <<treeVars, todo, reading, pathHits, envHits, contentHits>>
  BY DEF SafetyVerdict
<1>2. SafetyPending = {}
  BY <1>1 DEF SafetyPending
<1>3. UNCHANGED <<SafetyPending, SafetyFound, SafetyClean, SafetyBad>>
  BY <1>1 DEF SafetyPending, SafetyFound, SafetyClean, SafetyBad, treeVars
<1>4. SafetyFound = ({"path"} \X FoundPaths) \cup ({"content"} \X FoundContents)
  BY DEF SafetyFound, FoundPaths, FoundContents
<1>5. FoundPaths = {} <=> pathHits = {} /\ envHits = {}
  BY DEF FoundPaths
<1>6. FoundContents = {} <=> contentHits = {}
  BY DEF FoundContents
<1>7. SafetyFound = {} <=> FoundPaths = {} /\ FoundContents = {}
  <2>1. \A p \in FoundPaths : <<"path", p>> \in SafetyFound
    BY <1>4
  <2>2. \A p \in FoundContents : <<"content", p>> \in SafetyFound
    BY <1>4
  <2>3. FoundPaths = {} /\ FoundContents = {} => SafetyFound = {}
    BY <1>4
  <2> QED
    BY <2>1, <2>2, <2>3
<1> QED
  BY <1>1, <1>2, <1>3, <1>5, <1>6, <1>7 DEF SafetyAudit!Conclude

\* The safety check never clears or finds a file for contents it did not have while the
\* check ran, loses no finding, and passes only when every tracked file was judged.
THEOREM SafetyIsAnAudit == Spec => SafetyImplementsAudit
<1>1. Init => SafetyAudit!Init
  BY DEF Init, InitSafety, SafetyAudit!Init, SafetyPending, SafetyFound
<1>2. ASSUME AuditInv, [Next]_gateVars
      PROVE  SafetyAudit!Next \/ UNCHANGED SafetyAudit!vars
  <2>1. CASE gate = "oss:check" /\ SafetyStep
    <3>1. CASE ListFails
      <4>1. safety = "idle" /\ safety' = "failed"
            /\ UNCHANGED <<treeVars, todo, reading, pathHits, envHits, contentHits>>
        BY <3>1 DEF ListFails
      <4>2. UNCHANGED <<SafetyPending, SafetyFound, SafetyClean, SafetyBad>>
        BY <4>1 DEF SafetyPending, SafetyFound, SafetyClean, SafetyBad, treeVars
      <4> QED
        BY <4>1, <4>2 DEF SafetyAudit!Next, SafetyAudit!Abort
    <3>2. CASE ListTracked
      BY <1>2, <3>2, SafetyCollects DEF SafetyAudit!Next
    <3>3. CASE SafetyVerdict
      BY <3>3, SafetyConcludes DEF SafetyAudit!Next
    <3>4. CASE \E path \in Path : JudgeFile(path) \/ ReadTracked(path)
      BY <1>2, <3>4, SafetyJudgesPath, SafetyJudgesContents DEF SafetyAudit!Next
    <3> QED
      BY <2>1, <3>1, <3>2, <3>3, <3>4 DEF SafetyStep
  <2>2. CASE gate = "oss:check:boundary" /\ BoundaryStep /\ UNCHANGED safetyVars
    <3>1. safety = "passed" /\ tracked' = tracked
      BY <1>2, <2>2, StepOnTree DEF AuditInv, VerdictInv, BaseInv, InOrder
    <3> QED
      BY <2>2, <3>1, SafetyGoesOn
  <2>3. CASE UNCHANGED <<safetyVars, treeVars>>
    <3>1. UNCHANGED tracked /\ \A path \in Path : past[path] \subseteq past'[path]
      BY <2>3 DEF treeVars
    <3> QED
      BY <2>3, <3>1, SafetyGoesOn
  <2>4. CASE Others /\ UNCHANGED safetyVars
    <3>1. tracked' = tracked /\ \A path \in Path : past[path] \subseteq past'[path]
      BY <1>2, <2>4, TreeChange DEF AuditInv, VerdictInv, BaseInv, TypeOK
    <3> QED
      BY <2>4, <3>1, SafetyGoesOn
  <2> QED
    BY <1>2, <2>1, <2>2, <2>3, <2>4, Kinds, StepOnTree
<1> QED
  BY <1>1, <1>2, AuditInvariant, PTL DEF Spec, SafetyImplementsAudit, SafetyAudit!Spec

(***************************************************************************)
(* The boundary check.                                                     *)
(***************************************************************************)
LEMMA ThreeKinds ==
    ASSUME NEW A, NEW B, NEW C, NEW item
    PROVE  item \in ({"path"} \X A) \cup ({"required"} \X B) \cup ({"content"} \X C)
              <=> /\ item = <<item[1], item[2]>>
                  /\ \/ item[1] = "path" /\ item[2] \in A
                     \/ item[1] = "required" /\ item[2] \in B
                     \/ item[1] = "content" /\ item[2] \in C
OBVIOUS

\* What is an item, and when one is clean or bad.
LEMMA BoundaryItems ==
    ASSUME NEW item
    PROVE  item \in BoundaryItem
              <=> /\ item = <<item[1], item[2]>>
                  /\ \/ item[1] \in {"path", "content"} /\ item[2] \in Path
                     \/ item[1] = "required" /\ item[2] \in Required("cli") \cup Required("action")
BY DEF BoundaryItem

LEMMA RequiredAreItems == Required(profile) \subseteq Required("cli") \cup Required("action")
BY DEF Required

RequiredClean(path) ==
    path \notin Required(profile) \/ (Walked(path) /\ \E c \in Held(path) : IsFile(c))
RequiredBad(path) ==
    path \in Required(profile)
        /\ (path \notin Path \/ ~Walked(path) \/ \E c \in Held(path) : ~IsFile(c))
PathClean(path) ==
    ~Walked(path) \/ ~Forbidden(profile, path) \/ \E c \in Held(path) : ~IsFile(c)
PathBad(path) ==
    Walked(path) /\ Forbidden(profile, path) /\ \E c \in Held(path) : IsFile(c)
ContentClean(path) ==
    ~Walked(path) \/ ~IsText(path)
        \/ \E c \in Held(path) : ~IsFile(c) \/ ~BoundaryFits(c) \/ Secrets(c) = {}
ContentBad(path) ==
    /\ Walked(path) /\ IsText(path) /\ \E c \in Held(path) : IsFile(c)
    /\ \E c \in Held(path) : BoundaryFits(c)
    /\ \E c \in Held(path) : Secrets(c) # {}

ByKind ==
    \A item \in BoundaryItem :
        /\ item[1] = "path" =>
               /\ item \in BoundaryClean <=> PathClean(item[2])
               /\ item \in BoundaryBad <=> PathBad(item[2])
        /\ item[1] = "content" =>
               /\ item \in BoundaryClean <=> ContentClean(item[2])
               /\ item \in BoundaryBad <=> ContentBad(item[2])
        /\ item[1] = "required" =>
               /\ item \in BoundaryClean <=> RequiredClean(item[2])
               /\ item \in BoundaryBad <=> RequiredBad(item[2])

LEMMA CleanAndBad == ByKind
<1> SUFFICES ASSUME NEW item \in BoundaryItem
             PROVE  /\ item[1] = "path" =>
                           /\ item \in BoundaryClean <=> PathClean(item[2])
                           /\ item \in BoundaryBad <=> PathBad(item[2])
                    /\ item[1] = "content" =>
                           /\ item \in BoundaryClean <=> ContentClean(item[2])
                           /\ item \in BoundaryBad <=> ContentBad(item[2])
                    /\ item[1] = "required" =>
                           /\ item \in BoundaryClean <=> RequiredClean(item[2])
                           /\ item \in BoundaryBad <=> RequiredBad(item[2])
  BY DEF ByKind
<1>1. CASE item[1] = "path"
  BY <1>1 DEF BoundaryClean, BoundaryBad, PathClean, PathBad
<1>2. CASE item[1] = "content"
  BY <1>2 DEF BoundaryClean, BoundaryBad, ContentClean, ContentBad
<1>3. CASE item[1] = "required"
  BY <1>3 DEF BoundaryClean, BoundaryBad, RequiredClean, RequiredBad
<1> QED
  BY <1>1, <1>2, <1>3

\* The history of the tree only grows, or the script is not judging.
LEMMA BoundaryGoesOn ==
    ASSUME BoundaryTypeOK, UNCHANGED boundaryVars,
           boundary = "scanning" => \A path \in Path : past[path] \subseteq past'[path]
    PROVE  BoundaryAudit!Next
<1>1. UNCHANGED <<BoundaryStatus, BoundaryPending, BoundaryFound>>
  BY DEF boundaryVars, BoundaryStatus, BoundaryPending, BoundaryFound
<1>2. ASSUME BoundaryStatus = "judging"
      PROVE  BoundaryClean \subseteq BoundaryClean' /\ BoundaryBad \subseteq BoundaryBad'
  <2>1. boundary = "scanning"
    BY <1>2 DEF BoundaryStatus, BoundaryTypeOK
  <2>2. \A path : Held(path) \subseteq Held(path)'
    BY <2>1 DEF Held
  <2>3. profile' = profile
    BY DEF boundaryVars
  <2>4. \A path : /\ PathClean(path) => PathClean(path)'
                  /\ PathBad(path) => PathBad(path)'
                  /\ ContentClean(path) => ContentClean(path)'
                  /\ ContentBad(path) => ContentBad(path)'
                  /\ RequiredClean(path) => RequiredClean(path)'
                  /\ RequiredBad(path) => RequiredBad(path)'
    BY <2>2, <2>3 DEF PathClean, PathBad, ContentClean, ContentBad, RequiredClean, RequiredBad
  <2>5. ASSUME NEW item \in BoundaryItem
        PROVE  /\ item \in BoundaryClean => item \in BoundaryClean'
               /\ item \in BoundaryBad => item \in BoundaryBad'
    <3>1. ByKind /\ ByKind'
      BY CleanAndBad, PTL
    <3>2. item[1] \in {"path", "content", "required"}
      BY BoundaryItems
    <3> QED
      BY <2>4, <3>1, <3>2 DEF ByKind
  <2>6. BoundaryClean \subseteq BoundaryItem /\ BoundaryBad \subseteq BoundaryItem
    BY DEF BoundaryClean, BoundaryBad
  <2> QED
    BY <2>5, <2>6
<1> QED
  BY <1>1, <1>2 DEF BoundaryAudit!Next, BoundaryAudit!Change

\* What the lists of the boundary check amount to.
FoundSecrets == {hit[1] : hit \in secrets}

LEMMA BoundaryFoundIs ==
    BoundaryFound = ({"path"} \X forbidden) \cup ({"required"} \X missing)
                        \cup ({"content"} \X FoundSecrets)
BY DEF BoundaryFound, FoundSecrets

\* What the walk says of a path, once it is over.
LEMMA WalkIsOver ==
    ASSUME AuditInv, boundary \in {"walking", "scanning"}, unread = {}, NEW path
    PROVE  /\ path \in files => path \in Path /\ Walked(path) /\ \E c \in Held(path) : IsFile(c)
           /\ path \notin files =>
                  path \notin Path \/ ~Walked(path) \/ \E c \in Held(path) : ~IsFile(c)
<1>1. files \subseteq Path
  BY DEF AuditInv, VerdictInv, BaseInv, TypeOK, BoundaryTypeOK
<1>2. path \in Path => Held(path) = past[path]
  BY DEF Held
<1> QED
  BY <1>1, <1>2 DEF AuditInv, VerdictInv, BaseInv, WalkInv

LEMMA BoundaryCollects ==
    ASSUME AuditInv, JudgePaths
    PROVE  BoundaryAudit!Collect
<1>1. /\ boundary = "walking" /\ unread = {} /\ boundary' = "scanning"
      /\ missing' = Required(profile) \ files
      /\ forbidden' = {path \in files : Forbidden(profile, path)}
      /\ unscanned' = files /\ scanning' = {} /\ secrets' = {} /\ secrets = {}
      /\ UNCHANGED <<treeVars, profile>>
  BY DEF JudgePaths, AuditInv, VerdictInv, BaseInv, Fresh
<1>2. files \subseteq Path
  BY DEF AuditInv, VerdictInv, BaseInv, TypeOK, BoundaryTypeOK
<1>3. BoundaryStatus = "idle" /\ BoundaryStatus' = "judging"
  BY <1>1 DEF BoundaryStatus
<1>4. UNCHANGED <<BoundaryClean, BoundaryBad>>
  BY <1>1 DEF treeVars, BoundaryClean, BoundaryBad, Held
<1>5. BoundaryPending' = {"content"} \X files
  BY <1>1 DEF BoundaryPending
<1>6. BoundaryFound' = ({"path"} \X forbidden') \cup ({"required"} \X missing') \cup ({"content"} \X {})
  BY <1>1 DEF BoundaryFound
<1>7. BoundaryPending' \subseteq BoundaryItem
  BY <1>2, <1>5 DEF BoundaryItem
<1>8. ByKind
  BY CleanAndBad
<1>9. ASSUME NEW item \in BoundaryFound'
      PROVE  item \in BoundaryItem /\ item \notin BoundaryPending' /\ item \in BoundaryBad
  <2>1. /\ item = <<item[1], item[2]>>
        /\ \/ item[1] = "path" /\ item[2] \in forbidden'
           \/ item[1] = "required" /\ item[2] \in missing'
    BY <1>6, ThreeKinds
  <2>2. item \notin BoundaryPending'
    BY <1>5, <2>1
  <2>3. CASE item[1] = "path"
    <3>1. item[2] \in files /\ Forbidden(profile, item[2])
      BY <1>1, <2>1, <2>3
    <3>2. PathBad(item[2]) /\ item[2] \in Path
      BY <1>1, <3>1, WalkIsOver DEF PathBad
    <3>3. item \in BoundaryItem
      BY <2>1, <2>3, <3>2, BoundaryItems
    <3> QED
      BY <1>8, <2>2, <2>3, <3>2, <3>3 DEF ByKind
  <2>4. CASE item[1] = "required"
    <3>1. item[2] \in Required(profile) /\ item[2] \notin files
      BY <1>1, <2>1, <2>4
    <3>2. RequiredBad(item[2])
      BY <1>1, <3>1, WalkIsOver DEF RequiredBad
    <3>3. item \in BoundaryItem
      BY <2>1, <2>4, <3>1, BoundaryItems, RequiredAreItems
    <3> QED
      BY <1>8, <2>2, <2>4, <3>2, <3>3 DEF ByKind
  <2> QED
    BY <2>1, <2>3, <2>4
<1>10. ASSUME NEW item \in BoundaryItem, item \notin BoundaryPending', item \notin BoundaryFound'
       PROVE  item \in BoundaryClean
  <2>1. item = <<item[1], item[2]>> /\ item[1] \in {"path", "content", "required"}
        /\ (item[1] \in {"path", "content"} => item[2] \in Path)
    BY BoundaryItems
  <2>2. CASE item[1] = "path"
    <3>1. item[2] \notin files \/ ~Forbidden(profile, item[2])
      BY <1>1, <1>6, <1>10, <2>1, <2>2, ThreeKinds
    <3>2. PathClean(item[2])
      BY <1>1, <2>1, <2>2, <3>1, WalkIsOver DEF PathClean
    <3> QED
      BY <1>8, <2>2, <3>2 DEF ByKind
  <2>3. CASE item[1] = "content"
    <3>1. item[2] \notin files
      BY <1>5, <1>10, <2>1, <2>3
    <3>2. ContentClean(item[2])
      BY <1>1, <2>1, <2>3, <3>1, WalkIsOver DEF ContentClean
    <3> QED
      BY <1>8, <2>3, <3>2 DEF ByKind
  <2>4. CASE item[1] = "required"
    <3>1. item[2] \notin Required(profile) \/ item[2] \in files
      BY <1>1, <1>6, <1>10, <2>1, <2>4, ThreeKinds
    <3>2. RequiredClean(item[2])
      BY <1>1, <3>1, WalkIsOver DEF RequiredClean
    <3> QED
      BY <1>8, <2>4, <3>2 DEF ByKind
  <2> QED
    BY <2>1, <2>2, <2>3, <2>4
<1> QED
  BY <1>3, <1>4, <1>7, <1>9, <1>10 DEF BoundaryAudit!Collect

\* One file's turn, up to its stat, and then its reading.
LEMMA BoundaryJudges ==
    ASSUME AuditInv, NEW path \in Path, StatFile(path) \/ ReadListed(path)
    PROVE  BoundaryAudit!Judge
<1>1. /\ boundary = "scanning" /\ boundary' = "scanning"
      /\ path \in files /\ Walked(path) /\ \E c \in Held(path) : IsFile(c)
      /\ file[path] \in Held(path)
  <2>1. boundary = "scanning" /\ boundary' = "scanning" /\ path \in unscanned \cup scanning
    BY DEF StatFile, ReadListed
  <2>2. path \in files /\ unread = {}
    BY <2>1 DEF AuditInv, VerdictInv, BaseInv, Fresh, TypeOK, BoundaryTypeOK
  <2>3. file[path] \in past[path]
    BY DEF AuditInv, VerdictInv, BaseInv, History
  <2> QED
    BY <2>1, <2>2, <2>3, WalkIsOver DEF Held
<1>2. /\ unscanned' \cup scanning' \subseteq unscanned \cup scanning
      /\ \A q \in (unscanned \cup scanning) \ (unscanned' \cup scanning') : q = path
      /\ forbidden' = forbidden /\ missing' = missing /\ UNCHANGED <<treeVars, profile>>
  BY DEF StatFile, ReadListed
<1>3. \A q : q \in FoundSecrets' \ FoundSecrets =>
          /\ q = path /\ Secrets(file[path]) # {} /\ IsText(path)
          /\ path \in scanning /\ path \notin unscanned' \cup scanning'
          /\ \E c \in Held(path) : BoundaryFits(c)
  <2>1. CASE StatFile(path)
    BY <2>1 DEF StatFile, FoundSecrets
  <2>2. CASE ReadListed(path)
    <3>1. secrets' = secrets \cup ({path} \X Secrets(file[path])) /\ scanning = {path}
          /\ scanning' = {} /\ unscanned' = unscanned
      BY <2>2 DEF ReadListed
    <3>2. \A q : q \in FoundSecrets' <=> q \in FoundSecrets \/ (q = path /\ Secrets(file[path]) # {})
      BY <3>1, FirstsOfMore DEF FoundSecrets
    <3>3. IsText(path) /\ path \notin unscanned /\ \E c \in Held(path) : BoundaryFits(c)
      BY <3>1 DEF AuditInv, InHand, Held
    <3> QED
      BY <3>1, <3>2, <3>3
  <2> QED
    BY <2>1, <2>2
<1>4. FoundSecrets \subseteq FoundSecrets'
  BY DEF StatFile, ReadListed, FoundSecrets
<1>5. path \in unscanned' \cup scanning' \cup FoundSecrets'
         \/ ~IsText(path) \/ ~BoundaryFits(file[path]) \/ Secrets(file[path]) = {}
  <2>1. CASE StatFile(path)
    BY <2>1 DEF StatFile
  <2>2. CASE ReadListed(path)
    BY <2>2, FirstsOfMore DEF ReadListed, FoundSecrets
  <2> QED
    BY <2>1, <2>2
<1>6. UNCHANGED <<BoundaryClean, BoundaryBad>>
  BY <1>2 DEF treeVars, BoundaryClean, BoundaryBad, Held
<1>7. BoundaryStatus = "judging" /\ BoundaryStatus' = "judging"
  BY <1>1 DEF BoundaryStatus
<1>8. BoundaryPending' \subseteq BoundaryPending
  BY <1>2 DEF BoundaryPending
<1>9. /\ BoundaryFound = ({"path"} \X forbidden) \cup ({"required"} \X missing)
                            \cup ({"content"} \X FoundSecrets)
      /\ BoundaryFound' = ({"path"} \X forbidden) \cup ({"required"} \X missing)
                            \cup ({"content"} \X FoundSecrets')
  BY <1>2 DEF BoundaryFound, FoundSecrets
<1>10. BoundaryFound \subseteq BoundaryFound'
  BY <1>4, <1>9, ThreeKinds
<1>11. <<"content", path>> \in BoundaryItem /\ ByKind
  BY CleanAndBad DEF BoundaryItem
<1>12. ASSUME NEW item \in BoundaryFound', item \notin BoundaryFound
       PROVE  item \in BoundaryPending /\ item \notin BoundaryPending' /\ item \in BoundaryBad
  <2>1. item = <<item[1], item[2]>> /\ item[1] = "content" /\ item[2] \in FoundSecrets' \ FoundSecrets
    BY <1>9, <1>12, ThreeKinds
  <2>2. item = <<"content", path>> /\ item[2] = path
    BY <1>3, <2>1
  <2>3. ContentBad(path)
    BY <1>1, <1>3, <2>1 DEF ContentBad
  <2>4. item \in BoundaryBad
    BY <1>11, <2>1, <2>2, <2>3 DEF ByKind
  <2>5. path \in scanning /\ path \notin unscanned' \cup scanning'
    BY <1>3, <2>1
  <2> QED
    BY <2>2, <2>4, <2>5 DEF BoundaryPending
<1>13. ASSUME NEW item \in BoundaryPending, item \notin BoundaryPending', item \notin BoundaryFound'
       PROVE  item \in BoundaryClean
  <2>1. item = <<item[1], item[2]>> /\ item[1] = "content"
        /\ item[2] \in (unscanned \cup scanning) \ (unscanned' \cup scanning')
    BY <1>13 DEF BoundaryPending
  <2>2. item = <<"content", path>> /\ item[2] = path /\ path \notin unscanned' \cup scanning'
    BY <1>2, <2>1
  <2>3. path \notin FoundSecrets'
    BY <1>9, <1>13, <2>1, <2>2, ThreeKinds
  <2>4. ContentClean(path)
    BY <1>1, <1>5, <2>2, <2>3 DEF ContentClean
  <2> QED
    BY <1>11, <2>1, <2>2, <2>4 DEF ByKind
<1> QED
  BY <1>6, <1>7, <1>8, <1>10, <1>12, <1>13 DEF BoundaryAudit!Judge

LEMMA BoundaryConcludes ==
    ASSUME BoundaryVerdict
    PROVE  BoundaryAudit!Conclude
<1>1. /\ boundary = "scanning" /\ unscanned = {} /\ scanning = {}
      /\ boundary' = IF missing = {} /\ forbidden = {} /\ secrets = {} THEN "passed" ELSE "failed"
      /\ UNCHANGED <<treeVars, profile, unscanned, scanning, missing, forbidden, secrets>>
  BY DEF BoundaryVerdict
<1>2. BoundaryPending = {}
  BY <1>1 DEF BoundaryPending
<1>3. UNCHANGED <<BoundaryPending, BoundaryFound, BoundaryClean, BoundaryBad>>
  BY <1>1 DEF BoundaryPending, BoundaryFound, BoundaryClean, BoundaryBad, Held, treeVars
<1>4. FoundSecrets = {} <=> secrets = {}
  BY DEF FoundSecrets
<1>5. BoundaryFound = {} <=> forbidden = {} /\ missing = {} /\ FoundSecrets = {}
  <2>1. \A p \in forbidden : <<"path", p>> \in BoundaryFound
    BY BoundaryFoundIs
  <2>2. \A p \in missing : <<"required", p>> \in BoundaryFound
    BY BoundaryFoundIs
  <2>3. \A p \in FoundSecrets : <<"content", p>> \in BoundaryFound
    BY BoundaryFoundIs
  <2>4. forbidden = {} /\ missing = {} /\ FoundSecrets = {} => BoundaryFound = {}
    BY BoundaryFoundIs
  <2> QED
    BY <2>1, <2>2, <2>3, <2>4
<1>6. BoundaryStatus = "judging"
      /\ BoundaryStatus' = IF missing = {} /\ forbidden = {} /\ secrets = {} THEN "passed" ELSE "failed"
  BY <1>1 DEF BoundaryStatus
<1> QED
  BY <1>2, <1>3, <1>4, <1>5, <1>6 DEF BoundaryAudit!Conclude

\* The boundary check never passes over, finds or clears a path for a state it was not in
\* while the check ran, loses none of its findings, and its verdict is theirs.
THEOREM BoundaryIsAnAudit == Spec => BoundaryImplementsAudit
<1>1. Init => BoundaryAudit!Init
  BY DEF Init, InitBoundary, BoundaryAudit!Init, BoundaryStatus, BoundaryPending, BoundaryFound
<1>2. ASSUME AuditInv, [Next]_gateVars
      PROVE  BoundaryAudit!Next \/ UNCHANGED BoundaryAudit!vars
  <2>0. BoundaryTypeOK
    BY <1>2 DEF AuditInv, VerdictInv, BaseInv, TypeOK
  <2>1. CASE gate = "oss:check:boundary" /\ BoundaryStep
    <3>1. CASE StartWalk \/ \E dir \in unread : ListDir(dir)
      <4>1. BoundaryStatus = "idle" /\ BoundaryStatus' = "idle"
            /\ UNCHANGED <<unscanned, scanning, forbidden, missing, secrets>>
        BY <3>1 DEF StartWalk, ListDir, BoundaryStatus
      <4>2. UNCHANGED <<BoundaryPending, BoundaryFound>>
        BY <4>1 DEF BoundaryPending, BoundaryFound
      <4> QED
        BY <4>1, <4>2 DEF BoundaryAudit!Next, BoundaryAudit!Change
    <3>2. CASE UnknownProfile \/ \E dir \in unread : ListDirThrows(dir)
      <4>1. BoundaryStatus = "idle" /\ BoundaryStatus' = "failed"
            /\ UNCHANGED <<treeVars, profile, unscanned, scanning, forbidden, missing, secrets>>
        BY <3>2 DEF UnknownProfile, ListDirThrows, BoundaryStatus
      <4>2. UNCHANGED <<BoundaryPending, BoundaryFound, BoundaryClean, BoundaryBad>>
        BY <4>1 DEF BoundaryPending, BoundaryFound, BoundaryClean, BoundaryBad, Held, treeVars
      <4> QED
        BY <4>1, <4>2 DEF BoundaryAudit!Next, BoundaryAudit!Abort
    <3>3. CASE JudgePaths
      BY <1>2, <3>3, BoundaryCollects DEF BoundaryAudit!Next
    <3>4. CASE \E path \in Path : StatFile(path) \/ ReadListed(path)
      BY <1>2, <3>4, BoundaryJudges DEF BoundaryAudit!Next
    <3>5. CASE BoundaryVerdict
      BY <3>5, BoundaryConcludes DEF BoundaryAudit!Next
    <3> QED
      BY <2>1, <3>1, <3>2, <3>3, <3>4, <3>5 DEF BoundaryStep
  <2>2. CASE gate = "oss:check" /\ UNCHANGED boundaryVars
    <3>1. boundary = "idle"
      BY <1>2, <2>2 DEF AuditInv, VerdictInv, BaseInv, InOrder
    <3> QED
      BY <2>0, <2>2, <3>1, BoundaryGoesOn
  <2>3. CASE UNCHANGED <<boundaryVars, treeVars>>
    <3>1. \A path \in Path : past[path] \subseteq past'[path]
      BY <2>3 DEF treeVars
    <3> QED
      BY <2>0, <2>3, <3>1, BoundaryGoesOn
  <2>4. CASE Others /\ UNCHANGED boundaryVars
    <3>1. \A path \in Path : past[path] \subseteq past'[path]
      BY <1>2, <2>4, TreeChange DEF AuditInv, VerdictInv, BaseInv, TypeOK
    <3> QED
      BY <2>0, <2>4, <3>1, BoundaryGoesOn
  <2> QED
    BY <1>2, <2>1, <2>2, <2>3, <2>4, Kinds, StepOnTree
<1> QED
  BY <1>1, <1>2, AuditInvariant, PTL DEF Spec, BoundaryImplementsAudit, BoundaryAudit!Spec
=============================================================================
