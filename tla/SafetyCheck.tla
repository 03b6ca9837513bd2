----------------------------- MODULE SafetyCheck -----------------------------
(***************************************************************************)
(* scripts/oss-safety-check.mjs: lists what git tracks and judges each     *)
(* file by its path and, when it is one of the text files, by its          *)
(* contents in the work tree.  The tree may change between the listing and *)
(* a file's turn, and between the stat of a file and its reading.          *)
(***************************************************************************)
EXTENDS Checkout

VARIABLES
    safety,       \* "idle", "judging", "passed" or "failed"
    todo,         \* trackedFiles whose turn has not come
    reading,      \* the file between its stat and its reading, if any
    pathHits,     \* forbiddenPathFindings: path and rule
    envHits,      \* envPathFindings: paths
    contentHits   \* contentFindings: path, line and pattern

safetyVars == <<safety, todo, reading, pathHits, envHits, contentHits>>

Neurcode == << <<"", "neurcode">> >>
NeurcodeDir(name) == Neurcode \o << <<name>> >>

SafetyRuntimeForbidden(path) ==
    \/ path = Neurcode \o << <<"intent-state", "json">> >>
    \/ path = Neurcode \o << <<"session", "json">> >>
    \/ Below(path, NeurcodeDir("cache"))
    \/ DirectFile(path, NeurcodeDir("policies"), <<"active", "json">>)
    \/ Below(path, NeurcodeDir("control-plane") \o << <<"snapshots">> >>)
    \/ path = NeurcodeDir("workspaces") \o << <<"index", "json">> >>
    \/ Below(path, NeurcodeDir("workspaces") \o << <<"cache">> >>)

\* Mutant: evidence may be published as well.
SafetyAllowedSourceAndEvidence(path) ==
    \/ DirectFile(path, NeurcodeDir("policies"), <<"json">>)
    \/ Below(path, NeurcodeDir("templates"))
    \/ DirectFile(path, NeurcodeDir("control-plane"), <<"json">>)
    \/ Below(path, NeurcodeDir("evidence"))

SafetyAllowedSource(path) ==
    \/ DirectFile(path, NeurcodeDir("policies"), <<"json">>)
    \/ Below(path, NeurcodeDir("templates"))
    \/ DirectFile(path, NeurcodeDir("control-plane"), <<"json">>)
    \/ DirectFile(path, NeurcodeDir("workspaces") \o << <<"definitions">> >>, <<"json">>)

\* getNeurcodePathViolation: runtime state first, then whatever is not allowlisted.
NeurcodePathViolation(path) ==
    /\ Below(path, Neurcode)
    /\ SafetyRuntimeForbidden(path) \/ ~SafetyAllowedSource(path)

\* A generated audit dump is named neurcode_<anything>_audit.txt.
CONSTANT AuditDumpStems

SafetyRule == {"neurcode", "pnpm-store", "npm-auth-temp", "local-db", "audit-dump",
               "audit-log", "pitch-deck", "backup-file", "os-artifact"}

Breaks(path, rule) ==
    CASE rule = "neurcode"      -> NeurcodePathViolation(path)
      [] rule = "pnpm-store"    -> Below(path, << <<"", "pnpm-store">> >>)
      [] rule = "npm-auth-temp" -> path = << <<"packages">>, <<"cli">>, <<"", "npmrc", "tmp">> >>
      [] rule = "local-db"      -> path = << <<"neurcode", "db">> >>
      [] rule = "audit-dump"    -> \E stem \in AuditDumpStems : path = << <<stem, "txt">> >>
      [] rule = "audit-log"     -> path = << <<"neurcode", "policy", "audit", "log", "jsonl">> >>
      [] rule = "pitch-deck"    -> path = << <<"Neurcode-Pitch_Deck", "pdf">> >>
      [] rule = "backup-file"   -> path = << <<"package", "json", "backup">> >>
      [] rule = "os-artifact"   -> LastPart(Base(path)) = "DS_Store"

ForbiddenRules(path) == {rule \in SafetyRule : Breaks(path, rule)}

EnvTemplate(path) ==
    Base(path) \in {<<"", "env", "example">>, <<"env", "production", "example">>}

EnvFinding(path) == EnvNamed(path) /\ ~EnvTemplate(path)

TextScanExtensions == {"env", "txt", "md", "json", "yaml", "yml", "npmrc", "sh", "toml"}

EndsIn(name, end) ==
    Len(name) > Len(end) /\ SubSeq(name, Len(name) - Len(end) + 1, Len(name)) = end

ShouldScan(path) ==
    /\ ~(EnvNamed(path) /\ EnvTemplate(path))
    /\ \/ EndsIn(Base(path), <<"npmrc">>) \/ EndsIn(Base(path), <<"npmrc", "tmp">>)
       \/ EnvNamed(path)
       \/ LastPart(Base(path)) \in TextScanExtensions

SafetyMaxSize == 1
LineFinding == Nat \X Pattern

\* existsSync and statSync: is the file there, and small enough to be read?
SafetyFits(c) == c # Absent /\ c.size <= SafetyMaxSize

\* What reading it yields: nothing when it is gone or unreadable by then.
LineHits(c) ==
    IF c = Absent \/ ~c.readable THEN {}
    ELSE {hit \in (DOMAIN c.lines) \X Pattern : hit[2] \in c.lines[hit[1]]}

InitSafety ==
    /\ safety = "idle" /\ todo = {} /\ reading = {}
    /\ pathHits = {} /\ envHits = {} /\ contentHits = {}

ListTracked ==
    /\ safety = "idle" /\ safety' = "judging"
    /\ todo' = tracked
    /\ Forget
    /\ UNCHANGED <<tracked, file, dirs, edited, edits, reading, pathHits, envHits, contentHits>>

\* git ls-files fails.
ListFails ==
    /\ safety = "idle" /\ safety' = "failed"
    /\ UNCHANGED <<treeVars, todo, reading, pathHits, envHits, contentHits>>

\* A file's turn: the rules for its path, then the stat before its reading.
JudgeFile(path) ==
    /\ safety = "judging" /\ reading = {}
    /\ path \in todo /\ \A other \in todo : Rank[path] <= Rank[other]
    /\ todo' = todo \ {path}
    /\ pathHits' = pathHits \cup ({path} \X ForbiddenRules(path))
    /\ envHits' = envHits \cup (IF EnvFinding(path) THEN {path} ELSE {})
    /\ reading' = IF ShouldScan(path) /\ SafetyFits(file[path]) THEN {path} ELSE {}
    /\ UNCHANGED <<treeVars, safety, contentHits>>

\* Mutant: the findings of a file replace those of the files before it.
ReadTrackedAfresh(path) ==
    /\ safety = "judging" /\ reading = {path}
    /\ reading' = {}
    /\ contentHits' = {path} \X LineHits(file[path])
    /\ UNCHANGED <<treeVars, safety, todo, pathHits, envHits>>

ReadTracked(path) ==
    /\ safety = "judging" /\ reading = {path}
    /\ reading' = {}
    /\ contentHits' = contentHits \cup ({path} \X LineHits(file[path]))
    /\ UNCHANGED <<treeVars, safety, todo, pathHits, envHits>>

SafetyVerdict ==
    /\ safety = "judging" /\ todo = {} /\ reading = {}
    /\ safety' = IF pathHits = {} /\ envHits = {} /\ contentHits = {} THEN "passed" ELSE "failed"
    /\ UNCHANGED <<treeVars, todo, reading, pathHits, envHits, contentHits>>

SafetyStep ==
    \/ ListTracked \/ ListFails \/ SafetyVerdict
    \/ \E path \in Path : JudgeFile(path) \/ ReadTracked(path)

SafetyTypeOK ==
    /\ safety \in {"idle", "judging", "passed", "failed"}
    /\ todo \subseteq Path
    /\ reading \subseteq Path
    /\ pathHits \subseteq Path \X SafetyRule
    /\ envHits \subseteq Path
    /\ contentHits \subseteq Path \X LineFinding

(***************************************************************************)
(* The properties.                                                         *)
(***************************************************************************)
SafetyItem == {"path", "content"} \X Path

BadPath(path) == ForbiddenRules(path) # {} \/ EnvFinding(path)
Overlooked(c) == ~SafetyFits(c) \/ LineHits(c) = {}

SafetyClean ==
    {item \in SafetyItem :
        LET path == item[2] IN
        \/ path \notin tracked
        \/ item[1] = "path" /\ ~BadPath(path)
        \/ item[1] = "content" /\ (~ShouldScan(path) \/ \E c \in past[path] : Overlooked(c))}

SafetyBad ==
    {item \in SafetyItem :
        LET path == item[2] IN
        /\ path \in tracked
        /\ item[1] = "path" => BadPath(path)
        /\ item[1] = "content" => /\ ShouldScan(path)
                                  /\ \E c \in past[path] : SafetyFits(c)
                                  /\ \E c \in past[path] : LineHits(c) # {}}

SafetyPending == ({"path"} \X todo) \cup ({"content"} \X (todo \cup reading))

SafetyFound ==
    ({"path"} \X ({hit[1] : hit \in pathHits} \cup envHits))
        \cup ({"content"} \X {hit[1] : hit \in contentHits})

SafetyAudit == INSTANCE FileAudit
    WITH Item    <- SafetyItem,
         status  <- safety,
         pending <- SafetyPending,
         found   <- SafetyFound,
         clean   <- SafetyClean,
         bad     <- SafetyBad

\* The safety check is an audit of the tracked files as FileAudit promises it: each is
\* judged by its path, and found or cleared by contents it had while the script ran,
\* even if it changes between its stat and its reading; no finding is lost.
SafetyImplementsAudit == SafetyAudit!Spec

=============================================================================
