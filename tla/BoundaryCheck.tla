---------------------------- MODULE BoundaryCheck ----------------------------
(***************************************************************************)
(* scripts/oss-export-boundary-check.mjs: walks the work tree directory by *)
(* directory, compares the paths found with the rules of a profile, and    *)
(* then reads the text files among them.  A directory may go between the   *)
(* listing of its parent and its own, and a file between its listing and   *)
(* its reading.                                                            *)
(***************************************************************************)
EXTENDS Checkout

CONSTANT Profiles   \* the values --profile may be given

VARIABLES
    profile,    \* the --profile of this run
    boundary,   \* "idle", "walking", "scanning", "passed", "failed" or "crashed"
    unread,     \* the stack of directories still to be listed
    files,      \* the files listed
    unscanned,  \* those whose contents are still to be scanned
    scanning,   \* the file between its stat and its reading, if any
    missing,    \* missingRequired
    forbidden,  \* forbiddenHits
    secrets     \* secretFindings: file and rule

boundaryVars == <<profile, boundary, unread, files, unscanned, scanning, missing, forbidden, secrets>>

NeurcodeTop == << <<"", "neurcode">> >>
NeurcodeSub(name) == NeurcodeTop \o << <<name>> >>

RuntimeOnly(path) ==
    \/ path = NeurcodeTop \o << <<"intent-state", "json">> >>
    \/ path = NeurcodeTop \o << <<"session", "json">> >>
    \/ Below(path, NeurcodeSub("cache"))
    \/ Below(path, NeurcodeSub("evidence"))
    \/ DirectFile(path, NeurcodeSub("policies"), <<"active", "json">>)
    \/ Below(path, NeurcodeSub("control-plane") \o << <<"snapshots">> >>)
    \/ path = NeurcodeSub("workspaces") \o << <<"index", "json">> >>
    \/ Below(path, NeurcodeSub("workspaces") \o << <<"cache">> >>)

AllowedSource(path) ==
    \/ DirectFile(path, NeurcodeSub("policies"), <<"json">>)
    \/ Below(path, NeurcodeSub("templates"))
    \/ DirectFile(path, NeurcodeSub("control-plane"), <<"json">>)
    \/ DirectFile(path, NeurcodeSub("workspaces") \o << <<"definitions">> >>, <<"json">>)

NeurcodeBoundaryViolation(path) ==
    Below(path, NeurcodeTop) /\ (RuntimeOnly(path) \/ ~AllowedSource(path))

Package(name) == << <<"packages">>, <<name>> >>
Manifest == <<"package", "json">>
DistIndex == << <<"dist">>, <<"index", "js">> >>

Required(prof) ==
    IF prof = "cli"
    THEN {Package("cli") \o << <<"README", "md">> >>}
         \cup UNION {{Package(name) \o DistIndex, Package(name) \o <<Manifest>>} :
                        name \in {"cli", "contracts", "governance-runtime", "telemetry"}}
    ELSE {<< <<"action", "yml">> >>, DistIndex, <<Manifest>>}

ForbiddenDirs(prof) ==
    {<< <<"services">> >>, << <<"web">> >>} \cup
    IF prof = "cli"
    THEN {Package(name) : name \in {"action", "github-action", "analysis", "brain", "core",
                                    "diff-parser", "policy", "policy-engine", "mcp-server"}}
         \cup {Package(name) \o << <<"src">> >> :
                   name \in {"cli", "telemetry", "governance-runtime", "contracts"}}
    ELSE {<< <<name>> >> : name \in {"src", "test", "tests", "packages"}}

Forbidden(prof, path) ==
    \/ NeurcodeBoundaryViolation(path)
    \/ \E dir \in ForbiddenDirs(prof) : Below(path, dir)
    \/ path = << <<"neurcode", "db">> >>
    \/ EnvNamed(path)
    \/ LastPart(Base(path)) = "map"

SkippedNames == {<<"", "git">>, <<"node_modules">>, <<"", "pnpm-store">>}

\* No directory the path lies in is skipped.
Walked(path) == \A n \in 1..(Len(path) - 1) : path[n] \notin SkippedNames

\* extname never yields ".gitignore", which isTextFile asks for by name.
TextFileExtensions == {"js", "mjs", "cjs", "ts", "json", "md", "txt", "yml", "yaml", "sh", "gitignore"}

IsText(path) == Base(path) = <<"", "gitignore">> \/ ExtName(Base(path)) \in TextFileExtensions

BoundaryMaxSize == 5
BoundaryPattern == {"npmLiteral", "ghp", "githubPat", "dbUrl", "authToken"}

BoundaryFits(c) == c # Absent /\ c.size <= BoundaryMaxSize
\* Mutant: whatever the text matches, not only the patterns of this script.
SecretsOfAllKinds(c) == IF c = Absent \/ ~c.readable THEN {} ELSE c.text

Secrets(c) == IF c = Absent \/ ~c.readable THEN {} ELSE c.text \cap BoundaryPattern

InitBoundary ==
    /\ profile \in Profiles
    /\ boundary = "idle" /\ unread = {} /\ files = {} /\ unscanned = {} /\ scanning = {}
    /\ missing = {} /\ forbidden = {} /\ secrets = {}

\* parseArgs and the start of the walk; the target is the checkout itself.
StartWalk ==
    /\ boundary = "idle" /\ profile \in {"cli", "action"}
    /\ boundary' = "walking"
    /\ unread' = {<<>>}
    /\ Forget
    /\ UNCHANGED <<tracked, file, dirs, edited, edits, profile, files, unscanned, scanning,
                   missing, forbidden, secrets>>

UnknownProfile ==
    /\ boundary = "idle" /\ profile \notin {"cli", "action"}
    /\ boundary' = "failed"
    /\ UNCHANGED <<treeVars, profile, unread, files, unscanned, scanning, missing, forbidden, secrets>>

\* The top of the stack: entries are pushed in listing order, so that what is below a
\* directory pushed last comes before its elder siblings, as Rank orders them.
Top(dir) == dir \in unread /\ \A other \in unread : Rank[other] <= Rank[dir]

\* Mutant: the directories of the last listing replace the stack.
ListDirAlone(dir) ==
    /\ boundary = "walking" /\ Top(dir) /\ dir \in dirs
    /\ unread' = {sub \in SubDirs(dir) : Base(sub) \notin SkippedNames}
    /\ files' = files \cup FilesIn(dir)
    /\ UNCHANGED <<treeVars, profile, boundary, unscanned, scanning, missing, forbidden, secrets>>

\* Mutant: the directory is read at the top of the stack and not popped.
ListDirAgain(dir) ==
    /\ boundary = "walking" /\ Top(dir) /\ dir \in dirs
    /\ unread' = unread \cup {sub \in SubDirs(dir) : Base(sub) \notin SkippedNames}
    /\ files' = files \cup FilesIn(dir)
    /\ UNCHANGED <<treeVars, profile, boundary, unscanned, scanning, missing, forbidden, secrets>>

\* One directory is listed.
ListDir(dir) ==
    /\ boundary = "walking" /\ Top(dir) /\ dir \in dirs
    /\ unread' = (unread \ {dir})
                     \cup {sub \in SubDirs(dir) : Base(sub) \notin SkippedNames}
    /\ files' = files \cup FilesIn(dir)
    /\ UNCHANGED <<treeVars, profile, boundary, unscanned, scanning, missing, forbidden, secrets>>

\* readdirSync throws, always of a directory that is gone and of one that is there
\* for want of permission, and nothing catches it.
ListDirThrows(dir) ==
    /\ boundary = "walking" /\ Top(dir)
    /\ boundary' = "crashed"
    /\ UNCHANGED <<treeVars, profile, unread, files, unscanned, scanning, missing, forbidden, secrets>>

\* Mutant: a violation below .neurcode skips the record as well as the profile's rules.
JudgePathsAfterContinue ==
    /\ boundary = "walking" /\ unread = {}
    /\ boundary' = "scanning"
    /\ missing' = Required(profile) \ files
    /\ forbidden' = {path \in files : Forbidden(profile, path) /\ ~NeurcodeBoundaryViolation(path)}
    /\ unscanned' = files
    /\ UNCHANGED <<treeVars, profile, unread, files, scanning, secrets>>

\* missingRequired and forbiddenHits, from the list alone.
JudgePaths ==
    /\ boundary = "walking" /\ unread = {}
    /\ boundary' = "scanning"
    /\ missing' = Required(profile) \ files
    /\ forbidden' = {path \in files : Forbidden(profile, path)}
    /\ unscanned' = files
    /\ UNCHANGED <<treeVars, profile, unread, files, scanning, secrets>>

\* The order of the list: a directory before what is below it, and of two others
\* the one pushed last; within a directory as it was listed.
ListedBefore(path, other) ==
    LET dir == DirOf(path)
        elsewhere == DirOf(other)
    IN IF dir = elsewhere THEN Rank[path] < Rank[other]
       ELSE \/ Below(elsewhere, dir)
            \/ ~Below(dir, elsewhere) /\ Rank[elsewhere] < Rank[dir]

\* A file's turn in scanSecrets, up to its stat.
StatFile(path) ==
    /\ boundary = "scanning" /\ scanning = {}
    /\ path \in unscanned /\ \A other \in unscanned \ {path} : ListedBefore(path, other)
    /\ unscanned' = unscanned \ {path}
    /\ scanning' = IF IsText(path) /\ BoundaryFits(file[path]) THEN {path} ELSE {}
    /\ UNCHANGED <<treeVars, profile, boundary, unread, files, missing, forbidden, secrets>>

ReadListed(path) ==
    /\ boundary = "scanning" /\ scanning = {path}
    /\ scanning' = {}
    /\ secrets' = secrets \cup ({path} \X Secrets(file[path]))
    /\ UNCHANGED <<treeVars, profile, boundary, unread, files, unscanned, missing, forbidden>>

BoundaryVerdict ==
    /\ boundary = "scanning" /\ unscanned = {} /\ scanning = {}
    /\ boundary' = IF missing = {} /\ forbidden = {} /\ secrets = {} THEN "passed" ELSE "failed"
    /\ UNCHANGED <<treeVars, profile, unread, files, unscanned, scanning, missing, forbidden, secrets>>

BoundaryStep ==
    \/ StartWalk \/ UnknownProfile \/ JudgePaths \/ BoundaryVerdict
    \/ \E dir \in unread : ListDir(dir) \/ ListDirThrows(dir)
    \/ \E path \in Path : StatFile(path) \/ ReadListed(path)

BoundaryTypeOK ==
    /\ profile \in Profiles
    /\ boundary \in {"idle", "walking", "scanning", "passed", "failed", "crashed"}
    /\ files \subseteq Path /\ unscanned \subseteq files /\ scanning \subseteq files
    /\ missing \subseteq Required(profile)
    /\ forbidden \subseteq files
    /\ secrets \subseteq files \X BoundaryPattern

(***************************************************************************)
(* The properties.                                                         *)
(***************************************************************************)

\* Once the walk is over, a path below no skipped directory is listed unless it was
\* no file at some time since the walk began, and is listed only if it was one: with
\* directories coming and going, the stack of listFiles leaves no branch out.
WalkMissesNothing ==
    boundary \in {"walking", "scanning"} /\ unread = {} =>
        \A path \in Path :
            /\ path \in files => Walked(path) /\ \E c \in past[path] : IsFile(c)
            /\ path \notin files /\ Walked(path) => \E c \in past[path] : ~IsFile(c)

BoundaryItem ==
    ({"path", "content"} \X Path) \cup ({"required"} \X (Required("cli") \cup Required("action")))

Held(path) == IF path \in Path THEN past[path] ELSE {}

BoundaryClean ==
    {item \in BoundaryItem :
        LET path == item[2] IN
        CASE item[1] = "path" ->
                 \/ ~Walked(path) \/ ~Forbidden(profile, path)
                 \/ \E c \in Held(path) : ~IsFile(c)
          [] item[1] = "content" ->
                 \/ ~Walked(path) \/ ~IsText(path)
                 \/ \E c \in Held(path) : ~IsFile(c) \/ ~BoundaryFits(c) \/ Secrets(c) = {}
          [] item[1] = "required" ->
                 \/ path \notin Required(profile)
                 \/ Walked(path) /\ \E c \in Held(path) : IsFile(c)}

BoundaryBad ==
    {item \in BoundaryItem :
        LET path == item[2] IN
        CASE item[1] = "path" ->
                 /\ Walked(path) /\ Forbidden(profile, path)
                 /\ \E c \in Held(path) : IsFile(c)
          [] item[1] = "content" ->
                 /\ Walked(path) /\ IsText(path)
                 /\ \E c \in Held(path) : IsFile(c)
                 /\ \E c \in Held(path) : BoundaryFits(c)
                 /\ \E c \in Held(path) : Secrets(c) # {}
          [] item[1] = "required" ->
                 /\ path \in Required(profile)
                 /\ path \notin Path \/ ~Walked(path) \/ \E c \in Held(path) : ~IsFile(c)}

BoundaryPending == {"content"} \X (unscanned \cup scanning)

BoundaryFound ==
    ({"path"} \X forbidden) \cup ({"required"} \X missing)
        \cup ({"content"} \X {hit[1] : hit \in secrets})

BoundaryStatus ==
    CASE boundary \in {"idle", "walking"}   -> "idle"
      [] boundary = "scanning"             -> "judging"
      [] boundary = "passed"               -> "passed"
      [] boundary \in {"failed", "crashed"} -> "failed"

BoundaryAudit == INSTANCE FileAudit
    WITH Item    <- BoundaryItem,
         status  <- BoundaryStatus,
         pending <- BoundaryPending,
         found   <- BoundaryFound,
         clean   <- BoundaryClean,
         bad     <- BoundaryBad

\* The boundary check is an audit of the tree as FileAudit promises it: a file or a
\* required path is passed over, found or cleared only for a state it was in while
\* the script ran, no finding of the three lists is lost, and the verdict is theirs.
BoundaryImplementsAudit == BoundaryAudit!Spec

=============================================================================
