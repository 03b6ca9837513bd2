------------------------------- MODULE Checkout -------------------------------
(***************************************************************************)
(* The checkout that the release scripts examine: the files and            *)
(* directories of the work tree, and the paths git tracks.  Nothing locks  *)
(* it: an editor, a build or a governed session goes on writing while the  *)
(* scripts list it and then read it file by file.                          *)
(***************************************************************************)
EXTENDS PathNames, FiniteSets

CONSTANTS
    Path,        \* the paths that may exist, a path being no directory of another
    Content,     \* what a file may hold
    Absent,      \* no such file
    StartTree,   \* the trees the scripts may start on: functions from Path to Content or Absent
    StartIndex,  \* the sets of paths git may track then
    Edit,        \* the edits others may make: pairs of a path and a Content or Absent
    Removable,   \* the directories others may remove
    MaxEdits,    \* bound on the edits of a behaviour
    Rank         \* the order in which git and readdir list names

\* A content: whether it is a file or a symbolic link, its size in megabytes rounded
\* up, whether it can be read, the secret patterns each of its lines matches, and
\* the ones its text as a whole matches.
Pattern == {"authToken", "dbUrl", "serviceSecret", "npmLiteral", "ghp", "githubPat", "sshpass"}

ASSUME CheckoutAssumption ==
    /\ Absent \notin Content
    /\ \A c \in Content : /\ c.kind \in {"file", "link"}
                          /\ c.size \in Nat
                          /\ c.readable \in BOOLEAN
                          /\ c.lines \in Seq(SUBSET Pattern)
                          /\ c.text \subseteq Pattern
    /\ \A path \in Path : Len(path) \in Nat \ {0} /\ path \in Seq(Seq(STRING))
    /\ StartTree \subseteq [Path -> Content \cup {Absent}]
    /\ StartIndex \subseteq SUBSET Path
    /\ Edit \subseteq Path \X (Content \cup {Absent})
    /\ <<>> \notin Removable
    /\ MaxEdits \in Nat

VARIABLES
    tracked,  \* the paths git tracks
    file,     \* what is at each path of the work tree
    dirs,     \* the directories of the work tree
    past,     \* history: what each path has held since the script at work began
    edited,   \* history: the paths edited since the first script began
    edits     \* number of edits made

treeVars == <<tracked, file, dirs, past, edited, edits>>

TreeTypeOK ==
    /\ tracked \subseteq Path
    /\ file \in [Path -> Content \cup {Absent}]
    /\ past \in [Path -> SUBSET (Content \cup {Absent})]
    /\ edited \subseteq Path
    /\ edits \in 0..MaxEdits

\* What readdir, stat and read see.
IsFile(c) == c # Absent /\ c.kind = "file"
FilesIn(dir) == {path \in Path : IsFile(file[path]) /\ DirOf(path) = dir}
SubDirs(dir) == {sub \in dirs : sub # <<>> /\ DirOf(sub) = dir}

InitTree ==
    /\ file \in StartTree
    /\ tracked \in StartIndex
    /\ dirs = {<<>>} \cup UNION {Above(path) : path \in {q \in Path : file[q] # Absent}}
    /\ past = [path \in Path |-> {file[path]}]
    /\ edited = {}
    /\ edits = 0

\* A script begins: its history starts with the tree it finds.
Forget == past' = [path \in Path |-> {file[path]}]

\* The tree becomes the new one.
Becomes(tree) ==
    /\ file' = tree
    /\ past' = [path \in Path |-> past[path] \cup {tree[path]}]
    /\ edited' = edited \cup {path \in Path : tree[path] # file[path]}
    /\ edits < MaxEdits
    /\ edits' = edits + 1
    /\ UNCHANGED tracked

\* A file is written, with the directories it needs.
WriteFile(path, c) ==
    /\ <<path, c>> \in Edit /\ c # Absent /\ c # file[path]
    /\ dirs' = dirs \cup Above(path)
    /\ Becomes([file EXCEPT ![path] = c])

DeleteFile(path) ==
    /\ <<path, Absent>> \in Edit /\ file[path] # Absent
    /\ dirs' = dirs
    /\ Becomes([file EXCEPT ![path] = Absent])

\* rm -rf of a directory.
RemoveDir(dir) ==
    /\ dir \in Removable \cap dirs
    /\ dirs' = {d \in dirs : d # dir /\ dir \notin Above(d)}
    /\ Becomes([path \in Path |-> IF dir \in Above(path) THEN Absent ELSE file[path]])

Others == \/ \E edit \in Edit : WriteFile(edit[1], edit[2]) \/ DeleteFile(edit[1])
          \/ \E dir \in Removable : RemoveDir(dir)

=============================================================================
