------------------------------ MODULE PathNames ------------------------------
(***************************************************************************)
(* Paths as the release scripts see them.  A path is the sequence of its   *)
(* names and a name the sequence of its parts between dots:                *)
(* "a/.env.example" is << <<"a">>, <<"", "env", "example">> >>.  Whatever  *)
(* the regular expressions of the scripts ask of a path, they ask of its   *)
(* leading directories, of its last name, or of the end of that name.      *)
(***************************************************************************)
EXTENDS Naturals, Sequences

\* filePath.split('/').pop()
Base(path) == path[Len(path)]

DirOf(path) == SubSeq(path, 1, Len(path) - 1)

\* The directories a path lies in, the root <<>> among them.
Above(path) == {SubSeq(path, 1, n) : n \in 0..(Len(path) - 1)}

\* /^dir\// : something below the directory.
Below(path, dir) == Len(path) > Len(dir) /\ SubSeq(path, 1, Len(dir)) = dir

\* /^dir\/[^/]+\.ext$/ : a file of the directory itself, named x.ext.
DirectFile(path, dir, ext) ==
    /\ Len(path) = Len(dir) + 1 /\ Below(path, dir)
    /\ Len(Base(path)) > Len(ext)
    /\ SubSeq(Base(path), Len(Base(path)) - Len(ext) + 1, Len(Base(path))) = ext
    /\ Base(path) # <<"">> \o ext

\* basename.slice(basename.lastIndexOf('.')), without the dot.
LastPart(name) == IF Len(name) > 1 THEN name[Len(name)] ELSE ""

\* path.extname of node: a name that only begins with a dot has none.
ExtName(name) == IF Len(name) = 2 /\ name[1] = "" THEN "" ELSE LastPart(name)

\* /(^|\/)\.env($|\.)/ : .env at the end, or a name .env.x anywhere.
EnvNamed(path) ==
    \/ Base(path) = <<"", "env">>
    \/ \E i \in DOMAIN path :
          Len(path[i]) > 2 /\ path[i][1] = "" /\ path[i][2] = "env"

=============================================================================
