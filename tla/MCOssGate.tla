------------------------------ MODULE MCOssGate ------------------------------
(***************************************************************************)
(* A small checkout for TLC: the required files of the cli profile, two    *)
(* paths below .neurcode and a text file, each of which others may add,    *)
(* change or take away while the gate runs.                                *)
(***************************************************************************)
EXTENDS OssGate

Text(kind, size, lines, text) ==
    [kind |-> kind, size |-> size, readable |-> TRUE, lines |-> lines, text |-> text]

Plain  == Text("file", 1, <<{}>>, {})
Token  == Text("file", 1, <<{}, {"npmLiteral"}>>, {"npmLiteral"})
Pass   == Text("file", 1, <<{"sshpass"}>>, {"sshpass"})
Large  == Text("file", 3, <<{"ghp"}, {"sshpass"}>>, {"ghp", "sshpass"})
Huge   == Text("file", 6, <<{"ghp"}>>, {"ghp"})
Spread == Text("file", 1, <<{}, {}>>, {"dbUrl"})
Link   == Text("link", 1, <<{}>>, {})
Locked == [Plain EXCEPT !.readable = FALSE]
MCContent == {Plain, Token, Pass, Large, Huge, Spread, Link, Locked}

Notes    == << <<"notes", "md">> >>
Policy   == << <<"", "neurcode">>, <<"policies">>, <<"team", "json">> >>
Evidence == << <<"", "neurcode">>, <<"evidence">>, <<"run", "json">> >>
Template == << <<"", "env", "example">> >>
Entry    == Package("cli") \o DistIndex
Extras   == {Notes, Policy, Evidence, Template}
MCPath   == Extras \cup Required("cli")

Base0 == [path \in MCPath |-> IF path \in Required("cli") THEN Plain ELSE Absent]
With(path, c) == [Base0 EXCEPT ![path] = c]

MCStartTree == {Base0, With(Template, Plain), [With(Notes, Pass) EXCEPT ![Evidence] = Plain]}
                   \cup {With(Notes, c) : c \in {Spread, Large}}
MCStartIndex == {MCPath, Required("cli") \cup {Notes, Policy}}

MCEdit == ({Notes} \X {Token, Huge, Locked, Absent})
              \cup {<<Policy, Plain>>, <<Policy, Link>>, <<Entry, Absent>>}
MCRemovable == {Package("telemetry"), << <<"", "neurcode">> >>}

\* Names in listing order, a directory before what is below it.
MCOrder == << <<>>,
    << <<"", "neurcode">> >>, NeurcodeSub("evidence"), Evidence, NeurcodeSub("policies"), Policy,
    Template, Notes, << <<"packages">> >>,
    Package("cli"), Package("cli") \o << <<"dist">> >>, Entry,
    Package("cli") \o <<Manifest>>, Package("cli") \o << <<"README", "md">> >>,
    Package("contracts"), Package("contracts") \o << <<"dist">> >>,
    Package("contracts") \o DistIndex, Package("contracts") \o <<Manifest>>,
    Package("governance-runtime"), Package("governance-runtime") \o << <<"dist">> >>,
    Package("governance-runtime") \o DistIndex, Package("governance-runtime") \o <<Manifest>>,
    Package("telemetry"), Package("telemetry") \o << <<"dist">> >>,
    Package("telemetry") \o DistIndex, Package("telemetry") \o <<Manifest>> >>
MCRank == [x \in {MCOrder[i] : i \in DOMAIN MCOrder} |-> CHOOSE i \in DOMAIN MCOrder : MCOrder[i] = x]

MCStems == {"neurcode_2024_audit"}
=============================================================================
