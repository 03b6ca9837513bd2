----------------------------- MODULE SmokeCheck ------------------------------
(***************************************************************************)
(* scripts/cli-smoke-check.mjs: asks the CLI of the checkout for its help  *)
(* texts, then works with it in a temporary git repository of its own,     *)
(* which it removes whatever happens in it.                                *)
(***************************************************************************)
EXTENDS Checkout

CONSTANT CliEntry   \* packages/cli/dist/index.js

VARIABLES
    smoke,   \* "idle", a stage of the script, or "passed", "failed", "leftover"
    probe,   \* the number of help texts that were complete
    tmp,     \* what is in the temporary directory: "dir", "repo", "plan"
    error    \* has the try block thrown?

smokeVars == <<smoke, probe, tmp, error>>

\* The texts asked for before the temporary directory is made.
Probes == <<"--help", "generate", "fix", "patch", "export", "daemon", "agent", "runtime",
            "admission", "verify", "policy list">>

ASSUME SmokeAssumption == CliEntry \in Path

InitSmoke == smoke = "idle" /\ probe = 0 /\ tmp = {} /\ error = FALSE

\* runCli throws when the entry is not there, and else if the CLI exits with an error;
\* an assertion throws when something is missing in its answer.  "fine" is an answer
\* that passes them.
Answers(fine) == fine => file[CliEntry] # Absent

StartSmoke ==
    /\ smoke = "idle" /\ smoke' = "probing"
    /\ UNCHANGED <<treeVars, probe, tmp, error>>

Probe ==
    /\ smoke = "probing" /\ probe < Len(Probes)
    /\ \E fine \in BOOLEAN :
          /\ Answers(fine)
          /\ probe' = IF fine THEN probe + 1 ELSE probe
          /\ smoke' = IF fine THEN "probing" ELSE "failed"
    /\ UNCHANGED <<treeVars, tmp, error>>

\* mkdtempSync, outside the try block.
MakeTemp ==
    /\ smoke = "probing" /\ probe = Len(Probes)
    /\ \/ smoke' = "git" /\ tmp' = {"dir"}
       \/ smoke' = "failed" /\ UNCHANGED tmp
    /\ UNCHANGED <<treeVars, probe, error>>

\* Mutant: an error goes straight to the catch of the caller.
StageWithoutFinally(stage, next, fine) ==
    /\ smoke = stage
    /\ smoke' = IF fine THEN next ELSE "failed"
    /\ error' = ~fine
    /\ UNCHANGED <<treeVars, probe>>

\* A stage of the try block goes on to the next one or throws; finally follows.
Stage(stage, next, fine) ==
    /\ smoke = stage
    /\ smoke' = IF fine THEN next ELSE "finally"
    /\ error' = ~fine
    /\ UNCHANGED <<treeVars, probe>>

GitInit ==
    \E fine \in BOOLEAN :
        /\ Stage("git", "walkthrough", fine)
        /\ tmp' = IF fine THEN tmp \cup {"repo"} ELSE tmp

Walkthrough ==
    \E fine \in BOOLEAN :
        /\ Answers(fine)
        /\ Stage("walkthrough", "plan", fine)
        /\ UNCHANGED tmp

WritePlan ==
    \E fine \in BOOLEAN :
        /\ Stage("plan", "candidates", fine)
        /\ tmp' = IF fine THEN tmp \cup {"plan"} ELSE tmp

\* contract import finds a candidate only where a plan file is.
ListCandidates ==
    \E fine \in BOOLEAN :
        /\ Answers(fine) /\ fine => "plan" \in tmp
        /\ Stage("candidates", "finally", fine)
        /\ UNCHANGED tmp

\* rmSync; an error of its own goes up in place of any other.
CleanUp ==
    /\ smoke = "finally"
    /\ \/ smoke' = (IF error THEN "failed" ELSE "passed") /\ tmp' = {}
       \/ smoke' = "leftover" /\ UNCHANGED tmp
    /\ UNCHANGED <<treeVars, probe, error>>

SmokeStep ==
    \/ StartSmoke \/ Probe \/ MakeTemp \/ GitInit \/ Walkthrough \/ WritePlan
    \/ ListCandidates \/ CleanUp

SmokeTypeOK ==
    /\ smoke \in {"idle", "probing", "git", "walkthrough", "plan", "candidates", "finally",
                  "passed", "failed", "leftover"}
    /\ probe \in 0..Len(Probes)
    /\ tmp \subseteq {"dir", "repo", "plan"}
    /\ error \in BOOLEAN

\* Unless it is killed or the removal itself fails, the smoke check ends without its
\* temporary directory, whichever of its calls failed.
TempRemoved == smoke \in {"passed", "failed"} => tmp = {}

=============================================================================
