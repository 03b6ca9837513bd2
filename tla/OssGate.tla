------------------------------- MODULE OssGate -------------------------------
(***************************************************************************)
(* pnpm ci:oss: the safety check, the boundary check, the help text and    *)
(* the smoke check, each only if the one before exited with 0.  They look  *)
(* at the same work tree one after the other, which goes on changing; the  *)
(* workflow cancels a gate that a later push has overtaken.                *)
(***************************************************************************)
EXTENDS SafetyCheck, BoundaryCheck, SmokeCheck

VARIABLE gate   \* the script at work, or "passed", "failed", "killed"

gateVars == <<treeVars, safetyVars, boundaryVars, smokeVars, gate>>

Ended == {"passed", "failed", "killed"}

Init == /\ InitTree /\ InitSafety /\ InitBoundary /\ InitSmoke
        /\ gate = "oss:check"

\* Mutant: only a verdict against the tree stops the gate, an exception does not.
HandOverUnlessFailed(script, status, next) ==
    /\ gate = script
    /\ gate' = IF status # "failed" THEN next ELSE "failed"
    /\ UNCHANGED <<treeVars, safetyVars, boundaryVars, smokeVars>>

\* A script that has ended hands over to the next or ends the gate.
HandOver(script, status, next) ==
    /\ gate = script
    /\ gate' = IF status = "passed" THEN next ELSE "failed"
    /\ UNCHANGED <<treeVars, safetyVars, boundaryVars, smokeVars>>

OssCheck == /\ gate = "oss:check" /\ SafetyStep
            /\ UNCHANGED <<boundaryVars, smokeVars, gate>>

OssCheckEnds == /\ safety \in {"passed", "failed"}
                /\ HandOver("oss:check", safety, "oss:check:boundary")

OssCheckBoundary == /\ gate = "oss:check:boundary" /\ BoundaryStep
                    /\ UNCHANGED <<safetyVars, smokeVars, gate>>

OssCheckBoundaryEnds == /\ boundary \in {"passed", "failed", "crashed"}
                        /\ HandOver("oss:check:boundary", boundary, "cli:help")

CliHelp == \E fine \in BOOLEAN :
              /\ Answers(fine)
              /\ HandOver("cli:help", IF fine THEN "passed" ELSE "failed", "cli:smoke")

CliSmoke == /\ gate = "cli:smoke" /\ SmokeStep
            /\ UNCHANGED <<safetyVars, boundaryVars, gate>>

CliSmokeEnds == /\ smoke \in {"passed", "failed", "leftover"}
                /\ HandOver("cli:smoke", smoke, "passed")

GateStep == \/ OssCheck \/ OssCheckEnds \/ OssCheckBoundary \/ OssCheckBoundaryEnds
            \/ CliHelp \/ CliSmoke \/ CliSmokeEnds

Kill == /\ gate \notin Ended /\ gate' = "killed"
        /\ UNCHANGED <<treeVars, safetyVars, boundaryVars, smokeVars>>

Edits == /\ gate \notin Ended
         /\ Others
         /\ UNCHANGED <<safetyVars, boundaryVars, smokeVars, gate>>

Next == GateStep \/ Kill \/ Edits

Spec == Init /\ [][Next]_gateVars

\* The scripts are synchronous and the CLI answers: the gate goes on, and does not
\* count on an error to end it.
NeedlessThrow == boundary = "walking" /\ boundary' = "crashed" /\ \E dir \in dirs : Top(dir)

FairSpec == Spec /\ WF_gateVars(GateStep /\ ~NeedlessThrow)

TypeOK == /\ TreeTypeOK /\ SafetyTypeOK /\ BoundaryTypeOK /\ SmokeTypeOK
          /\ gate \in {"oss:check", "oss:check:boundary", "cli:help", "cli:smoke"} \cup Ended

(***************************************************************************)
(* The properties.                                                         *)
(***************************************************************************)

\* What a passed gate says, however the tree changed under it: a path nobody edited
\* while it ran has nothing either script objects to, and each required path was a
\* file that the walk found.
PassedGateHolds ==
    gate = "passed" =>
        /\ \A path \in tracked \ edited :
              /\ ~BadPath(path)
              /\ ~(ShouldScan(path) /\ SafetyFits(file[path]) /\ LineHits(file[path]) # {})
        /\ \A path \in Path \ edited :
              IsFile(file[path]) /\ Walked(path) =>
                  /\ ~Forbidden(profile, path)
                  /\ ~(IsText(path) /\ BoundaryFits(file[path]) /\ Secrets(file[path]) # {})
        /\ \A path \in Required(profile) : \E c \in Held(path) : IsFile(c)

\* The two scripts keep their own lists of what below .neurcode may be published, and
\* the lists differ.  After a passed safety check the boundary check rejects a path
\* below .neurcode only if git does not track it.
NeurcodeListsAgree ==
    safety = "passed" => \A path \in forbidden : NeurcodeBoundaryViolation(path) => path \notin tracked

\* The gate comes to an end, though directories and files come and go under the walk.
GateEnds == <>(gate \in Ended)

=============================================================================
