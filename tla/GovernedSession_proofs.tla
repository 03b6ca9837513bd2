----------------------- MODULE GovernedSession_proofs -----------------------
(***************************************************************************)
(* Theorems about GovernedSession that hold whatever the operations are    *)
(* and whoever overwrites whom, for any number of calls, paths and plan    *)
(* items: every record on disk and every copy in memory is sound.          *)
(* And when every operation takes the session's mutation lock, with calls  *)
(* that time out and processes that die: no persisted event is lost, a     *)
(* finish is final, a revocation stays, the pointer goes only after the    *)
(* finish, and the operations implement those of AtomicSession.            *)
(* And what the documentation promises of plans and replays beyond that,   *)
(* as far as calls do not overlap and a finished record is let be.         *)
(***************************************************************************)
EXTENDS GovernedSession, SessionRecord_proofs

-----------------------------------------------------------------------------
\* The points before a call has persisted anything.
FreshPoints == {"idle", "called", "loaded", "attach", "attaching"}

\* A call that has not persisted yet has left no trace in any record.
Fresh == \A c \in Call, r \in Records : pc[c] \in FreshPoints => Unmentioned(r.body, c)

\* What the first write of an acceptance by c leaves in its copy.
HoldsAcceptance(b, c) ==
    /\ \E q \in b.proposals : q.status = "accepted" /\ q.decidedBy = c
    /\ \A e \in b.agentPlanRevisions : e.id = c => e.revision = b.agentPlanRevision

AcceptedCopy == \A c \in Call : pc[c] = "accepted" => HoldsAcceptance(local[c].body, c)

\* The inductive invariant.
SoundInv == TypeOK /\ ApprovalsSound /\ PlansSound /\ Fresh /\ AcceptedCopy

\* A step of c that writes no record: it returns, or loads the one on disk.
Reads(c) ==
    /\ UNCHANGED <<rec, acked>>
    /\ local' = local \/ local' = [local EXCEPT ![c] = rec]
    /\ \E l \in Points : /\ Goto(c, l)
                         /\ l # "accepted"
                         /\ l \in FreshPoints => pc[c] \in FreshPoints

\* What c may persist: a record as sound as its copy that mentions no one new
\* but c.
Outcome(c, r) ==
    /\ r \in Record
    /\ ApprovalSound(r.body)
    /\ PlanSound(r.body)
    /\ \A d \in Call \ {c} : Unmentioned(local[c].body, d) => Unmentioned(r.body, d)

\* A step of c that persists such a record.
Writes(c) ==
    \E r \in Record :
       /\ Outcome(c, r)
       /\ Persist(r)
       /\ local' = local \/ local' = [local EXCEPT ![c] = r]
       /\ \E l \in {"done", "unpoint", "accepted"} :
             /\ Goto(c, l)
             /\ l = "accepted" => /\ local' = [local EXCEPT ![c] = r]
                                  /\ HoldsAcceptance(r.body, c)

\* The variables that hold no record keep their types.
OthersTyped == /\ pointed' \in BOOLEAN
               /\ lock' \in Call \cup {NoCall}
               /\ op' \in [Call -> Locked \cup Unlocked \cup {"none"}]
               /\ asof' \in [Call -> SUBSET Call]
               /\ expired' \in SUBSET Call

\* The copies and records are those there were, but for the one of c.
LEMMA ReadsSound ==
    ASSUME SoundInv, OthersTyped, NEW c \in Call, Reads(c)
    PROVE  SoundInv'
<1> USE DEF SoundInv
<1>1. PICK l \in Points : Goto(c, l) /\ l # "accepted" /\ (l \in FreshPoints => pc[c] \in FreshPoints)
  BY DEF Reads
<1>2. rec' = rec /\ acked' = acked /\ (local' = local \/ local' = [local EXCEPT ![c] = rec])
  BY DEF Reads
<1>3. pc' \in [Call -> Points] /\ \A d \in Call : pc'[d] = IF d = c THEN l ELSE pc[d]
  BY <1>1 DEF Goto, TypeOK
<1>4. local' \in [Call -> Record] /\ \A d \in Call : local'[d] = local[d] \/ (d = c /\ local'[d] = rec)
  BY <1>2 DEF TypeOK
<1>5. TypeOK'
  BY <1>2, <1>3, <1>4 DEF TypeOK, OthersTyped
<1>6. Records' \subseteq Records
  BY <1>2, <1>4 DEF Records
<1>7. ApprovalsSound' /\ PlansSound'
  BY <1>6 DEF ApprovalsSound, PlansSound
<1>8. Fresh'
  BY <1>1, <1>3, <1>6 DEF Fresh
<1>9. AcceptedCopy'
  BY <1>1, <1>3, <1>4 DEF AcceptedCopy
<1> QED
  BY <1>5, <1>7, <1>8, <1>9

LEMMA WritesSound ==
    ASSUME SoundInv, OthersTyped, NEW c \in Call, Writes(c), pc[c] # "idle"
    PROVE  SoundInv'
<1> USE DEF SoundInv
<1>1. PICK r \in Record :
        /\ Outcome(c, r)
        /\ Persist(r)
        /\ local' = local \/ local' = [local EXCEPT ![c] = r]
        /\ \E l \in {"done", "unpoint", "accepted"} :
              /\ Goto(c, l)
              /\ l = "accepted" => /\ local' = [local EXCEPT ![c] = r]
                                   /\ HoldsAcceptance(r.body, c)
  BY DEF Writes
<1>2. PICK l \in {"done", "unpoint", "accepted"} :
        /\ Goto(c, l)
        /\ l = "accepted" => /\ local' = [local EXCEPT ![c] = r]
                             /\ HoldsAcceptance(r.body, c)
  BY <1>1
<1>3. rec' = r /\ acked' = acked \cup r.body.events
  BY <1>1 DEF Persist
<1>4. pc' \in [Call -> Points] /\ \A d \in Call : pc'[d] = IF d = c THEN l ELSE pc[d]
  BY <1>2 DEF Goto, TypeOK, Points
<1>5. /\ local' \in [Call -> Record]
      /\ \A d \in Call : local'[d] = local[d] \/ (d = c /\ local'[d] = r)
      /\ l = "accepted" => local'[c] = r
  BY <1>1, <1>2 DEF TypeOK
<1>6. r.body.events \subseteq Event
  BY DEF Record, Body
<1>7. TypeOK'
  BY <1>3, <1>4, <1>5, <1>6 DEF TypeOK, OthersTyped
<1>8. Records' \subseteq Records \cup {r}
  BY <1>3, <1>5 DEF Records
<1>9. ApprovalsSound' /\ PlansSound'
  BY <1>1, <1>8 DEF ApprovalsSound, PlansSound, Outcome
<1>10. Fresh'
  <2> SUFFICES ASSUME NEW d \in Call, NEW s \in Records', pc'[d] \in FreshPoints
               PROVE  Unmentioned(s.body, d)
    BY DEF Fresh
  <2>1. d # c /\ pc[d] \in FreshPoints
    BY <1>2, <1>4 DEF FreshPoints
  <2>2. local[c] \in Records
    BY DEF Records
  <2>3. Unmentioned(r.body, d)
    BY <1>1, <2>1, <2>2 DEF Fresh, Outcome
  <2> QED
    BY <1>8, <2>1, <2>3 DEF Fresh
<1>11. AcceptedCopy'
  BY <1>2, <1>4, <1>5 DEF AcceptedCopy
<1> QED
  BY <1>7, <1>9, <1>10, <1>11

\* The copy of a call is sound, and its body is a body.
LEMMA CopySound ==
    ASSUME SoundInv, NEW c \in Call
    PROVE  /\ local[c] \in Record
           /\ Copy(c) \in Body
           /\ ApprovalSound(Copy(c))
           /\ PlanSound(Copy(c))
           /\ pc[c] \in FreshPoints => Unmentioned(Copy(c), c)
           /\ expired \in SUBSET Call
           /\ asof[c] \in SUBSET Call
<1>1. local[c] \in Record /\ local[c] \in Records
  BY DEF SoundInv, TypeOK, Records
<1> QED
  BY <1>1 DEF SoundInv, TypeOK, ApprovalsSound, PlansSound, Fresh, Copy, Record

\* A body as sound as the copy makes an outcome.
LEMMA BodyOutcome ==
    ASSUME SoundInv, NEW c \in Call, NEW b \in Body,
           ApprovalSound(b), PlanSound(b),
           \A d \in Call \ {c} : Unmentioned(Copy(c), d) => Unmentioned(b, d)
    PROVE  LET r == [local[c] EXCEPT !.body = b] IN
           r \in Record /\ r.body = b /\ Outcome(c, r)
<1> DEFINE r == [local[c] EXCEPT !.body = b]
<1>1. local[c] \in Record
  BY CopySound
<1>2. r \in Record /\ r.body = b
  BY <1>1 DEF Record
<1> QED
  BY <1>2 DEF Outcome, Copy

\* Saving such a body is a write.
LEMMA SaveWrites ==
    ASSUME SoundInv, NEW c \in Call, NEW b \in Body,
           ApprovalSound(b), PlanSound(b),
           \A d \in Call \ {c} : Unmentioned(Copy(c), d) => Unmentioned(b, d),
           Save(c, b), local' = local
    PROVE  Writes(c)
<1> DEFINE r == [local[c] EXCEPT !.body = b]
<1>1. r \in Record /\ Outcome(c, r)
  BY BodyOutcome
<1>2. Persist(r) /\ Goto(c, "done")
  BY DEF Save, Return
<1> HIDE DEF r
<1> QED
  BY <1>1, <1>2 DEF Writes

\* Every step of a call reads or writes.
LEMMA StepReadsOrWrites ==
    ASSUME SoundInv, NEW c \in Call, Step(c)
    PROVE  pc[c] # "idle" /\ (Reads(c) \/ Writes(c))
<1> DEFINE b == Copy(c)
<1>1. /\ b \in Body /\ ApprovalSound(b) /\ PlanSound(b)
      /\ pc[c] \in FreshPoints => Unmentioned(b, c)
      /\ expired \in SUBSET Call
      /\ asof[c] \in SUBSET Call
  BY CopySound
<1>2. CASE Acquire(c)
  BY <1>2 DEF Acquire, Reads, FreshPoints, Points
<1>3. CASE TimeOut(c)
  BY <1>3 DEF TimeOut, Reads, FreshPoints, Points
<1>4. CASE Load(c)
  BY <1>4 DEF Load, Reads, FreshPoints, Points
<1>5. CASE AppendEvent(c)
  <2>1. Save(c, Append(b, c)) /\ local' = local /\ pc[c] # "idle"
    BY <1>5 DEF AppendEvent, Kept, Running
  <2> QED
    BY <1>1, <2>1, AppendType, AppendSound, SaveWrites
<1>6. CASE ApproveSession(c)
  <2>1. PICK path \in Path, ttl \in {"none", "zero", "some"} :
          LET now == IF ttl = "zero" THEN expired \cup {c} ELSE expired
          IN  Save(c, Approve(b, c, path, ttl # "none", now))
    BY <1>6 DEF ApproveSession
  <2>2. PICK now \in SUBSET Call, expires \in BOOLEAN :
          Save(c, Approve(b, c, path, expires, now))
    BY <1>1, <2>1
  <2>3. local' = local /\ pc[c] = "loaded"
    BY <1>6 DEF ApproveSession, Running
  <2>4. Unmentioned(b, c)
    BY <1>1, <2>3 DEF FreshPoints
  <2> DEFINE r == Approve(b, c, path, expires, now)
  <2>5. r \in Body
    BY <1>1, ApproveType
  <2>6. /\ ApprovalSound(r)
        /\ PlanSound(r)
        /\ \A d \in Call \ {c} : Unmentioned(b, d) => Unmentioned(r, d)
    BY <1>1, <2>4, ApproveSound
  <2> HIDE DEF r
  <2> QED
    BY <2>2, <2>3, <2>5, <2>6, SaveWrites DEF r
<1>7. CASE RevokeSessionApproval(c)
  <2>1. PICK target \in b.approvalGrants : Save(c, Revoke(b, c, target, expired))
    BY <1>7 DEF RevokeSessionApproval, RevocationTargets
  <2>2. local' = local /\ pc[c] # "idle"
    BY <1>7 DEF RevokeSessionApproval, Kept, Running
  <2> DEFINE r == Revoke(b, c, target, expired)
  <2>3. r \in Body
    BY <1>1, RevokeType
  <2>4. /\ ApprovalSound(r)
        /\ PlanSound(r)
        /\ \A d \in Call \ {c} : Unmentioned(b, d) => Unmentioned(r, d)
    BY <1>1, RevokeSound
  <2> HIDE DEF r
  <2> QED
    BY <2>1, <2>2, <2>3, <2>4, SaveWrites DEF r
<1>8. CASE Refuse(c)
  BY <1>8 DEF Refuse, Return, Unchanged, Kept, Reads, FreshPoints, Points
<1>9. CASE ExpireSessionApprovals(c)
  <2>1. local' = local /\ pc[c] # "idle"
    BY <1>9 DEF ExpireSessionApprovals, Kept, Running
  <2>2. CASE NothingToExpire(b, asof[c])
    BY <1>9, <2>1, <2>2 DEF ExpireSessionApprovals, Return, Unchanged, Reads, FreshPoints, Points
  <2>3. CASE ~NothingToExpire(b, asof[c])
    <3> DEFINE r == Expire(b, c, asof[c])
    <3>1. Save(c, r)
      BY <1>9, <2>3 DEF ExpireSessionApprovals
    <3>2. r \in Body
      BY <1>1, ExpireType
    <3>3. /\ ApprovalSound(r)
          /\ PlanSound(r)
          /\ \A d \in Call \ {c} : Unmentioned(b, d) => Unmentioned(r, d)
      BY <1>1, <2>3, ExpireSound
    <3> HIDE DEF r
    <3> QED
      BY <2>1, <3>1, <3>2, <3>3, SaveWrites
  <2> QED
    BY <2>2, <2>3
<1>10. CASE RefreshObligations(c)
  <2> DEFINE r == Recompute(b, asof[c], c)
  <2>1. Save(c, r) /\ local' = local /\ pc[c] # "idle"
    BY <1>10 DEF RefreshObligations, Kept, Running
  <2>2. r \in Body
    BY <1>1, RecomputeType
  <2>3. /\ ApprovalSound(r)
        /\ PlanSound(r)
        /\ \A d \in Call \ {c} : Unmentioned(b, d) => Unmentioned(r, d)
    BY <1>1, RecomputeSound
  <2> HIDE DEF r
  <2> QED
    BY <2>1, <2>2, <2>3, SaveWrites
<1>11. CASE FinishSession(c)
  <2> DEFINE r == Finish(b, c, expired)
  <2>1. Persist(r) /\ Goto(c, "unpoint") /\ local' = local /\ pc[c] # "idle"
    BY <1>11 DEF FinishSession, Running
  <2>2. r \in Record
    BY <1>1, FinishType
  <2>3. /\ ApprovalSound(r.body)
        /\ PlanSound(r.body)
        /\ \A d \in Call \ {c} : Unmentioned(b, d) => Unmentioned(r.body, d)
    BY <1>1, FinishSound
  <2> HIDE DEF r
  <2> QED
    BY <2>1, <2>2, <2>3 DEF Writes, Outcome, Copy
<1>12. CASE ClearActiveSession(c)
  BY <1>12 DEF ClearActiveSession, Return, Unchanged, Reads, FreshPoints, Points
<1>13. CASE SetPlanFrozen(c)
  <2>1. local' = local /\ pc[c] # "idle"
    BY <1>13 DEF SetPlanFrozen, Kept
  <2>2. \/ Unchanged /\ Return(c, "done")
        \/ \E frozen \in BOOLEAN : Save(c, SetFrozen(b, c, frozen))
    BY <1>13 DEF SetPlanFrozen
  <2>3. CASE Unchanged /\ Return(c, "done")
    BY <2>1, <2>3 DEF Return, Unchanged, Reads, FreshPoints, Points
  <2>4. ASSUME NEW frozen \in BOOLEAN, Save(c, SetFrozen(b, c, frozen)) PROVE Writes(c)
    <3> DEFINE r == SetFrozen(b, c, frozen)
    <3>1. r \in Body
      BY <1>1, SetFrozenType
    <3>2. /\ ApprovalSound(r)
          /\ PlanSound(r)
          /\ \A d \in Call \ {c} : Unmentioned(b, d) => Unmentioned(r, d)
      BY <1>1, SetFrozenSound
    <3>3. Save(c, r)
      BY <2>4
    <3> HIDE DEF r
    <3> QED
      BY <2>1, <3>1, <3>2, <3>3, SaveWrites
  <2> QED
    BY <2>1, <2>2, <2>3, <2>4
<1>14. ASSUME NEW plan \in SUBSET Item, NEW by \in Author,
              SaveChanged(c, ApplyOrPropose(b, c, plan, by, asof[c])), local' = local
       PROVE  Reads(c) \/ Writes(c)
  <2> DEFINE r == ApplyOrPropose(b, c, plan, by, asof[c])
  <2>1. (Unchanged /\ Return(c, "done")) \/ Save(c, r)
    BY <1>14 DEF SaveChanged
  <2>2. r \in Body
    BY <1>1, ApplyOrProposeType
  <2>3. /\ ApprovalSound(b) => ApprovalSound(r)
        /\ PlanSound(b) => PlanSound(r)
        /\ \A d \in Call \ {c} : Unmentioned(b, d) => Unmentioned(r, d)
    BY <1>1, ApplyOrProposeSound
  <2> HIDE DEF r
  <2>4. CASE Save(c, r)
    BY <1>1, <1>14, <2>2, <2>3, <2>4, SaveWrites
  <2>5. CASE Unchanged /\ Return(c, "done")
    BY <1>14, <2>5 DEF Return, Unchanged, Reads, FreshPoints, Points
  <2> QED
    BY <2>1, <2>4, <2>5
<1>15. CASE CaptureAgentPlan(c)
  <2>1. local' = local /\ pc[c] = "loaded"
    BY <1>15 DEF CaptureAgentPlan, Kept, Running
  <2>2. "agent" \in Author
    BY DEF Author
  <2>3. \/ Goto(c, "attach") /\ Unchanged
        \/ Unchanged /\ Return(c, "done")
        \/ \E plan \in SUBSET Item :
              SaveChanged(c, ApplyOrPropose(b, c, plan, "agent", asof[c]))
    BY <1>15 DEF CaptureAgentPlan
  <2>4. CASE Goto(c, "attach") /\ Unchanged
    BY <2>1, <2>4 DEF Unchanged, Reads, FreshPoints, Points
  <2>5. CASE Unchanged /\ Return(c, "done")
    BY <2>1, <2>5 DEF Return, Unchanged, Reads, FreshPoints, Points
  <2>6. CASE \E plan \in SUBSET Item :
                SaveChanged(c, ApplyOrPropose(b, c, plan, "agent", asof[c]))
    <3>1. PICK plan \in SUBSET Item, by \in Author :
            SaveChanged(c, ApplyOrPropose(b, c, plan, by, asof[c]))
      BY <2>2, <2>6
    <3> QED
      BY <1>14, <2>1, <3>1
  <2> QED
    BY <2>1, <2>3, <2>4, <2>5, <2>6
<1>16. CASE LoadForAttach(c)
  BY <1>16 DEF LoadForAttach, Reads, FreshPoints, Points
<1>17. CASE AttachAgentPlan(c)
  <2>1. PICK plan \in SUBSET Item : Save(c, Attach(b, c, plan, asof[c]))
    BY <1>17 DEF AttachAgentPlan
  <2>2. local' = local /\ pc[c] # "idle"
    BY <1>17 DEF AttachAgentPlan, Kept
  <2> DEFINE r == Attach(b, c, plan, asof[c])
  <2>3. r \in Body
    BY <1>1, AttachType
  <2>4. /\ ApprovalSound(b) => ApprovalSound(r)
        /\ PlanSound(b) => PlanSound(r)
        /\ \A d \in Call \ {c} : Unmentioned(b, d) => Unmentioned(r, d)
    BY <1>1, AttachSound
  <2> HIDE DEF r
  <2> QED
    BY <1>1, <2>1, <2>2, <2>3, <2>4, SaveWrites DEF r
<1>18. CASE AmendAgentPlan(c)
  <2>1. PICK plan \in SUBSET Item, by \in Author :
          SaveChanged(c, ApplyOrPropose(b, c, plan, by, asof[c]))
    BY <1>18 DEF AmendAgentPlan
  <2>2. local' = local /\ pc[c] # "idle"
    BY <1>18 DEF AmendAgentPlan, Kept, Running
  <2> QED
    BY <1>14, <2>1, <2>2
<1>19. CASE DecideAgentPlanAmendment(c)
  <2>1. pc[c] = "loaded"
    BY <1>19 DEF DecideAgentPlanAmendment, Running
  <2>2. PICK q \in b.proposals :
          /\ q.status = "pending"
          /\ \/ Save(c, Reject(b, c, q)) /\ UNCHANGED local
             \/ LET accepted == [local[c] EXCEPT !.body = Accept(@, c, q, asof[c])] IN
                /\ Persist(accepted)
                /\ local' = [local EXCEPT ![c] = accepted]
                /\ Goto(c, "accepted")
    BY <1>19 DEF DecideAgentPlanAmendment
  <2>3. CASE Save(c, Reject(b, c, q)) /\ UNCHANGED local
    <3> DEFINE r == Reject(b, c, q)
    <3>1. r \in Body
      BY <1>1, RejectType
    <3>2. /\ ApprovalSound(b) => ApprovalSound(r)
          /\ PlanSound(b) => PlanSound(r)
          /\ \A d \in Call \ {c} : Unmentioned(b, d) => Unmentioned(r, d)
      BY <1>1, <2>2, RejectSound
    <3>3. Save(c, r)
      BY <2>3
    <3> HIDE DEF r
    <3> QED
      BY <1>1, <2>1, <2>3, <3>1, <3>2, <3>3, SaveWrites
  <2>4. CASE LET accepted == [local[c] EXCEPT !.body = Accept(@, c, q, asof[c])] IN
             /\ Persist(accepted)
             /\ local' = [local EXCEPT ![c] = accepted]
             /\ Goto(c, "accepted")
    <3> DEFINE r == Accept(b, c, q, asof[c])
               s == [local[c] EXCEPT !.body = r]
    <3>1. Persist(s) /\ local' = [local EXCEPT ![c] = s] /\ Goto(c, "accepted")
      BY <2>4 DEF Copy
    <3>2. r \in Body
      BY <1>1, AcceptType
    <3>3. Unmentioned(b, c)
      BY <1>1, <2>1 DEF FreshPoints
    <3>4. /\ ApprovalSound(b) => ApprovalSound(r)
          /\ PlanSound(r)
          /\ \A d \in Call \ {c} : Unmentioned(b, d) => Unmentioned(r, d)
          /\ \E p \in r.proposals : p.status = "accepted" /\ p.decidedBy = c
          /\ \A e \in r.agentPlanRevisions : e.id = c => e.revision = r.agentPlanRevision
      BY <1>1, <2>2, <3>3, AcceptSound
    <3> HIDE DEF r
    <3>5. s \in Record /\ s.body = r /\ Outcome(c, s)
      BY <1>1, <3>2, <3>4, BodyOutcome
    <3> HIDE DEF s
    <3>6. HoldsAcceptance(s.body, c)
      BY <3>4, <3>5 DEF HoldsAcceptance
    <3> QED
      BY <2>1, <3>1, <3>5, <3>6 DEF Writes
  <2> QED
    BY <2>1, <2>2, <2>3, <2>4
<1>20. CASE RecordDecision(c)
  <2> DEFINE r == RecordAcceptance(b, c)
  <2>1. Save(c, r) /\ local' = local /\ pc[c] = "accepted"
    BY <1>20 DEF RecordDecision, Kept
  <2>2. /\ \E q \in b.proposals : q.status = "accepted" /\ q.decidedBy = c
        /\ \A e \in b.agentPlanRevisions : e.id = c => e.revision = b.agentPlanRevision
    BY <2>1 DEF SoundInv, AcceptedCopy, HoldsAcceptance, Copy
  <2>3. r \in Body
    BY <1>1, <2>2, RecordAcceptanceType
  <2>4. /\ ApprovalSound(b) => ApprovalSound(r)
        /\ PlanSound(b) => PlanSound(r)
        /\ \A d \in Call \ {c} : Unmentioned(b, d) => Unmentioned(r, d)
    BY <1>1, <2>2, RecordAcceptanceSound
  <2> HIDE DEF r
  <2> QED
    BY <1>1, <2>1, <2>3, <2>4, SaveWrites
<1> QED
  BY <1>2, <1>3, <1>4, <1>5, <1>6, <1>7, <1>8, <1>9, <1>10, <1>11, <1>12, <1>13,
     <1>15, <1>16, <1>17, <1>18, <1>19, <1>20
     DEF Step, Acquire, TimeOut, Load, Refuse, ClearActiveSession, LoadForAttach

\* No step takes the other variables out of their types.
LEMMA StepOthersTyped ==
    ASSUME SoundInv, NEW c \in Call, Step(c)
    PROVE  OthersTyped
<1> USE DEF OthersTyped
<1>1. /\ pointed \in BOOLEAN
      /\ lock \in Call \cup {NoCall}
      /\ op \in [Call -> Locked \cup Unlocked \cup {"none"}]
      /\ asof \in [Call -> SUBSET Call]
      /\ expired \in SUBSET Call
  BY DEF SoundInv, TypeOK
<1>2. \A l : Return(c, l) => lock' \in Call \cup {NoCall}
  BY <1>1 DEF Return
<1>3. CASE Acquire(c) \/ TimeOut(c) \/ Load(c) \/ FinishSession(c) \/ LoadForAttach(c)
  BY <1>1, <1>3 DEF Acquire, TimeOut, Load, FinishSession, LoadForAttach
<1>4. CASE AppendEvent(c) \/ RefreshObligations(c) \/ AttachAgentPlan(c) \/ RecordDecision(c)
  BY <1>1, <1>2, <1>4 DEF AppendEvent, RefreshObligations, AttachAgentPlan, RecordDecision,
                          Save, Kept
<1>5. CASE ApproveSession(c)
  <2>1. expired' \in SUBSET Call /\ lock' \in Call \cup {NoCall}
    BY <1>1, <1>2, <1>5 DEF ApproveSession, Save
  <2> QED
    BY <1>1, <1>5, <2>1 DEF ApproveSession
<1>6. CASE RevokeSessionApproval(c) \/ Refuse(c) \/ ClearActiveSession(c)
  BY <1>1, <1>2, <1>6 DEF RevokeSessionApproval, Refuse, ClearActiveSession, Save, Kept
<1>7. CASE ExpireSessionApprovals(c) \/ SetPlanFrozen(c)
  BY <1>1, <1>2, <1>7 DEF ExpireSessionApprovals, SetPlanFrozen, Save, Kept
<1>8. CASE CaptureAgentPlan(c) \/ AmendAgentPlan(c)
  BY <1>1, <1>2, <1>8 DEF CaptureAgentPlan, AmendAgentPlan, SaveChanged, Save, Kept
<1>9. CASE DecideAgentPlanAmendment(c)
  <2>1. lock' \in Call \cup {NoCall}
    BY <1>1, <1>2, <1>9 DEF DecideAgentPlanAmendment, Save
  <2> QED
    BY <1>1, <1>9, <2>1 DEF DecideAgentPlanAmendment
<1> QED
  BY <1>3, <1>4, <1>5, <1>6, <1>7, <1>8, <1>9 DEF Step

LEMMA InitSound == Init => SoundInv
<1> SUFFICES ASSUME Init PROVE SoundInv
  OBVIOUS
<1>1. FreshBody \in Body
  BY DEF FreshBody, Body
<1>2. FreshRecord \in Record /\ FreshRecord.body = FreshBody
  BY <1>1 DEF FreshRecord, Record
<1>3. TypeOK
  BY <1>2 DEF Init, TypeOK, Points
<1>4. \A r \in Records : r = FreshRecord
  BY DEF Init, Records
<1>5. ApprovalSound(FreshBody)
  BY DEF FreshBody, ApprovalSound, ApprovedBacked, TrailMatchesGrants, ExpiryRecordedOnce,
         FinishInTrail
<1>6. PlanSound(FreshBody)
  <2>1. 1 .. 0 = {}
    OBVIOUS
  <2> QED
    BY <2>1 DEF FreshBody, PlanSound, LedgerSound, AcceptanceApplied, FrozenAtKnownRevision
<1>7. \A c \in Call : Unmentioned(FreshBody, c)
  BY DEF FreshBody, Unmentioned
<1>8. AcceptedCopy
  BY DEF Init, AcceptedCopy
<1> QED
  BY <1>2, <1>3, <1>4, <1>5, <1>6, <1>7, <1>8
     DEF SoundInv, ApprovalsSound, PlansSound, Fresh

LEMMA NextSound == SoundInv /\ [Next]_vars => SoundInv'
<1> SUFFICES ASSUME SoundInv, [Next]_vars PROVE SoundInv'
  OBVIOUS
<1>1. ASSUME NEW c \in Call, Step(c) PROVE SoundInv'
  BY <1>1, StepReadsOrWrites, StepOthersTyped, ReadsSound, WritesSound
<1>2. ASSUME NEW c \in Call, Fail(c) PROVE SoundInv'
  <2>1. Reads(c)
    BY <1>2 DEF Fail, Reads, Points, FreshPoints
  <2>2. OthersTyped
    BY <1>2 DEF Fail, OthersTyped, SoundInv, TypeOK
  <2> QED
    BY <2>1, <2>2, ReadsSound
<1>3. ASSUME NEW c \in Call, NEW o \in Ops, CallOperation(c, o) PROVE SoundInv'
  <2>1. Reads(c)
    BY <1>3 DEF CallOperation, Reads, Points, FreshPoints
  <2>2. OthersTyped
    BY <1>3, SessionAssumption DEF CallOperation, OthersTyped, SoundInv, TypeOK
  <2> QED
    BY <2>1, <2>2, ReadsSound
<1>4. CASE Tick
  <2>1. expired' \in SUBSET Call
    BY <1>4 DEF Tick, SoundInv, TypeOK, Record, Body, Grant
  <2>2. UNCHANGED <<rec, pointed, lock, pc, op, local, asof, acked>>
    BY <1>4 DEF Tick
  <2> QED
    BY <2>1, <2>2 DEF SoundInv, TypeOK, Records, ApprovalsSound, PlansSound, Fresh, AcceptedCopy
<1>5. CASE UNCHANGED vars
  BY <1>5 DEF vars, SoundInv, TypeOK, Records, ApprovalsSound, PlansSound, Fresh, AcceptedCopy
<1> QED
  BY <1>1, <1>2, <1>3, <1>4, <1>5 DEF Next

\* The invariant holds in every reachable state.
THEOREM Soundness == Spec => []SoundInv
<1> QED
  BY InitSound, NextSound, PTL DEF Spec

\* Records, copies, points and times always have their types.
THEOREM TypeCorrect == Spec => []TypeOK
<1>1. SoundInv => TypeOK
  BY DEF SoundInv
<1> QED
  BY Soundness, <1>1, PTL

\* Whatever the calls are and however they overwrite one another, the approvals
\* of every record on disk and of every copy agree with its own trail.
THEOREM ApprovalsAlwaysSound == Spec => []ApprovalsSound
<1>1. SoundInv => ApprovalsSound
  BY DEF SoundInv
<1> QED
  BY Soundness, <1>1, PTL

\* Likewise its plans: a ledger without gaps, the active plan its last entry,
\* and every acceptance backed by the entry its decider made.
THEOREM PlansAlwaysSound == Spec => []PlansSound
<1>1. SoundInv => PlansSound
  BY DEF SoundInv
<1> QED
  BY Soundness, <1>1, PTL

\* Every finish of a copy that reads active leaves a record that replays.
THEOREM FinishReplays == Spec => FirstFinishReplays
<1> DEFINE A == \A c \in Call : /\ pc[c] = "loaded" /\ pc'[c] = "unpoint"
                                /\ local[c].body.status = "active"
                                => ReplayMatches(rec')
<1>1. SoundInv /\ [Next]_vars => A
  <2> SUFFICES ASSUME SoundInv, [Next]_vars, NEW c \in Call,
                      pc[c] = "loaded", pc'[c] = "unpoint", local[c].body.status = "active"
               PROVE  ReplayMatches(rec')
    OBVIOUS
  <2>1. \A d \in Call : \A l : Goto(d, l) => pc'[c] = IF c = d THEN l ELSE pc[c]
    BY DEF Goto, SoundInv, TypeOK
  <2>2. Next
    BY DEF vars
  <2>3. ~Tick
    BY DEF Tick
  <2>4. \A d \in Call : ~Fail(d) /\ \A o \in Ops : ~CallOperation(d, o)
    BY <2>1 DEF Fail, CallOperation
  <2>5. PICK d \in Call : Step(d)
    BY <2>2, <2>3, <2>4 DEF Next
  <2> DEFINE Elsewhere == \E l \in Points \ {"unpoint"} : Goto(d, l)
  <2>6. ~Elsewhere
    BY <2>1
  <2>7. \A b : ~Save(d, b) /\ ~SaveChanged(d, b)
    BY <2>6 DEF Save, SaveChanged, Return, Points
  <2>8. ~Acquire(d) /\ ~TimeOut(d) /\ ~Load(d) /\ ~Refuse(d) /\ ~ClearActiveSession(d) /\ ~LoadForAttach(d)
    BY <2>6 DEF Acquire, TimeOut, Load, Refuse, ClearActiveSession, LoadForAttach, Return, Points
  <2>9. ~AppendEvent(d) /\ ~ApproveSession(d) /\ ~RevokeSessionApproval(d) /\ ~RefreshObligations(d)
    BY <2>7 DEF AppendEvent, ApproveSession, RevokeSessionApproval, RefreshObligations
  <2>10. ~ExpireSessionApprovals(d) /\ ~SetPlanFrozen(d)
    BY <2>6, <2>7 DEF ExpireSessionApprovals, SetPlanFrozen, Return, Points
  <2>11. ~AttachAgentPlan(d) /\ ~AmendAgentPlan(d) /\ ~RecordDecision(d)
    BY <2>7 DEF AttachAgentPlan, AmendAgentPlan, RecordDecision
  <2>12. ~CaptureAgentPlan(d)
    BY <2>6, <2>7 DEF CaptureAgentPlan, Return, Points
  <2>13. ~DecideAgentPlanAmendment(d)
    BY <2>6, <2>7 DEF DecideAgentPlanAmendment, Points
  <2>14. FinishSession(d)
    BY <2>5, <2>8, <2>9, <2>10,
       <2>11, <2>12, <2>13 DEF Step
  <2>15. d = c
    BY <2>1, <2>14 DEF FinishSession
  <2>16. rec' = Finish(Copy(c), c, expired)
    BY <2>14, <2>15 DEF FinishSession, Persist
  <2> QED
    BY <2>16, CopySound, FinishSound DEF Copy
<1>2. Spec => [][A]_vars
  BY <1>1, Soundness, PTL DEF Spec
<1> QED
  BY <1>2 DEF FirstFinishReplays

-----------------------------------------------------------------------------
(***************************************************************************)
(* When every operation takes the lock                                     *)
(***************************************************************************)
\* No operation that works without the lock is called.
OnlyLocked == Ops \cap Unlocked = {}

-----------------------------------------------------------------------------
(* What an operation may make of a body *)

RevokedStay(old, new) ==
    \A g \in old : g.revoked => \/ g \in new
                                \/ \E h \in new \ old : h.path = g.path /\ ~h.revoked

\* No event is gone, a finished session is finished with the same grants, and
\* a revoked grant is revoked or replaced by a new one.
Successor(b, r) ==
    /\ b.events \subseteq r.events
    /\ b.status = "finished" => r.status = "finished" /\ r.approvalGrants = b.approvalGrants
    /\ RevokedStay(b.approvalGrants, r.approvalGrants)

\* A body with the same status and grants and no event less is a successor.
LEMMA SameGrantsSuccessor ==
    ASSUME NEW b \in Body, NEW r \in Body, b.events \subseteq r.events,
           r.approvalGrants = b.approvalGrants, b.status = "finished" => r.status = "finished"
    PROVE  Successor(b, r)
BY DEF Successor, RevokedStay

LEMMA AppendSuccessor ==
    ASSUME NEW b \in Body, NEW c \in Call
    PROVE  Successor(b, Append(b, c))
<1>1. /\ b.events \subseteq Append(b, c).events
      /\ Append(b, c).approvalGrants = b.approvalGrants
      /\ Append(b, c).status = b.status
  BY DEF Append, Body
<1> QED
  BY <1>1, AppendType, SameGrantsSuccessor

LEMMA RecomputeSuccessor ==
    ASSUME NEW b \in Body, NEW c \in Call, NEW past \in SUBSET Call
    PROVE  Successor(b, Recompute(b, past, c))
<1> DEFINE r == Recompute(b, past, c)
<1>1. b.events \subseteq r.events /\ r.approvalGrants = b.approvalGrants /\ r.status = b.status
  BY RecomputeFrame
<1>2. r \in Body
  BY RecomputeType
<1> HIDE DEF r
<1>3. Successor(b, r)
  BY <1>1, <1>2, SameGrantsSuccessor
<1> QED
  BY <1>3 DEF r

LEMMA ExpireSuccessor ==
    ASSUME NEW b \in Body, NEW c \in Call, NEW past \in SUBSET Call
    PROVE  Successor(b, Expire(b, c, past))
<1> DEFINE unrecorded == {g \in ExpiredGrants(b, past) : ~ExpiryRecorded(b, g)}
           added == {[type |-> "expired", by |-> c, of |-> g.id] : g \in unrecorded}
           m == [b EXCEPT !.events = @ \cup added, !.approvedPaths = ActivePaths(b, past)]
           r == Recompute(m, past, c)
<1>1. Expire(b, c, past) = r
  BY DEF Expire
<1>2. added \subseteq Event
  BY DEF ExpiredGrants, Event, Kinds, Body, Grant
<1>3. ActivePaths(b, past) \in SUBSET Path
  BY ActivePathsType
<1>4. m \in Body /\ m.status = b.status /\ m.approvalGrants = b.approvalGrants /\ b.events \subseteq m.events
  <2> HIDE DEF added
  <2> QED
    BY <1>2, <1>3 DEF Body
<1> HIDE DEF m
<1>5. r \in Body /\ r.status = m.status /\ r.approvalGrants = m.approvalGrants /\ m.events \subseteq r.events
  BY <1>4, RecomputeFrame, RecomputeType
<1> HIDE DEF r
<1>6. Successor(b, r)
  BY <1>4, <1>5, SameGrantsSuccessor
<1> QED
  BY <1>1, <1>6

LEMMA SetFrozenSuccessor ==
    ASSUME NEW b \in Body, NEW c \in Call, NEW frozen \in BOOLEAN
    PROVE  Successor(b, SetFrozen(b, c, frozen))
<1> DEFINE r == SetFrozen(b, c, frozen)
<1>1. b.events \subseteq r.events /\ r.approvalGrants = b.approvalGrants /\ r.status = b.status
  BY DEF SetFrozen, Body
<1>2. r \in Body
  BY SetFrozenType
<1> HIDE DEF r
<1>3. Successor(b, r)
  BY <1>1, <1>2, SameGrantsSuccessor
<1> QED
  BY <1>3 DEF r

LEMMA FinishSuccessor ==
    ASSUME NEW b \in Body, NEW c \in Call, NEW past \in SUBSET Call
    PROVE  Successor(b, Finish(b, c, past).body) /\ Finish(b, c, past).body.status = "finished"
<1> DEFINE r == Finish(b, c, past)
<1>1. b.events \subseteq r.body.events /\ r.body.approvalGrants = b.approvalGrants /\ r.body.status = "finished"
  BY FinishSound
<1>2. r \in Record
  BY FinishType
<1> HIDE DEF r
<1>3. r.body \in Body
  BY <1>2 DEF Record
<1>4. Successor(b, r.body)
  BY <1>1, <1>3, SameGrantsSuccessor
<1> QED
  BY <1>1, <1>4 DEF r

\* An approval may replace a revoked grant of its path, by a grant that is new
\* as its id is.
LEMMA ApproveSuccessor ==
    ASSUME NEW b \in Body, NEW c \in Call, NEW path \in Path, NEW expires \in BOOLEAN,
           NEW past \in SUBSET Call, Unmentioned(b, c), b.status = "active"
    PROVE  Successor(b, Approve(b, c, path, expires, past))
<1> DEFINE grant == [path |-> path, id |-> c, expires |-> expires, revoked |-> FALSE,
                     planRevision |-> b.agentPlanRevision]
           granted == [b EXCEPT
               !.approvalGrants = {g \in @ : g.path # path} \cup {grant},
               !.events = @ \cup {Stamp("approved", c)}]
           m == [granted EXCEPT !.approvedPaths = ActivePaths(granted, past)]
           r == Recompute(m, past, c)
<1>1. Approve(b, c, path, expires, past) = r
  BY DEF Approve
<1>2. grant \in Grant /\ grant.path = path /\ ~grant.revoked /\ grant.id = c
  BY DEF Grant, Body
<1>3. grant \notin b.approvalGrants
  BY <1>2 DEF Unmentioned
<1> HIDE DEF grant
<1>4. Stamp("approved", c) \in Event
  BY StampType DEF Kinds
<1>5. /\ granted \in Body
      /\ granted.approvalGrants = {g \in b.approvalGrants : g.path # path} \cup {grant}
      /\ b.events \subseteq granted.events
  BY <1>2, <1>4 DEF Body
<1> HIDE DEF granted
<1>6. ActivePaths(granted, past) \in SUBSET Path
  BY <1>5, ActivePathsType
<1>7. m \in Body /\ m.approvalGrants = granted.approvalGrants /\ m.events = granted.events
  BY <1>5, <1>6 DEF Body
<1> HIDE DEF m
<1>8. r.approvalGrants = m.approvalGrants /\ m.events \subseteq r.events
  BY <1>7, RecomputeFrame
<1> HIDE DEF r
<1>9. RevokedStay(b.approvalGrants, r.approvalGrants)
  BY <1>2, <1>3, <1>5, <1>7, <1>8 DEF RevokedStay
<1> QED
  BY <1>1, <1>5, <1>7, <1>8, <1>9 DEF Successor

LEMMA RevokeSuccessor ==
    ASSUME NEW b \in Body, NEW c \in Call, NEW target \in b.approvalGrants,
           NEW past \in SUBSET Call, b.status = "active"
    PROVE  Successor(b, Revoke(b, c, target, past))
<1> DEFINE event == [type |-> "revoked", by |-> c, of |-> target.id]
           undone == [target EXCEPT !.revoked = TRUE]
           rb == IF target.revoked THEN b ELSE
                   [b EXCEPT !.approvalGrants = (@ \ {target}) \cup {undone},
                             !.events = @ \cup {event}]
           m == [rb EXCEPT !.approvedPaths = ActivePaths(rb, past)]
           r == Recompute(m, past, c)
<1>1. Revoke(b, c, target, past) = r
  BY DEF Revoke
<1>2. event \in Event /\ undone \in Grant
  BY DEF Event, Kinds, Body, Grant
<1> HIDE DEF event, undone
<1>3. /\ rb \in Body
      /\ \A g \in b.approvalGrants : g.revoked => g \in rb.approvalGrants
      /\ b.events \subseteq rb.events
  BY <1>2 DEF Body
<1> HIDE DEF rb
<1>4. ActivePaths(rb, past) \in SUBSET Path
  BY <1>3, ActivePathsType
<1>5. m \in Body /\ m.approvalGrants = rb.approvalGrants /\ m.events = rb.events
  BY <1>3, <1>4 DEF Body
<1> HIDE DEF m
<1>6. r.approvalGrants = m.approvalGrants /\ m.events \subseteq r.events
  BY <1>5, RecomputeFrame
<1> HIDE DEF r
<1>7. RevokedStay(b.approvalGrants, r.approvalGrants)
  BY <1>3, <1>5, <1>6 DEF RevokedStay
<1> QED
  BY <1>1, <1>3, <1>5, <1>6, <1>7 DEF Successor

-----------------------------------------------------------------------------
(* The invariant of the lock *)

\* A call that has loaded holds the lock, and its copy is the record; a call
\* that has finished the record still holds it.
LockInv == /\ \A c \in Call : /\ pc[c] \in Points \ {"attach", "attaching", "accepted"}
                              /\ pc[c] # "idle" => op[c] \in Locked \cap Ops
                              /\ pc[c] = "loaded" => lock = c /\ local[c] = rec
                              /\ pc[c] = "unpoint" => lock = c /\ rec.body.status = "finished"
           /\ NoLostEvent
           /\ PointerFollowsFinish

\* The record is replaced by a successor.
Advances == /\ Successor(rec.body, rec'.body)
            /\ acked' = acked \cup rec'.body.events

\* The one load and store of an operation: c leaves the lock behind.
Operates(c) == /\ pc[c] = "loaded" /\ op[c] # "finish"
               /\ Goto(c, "done") \/ Goto(c, "refused")
               /\ lock' = NoCall
               /\ UNCHANGED <<local, op, pointed>>
               /\ (UNCHANGED <<rec, acked>>) \/ Advances

\* Saving a successor of the copy is such an operation.
LEMMA SaveOperates ==
    ASSUME SoundInv, LockInv, NEW c \in Call, NEW b \in Body, Successor(Copy(c), b),
           pc[c] = "loaded", op[c] # "finish", Save(c, b), UNCHANGED <<local, op, pointed>>
    PROVE  Operates(c)
<1>1. lock = c /\ local[c] = rec /\ op[c] \in Locked
  BY DEF LockInv
<1>2. rec' = [rec EXCEPT !.body = b] /\ acked' = acked \cup rec'.body.events
  BY <1>1 DEF Save, Persist
<1>3. rec'.body = b
  BY <1>2 DEF SoundInv, TypeOK, Record
<1>4. Advances
  BY <1>1, <1>2, <1>3 DEF Advances, Copy
<1>5. Goto(c, "done") /\ lock' = NoCall
  BY <1>1 DEF Save, Return
<1> QED
  BY <1>4, <1>5 DEF Operates

\* Every step of a call takes the lock, gives up, operates, or is one of the
\* two of finishSession.
LEMMA StepsUnderLock ==
    ASSUME OnlyLocked, SoundInv, LockInv, NEW c \in Call, Step(c)
    PROVE  \/ Acquire(c) \/ TimeOut(c) \/ Operates(c)
           \/ FinishSession(c) \/ ClearActiveSession(c)
<1> DEFINE b == Copy(c)
<1>1. /\ b \in Body
      /\ pc[c] \in FreshPoints => Unmentioned(b, c)
      /\ expired \in SUBSET Call
      /\ asof[c] \in SUBSET Call
  BY CopySound
<1>2. /\ pc[c] \notin {"attach", "attaching", "accepted"}
      /\ pc[c] # "idle" => op[c] \in Locked
      /\ pc[c] = "loaded" => lock = c /\ local[c] = rec
  BY DEF LockInv
<1>3. CASE AppendEvent(c)
  <2>1. Save(c, Append(b, c)) /\ UNCHANGED <<local, op, pointed>> /\ pc[c] = "loaded" /\ op[c] = "append"
    BY <1>3 DEF AppendEvent, Kept, Running
  <2> QED
    BY <1>1, <2>1, AppendType, AppendSuccessor, SaveOperates
<1>4. CASE ApproveSession(c)
  <2>1. PICK path \in Path, ttl \in {"none", "zero", "some"} :
          LET now == IF ttl = "zero" THEN expired \cup {c} ELSE expired
          IN  Save(c, Approve(b, c, path, ttl # "none", now))
    BY <1>4 DEF ApproveSession
  <2>2. PICK now \in SUBSET Call, expires \in BOOLEAN :
          Save(c, Approve(b, c, path, expires, now))
    BY <1>1, <2>1
  <2>3. /\ UNCHANGED <<local, op, pointed>> /\ pc[c] = "loaded" /\ op[c] = "approve"
        /\ b.status = "active"
    BY <1>4 DEF ApproveSession, Running
  <2>4. Unmentioned(b, c)
    BY <1>1, <2>3 DEF FreshPoints
  <2> DEFINE r == Approve(b, c, path, expires, now)
  <2>5. r \in Body
    BY <1>1, ApproveType
  <2>6. Successor(b, r)
    BY <1>1, <2>3, <2>4, ApproveSuccessor
  <2> HIDE DEF r
  <2> QED
    BY <2>2, <2>3, <2>5, <2>6, SaveOperates DEF r
<1>5. CASE RevokeSessionApproval(c)
  <2>1. PICK target \in b.approvalGrants : Save(c, Revoke(b, c, target, expired))
    BY <1>5 DEF RevokeSessionApproval, RevocationTargets
  <2>2. /\ UNCHANGED <<local, op, pointed>> /\ pc[c] = "loaded" /\ op[c] = "revoke"
        /\ b.status = "active"
    BY <1>5 DEF RevokeSessionApproval, Kept, Running
  <2> DEFINE r == Revoke(b, c, target, expired)
  <2>3. r \in Body
    BY <1>1, RevokeType
  <2>4. Successor(b, r)
    BY <1>1, <2>2, RevokeSuccessor
  <2> HIDE DEF r
  <2> QED
    BY <2>1, <2>2, <2>3, <2>4, SaveOperates DEF r
<1>6. CASE Refuse(c)
  BY <1>2, <1>6 DEF Refuse, Return, Unchanged, Kept, Operates
<1>7. CASE ExpireSessionApprovals(c)
  <2>1. /\ UNCHANGED <<local, op, pointed>> /\ pc[c] = "loaded" /\ op[c] = "expire"
    BY <1>7 DEF ExpireSessionApprovals, Kept, Running
  <2>2. CASE Save(c, Expire(b, c, asof[c]))
    <3> DEFINE r == Expire(b, c, asof[c])
    <3>1. Successor(b, r)
      BY <1>1, ExpireSuccessor
    <3>2. r \in Body
      BY <1>1, ExpireType
    <3> HIDE DEF r
    <3> QED
      BY <2>1, <2>2, <3>1, <3>2, SaveOperates DEF r
  <2>3. CASE Unchanged /\ Return(c, "done")
    BY <1>2, <2>1, <2>3 DEF Unchanged, Return, Operates
  <2> QED
    BY <1>7, <2>2, <2>3 DEF ExpireSessionApprovals
<1>8. CASE RefreshObligations(c)
  <2>1. /\ UNCHANGED <<local, op, pointed>> /\ pc[c] = "loaded" /\ op[c] = "refresh"
    BY <1>8 DEF RefreshObligations, Kept, Running
  <2> DEFINE r == Recompute(b, asof[c], c)
  <2>2. Successor(b, r) /\ r \in Body
    BY <1>1, RecomputeSuccessor, RecomputeType
  <2>3. Save(c, r)
    BY <1>8 DEF RefreshObligations
  <2> HIDE DEF r
  <2> QED
    BY <2>1, <2>2, <2>3, SaveOperates
<1>9. CASE SetPlanFrozen(c)
  <2>1. /\ UNCHANGED <<local, op, pointed>> /\ pc[c] = "loaded" /\ op[c] \in Freezing
    BY <1>9 DEF SetPlanFrozen, Kept
  <2> DEFINE f == op[c] = "freeze"
             r == SetFrozen(b, c, f)
  <2>2. Successor(b, r) /\ r \in Body
    BY <1>1, SetFrozenSuccessor, SetFrozenType
  <2>3. (Unchanged /\ Return(c, "done")) \/ Save(c, r)
    BY <1>9 DEF SetPlanFrozen
  <2>4. op[c] # "finish"
    BY <2>1 DEF Freezing
  <2>5. CASE Save(c, r)
    <3> HIDE DEF r
    <3> QED
      BY <2>1, <2>2, <2>4, <2>5, SaveOperates
  <2>6. CASE Unchanged /\ Return(c, "done")
    BY <1>2, <2>1, <2>4, <2>6 DEF Unchanged, Return, Operates
  <2> QED
    BY <2>3, <2>5, <2>6
<1>10. ~Load(c) /\ ~CaptureAgentPlan(c) /\ ~AmendAgentPlan(c) /\ ~DecideAgentPlanAmendment(c)
  <2>1. pc[c] # "idle" => op[c] \notin Unlocked
    BY <1>2 DEF Locked, Unlocked, Freezing
  <2> QED
    BY <2>1 DEF Load, CaptureAgentPlan, AmendAgentPlan, DecideAgentPlanAmendment, Running, Unlocked
<1>11. ~LoadForAttach(c) /\ ~AttachAgentPlan(c) /\ ~RecordDecision(c)
  BY <1>2 DEF LoadForAttach, AttachAgentPlan, RecordDecision
<1> QED
  BY <1>3, <1>4, <1>5, <1>6, <1>7, <1>8, <1>9, <1>10, <1>11 DEF Step

LEMMA LockInit == ASSUME Init PROVE LockInv
BY DEF Init, LockInv, Points, NoLostEvent, PointerFollowsFinish, FreshRecord, FreshBody

\* A step of c that replaces the record, if at all, by a successor while no
\* other call is inside the lock.
LEMMA AdvanceKeeps ==
    ASSUME SoundInv, LockInv, (UNCHANGED <<rec, acked>>) \/ Advances
    PROVE  /\ NoLostEvent'
           /\ rec.body.status = "finished" => rec'.body.status = "finished"
           /\ rec.body.status = "finished" => rec'.body.approvalGrants = rec.body.approvalGrants
           /\ RevokedStay(rec.body.approvalGrants, rec'.body.approvalGrants)
BY DEF LockInv, NoLostEvent, Advances, Successor, RevokedStay

LEMMA StepKeeps ==
    ASSUME OnlyLocked, SoundInv, LockInv, NEW c \in Call, Step(c)
    PROVE  /\ LockInv'
           /\ (UNCHANGED <<rec, acked>>) \/ Advances
<1>1. CASE Acquire(c)
  <2>1. /\ \A d \in Call : pc'[d] = IF d = c THEN "loaded" ELSE pc[d]
        /\ \A d \in Call : local'[d] = IF d = c THEN rec ELSE local[d]
        /\ pc[c] = "called" /\ op[c] \in Locked /\ lock = NoCall /\ lock' = c
        /\ UNCHANGED <<rec, pointed, op, acked>>
    BY <1>1 DEF Acquire, Goto, SoundInv, TypeOK
  <2>2. PointerFollowsFinish' /\ NoLostEvent'
    BY <2>1 DEF LockInv, PointerFollowsFinish, NoLostEvent
  <2> QED
    BY <2>1, <2>2, RecordAssumption DEF LockInv, Points
<1>2. CASE TimeOut(c)
  <2>1. /\ \A d \in Call : pc'[d] = IF d = c THEN "refused" ELSE pc[d]
        /\ pc[c] = "called" /\ op[c] \in Locked
        /\ UNCHANGED <<rec, pointed, op, acked, lock, local>>
    BY <1>2 DEF TimeOut, Goto, SoundInv, TypeOK
  <2>2. PointerFollowsFinish' /\ NoLostEvent'
    BY <2>1 DEF LockInv, PointerFollowsFinish, NoLostEvent
  <2> QED
    BY <2>1, <2>2 DEF LockInv, Points
<1>3. CASE Operates(c)
  <2>1. PICK l \in {"done", "refused"} : \A d \in Call : pc'[d] = IF d = c THEN l ELSE pc[d]
    BY <1>3 DEF Operates, Goto, SoundInv, TypeOK
  <2>2. /\ pc[c] = "loaded" /\ op[c] # "finish" /\ op[c] \in Locked /\ lock = c
        /\ UNCHANGED <<local, op, pointed>>
        /\ (UNCHANGED <<rec, acked>>) \/ Advances
    BY <1>3 DEF Operates, LockInv
  <2>3. /\ NoLostEvent'
        /\ rec.body.status = "finished" => rec'.body.status = "finished"
    BY <2>2, AdvanceKeeps
  <2>4. PointerFollowsFinish'
    BY <2>1, <2>2, <2>3 DEF LockInv, PointerFollowsFinish
  <2>5. \A d \in Call \ {c} : pc'[d] \notin {"loaded", "unpoint"}
    BY <2>1, <2>2 DEF LockInv
  <2> QED
    BY <2>1, <2>2, <2>3, <2>4, <2>5 DEF LockInv, Points
<1>4. CASE FinishSession(c)
  <2>1. /\ \A d \in Call : pc'[d] = IF d = c THEN "unpoint" ELSE pc[d]
        /\ pc[c] = "loaded" /\ op[c] = "finish" /\ op[c] \in Locked /\ lock = c /\ local[c] = rec
        /\ UNCHANGED <<local, op, pointed, lock>>
    BY <1>4 DEF FinishSession, Goto, Running, LockInv, SoundInv, TypeOK
  <2>2. rec' = Finish(rec.body, c, expired) /\ acked' = acked \cup rec'.body.events
    BY <1>4, <2>1 DEF FinishSession, Persist, Copy
  <2>3. rec.body \in Body /\ expired \in SUBSET Call
    BY DEF SoundInv, TypeOK, Record
  <2>4. Successor(rec.body, rec'.body) /\ rec'.body.status = "finished"
    BY <2>2, <2>3, FinishSuccessor
  <2>5. Advances
    BY <2>2, <2>4 DEF Advances
  <2>6. NoLostEvent'
    BY <2>5, AdvanceKeeps
  <2>7. PointerFollowsFinish'
    BY <2>1, <2>4 DEF LockInv, PointerFollowsFinish
  <2>8. \A d \in Call \ {c} : pc'[d] \notin {"loaded", "unpoint"}
    BY <2>1 DEF LockInv
  <2> QED
    BY <2>1, <2>4, <2>5, <2>6, <2>7, <2>8 DEF LockInv, Points
<1>5. CASE ClearActiveSession(c)
  <2>1. /\ \A d \in Call : pc'[d] = IF d = c THEN "done" ELSE pc[d]
        /\ pc[c] = "unpoint" /\ op[c] \in Locked /\ lock = c /\ lock' = NoCall
        /\ ~pointed' /\ rec.body.status = "finished"
        /\ UNCHANGED <<local, op, rec, acked>>
    BY <1>5 DEF ClearActiveSession, Return, Goto, Unchanged, LockInv, SoundInv, TypeOK
  <2>2. PointerFollowsFinish' /\ NoLostEvent'
    BY <2>1 DEF LockInv, PointerFollowsFinish, NoLostEvent
  <2>3. \A d \in Call \ {c} : pc'[d] \notin {"loaded", "unpoint"}
    BY <2>1 DEF LockInv
  <2> QED
    BY <2>1, <2>2, <2>3 DEF LockInv, Points
<1> QED
  BY <1>1, <1>2, <1>3, <1>4, <1>5, StepsUnderLock

\* Every step keeps the invariant and advances the record, if it writes at all.
LEMMA LockNext ==
    ASSUME OnlyLocked, SoundInv, LockInv, [Next]_vars
    PROVE  /\ LockInv'
           /\ (UNCHANGED <<rec, acked>>) \/ Advances
<1>1. ASSUME NEW c \in Call, Fail(c) PROVE LockInv' /\ UNCHANGED <<rec, acked>>
  <2>1. /\ \A d \in Call : pc'[d] = IF d = c THEN "failed" ELSE pc[d]
        /\ pc[c] \notin {"idle", "done", "refused", "failed"}
        /\ UNCHANGED <<rec, pointed, op, local, acked>>
    BY <1>1 DEF Fail, Returned, Goto, SoundInv, TypeOK
  <2>2. lock' = lock \/ lock = c \/ lock = NoCall
    BY <1>1 DEF Fail
  <2>3. PointerFollowsFinish' /\ NoLostEvent'
    BY <2>1 DEF LockInv, PointerFollowsFinish, NoLostEvent
  <2> QED
    BY <2>1, <2>2, <2>3, RecordAssumption DEF LockInv, Points
<1>2. ASSUME NEW c \in Call, NEW o \in Ops, CallOperation(c, o)
      PROVE  LockInv' /\ UNCHANGED <<rec, acked>>
  <2>1. PICK l \in {"called", "refused"} : \A d \in Call : pc'[d] = IF d = c THEN l ELSE pc[d]
    BY <1>2 DEF CallOperation, Goto, SoundInv, TypeOK
  <2>2. /\ \A d \in Call : op'[d] = IF d = c THEN o ELSE op[d]
        /\ pc[c] = "idle"
        /\ UNCHANGED <<rec, pointed, lock, local, acked>>
    BY <1>2 DEF CallOperation, SoundInv, TypeOK
  <2>3. o \in Locked
    BY SessionAssumption DEF OnlyLocked
  <2>4. PointerFollowsFinish' /\ NoLostEvent'
    BY <2>1, <2>2 DEF LockInv, PointerFollowsFinish, NoLostEvent
  <2> QED
    BY <2>1, <2>2, <2>3, <2>4 DEF LockInv, Points
<1>3. CASE Tick
  BY <1>3 DEF Tick, LockInv, PointerFollowsFinish, NoLostEvent
<1>4. CASE UNCHANGED vars
  BY <1>4 DEF vars, LockInv, PointerFollowsFinish, NoLostEvent
<1> QED
  BY <1>1, <1>2, <1>3, <1>4, StepKeeps DEF Next

\* Under the lock every call that has loaded holds the lock and the record.
THEOREM LockInvariant == ASSUME OnlyLocked PROVE Spec => []LockInv
<1> QED
  BY LockInit, LockNext, Soundness, PTL DEF Spec

\* An event that was ever persisted is in the record for good.
THEOREM NothingLost == ASSUME OnlyLocked PROVE Spec => []NoLostEvent
<1>1. LockInv => NoLostEvent
  BY DEF LockInv
<1> QED
  BY LockInvariant, <1>1, PTL

\* The active pointer goes only once the finished record is on disk.
THEOREM PointerAfterFinish == ASSUME OnlyLocked PROVE Spec => []PointerFollowsFinish
<1>1. LockInv => PointerFollowsFinish
  BY DEF LockInv
<1> QED
  BY LockInvariant, <1>1, PTL

\* Once finished a session stays finished, and its grants are what they were.
THEOREM FinishFinal == ASSUME OnlyLocked PROVE Spec => FinishIsFinal
<1> DEFINE A == rec.body.status = "finished" => /\ rec'.body.status = "finished"
                                                /\ rec'.body.approvalGrants = rec.body.approvalGrants
<1>1. SoundInv /\ LockInv /\ [Next]_vars => A
  BY LockNext, AdvanceKeeps
<1>2. Spec => [][A]_vars
  BY <1>1, Soundness, LockInvariant, PTL DEF Spec
<1> QED
  BY <1>2 DEF FinishIsFinal

\* Nothing but a new approval of its path undoes a revocation.
THEOREM RevocationFinal == ASSUME OnlyLocked PROVE Spec => RevocationIsFinal
<1> DEFINE A == \A g \in rec.body.approvalGrants :
                    g.revoked => \/ g \in rec'.body.approvalGrants
                                 \/ \E h \in rec'.body.approvalGrants \ rec.body.approvalGrants :
                                       h.path = g.path /\ ~h.revoked
<1>1. SoundInv /\ LockInv /\ [Next]_vars => A
  BY LockNext, AdvanceKeeps DEF RevokedStay
<1>2. Spec => [][A]_vars
  BY <1>1, Soundness, LockInvariant, PTL DEF Spec
<1> QED
  BY <1>2 DEF RevocationIsFinal

-----------------------------------------------------------------------------
(* Refinement: the operations are those of AtomicSession *)

\* The operators of AtomicSession are those of this module, which extends the
\* same record module.
LEMMA SameRecompute == \A b, past, c : Atomic!Recompute(b, past, c) = Recompute(b, past, c)
BY DEF Atomic!Recompute, Recompute, Atomic!ActivePaths, ActivePaths, Atomic!IsActive, IsActive,
       Atomic!Stamp, Stamp

LEMMA SameActivePaths == \A b, past : Atomic!ActivePaths(b, past) = ActivePaths(b, past)
BY DEF Atomic!ActivePaths, ActivePaths, Atomic!IsActive, IsActive

LEMMA SameApprove ==
    ASSUME NEW b, NEW c, NEW path, NEW e, NEW past
    PROVE  Atomic!Approve(b, c, path, e, past) = Approve(b, c, path, e, past)
<1> DEFINE grant == [path |-> path, id |-> c, expires |-> e, revoked |-> FALSE,
                     planRevision |-> b.agentPlanRevision]
           granted == [b EXCEPT
               !.approvalGrants = {g \in @ : g.path # path} \cup {grant},
               !.events = @ \cup {Stamp("approved", c)}]
           m == [granted EXCEPT !.approvedPaths = ActivePaths(granted, past)]
<1>1. Approve(b, c, path, e, past) = Recompute(m, past, c)
  BY DEF Approve
<1>2. Stamp("approved", c) = Atomic!Stamp("approved", c)
  BY DEF Atomic!Stamp, Stamp
<1>3. Atomic!ActivePaths(granted, past) = ActivePaths(granted, past)
  BY SameActivePaths
<1>4. Atomic!Approve(b, c, path, e, past) = Atomic!Recompute(m, past, c)
  BY <1>2, <1>3, Zenon DEF Atomic!Approve
<1> QED
  BY <1>1, <1>4, SameRecompute, Zenon

LEMMA SameRevoke == \A b, c, past, t : Atomic!Revoke(b, c, t, past) = Revoke(b, c, t, past)
BY SameRecompute, SameActivePaths DEF Atomic!Revoke, Revoke

LEMMA SameExpire == \A b, c, past : Atomic!Expire(b, c, past) = Expire(b, c, past)
BY SameRecompute, SameActivePaths
   DEF Atomic!Expire, Expire, Atomic!ExpiredGrants, ExpiredGrants,
       Atomic!ExpiryRecorded, ExpiryRecorded

LEMMA SameNothingToExpire ==
    \A b, past : Atomic!NothingToExpire(b, past) <=> NothingToExpire(b, past)
BY SameActivePaths
   DEF Atomic!NothingToExpire, NothingToExpire, Atomic!ExpiredGrants, ExpiredGrants

LEMMA SameFinish == \A b, c, past : Atomic!Finish(b, c, past) = Finish(b, c, past)
BY SameRecompute DEF Atomic!Finish, Finish, Atomic!Stamp, Stamp, Atomic!Canonical, Canonical

LEMMA SameAppend == \A b, c : Atomic!Append(b, c) = Append(b, c)
BY DEF Atomic!Append, Append, Atomic!Stamp, Stamp

\* No operation that looks at the record before it has the lock is called.
OnlyUnderLock == Ops \cap (Unlocked \cup Freezing) = {}

\* The time of a call is past.
CallsArePast == \A c \in Call : asof[c] \subseteq expired

LEMMA CallsPast == Spec => []CallsArePast
<1>1. Init => CallsArePast
  BY DEF Init, CallsArePast
<1>2. SoundInv /\ CallsArePast /\ [Next]_vars => CallsArePast'
  <2> SUFFICES ASSUME SoundInv, CallsArePast, [Next]_vars PROVE CallsArePast'
    OBVIOUS
  <2>1. expired \subseteq expired'
    BY DEF vars, Next, Step, Fail, CallOperation, Tick, Acquire, TimeOut, Load, AppendEvent,
           ApproveSession, RevokeSessionApproval, Refuse, ExpireSessionApprovals,
           RefreshObligations, FinishSession, ClearActiveSession, SetPlanFrozen, CaptureAgentPlan,
           LoadForAttach, AttachAgentPlan, AmendAgentPlan, DecideAgentPlanAmendment,
           RecordDecision, Kept
  <2>2. asof' = asof \/ \E c \in Call : asof' = [asof EXCEPT ![c] = expired]
    BY DEF vars, Next, Step, Fail, CallOperation, Tick, Acquire, TimeOut, Load, AppendEvent,
           ApproveSession, RevokeSessionApproval, Refuse, ExpireSessionApprovals,
           RefreshObligations, FinishSession, ClearActiveSession, SetPlanFrozen, CaptureAgentPlan,
           LoadForAttach, AttachAgentPlan, AmendAgentPlan, DecideAgentPlanAmendment,
           RecordDecision, Kept
  <2> QED
    BY <2>1, <2>2 DEF CallsArePast, SoundInv, TypeOK
<1> QED
  BY <1>1, <1>2, Soundness, PTL DEF Spec

\* With the copy of the holder being the record, each operation is one step of
\* AtomicSession, and taking the lock, giving up and dying are none.
LEMMA StepsAreAtomic ==
    ASSUME OnlyUnderLock, SoundInv, LockInv, CallsArePast, NEW c \in Call, Step(c)
    PROVE  Atomic!Next \/ UNCHANGED <<rec, pointed, expired>>
<1>1. /\ pc[c] \notin {"attach", "attaching", "accepted"}
      /\ pc[c] # "idle" => op[c] \notin Unlocked \cup Freezing
      /\ pc[c] = "loaded" => Copy(c) = rec.body /\ local[c] = rec
      /\ pc[c] = "unpoint" => rec.body.status = "finished"
  BY DEF LockInv, OnlyUnderLock, Copy
<1>2. asof[c] \subseteq expired
  BY DEF CallsArePast
<1>3. \A b : pc[c] = "loaded" /\ Save(c, b) => rec' = [rec EXCEPT !.body = b]
  BY <1>1 DEF Save, Persist
<1>4. CASE Acquire(c) \/ TimeOut(c) \/ Refuse(c)
  BY <1>4 DEF Acquire, TimeOut, Refuse, Unchanged, Kept
<1>5. CASE AppendEvent(c)
  <2>1. pc[c] = "loaded" /\ Save(c, Append(Copy(c), c)) /\ UNCHANGED <<pointed, expired>>
    BY <1>5 DEF AppendEvent, Running, Kept
  <2>2. Atomic!AppendEvent(c)
    BY <1>1, <1>3, <2>1, SameAppend DEF Atomic!AppendEvent, Atomic!Becomes
  <2> QED
    BY <2>2 DEF Atomic!Next
<1>6. CASE ApproveSession(c)
  <2>1. pc[c] = "loaded" /\ Copy(c).status = "active" /\ pointed' = pointed
    BY <1>6 DEF ApproveSession, Running
  <2>2. PICK path \in Path, ttl \in {"none", "zero", "some"} :
          /\ expired' = IF ttl = "zero" THEN expired \cup {c} ELSE expired
          /\ Save(c, Approve(Copy(c), c, path, ttl # "none", expired'))
    BY <1>6 DEF ApproveSession
  <2> DEFINE expires == ttl # "none"
  <2>3. rec' = [rec EXCEPT !.body = Atomic!Approve(rec.body, c, path, expires, expired')]
    BY <1>1, <1>3, <2>1, <2>2, SameApprove
  <2>4. expired' \in {expired} \cup (IF expires THEN {expired \cup {c}} ELSE {})
    BY <2>2
  <2>5. expires \in BOOLEAN
    OBVIOUS
  <2> HIDE DEF expires
  <2>6. Atomic!ApproveSession(c)
    BY <1>1, <2>1, <2>3, <2>4, <2>5 DEF Atomic!ApproveSession, Atomic!Becomes
  <2> QED
    BY <2>6 DEF Atomic!Next
<1>7. CASE RevokeSessionApproval(c)
  <2>1. /\ pc[c] = "loaded" /\ Copy(c).status = "active" /\ UNCHANGED <<pointed, expired>>
    BY <1>7 DEF RevokeSessionApproval, Running, Kept
  <2>2. PICK target \in Copy(c).approvalGrants : Save(c, Revoke(Copy(c), c, target, expired))
    BY <1>7 DEF RevokeSessionApproval, RevocationTargets
  <2>3. rec' = [rec EXCEPT !.body = Atomic!Revoke(rec.body, c, target, expired)]
    BY <1>1, <1>3, <2>1, <2>2, SameRevoke
  <2>4. Atomic!RevokeSessionApproval(c)
    BY <1>1, <2>1, <2>2, <2>3 DEF Atomic!RevokeSessionApproval, Atomic!Becomes
  <2> QED
    BY <2>4 DEF Atomic!Next
<1>8. CASE ExpireSessionApprovals(c)
  <2>1. pc[c] = "loaded" /\ UNCHANGED <<pointed, expired>>
    BY <1>8 DEF ExpireSessionApprovals, Running, Kept
  <2>2. CASE NothingToExpire(Copy(c), asof[c])
    BY <1>8, <2>1, <2>2 DEF ExpireSessionApprovals, Unchanged
  <2>3. CASE ~NothingToExpire(Copy(c), asof[c])
    <3>1. Save(c, Expire(Copy(c), c, asof[c]))
      BY <1>8, <2>3 DEF ExpireSessionApprovals
    <3>2. rec' = [rec EXCEPT !.body = Atomic!Expire(rec.body, c, asof[c])]
      BY <1>1, <1>3, <2>1, <3>1, SameExpire
    <3>3. Atomic!ExpireSessionApprovals(c)
      BY <1>1, <1>2, <2>1, <2>3, <3>2, SameNothingToExpire
         DEF Atomic!ExpireSessionApprovals, Atomic!Becomes
    <3> QED
      BY <3>3 DEF Atomic!Next
  <2> QED
    BY <2>2, <2>3
<1>9. CASE RefreshObligations(c)
  <2>1. /\ pc[c] = "loaded" /\ UNCHANGED <<pointed, expired>>
        /\ Save(c, Recompute(Copy(c), asof[c], c))
    BY <1>9 DEF RefreshObligations, Running, Kept
  <2>2. rec' = [rec EXCEPT !.body = Atomic!Recompute(rec.body, asof[c], c)]
    BY <1>1, <1>3, <2>1, SameRecompute
  <2>3. Atomic!RefreshObligations(c)
    BY <1>2, <2>1, <2>2 DEF Atomic!RefreshObligations, Atomic!Becomes
  <2> QED
    BY <2>3 DEF Atomic!Next
<1>10. CASE FinishSession(c)
  <2>1. /\ pc[c] = "loaded" /\ UNCHANGED <<pointed, expired>>
        /\ rec' = Finish(Copy(c), c, expired)
    BY <1>10 DEF FinishSession, Running, Persist
  <2>2. Atomic!FinishSession(c)
    BY <1>1, <2>1, SameFinish DEF Atomic!FinishSession
  <2> QED
    BY <2>2 DEF Atomic!Next
<1>11. CASE ClearActiveSession(c)
  <2>1. Atomic!ClearActiveSession
    BY <1>1, <1>11 DEF ClearActiveSession, Unchanged, Atomic!ClearActiveSession
  <2> QED
    BY <2>1 DEF Atomic!Next
<1>12. ~SetPlanFrozen(c)
  BY <1>1 DEF SetPlanFrozen
<1>13. ~Load(c) /\ ~CaptureAgentPlan(c) /\ ~AmendAgentPlan(c) /\ ~DecideAgentPlanAmendment(c)
  BY <1>1 DEF Load, CaptureAgentPlan, AmendAgentPlan, DecideAgentPlanAmendment, Running, Unlocked
<1>14. ~LoadForAttach(c) /\ ~AttachAgentPlan(c) /\ ~RecordDecision(c)
  BY <1>1 DEF LoadForAttach, AttachAgentPlan, RecordDecision
<1> QED
  BY <1>4, <1>5, <1>6, <1>7, <1>8, <1>9, <1>10, <1>11, <1>12, <1>13, <1>14 DEF Step

\* Processes that interleave, time out and die implement operations that take
\* effect at once.
THEOREM ImplementsAtomic == ASSUME OnlyUnderLock PROVE Spec => AtomicSpec
<1>1. Init => Atomic!Init
  BY DEF Init, Atomic!Init, FreshRecord, FreshBody, Atomic!FreshRecord, Atomic!FreshBody
<1>2. OnlyLocked
  BY DEF OnlyLocked, OnlyUnderLock
<1>3. SoundInv /\ LockInv /\ CallsArePast /\ [Next]_vars => [Atomic!Next]_<<rec, pointed, expired>>
  <2> SUFFICES ASSUME SoundInv, LockInv, CallsArePast, [Next]_vars
               PROVE  Atomic!Next \/ UNCHANGED <<rec, pointed, expired>>
    OBVIOUS
  <2>1. ASSUME NEW c \in Call, Fail(c) \/ \E o \in Ops : CallOperation(c, o)
        PROVE  UNCHANGED <<rec, pointed, expired>>
    BY <2>1 DEF Fail, CallOperation
  <2>2. CASE Tick
    BY <2>2 DEF Tick, Atomic!Next, Atomic!Tick, SoundInv, TypeOK, Record, Body, Grant
  <2>3. CASE UNCHANGED vars
    BY <2>3 DEF vars
  <2> QED
    BY <2>1, <2>2, <2>3, StepsAreAtomic DEF Next
<1>4. Spec => []LockInv
  BY <1>2, LockInvariant
<1> QED
  BY <1>1, <1>3, <1>4, Soundness, CallsPast, PTL DEF Spec, AtomicSpec, Atomic!Spec

-----------------------------------------------------------------------------
(***************************************************************************)
(* When calls do not overlap, and when a finished record is let be: the    *)
(* statements of the documentation that the code does not meet in general  *)
(* hold then, for any mix of operations.                                   *)
(***************************************************************************)
\* No operation but a finish changes the status, and none loses an event.
Keeps(b, r) == r.status = b.status /\ b.events \subseteq r.events

\* The operations on approvals and events leave the ledger as well.
SamePlans(b, r) == Keeps(b, r) /\ r.agentPlanRevisions = b.agentPlanRevisions

LEMMA MarkedPlans ==
    ASSUME NEW b \in Body, NEW m \in Body, SamePlans(b, m), NEW c \in Call, NEW past \in SUBSET Call
    PROVE  SamePlans(b, Recompute([m EXCEPT !.approvedPaths = ActivePaths(m, past)], past, c))
<1> DEFINE n == [m EXCEPT !.approvedPaths = ActivePaths(m, past)]
<1>1. /\ n \in Body /\ n.status = m.status /\ n.events = m.events
      /\ n.agentPlanRevisions = m.agentPlanRevisions
  BY ActivePathsType DEF Body
<1> HIDE DEF n
<1>2. SamePlans(b, Recompute(n, past, c))
  BY <1>1, RecomputeFrame DEF SamePlans, Keeps
<1> QED
  BY <1>2 DEF n

LEMMA OperationPlans ==
    ASSUME NEW b \in Body, NEW c \in Call, NEW past \in SUBSET Call
    PROVE  /\ SamePlans(b, Append(b, c))
           /\ SamePlans(b, Recompute(b, past, c))
           /\ \A path \in Path, e \in BOOLEAN : SamePlans(b, Approve(b, c, path, e, past))
           /\ \A t \in b.approvalGrants : SamePlans(b, Revoke(b, c, t, past))
           /\ SamePlans(b, Expire(b, c, past))
           /\ \A f \in BOOLEAN : SamePlans(b, SetFrozen(b, c, f))
           /\ \A plan \in SUBSET Item : SamePlans(b, Propose(b, c, plan))
           /\ \A q \in b.proposals : SamePlans(b, Reject(b, c, q))
           /\ SamePlans(b, RecordAcceptance(b, c))
           /\ Finish(b, c, past).body.agentPlanRevisions = b.agentPlanRevisions
<1>1. SamePlans(b, Append(b, c)) /\ SamePlans(b, Recompute(b, past, c))
  BY RecomputeFrame DEF SamePlans, Keeps, Append, Body
<1>2. ASSUME NEW path \in Path, NEW e \in BOOLEAN
      PROVE  SamePlans(b, Approve(b, c, path, e, past))
  <2> DEFINE grant == [path |-> path, id |-> c, expires |-> e, revoked |-> FALSE,
                       planRevision |-> b.agentPlanRevision]
             m == [b EXCEPT !.approvalGrants = {g \in @ : g.path # path} \cup {grant},
                            !.events = @ \cup {Stamp("approved", c)}]
  <2>1. grant \in Grant
    BY DEF Grant, Body
  <2> HIDE DEF grant
  <2>2. m \in Body /\ SamePlans(b, m)
    BY <2>1, StampType DEF Body, Kinds, SamePlans, Keeps
  <2>3. Approve(b, c, path, e, past)
          = Recompute([m EXCEPT !.approvedPaths = ActivePaths(m, past)], past, c)
    BY DEF Approve, grant
  <2> HIDE DEF m
  <2> QED
    BY <2>2, <2>3, MarkedPlans
<1>3. ASSUME NEW t \in b.approvalGrants
      PROVE  SamePlans(b, Revoke(b, c, t, past))
  <2> DEFINE u == [t EXCEPT !.revoked = TRUE]
             event == [type |-> "revoked", by |-> c, of |-> t.id]
             m == IF t.revoked THEN b
                  ELSE [b EXCEPT !.approvalGrants = (@ \ {t}) \cup {u},
                                 !.events = @ \cup {event}]
  <2>1. u \in Grant /\ event \in Event
    BY DEF Grant, Body, Event, Kinds
  <2> HIDE DEF u, event
  <2>2. m \in Body /\ SamePlans(b, m)
    BY <2>1 DEF Body, SamePlans, Keeps
  <2>3. Revoke(b, c, t, past)
          = Recompute([m EXCEPT !.approvedPaths = ActivePaths(m, past)], past, c)
    BY DEF Revoke, u, event
  <2> HIDE DEF m
  <2> QED
    BY <2>2, <2>3, MarkedPlans
<1>4. SamePlans(b, Expire(b, c, past))
  <2> DEFINE unrecorded == {g \in ExpiredGrants(b, past) : ~ExpiryRecorded(b, g)}
             added == {[type |-> "expired", by |-> c, of |-> g.id] : g \in unrecorded}
             m == [b EXCEPT !.events = @ \cup added, !.approvedPaths = ActivePaths(b, past)]
  <2>1. added \subseteq Event
    BY DEF ExpiredGrants, Body, Grant, Event, Kinds
  <2> HIDE DEF added
  <2>2. /\ m \in Body /\ m.status = b.status /\ b.events \subseteq m.events
        /\ m.agentPlanRevisions = b.agentPlanRevisions
    BY <2>1, ActivePathsType DEF Body
  <2>3. Expire(b, c, past) = Recompute(m, past, c)
    BY DEF Expire, added
  <2> HIDE DEF m
  <2> QED
    BY <2>2, <2>3, RecomputeFrame DEF SamePlans, Keeps
<1>5. ASSUME NEW f \in BOOLEAN PROVE SamePlans(b, SetFrozen(b, c, f))
  BY DEF SetFrozen, SamePlans, Keeps, Body
<1>6. ASSUME NEW plan \in SUBSET Item PROVE SamePlans(b, Propose(b, c, plan))
  BY DEF Propose, SamePlans, Keeps, Body
<1>7. ASSUME NEW q \in b.proposals PROVE SamePlans(b, Reject(b, c, q))
  BY DEF Reject, SamePlans, Keeps, Body
<1>8. SamePlans(b, RecordAcceptance(b, c))
  BY DEF RecordAcceptance, SamePlans, Keeps, Body
<1>9. Finish(b, c, past).body.agentPlanRevisions = b.agentPlanRevisions
  <2> DEFINE begun == [b EXCEPT !.status = "finished"]
             done == Recompute(begun, past, c)
  <2>1. begun \in Body /\ begun.agentPlanRevisions = b.agentPlanRevisions
    BY DEF Body
  <2> HIDE DEF begun
  <2>2. done \in Body /\ done.agentPlanRevisions = b.agentPlanRevisions
    BY <2>1, RecomputeType, RecomputeFrame
  <2>3. Finish(b, c, past).body = [done EXCEPT !.events = @ \cup {Stamp("session_finish", c)}]
    BY DEF Finish, begun
  <2> HIDE DEF done
  <2> QED
    BY <2>2, <2>3 DEF Body
<1> QED
  BY <1>1, <1>2, <1>3, <1>4, <1>5, <1>6, <1>7, <1>8, <1>9

\* A new revision leaves the status, and adds one entry to a sound ledger.
LEMMA RevisionMade ==
    ASSUME NEW b \in Body, LedgerSound(b), NEW c \in Call, NEW plan \in SUBSET Item,
           NEW by \in Author, NEW type \in PlanEvent, NEW past \in SUBSET Call
    PROVE  LET r == RecordRevision(b, c, plan, by, type, past)
           IN  /\ Keeps(b, r)
               /\ r.agentPlanRevisions = b.agentPlanRevisions
                                           \cup {Entry(b.agentPlanRevision + 1, c, plan, by)}
<1> DEFINE n == b.agentPlanRevision + 1
           entry == Entry(n, c, plan, by)
           kept == {e \in b.agentPlanRevisions : e.revision < n}
           planned == [b EXCEPT !.agentPlan = plan,
                                !.agentPlanRevision = n,
                                !.agentPlanRevisions = kept \cup {entry},
                                !.events = @ \cup {Stamp(type, c)}]
           m == Recompute(planned, past, c)
           r == RecordRevision(b, c, plan, by, type, past)
<1>1. n \in Nat /\ entry \in Revision /\ Stamp(type, c) \in Event
  BY StampType DEF Body, Entry, Revision, Kinds, PlanEvent
<1>2. kept = b.agentPlanRevisions
  BY DEF LedgerSound, Body, Revision
<1> HIDE DEF entry, n
<1>3. /\ planned \in Body /\ planned.status = b.status /\ b.events \subseteq planned.events
      /\ planned.agentPlanRevisions = kept \cup {entry}
  BY <1>1 DEF Body
<1>4. r = [m EXCEPT !.allowed = @ \cup plan]
  BY DEF RecordRevision, entry, n
<1> HIDE DEF planned
<1>5. /\ m \in Body /\ m.status = b.status /\ b.events \subseteq m.events
      /\ m.agentPlanRevisions = kept \cup {entry}
  BY <1>3, RecomputeType, RecomputeFrame
<1> HIDE DEF m
<1>6. Keeps(b, r) /\ r.agentPlanRevisions = kept \cup {entry}
  BY <1>4, <1>5 DEF Body, Keeps
<1> HIDE DEF r, kept
<1> QED
  BY <1>2, <1>6 DEF r, entry, n

-----------------------------------------------------------------------------
(* What a step may make of the status and the ledger *)

\* The entry is a human's, or adds nothing guarded, or is of the first plan, or
\* the step replaces whatever plan there is.
Reviewed(b, c, r) ==
    \/ r.agentPlanRevisions = b.agentPlanRevisions
    \/ \E plan \in SUBSET Item, by \in Author :
          /\ r.agentPlanRevisions = b.agentPlanRevisions
                                     \cup {Entry(b.agentPlanRevision + 1, c, plan, by)}
          /\ \/ by = "human"
             \/ ~RequiresHuman(b, plan)
             \/ b.agentPlanRevision = 0
             \/ pc[c] = "attaching"

\* What c may persist, of its copy.
Makes(c, r) ==
    /\ Reviewed(Copy(c), c, r.body)
    /\ Copy(c).events \subseteq r.body.events
    /\ r.body.status = Copy(c).status \/ r = Finish(Copy(c), c, expired)

MakingPoints == {"loaded", "attaching", "accepted"}

Made(c) ==
    /\ pc[c] \in MakingPoints
    /\ \E r \in Record :
         /\ Makes(c, r)
         /\ Persist(r)
         /\ \/ local' = local /\ \E l \in {"done", "unpoint"} : Goto(c, l)
            \/ local' = [local EXCEPT ![c] = r] /\ Goto(c, "accepted")

\* A step that writes nothing: it returns, or loads, or finds no plan.
Looked(c) ==
    /\ UNCHANGED <<rec, acked>>
    /\ \/ local' = local /\ \E l \in Returned \cup {"called"} : Goto(c, l)
       \/ local' = [local EXCEPT ![c] = rec] /\ Goto(c, "loaded")
       \/ /\ pc[c] = "loaded" /\ Copy(c).agentPlanRevision = 0
          /\ local' = local /\ Goto(c, "attach")
       \/ pc[c] = "attach" /\ local' = [local EXCEPT ![c] = rec] /\ Goto(c, "attaching")

\* Saving what was made is to have made it.
LEMMA SaveMade ==
    ASSUME TypeOK, NEW c \in Call, pc[c] \in MakingPoints, NEW b \in Body,
           Keeps(Copy(c), b), Reviewed(Copy(c), c, b), Save(c, b), local' = local
    PROVE  Made(c)
<1> DEFINE r == [local[c] EXCEPT !.body = b]
<1>1. r \in Record /\ r.body = b
  BY DEF TypeOK, Record
<1>2. Persist(r) /\ Goto(c, "done")
  BY DEF Save, Return
<1> HIDE DEF r
<1> QED
  BY <1>1, <1>2 DEF Made, Makes, Keeps

LEMMA SamePlansMade ==
    ASSUME TypeOK, NEW c \in Call, pc[c] \in MakingPoints, NEW b \in Body,
           SamePlans(Copy(c), b), Save(c, b), local' = local
    PROVE  Made(c)
BY SaveMade DEF SamePlans, Reviewed

\* So is saving another revision.
LEMMA RevisionSaved ==
    ASSUME TypeOK, NEW c \in Call, pc[c] \in MakingPoints, LedgerSound(Copy(c)),
           NEW plan \in SUBSET Item, NEW by \in Author, NEW type \in PlanEvent,
           NEW past \in SUBSET Call,
           \/ by = "human" \/ ~RequiresHuman(Copy(c), plan)
           \/ Copy(c).agentPlanRevision = 0 \/ pc[c] = "attaching",
           Save(c, RecordRevision(Copy(c), c, plan, by, type, past)), local' = local
    PROVE  Made(c)
<1> DEFINE r == RecordRevision(Copy(c), c, plan, by, type, past)
<1>1. Copy(c) \in Body
  BY DEF TypeOK, Record, Copy
<1>2. r \in Body
  BY <1>1, RecordRevisionType DEF PlanEvent, Kinds
<1>3. /\ Keeps(Copy(c), r)
      /\ r.agentPlanRevisions = Copy(c).agentPlanRevisions
                                   \cup {Entry(Copy(c).agentPlanRevision + 1, c, plan, by)}
  BY <1>1, RevisionMade
<1> HIDE DEF r
<1>4. Reviewed(Copy(c), c, r)
  BY <1>3 DEF Reviewed
<1> QED
  BY <1>2, <1>3, <1>4, SaveMade DEF r

\* Applying an amendment or proposing it.
LEMMA AppliedMade ==
    ASSUME TypeOK, NEW c \in Call, pc[c] = "loaded", LedgerSound(Copy(c)),
           NEW plan \in SUBSET Item, NEW by \in Author, asof[c] \in SUBSET Call,
           SaveChanged(c, ApplyOrPropose(Copy(c), c, plan, by, asof[c])), local' = local
    PROVE  Looked(c) \/ Made(c)
<1>1. Copy(c) \in Body
  BY DEF TypeOK, Record, Copy
<1>2. CASE Unchanged /\ Return(c, "done")
  BY <1>2 DEF Unchanged, Return, Looked, Returned
<1>3. CASE by = "agent" /\ RequiresHuman(Copy(c), plan) /\ Save(c, Propose(Copy(c), c, plan))
  <2>1. SamePlans(Copy(c), Propose(Copy(c), c, plan)) /\ Propose(Copy(c), c, plan) \in Body
    BY <1>1, OperationPlans, ProposeType
  <2> QED
    BY <1>3, <2>1, SamePlansMade DEF MakingPoints
<1>4. CASE /\ by = "human" \/ ~RequiresHuman(Copy(c), plan)
           /\ Save(c, RecordRevision(Copy(c), c, plan, by, "plan_amended", asof[c]))
  BY <1>4, RevisionSaved DEF MakingPoints, PlanEvent
<1> QED
  BY <1>2, <1>3, <1>4 DEF SaveChanged, ApplyOrPropose, Author

LEMMA StepMade ==
    ASSUME SoundInv, NEW c \in Call, Step(c)
    PROVE  Looked(c) \/ Made(c)
<1> DEFINE b == Copy(c)
<1>1. /\ TypeOK /\ b \in Body /\ LedgerSound(b)
      /\ expired \in SUBSET Call
      /\ asof[c] \in SUBSET Call
  BY CopySound DEF SoundInv, PlanSound
<1>2. CASE Acquire(c)
  BY <1>2 DEF Acquire, Looked
<1>3. CASE TimeOut(c)
  BY <1>3 DEF TimeOut, Looked, Returned
<1>4. CASE Load(c)
  BY <1>4 DEF Load, Looked
<1>5. CASE AppendEvent(c)
  <2>1. Save(c, Append(b, c)) /\ local' = local /\ pc[c] \in MakingPoints
    BY <1>5 DEF AppendEvent, Kept, Running, MakingPoints
  <2>2. Append(b, c) \in Body /\ SamePlans(b, Append(b, c))
    BY <1>1, AppendType, OperationPlans
  <2> QED
    BY <1>1, <2>1, <2>2, SamePlansMade
<1>6. CASE ApproveSession(c)
  <2>1. PICK now \in SUBSET Call, path \in Path, e \in BOOLEAN :
          Save(c, Approve(b, c, path, e, now))
    BY <1>1, <1>6 DEF ApproveSession
  <2>2. local' = local /\ pc[c] \in MakingPoints
    BY <1>6 DEF ApproveSession, Running, MakingPoints
  <2> DEFINE r == Approve(b, c, path, e, now)
  <2>3. r \in Body /\ SamePlans(b, r)
    BY <1>1, ApproveType, OperationPlans
  <2>4. Save(c, r)
    BY <2>1
  <2> HIDE DEF r
  <2> QED
    BY <1>1, <2>2, <2>3, <2>4, SamePlansMade
<1>7. CASE RevokeSessionApproval(c)
  <2>1. PICK t \in b.approvalGrants : Save(c, Revoke(b, c, t, expired))
    BY <1>7 DEF RevokeSessionApproval, RevocationTargets
  <2>2. local' = local /\ pc[c] \in MakingPoints
    BY <1>7 DEF RevokeSessionApproval, Kept, Running, MakingPoints
  <2> DEFINE r == Revoke(b, c, t, expired)
  <2>3. r \in Body /\ SamePlans(b, r)
    BY <1>1, RevokeType, OperationPlans
  <2>4. Save(c, r)
    BY <2>1
  <2> HIDE DEF r
  <2> QED
    BY <1>1, <2>2, <2>3, <2>4, SamePlansMade
<1>8. CASE Refuse(c)
  BY <1>8 DEF Refuse, Return, Unchanged, Kept, Looked, Returned
<1>9. CASE ExpireSessionApprovals(c)
  <2>1. local' = local /\ pc[c] \in MakingPoints
    BY <1>9 DEF ExpireSessionApprovals, Kept, Running, MakingPoints
  <2> DEFINE r == Expire(b, c, asof[c])
  <2>2. (Unchanged /\ Return(c, "done")) \/ Save(c, r)
    BY <1>9 DEF ExpireSessionApprovals
  <2>3. r \in Body /\ SamePlans(b, r)
    BY <1>1, ExpireType, OperationPlans
  <2> HIDE DEF r
  <2>4. CASE Unchanged /\ Return(c, "done")
    BY <2>1, <2>4 DEF Return, Unchanged, Looked, Returned
  <2> QED
    BY <1>1, <2>1, <2>2, <2>3, <2>4, SamePlansMade
<1>10. CASE RefreshObligations(c)
  <2> DEFINE r == Recompute(b, asof[c], c)
  <2>1. Save(c, r) /\ local' = local /\ pc[c] \in MakingPoints
    BY <1>10 DEF RefreshObligations, Kept, Running, MakingPoints
  <2>2. r \in Body /\ SamePlans(b, r)
    BY <1>1, RecomputeType, OperationPlans
  <2> HIDE DEF r
  <2> QED
    BY <1>1, <2>1, <2>2, SamePlansMade
<1>11. CASE FinishSession(c)
  <2> DEFINE r == Finish(b, c, expired)
  <2>1. /\ Persist(r) /\ Goto(c, "unpoint") /\ local' = local
        /\ pc[c] \in MakingPoints
    BY <1>11 DEF FinishSession, Running, MakingPoints
  <2>2. /\ r \in Record /\ r.body.agentPlanRevisions = b.agentPlanRevisions
        /\ b.events \subseteq r.body.events
    BY <1>1, FinishType, FinishSound, OperationPlans
  <2>3. Makes(c, r)
    BY <2>2 DEF Makes, Reviewed
  <2> HIDE DEF r
  <2> QED
    BY <2>1, <2>2, <2>3 DEF Made
<1>12. CASE ClearActiveSession(c)
  BY <1>12 DEF ClearActiveSession, Return, Unchanged, Looked, Returned
<1>13. CASE SetPlanFrozen(c)
  <2>1. local' = local /\ pc[c] \in MakingPoints
    BY <1>13 DEF SetPlanFrozen, Kept, MakingPoints
  <2> DEFINE r == SetFrozen(b, c, op[c] = "freeze")
  <2>2. (Unchanged /\ Return(c, "done")) \/ Save(c, r)
    BY <1>13 DEF SetPlanFrozen
  <2>3. r \in Body /\ SamePlans(b, r)
    BY <1>1, SetFrozenType, OperationPlans
  <2> HIDE DEF r
  <2>4. CASE Unchanged /\ Return(c, "done")
    BY <2>1, <2>4 DEF Return, Unchanged, Looked, Returned
  <2> QED
    BY <1>1, <2>1, <2>2, <2>3, <2>4, SamePlansMade
<1>14. CASE CaptureAgentPlan(c)
  <2>1. local' = local /\ pc[c] = "loaded" /\ "agent" \in Author
    BY <1>14 DEF CaptureAgentPlan, Kept, Running, Author
  <2>2. \/ /\ b.agentPlanRevision = 0
           /\ Goto(c, "attach") /\ Unchanged
        \/ Unchanged /\ Return(c, "done")
        \/ \E plan \in SUBSET Item, by \in Author :
              SaveChanged(c, ApplyOrPropose(b, c, plan, by, asof[c]))
    BY <1>14, <2>1 DEF CaptureAgentPlan
  <2>3. CASE b.agentPlanRevision = 0 /\ Goto(c, "attach") /\ Unchanged
    BY <2>1, <2>3 DEF Unchanged, Looked
  <2>4. CASE Unchanged /\ Return(c, "done")
    BY <2>1, <2>4 DEF Return, Unchanged, Looked, Returned
  <2> QED
    BY <1>1, <2>1, <2>2, <2>3, <2>4, AppliedMade
<1>15. CASE LoadForAttach(c)
  BY <1>15 DEF LoadForAttach, Looked
<1>16. CASE AttachAgentPlan(c)
  <2>1. PICK plan \in SUBSET Item : Save(c, Attach(b, c, plan, asof[c]))
    BY <1>16 DEF AttachAgentPlan
  <2>2. local' = local /\ pc[c] = "attaching"
    BY <1>16 DEF AttachAgentPlan, Kept
  <2>3. PICK type \in PlanEvent, by \in Author :
          Attach(b, c, plan, asof[c]) = RecordRevision(b, c, plan, by, type, asof[c])
    BY DEF Attach, PlanEvent, Author
  <2> QED
    BY <1>1, <2>1, <2>2, <2>3, RevisionSaved DEF MakingPoints
<1>17. CASE AmendAgentPlan(c)
  <2>1. PICK plan \in SUBSET Item, by \in Author :
          SaveChanged(c, ApplyOrPropose(b, c, plan, by, asof[c]))
    BY <1>17 DEF AmendAgentPlan
  <2>2. local' = local /\ pc[c] = "loaded"
    BY <1>17 DEF AmendAgentPlan, Kept, Running
  <2> QED
    BY <1>1, <2>1, <2>2, AppliedMade
<1>18. CASE DecideAgentPlanAmendment(c)
  <2>1. pc[c] = "loaded"
    BY <1>18 DEF DecideAgentPlanAmendment, Running
  <2>2. PICK q \in b.proposals :
          \/ Save(c, Reject(b, c, q)) /\ local' = local
          \/ LET accepted == [local[c] EXCEPT !.body = Accept(@, c, q, asof[c])] IN
             /\ Persist(accepted)
             /\ local' = [local EXCEPT ![c] = accepted]
             /\ Goto(c, "accepted")
    BY <1>18 DEF DecideAgentPlanAmendment
  <2>3. CASE Save(c, Reject(b, c, q)) /\ local' = local
    <3>1. Reject(b, c, q) \in Body /\ SamePlans(b, Reject(b, c, q))
      BY <1>1, RejectType, OperationPlans
    <3> QED
      BY <1>1, <2>1, <2>3, <3>1, SamePlansMade DEF MakingPoints
  <2>4. CASE LET accepted == [local[c] EXCEPT !.body = Accept(@, c, q, asof[c])] IN
             /\ Persist(accepted)
             /\ local' = [local EXCEPT ![c] = accepted]
             /\ Goto(c, "accepted")
    <3> DEFINE accepted == [q EXCEPT !.status = "accepted", !.decidedBy = c]
               d == [b EXCEPT !.proposals = (@ \ {q}) \cup {accepted}]
               plan == q.proposedPlan
               r == RecordRevision(d, c, plan, "human", "plan_amended", asof[c])
               s == [local[c] EXCEPT !.body = r]
    <3>1. Persist(s) /\ local' = [local EXCEPT ![c] = s] /\ Goto(c, "accepted")
      BY <2>4 DEF Copy, Accept
    <3>2. accepted \in Proposal /\ plan \in SUBSET Item
      BY <1>1 DEF Body, Proposal
    <3> HIDE DEF accepted, plan
    <3>3. /\ d \in Body /\ d.status = b.status /\ d.events = b.events
          /\ d.agentPlanRevision = b.agentPlanRevision
          /\ d.agentPlanRevisions = b.agentPlanRevisions
          /\ d.agentPlan = b.agentPlan
          /\ d.allowed = b.allowed
      BY <1>1, <3>2 DEF Body
    <3> HIDE DEF d
    <3>4. LedgerSound(d)
      BY <1>1, <3>3 DEF LedgerSound
    <3>5. "human" \in Author /\ "plan_amended" \in PlanEvent /\ "plan_amended" \in Kinds
      BY DEF Author, PlanEvent, Kinds
    <3>6. /\ r \in Body /\ Keeps(d, r)
          /\ r.agentPlanRevisions = d.agentPlanRevisions
                                      \cup {Entry(d.agentPlanRevision + 1, c, plan, "human")}
      <4>1. d \in Body /\ plan \in SUBSET Item /\ asof[c] \in SUBSET Call /\ LedgerSound(d)
        BY <1>1, <3>2, <3>3, <3>4
      <4>2. r \in Body
        BY <3>5, <4>1, RecordRevisionType
      <4> QED
        BY <3>5, <4>1, <4>2, RevisionMade
    <3> HIDE DEF r
    <3>7. s \in Record /\ s.body = r
      BY <1>1, <3>6 DEF TypeOK, Record
    <3>8. Makes(c, s)
      BY <3>2, <3>3, <3>5, <3>6, <3>7 DEF Makes, Reviewed, Keeps
    <3> HIDE DEF s
    <3> QED
      BY <2>1, <3>1, <3>7, <3>8 DEF Made, MakingPoints
  <2> QED
    BY <2>2, <2>3, <2>4
<1>19. CASE RecordDecision(c)
  <2> DEFINE r == RecordAcceptance(b, c)
  <2>1. Save(c, r) /\ local' = local /\ pc[c] = "accepted"
    BY <1>19 DEF RecordDecision, Kept
  <2>2. \E q \in b.proposals : q.status = "accepted" /\ q.decidedBy = c
    BY <2>1 DEF SoundInv, AcceptedCopy, HoldsAcceptance, Copy
  <2>3. r \in Body /\ SamePlans(b, r)
    BY <1>1, <2>2, RecordAcceptanceType, OperationPlans
  <2> HIDE DEF r
  <2> QED
    BY <1>1, <2>1, <2>3, SamePlansMade DEF MakingPoints
<1> QED
  BY <1>2, <1>3, <1>4, <1>5, <1>6, <1>7, <1>8, <1>9, <1>10, <1>11, <1>12, <1>13,
     <1>14, <1>15, <1>16, <1>17, <1>18, <1>19 DEF Step

LEMMA NextMade ==
    ASSUME SoundInv, [Next]_vars
    PROVE  UNCHANGED <<rec, acked, pc, local>> \/ \E c \in Call : Looked(c) \/ Made(c)
<1>1. ASSUME NEW c \in Call, Fail(c) PROVE Looked(c)
  BY <1>1 DEF Fail, Looked, Returned
<1>2. ASSUME NEW c \in Call, NEW o \in Ops, CallOperation(c, o) PROVE Looked(c)
  BY <1>2 DEF CallOperation, Looked, Returned
<1> QED
  BY <1>1, <1>2, StepMade DEF Next, Tick, vars

-----------------------------------------------------------------------------
(* One plan operation, or one operation of any kind, at a time *)

\* The calls that have begun and have still to persist do not overlap.
WorkPoints == MakingPoints \cup {"attach"}
Alone == \A c, d \in Call : pc[c] \in WorkPoints /\ pc[d] \in WorkPoints => c = d

\* The copy is then the record on disk, and there is no plan to replace.
AloneInv ==
    /\ \A c \in Call :
          /\ pc[c] \in MakingPoints => local[c] = rec
          /\ pc[c] \in {"attach", "attaching"} => rec.body.agentPlanRevision = 0
    /\ AgentExpansionReviewed
    /\ NoLostEvent

\* Whoever follows an entry with something guarded is a human.
HumansExpand(b) ==
    \A e, f \in b.agentPlanRevisions :
        f.revision = e.revision + 1 /\ Risky(f.plan \ e.plan)
            => f.proposedBy = "human"

\* What is made of a reviewed ledger is one that holds it and is reviewed.
LEMMA LedgerReviewed ==
    ASSUME NEW b \in Body, NEW r \in Body, LedgerSound(b), NEW c \in Call, Reviewed(b, c, r),
           pc[c] = "attaching" => b.agentPlanRevision = 0
    PROVE  /\ b.agentPlanRevisions \subseteq r.agentPlanRevisions
           /\ HumansExpand(b) => HumansExpand(r)
<1> DEFINE n == b.agentPlanRevision
<1>1. n \in Nat /\ \A e \in b.agentPlanRevisions : e.revision \in 1 .. n
  BY DEF Body, LedgerSound
<1>2. CASE r.agentPlanRevisions = b.agentPlanRevisions
  BY <1>2 DEF HumansExpand
<1>3. ASSUME NEW plan \in SUBSET Item, NEW by \in Author,
             r.agentPlanRevisions = b.agentPlanRevisions \cup {Entry(n + 1, c, plan, by)},
             by = "human" \/ ~RequiresHuman(b, plan) \/ n = 0,
             HumansExpand(b)
      PROVE  HumansExpand(r)
  <2> DEFINE new == Entry(n + 1, c, plan, by)
  <2>1. new.revision = n + 1 /\ new.plan = plan /\ new.proposedBy = by
    BY DEF Entry
  <2> HIDE DEF new
  <2>2. r.agentPlanRevisions = b.agentPlanRevisions \cup {new}
    BY <1>3 DEF new
  <2>3. ASSUME NEW e \in b.agentPlanRevisions, new.revision = e.revision + 1,
               Risky(new.plan \ e.plan)
        PROVE  new.proposedBy = "human"
    <3>1. e.revision = n /\ n # 0
      BY <1>1, <2>1, <2>3
    <3>2. e.plan = b.agentPlan
      BY <3>1 DEF LedgerSound
    <3> QED
      BY <1>3, <2>1, <2>3, <3>1, <3>2 DEF RequiresHuman
  <2>4. \A f \in r.agentPlanRevisions : f.revision # new.revision + 1
    BY <1>1, <2>1, <2>2
  <2> QED
    BY <1>3, <2>2, <2>3, <2>4 DEF HumansExpand
<1> QED
  BY <1>2, <1>3 DEF Reviewed

LEMMA AloneNext ==
    ASSUME SoundInv, Alone, AloneInv, [Next]_vars
    PROVE  /\ AloneInv'
           /\ rec.body.agentPlanRevisions \subseteq rec'.body.agentPlanRevisions
<1>1. /\ pc \in [Call -> Points] /\ local \in [Call -> Record]
      /\ rec \in Record /\ rec.body \in Body /\ LedgerSound(rec.body)
  BY DEF SoundInv, TypeOK, Record, PlansSound, PlanSound, Records
<1>2. CASE UNCHANGED <<rec, acked, pc, local>>
  BY <1>2 DEF AloneInv, AgentExpansionReviewed, NoLostEvent
<1>3. ASSUME NEW c \in Call, Looked(c)
      PROVE  /\ AloneInv'
             /\ rec.body.agentPlanRevisions \subseteq rec'.body.agentPlanRevisions
  <2>1. rec' = rec /\ acked' = acked
    BY <1>3 DEF Looked
  <2>2. \A d \in Call : pc'[d] \in MakingPoints => local'[d] = rec
    BY <1>1, <1>3 DEF Looked, AloneInv, MakingPoints, Returned, Goto
  <2>3. \A d \in Call : pc'[d] \in {"attach", "attaching"} => rec.body.agentPlanRevision = 0
    BY <1>1, <1>3 DEF Looked, AloneInv, MakingPoints, Returned, Goto, Copy
  <2> QED
    BY <2>1, <2>2, <2>3 DEF AloneInv, AgentExpansionReviewed, NoLostEvent
<1>4. ASSUME NEW c \in Call, Made(c)
      PROVE  /\ AloneInv'
             /\ rec.body.agentPlanRevisions \subseteq rec'.body.agentPlanRevisions
  <2>1. local[c] = rec /\ (pc[c] = "attaching" => rec.body.agentPlanRevision = 0)
    BY <1>4 DEF Made, AloneInv
  <2>2. PICK r \in Record :
          /\ Makes(c, r)
          /\ Persist(r)
          /\ \/ local' = local /\ \E l \in {"done", "unpoint"} : Goto(c, l)
             \/ local' = [local EXCEPT ![c] = r] /\ Goto(c, "accepted")
    BY <1>4 DEF Made
  <2>3. rec' = r /\ acked' = acked \cup r.body.events
    BY <2>2 DEF Persist
  <2>4. /\ Reviewed(rec.body, c, r.body) /\ r.body \in Body
        /\ rec.body.events \subseteq r.body.events
    BY <2>1, <2>2 DEF Makes, Copy, Record
  <2>5. /\ rec.body.agentPlanRevisions \subseteq r.body.agentPlanRevisions
        /\ HumansExpand(rec.body) => HumansExpand(r.body)
    BY <1>1, <2>1, <2>4, LedgerReviewed
  <2>6. AgentExpansionReviewed' /\ NoLostEvent'
    BY <2>3, <2>4, <2>5 DEF AloneInv, AgentExpansionReviewed, HumansExpand, NoLostEvent
  <2>7. \A d \in Call \ {c} : pc'[d] = pc[d] /\ pc[d] \notin WorkPoints
    BY <1>1, <1>4, <2>2 DEF Alone, Made, WorkPoints, Goto
  <2>8. /\ pc'[c] \in {"done", "unpoint", "accepted"}
        /\ pc'[c] = "accepted" => local'[c] = r
    BY <1>1, <2>2 DEF Goto
  <2> QED
    BY <2>3, <2>5, <2>6, <2>7, <2>8 DEF AloneInv, WorkPoints, MakingPoints
<1> QED
  BY <1>2, <1>3, <1>4, NextMade

LEMMA AloneInit == Init => AloneInv
BY DEF Init, AloneInv, MakingPoints, AgentExpansionReviewed, NoLostEvent, FreshRecord, FreshBody

\* As long as calls do not overlap, no plan version is ever overwritten: that two
\* plan operations work on copies of the same record is the only way to lose one.
THEOREM VersionsKeptAlone == Spec /\ []Alone => PlanVersionsPreserved
<1>1. SoundInv /\ Alone /\ AloneInv /\ [Next]_vars
        => AloneInv' /\ [rec.body.agentPlanRevisions \subseteq rec'.body.agentPlanRevisions]_vars
  BY AloneNext
<1> QED
  BY <1>1, AloneInit, Soundness, PTL DEF Spec, PlanVersionsPreserved

\* Likewise every expansion an agent makes of a plan to what is guarded waits for
\* a human: only an overlap lets one by.
THEOREM ExpansionsReviewedAlone == Spec /\ []Alone => []AgentExpansionReviewed
<1>1. SoundInv /\ Alone /\ AloneInv /\ [Next]_vars => AloneInv'
  BY AloneNext
<1>2. AloneInv => AgentExpansionReviewed
  BY DEF AloneInv
<1> QED
  BY <1>1, <1>2, AloneInit, Soundness, PTL DEF Spec

\* And no event is lost, also by the operations that take no lock.
THEOREM NothingLostAlone == Spec /\ []Alone => []NoLostEvent
<1>1. SoundInv /\ Alone /\ AloneInv /\ [Next]_vars => AloneInv'
  BY AloneNext
<1>2. AloneInv => NoLostEvent
  BY DEF AloneInv
<1> QED
  BY <1>1, <1>2, AloneInit, Soundness, PTL DEF Spec

-----------------------------------------------------------------------------
(* Nobody writes a finished record *)

Untouched == rec.body.status = "finished" => rec' = rec

\* Whatever reads finished replays, and a copy does only when the record does.
ReplayInv ==
    /\ \A c \in Call : local[c].body.status = "finished" => rec.body.status = "finished"
    /\ \A r \in Records : r.body.status = "finished" => ReplayMatches(r)

LEMMA ReplayNext ==
    ASSUME SoundInv, ReplayInv, [Next]_vars, [Untouched]_vars
    PROVE  ReplayInv'
<1>1. /\ local \in [Call -> Record] /\ rec \in Record /\ expired \in SUBSET Call
  BY DEF SoundInv, TypeOK
<1>2. CASE UNCHANGED <<rec, acked, pc, local>>
  BY <1>2 DEF ReplayInv, Records
<1>3. rec.body.status = "finished" => rec' = rec
  BY DEF Untouched, vars
<1>4. ASSUME NEW c \in Call, Looked(c) PROVE ReplayInv'
  <2>1. rec' = rec /\ \A d \in Call : local'[d] = local[d] \/ local'[d] = rec
    BY <1>1, <1>4 DEF Looked
  <2> QED
    BY <2>1 DEF ReplayInv, Records
<1>5. ASSUME NEW c \in Call, Made(c) PROVE ReplayInv'
  <2>1. PICK r \in Record :
          /\ Makes(c, r)
          /\ Persist(r)
          /\ local' = local \/ local' = [local EXCEPT ![c] = r]
    BY <1>5 DEF Made
  <2>2. rec' = r /\ \A d \in Call : local'[d] = local[d] \/ local'[d] = rec'
    BY <1>1, <2>1 DEF Persist
  <2>3. CASE rec.body.status = "finished"
    BY <1>3, <2>2, <2>3 DEF ReplayInv, Records
  <2>4. CASE rec.body.status # "finished"
    <3>1. \A d \in Call : local[d].body.status # "finished"
      BY <2>4 DEF ReplayInv
    <3>2. r.body.status = "finished" => ReplayMatches(r)
      <4>1. Copy(c) \in Body /\ ApprovalSound(Copy(c)) /\ Copy(c).status = "active"
        BY <1>1, <3>1, CopySound DEF Copy, Body
      <4> QED
        BY <1>1, <2>1, <4>1, FinishSound DEF Makes
    <3> QED
      BY <2>1, <2>2, <3>1, <3>2 DEF ReplayInv, Records
  <2> QED
    BY <2>3, <2>4
<1> QED
  BY <1>2, <1>4, <1>5, NextMade

\* A finished record that nobody writes again replays to the hash it was finished
\* with, however its finish interleaved with other calls and whatever they held:
\* only a write after the finish breaks it.
THEOREM FinishedReplaysUntouched == Spec /\ [][Untouched]_vars => []FinishedReplays
<1>1. Init => ReplayInv
  BY DEF Init, ReplayInv, Records, FreshRecord, FreshBody
<1>2. SoundInv /\ ReplayInv /\ [Next]_vars /\ [Untouched]_vars => ReplayInv'
  BY ReplayNext
<1>3. ReplayInv => FinishedReplays
  BY DEF ReplayInv, Records, FinishedReplays
<1> QED
  BY <1>1, <1>2, <1>3, Soundness, PTL DEF Spec
=============================================================================
