--------------------------- MODULE GovernedSession ---------------------------
(***************************************************************************)
(* One governed session and the processes that change it: hook processes,  *)
(* CLI commands and the runtime daemon call the operations of              *)
(* packages/governance-runtime/dist/session.js on the same record.         *)
(*                                                                         *)
(* Every operation loads the record, changes its own copy and replaces the *)
(* file with it.  Most run between the acquisition and the release of the  *)
(* session's mutation lock; attachAgentPlan, captureAgentPlan,             *)
(* amendAgentPlan and decideAgentPlanAmendment take no lock.  setPlanFrozen *)
(* looks at the status before it takes the lock, and not again under it.   *)
(*                                                                         *)
(* The lock is one that excludes (SessionLock proves when it does): its    *)
(* holder may die, after which it is reclaimed, or is orphaned for ever    *)
(* when the holder died while it made or removed the directory.            *)
(***************************************************************************)
EXTENDS SessionRecord

CONSTANTS
    Ops,       \* the operations the calls may be
    Crashable  \* the calls whose process may die, or whose write may fail

Unlocked == {"capture", "amend", "decide"}
Freezing == {"freeze", "unfreeze"}
Locked == {"append", "approve", "revoke", "expire", "refresh", "finish"} \cup Freezing

ASSUME SessionAssumption == /\ Ops \subseteq Locked \cup Unlocked
                            /\ Crashable \subseteq Call

VARIABLES
    rec,      \* .neurcode/sessions/<id>.json
    pointed,  \* does the active pointer name this session?
    lock,     \* the holder of the session's mutation lock, NoCall when free
    pc,       \* the point each call has reached
    op,       \* the operation each call is
    local,    \* the copy of the record each call works on
    asof,     \* the grants expired at the time each call was made
    expired,  \* the grants whose expiresAt has passed
    acked     \* history: the events of every record that was ever persisted

vars == <<rec, pointed, lock, pc, op, local, asof, expired, acked>>

Points == { "idle",
            "called",    \* about to take the lock, or to load without it
            "loaded",    \* has its copy
            "attach",    \* captureAgentPlan found no plan, attachAgentPlan is next
            "attaching", \* attachAgentPlan has loaded its own copy
            "accepted",  \* persisted the accepted plan, not yet the decision
            "unpoint",   \* finished the record, the pointer is next
            "done", "refused", "failed" }

Returned == {"done", "refused", "failed"}

TypeOK == /\ rec \in Record
          /\ pointed \in BOOLEAN
          /\ lock \in Call \cup {NoCall}
          /\ pc \in [Call -> Points]
          /\ op \in [Call -> Locked \cup Unlocked \cup {"none"}]
          /\ local \in [Call -> Record]
          /\ asof \in [Call -> SUBSET Call]
          /\ expired \in SUBSET Call
          /\ acked \in SUBSET Event

Init == /\ rec = FreshRecord
        /\ pointed = TRUE
        /\ lock = NoCall
        /\ pc = [c \in Call |-> "idle"]
        /\ op = [c \in Call |-> "none"]
        /\ local = [c \in Call |-> FreshRecord]
        /\ asof = [c \in Call |-> {}]
        /\ expired = {}
        /\ acked = {}

Goto(c, l) == pc' = [pc EXCEPT ![c] = l]

\* persistSession: the whole file becomes the caller's copy.
Persist(r) == /\ rec' = r
              /\ acked' = acked \cup r.body.events

Unchanged == UNCHANGED <<rec, acked>>

\* The call returns; under the lock its finally block releases it.
Return(c, l) == /\ Goto(c, l)
                /\ lock' = IF op[c] \in Locked THEN NoCall ELSE lock

-----------------------------------------------------------------------------
(* Calls, the lock, time and failures *)

\* A process calls an operation.  setPlanFrozen checks the status right away.
CallOperation(c, o) ==
    /\ pc[c] = "idle"
    /\ op' = [op EXCEPT ![c] = o]
    /\ asof' = [asof EXCEPT ![c] = expired]
    /\ Goto(c, IF o \in Freezing /\ rec.body.status # "active" THEN "refused" ELSE "called")
    /\ UNCHANGED <<rec, pointed, lock, local, expired, acked>>

\* Mutant of Acquire: the lock is taken without waiting for it to be free.
AcquireHeld(c) ==
    /\ pc[c] = "called"
    /\ op[c] \in Locked
    /\ lock' = c
    /\ local' = [local EXCEPT ![c] = rec]
    /\ Goto(c, "loaded")
    /\ UNCHANGED <<rec, pointed, op, asof, expired, acked>>

\* withSessionEventLock succeeds and the operation loads the record.
Acquire(c) ==
    /\ pc[c] = "called"
    /\ op[c] \in Locked
    /\ lock = NoCall
    /\ lock' = c
    /\ local' = [local EXCEPT ![c] = rec]
    /\ Goto(c, "loaded")
    /\ UNCHANGED <<rec, pointed, op, asof, expired, acked>>

\* Mutant of TimeOut: a call waits for the lock for ever.
TimeOutNever(c) == pc[c] = "timed out" /\ UNCHANGED vars

\* withSessionEventLock throws at its deadline.
TimeOut(c) ==
    /\ pc[c] = "called"
    /\ op[c] \in Locked
    /\ lock # NoCall
    /\ Goto(c, "refused")
    /\ UNCHANGED <<rec, pointed, lock, op, local, asof, expired, acked>>

\* The plan operations load without a lock; amendAgentPlan and
\* decideAgentPlanAmendment stamp the time once they have loaded.
Load(c) ==
    /\ pc[c] = "called"
    /\ op[c] \in Unlocked
    /\ local' = [local EXCEPT ![c] = rec]
    /\ asof' = IF op[c] = "capture" THEN asof ELSE [asof EXCEPT ![c] = expired]
    /\ Goto(c, "loaded")
    /\ UNCHANGED <<rec, pointed, lock, op, expired, acked>>

\* The expiresAt of a grant passes.
Tick == \E g \in rec.body.approvalGrants :
    /\ g.expires
    /\ g.id \notin expired
    /\ expired' = expired \cup {g.id}
    /\ UNCHANGED <<rec, pointed, lock, pc, op, local, asof, acked>>

\* The process dies, or its write fails (atomicWriteFileSync leaves the old
\* file), or the lock of the pointer is not to be had (clearActiveSession
\* throws and the pointer stays).  A lock that was being made or removed is
\* orphaned, any other is released or reclaimed.
Fail(c) ==
    /\ c \in Crashable
    /\ pc[c] \notin Returned \cup {"idle"}
    /\ Goto(c, "failed")
    /\ lock' \in IF lock = c THEN {NoCall, c}
                 ELSE IF lock = NoCall /\ pc[c] = "called" /\ op[c] \in Locked THEN {NoCall, c}
                 ELSE {lock}
    /\ UNCHANGED <<rec, pointed, op, local, asof, expired, acked>>

-----------------------------------------------------------------------------
(* The operations under the lock *)

Running(c, o) == pc[c] = "loaded" /\ op[c] = o

Copy(c) == local[c].body

\* Persists the copy of c with this body and returns.
Save(c, b) == /\ Persist([local[c] EXCEPT !.body = b])
              /\ Return(c, "done")

Kept == UNCHANGED <<pointed, op, local, asof, expired>>

AppendEvent(c) ==
    /\ Running(c, "append")
    /\ Save(c, Append(Copy(c), c))
    /\ Kept

\* Mutant of ApproveSession: the status is not looked at under the lock.
ApproveFinished(c) ==
    /\ Running(c, "approve")
    /\ \E path \in Path, ttl \in {"none", "zero", "some"} :
          LET now == IF ttl = "zero" THEN expired \cup {c} ELSE expired IN
          /\ expired' = now
          /\ Save(c, Approve(Copy(c), c, path, ttl # "none", now))
    /\ UNCHANGED <<pointed, op, local, asof>>

\* A grant whose ttl is zero has expired when it is made.
ApproveSession(c) ==
    /\ Running(c, "approve")
    /\ Copy(c).status = "active"
    /\ \E path \in Path, ttl \in {"none", "zero", "some"} :
          LET now == IF ttl = "zero" THEN expired \cup {c} ELSE expired IN
          /\ expired' = now
          /\ Save(c, Approve(Copy(c), c, path, ttl # "none", now))
    /\ UNCHANGED <<pointed, op, local, asof>>

RevokeSessionApproval(c) ==
    /\ Running(c, "revoke")
    /\ Copy(c).status = "active"
    /\ \E path \in Path, request \in Call \cup {NoCall} :
          \E target \in RevocationTargets(Copy(c), path, request) :
             Save(c, Revoke(Copy(c), c, target, expired))
    /\ Kept

\* The session is finished, or no grant is the one to revoke: the call throws.
Refuse(c) ==
    /\ pc[c] = "loaded"
    /\ \/ op[c] \in {"approve", "revoke", "amend", "decide"} /\ Copy(c).status # "active"
       \/ op[c] = "revoke" /\ \E path \in Path, request \in Call \cup {NoCall} :
                                 RevocationTargets(Copy(c), path, request) = {}
       \/ op[c] = "decide" /\ \E id \in Call : \A q \in Copy(c).proposals :
                                 q.id # id \/ q.status # "pending"
    /\ Return(c, "refused")
    /\ Unchanged
    /\ Kept

\* expireSessionApprovals, with the time of the call.
ExpireSessionApprovals(c) ==
    /\ Running(c, "expire")
    /\ IF NothingToExpire(Copy(c), asof[c])
       THEN Unchanged /\ Return(c, "done")
       ELSE Save(c, Expire(Copy(c), c, asof[c]))
    /\ Kept

\* refreshArchitectureObligations, with the time of the call.
RefreshObligations(c) ==
    /\ Running(c, "refresh")
    /\ Save(c, Recompute(Copy(c), asof[c], c))
    /\ Kept

\* Mutant of FinishSession: the pointer goes before the record is persisted.
FinishUnpointsFirst(c) ==
    /\ Running(c, "finish")
    /\ pointed' = FALSE
    /\ Goto(c, "unpoint")
    /\ UNCHANGED <<rec, acked, lock, op, local, asof, expired>>

\* finishSession up to persistSession; the status is not looked at.
FinishSession(c) ==
    /\ Running(c, "finish")
    /\ Persist(Finish(Copy(c), c, expired))
    /\ Goto(c, "unpoint")
    /\ UNCHANGED <<pointed, lock, op, local, asof, expired>>

\* clearActiveSession, still under the session's lock.
ClearActiveSession(c) ==
    /\ pc[c] = "unpoint"
    /\ pointed' = FALSE
    /\ Return(c, "done")
    /\ Unchanged
    /\ UNCHANGED <<op, local, asof, expired>>

\* setPlanFrozen under the lock: the status is not looked at again.
SetPlanFrozen(c) ==
    /\ pc[c] = "loaded"
    /\ op[c] \in Freezing
    /\ IF Copy(c).planFrozen = (IF op[c] = "freeze" THEN "true" ELSE "false")
       THEN Unchanged /\ Return(c, "done")
       ELSE Save(c, SetFrozen(Copy(c), c, op[c] = "freeze"))
    /\ Kept

-----------------------------------------------------------------------------
(* The plan operations, without the lock *)

\* Persists unless the result is the copy itself (a pending proposal found).
SaveChanged(c, b) == IF b = Copy(c) THEN Unchanged /\ Return(c, "done") ELSE Save(c, b)

\* captureAgentPlan: no status check.  Without a plan it leaves the rest to
\* attachAgentPlan; the same plan again changes nothing.
CaptureAgentPlan(c) ==
    /\ Running(c, "capture")
    /\ IF Copy(c).agentPlanRevision = 0
       THEN Goto(c, "attach") /\ Unchanged /\ UNCHANGED lock
       ELSE \E plan \in SUBSET Item :
               IF plan = Copy(c).agentPlan
               THEN Unchanged /\ Return(c, "done")
               ELSE SaveChanged(c, ApplyOrPropose(Copy(c), c, plan, "agent", asof[c]))
    /\ Kept

\* attachAgentPlan loads the record again ...
LoadForAttach(c) ==
    /\ pc[c] = "attach"
    /\ local' = [local EXCEPT ![c] = rec]
    /\ Goto(c, "attaching")
    /\ UNCHANGED <<rec, pointed, lock, op, asof, expired, acked>>

\* ... and makes the plan the active one, whatever it found.
AttachAgentPlan(c) ==
    /\ pc[c] = "attaching"
    /\ \E plan \in SUBSET Item : Save(c, Attach(Copy(c), c, plan, asof[c]))
    /\ Kept

\* amendAgentPlan: proposedBy is human unless the caller says agent.
AmendAgentPlan(c) ==
    /\ Running(c, "amend")
    /\ Copy(c).status = "active"
    /\ \E plan \in SUBSET Item, by \in Author :
          SaveChanged(c, ApplyOrPropose(Copy(c), c, plan, by, asof[c]))
    /\ Kept

\* decideAgentPlanAmendment: a rejection is persisted at once, an acceptance
\* first with the new revision and then with the decision.
DecideAgentPlanAmendment(c) ==
    /\ Running(c, "decide")
    /\ Copy(c).status = "active"
    /\ \E q \in Copy(c).proposals :
          /\ q.status = "pending"
          /\ \/ /\ Save(c, Reject(Copy(c), c, q))
                /\ UNCHANGED local
             \/ LET accepted == [local[c] EXCEPT !.body = Accept(@, c, q, asof[c])] IN
                /\ Persist(accepted)
                /\ local' = [local EXCEPT ![c] = accepted]
                /\ Goto(c, "accepted")
                /\ UNCHANGED lock
    /\ UNCHANGED <<pointed, op, asof, expired>>

RecordDecision(c) ==
    /\ pc[c] = "accepted"
    /\ Save(c, RecordAcceptance(Copy(c), c))
    /\ Kept

-----------------------------------------------------------------------------

Step(c) == \/ Acquire(c) \/ TimeOut(c) \/ Load(c)
           \/ AppendEvent(c) \/ ApproveSession(c) \/ RevokeSessionApproval(c)
           \/ Refuse(c) \/ ExpireSessionApprovals(c) \/ RefreshObligations(c)
           \/ FinishSession(c) \/ ClearActiveSession(c) \/ SetPlanFrozen(c)
           \/ CaptureAgentPlan(c) \/ LoadForAttach(c) \/ AttachAgentPlan(c)
           \/ AmendAgentPlan(c) \/ DecideAgentPlanAmendment(c) \/ RecordDecision(c)

Next == \/ \E c \in Call : Step(c) \/ Fail(c) \/ \E o \in Ops : CallOperation(c, o)
        \/ Tick

Spec == Init /\ [][Next]_vars

\* A process that is scheduled goes on.  Nobody has to call anything.
FairSpec == Spec /\ \A c \in Call : WF_vars(Step(c))
-----------------------------------------------------------------------------
(***************************************************************************)
(* Properties of every mix of operations                                   *)
(***************************************************************************)

\* The record on disk and the copies about to replace it.
Records == {rec} \cup {local[c] : c \in Call}

\* Whatever the interleaving and whoever overwrites whom, the approvals of a
\* record agree with its own audit trail: an approved path has a grant that
\* nobody revoked, a grant has its approval event, a revoked one its
\* revocation, a path has one grant, an expiry is recorded once, and a record
\* that reads active holds no finish event.
ApprovalsSound == \A r \in Records : ApprovalSound(r.body)

\* Likewise its plans: revisions without gap or double, the active plan is the
\* last revision and within the scope, an accepted proposal has its plan in
\* the ledger even when its decider died half way.
PlansSound == \A r \in Records : PlanSound(r.body)

\* A call that finishes a copy that reads active leaves a record that replays
\* to its own hash, though its recompute changes the contract and its finish
\* event comes after the hash.
FirstFinishReplays ==
    [][\A c \in Call : /\ pc[c] = "loaded" /\ pc'[c] = "unpoint"
                       /\ local[c].body.status = "active"
                       => ReplayMatches(rec')]_vars

\* Every call that was made returns, whoever dies holding the lock.
EveryCallReturns == \A c \in Call : pc[c] = "called" ~> pc[c] \in Returned

-----------------------------------------------------------------------------
(***************************************************************************)
(* Properties of the operations under the lock                             *)
(***************************************************************************)

\* An event once persisted is never lost to the write of another call.
NoLostEvent == acked \subseteq rec.body.events

\* A finished session stays finished, and its grants stay what they were.
FinishIsFinal ==
    [][rec.body.status = "finished" => /\ rec'.body.status = "finished"
                                       /\ rec'.body.approvalGrants = rec.body.approvalGrants]_vars

\* A revoked grant stays revoked until a new approval of its path takes its
\* place; no concurrent clean-up or append brings it back.
RevocationIsFinal ==
    [][\A g \in rec.body.approvalGrants :
          g.revoked => \/ g \in rec'.body.approvalGrants
                       \/ \E h \in rec'.body.approvalGrants \ rec.body.approvalGrants :
                             h.path = g.path /\ ~h.revoked]_vars

\* The active pointer is cleared only once the finished record is durable, and
\* a finish that returned has cleared it.
PointerFollowsFinish ==
    /\ ~pointed => rec.body.status = "finished"
    /\ \A c \in Call : op[c] = "finish" /\ pc[c] = "done" => ~pointed

\* What the operations under the lock amount to: each takes effect at once.
Atomic == INSTANCE AtomicSession WITH rec <- rec, pointed <- pointed, expired <- expired
AtomicSpec == Atomic!Spec

-----------------------------------------------------------------------------
(***************************************************************************)
(* What the documentation says and the code does not do                    *)
(***************************************************************************)

\* buildPlanTimeline: "Every plan version (never overwritten; older revisions
\* are preserved)".
PlanVersionsPreserved ==
    [][rec.body.agentPlanRevisions \subseteq rec'.body.agentPlanRevisions]_vars

\* captureAgentPlan: after the initial plan, "risky agent-authored expansions
\* remain pending until a human decides".
AgentExpansionReviewed ==
    \A e, f \in rec.body.agentPlanRevisions :
        f.revision = e.revision + 1 /\ Risky(f.plan \ e.plan)
            => f.proposedBy = "human"

\* A finished session replays to the hash it was finished with.
FinishedReplays == rec.body.status = "finished" => ReplayMatches(rec)
=============================================================================
