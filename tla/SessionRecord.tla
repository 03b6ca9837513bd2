---------------------------- MODULE SessionRecord ----------------------------
(***************************************************************************)
(* The durable record of one governed session                              *)
(* (.neurcode/sessions/<id>.json) and what each operation of               *)
(* packages/governance-runtime/dist/session.js makes of a loaded record    *)
(* before it persists it.  Everything here is a function of the record:    *)
(* when a record is loaded and persisted is the subject of                 *)
(* GovernedSession.                                                        *)
(*                                                                         *)
(* A call of an operation is named by the random id it stamps on what it   *)
(* writes (eventId, proposalId).  Time is the set of the grants whose      *)
(* expiresAt has passed; an operation that takes a time takes such a set.  *)
(***************************************************************************)
EXTENDS Naturals, FiniteSets

CONSTANTS
    Call,     \* the ids of the calls
    Path,     \* approval-required paths the session was blocked on
    Item,     \* what a plan may add: files, globs, a lifted constraint
    Guarded,  \* the items whose addition classifyAgentPlanAmendment rates high
    MaxAdded, \* how many items may be added at once without being rated high: 5
    NoCall,   \* no decision, no lock holder
    NoHash    \* a session without replayHash

ASSUME RecordAssumption == /\ Guarded \subseteq Item
                           /\ MaxAdded \in Nat
                           /\ NoCall \notin Call

Kinds == {"appended", "approved", "revoked", "expired", "obligation_state_changed",
          "plan_captured", "plan_amended", "plan_amendment_proposed",
          "plan_amendment_decision", "plan_frozen", "plan_unfrozen", "session_finish"}

\* Who may propose a plan, and the events of a new revision.
Author == {"agent", "human"}
PlanEvent == {"plan_captured", "plan_amended"}

Grant == [path: Path, id: Call, expires: BOOLEAN, revoked: BOOLEAN, planRevision: Nat]
Event == [type: Kinds, by: Call, of: Call]
Revision == [revision: Nat, id: Call, plan: SUBSET Item, proposedBy: Author]
Proposal == [id: Call, previousRevision: Nat, proposedPlan: SUBSET Item,
             status: {"pending", "accepted", "rejected"},
             decidedBy: Call \cup {NoCall}, appliedRevision: Nat]

\* The record without its replay hash; what the hash is taken of has this shape.
Body == [status: {"active", "finished"},
         approvalGrants: SUBSET Grant,
         approvedPaths: SUBSET Path,
         satisfied: SUBSET Path,
         events: SUBSET Event,
         agentPlan: SUBSET Item,
         agentPlanRevision: Nat,
         agentPlanRevisions: SUBSET Revision,
         allowed: SUBSET Item,
         proposals: SUBSET Proposal,
         planFrozen: {"unset", "true", "false"},
         planFrozenRevision: Nat]

\* A durable record: its body and the body its replayHash was taken of.
Record == [body: Body, replayHash: Body \cup {NoHash}]

\* createSession: no approvals, no plan, never frozen.
FreshBody == [status |-> "active", approvalGrants |-> {}, approvedPaths |-> {},
              satisfied |-> {}, events |-> {}, agentPlan |-> {},
              agentPlanRevision |-> 0, agentPlanRevisions |-> {}, allowed |-> {},
              proposals |-> {}, planFrozen |-> "unset", planFrozenRevision |-> 0]
FreshRecord == [body |-> FreshBody, replayHash |-> NoHash]

Stamp(type, c) == [type |-> type, by |-> c, of |-> c]

-----------------------------------------------------------------------------
(* Approvals *)

\* isApprovalGrantActive, with past the grants whose expiresAt has passed.
IsActive(g, past) == ~g.revoked /\ ~(g.expires /\ g.id \in past)

\* activeApprovalPaths: without any grant the flat list stands for itself.
ActivePaths(b, past) ==
    IF b.approvalGrants = {} THEN b.approvedPaths
    ELSE {g.path : g \in {h \in b.approvalGrants : IsActive(h, past)}}

\* recomputeArchitectureObligations: each path carries one ownership
\* obligation, satisfied by an active approval; a change of any is an event.
Recompute(b, past, c) ==
    [b EXCEPT !.satisfied = ActivePaths(b, past),
              !.events = IF ActivePaths(b, past) = b.satisfied THEN @
                         ELSE @ \cup {Stamp("obligation_state_changed", c)}]

\* appendEvent: no look at the status.
Append(b, c) == [b EXCEPT !.events = @ \cup {Stamp("appended", c)}]

\* Mutant of Approve: an earlier grant of the path stays.
ApproveAgain(b, c, path, expires, past) ==
    LET grant == [path |-> path, id |-> c, expires |-> expires, revoked |-> FALSE,
                  planRevision |-> b.agentPlanRevision]
        granted == [b EXCEPT !.approvalGrants = @ \cup {grant},
                             !.events = @ \cup {Stamp("approved", c)}]
    IN  Recompute([granted EXCEPT !.approvedPaths = ActivePaths(granted, past)], past, c)

\* approveSession: the grants of the same path, revoked ones too, give way.
Approve(b, c, path, expires, past) ==
    LET grant == [path |-> path, id |-> c, expires |-> expires, revoked |-> FALSE,
                  planRevision |-> b.agentPlanRevision]
        granted == [b EXCEPT
            !.approvalGrants = {g \in @ : g.path # path} \cup {grant},
            !.events = @ \cup {Stamp("approved", c)}]
    IN  Recompute([granted EXCEPT !.approvedPaths = ActivePaths(granted, past)], past, c)

\* The grant a revocation names: by requestId, revoked or not, or by path.
RevocationTargets(b, path, request) ==
    IF request # NoCall THEN {g \in b.approvalGrants : g.id = request}
    ELSE {g \in b.approvalGrants : g.path = path /\ ~g.revoked}

\* revokeSessionApproval of one target: a second revocation only recomputes.
Revoke(b, c, target, past) ==
    LET revoked == IF target.revoked THEN b ELSE
            [b EXCEPT
                !.approvalGrants = (@ \ {target}) \cup {[target EXCEPT !.revoked = TRUE]},
                !.events = @ \cup {[type |-> "revoked", by |-> c, of |-> target.id]}]
    IN  Recompute([revoked EXCEPT !.approvedPaths = ActivePaths(revoked, past)], past, c)

\* expireSessionApprovals: the expiries not yet in the trail are recorded.
ExpiredGrants(b, past) ==
    {g \in b.approvalGrants : g.expires /\ ~g.revoked /\ g.id \in past}

ExpiryRecorded(b, g) == \E e \in b.events : e.type = "expired" /\ e.of = g.id

\* Without grants, or with nothing expired and the flat list up to date, the
\* call returns what it loaded and writes nothing.
NothingToExpire(b, past) ==
    \/ b.approvalGrants = {}
    \/ ExpiredGrants(b, past) = {} /\ ActivePaths(b, past) = b.approvedPaths

Expire(b, c, past) ==
    LET unrecorded == {g \in ExpiredGrants(b, past) : ~ExpiryRecorded(b, g)}
        marked == [b EXCEPT
            !.events = @ \cup {[type |-> "expired", by |-> c, of |-> g.id] : g \in unrecorded},
            !.approvedPaths = ActivePaths(b, past)]
    IN  Recompute(marked, past, c)

-----------------------------------------------------------------------------
(* Plans *)

\* classifyAgentPlanAmendment(...).requiresHumanApproval.  It counts added files only;
\* what else may be added is guarded.
Risky(added) == added \cap Guarded # {} \/ Cardinality(added) > MaxAdded
RequiresHuman(b, plan) == Risky(plan \ b.agentPlan)

\* The ledger entry a call makes.
Entry(revision, c, plan, by) ==
    [revision |-> revision, id |-> c, plan |-> plan, proposedBy |-> by]

\* recordAgentPlanRevision, its recompute and expandSessionScope.
RecordRevision(b, c, plan, by, type, past) ==
    LET revision == b.agentPlanRevision + 1
        kept == {e \in b.agentPlanRevisions : e.revision < revision}
        planned == [b EXCEPT !.agentPlan = plan,
                             !.agentPlanRevision = revision,
                             !.agentPlanRevisions = kept \cup {Entry(revision, c, plan, by)},
                             !.events = @ \cup {Stamp(type, c)}]
    IN  [Recompute(planned, past, c) EXCEPT !.allowed = @ \cup plan]

\* attachAgentPlan: the first plan is captured, a later one replaces it.
Attach(b, c, plan, past) ==
    RecordRevision(b, c, plan, "agent",
                   IF b.agentPlanRevision > 0 THEN "plan_amended" ELSE "plan_captured", past)

\* createPendingPlanProposal: one pending proposal per revision and plan.
Propose(b, c, plan) ==
    LET pending == {q \in b.proposals : /\ q.status = "pending"
                                        /\ q.previousRevision = b.agentPlanRevision
                                        /\ q.proposedPlan = plan}
        proposal == [id |-> c, previousRevision |-> b.agentPlanRevision,
                     proposedPlan |-> plan, status |-> "pending",
                     decidedBy |-> NoCall, appliedRevision |-> 0]
    IN  IF pending # {} THEN b   \* returned as it is, nothing persisted
        ELSE [b EXCEPT !.proposals = @ \cup {proposal},
                       !.events = @ \cup {Stamp("plan_amendment_proposed", c)}]

\* applyOrProposeAgentPlan
ApplyOrPropose(b, c, plan, by, past) ==
    IF by = "agent" /\ RequiresHuman(b, plan) THEN Propose(b, c, plan)
    ELSE RecordRevision(b, c, plan, by, "plan_amended", past)

\* decideAgentPlanAmendment, reject
Reject(b, c, q) ==
    [b EXCEPT !.proposals = (@ \ {q}) \cup {[q EXCEPT !.status = "rejected", !.decidedBy = c]},
              !.events = @ \cup {[type |-> "plan_amendment_decision", by |-> c, of |-> q.id]}]

\* Mutant of Accept: the status is persisted before the plan is applied.
AcceptStatusFirst(b, c, q, past) ==
    [b EXCEPT !.proposals = (@ \ {q}) \cup {[q EXCEPT !.status = "accepted", !.decidedBy = c]}]

\* decideAgentPlanAmendment, accept: what recordAgentPlanRevision persists ...
Accept(b, c, q, past) ==
    LET decided == [b EXCEPT
            !.proposals = (@ \ {q}) \cup {[q EXCEPT !.status = "accepted", !.decidedBy = c]}]
    IN  RecordRevision(decided, c, q.proposedPlan, "human", "plan_amended", past)

\* ... and what is persisted once the revision is known.
RecordAcceptance(b, c) ==
    LET q == CHOOSE q \in b.proposals : q.status = "accepted" /\ q.decidedBy = c
    IN  [b EXCEPT
            !.proposals = (@ \ {q}) \cup {[q EXCEPT !.appliedRevision = b.agentPlanRevision]},
            !.events = @ \cup {[type |-> "plan_amendment_decision", by |-> c, of |-> q.id]}]

\* Mutant of SetFrozen: the flag is written in the words of the event.
SetFrozenInWords(b, c, frozen) ==
    [b EXCEPT !.planFrozen = IF frozen THEN "frozen" ELSE "unfrozen",
              !.events = @ \cup {Stamp(IF frozen THEN "plan_frozen" ELSE "plan_unfrozen", c)}]

\* setPlanFrozen
SetFrozen(b, c, frozen) ==
    IF b.planFrozen = (IF frozen THEN "true" ELSE "false") THEN b
    ELSE [b EXCEPT !.planFrozen = IF frozen THEN "true" ELSE "false",
                   !.planFrozenRevision = IF frozen THEN b.agentPlanRevision ELSE @,
                   !.events = @ \cup {Stamp(IF frozen THEN "plan_frozen" ELSE "plan_unfrozen", c)}]

-----------------------------------------------------------------------------
(* Finish and replay *)

\* The canonical form of a body: its contract and the given events.
Canonical(b, events) == [b EXCEPT !.status = "active", !.events = events]

\* Mutant of Finish: the hash is taken before the obligations are recomputed.
FinishHashFirst(b, c, past) ==
    LET done == Recompute([b EXCEPT !.status = "finished"], past, c)
    IN  [body |-> [done EXCEPT !.events = @ \cup {Stamp("session_finish", c)}],
         replayHash |-> Canonical(b, b.events)]

\* finishSession: the hash is of every event so far; the finish comes after.
Finish(b, c, past) ==
    LET done == Recompute([b EXCEPT !.status = "finished"], past, c)
    IN  [body |-> [done EXCEPT !.events = @ \cup {Stamp("session_finish", c)}],
         replayHash |-> Canonical(done, done.events)]

\* replaySession(...).matchesOriginal
ReplayMatches(r) ==
    r.replayHash = Canonical(r.body, {e \in r.body.events : e.type # "session_finish"})

-----------------------------------------------------------------------------
(***************************************************************************)
(* What every record on disk satisfies, whoever wrote it last              *)
(***************************************************************************)

\* A path in the flat list of approvals has a grant that was not revoked.
ApprovedBacked(b) ==
    \A p \in b.approvedPaths : \E g \in b.approvalGrants : g.path = p /\ ~g.revoked

\* The grants agree with the trail: each has its approval event, and it is
\* revoked exactly when the trail says so; no path and no id has two grants.
TrailMatchesGrants(b) ==
    /\ \A g \in b.approvalGrants :
          /\ Stamp("approved", g.id) \in b.events
          /\ g.revoked <=> \E e \in b.events : e.type = "revoked" /\ e.of = g.id
    /\ \A g, h \in b.approvalGrants : g.path = h.path \/ g.id = h.id => g = h

\* An expiry is in the trail once, however often the clean-up ran.
ExpiryRecordedOnce(b) ==
    \A e, f \in b.events : e.type = "expired" /\ f.type = "expired" /\ e.of = f.of => e = f

\* Revisions are numbered 1, 2, ... without a gap or a double, the active plan
\* is the last one, and the scope has grown by every plan that was active.
LedgerSound(b) ==
    /\ \A e \in b.agentPlanRevisions : e.revision \in 1 .. b.agentPlanRevision
    /\ \A n \in 1 .. b.agentPlanRevision : \E e \in b.agentPlanRevisions : e.revision = n
    /\ \A e, f \in b.agentPlanRevisions : e.revision = f.revision => e = f
    /\ \A e \in b.agentPlanRevisions :
          /\ e.plan \subseteq b.allowed
          /\ e.revision = b.agentPlanRevision => e.plan = b.agentPlan

\* A proposal that reads accepted has its plan in the ledger, in the revision
\* its decider made; one that is not accepted was never applied.
AcceptanceApplied(b) ==
    \A q \in b.proposals :
        IF q.status = "accepted"
        THEN \E e \in b.agentPlanRevisions :
                /\ e.id = q.decidedBy
                /\ e.plan = q.proposedPlan
                /\ q.appliedRevision \in {0, e.revision}
        ELSE q.appliedRevision = 0

\* A frozen plan was frozen at a revision of the ledger (or before any plan).
FrozenAtKnownRevision(b) == b.planFrozenRevision <= b.agentPlanRevision

\* The finish event and the status belong together.
FinishInTrail(b) ==
    b.status = "active" => \A e \in b.events : e.type # "session_finish"

ApprovalSound(b) == /\ ApprovedBacked(b)
                    /\ TrailMatchesGrants(b)
                    /\ ExpiryRecordedOnce(b)
                    /\ FinishInTrail(b)

PlanSound(b) == /\ LedgerSound(b)
                /\ AcceptanceApplied(b)
                /\ FrozenAtKnownRevision(b)

\* No trace of a call in a record.
Unmentioned(b, c) == /\ \A e \in b.events : e.by # c /\ e.of # c
                     /\ \A g \in b.approvalGrants : g.id # c
                     /\ \A e \in b.agentPlanRevisions : e.id # c
                     /\ \A q \in b.proposals : q.id # c /\ q.decidedBy # c
=============================================================================
