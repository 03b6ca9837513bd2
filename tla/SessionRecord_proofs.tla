------------------------ MODULE SessionRecord_proofs ------------------------
(***************************************************************************)
(* What the operations make of a record, for every record: they return a   *)
(* record, and a sound one from a sound one.                               *)
(***************************************************************************)
EXTENDS SessionRecord, TLAPS

-----------------------------------------------------------------------------
(* Types *)

\* A recompute returns a body: only satisfied and the trail change.
LEMMA RecomputeType ==
    ASSUME NEW b \in Body, NEW c \in Call, NEW past \in SUBSET Call
    PROVE  Recompute(b, past, c) \in Body
<1>1. ActivePaths(b, past) \in SUBSET Path
  BY DEF ActivePaths, IsActive, Body, Grant
<1>2. Stamp("obligation_state_changed", c) \in Event
  BY DEF Stamp, Event, Kinds
<1> QED
  BY <1>1, <1>2 DEF Recompute, Body

\* Every stamp is an event.
LEMMA StampType ==
    ASSUME NEW type \in Kinds, NEW c \in Call
    PROVE  Stamp(type, c) \in Event
BY DEF Stamp, Event

\* The approved paths are paths.
LEMMA ActivePathsType ==
    ASSUME NEW b \in Body, NEW past \in SUBSET Call
    PROVE  ActivePaths(b, past) \in SUBSET Path
BY DEF ActivePaths, IsActive, Body, Grant

LEMMA AppendType ==
    ASSUME NEW b \in Body, NEW c \in Call
    PROVE  Append(b, c) \in Body
BY StampType DEF Append, Body, Kinds

LEMMA ApproveType ==
    ASSUME NEW b \in Body, NEW c \in Call, NEW path \in Path, NEW expires \in BOOLEAN,
           NEW past \in SUBSET Call
    PROVE  Approve(b, c, path, expires, past) \in Body
<1> DEFINE grant == [path |-> path, id |-> c, expires |-> expires, revoked |-> FALSE,
                     planRevision |-> b.agentPlanRevision]
           granted == [b EXCEPT
              !.approvalGrants = {g \in @ : g.path # path} \cup {grant},
              !.events = @ \cup {Stamp("approved", c)}]
           marked == [granted EXCEPT !.approvedPaths = ActivePaths(granted, past)]
<1>1. grant \in Grant
  BY DEF Grant, Body
<1>2. Stamp("approved", c) \in Event
  BY StampType DEF Kinds
<1>3. granted \in Body
  BY <1>1, <1>2 DEF Body
<1>4. ActivePaths(granted, past) \in SUBSET Path
  BY <1>3, ActivePathsType
<1>5. marked \in Body
  BY <1>3, <1>4 DEF Body
<1>6. Approve(b, c, path, expires, past) = Recompute(marked, past, c)
  BY DEF Approve
<1> QED
  BY <1>5, <1>6, RecomputeType

LEMMA RevokeType ==
    ASSUME NEW b \in Body, NEW c \in Call, NEW target \in b.approvalGrants,
           NEW past \in SUBSET Call
    PROVE  Revoke(b, c, target, past) \in Body
<1> DEFINE revoked == IF target.revoked THEN b ELSE
            [b EXCEPT
                !.approvalGrants = (@ \ {target}) \cup {[target EXCEPT !.revoked = TRUE]},
                !.events = @ \cup {[type |-> "revoked", by |-> c, of |-> target.id]}]
           marked == [revoked EXCEPT !.approvedPaths = ActivePaths(revoked, past)]
<1>1. target \in Grant
  BY DEF Body
<1>2. [target EXCEPT !.revoked = TRUE] \in Grant
  BY <1>1 DEF Grant
<1>3. [type |-> "revoked", by |-> c, of |-> target.id] \in Event
  BY <1>1 DEF Grant, Event, Kinds
<1>4. revoked \in Body
  BY <1>2, <1>3 DEF Body
<1>5. marked \in Body
  BY <1>4, ActivePathsType DEF Body
<1>6. Revoke(b, c, target, past) = Recompute(marked, past, c)
  BY DEF Revoke
<1> QED
  BY <1>5, <1>6, RecomputeType

LEMMA ExpireType ==
    ASSUME NEW b \in Body, NEW c \in Call, NEW past \in SUBSET Call
    PROVE  Expire(b, c, past) \in Body
<1> DEFINE unrecorded == {g \in ExpiredGrants(b, past) : ~ExpiryRecorded(b, g)}
           new == {[type |-> "expired", by |-> c, of |-> g.id] : g \in unrecorded}
           marked == [b EXCEPT !.events = @ \cup new, !.approvedPaths = ActivePaths(b, past)]
<1>1. unrecorded \subseteq Grant
  BY DEF ExpiredGrants, Body
<1>2. new \subseteq Event
  BY <1>1 DEF Grant, Event, Kinds
<1>3. marked \in Body
  BY <1>2, ActivePathsType DEF Body
<1>4. Expire(b, c, past) = Recompute(marked, past, c)
  BY DEF Expire
<1> QED
  BY <1>3, <1>4, RecomputeType

LEMMA RecordRevisionType ==
    ASSUME NEW b \in Body, NEW c \in Call, NEW plan \in SUBSET Item,
           NEW by \in Author, NEW type \in Kinds, NEW past \in SUBSET Call
    PROVE  RecordRevision(b, c, plan, by, type, past) \in Body
<1> DEFINE revision == b.agentPlanRevision + 1
           kept == {e \in b.agentPlanRevisions : e.revision < revision}
           entry == Entry(revision, c, plan, by)
           planned == [b EXCEPT !.agentPlan = plan,
                             !.agentPlanRevision = revision,
                             !.agentPlanRevisions = kept \cup {entry},
                             !.events = @ \cup {Stamp(type, c)}]
<1>1. revision \in Nat
  BY DEF Body
<1>2. entry \in Revision
  BY <1>1 DEF Revision, Entry
<1>3. planned \in Body
  BY <1>1, <1>2, StampType DEF Body
<1>4. Recompute(planned, past, c) \in Body
  BY <1>3, RecomputeType
<1>5. RecordRevision(b, c, plan, by, type, past)
        = [Recompute(planned, past, c) EXCEPT !.allowed = @ \cup plan]
  BY DEF RecordRevision
<1> HIDE DEF planned
<1> QED
  BY <1>4, <1>5 DEF Body

LEMMA AttachType ==
    ASSUME NEW b \in Body, NEW c \in Call, NEW plan \in SUBSET Item, NEW past \in SUBSET Call
    PROVE  Attach(b, c, plan, past) \in Body
BY RecordRevisionType DEF Attach, Kinds, Author

LEMMA ProposeType ==
    ASSUME NEW b \in Body, NEW c \in Call, NEW plan \in SUBSET Item
    PROVE  Propose(b, c, plan) \in Body
<1> DEFINE proposal == [id |-> c, previousRevision |-> b.agentPlanRevision,
                     proposedPlan |-> plan, status |-> "pending",
                     decidedBy |-> NoCall, appliedRevision |-> 0]
<1>1. proposal \in Proposal
  BY DEF Proposal, Body
<1>2. Stamp("plan_amendment_proposed", c) \in Event
  BY StampType DEF Kinds
<1> QED
  BY <1>1, <1>2 DEF Propose, Body

LEMMA ApplyOrProposeType ==
    ASSUME NEW b \in Body, NEW c \in Call, NEW plan \in SUBSET Item,
           NEW by \in Author, NEW past \in SUBSET Call
    PROVE  ApplyOrPropose(b, c, plan, by, past) \in Body
BY ProposeType, RecordRevisionType DEF ApplyOrPropose, Kinds, Author

LEMMA RejectType ==
    ASSUME NEW b \in Body, NEW c \in Call, NEW q \in b.proposals
    PROVE  Reject(b, c, q) \in Body
<1>1. q \in Proposal
  BY DEF Body
<1>2. [q EXCEPT !.status = "rejected", !.decidedBy = c] \in Proposal
  BY <1>1 DEF Proposal
<1>3. [type |-> "plan_amendment_decision", by |-> c, of |-> q.id] \in Event
  BY <1>1 DEF Proposal, Event, Kinds
<1> QED
  BY <1>2, <1>3 DEF Reject, Body

LEMMA AcceptType ==
    ASSUME NEW b \in Body, NEW c \in Call, NEW q \in b.proposals, NEW past \in SUBSET Call
    PROVE  Accept(b, c, q, past) \in Body
<1> DEFINE decided == [b EXCEPT
            !.proposals = (@ \ {q}) \cup {[q EXCEPT !.status = "accepted", !.decidedBy = c]}]
<1>1. q \in Proposal
  BY DEF Body
<1>2. [q EXCEPT !.status = "accepted", !.decidedBy = c] \in Proposal
  BY <1>1 DEF Proposal
<1>3. decided \in Body
  BY <1>2 DEF Body
<1>4. q.proposedPlan \in SUBSET Item
  BY <1>1 DEF Proposal
<1>5. Accept(b, c, q, past)
        = RecordRevision(decided, c, q.proposedPlan, "human", "plan_amended", past)
  BY DEF Accept
<1> HIDE DEF decided
<1> QED
  BY <1>3, <1>4, <1>5, RecordRevisionType DEF Kinds, Author

\* The second write of an acceptance finds the proposal it accepted.
LEMMA RecordAcceptanceType ==
    ASSUME NEW b \in Body, NEW c \in Call,
           \E q \in b.proposals : q.status = "accepted" /\ q.decidedBy = c
    PROVE  RecordAcceptance(b, c) \in Body
<1> DEFINE found == CHOOSE q \in b.proposals : q.status = "accepted" /\ q.decidedBy = c
           applied == [found EXCEPT !.appliedRevision = b.agentPlanRevision]
           decision == [type |-> "plan_amendment_decision", by |-> c, of |-> found.id]
<1>1. found \in b.proposals
  OBVIOUS
<1>2. found \in Proposal
  BY <1>1 DEF Body
<1>3. applied \in Proposal
  BY <1>2 DEF Proposal, Body
<1>4. decision \in Event
  BY <1>2 DEF Proposal, Event, Kinds
<1>5. RecordAcceptance(b, c) =
        [b EXCEPT !.proposals = (@ \ {found}) \cup {applied},
                  !.events = @ \cup {decision}]
  BY DEF RecordAcceptance
<1> HIDE DEF found, applied, decision
<1>6. (b.proposals \ {found}) \cup {applied} \in SUBSET Proposal
  BY <1>3 DEF Body
<1>7. b.events \cup {decision} \in SUBSET Event
  BY <1>4 DEF Body
<1> QED
  BY <1>5, <1>6, <1>7 DEF Body

LEMMA SetFrozenType ==
    ASSUME NEW b \in Body, NEW c \in Call, NEW frozen \in BOOLEAN
    PROVE  SetFrozen(b, c, frozen) \in Body
<1>1. Stamp(IF frozen THEN "plan_frozen" ELSE "plan_unfrozen", c) \in Event
  BY StampType DEF Kinds
<1> QED
  BY <1>1 DEF SetFrozen, Body

LEMMA FinishType ==
    ASSUME NEW b \in Body, NEW c \in Call, NEW past \in SUBSET Call
    PROVE  Finish(b, c, past) \in Record
<1> DEFINE begun == [b EXCEPT !.status = "finished"]
           done == Recompute(begun, past, c)
           ended == [done EXCEPT !.events = @ \cup {Stamp("session_finish", c)}]
<1>1. done \in Body
  <2>1. begun \in Body
    BY DEF Body
  <2> QED
    BY <2>1, RecomputeType
<1>2. Finish(b, c, past) = [body |-> ended, replayHash |-> Canonical(done, done.events)]
  BY DEF Finish
<1> HIDE DEF done
<1>3. ended \in Body
  BY <1>1, StampType DEF Body, Kinds
<1>4. Canonical(done, done.events) \in Body
  BY <1>1 DEF Canonical, Body
<1> QED
  BY <1>2, <1>3, <1>4 DEF Record

-----------------------------------------------------------------------------
(* Frames: what a change leaves alone *)

\* A recompute changes the satisfied obligations and may add its event.
LEMMA RecomputeFrame ==
    ASSUME NEW b \in Body, NEW c \in Call, NEW past \in SUBSET Call
    PROVE  LET r == Recompute(b, past, c) IN
           /\ r.status = b.status
           /\ r.approvalGrants = b.approvalGrants
           /\ r.approvedPaths = b.approvedPaths
           /\ r.agentPlan = b.agentPlan
           /\ r.agentPlanRevision = b.agentPlanRevision
           /\ r.agentPlanRevisions = b.agentPlanRevisions
           /\ r.allowed = b.allowed
           /\ r.proposals = b.proposals
           /\ r.planFrozenRevision = b.planFrozenRevision
           /\ b.events \subseteq r.events
           /\ r.events \subseteq b.events \cup {Stamp("obligation_state_changed", c)}
BY DEF Recompute, Body

\* Approvals stay sound when only neutral events are added.
LEMMA ApprovalFrame ==
    ASSUME NEW b \in Body, NEW r \in Body, ApprovalSound(b),
           r.approvalGrants = b.approvalGrants,
           r.approvedPaths = b.approvedPaths,
           r.status = "active" => b.status = "active",
           b.events \subseteq r.events,
           \A e \in r.events \ b.events : e.type \notin {"revoked", "expired", "session_finish"}
    PROVE  ApprovalSound(r)
<1>1. ApprovedBacked(r)
  BY DEF ApprovalSound, ApprovedBacked
<1>2. TrailMatchesGrants(r)
  BY DEF ApprovalSound, TrailMatchesGrants
<1>3. ExpiryRecordedOnce(r)
  BY DEF ApprovalSound, ExpiryRecordedOnce
<1>4. FinishInTrail(r)
  BY DEF ApprovalSound, FinishInTrail
<1> QED
  BY <1>1, <1>2, <1>3, <1>4 DEF ApprovalSound

\* Plans stay sound when none of their fields change.
LEMMA PlanFrame ==
    ASSUME NEW b \in Body, NEW r \in Body, PlanSound(b),
           r.agentPlan = b.agentPlan,
           r.agentPlanRevision = b.agentPlanRevision,
           r.agentPlanRevisions = b.agentPlanRevisions,
           r.allowed = b.allowed,
           r.proposals = b.proposals,
           r.planFrozenRevision = b.planFrozenRevision
    PROVE  PlanSound(r)
BY DEF PlanSound, LedgerSound, AcceptanceApplied, FrozenAtKnownRevision

\* A call stays unmentioned when what is added mentions others only.
LEMMA UnmentionedFrame ==
    ASSUME NEW b \in Body, NEW r \in Body, NEW d \in Call, Unmentioned(b, d),
           r.approvalGrants = b.approvalGrants,
           r.agentPlanRevisions = b.agentPlanRevisions,
           r.proposals = b.proposals,
           \A e \in r.events \ b.events : e.by # d /\ e.of # d
    PROVE  Unmentioned(r, d)
BY DEF Unmentioned

-----------------------------------------------------------------------------
(* Soundness *)

LEMMA RecomputeSound ==
    ASSUME NEW b \in Body, NEW c \in Call, NEW past \in SUBSET Call
    PROVE  /\ ApprovalSound(b) => ApprovalSound(Recompute(b, past, c))
           /\ PlanSound(b) => PlanSound(Recompute(b, past, c))
           /\ \A d \in Call \ {c} : Unmentioned(b, d) => Unmentioned(Recompute(b, past, c), d)
<1> DEFINE r == Recompute(b, past, c)
<1>1. r \in Body
  BY RecomputeType
<1>2. \A e \in r.events \ b.events : e = Stamp("obligation_state_changed", c)
  BY RecomputeFrame
<1>3. \A e \in r.events \ b.events :
        e.type = "obligation_state_changed" /\ e.by = c /\ e.of = c
  BY <1>2 DEF Stamp
<1>4. ApprovalSound(b) => ApprovalSound(r)
  <2> HAVE ApprovalSound(b)
  <2>1. \A e \in r.events \ b.events : e.type \notin {"revoked", "expired", "session_finish"}
    BY <1>3
  <2> QED
    BY <1>1, <2>1, RecomputeFrame, ApprovalFrame
<1>5. PlanSound(b) => PlanSound(r)
  BY <1>1, RecomputeFrame, PlanFrame
<1>6. ASSUME NEW d \in Call \ {c}, Unmentioned(b, d) PROVE Unmentioned(r, d)
  <2>1. \A e \in r.events \ b.events : e.by # d /\ e.of # d
    BY <1>3
  <2> QED
    BY <1>1, <1>6, <2>1, RecomputeFrame, UnmentionedFrame
<1> QED
  BY <1>4, <1>5, <1>6

LEMMA AppendSound ==
    ASSUME NEW b \in Body, NEW c \in Call
    PROVE  /\ ApprovalSound(b) => ApprovalSound(Append(b, c))
           /\ PlanSound(b) => PlanSound(Append(b, c))
           /\ \A d \in Call \ {c} : Unmentioned(b, d) => Unmentioned(Append(b, c), d)
<1> DEFINE r == Append(b, c)
<1>1. r \in Body
  BY AppendType
<1>2. r = [b EXCEPT !.events = @ \cup {Stamp("appended", c)}]
  BY DEF Append
<1>3. \A e \in r.events \ b.events : e.type = "appended" /\ e.by = c /\ e.of = c
  BY <1>2 DEF Stamp, Body
<1>4. ApprovalSound(b) => ApprovalSound(r)
  <2>1. \A e \in r.events \ b.events : e.type \notin {"revoked", "expired", "session_finish"}
    BY <1>3
  <2> QED
    BY <1>1, <1>2, <2>1, ApprovalFrame DEF Body
<1>5. PlanSound(b) => PlanSound(r)
  BY <1>1, <1>2, PlanFrame DEF Body
<1>6. ASSUME NEW d \in Call \ {c}, Unmentioned(b, d) PROVE Unmentioned(r, d)
  BY <1>1, <1>2, <1>3, <1>6, UnmentionedFrame DEF Body
<1> QED
  BY <1>4, <1>5, <1>6

\* What stands in the flat list is what an active grant stands for.
LEMMA ActivePathsBacked ==
    ASSUME NEW b \in Body, NEW past \in SUBSET Call, b.approvalGrants # {},
           NEW p \in ActivePaths(b, past)
    PROVE  \E g \in b.approvalGrants : g.path = p /\ ~g.revoked
BY DEF ActivePaths, IsActive

\* Refilling the flat list from the grants keeps approvals and plans sound.
LEMMA RefillSound ==
    ASSUME NEW b \in Body, NEW past \in SUBSET Call, b.approvalGrants # {}
    PROVE  LET r == [b EXCEPT !.approvedPaths = ActivePaths(b, past)] IN
           /\ r \in Body
           /\ TrailMatchesGrants(b) /\ ExpiryRecordedOnce(b) /\ FinishInTrail(b) => ApprovalSound(r)
           /\ PlanSound(b) => PlanSound(r)
           /\ \A d \in Call : Unmentioned(b, d) => Unmentioned(r, d)
<1> DEFINE r == [b EXCEPT !.approvedPaths = ActivePaths(b, past)]
<1>1. r \in Body
  BY ActivePathsType DEF Body
<1>2. /\ r.approvedPaths = ActivePaths(b, past)
      /\ r.approvalGrants = b.approvalGrants
      /\ r.events = b.events
      /\ r.status = b.status
      /\ r.agentPlan = b.agentPlan
      /\ r.agentPlanRevision = b.agentPlanRevision
      /\ r.agentPlanRevisions = b.agentPlanRevisions
      /\ r.allowed = b.allowed
      /\ r.proposals = b.proposals
      /\ r.planFrozenRevision = b.planFrozenRevision
  BY DEF Body
<1> HIDE DEF r
<1>3. ApprovedBacked(r)
  BY <1>2, ActivePathsBacked DEF ApprovedBacked
<1>4. ASSUME TrailMatchesGrants(b), ExpiryRecordedOnce(b), FinishInTrail(b)
      PROVE  ApprovalSound(r)
  <2>1. TrailMatchesGrants(r)
    BY <1>2, <1>4 DEF TrailMatchesGrants
  <2>2. ExpiryRecordedOnce(r)
    BY <1>2, <1>4 DEF ExpiryRecordedOnce
  <2>3. FinishInTrail(r)
    BY <1>2, <1>4 DEF FinishInTrail
  <2> QED
    BY <1>3, <2>1, <2>2, <2>3 DEF ApprovalSound
<1>5. PlanSound(b) => PlanSound(r)
  BY <1>1, <1>2, PlanFrame
<1>6. \A d \in Call : Unmentioned(b, d) => Unmentioned(r, d)
  BY <1>2 DEF Unmentioned
<1> QED
  BY <1>1, <1>4, <1>5, <1>6 DEF r

LEMMA ApproveSound ==
    ASSUME NEW b \in Body, NEW c \in Call, NEW path \in Path, NEW expires \in BOOLEAN,
           NEW past \in SUBSET Call, Unmentioned(b, c)
    PROVE  LET r == Approve(b, c, path, expires, past) IN
           /\ ApprovalSound(b) => ApprovalSound(r)
           /\ PlanSound(b) => PlanSound(r)
           /\ \A d \in Call \ {c} : Unmentioned(b, d) => Unmentioned(r, d)
<1> DEFINE grant == [path |-> path, id |-> c, expires |-> expires, revoked |-> FALSE,
                     planRevision |-> b.agentPlanRevision]
           event == Stamp("approved", c)
           granted == [b EXCEPT
              !.approvalGrants = {g \in @ : g.path # path} \cup {grant},
              !.events = @ \cup {event}]
           marked == [granted EXCEPT !.approvedPaths = ActivePaths(granted, past)]
<1>1. /\ grant \in Grant
      /\ grant.path = path
      /\ grant.id = c
      /\ grant.revoked = FALSE
  BY DEF Grant, Body
<1>2. event \in Event /\ event.type = "approved" /\ event.by = c /\ event.of = c
  BY StampType DEF Stamp, Kinds
<1>3. Approve(b, c, path, expires, past) = Recompute(marked, past, c)
  BY DEF Approve
<1> HIDE DEF grant
<1>4. granted \in Body
  BY <1>1, <1>2 DEF Body
<1>5. /\ granted.approvalGrants = {g \in b.approvalGrants : g.path # path} \cup {grant}
      /\ granted.events = b.events \cup {event}
      /\ granted.status = b.status
      /\ granted.agentPlan = b.agentPlan
      /\ granted.agentPlanRevision = b.agentPlanRevision
      /\ granted.agentPlanRevisions = b.agentPlanRevisions
      /\ granted.allowed = b.allowed
      /\ granted.proposals = b.proposals
      /\ granted.planFrozenRevision = b.planFrozenRevision
  BY DEF Body
<1> HIDE DEF granted
<1>6. ASSUME ApprovalSound(b)
      PROVE  TrailMatchesGrants(granted) /\ ExpiryRecordedOnce(granted) /\ FinishInTrail(granted)
  <2>1. ASSUME NEW g \in granted.approvalGrants
        PROVE  /\ Stamp("approved", g.id) \in granted.events
               /\ g.revoked <=> \E e \in granted.events : e.type = "revoked" /\ e.of = g.id
    <3>1. CASE g = grant
      BY <1>1, <1>2, <1>5, <3>1 DEF Unmentioned
    <3>2. CASE g \in b.approvalGrants
      BY <1>2, <1>5, <1>6, <3>2 DEF ApprovalSound, TrailMatchesGrants
    <3> QED
      BY <1>5, <2>1, <3>1, <3>2
  <2>2. ASSUME NEW g \in granted.approvalGrants, NEW h \in granted.approvalGrants,
               g.path = h.path \/ g.id = h.id
        PROVE  g = h
    BY <1>1, <1>5, <1>6, <2>2 DEF ApprovalSound, TrailMatchesGrants, Unmentioned
  <2>3. ExpiryRecordedOnce(granted)
    BY <1>2, <1>5, <1>6 DEF ApprovalSound, ExpiryRecordedOnce
  <2>4. FinishInTrail(granted)
    BY <1>2, <1>5, <1>6 DEF ApprovalSound, FinishInTrail
  <2> QED
    BY <2>1, <2>2, <2>3, <2>4 DEF TrailMatchesGrants
<1>7. PlanSound(b) => PlanSound(granted)
  BY <1>4, <1>5, PlanFrame
<1>8. \A d \in Call \ {c} : Unmentioned(b, d) => Unmentioned(granted, d)
  BY <1>1, <1>2, <1>5 DEF Unmentioned
<1>9. granted.approvalGrants # {}
  BY <1>5
<1>10. /\ marked \in Body
       /\ ApprovalSound(b) => ApprovalSound(marked)
       /\ PlanSound(b) => PlanSound(marked)
       /\ \A d \in Call \ {c} : Unmentioned(b, d) => Unmentioned(marked, d)
  BY <1>4, <1>6, <1>7, <1>8, <1>9, RefillSound
<1> HIDE DEF marked
<1> QED
  BY <1>3, <1>10, RecomputeSound

LEMMA RevokeSound ==
    ASSUME NEW b \in Body, NEW c \in Call, NEW target \in b.approvalGrants,
           NEW past \in SUBSET Call
    PROVE  LET r == Revoke(b, c, target, past) IN
           /\ ApprovalSound(b) => ApprovalSound(r)
           /\ PlanSound(b) => PlanSound(r)
           /\ \A d \in Call \ {c} : Unmentioned(b, d) => Unmentioned(r, d)
<1> DEFINE mark == [target EXCEPT !.revoked = TRUE]
           event == [type |-> "revoked", by |-> c, of |-> target.id]
           changed == [b EXCEPT !.approvalGrants = (@ \ {target}) \cup {mark},
                                !.events = @ \cup {event}]
           revoked == IF target.revoked THEN b ELSE changed
           marked == [revoked EXCEPT !.approvedPaths = ActivePaths(revoked, past)]
<1>1. target \in Grant
  BY DEF Body
<1>2. /\ mark \in Grant
      /\ mark.path = target.path
      /\ mark.id = target.id
      /\ mark.revoked = TRUE
  BY <1>1 DEF Grant
<1>3. event \in Event /\ event.type = "revoked" /\ event.by = c /\ event.of = target.id
  BY <1>1 DEF Grant, Event, Kinds
<1>4. Revoke(b, c, target, past) = Recompute(marked, past, c)
  BY DEF Revoke
<1> HIDE DEF mark, event
<1>5. changed \in Body
  BY <1>2, <1>3 DEF Body
<1>6. /\ changed.approvalGrants = (b.approvalGrants \ {target}) \cup {mark}
      /\ changed.events = b.events \cup {event}
      /\ changed.status = b.status
      /\ changed.agentPlan = b.agentPlan
      /\ changed.agentPlanRevision = b.agentPlanRevision
      /\ changed.agentPlanRevisions = b.agentPlanRevisions
      /\ changed.allowed = b.allowed
      /\ changed.proposals = b.proposals
      /\ changed.planFrozenRevision = b.planFrozenRevision
  BY DEF Body
<1> HIDE DEF changed
<1>7. ASSUME ApprovalSound(b)
      PROVE  TrailMatchesGrants(changed) /\ ExpiryRecordedOnce(changed) /\ FinishInTrail(changed)
  <2>1. ASSUME NEW g \in changed.approvalGrants
        PROVE  /\ Stamp("approved", g.id) \in changed.events
               /\ g.revoked <=> \E e \in changed.events : e.type = "revoked" /\ e.of = g.id
    <3>1. CASE g = mark
      BY <1>2, <1>3, <1>6, <1>7, <3>1 DEF ApprovalSound, TrailMatchesGrants
    <3>2. CASE g \in b.approvalGrants \ {target}
      <4>1. g.id # target.id
        BY <1>7, <3>2 DEF ApprovalSound, TrailMatchesGrants
      <4> QED
        BY <1>3, <1>6, <1>7, <3>2, <4>1 DEF ApprovalSound, TrailMatchesGrants
    <3> QED
      BY <1>6, <2>1, <3>1, <3>2
  <2>2. ASSUME NEW g \in changed.approvalGrants, NEW h \in changed.approvalGrants,
               g.path = h.path \/ g.id = h.id
        PROVE  g = h
    BY <1>2, <1>6, <1>7, <2>2 DEF ApprovalSound, TrailMatchesGrants
  <2>3. ExpiryRecordedOnce(changed)
    BY <1>3, <1>6, <1>7 DEF ApprovalSound, ExpiryRecordedOnce
  <2>4. FinishInTrail(changed)
    BY <1>3, <1>6, <1>7 DEF ApprovalSound, FinishInTrail
  <2> QED
    BY <2>1, <2>2, <2>3, <2>4 DEF TrailMatchesGrants
<1>8. PlanSound(b) => PlanSound(changed)
  BY <1>5, <1>6, PlanFrame
<1>9. \A d \in Call \ {c} : Unmentioned(b, d) => Unmentioned(changed, d)
  BY <1>2, <1>3, <1>6 DEF Unmentioned
<1>10. /\ revoked \in Body
       /\ revoked.approvalGrants # {}
       /\ ApprovalSound(b) => TrailMatchesGrants(revoked) /\ ExpiryRecordedOnce(revoked)
                                                          /\ FinishInTrail(revoked)
       /\ PlanSound(b) => PlanSound(revoked)
       /\ \A d \in Call \ {c} : Unmentioned(b, d) => Unmentioned(revoked, d)
  BY <1>5, <1>6, <1>7, <1>8, <1>9 DEF ApprovalSound
<1> HIDE DEF revoked
<1>11. /\ marked \in Body
       /\ ApprovalSound(b) => ApprovalSound(marked)
       /\ PlanSound(b) => PlanSound(marked)
       /\ \A d \in Call \ {c} : Unmentioned(b, d) => Unmentioned(marked, d)
  BY <1>10, RefillSound
<1> HIDE DEF marked
<1> QED
  BY <1>4, <1>11, RecomputeSound

LEMMA ExpireSound ==
    ASSUME NEW b \in Body, NEW c \in Call, NEW past \in SUBSET Call, ~NothingToExpire(b, past)
    PROVE  LET r == Expire(b, c, past) IN
           /\ ApprovalSound(b) => ApprovalSound(r)
           /\ PlanSound(b) => PlanSound(r)
           /\ \A d \in Call \ {c} : Unmentioned(b, d) => Unmentioned(r, d)
<1> DEFINE unrecorded == {g \in ExpiredGrants(b, past) : ~ExpiryRecorded(b, g)}
           new == {[type |-> "expired", by |-> c, of |-> g.id] : g \in unrecorded}
           told == [b EXCEPT !.events = @ \cup new]
           marked == [told EXCEPT !.approvedPaths = ActivePaths(told, past)]
<1>1. unrecorded \subseteq b.approvalGrants /\ unrecorded \subseteq Grant
  BY DEF ExpiredGrants, Body
<1>2. new \subseteq Event
  BY <1>1 DEF Grant, Event, Kinds
<1>3. \A e \in new : /\ e.type = "expired" /\ e.by = c
                     /\ \E g \in unrecorded : e = [type |-> "expired", by |-> c, of |-> g.id]
  OBVIOUS
<1>4. \A e \in new : /\ \E g \in b.approvalGrants : e.of = g.id
                     /\ \A f \in b.events : ~(f.type = "expired" /\ f.of = e.of)
  BY <1>1 DEF ExpiryRecorded
<1>5. \A e, f \in new : e.of = f.of => e = f
  OBVIOUS
<1>6. Expire(b, c, past) = Recompute(marked, past, c)
  <2>1. ActivePaths(told, past) = ActivePaths(b, past)
    BY DEF ActivePaths, Body
  <2>2. marked = [b EXCEPT !.events = @ \cup new, !.approvedPaths = ActivePaths(b, past)]
    BY <2>1 DEF Body
  <2> QED
    BY <2>2 DEF Expire
<1> HIDE DEF new
<1>7. told \in Body
  BY <1>2 DEF Body
<1>8. /\ told.approvalGrants = b.approvalGrants
      /\ told.events = b.events \cup new
      /\ told.status = b.status
      /\ told.agentPlan = b.agentPlan
      /\ told.agentPlanRevision = b.agentPlanRevision
      /\ told.agentPlanRevisions = b.agentPlanRevisions
      /\ told.allowed = b.allowed
      /\ told.proposals = b.proposals
      /\ told.planFrozenRevision = b.planFrozenRevision
  BY DEF Body
<1> HIDE DEF told
<1>9. ASSUME ApprovalSound(b)
      PROVE  TrailMatchesGrants(told) /\ ExpiryRecordedOnce(told) /\ FinishInTrail(told)
  <2>1. TrailMatchesGrants(told)
    BY <1>3, <1>8, <1>9 DEF ApprovalSound, TrailMatchesGrants
  <2>2. ExpiryRecordedOnce(told)
    BY <1>4, <1>5, <1>8, <1>9 DEF ApprovalSound, ExpiryRecordedOnce
  <2>3. FinishInTrail(told)
    BY <1>3, <1>8, <1>9 DEF ApprovalSound, FinishInTrail
  <2> QED
    BY <2>1, <2>2, <2>3
<1>10. PlanSound(b) => PlanSound(told)
  BY <1>7, <1>8, PlanFrame
<1>11. \A d \in Call \ {c} : Unmentioned(b, d) => Unmentioned(told, d)
  BY <1>3, <1>4, <1>8 DEF Unmentioned
<1>12. told.approvalGrants # {}
  BY <1>8 DEF NothingToExpire
<1>13. /\ marked \in Body
       /\ ApprovalSound(b) => ApprovalSound(marked)
       /\ PlanSound(b) => PlanSound(marked)
       /\ \A d \in Call \ {c} : Unmentioned(b, d) => Unmentioned(marked, d)
  BY <1>7, <1>9, <1>10, <1>11, <1>12, RefillSound
<1> HIDE DEF marked
<1> QED
  BY <1>6, <1>13, RecomputeSound

\* A new revision: the ledger grows by one entry, the call's own.
LEMMA RecordRevisionSound ==
    ASSUME NEW b \in Body, NEW c \in Call, NEW plan \in SUBSET Item,
           NEW by \in Author, NEW type \in PlanEvent,
           NEW past \in SUBSET Call
    PROVE  LET r == RecordRevision(b, c, plan, by, type, past) IN
           /\ ApprovalSound(b) => ApprovalSound(r)
           /\ LedgerSound(b) => LedgerSound(r)
           /\ FrozenAtKnownRevision(b) => FrozenAtKnownRevision(r)
           /\ r.proposals = b.proposals
           /\ LedgerSound(b) => r.agentPlanRevisions = b.agentPlanRevisions
                                 \cup {Entry(r.agentPlanRevision, c, plan, by)}
           /\ \A d \in Call \ {c} : Unmentioned(b, d) => Unmentioned(r, d)
<1> DEFINE revision == b.agentPlanRevision + 1
           kept == {e \in b.agentPlanRevisions : e.revision < revision}
           entry == Entry(revision, c, plan, by)
           event == Stamp(type, c)
           planned == [b EXCEPT !.agentPlan = plan,
                             !.agentPlanRevision = revision,
                             !.agentPlanRevisions = kept \cup {entry},
                             !.events = @ \cup {event}]
           m == Recompute(planned, past, c)
           r == RecordRevision(b, c, plan, by, type, past)
<1>1. b.agentPlanRevision \in Nat /\ revision \in Nat /\ revision = b.agentPlanRevision + 1
  BY DEF Body
<1>2. /\ entry \in Revision
      /\ entry.revision = revision /\ entry.id = c /\ entry.plan = plan
  BY <1>1 DEF Revision, Entry
<1>3. event \in Event /\ event.type = type /\ event.by = c /\ event.of = c
  BY StampType DEF Stamp, Kinds, PlanEvent
<1>4. r = [m EXCEPT !.allowed = @ \cup plan]
  BY DEF RecordRevision
<1>5. planned \in Body
  BY <1>1, <1>2, <1>3 DEF Body
<1>6. /\ planned.approvalGrants = b.approvalGrants
      /\ planned.approvedPaths = b.approvedPaths
      /\ planned.events = b.events \cup {event}
      /\ planned.status = b.status
      /\ planned.agentPlan = plan
      /\ planned.agentPlanRevision = revision
      /\ planned.agentPlanRevisions = kept \cup {entry}
      /\ planned.allowed = b.allowed
      /\ planned.proposals = b.proposals
      /\ planned.planFrozenRevision = b.planFrozenRevision
  BY DEF Body
<1>7. \A e \in b.agentPlanRevisions : e \in Revision /\ e.revision \in Nat /\ e.plan \in SUBSET Item
  BY DEF Body, Revision
<1>8. LedgerSound(b) => kept = b.agentPlanRevisions
  BY <1>1, <1>7 DEF LedgerSound
<1> HIDE DEF planned, entry, event, revision
<1>9. m \in Body
  BY <1>5, RecomputeType
<1>10. /\ m.approvalGrants = b.approvalGrants
       /\ m.approvedPaths = b.approvedPaths
       /\ m.status = b.status
       /\ m.agentPlan = plan
       /\ m.agentPlanRevision = revision
       /\ m.agentPlanRevisions = kept \cup {entry}
       /\ m.allowed = b.allowed
       /\ m.proposals = b.proposals
       /\ m.planFrozenRevision = b.planFrozenRevision
       /\ b.events \subseteq m.events
       /\ m.events \subseteq b.events \cup {event, Stamp("obligation_state_changed", c)}
  BY <1>5, <1>6, RecomputeFrame
<1> HIDE DEF m
<1>11. r \in Body
  BY <1>4, <1>9 DEF Body
<1>12. /\ r.approvalGrants = b.approvalGrants
       /\ r.approvedPaths = b.approvedPaths
       /\ r.status = b.status
       /\ r.agentPlan = plan
       /\ r.agentPlanRevision = revision
       /\ r.agentPlanRevisions = kept \cup {entry}
       /\ r.allowed = b.allowed \cup plan
       /\ r.proposals = b.proposals
       /\ r.planFrozenRevision = b.planFrozenRevision
       /\ b.events \subseteq r.events
       /\ r.events \subseteq b.events \cup {event, Stamp("obligation_state_changed", c)}
  BY <1>4, <1>9, <1>10 DEF Body
<1> HIDE DEF r
<1>13. \A e \in r.events \ b.events :
         e.type \in {type, "obligation_state_changed"} /\ e.by = c /\ e.of = c
  BY <1>3, <1>12 DEF Stamp
<1>14. ApprovalSound(b) => ApprovalSound(r)
  <2>1. \A e \in r.events \ b.events : e.type \notin {"revoked", "expired", "session_finish"}
    BY <1>13 DEF PlanEvent
  <2> QED
    BY <1>11, <1>12, <2>1, ApprovalFrame
<1>15. ASSUME LedgerSound(b) PROVE LedgerSound(r)
  <2>1. ASSUME NEW e \in r.agentPlanRevisions
        PROVE  /\ e.revision \in 1 .. r.agentPlanRevision
               /\ e.plan \subseteq r.allowed
               /\ e.revision = r.agentPlanRevision => e.plan = r.agentPlan
    BY <1>1, <1>2, <1>7, <1>8, <1>12, <1>15, <2>1 DEF LedgerSound
  <2>2. ASSUME NEW n \in 1 .. r.agentPlanRevision
        PROVE  \E e \in r.agentPlanRevisions : e.revision = n
    <3>1. n = revision \/ n \in 1 .. b.agentPlanRevision
      BY <1>1, <1>12, <2>2
    <3> QED
      BY <1>2, <1>8, <1>12, <1>15, <3>1 DEF LedgerSound
  <2>3. ASSUME NEW e \in r.agentPlanRevisions, NEW f \in r.agentPlanRevisions,
               e.revision = f.revision
        PROVE  e = f
    BY <1>1, <1>2, <1>7, <1>8, <1>12, <1>15, <2>3 DEF LedgerSound
  <2> QED
    BY <2>1, <2>2, <2>3 DEF LedgerSound
<1>16. FrozenAtKnownRevision(b) => FrozenAtKnownRevision(r)
  <2>1. b.planFrozenRevision \in Nat
    BY DEF Body
  <2> QED
    BY <1>1, <1>12, <2>1 DEF FrozenAtKnownRevision
<1>17. LedgerSound(b) => r.agentPlanRevisions = b.agentPlanRevisions
                                 \cup {Entry(r.agentPlanRevision, c, plan, by)}
  BY <1>8, <1>12 DEF entry
<1>18. \A d \in Call \ {c} : Unmentioned(b, d) => Unmentioned(r, d)
  BY <1>2, <1>12, <1>13 DEF Unmentioned
<1> QED
  BY <1>12, <1>14, <1>15, <1>16, <1>17, <1>18 DEF r

\* A revision that leaves the proposals alone keeps acceptances applied.
LEMMA RevisionSound ==
    ASSUME NEW b \in Body, NEW c \in Call, NEW plan \in SUBSET Item,
           NEW by \in Author, NEW type \in PlanEvent,
           NEW past \in SUBSET Call
    PROVE  LET r == RecordRevision(b, c, plan, by, type, past) IN
           /\ ApprovalSound(b) => ApprovalSound(r)
           /\ PlanSound(b) => PlanSound(r)
           /\ \A d \in Call \ {c} : Unmentioned(b, d) => Unmentioned(r, d)
<1> DEFINE r == RecordRevision(b, c, plan, by, type, past)
           entry == Entry(r.agentPlanRevision, c, plan, by)
<1>1. /\ ApprovalSound(b) => ApprovalSound(r)
      /\ LedgerSound(b) => LedgerSound(r)
      /\ FrozenAtKnownRevision(b) => FrozenAtKnownRevision(r)
      /\ r.proposals = b.proposals
      /\ LedgerSound(b) => r.agentPlanRevisions = b.agentPlanRevisions \cup {entry}
      /\ \A d \in Call \ {c} : Unmentioned(b, d) => Unmentioned(r, d)
  BY RecordRevisionSound
<1> HIDE DEF r, entry
<1>2. ASSUME PlanSound(b) PROVE PlanSound(r)
  <2>1. b.agentPlanRevisions \subseteq r.agentPlanRevisions
    BY <1>1, <1>2 DEF PlanSound
  <2>2. AcceptanceApplied(r)
    BY <1>1, <1>2, <2>1 DEF PlanSound, AcceptanceApplied
  <2> QED
    BY <1>1, <1>2, <2>2 DEF PlanSound
<1> QED
  BY <1>1, <1>2 DEF r

LEMMA AttachSound ==
    ASSUME NEW b \in Body, NEW c \in Call, NEW plan \in SUBSET Item, NEW past \in SUBSET Call
    PROVE  LET r == Attach(b, c, plan, past) IN
           /\ ApprovalSound(b) => ApprovalSound(r)
           /\ PlanSound(b) => PlanSound(r)
           /\ \A d \in Call \ {c} : Unmentioned(b, d) => Unmentioned(r, d)
<1>1. PICK type \in PlanEvent, by \in Author :
        Attach(b, c, plan, past) = RecordRevision(b, c, plan, by, type, past)
  BY DEF Attach, PlanEvent, Author
<1> DEFINE r == RecordRevision(b, c, plan, by, type, past)
<1>2. /\ ApprovalSound(b) => ApprovalSound(r)
      /\ PlanSound(b) => PlanSound(r)
      /\ \A d \in Call \ {c} : Unmentioned(b, d) => Unmentioned(r, d)
  BY RevisionSound
<1> QED
  BY <1>1, <1>2

LEMMA ProposeSound ==
    ASSUME NEW b \in Body, NEW c \in Call, NEW plan \in SUBSET Item
    PROVE  LET r == Propose(b, c, plan) IN
           /\ ApprovalSound(b) => ApprovalSound(r)
           /\ PlanSound(b) => PlanSound(r)
           /\ \A d \in Call \ {c} : Unmentioned(b, d) => Unmentioned(r, d)
<1> DEFINE proposal == [id |-> c, previousRevision |-> b.agentPlanRevision,
                     proposedPlan |-> plan, status |-> "pending",
                     decidedBy |-> NoCall, appliedRevision |-> 0]
           event == Stamp("plan_amendment_proposed", c)
           r == [b EXCEPT !.proposals = @ \cup {proposal}, !.events = @ \cup {event}]
<1>1. /\ proposal.status = "pending" /\ proposal.appliedRevision = 0
      /\ proposal.id = c /\ proposal.decidedBy = NoCall
  OBVIOUS
<1>2. proposal \in Proposal
  BY DEF Proposal, Body
<1>3. event \in Event /\ event.type = "plan_amendment_proposed" /\ event.by = c /\ event.of = c
  BY StampType DEF Stamp, Kinds
<1>4. Propose(b, c, plan) = b \/ Propose(b, c, plan) = r
  BY DEF Propose
<1> HIDE DEF proposal, event
<1>5. r \in Body
  BY <1>2, <1>3 DEF Body
<1>6. /\ r.approvalGrants = b.approvalGrants
      /\ r.approvedPaths = b.approvedPaths
      /\ r.events = b.events \cup {event}
      /\ r.status = b.status
      /\ r.agentPlan = b.agentPlan
      /\ r.agentPlanRevision = b.agentPlanRevision
      /\ r.agentPlanRevisions = b.agentPlanRevisions
      /\ r.allowed = b.allowed
      /\ r.proposals = b.proposals \cup {proposal}
      /\ r.planFrozenRevision = b.planFrozenRevision
  BY DEF Body
<1> HIDE DEF r
<1>7. ApprovalSound(b) => ApprovalSound(r)
  <2>1. \A e \in r.events \ b.events : e.type \notin {"revoked", "expired", "session_finish"}
    BY <1>3, <1>6
  <2> QED
    BY <1>5, <1>6, <2>1, ApprovalFrame
<1>8. ASSUME PlanSound(b) PROVE PlanSound(r)
  <2>1. LedgerSound(r)
    BY <1>6, <1>8 DEF PlanSound, LedgerSound
  <2>2. AcceptanceApplied(r)
    BY <1>1, <1>6, <1>8 DEF PlanSound, AcceptanceApplied
  <2>3. FrozenAtKnownRevision(r)
    BY <1>6, <1>8 DEF PlanSound, FrozenAtKnownRevision
  <2> QED
    BY <2>1, <2>2, <2>3 DEF PlanSound
<1>9. \A d \in Call \ {c} : Unmentioned(b, d) => Unmentioned(r, d)
  BY <1>1, <1>3, <1>6, RecordAssumption DEF Unmentioned
<1> QED
  BY <1>4, <1>7, <1>8, <1>9

LEMMA ApplyOrProposeSound ==
    ASSUME NEW b \in Body, NEW c \in Call, NEW plan \in SUBSET Item,
           NEW by \in Author, NEW past \in SUBSET Call
    PROVE  LET r == ApplyOrPropose(b, c, plan, by, past) IN
           /\ ApprovalSound(b) => ApprovalSound(r)
           /\ PlanSound(b) => PlanSound(r)
           /\ \A d \in Call \ {c} : Unmentioned(b, d) => Unmentioned(r, d)
<1>1. PICK type \in PlanEvent :
        \/ ApplyOrPropose(b, c, plan, by, past) = Propose(b, c, plan)
        \/ ApplyOrPropose(b, c, plan, by, past) = RecordRevision(b, c, plan, by, type, past)
  BY DEF ApplyOrPropose, PlanEvent
<1> DEFINE r == RecordRevision(b, c, plan, by, type, past)
<1>2. CASE ApplyOrPropose(b, c, plan, by, past) = Propose(b, c, plan)
  BY <1>2, ProposeSound
<1>3. CASE ApplyOrPropose(b, c, plan, by, past) = r
  <2>1. /\ ApprovalSound(b) => ApprovalSound(r)
        /\ PlanSound(b) => PlanSound(r)
        /\ \A d \in Call \ {c} : Unmentioned(b, d) => Unmentioned(r, d)
    BY RevisionSound
  <2> QED
    BY <1>3, <2>1
<1> QED
  BY <1>1, <1>2, <1>3

LEMMA RejectSound ==
    ASSUME NEW b \in Body, NEW c \in Call, NEW q \in b.proposals, q.status = "pending"
    PROVE  LET r == Reject(b, c, q) IN
           /\ ApprovalSound(b) => ApprovalSound(r)
           /\ PlanSound(b) => PlanSound(r)
           /\ \A d \in Call \ {c} : Unmentioned(b, d) => Unmentioned(r, d)
<1> DEFINE rejected == [q EXCEPT !.status = "rejected", !.decidedBy = c]
           event == [type |-> "plan_amendment_decision", by |-> c, of |-> q.id]
           r == Reject(b, c, q)
<1>1. q \in Proposal
  BY DEF Body
<1>2. /\ rejected \in Proposal
      /\ rejected.status = "rejected" /\ rejected.decidedBy = c /\ rejected.id = q.id
      /\ rejected.appliedRevision = q.appliedRevision
  BY <1>1 DEF Proposal
<1>3. event.type = "plan_amendment_decision" /\ event.by = c /\ event.of = q.id
  OBVIOUS
<1>4. r = [b EXCEPT !.proposals = (@ \ {q}) \cup {rejected}, !.events = @ \cup {event}]
  BY DEF Reject
<1>5. r \in Body
  BY RejectType
<1> HIDE DEF rejected, event, r
<1>6. /\ r.approvalGrants = b.approvalGrants
      /\ r.approvedPaths = b.approvedPaths
      /\ r.events = b.events \cup {event}
      /\ r.status = b.status
      /\ r.agentPlan = b.agentPlan
      /\ r.agentPlanRevision = b.agentPlanRevision
      /\ r.agentPlanRevisions = b.agentPlanRevisions
      /\ r.allowed = b.allowed
      /\ r.proposals = (b.proposals \ {q}) \cup {rejected}
      /\ r.planFrozenRevision = b.planFrozenRevision
  BY <1>4 DEF Body
<1>7. ApprovalSound(b) => ApprovalSound(r)
  <2>1. \A e \in r.events \ b.events : e.type \notin {"revoked", "expired", "session_finish"}
    BY <1>3, <1>6
  <2> QED
    BY <1>5, <1>6, <2>1, ApprovalFrame
<1>8. ASSUME PlanSound(b) PROVE PlanSound(r)
  <2>1. LedgerSound(r)
    BY <1>6, <1>8 DEF PlanSound, LedgerSound
  <2>2. AcceptanceApplied(r)
    BY <1>2, <1>6, <1>8 DEF PlanSound, AcceptanceApplied
  <2>3. FrozenAtKnownRevision(r)
    BY <1>6, <1>8 DEF PlanSound, FrozenAtKnownRevision
  <2> QED
    BY <2>1, <2>2, <2>3 DEF PlanSound
<1>9. \A d \in Call \ {c} : Unmentioned(b, d) => Unmentioned(r, d)
  BY <1>2, <1>3, <1>6 DEF Unmentioned
<1> QED
  BY <1>7, <1>8, <1>9 DEF r

\* The first write of an acceptance leaves the plan in the ledger, made by the
\* call, as the active revision.
LEMMA AcceptSound ==
    ASSUME NEW b \in Body, NEW c \in Call, NEW q \in b.proposals, NEW past \in SUBSET Call,
           q.status = "pending", PlanSound(b), Unmentioned(b, c)
    PROVE  LET r == Accept(b, c, q, past) IN
           /\ ApprovalSound(b) => ApprovalSound(r)
           /\ PlanSound(r)
           /\ \A d \in Call \ {c} : Unmentioned(b, d) => Unmentioned(r, d)
           /\ \E p \in r.proposals : p.status = "accepted" /\ p.decidedBy = c
           /\ \A e \in r.agentPlanRevisions : e.id = c => e.revision = r.agentPlanRevision
<1> DEFINE accepted == [q EXCEPT !.status = "accepted", !.decidedBy = c]
           decided == [b EXCEPT !.proposals = (@ \ {q}) \cup {accepted}]
           plan == q.proposedPlan
<1>1. q \in Proposal /\ plan \in SUBSET Item
  BY DEF Body, Proposal
<1>2. /\ accepted \in Proposal
      /\ accepted.status = "accepted" /\ accepted.decidedBy = c /\ accepted.id = q.id
      /\ accepted.appliedRevision = q.appliedRevision
      /\ accepted.proposedPlan = plan
  BY <1>1 DEF Proposal
<1> HIDE DEF accepted
<1>3. decided \in Body
  BY <1>2 DEF Body
<1>4. /\ decided.approvalGrants = b.approvalGrants
      /\ decided.approvedPaths = b.approvedPaths
      /\ decided.events = b.events
      /\ decided.status = b.status
      /\ decided.agentPlan = b.agentPlan
      /\ decided.agentPlanRevision = b.agentPlanRevision
      /\ decided.agentPlanRevisions = b.agentPlanRevisions
      /\ decided.allowed = b.allowed
      /\ decided.proposals = (b.proposals \ {q}) \cup {accepted}
      /\ decided.planFrozenRevision = b.planFrozenRevision
  BY DEF Body
<1>5. PICK type \in PlanEvent, by \in Author :
        Accept(b, c, q, past) = RecordRevision(decided, c, plan, by, type, past)
  BY DEF Accept, PlanEvent, Author, accepted
<1> HIDE DEF decided, plan
<1> DEFINE r == RecordRevision(decided, c, plan, by, type, past)
           entry == Entry(r.agentPlanRevision, c, plan, by)
<1>6. /\ ApprovalSound(decided) => ApprovalSound(r)
      /\ LedgerSound(decided) => LedgerSound(r)
      /\ FrozenAtKnownRevision(decided) => FrozenAtKnownRevision(r)
      /\ r.proposals = decided.proposals
      /\ LedgerSound(decided) => r.agentPlanRevisions = decided.agentPlanRevisions \cup {entry}
      /\ \A d \in Call \ {c} : Unmentioned(decided, d) => Unmentioned(r, d)
  BY <1>1, <1>3, RecordRevisionSound
<1>7. entry.id = c /\ entry.plan = plan /\ entry.revision = r.agentPlanRevision
  BY DEF Entry
<1> HIDE DEF r, entry
<1>8. ApprovalSound(b) => ApprovalSound(decided)
  BY <1>3, <1>4, ApprovalFrame
<1>9. LedgerSound(decided) /\ FrozenAtKnownRevision(decided)
  BY <1>4 DEF PlanSound, LedgerSound, FrozenAtKnownRevision
<1>10. r.agentPlanRevisions = b.agentPlanRevisions \cup {entry}
  BY <1>4, <1>6, <1>9
<1>11. AcceptanceApplied(r)
  <2>1. ASSUME NEW p \in r.proposals, p.status = "accepted"
        PROVE  \E e \in r.agentPlanRevisions :
                 /\ e.id = p.decidedBy
                 /\ e.plan = p.proposedPlan
                 /\ p.appliedRevision \in {0, e.revision}
    <3>1. CASE p = accepted
      <4>1. accepted.appliedRevision = 0
        BY <1>2 DEF PlanSound, AcceptanceApplied
      <4> QED
        BY <1>2, <1>7, <1>10, <3>1, <4>1
    <3>2. CASE p \in b.proposals
      BY <1>10, <2>1, <3>2 DEF PlanSound, AcceptanceApplied
    <3> QED
      BY <1>4, <1>6, <2>1, <3>1, <3>2
  <2>2. ASSUME NEW p \in r.proposals, p.status # "accepted" PROVE p.appliedRevision = 0
    BY <1>2, <1>4, <1>6, <2>2 DEF PlanSound, AcceptanceApplied
  <2> QED
    BY <2>1, <2>2 DEF AcceptanceApplied
<1>12. PlanSound(r)
  BY <1>6, <1>9, <1>11 DEF PlanSound
<1>13. \A d \in Call \ {c} : Unmentioned(b, d) => Unmentioned(r, d)
  BY <1>2, <1>4, <1>6 DEF Unmentioned
<1>14. \E p \in r.proposals : p.status = "accepted" /\ p.decidedBy = c
  BY <1>2, <1>4, <1>6
<1>15. \A e \in r.agentPlanRevisions : e.id = c => e.revision = r.agentPlanRevision
  BY <1>7, <1>10 DEF Unmentioned
<1> QED
  BY <1>5, <1>6, <1>8, <1>12, <1>13, <1>14, <1>15 DEF r

\* The second write of an acceptance names the revision the first one made.
LEMMA RecordAcceptanceSound ==
    ASSUME NEW b \in Body, NEW c \in Call,
           \E q \in b.proposals : q.status = "accepted" /\ q.decidedBy = c,
           \A e \in b.agentPlanRevisions : e.id = c => e.revision = b.agentPlanRevision
    PROVE  LET r == RecordAcceptance(b, c) IN
           /\ ApprovalSound(b) => ApprovalSound(r)
           /\ PlanSound(b) => PlanSound(r)
           /\ \A d \in Call \ {c} : Unmentioned(b, d) => Unmentioned(r, d)
<1> DEFINE found == CHOOSE q \in b.proposals : q.status = "accepted" /\ q.decidedBy = c
           applied == [found EXCEPT !.appliedRevision = b.agentPlanRevision]
           event == [type |-> "plan_amendment_decision", by |-> c, of |-> found.id]
           r == RecordAcceptance(b, c)
<1>1. found \in b.proposals /\ found.status = "accepted" /\ found.decidedBy = c
  OBVIOUS
<1>2. found \in Proposal
  BY <1>1 DEF Body
<1>3. /\ applied.status = "accepted" /\ applied.decidedBy = c /\ applied.id = found.id
      /\ applied.proposedPlan = found.proposedPlan
      /\ applied.appliedRevision = b.agentPlanRevision
  BY <1>1, <1>2 DEF Proposal
<1>4. event.type = "plan_amendment_decision" /\ event.by = c /\ event.of = found.id
  OBVIOUS
<1>5. r = [b EXCEPT !.proposals = (@ \ {found}) \cup {applied}, !.events = @ \cup {event}]
  BY DEF RecordAcceptance
<1>6. r \in Body
  BY RecordAcceptanceType
<1> HIDE DEF found, applied, event, r
<1>7. /\ r.approvalGrants = b.approvalGrants
      /\ r.approvedPaths = b.approvedPaths
      /\ r.events = b.events \cup {event}
      /\ r.status = b.status
      /\ r.agentPlan = b.agentPlan
      /\ r.agentPlanRevision = b.agentPlanRevision
      /\ r.agentPlanRevisions = b.agentPlanRevisions
      /\ r.allowed = b.allowed
      /\ r.proposals = (b.proposals \ {found}) \cup {applied}
      /\ r.planFrozenRevision = b.planFrozenRevision
  BY <1>5 DEF Body
<1>8. ApprovalSound(b) => ApprovalSound(r)
  <2>1. \A e \in r.events \ b.events : e.type \notin {"revoked", "expired", "session_finish"}
    BY <1>4, <1>7
  <2> QED
    BY <1>6, <1>7, <2>1, ApprovalFrame
<1>9. ASSUME PlanSound(b) PROVE PlanSound(r)
  <2>1. LedgerSound(r)
    BY <1>7, <1>9 DEF PlanSound, LedgerSound
  <2>2. PICK e \in b.agentPlanRevisions : e.id = c /\ e.plan = found.proposedPlan
    BY <1>1, <1>9 DEF PlanSound, AcceptanceApplied
  <2>3. e.revision = b.agentPlanRevision
    BY <2>2
  <2>4. AcceptanceApplied(r)
    BY <1>3, <1>7, <1>9, <2>2, <2>3 DEF PlanSound, AcceptanceApplied
  <2>5. FrozenAtKnownRevision(r)
    BY <1>7, <1>9 DEF PlanSound, FrozenAtKnownRevision
  <2> QED
    BY <2>1, <2>4, <2>5 DEF PlanSound
<1>10. \A d \in Call \ {c} : Unmentioned(b, d) => Unmentioned(r, d)
  BY <1>1, <1>3, <1>4, <1>7 DEF Unmentioned
<1> QED
  BY <1>8, <1>9, <1>10 DEF r

LEMMA SetFrozenSound ==
    ASSUME NEW b \in Body, NEW c \in Call, NEW frozen \in BOOLEAN
    PROVE  LET r == SetFrozen(b, c, frozen) IN
           /\ ApprovalSound(b) => ApprovalSound(r)
           /\ PlanSound(b) => PlanSound(r)
           /\ \A d \in Call \ {c} : Unmentioned(b, d) => Unmentioned(r, d)
<1> DEFINE r == SetFrozen(b, c, frozen)
           event == Stamp(IF frozen THEN "plan_frozen" ELSE "plan_unfrozen", c)
<1>1. event.type \in {"plan_frozen", "plan_unfrozen"} /\ event.by = c /\ event.of = c
  BY DEF Stamp
<1>2. r \in Body
  BY SetFrozenType
<1>3. /\ r.approvalGrants = b.approvalGrants
      /\ r.approvedPaths = b.approvedPaths
      /\ r.events = b.events \/ r.events = b.events \cup {event}
      /\ r.status = b.status
      /\ r.agentPlan = b.agentPlan
      /\ r.agentPlanRevision = b.agentPlanRevision
      /\ r.agentPlanRevisions = b.agentPlanRevisions
      /\ r.allowed = b.allowed
      /\ r.proposals = b.proposals
      /\ r.planFrozenRevision \in {b.planFrozenRevision, b.agentPlanRevision}
  BY DEF SetFrozen, Body
<1> HIDE DEF r, event
<1>4. ApprovalSound(b) => ApprovalSound(r)
  <2>1. \A e \in r.events \ b.events : e.type \notin {"revoked", "expired", "session_finish"}
    BY <1>1, <1>3
  <2> QED
    BY <1>2, <1>3, <2>1, ApprovalFrame
<1>5. ASSUME PlanSound(b) PROVE PlanSound(r)
  <2>1. LedgerSound(r) /\ AcceptanceApplied(r)
    BY <1>3, <1>5 DEF PlanSound, LedgerSound, AcceptanceApplied
  <2>2. b.agentPlanRevision \in Nat
    BY DEF Body
  <2>3. FrozenAtKnownRevision(r)
    BY <1>3, <1>5, <2>2 DEF PlanSound, FrozenAtKnownRevision
  <2> QED
    BY <2>1, <2>3 DEF PlanSound
<1>6. \A d \in Call \ {c} : Unmentioned(b, d) => Unmentioned(r, d)
  BY <1>1, <1>3 DEF Unmentioned
<1> QED
  BY <1>4, <1>5, <1>6 DEF r

\* A finish of a record that reads active replays to its own hash.
LEMMA FinishSound ==
    ASSUME NEW b \in Body, NEW c \in Call, NEW past \in SUBSET Call
    PROVE  LET r == Finish(b, c, past) IN
           /\ ApprovalSound(b) => ApprovalSound(r.body)
           /\ PlanSound(b) => PlanSound(r.body)
           /\ \A d \in Call \ {c} : Unmentioned(b, d) => Unmentioned(r.body, d)
           /\ ApprovalSound(b) /\ b.status = "active" => ReplayMatches(r)
           /\ r.body.status = "finished"
           /\ r.body.approvalGrants = b.approvalGrants
           /\ b.events \subseteq r.body.events
<1> DEFINE begun == [b EXCEPT !.status = "finished"]
           done == Recompute(begun, past, c)
           event == Stamp("session_finish", c)
           ended == [done EXCEPT !.events = @ \cup {event}]
           r == Finish(b, c, past)
<1>1. r = [body |-> ended, replayHash |-> Canonical(done, done.events)]
  BY DEF Finish
<1>2. /\ begun \in Body
      /\ begun.approvalGrants = b.approvalGrants
      /\ begun.approvedPaths = b.approvedPaths
      /\ begun.events = b.events
      /\ begun.status = "finished"
      /\ begun.agentPlan = b.agentPlan
      /\ begun.agentPlanRevision = b.agentPlanRevision
      /\ begun.agentPlanRevisions = b.agentPlanRevisions
      /\ begun.allowed = b.allowed
      /\ begun.proposals = b.proposals
      /\ begun.planFrozenRevision = b.planFrozenRevision
  BY DEF Body
<1>3. event.type = "session_finish" /\ event.by = c /\ event.of = c /\ event \in Event
  BY StampType DEF Stamp, Kinds
<1> HIDE DEF begun, event
<1>4. done \in Body
  BY <1>2, RecomputeType
<1>5. /\ done.status = "finished"
      /\ done.approvalGrants = b.approvalGrants
      /\ done.approvedPaths = b.approvedPaths
      /\ done.agentPlan = b.agentPlan
      /\ done.agentPlanRevision = b.agentPlanRevision
      /\ done.agentPlanRevisions = b.agentPlanRevisions
      /\ done.allowed = b.allowed
      /\ done.proposals = b.proposals
      /\ done.planFrozenRevision = b.planFrozenRevision
      /\ b.events \subseteq done.events
      /\ done.events \subseteq b.events \cup {Stamp("obligation_state_changed", c)}
  BY <1>2, RecomputeFrame
<1> HIDE DEF done
<1>6. /\ ended \in Body
      /\ ended.status = done.status
      /\ ended.approvalGrants = done.approvalGrants
      /\ ended.approvedPaths = done.approvedPaths
      /\ ended.agentPlan = done.agentPlan
      /\ ended.agentPlanRevision = done.agentPlanRevision
      /\ ended.agentPlanRevisions = done.agentPlanRevisions
      /\ ended.allowed = done.allowed
      /\ ended.proposals = done.proposals
      /\ ended.planFrozenRevision = done.planFrozenRevision
      /\ ended.events = done.events \cup {event}
  BY <1>3, <1>4 DEF Body
<1>7. \A e \in done.events \ b.events :
        e.type = "obligation_state_changed" /\ e.by = c /\ e.of = c
  BY <1>5 DEF Stamp
<1>8. ASSUME ApprovalSound(b), b.status = "active" PROVE ReplayMatches(r)
  <2>1. {e \in ended.events : e.type # "session_finish"} = done.events
    BY <1>3, <1>6, <1>7, <1>8 DEF ApprovalSound, FinishInTrail
  <2>2. Canonical(ended, done.events) = Canonical(done, done.events)
    BY <1>4 DEF Canonical, Body
  <2>3. r.body = ended /\ r.replayHash = Canonical(done, done.events)
    BY <1>1
  <2> HIDE DEF r, ended
  <2> QED
    BY <2>1, <2>2, <2>3 DEF ReplayMatches
<1> HIDE DEF ended
<1>9. ASSUME ApprovalSound(b) PROVE ApprovalSound(ended)
  <2>1. ApprovedBacked(ended)
    BY <1>5, <1>6, <1>9 DEF ApprovalSound, ApprovedBacked
  <2>2. TrailMatchesGrants(ended)
    BY <1>3, <1>5, <1>6, <1>7, <1>9 DEF ApprovalSound, TrailMatchesGrants
  <2>3. ExpiryRecordedOnce(ended)
    BY <1>3, <1>5, <1>6, <1>7, <1>9 DEF ApprovalSound, ExpiryRecordedOnce
  <2>4. FinishInTrail(ended)
    BY <1>5, <1>6 DEF FinishInTrail
  <2> QED
    BY <2>1, <2>2, <2>3, <2>4 DEF ApprovalSound
<1>10. PlanSound(b) => PlanSound(ended)
  BY <1>5, <1>6, PlanFrame
<1>11. \A d \in Call \ {c} : Unmentioned(b, d) => Unmentioned(ended, d)
  BY <1>3, <1>5, <1>6, <1>7 DEF Unmentioned
<1>12. r.body = ended
  BY <1>1
<1>13. /\ ended.status = "finished"
       /\ ended.approvalGrants = b.approvalGrants
       /\ b.events \subseteq ended.events
  BY <1>5, <1>6
<1> HIDE DEF r
<1> QED
  BY <1>8, <1>9, <1>10, <1>11, <1>12, <1>13 DEF r
=============================================================================
