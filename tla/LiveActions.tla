------------------------------ MODULE LiveActions ------------------------------
(***************************************************************************)
(* What was decided on the dashboard, applied to a session: each poll      *)
(* (applyPendingRuntimeLiveActions of packages/cli/dist/utils/             *)
(* runtime-live.js) fetches the decisions, approves, revokes and amends    *)
(* the record of the session accordingly, and queues an acknowledgement of *)
(* each in the runtime outbox.  Hooks, commands and the daemon poll, so    *)
(* that polls overlap, and a decision is fetched again until the cloud has *)
(* its acknowledgement.                                                    *)
(*                                                                         *)
(* The operations are those of SessionRecord.  Approvals and revocations   *)
(* load and persist under the session's mutation lock, amendments without  *)
(* it.  A grant and a revision bear the id of the request they were made   *)
(* for.  The session is active, its grants do not expire, and only polls   *)
(* change it.  Queueing is one step that may throw because the lock of the *)
(* outbox is busy; what becomes of a queued acknowledgement is the subject *)
(* of RuntimeOutbox.                                                       *)
(***************************************************************************)
EXTENDS SessionRecord

CONSTANTS
    Approval,    \* the approval requests of the session
    PathOf,      \* the path each of them asks for
    Amendment,   \* the scope amendment requests
    AddedBy,     \* the items each of them adds to the plan
    Poll,        \* the polls under way at once
    NoPoll,      \* the lock is free
    MaxFetched,  \* bound of the model: the decisions a poll fetches at once
    MaxRevision  \* bound of the model: the plan revisions

ASSUME LiveAssumption == /\ Approval \cap Amendment = {}
                         /\ Call = Approval \cup Amendment
                         /\ PathOf \in [Approval -> Path]
                         /\ AddedBy \in [Amendment -> SUBSET Item]
                         /\ NoPoll \notin Poll
                         /\ {MaxFetched, MaxRevision} \subseteq Nat

VARIABLES
    rec,        \* .neurcode/sessions/<id>.json
    lock,       \* the holder of its mutation lock
    decision,   \* what the dashboard says of each request
    at,         \* the point each poll has reached
    todo,       \* the decisions each poll has fetched and not yet applied
    current,    \* the one it is applying
    local,      \* its copy of the record
    revision,   \* the revision an amendment was given
    acks,       \* the acknowledgements of revocations and of amendments so far
    excused     \* history: the requests whose revoked grant gave way to another
                \* request, or was about to be approved by a poll that had not found
                \* it yet; and all of them once two copies of the record overlapped

vars == <<rec, lock, decision, at, todo, current, local, revision, acks, excused>>

\* A decision as it was fetched.
Decided(c, s) == [id |-> c, status |-> s]
Nothing == Decided(NoCall, "none")

Init == /\ rec = FreshRecord
        /\ lock = NoPoll
        /\ decision = [c \in Call |-> "requested"]
        /\ at = [p \in Poll |-> "idle"]
        /\ todo = [p \in Poll |-> {}]
        /\ current = [p \in Poll |-> Nothing]
        /\ local = [p \in Poll |-> FreshRecord]
        /\ revision = [p \in Poll |-> 0]
        /\ acks = {}
        /\ excused = {}

Goto(p, l) == at' = [at EXCEPT ![p] = l]
Id(p) == current[p].id
Copy(p) == local[p].body
GrantOf(b, c) == {g \in b.approvalGrants : g.id = c}

-----------------------------------------------------------------------------
(* The dashboard, and the fetch *)

\* A request is approved, an approval is revoked, an amendment is denied.
Decide(c) ==
    /\ \/ decision[c] = "requested" /\ decision' = [decision EXCEPT ![c] = "pending"]
       \/ /\ decision[c] = "requested"
          /\ c \in Amendment
          /\ decision' = [decision EXCEPT ![c] = "denied"]
       \/ /\ decision[c] = "pending"
          /\ c \in Approval
          /\ decision' = [decision EXCEPT ![c] = "revoked"]
    /\ UNCHANGED <<rec, lock, at, todo, current, local, revision, acks>>

\* fetchPendingApprovals and fetchPendingScopeAmendments: what is decided and,
\* as far as the cloud knows, not acknowledged; either fetch may fail.
Fetch(p) ==
    /\ at[p] = "idle"
    /\ \E some \in SUBSET {c \in Call : decision[c] # "requested"} :
          /\ Cardinality(some) \in 1 .. MaxFetched
          /\ todo' = [todo EXCEPT ![p] = {Decided(c, decision[c]) : c \in some}]
    /\ Goto(p, "next")
    /\ UNCHANGED <<rec, lock, decision, current, local, revision, acks>>

\* The approvals first, then the amendments.
Approvals(p) == {d \in todo[p] : d.id \in Approval}

Take(p) ==
    /\ at[p] = "next"
    /\ \E d \in IF Approvals(p) = {} THEN todo[p] ELSE Approvals(p) :
         /\ todo' = [todo EXCEPT ![p] = @ \ {d}]
         /\ current' = [current EXCEPT ![p] = d]
         /\ Goto(p, CASE d.status = "revoked" -> "revoke"
                      [] d.status = "denied" -> "denied"
                      [] OTHER -> IF d.id \in Approval THEN "find" ELSE "load")
    /\ UNCHANGED <<rec, lock, decision, local, revision, acks>>

-----------------------------------------------------------------------------
(* Approvals and revocations *)

\* Mutant of FindGrant: a revoked grant is not one that exists.
FindActiveGrant(p) ==
    /\ at[p] = "find"
    /\ Goto(p, IF \A g \in GrantOf(rec.body, Id(p)) : g.revoked THEN "approve" ELSE "ack")
    /\ UNCHANGED <<rec, lock, decision, todo, current, local, revision, acks>>

\* The record is loaded without the lock to look for the grant of the request,
\* revoked or not.
FindGrant(p) ==
    /\ at[p] = "find"
    /\ Goto(p, IF GrantOf(rec.body, Id(p)) = {} THEN "approve" ELSE "ack")
    /\ UNCHANGED <<rec, lock, decision, todo, current, local, revision, acks>>

\* approveSession and revokeSessionApproval take the lock and load, or throw at
\* their deadline.
Lock(p) ==
    /\ at[p] \in {"approve", "revoke"}
    /\ \/ /\ lock = NoPoll
          /\ lock' = p
          /\ local' = [local EXCEPT ![p] = rec]
          /\ Goto(p, IF at[p] = "approve" THEN "approving" ELSE "revoking")
       \/ /\ lock # NoPoll
          /\ Goto(p, "failed")
          /\ UNCHANGED <<lock, local>>
    /\ UNCHANGED <<rec, decision, todo, current, revision, acks>>

\* The audit trail, which no operation here reads, is not kept.
Persist(p, b) == /\ rec' = [local[p] EXCEPT !.body = [b EXCEPT !.events = {}]]
                 /\ local' = [local EXCEPT ![p] = FreshRecord]

ApproveSession(p) ==
    /\ at[p] = "approving"
    /\ LET b == Approve(Copy(p), Id(p), PathOf[Id(p)], FALSE, {})
       IN Persist(p, b)
    /\ lock' = NoPoll
    /\ Goto(p, "ack")
    /\ UNCHANGED <<decision, todo, current, revision, acks>>

\* By the id of the request; without such a grant it throws.
RevokeSessionApproval(p) ==
    /\ at[p] = "revoking"
    /\ \E g \in RevocationTargets(Copy(p), PathOf[Id(p)], Id(p)) :
          Persist(p, Revoke(Copy(p), Id(p), g, {}))
    /\ lock' = NoPoll
    /\ Goto(p, "ack")
    /\ UNCHANGED <<decision, todo, current, revision, acks>>

-----------------------------------------------------------------------------
(* Scope amendments *)

\* amendAgentPlan takes no lock: it loads ...
LoadPlan(p) ==
    /\ at[p] = "load"
    /\ rec.body.agentPlanRevision < MaxRevision
    /\ local' = [local EXCEPT ![p] = rec]
    /\ Goto(p, "amending")
    /\ UNCHANGED <<rec, lock, decision, todo, current, revision, acks>>

\* Mutant of AmendPlan: the revision answered is the one that was amended.
AmendPlanBefore(p) ==
    /\ at[p] = "amending"
    /\ LET b == RecordRevision(Copy(p), Id(p), Copy(p).agentPlan \cup AddedBy[Id(p)], "human",
                               "plan_amended", {})
       IN Persist(p, b)
    /\ revision' = [revision EXCEPT ![p] = Copy(p).agentPlanRevision]
    /\ Goto(p, "ack")
    /\ UNCHANGED <<lock, decision, todo, current, acks>>

\* ... and persists another revision, whether or not this amendment has been
\* applied before.
AmendPlan(p) ==
    /\ at[p] = "amending"
    /\ LET b == RecordRevision(Copy(p), Id(p), Copy(p).agentPlan \cup AddedBy[Id(p)], "human",
                               "plan_amended", {})
       IN Persist(p, b) /\ revision' = [revision EXCEPT ![p] = b.agentPlanRevision]
    /\ Goto(p, "ack")
    /\ UNCHANGED <<lock, decision, todo, current, acks>>

\* Any of the three operations may throw before it has persisted anything: an
\* invalid input, no such grant, a write that fails.  A lock it has is given back.
OperationThrows(p) ==
    /\ at[p] \in {"approving", "revoking", "amending"}
    /\ local' = [local EXCEPT ![p] = FreshRecord]
    /\ lock' = IF lock = p THEN NoPoll ELSE lock
    /\ Goto(p, "failed")
    /\ UNCHANGED <<rec, decision, todo, current, revision, acks>>

-----------------------------------------------------------------------------
(* Acknowledgements *)

\* That an approval was applied promises nothing that lasts; it is not kept.
Queue(p) == acks' = IF current[p] = Decided(Id(p), "pending") /\ Id(p) \in Approval THEN acks
                    ELSE acks \cup {[id |-> Id(p), revision |-> revision[p]]}

\* The decision is done with, and the poll when it was the last of those left.
Over(p, left) == /\ current' = [current EXCEPT ![p] = Nothing]
                 /\ revision' = [revision EXCEPT ![p] = 0]
                 /\ todo' = [todo EXCEPT ![p] = left]
                 /\ Goto(p, IF left = {} THEN "idle" ELSE "next")

\* The acknowledgement is queued, within the try: when that throws, a failure
\* is acknowledged, although the decision has been applied.
QueueAck(p) ==
    /\ at[p] = "ack"
    /\ \/ Queue(p) /\ Over(p, todo[p])
       \/ Goto(p, "failed") /\ UNCHANGED <<acks, current, revision, todo>>
    /\ UNCHANGED <<rec, lock, decision, local>>

\* The failure, in the catch block, or the denial, outside of any try, is
\* queued, which promises the dashboard nothing about the record; when that
\* throws, the poll is over and its other decisions wait for another one.
QueueOrAbort(p) ==
    /\ at[p] \in {"failed", "denied"}
    /\ Over(p, todo[p]) \/ Over(p, {})
    /\ UNCHANGED <<rec, lock, decision, local, acks>>

-----------------------------------------------------------------------------

Step(p) == \/ Fetch(p) \/ Take(p) \/ FindGrant(p) \/ Lock(p) \/ ApproveSession(p)
           \/ RevokeSessionApproval(p) \/ LoadPlan(p) \/ AmendPlan(p) \/ OperationThrows(p)
           \/ QueueAck(p) \/ QueueOrAbort(p)

Out == {p \in Poll : at[p] \in {"approving", "revoking", "amending"}}

\* The grant of a request disappears, revoked as it is, or is revoked while a
\* poll that has found none is about to make it.
Revoked(c) == \E g \in GrantOf(rec.body, c) : g.revoked
Approving(c) == \E p \in Poll : at[p] \in {"approve", "approving"} /\ Id(p) = c
Excuses(c) == \/ Revoked(c) /\ GrantOf(rec'.body, c) = {}
              \/ ~Revoked(c) /\ Revoked(c)' /\ Approving(c)

Remember == excused' = IF \E p, q \in Out' : p # q THEN Call
                       ELSE excused \cup {c \in Approval : Excuses(c)}

Next == ((\E c \in Call : Decide(c)) \/ \E p \in Poll : Step(p)) /\ Remember

Spec == Init /\ [][Next]_vars

-----------------------------------------------------------------------------
(***************************************************************************)
(* Properties                                                              *)
(***************************************************************************)

Points == {"idle", "next", "find", "approve", "approving", "revoke", "revoking", "load",
           "amending", "ack", "failed", "denied"}
Decision == [id : Call, status : {"pending", "denied", "revoked"}]

\* Among the types: the lock is held by the poll that has loaded to approve or to
\* revoke, and by nobody else.
TypeOK == /\ rec \in Record
          /\ lock \in Poll \cup {NoPoll}
          /\ decision \in [Call -> {"requested", "pending", "denied", "revoked"}]
          /\ at \in [Poll -> Points]
          /\ todo \in [Poll -> SUBSET Decision]
          /\ current \in [Poll -> Decision \cup {Nothing}]
          /\ local \in [Poll -> Record]
          /\ revision \in [Poll -> Nat]
          /\ acks \subseteq [id : Call, revision : Nat]
          /\ excused \subseteq Call
          /\ \A p \in Poll : lock = p <=> at[p] \in {"approving", "revoking"}

\* An approval whose revocation was acknowledged is not in force, however late
\* the polls that still have it as approved, unless its revoked grant gave way to
\* another request for the path, or a poll was already past its search for the
\* grant, or copies of the record overlapped.
RevocationHolds ==
    \A k \in acks : k.id \in Approval /\ k.id \notin excused
        => \A g \in GrantOf(rec.body, k.id) : g.revoked

\* A revision acknowledged for an amendment is in the ledger as that amendment's,
\* with what it added, however often it was applied, unless an amendment's copy of
\* the record, which is loaded and persisted without the lock, overlapped another.
AmendmentHolds ==
    \A k \in acks : k.id \in Amendment /\ k.id \notin excused =>
        \E e \in rec.body.agentPlanRevisions :
            e.revision = k.revision /\ e.id = k.id /\ AddedBy[k.id] \subseteq e.plan
=============================================================================
