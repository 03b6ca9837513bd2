---------------------------- MODULE AtomicSession ----------------------------
(***************************************************************************)
(* What the session operations promise their callers: a record to which    *)
(* each operation is applied at once, none is lost, and a finished session *)
(* is approved, revoked and frozen no more.  GovernedSession is the         *)
(* interleaving of processes that implements it as long as every operation *)
(* takes the lock and looks at the status under it.                        *)
(***************************************************************************)
EXTENDS SessionRecord

VARIABLES
    rec,      \* the record
    pointed,  \* does the active pointer name the session?
    expired   \* the grants whose expiresAt has passed

Init == rec = FreshRecord /\ pointed = TRUE /\ expired = {}

Becomes(b) == rec' = [rec EXCEPT !.body = b]

AppendEvent(c) == Becomes(Append(rec.body, c)) /\ UNCHANGED <<pointed, expired>>

ApproveSession(c) ==
    /\ rec.body.status = "active"
    /\ \E path \in Path, expires \in BOOLEAN :
          /\ expired' \in {expired} \cup (IF expires THEN {expired \cup {c}} ELSE {})
          /\ Becomes(Approve(rec.body, c, path, expires, expired'))
    /\ UNCHANGED pointed

RevokeSessionApproval(c) ==
    /\ rec.body.status = "active"
    /\ \E target \in rec.body.approvalGrants : Becomes(Revoke(rec.body, c, target, expired))
    /\ UNCHANGED <<pointed, expired>>

\* The clean-ups run with the time of their call, which may be long ago.
ExpireSessionApprovals(c) ==
    /\ \E past \in SUBSET expired :
          ~NothingToExpire(rec.body, past) /\ Becomes(Expire(rec.body, c, past))
    /\ UNCHANGED <<pointed, expired>>

RefreshObligations(c) ==
    /\ \E past \in SUBSET expired : Becomes(Recompute(rec.body, past, c))
    /\ UNCHANGED <<pointed, expired>>

SetPlanFrozen(c) ==
    /\ rec.body.status = "active"
    /\ \E frozen \in BOOLEAN : Becomes(SetFrozen(rec.body, c, frozen))
    /\ UNCHANGED <<pointed, expired>>

FinishSession(c) ==
    /\ rec' = Finish(rec.body, c, expired)
    /\ UNCHANGED <<pointed, expired>>

\* Only a finished session loses its pointer.
ClearActiveSession ==
    /\ rec.body.status = "finished"
    /\ pointed' = FALSE
    /\ UNCHANGED <<rec, expired>>

Tick == /\ expired' \in {expired \cup {c} : c \in Call}
        /\ UNCHANGED <<rec, pointed>>

Next == \/ \E c \in Call : \/ AppendEvent(c) \/ ApproveSession(c) \/ RevokeSessionApproval(c)
                           \/ ExpireSessionApprovals(c) \/ RefreshObligations(c)
                           \/ SetPlanFrozen(c) \/ FinishSession(c)
        \/ ClearActiveSession
        \/ Tick

Spec == Init /\ [][Next]_<<rec, pointed, expired>>
=============================================================================
