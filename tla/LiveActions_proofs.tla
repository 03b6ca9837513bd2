-------------------------- MODULE LiveActions_proofs --------------------------
(***************************************************************************)
(* What the dashboard may rely on for any number of requests, paths and    *)
(* polls.                                                                  *)
(***************************************************************************)
EXTENDS LiveActions, SessionRecord_proofs

\* A decision is of a request it can be of, and a poll at work on it.
Fits(d) == /\ d \in Decision
           /\ d.status = "denied" => d.id \in Amendment
           /\ d.status = "revoked" => d.id \in Approval

Shape ==
    /\ \A c \in Call : /\ decision[c] = "denied" => c \in Amendment
                       /\ decision[c] = "revoked" => c \in Approval
    /\ \A p \in Poll :
          /\ \A d \in todo[p] : Fits(d)
          /\ at[p] \notin {"idle", "next"} => Fits(current[p])
          /\ at[p] \in {"find", "approve", "approving"}
                => Id(p) \in Approval /\ current[p].status = "pending"
          /\ at[p] \in {"revoke", "revoking"}
                => Id(p) \in Approval /\ current[p].status = "revoked"
          /\ at[p] \in {"load", "amending"}
                => Id(p) \in Amendment /\ current[p].status = "pending"
          /\ at[p] = "ack" => current[p].status # "denied"

\* A grant has the path of its request, which has no other; and no ledger is
\* ahead of the plan's revision.
BodySound(b) == /\ \A g \in b.approvalGrants : g.id \in Approval /\ g.path = PathOf[g.id]
                /\ \A g, h \in b.approvalGrants : g.id = h.id => g = h
                /\ \A e \in b.agentPlanRevisions : e.revision <= b.agentPlanRevision

Bodies == BodySound(rec.body) /\ \A p \in Poll : BodySound(local[p].body)

\* Until copies of the record overlap there is one at most, and it is fresh.
Fresh == excused # Call => /\ \A p, q \in Out : p = q
                           /\ \A p \in Out : local[p] = rec

\* Nobody is about to approve what is revoked.
Unapproved == \A c \in Approval \ excused : ~(Revoked(c) /\ Approving(c))

\* A revocation acknowledged, or about to be, has left a revoked grant.
Withdrawn(c) == \/ \E k \in acks : k.id = c
                \/ \E p \in Poll : at[p] = "ack" /\ current[p] = Decided(c, "revoked")
Down(c) == GrantOf(rec.body, c) # {} /\ \A g \in GrantOf(rec.body, c) : g.revoked
Revocations == \A c \in Approval \ excused : Withdrawn(c) => Down(c)

\* So is the revision of an amendment acknowledged, or about to be, in the ledger.
Given(c, n) == \/ \E k \in acks : k.id = c /\ k.revision = n
               \/ \E p \in Poll : at[p] = "ack" /\ Id(p) = c /\ revision[p] = n
InLedger(b, c, n) == \E e \in b.agentPlanRevisions :
                        e.revision = n /\ e.id = c /\ AddedBy[c] \subseteq e.plan
Amendments == \A c \in Amendment \ excused, n \in Nat : Given(c, n) => InLedger(rec.body, c, n)

IInv == TypeOK /\ Shape /\ Bodies /\ Fresh /\ Unapproved /\ Revocations /\ Amendments

-----------------------------------------------------------------------------
(* What the operations make of a sound body *)

LEMMA NoGrants == FreshRecord \in Record /\ BodySound(FreshRecord.body)
BY DEF FreshRecord, FreshBody, Record, Body, BodySound

\* An approval makes one grant, which replaces those of its path.
LEMMA ApproveBody ==
    ASSUME NEW b \in Body, BodySound(b), NEW c \in Approval
    PROVE  LET r == Approve(b, c, PathOf[c], FALSE, {})
           IN  /\ r \in Body /\ BodySound(r)
               /\ \A g \in r.approvalGrants : g \in b.approvalGrants \/ g.id = c
               /\ r.agentPlanRevisions = b.agentPlanRevisions
<1> USE LiveAssumption
<1> DEFINE grant == [path |-> PathOf[c], id |-> c, expires |-> FALSE, revoked |-> FALSE,
                     planRevision |-> b.agentPlanRevision]
           grants == {g \in b.approvalGrants : g.path # PathOf[c]} \cup {grant}
           granted == [b EXCEPT !.approvalGrants = {g \in @ : g.path # PathOf[c]} \cup {grant},
                                !.events = @ \cup {Stamp("approved", c)}]
           marked == [granted EXCEPT !.approvedPaths = ActivePaths(granted, {})]
           r == Approve(b, c, PathOf[c], FALSE, {})
<1>1. c \in Call /\ PathOf[c] \in Path /\ {} \in SUBSET Call
  OBVIOUS
<1>2. grant \in Grant /\ grant.id = c /\ grant.path = PathOf[c]
  BY <1>1 DEF Grant, Body
<1> HIDE DEF grant
<1>3. granted \in Body
  BY <1>1, <1>2, StampType DEF Body, Kinds
<1>4. marked \in Body
  BY <1>1, <1>3, ActivePathsType DEF Body
<1>5. r = Recompute(marked, {}, c)
  BY DEF Approve, grant
<1>6. /\ marked.approvalGrants = grants
      /\ marked.agentPlanRevisions = b.agentPlanRevisions
      /\ marked.agentPlanRevision = b.agentPlanRevision
  BY DEF Body
<1> HIDE DEF marked, r
<1>7. /\ r \in Body /\ r.approvalGrants = grants
      /\ r.agentPlanRevisions = b.agentPlanRevisions
      /\ r.agentPlanRevision = b.agentPlanRevision
  BY <1>1, <1>4, <1>5, <1>6, RecomputeType, RecomputeFrame
<1>8. BodySound(r)
  BY <1>2, <1>7 DEF BodySound
<1> QED
  BY <1>2, <1>7, <1>8 DEF r

\* A revocation leaves the grant in place, revoked.
LEMMA RevokeBody ==
    ASSUME NEW b \in Body, BodySound(b), NEW c \in Call, NEW t \in b.approvalGrants
    PROVE  LET r == Revoke(b, c, t, {})
           IN  /\ r \in Body /\ BodySound(r)
               /\ \A g \in r.approvalGrants : g \in b.approvalGrants \/ g.revoked
               /\ r.agentPlanRevisions = b.agentPlanRevisions
               /\ GrantOf(r, t.id) # {} /\ \A g \in GrantOf(r, t.id) : g.revoked
<1> DEFINE u == [t EXCEPT !.revoked = TRUE]
           event == [type |-> "revoked", by |-> c, of |-> t.id]
           revoked == IF t.revoked THEN b ELSE
                      [b EXCEPT !.approvalGrants = (@ \ {t}) \cup {u},
                                !.events = @ \cup {event}]
           marked == [revoked EXCEPT !.approvedPaths = ActivePaths(revoked, {})]
           r == Revoke(b, c, t, {})
<1>1. {} \in SUBSET Call /\ t \in Grant
  BY DEF Body
<1>2. u \in Grant /\ u.id = t.id /\ u.path = t.path /\ u.revoked
  BY <1>1 DEF Grant
<1>3. event \in Event
  BY <1>1 DEF Grant, Event, Kinds
<1>4. r = Recompute(marked, {}, c)
  BY DEF Revoke
<1> HIDE DEF u, event
<1>5. revoked \in Body
  BY <1>2, <1>3 DEF Body
<1>6. /\ revoked.approvalGrants = IF t.revoked THEN b.approvalGrants
                                  ELSE (b.approvalGrants \ {t}) \cup {u}
      /\ revoked.agentPlanRevisions = b.agentPlanRevisions
      /\ revoked.agentPlanRevision = b.agentPlanRevision
  BY DEF Body
<1> HIDE DEF revoked
<1>7. marked \in Body
  BY <1>1, <1>5, ActivePathsType DEF Body
<1>8. /\ marked.approvalGrants = revoked.approvalGrants
      /\ marked.agentPlanRevisions = revoked.agentPlanRevisions
      /\ marked.agentPlanRevision = revoked.agentPlanRevision
  BY <1>5 DEF Body
<1> HIDE DEF marked
<1>9. /\ r \in Body /\ r.approvalGrants = revoked.approvalGrants
      /\ r.agentPlanRevisions = b.agentPlanRevisions
      /\ r.agentPlanRevision = b.agentPlanRevision
  BY <1>1, <1>4, <1>6, <1>7, <1>8, RecomputeType, RecomputeFrame
<1> HIDE DEF r
<1>10. CASE t.revoked
  BY <1>6, <1>9, <1>10 DEF BodySound, GrantOf, r
<1>11. CASE ~t.revoked
  <2>1. r.approvalGrants = (b.approvalGrants \ {t}) \cup {u}
    BY <1>6, <1>9, <1>11
  <2>2. BodySound(r)
    BY <1>2, <1>9, <2>1 DEF BodySound
  <2>3. u \in GrantOf(r, t.id) /\ \A g \in GrantOf(r, t.id) : g = u
    BY <1>2, <2>1 DEF GrantOf, BodySound
  <2> QED
    BY <1>2, <1>9, <2>1, <2>2, <2>3 DEF r
<1> QED
  BY <1>10, <1>11

\* An amendment adds its entry to the ledger.
LEMMA AmendBody ==
    ASSUME NEW b \in Body, BodySound(b), NEW c \in Call, NEW plan \in SUBSET Item
    PROVE  LET r == RecordRevision(b, c, plan, "human", "plan_amended", {})
           IN  /\ r \in Body /\ BodySound(r)
               /\ r.approvalGrants = b.approvalGrants
               /\ b.agentPlanRevisions \subseteq r.agentPlanRevisions
               /\ \E e \in r.agentPlanRevisions :
                     e.revision = r.agentPlanRevision /\ e.id = c /\ e.plan = plan
<1> DEFINE n == b.agentPlanRevision + 1
           kept == {e \in b.agentPlanRevisions : e.revision < n}
           entry == Entry(n, c, plan, "human")
           planned == [b EXCEPT !.agentPlan = plan,
                                !.agentPlanRevision = n,
                                !.agentPlanRevisions = kept \cup {entry},
                                !.events = @ \cup {Stamp("plan_amended", c)}]
           done == Recompute(planned, {}, c)
           r == RecordRevision(b, c, plan, "human", "plan_amended", {})
<1>1. r \in Body
  BY RecordRevisionType DEF Author, Kinds
<1>2. b.agentPlanRevision \in Nat /\ \A e \in b.agentPlanRevisions : e.revision \in Nat
  BY DEF Body, Revision
<1>3. n \in Nat /\ kept = b.agentPlanRevisions
  BY <1>2 DEF BodySound
<1>4. entry \in Revision /\ entry.revision = n /\ entry.id = c /\ entry.plan = plan
  BY <1>3 DEF Revision, Entry, Author
<1>5. r = [done EXCEPT !.allowed = @ \cup plan]
  BY DEF RecordRevision
<1> HIDE DEF entry, kept
<1>6. planned \in Body
  BY <1>3, <1>4, StampType DEF Body, Kinds
<1>7. /\ planned.approvalGrants = b.approvalGrants
      /\ planned.agentPlanRevision = n
      /\ planned.agentPlanRevisions = b.agentPlanRevisions \cup {entry}
  BY <1>3 DEF Body
<1> HIDE DEF planned
<1>8. /\ done \in Body
      /\ done.approvalGrants = b.approvalGrants
      /\ done.agentPlanRevision = n
      /\ done.agentPlanRevisions = b.agentPlanRevisions \cup {entry}
  BY <1>6, <1>7, RecomputeType, RecomputeFrame
<1> HIDE DEF done, r
<1>9. /\ r.approvalGrants = b.approvalGrants
      /\ r.agentPlanRevision = n
      /\ r.agentPlanRevisions = b.agentPlanRevisions \cup {entry}
  BY <1>5, <1>8 DEF Body
<1>10. BodySound(r)
  BY <1>2, <1>4, <1>9 DEF BodySound
<1> QED
  BY <1>1, <1>4, <1>9, <1>10 DEF r

-----------------------------------------------------------------------------
(* What a step has to keep *)

\* A step of p leaves what the other polls hold.
Others(p) == /\ at' \in [Poll -> Points] /\ current' \in [Poll -> Decision \cup {Nothing}]
             /\ todo' \in [Poll -> SUBSET Decision] /\ local' \in [Poll -> Record]
             /\ revision' \in [Poll -> Nat]
             /\ \A q \in Poll \ {p} : /\ at'[q] = at[q] /\ current'[q] = current[q]
                                      /\ todo'[q] = todo[q] /\ local'[q] = local[q]
                                      /\ revision'[q] = revision[q]

LEMMA GotoAt ==
    ASSUME TypeOK, NEW p \in Poll, NEW l \in Points, Goto(p, l)
    PROVE  at' \in [Poll -> Points] /\ at'[p] = l /\ \A q \in Poll \ {p} : at'[q] = at[q]
BY DEF TypeOK, Goto

\* Nothing that was excused is not, and what has to be excused is.
LEMMA Remembered ==
    ASSUME TypeOK, Remember
    PROVE  /\ excused \subseteq excused' /\ excused' \subseteq Call
           /\ excused' # Call => /\ excused # Call
                                 /\ \A p, q \in Out' : p = q
                                 /\ \A c \in Approval : Excuses(c) => c \in excused'
<1> USE LiveAssumption
<1>1. CASE \E p, q \in Out' : p # q
  BY <1>1 DEF TypeOK, Remember
<1>2. CASE ~ \E p, q \in Out' : p # q
  <2>1. excused' = excused \cup {c \in Approval : Excuses(c)}
    BY <1>2 DEF Remember
  <2> QED
    BY <1>2, <2>1 DEF TypeOK
<1> QED
  BY <1>1, <1>2

\* The types and the shape after a step of p, from what p has after it.
LEMMA StepShape ==
    ASSUME IInv, NEW p \in Poll, Others(p), Remember, UNCHANGED decision,
           rec' \in Record, acks' \subseteq [id : Call, revision : Nat],
           lock' \in {lock, p, NoPoll},
           lock' # lock => p \in {lock, lock'} /\ NoPoll \in {lock, lock'},
           lock' = p <=> at'[p] \in {"approving", "revoking"},
           \A d \in todo'[p] : Fits(d),
           at'[p] \notin {"idle", "next"} => Fits(current'[p]),
           at'[p] \in {"find", "approve", "approving"}
              => current'[p].id \in Approval /\ current'[p].status = "pending",
           at'[p] \in {"revoke", "revoking"}
              => current'[p].id \in Approval /\ current'[p].status = "revoked",
           at'[p] \in {"load", "amending"}
              => current'[p].id \in Amendment /\ current'[p].status = "pending",
           at'[p] = "ack" => current'[p].status # "denied"
    PROVE  TypeOK' /\ Shape'
<1> USE LiveAssumption
<1>1. excused' \subseteq Call
  BY Remembered DEF IInv
<1>2. \A q \in Poll : lock' = q <=> at'[q] \in {"approving", "revoking"}
  <2> SUFFICES ASSUME NEW q \in Poll \ {p}
               PROVE  lock' = q <=> at'[q] \in {"approving", "revoking"}
    OBVIOUS
  <2>1. at'[q] = at[q] /\ (lock = q <=> at[q] \in {"approving", "revoking"})
    BY DEF Others, IInv, TypeOK
  <2> QED
    BY <2>1
<1>3. TypeOK'
  BY <1>1, <1>2 DEF IInv, TypeOK, Others
<1>4. \A q \in Poll \ {p} : /\ at'[q] = at[q] /\ current'[q] = current[q]
                            /\ todo'[q] = todo[q]
  BY DEF Others
<1>5. Shape'
  BY <1>4 DEF IInv, Shape, Id, Fits
<1> QED
  BY <1>3, <1>5

\* A step of p that leaves the record alone.
LEMMA SameRecord ==
    ASSUME IInv, NEW p \in Poll, TypeOK', Shape', Others(p), UNCHANGED rec, Remember,
           local'[p] \in {local[p], rec, FreshRecord},
           p \in Out' => local'[p] = rec,
           at'[p] \in {"approve", "approving"}
              => GrantOf(rec.body, Id(p)') = {}
                 \/ (at[p] \in {"approve", "approving"} /\ Id(p)' = Id(p)),
           \A c \in Approval : Withdrawn(c)' => Withdrawn(c),
           \A c \in Amendment, n \in Nat : Given(c, n)' => Given(c, n)
    PROVE  IInv'
<1> USE LiveAssumption
<1>1. Bodies'
  BY NoGrants DEF IInv, Bodies, Others, BodySound
<1>2. Fresh'
  BY Remembered DEF IInv, Fresh, Out, Others
<1>3. Unapproved'
  <2> SUFFICES ASSUME NEW c \in Approval \ excused', Revoked(c), Approving(c)'
               PROVE  FALSE
    BY DEF Unapproved, Revoked
  <2>1. Approving(c)
    BY DEF Approving, Revoked, Others, Id
  <2> QED
    BY <2>1, Remembered DEF IInv, Unapproved
<1>4. Revocations'
  BY Remembered DEF IInv, Revocations, Down
<1>5. Amendments'
  BY Remembered DEF IInv, Amendments
<1> QED
  BY <1>1, <1>2, <1>3, <1>4, <1>5 DEF IInv

\* A step of p that persists b in place of the record it had loaded.
LEMMA NewRecord ==
    ASSUME IInv, NEW p \in Poll, TypeOK', Shape', Others(p), Remember, UNCHANGED acks,
           p \in Out, at'[p] = "ack", current'[p] = current[p],
           NEW b \in Body, BodySound(b), Persist(p, b),
           \A g \in b.approvalGrants : \/ g \in Copy(p).approvalGrants
                                       \/ g.revoked
                                       \/ Approving(g.id),
           current[p].status = "revoked"
              => GrantOf(b, Id(p)) # {} /\ \A g \in GrantOf(b, Id(p)) : g.revoked,
           Copy(p).agentPlanRevisions \subseteq b.agentPlanRevisions,
           Id(p) \in Amendment => InLedger(b, Id(p), revision'[p])
    PROVE  IInv'
<1> USE LiveAssumption
<1>1. /\ rec'.body.approvalGrants = b.approvalGrants
      /\ rec'.body.agentPlanRevisions = b.agentPlanRevisions
      /\ rec'.body.agentPlanRevision = b.agentPlanRevision
      /\ local'[p] = FreshRecord
  <2>1. [b EXCEPT !.events = {}] \in Body
    BY DEF Body
  <2>2. rec'.body = [b EXCEPT !.events = {}]
    BY DEF Persist, IInv, TypeOK, Record
  <2>3. local'[p] = FreshRecord
    BY DEF Persist, IInv, TypeOK
  <2> QED
    BY <2>2, <2>3 DEF Body
<1>2. Bodies'
  BY <1>1, NoGrants DEF IInv, Bodies, Others, BodySound
<1>3. Out' \subseteq Out \ {p}
  BY DEF Out, Others
<1>4. Fresh'
  <2> SUFFICES ASSUME excused' # Call PROVE Out' = {}
    BY DEF Fresh
  <2>1. \A q, s \in Out : q = s
    BY Remembered DEF IInv, Fresh
  <2> QED
    BY <1>3, <2>1
<1>5. ASSUME NEW c \in Approval \ excused'
      PROVE  /\ c \notin excused /\ local[p] = rec /\ ~Excuses(c)
             /\ Approving(c)' => Approving(c)
             /\ ~(Revoked(c) /\ Approving(c))
  <2>1. excused' # Call
    BY <1>5
  <2>2. Approving(c)' => Approving(c)
    BY DEF Approving, Others, Id
  <2> QED
    BY <1>5, <2>1, <2>2, Remembered DEF IInv, Fresh, Unapproved
<1>6. Unapproved'
  BY <1>5 DEF Unapproved, Excuses
<1>7. Revocations'
  <2> SUFFICES ASSUME NEW c \in Approval \ excused', Withdrawn(c)' PROVE Down(c)'
    BY DEF Revocations
  <2>1. GrantOf(rec.body, c)' = GrantOf(b, c)
    BY <1>1 DEF GrantOf
  <2>2. CASE Withdrawn(c)
    <3>1. Down(c)
      BY <1>5, <2>2 DEF IInv, Revocations
    <3>2. Revoked(c) /\ ~Approving(c)
      BY <1>5, <3>1 DEF Down, Revoked
    <3>3. GrantOf(rec'.body, c) # {}
      BY <1>5, <3>2 DEF Excuses
    <3>4. \A g \in GrantOf(b, c) : g.revoked
      BY <1>5, <3>1, <3>2 DEF Down, GrantOf, Copy
    <3> QED
      BY <2>1, <3>3, <3>4 DEF Down
  <2>3. CASE current[p] = Decided(c, "revoked")
    <3>1. Id(p) = c /\ current[p].status = "revoked"
      BY <2>3 DEF Id, Decided
    <3> QED
      BY <2>1, <3>1 DEF Down
  <2> QED
    BY <2>2, <2>3 DEF Withdrawn, Others
<1>8. Amendments'
  <2> SUFFICES ASSUME NEW c \in Amendment \ excused', NEW n \in Nat, Given(c, n)'
               PROVE  InLedger(b, c, n)
    BY <1>1 DEF Amendments, InLedger
  <2>1. CASE Given(c, n)
    <3>1. excused' # Call /\ c \notin excused
      BY Remembered DEF IInv
    <3>2. local[p] = rec
      BY <3>1, Remembered DEF IInv, Fresh
    <3>3. InLedger(rec.body, c, n)
      BY <2>1, <3>1 DEF IInv, Amendments
    <3> QED
      BY <3>2, <3>3 DEF InLedger, Copy
  <2>2. CASE Id(p) = c /\ revision'[p] = n
    BY <2>2
  <2> QED
    BY <2>1, <2>2 DEF Given, Others, Id
<1> QED
  BY <1>2, <1>4, <1>6, <1>7, <1>8 DEF IInv

-----------------------------------------------------------------------------
(* The steps *)

LEMMA DecideInv ==
    ASSUME IInv, NEW c \in Call, Decide(c), Remember
    PROVE  IInv'
<1> USE LiveAssumption
<1>1. UNCHANGED <<rec, lock, at, todo, current, local, revision, acks>>
  BY DEF Decide
<1>2. /\ decision' \in [Call -> {"requested", "pending", "denied", "revoked"}]
      /\ \A d \in Call : /\ decision'[d] = "denied" => d \in Amendment
                         /\ decision'[d] = "revoked" => d \in Approval
  BY DEF Decide, IInv, TypeOK, Shape
<1>3. excused \subseteq excused' /\ excused' \subseteq Call
  BY Remembered DEF IInv
<1>4. TypeOK'
  BY <1>1, <1>2, <1>3 DEF IInv, TypeOK
<1>5. Shape'
  BY <1>1, <1>2 DEF IInv, Shape, Id, Fits
<1>6. Bodies' /\ Fresh'
  BY <1>1, <1>3, Remembered DEF IInv, Bodies, Fresh, Out
<1>7. Unapproved'
  BY <1>1, <1>3 DEF IInv, Unapproved, Revoked, Approving, Id
<1>8. Revocations'
  BY <1>1, <1>3 DEF IInv, Revocations, Withdrawn, Down
<1>9. Amendments'
  BY <1>1, <1>3 DEF IInv, Amendments, Given, Id
<1> QED
  BY <1>4, <1>5, <1>6, <1>7, <1>8, <1>9 DEF IInv

\* What a step leaves of the acknowledgements that count.
LEMMA SameAcks ==
    ASSUME NEW p \in Poll, Others(p), UNCHANGED acks, at'[p] # "ack"
    PROVE  /\ \A c : Withdrawn(c)' => Withdrawn(c)
           /\ \A c, n : Given(c, n)' => Given(c, n)
BY DEF Others, Withdrawn, Given, Id

LEMMA FetchInv ==
    ASSUME IInv, NEW p \in Poll, Fetch(p), Remember
    PROVE  IInv'
<1>1. /\ UNCHANGED <<rec, lock, decision, current, local, revision, acks>>
      /\ at[p] = "idle" /\ Goto(p, "next")
  BY DEF Fetch
<1>2. at' \in [Poll -> Points] /\ at'[p] = "next" /\ \A q \in Poll \ {p} : at'[q] = at[q]
  BY <1>1, GotoAt DEF IInv, Points
<1>3. PICK some \in SUBSET {c \in Call : decision[c] # "requested"} :
        todo' = [todo EXCEPT ![p] = {Decided(c, decision[c]) : c \in some}]
  BY DEF Fetch
<1>4. \A c \in some : Fits(Decided(c, decision[c]))
  <2> TAKE c \in some
  <2>1. c \in Call /\ decision[c] \in {"pending", "denied", "revoked"}
    BY DEF IInv, TypeOK
  <2> QED
    BY <2>1 DEF IInv, Shape, Decided, Fits, Decision
<1> DEFINE fetched == {Decided(c, decision[c]) : c \in some}
<1>5. fetched \in SUBSET Decision /\ \A d \in fetched : Fits(d)
  BY <1>4 DEF Fits
<1> HIDE DEF fetched
<1>6. /\ todo' \in [Poll -> SUBSET Decision] /\ todo'[p] = fetched
      /\ \A q \in Poll \ {p} : todo'[q] = todo[q]
  BY <1>3, <1>5 DEF IInv, TypeOK, fetched
<1>7. Others(p)
  BY <1>1, <1>2, <1>6 DEF Others, IInv, TypeOK
<1>8. TypeOK' /\ Shape'
  BY <1>1, <1>2, <1>5, <1>6, <1>7, StepShape DEF IInv, TypeOK
<1> QED
  BY <1>1, <1>2, <1>7, <1>8, SameAcks, SameRecord DEF IInv, TypeOK, Out

LEMMA TakeInv ==
    ASSUME IInv, NEW p \in Poll, Take(p), Remember
    PROVE  IInv'
<1> USE LiveAssumption
<1>1. /\ UNCHANGED <<rec, lock, decision, local, revision, acks>> /\ at[p] = "next"
  BY DEF Take
<1>2. PICK d \in todo[p] :
         /\ todo' = [todo EXCEPT ![p] = @ \ {d}]
         /\ current' = [current EXCEPT ![p] = d]
         /\ Goto(p, CASE d.status = "revoked" -> "revoke"
                      [] d.status = "denied" -> "denied"
                      [] OTHER -> IF d.id \in Approval THEN "find" ELSE "load")
  BY DEF Take, Approvals
<1>3. Fits(d)
  BY DEF IInv, Shape
<1>4. PICK l \in {"revoke", "denied", "find", "load"} :
        /\ Goto(p, l)
        /\ l = "revoke" => d.id \in Approval /\ d.status = "revoked"
        /\ l = "find" => d.id \in Approval /\ d.status = "pending"
        /\ l = "load" => d.id \in Amendment /\ d.status = "pending"
  BY <1>2, <1>3 DEF Fits, Decision
<1>5. at' \in [Poll -> Points] /\ at'[p] = l /\ \A q \in Poll \ {p} : at'[q] = at[q]
  BY <1>4, GotoAt DEF IInv, Points
<1>6. /\ todo' \in [Poll -> SUBSET Decision] /\ todo'[p] \subseteq todo[p]
      /\ current' \in [Poll -> Decision \cup {Nothing}] /\ current'[p] = d
      /\ \A q \in Poll \ {p} : todo'[q] = todo[q] /\ current'[q] = current[q]
  BY <1>2 DEF IInv, TypeOK
<1>7. Others(p)
  BY <1>1, <1>5, <1>6 DEF Others, IInv, TypeOK
<1>8. TypeOK' /\ Shape'
  <2>1. \A e \in todo'[p] : Fits(e)
    BY <1>6 DEF IInv, Shape
  <2> QED
    BY <1>1, <1>3, <1>4, <1>5, <1>6, <1>7, <2>1, StepShape DEF IInv, TypeOK
<1> QED
  BY <1>1, <1>5, <1>7, <1>8, SameAcks, SameRecord DEF IInv, TypeOK, Out

LEMMA FindGrantInv ==
    ASSUME IInv, NEW p \in Poll, FindGrant(p), Remember
    PROVE  IInv'
<1> USE LiveAssumption
<1>1. /\ UNCHANGED <<rec, lock, decision, todo, current, local, revision, acks>>
      /\ at[p] = "find"
  BY DEF FindGrant
<1>2. PICK l \in {"approve", "ack"} :
        Goto(p, l) /\ (l = "approve" => GrantOf(rec.body, Id(p)) = {})
  BY DEF FindGrant
<1>3. at' \in [Poll -> Points] /\ at'[p] = l /\ \A q \in Poll \ {p} : at'[q] = at[q]
  BY <1>2, GotoAt DEF IInv, Points
<1>4. Others(p)
  BY <1>1, <1>3 DEF Others, IInv, TypeOK
<1>5. Fits(current[p]) /\ Id(p) \in Approval /\ current[p].status = "pending" /\ Id(p)' = Id(p)
  BY <1>1 DEF IInv, Shape, Id
<1>6. TypeOK' /\ Shape'
  <2>1. \A d \in todo'[p] : Fits(d)
    BY <1>1 DEF IInv, Shape
  <2> QED
    BY <1>1, <1>3, <1>4, <1>5, <2>1, StepShape DEF IInv, TypeOK, Id
<1>7. \A c \in Approval : Withdrawn(c)' => Withdrawn(c)
  BY <1>1, <1>4, <1>5 DEF Withdrawn, Others, Decided
<1>8. \A c \in Amendment, n \in Nat : Given(c, n)' => Given(c, n)
  BY <1>1, <1>4, <1>5 DEF Given, Others, Id
<1> QED
  BY <1>1, <1>2, <1>3, <1>4, <1>5, <1>6, <1>7, <1>8, SameRecord DEF Out

LEMMA LockInv ==
    ASSUME IInv, NEW p \in Poll, Lock(p), Remember
    PROVE  IInv'
<1> USE LiveAssumption
<1>1. /\ UNCHANGED <<rec, decision, todo, current, revision, acks>>
      /\ at[p] \in {"approve", "revoke"} /\ Fits(current[p]) /\ Id(p)' = Id(p)
      /\ \A d \in todo'[p] : Fits(d)
  BY DEF Lock, IInv, Shape, Id
<1>2. CASE /\ lock = NoPoll /\ lock' = p /\ local' = [local EXCEPT ![p] = rec]
           /\ Goto(p, IF at[p] = "approve" THEN "approving" ELSE "revoking")
  <2>1. PICK l \in {"approving", "revoking"} :
          Goto(p, l) /\ (l = "approving" <=> at[p] = "approve")
    BY <1>2
  <2>2. at' \in [Poll -> Points] /\ at'[p] = l /\ \A q \in Poll \ {p} : at'[q] = at[q]
    BY <2>1, GotoAt DEF IInv, Points
  <2>3. /\ local' \in [Poll -> Record] /\ local'[p] = rec
        /\ \A q \in Poll \ {p} : local'[q] = local[q]
    BY <1>2 DEF IInv, TypeOK
  <2>4. Others(p)
    BY <1>1, <2>2, <2>3 DEF Others, IInv, TypeOK
  <2>5. TypeOK' /\ Shape'
    <3>1. /\ at'[p] = "approving" => Id(p) \in Approval /\ current[p].status = "pending"
          /\ at'[p] = "revoking" => Id(p) \in Approval /\ current[p].status = "revoked"
      BY <1>1, <2>1, <2>2 DEF IInv, Shape
    <3> QED
      BY <1>1, <1>2, <2>2, <2>4, <3>1, StepShape DEF IInv, TypeOK, Id
  <2>6. at'[p] = "approving" => at[p] = "approve"
    BY <2>1, <2>2
  <2> QED
    BY <1>1, <2>2, <2>3, <2>4, <2>5, <2>6, SameAcks, SameRecord
<1>3. CASE lock # NoPoll /\ Goto(p, "failed") /\ UNCHANGED <<lock, local>>
  <2>1. at' \in [Poll -> Points] /\ at'[p] = "failed" /\ \A q \in Poll \ {p} : at'[q] = at[q]
    BY <1>3, GotoAt DEF IInv, Points
  <2>2. Others(p)
    BY <1>1, <1>3, <2>1 DEF Others, IInv, TypeOK
  <2>3. TypeOK' /\ Shape'
    BY <1>1, <1>3, <2>1, <2>2, StepShape DEF IInv, TypeOK
  <2> QED
    BY <1>1, <1>3, <2>1, <2>2, <2>3, SameAcks, SameRecord DEF Out
<1> QED
  BY <1>2, <1>3 DEF Lock

LEMMA LoadPlanInv ==
    ASSUME IInv, NEW p \in Poll, LoadPlan(p), Remember
    PROVE  IInv'
<1> USE LiveAssumption
<1>1. /\ UNCHANGED <<rec, lock, decision, todo, current, revision, acks>>
      /\ at[p] = "load" /\ Fits(current[p]) /\ Id(p) \in Amendment
      /\ current[p].status = "pending"
      /\ \A d \in todo'[p] : Fits(d)
      /\ Goto(p, "amending")
  BY DEF LoadPlan, IInv, Shape
<1>2. at' \in [Poll -> Points] /\ at'[p] = "amending" /\ \A q \in Poll \ {p} : at'[q] = at[q]
  BY <1>1, GotoAt DEF IInv, Points
<1>3. /\ local' \in [Poll -> Record] /\ local'[p] = rec
      /\ \A q \in Poll \ {p} : local'[q] = local[q]
  BY DEF LoadPlan, IInv, TypeOK
<1>4. Others(p)
  BY <1>1, <1>2, <1>3 DEF Others, IInv, TypeOK
<1>5. TypeOK' /\ Shape'
  BY <1>1, <1>2, <1>4, StepShape DEF IInv, TypeOK, Id
<1> QED
  BY <1>1, <1>2, <1>3, <1>4, <1>5, SameAcks, SameRecord

\* A poll that is done with a decision: it acknowledges, or gives up.
LEMMA OverPoll ==
    ASSUME IInv, NEW p \in Poll, NEW left \in SUBSET todo[p], Over(p, left)
    PROVE  /\ at' \in [Poll -> Points] /\ at'[p] \in {"idle", "next"}
           /\ todo' \in [Poll -> SUBSET Decision] /\ todo'[p] = left
           /\ current' \in [Poll -> Decision \cup {Nothing}]
           /\ revision' \in [Poll -> Nat]
           /\ \A d \in left : Fits(d)
           /\ \A q \in Poll \ {p} : /\ at'[q] = at[q] /\ current'[q] = current[q]
                                    /\ todo'[q] = todo[q] /\ revision'[q] = revision[q]
<1>1. left \in SUBSET Decision /\ \A d \in left : Fits(d)
  BY DEF IInv, TypeOK, Shape
<1>2. PICK l \in {"idle", "next"} : Goto(p, l)
  BY DEF Over
<1>3. at' \in [Poll -> Points] /\ at'[p] = l /\ \A q \in Poll \ {p} : at'[q] = at[q]
  BY <1>2, GotoAt DEF IInv, Points
<1> QED
  BY <1>1, <1>3 DEF Over, IInv, TypeOK

LEMMA QueueAckInv ==
    ASSUME IInv, NEW p \in Poll, QueueAck(p), Remember
    PROVE  IInv'
<1> USE LiveAssumption
<1>1. /\ UNCHANGED <<rec, lock, decision, local>> /\ at[p] = "ack"
      /\ Fits(current[p]) /\ current[p].status # "denied" /\ \A d \in todo[p] : Fits(d)
  BY DEF QueueAck, IInv, Shape
<1>2. CASE Queue(p) /\ Over(p, todo[p])
  <2>1. /\ at' \in [Poll -> Points] /\ at'[p] \in {"idle", "next"}
        /\ todo' \in [Poll -> SUBSET Decision] /\ todo'[p] = todo[p]
        /\ current' \in [Poll -> Decision \cup {Nothing}]
        /\ revision' \in [Poll -> Nat]
        /\ \A q \in Poll \ {p} : /\ at'[q] = at[q] /\ current'[q] = current[q]
                                 /\ todo'[q] = todo[q] /\ revision'[q] = revision[q]
    BY <1>2, OverPoll
  <2>2. Others(p)
    BY <1>1, <2>1 DEF Others, IInv, TypeOK
  <2> DEFINE k == [id |-> Id(p), revision |-> revision[p]]
  <2>3. /\ k \in [id : Call, revision : Nat] /\ k.id = Id(p) /\ k.revision = revision[p]
    BY <1>1 DEF Fits, Decision, Id, IInv, TypeOK
  <2>4. acks' = acks \/ acks' = acks \cup {k}
    BY <1>2 DEF Queue
  <2>5. acks' # acks /\ Id(p) \in Approval => current[p] = Decided(Id(p), "revoked")
    <3>1. acks' # acks /\ Id(p) \in Approval => current[p] # Decided(Id(p), "pending")
      BY <1>2 DEF Queue
    <3>2. current[p] \in {Decided(Id(p), "pending"), Decided(Id(p), "revoked")}
      BY <1>1 DEF Fits, Decision, Decided, Id
    <3> QED
      BY <3>1, <3>2
  <2> HIDE DEF k
  <2>6. TypeOK' /\ Shape'
    <3>1. acks' \subseteq [id : Call, revision : Nat]
      BY <2>3, <2>4 DEF IInv, TypeOK
    <3> QED
      BY <1>1, <2>1, <2>2, <3>1, StepShape DEF IInv, TypeOK
  <2>7. \A c \in Approval : Withdrawn(c)' => Withdrawn(c)
    <3>1. \A c \in Approval : (\E j \in acks' : j.id = c) => Withdrawn(c)
      BY <1>1, <2>3, <2>4, <2>5 DEF Withdrawn
    <3> QED
      BY <2>1, <3>1 DEF Withdrawn
  <2>8. \A c \in Amendment, n \in Nat : Given(c, n)' => Given(c, n)
    <3>1. \A c, n : (\E j \in acks' : j.id = c /\ j.revision = n) => Given(c, n)
      BY <1>1, <2>3, <2>4 DEF Given
    <3> QED
      BY <2>1, <3>1 DEF Given, Id
  <2> QED
    BY <1>1, <2>1, <2>2, <2>6, <2>7, <2>8, SameRecord DEF Out
<1>3. CASE Goto(p, "failed") /\ UNCHANGED <<acks, current, revision, todo>>
  <2>1. at' \in [Poll -> Points] /\ at'[p] = "failed" /\ \A q \in Poll \ {p} : at'[q] = at[q]
    BY <1>3, GotoAt DEF IInv, Points
  <2>2. Others(p)
    BY <1>1, <1>3, <2>1 DEF Others, IInv, TypeOK
  <2>3. TypeOK' /\ Shape'
    BY <1>1, <1>3, <2>1, <2>2, StepShape DEF IInv, TypeOK
  <2> QED
    BY <1>1, <1>3, <2>1, <2>2, <2>3, SameAcks, SameRecord DEF Out
<1> QED
  BY <1>2, <1>3 DEF QueueAck

LEMMA QueueOrAbortInv ==
    ASSUME IInv, NEW p \in Poll, QueueOrAbort(p), Remember
    PROVE  IInv'
<1>1. /\ UNCHANGED <<rec, lock, decision, local, acks>> /\ at[p] \in {"failed", "denied"}
  BY DEF QueueOrAbort
<1>2. PICK left \in SUBSET todo[p] : Over(p, left)
  BY DEF QueueOrAbort
<1>3. /\ at' \in [Poll -> Points] /\ at'[p] \in {"idle", "next"}
      /\ todo' \in [Poll -> SUBSET Decision] /\ todo'[p] = left
      /\ current' \in [Poll -> Decision \cup {Nothing}]
      /\ revision' \in [Poll -> Nat]
      /\ \A d \in left : Fits(d)
      /\ \A q \in Poll \ {p} : /\ at'[q] = at[q] /\ current'[q] = current[q]
                               /\ todo'[q] = todo[q] /\ revision'[q] = revision[q]
  BY <1>2, OverPoll
<1>4. Others(p)
  BY <1>1, <1>3 DEF Others, IInv, TypeOK
<1>5. TypeOK' /\ Shape'
  BY <1>1, <1>3, <1>4, StepShape DEF IInv, TypeOK
<1> QED
  BY <1>1, <1>3, <1>4, <1>5, SameAcks, SameRecord DEF Out

\* What a poll holds between its load and its persist, and what it then leaves.
LEMMA PersistPoll ==
    ASSUME IInv, NEW p \in Poll, NEW b \in Body, Persist(p, b)
    PROVE  /\ Copy(p) \in Body /\ BodySound(Copy(p))
           /\ rec' \in Record /\ local' \in [Poll -> Record]
           /\ \A q \in Poll \ {p} : local'[q] = local[q]
<1>1. [b EXCEPT !.events = {}] \in Body
  BY DEF Body
<1>2. local \in [Poll -> Record] /\ local[p] \in Record
  BY DEF IInv, TypeOK
<1>3. rec' \in Record
  BY <1>1, <1>2 DEF Persist, Record
<1> QED
  BY <1>2, <1>3, NoGrants DEF Persist, Record, Copy, IInv, Bodies

LEMMA ApproveSessionInv ==
    ASSUME IInv, NEW p \in Poll, ApproveSession(p), Remember
    PROVE  IInv'
<1> USE LiveAssumption
<1> DEFINE b == Approve(Copy(p), Id(p), PathOf[Id(p)], FALSE, {})
<1>1. /\ UNCHANGED <<decision, todo, current, revision, acks>>
      /\ at[p] = "approving" /\ Persist(p, b) /\ lock' = NoPoll /\ Goto(p, "ack")
      /\ Id(p) \in Approval /\ current[p].status = "pending" /\ Fits(current[p])
      /\ \A d \in todo'[p] : Fits(d)
  BY DEF ApproveSession, IInv, Shape
<1>2. Copy(p) \in Body /\ BodySound(Copy(p))
  BY DEF Copy, IInv, TypeOK, Record, Bodies
<1>3. /\ b \in Body /\ BodySound(b)
      /\ \A g \in b.approvalGrants : g \in Copy(p).approvalGrants \/ g.id = Id(p)
      /\ b.agentPlanRevisions = Copy(p).agentPlanRevisions
  BY <1>1, <1>2, ApproveBody
<1> HIDE DEF b
<1>4. at' \in [Poll -> Points] /\ at'[p] = "ack" /\ \A q \in Poll \ {p} : at'[q] = at[q]
  BY <1>1, GotoAt DEF IInv, Points
<1>5. rec' \in Record /\ Others(p)
  BY <1>1, <1>3, <1>4, PersistPoll DEF Others, IInv, TypeOK
<1>6. lock = p
  BY <1>1 DEF IInv, TypeOK
<1>7. TypeOK' /\ Shape'
  BY <1>1, <1>4, <1>5, <1>6, StepShape DEF IInv, TypeOK
<1>8. Approving(Id(p)) /\ p \in Out
  BY <1>1 DEF Approving, Out
<1>9. Id(p) \notin Amendment
  BY <1>1
<1> QED
  BY <1>1, <1>3, <1>4, <1>5, <1>7, <1>8, <1>9, NewRecord

LEMMA RevokeSessionInv ==
    ASSUME IInv, NEW p \in Poll, RevokeSessionApproval(p), Remember
    PROVE  IInv'
<1> USE LiveAssumption
<1>1. /\ UNCHANGED <<decision, todo, current, revision, acks>>
      /\ at[p] = "revoking" /\ lock' = NoPoll /\ lock = p /\ Goto(p, "ack")
      /\ Id(p) \in Approval /\ Id(p) \in Call /\ current[p].status = "revoked" /\ Fits(current[p])
      /\ \A d \in todo'[p] : Fits(d)
  BY DEF RevokeSessionApproval, IInv, Shape, TypeOK
<1>2. Copy(p) \in Body /\ BodySound(Copy(p))
  BY DEF Copy, IInv, TypeOK, Record, Bodies
<1>3. PICK g \in Copy(p).approvalGrants : g.id = Id(p) /\ Persist(p, Revoke(Copy(p), Id(p), g, {}))
  BY <1>1, RecordAssumption DEF RevokeSessionApproval, RevocationTargets
<1> DEFINE b == Revoke(Copy(p), Id(p), g, {})
<1>4. /\ b \in Body /\ BodySound(b)
      /\ \A h \in b.approvalGrants : h \in Copy(p).approvalGrants \/ h.revoked
      /\ b.agentPlanRevisions = Copy(p).agentPlanRevisions
      /\ GrantOf(b, Id(p)) # {} /\ \A h \in GrantOf(b, Id(p)) : h.revoked
  BY <1>1, <1>2, <1>3, RevokeBody
<1>5. Persist(p, b)
  BY <1>3
<1> HIDE DEF b
<1>6. at' \in [Poll -> Points] /\ at'[p] = "ack" /\ \A q \in Poll \ {p} : at'[q] = at[q]
  BY <1>1, GotoAt DEF IInv, Points
<1>7. rec' \in Record /\ Others(p)
  BY <1>1, <1>4, <1>5, <1>6, PersistPoll DEF Others, IInv, TypeOK
<1>8. TypeOK' /\ Shape'
  BY <1>1, <1>6, <1>7, StepShape DEF IInv, TypeOK
<1>9. p \in Out /\ Id(p) \notin Amendment
  BY <1>1 DEF Out
<1> QED
  BY <1>1, <1>4, <1>5, <1>6, <1>7, <1>8, <1>9, NewRecord

\* A throw leaves the record as it is and holds nothing any more.
LEMMA OperationThrowsInv ==
    ASSUME IInv, NEW p \in Poll, OperationThrows(p), Remember
    PROVE  IInv'
<1> USE LiveAssumption
<1>1. /\ UNCHANGED <<rec, decision, todo, current, revision, acks>>
      /\ at[p] \in {"approving", "revoking", "amending"} /\ Goto(p, "failed")
      /\ Fits(current[p])
      /\ \A d \in todo'[p] : Fits(d)
  BY DEF OperationThrows, IInv, Shape
<1>2. lock' \in {lock, NoPoll} /\ lock' # p /\ (lock' # lock => lock = p /\ lock' = NoPoll)
  BY DEF OperationThrows
<1>3. at' \in [Poll -> Points] /\ at'[p] = "failed" /\ \A q \in Poll \ {p} : at'[q] = at[q]
  BY <1>1, GotoAt DEF IInv, Points
<1>4. /\ local' \in [Poll -> Record] /\ local'[p] = FreshRecord
      /\ \A q \in Poll \ {p} : local'[q] = local[q]
  BY NoGrants DEF OperationThrows, IInv, TypeOK
<1>5. Others(p)
  BY <1>1, <1>3, <1>4 DEF Others, IInv, TypeOK
<1>6. TypeOK' /\ Shape'
  BY <1>1, <1>2, <1>3, <1>5, StepShape DEF IInv, TypeOK
<1> QED
  BY <1>1, <1>3, <1>4, <1>5, <1>6, SameAcks, SameRecord DEF Out

LEMMA AmendPlanInv ==
    ASSUME IInv, NEW p \in Poll, AmendPlan(p), Remember
    PROVE  IInv'
<1> USE LiveAssumption
<1> DEFINE plan == Copy(p).agentPlan \cup AddedBy[Id(p)]
           b == RecordRevision(Copy(p), Id(p), plan, "human", "plan_amended", {})
<1>1. /\ UNCHANGED <<lock, decision, todo, current, acks>>
      /\ at[p] = "amending" /\ Persist(p, b) /\ Goto(p, "ack")
      /\ revision' = [revision EXCEPT ![p] = b.agentPlanRevision]
      /\ Id(p) \in Amendment /\ Id(p) \in Call /\ Fits(current[p])
      /\ \A d \in todo'[p] : Fits(d)
  BY DEF AmendPlan, IInv, Shape
<1>2. Copy(p) \in Body /\ BodySound(Copy(p))
  BY DEF Copy, IInv, TypeOK, Record, Bodies
<1>3. plan \in SUBSET Item /\ AddedBy[Id(p)] \subseteq plan
  BY <1>1, <1>2 DEF Body
<1> HIDE DEF plan
<1>4. /\ b \in Body /\ BodySound(b)
      /\ b.approvalGrants = Copy(p).approvalGrants
      /\ Copy(p).agentPlanRevisions \subseteq b.agentPlanRevisions
      /\ \E e \in b.agentPlanRevisions :
            e.revision = b.agentPlanRevision /\ e.id = Id(p) /\ e.plan = plan
  BY <1>1, <1>2, <1>3, AmendBody
<1> HIDE DEF b
<1>5. b.agentPlanRevision \in Nat
  BY <1>4 DEF Body
<1>6. at' \in [Poll -> Points] /\ at'[p] = "ack" /\ \A q \in Poll \ {p} : at'[q] = at[q]
  BY <1>1, GotoAt DEF IInv, Points
<1>7. /\ revision' \in [Poll -> Nat] /\ revision'[p] = b.agentPlanRevision
      /\ \A q \in Poll \ {p} : revision'[q] = revision[q]
  BY <1>1, <1>5 DEF IInv, TypeOK
<1>8. rec' \in Record /\ Others(p)
  BY <1>1, <1>4, <1>6, <1>7, PersistPoll DEF Others, IInv, TypeOK
<1>9. current[p].status = "pending"
  BY <1>1 DEF IInv, Shape
<1>10. TypeOK' /\ Shape'
  BY <1>1, <1>6, <1>8, <1>9, StepShape DEF IInv, TypeOK
<1>11. InLedger(b, Id(p), revision'[p]) /\ p \in Out
  BY <1>1, <1>3, <1>4, <1>7 DEF InLedger, Out
<1> QED
  BY <1>1, <1>4, <1>6, <1>8, <1>9, <1>10, <1>11, NewRecord

-----------------------------------------------------------------------------
(* The invariant, and what follows from it *)

LEMMA InitInv == Init => IInv
<1> USE LiveAssumption
<1> SUFFICES ASSUME Init PROVE IInv
  OBVIOUS
<1>1. /\ rec = FreshRecord /\ acks = {} /\ excused = {} /\ lock = NoPoll
      /\ \A p \in Poll : at[p] = "idle" /\ todo[p] = {} /\ local[p] = FreshRecord
      /\ \A c \in Call : decision[c] = "requested"
  BY DEF Init
<1>2. TypeOK
  BY <1>1, NoGrants DEF Init, TypeOK, Points
<1>3. Shape
  BY <1>1 DEF Shape
<1>4. Bodies
  BY <1>1, NoGrants DEF Bodies
<1>5. Out = {}
  BY <1>1 DEF Out
<1>6. \A c : GrantOf(rec.body, c) = {}
  BY <1>1 DEF GrantOf, FreshRecord, FreshBody
<1>7. Fresh /\ Unapproved
  BY <1>5, <1>6 DEF Fresh, Unapproved, Revoked
<1>8. Revocations /\ Amendments
  BY <1>1 DEF Revocations, Amendments, Withdrawn, Given
<1> QED
  BY <1>2, <1>3, <1>4, <1>7, <1>8 DEF IInv

LEMMA NextInv == IInv /\ [Next]_vars => IInv'
<1> SUFFICES ASSUME IInv, [Next]_vars PROVE IInv'
  OBVIOUS
<1>1. CASE Next
  BY <1>1, DecideInv, FetchInv, TakeInv, FindGrantInv, LockInv, ApproveSessionInv,
     RevokeSessionInv, LoadPlanInv, AmendPlanInv, OperationThrowsInv, QueueAckInv,
     QueueOrAbortInv DEF Next, Step
<1>2. CASE UNCHANGED vars
  <2>1. TypeOK' /\ Bodies' /\ Fresh'
    BY <1>2 DEF vars, IInv, TypeOK, Bodies, Fresh, Out
  <2>2. Shape'
    BY <1>2 DEF vars, IInv, Shape, Id
  <2>3. Unapproved' /\ Revocations' /\ Amendments'
    BY <1>2 DEF vars, IInv, Unapproved, Revoked, Approving, Revocations, Withdrawn, Down,
                Amendments, Given, Id
  <2> QED
    BY <2>1, <2>2, <2>3 DEF IInv
<1> QED
  BY <1>1, <1>2

LEMMA Invariance == Spec => []IInv
BY InitInv, NextInv, PTL DEF Spec

\* The record and its copies keep their types, and the mutation lock is held by
\* the poll that has loaded to approve or to revoke, and by nobody else.
THEOREM TypeCorrect == Spec => []TypeOK
<1>1. IInv => TypeOK
  BY DEF IInv
<1> QED
  BY <1>1, Invariance, PTL

\* What the dashboard was told is revoked is not in force.
THEOREM RevocationsHold == Spec => []RevocationHolds
<1>1. IInv => RevocationHolds
  BY DEF IInv, Revocations, Withdrawn, Down, RevocationHolds
<1> QED
  BY <1>1, Invariance, PTL

\* What the dashboard was told is amended is in the ledger.
THEOREM AmendmentsHold == Spec => []AmendmentHolds
<1>1. IInv => AmendmentHolds
  BY DEF IInv, TypeOK, Amendments, Given, InLedger, AmendmentHolds
<1> QED
  BY <1>1, Invariance, PTL
-----------------------------------------------------------------------------
(* One poll at a time *)

OnePoll == \A p, q \in Poll : p = q

\* The requests that share their path with another.
Contested == {c \in Approval : \E d \in Approval \ {c} : PathOf[d] = PathOf[c]}

\* The grants an approval removes are of the path it grants; none is revoked.
LEMMA ApproveGrants ==
    ASSUME NEW b \in Body, NEW c \in Approval
    PROVE  LET r == Approve(b, c, PathOf[c], FALSE, {})
           IN  /\ \A g \in b.approvalGrants : g.path = PathOf[c] \/ g \in r.approvalGrants
               /\ \E g \in r.approvalGrants : g.id = c
               /\ \A g \in r.approvalGrants : g \in b.approvalGrants \/ ~g.revoked
<1> USE LiveAssumption
<1> DEFINE grant == [path |-> PathOf[c], id |-> c, expires |-> FALSE, revoked |-> FALSE,
                     planRevision |-> b.agentPlanRevision]
           grants == {g \in b.approvalGrants : g.path # PathOf[c]} \cup {grant}
           granted == [b EXCEPT !.approvalGrants = {g \in @ : g.path # PathOf[c]} \cup {grant},
                                !.events = @ \cup {Stamp("approved", c)}]
           marked == [granted EXCEPT !.approvedPaths = ActivePaths(granted, {})]
           r == Approve(b, c, PathOf[c], FALSE, {})
<1>1. c \in Call /\ PathOf[c] \in Path /\ {} \in SUBSET Call
  OBVIOUS
<1>2. grant \in Grant /\ grant.id = c /\ ~grant.revoked
  BY <1>1 DEF Grant, Body
<1> HIDE DEF grant
<1>3. granted \in Body
  BY <1>1, <1>2, StampType DEF Body, Kinds
<1>4. marked \in Body
  BY <1>1, <1>3, ActivePathsType DEF Body
<1>5. r = Recompute(marked, {}, c)
  BY DEF Approve, grant
<1>6. marked.approvalGrants = grants
  BY DEF Body
<1> HIDE DEF marked, r
<1>7. r.approvalGrants = grants
  BY <1>1, <1>4, <1>5, <1>6, RecomputeType, RecomputeFrame
<1> QED
  BY <1>2, <1>7 DEF r

\* A revocation removes the grant of no request.
LEMMA RevokeGrants ==
    ASSUME NEW b \in Body, NEW c \in Call, NEW t \in b.approvalGrants
    PROVE  LET r == Revoke(b, c, t, {})
           IN  \A g \in b.approvalGrants : \E h \in r.approvalGrants : h.id = g.id
<1> DEFINE u == [t EXCEPT !.revoked = TRUE]
           event == [type |-> "revoked", by |-> c, of |-> t.id]
           revoked == IF t.revoked THEN b ELSE
                      [b EXCEPT !.approvalGrants = (@ \ {t}) \cup {u},
                                !.events = @ \cup {event}]
           marked == [revoked EXCEPT !.approvedPaths = ActivePaths(revoked, {})]
           r == Revoke(b, c, t, {})
<1>1. {} \in SUBSET Call /\ t \in Grant
  BY DEF Body
<1>2. u \in Grant /\ u.id = t.id
  BY <1>1 DEF Grant
<1>3. event \in Event
  BY <1>1 DEF Grant, Event, Kinds
<1>4. r = Recompute(marked, {}, c)
  BY DEF Revoke
<1> HIDE DEF u, event
<1>5. revoked \in Body
  BY <1>2, <1>3 DEF Body
<1>6. revoked.approvalGrants = IF t.revoked THEN b.approvalGrants
                               ELSE (b.approvalGrants \ {t}) \cup {u}
  BY DEF Body
<1> HIDE DEF revoked
<1>7. marked \in Body /\ marked.approvalGrants = revoked.approvalGrants
  BY <1>1, <1>5, ActivePathsType DEF Body
<1> HIDE DEF marked
<1>8. r.approvalGrants = revoked.approvalGrants
  BY <1>1, <1>4, <1>7, RecomputeType, RecomputeFrame
<1> QED
  BY <1>2, <1>6, <1>8 DEF r

\* What one poll persists: it had loaded the record on disk.
LEMMA PersistAlone ==
    ASSUME IInv, excused # Call, NEW p \in Poll, p \in Out, NEW b \in Body, Persist(p, b)
    PROVE  /\ Copy(p) = rec.body /\ rec.body \in Body /\ BodySound(rec.body)
           /\ rec'.body.approvalGrants = b.approvalGrants
<1>1. [b EXCEPT !.events = {}] \in Body
  BY DEF Body
<1>2. rec'.body = [b EXCEPT !.events = {}]
  BY DEF Persist, IInv, TypeOK, Record
<1> QED
  BY <1>1, <1>2 DEF IInv, Fresh, TypeOK, Record, Copy, Bodies, Body

\* The only poll withdraws a revoked grant only by granting its path to another
\* request, and has found no grant missing that it revokes.
LEMMA AloneStep ==
    ASSUME OnePoll, IInv, excused \subseteq Contested, [Next]_vars
    PROVE  excused' \subseteq Contested
<1> USE LiveAssumption
<1>1. CASE UNCHANGED vars
  BY <1>1 DEF vars
<1>2. CASE Next
  <2>1. Remember
    BY <1>2 DEF Next
  <2>2. excused' = excused \cup {c \in Approval : Excuses(c)}
    BY <2>1 DEF Remember, Out, OnePoll
  <2> SUFFICES ASSUME NEW c \in Approval, Excuses(c), c \notin Contested
               PROVE  FALSE
    BY <2>2
  <2>3. excused # Call
    OBVIOUS
  <2>4. CASE rec' = rec
    BY <2>4 DEF Excuses, Revoked, GrantOf
  <2>5. ASSUME NEW p \in Poll, ApproveSession(p) PROVE FALSE
    <3> DEFINE b == Approve(Copy(p), Id(p), PathOf[Id(p)], FALSE, {})
    <3>1. Persist(p, b) /\ p \in Out /\ Id(p) \in Approval
      BY <2>5 DEF ApproveSession, Out, IInv, Shape
    <3>2. Copy(p) \in Body /\ BodySound(Copy(p))
      BY DEF Copy, IInv, TypeOK, Record, Bodies
    <3>3. /\ b \in Body
          /\ \A g \in Copy(p).approvalGrants : g.path = PathOf[Id(p)] \/ g \in b.approvalGrants
          /\ \E g \in b.approvalGrants : g.id = Id(p)
          /\ \A g \in b.approvalGrants : g \in Copy(p).approvalGrants \/ ~g.revoked
      BY <3>1, <3>2, ApproveBody, ApproveGrants
    <3> HIDE DEF b
    <3>4. Copy(p) = rec.body /\ rec'.body.approvalGrants = b.approvalGrants
      BY <2>3, <3>1, <3>3, PersistAlone
    <3>5. Revoked(c)' => Revoked(c)
      BY <3>3, <3>4 DEF Revoked, GrantOf
    <3>6. PICK g \in rec.body.approvalGrants : g.id = c /\ GrantOf(rec'.body, c) = {}
      BY <3>5 DEF Excuses, Revoked, GrantOf
    <3>7. g.path = PathOf[Id(p)] /\ g.path = PathOf[c]
      BY <3>2, <3>3, <3>4, <3>6 DEF GrantOf, BodySound
    <3>8. Id(p) # c
      BY <3>3, <3>4, <3>6 DEF GrantOf
    <3> QED
      BY <3>1, <3>7, <3>8 DEF Contested
  <2>6. ASSUME NEW p \in Poll, RevokeSessionApproval(p), rec' # rec PROVE FALSE
    <3>1. Id(p) \in Call /\ p \in Out
      BY <2>6 DEF RevokeSessionApproval, Out, IInv, Shape
    <3>2. PICK t \in Copy(p).approvalGrants : Persist(p, Revoke(Copy(p), Id(p), t, {}))
      BY <2>6, <3>1 DEF RevokeSessionApproval, RevocationTargets
    <3>3. Copy(p) \in Body /\ BodySound(Copy(p))
      BY DEF Copy, IInv, TypeOK, Record, Bodies
    <3> DEFINE b == Revoke(Copy(p), Id(p), t, {})
    <3>4. b \in Body /\ \A g \in Copy(p).approvalGrants : \E h \in b.approvalGrants : h.id = g.id
      BY <3>1, <3>3, RevokeBody, RevokeGrants
    <3>5. Persist(p, b)
      BY <3>2
    <3> HIDE DEF b
    <3>6. Copy(p) = rec.body /\ rec'.body.approvalGrants = b.approvalGrants
      BY <2>3, <3>1, <3>4, <3>5, PersistAlone
    <3>7. Revoked(c) => GrantOf(rec'.body, c) # {}
      BY <3>4, <3>6 DEF Revoked, GrantOf
    <3>8. ~Approving(c)
      BY <2>6 DEF Approving, OnePoll, RevokeSessionApproval
    <3> QED
      BY <3>7, <3>8 DEF Excuses
  <2>7. ASSUME NEW p \in Poll, AmendPlan(p) PROVE FALSE
    <3> DEFINE b == RecordRevision(Copy(p), Id(p), Copy(p).agentPlan \cup AddedBy[Id(p)], "human",
                                   "plan_amended", {})
    <3>1. Persist(p, b) /\ p \in Out /\ Id(p) \in Amendment /\ Id(p) \in Call
      BY <2>7 DEF AmendPlan, Out, IInv, Shape
    <3>2. Copy(p) \in Body /\ BodySound(Copy(p))
      BY DEF Copy, IInv, TypeOK, Record, Bodies
    <3>3. Copy(p).agentPlan \cup AddedBy[Id(p)] \in SUBSET Item
      BY <3>1, <3>2 DEF Body
    <3>4. b \in Body /\ b.approvalGrants = Copy(p).approvalGrants
      BY <3>1, <3>2, <3>3, AmendBody
    <3> HIDE DEF b
    <3>5. rec'.body.approvalGrants = rec.body.approvalGrants
      BY <2>3, <3>1, <3>4, PersistAlone
    <3> QED
      BY <3>5 DEF Excuses, Revoked, GrantOf
  <2>8. CASE rec' # rec
    <3>1. \E p \in Poll : ApproveSession(p) \/ RevokeSessionApproval(p) \/ AmendPlan(p)
      BY <1>2, <2>8 DEF Next, Step, Decide, Fetch, Take, FindGrant, Lock, LoadPlan,
                        OperationThrows, QueueAck, QueueOrAbort
    <3> QED
      BY <2>5, <2>6, <2>7, <2>8, <3>1
  <2> QED
    BY <2>4, <2>8
<1> QED
  BY <1>1, <1>2

\* Of one poll the dashboard may rely on more: an acknowledged amendment is in the
\* ledger, and an acknowledged revocation in force, with no exception but that the
\* revoked grant of a path may give way to another request for that path.
THEOREM OnePollKeepsItsWord ==
    ASSUME OnePoll
    PROVE  Spec => [](\A k \in acks :
              /\ k.id \in Amendment => InLedger(rec.body, k.id, k.revision)
              /\ k.id \in Approval \ Contested => \A g \in GrantOf(rec.body, k.id) : g.revoked)
<1> DEFINE W == \A k \in acks :
              /\ k.id \in Amendment => InLedger(rec.body, k.id, k.revision)
              /\ k.id \in Approval \ Contested => \A g \in GrantOf(rec.body, k.id) : g.revoked
<1>1. Init => excused \subseteq Contested
  BY DEF Init
<1>2. IInv /\ excused \subseteq Contested /\ [Next]_vars => (excused \subseteq Contested)'
  BY OnePoll, AloneStep DEF Contested
<1>3. excused \subseteq Contested /\ RevocationHolds /\ AmendmentHolds => W
  BY LiveAssumption DEF RevocationHolds, AmendmentHolds, InLedger, Contested
<1> QED
  BY <1>1, <1>2, <1>3, Invariance, RevocationsHold, AmendmentsHold, PTL DEF Spec
=============================================================================
