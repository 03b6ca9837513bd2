------------------------- MODULE SessionStart_proofs -------------------------
(***************************************************************************)
(* What the start transaction guarantees for any number of starters,       *)
(* whichever of them are bounded by a parent or may be killed.             *)
(***************************************************************************)
EXTENDS SessionStart, TLAPS

Reclaiming == {"oldPointer", "oldRecord", "oldTxn"}
Recovering == {"pointer", "record", "txn"}

\* A transaction names no session but that of its owner.
OwnSession(t) == t # NoTxn => t.session \in {NoSession, t.job}

\* Whatever the races: who cleans up has read the transaction of a starter that is
\* dead, and a parent that of its own child.
Grounded ==
    /\ OwnSession(txn)
    /\ \A p \in Starter :
          /\ OwnSession(seen[p])
          /\ pc[p] \in {"verify"} \cup Reclaiming => seen[p] # NoTxn /\ pc[seen[p].job] = "dead"
          /\ pc[p] \in {"oldPointer", "oldRecord"} => seen[p].session # NoSession
          /\ parent[p] \notin {"watching", "over"} => pc[p] = "dead"
          /\ parent[p] \in Recovering => seen[p] # NoTxn /\ seen[p].job = p
          /\ parent[p] \in {"pointer", "record"} => seen[p].session # NoSession

\* The points of a starter that has not published its session, or no longer can.
Unpublished == {"begin", "verify", "oldPointer", "oldRecord", "oldTxn", "create", "start",
                "creating", "created", "shaping", "shaped", "activating",
                "undoPointer", "undoRecord"}

\* The points of a starter whose unpublished session has its record.
Recorded == {"created", "shaping", "shaped", "activating", "undoPointer", "undoRecord", "dead"}

\* Who has published and whose record is there, and that a session whose pointer has
\* been taken down does not get it again.
Published ==
    /\ pointer \in committed \cup {NoSession}
    /\ stuck \/ pointer \in records \cup {NoSession}
    /\ \A p \in Starter :
          /\ pc[p] \in Unpublished => p \notin committed
          /\ p \in records /\ p \notin committed => pc[p] \in Recorded
          /\ pc[p] = "oldRecord" => stuck \/ pointer # seen[p].session
          /\ parent[p] = "record" => stuck \/ pointer # p

\* What holds of the transaction until two processes race to remove it.
Exclusive ==
    /\ \A p \in Starter : Starting(p) => Owns(p)
    /\ \A p \in Starter : pc[p] \in Reclaiming => txn # NoTxn /\ txn.job = seen[p].job
    /\ \A p \in Starter : parent[p] \in Recovering => Owns(p)
    /\ ~Contended

IInv == TypeOK /\ Grounded /\ Published /\ (raced \/ Exclusive)

\* The type invariant holds of every reachable state.
THEOREM TypeCorrect == Spec => []TypeOK
<1>1. Init => TypeOK
  BY StartAssumption DEF Init, TypeOK, Points, ParentPoints
<1>2. TypeOK /\ [Next]_vars => TypeOK'
  <2> SUFFICES ASSUME TypeOK, [Next]_vars
               PROVE  TypeOK'
    OBVIOUS
  <2> USE DEF TypeOK, Points, ParentPoints, Txn, Goto, ParentGoto, AfterNote, AfterError
  <2>1. ASSUME NEW p \in Starter, Step(p) \/ Recovery(p) \/ Killed(p), Remember
        PROVE  TypeOK'
    <3>1. raced' \in BOOLEAN
      BY <2>1 DEF Remember
    <3>2. CASE Begin(p) \/ Verify(p) \/ Create(p)
      BY <3>1, <3>2 DEF Begin, Verify, Create
    <3>3. CASE ReclaimPointer(p) \/ ReclaimRecord(p) \/ ReclaimTxn(p)
      BY <3>1, <3>3 DEF ReclaimPointer, ReclaimRecord, ReclaimTxn, DropPointer, DropRecord
    <3>4. CASE ReadOwnTxn(p)
      BY <3>1, <3>4 DEF ReadOwnTxn
    <3>5. CASE NoteTxn(p)
      BY <3>1, <3>5 DEF NoteTxn
    <3>6. CASE CreateSession(p) \/ ShapeSession(p) \/ ActivateSession(p) \/ PublishLiveStatus(p)
      BY <3>1, <3>6 DEF CreateSession, ShapeSession, ActivateSession, PublishLiveStatus
    <3>7. CASE UndoPointer(p) \/ UndoRecord(p) \/ ReadToClear(p) \/ ClearTxn(p)
      BY <3>1, <3>7 DEF UndoPointer, UndoRecord, ReadToClear, ClearTxn, DropPointer, DropRecord
    <3>8. CASE Killed(p)
      BY <3>1, <3>8 DEF Killed
    <3>9. CASE Recovery(p)
      BY <3>1, <3>9 DEF Recovery, InspectTimedOut, RecoverPointer, RecoverRecord, RecoverTxn,
                        DropPointer, DropRecord
    <3> QED
      BY <2>1, <3>2, <3>3, <3>4, <3>5, <3>6, <3>7, <3>8, <3>9 DEF Step
  <2>2. CASE UNCHANGED vars
    BY <2>2 DEF vars
  <2> QED
    BY <2>1, <2>2 DEF Next
<1> QED
  BY <1>1, <1>2, PTL DEF Spec

\* A step by which somebody moves on keeps the facts about who cleans up what.
LEMMA GroundedStep ==
    ASSUME TypeOK, Grounded, NEW p \in Starter, Step(p) \/ Recovery(p) \/ Killed(p)
    PROVE  Grounded'
<1> USE StartAssumption
    DEF TypeOK, Grounded, OwnSession, Reclaiming, Recovering, Goto, ParentGoto, Txn
<1>1. CASE Begin(p)
  BY <1>1 DEF Begin
<1>2. CASE Verify(p)
  BY <1>2 DEF Verify
<1>3. CASE ReclaimPointer(p) \/ ReclaimRecord(p) \/ ReclaimTxn(p)
  BY <1>3 DEF ReclaimPointer, ReclaimRecord, ReclaimTxn
<1>4. CASE Create(p)
  BY <1>4 DEF Create
<1>5. CASE ReadOwnTxn(p)
  BY <1>5 DEF ReadOwnTxn, AfterNote
<1>6. CASE NoteTxn(p)
  BY <1>6 DEF NoteTxn, AfterNote, AfterError
<1>7. CASE CreateSession(p) \/ ShapeSession(p) \/ ActivateSession(p) \/ PublishLiveStatus(p)
  BY <1>7 DEF CreateSession, ShapeSession, ActivateSession, PublishLiveStatus
<1>8. CASE UndoPointer(p) \/ UndoRecord(p) \/ ReadToClear(p) \/ ClearTxn(p)
  BY <1>8 DEF UndoPointer, UndoRecord, ReadToClear, ClearTxn
<1>9. CASE Killed(p)
  BY <1>9 DEF Killed, Returned, ParentPoints
<1>10. CASE InspectTimedOut(p)
  BY <1>10 DEF InspectTimedOut, Owns
<1>11. CASE RecoverPointer(p) \/ RecoverRecord(p) \/ RecoverTxn(p)
  BY <1>11 DEF RecoverPointer, RecoverRecord, RecoverTxn
<1> QED
  BY <1>1, <1>2, <1>3, <1>4, <1>5, <1>6, <1>7, <1>8, <1>9, <1>10, <1>11 DEF Step, Recovery

\* Likewise the facts about records and the pointer: only a dead starter's session or
\* the starter's own unpublished one is taken down, and its pointer first.
LEMMA PublishedStep ==
    ASSUME TypeOK, Grounded, Published, NEW p \in Starter, Step(p) \/ Recovery(p) \/ Killed(p)
    PROVE  Published'
<1> USE StartAssumption
    DEF TypeOK, Grounded, OwnSession, Published, Unpublished, Recorded, Reclaiming, Recovering,
        Goto, ParentGoto, DropPointer, DropRecord
<1>1. CASE Begin(p)
  BY <1>1 DEF Begin
<1>2. CASE Verify(p)
  BY <1>2 DEF Verify
<1>3. CASE ReclaimPointer(p)
  BY <1>3 DEF ReclaimPointer
<1>4. CASE ReclaimRecord(p)
  BY <1>4 DEF ReclaimRecord
<1>5. CASE ReclaimTxn(p) \/ Create(p)
  BY <1>5 DEF ReclaimTxn, Create
<1>6. CASE ReadOwnTxn(p)
  BY <1>6 DEF ReadOwnTxn, AfterNote
<1>7. CASE NoteTxn(p)
  BY <1>7 DEF NoteTxn, AfterNote, AfterError
<1>8. CASE CreateSession(p)
  BY <1>8 DEF CreateSession
<1>9. CASE ActivateSession(p)
  BY <1>9 DEF ActivateSession
<1>10. CASE ShapeSession(p) \/ PublishLiveStatus(p) \/ ReadToClear(p) \/ ClearTxn(p)
  BY <1>10 DEF ShapeSession, PublishLiveStatus, ReadToClear, ClearTxn
<1>11. CASE UndoPointer(p)
  BY <1>11 DEF UndoPointer
<1>12. CASE UndoRecord(p)
  BY <1>12 DEF UndoRecord
<1>13. CASE Killed(p)
  BY <1>13 DEF Killed, Returned
<1>14. CASE InspectTimedOut(p)
  BY <1>14 DEF InspectTimedOut
<1>15. CASE RecoverPointer(p)
  BY <1>15 DEF RecoverPointer
<1>16. CASE RecoverRecord(p) \/ RecoverTxn(p)
  BY <1>16 DEF RecoverRecord, RecoverTxn
<1> QED
  BY <1>1, <1>2, <1>3, <1>4, <1>5, <1>6, <1>7, <1>8, <1>9, <1>10, <1>11, <1>12, <1>13,
     <1>14, <1>15, <1>16
     DEF Step, Recovery

\* Uncontended, who is about to remove the file is alone.
LEMMA Alone ==
    ASSUME ~Contended, NEW p \in Starter, NEW q \in Starter
    PROVE  /\ pc[p] \in Reclaiming /\ pc[q] \in Reclaiming => p = q
           /\ parent[p] \in Recovering /\ parent[q] \in Recovering => p = q
           /\ ~(pc[p] \in Reclaiming /\ parent[q] \in Recovering)
<1>1. pc[p] \in Reclaiming => <<"starter", p>> \in Removers
  BY DEF Removers, Reclaiming
<1>2. pc[q] \in Reclaiming => <<"starter", q>> \in Removers
  BY DEF Removers, Reclaiming
<1>3. /\ parent[p] \in Recovering => <<"parent", p>> \in Removers
      /\ parent[q] \in Recovering => <<"parent", q>> \in Removers
  BY DEF Removers, Recovering
<1> QED
  BY <1>1, <1>2, <1>3 DEF Contended

\* A step keeps the transaction exclusive unless it completes the race.
LEMMA ExclusiveStep ==
    ASSUME TypeOK, Grounded, Exclusive, ~Contended',
           NEW p \in Starter, Step(p) \/ Recovery(p) \/ Killed(p)
    PROVE  Exclusive'
<1> USE StartAssumption
    DEF TypeOK, Grounded, OwnSession, Exclusive, Reclaiming, Recovering, Starting, Returned,
        Owns, Goto, ParentGoto, Txn
<1>1. CASE Begin(p)
  BY <1>1 DEF Begin
<1>2. CASE Verify(p)
  BY <1>2 DEF Verify
<1>3. CASE ReclaimPointer(p) \/ ReclaimRecord(p)
  BY <1>3 DEF ReclaimPointer, ReclaimRecord
<1>4. CASE ReclaimTxn(p)
  <2>1. \A q \in Starter : ~Starting(q)
    BY <1>4 DEF ReclaimTxn
  <2>2. \A q \in Starter : (pc[q] \in Reclaiming => q = p) /\ parent[q] \notin Recovering
    BY <1>4, Alone DEF ReclaimTxn
  <2> QED
    BY <1>4, <2>1, <2>2 DEF ReclaimTxn
<1>5. CASE Create(p)
  BY <1>5 DEF Create
<1>6. CASE ReadOwnTxn(p)
  BY <1>6 DEF ReadOwnTxn, AfterNote
<1>7. CASE NoteTxn(p)
  BY <1>7 DEF NoteTxn, AfterNote, AfterError
<1>8. CASE CreateSession(p) \/ ShapeSession(p) \/ ActivateSession(p) \/ PublishLiveStatus(p)
  BY <1>8 DEF CreateSession, ShapeSession, ActivateSession, PublishLiveStatus
<1>9. CASE UndoPointer(p) \/ UndoRecord(p) \/ ReadToClear(p)
  BY <1>9 DEF UndoPointer, UndoRecord, ReadToClear
<1>10. CASE ClearTxn(p)
  BY <1>10 DEF ClearTxn
<1>11. CASE Killed(p)
  BY <1>11 DEF Killed, ParentPoints
<1>12. CASE InspectTimedOut(p)
  BY <1>12 DEF InspectTimedOut
<1>13. CASE RecoverPointer(p) \/ RecoverRecord(p)
  BY <1>13 DEF RecoverPointer, RecoverRecord
<1>14. CASE RecoverTxn(p)
  <2>1. \A q \in Starter : ~Starting(q)
    BY <1>14 DEF RecoverTxn
  <2>2. \A q \in Starter : pc[q] \notin Reclaiming /\ (parent[q] \in Recovering => q = p)
    BY <1>14, Alone DEF RecoverTxn
  <2> QED
    BY <1>14, <2>1, <2>2 DEF RecoverTxn
<1> QED
  BY <1>1, <1>2, <1>3, <1>4, <1>5, <1>6, <1>7, <1>8, <1>9, <1>10, <1>11, <1>12, <1>13, <1>14
     DEF Step, Recovery

LEMMA Invariance == Spec => []IInv
<1>1. Init => IInv
  BY StartAssumption
     DEF Init, IInv, TypeOK, Points, ParentPoints, Grounded, OwnSession, Published, Unpublished,
         Recorded, Exclusive, Starting, Returned, Owns, Reclaiming, Recovering, Contended, Removers
<1>2. IInv /\ TypeOK' /\ [Next]_vars => IInv'
  <2> SUFFICES ASSUME IInv, TypeOK', [Next]_vars
               PROVE  IInv'
    OBVIOUS
  <2>1. ASSUME NEW p \in Starter, Step(p) \/ Recovery(p) \/ Killed(p), Remember
        PROVE  IInv'
    <3>1. Grounded' /\ Published'
      BY <2>1, GroundedStep, PublishedStep DEF IInv
    <3>2. raced' \/ Exclusive'
      <4>1. CASE raced \/ Contended'
        BY <2>1, <4>1 DEF Remember
      <4>2. CASE ~raced /\ ~Contended'
        BY <2>1, <4>2, ExclusiveStep DEF IInv
      <4> QED
        BY <4>1, <4>2
    <3> QED
      BY <3>1, <3>2 DEF IInv
  <2>2. CASE UNCHANGED vars
    BY <2>2 DEF vars, IInv, TypeOK, Grounded, OwnSession, Published, Exclusive, Starting, Owns,
                Contended, Removers
  <2> QED
    BY <2>1, <2>2 DEF Next
<1> QED
  BY <1>1, <1>2, TypeCorrect, PTL DEF Spec

\* For any number of starters two starts are under way at once only after two processes
\* were about to remove the same abandoned transaction.
THEOREM OneStart == Spec => []OneStartUnlessRaced
<1>1. IInv => OneStartUnlessRaced
  BY DEF IInv, Exclusive, OneStartUnlessRaced, Owns
<1> QED
  BY <1>1, Invariance, PTL

\* The active pointer names a session that is on disk, as long as its lock works.
THEOREM PointerResolves == Spec => []PointerHasRecord
<1>1. IInv => PointerHasRecord
  BY DEF IInv, Published, PointerHasRecord
<1> QED
  BY <1>1, Invariance, PTL

\* A start that returned unpublished has left no record.
THEOREM FailedStartClean == Spec => []FailedStartLeavesNothing
<1>1. IInv => FailedStartLeavesNothing
  BY DEF IInv, Published, Recorded, FailedStartLeavesNothing
<1> QED
  BY <1>1, Invariance, PTL

\* A published session is taken down by nobody's rollback, only by the recovery of a
\* starter that is dead.
THEOREM CommittedSpared == Spec => RollbackSparesCommitted
<1> DEFINE A == \A p \in committed : \/ p \in records => p \in records'
                                     \/ pc[p] = "dead"
<1>1. IInv /\ [Next]_vars => A
  <2> SUFFICES ASSUME IInv, [Next]_vars
               PROVE  A
    OBVIOUS
  <2> USE DEF IInv, TypeOK, Grounded, OwnSession, Published, Unpublished, Recovering,
              DropPointer, DropRecord
  <2>1. ASSUME NEW p \in Starter, ReclaimRecord(p)
        PROVE  A
    BY <2>1 DEF ReclaimRecord, Reclaiming, Txn
  <2>2. ASSUME NEW p \in Starter, UndoRecord(p)
        PROVE  A
    BY <2>2 DEF UndoRecord
  <2>3. ASSUME NEW p \in Starter, RecoverRecord(p)
        PROVE  A
    BY <2>3 DEF RecoverRecord, Txn
  <2>4. ASSUME NEW p \in Starter, Step(p) \/ Recovery(p) \/ Killed(p),
               ~(ReclaimRecord(p) \/ UndoRecord(p) \/ RecoverRecord(p))
        PROVE  A
    <3>1. records \subseteq records'
      BY <2>4
         DEF Step, Recovery, Killed, Begin, Verify, ReclaimPointer, ReclaimTxn, Create, ReadOwnTxn,
             NoteTxn, CreateSession, ShapeSession, ActivateSession, PublishLiveStatus, UndoPointer,
             ReadToClear, ClearTxn, InspectTimedOut, RecoverPointer, RecoverTxn
    <3> QED
      BY <3>1
  <2>5. CASE UNCHANGED vars
    BY <2>5 DEF vars
  <2> QED
    BY <2>1, <2>2, <2>3, <2>4, <2>5 DEF Next
<1>2. Spec => [][A]_vars
  BY <1>1, Invariance, PTL DEF Spec
<1> QED
  BY <1>2 DEF RollbackSparesCommitted

-----------------------------------------------------------------------------
(* When nobody is killed *)

Unkilled ==
    /\ ~raced /\ ~stuck
    /\ \A p \in Starter : /\ pc[p] \notin {"verify", "dead"} \cup Reclaiming
                          /\ parent[p] = "over"

OneStartAtATime == \A p, q \in Starter : Starting(p) /\ Starting(q) => p = q
PointerAlwaysHasRecord == pointer \in records \cup {NoSession}

LEMMA UnkilledStep ==
    ASSUME Crashable = {}, TypeOK, Unkilled, [Next]_vars
    PROVE  Unkilled'
<1> USE DEF Unkilled, TypeOK, Reclaiming, Goto, ParentGoto
<1>1. CASE UNCHANGED vars
  BY <1>1 DEF vars
<1>2. ASSUME NEW p \in Starter, Step(p) \/ Recovery(p) \/ Killed(p), Remember
      PROVE  Unkilled'
  <2>1. ~stuck' /\ \A q \in Starter : /\ pc'[q] \notin {"verify", "dead"} \cup Reclaiming
                                      /\ parent'[q] = "over"
    <3>1. CASE Begin(p) \/ Create(p) \/ CreateSession(p) \/ ShapeSession(p)
      BY <3>1 DEF Begin, Create, CreateSession, ShapeSession, Txn
    <3>2. CASE Verify(p) \/ ReclaimPointer(p) \/ ReclaimRecord(p) \/ ReclaimTxn(p) \/ Recovery(p)
      BY <3>2 DEF Verify, ReclaimPointer, ReclaimRecord, ReclaimTxn, Recovery, InspectTimedOut,
                  RecoverPointer, RecoverRecord, RecoverTxn
    <3>3. CASE ReadOwnTxn(p) \/ NoteTxn(p)
      BY <3>3 DEF ReadOwnTxn, NoteTxn, AfterNote, AfterError
    <3>4. CASE ActivateSession(p) \/ PublishLiveStatus(p) \/ ReadToClear(p) \/ ClearTxn(p)
      BY <3>4 DEF ActivateSession, PublishLiveStatus, ReadToClear, ClearTxn
    <3>5. CASE UndoPointer(p) \/ UndoRecord(p)
      BY <3>5 DEF UndoPointer, UndoRecord
    <3>6. CASE Killed(p)
      BY <3>6, Crashable = {} DEF Killed
    <3> QED
      BY <1>2, <3>1, <3>2, <3>3, <3>4, <3>5, <3>6 DEF Step
  <2>2. Removers' = {}
    BY <2>1 DEF Removers
  <2>3. ~raced'
    BY <1>2, <2>2 DEF Remember, Contended
  <2> QED
    BY <2>1, <2>3
<1> QED
  BY <1>1, <1>2 DEF Next

\* When no starter is killed, from outside or by its parent, one start is under way
\* at a time, the pointer always resolves, and what a start has published stays on
\* disk: each exception of the properties above takes a death.
THEOREM UndisturbedStarts ==
    ASSUME Crashable = {}, Bounded = {}
    PROVE  Spec => [](OneStartAtATime /\ PointerAlwaysHasRecord) /\ CommittedSurvives
<1> DEFINE A == committed \cap records \subseteq records'
           S == \A p \in committed : \/ p \in records => p \in records'
                                     \/ pc[p] = "dead"
<1>1. Init => Unkilled
  BY Bounded = {} DEF Init, Unkilled, Reclaiming
<1>2. TypeOK /\ Unkilled /\ [Next]_vars => Unkilled'
  BY Crashable = {}, UnkilledStep
<1>3. Unkilled /\ OneStartUnlessRaced /\ PointerHasRecord
        => OneStartAtATime /\ PointerAlwaysHasRecord
  BY DEF Unkilled, OneStartUnlessRaced, OneStartAtATime, PointerHasRecord, PointerAlwaysHasRecord
<1>4. TypeOK /\ Unkilled /\ [S]_vars => [A]_vars
  BY DEF TypeOK, Unkilled
<1>5. Spec => [][S]_vars
  BY CommittedSpared DEF RollbackSparesCommitted
<1> HIDE DEF A, S
<1>6. Spec => [][A]_vars
  BY <1>1, <1>2, <1>4, <1>5, TypeCorrect, PTL DEF Spec
<1>7. Spec => [](OneStartAtATime /\ PointerAlwaysHasRecord)
  BY <1>1, <1>2, <1>3, TypeCorrect, OneStart, PointerResolves, PTL DEF Spec
<1> QED
  BY <1>6, <1>7 DEF A, CommittedSurvives
=============================================================================
