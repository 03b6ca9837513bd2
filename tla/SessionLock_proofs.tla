------------------------- MODULE SessionLock_proofs -------------------------
(***************************************************************************)
(* What SessionLock guarantees for any number of calls and any set of      *)
(* processes that may be killed.                                           *)
(***************************************************************************)
EXTENDS SessionLock, TLAPS

\* What holds of the directory until two contenders race to remove it.
Exclusive ==
    /\ \A p, q \in Holders : p = q
    /\ \A p \in Holders : exists /\ owner = IF pc[p] = "made" THEN NoOwner ELSE p
    /\ \A p \in Proc : pc[p] = "reclaim" => exists /\ owner = seen[p]
    /\ ~TwoReclaimers

\* What holds whatever the contenders do: an owner is read from a directory
\* that exists, and a contender goes past the probe only for a dead owner.
Grounded ==
    /\ ~exists => owner = NoOwner
    /\ \A p \in Proc : pc[p] = "probe" => seen[p] \in Proc
    /\ \A p \in Proc : pc[p] \in {"verify", "reclaim"} => seen[p] \in Proc /\ Dead(seen[p])

IInv == TypeOK /\ Grounded /\ (raced \/ Exclusive)

\* Every step keeps the history bit.
LEMMA StepRemembers ==
    ASSUME NEW p \in Proc, Step(p) \/ Deadline(p) \/ Crash(p)
    PROVE  Remember
BY DEF Step, MakeLock, FindLock, MkdirFails, WriteOwner, WriteOwnerFails, ReadOwner, ProbeOwner,
       VerifyOwner, Reclaim, Retry, GiveUp, FinishOperation, Release, Deadline, Crash

\* The type invariant holds of every reachable state.
THEOREM TypeCorrect == Spec => []TypeOK
<1>1. Init => TypeOK
  BY DEF Init, TypeOK, Points
<1>2. TypeOK /\ [Next]_vars => TypeOK'
  <2> SUFFICES ASSUME TypeOK, [Next]_vars
               PROVE  TypeOK'
    OBVIOUS
  <2> USE DEF TypeOK, Points, Goto
  <2>1. ASSUME NEW p \in Proc, Step(p) \/ Deadline(p) \/ Crash(p)
        PROVE  TypeOK'
    <3>1. raced' \in BOOLEAN
      BY <2>1, StepRemembers DEF Remember, TwoReclaimers
    <3>2. CASE MakeLock(p) \/ FindLock(p) \/ MkdirFails(p) \/ WriteOwner(p) \/ WriteOwnerFails(p)
      BY <3>1, <3>2 DEF MakeLock, FindLock, MkdirFails, WriteOwner, WriteOwnerFails
    <3>3. CASE ReadOwner(p) \/ ProbeOwner(p) \/ VerifyOwner(p) \/ Reclaim(p)
      BY <3>1, <3>3 DEF ReadOwner, ProbeOwner, VerifyOwner, Reclaim
    <3>4. CASE Retry(p) \/ GiveUp(p) \/ FinishOperation(p) \/ Release(p)
      BY <3>1, <3>4 DEF Retry, GiveUp, FinishOperation, Release
    <3>5. CASE Deadline(p) \/ Crash(p)
      BY <3>1, <3>5 DEF Deadline, Crash
    <3> QED
      BY <2>1, <3>2, <3>3, <3>4, <3>5 DEF Step
  <2>2. CASE UNCHANGED vars
    BY <2>2 DEF vars
  <2> QED
    BY <2>1, <2>2 DEF Next
<1> QED
  BY <1>1, <1>2, PTL DEF Spec

\* A step by which a call moves on keeps the facts about dead owners.
LEMMA GroundedStep ==
    ASSUME TypeOK, TypeOK', Grounded,
           NEW p \in Proc, Step(p) \/ Deadline(p) \/ Crash(p)
    PROVE  Grounded'
<1> USE LockAssumption DEF TypeOK, Grounded, Dead, Goto
<1>1. CASE MakeLock(p) \/ FindLock(p) \/ MkdirFails(p) \/ WriteOwner(p) \/ WriteOwnerFails(p)
  BY <1>1 DEF MakeLock, FindLock, MkdirFails, WriteOwner, WriteOwnerFails
<1>2. CASE ReadOwner(p) \/ ProbeOwner(p) \/ VerifyOwner(p) \/ Reclaim(p)
  BY <1>2 DEF ReadOwner, ProbeOwner, VerifyOwner, Reclaim
<1>3. CASE Retry(p) \/ GiveUp(p) \/ FinishOperation(p) \/ Release(p)
  BY <1>3 DEF Retry, GiveUp, FinishOperation, Release
<1>4. CASE Deadline(p)
  BY <1>4 DEF Deadline
<1>5. CASE Crash(p)
  BY <1>5 DEF Crash
<1> QED
  BY <1>1, <1>2, <1>3, <1>4, <1>5 DEF Step

\* A step keeps the directory exclusive unless it completes the race.
LEMMA ExclusiveStep ==
    ASSUME TypeOK, TypeOK', Grounded, Exclusive, ~TwoReclaimers',
           NEW p \in Proc, Step(p) \/ Deadline(p) \/ Crash(p)
    PROVE  Exclusive'
<1> USE LockAssumption DEF TypeOK, Grounded, Exclusive, Holders, Dead, Goto
<1>1. CASE MakeLock(p)
  BY <1>1 DEF MakeLock
<1>2. CASE FindLock(p) \/ MkdirFails(p)
  BY <1>2 DEF FindLock, MkdirFails
<1>3. CASE WriteOwner(p)
  BY <1>3 DEF WriteOwner
<1>4. CASE WriteOwnerFails(p)
  BY <1>4 DEF WriteOwnerFails
<1>5. CASE ReadOwner(p)
  BY <1>5 DEF ReadOwner
<1>6. CASE ProbeOwner(p)
  BY <1>6 DEF ProbeOwner
<1>7. CASE VerifyOwner(p)
  BY <1>7 DEF VerifyOwner
<1>8. CASE Reclaim(p)
  BY <1>8 DEF Reclaim, TwoReclaimers
<1>9. CASE Retry(p) \/ GiveUp(p)
  BY <1>9 DEF Retry, GiveUp
<1>10. CASE FinishOperation(p)
  BY <1>10 DEF FinishOperation
<1>11. CASE Release(p)
  BY <1>11 DEF Release
<1>12. CASE Deadline(p)
  BY <1>12 DEF Deadline
<1>13. CASE Crash(p)
  <2>1. CASE pc[p] = "release" /\ owner' = NoOwner
    BY <1>13, <2>1 DEF Crash
  <2>2. CASE pc[p] = "reclaim" /\ owner' = NoOwner
    BY <1>13, <2>2 DEF Crash, TwoReclaimers
  <2>3. CASE owner' = owner
    BY <1>13, <2>3 DEF Crash
  <2> QED
    BY <1>13, <2>1, <2>2, <2>3 DEF Crash
<1> QED
  BY <1>1, <1>2, <1>3, <1>4, <1>5, <1>6, <1>7, <1>8, <1>9, <1>10, <1>11, <1>12, <1>13
     DEF Step

LEMMA Invariance == Spec => []IInv
<1>1. Init => IInv
  BY LockAssumption
     DEF Init, IInv, TypeOK, Points, Grounded, Exclusive, Holders, TwoReclaimers
<1>2. IInv /\ TypeOK' /\ [Next]_vars => IInv'
  <2> SUFFICES ASSUME IInv, TypeOK', [Next]_vars
               PROVE  IInv'
    OBVIOUS
  <2>1. ASSUME NEW p \in Proc, Step(p) \/ Deadline(p) \/ Crash(p)
        PROVE  IInv'
    <3>1. Grounded'
      BY <2>1, GroundedStep DEF IInv
    <3>2. raced' \/ Exclusive'
      <4>1. CASE raced
        BY <2>1, <4>1, StepRemembers DEF Remember
      <4>2. CASE TwoReclaimers'
        BY <2>1, <4>2, StepRemembers DEF Remember
      <4>3. CASE ~raced /\ ~TwoReclaimers'
        BY <2>1, <4>3, ExclusiveStep DEF IInv
      <4> QED
        BY <4>1, <4>2, <4>3
    <3> QED
      BY <3>1, <3>2 DEF IInv
  <2>2. CASE UNCHANGED vars
    BY <2>2 DEF vars, IInv, TypeOK, Grounded, Exclusive, Holders, TwoReclaimers, Dead
  <2> QED
    BY <2>1, <2>2 DEF Next
<1> QED
  BY <1>1, <1>2, TypeCorrect, PTL DEF Spec

\* For any number of calls and crashes, two operations run under the lock
\* together only after two contenders raced to remove the same dead owner.
THEOREM Exclusion == Spec => []ExclusionUnlessRaced
<1>1. IInv => ExclusionUnlessRaced
  BY DEF IInv, Exclusive, ExclusionUnlessRaced, MutualExclusion, Holders
<1> QED
  BY <1>1, Invariance, PTL

\* Short of that race the token of a holder stays in owner.json until the
\* holder itself removes it.
THEOREM OwnerStable == Spec => []OwnerStableUnlessRaced
<1>1. IInv => OwnerStableUnlessRaced
  BY DEF IInv, Exclusive, OwnerStableUnlessRaced, Holders
<1> QED
  BY <1>1, Invariance, PTL

\* Where no process can be killed nobody is ever found dead, the race cannot
\* happen, and the lock is an exclusive lock.
THEOREM ExclusionWithoutCrashes == ASSUME Crashable = {} PROVE Spec => []MutualExclusion
<1> DEFINE Safe == /\ ~raced
                   /\ \A p \in Proc : pc[p] \notin {"dead", "verify", "reclaim"}
<1>1. Init => Safe
  BY DEF Init
<1>2. Safe /\ IInv /\ [Next]_vars => Safe'
  <2> SUFFICES ASSUME Safe, IInv, [Next]_vars
               PROVE  Safe'
    OBVIOUS
  <2>1. ASSUME NEW p \in Proc, Step(p) \/ Deadline(p) \/ Crash(p)
        PROVE  Safe'
    <3>1. \A q \in Proc : pc'[q] \notin {"dead", "verify", "reclaim"}
      BY <2>1
         DEF IInv, TypeOK, Grounded, Dead, Goto, Step, MakeLock, FindLock, MkdirFails,
             WriteOwner, WriteOwnerFails, ReadOwner, ProbeOwner, VerifyOwner, Reclaim, Retry, GiveUp,
             FinishOperation, Release, Deadline, Crash
    <3> QED
      BY <2>1, <3>1, StepRemembers DEF Remember, TwoReclaimers
  <2>2. CASE UNCHANGED vars
    BY <2>2 DEF vars
  <2> QED
    BY <2>1, <2>2 DEF Next
<1>3. Safe /\ ExclusionUnlessRaced => MutualExclusion
  BY DEF ExclusionUnlessRaced
<1> QED
  BY <1>1, <1>2, <1>3, Invariance, Exclusion, PTL DEF Spec

\* For any number of calls: a lock directory whose maker died before it named itself
\* is never removed, because no contender can find its owner dead.
THEOREM OrphanStays == Spec => OrphanIsPermanent
<1>1. IInv /\ [Next]_vars => [Orphaned => Orphaned']_vars
  <2> SUFFICES ASSUME IInv, Orphaned, Next PROVE Orphaned'
    BY DEF vars
  <2>1. ASSUME NEW p \in Proc, Step(p) \/ Deadline(p) \/ Crash(p)
        PROVE  Orphaned'
    <3> USE LockAssumption DEF IInv, TypeOK, Grounded, Orphaned, Goto
    <3>1. CASE MakeLock(p) \/ FindLock(p) \/ MkdirFails(p) \/ WriteOwner(p) \/ WriteOwnerFails(p)
      BY <3>1 DEF MakeLock, FindLock, MkdirFails, WriteOwner, WriteOwnerFails
    <3>2. CASE ReadOwner(p) \/ ProbeOwner(p)
      BY <3>2 DEF ReadOwner, ProbeOwner
    <3>3. CASE VerifyOwner(p) \/ Reclaim(p)
      BY <3>3 DEF VerifyOwner, Reclaim
    <3>4. CASE Retry(p) \/ GiveUp(p) \/ FinishOperation(p) \/ Release(p)
      BY <3>4 DEF Retry, GiveUp, FinishOperation, Release
    <3>5. CASE Deadline(p) \/ Crash(p)
      BY <3>5 DEF Deadline, Crash
    <3> QED
      BY <2>1, <3>1, <3>2, <3>3, <3>4, <3>5 DEF Step
  <2> QED
    BY <2>1 DEF Next
<1> QED
  BY <1>1, Invariance, PTL DEF Spec, OrphanIsPermanent
=============================================================================
