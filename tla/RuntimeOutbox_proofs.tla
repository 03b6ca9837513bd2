------------------------- MODULE RuntimeOutbox_proofs -------------------------
(***************************************************************************)
(* What RuntimeOutbox guarantees for any number of sessions, events and    *)
(* overlapping flushes and for any caps.                                   *)
(***************************************************************************)
EXTENDS RuntimeOutbox, FiniteSetTheorems, TLAPS

\* The events are numbered in the order they are generated in, and the number of
\* a session goes with them.
Numbered ==
    /\ IsFiniteSet(generated)
    /\ \A e \in generated : e.id <= Cardinality(generated) /\ e.sequence <= nextSequence[e.session]
    /\ \A e, g \in generated : e.id = g.id => e = g
    /\ SequenceOrder

\* What the outbox holds was generated, and is as safe as it was then.
Known == \A e \in events \cup deadLetters : \E g \in generated : g.id = e.id /\ g.safe = e.safe

\* Once one flush has screened the outbox nothing unsafe is left in it.
Screened == (\E f \in Flusher : pc[f] \notin {"idle", "quarantining"})
                => \A e \in events \cup deadLetters : IsSafe(e)

IInv == TypeOK /\ Numbered /\ Known /\ Screened /\ UnsafeNeverSent

\* What a step that generates nothing leaves in the outbox was there before, as
\* safe as it was.
Derived == \A e \in events' \cup deadLetters' :
              /\ e \in Event
              /\ \E g \in events \cup deadLetters : g.id = e.id /\ g.safe = e.safe

\* trimOutbox adds nothing.
LEMMA TrimSubset == \A S : TrimOutbox(S) \subseteq S
BY DEF TrimOutbox, Newest

\* The number of the next event is new.
LEMMA NextId ==
    ASSUME TypeOK, Numbered
    PROVE  /\ Cardinality(generated) \in Nat
           /\ \A e \in generated : e.id # Cardinality(generated) + 1
           /\ \A x : x \notin generated => Cardinality(generated \cup {x}) = Cardinality(generated) + 1
           /\ \A x : IsFiniteSet(generated \cup {x})
<1>1. Cardinality(generated) \in Nat
  BY FS_CardinalityType DEF Numbered
<1>2. \A e \in generated : e.id # Cardinality(generated) + 1
  BY <1>1 DEF TypeOK, Event, Numbered
<1> QED
  BY <1>1, <1>2, FS_AddElement DEF Numbered

\* The type invariant holds of every reachable state, with the rest of the
\* inductive invariant.
LEMMA InitInv == Init => IInv
<1> SUFFICES ASSUME Init PROVE IInv
  OBVIOUS
<1> USE OutboxAssumption
<1>1. generated = {} \/ \E s \in Session, kind \in Ack \cup {Snapshot} : generated = {Legacy(s, kind, 0)}
  BY DEF Init
<1>2. IsFiniteSet(generated) /\ (generated # {} => Cardinality(generated) = 1)
  <2>1. IsFiniteSet({}) /\ \A x : IsFiniteSet({x}) /\ Cardinality({x}) = 1
    BY FS_EmptySet, FS_Singleton
  <2> QED
    BY <1>1, <2>1
<1>3. \A s \in Session, kind \in Ack \cup {Snapshot} :
         /\ Legacy(s, kind, 0) \in Event
         /\ Legacy(s, kind, 0).attempts = 0
         /\ Legacy(s, kind, MaxAttempts) \in Event
         /\ Legacy(s, kind, MaxAttempts).id = Legacy(s, kind, 0).id
         /\ Legacy(s, kind, MaxAttempts).safe = Legacy(s, kind, 0).safe
  BY DEF Legacy, Event
<1>4. /\ events \subseteq Event /\ deadLetters \subseteq Event /\ generated \subseteq Event
      /\ \A e \in events : e.attempts < MaxAttempts
      /\ Known
  <2>1. CASE events = {} /\ deadLetters = {} /\ generated = {}
    BY <2>1 DEF Known
  <2>2. ASSUME NEW s \in Session, NEW kind \in Ack \cup {Snapshot},
               events = {Legacy(s, kind, 0)} /\ deadLetters = {} /\ generated = events
        PROVE  <1>4!:
    BY <1>3, <2>2 DEF Known
  <2>3. ASSUME NEW s \in Session, NEW kind \in Ack \cup {Snapshot},
               events = {}, deadLetters = {Legacy(s, kind, MaxAttempts)},
               generated = {Legacy(s, kind, 0)}
        PROVE  <1>4!:
    BY <1>3, <2>3 DEF Known
  <2> QED
    BY <2>1, <2>2, <2>3 DEF Init
<1>6. TypeOK
  BY <1>4 DEF Init, TypeOK, Points
<1>5. Numbered
  <2>1. CASE generated = {}
    BY <1>2, <2>1 DEF Numbered, SequenceOrder
  <2>2. ASSUME NEW s \in Session, NEW kind \in Ack \cup {Snapshot}, generated = {Legacy(s, kind, 0)}
        PROVE  Numbered
    <3>1. nextSequence[s] = 1
      BY <2>2 DEF Init, Legacy
    <3> QED
      BY <1>2, <2>2, <3>1 DEF Numbered, SequenceOrder, Legacy
  <2> QED
    BY <1>1, <2>1, <2>2
<1>7. Screened /\ UnsafeNeverSent
  BY DEF Init, Screened, UnsafeNeverSent
<1> QED
  BY <1>4, <1>5, <1>7, <1>6 DEF IInv

\* Setting the delivery state of an event, field by field.
LEMMA SetAttempts ==
    ASSUME NEW e \in Event, NEW n \in 0 .. MaxAttempts
    PROVE  LET u == [e EXCEPT !.attempts = n]
           IN  u \in Event /\ u.attempts = n /\ u.id = e.id /\ u.safe = e.safe
BY DEF Event

LEMMA SetWaiting ==
    ASSUME NEW e \in Event, NEW w \in BOOLEAN
    PROVE  LET u == [e EXCEPT !.waiting = w]
           IN  u \in Event /\ u.attempts = e.attempts /\ u.id = e.id /\ u.safe = e.safe
BY DEF Event

LEMMA SetDeadLetteredAt ==
    ASSUME NEW e \in Event, NEW t \in Nat
    PROVE  LET u == [e EXCEPT !.deadLetteredAt = t]
           IN  /\ u \in Event /\ u.attempts = e.attempts /\ u.id = e.id /\ u.safe = e.safe
               /\ u.deadLetteredAt = t
BY DEF Event

LEMMA SetTwo ==
    ASSUME NEW e \in Event, NEW n \in 0 .. MaxAttempts, NEW w \in BOOLEAN
    PROVE  LET u == [e EXCEPT !.attempts = n, !.waiting = w]
           IN  u \in Event /\ u.attempts = n /\ u.id = e.id /\ u.safe = e.safe
<1> DEFINE a == [e EXCEPT !.attempts = n]
<1>1. a \in Event /\ a.attempts = n /\ a.id = e.id /\ a.safe = e.safe
  BY SetAttempts
<1>2. LET u == [a EXCEPT !.waiting = w]
      IN  u \in Event /\ u.attempts = n /\ u.id = e.id /\ u.safe = e.safe
  <2> HIDE DEF a
  <2> QED
    BY <1>1, SetWaiting
<1> QED
  BY <1>2

\* Queueing an event.
LEMMA EnqueueInv ==
    ASSUME IInv, NEW s \in Session, NEW kind \in Ack \cup {Snapshot}, Enqueue(s, kind)
    PROVE  IInv'
<1> DEFINE id == Cardinality(generated) + 1
           new == [id |-> id, session |-> s, kind |-> kind, sequence |-> NextSequence(s),
                   attempts |-> 0, waiting |-> FALSE, safe |-> TRUE, deadLetteredAt |-> 0]
<1> USE OutboxAssumption
<1>1. /\ Cardinality(generated) \in Nat
      /\ \A e \in generated : e.id # id
      /\ \A x : x \notin generated => Cardinality(generated \cup {x}) = id
      /\ \A x : IsFiniteSet(generated \cup {x})
  BY NextId DEF IInv
<1>2. new \in Event /\ new.id = id /\ new.session = s /\ new.safe /\ new.attempts = 0
      /\ new.sequence = nextSequence[s] + 1 /\ IsSafe(new)
  BY <1>1 DEF Event, NextSequence, IInv, TypeOK, IsSafe
<1> HIDE DEF new
<1>3. /\ events' \subseteq events \cup {new}
      /\ nextSequence' = [nextSequence EXCEPT ![s] = nextSequence[s] + 1]
      /\ generated' = generated \cup {new}
      /\ UNCHANGED <<deadLetters, quarantine, pc, batch, deaths, accepted>>
  BY TrimSubset DEF Enqueue, Retained, NextSequence, new
<1>4. TypeOK'
  BY <1>2, <1>3 DEF IInv, TypeOK
<1>5. Numbered'
  <2>1. new \notin generated
    BY <1>1, <1>2
  <2>2. IsFiniteSet(generated') /\ Cardinality(generated') = id
    BY <1>1, <1>3, <2>1
  <2>3. \A e \in generated : /\ e.id \in Nat /\ e.id < id /\ e.session \in Session
                            /\ e.sequence \in Nat /\ e.sequence <= nextSequence[e.session]
    BY <1>1 DEF IInv, TypeOK, Event, Numbered
  <2>4. nextSequence \in [Session -> Nat]
    BY DEF IInv, TypeOK
  <2>5. \A e \in generated' : e.id <= id /\ e.sequence <= nextSequence'[e.session]
    BY <1>1, <1>2, <1>3, <2>3, <2>4
  <2>6. \A e, g \in generated' : e.id = g.id => e = g
    BY <1>1, <1>2, <1>3 DEF IInv, Numbered
  <2>7. SequenceOrder'
    <3> SUFFICES ASSUME NEW e \in generated', NEW g \in generated',
                        e.session = g.session, e.id < g.id
                 PROVE  e.sequence < g.sequence
      BY DEF SequenceOrder
    <3>1. CASE e = new
      BY <1>1, <1>2, <1>3, <2>3, <3>1
    <3>2. CASE e # new /\ g = new
      BY <1>2, <1>3, <2>3, <2>4, <3>2
    <3>3. CASE e # new /\ g # new
      BY <1>3, <3>3 DEF IInv, Numbered, SequenceOrder
    <3> QED
      BY <3>1, <3>2, <3>3
  <2> QED
    BY <2>2, <2>5, <2>6, <2>7 DEF Numbered
<1>6. Known'
  BY <1>3 DEF IInv, Known
<1>7. Screened'
  BY <1>2, <1>3 DEF IInv, Screened
<1>8. UnsafeNeverSent'
  BY <1>2, <1>3 DEF IInv, UnsafeNeverSent
<1> QED
  BY <1>4, <1>5, <1>6, <1>7, <1>8 DEF IInv

\* A step that generates nothing keeps the numbering and what is known of the
\* outbox; and it is safe to go on from a screened outbox.
LEMMA DerivedInv ==
    ASSUME IInv, Derived, UNCHANGED <<generated, nextSequence>>
    PROVE  /\ Numbered'
           /\ Known'
           /\ (\A e \in events \cup deadLetters : IsSafe(e))
                 => \A e \in events' \cup deadLetters' : IsSafe(e)
<1>1. Numbered'
  BY DEF IInv, Numbered, SequenceOrder
<1>2. Known'
  BY DEF IInv, Known, Derived
<1>3. (\A e \in events \cup deadLetters : IsSafe(e)) => \A e \in events' \cup deadLetters' : IsSafe(e)
  BY DEF Derived, IsSafe
<1> QED
  BY <1>1, <1>2, <1>3

\* The end of a back-off and the requeue of the dead letters, which no flush makes.
LEMMA BackoffInv ==
    ASSUME IInv, NEW e \in events, BackoffPasses(e)
    PROVE  IInv'
<1> DEFINE due == [e EXCEPT !.waiting = FALSE]
<1>1. due \in Event /\ due.attempts = e.attempts /\ due.id = e.id /\ due.safe = e.safe
  BY SetWaiting DEF IInv, TypeOK
<1>2. events' = (events \ {e}) \cup {due}
  BY DEF BackoffPasses
<1> HIDE DEF due
<1>3. TypeOK' /\ Derived
  BY <1>1, <1>2 DEF BackoffPasses, IInv, TypeOK, Derived
<1>4. Numbered' /\ Known' /\ Screened'
  BY <1>3, DerivedInv DEF BackoffPasses, IInv, Screened
<1>5. UnsafeNeverSent'
  BY DEF BackoffPasses, IInv, UnsafeNeverSent
<1> QED
  BY <1>3, <1>4, <1>5 DEF IInv

LEMMA RetryInv ==
    ASSUME IInv, RetryDeadLetters
    PROVE  IInv'
<1> USE OutboxAssumption
<1> DEFINE requeued(e) == [e EXCEPT !.attempts = 0, !.waiting = FALSE, !.deadLetteredAt = 0]
<1>1. \A e \in deadLetters : /\ requeued(e) \in Event /\ requeued(e).attempts = 0
                           /\ requeued(e).id = e.id /\ requeued(e).safe = e.safe
  <2> SUFFICES ASSUME NEW e \in deadLetters
               PROVE  /\ requeued(e) \in Event /\ requeued(e).attempts = 0
                      /\ requeued(e).id = e.id /\ requeued(e).safe = e.safe
    OBVIOUS
  <2> DEFINE u == [e EXCEPT !.attempts = 0, !.waiting = FALSE]
  <2>1. e \in Event /\ 0 \in 0 .. MaxAttempts
    BY DEF IInv, TypeOK
  <2>2. u \in Event /\ u.attempts = 0 /\ u.id = e.id /\ u.safe = e.safe
    BY <2>1, SetTwo
  <2>3. LET v == [u EXCEPT !.deadLetteredAt = 0]
        IN  v \in Event /\ v.attempts = 0 /\ v.id = e.id /\ v.safe = e.safe
    <3> HIDE DEF u
    <3> QED
      BY <2>2, SetDeadLetteredAt
  <2> QED
    BY <2>3
<1>2. /\ events' \subseteq events \cup {requeued(e) : e \in deadLetters}
      /\ deadLetters' \subseteq deadLetters
      /\ UNCHANGED <<nextSequence, quarantine, pc, batch, deaths, accepted, generated>>
  BY TrimSubset DEF RetryDeadLetters
<1> HIDE DEF requeued
<1>3. TypeOK' /\ Derived
  BY <1>1, <1>2 DEF IInv, TypeOK, Derived
<1>4. Numbered' /\ Known' /\ Screened'
  BY <1>2, <1>3, DerivedInv DEF IInv, Screened
<1>5. UnsafeNeverSent'
  BY <1>2 DEF IInv, UnsafeNeverSent
<1> QED
  BY <1>3, <1>4, <1>5 DEF IInv

\* The screening, and the purge that follows it when something was found.
LEMMA ScreenInv ==
    ASSUME IInv, NEW f \in Flusher, Screen(f) \/ Purge(f)
    PROVE  IInv'
<1>1. Derived /\ UNCHANGED <<nextSequence, generated, batch>>
  BY DEF Screen, Purge, Derived, IInv, TypeOK
<1>2. TypeOK'
  <2>1. CASE Screen(f)
    <3>1. Ids({e \in events \cup deadLetters : ~IsSafe(e)}) \subseteq Nat \ {0}
      BY DEF IInv, TypeOK, Event, Ids
    <3> QED
      BY <2>1, <3>1 DEF Screen, IInv, TypeOK, Goto, Points
  <2>2. CASE Purge(f)
    BY <2>2 DEF Purge, IInv, TypeOK, Goto, Points
  <2> QED
    BY <2>1, <2>2
<1>3. Numbered' /\ Known' /\ UnsafeNeverSent'
  BY <1>1, DerivedInv DEF IInv, UnsafeNeverSent
<1>4. Screened'
  <2>1. CASE Screen(f)
    <3>1. CASE \A e \in events \cup deadLetters : IsSafe(e)
      BY <2>1, <3>1 DEF Screen, Screened
    <3>2. CASE ~\A e \in events \cup deadLetters : IsSafe(e)
      <4>1. pc' = [pc EXCEPT ![f] = "quarantining"]
        BY <2>1, <3>2 DEF Screen, Goto
      <4>2. \A g \in Flusher : pc[g] \in {"idle", "quarantining"}
        BY <3>2 DEF IInv, Screened
      <4> QED
        BY <4>1, <4>2 DEF IInv, TypeOK, Screened
    <3> QED
      BY <3>1, <3>2
  <2>2. CASE Purge(f)
    BY <2>2 DEF Purge, Screened
  <2> QED
    BY <2>1, <2>2
<1> QED
  BY <1>2, <1>3, <1>4 DEF IInv

\* The steps of a flush that mark the event it is at.
LEMMA MarkInv ==
    ASSUME IInv, NEW f \in Flusher, MarkDelivered(f) \/ MarkFailed(f)
    PROVE  IInv'
<1> USE OutboxAssumption
<1>1. /\ batch' \in [Flusher -> SUBSET (Nat \ {0})]
      /\ \A g \in Flusher : batch'[g] \subseteq batch[g]
      /\ pc' \in [Flusher -> Points]
      /\ pc[f] \in {"answered", "failed"}
      /\ \A g \in Flusher : g # f => pc'[g] = pc[g]
  BY DEF MarkDelivered, MarkFailed, Advance, Goto, IInv, TypeOK, Points
<1>2. UNCHANGED <<nextSequence, quarantine, accepted, generated>>
  BY DEF MarkDelivered, MarkFailed
<1>3. /\ events' \subseteq Event /\ deadLetters' \subseteq Event /\ deaths' \in Nat
      /\ \A e \in events' : e.attempts < MaxAttempts
      /\ Derived
  <2>1. CASE events' \subseteq events /\ UNCHANGED <<deadLetters, deaths>>
    BY <2>1 DEF IInv, TypeOK, Derived
  <2>2. ASSUME NEW e \in events, Exhausted(e), events' = events \ {e}, deaths' = deaths + 1,
               deadLetters' = TrimDeadLetters(deadLetters \cup
                  {[e EXCEPT !.attempts = @ + 1, !.waiting = FALSE, !.deadLetteredAt = deaths']})
        PROVE  <1>3!:
    <3> DEFINE dead == [e EXCEPT !.attempts = @ + 1, !.waiting = FALSE, !.deadLetteredAt = deaths']
    <3>1. e \in Event /\ e.attempts < MaxAttempts /\ deaths' \in Nat
      BY <2>2 DEF IInv, TypeOK
    <3>2. e.attempts + 1 \in 0 .. MaxAttempts
      BY <3>1 DEF Event
    <3> DEFINE u == [e EXCEPT !.attempts = @ + 1, !.waiting = FALSE]
    <3>3. u \in Event /\ u.id = e.id /\ u.safe = e.safe
      BY <3>1, <3>2, SetTwo
    <3>4. LET v == [u EXCEPT !.deadLetteredAt = deaths']
          IN  v \in Event /\ v.id = e.id /\ v.safe = e.safe
      <4> HIDE DEF u
      <4> QED
        BY <3>1, <3>3, SetDeadLetteredAt
    <3>5. dead \in Event /\ dead.id = e.id /\ dead.safe = e.safe
      BY <3>4
    <3> HIDE DEF dead, u
    <3>6. deadLetters' \subseteq deadLetters \cup {dead}
      BY <2>2 DEF TrimDeadLetters, dead
    <3> QED
      BY <2>2, <3>1, <3>5, <3>6 DEF IInv, TypeOK, Derived
  <2>3. ASSUME NEW e \in events, ~Exhausted(e), UNCHANGED <<deadLetters, deaths>>,
               events' = (events \ {e}) \cup {[e EXCEPT !.attempts = @ + 1, !.waiting = TRUE]}
        PROVE  <1>3!:
    <3> DEFINE waits == [e EXCEPT !.attempts = @ + 1, !.waiting = TRUE]
    <3>1. e \in Event /\ e.attempts + 1 < MaxAttempts
      BY <2>3 DEF IInv, TypeOK, Event, Exhausted
    <3>2. e.attempts + 1 \in 0 .. MaxAttempts
      BY <3>1 DEF Event
    <3>3. waits \in Event /\ waits.id = e.id /\ waits.safe = e.safe /\ waits.attempts < MaxAttempts
      BY <3>1, <3>2, SetTwo
    <3> HIDE DEF waits
    <3>4. events' = (events \ {e}) \cup {waits}
      BY <2>3 DEF waits
    <3> QED
      BY <2>3, <3>3, <3>4 DEF IInv, TypeOK, Derived
  <2>4. CASE MarkDelivered(f)
    BY <2>1, <2>4 DEF MarkDelivered
  <2>5. CASE MarkFailed(f)
    BY <2>1, <2>2, <2>3, <2>5 DEF MarkFailed
  <2> QED
    BY <2>4, <2>5
<1>4. TypeOK'
  BY <1>1, <1>2, <1>3 DEF IInv, TypeOK
<1>5. Numbered' /\ Known' /\ Screened'
  BY <1>1, <1>2, <1>3, DerivedInv DEF IInv, Screened
<1>6. UnsafeNeverSent'
  BY <1>1, <1>2 DEF IInv, UnsafeNeverSent
<1> QED
  BY <1>4, <1>5, <1>6 DEF IInv

\* The steps of a flush that leave the outbox alone.
LEMMA FlushInv ==
    ASSUME IInv, NEW f \in Flusher, ReadPending(f) \/ Send(f) \/ Abort(f)
    PROVE  IInv'
<1>1. /\ UNCHANGED <<events, deadLetters, nextSequence, quarantine, deaths, generated>>
      /\ pc' \in [Flusher -> Points]
      /\ \A g \in Flusher : pc'[g] \notin {"idle", "quarantining"}
                               => pc[g] \notin {"idle", "quarantining"}
  BY DEF ReadPending, Send, Abort, Goto, IInv, TypeOK, Points
<1>2. Derived
  BY <1>1 DEF Derived, IInv, TypeOK
<1>3. Numbered' /\ Known' /\ Screened'
  BY <1>1, <1>2, DerivedInv DEF IInv, Screened
<1>4. batch' \in [Flusher -> SUBSET (Nat \ {0})] /\ accepted' \subseteq Nat \ {0} /\ UnsafeNeverSent'
  <2>1. CASE ReadPending(f)
    <3>1. PICK due : /\ due \subseteq events
                     /\ batch' = [batch EXCEPT ![f] = Ids(due)]
                     /\ UNCHANGED accepted
      BY <2>1 DEF ReadPending
    <3>2. \A e \in events : IsSafe(e)
      BY <2>1 DEF ReadPending, IInv, Screened
    <3>3. \A g \in generated : g.id \in Ids(due) => IsSafe(g)
      BY <3>1, <3>2 DEF Ids, IsSafe, IInv, Known, Numbered
    <3>4. Ids(due) \subseteq Nat \ {0}
      BY <3>1 DEF Ids, IInv, TypeOK, Event
    <3> QED
      BY <1>1, <3>1, <3>3, <3>4 DEF IInv, TypeOK, UnsafeNeverSent
  <2>2. CASE Send(f)
    BY <1>1, <2>2 DEF Send, Current, IInv, TypeOK, UnsafeNeverSent
  <2>3. CASE Abort(f)
    BY <1>1, <2>3 DEF Abort, IInv, TypeOK, UnsafeNeverSent
  <2> QED
    BY <2>1, <2>2, <2>3
<1> QED
  BY <1>1, <1>3, <1>4 DEF IInv, TypeOK

LEMMA Invariance == Spec => []IInv
<1>1. IInv /\ [Next]_vars => IInv'
  <2> SUFFICES ASSUME IInv, [Next]_vars
               PROVE  IInv'
    OBVIOUS
  <2>1. CASE UNCHANGED vars
    BY <2>1 DEF vars, IInv, TypeOK, Numbered, SequenceOrder, Known, Screened, UnsafeNeverSent
  <2>2. CASE Next
    BY <2>2, EnqueueInv, BackoffInv, RetryInv, ScreenInv, MarkInv, FlushInv DEF Next, Step
  <2> QED
    BY <2>1, <2>2
<1> QED
  BY InitInv, <1>1, PTL DEF Spec

\* The variables keep their types, and an event is pending only as long as it has
\* been tried fewer times than the limit.
THEOREM TypeCorrect == Spec => []TypeOK
<1>1. IInv => TypeOK
  BY DEF IInv
<1> QED
  BY Invariance, <1>1, PTL

\* Whatever flushes, retries and crashes overlap, and however small the outbox,
\* nothing that failed the privacy screening is ever sent.
THEOREM NothingUnsafeSent == Spec => []UnsafeNeverSent
<1>1. IInv => UnsafeNeverSent
  BY DEF IInv
<1> QED
  BY Invariance, <1>1, PTL

\* The sequence numbers of a session follow the order of its events.
THEOREM SequenceOrdered == Spec => []SequenceOrder
<1>1. IInv => SequenceOrder
  BY DEF IInv, Numbered
<1> QED
  BY Invariance, <1>1, PTL

-----------------------------------------------------------------------------
(***************************************************************************)
(* What the caps keep.  The n members of a finite set with the greatest    *)
(* keys are n: the number of members above each is a bijection between the *)
(* set and the first numbers.                                              *)
(***************************************************************************)
LEMMA TopCount ==
    ASSUME NEW S, IsFiniteSet(S), NEW key \in [S -> Nat],
           \A e, g \in S : key[e] = key[g] => e = g,
           NEW above \in [S -> SUBSET S], \A e, g \in S : g \in above[e] <=> key[g] > key[e],
           NEW n \in Nat,
           NEW top \in SUBSET S, \A e \in S : e \in top <=> Cardinality(above[e]) < n
    PROVE  /\ n <= Cardinality(S) => Cardinality(top) = n
           /\ n >= Cardinality(S) => top = S
           /\ \A e \in S \ top, g \in top : key[g] > key[e]
<1> DEFINE rank == [e \in S |-> Cardinality(above[e])]
           m == Cardinality(S)
<1>1. m \in Nat
  BY FS_CardinalityType
<1>2. \A e \in S : /\ IsFiniteSet(above[e]) /\ Cardinality(above[e]) \in Nat
                  /\ Cardinality(above[e]) < m
  <2> SUFFICES ASSUME NEW e \in S
               PROVE  /\ IsFiniteSet(above[e]) /\ Cardinality(above[e]) \in Nat
                      /\ Cardinality(above[e]) < m
    OBVIOUS
  <2>1. above[e] \in SUBSET S /\ above[e] # S
    OBVIOUS
  <2>2. /\ IsFiniteSet(above[e]) /\ Cardinality(above[e]) <= m
        /\ Cardinality(above[e]) # m
    BY <2>1, FS_Subset
  <2>3. Cardinality(above[e]) \in Nat
    BY <2>2, FS_CardinalityType
  <2> QED
    BY <1>1, <2>2, <2>3
<1>3. \A e, g \in S : key[g] > key[e] => Cardinality(above[g]) < Cardinality(above[e])
  <2> SUFFICES ASSUME NEW e \in S, NEW g \in S, key[g] > key[e]
               PROVE  Cardinality(above[g]) < Cardinality(above[e])
    OBVIOUS
  <2>1. above[g] \in SUBSET above[e] /\ above[g] # above[e]
    <3>1. g \in above[e] /\ g \notin above[g]
      OBVIOUS
    <3> QED
      BY <3>1
  <2>2. Cardinality(above[g]) <= Cardinality(above[e]) /\ Cardinality(above[g]) # Cardinality(above[e])
    BY <1>2, <2>1, FS_Subset
  <2>3. Cardinality(above[g]) \in Nat /\ Cardinality(above[e]) \in Nat
    BY <1>2
  <2> QED
    BY <2>2, <2>3
<1>4. rank \in Injection(S, 0 .. m - 1)
  <2>1. rank \in [S -> 0 .. m - 1]
    BY <1>1, <1>2
  <2>2. \A e, g \in S : rank[e] = rank[g] => e = g
    <3> SUFFICES ASSUME NEW e \in S, NEW g \in S, e # g PROVE rank[e] # rank[g]
      OBVIOUS
    <3>1. key[e] > key[g] \/ key[g] > key[e]
      OBVIOUS
    <3> QED
      BY <1>2, <1>3, <3>1
  <2> HIDE DEF rank, m
  <2> QED
    BY <2>1, <2>2 DEF Injection, IsInjective
<1>5. rank \in Surjection(S, 0 .. m - 1)
  <2> HIDE DEF m
  <2>1. IsFiniteSet(0 .. m - 1) /\ Cardinality(0 .. m - 1) = m
    BY <1>1, FS_Interval
  <2> USE DEF m
  <2> QED
    BY <1>4, <2>1, FS_Injection
<1>6. ASSUME n <= m PROVE Cardinality(top) = n
  <2> DEFINE low == [e \in top |-> rank[e]]
  <2>1. low \in Bijection(top, 0 .. n - 1)
    <3>1. low \in [top -> 0 .. n - 1]
      BY <1>2
    <3>2. \A e, g \in top : low[e] = low[g] => e = g
      <4>1. \A e, g \in S : rank[e] = rank[g] => e = g
        <5> HIDE DEF rank
        <5> QED
          BY <1>4 DEF Injection, IsInjective
      <4>2. top \subseteq S /\ \A e \in top : low[e] = rank[e]
        OBVIOUS
      <4> HIDE DEF low, rank
      <4> QED
        BY <4>1, <4>2
    <3>3. \A i \in 0 .. n - 1 : \E e \in top : low[e] = i
      <4> SUFFICES ASSUME NEW i \in 0 .. n - 1 PROVE \E e \in top : low[e] = i
        OBVIOUS
      <4>1. i \in 0 .. m - 1
        BY <1>1, <1>6
      <4>2. PICK e \in S : rank[e] = i
        BY <1>5, <4>1 DEF Surjection
      <4> QED
        BY <4>2
    <3> HIDE DEF low
    <3> QED
      BY <3>1, <3>2, <3>3 DEF Bijection, Injection, IsInjective, Surjection
  <2>2. IsFiniteSet(top)
    BY FS_Subset
  <2>3. Cardinality(0 .. n - 1) = n
    BY FS_Interval
  <2>4. ExistsBijection(top, 0 .. n - 1)
    BY <2>1 DEF ExistsBijection
  <2> QED
    BY <2>2, <2>3, <2>4, FS_Bijection
<1>7. n >= m => top = S
  BY <1>1, <1>2
<1>8. \A e \in S \ top, g \in top : key[g] > key[e]
  <2> SUFFICES ASSUME NEW e \in S \ top, NEW g \in top PROVE key[g] > key[e]
    OBVIOUS
  <2>1. e # g /\ e \in S /\ g \in S /\ Cardinality(above[g]) < Cardinality(above[e])
    BY <1>2
  <2>2. ~(key[e] > key[g])
    BY <1>2, <1>3, <2>1
  <2> QED
    BY <2>1, <2>2
<1> QED
  BY <1>6, <1>7, <1>8

\* Those generated last, and those dead-lettered last.
LEMMA NewestCount ==
    ASSUME NEW S \in SUBSET Event, IsFiniteSet(S), \A e, g \in S : e.id = g.id => e = g,
           NEW n \in Nat
    PROVE  /\ n <= Cardinality(S) => Cardinality(Newest(S, n)) = n
           /\ n >= Cardinality(S) => Newest(S, n) = S
           /\ \A e \in S \ Newest(S, n), g \in Newest(S, n) : g.id > e.id
<1> DEFINE key == [e \in S |-> e.id]
           above == [e \in S |-> {g \in S : g.id > e.id}]
<1>1. key \in [S -> Nat] /\ \A e, g \in S : key[e] = key[g] => e = g
  BY DEF Event
<1>2. /\ above \in [S -> SUBSET S]
      /\ \A e, g \in S : g \in above[e] <=> key[g] > key[e]
      /\ \A e \in S : e \in Newest(S, n) <=> Cardinality(above[e]) < n
  BY DEF Newest
<1>3. \A e \in S : key[e] = e.id
  OBVIOUS
<1>4. Newest(S, n) \subseteq S
  BY DEF Newest
<1> HIDE DEF key, above
<1>5. /\ n <= Cardinality(S) => Cardinality(Newest(S, n)) = n
      /\ n >= Cardinality(S) => Newest(S, n) = S
      /\ \A e \in S \ Newest(S, n), g \in Newest(S, n) : key[g] > key[e]
  BY <1>1, <1>2, <1>4, TopCount
<1> QED
  BY <1>3, <1>4, <1>5

LEMMA DeadLettersCount ==
    ASSUME NEW S \in SUBSET Event, IsFiniteSet(S),
           \A e, g \in S : e.deadLetteredAt = g.deadLetteredAt => e = g
    PROVE  \A e \in S \ TrimDeadLetters(S) :
               Cardinality({g \in TrimDeadLetters(S) : g.deadLetteredAt > e.deadLetteredAt})
                   = MaxDeadLetters
<1> USE OutboxAssumption
<1> DEFINE key == [e \in S |-> e.deadLetteredAt]
           above == [e \in S |-> {g \in S : g.deadLetteredAt > e.deadLetteredAt}]
<1>1. key \in [S -> Nat] /\ \A e, g \in S : key[e] = key[g] => e = g
  BY DEF Event
<1>2. /\ above \in [S -> SUBSET S]
      /\ \A e, g \in S : g \in above[e] <=> key[g] > key[e]
      /\ \A e \in S : e \in TrimDeadLetters(S) <=> Cardinality(above[e]) < MaxDeadLetters
  BY DEF TrimDeadLetters
<1>3. \A e \in S : key[e] = e.deadLetteredAt
  OBVIOUS
<1>4. TrimDeadLetters(S) \subseteq S
  BY DEF TrimDeadLetters
<1> HIDE DEF key, above
<1>5. /\ MaxDeadLetters <= Cardinality(S) => Cardinality(TrimDeadLetters(S)) = MaxDeadLetters
      /\ MaxDeadLetters >= Cardinality(S) => TrimDeadLetters(S) = S
      /\ \A e \in S \ TrimDeadLetters(S), g \in TrimDeadLetters(S) : key[g] > key[e]
  BY <1>1, <1>2, <1>4, TopCount
<1> SUFFICES ASSUME NEW e \in S \ TrimDeadLetters(S)
             PROVE  Cardinality({g \in TrimDeadLetters(S) : g.deadLetteredAt > e.deadLetteredAt})
                        = MaxDeadLetters
  OBVIOUS
<1>6. {g \in TrimDeadLetters(S) : g.deadLetteredAt > e.deadLetteredAt} = TrimDeadLetters(S)
  BY <1>3, <1>4, <1>5
<1>7. Cardinality(TrimDeadLetters(S)) = MaxDeadLetters
  BY <1>5, FS_CardinalityType
<1> QED
  BY <1>6, <1>7

\* What trimOutbox gives up is displaced by as many events as the outbox holds:
\* an acknowledgement by later acknowledgements, a snapshot by acknowledgements
\* and later snapshots.
LEMMA TrimKeeps ==
    ASSUME NEW S \in SUBSET Event, IsFiniteSet(S), \A e, g \in S : e.id = g.id => e = g
    PROVE  \A e \in S \ TrimOutbox(S) :
               /\ IsAck(e) => Cardinality({g \in TrimOutbox(S) : IsAck(g) /\ g.id > e.id}) = MaxEvents
               /\ ~IsAck(e) => Cardinality({g \in TrimOutbox(S) : IsAck(g) \/ g.id > e.id}) = MaxEvents
<1> USE OutboxAssumption
<1> DEFINE acks == {e \in S : IsAck(e)}
           rest == S \ acks
           room == MaxEvents - Cardinality(acks)
<1>1. acks \in SUBSET Event /\ rest \in SUBSET Event /\ IsFiniteSet(acks) /\ IsFiniteSet(rest)
  BY FS_Subset
<1>2. Cardinality(acks) \in Nat /\ Cardinality(rest) \in Nat
  BY <1>1, FS_CardinalityType
<1> SUFFICES ASSUME NEW e \in S \ TrimOutbox(S)
             PROVE  /\ IsAck(e) => Cardinality({g \in TrimOutbox(S) : IsAck(g) /\ g.id > e.id}) = MaxEvents
                    /\ ~IsAck(e) => Cardinality({g \in TrimOutbox(S) : IsAck(g) \/ g.id > e.id}) = MaxEvents
  OBVIOUS
<1>3. CASE Cardinality(acks) >= MaxEvents
  <2> DEFINE T == Newest(acks, MaxEvents)
  <2>1. TrimOutbox(S) = T
    BY <1>3 DEF TrimOutbox
  <2>2. T \subseteq acks /\ \A g \in T : IsAck(g)
    BY DEF Newest
  <2>3. Cardinality(T) = MaxEvents /\ \A g \in T : e \in acks => g.id > e.id
    <3>1. \A x, y \in acks : x.id = y.id => x = y
      OBVIOUS
    <3> HIDE DEF acks
    <3> QED
      BY <1>1, <1>2, <1>3, <2>1, <3>1, NewestCount
  <2>4. IsAck(e) => {g \in T : IsAck(g) /\ g.id > e.id} = T
    BY <2>2, <2>3
  <2>5. {g \in T : IsAck(g) \/ g.id > e.id} = T
    BY <2>2
  <2> QED
    BY <2>1, <2>3, <2>4, <2>5
<1>4. CASE Cardinality(acks) < MaxEvents
  <2> DEFINE T == Newest(rest, room)
  <2>1. TrimOutbox(S) = acks \cup T
    <3>1. ~(Cardinality(acks) >= MaxEvents)
      BY <1>2, <1>4
    <3> QED
      BY <3>1, Zenon DEF TrimOutbox
  <2>2. T \subseteq rest /\ e \in rest \ T /\ ~IsAck(e) /\ room \in Nat
    BY <1>2, <1>4, <2>1 DEF Newest
  <2>3. Cardinality(T) = room /\ \A g \in T : g.id > e.id
    <3>1. \A x, y \in rest : x.id = y.id => x = y
      OBVIOUS
    <3> HIDE DEF rest, room
    <3> QED
      BY <1>1, <1>2, <2>2, <3>1, NewestCount
  <2>4. {g \in acks \cup T : IsAck(g) \/ g.id > e.id} = acks \cup T
    BY <2>3
  <2>5. Cardinality(acks \cup T) = MaxEvents
    <3>1. acks \cap T = {} /\ IsFiniteSet(T)
      BY <1>1, <2>2, FS_Subset
    <3>2. Cardinality(acks \cap T) = 0
      BY <3>1, FS_EmptySet
    <3> HIDE DEF acks, T
    <3>3. Cardinality(acks \cup T) = Cardinality(acks) + Cardinality(T) - Cardinality(acks \cap T)
      BY <1>1, <3>1, FS_Union
    <3> QED
      BY <1>2, <2>3, <3>2, <3>3
  <2> QED
    BY <2>1, <2>2, <2>4, <2>5
<1> QED
  BY <1>2, <1>3, <1>4

-----------------------------------------------------------------------------
(***************************************************************************)
(* That an event leaves the outbox only for a reason.  An id names one     *)
(* event wherever it is, the cloud has taken in what a flush is about to   *)
(* mark as delivered, and what a purge removes is in the quarantine file.  *)
(***************************************************************************)
Distinct ==
    /\ IsFiniteSet(events) /\ IsFiniteSet(deadLetters)
    /\ \A e, g \in events : e.id = g.id => e = g
    /\ \A e, g \in deadLetters : e.id = g.id \/ e.deadLetteredAt = g.deadLetteredAt => e = g
    /\ \A e \in events, g \in deadLetters : e.id # g.id
    /\ \A e \in deadLetters : e.deadLetteredAt <= deaths

Answered == \A f \in Flusher : pc[f] = "answered" => Current(f) \subseteq accepted

Quarantined == (\E f \in Flusher : pc[f] = "quarantining")
                   => \A e \in events \cup deadLetters : IsSafe(e) \/ e.id \in quarantine

KeptInv == IInv /\ Distinct /\ Answered /\ Quarantined

LEMMA KeptInit == Init => KeptInv
<1> SUFFICES ASSUME Init PROVE KeptInv
  OBVIOUS
<1>1. \A x : IsFiniteSet({x})
  BY FS_Singleton
<1>2. IsFiniteSet({})
  BY FS_EmptySet
<1>3. Distinct
  <2>1. CASE events = {} /\ deadLetters = {}
    BY <1>2, <2>1 DEF Distinct
  <2>2. ASSUME NEW e, events = {e}, deadLetters = {} PROVE Distinct
    BY <1>1, <1>2, <2>2 DEF Distinct
  <2>3. ASSUME NEW s \in Session, NEW kind \in Ack \cup {Snapshot},
               events = {}, deadLetters = {Legacy(s, kind, MaxAttempts)}
        PROVE  Distinct
    <3>1. Legacy(s, kind, MaxAttempts).deadLetteredAt = 0 /\ deaths = 0
      BY DEF Legacy, Init
    <3>2. IsFiniteSet(events) /\ IsFiniteSet(deadLetters)
      BY <1>1, <1>2, <2>3
    <3>3. \A e \in deadLetters : e = Legacy(s, kind, MaxAttempts)
      BY <2>3
    <3>4. \A e \in deadLetters : e.deadLetteredAt <= deaths
      BY <3>1, <3>3
    <3> QED
      BY <2>3, <3>2, <3>3, <3>4 DEF Distinct
  <2> QED
    BY <2>1, <2>2, <2>3 DEF Init
<1>4. Answered /\ Quarantined
  BY DEF Init, Answered, Quarantined
<1> QED
  BY <1>3, <1>4, InitInv DEF KeptInv

\* Taking events out, and changing the delivery state of one.
LEMMA FewerDistinct ==
    ASSUME Distinct, events' \subseteq events, deadLetters' \subseteq deadLetters, UNCHANGED deaths
    PROVE  Distinct'
<1>1. IsFiniteSet(events') /\ IsFiniteSet(deadLetters')
  BY FS_Subset DEF Distinct
<1> QED
  BY <1>1 DEF Distinct

LEMMA ReplaceDistinct ==
    ASSUME Distinct, NEW e \in events, NEW u, u.id = e.id,
           events' = (events \ {e}) \cup {u}, UNCHANGED <<deadLetters, deaths>>
    PROVE  Distinct'
<1>1. IsFiniteSet(events \ {e})
  BY FS_RemoveElement DEF Distinct
<1>2. IsFiniteSet(events')
  BY <1>1, FS_AddElement
<1> QED
  BY <1>2 DEF Distinct

\* The new event of an enqueue has an id that nothing in the outbox has.
LEMMA EnqueueDistinct ==
    ASSUME KeptInv, NEW s \in Session, NEW kind \in Ack \cup {Snapshot}, Enqueue(s, kind)
    PROVE  Distinct'
<1> DEFINE id == Cardinality(generated) + 1
           new == [id |-> id, session |-> s, kind |-> kind, sequence |-> NextSequence(s),
                   attempts |-> 0, waiting |-> FALSE, safe |-> TRUE, deadLetteredAt |-> 0]
<1>1. \A e \in generated : e.id # id
  BY NextId DEF KeptInv, IInv
<1>2. \A e \in events \cup deadLetters : e.id # id
  BY <1>1 DEF KeptInv, IInv, Known
<1>3. new.id = id
  OBVIOUS
<1> HIDE DEF new
<1>4. events' \subseteq events \cup {new} /\ UNCHANGED <<deadLetters, deaths>>
  BY TrimSubset DEF Enqueue, Retained, new
<1>5. IsFiniteSet(events \cup {new})
  BY FS_AddElement DEF KeptInv, Distinct
<1>6. IsFiniteSet(events')
  BY <1>4, <1>5, FS_Subset
<1> HIDE DEF id
<1> QED
  BY <1>2, <1>3, <1>4, <1>6 DEF KeptInv, Distinct

\* The event dead-lettered last is after all the others.
LEMMA DeadDistinct ==
    ASSUME KeptInv, NEW e \in events, NEW dead \in Event, dead.id = e.id,
           dead.deadLetteredAt = deaths + 1, deaths' = deaths + 1, events' = events \ {e},
           deadLetters' = TrimDeadLetters(deadLetters \cup {dead})
    PROVE  /\ Distinct'
           /\ dead \in deadLetters'
           /\ \A g \in deadLetters \ deadLetters' : Displaced(g)
<1> USE OutboxAssumption
<1> DEFINE S == deadLetters \cup {dead}
<1>1. IsFiniteSet(S) /\ IsFiniteSet(events')
  BY FS_AddElement, FS_RemoveElement DEF KeptInv, Distinct
<1>2. deaths \in Nat /\ S \in SUBSET Event
  BY DEF KeptInv, IInv, TypeOK
<1>3. \A g \in deadLetters : g.deadLetteredAt \in Nat /\ g.deadLetteredAt < deaths + 1
  BY <1>2 DEF KeptInv, Distinct, Event
<1>4. \A g, h \in S : g.id = h.id \/ g.deadLetteredAt = h.deadLetteredAt => g = h
  BY <1>3 DEF KeptInv, Distinct
<1>5. deadLetters' \subseteq S
  BY DEF TrimDeadLetters
<1>6. IsFiniteSet(deadLetters')
  BY <1>1, <1>5, FS_Subset
<1>7. Distinct'
  <2>1. \A g \in S : g.deadLetteredAt <= deaths'
    BY <1>2, <1>3
  <2>2. \A g \in events', h \in S : g.id # h.id
    BY DEF KeptInv, Distinct
  <2>3. \A g, h \in events' : g.id = h.id => g = h
    BY DEF KeptInv, Distinct
  <2> HIDE DEF S
  <2> QED
    BY <1>1, <1>4, <1>5, <1>6, <2>1, <2>2, <2>3 DEF Distinct
<1>8. dead \in deadLetters'
  <2>1. {g \in S : g.deadLetteredAt > dead.deadLetteredAt} = {}
    BY <1>2, <1>3
  <2>2. Cardinality({g \in S : g.deadLetteredAt > dead.deadLetteredAt}) = 0
    BY <2>1, FS_EmptySet
  <2> QED
    BY <2>2 DEF TrimDeadLetters
<1>9. \A g \in deadLetters \ deadLetters' : Displaced(g)
  <2> SUFFICES ASSUME NEW g \in deadLetters \ deadLetters' PROVE Displaced(g)
    OBVIOUS
  <2>1. g \in S \ TrimDeadLetters(S)
    OBVIOUS
  <2> HIDE DEF S
  <2>2. Cardinality({h \in TrimDeadLetters(S) : h.deadLetteredAt > g.deadLetteredAt}) = MaxDeadLetters
    BY <1>1, <1>2, <1>4, <2>1, DeadLettersCount
  <2>3. deadLetters' = TrimDeadLetters(S)
    BY DEF S
  <2> QED
    BY <2>2, <2>3 DEF Displaced
<1> QED
  BY <1>7, <1>8, <1>9

\* What a retry puts back.
Requeued(e) == [e EXCEPT !.attempts = 0, !.waiting = FALSE, !.deadLetteredAt = 0]

LEMMA RetryDistinct ==
    ASSUME KeptInv, RetryDeadLetters
    PROVE  LET S == events \cup {Requeued(e) : e \in deadLetters}
           IN  /\ S \in SUBSET Event /\ IsFiniteSet(S)
               /\ \A g, h \in S : g.id = h.id => g = h
               /\ events' = TrimOutbox(S)
               /\ Distinct'
<1> USE OutboxAssumption
<1> DEFINE back == {Requeued(e) : e \in deadLetters}
           S == events \cup back
<1>1. \A e \in deadLetters : Requeued(e) \in Event /\ Requeued(e).id = e.id
  <2> SUFFICES ASSUME NEW e \in deadLetters PROVE Requeued(e) \in Event /\ Requeued(e).id = e.id
    OBVIOUS
  <2> DEFINE u == [e EXCEPT !.attempts = 0, !.waiting = FALSE]
  <2>1. e \in Event /\ 0 \in 0 .. MaxAttempts
    BY DEF KeptInv, IInv, TypeOK
  <2>2. u \in Event /\ u.id = e.id
    BY <2>1, SetTwo
  <2>3. [u EXCEPT !.deadLetteredAt = 0] \in Event /\ [u EXCEPT !.deadLetteredAt = 0].id = e.id
    <3> HIDE DEF u
    <3> QED
      BY <2>2, SetDeadLetteredAt
  <2> QED
    BY <2>3 DEF Requeued
<1>2. events' = TrimOutbox(S) /\ deadLetters' = {e \in deadLetters : e.id \notin Ids(events')}
      /\ UNCHANGED deaths
  BY DEF RetryDeadLetters, Requeued
<1> HIDE DEF Requeued
<1>3. IsFiniteSet(back)
  <2> DEFINE f == [e \in deadLetters |-> Requeued(e)]
  <2>1. f \in Surjection(deadLetters, back)
    BY DEF Surjection
  <2> HIDE DEF f, back
  <2> QED
    BY <2>1, FS_Surjection DEF KeptInv, Distinct
<1>4. S \in SUBSET Event
  BY <1>1 DEF KeptInv, IInv, TypeOK
<1>5. \A g, h \in S : g.id = h.id => g = h
  <2>1. \A g \in back : \E e \in deadLetters : g = Requeued(e) /\ g.id = e.id
    BY <1>1
  <2> HIDE DEF back
  <2> QED
    BY <2>1 DEF KeptInv, Distinct
<1>6. IsFiniteSet(S)
  <2> HIDE DEF back
  <2> QED
    BY <1>3, FS_Union DEF KeptInv, Distinct
<1>7. events' \subseteq S
  BY <1>2, TrimSubset
<1>8. IsFiniteSet(events') /\ IsFiniteSet(deadLetters')
  BY <1>2, <1>6, <1>7, FS_Subset DEF KeptInv, Distinct
<1>9. Distinct'
  <2>1. deadLetters' \subseteq deadLetters /\ \A g \in events', h \in deadLetters' : g.id # h.id
    BY <1>2 DEF Ids
  <2> HIDE DEF S
  <2> QED
    BY <1>2, <1>5, <1>7, <1>8, <2>1 DEF KeptInv, Distinct
<1> QED
  BY <1>2, <1>4, <1>5, <1>6, <1>9

\* What a failed delivery does to the outbox: nothing, one attempt more, or a
\* dead letter after all the others.
LEMMA FailedCases ==
    ASSUME KeptInv, NEW f \in Flusher, MarkFailed(f)
    PROVE  \/ UNCHANGED <<events, deadLetters, deaths>>
           \/ \E e \in events, u \in Event : /\ u.id = e.id
                                            /\ events' = (events \ {e}) \cup {u}
                                            /\ UNCHANGED <<deadLetters, deaths>>
           \/ \E e \in events, dead \in Event :
                 /\ dead.id = e.id /\ dead.deadLetteredAt = deaths + 1
                 /\ deaths' = deaths + 1 /\ events' = events \ {e}
                 /\ deadLetters' = TrimDeadLetters(deadLetters \cup {dead})
<1> USE OutboxAssumption
<1>1. CASE UNCHANGED <<events, deadLetters, deaths>>
  BY <1>1
<1>2. ASSUME NEW e \in events, Exhausted(e), events' = events \ {e}, deaths' = deaths + 1,
             deadLetters' = TrimDeadLetters(deadLetters \cup
                {[e EXCEPT !.attempts = @ + 1, !.waiting = FALSE, !.deadLetteredAt = deaths']})
      PROVE  \E g \in events, dead \in Event :
                 /\ dead.id = g.id /\ dead.deadLetteredAt = deaths + 1
                 /\ deaths' = deaths + 1 /\ events' = events \ {g}
                 /\ deadLetters' = TrimDeadLetters(deadLetters \cup {dead})
  <2> DEFINE dead == [e EXCEPT !.attempts = @ + 1, !.waiting = FALSE, !.deadLetteredAt = deaths']
             u == [e EXCEPT !.attempts = @ + 1, !.waiting = FALSE]
  <2>1. e \in Event /\ e.attempts < MaxAttempts /\ deaths' \in Nat
    BY <1>2 DEF KeptInv, IInv, TypeOK
  <2>2. e.attempts + 1 \in 0 .. MaxAttempts
    BY <2>1 DEF Event
  <2>3. u \in Event /\ u.id = e.id
    BY <2>1, <2>2, SetTwo
  <2>4. LET v == [u EXCEPT !.deadLetteredAt = deaths']
        IN  v \in Event /\ v.id = e.id /\ v.deadLetteredAt = deaths'
    <3> HIDE DEF u
    <3> QED
      BY <2>1, <2>3, SetDeadLetteredAt
  <2>5. dead \in Event /\ dead.id = e.id /\ dead.deadLetteredAt = deaths'
    BY <2>4
  <2>6. deadLetters' = TrimDeadLetters(deadLetters \cup {dead})
    BY <1>2
  <2> HIDE DEF dead, u
  <2> QED
    BY <1>2, <2>5, <2>6
<1>3. ASSUME NEW e \in events, ~Exhausted(e), UNCHANGED <<deadLetters, deaths>>,
             events' = (events \ {e}) \cup {[e EXCEPT !.attempts = @ + 1, !.waiting = TRUE]}
      PROVE  \E g \in events, u \in Event : /\ u.id = g.id
                                            /\ events' = (events \ {g}) \cup {u}
                                            /\ UNCHANGED <<deadLetters, deaths>>
  <2> DEFINE waits == [e EXCEPT !.attempts = @ + 1, !.waiting = TRUE]
  <2>1. e \in Event /\ e.attempts + 1 < MaxAttempts
    BY <1>3 DEF KeptInv, IInv, TypeOK, Event, Exhausted
  <2>2. e.attempts + 1 \in 0 .. MaxAttempts
    BY <2>1 DEF Event
  <2>3. waits \in Event /\ waits.id = e.id
    BY <2>1, <2>2, SetTwo
  <2>4. events' = (events \ {e}) \cup {waits}
    BY <1>3
  <2> HIDE DEF waits
  <2> QED
    BY <1>3, <2>3, <2>4
<1> QED
  BY <1>1, <1>2, <1>3 DEF MarkFailed

\* An id names one event wherever it is, after any step.
LEMMA DistinctStep ==
    ASSUME KeptInv, Next
    PROVE  Distinct'
<1>1. ASSUME NEW e \in events, BackoffPasses(e) PROVE Distinct'
  <2> DEFINE due == [e EXCEPT !.waiting = FALSE]
  <2>1. due.id = e.id
    BY SetWaiting DEF KeptInv, IInv, TypeOK
  <2>2. events' = (events \ {e}) \cup {due} /\ UNCHANGED <<deadLetters, deaths>>
    BY <1>1 DEF BackoffPasses
  <2> HIDE DEF due
  <2> QED
    BY <2>1, <2>2, ReplaceDistinct DEF KeptInv
<1>2. ASSUME NEW f \in Flusher, Step(f) PROVE Distinct'
  <2>1. CASE Screen(f) \/ Purge(f) \/ ReadPending(f) \/ Send(f) \/ MarkDelivered(f) \/ Abort(f)
    <3>1. events' \subseteq events /\ deadLetters' \subseteq deadLetters /\ UNCHANGED deaths
      BY <2>1 DEF Screen, Purge, ReadPending, Send, MarkDelivered, Abort
    <3> QED
      BY <3>1, FewerDistinct DEF KeptInv
  <2>2. CASE MarkFailed(f)
    <3>1. CASE UNCHANGED <<events, deadLetters, deaths>>
      BY <3>1 DEF KeptInv, Distinct
    <3>2. ASSUME NEW e \in events, NEW u \in Event, u.id = e.id,
                 events' = (events \ {e}) \cup {u}, UNCHANGED <<deadLetters, deaths>>
          PROVE  Distinct'
      BY <3>2, ReplaceDistinct DEF KeptInv
    <3> QED
      BY <2>2, <3>1, <3>2, FailedCases, DeadDistinct
  <2> QED
    BY <1>2, <2>1, <2>2 DEF Step
<1> QED
  BY <1>1, <1>2, EnqueueDistinct, RetryDistinct DEF Next

\* The cloud has taken in what a flush is about to mark as delivered.
LEMMA AnsweredStep ==
    ASSUME KeptInv, Next
    PROVE  Answered'
<1>1. ASSUME UNCHANGED <<pc, batch, accepted>> PROVE Answered'
  BY <1>1 DEF KeptInv, Answered, Current
<1>2. ASSUME NEW f \in Flusher, Step(f) PROVE Answered'
  <2>1. /\ \A g \in Flusher \ {f} : pc'[g] = pc[g] /\ batch'[g] = batch[g]
        /\ accepted \subseteq accepted'
        /\ pc'[f] = "answered" => Send(f)
    BY <1>2 DEF Step, Screen, Purge, ReadPending, Send, MarkDelivered, MarkFailed, Abort, Advance,
                Goto, KeptInv, IInv, TypeOK
  <2>2. Send(f) => (pc'[f] = "answered" => batch' = batch /\ Current(f) \subseteq accepted')
    BY DEF Send, Goto, KeptInv, IInv, TypeOK
  <2> SUFFICES ASSUME NEW g \in Flusher, pc'[g] = "answered"
               PROVE  Current(g)' \subseteq accepted'
    BY DEF Answered
  <2>3. CASE g = f
    <3>1. batch' = batch /\ Current(f) \subseteq accepted'
      BY <2>1, <2>2, <2>3
    <3> QED
      BY <2>3, <3>1 DEF Current
  <2>4. CASE g # f
    <3>1. pc[g] = "answered" /\ batch'[g] = batch[g]
      BY <2>1, <2>4
    <3> QED
      BY <2>1, <3>1 DEF KeptInv, Answered, Current
  <2> QED
    BY <2>3, <2>4
<1> QED
  BY <1>1, <1>2 DEF Next, Enqueue, BackoffPasses, RetryDeadLetters

\* What a purge is about to remove is in the quarantine file.
LEMMA QuarantinedStep ==
    ASSUME KeptInv, Next
    PROVE  Quarantined'
<1>1. ASSUME NEW s \in Session, NEW kind \in Ack \cup {Snapshot}, Enqueue(s, kind)
      PROVE  Quarantined'
  BY <1>1 DEF Enqueue, LockFree, Quarantined
<1>2. CASE RetryDeadLetters
  BY <1>2 DEF RetryDeadLetters, LockFree, Quarantined
<1>3. ASSUME NEW e \in events, BackoffPasses(e) PROVE Quarantined'
  <2> DEFINE due == [e EXCEPT !.waiting = FALSE]
  <2>1. due.id = e.id /\ due.safe = e.safe
    BY SetWaiting DEF KeptInv, IInv, TypeOK
  <2>2. events' = (events \ {e}) \cup {due} /\ UNCHANGED <<deadLetters, quarantine, pc>>
    BY <1>3 DEF BackoffPasses
  <2> HIDE DEF due
  <2> QED
    BY <2>1, <2>2 DEF KeptInv, Quarantined, IsSafe
<1>4. ASSUME NEW f \in Flusher, Step(f) PROVE Quarantined'
  <2>1. CASE Screen(f)
    BY <2>1 DEF Screen, Quarantined, Ids
  <2>2. CASE MarkFailed(f)
    <3>1. \A g \in Flusher : pc'[g] # "quarantining"
      BY <2>2 DEF MarkFailed, Advance, Goto, LockFree, KeptInv, IInv, TypeOK
    <3> QED
      BY <3>1 DEF Quarantined
  <2>3. CASE Purge(f) \/ ReadPending(f) \/ Send(f) \/ MarkDelivered(f) \/ Abort(f)
    <3>1. /\ events' \subseteq events /\ deadLetters' \subseteq deadLetters /\ UNCHANGED quarantine
          /\ \A g \in Flusher : pc'[g] = "quarantining" => pc[g] = "quarantining"
      BY <2>3 DEF Purge, ReadPending, Send, MarkDelivered, Abort, Advance, Goto, KeptInv, IInv, TypeOK
    <3> QED
      BY <3>1 DEF KeptInv, Quarantined
  <2> QED
    BY <1>4, <2>1, <2>2, <2>3 DEF Step
<1> QED
  BY <1>1, <1>2, <1>3, <1>4 DEF Next

LEMMA KeptInvariance == Spec => []KeptInv
<1>1. KeptInv /\ IInv' /\ [Next]_vars => KeptInv'
  <2> SUFFICES ASSUME KeptInv, IInv', [Next]_vars PROVE KeptInv'
    OBVIOUS
  <2>1. CASE UNCHANGED vars
    BY <2>1 DEF vars, KeptInv, Distinct, Answered, Current, Quarantined
  <2>2. CASE Next
    BY <2>2, DistinctStep, AnsweredStep, QuarantinedStep DEF KeptInv
  <2> QED
    BY <2>1, <2>2
<1> QED
  BY KeptInit, <1>1, Invariance, PTL DEF Spec

-----------------------------------------------------------------------------
(* Why an event leaves the outbox, step by step *)

AckStep ==
    \A e \in events \cup deadLetters :
        IsAck(e) /\ e.id \notin Present'
           => \/ e.id \in accepted
              \/ Displaced(e)
              \/ Cardinality({g \in events' : IsAck(g) /\ g.id > e.id}) = MaxEvents

SnapshotStep ==
    \A e \in events \cup deadLetters :
        ~IsAck(e) /\ e.id \notin Present'
           => \/ e.id \in accepted
              \/ \E g \in generated' : ~IsAck(g) /\ g.session = e.session /\ g.id > e.id
              \/ Displaced(e)
              \/ Cardinality({g \in events' : IsAck(g) \/ g.id > e.id}) = MaxEvents

\* Queueing: a snapshot gives way to a later one of its session, and what
\* trimOutbox gives up is displaced.
LEMMA EnqueueKeeps ==
    ASSUME KeptInv, NEW s \in Session, NEW kind \in Ack \cup {Snapshot}, Enqueue(s, kind)
    PROVE  AckStep /\ SnapshotStep
<1> USE OutboxAssumption
<1> DEFINE id == Cardinality(generated) + 1
           new == [id |-> id, session |-> s, kind |-> kind, sequence |-> NextSequence(s),
                   attempts |-> 0, waiting |-> FALSE, safe |-> TRUE, deadLetteredAt |-> 0]
           S == Retained(s, kind) \cup {new}
<1>1. Cardinality(generated) \in Nat /\ \A e \in generated : e.id # id /\ e.id <= Cardinality(generated)
  BY NextId DEF KeptInv, IInv, Numbered
<1>2. \A e \in events \cup deadLetters : e.id # id /\ id > e.id
  BY <1>1 DEF KeptInv, IInv, Known, TypeOK, Event
<1>3. new \in Event /\ new.id = id /\ new.kind = kind /\ new.session = s
  BY <1>1 DEF Event, NextSequence, KeptInv, IInv, TypeOK
<1>4. events' = TrimOutbox(S) /\ generated' = generated \cup {new} /\ UNCHANGED deadLetters
  BY DEF Enqueue
<1>5. Retained(s, kind) \subseteq events
      /\ \A e \in events \ Retained(s, kind) : kind = Snapshot /\ ~IsAck(e) /\ e.session = s
  BY DEF Retained
<1> HIDE DEF new, id
<1>6. S \in SUBSET Event /\ IsFiniteSet(S) /\ \A e, g \in S : e.id = g.id => e = g
  <2>1. IsFiniteSet(Retained(s, kind))
    BY <1>5, FS_Subset DEF KeptInv, Distinct
  <2>2. IsFiniteSet(S)
    BY <2>1, FS_AddElement
  <2> QED
    BY <1>2, <1>3, <1>5, <2>2 DEF KeptInv, IInv, TypeOK, Distinct
<1> HIDE DEF S
<1>7. \A e \in S \ events' :
         /\ IsAck(e) => Cardinality({g \in events' : IsAck(g) /\ g.id > e.id}) = MaxEvents
         /\ ~IsAck(e) => Cardinality({g \in events' : IsAck(g) \/ g.id > e.id}) = MaxEvents
  BY <1>4, <1>6, TrimKeeps
<1> SUFFICES ASSUME NEW e \in events \cup deadLetters, e.id \notin Present'
             PROVE  \/ /\ IsAck(e)
                       /\ Cardinality({g \in events' : IsAck(g) /\ g.id > e.id}) = MaxEvents
                    \/ /\ ~IsAck(e)
                       /\ \/ \E g \in generated' : ~IsAck(g) /\ g.session = e.session /\ g.id > e.id
                          \/ Cardinality({g \in events' : IsAck(g) \/ g.id > e.id}) = MaxEvents
  BY DEF AckStep, SnapshotStep
<1>8. e \in events /\ e \notin events'
  BY <1>4 DEF Present, Ids
<1>9. CASE e \in Retained(s, kind)
  <2>1. e \in S
    BY <1>9 DEF S
  <2> QED
    BY <1>7, <1>8, <2>1
<1>10. CASE e \notin Retained(s, kind)
  <2>1. ~IsAck(e) /\ new \in generated' /\ new.session = e.session /\ new.id > e.id /\ ~IsAck(new)
    BY <1>2, <1>3, <1>4, <1>5, <1>8, <1>10 DEF IsAck
  <2> QED
    BY <2>1
<1> QED
  BY <1>9, <1>10

\* A retry: what trimOutbox gives up is displaced, and a dead letter it has no
\* room for stays one.
LEMMA RetryKeeps ==
    ASSUME KeptInv, RetryDeadLetters
    PROVE  AckStep /\ SnapshotStep
<1> DEFINE S == events \cup {Requeued(e) : e \in deadLetters}
<1>1. /\ S \in SUBSET Event /\ IsFiniteSet(S) /\ \A g, h \in S : g.id = h.id => g = h
      /\ events' = TrimOutbox(S)
  BY RetryDistinct
<1>2. \A e \in events : e \in S
  OBVIOUS
<1> HIDE DEF S
<1>3. \A e \in S \ events' :
         /\ IsAck(e) => Cardinality({g \in events' : IsAck(g) /\ g.id > e.id}) = MaxEvents
         /\ ~IsAck(e) => Cardinality({g \in events' : IsAck(g) \/ g.id > e.id}) = MaxEvents
  BY <1>1, TrimKeeps
<1>4. \A e \in deadLetters : e.id \in Present'
  BY DEF RetryDeadLetters, Present, Ids
<1>5. \A e \in events : e.id \notin Present' => e \notin events'
  BY DEF Present, Ids
<1> QED
  BY <1>2, <1>3, <1>4, <1>5 DEF AckStep, SnapshotStep

\* The steps of a flush and the end of a back-off.
LEMMA FlushKeeps ==
    ASSUME KeptInv, \/ \E e \in events : BackoffPasses(e)
                    \/ \E f \in Flusher : Step(f)
    PROVE  \A e \in events \cup deadLetters :
               e.id \notin Present' => e.id \in accepted \/ Displaced(e)
<1>1. ASSUME NEW g \in events, BackoffPasses(g)
      PROVE  \A e \in events \cup deadLetters : e.id \in Present'
  <2> DEFINE due == [g EXCEPT !.waiting = FALSE]
  <2>1. due.id = g.id
    BY SetWaiting DEF KeptInv, IInv, TypeOK
  <2>2. events' = (events \ {g}) \cup {due} /\ UNCHANGED <<deadLetters, quarantine>>
    BY <1>1 DEF BackoffPasses
  <2> HIDE DEF due
  <2> QED
    BY <2>1, <2>2 DEF Present, Ids
<1>2. ASSUME NEW f \in Flusher, Step(f), NEW e \in events \cup deadLetters, e.id \notin Present'
      PROVE  e.id \in accepted \/ Displaced(e)
  <2>1. CASE Screen(f) \/ ReadPending(f) \/ Send(f) \/ Abort(f)
    <3>1. UNCHANGED <<events, deadLetters>>
      BY <2>1 DEF Screen, ReadPending, Send, Abort
    <3> QED
      BY <1>2, <3>1 DEF Present, Ids
  <2>2. CASE Purge(f)
    <3>1. IsSafe(e) \/ e.id \in quarantine
      BY <2>2 DEF Purge, KeptInv, Quarantined
    <3> QED
      BY <1>2, <2>2, <3>1 DEF Purge, Present, Ids
  <2>3. CASE MarkDelivered(f)
    <3>1. Current(f) \subseteq accepted
      BY <2>3 DEF MarkDelivered, KeptInv, Answered
    <3>2. \A g \in events \cup deadLetters : g.id \notin Current(f) => g.id \in Present'
      BY <2>3 DEF MarkDelivered, Present, Ids
    <3> QED
      BY <1>2, <3>1, <3>2
  <2>4. CASE MarkFailed(f)
    <3>1. CASE UNCHANGED <<events, deadLetters>>
      BY <1>2, <3>1 DEF Present, Ids
    <3>2. ASSUME NEW g \in events, NEW u \in Event, u.id = g.id,
                 events' = (events \ {g}) \cup {u}, UNCHANGED deadLetters
          PROVE  e.id \in Present'
      BY <3>2 DEF Present, Ids
    <3>3. ASSUME NEW g \in events, NEW dead \in Event, dead.id = g.id,
                 dead.deadLetteredAt = deaths + 1, deaths' = deaths + 1, events' = events \ {g},
                 deadLetters' = TrimDeadLetters(deadLetters \cup {dead})
          PROVE  Displaced(e)
      <4>1. dead \in deadLetters' /\ \A h \in deadLetters \ deadLetters' : Displaced(h)
        BY <3>3, DeadDistinct
      <4>2. e # g /\ e \notin events' /\ e \notin deadLetters'
        BY <1>2, <3>3, <4>1 DEF Present, Ids
      <4> QED
        BY <3>3, <4>1, <4>2
    <3> QED
      BY <1>2, <2>4, <3>1, <3>2, <3>3, FailedCases
  <2> QED
    BY <1>2, <2>1, <2>2, <2>3, <2>4 DEF Step
<1> QED
  BY <1>1, <1>2

LEMMA StepKeeps == KeptInv /\ [Next]_vars => [AckStep]_vars /\ [SnapshotStep]_vars
<1> SUFFICES ASSUME KeptInv, Next PROVE AckStep /\ SnapshotStep
  OBVIOUS
<1>1. ASSUME NEW s \in Session, NEW kind \in Ack \cup {Snapshot}, Enqueue(s, kind)
      PROVE  AckStep /\ SnapshotStep
  BY <1>1, EnqueueKeeps
<1>2. CASE RetryDeadLetters
  BY <1>2, RetryKeeps
<1>3. CASE (\E e \in events : BackoffPasses(e)) \/ \E f \in Flusher : Step(f)
  <2>1. \A e \in events \cup deadLetters : e.id \notin Present' => e.id \in accepted \/ Displaced(e)
    BY <1>3, FlushKeeps
  <2> QED
    BY <2>1 DEF AckStep, SnapshotStep
<1> QED
  BY <1>1, <1>2, <1>3 DEF Next

\* For any caps and any number of sessions, events and overlapping flushes, an
\* acknowledgement the cloud has not taken in leaves the outbox only when it is
\* full of later ones or as many dead letters as are kept have followed it.
THEOREM AcksKept == Spec => AckKept
<1>1. KeptInv /\ [Next]_vars => [AckStep]_vars
  BY StepKeeps
<1> QED
  BY <1>1, KeptInvariance, PTL DEF Spec, AckKept, AckStep

\* Likewise the last snapshot of a session, as long as acknowledgements and
\* later snapshots leave it room.
THEOREM LastSnapshotsKept == Spec => LastSnapshotKept
<1>1. KeptInv /\ [Next]_vars => [SnapshotStep]_vars
  BY StepKeeps
<1> QED
  BY <1>1, KeptInvariance, PTL DEF Spec, LastSnapshotKept, SnapshotStep
=============================================================================
