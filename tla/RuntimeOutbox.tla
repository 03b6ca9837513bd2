----------------------------- MODULE RuntimeOutbox -----------------------------
(***************************************************************************)
(* The runtime outbox .neurcode/runtime-outbox.json, where every command   *)
(* leaves what the cloud is to be told of a session, and the flush that    *)
(* sends it (packages/cli/dist/utils/runtime-outbox.js and runtime-live.js)*)
(*                                                                         *)
(* A mutation of the outbox reads the file, changes it and renames it into *)
(* place under .neurcode/runtime-outbox.lock: it is one step, except that  *)
(* the screening of the pending events writes the quarantine file first    *)
(* and holds the lock across two steps.  A lock left by a process that     *)
(* died is stale after ten seconds and taken over.  Flushes overlap: what  *)
(* each has read it sends one event at a time, awaiting an answer, while   *)
(* others go on mutating the file.                                         *)
(*                                                                         *)
(* generatedAt and eventId are one number: events are generated at         *)
(* distinct times.  nextAttemptAt is whether it is still to come.  A file  *)
(* of an older version may hold an event that the present privacy rules    *)
(* reject; the payload of a new one has passed them before it is queued.   *)
(* The backup, the outbox state's timestamps and the cap of the quarantine *)
(* are left out.                                                           *)
(***************************************************************************)
EXTENDS Naturals, FiniteSets

CONSTANTS
    Session,        \* the sessions of the repository
    Ack,            \* approval and amendment acknowledgements: an action id and a status
    Snapshot,       \* the other kind of event
    Flusher,        \* the processes that flush
    MaxEvents,      \* MAX_RUNTIME_OUTBOX_EVENTS
    MaxDeadLetters, \* MAX_RUNTIME_DEAD_LETTER_EVENTS
    MaxAttempts,    \* MAX_RUNTIME_DELIVERY_ATTEMPTS
    MaxBatch,       \* the largest maxEvents of a flush
    MaxGenerated,   \* bound of the model: the events generated
    MaxDeaths       \* bound of the model: no retry of dead letters after so many

ASSUME OutboxAssumption == /\ Snapshot \notin Ack
                           /\ MaxEvents \in Nat \ {0}
                           /\ MaxDeadLetters \in Nat \ {0}
                           /\ MaxAttempts \in Nat \ {0}
                           /\ MaxBatch \in Nat \ {0}
                           /\ MaxGenerated \in Nat
                           /\ MaxDeaths \in Nat

VARIABLES
    events,       \* outbox.events
    deadLetters,  \* outbox.deadLetters
    nextSequence, \* outbox.nextSequenceBySession
    quarantine,   \* the ids of the events in runtime-outbox-quarantine.json
    pc,           \* the point each flush has reached
    batch,        \* the ids of the events each flush has read and not yet marked
    deaths,       \* clock of the dead-letterings: each takes the next deadLetteredAt
    accepted,     \* the ids of those the cloud has taken in
    generated     \* history: every event as it was queued

vars == <<events, deadLetters, nextSequence, quarantine, pc, batch, deaths, accepted, generated>>

Event == [id : Nat \ {0}, session : Session, kind : Ack \cup {Snapshot}, sequence : Nat \ {0},
          attempts : 0 .. MaxAttempts, waiting : BOOLEAN, safe : BOOLEAN,
          deadLetteredAt : Nat]

Points == { "idle",
            "quarantining", \* has the lock and has written the quarantine
            "screened",     \* has screened the outbox, about to read it
            "sending",      \* about to send the oldest event of its batch
            "answered",     \* the cloud answered ok
            "failed" }      \* it did not

Ids(S) == {e.id : e \in S}
IsAck(e) == e.kind \in Ack
IsSafe(e) == e.safe

\* An event queued by an older version that would be rejected today.
Legacy(s, kind, attempts) ==
    [id |-> 1, session |-> s, kind |-> kind, sequence |-> 1, attempts |-> attempts,
     waiting |-> FALSE, safe |-> FALSE, deadLetteredAt |-> 0]

Init == /\ \/ events = {} /\ deadLetters = {} /\ generated = {}
           \/ \E s \in Session, kind \in Ack \cup {Snapshot} :
                 \/ /\ events = {Legacy(s, kind, 0)}
                    /\ deadLetters = {}
                    /\ generated = events
                 \/ /\ events = {}
                    /\ deadLetters = {Legacy(s, kind, MaxAttempts)}
                    /\ generated = {Legacy(s, kind, 0)}
        /\ nextSequence = [s \in Session |-> IF \E e \in generated : e.session = s THEN 1 ELSE 0]
        /\ quarantine = {}
        /\ pc = [f \in Flusher |-> "idle"]
        /\ batch = [f \in Flusher |-> {}]
        /\ deaths = 0
        /\ accepted = {}

Goto(f, l) == pc' = [pc EXCEPT ![f] = l]

\* Nobody holds the lock between two of its steps.
LockFree == \A f \in Flusher : pc[f] # "quarantining"

-----------------------------------------------------------------------------
(* The caps *)

\* The n events of S generated last.
Newest(S, n) == {e \in S : Cardinality({g \in S : g.id > e.id}) < n}

\* Mutant of TrimOutbox: the oldest events go, whatever they are.
TrimByAge(S) == Newest(S, MaxEvents)

\* trimOutbox: snapshots give way to acknowledgements.
TrimOutbox(S) ==
    LET acks == {e \in S : IsAck(e)}
    IN  IF Cardinality(acks) >= MaxEvents THEN Newest(acks, MaxEvents)
        ELSE acks \cup Newest(S \ acks, MaxEvents - Cardinality(acks))

\* trimDeadLetters: those dead-lettered last.
TrimDeadLetters(S) ==
    {e \in S : Cardinality({g \in S : g.deadLetteredAt > e.deadLetteredAt}) < MaxDeadLetters}

-----------------------------------------------------------------------------
(* Queueing *)

\* Mutant of NextSequence: the number follows what is pending.
SequenceOfPending(s) == Cardinality({e \in events : e.session = s}) + 1

NextSequence(s) == nextSequence[s] + 1

\* Mutant of Retained: one snapshot is kept for all sessions.
RetainedForAll(s, kind) == {e \in events : kind = Snapshot => IsAck(e)}

\* What stays when an event is queued: a snapshot replaces those of its session.
Retained(s, kind) ==
    {e \in events : kind = Snapshot => IsAck(e) \/ e.session # s}

\* enqueue.  An acknowledgement that is pending is not queued again (nor is one
\* whose payload is rejected, or that finds the lock busy: the call throws).
Enqueue(s, kind) ==
    LET id == Cardinality(generated) + 1
        event == [id |-> id, session |-> s, kind |-> kind, sequence |-> NextSequence(s),
                  attempts |-> 0, waiting |-> FALSE, safe |-> TRUE, deadLetteredAt |-> 0]
    IN  /\ LockFree
        /\ id <= MaxGenerated
        /\ kind \in Ack => ~\E e \in events : e.session = s /\ e.kind = kind
        /\ events' = TrimOutbox(Retained(s, kind) \cup {event})
        /\ nextSequence' = [nextSequence EXCEPT ![s] = NextSequence(s)]
        /\ generated' = generated \cup {event}
        /\ UNCHANGED <<deadLetters, quarantine, pc, batch, deaths, accepted>>

\* nextAttemptAt of an event passes.
BackoffPasses(e) ==
    /\ e \in events
    /\ e.waiting
    /\ events' = (events \ {e}) \cup {[e EXCEPT !.waiting = FALSE]}
    /\ UNCHANGED <<deadLetters, nextSequence, quarantine, pc, batch, deaths, accepted, generated>>

-----------------------------------------------------------------------------
(* Flushing *)

\* prepareRuntimeOutboxForDelivery: the events that do not pass are copied to
\* the quarantine file, one entry of each ...
Screen(f) ==
    LET unsafe == {e \in events \cup deadLetters : ~IsSafe(e)}
    IN  /\ pc[f] = "idle"
        /\ LockFree
        /\ quarantine' = quarantine \cup Ids(unsafe)
        /\ Goto(f, IF unsafe = {} THEN "screened" ELSE "quarantining")
        /\ UNCHANGED <<events, deadLetters, nextSequence, batch, deaths, accepted, generated>>

\* Mutant of Purge: the dead letters are let be, nobody sends them.
PurgeEvents(f) ==
    /\ pc[f] = "quarantining"
    /\ events' = {e \in events : IsSafe(e)}
    /\ Goto(f, "screened")
    /\ UNCHANGED <<deadLetters, nextSequence, quarantine, batch, deaths, accepted, generated>>

\* ... and then leave the outbox.
Purge(f) ==
    /\ pc[f] = "quarantining"
    /\ events' = {e \in events : IsSafe(e)}
    /\ deadLetters' = {e \in deadLetters : IsSafe(e)}
    /\ Goto(f, "screened")
    /\ UNCHANGED <<nextSequence, quarantine, batch, deaths, accepted, generated>>

\* pendingRuntimeOutboxEvents reads the file again without the lock: the oldest
\* events that are due, or with force the oldest of all.
ReadPending(f) ==
    /\ pc[f] = "screened"
    /\ \E force \in BOOLEAN, limit \in 1 .. MaxBatch :
          LET due == {e \in events : force \/ ~e.waiting}
          IN  batch' = [batch EXCEPT ![f] =
                     Ids({e \in due : Cardinality({g \in due : g.id < e.id}) < limit})]
    /\ Goto(f, IF batch'[f] = {} THEN "idle" ELSE "sending")
    /\ UNCHANGED <<events, deadLetters, nextSequence, quarantine, deaths, accepted, generated>>

\* The event a flush is at is the oldest of its batch.
Current(f) == {id \in batch[f] : \A other \in batch[f] : id <= other}

\* The flush goes on with the rest of its batch.
Advance(f) == /\ batch' = [batch EXCEPT ![f] = @ \ Current(f)]
              /\ Goto(f, IF batch'[f] = {} THEN "idle" ELSE "sending")

\* runtimeFetch: the cloud takes the event in and answers; or its answer is lost
\* or comes too late; or it takes nothing in.
Send(f) ==
    /\ pc[f] = "sending"
    /\ \/ accepted' = accepted \cup Current(f) /\ (Goto(f, "answered") \/ Goto(f, "failed"))
       \/ UNCHANGED accepted /\ Goto(f, "failed")
    /\ UNCHANGED <<events, deadLetters, nextSequence, quarantine, batch, deaths, generated>>

\* markRuntimeOutboxDelivered; or the lock is busy, which counts as a failure.
MarkDelivered(f) ==
    /\ pc[f] = "answered"
    /\ \/ /\ LockFree
          /\ events' = {e \in events : e.id \notin Current(f)}
          /\ Advance(f)
       \/ Goto(f, "failed") /\ UNCHANGED <<events, batch>>
    /\ UNCHANGED <<deadLetters, nextSequence, quarantine, deaths, accepted, generated>>

\* Mutant of Exhausted: one attempt more.
ExhaustedLate(e) == e.attempts + 1 > MaxAttempts

Exhausted(e) == e.attempts + 1 >= MaxAttempts

\* markRuntimeOutboxFailed: by then somebody else may have removed the event.
MarkFailed(f) ==
    /\ pc[f] = "failed"
    /\ LockFree
    /\ Advance(f)
    /\ \/ Current(f) \cap Ids(events) = {} /\ UNCHANGED <<events, deadLetters, deaths>>
       \/ \E e \in events :
             /\ e.id \in Current(f)
             /\ IF Exhausted(e)
                THEN /\ events' = events \ {e}
                     /\ deaths' = deaths + 1
                     /\ deadLetters' = TrimDeadLetters(deadLetters \cup
                           {[e EXCEPT !.attempts = @ + 1, !.waiting = FALSE, !.deadLetteredAt = deaths']})
                ELSE /\ events' = (events \ {e}) \cup {[e EXCEPT !.attempts = @ + 1, !.waiting = TRUE]}
                     /\ UNCHANGED <<deadLetters, deaths>>
    /\ UNCHANGED <<nextSequence, quarantine, accepted, generated>>

\* The process is killed; or the lock is busy for the screening or for
\* markRuntimeOutboxFailed, which throws out of the flush.
Abort(f) ==
    /\ pc[f] # "idle"
    /\ Goto(f, "idle")
    /\ batch' = [batch EXCEPT ![f] = {}]
    /\ UNCHANGED <<events, deadLetters, nextSequence, quarantine, deaths, accepted, generated>>

\* retryRuntimeDeadLetters, as `neurcode sync --retry-dead-letters`, its only caller,
\* calls it: with no id and the default limit, which is also the most dead letters
\* that are kept, so that all are selected.  What the outbox has no room for stays
\* a dead letter.
RetryDeadLetters ==
    /\ LockFree
    /\ deadLetters # {}
    /\ deaths < MaxDeaths
    /\ events' = TrimOutbox(events \cup
                 {[e EXCEPT !.attempts = 0, !.waiting = FALSE, !.deadLetteredAt = 0] : e \in deadLetters})
    /\ deadLetters' = {e \in deadLetters : e.id \notin Ids(events')}
    /\ UNCHANGED <<nextSequence, quarantine, pc, batch, deaths, accepted, generated>>

-----------------------------------------------------------------------------

Step(f) == \/ Screen(f) \/ Purge(f) \/ ReadPending(f) \/ Send(f)
           \/ MarkDelivered(f) \/ MarkFailed(f) \/ Abort(f)

Next == \/ \E s \in Session, kind \in Ack \cup {Snapshot} : Enqueue(s, kind)
        \/ \E e \in events : BackoffPasses(e)
        \/ \E f \in Flusher : Step(f)
        \/ RetryDeadLetters

Spec == Init /\ [][Next]_vars

-----------------------------------------------------------------------------
(***************************************************************************)
(* Properties                                                              *)
(***************************************************************************)

\* An event has been tried fewer times than the limit as long as it is pending.
TypeOK == /\ events \subseteq Event
          /\ \A e \in events : e.attempts < MaxAttempts
          /\ deadLetters \subseteq Event
          /\ nextSequence \in [Session -> Nat]
          /\ quarantine \subseteq Nat \ {0}
          /\ pc \in [Flusher -> Points]
          /\ batch \in [Flusher -> SUBSET (Nat \ {0})]
          /\ deaths \in Nat
          /\ accepted \subseteq Nat \ {0}
          /\ generated \subseteq Event

\* README: "Entries that cannot be proven safe are quarantined locally and are
\* never uploaded".  A flush reads the outbox after the screening has given the
\* lock back, and dead letters return to it at any time: none of what it reads
\* has failed the screening.
UnsafeNeverSent == \A f \in Flusher, e \in generated : e.id \in batch[f] => IsSafe(e)

\* The numbers that tell the cloud the order of the events of a session follow
\* the order they were generated in, whatever was delivered, dropped, retried or
\* quarantined in between.
SequenceOrder == \A e, g \in generated : e.session = g.session /\ e.id < g.id
                                            => e.sequence < g.sequence

Present == Ids(events) \cup Ids(deadLetters) \cup quarantine

\* As many dead letters as are kept have come after e.
Displaced(e) == Cardinality({g \in deadLetters' : g.deadLetteredAt > e.deadLetteredAt}) = MaxDeadLetters

\* An acknowledgement the cloud has not taken in is pending, a dead letter or
\* quarantined until the outbox is full of later ones or as many dead letters as
\* are kept have followed it: no lost answer, overlapping flush, retry or flood
\* of snapshots loses it.
AckKept ==
    [][\A e \in events \cup deadLetters :
          IsAck(e) /\ e.id \notin Present'
             => \/ e.id \in accepted
                \/ Displaced(e)
                \/ Cardinality({g \in events' : IsAck(g) /\ g.id > e.id}) = MaxEvents]_vars

\* Likewise the last snapshot of a session, as long as acknowledgements and
\* later snapshots leave it room; an earlier one gives way to it.
LastSnapshotKept ==
    [][\A e \in events \cup deadLetters :
          ~IsAck(e) /\ e.id \notin Present'
             => \/ e.id \in accepted
                \/ \E g \in generated' : ~IsAck(g) /\ g.session = e.session /\ g.id > e.id
                \/ Displaced(e)
                \/ Cardinality({g \in events' : IsAck(g) \/ g.id > e.id}) = MaxEvents]_vars
=============================================================================
