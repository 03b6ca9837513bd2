----------------------------- MODULE SessionStart -----------------------------
(***************************************************************************)
(* Starting a governed session: `neurcode run` (launchAgentSession) and    *)
(* the prompt hook (handleStart) of packages/cli/dist create the record of *)
(* a session, shape it and publish the active pointer, inside the start    *)
(* transaction .neurcode/session-starting.json                             *)
(* (utils/session-start-transaction.js).  A starter that is killed leaves  *)
(* the transaction behind; the next starter reclaims it, and so does the   *)
(* parent that killed it for exceeding its budget (utils/command-budget).  *)
(*                                                                         *)
(* A starter makes one transaction and at most one session, and both bear  *)
(* its name: the random jobId, the pid and the start fingerprint of a      *)
(* transaction are all the identity of its owner.  Each read, link, rename *)
(* and unlink of the transaction file is a step of its own.                *)
(*                                                                         *)
(* The lock of the pointer is SessionLock's: a live holder gives it back   *)
(* within the two seconds of a call, so that activateSession and the       *)
(* pointer half of removeSession fail only on a lock that was orphaned.    *)
(* The branches of handleStart that keep the active session are one choice *)
(* of CreateSession: no record is made and the finally block runs.         *)
(***************************************************************************)
CONSTANTS
    Starter,    \* the processes that start a session
    Crashable,  \* those that may be killed from outside
    Bounded,    \* those a parent kills when they exceed their budget
    NoSession,  \* no session named
    NoTxn       \* no transaction file

Txn == [job: Starter, session: Starter \cup {NoSession}]

ASSUME StartAssumption == /\ Crashable \subseteq Starter
                          /\ Bounded \subseteq Starter
                          /\ NoSession \notin Starter
                          /\ NoTxn \notin Txn

VARIABLES
    txn,       \* session-starting.json
    records,   \* the sessions whose record is on disk
    pointer,   \* the session active-session.json names
    stuck,     \* a process died making or removing the lock of the pointer
    pc,        \* the point each starter has reached
    parent,    \* the point the parent of each bounded starter has reached
    seen,      \* the transaction each starter or parent has read and may remove
    owns,      \* the starters that have read back their own transaction to update it
    committed, \* history: the sessions whose starter has published the pointer
    raced      \* history: two processes were about to remove the file at once

vars == <<txn, records, pointer, stuck, pc, parent, seen, owns, committed, raced>>

Points == { "begin",      \* about to look for a transaction
            "verify",     \* found one of a dead owner, about to read it again
            "oldPointer", "oldRecord", "oldTxn", \* removes what the dead owner left
            "create",     \* about to link its own transaction into place
            "start",      \* has it; phase persisting_deferred_session
            "creating",   \* about to persist the record
            "created",    \* phase shaping_session, which names the session
            "shaping",    \* plan and first events
            "shaped",     \* phase activating_session
            "activating", \* about to publish the pointer
            "activated",  \* published; phase reconciling_cloud
            "publishing", \* about to project the session to the cloud
            "undoPointer", "undoRecord", \* rolls its own session back
            "clear",      \* the finally block: about to read the transaction
            "clearing",   \* it is its own, about to remove it
            "done", "refused", "dead" }

Returned == {"done", "refused", "dead"}

\* The points where a starter notes its phase in the transaction: where it goes
\* from there, and where it goes when the note cannot be written.
AfterNote == [start |-> "creating", created |-> "shaping", shaped |-> "activating",
              activated |-> "publishing"]
AfterError == [start |-> "clear", created |-> "undoPointer", shaped |-> "undoPointer",
               activated |-> "clear"]

\* The parent of a bounded starter, after it has seen the child exit.
ParentPoints == {"watching", "inspect", "pointer", "record", "txn", "over"}

Init == /\ txn = NoTxn
        /\ records = {}
        /\ pointer = NoSession
        /\ stuck = FALSE
        /\ pc = [p \in Starter |-> "begin"]
        /\ parent = [p \in Starter |-> IF p \in Bounded THEN "watching" ELSE "over"]
        /\ seen = [p \in Starter |-> NoTxn]
        /\ owns = {}
        /\ committed = {}
        /\ raced = FALSE

Goto(p, l) == pc' = [pc EXCEPT ![p] = l] /\ UNCHANGED parent
ParentGoto(p, l) == parent' = [parent EXCEPT ![p] = l] /\ UNCHANGED pc

\* The transaction on disk is that of p.
Owns(p) == txn # NoTxn /\ txn.job = p

\* Those that believe the file is that of a dead owner and will remove it.
Removers == {<<"starter", p>> : p \in {q \in Starter : pc[q] \in {"oldPointer", "oldRecord", "oldTxn"}}}
            \cup {<<"parent", p>> : p \in {q \in Starter : parent[q] \in {"pointer", "record", "txn"}}}
Contended == \E r, s \in Removers : r # s
Remember == raced' = (raced \/ Contended')

-----------------------------------------------------------------------------
(* removeSession: first the pointer, if its lock is to be had, then the record *)

\* Mutant of DropPointer: the record goes with the lock not yet asked for.
DropPointerLast(s) == pointer' = pointer /\ records' = records \ {s}

DropPointer(s) == /\ pointer' = IF pointer = s /\ ~stuck THEN NoSession ELSE pointer
                  /\ UNCHANGED records

DropRecord(s) == /\ records' = records \ {s}
                 /\ UNCHANGED pointer

-----------------------------------------------------------------------------
(* beginSessionStartTransaction *)

\* No transaction, or one of an owner positively gone, or the call throws.
Begin(p) ==
    /\ pc[p] = "begin"
    /\ \/ txn = NoTxn /\ Goto(p, "create") /\ UNCHANGED seen
       \/ txn # NoTxn /\ Goto(p, "refused") /\ UNCHANGED seen
       \/ /\ txn # NoTxn
          /\ pc[txn.job] = "dead"
          /\ seen' = [seen EXCEPT ![p] = txn]
          /\ Goto(p, "verify")
    /\ UNCHANGED <<txn, records, pointer, stuck, owns, committed>>

\* Mutant of Verify: what was read first is trusted.
VerifySkipped(p) ==
    /\ pc[p] = "verify"
    /\ Goto(p, IF seen[p].session = NoSession THEN "oldTxn" ELSE "oldPointer")
    /\ UNCHANGED <<txn, records, pointer, stuck, seen, owns, committed>>

\* The transaction is read again and has to be one of the same owner; what it
\* says now is what is reclaimed.
Verify(p) ==
    /\ pc[p] = "verify"
    /\ IF txn # NoTxn /\ txn.job = seen[p].job
       THEN /\ seen' = [seen EXCEPT ![p] = txn]
            /\ Goto(p, IF txn.session = NoSession THEN "oldTxn" ELSE "oldPointer")
       ELSE Goto(p, "refused") /\ UNCHANGED seen
    /\ UNCHANGED <<txn, records, pointer, stuck, owns, committed>>

ReclaimPointer(p) ==
    /\ pc[p] = "oldPointer"
    /\ DropPointer(seen[p].session)
    /\ Goto(p, "oldRecord")
    /\ UNCHANGED <<txn, stuck, seen, owns, committed>>

ReclaimRecord(p) ==
    /\ pc[p] = "oldRecord"
    /\ DropRecord(seen[p].session)
    /\ Goto(p, "oldTxn")
    /\ UNCHANGED <<txn, stuck, seen, owns, committed>>

\* rmSync(path, force): whatever transaction is there now.
ReclaimTxn(p) ==
    /\ pc[p] = "oldTxn"
    /\ txn' = NoTxn
    /\ Goto(p, "create")
    /\ UNCHANGED <<records, pointer, stuck, seen, owns, committed>>

\* atomicCreate: the link fails with EEXIST when there is one again.
Create(p) ==
    /\ pc[p] = "create"
    /\ IF txn = NoTxn
       THEN txn' = [job |-> p, session |-> NoSession] /\ Goto(p, "start")
       ELSE Goto(p, "refused") /\ UNCHANGED txn
    /\ UNCHANGED <<records, pointer, stuck, seen, owns, committed>>

-----------------------------------------------------------------------------
(* The start itself *)

\* updateSessionStartTransaction, before the record is made and after each of
\* the next three steps: a transaction of somebody else is let be.
ReadOwnTxn(p) ==
    /\ pc[p] \in DOMAIN AfterNote
    /\ p \notin owns
    /\ IF Owns(p) THEN owns' = owns \cup {p} /\ UNCHANGED <<pc, parent>>
                  ELSE Goto(p, AfterNote[pc[p]]) /\ UNCHANGED owns
    /\ UNCHANGED <<txn, records, pointer, stuck, seen, committed>>

\* Mutant of NoteTxn: what the transaction says of its owner is not kept.
NoteAfresh(p) ==
    /\ pc[p] \in DOMAIN AfterNote
    /\ p \in owns
    /\ txn' = [session |-> p]
    /\ owns' = owns \ {p}
    /\ Goto(p, AfterNote[pc[p]])
    /\ UNCHANGED <<records, pointer, stuck, seen, committed>>

\* Its rename replaces whatever is there now; or it throws.
NoteTxn(p) ==
    /\ pc[p] \in DOMAIN AfterNote
    /\ p \in owns
    /\ owns' = owns \ {p}
    /\ \/ /\ txn' = [job |-> p, session |-> IF pc[p] = "start" THEN NoSession ELSE p]
          /\ Goto(p, AfterNote[pc[p]])
       \/ Goto(p, AfterError[pc[p]]) /\ UNCHANGED txn
    /\ UNCHANGED <<records, pointer, stuck, seen, committed>>

\* createSession without activation; or the start fails, or has no session to
\* make (the prompt continues the active one).
CreateSession(p) ==
    /\ pc[p] = "creating"
    /\ \/ records' = records \cup {p} /\ Goto(p, "created")
       \/ Goto(p, "clear") /\ UNCHANGED records
    /\ UNCHANGED <<txn, pointer, stuck, seen, owns, committed>>

\* The plan is captured and the launch event appended, or one of them throws.
ShapeSession(p) ==
    /\ pc[p] = "shaping"
    /\ Goto(p, "shaped") \/ Goto(p, "undoPointer")
    /\ UNCHANGED <<txn, records, pointer, stuck, seen, owns, committed>>

\* Mutant of ActivateSession: a failed activation is not rolled back.
ActivateOrClear(p) ==
    /\ pc[p] = "activating"
    /\ IF ~stuck /\ p \in records
       THEN pointer' = p /\ committed' = committed \cup {p} /\ Goto(p, "activated")
       ELSE Goto(p, "clear") /\ UNCHANGED <<pointer, committed>>
    /\ UNCHANGED <<txn, records, stuck, seen, owns>>

\* activateSession publishes the pointer of a record that is there; it throws
\* when the record is gone or the lock of the pointer is not to be had.
ActivateSession(p) ==
    /\ pc[p] = "activating"
    /\ IF ~stuck /\ p \in records
       THEN pointer' = p /\ committed' = committed \cup {p} /\ Goto(p, "activated")
       ELSE Goto(p, "undoPointer") /\ UNCHANGED <<pointer, committed>>
    /\ UNCHANGED <<txn, records, stuck, seen, owns>>

\* Mutant of PublishLiveStatus: a projection that fails rolls the start back.
PublishOrUndo(p) ==
    /\ pc[p] = "publishing"
    /\ Goto(p, "clear") \/ Goto(p, "undoPointer")
    /\ UNCHANGED <<txn, records, pointer, stuck, seen, owns, committed>>

\* publishRuntimeLiveStatus, awaited: it returns whatever the cloud does.
PublishLiveStatus(p) ==
    /\ pc[p] = "publishing"
    /\ Goto(p, "clear")
    /\ UNCHANGED <<txn, records, pointer, stuck, seen, owns, committed>>

\* The catch block rolls an unactivated session back.
UndoPointer(p) ==
    /\ pc[p] = "undoPointer"
    /\ DropPointer(p)
    /\ Goto(p, "undoRecord")
    /\ UNCHANGED <<txn, stuck, seen, owns, committed>>

UndoRecord(p) ==
    /\ pc[p] = "undoRecord"
    /\ DropRecord(p)
    /\ Goto(p, "clear")
    /\ UNCHANGED <<txn, stuck, seen, owns, committed>>

\* clearSessionStartTransaction: its own transaction only ...
ReadToClear(p) ==
    /\ pc[p] = "clear"
    /\ Goto(p, IF Owns(p) THEN "clearing" ELSE "done")
    /\ UNCHANGED <<txn, records, pointer, stuck, seen, owns, committed>>

\* ... but the unlink is of whatever is there now.
ClearTxn(p) ==
    /\ pc[p] = "clearing"
    /\ txn' = NoTxn
    /\ Goto(p, "done")
    /\ UNCHANGED <<records, pointer, stuck, seen, owns, committed>>

-----------------------------------------------------------------------------
(* Failures, and the parent that recovers its child *)

\* Where a starter makes or removes the lock of the pointer.
PointerLocking == {"oldPointer", "oldRecord", "activating", "activated", "undoPointer", "undoRecord"}

\* The starter is killed, from outside or by its parent.
Killed(p) ==
    /\ p \in Crashable \/ parent[p] = "watching"
    /\ pc[p] \notin Returned
    /\ pc' = [pc EXCEPT ![p] = "dead"]
    /\ parent' \in IF parent[p] = "watching"
                   THEN {[parent EXCEPT ![p] = "inspect"]} \* it exceeded its budget
                        \cup (IF p \in Crashable THEN {[parent EXCEPT ![p] = "over"]} ELSE {})
                   ELSE {parent}
    /\ stuck' \in {stuck} \cup (IF pc[p] \in PointerLocking THEN {TRUE} ELSE {})
    /\ UNCHANGED <<txn, records, pointer, seen, owns, committed>>

\* recoverTimedOutSessionStart reads the transaction: it acts on that of its
\* child, unless it cannot tell whether the child is gone.
InspectTimedOut(p) ==
    /\ parent[p] = "inspect"
    /\ seen' = [seen EXCEPT ![p] = txn]
    /\ \/ ParentGoto(p, "over")
       \/ Owns(p) /\ ParentGoto(p, IF txn.session = NoSession THEN "txn" ELSE "pointer")
    /\ UNCHANGED <<txn, records, pointer, stuck, owns, committed>>

RecoverPointer(p) ==
    /\ parent[p] = "pointer"
    /\ DropPointer(seen[p].session)
    /\ ParentGoto(p, "record")
    /\ UNCHANGED <<txn, stuck, seen, owns, committed>>

RecoverRecord(p) ==
    /\ parent[p] = "record"
    /\ DropRecord(seen[p].session)
    /\ ParentGoto(p, "txn")
    /\ UNCHANGED <<txn, stuck, seen, owns, committed>>

\* rmSync(path, force): whatever transaction is there now.
RecoverTxn(p) ==
    /\ parent[p] = "txn"
    /\ txn' = NoTxn
    /\ ParentGoto(p, "over")
    /\ UNCHANGED <<records, pointer, stuck, seen, owns, committed>>

-----------------------------------------------------------------------------

Step(p) == \/ Begin(p) \/ Verify(p) \/ ReclaimPointer(p) \/ ReclaimRecord(p) \/ ReclaimTxn(p)
           \/ Create(p) \/ ReadOwnTxn(p) \/ NoteTxn(p) \/ CreateSession(p) \/ ShapeSession(p)
           \/ ActivateSession(p) \/ PublishLiveStatus(p) \/ UndoPointer(p) \/ UndoRecord(p)
           \/ ReadToClear(p) \/ ClearTxn(p)

Recovery(p) == InspectTimedOut(p) \/ RecoverPointer(p) \/ RecoverRecord(p) \/ RecoverTxn(p)

Next == /\ \E p \in Starter : Step(p) \/ Recovery(p) \/ Killed(p)
        /\ Remember

Spec == Init /\ [][Next]_vars

-----------------------------------------------------------------------------
(***************************************************************************)
(* Properties                                                              *)
(***************************************************************************)

TypeOK == /\ txn \in Txn \cup {NoTxn}
          /\ records \subseteq Starter
          /\ pointer \in Starter \cup {NoSession}
          /\ stuck \in BOOLEAN
          /\ pc \in [Starter -> Points]
          /\ parent \in [Starter -> ParentPoints]
          /\ seen \in [Starter -> Txn \cup {NoTxn}]
          /\ owns \subseteq Starter
          /\ committed \subseteq Starter
          /\ raced \in BOOLEAN

\* Between its transaction and the end of its finally block.
Starting(p) == pc[p] \notin {"begin", "verify", "oldPointer", "oldRecord", "oldTxn", "create"} \cup Returned

\* Two starts are under way at once only after two processes were about to
\* remove the same abandoned transaction: short of that, death at any step,
\* reclaim, rollback and recovery never let a second start in.
OneStartUnlessRaced == raced \/ \A p, q \in Starter : Starting(p) /\ Starting(q) => p = q

\* The active pointer names a session whose record is on disk, whoever died
\* while starting or removing it, as long as the lock of the pointer works.
PointerHasRecord == stuck \/ pointer \in records \cup {NoSession}

\* A start that returned without publishing its session has left no record.
FailedStartLeavesNothing == \A p \in Starter : pc[p] \in {"done", "refused"} /\ p \notin committed
                                                  => p \notin records

\* A published session loses its record only once its starter is dead (to the
\* recovery of that start), never to the rollback of its own start or to that
\* of another one, however the two interleave.
RollbackSparesCommitted ==
    [][\A p \in committed : \/ p \in records => p \in records'
                            \/ pc[p] = "dead"]_vars

-----------------------------------------------------------------------------
(***************************************************************************)
(* What a comment says and the code does not do                            *)
(***************************************************************************)

\* "Cloud projection is non-authoritative and must not affect the committed
\* session": what a start has published stays published and on disk.
CommittedSurvives == [][committed \cap records \subseteq records']_vars
=============================================================================
