----------------------------- MODULE SessionLock -----------------------------
(***************************************************************************)
(* The per-session mutation lock of the governance runtime                 *)
(* (packages/governance-runtime/dist/session.js, withSessionEventLock).    *)
(*                                                                         *)
(* The lock is a directory created with mkdir; its owner is the content of *)
(* owner.json inside it, written by a second call.  A contender that finds *)
(* the directory reads the owner, asks the operating system whether that   *)
(* process is gone, reads the owner once more, and if it is unchanged      *)
(* removes the directory and competes again.  None of these steps is       *)
(* atomic with the next one.                                               *)
(*                                                                         *)
(* One member of Proc is one call of withSessionEventLock made by one      *)
(* process, so that the random token of the call, the process id and the   *)
(* process start fingerprint are all the identity of that member.          *)
(***************************************************************************)
EXTENDS Naturals, FiniteSets

CONSTANTS
    Proc,       \* the calls of withSessionEventLock on one session
    Crashable,  \* the processes that may be killed at any step
    NoOwner     \* what readSessionMutationLockOwner returns for no readable owner

ASSUME LockAssumption == /\ Crashable \subseteq Proc
                         /\ NoOwner \notin Proc

VARIABLES
    exists,  \* does the lock directory exist?
    owner,   \* the token in owner.json, NoOwner when the file is not there
    pc,      \* the point each call has reached
    seen,    \* the owner each contender read first (currentOwner)
    late,    \* has the deadline of the call passed?
    raced    \* history: two contenders were about to remove the lock at once

vars == <<exists, owner, pc, seen, late, raced>>

Points == { "mkdir",     \* about to create the directory
            "made",      \* created it, owner.json not written yet
            "cs",        \* runs the operation under the lock
            "release",   \* read its own token back, about to remove
            "contend",   \* mkdir said EEXIST, about to read the owner
            "probe",     \* about to ask whether the owner is still running
            "verify",    \* owner is gone, about to read the owner again
            "reclaim",   \* the owner is unchanged, about to remove
            "wait",      \* about to sleep or to give up
            "done", "timedout", "failed", "dead" }

Returned == {"done", "timedout", "failed", "dead"}

\* The processes kill(pid, 0) says are gone.
Dead(p) == pc[p] = "dead"

Goto(p, l) == pc' = [pc EXCEPT ![p] = l]

\* Two contenders between their second read of the owner and their rmSync.
TwoReclaimers == \E p, q \in Proc : p # q /\ pc[p] = "reclaim" /\ pc[q] = "reclaim"

\* The history bit is kept by every step.
Remember == raced' = (raced \/ TwoReclaimers')

-----------------------------------------------------------------------------

Init == /\ exists = FALSE
        /\ owner = NoOwner
        /\ pc = [p \in Proc |-> "mkdir"]
        /\ seen = [p \in Proc |-> NoOwner]
        /\ late = [p \in Proc |-> FALSE]
        /\ raced = FALSE

\* mkdirSync(lockPath) succeeds: the directory is there, owner.json is not.
MakeLock(p) ==
    /\ pc[p] = "mkdir"
    /\ ~exists
    /\ exists' = TRUE
    /\ owner' = NoOwner
    /\ Goto(p, "made")
    /\ UNCHANGED <<seen, late>>
    /\ Remember

\* mkdirSync throws EEXIST.
FindLock(p) ==
    /\ pc[p] = "mkdir"
    /\ exists
    /\ Goto(p, "contend")
    /\ UNCHANGED <<exists, owner, seen, late>>
    /\ Remember

\* mkdirSync throws anything but EEXIST, which is rethrown at once.
MkdirFails(p) ==
    /\ pc[p] = "mkdir"
    /\ Goto(p, "failed")
    /\ UNCHANGED <<exists, owner, seen, late>>
    /\ Remember

\* owner.json is written into whatever directory is now at the path.
WriteOwner(p) ==
    /\ pc[p] = "made"
    /\ exists
    /\ owner' = p
    /\ Goto(p, "cs")
    /\ UNCHANGED <<exists, seen, late>>
    /\ Remember

\* Writing owner.json fails (the directory is gone, or the disk is full):
\* rmSync(lockPath, force) and the error is rethrown.
WriteOwnerFails(p) ==
    /\ pc[p] = "made"
    /\ exists' = FALSE
    /\ owner' = NoOwner
    /\ Goto(p, "failed")
    /\ UNCHANGED <<seen, late>>
    /\ Remember

\* Mutant of ReadOwner: keeps the parsed record instead of its token.
ReadOwnerAsRecord(p) ==
    /\ pc[p] = "contend"
    /\ seen' = [seen EXCEPT ![p] = [token |-> owner]]
    /\ Goto(p, IF owner = NoOwner THEN "wait" ELSE "probe")
    /\ UNCHANGED <<exists, owner, late>>
    /\ Remember

\* Mutant of ReadOwner: a directory without an owner is taken for abandoned.
ReadOwnerReclaimsOrphan(p) ==
    /\ pc[p] = "contend"
    /\ seen' = [seen EXCEPT ![p] = owner]
    /\ Goto(p, IF owner = NoOwner THEN "reclaim" ELSE "probe")
    /\ UNCHANGED <<exists, owner, late>>
    /\ Remember

\* currentOwner = readSessionMutationLockOwner(lockPath)
ReadOwner(p) ==
    /\ pc[p] = "contend"
    /\ seen' = [seen EXCEPT ![p] = owner]
    /\ Goto(p, IF owner = NoOwner THEN "wait" ELSE "probe")
    /\ UNCHANGED <<exists, owner, late>>
    /\ Remember

\* Mutant of ProbeOwner: any owner is taken for a dead one.
ProbeOwnerTrusting(p) ==
    /\ pc[p] = "probe"
    /\ Goto(p, "verify")
    /\ UNCHANGED <<exists, owner, seen, late>>
    /\ Remember

\* sessionMutationOwnerState: a running owner is alive_same or unknown; one
\* that is gone is dead, reused, or unknown when ps cannot tell.
ProbeOwner(p) ==
    /\ pc[p] = "probe"
    /\ \/ Dead(seen[p]) /\ Goto(p, "verify")
       \/ Goto(p, "wait")
    /\ UNCHANGED <<exists, owner, seen, late>>
    /\ Remember

\* Mutant of VerifyOwner: the second read of the owner is dropped.
VerifyOwnerSkipped(p) ==
    /\ pc[p] = "verify"
    /\ Goto(p, "reclaim")
    /\ UNCHANGED <<exists, owner, seen, late>>
    /\ Remember

\* verified = readSessionMutationLockOwner(lockPath), compared with currentOwner.
VerifyOwner(p) ==
    /\ pc[p] = "verify"
    /\ Goto(p, IF owner = seen[p] THEN "reclaim" ELSE "wait")
    /\ UNCHANGED <<exists, owner, seen, late>>
    /\ Remember

\* rmSync(lockPath, recursive, force); continue
Reclaim(p) ==
    /\ pc[p] = "reclaim"
    /\ exists' = FALSE
    /\ owner' = NoOwner
    /\ Goto(p, "mkdir")
    /\ UNCHANGED <<seen, late>>
    /\ Remember

\* Mutant of Retry: the deadline is not looked at.
RetryIgnoringDeadline(p) ==
    /\ pc[p] = "wait"
    /\ Goto(p, "mkdir")
    /\ UNCHANGED <<exists, owner, seen, late>>
    /\ Remember

\* Atomics.wait, then the loop runs again.
Retry(p) ==
    /\ pc[p] = "wait"
    /\ ~late[p]
    /\ Goto(p, "mkdir")
    /\ UNCHANGED <<exists, owner, seen, late>>
    /\ Remember

\* Date.now() >= deadline: the call throws.
GiveUp(p) ==
    /\ pc[p] = "wait"
    /\ late[p]
    /\ Goto(p, "timedout")
    /\ UNCHANGED <<exists, owner, seen, late>>
    /\ Remember

\* Time: the two seconds of the call have passed.
Deadline(p) ==
    /\ pc[p] \notin Returned
    /\ ~late[p]
    /\ late' = [late EXCEPT ![p] = TRUE]
    /\ UNCHANGED <<exists, owner, pc, seen>>
    /\ Remember

\* The operation returned or threw; the finally block reads the owner.
FinishOperation(p) ==
    /\ pc[p] = "cs"
    /\ Goto(p, IF owner = p THEN "release" ELSE "done")
    /\ UNCHANGED <<exists, owner, seen, late>>
    /\ Remember

\* rmSync(lockPath, recursive, force)
Release(p) ==
    /\ pc[p] = "release"
    /\ exists' = FALSE
    /\ owner' = NoOwner
    /\ Goto(p, "done")
    /\ UNCHANGED <<seen, late>>
    /\ Remember

\* The process is killed.  A recursive removal cut short has deleted
\* owner.json and left the directory.
Crash(p) ==
    /\ p \in Crashable
    /\ pc[p] \notin Returned
    /\ Goto(p, "dead")
    /\ \/ owner' = owner
       \/ pc[p] \in {"release", "reclaim"} /\ owner' = NoOwner
    /\ UNCHANGED <<exists, seen, late>>
    /\ Remember

Step(p) == \/ MakeLock(p) \/ FindLock(p) \/ MkdirFails(p)
           \/ WriteOwner(p) \/ WriteOwnerFails(p)
           \/ ReadOwner(p) \/ ProbeOwner(p) \/ VerifyOwner(p) \/ Reclaim(p)
           \/ Retry(p) \/ GiveUp(p) \/ FinishOperation(p) \/ Release(p)

Next == \E p \in Proc : Step(p) \/ Deadline(p) \/ Crash(p)

Spec == Init /\ [][Next]_vars

\* A process that is scheduled goes on, and the clock goes on.
FairSpec == /\ Spec
            /\ \A p \in Proc : WF_vars(Step(p))
            /\ \A p \in Proc : WF_vars(Deadline(p))

-----------------------------------------------------------------------------
(***************************************************************************)
(* Properties                                                              *)
(***************************************************************************)

TypeOK == /\ exists \in BOOLEAN
          /\ owner \in Proc \cup {NoOwner}
          /\ pc \in [Proc -> Points]
          /\ seen \in [Proc -> Proc \cup {NoOwner}]
          /\ late \in [Proc -> BOOLEAN]
          /\ raced \in BOOLEAN

\* The calls that believe they own the lock directory.
Holders == {p \in Proc : pc[p] \in {"made", "cs", "release"}}

\* At most one operation runs under the lock at a time.
MutualExclusion == \A p, q \in Proc : pc[p] = "cs" /\ pc[q] = "cs" => p = q

\* Whatever crashes happen, two operations overlap only after two contenders
\* have both verified the same dead owner and are both about to remove its
\* directory: the second removal deletes the lock the first one led to.
\* Dead-owner reclaim, the write failure path and the token check of release
\* never break exclusion on their own.
ExclusionUnlessRaced == raced \/ MutualExclusion

\* A live holder's owner.json is never replaced or removed by another call,
\* short of the same race: release therefore always finds its own token.
OwnerStableUnlessRaced == raced \/ \A p \in Proc : pc[p] \in {"cs", "release"} => exists /\ owner = p

\* A call that is not killed returns: it runs its operation, gives up at the
\* deadline, or fails; no contender loops for ever on dead owners.
EveryCallReturns == \A p \in Proc : <>(pc[p] \in Returned)

\* A directory whose maker died before owner.json was written has no owner to
\* be found dead: while nobody is about to remove it, it stays for ever and
\* every later call runs into its deadline.
Orphaned == /\ exists
            /\ owner = NoOwner
            /\ \A p \in Proc : pc[p] \notin {"made", "release", "reclaim"}
OrphanIsPermanent == [][Orphaned => Orphaned']_vars
=============================================================================
