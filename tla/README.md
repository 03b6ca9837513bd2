# Neurcode CLI: TLA+ models and proofs

This directory holds TLA+ models of the parts of the Neurcode CLI in which several
processes share state, and of the release gate of this repository, whose scripts read a
work tree that others may change under them. TLC checks the models on small instances, and
TLAPS proves their main invariants. Source paths are relative to the repository; short
names stand for

| name | file |
| --- | --- |
| `session.js` | `packages/governance-runtime/dist/session.js` |
| `session-hook.js` | `packages/cli/dist/commands/session-hook.js` |
| `session-start-transaction.js`, `agent-session-launcher.js`, `command-budget.js` | `packages/cli/dist/utils/` |
| `runtime-outbox.js`, `runtime-live.js`, `restore.js` | `packages/cli/dist/utils/` |
| `Sentinel.js`, `BlobStore.js`, `Journal.js`, `Syncer.js`, `CommandPoller.js` | `packages/cli/dist/services/watch/` |
| `watch.js` | `packages/cli/dist/commands/watch.js` |
| `oss-safety-check.mjs`, `oss-export-boundary-check.mjs`, `cli-smoke-check.mjs` | `scripts/` |

1. [The system](#1-the-system)
2. [The models](#2-the-models)
3. [The runs](#3-the-runs)
4. [The proofs](#4-the-proofs)
5. [Where code and documentation disagree](#5-where-code-and-documentation-disagree)
6. [What is not modelled, and what is assumed](#6-what-is-not-modelled-and-what-is-assumed)
7. [Plan](#7-plan)
8. [How to run](#8-how-to-run)

## 1. The system

Neurcode governs what a coding agent may write. A *session* is opened for a task; each
tool call of the agent starts a short-lived *hook process* that looks the decision up
in the session; developers and a dashboard approve, revoke and amend; at the end the
session is finished and sealed with a hash that a replay must reproduce. There is no
server that owns the state. Hook processes, `neurcode` commands, a daemon and watchers
all work on the same JSON files below `.neurcode/`, and any of them may be killed by
the agent, by its own time budget or by the user. What keeps the files consistent is
a set of lock directories and of writes to a temporary file that is renamed into
place. That is the part of the CLI these models are about.

The repository is a public snapshot of that CLI. What it adds of its own are the three
scripts of `scripts/`, which `pnpm ci:oss` and the CI workflow run before a snapshot is
accepted.

### 1.1 Components whose state is shared

**Session mutation lock** (`session.js:294-409`). State: the directory
`sessions/<id>.lock` and `owner.json` in it (pid, start fingerprint, random token).
`withSessionEventLock` creates the directory, writes the owner, runs the operation and
removes the directory if the token is still its own. A contender reads the owner,
asks the system whether that process is gone, reads the owner again and removes the
directory if it did not change; it waits two seconds at most. Hard: none of these
steps is atomic with the next; the holder may die between any two. Correct when one
operation at a time runs under the lock, when a live holder's lock is not taken
away, and when each call returns.

**Governed session record** (`session.js`). State: `sessions/<id>.json` (status,
approval grants and the flat list of approved paths, obligations, audit trail, plan,
plan ledger and proposals, freeze, replay hash) and the pointer `active-session.json`.
Operations: create, append an event, approve, revoke, expire, refresh obligations,
freeze and unfreeze, finish, replay, and on plans capture, attach, amend and decide.
Each loads the record, changes its copy and replaces the file. Most do it under the
lock above; the plan operations do not take it, and `setPlanFrozen` looks at the status
before it takes it. Hard: lost updates, decisions made on stale copies, a clock that goes on while
a call waits, a decider that dies between its two writes, operations on a finished
session. Correct when the grants, the flat list and the trail agree, no persisted event is lost,
a finish and a revocation are final, the ledger has every revision once, and a
finished record replays to its hash.

**Session start transaction** (`session-start-transaction.js`, and the start in
`session-hook.js`, `agent-session-launcher.js`, `command-budget.js`). State:
`session-starting.json` (job id, pid, phase, session), the record and the pointer.
A start creates the transaction, the record, shapes it, publishes the pointer,
projects to the cloud and clears the transaction; on an error it rolls back what it
made. A start that was killed is cleaned up by the next starter, or by the parent that
killed it because it exceeded its budget. Hard: starter, next starter and parent may
all be at the same file, each with what it read earlier; each clean-up is three
removals. Correct when one start at a time is under way, the pointer names a record
that exists, a failed start leaves nothing, and a published session is not taken back.

**Runtime outbox** (`runtime-outbox.js`). State: `runtime-outbox.json` with the
pending events, the dead letters and the next sequence number of each session; the
quarantine file; a lock directory that is stale after ten seconds. Events are session
snapshots (a later one replaces the one pending) and acknowledgements of decisions
(queued once). Hard: several commands flush at the same time; answers get lost; an
outbox at its limit must choose; the privacy screening and the reading of what is to be
sent are two critical sections. Correct when no acknowledgement is lost short of
the caps, the last snapshot of a session is kept, what fails the screening is never
sent, and sequence numbers tell the order of events.

**Runtime live projection** (`runtime-live.js`). Publishes snapshots through the
outbox, flushes it, and polls the decisions made on the dashboard, which it applies as
approvals, revocations and amendments of the session and acknowledges through the
outbox. Hard: the polls of several processes overlap; a decision is applied and its
acknowledgement fails, or the other way round. Correct when a revocation that was
acknowledged stays in force, and a revision that was acknowledged is in the plan ledger.

**Watch service** (`services/watch/`, `watch.js`, `restore.js`). State: pending changes and
the debounce timer, blobs by content hash, the journal `history.json`, the queue of the syncer with its
timers, the commands being executed. One process, but every await lets other callbacks run: a second
debounced run, a second poll, a batch, the shutdown. Hard: two runs on one file; a blob half written is taken
for stored; a request fails and its batch is gone; a revert is handed out again while it is
executed; an interrupt in the middle of all this. Correct when what the journal records can be
restored, the last content of a file is the last recorded, nothing waits in the queue for
ever short of a failed request, and a revert is reported only when it is done and not repeated after.

**Release gate** (`package.json:7-11`, `scripts/`, `.github/workflows/ci.yml`). `ci:oss` is four
scripts joined by `&&`. The safety check asks git for the tracked files and judges each by its
path and its content; the export boundary check walks the work tree and judges the listed
paths and their contents against a profile; then the help text; then the smoke check, which works
with the CLI in a temporary repository. Their state is small (stack and list of the walk, findings,
temporary directory), the tree they read is shared with whoever edits or builds, and a later push
cancels the workflow (`ci.yml:9-11`). Hard: everything is listed first, measured later and read later
still; directories vanish during the walk; both scripts have their own list of what may be
published. Correct when the walk leaves nothing out, each item is judged by a state it was in
while the script ran, a passed gate vouches for every path that nobody touched, the lists
agree where it matters, nothing is left in the temporary directory, and the gate ends.

**Activation proof queue** (`activation-proof.js`), **execution bus**
(`daemon/runtime/execution-bus.js`), **artifact locks** (`artifact-io.js`), **brain lifecycle** (`brain-lifecycle.js`), **profile
drift recovery** (`profile-drift-recovery.js`), **runtime connection**
(`runtime-connection.js`): smaller queues, job records and locks of the same forms.
Not modelled; see the plan.

### 1.2 Components without shared state of their own

Runtime state classification, agent plan parsing, architecture obligations and graph,
safety kernel and privacy rules, AI change records, profiles and adapters, the decision
of the session hook on a tool call, semantic analysis, verification pipeline, policy
documents, reports: functions of their inputs. The daemon maps HTTP routes onto the
operations above. The service behind the API client is not in the repository.
`PROJECT.json` lists each with its reason.

### 1.3 How they interact

```
 hook / CLI / daemon ──begin──▶ session start transaction ──create, publish──▶ record, pointer
        │                                   │                                     ▲
        │                                   └──project──▶ runtime live ──apply────┤
        ├──append, approve, revoke, finish …──▶ session mutation lock ──load/save─┤
        ├──capture, amend, decide ────────────(no lock)───────────────load/save──┘
        └──publish, flush ──▶ runtime outbox ──send──▶ cloud

 files ──changes──▶ Sentinel ──store──▶ BlobStore          git index, work tree ◀── editors, builds
   ▲                   ├─────record──▶ Journal                │ list, stat, read
   │                   └─────queue───▶ Syncer ──▶ cloud       ▼
   └──restore── CommandPoller ◀──commands──────── cloud     safety check && boundary check && help && smoke check
```

## 2. The models

| module | models | lines of the source |
| --- | --- | --- |
| `SessionLock` | `withSessionEventLock`, one action per system call | `session.js:294-409` |
| `SessionRecord` | what each operation makes of a loaded record; no variables | `session.js:411-1193, 1830-2446, 2687-2722` |
| `GovernedSession` | the operations as concurrent calls on one record | the same, and `persistSession`, `loadSession`, `withSessionEventLock` |
| `AtomicSession` | abstract: each operation takes effect at once | what the operations promise |
| `SessionStart` | start, reclaim and recovery | `session-start-transaction.js`, `session-hook.js:1107-1320`, `agent-session-launcher.js:65-380`, `command-budget.js:84-166` |
| `RuntimeOutbox` | outbox and flush | `runtime-outbox.js`, `runtime-live.js:157-301` |
| `LiveActions` | the decisions of the dashboard, applied by overlapping polls; extends `SessionRecord` | `runtime-live.js:305-491` |
| `WatchHistory` | Sentinel, blobs, journal, batches, shutdown | `Sentinel.js`, `BlobStore.js:64-82`, `Syncer.js` |
| `WatchService` | `WatchHistory` with the polled revert commands | `CommandPoller.js`, `restore.js`, `watch.js:61-67` |
| `PathNames`, `Checkout` | paths; the git index, the work tree and those who change it | what the scripts take from git and the file system |
| `SafetyCheck`, `BoundaryCheck`, `SmokeCheck` | the three scripts, step by step | `oss-safety-check.mjs`, `oss-export-boundary-check.mjs`, `cli-smoke-check.mjs` |
| `FileAudit` | abstract: an audit of a changing tree | what either check promises |
| `OssGate` | the scripts in their order, on one checkout | `package.json:7-11`, `ci.yml:9-11` |
| `MC…` | the symmetry sets TLC uses; the small checkout of the gate | |
| `…_proofs` | theorems | |

`PROJECT.json` maps each definition to its lines.

### 2.1 SessionLock

A member of `Proc` is one call of `withSessionEventLock` by one process, so that token,
pid and start fingerprint are all that member. `exists` and `owner` are the directory
and `owner.json`; `seen` is the owner a contender read first; `late` says that the
deadline has passed. The actions follow the code: `MakeLock`/`FindLock` (mkdir
and `EEXIST`), `MkdirFails` (any other error, which is thrown at once), `WriteOwner`/`WriteOwnerFails`, `ReadOwner`, `ProbeOwner` (`kill(pid, 0)`,
which says *gone* only of a dead process and may say *unknown* of any), `VerifyOwner`
(the second read), `Reclaim` (`rmSync` of whatever directory is there now, after which the loop
continues without a look at the deadline), `Retry`, `GiveUp`, `FinishOperation` (the
finally block reads the owner), `Release`, `Crash`. `Deadline` is time.

The lock does not exclude unconditionally. Two contenders may both have verified the
same dead owner; the second `rmSync` then removes the lock the first has meanwhile
created. The history variable `raced` records that two contenders have stood
before that removal at once, and the safety properties are stated up to it:
this is the only way in which exclusion fails, and the check as well as the proof would
find any other. A death between mkdir and the writing of `owner.json` leaves a
directory that no contender will reclaim (`OrphanIsPermanent`); calls time out on it.

### 2.2 SessionRecord and GovernedSession

`SessionRecord` has the record as a value and one operator per operation. Event and
proposal ids are the call that made them. Time is the set of grants whose `expiresAt` has
passed; an operation that takes the time before it waits for the lock is given the set
as it was then (`asof`), as in the code. Kept of the record are the parts that operations
relate to each other: status, grants, flat list, satisfied obligations, events,
plan, revision, ledger, scope, proposals, freeze, and the body the replay hash
was taken of (a hash is represented by what is hashed).
A plan is a set of items, some of them *guarded*: those whose addition by the agent
`classifyAgentPlanAmendment` leaves to a human. So it does with more than `MaxAdded` items at once, guarded or
not (`Risky`); the code's limit of five counts files.

`GovernedSession` runs each call through the points of the code: `CallOperation`,
`Acquire` (lock and load), the operation with its `Save`, and `Return`; without the lock `Load`
and later `Save`. `captureAgentPlan` loads, finds no plan, and calls
`attachAgentPlan`, which loads again (`LoadForAttach`). An acceptance persists twice
(`DecideAgentPlanAmendment`, `RecordDecision`). `finishSession` persists and then clears the
pointer (`ClearActiveSession`). `Fail` is a death, or a write that throws, at any point. The lock
here is a variable that excludes: `SessionLock` is the evidence for it, up to the race
named above. A dead holder's lock is free (reclaimed) or held for ever (orphaned).

### 2.3 SessionStart

A starter makes one transaction and at most one session, which bear its name. Each read,
link, rename and removal is a step; `seen` is the transaction a cleaner has read and will
act on. Both starters of the code, the prompt hook and `neurcode run`, go through the same
phases; the model has one. `parent` is the process that enforces the budget of a bounded starter:
it kills it, reads the transaction and removes pointer, record and transaction. `stuck`
is an orphaned pointer lock, which makes activation fail and lets `removeSession` remove
the record alone. As with the lock, `raced` records that two cleaners have stood before
the unconditional removal of the transaction file.

### 2.4 RuntimeOutbox

One mutation under the outbox lock is one step, except the screening, which writes the
quarantine file first and the outbox after (`Screen`, `Purge`). A flush is `Screen`, `ReadPending`
(the second, unlocked read), and for each event of its batch `Send` and `MarkDelivered` or
`MarkFailed`. `Send` has the three outcomes that matter: taken in and answered, taken in with the answer
lost, not taken in. `MarkDelivered` may throw on a busy lock, which the code counts as a
failed delivery; a busy lock at `MarkFailed` throws out of the flush (`Abort`, which is also the death
of the process). An event's number is at once its id and its `generatedAt`. The
payload is abstracted to whether it passes the privacy rules; only an event of an older version,
which the file may hold at the start, does not.

### 2.5 LiveActions

The operations are those of `SessionRecord`; a member of `Call` is a request of the
dashboard, and grants and revisions bear it as their id. `Decide` and `Fetch` are the
dashboard and the two requests of a poll; what a poll has fetched is `todo`, approvals first. For
an approval the record is loaded to look for the grant (`FindGrant`), and then again under the mutation
lock (`Lock`, `ApproveSession`); a revocation is one such step; an amendment is loaded and persisted
without the lock (`LoadPlan`, `AmendPlan`); any of them may throw before it has persisted (`OperationThrows`). `QueueAck` is inside the `try`, so that a busy outbox leads to
`failed`; `QueueOrAbort` is the failure or the denial, whose own error ends the poll. A decision
is fetched until the cloud has its acknowledgement, hence any number of times.

`excused` names what the code does not exclude and the properties therefore do not claim: a poll that had not found the grant
before another made and revoked it will approve it once more; a revoked grant that gave way to another
request for the same path is gone, so that an old fetch makes it anew; and copies of the record that overlap
because an amendment takes no lock may undo anything.

### 2.6 WatchHistory and WatchService

The service is one node process: a step is what happens between two awaits. `HandleChange` notes a
change and sets the debounce timer; `ProcessPendingChanges` is that timer, and takes the pending changes
before its first await, so that a further run may begin while one is under way; `ReadFile`, `FindBlob`, `CreateBlob`,
`WriteBlob`, `RecordEvent` are the awaits of a run. Whatever throws there, a file that cannot be read, a blob that cannot
be created or written, makes the run skip the file without a word (`Skip`). A blob is absent, part or whole: `writeFile` truncates
first and may fail halfway, and `access` finds either. `RecordEvent` adds to the journal in memory and writes the journal;
when the write throws, the event is in memory, and saved with the next write, but never queued. The Syncer takes a batch from its queue (`Splice`), and
after an answer schedules the rest with a timer it does not keep (`later`), after a failed request not. `Interrupt`,
`CloseWatcher` and `FlushAnswer` are the shutdown, which ends with `process.exit`. `WatchService` adds the polls, which do not wait for
each other; what a revert writes is a change like any other. Being killed is no step: it leaves the
files as they are in some state, and the properties of files hold in every state.

History variables state the limits of what the code promises: `spoilt` (the files whose *last* look overlapped another run's, or was given
up), `unsaved` (the last write of the journal failed), `trusted` (a blob taken for stored, or overwritten, while another wrote it), `failed` (a request), `twice`
(two polls executed the command at once).

### 2.7 The release gate

`PathNames` has paths as sequences of directory names with a last name in parts. `Checkout`
has the paths git tracks, the content at each path (kind, size, readable or not, the secret patterns of
each line and of the whole text) and the directories; `Others` writes, deletes and removes directories.
`past` and `edited` are history: what a path has been since the script began, and whether anybody touched it since the
gate began. `SafetyCheck` follows `main`: `ListTracked`, and for each path in listing order `JudgeFile`, which applies the
path rules and measures the file, then `ReadTracked`, and the verdict. The two env patterns, the allow-lists and the
runtime patterns below `.neurcode` are predicates on paths. `BoundaryCheck` has the walk (`StartWalk`, `ListDir`,
`ListDirThrows` where `readdirSync` throws out of the script, of a directory that is gone or one that may not be read), `JudgePaths`, then
`StatFile` and `ReadListed` for each file in the order of the walk (`ListedBefore`).
`Rank` is the order in which directory entries are listed, and lists what is below a directory right after it, which makes the highest
of the pending directories the top of the stack. `SmokeCheck` has the stages of `run`, each of which may fail, with
the `finally` that removes the directory.

`FileAudit` is what a script that audits a changing tree can promise at all: an item is left out or cleared
only if it was clean at some time while the script ran, found only if it was bad at some time, no finding gets lost,
and it passes only when everything was judged. Both checks implement it; the mapping of the boundary check has the walk as the
idle time before everything is collected, and counts required paths as items beside path and content of each file.
`OssGate` hands over from one script to the next on the same tree.

## 3. The runs

All runs are exhaustive on their instance. "Violation" runs check one statement of the
documentation or of a comment that the code does not meet (section 5).

| run | instance | checks |
| --- | --- | --- |
| `lock` | 3 calls, each may die | `TypeOK`, `ExclusionUnlessRaced`, `OwnerStableUnlessRaced`, `EveryCallReturns`, `OrphanIsPermanent` |
| `session_locked` | 4 calls of the 6 operations that do everything under the lock, one may die | `NoLostEvent`, `PointerFollowsFinish`, `FinishIsFinal`, `RevocationIsFinal`, `AtomicSpec` |
| `session_all` | 3 calls of 10 operations, all but the refresh, one may die; fair | `TypeOK`, `ApprovalsSound`, `PlansSound`, `FirstFinishReplays`, `EveryCallReturns` |
| `start_all` | 3 starters, all bounded, all may be killed | `TypeOK`, `OneStartUnlessRaced`, `PointerHasRecord`, `FailedStartLeavesNothing`, `RollbackSparesCommitted` |
| `outbox_all` | 2 sessions, 2 flushes, 3 events, caps of 2, 2 attempts | `TypeOK`, `UnsafeNeverSent`, `SequenceOrder`, `AckKept`, `LastSnapshotKept` |
| `live_actions` | 2 approvals of one path, 1 amendment, 2 polls | `RevocationHolds`, `AmendmentHolds` |
| `watch` | 1 file, 2 contents, 1 edit and 1 revert, 2 runs, 1 batch of 1, 2 polls | `TypeOK`, `RecordedIsStored`, `LatestIsRecorded`, `QueueIsAttended`, `CompletionHolds` |
| `oss_gate` | 5 start trees, 2 indexes, 2 edits, 3 profiles, killed anywhere; fair | `TypeOK`, `WalkMissesNothing`, `TempRemoved`, `PassedGateHolds`, `NeurcodeListsAgree`, `SafetyImplementsAudit`, `BoundaryImplementsAudit`, `GateEnds` |
| `session_plan_lost`, `session_plan_race`, `session_replay`, `start_committed` | the smallest mix that shows it | one statement each, violated |

What the properties say is stated above each of them in the modules. Every property of a
passing run has a mutant in `PROJECT.json`: a plausible bug in a mapped definition,
written beside the original, under which TLC finds the property violated.

**Why the bounds are enough.** The races of the lock and of the start need a dead owner and two
contenders, hence three processes; with three the instances contain reclaim after
reclaim as well. An interleaving of session operations that breaks a property relates at most
two writers and an earlier one; `session_locked` has a fourth call, so that a revocation, the
approval that replaces it, a clean-up with an old clock and a finish meet. Grants of
different paths do not interact except through the flat list, which is computed path by
path, so one path suffices; two items give plans that differ in a guarded and in a free item. With two items the only
addition above `MaxAdded`, which is one there, has the guarded item in it, so that the instances exercise the limit only beside
the guard; the proofs are for any limit. In
`outbox_all` three events overflow a cap of two, two attempts give both outcomes of `MarkFailed`, and
two sessions tell coalescing per session from coalescing of all. `MaxGenerated` (events) and
`MaxDeaths` (requeues) are the only bounds of that model that are not constants of the code.

`session_all` leaves the refresh of obligations out, which `session_locked` has; the proofs of its
invariants are for any mix. In `live_actions` two approvals of one path displace each other's grant, and a
poll that holds two decisions (`MaxFetched`) while the other polls again gives the late approval; `MaxRevision`
stops the amendments at two, the second of which is the repetition. In `watch` files do not interact, so that one
suffices; one edit and what the two polls of a revert write make up to three changes, which two runs may overlap on and of
which a later one follows a look that was given up; a batch of one makes every queue of two a rest that must be rescheduled. In `oss_gate` the extra paths are one of each class: a text file, an
env template, a path below `.neurcode` that may be published and one that may not. Their contents have one secret that
only one script knows, one that both know, one that only shows across lines, one above either script's size limit, an unreadable
file and a symbolic link. Two edits are enough for a file to change between stat and reading and for
a directory to vanish and come back (`MaxEdits`); the proofs are for any number.

**Symmetry.** Calls, starters and sessions are interchangeable, and `MC…` permutes those that are in the
same sets (crashable or not). The runs that check liveness (`lock`, `session_all`, `oss_gate`) use none.

**Fairness.** `SessionLock!FairSpec` has weak fairness of each call's own steps and of its deadline:
the code waits by sleeping for a bounded time, and the operating system schedules. `Crash` is never required.
`GovernedSession!FairSpec` has weak fairness of the steps of each call; nobody
is required to call anything, to die, or to let a grant expire. `OssGate!FairSpec` has weak fairness of the
gate's own steps: the scripts are synchronous and wait for nothing but the CLI, whose calls have no time limit
(`execFileSync` without `timeout`), so the gate ends only if the CLI answers; that it does is an assumption. That a directory which is there cannot be
read is never required (`NeedlessThrow`): the walk has to end by itself. No run assumes strong fairness, and
the models of the start, the outbox, the polls and the watch service have no liveness property: a start may be killed, and the cloud
need never answer.

**Deadlock** is not checked: all instances have finitely many calls, edits or decisions and may come to rest, and the gate ends.

## 4. The proofs

TLAPS checks the following for every value of the constants that satisfies the `ASSUME` of the module
(sets that may be infinite, caps that are positive).

**SessionLock_proofs.** `TypeCorrect`, `Exclusion`, `OwnerStable`, `ExclusionWithoutCrashes`, `OrphanStays`. The
invariant is `TypeOK /\ Grounded /\ (raced \/ Exclusive)`. Mutual exclusion is not
inductive by itself: a contender past its second read is about to remove *a* directory, and one has to know that it
is still the dead owner's. `Exclusive` says so: as long as nobody raced there is at most one contender
there, the directory exists and its owner is the one the contender has seen, and every holder's directory is its own.
`Grounded` says that an owner seen past the probe is dead, and the dead do not release.
If nobody can die, nobody gets past the probe and `raced` stays false, which is
`ExclusionWithoutCrashes`. An owner that is not named is never found dead, which is `OrphanStays`.

**GovernedSession_proofs.** `TypeCorrect`, `ApprovalsAlwaysSound`, `PlansAlwaysSound`, `FinishReplays`, for
any mix of operations. The invariant `SoundInv` speaks of *every* record in play, the one on disk and the
copies in memory, because without a lock any copy may be the next to reach the disk.
It adds `Fresh` (a call that has not written yet occurs in no record, so its id is
new) and `AcceptedCopy` (what the second write of an acceptance finds). The lemmas of
`SessionRecord_proofs` show that each operator keeps a record sound and mentions nobody new but its call; an
action then either loads a sound record or persists a sound outcome.

The same module proves `NothingLost`, `PointerAfterFinish`, `FinishFinal`, `RevocationFinal`,
`ImplementsAtomic`. Their assumption is part of their statements: the operations are among those that take the lock
(`OnlyLocked`), and for the refinement also among those that check the status under it (`OnlyUnderLock`: no freeze). The invariant
`LockInv` says that the copy of the holder is the record on disk until it writes; hence every write is a `Successor` of
what is on disk, and each step is a step of `AtomicSession` or a stutter.

Three of the violations of section 5 have a counterpart here that says when the statement does hold, for any mix of operations, the
unlocked ones included. Their hypothesis is a restriction of the behaviour and part of their statements. `VersionsKeptAlone` and
`ExpansionsReviewedAlone`: as long as calls do not overlap (`Alone`: at most one has begun and has still to persist, a capture
that found no plan included), no plan version is overwritten and every risky expansion is reviewed; `NothingLostAlone` says the
same of events, without any lock. The invariant `AloneInv` says that the copy of the one call at work is the record on disk, and
that no plan exists between a capture that found none and its attach. `FinishedReplaysUntouched`: as long as nothing is written
to a finished record (`Untouched`), it replays to its hash, however calls overlap before the finish; `ReplayInv` says of whatever reads
finished, on disk or in a copy, that it replays.

**RuntimeOutbox_proofs.** `TypeCorrect`, `NothingUnsafeSent`, `SequenceOrdered`, `AcksKept`, `LastSnapshotsKept`. The invariant `IInv` adds to the
properties `Numbered` (numbers and sequence numbers of the events generated are those handed out so far), `Known`
(what is in the outbox was generated, and is as safe as it was then) and `Screened`: once some flush has passed its screening, no
event and no dead letter that fails it is left anywhere, which is why the unlocked second read can
do no harm. That dead letters are purged too is needed: a requeue between the
two reads would otherwise bring one back, as the mutant of `UnsafeNeverSent` shows.
That an event leaves the outbox only for a reason rests on a second invariant, `KeptInv`: an id names one event
wherever it is, and the dead letters are ordered by their time (`Distinct`); the cloud has what a flush is about to mark as
delivered (`Answered`); what a purge is about to remove is in the quarantine file (`Quarantined`). How many events
displace the one that a cap gives up is a lemma on the caps (`TrimKeeps`, `DeadLettersCount`): both rest on `TopCount`, that the
`n` greatest members of a finite set are `n`, because the number of members above each maps the set one to one onto
the first numbers.

**SessionStart_proofs.** `TypeCorrect`, `OneStart`, `PointerResolves`, `FailedStartClean`, `CommittedSpared`, `UndisturbedStarts`. The invariant
is that of the lock, for the transaction file: `IInv == TypeOK /\ Grounded /\ Published /\ (raced \/ Exclusive)`.
`Grounded` ties what each process has seen or made to its starter, and says that whose transaction is to be reclaimed is
dead; `Published` says which starters have a record and when the pointer may name it; `Exclusive` that, short of a race, the
transaction a remover is about to remove is the one it has seen, and a starter's transaction is its own.
`UndisturbedStarts` supposes that no starter is killed, from outside or by a parent: then starts exclude each other, the pointer always
has its record and a published session survives, with no exception. `Unkilled` says why: nobody ever verifies or reclaims
a transaction, because none is found dead.

**OssGate_proofs.** `TypeCorrect`, `WalkComplete`, `TempAlwaysRemoved`, `ListsAgree`, `PassedGateVouches`, for every tree, index, profile and
set of edits. `BaseInv` adds to the types `History` (a path has been what it is, and one that nobody touched nothing else), `Directories` (what is
above a directory or a file is a directory), `InOrder` and `Fresh` (who works when, and what the others have not yet begun), and `WalkInv`, which is
why the walk is complete: a walked path that was a file all along and is not yet listed lies below a
directory that is still on the stack. `VerdictInv` adds `TrackedJudged` and `ListedJudged`: for each path that is no longer
pending, what its judgement says about it. `ListsAgree` needs that both scripts' patterns are compared for *every* path, and is a lemma on them.

The same module proves `SafetyIsAnAudit` and `BoundaryIsAnAudit`: each step of a script is a step of `FileAudit` under its refinement mapping or
a stutter. The invariant `AuditInv` adds `InHand` to `VerdictInv`: the file between its stat and its reading fitted at some time.

**WatchService_proofs.** `TypeCorrect`, `RecordedStored`, `LatestRecorded`, `QueueAttended`, `CompletionIsTrue`, for any files, contents, runs,
batches and polls. `LatestIsRecorded` speaks only of a file that nobody has still to look at, and says nothing of the steps that lead there. The
invariant `Tracked` does: unless the last look at a file was given up or overlapped another, at most one run has it; when no change of it is still to be noticed or
taken up (`TakenUp`), that run has read what the file contains, and when there is no such run the last event says it. `Stored` adds to
`RecordedIsStored` that a run about to record has seen its blob whole: the check for the blob and the record of the event are
steps apart, and only a write of another (`trusted`) can come between. `Polls` says that one poll that executes at a time has had
the wanted content in the file when it reports, and that none executes once the cloud has its report.

**LiveActions_proofs.** `TypeCorrect`, `RevocationsHold`, `AmendmentsHold`, `OnePollKeepsItsWord`, for any requests, paths and polls. `RevocationHolds` is about an
acknowledgement that is queued steps after the revocation, so that `Revocations` says it also of one about to be queued, and says more: the revoked grant
is *there*, because the search that spares it looks for a grant by its id. `Unapproved` says that nobody has passed that search
for what is revoked now; without the exception for those who had, it is false, which is how `excused` came to name
them. `Fresh` says that short of an overlap the one copy of the record in memory is the record on disk, `Bodies` that an id
has one grant, of its request's path, and that no ledger is ahead of its revision number, so that a new revision replaces none. What `Approve`,
`Revoke` and `RecordRevision` make of such a record are lemmas on the lemmas of `SessionRecord_proofs`. `OnePollKeepsItsWord` supposes that
polls do not overlap: then the only exception left is a revoked grant whose path is granted to another request (`Contested`), because
a poll that revokes is not at the same time past its search for the grant, and a revocation removes no grant.

**Only model-checked:** liveness (`EveryCallReturns` of the lock and of the calls, `GateEnds`). It rests on weak fairness, hence on
`ENABLED`, which the prover does not reason about; TLC checks it on the instances of section 3. Every other property of a passing run is a theorem.

## 5. Where code and documentation disagree

Each is a run that TLC must find violated; the trace is the scenario.

| run | statement | what the code does |
| --- | --- | --- |
| `session_plan_lost` | "Every plan version (never overwritten; older revisions are preserved)" (`session.js:2545`) | Two plan operations load the same record; the second to persist replaces the ledger of the first. |
| `session_plan_race` | "Later safe refinements apply automatically, while risky agent-authored expansions remain pending until a human decides" (`session.js:2253`) | Two captures both find no plan. The second `attachAgentPlan` finds the plan of the first and replaces it, unclassified. |
| `session_replay` | "finished locally before cloud APIs are considered, preserving its replay hash" (`docs/cli-commands.md:170`) | `appendEvent` and `finishSession` do not look at the status: an append or a second finish after the finish breaks the replay. |
| `start_committed` | "Cloud projection is non-authoritative and must not affect the committed session" (`session-hook.js:1302`) | The transaction names the session while it is projected; a start killed by its budget there has its published session removed by its parent. |

Section 4 has for each a theorem that names the one cause: `VersionsKeptAlone` and `ExpansionsReviewedAlone` (calls that overlap),
`FinishedReplaysUntouched` (a write after the finish), `UndisturbedStarts` (a starter that is killed).

Observed while modelling, without a run of their own:

- Two starters verify the same dead transaction; the second `rmSync` removes the live one of the first, although "only if its owner identity still matches" (`session-start-transaction.js:120`) it should (`:131`). `OneStartUnlessRaced` names this race.
- `setPlanFrozen` checks the status before it waits for the lock; a session finished meanwhile is frozen (`session.js:2679-2682`), which breaks its replay.
- A plan operation that loaded an active session persists it as active again after a finish, or takes a revocation back (`session.js:2321`).
- `removeSession` removes the record also when the pointer could not be cleared because the pointer lock is orphaned (`session.js:182`); the pointer then dangles.
- A start killed between `createSession` and the phase that names the session leaves a record nobody cleans up (`session-hook.js:1248`); it is inert, since the pointer is published last.
- `readOutbox` takes any error for an empty outbox, and the next mutation makes it one (`runtime-outbox.js:206`).
- An event that one flush delivered may already have been dead-lettered by another that got no answer; it stays a dead letter although it was delivered.
- An acknowledgement that finds the outbox lock busy after its approval was applied makes the `catch` acknowledge a failure (`runtime-live.js:433-441`).
- A poll that still has a request as approved may approve it anew after its revocation (`runtime-live.js:415`), and acknowledges a grant it finds revoked as applied (`:417`).
- An amendment is applied on each poll until its acknowledgement arrives, each time as another revision (`runtime-live.js:460`).
- A file that is there and cannot be read is skipped without a word (`Sentinel.js:187-192`), so that the last event of a file may be older than its content. When the write of the journal throws, the event is saved with the next one and never queued (`:164`).
- The shutdown of the watch service says "All changes have been synced. Goodbye!" (`watch.js:65`), although `stop()` drops the changes the debounce still holds (`Sentinel.js:198-202`), does not wait for a run under way, and failed batches are gone (`Syncer.js:107`).
- A blob that is half written is taken for stored (`BlobStore.js:70`), for good if its writer failed.
- A revert may overwrite an edit the history has not recorded yet, and polls that overlap may repeat it.
- The safety check accepts `.env.example` (`oss-safety-check.mjs:188` and its allow-list), and the boundary check rejects every `.env.` name (`oss-export-boundary-check.mjs:84`): an env template passes one script and fails the gate at the next. The entry `env.production.example` of the allow-list matches no name that the env pattern matches.
- A directory that vanishes during the walk, or cannot be read, ends the boundary check with an exception and without its report (`oss-export-boundary-check.mjs:141`).

## 6. What is not modelled, and what is assumed

- **Files.** A rename is atomic; a file that was renamed into place can be read; the removals of files succeed (those of lock directories may be
  cut short by a death). Two processes are told apart by pid and start fingerprint, that is, pids are not confused after reuse.
- **Exempt, not caught.** A history variable in a property (`raced`, `stuck`, `excused`, `spoilt`, `unsaved`, `trusted`, `failed`, `twice`) exempts a race or a
  failure that the code does not exclude. Such a property shows that nothing *else* breaks what it says. The exempt case itself is a hazard on record, and `PROJECT.json` says so at each.
- **Lock in GovernedSession.** It excludes. `SessionLock` shows this up to the reclaim race.
- **Pointer lock.** A live holder gives it back within the two seconds of a call, so that only an orphaned one makes a call fail (`stuck` in `SessionStart`, `Fail` in `GovernedSession`).
- **Session record.** Waivers, obligations other than the ownership obligation of a blocked path, the sanitising of events,
  the derivation of the intent contract, timestamps and wording are left out.
- **Start.** The drift recovery that may come first, and which of the reasons keeps the active session.
- **Outbox.** Events are generated at distinct times; the backup, the cap of the quarantine, the outbox's own list of quarantined
  ids and its timestamps are left out, and so is the migration of a payload that the rules change without
  rejecting it. The lock is exact: that it may be taken over by age from a live holder is a hazard listed and not yet modelled.
- **Decisions of the dashboard.** The session is active and only polls change it; grants do not expire meanwhile; the denied and failed acknowledgements are not kept, since they promise nothing of the record.
- **Watch service.** The Brain index refreshed beside the journal, the mode without an API key and its reload, commands of an unknown type, a second interrupt, several files at once, and a user file that an exit leaves half restored (`restore.js:87` writes in place). Events of the queue are counted, not told apart. The journal in memory has an event before its write may throw (lowdb changes its state and then writes it), and a write of the journal succeeds or leaves what was there. A timer of the Syncer fires only when one of the model's batches is free.
- **Gate.** The git index does not change while the gate runs: the safety check reads it once, and a path that somebody adds or removes with git between the scripts is not covered by `PassedGateHolds` and `NeurcodeListsAgree`. Sizes are compared with the limits only; the patterns are model values of a content, so that what a regular expression matches is not modelled. Also left out: several entries of git for an unmerged path and the trimming of its output, a profile named like a member of `Object.prototype`, a target other than the checkout or one that does not exist, and the moments within one `rm -rf`. A symbolic link is a kind of content, which the walk ignores.
  Installing dependencies, and which words the answers of the CLI must contain, are outside.
- **Cloud.** It accepts an event or does not; nothing is assumed of how it orders what it has accepted.

## 7. Plan

Done, in this order: lock, record and operations with their abstract specification, start, outbox, release gate with the audit it
implements, watch service, decisions of the dashboard; and the proofs of all of them. What remains, in the order of its worth:

1. A lock that goes stale by age, as the outbox, the artifact files and the execution bus have it: exclusion unless a holder
   outlives the limit. The execution bus on top: one execution at a time, no duplicate while it runs.
2. The activation proof queue: what is lost when a queue is written back after an awaited request.
3. An abstract lock that `SessionLock` implements short of the race, in place of the assumption of `GovernedSession` that the lock excludes.
4. Liveness of the watch service under fairness of its timers.
5. Profile drift recovery as a finish followed by a start; waivers in `SessionRecord`; the brain job record.

## 8. How to run

```
tlc -workers 2 -config SessionLock.cfg SessionLock.tla
tlc -workers 2 -config RuntimeOutbox.cfg MCRuntimeOutbox.tla
tlc -workers 2 -config OssGate.cfg MCOssGate.tla
tlapm RuntimeOutbox_proofs.tla
```

The longest runs take two to three minutes on two cores. The module and configuration of each run are in `PROJECT.json`.
