----------------------------- MODULE WatchHistory -----------------------------
(***************************************************************************)
(* The file history of `neurcode watch` (packages/cli/dist/services/watch):*)
(* the Sentinel notices changes of files, stores their contents in the     *)
(* BlobStore and records them in the Journal; the Syncer sends what was    *)
(* recorded to the cloud in batches; and an interrupt ends the service     *)
(* (commands/watch.js).  All of it is one node process: what is done       *)
(* between two awaits is one step, and at each await the other callbacks   *)
(* may run, those of a second debounced run included.                      *)
(*                                                                         *)
(* A content stands for its own hash, so that the blobs are named by       *)
(* contents.  The Syncer does not look into events, so that its queue and  *)
(* its batches are their lengths.  Files do not interact, so that the      *)
(* changes of one run are taken in any order.  An API key is configured.   *)
(* The Brain index that is refreshed beside the journal is left out.  That *)
(* the process is killed is no step: it leaves the files as they are.      *)
(***************************************************************************)
EXTENDS Naturals, Sequences

CONSTANTS
    File,       \* the watched files
    Content,    \* what a file may contain
    Absent,     \* no file, and the content of a file that is not there
    Run,        \* the runs of processPendingChanges under way at once
    Batch,      \* the batches sent by timers under way at once
    Flush,      \* the batch that the shutdown awaits
    BatchSize,  \* Syncer.batchSize
    MaxEdits    \* bound of the model: what the user does to the files

ASSUME WatchAssumption == /\ Absent \notin Content \cup File
                          /\ Flush \notin Batch
                          /\ BatchSize \in Nat \ {0}
                          /\ MaxEdits \in Nat

VARIABLES
    disk,      \* the content of each file
    unseen,    \* the files whose change the watcher has not yet reported
    edits,     \* the edits so far
    phase,     \* "running", "closing", "flushing" or "exited"
    pending,   \* pendingChanges: the files to be looked at, and as what
    debounce,  \* debounceTimer is set
    run,       \* each run: its files, the point it is at, and the content it has read
    blobs,     \* of each content: no blob, part of it, or the whole
    events,    \* the journal: the file and the content of each event
    queue,     \* the length of syncQueue
    timer,     \* syncTimer is set
    later,     \* the other timers for a batch, which nobody can clear
    sending,   \* the length of each batch that is being sent, or 0
    failed,    \* history: the request of a batch failed
    spoilt,    \* history: the files whose last look was given up, or overlapped another
    unsaved,   \* history: the journal could not be written when it was last tried
    trusted    \* history: a blob was taken for stored, or overwritten, by another that wrote it

watchVars == <<disk, unseen, edits, phase, pending, debounce, run, blobs, events, queue, timer,
               later, sending, failed, spoilt, unsaved, trusted>>

Idle == [files |-> {}, at |-> "idle", file |-> Absent, content |-> Absent]
RunPoints == {"idle", "read", "store", "create", "write", "record"}

Alive == phase # "exited"

Init == /\ disk \in [File -> Content]
        /\ unseen = {}
        /\ edits = 0
        /\ phase = "running"
        /\ pending = [f \in File |-> "none"]
        /\ debounce = FALSE
        /\ run = [r \in Run |-> Idle]
        /\ blobs = [c \in Content |-> "none"]
        /\ events = <<>>
        /\ queue = 0
        /\ timer = FALSE
        /\ later = 0
        /\ sending = [b \in Batch \cup {Flush} |-> 0]
        /\ failed = FALSE
        /\ spoilt = {}
        /\ unsaved = FALSE
        /\ trusted = FALSE

-----------------------------------------------------------------------------
(* The user *)

Edit(f) ==
    /\ edits < MaxEdits
    /\ edits' = edits + 1
    /\ \E c \in (Content \cup {Absent}) \ {disk[f]} : disk' = [disk EXCEPT ![f] = c]
    /\ unseen' = unseen \cup {f}
    /\ UNCHANGED <<phase, pending, debounce, run, blobs, events, queue, timer, later, sending,
                   failed, spoilt, unsaved, trusted>>

-----------------------------------------------------------------------------
(* Sentinel *)

\* The watcher reports a file as added, changed or unlinked.  Several changes
\* may be reported as one, as what the last has made of the file.
HandleChange(f) ==
    /\ phase = "running"
    /\ f \in unseen
    /\ unseen' = unseen \ {f}
    /\ pending' = [pending EXCEPT ![f] = IF disk[f] = Absent THEN "unlink" ELSE "write"]
    /\ debounce' = TRUE
    /\ UNCHANGED <<disk, edits, phase, run, blobs, events, queue, timer, later, sending, failed,
                   spoilt, unsaved, trusted>>

\* An unlink leaves nothing to record.
Noticed == {f \in File : pending[f] = "write"}
Busy == {r \in Run : run[r].at # "idle"}
Claimed(f) == \E r \in Busy : f \in run[r].files

\* Mutant of ProcessPendingChanges: nothing is done while a run is under way.
ProcessUnlessBusy(r) ==
    /\ debounce
    /\ run[r].at = "idle"
    /\ debounce' = FALSE
    /\ pending' = [f \in File |-> "none"]
    /\ run' = [run EXCEPT ![r] = IF Noticed = {} \/ Busy # {} THEN Idle
                                 ELSE [Idle EXCEPT !.files = Noticed, !.at = "read"]]
    /\ UNCHANGED <<disk, unseen, edits, phase, blobs, events, queue, timer, later, sending, failed,
                   spoilt, unsaved, trusted>>

\* The debounce timer fires: the changes are taken and cleared before the
\* first await, so that a further run may begin while this one is under way.
ProcessPendingChanges(r) ==
    /\ debounce
    /\ run[r].at = "idle"
    /\ debounce' = FALSE
    /\ pending' = [f \in File |-> "none"]
    /\ run' = [run EXCEPT ![r] = IF Noticed = {} THEN Idle
                                 ELSE [Idle EXCEPT !.files = Noticed, !.at = "read"]]
    /\ spoilt' = (spoilt \ Noticed) \cup {f \in Noticed : Claimed(f)}
    /\ UNCHANGED <<disk, unseen, edits, phase, blobs, events, queue, timer, later, sending, failed,
                   unsaved, trusted>>

\* The run goes on to its next file, or is over.
NextFile(r, f) == LET rest == run[r].files \ {f}
                  IN run' = [run EXCEPT ![r] = IF rest = {} THEN Idle
                                               ELSE [Idle EXCEPT !.files = rest, !.at = "read"]]
To(r, l) == run' = [run EXCEPT ![r].at = l]

\* What the run was looking at when a call threw is skipped silently.
Skip(r, f) == NextFile(r, f) /\ spoilt' = spoilt \cup {f}

\* readFile, which throws when the file has gone, and for a file that is there
\* but cannot be read.
ReadFile(r) ==
    /\ run[r].at = "read"
    /\ \E f \in run[r].files :
         \/ /\ disk[f] = Absent
            /\ NextFile(r, f)
            /\ UNCHANGED spoilt
         \/ /\ disk[f] # Absent
            /\ run' = [run EXCEPT ![r].at = "store", ![r].content = disk[f], ![r].file = f]
            /\ UNCHANGED spoilt
         \/ disk[f] # Absent /\ Skip(r, f)
    /\ UNCHANGED <<disk, unseen, edits, phase, pending, debounce, blobs, events, queue, timer,
                   later, sending, failed, unsaved, trusted>>

\* BlobStore.store: a blob that is there, whole or not, is taken for stored.
FindBlob(r) ==
    LET c == run[r].content
    IN /\ run[r].at = "store"
       /\ To(r, IF blobs[c] = "none" THEN "create" ELSE "record")
       /\ trusted' = (trusted \/ blobs[c] = "part")
       /\ UNCHANGED <<disk, unseen, edits, phase, pending, debounce, blobs, events, queue, timer,
                      later, sending, failed, spoilt, unsaved>>

\* writeFile truncates what is there now, or cannot open it ...
CreateBlob(r) ==
    LET c == run[r].content
    IN /\ run[r].at = "create"
       /\ \/ /\ blobs' = [blobs EXCEPT ![c] = "part"]
             /\ To(r, "write")
             /\ trusted' = (trusted \/ blobs[c] # "none")
             /\ UNCHANGED spoilt
          \/ Skip(r, run[r].file) /\ UNCHANGED <<blobs, trusted>>
       /\ UNCHANGED <<disk, unseen, edits, phase, pending, debounce, events, queue, timer, later,
                      sending, failed, unsaved>>

\* Mutant of WriteBlob: a failed write is not noticed.
WriteBlobUnchecked(r) ==
    /\ run[r].at = "write"
    /\ blobs' \in {blobs, [blobs EXCEPT ![run[r].content] = "whole"]}
    /\ To(r, "record")
    /\ UNCHANGED <<disk, unseen, edits, phase, pending, debounce, events, queue, timer, later,
                   sending, failed, spoilt, unsaved, trusted>>

\* ... and fills it; or it throws, the file is skipped, and what was written
\* is left behind.
WriteBlob(r) ==
    /\ run[r].at = "write"
    /\ \/ /\ blobs' = [blobs EXCEPT ![run[r].content] = "whole"]
          /\ To(r, "record")
          /\ UNCHANGED spoilt
       \/ Skip(r, run[r].file) /\ UNCHANGED blobs
    /\ UNCHANGED <<disk, unseen, edits, phase, pending, debounce, events, queue, timer, later,
                   sending, failed, unsaved, trusted>>

\* recordEvent adds the event to the journal in memory and writes the journal;
\* queueEvent sets the timer of the Syncer anew.  When the write throws, the
\* event is saved with the next one that does not, but never queued.
RecordEvent(r) ==
    /\ run[r].at = "record"
    /\ events' = Append(events, [file |-> run[r].file, content |-> run[r].content])
    /\ \/ queue' = queue + 1 /\ timer' = TRUE /\ unsaved' = FALSE
       \/ unsaved' = TRUE /\ UNCHANGED <<queue, timer>>
    /\ NextFile(r, run[r].file)
    /\ UNCHANGED <<disk, unseen, edits, phase, pending, debounce, blobs, later, sending, failed,
                   spoilt, trusted>>

-----------------------------------------------------------------------------
(* Syncer *)

\* Mutant of Splice: the size of a batch is not looked at.
SpliceAll(b) == sending' = [sending EXCEPT ![b] = queue] /\ queue' = 0

\* syncBatch takes a batch from the queue before it sends it.
Splice(b) == LET n == IF queue < BatchSize THEN queue ELSE BatchSize
             IN /\ sending' = [sending EXCEPT ![b] = n]
                /\ queue' = queue - n

SyncBatch(b) == /\ sending[b] = 0
                /\ IF queue = 0 THEN UNCHANGED <<queue, sending>> ELSE Splice(b)

SyncTimer(b) ==
    /\ timer
    /\ timer' = FALSE
    /\ SyncBatch(b)
    /\ UNCHANGED <<disk, unseen, edits, phase, pending, debounce, run, blobs, events, later, failed,
                   spoilt, unsaved, trusted>>

LaterTimer(b) ==
    /\ later > 0
    /\ later' = later - 1
    /\ SyncBatch(b)
    /\ UNCHANGED <<disk, unseen, edits, phase, pending, debounce, run, blobs, events, timer, failed,
                   spoilt, unsaved, trusted>>

\* Mutant of Reschedule: what is queued waits for the next event.
RescheduleNever(answered) == later' = later

\* After an answer, whatever it says, the rest of the queue is scheduled; after
\* a failed request it is not.
Reschedule(answered) == later' = IF answered /\ queue > 0 THEN later + 1 ELSE later

Note(answered) == failed' = (failed \/ ~answered)

\* A batch sent by a timer is over.  It is not put back when it has failed.
SyncAnswer(b) ==
    /\ sending[b] > 0
    /\ \E answered \in BOOLEAN : Reschedule(answered) /\ Note(answered)
    /\ sending' = [sending EXCEPT ![b] = 0]
    /\ UNCHANGED <<disk, unseen, edits, phase, pending, debounce, run, blobs, events, queue, timer,
                   spoilt, unsaved, trusted>>

-----------------------------------------------------------------------------
(* Shutdown: commandPoller.stop(), sentinel.stop(), process.exit(0) *)

\* The interrupt: the debounce timer is cleared, pendingChanges is not looked
\* at again, and the watcher is being closed.
Interrupt ==
    /\ phase = "running"
    /\ phase' = "closing"
    /\ debounce' = FALSE
    /\ UNCHANGED <<disk, unseen, edits, pending, run, blobs, events, queue, timer, later, sending,
                   failed, spoilt, unsaved, trusted>>

\* The loop of flush: the next batch, or the end of the process.
FlushOn == IF queue = 0
           THEN /\ phase' = "exited"
                /\ sending' = [sending EXCEPT ![Flush] = 0]
                /\ UNCHANGED queue
           ELSE phase' = "flushing" /\ Splice(Flush)

\* The watcher is closed; flush clears the timer it knows of.
CloseWatcher ==
    /\ phase = "closing"
    /\ timer' = FALSE
    /\ FlushOn
    /\ UNCHANGED <<disk, unseen, edits, pending, debounce, run, blobs, events, later, failed,
                   spoilt, unsaved, trusted>>

FlushAnswer ==
    /\ phase = "flushing"
    /\ \E answered \in BOOLEAN : Reschedule(answered) /\ Note(answered)
    /\ FlushOn
    /\ UNCHANGED <<disk, unseen, edits, pending, debounce, run, blobs, events, timer, spoilt,
                   unsaved, trusted>>

-----------------------------------------------------------------------------

RunStep(r) == ReadFile(r) \/ FindBlob(r) \/ CreateBlob(r) \/ WriteBlob(r) \/ RecordEvent(r)
SyncStep(b) == SyncTimer(b) \/ LaterTimer(b) \/ SyncAnswer(b)

Service == \/ \E f \in File : HandleChange(f)
           \/ \E r \in Run : ProcessPendingChanges(r) \/ RunStep(r)
           \/ \E b \in Batch : SyncStep(b)
           \/ Interrupt \/ CloseWatcher \/ FlushAnswer

HistoryNext == Alive /\ ((\E f \in File : Edit(f)) \/ Service)
=============================================================================
