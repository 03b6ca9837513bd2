----------------------------- MODULE WatchService -----------------------------
(***************************************************************************)
(* The watch service with its CommandPoller                                *)
(* (services/watch/CommandPoller.js), which polls the cloud every three    *)
(* seconds and reverts a file to an earlier content when it is told to.  A *)
(* poll does not wait for the one before it: a command that is still being *)
(* executed is handed out again, because the cloud has it as pending until *)
(* its status is reported.  What a revert writes is a change like any      *)
(* other to the Sentinel, and the blobs it reads and fetches are those of  *)
(* the history.                                                            *)
(*                                                                         *)
(* The cloud gives one command, of a known type and with a payload.        *)
(***************************************************************************)
EXTENDS WatchHistory

CONSTANTS
    Poll,   \* the polls under way at once
    Target, \* the file the command reverts
    Wanted  \* the content it reverts it to

ASSUME CommandAssumption == Target \in File /\ Wanted \in Content

VARIABLES
    at,      \* the point each poll has reached
    command, \* what the cloud knows of the command
    held,    \* history: the polls during which the file had the wanted content
    twice    \* history: two polls executed the command at once

pollVars == <<at, command, held, twice>>
vars == <<watchVars, pollVars>>

PollPoints == {"idle", "exists", "fetch", "fill", "compare", "restore", "completed", "failed"}
Executing == {p \in Poll : at[p] # "idle"}

ServiceInit == /\ Init
               /\ at = [p \in Poll |-> "idle"]
               /\ command = "none"
               /\ held = {}
               /\ twice = FALSE

Go(p, l) == at' = [at EXCEPT ![p] = l]

-----------------------------------------------------------------------------

\* Somebody orders the revert on the dashboard.
OrderRevert ==
    /\ command = "none"
    /\ command' = "pending"
    /\ UNCHANGED <<watchVars, at>>

\* The cloud hands the command out.  That it has none, cannot be reached or
\* refuses the API key, after which the poller stops, is that no poll comes.
PollCommand(p) ==
    /\ phase = "running"
    /\ at[p] = "idle"
    /\ command = "pending"
    /\ Go(p, "exists")
    /\ UNCHANGED <<watchVars, command>>

FindWanted(p) ==
    /\ at[p] = "exists"
    /\ Go(p, IF blobs[Wanted] = "none" THEN "fetch" ELSE "compare")
    /\ UNCHANGED <<watchVars, command>>

\* The blob is fetched, and written whatever there is by now.
FetchBlob(p) ==
    /\ at[p] = "fetch"
    /\ \/ /\ blobs' = [blobs EXCEPT ![Wanted] = "part"]
          /\ trusted' = (trusted \/ blobs[Wanted] # "none")
          /\ Go(p, "fill")
       \/ Go(p, "failed") /\ UNCHANGED <<blobs, trusted>>
    /\ UNCHANGED <<disk, unseen, edits, phase, pending, debounce, run, events, queue, timer, later,
                   sending, failed, spoilt, unsaved, command>>

FillBlob(p) ==
    /\ at[p] = "fill"
    /\ \/ blobs' = [blobs EXCEPT ![Wanted] = "whole"] /\ Go(p, "compare")
       \/ Go(p, "failed") /\ UNCHANGED blobs
    /\ UNCHANGED <<disk, unseen, edits, phase, pending, debounce, run, events, queue, timer, later,
                   sending, failed, spoilt, unsaved, trusted, command>>

\* Mutant of CompareFile: the completion is reported before the work is done.
ReportThenRestore(p) ==
    /\ at[p] = "compare"
    /\ command' = "completed"
    /\ Go(p, IF disk[Target] = Wanted THEN "completed" ELSE "restore")
    /\ UNCHANGED <<watchVars>>

\* Nothing is to be done when the file has the wanted content.
CompareFile(p) ==
    /\ at[p] = "compare"
    /\ Go(p, IF disk[Target] = Wanted THEN "completed" ELSE "restore")
    /\ UNCHANGED <<watchVars, command>>

\* restoreFile replaces what the file contains by now, unless the blob cannot be
\* decompressed or the file not be written.
RestoreFile(p) ==
    /\ at[p] = "restore"
    /\ \/ /\ blobs[Wanted] = "whole"
          /\ disk' = [disk EXCEPT ![Target] = Wanted]
          /\ unseen' = unseen \cup {Target}
          /\ Go(p, "completed")
       \/ Go(p, "failed") /\ UNCHANGED <<disk, unseen>>
    /\ UNCHANGED <<edits, phase, pending, debounce, run, blobs, events, queue, timer, later,
                   sending, failed, spoilt, unsaved, trusted, command>>

\* updateCommandStatus: the report arrives or is lost; it is not tried again.
ReportStatus(p) ==
    /\ at[p] \in {"completed", "failed"}
    /\ command' \in {command, at[p]}
    /\ Go(p, "idle")
    /\ UNCHANGED <<watchVars>>

-----------------------------------------------------------------------------

PollStep(p) == \/ FindWanted(p) \/ FetchBlob(p) \/ FillBlob(p) \/ CompareFile(p)
               \/ RestoreFile(p) \/ ReportStatus(p)

Remember == /\ twice' = (twice \/ \E p, q \in Executing' : p # q)
            /\ held' = {p \in Executing' : p \in held \/ disk'[Target] = Wanted}

\* The interrupt stops the interval; the polls under way go on until the exit.
Next == /\ \/ HistoryNext /\ UNCHANGED <<at, command>>
           \/ Alive /\ (OrderRevert \/ \E p \in Poll : PollCommand(p) \/ PollStep(p))
        /\ Remember

Spec == ServiceInit /\ [][Next]_vars

-----------------------------------------------------------------------------
(***************************************************************************)
(* Properties                                                              *)
(***************************************************************************)

Indexes == 1 .. Len(events)
Event == [file : File, content : Content]

TypeOK == /\ disk \in [File -> Content \cup {Absent}]
          /\ unseen \subseteq File
          /\ edits \in 0 .. MaxEdits
          /\ phase \in {"running", "closing", "flushing", "exited"}
          /\ pending \in [File -> {"none", "write", "unlink"}]
          /\ debounce \in BOOLEAN
          /\ run \in [Run -> [files : SUBSET File, at : RunPoints, file : File \cup {Absent},
                              content : Content \cup {Absent}]]
          /\ blobs \in [Content -> {"none", "part", "whole"}]
          /\ events \in Seq(Event)
          /\ queue \in Nat
          /\ timer \in BOOLEAN
          /\ later \in Nat
          /\ sending \in [Batch \cup {Flush} -> 0 .. BatchSize]
          /\ failed \in BOOLEAN
          /\ spoilt \subseteq File
          /\ unsaved \in BOOLEAN
          /\ trusted \in BOOLEAN
          /\ at \in [Poll -> PollPoints]
          /\ command \in {"none", "pending", "completed", "failed"}
          /\ held \subseteq Poll
          /\ twice \in BOOLEAN

\* What the journal records can be restored: the blob of every event is whole,
\* also after a death, unless one found half a blob of another (or of an
\* earlier write that failed) and took it for stored, or two wrote it at once.
RecordedIsStored == trusted \/ \A i \in Indexes : blobs[events[i].content] = "whole"

\* Nothing the watcher has seen or has still to look at, for the file.
Settled(f) == /\ f \notin unseen
              /\ pending[f] = "none"
              /\ \A r \in Run : f \notin run[r].files
Recorded(f) == {i \in Indexes : events[i].file = f}

\* Once everything has been looked at, and when the journal could be written, the
\* last event of a file records what it contains, whoever changed it and however
\* often while the service was at work on an earlier change, unless the last look
\* at that very file was given up, because it could not be read or its blob not be
\* written, or overlapped another.
LatestIsRecorded ==
    phase = "running" /\ ~unsaved
        => \A f \in File : Settled(f) /\ disk[f] # Absent /\ Recorded(f) # {}
             => \/ f \in spoilt
                \/ events[CHOOSE i \in Recorded(f) : \A j \in Recorded(f) : j <= i].content
                     = disk[f]

\* The cloud learns of a completion only from a poll during which the file had
\* the wanted content; and once it has, the file is not reverted again, whatever
\* the user has since made of it, unless two polls executed the command at once.
CompletionHolds ==
    [][/\ command # "completed" /\ command' = "completed" => \E p \in held : at[p] = "completed"
       /\ command = "completed" => \/ twice
                                   \/ \A p \in Poll : at[p] = "restore" => at'[p] # "completed"]_vars

\* Events never wait in the queue with nothing left that would send them, a
\* timer, the answer to an earlier batch or the flush of the shutdown, unless a
\* request failed: its batch is lost, and after it nothing is rescheduled.
QueueIsAttended == queue > 0 => \/ failed \/ timer \/ later > 0 \/ phase \in {"closing", "flushing"}
                                \/ \E b \in Batch : sending[b] > 0
=============================================================================
