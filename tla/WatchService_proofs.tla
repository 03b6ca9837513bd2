-------------------------- MODULE WatchService_proofs --------------------------
(***************************************************************************)
(* What the watch service guarantees for any number of files and contents, *)
(* of overlapping runs, batches and polls, and for any size of a batch.    *)
(***************************************************************************)
EXTENDS WatchService, TLAPS

\* What a run is at: an idle one has nothing, one that is about to read has files
\* left, and one that has read holds a file that was there with its content.
RunShape ==
    \A r \in Run :
        /\ run[r].at = "idle" => run[r] = Idle
        /\ run[r].at = "read" => run[r].file = Absent /\ run[r].content = Absent
        /\ run[r].at \notin {"idle", "read"} => /\ run[r].file \in run[r].files
                                                /\ run[r].content \in Content

\* A blob that is recorded or about to be is whole.
Stored == trusted \/ /\ \A i \in Indexes : blobs[events[i].content] = "whole"
                     /\ \A r \in Run : run[r].at = "record" => blobs[run[r].content] = "whole"

\* Nothing has still to be noticed or taken up of what is in the file.
TakenUp(f) == f \notin unseen /\ pending[f] = "none" /\ disk[f] # Absent

\* i is the index of the last event of f.
LastOf(f, i) == i \in Recorded(f) /\ \A j \in Recorded(f) : j <= i

\* When the last look at a file was not given up and overlapped no other, the run
\* at work on it, or else the last event, has what the file contains, unless a
\* change of it is still to come.
TrackedFile(f) ==
    /\ pending[f] = "unlink" /\ disk[f] # Absent => f \in unseen
    /\ Recorded(f) # {} => \E i \in Indexes : LastOf(f, i)
    /\ f \notin spoilt =>
          /\ \A r, q \in Run : f \in run[r].files /\ f \in run[q].files => r = q
          /\ TakenUp(f) =>
                /\ \A r \in Run : run[r].file = f => run[r].content = disk[f]
                /\ (\A r \in Run : f \notin run[r].files)
                      => \A i \in Indexes : LastOf(f, i) => events[i].content = disk[f]

Tracked == \A f \in File : TrackedFile(f)

\* A poll that has completed had the wanted content during its execution; and
\* when one executes at a time, nobody executes a command reported as completed.
Polls == /\ \A p \in Poll : at[p] = "completed" => p \in held
         /\ ~twice => \A p, q \in Executing : p = q
         /\ command = "completed" /\ ~twice => Executing = {}

IInv == TypeOK /\ RunShape /\ Stored /\ Tracked /\ Polls /\ QueueIsAttended

-----------------------------------------------------------------------------
(* What a step does to a run *)

RunRecord == [files : SUBSET File, at : RunPoints, file : File \cup {Absent},
              content : Content \cup {Absent}]

LEMMA IdleRun == /\ Idle \in RunRecord /\ Idle.files = {} /\ Idle.at = "idle"
                 /\ Idle.file = Absent /\ Idle.content = Absent
BY DEF Idle, RunRecord, RunPoints

LEMMA ReadingRun ==
    ASSUME NEW S \in SUBSET File
    PROVE  LET u == [Idle EXCEPT !.files = S, !.at = "read"]
           IN  /\ u \in RunRecord /\ u.files = S /\ u.at = "read"
               /\ u.file = Absent /\ u.content = Absent
BY DEF Idle, RunRecord, RunPoints

\* The run gives up a file: it has the others, and has read none of them.
LEMMA NextFileRun ==
    ASSUME TypeOK, NEW r \in Run, NEW f, NextFile(r, f)
    PROVE  /\ run' \in [Run -> RunRecord]
           /\ \A q \in Run \ {r} : run'[q] = run[q]
           /\ run'[r].files = run[r].files \ {f}
           /\ run'[r].at \in {"idle", "read"}
           /\ run'[r].file = Absent /\ run'[r].content = Absent
           /\ run'[r].at = "idle" => run'[r] = Idle
<1>1. run \in [Run -> RunRecord]
  BY DEF TypeOK, RunRecord
<1> DEFINE rest == run[r].files \ {f}
           u == IF rest = {} THEN Idle ELSE [Idle EXCEPT !.files = rest, !.at = "read"]
<1>2. rest \in SUBSET File
  BY <1>1 DEF RunRecord
<1>3. /\ u \in RunRecord /\ u.files = rest /\ u.at \in {"idle", "read"}
      /\ u.file = Absent /\ u.content = Absent /\ (u.at = "idle" => u = Idle)
  <2>1. CASE rest = {}
    BY <2>1, IdleRun
  <2>2. CASE rest # {}
    <3> HIDE DEF rest
    <3> QED
      BY <1>2, <2>2, ReadingRun
  <2> QED
    BY <2>1, <2>2
<1>4. run' = [run EXCEPT ![r] = u]
  BY DEF NextFile
<1> HIDE DEF u
<1> QED
  BY <1>1, <1>3, <1>4

\* The run goes on with the file it has.
LEMMA ToRun ==
    ASSUME TypeOK, NEW r \in Run, NEW l \in RunPoints, To(r, l)
    PROVE  /\ run' \in [Run -> RunRecord]
           /\ \A q \in Run \ {r} : run'[q] = run[q]
           /\ run'[r].files = run[r].files /\ run'[r].at = l
           /\ run'[r].file = run[r].file /\ run'[r].content = run[r].content
BY DEF TypeOK, RunRecord, To

\* The polls after a step of the history.
LEMMA HistoryPolls ==
    ASSUME IInv, UNCHANGED <<at, command>>, Remember
    PROVE  Polls' /\ held' \subseteq Poll /\ twice' \in BOOLEAN
<1>1. Executing' = Executing
  BY DEF Executing
<1>2. twice' = (twice \/ \E p, q \in Executing' : p # q)
  BY DEF Remember
<1>3. held' = {p \in Executing' : p \in held \/ disk'[Target] = Wanted}
  BY DEF Remember
<1>4. held' \subseteq Poll /\ \A p \in Poll : at[p] = "completed" => p \in held'
  BY <1>1, <1>3 DEF IInv, Polls, Executing
<1>5. twice' \in BOOLEAN
  BY <1>2
<1>6. ~twice' => ~twice /\ \A p, q \in Executing' : p = q
  BY <1>2
<1> QED
  BY <1>1, <1>4, <1>5, <1>6 DEF IInv, Polls

-----------------------------------------------------------------------------
(* The steps of the history *)

\* What a step that changes neither runs, blobs nor the journal has to keep.
LEMMA SameRuns ==
    ASSUME IInv, UNCHANGED <<run, blobs, events, trusted>>
    PROVE  RunShape' /\ Stored'
BY DEF IInv, RunShape, Stored, Indexes

LEMMA EditInv ==
    ASSUME IInv, NEW f \in File, Edit(f), UNCHANGED <<at, command>>, Remember
    PROVE  IInv'
<1> USE WatchAssumption
<1>1. UNCHANGED <<run, blobs, events, trusted, phase, pending, debounce, queue, timer, later,
                  sending, failed, spoilt, unsaved>>
  BY DEF Edit
<1>2. TypeOK'
  BY HistoryPolls DEF Edit, IInv, TypeOK
<1>3. Tracked'
  <2>1. /\ \A g \in File \ {f} : disk'[g] = disk[g]
        /\ unseen' = unseen \cup {f}
    BY DEF Edit, IInv, TypeOK
  <2>2. \A g \in File : \A i : LastOf(g, i)' <=> LastOf(g, i)
    BY <1>1 DEF LastOf, Recorded, Indexes
  <2>3. \A g \in File : /\ TakenUp(g)' => TakenUp(g) /\ g # f
                        /\ Recorded(g)' = Recorded(g)
    BY <1>1, <2>1 DEF TakenUp, Recorded, Indexes
  <2> QED
    BY <1>1, <2>1, <2>2, <2>3 DEF IInv, Tracked, TrackedFile, Indexes
<1>4. QueueIsAttended'
  BY <1>1 DEF IInv, QueueIsAttended
<1> QED
  BY <1>1, <1>2, <1>3, <1>4, SameRuns, HistoryPolls DEF IInv

LEMMA HandleInv ==
    ASSUME IInv, NEW f \in File, HandleChange(f), UNCHANGED <<at, command>>, Remember
    PROVE  IInv'
<1> USE WatchAssumption
<1>1. UNCHANGED <<run, blobs, events, trusted>>
  BY DEF HandleChange
<1>2. TypeOK'
  BY HistoryPolls DEF HandleChange, IInv, TypeOK
<1>3. Tracked'
  BY DEF HandleChange, IInv, TypeOK, Tracked, TrackedFile, TakenUp, LastOf, Recorded, Indexes
<1>4. QueueIsAttended'
  BY DEF HandleChange, IInv, QueueIsAttended
<1> QED
  BY <1>1, <1>2, <1>3, <1>4, SameRuns, HistoryPolls DEF IInv

\* The debounce timer fires: a file that another run still has is spoilt, and one
\* that only the new run has is not.
LEMMA ProcessInv ==
    ASSUME IInv, NEW r \in Run, ProcessPendingChanges(r), UNCHANGED <<at, command>>, Remember
    PROVE  IInv'
<1> USE WatchAssumption
<1>1. /\ run \in [Run -> RunRecord] /\ run[r].files = {} /\ run[r].at = "idle"
      /\ UNCHANGED <<disk, unseen, edits, phase, blobs, events, queue, timer, later, sending,
                     failed, unsaved, trusted>>
      /\ pending' = [f \in File |-> "none"] /\ debounce' = FALSE
      /\ spoilt' = (spoilt \ Noticed) \cup {f \in Noticed : Claimed(f)}
  BY IdleRun DEF ProcessPendingChanges, IInv, TypeOK, RunShape, RunRecord
<1>2. /\ run' \in [Run -> RunRecord]
      /\ \A q \in Run \ {r} : run'[q] = run[q]
      /\ run'[r].files = Noticed
      /\ run'[r].at \in {"idle", "read"}
      /\ run'[r].file = Absent /\ run'[r].content = Absent
      /\ run'[r].at = "idle" => run'[r] = Idle
  <2> DEFINE u == IF Noticed = {} THEN Idle ELSE [Idle EXCEPT !.files = Noticed, !.at = "read"]
  <2>1. /\ u \in RunRecord /\ u.files = Noticed /\ u.at \in {"idle", "read"}
        /\ u.file = Absent /\ u.content = Absent /\ (u.at = "idle" => u = Idle)
    <3>1. Noticed \in SUBSET File
      BY DEF Noticed
    <3> QED
      BY <3>1, IdleRun, ReadingRun
  <2>2. run' = [run EXCEPT ![r] = u]
    BY DEF ProcessPendingChanges
  <2> HIDE DEF u
  <2> QED
    BY <1>1, <2>1, <2>2
<1>3. TypeOK'
  BY <1>1, <1>2, HistoryPolls DEF IInv, TypeOK, RunRecord, Noticed
<1>4. RunShape' /\ Stored' /\ QueueIsAttended'
  BY <1>1, <1>2 DEF IInv, RunShape, Stored, Indexes, QueueIsAttended
<1>5. Tracked'
  <2> SUFFICES ASSUME NEW f \in File
               PROVE  TrackedFile(f)'
    BY DEF Tracked
  <2>1. Recorded(f)' = Recorded(f) /\ \A i : LastOf(f, i)' <=> LastOf(f, i)
    BY <1>1 DEF LastOf, Recorded, Indexes
  <2>2. pending[f] \in {"none", "write", "unlink"}
    BY DEF IInv, TypeOK
  <2>3. CASE f \in Noticed
    <3>1. f \notin spoilt' => \A q \in Run : f \notin run[q].files
      BY <1>1, <2>3, IdleRun DEF Claimed, Busy, IInv, RunShape
    <3>2. f \in run'[r].files
      BY <1>2, <2>3
    <3>3. \A q \in Run \ {r} : f \notin spoilt' => f \notin run'[q].files /\ run'[q].file # f
      BY <1>2, <3>1, IdleRun DEF IInv, RunShape
    <3> QED
      BY <1>1, <1>2, <2>1, <3>2, <3>3 DEF IInv, Tracked, TrackedFile, Indexes
  <2>4. CASE f \notin Noticed
    <3>1. f \in spoilt' <=> f \in spoilt
      BY <1>1, <2>4
    <3>2. TakenUp(f)' => TakenUp(f)
      BY <1>1, <2>2, <2>4 DEF TakenUp, Noticed, IInv, Tracked, TrackedFile
    <3>3. \A q \in Run : f \in run'[q].files <=> f \in run[q].files
      BY <1>1, <1>2, <2>4
    <3>4. \A q \in Run : run'[q].file = f => run[q].file = f /\ run'[q].content = run[q].content
      BY <1>1, <1>2
    <3> QED
      BY <1>1, <2>1, <3>1, <3>2, <3>3, <3>4 DEF IInv, Tracked, TrackedFile, Indexes
  <2> QED
    BY <2>3, <2>4
<1> QED
  BY <1>3, <1>4, <1>5, HistoryPolls DEF IInv

\* A run reads a file, or gives it up: it has gone, or cannot be read.
LEMMA ReadInv ==
    ASSUME IInv, NEW r \in Run, ReadFile(r), UNCHANGED <<at, command>>, Remember
    PROVE  IInv'
<1> USE WatchAssumption
<1>1. /\ UNCHANGED <<disk, unseen, edits, phase, pending, debounce, blobs, events, queue, timer,
                     later, sending, failed, unsaved, trusted>>
      /\ run[r].at = "read" /\ run[r].file = Absent
  BY DEF ReadFile, IInv, RunShape
<1>2. PICK f \in run[r].files :
         \/ disk[f] = Absent /\ NextFile(r, f) /\ spoilt' = spoilt
         \/ /\ disk[f] # Absent
            /\ run' = [run EXCEPT ![r].at = "store", ![r].content = disk[f], ![r].file = f]
            /\ spoilt' = spoilt
         \/ NextFile(r, f) /\ spoilt' = spoilt \cup {f}
  BY DEF ReadFile, Skip
<1>3. f \in File /\ disk[f] \in Content \cup {Absent}
  BY DEF IInv, TypeOK
<1>4. \A g \in File : Recorded(g)' = Recorded(g) /\ \A i : LastOf(g, i)' <=> LastOf(g, i)
  BY <1>1 DEF LastOf, Recorded, Indexes
<1>5. CASE /\ NextFile(r, f)
           /\ \/ disk[f] = Absent /\ spoilt' = spoilt
              \/ spoilt' = spoilt \cup {f}
  <2>1. /\ run' \in [Run -> RunRecord]
        /\ \A q \in Run \ {r} : run'[q] = run[q]
        /\ run'[r].files = run[r].files \ {f}
        /\ run'[r].at \in {"idle", "read"}
        /\ run'[r].file = Absent /\ run'[r].content = Absent
        /\ run'[r].at = "idle" => run'[r] = Idle
    BY <1>5, NextFileRun DEF IInv
  <2>2. TypeOK'
    BY <1>1, <1>3, <1>5, <2>1, HistoryPolls DEF IInv, TypeOK, RunRecord
  <2>3. RunShape' /\ Stored' /\ QueueIsAttended'
    BY <1>1, <2>1 DEF IInv, RunShape, Stored, Indexes, QueueIsAttended
  <2>4. Tracked'
    BY <1>1, <1>4, <1>5, <2>1 DEF IInv, Tracked, TrackedFile, TakenUp, Indexes
  <2> QED
    BY <2>2, <2>3, <2>4, HistoryPolls DEF IInv
<1>6. CASE /\ disk[f] # Absent
           /\ run' = [run EXCEPT ![r].at = "store", ![r].content = disk[f], ![r].file = f]
           /\ spoilt' = spoilt
  <2>1. /\ run' \in [Run -> RunRecord]
        /\ \A q \in Run \ {r} : run'[q] = run[q]
        /\ run'[r].files = run[r].files /\ run'[r].at = "store"
        /\ run'[r].file = f /\ run'[r].content = disk[f] /\ disk[f] \in Content
    <3>1. /\ run' = [run EXCEPT ![r].at = "store", ![r].content = disk[f], ![r].file = f]
          /\ disk[f] \in Content
      BY <1>3, <1>6
    <3> DEFINE c == disk[f]
    <3>2. /\ run' = [run EXCEPT ![r].at = "store", ![r].content = c, ![r].file = f]
          /\ c \in Content
      BY <3>1
    <3> HIDE DEF c
    <3>3. /\ run' \in [Run -> RunRecord]
          /\ \A q \in Run \ {r} : run'[q] = run[q]
          /\ run'[r].files = run[r].files /\ run'[r].at = "store"
          /\ run'[r].file = f /\ run'[r].content = c
      BY <1>3, <3>2 DEF IInv, TypeOK, RunRecord, RunPoints
    <3> QED
      BY <3>2, <3>3 DEF c
  <2>2. TypeOK'
    BY <1>1, <1>6, <2>1, HistoryPolls DEF IInv, TypeOK, RunRecord
  <2>3. RunShape' /\ Stored' /\ QueueIsAttended'
    BY <1>1, <2>1 DEF IInv, RunShape, Stored, Indexes, QueueIsAttended
  <2>4. Tracked'
    BY <1>1, <1>4, <1>6, <2>1 DEF IInv, Tracked, TrackedFile, TakenUp, Indexes
  <2> QED
    BY <2>2, <2>3, <2>4, HistoryPolls DEF IInv
<1> QED
  BY <1>2, <1>5, <1>6

\* The blob of what a run has read: found, begun, written or failed.
LEMMA StoreInv ==
    ASSUME IInv, NEW r \in Run, FindBlob(r) \/ CreateBlob(r) \/ WriteBlob(r),
           UNCHANGED <<at, command>>, Remember
    PROVE  IInv'
<1> USE WatchAssumption
<1>1. /\ UNCHANGED <<disk, unseen, edits, phase, pending, debounce, events, queue, timer, later,
                     sending, failed, unsaved>>
      /\ run[r].at \in {"store", "create", "write"}
      /\ run[r].file \in run[r].files /\ run[r].content \in Content
      /\ run[r].file \in File
  BY DEF FindBlob, CreateBlob, WriteBlob, IInv, RunShape, TypeOK
<1>2. \A g \in File : Recorded(g)' = Recorded(g) /\ \A i : LastOf(g, i)' <=> LastOf(g, i)
  BY <1>1 DEF LastOf, Recorded, Indexes
<1>3. /\ blobs' \in [Content -> {"none", "part", "whole"}] /\ trusted' \in BOOLEAN
      /\ \A i \in Indexes : events[i].content \in Content
  <2>1. blobs' \in [Content -> {"none", "part", "whole"}]
    BY <1>1 DEF FindBlob, CreateBlob, WriteBlob, IInv, TypeOK
  <2>2. trusted' \in BOOLEAN
    BY DEF FindBlob, CreateBlob, WriteBlob, IInv, TypeOK
  <2>3. \A i \in Indexes : events[i].content \in Content
    <3>1. events \in Seq(Event) /\ \A i \in Indexes : events[i] \in Event
      BY DEF IInv, TypeOK, Indexes
    <3> QED
      BY <3>1 DEF Event
  <2> QED
    BY <2>1, <2>2, <2>3
<1>4. ASSUME NEW l \in {"create", "write", "record"}, To(r, l), UNCHANGED spoilt,
             trusted \/ trusted' \/ (\A c \in Content : blobs[c] = "whole" => blobs'[c] = "whole"),
             trusted => trusted',
             l = "record" /\ ~trusted' => blobs'[run[r].content] = "whole"
      PROVE  IInv'
  <2>1. /\ run' \in [Run -> RunRecord]
        /\ \A q \in Run \ {r} : run'[q] = run[q]
        /\ run'[r].files = run[r].files /\ run'[r].at = l
        /\ run'[r].file = run[r].file /\ run'[r].content = run[r].content
    BY <1>4, ToRun DEF IInv, RunPoints
  <2>2. TypeOK'
    BY <1>1, <1>3, <1>4, <2>1, HistoryPolls DEF IInv, TypeOK, RunRecord
  <2>3. RunShape' /\ QueueIsAttended'
    BY <1>1, <1>4, <2>1 DEF IInv, RunShape, QueueIsAttended
  <2>4. Stored'
    BY <1>1, <1>3, <1>4, <2>1 DEF IInv, RunShape, Stored, Indexes
  <2>5. Tracked'
    BY <1>1, <1>2, <1>4, <2>1 DEF IInv, Tracked, TrackedFile, TakenUp, Indexes
  <2> QED
    BY <2>2, <2>3, <2>4, <2>5, HistoryPolls DEF IInv
<1>5. CASE FindBlob(r)
  BY <1>1, <1>4, <1>5 DEF FindBlob, IInv, TypeOK
<1>6. CASE /\ run[r].at = "create" /\ To(r, "write") /\ UNCHANGED spoilt
           /\ blobs' = [blobs EXCEPT ![run[r].content] = "part"]
           /\ trusted' = (trusted \/ blobs[run[r].content] # "none")
  BY <1>1, <1>4, <1>6 DEF IInv, TypeOK
<1>7. CASE /\ blobs' = [blobs EXCEPT ![run[r].content] = "whole"] /\ To(r, "record")
           /\ UNCHANGED <<spoilt, trusted>>
  BY <1>1, <1>4, <1>7 DEF IInv, TypeOK
<1>8. CASE Skip(r, run[r].file) /\ UNCHANGED <<blobs, trusted>>
  <2>1. NextFile(r, run[r].file) /\ spoilt' = spoilt \cup {run[r].file} /\ UNCHANGED <<blobs, trusted>>
    BY <1>8 DEF Skip
  <2>2. /\ run' \in [Run -> RunRecord]
        /\ \A q \in Run \ {r} : run'[q] = run[q]
        /\ run'[r].files = run[r].files \ {run[r].file}
        /\ run'[r].at \in {"idle", "read"}
        /\ run'[r].file = Absent /\ run'[r].content = Absent
        /\ run'[r].at = "idle" => run'[r] = Idle
    BY <2>1, NextFileRun DEF IInv
  <2>3. TypeOK'
    BY <1>1, <2>1, <2>2, HistoryPolls DEF IInv, TypeOK, RunRecord
  <2>4. RunShape' /\ Stored' /\ QueueIsAttended'
    BY <1>1, <2>1, <2>2 DEF IInv, RunShape, Stored, Indexes, QueueIsAttended
  <2>5. Tracked'
    BY <1>1, <1>2, <2>1, <2>2 DEF IInv, Tracked, TrackedFile, TakenUp, Indexes
  <2> QED
    BY <2>3, <2>4, <2>5, HistoryPolls DEF IInv
<1> QED
  BY <1>5, <1>6, <1>7, <1>8 DEF CreateBlob, WriteBlob

\* The last event of a file after one more was recorded.
LEMMA AppendRecorded ==
    ASSUME TypeOK, NEW e \in Event, events' = Append(events, e)
    PROVE  /\ events' \in Seq(Event)
           /\ Indexes' = Indexes \cup {Len(events) + 1} /\ Len(events) + 1 \notin Indexes
           /\ \A i \in Indexes : events'[i] = events[i]
           /\ events'[Len(events) + 1] = e
           /\ \A g \in File \ {e.file} : \A i : LastOf(g, i)' <=> LastOf(g, i)
           /\ \A g \in File \ {e.file} : Recorded(g)' = Recorded(g)
           /\ \A i : LastOf(e.file, i)' <=> i = Len(events) + 1
<1> DEFINE n == Len(events)
<1>1. events \in Seq(Event) /\ e.file \in File /\ n \in Nat
  BY DEF TypeOK, Event
<1>3. /\ events' \in Seq(Event) /\ Len(events') = n + 1
      /\ \A i \in 1 .. n : events'[i] = events[i]
      /\ events'[n + 1] = e
  BY <1>1
<1>4. /\ Indexes' = Indexes \cup {n + 1} /\ n + 1 \notin Indexes
      /\ \A i \in Indexes : i \in Nat /\ i <= n
  BY <1>1, <1>3 DEF Indexes
<1> HIDE DEF n
<1>5. \A g \in File \ {e.file} : Recorded(g)' = Recorded(g)
  BY <1>3, <1>4 DEF Recorded, Indexes, n
<1>6. Recorded(e.file)' = Recorded(e.file) \cup {n + 1} /\ Recorded(e.file) \subseteq Indexes
  BY <1>3, <1>4 DEF Recorded, Indexes, n
<1>7. \A i : LastOf(e.file, i)' <=> i = n + 1
  BY <1>1, <1>4, <1>6 DEF LastOf, n
<1>8. \A g \in File \ {e.file} : \A i : LastOf(g, i)' <=> LastOf(g, i)
  BY <1>5 DEF LastOf
<1> QED
  BY <1>3, <1>4, <1>5, <1>7, <1>8 DEF n, Indexes

\* What was read is recorded, and queued unless the journal could not be written.
LEMMA RecordInv ==
    ASSUME IInv, NEW r \in Run, RecordEvent(r), UNCHANGED <<at, command>>, Remember
    PROVE  IInv'
<1> USE WatchAssumption
<1> DEFINE n == Len(events) + 1
<1>1. /\ UNCHANGED <<disk, unseen, edits, phase, pending, debounce, blobs, later, sending, failed,
                     spoilt, trusted>>
      /\ run[r].at = "record"
      /\ run[r].file \in run[r].files /\ run[r].file \in File /\ run[r].content \in Content
      /\ unsaved' \in BOOLEAN
      /\ queue' \in Nat /\ timer' \in BOOLEAN
      /\ timer' = TRUE \/ UNCHANGED <<queue, timer>>
  <2>1. /\ UNCHANGED <<disk, unseen, edits, phase, pending, debounce, blobs, later, sending, failed,
                       spoilt, trusted>>
        /\ run[r].at = "record"
        /\ unsaved' \in BOOLEAN
        /\ \/ queue' = queue + 1 /\ timer' = TRUE
           \/ UNCHANGED <<queue, timer>>
    BY DEF RecordEvent
  <2>2. run[r].file \in run[r].files /\ run[r].file \in File /\ run[r].content \in Content
    BY <2>1 DEF IInv, RunShape, TypeOK
  <2>3. CASE queue' = queue + 1 /\ timer' = TRUE
    <3>1. queue' \in Nat
      BY <2>3 DEF IInv, TypeOK
    <3> QED
      BY <2>1, <2>2, <2>3, <3>1
  <2>4. CASE UNCHANGED <<queue, timer>>
    BY <2>1, <2>2, <2>4 DEF IInv, TypeOK
  <2> QED
    BY <2>1, <2>3, <2>4
<1>2. PICK e \in Event : /\ e.file = run[r].file /\ e.content = run[r].content
                         /\ events' = Append(events, e)
  <2>1. [file |-> run[r].file, content |-> run[r].content] \in Event
    BY <1>1 DEF Event
  <2> QED
    BY <2>1 DEF RecordEvent
<1>3. /\ run' \in [Run -> RunRecord]
      /\ \A q \in Run \ {r} : run'[q] = run[q]
      /\ run'[r].files = run[r].files \ {e.file}
      /\ run'[r].at \in {"idle", "read"}
      /\ run'[r].file = Absent /\ run'[r].content = Absent
      /\ run'[r].at = "idle" => run'[r] = Idle
  BY <1>2, NextFileRun DEF RecordEvent, IInv
<1>4. /\ events' \in Seq(Event)
      /\ Indexes' = Indexes \cup {n}
      /\ \A i \in Indexes : events'[i] = events[i]
      /\ events'[n] = e
      /\ \A g \in File \ {e.file} : \A i : LastOf(g, i)' <=> LastOf(g, i)
      /\ \A g \in File \ {e.file} : Recorded(g)' = Recorded(g)
      /\ \A i : LastOf(e.file, i)' <=> i = n
  <2>1. TypeOK /\ events' = Append(events, e)
    BY <1>2 DEF IInv
  <2> QED
    BY <2>1, AppendRecorded
<1> HIDE DEF n
<1>5. TypeOK'
  BY <1>1, <1>3, <1>4, HistoryPolls DEF IInv, TypeOK, RunRecord
<1>6. RunShape' /\ QueueIsAttended'
  BY <1>1, <1>3 DEF IInv, RunShape, QueueIsAttended
<1>7. Stored'
  <2>1. CASE trusted
    BY <1>1, <2>1 DEF Stored
  <2>2. CASE ~trusted
    <3>1. /\ \A i \in Indexes : blobs[events[i].content] = "whole"
          /\ \A q \in Run : run[q].at = "record" => blobs[run[q].content] = "whole"
      BY <2>2 DEF IInv, Stored
    <3>2. blobs[e.content] = "whole"
      BY <1>1, <1>2, <3>1
    <3>3. \A i \in Indexes' : blobs'[events'[i].content] = "whole"
      BY <1>1, <1>4, <3>1, <3>2
    <3>4. \A q \in Run : run'[q].at = "record" => blobs'[run'[q].content] = "whole"
      BY <1>1, <1>3, <3>1
    <3> QED
      BY <3>3, <3>4 DEF Stored
  <2> QED
    BY <2>1, <2>2
<1>8. Tracked'
  <2> SUFFICES ASSUME NEW g \in File
               PROVE  TrackedFile(g)'
    BY DEF Tracked
  <2>1. TrackedFile(g)
    BY DEF IInv, Tracked
  <2>2. pending'[g] = "unlink" /\ disk'[g] # Absent => g \in unseen'
    BY <1>1, <2>1 DEF TrackedFile
  <2>3. TakenUp(g)' <=> TakenUp(g)
    BY <1>1 DEF TakenUp
  <2>4. g \notin spoilt' => \A q, s \in Run : g \in run'[q].files /\ g \in run'[s].files => q = s
    BY <1>1, <1>3, <2>1 DEF TrackedFile
  <2>5. g \notin spoilt' /\ TakenUp(g)' => \A q \in Run : run'[q].file = g => run'[q].content = disk'[g]
    BY <1>1, <1>3, <2>1, <2>3 DEF TrackedFile
  <2>6. CASE g = e.file
    <3>1. \E i \in Indexes' : LastOf(g, i)'
      <4>1. \A i : LastOf(g, i)' <=> i = n
        BY <1>4, <2>6
      <4> QED
        BY <1>4, <4>1
    <3>2. g \notin spoilt' /\ TakenUp(g)' => e.content = disk'[g]
      BY <1>1, <1>2, <2>1, <2>3, <2>6 DEF TrackedFile
    <3>3. \A i \in Indexes' : LastOf(g, i)' => events'[i] = e
      BY <1>4, <2>6
    <3> QED
      BY <2>2, <2>4, <2>5, <3>1, <3>2, <3>3 DEF TrackedFile
  <2>7. CASE g # e.file
    <3>1. Recorded(g)' = Recorded(g) /\ \A i : LastOf(g, i)' <=> LastOf(g, i)
      BY <1>4, <2>7
    <3>2. \A q \in Run : g \in run'[q].files <=> g \in run[q].files
      BY <1>3, <2>7
    <3>3. \A i : LastOf(g, i) => i \in Indexes
      BY DEF LastOf, Recorded
    <3>4. Recorded(g)' # {} => \E i \in Indexes' : LastOf(g, i)'
      BY <1>4, <2>1, <3>1 DEF TrackedFile
    <3>5. g \notin spoilt' /\ TakenUp(g)' /\ (\A q \in Run : g \notin run'[q].files)
            => \A i \in Indexes' : LastOf(g, i)' => events'[i].content = disk'[g]
      BY <1>1, <1>4, <2>1, <2>3, <3>1, <3>2, <3>3 DEF TrackedFile
    <3> QED
      BY <2>2, <2>4, <2>5, <3>4, <3>5 DEF TrackedFile
  <2> QED
    BY <2>6, <2>7
<1> QED
  BY <1>5, <1>6, <1>7, <1>8, HistoryPolls DEF IInv

\* What a step that changes neither files, runs nor the journal has to keep.
LEMMA SameFiles ==
    ASSUME IInv, UNCHANGED <<disk, unseen, pending, run, events, spoilt>>
    PROVE  Tracked'
<1>1. \A f \in File : Recorded(f)' = Recorded(f) /\ \A i : LastOf(f, i)' <=> LastOf(f, i)
  BY DEF LastOf, Recorded, Indexes
<1> QED
  BY <1>1 DEF IInv, Tracked, TrackedFile, TakenUp, Indexes

\* A batch is never larger than it may be, and is taken from what is queued.
LEMMA SpliceType ==
    ASSUME TypeOK, NEW b \in Batch \cup {Flush}, Splice(b)
    PROVE  /\ sending' \in [Batch \cup {Flush} -> 0 .. BatchSize] /\ queue' \in Nat
           /\ queue > 0 => sending'[b] > 0
<1> USE WatchAssumption
<1> DEFINE n == IF queue < BatchSize THEN queue ELSE BatchSize
<1>1. queue \in Nat /\ n \in 0 .. BatchSize /\ queue - n \in Nat /\ (queue > 0 => n > 0)
  BY DEF TypeOK
<1>2. sending' = [sending EXCEPT ![b] = n] /\ queue' = queue - n
  BY DEF Splice
<1> HIDE DEF n
<1> QED
  BY <1>1, <1>2 DEF TypeOK

\* The timers and the answers of the Syncer.
LEMMA SyncInv ==
    ASSUME IInv, NEW b \in Batch, SyncStep(b), UNCHANGED <<at, command>>, Remember
    PROVE  IInv'
<1> USE WatchAssumption
<1>1. /\ UNCHANGED <<disk, unseen, edits, phase, pending, debounce, run, blobs, events, spoilt,
                     unsaved, trusted>>
  BY DEF SyncStep, SyncTimer, LaterTimer, SyncAnswer
<1>2. ASSUME SyncBatch(b)
      PROVE  /\ sending' \in [Batch \cup {Flush} -> 0 .. BatchSize] /\ queue' \in Nat
             /\ queue' > 0 => sending'[b] > 0
  <2>1. CASE queue = 0
    BY <1>2, <2>1 DEF SyncBatch, IInv, TypeOK
  <2>2. CASE queue # 0
    BY <1>2, <2>2, SpliceType DEF SyncBatch, IInv, TypeOK
  <2> QED
    BY <2>1, <2>2
<1>3. /\ sending' \in [Batch \cup {Flush} -> 0 .. BatchSize] /\ queue' \in Nat
      /\ timer' \in BOOLEAN /\ later' \in Nat /\ failed' \in BOOLEAN
      /\ queue' > 0 => \/ failed' \/ later' > 0 \/ \E c \in Batch : sending'[c] > 0
  <2>1. CASE SyncTimer(b)
    <3>1. SyncBatch(b) /\ timer' = FALSE /\ UNCHANGED <<later, failed>>
      BY <2>1 DEF SyncTimer
    <3> QED
      BY <1>2, <3>1 DEF IInv, TypeOK
  <2>2. CASE LaterTimer(b)
    <3>1. SyncBatch(b) /\ later > 0 /\ later' = later - 1 /\ UNCHANGED <<timer, failed>>
      BY <2>2 DEF LaterTimer
    <3> QED
      BY <1>2, <3>1 DEF IInv, TypeOK
  <2>3. CASE SyncAnswer(b)
    <3>1. PICK answered \in BOOLEAN : Reschedule(answered) /\ Note(answered)
      BY <2>3 DEF SyncAnswer
    <3>2. sending' \in [Batch \cup {Flush} -> 0 .. BatchSize] /\ UNCHANGED <<queue, timer>>
      BY <2>3 DEF SyncAnswer, IInv, TypeOK
    <3>3. /\ later' \in Nat /\ failed' \in BOOLEAN
          /\ queue > 0 => failed' \/ later' > 0
      <4>1. later \in Nat /\ queue \in Nat /\ failed \in BOOLEAN
        BY DEF IInv, TypeOK
      <4>2. later' = (IF answered /\ queue > 0 THEN later + 1 ELSE later)
        BY <3>1 DEF Reschedule
      <4>3. failed' = (failed \/ ~answered)
        BY <3>1 DEF Note
      <4>4. CASE answered = TRUE
        BY <4>1, <4>2, <4>3, <4>4
      <4>5. CASE answered = FALSE
        BY <4>1, <4>2, <4>3, <4>5
      <4> QED
        BY <4>4, <4>5
    <3> QED
      BY <3>2, <3>3 DEF IInv, TypeOK
  <2> QED
    BY <2>1, <2>2, <2>3 DEF SyncStep
<1>4. TypeOK'
  BY <1>1, <1>3, HistoryPolls DEF IInv, TypeOK
<1>5. QueueIsAttended'
  BY <1>3 DEF QueueIsAttended
<1> QED
  BY <1>1, <1>4, <1>5, SameRuns, SameFiles, HistoryPolls DEF IInv

\* The steps of the shutdown: what is queued is flushed, or nothing is queued.
LEMMA ShutdownInv ==
    ASSUME IInv, Interrupt \/ CloseWatcher \/ FlushAnswer, UNCHANGED <<at, command>>, Remember
    PROVE  IInv'
<1> USE WatchAssumption
<1>1. /\ UNCHANGED <<disk, unseen, edits, pending, run, blobs, events, spoilt, unsaved, trusted>>
  BY DEF Interrupt, CloseWatcher, FlushAnswer
<1>2. ASSUME FlushOn
      PROVE  /\ sending' \in [Batch \cup {Flush} -> 0 .. BatchSize] /\ queue' \in Nat
             /\ phase' \in {"exited", "flushing"} /\ (queue' > 0 => phase' = "flushing")
  <2>1. CASE queue = 0
    BY <1>2, <2>1 DEF FlushOn, IInv, TypeOK
  <2>2. CASE queue # 0
    BY <1>2, <2>2, SpliceType DEF FlushOn, IInv
  <2> QED
    BY <2>1, <2>2
<1>3. /\ sending' \in [Batch \cup {Flush} -> 0 .. BatchSize] /\ queue' \in Nat
      /\ timer' \in BOOLEAN /\ later' \in Nat /\ failed' \in BOOLEAN /\ debounce' \in BOOLEAN
      /\ phase' \in {"closing", "flushing", "exited"}
      /\ queue' > 0 => phase' \in {"closing", "flushing"}
  <2>1. CASE Interrupt
    BY <2>1 DEF Interrupt, IInv, TypeOK
  <2>2. CASE CloseWatcher
    BY <1>2, <2>2 DEF CloseWatcher, IInv, TypeOK
  <2>3. CASE FlushAnswer
    <3>1. PICK answered \in BOOLEAN : Reschedule(answered) /\ Note(answered)
      BY <2>3 DEF FlushAnswer
    <3> QED
      BY <1>2, <2>3, <3>1 DEF FlushAnswer, Reschedule, Note, IInv, TypeOK
  <2> QED
    BY <2>1, <2>2, <2>3
<1>4. TypeOK'
  BY <1>1, <1>3, HistoryPolls DEF IInv, TypeOK
<1>5. QueueIsAttended'
  BY <1>3 DEF QueueIsAttended
<1> QED
  BY <1>1, <1>4, <1>5, SameRuns, SameFiles, HistoryPolls DEF IInv

-----------------------------------------------------------------------------
(* The steps of the polls *)

\* The polls after one of them went on: nobody begins once the command is known
\* to be completed, and it becomes known only from a poll that ends.
LEMMA GoPolls ==
    ASSUME IInv, NEW p \in Poll, NEW l \in PollPoints, Go(p, l), Remember,
           l = "completed" => p \in held \/ disk'[Target] = Wanted,
           command = "completed" => at[p] # "idle",
           command' = "completed" => command = "completed" \/ (l = "idle" /\ at[p] # "idle")
    PROVE  /\ Polls' /\ at' \in [Poll -> PollPoints] /\ held' \subseteq Poll /\ twice' \in BOOLEAN
<1>1. /\ at' \in [Poll -> PollPoints] /\ at'[p] = l
      /\ \A q \in Poll \ {p} : at'[q] = at[q]
  BY DEF Go, IInv, TypeOK
<1>2. Executing' = {q \in Poll : at'[q] # "idle"}
  BY DEF Executing
<1>3. twice' = (twice \/ \E q, s \in Executing' : q # s)
  BY DEF Remember
<1>4. held' = {q \in Executing' : q \in held \/ disk'[Target] = Wanted}
  BY DEF Remember
<1>5. \A q \in Poll : at'[q] = "completed" => q \in held'
  BY <1>1, <1>2, <1>4 DEF IInv, Polls
<1>6. ~twice' => ~twice /\ \A q, s \in Executing' : q = s
  BY <1>3
<1>7. command' = "completed" /\ ~twice' => Executing' = {}
  BY <1>1, <1>2, <1>6 DEF IInv, Polls, Executing
<1>8. held' \subseteq Poll /\ twice' \in BOOLEAN
  BY <1>2, <1>3, <1>4
<1> QED
  BY <1>1, <1>5, <1>6, <1>7, <1>8 DEF Polls

\* What the polls do to the files, the blobs and the command, one step of them.
LEMMA PollInv ==
    ASSUME IInv, OrderRevert \/ \E p \in Poll : PollCommand(p) \/ PollStep(p), Remember
    PROVE  IInv'
<1> USE WatchAssumption, CommandAssumption
<1>1. UNCHANGED <<edits, phase, pending, debounce, run, events, queue, timer, later, sending,
                  failed, spoilt, unsaved>>
  BY DEF OrderRevert, PollCommand, PollStep, FindWanted, FetchBlob, FillBlob, CompareFile,
         RestoreFile, ReportStatus, watchVars
<1>2. /\ Polls' /\ at' \in [Poll -> PollPoints] /\ held' \subseteq Poll /\ twice' \in BOOLEAN
      /\ command' \in {"none", "pending", "completed", "failed"}
  <2>1. CASE OrderRevert
    <3>1. UNCHANGED <<watchVars, at>> /\ command' = "pending"
      BY <2>1 DEF OrderRevert
    <3>2. Executing' = Executing
      BY <3>1 DEF Executing
    <3>3. /\ twice' = (twice \/ \E p, q \in Executing' : p # q)
          /\ held' = {p \in Executing' : p \in held \/ disk'[Target] = Wanted}
      BY DEF Remember
    <3> QED
      BY <3>1, <3>2, <3>3 DEF IInv, TypeOK, Polls, Executing
  <2>2. ASSUME NEW p \in Poll, PollCommand(p) \/ PollStep(p)
        PROVE  /\ Polls' /\ at' \in [Poll -> PollPoints] /\ held' \subseteq Poll /\ twice' \in BOOLEAN
               /\ command' \in {"none", "pending", "completed", "failed"}
    <3>1. command' \in {"none", "pending", "completed", "failed"}
      BY <2>2 DEF PollCommand, PollStep, FindWanted, FetchBlob, FillBlob, CompareFile,
                  RestoreFile, ReportStatus, IInv, TypeOK
    <3>2. PICK l \in PollPoints :
             /\ Go(p, l)
             /\ l = "completed" => p \in held \/ disk'[Target] = Wanted
             /\ command = "completed" => at[p] # "idle"
             /\ command' = "completed" => command = "completed" \/ (l = "idle" /\ at[p] # "idle")
      <4>1. CASE PollCommand(p)
        BY <4>1 DEF PollCommand, PollPoints
      <4>2. CASE FindWanted(p)
        BY <4>2 DEF FindWanted, PollPoints
      <4>3. CASE FetchBlob(p)
        BY <4>3 DEF FetchBlob, PollPoints
      <4>4. CASE FillBlob(p)
        BY <4>4 DEF FillBlob, PollPoints
      <4>5. CASE CompareFile(p)
        BY <4>5 DEF CompareFile, PollPoints, watchVars
      <4>6. CASE RestoreFile(p)
        BY <4>6 DEF RestoreFile, PollPoints, IInv, TypeOK
      <4>7. CASE ReportStatus(p)
        BY <4>7 DEF ReportStatus, PollPoints
      <4> QED
        BY <2>2, <4>1, <4>2, <4>3, <4>4, <4>5, <4>6, <4>7 DEF PollStep
    <3> QED
      BY <3>1, <3>2, GoPolls
  <2> QED
    BY <2>1, <2>2
<1>3. CASE UNCHANGED <<disk, unseen, blobs, trusted>>
  <2>1. TypeOK'
    BY <1>1, <1>2, <1>3 DEF IInv, TypeOK
  <2>2. QueueIsAttended'
    BY <1>1 DEF IInv, QueueIsAttended
  <2> QED
    BY <1>1, <1>2, <1>3, <2>1, <2>2, SameRuns, SameFiles DEF IInv
<1>4. CASE /\ UNCHANGED <<disk, unseen>>
           /\ \/ /\ blobs' = [blobs EXCEPT ![Wanted] = "part"]
                 /\ trusted' = (trusted \/ blobs[Wanted] # "none")
              \/ blobs' = [blobs EXCEPT ![Wanted] = "whole"] /\ UNCHANGED trusted
  <2>1. /\ blobs' \in [Content -> {"none", "part", "whole"}] /\ trusted' \in BOOLEAN
        /\ ~trusted' => ~trusted
        /\ ~trusted' => \A c \in Content : blobs[c] = "whole" => blobs'[c] = "whole"
    BY <1>4 DEF IInv, TypeOK
  <2>2. TypeOK'
    BY <1>1, <1>2, <1>4, <2>1 DEF IInv, TypeOK
  <2>3. \A i \in Indexes : events[i].content \in Content
    <3>1. events \in Seq(Event) /\ \A i \in Indexes : events[i] \in Event
      BY DEF IInv, TypeOK, Indexes
    <3> QED
      BY <3>1 DEF Event
  <2>4. RunShape' /\ QueueIsAttended'
    BY <1>1 DEF IInv, RunShape, QueueIsAttended
  <2>5. Stored'
    BY <1>1, <2>1, <2>3 DEF IInv, Stored, RunShape, Indexes
  <2> QED
    BY <1>1, <1>2, <1>4, <2>2, <2>4, <2>5, SameFiles DEF IInv
<1>5. CASE /\ disk' = [disk EXCEPT ![Target] = Wanted] /\ unseen' = unseen \cup {Target}
           /\ UNCHANGED <<blobs, trusted>>
  <2>1. TypeOK'
    BY <1>1, <1>2, <1>5 DEF IInv, TypeOK
  <2>2. QueueIsAttended'
    BY <1>1 DEF IInv, QueueIsAttended
  <2>3. Tracked'
    <3>1. \A g \in File : /\ g # Target => disk'[g] = disk[g]
                          /\ TakenUp(g)' => TakenUp(g) /\ g # Target
                          /\ Recorded(g)' = Recorded(g)
      BY <1>1, <1>5 DEF TakenUp, Recorded, Indexes, IInv, TypeOK
    <3>2. \A g \in File : \A i : LastOf(g, i)' <=> LastOf(g, i)
      BY <1>1 DEF LastOf, Recorded, Indexes
    <3> QED
      BY <1>1, <1>5, <3>1, <3>2 DEF IInv, Tracked, TrackedFile, Indexes
  <2> QED
    BY <1>1, <1>2, <1>5, <2>1, <2>2, <2>3, SameRuns DEF IInv
<1> QED
  BY <1>3, <1>4, <1>5 DEF OrderRevert, PollCommand, PollStep, FindWanted, FetchBlob, FillBlob,
                          CompareFile, RestoreFile, ReportStatus, watchVars

-----------------------------------------------------------------------------
(* The invariant, and what follows from it *)

LEMMA InitInv == ServiceInit => IInv
<1> USE WatchAssumption, CommandAssumption
<1> SUFFICES ASSUME ServiceInit PROVE IInv
  OBVIOUS
<1>1. \A r \in Run : run[r] = Idle
  BY DEF ServiceInit, Init
<1>2. TypeOK
  <2>1. run \in [Run -> RunRecord]
    BY <1>1, IdleRun DEF ServiceInit, Init
  <2>2. events \in Seq(Event)
    BY DEF ServiceInit, Init
  <2>3. at \in [Poll -> PollPoints] /\ 0 \in 0 .. BatchSize /\ 0 \in 0 .. MaxEdits
    BY DEF ServiceInit, PollPoints
  <2> QED
    BY <2>1, <2>2, <2>3 DEF ServiceInit, Init, TypeOK, RunRecord
<1>3. RunShape /\ Stored /\ QueueIsAttended
  BY <1>1, IdleRun DEF RunShape, Stored, QueueIsAttended, ServiceInit, Init, Indexes
<1>4. Tracked
  <2>1. \A f \in File : Recorded(f) = {} /\ pending[f] = "none" /\ spoilt = {}
    <3>1. Indexes = {}
      BY DEF Indexes, ServiceInit, Init
    <3> QED
      BY <3>1 DEF Recorded, ServiceInit, Init
  <2>2. \A f \in File, i \in Indexes : ~ LastOf(f, i)
    BY <2>1 DEF LastOf
  <2> QED
    BY <1>1, <2>1, <2>2, IdleRun DEF Tracked, TrackedFile
<1>5. Polls
  BY DEF Polls, Executing, ServiceInit
<1> QED
  BY <1>2, <1>3, <1>4, <1>5 DEF IInv

LEMMA NextInv == IInv /\ [Next]_vars => IInv'
<1> SUFFICES ASSUME IInv, [Next]_vars PROVE IInv'
  OBVIOUS
<1>1. CASE Next
  <2>1. CASE HistoryNext /\ UNCHANGED <<at, command>>
    <3>1. Remember
      BY <1>1 DEF Next
    <3> QED
      BY <2>1, <3>1, EditInv, HandleInv, ProcessInv, ReadInv, StoreInv, RecordInv, SyncInv,
         ShutdownInv DEF HistoryNext, Service, RunStep
  <2>2. CASE OrderRevert \/ \E p \in Poll : PollCommand(p) \/ PollStep(p)
    BY <1>1, <2>2, PollInv DEF Next
  <2> QED
    BY <1>1, <2>1, <2>2 DEF Next
<1>2. CASE UNCHANGED vars
  <2>1. \A f \in File : Recorded(f)' = Recorded(f) /\ \A i : LastOf(f, i)' <=> LastOf(f, i)
    BY <1>2 DEF LastOf, Recorded, Indexes, vars, watchVars
  <2> QED
    BY <1>2, <2>1, SameRuns, SameFiles DEF vars, watchVars, pollVars, IInv, TypeOK, Polls, Executing,
                                  QueueIsAttended
<1> QED
  BY <1>1, <1>2

LEMMA Invariance == Spec => []IInv
BY InitInv, NextInv, PTL DEF Spec

\* Runs, batches, polls and their histories keep their types, and no batch is
\* larger than the Syncer may send.
THEOREM TypeCorrect == Spec => []TypeOK
<1>1. IInv => TypeOK
  BY DEF IInv
<1> QED
  BY <1>1, Invariance, PTL

\* The blob of every event that the journal records is whole, unless one was
\* taken for stored, or overwritten, by another than the run that wrote it.
THEOREM RecordedStored == Spec => []RecordedIsStored
<1>1. IInv => RecordedIsStored
  BY DEF IInv, Stored, RecordedIsStored
<1> QED
  BY <1>1, Invariance, PTL

\* The last event of a file that is settled records what the file contains, when the
\* journal could be written and the last look at the file was neither given up nor
\* overlapped by another.
THEOREM LatestRecorded == Spec => []LatestIsRecorded
<1>1. IInv => LatestIsRecorded
  <2> SUFFICES ASSUME IInv, NEW f \in File, Settled(f), disk[f] # Absent, Recorded(f) # {},
                      f \notin spoilt
               PROVE  events[CHOOSE i \in Recorded(f) : \A j \in Recorded(f) : j <= i].content
                        = disk[f]
    BY DEF LatestIsRecorded
  <2> DEFINE last == CHOOSE i \in Recorded(f) : \A j \in Recorded(f) : j <= i
  <2>1. TrackedFile(f) /\ TakenUp(f) /\ \A r \in Run : f \notin run[r].files
    BY DEF IInv, Tracked, Settled, TakenUp
  <2>2. \E i \in Recorded(f) : \A j \in Recorded(f) : j <= i
    BY <2>1 DEF TrackedFile, LastOf
  <2>3. last \in Recorded(f) /\ \A j \in Recorded(f) : j <= last
    BY <2>2
  <2> HIDE DEF last
  <2>4. last \in Indexes /\ LastOf(f, last)
    BY <2>3 DEF LastOf, Recorded
  <2>5. events[last].content = disk[f]
    BY <2>1, <2>4 DEF TrackedFile
  <2> QED
    BY <2>5 DEF last
<1> QED
  BY <1>1, Invariance, PTL

\* What is queued is waited for, unless a request has failed.
THEOREM QueueAttended == Spec => []QueueIsAttended
<1>1. IInv => QueueIsAttended
  BY DEF IInv
<1> QED
  BY <1>1, Invariance, PTL

\* A completion is reported only by a poll during which the file had the wanted
\* content, and after it nobody reverts the file again.
THEOREM CompletionIsTrue == Spec => CompletionHolds
<1> DEFINE True == /\ command # "completed" /\ command' = "completed"
                        => \E p \in held : at[p] = "completed"
                   /\ command = "completed"
                        => \/ twice
                           \/ \A p \in Poll : at[p] = "restore" => at'[p] # "completed"
<1>1. IInv /\ [Next]_vars => [True]_vars
  <2> SUFFICES ASSUME IInv, Next PROVE True
    OBVIOUS
  <2>1. command # "completed" /\ command' = "completed" => \E p \in held : at[p] = "completed"
    BY DEF Next, OrderRevert, PollCommand, PollStep, FindWanted, FetchBlob, FillBlob, CompareFile,
           RestoreFile, ReportStatus, IInv, TypeOK, Polls
  <2>2. command = "completed" /\ ~twice => \A p \in Poll : at[p] # "restore"
    BY DEF IInv, Polls, Executing
  <2> QED
    BY <2>1, <2>2
<1> QED
  BY <1>1, Invariance, PTL DEF Spec, CompletionHolds
=============================================================================
