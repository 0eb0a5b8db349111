----------------------------- MODULE FileLogger -----------------------------
(* The file logger of snolc (crates/snolc/src/logging.rs): the engine writes  *)
(* records into a bounded queue, one worker thread per logger appends them to *)
(* the log file and compacts the file when it reaches its limit.  Loggers of  *)
(* one process (one per engine worker) may share the file.  The file system   *)
(* is part of the state: the log path and the temporary path name inodes, an  *)
(* open file keeps its inode when the path is replaced.  A step of a worker   *)
(* is one system call, or a run of calls no other thread can tell apart; a    *)
(* byte is <<record, i, size>>, and the byte with i = size is the newline.    *)
EXTENDS Integers, Sequences, FiniteSets, SequencesExt

CONSTANTS
    Logger,         \* the loggers of the process
    Limit,          \* limit_bytes
    RecordLimit,    \* max_record_bytes
    Capacity,       \* queue_bytes / max_record_bytes
    Lengths,        \* lengths of the records that are written, newline included
    Pid,            \* process identifiers the process can be started with
    MaxRecords,     \* bound: records written
    MaxCrashes      \* bound: crashes

\* FileLogger::start refuses anything else.
ASSUME StartAssumption ==
    /\ Limit \in Nat \ {0} /\ RecordLimit \in Nat \ {0} /\ Capacity \in Nat \ {0}
    /\ RecordLimit <= Limit
    /\ Lengths \subseteq Nat \ {0}

VARIABLES
    queue,      \* queue[l]: the ArrayQueue of records
    lost,       \* lost[l]: lost_records()
    stopping,   \* stopping[l]: the flag that Drop sets
    producer,   \* producer[l]: where write() is, and the record in its hand
    worker,     \* worker[l]: where run_worker is, its record and open files
    disk,       \* the inodes, the log path and the temporary paths
    pid,        \* std::process::id()
    written,    \* history: records given to write(), with their sizes
    stored,     \* history: records whose append or compaction returned Ok
    failed,     \* history: records reported to error_sink
    gone,       \* history: records of earlier processes that left memory unwritten
    torn,       \* history: a failed append or compaction left its bytes in the log
    unmeasured, \* history: a record was let through by a failing metadata() since
                \* the last compaction
    crashes

vars == <<queue, lost, stopping, producer, worker, disk, pid, written, stored,
          failed, gone, torn, unmeasured, crashes>>
history == <<written, stored, failed, gone, torn, unmeasured>>

None == [id |-> 0, size |-> 0]
Least(a, b) == IF a < b THEN a ELSE b
Most(a, b) == IF a > b THEN a ELSE b
Bytes(r) == [i \in 1..r.size |-> <<r.id, i, r.size>>]
Newline(b) == b[2] = b[3]

IdleProducer == [at |-> "idle", record |-> None]
IdleWorker == [at |-> "take", record |-> None, file |-> 0, start |-> 0]

\* prepare_path leaves an existing log file (inode 1); no temporary file.
Init ==
    /\ queue = [l \in Logger |-> <<>>]
    /\ lost = [l \in Logger |-> 0]
    /\ stopping = [l \in Logger |-> FALSE]
    /\ producer = [l \in Logger |-> IdleProducer]
    /\ worker = [l \in Logger |-> IdleWorker]
    /\ disk = [path |-> 1, temporary |-> [p \in Pid |-> 0], data |-> << <<>> >>]
    /\ pid \in Pid
    /\ written = <<>> /\ stored = <<>> /\ failed = {} /\ gone = {} /\ torn = FALSE
    /\ unmeasured = FALSE
    /\ crashes = 0
-----------------------------------------------------------------------------
(* The engine's side.                                                        *)

\* The length of what truncate_record returns: the record, or a truncated form
\* of exactly the limit.
truncate_record(size) == Least(size, RecordLimit)

\* FileLogger::write begins: the record is truncated.
Write(l, size) ==
    /\ producer[l].at = "idle" /\ ~stopping[l]
    /\ Len(written) < MaxRecords
    /\ LET r == [id |-> Len(written) + 1, size |-> truncate_record(size)] IN
         /\ producer' = [producer EXCEPT ![l] = [at |-> "push", record |-> r]]
         /\ written' = Append(written, r)
    /\ UNCHANGED <<queue, lost, stopping, worker, disk, pid, stored, failed, gone, torn,
                   unmeasured, crashes>>

\* enqueue: push succeeds, or finds the queue full.
Push(l) ==
    /\ producer[l].at = "push"
    /\ IF Len(queue[l]) < Capacity
       THEN /\ queue' = [queue EXCEPT ![l] = Append(@, producer[l].record)]
            /\ producer' = [producer EXCEPT ![l] = IdleProducer]
       ELSE /\ producer' = [producer EXCEPT ![l].at = "evict"]
            /\ UNCHANGED queue
    /\ UNCHANGED <<lost, stopping, worker, disk, pid, history, crashes>>

\* Variant: the record that gives way is not counted.
Evict_silently(l) ==
    /\ producer[l].at = "evict"
    /\ queue' = [queue EXCEPT ![l] = IF @ = <<>> THEN @ ELSE Tail(@)]
    /\ producer' = [producer EXCEPT ![l].at = "push"]
    /\ UNCHANGED <<lost, stopping, worker, disk, pid, history, crashes>>

\* enqueue: the oldest record gives way, unless the worker has emptied the queue.
Evict(l) ==
    /\ producer[l].at = "evict"
    /\ IF queue[l] # <<>>
       THEN /\ queue' = [queue EXCEPT ![l] = Tail(@)]
            /\ lost' = [lost EXCEPT ![l] = @ + 1]
       ELSE UNCHANGED <<queue, lost>>
    /\ producer' = [producer EXCEPT ![l].at = "push"]
    /\ UNCHANGED <<stopping, worker, disk, pid, history, crashes>>

\* Drop for FileLogger: raise the flag; the join is the worker reaching "done".
Stop(l) ==
    /\ producer[l].at = "idle" /\ ~stopping[l]
    /\ stopping' = [stopping EXCEPT ![l] = TRUE]
    /\ UNCHANGED <<queue, lost, producer, worker, disk, pid, history, crashes>>
-----------------------------------------------------------------------------
(* The worker thread.                                                        *)

\* run_worker: pop a record, or leave the inner loop.
Take(l) ==
    /\ worker[l].at = "take"
    /\ IF queue[l] = <<>>
       THEN /\ worker' = [worker EXCEPT ![l].at = "check"]
            /\ UNCHANGED queue
       ELSE /\ worker' = [worker EXCEPT ![l].at = "measure", ![l].record = Head(queue[l])]
            /\ queue' = [queue EXCEPT ![l] = Tail(@)]
    /\ UNCHANGED <<lost, stopping, producer, disk, pid, history, crashes>>

\* Variant: the flag alone ends the worker.
Check_flag_only(l) ==
    /\ worker[l].at = "check"
    /\ worker' = [worker EXCEPT ![l].at = IF stopping[l] THEN "done" ELSE "take"]
    /\ UNCHANGED <<queue, lost, stopping, producer, disk, pid, history, crashes>>

\* run_worker: stop when asked to and the queue is empty; otherwise park, which
\* ends by unpark or after the flush interval.
Check(l) ==
    /\ worker[l].at = "check"
    /\ worker' = [worker EXCEPT ![l].at =
                    IF stopping[l] /\ queue[l] = <<>> THEN "done" ELSE "take"]
    /\ UNCHANGED <<queue, lost, stopping, producer, disk, pid, history, crashes>>

\* append_record: the length of the file decides between append and compact.
Measure(l) ==
    /\ worker[l].at = "measure"
    /\ worker' = [worker EXCEPT ![l].at =
                    IF Len(disk.data[disk.path]) + worker[l].record.size <= Limit
                    THEN "open" ELSE "compact"]
    /\ UNCHANGED <<queue, lost, stopping, producer, disk, pid, history, crashes>>

\* append_record: a length that metadata() cannot tell counts as 0, so the record
\* is appended whatever the file holds (unwrap_or(0)).
MeasureFails(l) ==
    /\ worker[l].at = "measure"
    /\ worker' = [worker EXCEPT ![l].at = "open"]
    /\ unmeasured' = TRUE
    /\ UNCHANGED <<queue, lost, stopping, producer, disk, pid, written, stored, failed,
                   gone, torn, crashes>>

\* append_file opens what the path names now.
Open(l) ==
    /\ worker[l].at = "open"
    /\ worker' = [worker EXCEPT ![l].at = "append", ![l].file = disk.path]
    /\ UNCHANGED <<queue, lost, stopping, producer, disk, pid, history, crashes>>

Stored(l) ==
    /\ stored' = Append(stored, worker[l].record.id)
    /\ UNCHANGED <<written, failed, gone, torn>>
Failed(l) ==
    /\ failed' = failed \cup {worker[l].record.id}
    /\ UNCHANGED <<written, stored, gone>>
Continue(l) == worker' = [worker EXCEPT ![l] = IdleWorker]

\* write_all on the file opened for appending, then sync_data.
AppendRecord(l) ==
    /\ worker[l].at = "append"
    /\ disk' = [disk EXCEPT !.data[worker[l].file] = @ \o Bytes(worker[l].record)]
    /\ Stored(l) /\ Continue(l)
    /\ UNCHANGED <<queue, lost, stopping, producer, pid, unmeasured, crashes>>

\* Variant: three quarters are kept whatever the new record needs.
keep_three_quarters(r) == (Limit * 3) \div 4

\* compact: how much of the old file is kept.
keep(r) == Least((Limit * 3) \div 4, Limit - r.size)

\* Variant: the copy starts where the seek ended, inside a record.
CompactOpen_mid_record(l) ==
    /\ worker[l].at = "compact"
    /\ worker' = [worker EXCEPT ![l].at = "create", ![l].file = disk.path,
                    ![l].start = Most(0, Len(disk.data[disk.path]) - keep(worker[l].record))]
    /\ UNCHANGED <<queue, lost, stopping, producer, disk, pid, history, crashes>>

\* compact: open the source, go keep bytes before its end and, unless that is its
\* beginning, behind the next newline.
CompactOpen(l) ==
    /\ worker[l].at = "compact"
    /\ LET source == disk.data[disk.path]
           start == Most(0, Len(source) - keep(worker[l].record))
           newlines == {i \in start + 1..Len(source) : Newline(source[i])}
           first == IF start = 0 THEN 0
                    ELSE IF newlines = {} THEN Len(source)
                    ELSE CHOOSE i \in newlines : \A j \in newlines : i <= j
       IN worker' = [worker EXCEPT ![l].at = "create", ![l].file = disk.path,
                                   ![l].start = first]
    /\ UNCHANGED <<queue, lost, stopping, producer, disk, pid, history, crashes>>

\* compact: create_new fails when the temporary path exists, and that error
\* leaves the temporary file alone.
CompactCreate(l) ==
    /\ worker[l].at = "create"
    /\ IF disk.temporary[pid] # 0
       THEN /\ Failed(l) /\ Continue(l)
            /\ UNCHANGED <<disk, torn, unmeasured>>
       ELSE /\ disk' = [disk EXCEPT !.data = Append(@, <<>>),
                                    !.temporary[pid] = Len(disk.data) + 1]
            /\ worker' = [worker EXCEPT ![l].at = "copy"]
            /\ UNCHANGED history
    /\ UNCHANGED <<queue, lost, stopping, producer, pid, crashes>>

\* compact: copy at most keep bytes of the source as it is now, then the record.
CompactCopy(l) ==
    /\ worker[l].at = "copy"
    /\ LET source == disk.data[worker[l].file]
           from == worker[l].start + 1
           upto == Least(worker[l].start + keep(worker[l].record), Len(source))
       IN disk' = [disk EXCEPT !.data[disk.temporary[pid]] =
                     SubSeq(source, from, upto) \o Bytes(worker[l].record)]
    /\ worker' = [worker EXCEPT ![l].at = "rename"]
    /\ UNCHANGED <<queue, lost, stopping, producer, pid, history, crashes>>

\* compact: the rename.
CompactRename(l) ==
    /\ worker[l].at = "rename"
    /\ disk' = [disk EXCEPT !.path = disk.temporary[pid], !.temporary[pid] = 0]
    /\ Stored(l) /\ Continue(l)
    /\ unmeasured' = FALSE
    /\ UNCHANGED <<queue, lost, stopping, producer, pid, crashes>>

\* What an input or output error leaves: of an append any part of the record; of a
\* compaction nothing, since the temporary file is removed, but that file when its
\* permissions could not be set, and the new log when those of the log could not.
After(l) ==
    LET w == worker[l]
        Part(n) == SubSeq(Bytes(w.record), 1, n)
    IN  CASE w.at \in {"open", "compact"} -> {disk}
          [] w.at = "append" ->
                {[disk EXCEPT !.data[w.file] = @ \o Part(n)] : n \in 0..w.record.size}
          [] w.at = "create" ->
                IF disk.temporary[pid] # 0 THEN {disk}
                ELSE {disk, [disk EXCEPT !.data = Append(@, <<>>),
                                         !.temporary[pid] = Len(disk.data) + 1]}
          [] w.at = "copy" -> {[disk EXCEPT !.temporary[pid] = 0]}
          [] w.at = "rename" ->
                {[disk EXCEPT !.temporary[pid] = 0],
                 [disk EXCEPT !.path = disk.temporary[pid], !.temporary[pid] = 0]}

\* The worker reports the error and goes on with the next record.
IoError(l) ==
    /\ worker[l].at \in {"open", "append", "compact", "create", "copy", "rename"}
    /\ disk' \in After(l)
    /\ torn' = (torn \/ disk'.data[disk'.path] # disk.data[disk.path])
    /\ Failed(l) /\ Continue(l)
    /\ UNCHANGED <<queue, lost, stopping, producer, pid, unmeasured, crashes>>
-----------------------------------------------------------------------------
\* The process dies and is started again: memory is lost, files stay.
Crash ==
    /\ crashes < MaxCrashes
    /\ crashes' = crashes + 1
    /\ gone' = (1..Len(written)) \ (ToSet(stored) \cup failed)
    /\ lost' = [l \in Logger |-> 0]
    /\ queue' = [l \in Logger |-> <<>>]
    /\ stopping' = [l \in Logger |-> FALSE]
    /\ producer' = [l \in Logger |-> IdleProducer]
    /\ worker' = [l \in Logger |-> IdleWorker]
    /\ pid' \in Pid
    /\ UNCHANGED <<disk, written, stored, failed, torn, unmeasured>>

WorkerStep(l) ==
    \/ Take(l) \/ Check(l) \/ Measure(l) \/ MeasureFails(l) \/ Open(l) \/ AppendRecord(l)
    \/ CompactOpen(l) \/ CompactCreate(l) \/ CompactCopy(l) \/ CompactRename(l)
    \/ IoError(l)

Next ==
    \/ \E l \in Logger :
        \/ \E size \in Lengths : Write(l, size)
        \/ Push(l) \/ Evict(l) \/ Stop(l)
        \/ WorkerStep(l)
    \/ Crash

\* The threads run: the worker's loop always has a next step (parking is
\* bounded by the flush interval), and so has a write under way.
Fairness == \A l \in Logger : WF_vars(WorkerStep(l)) /\ WF_vars(Push(l) \/ Evict(l))

Spec == Init /\ [][Next]_vars /\ Fairness
-----------------------------------------------------------------------------
(* Properties.                                                               *)

\* The log exceeds limit_bytes only by records whose check could not measure it,
\* and the next compaction brings it back: one that succeeds keeps the limit
\* whatever it starts from, at no point of an append, a compaction or an eviction
\* is it exceeded otherwise, and after no crash.  The queue keeps its capacity.
LimitKept ==
    /\ unmeasured \/ Len(disk.data[disk.path]) <= Limit
    /\ \A l \in Logger : Len(queue[l]) <= Capacity

\* The log is made of whole records, and they are the newest stored ones in
\* the order in which they were stored: neither compaction nor a crash inside
\* it loses a record out of the middle, cuts one or repeats one.  An append that
\* fails may leave part of a record.
LogIsNewestTail ==
    torn \/ \E k \in 0..Len(stored) :
        disk.data[disk.path] =
            FlattenSeq([i \in 1..k |-> Bytes(written[stored[Len(stored) - k + i]])])

\* lost_records() is exactly what is missing: every record of this process is
\* under way, in the log's history, reported as an error, or counted.
InHand(l) == {producer[l].record.id, worker[l].record.id} \cup {r.id : r \in ToSet(queue[l])}
LossesCounted ==
    LET settled == ToSet(stored) \cup failed \cup gone
        held == UNION {InHand(l) : l \in Logger}
    IN  /\ FoldFunction(+, 0, lost) = Cardinality((1..Len(written)) \ (settled \cup held))
        /\ settled \cap held = {}

\* A stopped logger's worker ends, and only after it has written or reported
\* everything that was queued; a crash starts a new worker.
StopDrains ==
    \A l \in Logger :
        stopping[l] ~> (~stopping[l] \/ (worker[l].at = "done" /\ queue[l] = <<>>))

\* limit_bytes bounds the log at all times: not kept, since append_record takes a
\* file it cannot measure for an empty one.
LimitAlways == Len(disk.data[disk.path]) <= Limit
=============================================================================
