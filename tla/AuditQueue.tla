----------------------------- MODULE AuditQueue -----------------------------
(* The audit of the gateway in syslog mode (src/netops/audit.py): record    *)
(* calls of concurrent requests write one file each into a queue of limited *)
(* size, a forwarder hands the files to a collector in batches over TLS and *)
(* removes them, a start drains the queue first when it is too full, and    *)
(* the process may be killed at any step.                                   *)
EXTENDS Naturals, FiniteSets, SequencesExt

CONSTANTS
    Records,               \* audit records of requests
    Starts, Stops,         \* instance_start and instance_stop records
    Size, Parts,           \* bytes of a record and messages it is sent in
    Heavy,                 \* records whose preparation takes the semaphore
    Writers,               \* tasks that call record()
    budget,                \* budget_bytes of the queue
    reserve,               \* what make_room keeps free for instance_start
    SYSLOG_BATCH_RECORDS, SYSLOG_BATCH_BYTES,
    Forwarder, None,
    MaxFailures, MaxCrashes

All == Records \cup Starts \cup Stops

ASSUME QueueAssumption ==
    /\ Size \in [All -> Nat \ {0}] /\ Parts \in [All -> Nat \ {0}]
    /\ Heavy \subseteq Records
    /\ Forwarder \notin Writers /\ None \notin Writers \cup {Forwarder} /\ None \notin All
    /\ \A s \in Starts : Size[s] <= reserve
    /\ reserve <= budget /\ \A r \in All : Size[r] <= SYSLOG_BATCH_BYTES

VARIABLES
    \* the disk
    queue,       \* the queued records, one file each, in the order of the file names
    doubled,     \* those whose file was left with a second name, the temporary one
    \* the process
    phase,       \* of the instance
    lock,        \* holder of Audit.lock
    linked,      \* the record write_private has linked and still has to unlink
    heavy,       \* holder of Audit.heavy
    wpc, wrec, measured,   \* a record() call: label, its record, the size it read
    fpc, batch, rest, part,  \* forwarder or make_room: label, files taken, files
                             \* and part of the first of them left to send
    stop,        \* Audit.stop
    \* the collector and history
    archive,     \* the messages handed over
    accepted,    \* records whose record() call returned
    used,        \* records that have been asked for
    failures, crashes

calls == <<heavy, wpc, wrec, measured>>
forward == <<fpc, batch, rest, part>>
history == <<archive, accepted, used, failures, crashes>>
disk == <<queue, doubled>>
vars == <<disk, phase, lock, linked, calls, forward, stop, history>>
----------------------------------------------------------------------------
files == ToSet(queue)
Bytes(S) == MapThenSumSet(LAMBDA r : Size[r], S)
Messages(r) == {<<r, k>> : k \in 1 .. Parts[r]}
Before(r, S) == {s \in S : \E i, j \in DOMAIN queue : i < j /\ queue[i] = s /\ queue[j] = r}
IsFirst(r, S) == r \in S /\ Before(r, S) = {}

(* _batch: the oldest files up to both limits, the first one in any case *)
Batch ==
    {r \in files : /\ Cardinality(Before(r, files)) < SYSLOG_BATCH_RECORDS
                   /\ \/ Before(r, files) = {}
                      \/ Bytes(Before(r, files) \cup {r}) <= SYSLOG_BATCH_BYTES}

TakeBatch(B, label) ==
    /\ batch' = B /\ rest' = B /\ part' = 1
    /\ fpc' = label

(* write_private: the file appears with all its bytes, under the temporary  *)
(* name and its own. The name starts with the wall clock, which may have    *)
(* been set back, so it can come anywhere in the order.                     *)
Link(r) ==
    /\ \E n \in 1 .. Len(queue) + 1 : queue' = InsertAt(queue, n, r)
    /\ linked' = r

(* write_private, finally: the temporary name is removed and the call       *)
(* returns, or it raises and the file stays, if the unlink failed under     *)
(* both names                                                               *)
Unlink(returns) ==
    /\ linked' = None
    /\ \/ returns /\ accepted' = accepted \cup {linked} /\ UNCHANGED <<doubled, failures>>
       \/ /\ ~returns /\ failures < MaxFailures /\ failures' = failures + 1
          /\ doubled' \in {doubled, doubled \cup {linked}} /\ UNCHANGED accepted

(* read_private (check_regular) refuses a file with two names, and _deliver *)
(* reads the whole batch before it connects                                 *)
Readable(B) == B \cap doubled = {}
----------------------------------------------------------------------------
Init ==
    /\ queue = <<>> /\ doubled = {} /\ linked = None
    /\ phase = "down" /\ lock = None /\ heavy = None
    /\ wpc = [w \in Writers |-> "idle"] /\ wrec = [w \in Writers |-> None]
    /\ measured = [w \in Writers |-> 0]
    /\ fpc = "off" /\ batch = {} /\ rest = {} /\ part = 1 /\ stop = FALSE
    /\ archive = {} /\ accepted = {} /\ used = {} /\ failures = 0 /\ crashes = 0

(* The instance starts: lifespan calls make_room first *)
Launch ==
    /\ phase = "down" /\ ~(Starts \subseteq used)
    /\ phase' = "room" /\ lock' = Forwarder /\ fpc' = "room" /\ stop' = FALSE
    /\ UNCHANGED <<disk, linked, calls, batch, rest, part, history>>

(* the death of the process: its memory and its locks are gone *)
Down ==
    /\ phase' = "down" /\ lock' = None /\ heavy' = None
    /\ wpc' = [w \in Writers |-> "idle"] /\ wrec' = [w \in Writers |-> None]
    /\ measured' = [w \in Writers |-> 0]
    /\ fpc' = "off" /\ batch' = {} /\ rest' = {} /\ part' = 1 /\ stop' = FALSE

(* _drain_until: deliver batches, under the lock, while the start record    *)
(* would not fit; a batch that cannot be read ends the start                *)
MakeRoom ==
    /\ fpc = "room"
    /\ IF Bytes(files) + reserve > budget /\ Batch # {}
       THEN IF Readable(Batch)
            THEN TakeBatch(Batch, "send") /\ UNCHANGED <<phase, lock, calls, stop>>
            ELSE Down
       ELSE /\ phase' = "start" /\ lock' = None /\ fpc' = "off"
            /\ UNCHANGED <<calls, batch, rest, part, stop>>
    /\ UNCHANGED <<disk, linked, history>>

(* record("instance_start"); a record that does not fit, or cannot be       *)
(* written, ends the instance                                               *)
RecordStart ==
    /\ phase = "start"
    /\ \E r \in Starts \ used :
          /\ used' = used \cup {r}
          /\ \/ /\ Bytes(files) + Size[r] <= budget
                /\ Link(r) /\ phase' = "started"
                /\ UNCHANGED <<lock, calls, forward, stop, failures>>
             \/ /\ Bytes(files) + Size[r] > budget \/ failures < MaxFailures
                /\ failures' = failures + 1
                /\ Down /\ UNCHANGED <<queue, linked>>
    /\ UNCHANGED <<doubled, archive, accepted, crashes>>

(* its record() call returns and the forwarder is started, or it raises *)
StartRecorded ==
    /\ phase = "started"
    /\ \/ /\ Unlink(TRUE) /\ phase' = "serving" /\ fpc' = "take"
          /\ UNCHANGED <<lock, calls, batch, rest, part, stop>>
       \/ Unlink(FALSE) /\ Down
    /\ UNCHANGED <<queue, archive, used, crashes>>
----------------------------------------------------------------------------
(* A request, or a task that reports its cancellation, calls record() *)
Call(w) ==
    /\ phase = "serving" /\ wpc[w] = "idle"
    /\ \E r \in Records \ used :
          /\ used' = used \cup {r} /\ wrec' = [wrec EXCEPT ![w] = r]
          /\ wpc' = [wpc EXCEPT ![w] = IF r \in Heavy THEN "heavy" ELSE "lock"]
    /\ UNCHANGED <<disk, linked, phase, lock, heavy, measured, forward, stop, archive, accepted,
                   failures, crashes>>

AcquireHeavy(w) ==
    /\ wpc[w] = "heavy" /\ heavy = None
    /\ heavy' = w /\ wpc' = [wpc EXCEPT ![w] = "lock"]
    /\ UNCHANGED <<disk, linked, phase, lock, wrec, measured, forward, stop, history>>

AcquireLock(w) ==
    /\ wpc[w] = "lock" /\ lock = None
    /\ lock' = w /\ wpc' = [wpc EXCEPT ![w] = "measure"]
    /\ UNCHANGED <<disk, linked, phase, heavy, wrec, measured, forward, stop, history>>

(* _append: the sizes of the queued files *)
Measure(w) ==
    /\ wpc[w] = "measure"
    /\ measured' = [measured EXCEPT ![w] = Bytes(files)]
    /\ wpc' = [wpc EXCEPT ![w] = "append"]
    /\ UNCHANGED <<disk, linked, phase, lock, heavy, wrec, forward, stop, history>>

Return(w) ==
    /\ wpc' = [wpc EXCEPT ![w] = "idle"] /\ wrec' = [wrec EXCEPT ![w] = None]
    /\ measured' = [measured EXCEPT ![w] = 0]
    /\ lock' = IF lock = w THEN None ELSE lock
    /\ heavy' = IF heavy = w THEN None ELSE heavy

(* _append: the file is linked; or AuditUnavailable is raised because the   *)
(* queue is full or the disk refuses                                        *)
AppendRecord(w) ==
    /\ wpc[w] = "append"
    /\ \/ /\ measured[w] + Size[wrec[w]] <= budget
          /\ Link(wrec[w]) /\ wpc' = [wpc EXCEPT ![w] = "linked"]
          /\ measured' = [measured EXCEPT ![w] = 0]
          /\ UNCHANGED <<lock, heavy, wrec, failures>>
       \/ /\ measured[w] + Size[wrec[w]] > budget
          /\ Return(w) /\ UNCHANGED <<queue, linked, failures>>
       \/ /\ failures < MaxFailures /\ failures' = failures + 1
          /\ Return(w) /\ UNCHANGED <<queue, linked>>
    /\ UNCHANGED <<doubled, phase, forward, stop, archive, accepted, used, crashes>>

(* the call returns, or raises AuditUnavailable although its file is queued *)
Appended(w) ==
    /\ wpc[w] = "linked"
    /\ \E returns \in BOOLEAN : Unlink(returns)
    /\ Return(w)
    /\ UNCHANGED <<queue, phase, forward, stop, archive, used, crashes>>
----------------------------------------------------------------------------
(* forward: the loop ends when stop is set, otherwise a batch is taken      *)
(* under the lock; one that cannot be read is tried again later             *)
Take ==
    /\ fpc = "take"
    /\ \/ stop /\ fpc' = "ended" /\ UNCHANGED <<batch, rest, part>>
       \/ /\ ~stop /\ lock = None
          /\ IF Batch # {} /\ Readable(Batch) THEN TakeBatch(Batch, "send") ELSE TakeBatch({}, "wait")
    /\ UNCHANGED <<disk, phase, lock, linked, calls, stop, history>>

Wait ==
    /\ fpc = "wait" /\ fpc' = "take"
    /\ UNCHANGED <<disk, linked, phase, lock, calls, batch, rest, part, stop, history>>

(* _deliver, without the lock: one message of the batch after the other *)
SendFrame ==
    /\ fpc = "send"
    /\ \E r \in rest :
          /\ IsFirst(r, rest)
          /\ archive' = archive \cup {<<r, part>>}
          /\ \/ part < Parts[r] /\ part' = part + 1 /\ UNCHANGED <<rest, fpc>>
             \/ /\ part = Parts[r] /\ part' = 1 /\ rest' = rest \ {r}
                /\ fpc' = IF rest = {r} THEN "unwrap" ELSE "send"
    /\ UNCHANGED <<disk, linked, phase, lock, calls, batch, stop, accepted, used, failures, crashes>>

(* the connection is closed; the collector may close it first (SSLEOFError) *)
Unwrap ==
    /\ fpc = "unwrap"
    /\ fpc' = IF phase = "room" THEN "remove" ELSE "lock"
    /\ UNCHANGED <<disk, linked, phase, lock, calls, batch, rest, part, stop, history>>

(* Mutant: an error ends the thread of the forwarder *)
Fail_Ends ==
    /\ fpc \in {"send", "unwrap"} /\ failures < MaxFailures /\ failures' = failures + 1
    /\ IF phase = "room" THEN Down
       ELSE fpc' = "ended" /\ UNCHANGED <<phase, lock, calls, batch, rest, part, stop>>
    /\ UNCHANGED <<disk, linked, archive, accepted, used, crashes>>

(* no connection, or an error at any message or while closing: the files    *)
(* stay queued; make_room raises AuditUnavailable and the start fails       *)
Fail ==
    /\ fpc \in {"send", "unwrap"} /\ failures < MaxFailures /\ failures' = failures + 1
    /\ IF phase = "room" THEN Down
       ELSE TakeBatch({}, "wait") /\ UNCHANGED <<phase, lock, calls, stop>>
    /\ UNCHANGED <<disk, linked, archive, accepted, used, crashes>>

LockRemove ==
    /\ fpc = "lock" /\ lock = None
    /\ lock' = Forwarder /\ fpc' = "remove"
    /\ UNCHANGED <<disk, linked, phase, calls, batch, rest, part, stop, history>>

AfterRemove ==
    IF phase = "room" THEN fpc' = "room" /\ UNCHANGED lock
    ELSE fpc' = "take" /\ lock' = None

(* Mutant: as many of the oldest files as were sent are removed, not the    *)
(* files that were sent                                                     *)
RemoveFile_Oldest ==
    /\ fpc = "remove"
    /\ \E r \in batch : \E s \in files :
          /\ IsFirst(r, batch) /\ IsFirst(s, files)
          /\ queue' = Remove(queue, s) /\ batch' = batch \ {r}
          /\ IF batch = {r} THEN AfterRemove ELSE UNCHANGED <<fpc, lock>>
    /\ UNCHANGED <<doubled, linked, phase, calls, rest, part, stop, history>>

(* _remove: one file after the other, under the lock *)
RemoveFile ==
    /\ fpc = "remove"
    /\ \E r \in batch :
          /\ IsFirst(r, batch)
          /\ queue' = Remove(queue, r) /\ batch' = batch \ {r}
          /\ IF batch = {r} THEN AfterRemove ELSE UNCHANGED <<fpc, lock>>
    /\ UNCHANGED <<doubled, linked, phase, calls, rest, part, stop, history>>

(* an unlink fails; what is left is taken again later *)
RemoveFails ==
    /\ fpc = "remove" /\ failures < MaxFailures /\ failures' = failures + 1
    /\ IF phase = "room" THEN Down
       ELSE TakeBatch({}, "wait") /\ lock' = None /\ UNCHANGED <<phase, calls, stop>>
    /\ UNCHANGED <<disk, linked, archive, accepted, used, crashes>>
----------------------------------------------------------------------------
(* The server is told to exit: no request is accepted any more; lifespan    *)
(* waits for the running ones, sets stop and waits for the forwarder        *)
BeginStop ==
    /\ phase = "serving" /\ ~(Stops \subseteq used)
    /\ phase' = "stopping"
    /\ UNCHANGED <<disk, linked, lock, calls, forward, stop, history>>

SetStop ==
    /\ phase = "stopping" /\ ~stop /\ \A w \in Writers : wpc[w] = "idle"
    /\ stop' = TRUE
    /\ UNCHANGED <<disk, linked, phase, lock, calls, forward, history>>

(* record("instance_stop"): the last record, it stays queued; when it does  *)
(* not fit, or cannot be written, the process exits with an error           *)
RecordStop ==
    /\ phase = "stopping" /\ stop /\ fpc = "ended"
    /\ \E r \in Stops \ used :
          /\ used' = used \cup {r}
          /\ \/ /\ Bytes(files) + Size[r] <= budget
                /\ Link(r) /\ phase' = "stopped"
                /\ UNCHANGED <<lock, calls, forward, stop, failures>>
             \/ /\ Bytes(files) + Size[r] > budget \/ failures < MaxFailures
                /\ failures' = failures + 1
                /\ Down /\ UNCHANGED <<queue, linked>>
    /\ UNCHANGED <<doubled, archive, accepted, crashes>>

StopRecorded ==
    /\ phase = "stopped"
    /\ \E returns \in BOOLEAN : Unlink(returns)
    /\ Down
    /\ UNCHANGED <<queue, archive, used, crashes>>

(* a kill; between link and unlink it leaves the file with both names *)
Crash ==
    /\ phase # "down" /\ crashes < MaxCrashes /\ crashes' = crashes + 1
    /\ doubled' = doubled \cup ({linked} \ {None}) /\ linked' = None
    /\ Down
    /\ UNCHANGED <<queue, archive, accepted, used, failures>>
----------------------------------------------------------------------------
CallStep(w) == AcquireHeavy(w) \/ AcquireLock(w) \/ Measure(w) \/ AppendRecord(w) \/ Appended(w)
Deliver == MakeRoom \/ Take \/ Wait \/ SendFrame \/ Unwrap \/ LockRemove \/ RemoveFile
Outage == Fail \/ RemoveFails
StartUp == RecordStart \/ StartRecorded
Shutdown == SetStop \/ RecordStop \/ StopRecorded

Next == \/ Launch \/ StartUp \/ BeginStop \/ Shutdown \/ Crash
        \/ Deliver \/ Outage
        \/ \E w \in Writers : Call(w) \/ CallStep(w)

Spec == Init /\ [][Next]_vars

(* Tasks and the forwarder run, and a shutdown that has begun goes on;      *)
(* outages end (MaxFailures).                                               *)
Progress ==
    /\ WF_vars(StartUp) /\ WF_vars(Deliver) /\ WF_vars(Shutdown)
    /\ \A w \in Writers : WF_vars(CallStep(w))
----------------------------------------------------------------------------
Sent(r) == Messages(r) \subseteq archive

TypeOK ==
    /\ queue \in Seq(All) /\ doubled \subseteq All /\ linked \in All \cup {None}
    /\ phase \in {"down", "room", "start", "started", "serving", "stopping", "stopped"}
    /\ lock \in Writers \cup {Forwarder, None} /\ heavy \in Writers \cup {None}
    /\ wpc \in [Writers -> {"idle", "heavy", "lock", "measure", "append", "linked"}]
    /\ wrec \in [Writers -> Records \cup {None}] /\ measured \in [Writers -> Nat]
    /\ \A w \in Writers : wpc[w] # "idle" => wrec[w] # None
    /\ fpc \in {"off", "room", "take", "wait", "send", "unwrap", "lock", "remove", "ended"}
    /\ batch \subseteq All /\ rest \subseteq batch /\ part \in Nat /\ stop \in BOOLEAN
    /\ archive \subseteq UNION {Messages(r) : r \in All}
    /\ accepted \subseteq All /\ used \subseteq All
    /\ failures \in Nat /\ crashes \in Nat

(* A record whose record() call returned is in the queue until every part   *)
(* of it was handed to the collector, whatever fails or dies in between     *)
(* (forward and _drain_until: deliver first, then remove what was sent).    *)
NothingLost == \A r \in accepted : r \in files \/ Sent(r)

(* The queue never outgrows its budget, although calls measure it and write *)
(* in two steps while the forwarder removes files (_append under the lock); *)
(* and when make_room has returned the start record fits: an instance is    *)
(* never kept down by a queue that could be delivered.                      *)
BudgetHolds ==
    /\ Bytes(files) <= budget
    /\ phase = "start" => \A r \in Starts \ used : Bytes(files) + Size[r] <= budget

(* Every queued record leaves the queue, through outages, failed unlinks,   *)
(* crashes and restarts, while the instance is started again (forward,      *)
(* make_room); a run ends when the records of starts are used up. The one   *)
(* exception is a file left with two names, by a kill between the link and  *)
(* the unlink of write_private or an unlink that failed there: read_private *)
(* refuses it, nothing removes the second name, and from the batch that     *)
(* holds it on delivery stops.                                              *)
EveryRecordLeaves ==
    \A r \in All : r \in files ~>
        r \notin files \/ doubled # {} \/ (phase = "down" /\ Starts \subseteq used)
============================================================================
