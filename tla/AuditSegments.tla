---------------------------- MODULE AuditSegments ----------------------------
(* The local audit of the gateway (netops/audit.py, mode "local"): records  *)
(* are appended to current.jsonl; full segments are renamed; segments are   *)
(* removed when they are too old or when the budget is used up. A write     *)
(* that fails or is interrupted leaves an incomplete tail, after which the  *)
(* audit is unavailable until an operator runs `audit recover`. The health  *)
(* check looks for such a tail while records are written. The state lock    *)
(* keeps instance and operator commands apart: one process appends.         *)
EXTENDS Integers, Sequences, SequencesExt, FiniteSetsExt

CONSTANTS
    MAX_MESSAGE, budget, segment_size, retention,   \* bytes, bytes, bytes, days
    Sizes,                                          \* bytes of a record
    None,
    MaxRecords, MaxDays, MaxFailures                \* bounds

(* The limits that audit_limits accepts, and the limit on a record in _append *)
audit_limits ==
    /\ MAX_MESSAGE \in Nat \ {0}
    /\ budget >= MAX_MESSAGE * 4 /\ segment_size \in MAX_MESSAGE .. budget /\ retention > 0
    /\ Sizes \subseteq 1 .. MAX_MESSAGE * 2

Fragment == 0       \* a last line without its newline
Glued == -1         \* a line of two records

VARIABLES
    old,        \* the renamed segments, oldest first
    current,    \* current.jsonl: its lines (numbers of records), its bytes, the
                \* bytes of an incomplete tail, and the day of its last change
    quarantine, \* sequence of the sizes of quarantined fragments
    writing,    \* the exclusive lock on current.jsonl is held
    health,     \* the shared lock of the health check: "none", or on the
                \* "current" file, or on one that was renamed since
    alarm,      \* answer of the last health check
    pc, size, start,    \* of the appending process: its step, the bytes of its
                        \* record, and current.jsonl before its write
    today, records, returned, removed, lost, failures   \* history and bounds

disk == <<old, current, quarantine>>
look == <<health, alarm>>
count == <<today, records, returned, removed, lost, failures>>
vars == <<disk, writing, look, pc, size, start, count>>
----------------------------------------------------------------------------
Empty == [lines |-> <<>>, bytes |-> 0, tail |-> 0, day |-> today]
Total == FoldSeq(LAMBDA s, n : s.bytes + n, IF current = None THEN 0 ELSE current.bytes, old)
Torn == current # None /\ current.tail > 0

Init ==
    /\ old = <<>> /\ current = None /\ quarantine = <<>> /\ writing = FALSE
    /\ health = "none" /\ alarm = FALSE
    /\ pc = "idle" /\ size = 0 /\ start = None
    /\ today = 0 /\ records = 0 /\ returned = {} /\ removed = 0 /\ lost = 0 /\ failures = 0

(* record, _append: serialised by the lock of the Audit object *)
Begin ==
    /\ pc = "idle" /\ records < MaxRecords
    /\ \E s \in Sizes : size' = s
    /\ pc' = "expire" /\ records' = records + 1
    /\ UNCHANGED <<disk, writing, look, start, today, returned, removed, lost, failures>>

NewestIn(s) == IF s.lines = <<>> THEN 0 ELSE Max(ToSet(s.lines))

(* segments last written longer ago than the retention are removed *)
Expire ==
    /\ pc = "expire"
    /\ \E i \in DOMAIN old :
          /\ today - old[i].day > retention
          /\ \A j \in 1 .. i - 1 : today - old[j].day <= retention
          /\ old' = RemoveAt(old, i) /\ removed' = Max({removed, NewestIn(old[i])})
    /\ UNCHANGED <<current, quarantine, writing, look, pc, size, start, today, records, returned, lost, failures>>

(* the audit is unavailable after an incomplete write *)
CheckTail ==
    /\ pc = "expire" /\ \A i \in DOMAIN old : today - old[i].day <= retention
    /\ IF Torn THEN pc' = "idle" /\ size' = 0 ELSE pc' = "rotate" /\ UNCHANGED size
    /\ UNCHANGED <<disk, writing, look, start, count>>

(* Mutant: a segment that is too large for the record is kept *)
Rotate_Never ==
    /\ pc = "rotate" /\ pc' = "evict"
    /\ UNCHANGED <<disk, writing, look, size, start, count>>

(* current.jsonl is renamed when the record does not fit *)
Rotate ==
    /\ pc = "rotate" /\ pc' = "evict"
    /\ IF current # None /\ current.bytes + size > segment_size
       THEN /\ old' = Append(old, current) /\ current' = None
            /\ health' = IF health = "current" THEN "renamed" ELSE health
       ELSE UNCHANGED <<old, current, health>>
    /\ UNCHANGED <<quarantine, writing, alarm, size, start, count>>

(* the oldest of the renamed segments goes while the record has no room *)
Evict ==
    /\ pc = "evict" /\ Total + size > budget /\ old # <<>>
    /\ LET first == CHOOSE i \in DOMAIN old :
                        \A j \in DOMAIN old : old[i].day < old[j].day \/ (old[i].day = old[j].day /\ i <= j) IN
       old' = RemoveAt(old, first) /\ removed' = Max({removed, NewestIn(old[first])})
    /\ UNCHANGED <<current, quarantine, writing, look, pc, size, start, today, records, returned, lost, failures>>

HasRoom == Total + size <= budget

(* current.jsonl is opened, created if need be, and locked; the health      *)
(* check may hold the lock for a moment                                     *)
Open ==
    /\ pc = "evict" /\ HasRoom /\ health # "current"
    /\ current' = (IF current = None THEN Empty ELSE current) /\ start' = current'
    /\ writing' = TRUE /\ pc' = "write"
    /\ UNCHANGED <<old, quarantine, look, size, count>>
----------------------------------------------------------------------------
(* current.jsonl after k bytes of the record *)
After(k) ==
    [bytes |-> start.bytes + k, day |-> today,
     tail |-> IF k = size THEN 0 ELSE start.tail + k,
     lines |-> IF start.tail > 0 THEN (IF k = size THEN Append(Front(start.lines), Glued) ELSE start.lines)
               ELSE Append(start.lines, IF k = size THEN records ELSE Fragment)]
Written == current.bytes - start.bytes

(* os.write takes some of the bytes; it is called until all are written *)
Write ==
    /\ pc = "write" /\ Written < size
    /\ \E k \in Written + 1 .. size : current' = After(k)
    /\ UNCHANGED <<old, quarantine, writing, look, pc, size, start, count>>

Stop == writing' = FALSE /\ pc' = "idle" /\ size' = 0 /\ start' = None

(* fsync, the lock is released *)
Return ==
    /\ pc = "write" /\ Written = size /\ returned' = returned \cup {records}
    /\ Stop /\ UNCHANGED <<disk, look, today, records, removed, lost, failures>>

(* a call fails, or the process is killed: what is written stays *)
Fail ==
    /\ pc \notin {"idle", "quarantine", "cut"} /\ failures < MaxFailures /\ failures' = failures + 1
    /\ Stop /\ UNCHANGED <<disk, look, today, records, returned, removed, lost>>

(* recover: with the state locked, the incomplete tail is planned *)
Recover ==
    /\ pc = "idle" /\ Torn /\ records < MaxRecords
    /\ \A i \in DOMAIN current.lines : current.lines[i] # Glued
    /\ pc' = "quarantine"
    /\ UNCHANGED <<disk, writing, look, size, start, count>>

(* the tail goes to a file of its own *)
Quarantine ==
    /\ pc = "quarantine" /\ pc' = "cut"
    /\ quarantine' = Append(quarantine, current.tail)
    /\ UNCHANGED <<old, current, writing, look, size, start, count>>

(* recover_audit: the recovery is recorded like anything else *)
RecordRecovery ==
    /\ \E s \in Sizes : size' = s
    /\ pc' = "expire" /\ records' = records + 1

(* the segment is cut back to its last complete record *)
Cut ==
    /\ pc = "cut" /\ RecordRecovery
    /\ current' = [current EXCEPT !.lines = Front(@), !.bytes = @ - current.tail, !.tail = 0, !.day = today]
    /\ lost' = IF Contains(quarantine, current.tail) THEN lost ELSE current.tail
    /\ UNCHANGED <<old, quarantine, writing, look, start, today, returned, removed, failures>>

FailRecovery ==
    /\ pc \in {"quarantine", "cut"} /\ failures < MaxFailures /\ failures' = failures + 1
    /\ pc' = "idle"
    /\ UNCHANGED <<disk, writing, look, size, start, today, records, returned, removed, lost>>
----------------------------------------------------------------------------
(* live_incomplete_tail: the shared lock, or no alarm when it is taken *)
Look ==
    /\ health = "none" /\ current # None
    /\ IF writing THEN alarm' = FALSE /\ UNCHANGED health
       ELSE health' = "current" /\ UNCHANGED alarm
    /\ UNCHANGED <<disk, writing, pc, size, start, count>>

(* the last byte is read, the lock released *)
ReadTail ==
    /\ health # "none" /\ health' = "none"
    /\ alarm' = (health = "current" /\ Torn)
    /\ UNCHANGED <<disk, writing, pc, size, start, count>>

Day ==
    /\ today < MaxDays /\ today' = today + 1
    /\ UNCHANGED <<disk, writing, look, pc, size, start, records, returned, removed, lost, failures>>

Next ==
    \/ Begin \/ Expire \/ CheckTail \/ Rotate \/ Evict \/ Open \/ Write \/ Return \/ Fail
    \/ Recover \/ Quarantine \/ Cut \/ FailRecovery
    \/ Look \/ ReadTail \/ Day

Spec == Init /\ [][Next]_vars
----------------------------------------------------------------------------
Files == ToSet(old) \cup (IF current = None THEN {} ELSE {current})
Stored(n) == \E s \in Files : Contains(s.lines, n)

(* The segments never take more than the budget, whatever was interrupted;  *)
(* and "Audit budget exhausted" is never raised: with the limits that       *)
(* audit_limits accepts, removing every other segment always makes room     *)
(* (_append).                                                               *)
BudgetHolds ==
    /\ Total <= budget
    /\ pc = "evict" /\ old = <<>> => HasRoom

(* A record that was acknowledged is a complete line of a segment until its *)
(* segment, or a younger one, was removed for age or room: failures, kills  *)
(* and recovery lose no complete record.                                    *)
NothingLost == \A n \in returned : Stored(n) \/ n <= removed

(* No record is ever glued to an incomplete one, so every complete line is  *)
(* JSON and `audit recover` never refuses; and a fragment is in quarantine  *)
(* before it is cut off, whenever the recovery is interrupted. A health     *)
(* check never takes a record that is being written for an incomplete one.  *)
Recoverable ==
    /\ lost = 0 /\ \A s \in Files : ~Contains(s.lines, Glued)
    /\ writing => health # "current"
==============================================================================
