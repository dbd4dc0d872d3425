------------------------------ MODULE Recorder ------------------------------
(* The operation log of a role (netops_core/audit.py): processes append one *)
(* line per record to the active segment, under a lock file, and rotate the *)
(* segments by a series of renames when a line does not fit. A write may be *)
(* short or fail, and a process may be killed between any two system calls. *)
EXTENDS Naturals, Sequences, FiniteSets

CONSTANTS
    Writers,
    RecordBytes,            \* bytes of an encoded record, its newline included
    segment_bytes, retained_segments,
    None,
    MaxRecords, MaxCrashes, MaxFailures   \* bounds

(* a segment: its lines and bytes. A line is the number of its record; 0 is *)
(* a fragment without a newline, or one that was given a newline later      *)
Segment == [lines : Seq(Nat), bytes : Nat]

(* the constants make sense *)
log_limits ==
    /\ RecordBytes \in Nat \ {0, 1} /\ segment_bytes \in Nat /\ RecordBytes <= segment_bytes
    /\ retained_segments \in Nat \ {0, 1} /\ None \notin Writers \cup Segment

oldest == retained_segments - 1

VARIABLES
    seg,        \* the files: None, or a segment
    torn,       \* the active segment does not end with a newline
    lock,       \* holder of the lock file
    pc,         \* what a call of record does next
    start, newline, written,   \* of _append: size before it, whether a newline
                               \* goes first, and the bytes written so far
    next,       \* the record a call writes
    records,    \* records written so far
    returned,   \* records whose call has returned
    removed,    \* the lines of the segments that were removed
    rotations,  \* segments that were rotated out of the active place
    crashes, failures

files == <<seg, torn>>
call == <<start, newline, written>>
count == <<records, returned, removed, rotations, crashes, failures>>
vars == <<files, lock, pc, call, next, count>>
----------------------------------------------------------------------------
Empty == [lines |-> <<>>, bytes |-> 0]
Goto(p, label) == pc' = [pc EXCEPT ![p] = label]
Active == IF seg[0] = None THEN Empty ELSE seg[0]
Needed(prefix) == RecordBytes + IF prefix THEN 1 ELSE 0

Init ==
    /\ seg = [i \in 0 .. oldest |-> None] /\ torn = FALSE /\ lock = None
    /\ pc = [p \in Writers |-> "idle"]
    /\ start = Empty /\ newline = FALSE /\ written = 0
    /\ next = [p \in Writers |-> 0]
    /\ records = 0 /\ returned = {} /\ removed = {} /\ rotations = 0
    /\ crashes = 0 /\ failures = 0

(* record, _exclusive: records are numbered in the order of the lock *)
Lock(p) ==
    /\ pc[p] = "idle" /\ lock = None /\ records < MaxRecords
    /\ lock' = p /\ Goto(p, "open")
    /\ records' = records + 1 /\ next' = [next EXCEPT ![p] = records + 1]
    /\ UNCHANGED <<files, call, returned, removed, rotations, crashes, failures>>

(* _open_log: the active segment is created if need be; a fragment gets a   *)
(* newline first; the line fits, or the segments are rotated                *)
Open(p) ==
    /\ pc[p] = "open"
    /\ start' = Active /\ newline' = torn /\ written' = 0
    /\ Goto(p, IF Active.bytes + Needed(torn) <= segment_bytes THEN "write" ELSE "rotate")
    /\ seg' = [seg EXCEPT ![0] = Active]
    /\ UNCHANGED <<torn, lock, next, count>>

Free == {i \in 1 .. oldest : seg[i] = None}
Lines(s) == {s.lines[k] : k \in DOMAIN s.lines}

(* _rotate: the oldest segment goes when every slot is taken *)
RemoveOldest(p) ==
    /\ pc[p] = "rotate"
    /\ \/ /\ Free = {}
          /\ seg' = [seg EXCEPT ![oldest] = None] /\ removed' = removed \cup Lines(seg[oldest])
       \/ Free # {} /\ UNCHANGED <<seg, removed>>
    /\ Goto(p, "shift")
    /\ UNCHANGED <<torn, lock, call, next, records, returned, rotations, crashes, failures>>

(* Mutant: the active segment is renamed to the free slot, without a shift *)
Shift_Direct(p) ==
    /\ pc[p] = "shift"
    /\ \E j \in Free : /\ \A i \in Free : j <= i
                      /\ seg' = [seg EXCEPT ![j] = seg[0], ![0] = None]
    /\ rotations' = rotations + 1 /\ torn' = FALSE /\ Goto(p, "reopen")
    /\ UNCHANGED <<lock, call, next, records, returned, removed, crashes, failures>>

(* one rename: the segment below the lowest free slot moves into it; the    *)
(* active segment is the last one                                           *)
Shift(p) ==
    /\ pc[p] = "shift"
    /\ \E j \in 0 .. oldest - 1 :
          /\ j + 1 \in Free /\ \A i \in Free : j < i
          /\ seg' = [seg EXCEPT ![j + 1] = seg[j], ![j] = None]
          /\ \/ j > 0 /\ UNCHANGED <<torn, pc, rotations>>
             \/ j = 0 /\ rotations' = rotations + 1 /\ torn' = FALSE /\ Goto(p, "reopen")
    /\ UNCHANGED <<lock, call, next, records, returned, removed, crashes, failures>>

(* _open_log: the new active segment is empty, so no newline goes first *)
Reopen(p) ==
    /\ pc[p] = "reopen" /\ Goto(p, "write")
    /\ seg' = [seg EXCEPT ![0] = Active] /\ start' = Active /\ newline' = FALSE
    /\ UNCHANGED <<torn, lock, written, next, count>>
----------------------------------------------------------------------------
(* the active segment after k bytes of _append: a fragment is one line that *)
(* ends with the newline of the next record                                 *)
After(p, k) ==
    [bytes |-> start.bytes + k,
     lines |-> IF k = Needed(newline) THEN Append(start.lines, next[p])
               ELSE IF k > IF newline THEN 1 ELSE 0 THEN Append(start.lines, 0)
               ELSE start.lines]

(* _append: os.write takes some of the bytes, and is called again *)
Write(p) ==
    /\ pc[p] = "write"
    /\ \E k \in written + 1 .. Needed(newline) :
          /\ seg' = [seg EXCEPT ![0] = After(p, k)]
          /\ torn' = (k < Needed(newline) /\ (k > 1 \/ ~newline))
          /\ written' = k
          /\ Goto(p, IF k = Needed(newline) THEN "close" ELSE "write")
    /\ UNCHANGED <<lock, start, newline, next, count>>

Leave(p) ==
    /\ pc' = [pc EXCEPT ![p] = "idle"] /\ next' = [next EXCEPT ![p] = 0]
    /\ lock' = IF lock = p THEN None ELSE lock
    /\ start' = Empty /\ newline' = FALSE /\ written' = 0

(* a write or the fsync fails: the file is cut back to its former size *)
WriteFails(p) ==
    /\ pc[p] \in {"write", "close"} /\ failures < MaxFailures /\ failures' = failures + 1
    /\ seg' = [seg EXCEPT ![0] = start] /\ torn' = newline
    /\ Leave(p)
    /\ UNCHANGED <<records, returned, removed, rotations, crashes>>

(* opening, removing or renaming a file fails *)
CallFails(p) ==
    /\ pc[p] \in {"open", "rotate", "shift", "reopen"}
    /\ failures < MaxFailures /\ failures' = failures + 1
    /\ Leave(p)
    /\ UNCHANGED <<files, records, returned, removed, rotations, crashes>>

(* fsync, the lock is released and record returns *)
Return(p) ==
    /\ pc[p] = "close" /\ returned' = returned \cup {next[p]}
    /\ Leave(p)
    /\ UNCHANGED <<files, records, removed, rotations, crashes, failures>>

Crash(p) ==
    /\ pc[p] # "idle" /\ crashes < MaxCrashes /\ crashes' = crashes + 1
    /\ Leave(p)
    /\ UNCHANGED <<files, records, returned, removed, rotations, failures>>

Next == \E p \in Writers :
    \/ Lock(p) \/ Open(p) \/ RemoveOldest(p) \/ Shift(p) \/ Reopen(p) \/ Write(p)
    \/ WriteFails(p) \/ CallFails(p) \/ Return(p) \/ Crash(p)

Spec == Init /\ [][Next]_vars
----------------------------------------------------------------------------
Stored(n) == \E i \in 0 .. oldest : seg[i] # None /\ n \in Lines(seg[i])
Fragments == {f \in (0 .. oldest) \X (1 .. segment_bytes) :
                 /\ seg[f[1]] # None /\ f[2] \in DOMAIN seg[f[1]].lines
                 /\ seg[f[1]].lines[f[2]] = 0}
Rotated == {i \in 1 .. oldest : seg[i] # None}

(* A record whose call returned is one whole line of some segment, until    *)
(* that segment has been removed, and what was removed is older than what   *)
(* is there; and a call that failed took back what it had written, so only  *)
(* a killed process leaves a fragment (_append, _open_log).                 *)
NothingLost ==
    /\ \A n \in returned : Stored(n) \/ n \in removed
    /\ \A n \in removed, m \in 1 .. records : Stored(m) => n < m
    /\ lock = None => Cardinality(Fragments) <= crashes

(* From the oldest segment to the active one the lines are in the order in  *)
(* which the records were written, also after an interrupted rotation, no   *)
(* record is there twice, and no segment grows past its limit (_rotate).    *)
Chronological ==
    /\ \A i, j \in 0 .. oldest : seg[i] # None /\ seg[j] # None =>
          \A k \in DOMAIN seg[i].lines, l \in DOMAIN seg[j].lines :
              i > j \/ (i = j /\ k < l) =>
                  \/ 0 \in {seg[i].lines[k], seg[j].lines[l]}
                  \/ seg[i].lines[k] < seg[j].lines[l]
    /\ \A i \in 0 .. oldest : seg[i] # None => seg[i].bytes <= segment_bytes

(* However often rotations are interrupted, at most one of the segments     *)
(* that could be kept is missing: a slot that was emptied is filled before  *)
(* another segment is removed (_rotate).                                    *)
RetentionKept ==
    Cardinality(Rotated) + 1 >= rotations \/ Cardinality(Rotated) + 1 >= oldest

(* Nothing is lost, the lines are in order, and what can be kept is kept.   *)
LogKept == NothingLost /\ Chronological /\ RetentionKept
============================================================================
