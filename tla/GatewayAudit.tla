---------------------------- MODULE GatewayAudit ----------------------------
(* The audit of an instance in either mode (netops/audit.py): files in a    *)
(* queue that is delivered to a collector (AuditQueue), or segments of a    *)
(* local log (AuditSegments). settings["mode"] decides; it changes only     *)
(* while no instance runs, and neither mode reads the files of the other    *)
(* (_paths goes by the suffix), so a behaviour stays in one mode. What the  *)
(* collector has, and what can be read from it again, is a third kind of    *)
(* behaviour, in which no instance takes part (SyslogParts).                *)
EXTENDS AuditQueue

CONSTANTS
    MAX_MESSAGE, local_budget, segment_size, retention, Sizes,
    MaxRecords, MaxDays, MaxLocalFailures,
    Ids, Raws, CHUNK_BYTES, MAX_PARTS, Garbage, Noise, MaxLines   \* see SyslogParts

VARIABLES
    mode,        \* settings["mode"], or "archive"
    sent, lines, \* see SyslogParts
    old, current, quarantine, writing, health, alarm, pc, size, start,
    today, records, returned, removed, lost, local_failures    \* see AuditSegments

Local == INSTANCE AuditSegments
         WITH budget <- local_budget, failures <- local_failures, MaxFailures <- MaxLocalFailures

Archive == INSTANCE SyslogParts WITH archive <- lines

ASSUME AuditAssumption == Local!audit_limits /\ Archive!syslog_limits

segments == <<old, current, quarantine, writing, health, alarm, pc, size, start,
              today, records, returned, removed, lost, local_failures>>
audit == <<mode, vars, segments, sent, lines>>

AuditInit ==
    /\ Init /\ Local!Init
    /\ \/ mode = "archive" /\ Archive!Init
       \/ mode \in {"local", "syslog"} /\ sent = <<>> /\ lines = <<>>

AuditNext ==
    \/ mode = "syslog" /\ Next /\ UNCHANGED <<mode, segments, sent, lines>>
    \/ mode = "local" /\ Local!Next /\ UNCHANGED <<mode, vars, sent, lines>>
    \/ mode = "archive" /\ Archive!Next /\ UNCHANGED <<mode, vars, segments>>

(* an instance that is down is started again *)
AuditSpec ==
    /\ AuditInit /\ [][AuditNext]_audit
    /\ WF_vars(mode = "syslog" /\ Launch) /\ Progress
----------------------------------------------------------------------------
(* A record whose call returned is never lost: it is queued, or all its     *)
(* messages were handed over; locally it is a complete line of a segment    *)
(* until that segment, or a younger one, was removed for age or room.       *)
(* Failures, kills, restarts and recovery lose no record; no record is ever *)
(* glued to an incomplete one, so every complete line is JSON and `audit    *)
(* recover` never refuses; and a fragment is in quarantine before it is cut *)
(* off, whenever the recovery is interrupted; and no health check takes a   *)
(* record that is being written for an incomplete one.                      *)
RecordsKept == NothingLost /\ Local!NothingLost /\ Local!Recoverable

(* Neither the queue nor the segments ever take more than their budget, and *)
(* the budget never keeps an instance down: make_room leaves room for the   *)
(* start record, and removing every other segment always makes room.        *)
BudgetKept == BudgetHolds /\ Local!BudgetHolds

(* As long as the archive holds genuine parts only, in any order and any    *)
(* number of copies, a record comes out unchanged and without a warning as  *)
(* soon as every part is there, and not before; and whatever else the       *)
(* archive holds, chunks of two records, or damaged ones, are never joined  *)
(* (encode_messages, decode_messages; the gateway resends whole batches).   *)
RoundTrip == mode = "archive" => Archive!RoundTrip
=============================================================================
