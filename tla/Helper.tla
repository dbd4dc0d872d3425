------------------------------- MODULE Helper -------------------------------
(* The Helper: its device reads (HelperReads), its configuration captures   *)
(* (ConfigSnapshots), the limits of the proxy in front of it (ProxyLimits), *)
(* and the log in which every call is recorded (Recorder). None of them     *)
(* reads what another keeps: the pages of ssh_read are in _SSH_PAGE_CACHE,  *)
(* the captures in _SNAPSHOTS, the limits in the proxy process and the log  *)
(* in its files, each under a lock of its own, so a behaviour is one of     *)
(* the four. What they have in common is the interface: the captures        *)
(* contact a device through the lanes of HelperReads, and its records       *)
(* succeed or fail as calls of Recorder do.                                 *)
EXTENDS HelperReads

CONSTANTS
    Targets, Texts, Filters, Section, Size, Limits, Available,
    BYTE_BUDGET, PER_TARGET, IN_ALL, MaxCaptures,           \* see ConfigSnapshots
    Aliases, Reads, Alias, Costs, RateLimits, Window, NoPromise,
    CONTINUATION_MAX_ENTRIES, CONTINUATION_TTL_SECONDS,
    MaxPages, MaxTime, MaxSpent,                            \* see ProxyLimits
    Writers, RecordBytes, segment_bytes, retained_segments,
    MaxRecords, MaxCrashes, MaxFailedWrites                 \* see Recorder

VARIABLES
    part,       \* the part of the Helper that acts
    snapshots, diffs, active, budget, made, published, viewed, withheld,   \* see ConfigSnapshots
    now, history, continuations, waiting, relayed, spent, promise, shown, free,
                                                            \* see ProxyLimits
    seg, torn, lock, step, start, newline, written, next, records, returned,
    removed, rotations, crashes, failed_writes              \* see Recorder

Captures == INSTANCE ConfigSnapshots
Proxy == INSTANCE ProxyLimits WITH Limits <- RateLimits, Pages <- MaxPages
Log == INSTANCE Recorder
       WITH pc <- step, failures <- failed_writes, MaxFailures <- MaxFailedWrites

ASSUME HelperAssumption == Captures!configuration_limits /\ Proxy!rate_limits /\ Log!log_limits

captures == <<snapshots, diffs, active, budget, made, published, viewed, withheld>>
limits == <<now, history, continuations, waiting, relayed, spent, promise, shown, free>>
log == <<seg, torn, lock, step, start, newline, written, next, records, returned,
         removed, rotations, crashes, failed_writes>>
helper == <<part, vars, captures, limits, log>>

HelperInit ==
    /\ part \in {"reads", "captures", "limits", "log"}
    /\ Init /\ Captures!Init /\ Proxy!Init /\ Log!Init

HelperNext ==
    /\ \/ part = "reads" /\ Next /\ UNCHANGED <<captures, limits, log>>
       \/ part = "captures" /\ Captures!Next /\ UNCHANGED <<vars, limits, log>>
       \/ part = "limits" /\ Proxy!Next /\ UNCHANGED <<vars, captures, log>>
       \/ part = "log" /\ Log!Next /\ UNCHANGED <<vars, captures, limits>>
    /\ UNCHANGED part

HelperSpec == HelperInit /\ [][HelperNext]_helper
----------------------------------------------------------------------------
(* Captures, views and comparisons together never take more than the budget *)
(* of the process ("Captures and cached diffs share a fixed 512 MiB process *)
(* budget"), those of a target no more than its own limit (_budget).        *)
MemoryBounded == Captures!MemoryBounded

(* Between calls there is no capture that no client was given: "errors      *)
(* discard staged state" (store, discard_snapshot); but for those whose     *)
(* answer was lost because the record of the completion failed, which stay  *)
(* stored (_audit_device_call).                                             *)
PublishedOnly == Captures!PublishedOnly

(* What a client puts together page by page is one output of the device:    *)
(* the pages of a read (_SSH_PAGE_CACHE) and those of a filtered capture    *)
(* (filtered_snapshot), whatever the other clients read meanwhile.          *)
PagesOfOneOutput == PagesWhole /\ Captures!PagesAgree

(* A target is asked for no more in any window than the limit of the moment *)
(* allows ("per-target limit on accepted device operations"), but for pages *)
(* that pass uncounted, and those no more often than the page before was    *)
(* shown, whatever is asked again, expires, is evicted or ends with its     *)
(* session; and a request that was refused is admitted after its            *)
(* retry_after_seconds, if nothing else was meanwhile (_consume_rate_limit, *)
(* _redeem_continuation).                                                   *)
RateKept == Proxy!WindowKept /\ Proxy!FreePagesEarned /\ Proxy!RetryTrue

(* A record whose call returned is one whole line of some segment, until    *)
(* that segment was removed, which was the oldest, and only a killed        *)
(* process leaves a fragment (_append, _open_log). From the oldest segment  *)
(* to the active one the records are in order, none is there twice, and no  *)
(* segment grows past its limit; and however often rotations are            *)
(* interrupted, at most one of the segments that could be kept is missing:  *)
(* a slot that was emptied is filled before another is removed (_rotate).   *)
LogKept == Log!LogKept
=============================================================================
