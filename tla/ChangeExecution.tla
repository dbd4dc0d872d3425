-------------------------- MODULE ChangeExecution --------------------------
(***************************************************************************)
(* The execution of administrator changes on ONE device (netops_admin,     *)
(* execute.py): plan, journal, install the on-device safeguard, change,    *)
(* check, confirm by removing the safeguard or let it revert the change,   *)
(* finish, notify; and the operator commands recover, unblock,             *)
(* notify-retry and enroll that share the journal with it.                 *)
(*                                                                         *)
(* Every command holds the device lock (a non-blocking flock) for its      *)
(* whole duration, so one command at a time has a program counter; a       *)
(* crash releases the lock and loses everything but the journal and the    *)
(* device.  The device runs by itself: its clock moves, an armed           *)
(* safeguard fires, other administrators change the configuration.         *)
(***************************************************************************)
EXTENDS Naturals, FiniteSets

CONSTANTS Ops,          \* change ids the journal can hold
          NoOp,         \* "no operation" (change_id None)
          Free,         \* no block file for the device
          Values,       \* states of the planned object on the device
          Rests,        \* states of the configuration outside that object
          Accounts,     \* fingerprints of the administrator table
          NoAccounts,   \* no fingerprint stored
          Platform,     \* "fortios" or "exos"
          Webhook,      \* TRUE for FortiOS firmware whose safeguard calls the
                        \* device's own API with a token (webhook_firmware)
          Notifier,     \* TRUE when a notification channel is configured
          MaxForeign,   \* bound: changes made by other administrators
          MaxCrashes    \* bound: crashes of a command

ASSUME ConstantsAssumption ==
    /\ NoOp \notin Ops /\ Free \notin Ops /\ Free # NoOp
    /\ NoAccounts \notin Accounts
    /\ Platform \in {"fortios", "exos"}
    /\ Webhook \in BOOLEAN /\ (Webhook => Platform = "fortios")
    /\ Notifier \in BOOLEAN
    /\ MaxForeign \in Nat /\ MaxCrashes \in Nat

VARIABLES
    \* The journal: files that survive a crash.
    rec,        \* operation records; status "none" means no file
    blocked,    \* the block file: Free, or the operation it names (or NoOp)
    baseline,   \* administrator table accepted by the last operation
    cert,       \* enrollment certificate: the accounts it is bound to
    \* The device.
    obj, rest, accounts,
    saved,      \* the startup configuration (EXOS)
    guard,      \* the safeguard of each operation
    phase,      \* device clock relative to fire_at
    \* The command holding the device lock.
    pc, mode, cur,
    out,        \* the result and reason it is about to record
    verdict,    \* what _settle_after_expiry read from the device
    \* History, for the properties and the bounds only.
    latest,     \* the operation planned last
    tampered,   \* another administrator touched the configuration since
    released,   \* operations finished when a person last lifted a block
    delivered,  \* operations whose outcome reached the channel
    foreign, crashes

journal == <<rec, blocked, baseline, cert>>
device  == <<obj, rest, accounts, saved, guard, phase>>
process == <<pc, mode, cur, out, verdict>>
history == <<latest, tampered, released, delivered, foreign, crashes>>
vars    == <<journal, device, process, history>>

(* blocking.py; the snapshot categories are one reason, "postcheck rejected" *)
BLOCKING_RESULTS == {"unknown", "revert-failed"}
BLOCKING_REASONS == {"administrator table", "foreign change", "not persisted",
                     "foreign change during save",
                     "saved configuration unverified", "postcheck rejected"}

(* Of a reason the code only asks whether it is blocking, or one of the two  *)
(* it compares by name: the model keeps that class of the reason.            *)
Reasons == {"plain", "blocking", "safeguard not verified", "enrollment self-test"}
Class(reason) == IF reason \in BLOCKING_REASONS THEN "blocking"
                 ELSE IF reason \in Reasons THEN reason ELSE "plain"
blocks(result, class) == result \in BLOCKING_RESULTS \/ class = "blocking"

(* Mutant: a crash while sending counts as delivered *)
UNDELIVERED_NotSending == {"pending", "failed"}
UNDELIVERED == {"pending", "failed", "sending"}
Marks    == {"safeguard_not_verified", "change_start", "confirm_start", "safeguard_removed"}
Results  == {"none", "rejected", "reverted", "confirmed", "unknown", "revert-failed"}
Notes    == {"none", "not-configured", "pending", "sending", "sent", "failed", "waived"}
Statuses == {"none", "running", "finished"}
Guards   == {"absent",    \* no part on the device
             "partial",   \* the part that arms it (stitch, timer) is absent
             "armed",     \* installed, waiting for fire_at
             "revoked",   \* installed, but its token is gone: it cannot revert
             "fired"}     \* ran the inverse commands, still installed
Phases   == {"early",     \* more than confirm_margin_seconds before fire_at
             "margin", "due",
             "over"}      \* EXPIRY_GRACE_SECONDS after fire_at
Records == [status: Statuses, kind: {"change", "enrollment"}, before: Values, after: Values,
            rest: Rests, accounts: Accounts, guarded: BOOLEAN, steps: SUBSET Marks,
            result: Results, reason: Reasons, notification: Notes]

(* where the command holding the lock is; the owned ones work on cur *)
OwnedLabels == {"prepared", "journaled", "start", "clock", "install", "uninstall", "verified",
                "change", "postcheck", "check", "margin", "final", "confirm", "removed",
                "persist", "saved", "settle", "verdict", "finish", "close", "deliver", "send",
                "sent", "failed", "complete", "remaining", "compare"}
FreeLabels == {"idle", "recover", "unblocked", "waive"}

FIRING_OBSERVED == Platform = "exos"
Config == [obj |-> obj, rest |-> rest]

----------------------------------------------------------------------------
(* engine.verify: the object and the digest of everything else *)
IsBefore(o) == obj = rec[o].before /\ rest = rec[o].rest
IsAfter(o)  == obj = rec[o].after /\ rest = rec[o].rest
Verdict(o)  == IF IsBefore(o) THEN "match"
               ELSE IF obj = rec[o].before THEN "object" ELSE "mismatch"

Goto(label) == pc' = label /\ UNCHANGED <<mode, cur, out, verdict>>
Outcome(label, result, reason) ==
    /\ pc' = label
    /\ out' = [result |-> result, reason |-> Class(reason)]
    /\ UNCHANGED <<mode, cur, verdict>>
Finish(result, reason)  == Outcome("finish", result, reason)
Settle(reason)          == Outcome("settle", "none", reason)
Release == /\ pc' = "idle" /\ mode' = "none" /\ cur' = NoOp
           /\ out' = [result |-> "none", reason |-> "plain"] /\ verdict' = "none"

(* _step: append the step to the record and save it *)
Step(name) == rec' = [rec EXCEPT ![cur].steps = @ \cup {name}]

(* Mutant: the removal commands are trusted, nothing is read back *)
RemoveSafeguard_Trusting(o, removed) ==
    \E left \in {"absent", "partial", guard[o]} : guard' = [guard EXCEPT ![o] = left]

(* remove_safeguard, remove_remaining: the commands may fail half way and   *)
(* are never trusted; the answer is TRUE only when every part is seen gone. *)
RemoveSafeguard(o, removed) ==
    \E left \in IF guard[o] = "absent" THEN {"absent"} ELSE {"absent", "partial", guard[o]} :
        /\ removed => left = "absent"
        /\ guard' = [guard EXCEPT ![o] = left]

Undelivered == {o \in Ops : rec[o].status = "finished" /\ rec[o].notification \in UNDELIVERED}
Running == {o \in Ops : rec[o].status = "running"}
Leftovers == {o \in Ops : guard[o] \in (IF Platform = "exos" THEN {"partial"} ELSE {}) \cup {"armed", "revoked", "fired"}}

----------------------------------------------------------------------------
(* _prepared, first the part that only reads the journal *)
JournalAllows == blocked = Free /\ Undelivered = {} /\ Running = {}

(* _prepared: the checks pass and a plan is built from the snapshot *)
Prepare(o, k, a) ==
    /\ pc = "idle" /\ rec[o].status = "none"
    /\ JournalAllows
    /\ baseline \in {NoAccounts, accounts}
    /\ Leftovers = {}
    /\ Platform = "exos" => saved = Config
    /\ a # obj
    /\ IF k = "enrollment" THEN Notifier ELSE cert = accounts
    /\ rec' = [rec EXCEPT ![o] =
          [status |-> "none", kind |-> k, before |-> obj, after |-> a, rest |-> rest,
           accounts |-> accounts, guarded |-> FALSE, steps |-> {}, result |-> "none",
           reason |-> "plain", notification |-> "none"]]
    /\ pc' = "prepared" /\ mode' = "apply" /\ cur' = o
    /\ latest' = o /\ tampered' = FALSE
    /\ UNCHANGED <<blocked, baseline, cert, device, out, verdict, released, delivered, foreign, crashes>>

(* _prepared, _block_accounts: the administrator table is not the accepted  *)
(* one, or accounts_check refuses it                                        *)
BlockAccounts ==
    /\ pc = "idle" /\ \E o \in Ops : rec[o].status = "none"
    /\ JournalAllows
    /\ blocked' = NoOp
    /\ UNCHANGED <<rec, baseline, cert, device, process, history>>

(* _prepared: the check account sees another state, or a later check refuses *)
Refuse ==
    /\ pc = "prepared"
    /\ Release
    /\ UNCHANGED <<journal, device, history>>

(* _apply: under the admission lock the record becomes a file ... *)
Journal ==
    /\ pc = "prepared" /\ obj = rec[cur].before
    /\ rec' = [rec EXCEPT ![cur].status = "running"]
    /\ Goto("journaled")
    /\ UNCHANGED <<blocked, baseline, cert, device, history>>

(* ... and then the accepted administrator table *)
SaveBaseline ==
    /\ pc = "journaled"
    /\ baseline' = rec[cur].accounts
    /\ Goto("start")
    /\ UNCHANGED <<rec, blocked, cert, device, history>>

(* Mutant: the certificate of the earlier self-test stays valid *)
Start_KeepsCertificate ==
    /\ pc = "start" /\ Goto("clock")
    /\ UNCHANGED <<journal, device, history>>

(* _apply: an enrollment first proves the channel and voids its certificate *)
Start ==
    /\ pc = "start"
    /\ \/ rec[cur].kind = "change" /\ Goto("clock") /\ UNCHANGED cert
       \/ rec[cur].kind = "enrollment" /\ Goto("clock") /\ cert' = NoAccounts
       \/ /\ rec[cur].kind = "enrollment"
          /\ Finish("rejected", "enrollment notification unavailable") /\ UNCHANGED cert
    /\ UNCHANGED <<rec, blocked, baseline, device, history>>

(* _execute: the safeguard and its fire_at are journaled before the install *)
ReadClock ==
    /\ pc = "clock"
    /\ \/ /\ rec' = [rec EXCEPT ![cur].guarded = TRUE]
          /\ phase' = "early"
          /\ Goto("install")
       \/ Finish("rejected", "device clock") /\ UNCHANGED <<rec, phase>>
    /\ UNCHANGED <<blocked, baseline, cert, obj, rest, accounts, saved, guard, history>>

(* install_safeguard: installed and read back, or any part of it unverified *)
InstallSafeguard ==
    /\ pc = "install"
    /\ \/ /\ guard' = [guard EXCEPT ![cur] = "armed"]
          /\ Goto("verified") /\ UNCHANGED rec
       \/ /\ \E left \in {"absent", "partial", "armed"} : guard' = [guard EXCEPT ![cur] = left]
          /\ Step("safeguard_not_verified")
          /\ Goto("uninstall")
    /\ UNCHANGED <<blocked, baseline, cert, obj, rest, accounts, saved, phase, history>>

Uninstall ==
    /\ pc = "uninstall"
    /\ \E removed \in BOOLEAN :
          /\ RemoveSafeguard(cur, removed)
          /\ IF removed THEN Outcome("persist", "reverted", "safeguard not verified")
                        ELSE Finish("unknown", "safeguard not verified")
    /\ UNCHANGED <<journal, obj, rest, accounts, saved, phase, history>>

ChangeStart ==
    /\ pc = "verified"
    /\ Step("change_start")
    /\ Goto("change")
    /\ UNCHANGED <<blocked, baseline, cert, device, history>>

(* access.apply of the plan: complete, or an error after any number of lines *)
ApplyChange ==
    /\ pc = "change"
    /\ \/ /\ obj' \in IF obj = rec[cur].before THEN {rec[cur].after} ELSE Values
          /\ Goto("postcheck")
       \/ obj' \in Values /\ Settle("change failed")
    /\ UNCHANGED <<journal, rest, accounts, saved, guard, phase, history>>

(* the first reading after the change: accounts, then the prediction *)
Postcheck ==
    /\ pc = "postcheck"
    /\ \/ Settle("postcheck unavailable")
       \/ Settle("postcheck rejected")
       \/ accounts # rec[cur].accounts /\ Settle("administrator table")
       \/ accounts = rec[cur].accounts /\ ~IsAfter(cur) /\ Settle("prediction mismatch")
       \/ accounts = rec[cur].accounts /\ IsAfter(cur) /\ Goto("check")
    /\ UNCHANGED <<journal, device, history>>

(* the audit gate, then the second identity; an enrollment stops here *)
CheckIdentity ==
    /\ pc = "check"
    /\ \/ Settle("audit finding")
       \/ obj # rec[cur].after /\ Settle("check identity mismatch")
       \/ /\ obj = rec[cur].after
          /\ IF rec[cur].kind = "enrollment" THEN Settle("enrollment self-test") ELSE Goto("margin")
    /\ UNCHANGED <<journal, device, history>>

CheckMargin ==
    /\ pc = "margin"
    /\ \/ phase = "early" /\ Goto("final")
       \/ Settle("no time left to confirm")
    /\ UNCHANGED <<journal, device, history>>

FinalCheck ==
    /\ pc = "final"
    /\ \/ Settle("final check unavailable") /\ UNCHANGED rec
       \/ /\ ~IsAfter(cur)
          /\ Settle(IF IsBefore(cur) THEN "safeguard fired during confirmation" ELSE "foreign change")
          /\ UNCHANGED rec
       \/ IsAfter(cur) /\ Step("confirm_start") /\ Goto("confirm")
    /\ UNCHANGED <<blocked, baseline, cert, device, history>>

(* confirming a change is removing its safeguard *)
Confirm ==
    /\ pc = "confirm"
    /\ \E removed \in BOOLEAN :
          /\ RemoveSafeguard(cur, removed)
          /\ IF removed THEN Goto("removed") ELSE Settle("confirmation unverified")
    /\ UNCHANGED <<journal, obj, rest, accounts, saved, phase, history>>

RemovalCheck ==
    /\ pc = "removed"
    /\ \/ Finish("unknown", "final check unavailable")
       \/ IsBefore(cur) /\ Finish("reverted", "safeguard fired during confirmation")
       \/ ~IsAfter(cur) /\ ~IsBefore(cur) /\ Finish("unknown", "foreign change after the safeguard was removed")
       \/ IsAfter(cur) /\ Outcome("persist", "confirmed", "none")
    /\ UNCHANGED <<journal, device, history>>

(* Mutant: a failed save of the configuration is taken for a saved one *)
Persist_IgnoresFailure ==
    /\ pc = "persist"
    /\ saved' \in {saved, Config}
    /\ Goto("finish")
    /\ UNCHANGED <<journal, obj, rest, accounts, guard, phase, history>>

(* _persist: FortiOS stores every change by itself, EXOS on command.  Only  *)
(* _execute reads the device once more after saving a confirmed change.     *)
Persist ==
    /\ pc = "persist"
    /\ \/ Platform = "fortios" /\ Goto("finish") /\ UNCHANGED saved
       \/ /\ Platform = "exos" /\ saved' = Config
          /\ Goto(IF mode = "apply" /\ out.result = "confirmed" THEN "saved" ELSE "finish")
       \/ /\ Platform = "exos" /\ saved' \in {saved, Config}
          /\ Finish(out.result, "not persisted")
    /\ UNCHANGED <<journal, obj, rest, accounts, guard, phase, history>>

SavedCheck ==
    /\ pc = "saved"
    /\ \/ Finish("confirmed", "saved configuration unverified")
       \/ ~IsAfter(cur) /\ Finish("confirmed", "foreign change during save")
       \/ IsAfter(cur) /\ Goto("finish")
    /\ UNCHANGED <<journal, device, history>>

(* Mutant: waiting has no limit and a failed reading is repeated for ever *)
WaitForExpiry_NoLimit ==
    /\ pc = "settle"
    /\ phase = "over"
    /\ FIRING_OBSERVED => guard[cur] = "fired"
    /\ pc' = "verdict" /\ verdict' = Verdict(cur)
    /\ UNCHANGED <<mode, cur, out, journal, device, history>>

(* Mutant: a timer seen fired is taken for a reverted change *)
WaitForExpiry_FiredIsReverted ==
    /\ pc = "settle"
    /\ \/ Finish("unknown", out.reason)
       \/ /\ phase = "over"
          /\ FIRING_OBSERVED => guard[cur] = "fired"
          /\ pc' = "verdict" /\ verdict' = "match"
          /\ UNCHANGED <<mode, cur, out>>
    /\ UNCHANGED <<journal, device, history>>

(* _settle_after_expiry: wait until fire_at and the grace have passed (on   *)
(* EXOS until the timer is seen expired), then compare with the plan.       *)
WaitForExpiry ==
    /\ pc = "settle"
    /\ \/ Finish("unknown", out.reason)
       \/ /\ phase = "over"
          /\ FIRING_OBSERVED => guard[cur] = "fired"
          /\ pc' = "verdict" /\ verdict' = Verdict(cur)
          /\ UNCHANGED <<mode, cur, out>>
    /\ UNCHANGED <<journal, device, history>>

(* revoke_token: the API user of a webhook and its profile are removed.  The *)
(* stitch stays installed, but what it calls refuses it from now on.         *)
RevokeToken ==
    /\ Webhook /\ guard[cur] = "armed"
    /\ guard' = [guard EXCEPT ![cur] = "revoked"]

(* Without proof of the firing an unreverted change keeps its safeguard; on  *)
(* webhook firmware the token is revoked, or the attempt at it fails.        *)
KeepSafeguard ==
    /\ pc = "verdict"
    /\ verdict = "mismatch" /\ ~FIRING_OBSERVED
    /\ RevokeToken \/ UNCHANGED guard
    /\ Finish("unknown", out.reason)
    /\ UNCHANGED <<journal, obj, rest, accounts, saved, phase, history>>

(* Mutant: the safeguard is removed whether or not its firing is proven *)
SettleVerdict_AlwaysRemoves ==
    /\ pc = "verdict"
    /\ \E removed \in BOOLEAN :
          /\ RemoveSafeguard(cur, removed)
          /\ \/ verdict = "match" /\ removed /\ Outcome("persist", "reverted", out.reason)
             \/ verdict = "match" /\ ~removed /\ Finish("unknown", "safeguard cleanup unverified")
             \/ verdict = "object" /\ Finish("reverted", "foreign change")
             \/ verdict = "mismatch" /\ Finish("revert-failed", out.reason)
    /\ UNCHANGED <<journal, obj, rest, accounts, saved, phase, history>>

SettleVerdict ==
    /\ pc = "verdict"
    /\ verdict = "mismatch" /\ ~FIRING_OBSERVED => guard[cur] \in {"absent", "partial"}
    /\ \E removed \in BOOLEAN :
          /\ RemoveSafeguard(cur, removed)
          /\ \/ verdict = "match" /\ removed /\ Outcome("persist", "reverted", out.reason)
             \/ verdict = "match" /\ ~removed /\ Finish("unknown", "safeguard cleanup unverified")
             \* a blocking reason is kept, and is of the same class
             \/ verdict = "object" /\ Finish("reverted", "foreign change")
             \/ verdict = "mismatch" /\ Finish("revert-failed", out.reason)
    /\ UNCHANGED <<journal, obj, rest, accounts, saved, phase, history>>

----------------------------------------------------------------------------
(* Mutant: a blocking reason of a reverted or confirmed change is overlooked *)
Block_ResultOnly ==
    /\ pc = "finish"
    /\ blocked' = IF out.result \in BLOCKING_RESULTS THEN cur ELSE blocked
    /\ Goto("close")
    /\ UNCHANGED <<rec, baseline, cert, device, history>>

(* _finish: the block is written before the record is closed *)
Block ==
    /\ pc = "finish"
    /\ blocked' = IF blocks(out.result, out.reason) THEN cur ELSE blocked
    /\ Goto("close")
    /\ UNCHANGED <<rec, baseline, cert, device, history>>

(* where the command goes once the outcome of cur is recorded and announced *)
Return(note) ==
    IF mode = "recover" THEN Goto("recover")
    ELSE IF /\ mode = "apply" /\ rec[cur].kind = "enrollment" /\ note = "sent"
            /\ out = [result |-> "reverted", reason |-> "enrollment self-test"]
    THEN Goto("complete") ELSE Release

Close ==
    /\ pc = "close"
    /\ LET note == IF Notifier THEN "pending" ELSE "not-configured"
       IN /\ rec' = [rec EXCEPT ![cur].status = "finished", ![cur].result = out.result,
                                ![cur].reason = out.reason, ![cur].notification = note]
          /\ IF Notifier THEN Goto("deliver") ELSE Return(note)
    /\ UNCHANGED <<blocked, baseline, cert, device, history>>

(* _deliver_notification: "sending" is journaled, then the channel is tried, *)
(* then the answer is journaled; a failed attempt may have been received.    *)
Deliver ==
    /\ pc = "deliver"
    /\ rec' = [rec EXCEPT ![cur].notification = IF @ \in UNDELIVERED THEN "sending" ELSE @]
    /\ Goto("send")
    /\ UNCHANGED <<blocked, baseline, cert, device, history>>

Send ==
    /\ pc = "send"
    /\ \/ Goto("sent") /\ delivered' = delivered \cup {cur}
       \/ Goto("failed") /\ delivered' \in {delivered, delivered \cup {cur}}
    /\ UNCHANGED <<journal, device, latest, tampered, released, foreign, crashes>>

Noted == /\ pc \in {"sent", "failed"}
         /\ LET note == IF pc = "failed" /\ rec[cur].notification = "waived" THEN "waived" ELSE pc
            IN rec' = [rec EXCEPT ![cur].notification = note] /\ Return(note)
         /\ UNCHANGED <<blocked, baseline, cert, device, history>>

(* enrollment.complete: read everything again, then certify or block *)
CompleteEnrollment ==
    /\ pc = "complete"
    /\ \/ /\ IsBefore(cur) /\ accounts = rec[cur].accounts /\ guard[cur] = "absent"
          /\ cert' = accounts /\ UNCHANGED blocked
       \/ blocked' = cur /\ UNCHANGED cert
    /\ Release
    /\ UNCHANGED <<rec, baseline, device, history>>

----------------------------------------------------------------------------
(* recover: settle every running record, then clean an unverified safeguard *)
Recover ==
    /\ pc = "idle"
    /\ pc' = "recover" /\ mode' = "recover"
    /\ UNCHANGED <<journal, device, cur, out, verdict, history>>

TakeUp(o, label, result, reason) ==
    /\ pc' = label /\ cur' = o
    /\ out' = [result |-> result, reason |-> Class(reason)]
    /\ UNCHANGED <<mode, verdict>>
RecoverRecord(o) ==
    /\ pc = "recover" /\ o \in Running
    /\ \/ /\ ~rec[o].guarded
          /\ TakeUp(o, "finish", "rejected", "interrupted before any mutation")
       \/ /\ rec[o].guarded
          /\ \/ TakeUp(o, "finish", "unknown", "interrupted; device unreachable")
             \/ TakeUp(o, "settle", "none", "interrupted") \* present, or not read
             \/ guard[o] \in {"absent", "partial"} /\ TakeUp(o, "remaining", "none", "none")
             \/ guard[o] = "absent" /\ TakeUp(o, "compare", "none", "none")
    /\ UNCHANGED <<journal, device, history>>

RemoveRemaining ==
    /\ pc = "remaining"
    /\ \E removed \in BOOLEAN :
          /\ RemoveSafeguard(cur, removed)
          /\ IF removed THEN Goto("compare") ELSE Finish("unknown", "safeguard cleanup unverified")
    /\ UNCHANGED <<journal, obj, rest, accounts, saved, phase, history>>

(* no safeguard left: the device and confirm_start tell how far it came *)
Compare ==
    /\ pc = "compare"
    /\ \/ Finish("unknown", "interrupted; state unreadable")
       \/ /\ IsAfter(cur) /\ "confirm_start" \in rec[cur].steps
          /\ Outcome("persist", "confirmed", "confirmed before the interruption")
       \/ IsBefore(cur) /\ Outcome("persist", "reverted", "interrupted")
       \/ /\ IsAfter(cur) /\ "confirm_start" \notin rec[cur].steps
          /\ Finish("unknown", "interrupted; confirm_start is missing")
       \/ ~IsAfter(cur) /\ ~IsBefore(cur) /\ Finish("unknown", "interrupted; state matches neither side")
    /\ UNCHANGED <<journal, device, history>>

(* _unverified_safeguard: the block names an operation that stopped there *)
UnverifiedSafeguard == {o \in Ops :
    /\ blocked = o /\ rec[o].status = "finished"
    /\ rec[o].result = "unknown" /\ rec[o].reason = "safeguard not verified"
    /\ "safeguard_not_verified" \in rec[o].steps
    /\ rec[o].steps \cap {"change_start", "safeguard_removed"} = {}}

RecoverLeftover ==
    /\ pc = "recover" /\ Running = {}
    /\ \/ /\ UnverifiedSafeguard = {} /\ UNCHANGED <<rec, guard>>
       \/ \E o \in UnverifiedSafeguard, removed \in BOOLEAN :
             /\ RemoveSafeguard(o, removed)
             /\ rec' = IF removed THEN [rec EXCEPT ![o].steps = @ \cup {"safeguard_removed"}] ELSE rec
    /\ Release
    /\ UNCHANGED <<blocked, baseline, cert, obj, rest, accounts, saved, phase, history>>

(* unblock: lift the block, forget the accepted accounts, waive notifications *)
Unblock ==
    /\ pc = "idle"
    /\ \/ /\ blocked # Free /\ blocked' = Free /\ pc' = "unblocked"
          /\ released' = {o \in Ops : rec[o].status = "finished"}
       \/ /\ blocked = Free /\ Undelivered # {} /\ pc' = "waive"
          /\ UNCHANGED <<blocked, released>>
    /\ UNCHANGED <<rec, baseline, cert, device, mode, cur, out, verdict,
                   latest, tampered, delivered, foreign, crashes>>

ClearBaseline ==
    /\ pc = "unblocked"
    /\ baseline' = NoAccounts
    /\ Goto("waive")
    /\ UNCHANGED <<rec, blocked, cert, device, history>>

Waive ==
    /\ pc = "waive"
    /\ rec' = [o \in Ops |-> IF o \in Undelivered THEN [rec[o] EXCEPT !.notification = "waived"] ELSE rec[o]]
    /\ Release
    /\ UNCHANGED <<blocked, baseline, cert, device, history>>

NotifyRetry(o) ==
    /\ pc = "idle" /\ Notifier
    /\ rec[o].status = "finished" /\ rec[o].notification # "sent"
    /\ pc' = "deliver" /\ mode' = "notify" /\ cur' = o
    /\ UNCHANGED <<journal, device, out, verdict, history>>

(* The command dies, or a write of the journal or of the audit log fails *)
Crash ==
    /\ pc # "idle" /\ crashes < MaxCrashes
    /\ crashes' = crashes + 1
    /\ Release
    /\ UNCHANGED <<journal, device, latest, tampered, released, delivered, foreign>>

----------------------------------------------------------------------------
(* The device, external to the program *)
Tick ==
    /\ phase # "over"
    /\ phase' = CASE phase = "early" -> "margin" [] phase = "margin" -> "due" [] phase = "due" -> "over"
    /\ UNCHANGED <<journal, obj, rest, accounts, saved, guard, process, history>>

(* An armed safeguard runs the inverse commands some time after fire_at;    *)
(* they restore the object or fail.                                         *)
Fire(o) ==
    /\ guard[o] = "armed" /\ phase \in {"due", "over"}
    /\ guard' = [guard EXCEPT ![o] = "fired"]
    /\ obj' \in {rec[o].before, obj}
    /\ UNCHANGED <<journal, rest, accounts, saved, phase, process, history>>

(* Another administrator changes or saves the configuration *)
Foreign ==
    /\ foreign < MaxForeign /\ foreign' = foreign + 1
    /\ tampered' = TRUE
    /\ \/ obj' \in Values \ {obj} /\ UNCHANGED <<rest, accounts, saved>>
       \/ rest' \in Rests \ {rest} /\ UNCHANGED <<obj, accounts, saved>>
       \/ accounts' \in Accounts \ {accounts} /\ UNCHANGED <<obj, rest, saved>>
       \/ Platform = "exos" /\ saved # Config /\ saved' = Config /\ UNCHANGED <<obj, rest, accounts>>
    /\ UNCHANGED <<journal, guard, phase, process, latest, released, delivered, crashes>>

----------------------------------------------------------------------------
Init ==
    /\ obj \in Values /\ rest \in Rests /\ accounts \in Accounts
    /\ saved = Config
    /\ guard = [o \in Ops |-> "absent"] /\ phase = "over"
    /\ rec = [o \in Ops |->
          [status |-> "none", kind |-> "change", before |-> obj, after |-> obj, rest |-> rest,
           accounts |-> accounts, guarded |-> FALSE, steps |-> {}, result |-> "none",
           reason |-> "plain", notification |-> "none"]]
    /\ blocked = Free
    /\ baseline = NoAccounts /\ cert \in {NoAccounts, accounts}
    /\ pc = "idle" /\ mode = "none" /\ cur = NoOp /\ verdict = "none"
    /\ out = [result |-> "none", reason |-> "plain"]
    /\ latest = NoOp /\ tampered = FALSE /\ released = {} /\ delivered = {}
    /\ foreign = 0 /\ crashes = 0

(* the steps of _apply and _execute *)
ApplySteps ==
    \/ Refuse \/ Journal \/ SaveBaseline \/ Start \/ ReadClock
    \/ InstallSafeguard \/ Uninstall \/ ChangeStart \/ ApplyChange \/ Postcheck
    \/ CheckIdentity \/ CheckMargin \/ FinalCheck \/ Confirm \/ RemovalCheck
    \/ SavedCheck \/ CompleteEnrollment
SettleSteps == Persist \/ WaitForExpiry \/ KeepSafeguard \/ SettleVerdict
FinishSteps == Block \/ Close \/ Deliver \/ Send \/ Noted
RecoverSteps == (\E o \in Ops : RecoverRecord(o)) \/ RemoveRemaining \/ Compare \/ RecoverLeftover
UnblockSteps == ClearBaseline \/ Waive

CommandStep == ApplySteps \/ SettleSteps \/ FinishSteps \/ RecoverSteps \/ UnblockSteps
Command ==
    \/ \E o \in Ops, k \in {"change", "enrollment"}, a \in Values : Prepare(o, k, a)
    \/ BlockAccounts \/ Recover \/ Unblock
    \/ \E o \in Ops : NotifyRetry(o)
Device == Tick \/ (\E o \in Ops : Fire(o)) \/ Foreign

Next == Command \/ CommandStep \/ Crash \/ Device
Spec == Init /\ [][Next]_vars

(* The commands are finite programs that run until they return or crash,    *)
(* the device clock moves and an operator runs recover while an operation   *)
(* is left running.                                                         *)
FairSpec == Spec /\ WF_vars(CommandStep) /\ WF_vars(Tick) /\ WF_vars(Recover)

----------------------------------------------------------------------------
JournalType ==
    /\ rec \in [Ops -> Records]
    /\ blocked \in Ops \cup {NoOp, Free}
    /\ baseline \in Accounts \cup {NoAccounts}
    /\ cert \in Accounts \cup {NoAccounts}
DeviceType ==
    /\ obj \in Values /\ rest \in Rests /\ accounts \in Accounts
    /\ saved \in [obj: Values, rest: Rests]
    /\ guard \in [Ops -> Guards] /\ phase \in Phases
ProcessType ==
    /\ \/ pc \in OwnedLabels /\ cur \in Ops
       \/ pc \in FreeLabels /\ cur \in Ops \cup {NoOp}
    /\ mode \in {"none", "apply", "recover", "notify"}
    /\ out \in [result: Results, reason: Reasons]
    /\ verdict \in {"none", "match", "object", "mismatch"}
HistoryType ==
    /\ latest \in Ops \cup {NoOp} /\ tampered \in BOOLEAN
    /\ released \in SUBSET Ops /\ delivered \in SUBSET Ops
    /\ foreign \in 0..MaxForeign /\ crashes \in 0..MaxCrashes
(* TypeOK, in four parts: the journal files, the device, the command, the   *)
(* history.  A command at an owned label always has an operation, so no     *)
(* step of execute.py acts on a missing record.                             *)
TypeOK == JournalType /\ DeviceType /\ ProcessType /\ HistoryType

(* what the device should hold after an outcome without a block *)
Expected(result, o) == IF result = "confirmed" THEN rec[o].after ELSE rec[o].before
Settled(o) == rec[o].status = "finished" /\ ~blocks(rec[o].result, rec[o].reason)

(* The journal never holds two unsettled operations of the device, whatever *)
(* crashes happen: _prepared refuses while one is running.                  *)
AtMostOneRunning == \A o, p \in Running : o = p

(* An outcome that calls for a person leaves the device blocked until a     *)
(* person lifts the block: _finish writes the block before it closes the    *)
(* record, so no crash can separate them.                                   *)
BlockingOutcomeBlocks ==
    \A o \in Ops : rec[o].status = "finished" /\ ~Settled(o) /\ o \notin released => blocked # Free

(* Write-ahead: a safeguard on the device is named by a saved record, and   *)
(* when the object is not what the last operation found, its record says    *)
(* that the change was started: recovery never mistakes it for untouched.   *)
WriteAhead ==
    /\ \A o \in Ops : guard[o] # "absent" => rec[o].status # "none" /\ rec[o].guarded
    /\ \A o \in Ops : o = latest /\ ~tampered /\ obj # rec[o].before =>
          rec[o].guarded /\ "change_start" \in rec[o].steps

(* No operation is closed without a block while a part of its safeguard is  *)
(* still on the device: a closed change is never reverted behind the        *)
(* operator's back.                                                         *)
SettledSafeguardGone == \A o \in Ops : Settled(o) => guard[o] = "absent"

(* The recorded outcome is the truth.  Unless somebody else touched the     *)
(* device, a confirmed change is on it, and after any other closed outcome  *)
(* the object is as it was before the operation.                            *)
SettledOutcomeTrue ==
    \A o \in Ops : o = latest /\ Settled(o) /\ ~tampered =>
        obj = Expected(rec[o].result, o)

(* On EXOS the outcome also survives a reboot: the startup configuration is *)
(* the running one once an operation is closed without a block.             *)
SettledOutcomeSaved ==
    Platform = "exos" =>
        \A o \in Ops : o = latest /\ Settled(o) /\ ~tampered => saved = Config

(* While an operation runs, every earlier outcome has reached the channel   *)
(* or was waived by a person: a crash between the record and the channel    *)
(* cannot lose the message.                                                 *)
EarlierOutcomesReported ==
    Notifier /\ Running # {} =>
        \A o \in Ops : rec[o].status = "finished" => o \in delivered \/ rec[o].notification = "waived"

(* A certificate that outlives the last self-test was earned by it: the     *)
(* self-test voids the earlier certificate before it touches the device.    *)
CertificateEarned ==
    \A o \in Ops : /\ o = latest /\ rec[o].kind = "enrollment" /\ rec[o].guarded
                   /\ cert # NoAccounts
        => /\ rec[o].status = "finished" /\ o \in delivered
           /\ rec[o].result = "reverted" /\ rec[o].reason = "enrollment self-test"

(* the token is revoked after the time to fire, the outcome is unknown *)
GivenUp(o) == /\ Webhook /\ guard'[o] = "revoked"
              /\ phase = "over" /\ rec[o].status = "running"
              /\ cur' = o /\ pc' = "finish" /\ out'.result = "unknown"

(* The program takes the power of an armed safeguard away only to confirm   *)
(* (confirm_start is journaled) or when the object is back, with one        *)
(* exception.  On webhook firmware _settle_after_expiry revokes the token   *)
(* with the change still on the device.  Then the safeguard stays in place, *)
(* its firing time and the grace have passed without effect, and the        *)
(* command is about to record "unknown", which blocks the device.           *)
NeverDisarmedUnconfirmed ==
    [][\A o \in Ops : guard[o] = "armed" /\ guard'[o] \notin {"armed", "fired"} /\ ~tampered =>
          obj = rec[o].before \/ "confirm_start" \in rec[o].steps \/ GivenUp(o)]_vars

(* A recorded outcome is final: no later command, recover included, changes *)
(* the result or the reason of a finished record.                           *)
OutcomeFinal ==
    [][\A o \in Ops : rec[o].status = "finished" =>
          /\ rec'[o].status = "finished"
          /\ rec'[o].result = rec[o].result /\ rec'[o].reason = rec[o].reason]_vars

(* Every operation that reached the journal is settled, although commands   *)
(* crash, as long as recover is run again.                                  *)
EveryOperationSettles ==
    \A o \in Ops : rec[o].status = "running" ~> rec[o].status = "finished"
============================================================================
