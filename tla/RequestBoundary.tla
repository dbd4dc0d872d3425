--------------------------- MODULE RequestBoundary ---------------------------
(* The audit boundary of the gateway (src/netops/gateway.py) and the worker *)
(* of a role behind it (ipc.py, worker.py): a request is authenticated,     *)
(* waits for its semaphores, is read, audited, dispatched to the role, and  *)
(* its answer is audited before it is sent. Any await may be the point      *)
(* where a shutdown cancels the task, every record may fail, the token may  *)
(* be rotated at any time, and the process may die. The worker executes one *)
(* call after the other, also when its caller has gone; a call may be lost  *)
(* in it, as when it ends.                                                  *)
EXTENDS Naturals, FiniteSets

CONSTANTS
    Requests,
    MAX_CONCURRENT_REQUESTS,
    None,
    MaxRotations, MaxFailures   \* bounds

ASSUME BoundaryAssumption ==
    /\ MAX_CONCURRENT_REQUESTS \in Nat \ {0} /\ None \notin Requests

VARIABLES
    pc,            \* what the task of a request awaits
    slots,         \* free units of AuditBoundary.slots
    large,         \* holder of large_requests
    waiting,       \* tasks in _admit
    token,         \* number of the current token
    seen,          \* original_token
    cancel,        \* a cancellation that was not delivered yet
    dispatched,    \* the flag of handle
    log,           \* the durable audit: <<request, direction>>
    phase,         \* of the server and its lifespan
    took,          \* slots taken by lifespan at the end
    work,          \* what the worker of the role has of a request
    told,          \* answers sent
    executed,      \* requests the role has begun to execute
    trouble,       \* requests for which a record or a read of the token failed
    failures

semaphores == <<slots, large, waiting>>
server == <<token, phase, took>>
history == <<told, executed, trouble, failures>>
vars == <<pc, semaphores, server, work, seen, cancel, dispatched, log, history>>
----------------------------------------------------------------------------
(* labels of a task in _admit, and of one that holds a slot *)
Admitting == {"large", "slot", "admitcancel1", "admitcancel2", "out"}
Holding == {"body", "bodycancel1", "bodycancel2", "bodyrecord", "bodygone", "refuse",
            "request", "gate", "early", "probe", "gone1", "gone2", "app", "failed1", "failed2",
            "withheld", "response", "end", "send", "replyearly", "replyfailed", "replywithheld",
            "interrupt1", "interrupt2", "unavailable", "leave"}

Alive == phase \notin {"stopped", "dead"}
Goto(r, label) == pc' = [pc EXCEPT ![r] = label]
Tell(r, kind, may) == told' = [told EXCEPT ![r] = [kind |-> kind, may |-> may]]
Cancelled(r, label) == cancel[r] /\ cancel' = [cancel EXCEPT ![r] = FALSE] /\ Goto(r, label)

(* Audit.record: the record is written even if the caller is cancelled      *)
(* meanwhile, which it is told afterwards; or AuditUnavailable is raised    *)
(* and a cancellation that came meanwhile is forgotten.                     *)
Record(r, dir, next, failed, cancelled) ==
    /\ \/ /\ log' = log \cup {<<r, dir>>}
          /\ (Goto(r, next) /\ UNCHANGED cancel) \/ Cancelled(r, cancelled)
          /\ UNCHANGED <<trouble, failures>>
       \/ /\ failures < MaxFailures /\ failures' = failures + 1
          /\ trouble' = trouble \cup {r} /\ UNCHANGED log
          /\ (Goto(r, failed) /\ UNCHANGED cancel) \/ Cancelled(r, failed)
    /\ UNCHANGED <<server, work, seen, told, executed>>
----------------------------------------------------------------------------
Init ==
    /\ pc = [r \in Requests |-> "new"] /\ cancel = [r \in Requests |-> FALSE]
    /\ slots = MAX_CONCURRENT_REQUESTS /\ large = None /\ waiting = 0 /\ took = 0
    /\ seen = [r \in Requests |-> 0] /\ dispatched = [r \in Requests |-> FALSE]
    /\ token = 0 /\ log = {} /\ phase = "serving"
    /\ told = [r \in Requests |-> [kind |-> "none", may |-> "silent"]]
    /\ work = [r \in Requests |-> "none"]
    /\ executed = {} /\ trouble = {} /\ failures = 0

(* __call__: a request without the current token, or whose token cannot be  *)
(* compared, is refused; the others enter _admit                            *)
Arrive(r) ==
    /\ pc[r] = "new" /\ phase = "serving"
    /\ \/ /\ Goto(r, "done") /\ Tell(r, "refused", "no") /\ UNCHANGED <<waiting, seen>>
       \/ /\ seen' = [seen EXCEPT ![r] = token] /\ waiting' = waiting + 1
          /\ \E label \in {"large", "slot"} : Goto(r, label)      \* large_request
          /\ UNCHANGED told
    /\ UNCHANGED <<slots, large, server, work, cancel, dispatched, log, executed, trouble, failures>>

AcquireLarge(r) ==
    /\ pc[r] = "large" /\ large = None
    /\ large' = r /\ Goto(r, "slot")
    /\ UNCHANGED <<slots, waiting, server, work, seen, cancel, dispatched, log, history>>

AcquireSlot(r) ==
    /\ pc[r] = "slot" /\ slots > 0
    /\ slots' = slots - 1 /\ waiting' = waiting - 1 /\ Goto(r, "body")
    /\ UNCHANGED <<large, server, work, seen, cancel, dispatched, log, history>>

CancelAdmission(r) ==
    /\ pc[r] \in {"large", "slot"} /\ Cancelled(r, "admitcancel1")
    /\ large' = IF large = r THEN None ELSE large
    /\ UNCHANGED <<slots, waiting, server, work, seen, dispatched, log, history>>

(* _admission_cancelled: two records, whether or not the first one succeeds *)
AdmissionCancelled(r) ==
    /\ pc[r] = "admitcancel1"
    /\ Record(r, "admission_cancelled", "admitcancel2", "admitcancel2", "admitcancel2")
    /\ UNCHANGED <<semaphores, dispatched>>

(* Mutant: a cancelled waiter is still counted *)
AdmissionEnd_Counted(r) ==
    /\ pc[r] = "admitcancel2"
    /\ Record(r, "connection_end", "out", "out", "out")
    /\ UNCHANGED <<slots, large, waiting, dispatched>>

AdmissionEnd(r) ==
    /\ pc[r] = "admitcancel2"
    /\ Record(r, "connection_end", "out", "out", "out")
    /\ waiting' = waiting - 1 /\ UNCHANGED <<slots, large, dispatched>>
----------------------------------------------------------------------------
(* handle: the body is complete, too large, late or broken off; a complete  *)
(* one is accepted when the token is still the one it was admitted with     *)
ReadBody(r) ==
    /\ pc[r] = "body"
    /\ \/ token = seen[r] /\ Goto(r, "request")
       \/ Goto(r, "refuse")
       \/ Goto(r, "bodyrecord")
       \/ Goto(r, "bodygone")
    /\ UNCHANGED <<semaphores, server, work, seen, cancel, dispatched, log, history>>

CancelBody(r) ==
    /\ pc[r] = "body" /\ Cancelled(r, "bodycancel1")
    /\ UNCHANGED <<semaphores, server, work, seen, dispatched, log, history>>

BodyCancelled(r) ==
    /\ \/ /\ pc[r] = "bodycancel1"
          /\ Record(r, "request_body_cancelled", "bodycancel2", "bodycancel2", "bodycancel2")
       \/ pc[r] = "bodycancel2" /\ Record(r, "connection_end", "leave", "leave", "leave")
    /\ UNCHANGED <<semaphores, dispatched>>

BodyRejected(r) ==
    /\ \/ pc[r] = "bodyrecord" /\ Record(r, "rejection", "refuse", "unavailable", "leave")
       \/ pc[r] = "bodygone" /\ Record(r, "client_disconnect", "leave", "unavailable", "leave")
    /\ UNCHANGED <<semaphores, dispatched>>

Refuse(r) ==
    /\ pc[r] = "refuse"
    /\ \/ Goto(r, "leave") /\ Tell(r, "refused", "no") /\ UNCHANGED cancel
       \/ Cancelled(r, "leave") /\ UNCHANGED told
    /\ UNCHANGED <<semaphores, server, work, seen, dispatched, log, executed, trouble, failures>>
----------------------------------------------------------------------------

RecordRequest(r) ==
    /\ pc[r] = "request" /\ Record(r, "request", "gate", "unavailable", "interrupt1")
    /\ UNCHANGED <<semaphores, dispatched>>

(* dispatched is set, then the role is called *)
Dispatch(r) == dispatched' = [dispatched EXCEPT ![r] = TRUE] /\ Goto(r, "app")

(* unusable requests and /health are answered at once; a large request is   *)
(* not dispatched when its client has gone meanwhile (client_gone)          *)
Gate(r) ==
    /\ pc[r] = "gate"
    /\ \/ Goto(r, "early") /\ UNCHANGED dispatched
       \/ large = r /\ Goto(r, "probe") /\ UNCHANGED dispatched
       \/ large # r /\ Dispatch(r)
    /\ UNCHANGED <<semaphores, server, work, seen, cancel, log, history>>

Probe(r) ==
    /\ pc[r] = "probe"
    /\ \/ Dispatch(r) /\ UNCHANGED cancel
       \/ Goto(r, "gone1") /\ UNCHANGED <<dispatched, cancel>>
       \/ Cancelled(r, "interrupt1") /\ UNCHANGED dispatched
    /\ UNCHANGED <<semaphores, server, work, seen, log, history>>

(* RemoteTool.run: rpc sends the call to the worker, if it needs one *)
Call(r) ==
    /\ pc[r] = "app" /\ work[r] = "none"
    /\ work' = [work EXCEPT ![r] = "queued"]
    /\ UNCHANGED <<pc, semaphores, server, seen, cancel, dispatched, log, history>>

(* the role answers or fails; an answer is withheld when the token was      *)
(* rotated, or cannot be read, meanwhile                                    *)
Return(r) ==
    /\ pc[r] = "app" /\ work[r] \notin {"queued", "running"}
    /\ \/ token = seen[r] /\ Goto(r, "response") /\ UNCHANGED trouble
       \/ token # seen[r] /\ Goto(r, "withheld") /\ UNCHANGED trouble
       \/ Goto(r, "unavailable") /\ trouble' = trouble \cup {r}
       \/ Goto(r, "failed1") /\ UNCHANGED trouble
    /\ UNCHANGED <<semaphores, server, work, seen, cancel, dispatched, log, told, executed, failures>>

(* Mutant: the handler does not expect its cancellation *)
CancelCall_Uncaught(r) ==
    /\ pc[r] = "app" /\ Cancelled(r, "leave")
    /\ UNCHANGED <<semaphores, server, work, seen, dispatched, log, history>>

(* the task is cancelled meanwhile, which the worker does not notice *)
CancelCall(r) ==
    /\ pc[r] = "app" /\ Cancelled(r, "interrupt1")
    /\ UNCHANGED <<semaphores, server, work, seen, dispatched, log, history>>

(* run of the worker: under its lock one call is executed, then answered;   *)
(* or it is given up (an invalid message, the end of the worker)            *)
Execute(r) ==
    /\ work[r] = "queued" /\ \A q \in Requests : work[q] # "running"
    /\ work' = [work EXCEPT ![r] = "running"] /\ executed' = executed \cup {r}
    /\ UNCHANGED <<pc, semaphores, server, seen, cancel, dispatched, log, told, trouble, failures>>

Reply(r) ==
    /\ work[r] \in {"queued", "running"} /\ work' = [work EXCEPT ![r] = "done"]
    /\ UNCHANGED <<pc, semaphores, server, seen, cancel, dispatched, log, history>>
----------------------------------------------------------------------------
(* the records of an answer that is not the result of an operation *)
RecordAnswer(r) ==
    /\ \/ pc[r] = "early" /\ Record(r, "response", "replyearly", "unavailable", "interrupt1")
       \/ pc[r] = "gone1" /\ Record(r, "client_disconnect", "gone2", "unavailable", "interrupt1")
       \/ pc[r] = "gone2" /\ Record(r, "connection_end", "leave", "unavailable", "interrupt1")
       \/ pc[r] = "failed1" /\ Record(r, "interrupted", "failed2", "unavailable", "interrupt1")
       \/ pc[r] = "failed2" /\ Record(r, "response", "replyfailed", "unavailable", "interrupt1")
       \/ /\ pc[r] = "withheld"
          /\ Record(r, "response_withheld", "replywithheld", "unavailable", "interrupt1")
    /\ UNCHANGED <<semaphores, dispatched>>

(* the result and the end of the connection are recorded before it is sent *)
RecordResult(r) ==
    /\ \/ pc[r] = "response" /\ Record(r, "response", "end", "unavailable", "interrupt1")
       \/ pc[r] = "end" /\ Record(r, "connection_end", "send", "unavailable", "interrupt1")
    /\ UNCHANGED <<semaphores, dispatched>>

Sending == {"replyearly", "replyfailed", "replywithheld", "send"}
Sent(r) ==
    \/ pc[r] = "replyearly"    /\ Tell(r, "early", "silent")
    \/ pc[r] = "replyfailed"   /\ Tell(r, "failed", "silent")
    \/ pc[r] = "replywithheld" /\ Tell(r, "withheld", "yes")
    \/ pc[r] = "send"          /\ Tell(r, "result", "silent")

(* the answer reaches the client, entirely or in part; a disconnect or the  *)
(* time limit, for a result, and a cancellation are recorded                *)
Send(r) ==
    /\ pc[r] \in Sending
    /\ Sent(r) \/ UNCHANGED told
    /\ \/ Goto(r, "leave") /\ UNCHANGED cancel
       \/ pc[r] = "send" /\ Goto(r, "interrupt1") /\ UNCHANGED cancel
       \/ Cancelled(r, "interrupt1")
    /\ UNCHANGED <<semaphores, server, work, seen, dispatched, log, executed, trouble, failures>>

(* the handler of CancelledError and OSError: two records in any case *)
Interrupt(r) ==
    /\ \/ pc[r] = "interrupt1" /\ Record(r, "interrupted", "interrupt2", "interrupt2", "interrupt2")
       \/ pc[r] = "interrupt2" /\ Record(r, "connection_end", "leave", "leave", "leave")
    /\ UNCHANGED <<semaphores, dispatched>>

(* Mutant: the client is always told that nothing was executed *)
Unavailable_SaysNo(r) ==
    /\ pc[r] = "unavailable"
    /\ \/ Goto(r, "leave") /\ Tell(r, "unavailable", "no") /\ UNCHANGED cancel
       \/ Cancelled(r, "leave") /\ UNCHANGED told
    /\ UNCHANGED <<semaphores, server, work, seen, dispatched, log, executed, trouble, failures>>

(* audit_unavailable, with operation_may_have_completed *)
Unavailable(r) ==
    /\ pc[r] = "unavailable"
    /\ \/ /\ Goto(r, "leave") /\ UNCHANGED cancel
          /\ Tell(r, "unavailable", IF dispatched[r] THEN "yes" ELSE "no")
       \/ Cancelled(r, "leave") /\ UNCHANGED told
    /\ UNCHANGED <<semaphores, server, work, seen, dispatched, log, executed, trouble, failures>>

(* finally of __call__; the task ends, and its local variables with it *)
Leave(r) ==
    /\ \/ /\ pc[r] = "leave" /\ slots' = slots + 1
          /\ large' = IF large = r THEN None ELSE large
       \/ pc[r] = "out" /\ UNCHANGED <<slots, large>>
    /\ Goto(r, "done") /\ cancel' = [cancel EXCEPT ![r] = FALSE]
    /\ seen' = [seen EXCEPT ![r] = 0] /\ dispatched' = [dispatched EXCEPT ![r] = FALSE]
    /\ UNCHANGED <<waiting, server, work, log, history>>
----------------------------------------------------------------------------
Rotate ==
    /\ Alive /\ token < MaxRotations /\ token' = token + 1
    /\ UNCHANGED <<pc, semaphores, phase, took, work, seen, cancel, dispatched, log, history>>

(* uvicorn: no request is accepted any more; when the grace period is over  *)
(* the tasks that are left are cancelled and lifespan goes on               *)
Exit ==
    /\ phase = "serving" /\ phase' = "draining"
    /\ UNCHANGED <<pc, semaphores, token, took, work, seen, cancel, dispatched, log, history>>

CancelTasks ==
    /\ phase = "draining" /\ phase' = "lifespan"
    /\ cancel' = [r \in Requests |-> pc[r] \notin {"new", "done"}]
    /\ UNCHANGED <<pc, semaphores, token, took, work, seen, dispatched, log, history>>

(* lifespan takes every slot, then waits until nobody is in _admit *)
Collect ==
    /\ phase = "lifespan" /\ took < MAX_CONCURRENT_REQUESTS /\ slots > 0
    /\ slots' = slots - 1 /\ took' = took + 1
    /\ UNCHANGED <<pc, large, waiting, token, phase, work, seen, cancel, dispatched, log, history>>

Collected ==
    /\ phase = "lifespan" /\ took = MAX_CONCURRENT_REQUESTS /\ waiting = 0
    /\ phase' = "flush"
    /\ UNCHANGED <<pc, semaphores, token, took, work, seen, cancel, dispatched, log, history>>

(* record("instance_stop"); without it abort_shutdown ends the process *)
RecordStop ==
    /\ phase = "flush"
    /\ \/ phase' = "stopped" /\ UNCHANGED failures
       \/ phase' = "dead" /\ failures < MaxFailures /\ failures' = failures + 1
    /\ UNCHANGED <<pc, semaphores, token, took, work, seen, cancel, dispatched, log, told, executed,
                   trouble>>

(* the process is killed, or the watchdog of the shutdown ends it: what it  *)
(* had in memory is gone, what the worker has is not                        *)
Die ==
    /\ Alive /\ phase' = "dead"
    /\ pc' = [r \in Requests |-> "new"] /\ cancel' = [r \in Requests |-> FALSE]
    /\ slots' = MAX_CONCURRENT_REQUESTS /\ large' = None /\ waiting' = 0 /\ took' = 0
    /\ seen' = [r \in Requests |-> 0] /\ dispatched' = [r \in Requests |-> FALSE]
    /\ UNCHANGED <<token, work, log, history>>
----------------------------------------------------------------------------
Task(r) ==
    /\ Alive
    /\ \/ AcquireLarge(r) \/ AcquireSlot(r) \/ CancelAdmission(r) \/ AdmissionCancelled(r)
       \/ AdmissionEnd(r) \/ ReadBody(r) \/ CancelBody(r) \/ BodyCancelled(r) \/ BodyRejected(r)
       \/ Refuse(r) \/ RecordRequest(r) \/ Gate(r) \/ Probe(r) \/ Call(r) \/ Return(r) \/ CancelCall(r)
       \/ RecordAnswer(r) \/ RecordResult(r) \/ Send(r) \/ Interrupt(r) \/ Unavailable(r) \/ Leave(r)

Lifespan == CancelTasks \/ Collect \/ Collected \/ RecordStop

Role == \E r \in Requests : Execute(r) \/ Reply(r)

Next == \/ \E r \in Requests : Arrive(r) \/ Task(r)
        \/ Role \/ Rotate \/ Exit \/ Lifespan \/ Die

Spec == Init /\ [][Next]_vars

(* Bodies and answers have deadlines, roles answer, and a shutdown that has *)
(* begun goes on                                                            *)
Fairness == WF_vars(Lifespan) /\ WF_vars(Role) /\ \A r \in Requests : WF_vars(Task(r))
FairSpec == Spec /\ Fairness
----------------------------------------------------------------------------
Directions == {"request", "response", "response_withheld", "interrupted", "connection_end",
               "client_disconnect", "rejection", "request_body_cancelled", "admission_cancelled"}
Answers == [kind : {"none", "refused", "early", "failed", "withheld", "unavailable", "result"},
            may : {"no", "yes", "silent"}]

TypeOK ==
    /\ pc \in [Requests -> Admitting \cup Holding \cup {"new", "done"}]
    /\ slots \in 0 .. MAX_CONCURRENT_REQUESTS /\ took \in 0 .. MAX_CONCURRENT_REQUESTS
    /\ large \in Requests \cup {None} /\ waiting \in Nat
    /\ token \in Nat /\ seen \in [Requests -> Nat]
    /\ cancel \in [Requests -> BOOLEAN] /\ dispatched \in [Requests -> BOOLEAN]
    /\ log \subseteq Requests \X Directions
    /\ phase \in {"serving", "draining", "lifespan", "flush", "stopped", "dead"}
    /\ work \in [Requests -> {"none", "queued", "running", "done"}]
    /\ told \in [Requests -> Answers]
    /\ executed \subseteq Requests /\ trouble \subseteq Requests /\ failures \in Nat

(* A request reaches the role only when its record is durable (handle: the  *)
(* record of the request precedes the dispatch, and its failure ends it).   *)
AuditedBeforeExecution == \A r \in executed : <<r, "request">> \in log

(* No byte of a result leaves before the record of the answer and of the    *)
(* end of the connection (committed-before-send); and the audit of a        *)
(* request the role got ends with its outcome, or with the interruption,    *)
(* whenever the audit and the token could be used at all.                   *)
OutcomeAudited ==
    /\ \A r \in Requests : told[r].kind = "result" =>
          {<<r, "response">>, <<r, "connection_end">>} \subseteq log
    /\ \A r \in executed \ trouble : pc[r] = "done" =>
          \E dir \in {"response", "response_withheld", "interrupted"} : <<r, dir>> \in log

(* A client that is told that nothing was executed can rely on it: the role *)
(* did not, and will not, get the request (operation_may_have_completed).   *)
NoFalseComfort ==
    \A r \in Requests : told[r].may = "no" =>
        r \notin executed /\ work[r] = "none"

(* When instance_stop is written no request has a record left to write      *)
(* (lifespan takes all slots and waits for no_waiters).                     *)
StopIsLast ==
    phase \in {"flush", "stopped"} => \A r \in Requests : pc[r] \in {"new", "out", "done"}

(* The audit is complete: see the three parts above.                        *)
RequestsAudited == AuditedBeforeExecution /\ OutcomeAudited /\ StopIsLast

(* Every request that was admitted to the boundary leaves it, and a         *)
(* shutdown never waits for itself: cancellation at any await loses no unit *)
(* of a semaphore, so the slots and waiters that requests and lifespan wait *)
(* for come free without the watchdog.                                      *)
EverythingEnds ==
    /\ \A r \in Requests : pc[r] \in Admitting ~> pc[r] = "done" \/ ~Alive
    /\ phase = "lifespan" ~> ~Alive
============================================================================
