----------------------------- MODULE Admission -----------------------------
(***************************************************************************)
(* The admission of administrator requests (netops_admin, execute.py and   *)
(* state.py): several processes call apply, undo and recover on several    *)
(* devices and share one journal.  A request is identified by the          *)
(* request_id its client chose; sent again it must return the operation    *)
(* it started and never start another.  Budgets bound the changes of a     *)
(* device in an hour and of all devices in a day.  What happens on the     *)
(* device is ChangeExecution; here an execution journals a safeguard or    *)
(* not and ends with a result.                                             *)
(***************************************************************************)
EXTENDS Naturals, FiniteSets, FiniteSetsExt

CONSTANTS Procs,        \* processes: CLI calls and the MCP server
          Devices,      \* configured device names
          Targets,      \* host keys; two names may share one
          Target,       \* the host key of every device name
          Requests,     \* request ids chosen by clients
          Prints,       \* fingerprints of request bodies
          Changes,      \* change ids, drawn at random
          Weight,       \* of a body: the changes of its transaction
          None, Nobody,
          changes_per_device_per_hour, changes_per_day, journal_records,
          HOUR, DAY,
          MaxTime,      \* bound: the budget clock
          MaxCrashes    \* bound: crashes of a process

ASSUME AdmissionAssumption ==
    /\ None \notin Changes /\ Nobody \notin Procs
    /\ Target \in [Devices -> Targets]
    /\ Weight \in [Prints -> Nat \ {0}]
    /\ {changes_per_device_per_hour, changes_per_day, journal_records, HOUR, DAY,
        MaxTime, MaxCrashes} \subseteq Nat

VARIABLES
    ops,        \* operations/<change_id>.json
    request,    \* requests/<request_id>.json: the change id, or None
    devLock, tgtLock, admission,   \* the flocks: who holds them
    pc, call,   \* of every process: where it is, its arguments and locals
    now,        \* budget_now
    answers,    \* history: what apply returned
    crashes

journal == <<ops, request>>
locks   == <<devLock, tgtLock, admission>>
vars    == <<journal, locks, pc, call, now, answers, crashes>>

(* undo_request: the request id of an undo names the change it undoes *)
UndoOf(c)  == <<"undo", c>>
RequestIds == Requests \cup {UndoOf(c) : c \in Changes}
Weights    == {Weight[f] : f \in Prints}
Calls    == [req: RequestIds, print: Prints, dev: Devices, weight: Weights, at: Nat,
             change: Changes \cup {None}]
NoCall   == [req |-> None, print |-> None, dev |-> None, weight |-> 0, at |-> 0, change |-> None]
Records  == [status: {"running", "finished"}, req: RequestIds, print: Prints, dev: Devices,
             weight: Weights, at: Nat, guarded: BOOLEAN, confirmed: BOOLEAN]
NoRecord == [status |-> "none", req |-> None, print |-> None, dev |-> None, weight |-> 0,
             at |-> 0, guarded |-> FALSE, confirmed |-> FALSE]

Journaled  == {c \in Changes : ops[c].status # "none"}
Running(d) == {c \in Changes : ops[c].status = "running" /\ ops[c].dev = d}

(* _budgets: a record counts while it runs, and for good once it names a    *)
(* safeguard                                                                *)
Counted == {c \in Journaled : ops[c].guarded \/ ops[c].status = "running"}
Since(window) == {c \in Counted : ops[c].at + window >= now}
Spent(S) == MapThenSumSet(LAMBDA c : ops[c].weight, S)
InHour(d) == {c \in Since(HOUR) : ops[c].dev = d}
Budgets(d, w) ==
    /\ Cardinality(Journaled) < journal_records
    /\ Spent(InHour(d)) + w <= changes_per_device_per_hour
    /\ Spent(Since(DAY)) + w <= changes_per_day

(* Mutant: only the request file tells a repeated request *)
Known_FileOnly(q) == {request[q.req]} \ {None}

(* _known: the request file, or else the journal, names the operation of a  *)
(* request                                                                  *)
Known(q) ==
    IF request[q.req] # None THEN {request[q.req]}
    ELSE {c \in Journaled : ops[c].req = q.req}

(* the request id was used for another body or another device *)
Reused(q) == \E c \in Known(q) : ops[c].print # q.print \/ ops[c].dev # q.dev

Goto(p, label) == pc' = [pc EXCEPT ![p] = label]

(* the locks of a process that leaves the with statements, or dies *)
Leave(p) ==
    /\ Goto(p, "idle")
    /\ call' = [call EXCEPT ![p] = NoCall]
    /\ devLock' = [d \in Devices |-> IF devLock[d] = p THEN Nobody ELSE devLock[d]]
    /\ tgtLock' = [t \in Targets |-> IF tgtLock[t] = p THEN Nobody ELSE tgtLock[t]]
    /\ admission' = IF admission = p THEN Nobody ELSE admission

----------------------------------------------------------------------------
Begin(p, r, f, d, w) ==
    /\ pc[p] = "idle" /\ Goto(p, "lock")
    /\ call' = [call EXCEPT ![p] = [req |-> r, print |-> f, dev |-> d, weight |-> w,
                                    at |-> 0, change |-> None]]
    /\ UNCHANGED <<journal, locks, now, answers, crashes>>

(* apply; a client may send any request again, or its id with another body *)
Apply(p) == \E r \in Requests, f \in Prints, d \in Devices : Begin(p, r, f, d, Weight[f])

(* undo of a confirmed operation; the body differs by the reason given *)
Undo(p) ==
    \E c \in Changes, f \in Prints :
        /\ ops[c].status = "finished" /\ ops[c].confirmed
        /\ Begin(p, UndoOf(c), f, ops[c].dev, ops[c].weight)

(* DeviceLock.__enter__: taken, or the request is refused *)
LockDevice(p) ==
    /\ pc[p] = "lock"
    /\ \/ /\ devLock[call[p].dev] = Nobody
          /\ devLock' = [devLock EXCEPT ![call[p].dev] = p]
          /\ Goto(p, "target")
       \/ devLock[call[p].dev] # Nobody /\ Goto(p, "refused") /\ UNCHANGED devLock
    /\ UNCHANGED <<journal, tgtLock, admission, call, now, answers, crashes>>

(* Mutant: the lock of the host key is not awaited *)
LockTarget_Ignored(p) ==
    /\ pc[p] = "target" /\ Goto(p, "known")
    /\ UNCHANGED <<journal, locks, call, now, answers, crashes>>

(* target_lock: taken, or the request is refused *)
LockTarget(p) ==
    /\ pc[p] = "target"
    /\ \/ /\ tgtLock[Target[call[p].dev]] = Nobody
          /\ tgtLock' = [tgtLock EXCEPT ![Target[call[p].dev]] = p]
          /\ Goto(p, "known")
       \/ tgtLock[Target[call[p].dev]] # Nobody /\ Goto(p, "refused") /\ UNCHANGED tgtLock
    /\ UNCHANGED <<journal, devLock, admission, call, now, answers, crashes>>

(* _known at label, then on to next: an answer, a refusal, or a new request *)
Lookup(p, label, next) ==
    /\ pc[p] = label
    /\ \/ Reused(call[p]) /\ Goto(p, "refused") /\ UNCHANGED call
       \/ /\ ~Reused(call[p])
          /\ \E c \in Known(call[p]) : call' = [call EXCEPT ![p].change = c]
          /\ Goto(p, "return")
       \/ Known(call[p]) = {} /\ Goto(p, next) /\ UNCHANGED call
    /\ UNCHANGED <<journal, locks, now, answers, crashes>>

FindKnown(p) == Lookup(p, "known", "prepare")

(* _prepared: refused for one of many reasons, or a plan *)
Prepare(p) ==
    /\ pc[p] = "prepare"
    /\ \/ Goto(p, "refused")
       \/ /\ Budgets(call[p].dev, call[p].weight) /\ Running(call[p].dev) = {}
          /\ Goto(p, "stamp")
    /\ UNCHANGED <<journal, locks, call, now, answers, crashes>>

(* the change id is drawn and the moment taken before the admission lock *)
Stamp(p) ==
    /\ pc[p] = "stamp" /\ Goto(p, "admit")
    /\ \E c \in Changes \ Journaled :
          /\ \A q \in Procs : call[q].change # c
          /\ call' = [call EXCEPT ![p].change = c, ![p].at = now]
    /\ UNCHANGED <<journal, locks, now, answers, crashes>>

(* AdmissionLock.__enter__: taken, or given up after ADMISSION_WAIT_SECONDS *)
Admit(p) ==
    /\ pc[p] = "admit"
    /\ \/ admission = Nobody /\ admission' = p /\ Goto(p, "again")
       \/ admission # Nobody /\ Goto(p, "refused") /\ UNCHANGED admission
    /\ UNCHANGED <<journal, devLock, tgtLock, call, now, answers, crashes>>

(* the second look: another process may have admitted the request meanwhile *)
FindAgain(p) == Lookup(p, "again", "budget")

(* Mutant: the budgets checked before the admission lock are trusted *)
CheckBudget_Trusting(p) ==
    /\ pc[p] = "budget" /\ Goto(p, "save")
    /\ UNCHANGED <<journal, locks, call, now, answers, crashes>>

(* _budgets again; the budget of refused requests may refuse as well *)
CheckBudget(p) ==
    /\ pc[p] = "budget"
    /\ \/ Goto(p, "refused")
       \/ Budgets(call[p].dev, call[p].weight) /\ Goto(p, "save")
    /\ UNCHANGED <<journal, locks, call, now, answers, crashes>>

(* store.save: from here on the operation exists *)
Save(p) ==
    /\ pc[p] = "save" /\ Goto(p, "remember")
    /\ ops' = [ops EXCEPT ![call[p].change] =
          [status |-> "running", req |-> call[p].req, print |-> call[p].print,
           dev |-> call[p].dev, weight |-> call[p].weight, at |-> call[p].at,
           guarded |-> FALSE, confirmed |-> FALSE]]
    /\ UNCHANGED <<request, locks, call, now, answers, crashes>>

(* remember_request, the last write under the admission lock *)
Remember(p) ==
    /\ pc[p] = "remember" /\ Goto(p, "execute")
    /\ request' = [request EXCEPT ![call[p].req] = call[p].change]
    /\ admission' = Nobody
    /\ UNCHANGED <<ops, devLock, tgtLock, call, now, answers, crashes>>

Guard(c) == ops' = [ops EXCEPT ![c].guarded = TRUE]
Finish(c) ==
    \E ok \in BOOLEAN :
        /\ ok => ops[c].guarded
        /\ ops' = [ops EXCEPT ![c].status = "finished", ![c].confirmed = ok]

(* _execute up to _finish; ChangeExecution has the steps *)
Execute(p) ==
    /\ pc[p] = "execute"
    /\ \/ ~ops[call[p].change].guarded /\ Guard(call[p].change) /\ UNCHANGED pc
       \/ Finish(call[p].change) /\ Goto(p, "return")
    /\ UNCHANGED <<request, locks, call, now, answers, crashes>>

ReturnRecord(p) ==
    /\ pc[p] = "return" /\ Leave(p)
    /\ answers' = answers \cup {[req |-> call[p].req, print |-> call[p].print,
                                 dev |-> call[p].dev, change |-> call[p].change]}
    /\ UNCHANGED <<journal, now, crashes>>

(* Rejected leaves every with statement *)
Refuse(p) == pc[p] = "refused" /\ Leave(p) /\ UNCHANGED <<journal, now, answers, crashes>>

(* recover: both locks, then every running record of the device is settled *)
Recover(d) ==
    /\ devLock[d] = Nobody /\ tgtLock[Target[d]] = Nobody
    /\ \E c \in Running(d) : Finish(c)
    /\ UNCHANGED <<request, locks, pc, call, now, answers, crashes>>

(* the process dies, or a write of the journal fails; its locks are dropped *)
Crash(p) ==
    /\ pc[p] # "idle" /\ crashes < MaxCrashes
    /\ crashes' = crashes + 1
    /\ Leave(p)
    /\ UNCHANGED <<journal, now, answers>>

Tick == now < MaxTime /\ now' = now + 1
        /\ UNCHANGED <<journal, locks, pc, call, answers, crashes>>

Init ==
    /\ ops = [c \in Changes |-> NoRecord] /\ request = [r \in RequestIds |-> None]
    /\ devLock = [d \in Devices |-> Nobody] /\ tgtLock = [t \in Targets |-> Nobody]
    /\ admission = Nobody
    /\ pc = [p \in Procs |-> "idle"] /\ call = [p \in Procs |-> NoCall]
    /\ now = 0 /\ answers = {} /\ crashes = 0

Step(p) ==
    \/ Apply(p) \/ Undo(p) \/ LockDevice(p) \/ LockTarget(p) \/ FindKnown(p) \/ Prepare(p)
    \/ Stamp(p) \/ Admit(p) \/ FindAgain(p) \/ CheckBudget(p) \/ Save(p) \/ Remember(p)
    \/ Execute(p) \/ ReturnRecord(p) \/ Refuse(p) \/ Crash(p)

Next == (\E p \in Procs : Step(p)) \/ (\E d \in Devices : Recover(d)) \/ Tick

Spec == Init /\ [][Next]_vars

----------------------------------------------------------------------------
Labels == {"idle", "lock", "target", "known", "prepare", "stamp", "admit", "again", "budget",
           "save", "remember", "execute", "return", "refused"}
Drawn  == {"admit", "again", "budget", "save", "remember", "execute", "return"}

(* Every variable has its type; from the drawing of the change id to the    *)
(* answer a call of _apply has one.                                         *)
TypeOK ==
    /\ ops \in [Changes -> Records \cup {NoRecord}]
    /\ request \in [RequestIds -> Changes \cup {None}]
    /\ devLock \in [Devices -> Procs \cup {Nobody}]
    /\ tgtLock \in [Targets -> Procs \cup {Nobody}]
    /\ admission \in Procs \cup {Nobody}
    /\ pc \in [Procs -> Labels] /\ call \in [Procs -> Calls \cup {NoCall}]
    /\ \A p \in Procs : pc[p] # "idle" => call[p] \in Calls
    /\ \A p \in Procs : pc[p] \in Drawn => call[p].change \in Changes
    /\ now \in Nat /\ crashes \in Nat
    /\ answers \subseteq [req: RequestIds, print: Prints, dev: Devices, change: Changes]

(* A request id starts at most one operation, whatever the processes that   *)
(* carry it do, on whatever devices, and wherever one of them dies (_known  *)
(* twice, _journaled).  In particular an operation is undone once.          *)
OneOperationPerRequest ==
    \A c, d \in Journaled : ops[c].req = ops[d].req => c = d

(* Two answers to one request id name the same operation and were asked     *)
(* with the same body on the same device (REUSED_REQUEST, UNDO_DONE).       *)
AnswersAgree == \A a, b \in answers : a.req = b.req => a = b

(* A request file never names an operation that is not in the journal or    *)
(* that belongs to another request: _known would report unreadable state.   *)
RequestResolves ==
    \A r \in RequestIds : request[r] # None =>
        request[r] \in Journaled /\ ops[request[r]].req = r

(* The journal never holds two unsettled operations of one device (store.   *)
(* running), although one may be left by a process that died.               *)
OneRunningPerDevice == \A d \in Devices : \A b, c \in Running(d) : b = c

(* Two processes never execute on one host key at once, although they name  *)
(* it by different devices (target_lock).                                   *)
OneExecutionPerTarget ==
    \A p, q \in Procs : pc[p] = "execute" /\ pc[q] = "execute"
                          /\ Target[call[p].dev] = Target[call[q].dev] => p = q

(* At every moment the changes of the last hour of a device, of the last    *)
(* day and of the whole journal are within their budgets, although several  *)
(* processes are admitted at once (_budgets under the admission lock).      *)
BudgetsHold ==
    /\ Cardinality(Journaled) <= journal_records
    /\ \A d \in Devices : Spent(InHour(d)) <= changes_per_device_per_hour
    /\ Spent(Since(DAY)) <= changes_per_day
============================================================================
