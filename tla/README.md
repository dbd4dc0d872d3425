# TLA+ specifications of NetOps

NetOps gives language-model clients controlled access to network devices
(FortiOS, EXOS, FortiADC, Cisco). The repository holds five Python packages:

| package | directory | what it does |
|---|---|---|
| gateway | `src/netops` | HTTPS front end, one role per listener; audits every request, forwards the audit to syslog, starts the workers, manages certificates and the instance state |
| core | `components/netops-core` | SSH and SFTP sessions, host keys, target lock, vault, inventory, the record format and rotation of the audit |
| helper | `components/netops-helper` | read-only diagnostics: query policy, redaction, MCP proxy with sessions, rate limits, continuations and caches |
| auditor | `components/netops-auditor` | collects configurations into a store, evaluates checks, classifies findings against suppressions and an earlier state |
| admin | `components/netops-admin` | plans, executes, verifies and reverts changes of device configuration |

The sections below say which module models which part, what each run checks,
what is proved, and what is left out. `PROJECT.json` gives, for every
definition that models code, the lines it stands for, and lists the hazards the
properties are about.

## Inventory

The parts of the system with state that outlives one call, and the modules that
model them. `PROJECT.json` lists every part, also those without state, with the
reason when one is left out.

| part | code | module |
|---|---|---|
| execution of a change: journal, safeguard, block, notification, enrollment, recovery | admin `execute.py`, `exec_*.py`, `enrollment.py`, `blocking.py`, `state.py` | `ChangeExecution` |
| admission of requests: idempotency, budgets, locks of several devices | admin `execute.py`, `state.py`; core `target_lock.py` | `Admission` |
| request boundary of the gateway and the worker of a role: admission, cancellation, audited answers, shutdown | gateway `gateway.py`, `ipc.py`, `worker.py` | `RequestBoundary` |
| commands of the operator: certificates, upgrade, rotation; configuration of the roles and of syslog | gateway `init.py`, `operator.py`, `certificates.py`, `bootstrap.py`, `files.py` | `OperatorCommands` = `InstanceState` + `Configure` |
| one call of the SSH client: workspaces, credential, sweep, pipes, deadline | core `ssh.py` | `SshCommand` |
| audit of the gateway: the queue and its delivery, the local segments, the parts of a syslog record | gateway `audit.py`, `health.py`, `syslog_parts.py` | `GatewayAudit` = `AuditQueue` + `AuditSegments` + `SyslogParts` |
| stdio proxy of the helper: sessions, late answers, deadlines | helper `proxy.py` | `ProxySession` |
| the helper: reads and their pages, captures of configurations, limits and continuations; the log of a role | helper `engine.py`, `configuration.py`, `proxy.py`; core `audit.py` | `Helper` = `HelperReads` + `ConfigSnapshots` + `ProxyLimits` + `Recorder` |
| store of the auditor: runs, carried findings, baseline, migration | auditor `store.py`, `state.py`, `query.py`, `cli.py` | `AuditorStore`, which implements `FindingLedger` |
| parsers and planners of device configurations, checks, reports, catalogs, command lines | `fortios.py`, `config_*.py`, `triage_*.py`, `checks_*.py`, `cli.py`, ... | none: text processing without state |

How the parts meet: a request of a client passes `RequestBoundary`, which
records it in the audit (`GatewayAudit`) before and after the role handles it.
The admin role decides in `Admission` whether it starts an operation, and
`ChangeExecution` is what the operation then does on one device. Every contact
with a device is a call of `SshCommand`. Roles write their own log through
`Recorder`. `ProxySession` and `ProxyLimits` are the front end of the helper for
a client without the gateway, `HelperReads` and `ConfigSnapshots` what is behind
it.

A module stands for one component and takes the others as nondeterministic
answers: a record of the audit succeeds or fails, an execution ends with some
result, a device answers something. The composed modules (`OperatorCommands`,
`GatewayAudit`, `Helper`) put parts side by side that share an interface and no
variable; each of their behaviours is one of the parts, chosen by the first
state (`subject`, `mode`, `part`). What is proved of a part therefore holds of
the composition.

Definitions whose comment begins with "Mutant" are wrong on purpose. They are
plausible faults of the code next to them, and no specification uses them: put
in the place of the right definition, each makes TLC report the property it is
listed with in `PROJECT.json`.

## Change execution (`ChangeExecution.tla`)

`netops-admin` changes one object of a device per operation. The operation is
journaled, a safeguard that undoes the change at `fire_at` is installed on the
device itself, the change is applied and checked twice, and it is confirmed by
removing the safeguard. When a check fails nothing is undone by the program: it
waits until the safeguard has fired and settles the operation by what it then
reads. A process may die at any point; `recover` settles what the journal says
is running. Outcomes that need a person block the device until `unblock`.

One instance of the module is one device. The state falls into four groups:

- the journal (`rec`, `blocked`, `baseline`, `cert`): the files of `state.py`
  that survive a crash. Every write of a file is an action of its own, so a
  crash can separate any two of them;
- the device (`obj`, `rest`, `accounts`, `saved`, `guard`, `phase`): the planned
  object, the rest of the configuration, the administrator table, the startup
  configuration of EXOS, the safeguard of every operation, and the clock
  relative to `fire_at`;
- the command that holds the device lock (`pc`, `mode`, `cur`, `out`,
  `verdict`). The lock is a non-blocking `flock` that every command holds for
  its whole duration, so there is one program counter per device;
- history variables, read by properties and bounds only.

The actions follow `_prepared`, `_apply`, `_execute`, `_settle_after_expiry`,
`_finish`, `_deliver_notification`, `enrollment.complete`, `recover`, `unblock`
and `notify_retry` step by step; `Tick`, `Fire` and `Foreign` are the device and
its other administrators, `Crash` is the death of the process or a failed write
of the journal or the audit log.

Abstractions:

- a reason is kept as its class: blocking, one of the two that the code compares
  by name, or any other;
- any reading of the device may fail, whatever its state;
- the installation is complete, or leaves no part, the disarmed parts or the
  armed safeguard; the part that arms it (stitch, timer) is installed last and
  removed first, so what is left of a half removed safeguard cannot fire;
- the safeguard fires in one step, which restores the object or fails;
- on firmware whose safeguard calls a webhook (`Webhook`) the token it uses may
  be revoked: the stitch stays installed and can no longer restore anything
  (guard "revoked"). Removing a safeguard is one step with or without a token;
- commands that are still on their way to the device when the process dies, and
  a reboot of the device, are not modelled;
- fields of a record that only appear in reports are left out.

### Runs

| run | instance | shows |
|---|---|---|
| `change_exos` | EXOS, 1 operation, 2 object states, 2 rests, 2 administrator tables, 1 foreign change, 1 crash, with fairness | `SettledSafeguardGone`, `SettledOutcomeTrue`, `SettledOutcomeSaved`, `EveryOperationSettles` |
| `change_two_ops` | FortiOS with a webhook, 2 operations (changes or enrollments), 1 crash, no foreign change | `BlockingOutcomeBlocks`, `EarlierOutcomesReported`, `CertificateEarned`, `NeverDisarmedUnconfirmed` |

Two object states are before and after; a third one, neither of them, is left to
the proofs. Two rests and two administrator tables distinguish planned and
foreign. One crash reaches every pair of an interrupted command and a recovery.
Two operations are enough for a property that relates an operation to an earlier
one. Object states, rests, tables and operations are interchangeable, and
`change_two_ops` uses their symmetry; `change_exos` checks liveness and does not.

`NeverDisarmedUnconfirmed` says when the program may take the power of an armed
safeguard away: to confirm the change, or with the object back as it was. There
is one exception, which the property names (`GivenUp`): when the time to fire and
the grace have passed and the change is still on the device,
`_settle_after_expiry` revokes the token of a webhook. The safeguard then stays
installed without effect, and the operation ends as "unknown", which blocks the
device.

Fairness: a command is a finite program that runs until it returns
(`WF(CommandStep)`), the clock of the device moves (`WF(Tick)`), and an operator
runs `recover` again and again (`WF(Recover)`); `recover` is a command that only
a person or a timer outside the repository starts, so this is an assumption on
the operation of the system. Nothing is assumed about the firing of the
safeguard: settling must not depend on it.

### Proofs

`ChangeExecutionProofs` proves type correctness and every safety property of the
two runs, for every set of operations, object states and tables and for any
number of foreign changes and crashes, on both platforms, with a webhook and
without; further `AtMostOneRunning`, `WriteAhead` and `OutcomeFinal`, which no
run checks. The only assumption is `ConstantsAssumption` (the null values are no
members of the sets, the platform is one of the two).

None of the properties is inductive. `IInv` adds what a command at each label
knows: which record it works on and its status (`Ownership`), what that record
already says (`RecordedProgress`), what is known about the safeguard after a
verified removal (`GuardKnown`), that the block is on disk before the record is
closed (`BlockFirst`), and that what was read from the device is still true
unless somebody else touched it (`ReadingTrue`); and about the journal and the
device alone that only the operation planned last can be running or armed
(`OnlyLatest`). The proof has one step per action; `OutcomeLabel` states once
what must be known of the device when an outcome is decided, and the actions
that decide one cite it. The action properties `OutcomeFinal` and
`NeverDisarmedUnconfirmed` follow from `IInv` and one case per action.

The last part of the module rests on `IInv` and adds three invariants:
`SavedInv` (on EXOS the startup configuration is the one the operation found
until it is saved, and the running one from then on), `ReportInv` (a record says
"sent" only of what was delivered, and no operation begins with an earlier one
unreported) and `CertInv` (a self-test that has begun has no certificate until
the command that closed its record, as reverted and reported, grants one).
`EveryOperationSettles` is model-checked only.

## Admission (`Admission.tla`)

Several processes (command line calls and the MCP server) call `apply`, `undo`
and `recover` on several devices and share one journal. A request carries an id
that its client chose; sent again it must return the operation it started. The
state is the journal (`ops`, `request`: the files `operations/<change_id>.json`
and `requests/<id>.json`), the locks (`devLock` and `tgtLock` are non-blocking
`flock`s, `admission` waits), the budget clock `now`, and per process the step
and the call it works on. The steps are those of `_apply`: lock the device, lock
the host key, look for a known request, prepare, take the admission lock, look
again, check the budgets, save the record, remember the request, execute,
return. `Crash` ends a process between any two of them; the kernel drops its
locks, the files stay.

Abstractions: the execution on the device is one step per journal write that
admission reads (`guarded`, `finished`); refusing a request because of its
content is a nondeterministic step, and the list of refused requests, which only
that refusal reads, is left out; `preview` changes nothing; `recover` settles
one record per step; change ids come from a finite set and are drawn unused; the
budget clock does not go back (`budget_now`).

The run `admission` checks two instances side by side (`MCAdmission`):

| instance | bounds | what it is for |
|---|---|---|
| shared | 2 processes, 2 names of one host key, 2 request ids, 2 bodies, 3 change ids, 1 crash | `OneOperationPerRequest`, `OneExecutionPerTarget` |
| busy | 2 processes, 2 devices, bodies of 1 or 2 changes, 2 changes in an hour, 3 in a day, a journal of 2 records, the clock moves | `BudgetsKept` |

Two processes are enough for every race of two calls. In the second instance a
body of two changes next to one of two exceeds the day, and a third record the
journal, so each budget has something to refuse.

`AdmissionProofs` proves type correctness, `OneOperationPerRequest`,
`OneExecutionPerTarget`, and `AnswersAgree`, `RequestResolves` and
`OneRunningPerDevice`, which no run checks, for any number of processes,
devices, host keys, requests, changes and crashes, from `AdmissionAssumption`
alone. `IInv` adds to them what a call knows at each step (`Local`): it holds
the locks of its step (`Holds`), its change id is unused until it is saved
(`Fresh`), the request is unknown after the second lookup (`Unknown`), the
record is its own after the save (`Own`), and the device has no running
operation when it is about to get one (`Clear`); further that no two calls drew
the same id (`Distinct`) and that what was answered is in the journal
(`AnswersRecorded`). `Unknown` under the admission lock is the heart of it: the
first lookup takes place without that lock, and without the second one two
processes could both find nothing. `BudgetsKept` is a sum over records and is
model-checked only.

## Audit of the gateway (`GatewayAudit.tla`)

A gateway writes its audit either into local segments or into a queue on disk
that a thread forwards to syslog. `AuditQueue` and `AuditSegments` model the
two; `GatewayAudit` composes them as the program does, with the mode fixed when
the instance is configured, and adds what can be read from the archive of the
collector again (`SyslogParts`).

`AuditQueue`: `queue` is the directory in the order of the file names. A call of
`record` passes the semaphore for large records, the lock, the measurement of
the queue and the write, which links the file under its name (`Link`) and then
removes the temporary one (`Unlink`); the forwarder takes a batch, sends it
frame by frame, takes the lock and removes the files it sent. A start first
makes room by forwarding, then records itself; a stop waits for the writers,
sets the flag and records itself. Hazards: records that are written while a
batch is out, a failure after some of a batch was sent (it is sent again), a
file that cannot be removed, death at any step, and names that do not order the
records of two processes (`Link` inserts at any position). Between the two steps
of the write a file has two names; a kill there, or an unlink that fails, leaves
it so for good (`doubled`). `read_private` refuses such a file, and a batch that
holds it is never sent.

`AuditSegments`: one process at a time appends, thanks to the state lock. A
record first removes expired segments, looks at the last line, rotates, evicts
the oldest segments for the budget, opens the segment and writes piece by piece;
it can fail or die after any piece. `audit recover` copies an incomplete last
line into quarantine and then cuts it off the segment. The health check looks at
the tail at any time.

Abstractions: death of the process only, so what was written is on disk; up to
its link a file of `write_private` is invisible; delivery means that `sendall`
returned, since syslog has no acknowledgement; an outage ends (`MaxFailures`,
`MaxLocalFailures`); sizes are small numbers; the clock does not go back; the
two checks of the tail are one; the summaries of rejected requests are left out.

`SyslogParts`: what a collector has. `encode_messages` and `decode_messages` are
operators over byte sequences; a state is the archive that a reader has so far,
to which genuine parts (in any order, any number of times) and disturbed lines
are appended. JSON, base64 and the header are left out, the digest is collision
free (the record itself).

The run `gateway_audit` checks `RecordsKept` (an acknowledged record is in a
file, sent, or removed by retention; no record is glued to a fragment, no
fragment is cut off before it is in quarantine, and the health check does not
report a write in progress as damage), `BudgetKept` (neither mode exceeds its
budget, and the budget never keeps an instance down), `RoundTrip` (from genuine
parts the record comes out unchanged as soon as all are there, and whatever else
the archive holds, parts of different records are never joined) and the liveness
property `EveryRecordLeaves`.

Bounds: two records, one small and one that fills a batch, next to two starts
and a stop meet every case of a batch; one failure and one crash of the queue.
Three local records, of which two small ones or a large one fill a segment,
reach rotation, eviction and expiry, with two failures or kills, so that a
recovery can be interrupted too. Records of one to four bytes in chunks of two
and four lines make a record of two parts, a duplicate and a disturbance. The
fairness is that of threads that run: the forwarder and the calls go on
(`Progress`), and an operator starts the gateway again while the bound on starts
allows it; `EveryRecordLeaves` excuses a gateway that is down with no start
left, and a queue in which a file was left with two names, which nothing in the
program removes. Nothing of this section is proved; see the last section.

## Request boundary (`RequestBoundary.tla`)

`AuditBoundary` of `gateway.py`, an ASGI application, and the worker of a role.
Every request is a task that can be cancelled at any `await`; each step of the
module ends at one. The state is the semaphores, the token, the step of every
task and whether it is cancelled, the audit log as a set, what the client was
told, and the calls of the worker (`work`). The worker executes one call after
the other, also when its caller has gone, and may lose one, as when it ends.
`Lifespan` is the shutdown: it takes all slots, waits for the waiters, and
writes `instance_stop`.

Abstractions: uvicorn is external (after the exit signal it accepts nothing,
waits for its grace period and cancels every task once); `executed` holds from
the moment the worker may have done it; size and time limits of a body are
choices; a token is a number; the frames between gateway and worker, tool lists
and schemas are left out.

The run `request_boundary` has two requests, large or small, on one slot, one
rotation of the token and one failing record: `RequestsAudited` (nothing is
executed or answered before its record; the outcome of what was executed is
recorded whenever the audit could be used; `instance_stop` is the last record),
`NoFalseComfort` (a client told `operation_may_have_completed: false` can rely
on it), and `EverythingEnds` under weak fairness of every task, of the worker
and of the shutdown: the event loop runs what can run, and bodies and answers
have deadlines. One slot makes the two requests compete for it; the lock of the
worker is therefore never contended in this run.

`RequestBoundaryProofs` proves type correctness, `RequestsAudited` and
`NoFalseComfort` for any number of requests, slots, rotations and failures, from
`BoundaryAssumption`. `IInv` says for every request that the flag `dispatched`
of its task tells whether the role may have it (`FlagTrue`), which records are
in the log at each label (`RequestRecorded`, `ResultRecorded`,
`OutcomeRecorded`), and that "nothing was executed" is only said when it is the
last word (`ComfortTrue`). `StopIsLast` needs `Counting`: the free slots, those
of the shutdown and the tasks that hold one add up to the size of the semaphore,
and `waiting` counts the tasks that wait; so a shutdown that has all slots and
sees no waiter is alone. The steps of one request leave the others alone
(`Elsewhere`, `OthersKeep`), so each action is about one request.

## Commands of the operator (`OperatorCommands.tla`)

`InstanceState`: the files of an instance, `version` (config.json), token, note
of a pending upgrade, CA and server keys and certificates, retired copies, the
audit of commands; and the processes that write them one after the other:
`init`, `serve` with the conversion of an old configuration, the monitor that
renews, `rotate-ca`. `End` ends a process after any write. Two files are written
with `write_private(replace=False)` at a point where a kill matters later:
`server.key` (`WriteServerKey` links it, `UnlinkServerKey` removes the temporary
name; `twoNames` in between) and `config.json` (version "linked" in between). A
file with two names is refused by whoever reads it: no instance starts from it,
and a rotation fails when it copies the old `server.key` (`CopyEnds`).

`Configure`: the commands that replace the files of a role or of the syslog
receiver one after the other, the commands of a role that read them, `audit
recover`, and the start and stop of the instance around them. A command can be
cut off between any two replacements; a document can be refused; the queue of
records can be full, and then only the receiver can be changed.

Abstractions: keys are numbers; days are the unit of time, a command finishes
within a day and the monitor looks at least once a day; the copy of a retired
pair and the role files of `init` are one step; the log is a set; the clock does
not go back; `MayRotate` bounds rotations so that an interrupted one still has
keys left; a document is its role, an identity and its optional part, and its
validation is its being accepted or not.

The run `operator_commands`: two processes over four days, server certificates
of two days that are renewed on their last, CAs of four, two interrupted
commands; and documents for every role that differ in their optional part, a
queue of two records, one command cut off. It checks `ValidChain`, `ConfigTrue`,
`NoCaLost` for the first, `OneDocument` for the second (the files of a role fit
together unless a command was cut off, and what was read stays true), and
`InterruptedRecovers` for both: an interrupted rotation can be completed by
another one, unless it was killed while its `server.key` had two names
(`KeyUnreadable`), and a configuration that was cut off always can. Fairness:
commands run to their end; an operator repeats what was cut off, recovers the
audit and starts the instance whenever that is possible again and again (strong
fairness, as the lock is taken in between), and stops it for other commands, now
and then with its queue delivered.

`OperatorCommandsProofs` proves `ConfigTrue`, `NoCaLost` and `ValidChain` for any
number of processes, keys, days and interruptions, from `StateAssumption` (the
lifetimes make sense: a server certificate lives longer than its renewal and no
longer than the margin of its CA). The heart is that a process that may write is
alone (`MayWrite`, lemma `Alone`): it holds `instance.lock` or, before there is
a configuration, has linked the key of the CA, which only one `init` does
(`OneSetup`). On that rest how far a replacement of the certificates has come at
each label (`Replacing`), what a start knows of an upgrade (`UpgradeKnown`), and
that what it has checked still holds when it serves (`Checked`).

The second half of the module proves `OneDocument` for any processes and
documents, from `DocumentAssumption`. `ConfigInv` says that a command at work
holds the lock and is therefore alone, which files of its document a command has
replaced so far and that before the first of them its role was whole
(`ReplacingWell`), that a reader has what is in the files, and that the last
file of a role names a document of that role (`LastOwned`), so that replacing a
file of one role leaves the others whole (`OtherRoles`). `CertificatesKept`
carries the three properties over to the composition. The liveness property is
model-checked only.

## A call of the SSH client (`SshCommand.tla`)

`run_command` of the core. A process first removes what killed calls have left
in the temporary directory, makes a workspace, claims it by a lock on its owner
file, writes the credential into it, runs the client, reads its output under a
deadline and a limit, ends what is left of the client's processes and removes
the workspace. Every system call on a file, a lock or a pipe is a step, and
`Kill` ends a process between any two; the kernel drops its locks.

Abstractions: output is in numbered chunks, what another process of the client
writes is chunk 0; the two pipes are one; a deadline may pass at any step of the
reading; names of `mkdtemp` come from a finite set, and as they are all alike
the first unused one is taken; `shutil.rmtree` removes files in any order.

| run | instance | shows |
|---|---|---|
| `ssh_command` | 2 processes, 3 workspaces, 1 kill, 1 chunk, a limit of 1 | `WorkspaceKept`, `RemainsRemoved`, `AnswerWhole`, `CallEnds` |
| `ssh_remains` | the same | `CredentialOwned` is violated |

Three workspaces are those of two calls and of a killed one. With one chunk the
run shows that no part of the output is lost; that chunks keep their order is
shown by the proof of `AnswerWhole`. Fairness: a call is
carried out and time passes (`WF(Step(p))`); nothing is assumed about the client.

The violated property is a finding. `_released` and `_removed_if_abandoned` remove
a workspace file by file; a process killed in between can leave the credential
without the owner file, and no later call removes such a directory. The document
of the core says that every later call removes what such a call left, and that a
directory without `.owner` was written by a call that had not taken its lock yet
(`components/netops-core/docs/ssh.md:176-183`). `RemainsRemoved` does not count
a removal that was itself killed.

`SshCommandProofs` proves `WorkspaceKept`, `RemainsRemoved` and `AnswerWhole` for
any number of processes, names, kills and chunks and any limit, from
`CallAssumption`. Two invariants share the work. `IInv` is about the workspaces:
no two calls share one (`Apart`); a lock is held by the call whose workspace it
is or by who removes it (`Locked`); a call is alone with its workspace, because
its owner file has no name yet or because it holds the lock (`Own`), so it finds
what it wrote (`Kept`); and what a call has to remove still has its owner file
unless its removal has begun (`Debt`), and the sweep still comes to it, has
opened it or has found it locked (`Swept`).
The order create, lock, rename of `_claimed` is what `Own` rests on. `CInv` is
about the client: the pipe continues what was read (`Stream`), and when reading
ends nothing of the client can be in the pipe any more (`Silent`). `CallEnds` is
model-checked only.

## Proxy sessions (`ProxySession.tla`)

The stdio proxy of the helper talks to a server through an `ssh` child. The main
thread (`forward`) and the watcher exclude each other by the controller lock and
share one program counter; the thread that relays the answers of a session takes
only `pending_lock`, so each of its critical sections is one step and they
interleave freely. A session has a number (`epoch`); closing it records a
reason, and ending it (`Reap`, `Kill`, `Abandon`) kills the child and answers
the waiting requests.

Abstractions: the client does not reuse an id that waits; the server answers a
written request at most once, or sends a line that is refused; the reasons for
which the proxy answers a request itself (validation, authorisation, limits) are
one nondeterministic choice; registering a request and refusing it is one step;
clearing the waiting requests and telling the client is one step; a killed child
exits. Writing to the child blocks while the pipe is full, that is, while the
server does not read (`full`, changed by `Stall` and `Resume` at any time); the
controller lock is held meanwhile. Opening a session replays the handshake of the
client (`Initialize`, `Replay`, `Initialized`), and each of its writes can block
too.

| run | instance | shows |
|---|---|---|
| `proxy_session` | 2 ids used twice, 2 sessions, 1 notification, 2 faults | `AnswersMatch`, `EveryRequestAnswered` |
| `proxy_session_end` | the same | `EndedBeforeNext` is violated |

Two sessions are what a late answer, a reused id and a stale thread need.
Fairness: threads that can run do so, the client reads what it is sent, and time
passes (`Late`); nothing is assumed about the server. A write has no deadline,
and while it blocks neither `forward` nor the watcher can act, so
`EveryRequestAnswered` is conditional: provided no write blocks for ever
(`[]<>~Blocked`), every request is answered while the proxy runs.

The violated property is a finding. `forward` ends a closed session (`_reap`)
and then, in a second look, asks whether one is open. When the relaying thread
closes the session between the two, `forward` starts the next session without
ending this one: `open_session` forgets the reason, the child lives on, and the
requests that waited are answered only when their deadline ends the new session.
The description of the proxy (`docs/archive/0.x/standalone-layout/components/`
`netops-helper/docs/configuration.md:352`) says that the child is killed and
every waiting request answered first. `AnswersMatch` and `EveryRequestAnswered`
hold in spite of it.

`ProxySessionProofs` proves `AnswersMatch` for any number of ids, sessions,
requests and faults, from `ProxyAssumption`. A request is in at most one hand at
a time: that of `forward`, of those that wait, or of a thread that relays its
answer; and one that is in a hand has not been answered (`Owed`). What the open
session has been given to answer still waits, under the same number, and a
relayed answer is that of the request that waited (`Paired`); what is about to
be written waits and was not written to this session before (`Writing`).
`EveryRequestAnswered` is model-checked only.

## The helper (`Helper.tla`)

Four parts that share no variable; a behaviour of `Helper` is one of them.

`HelperReads`: `ssh_read` in threads of one process. A call is recorded, waits
for the lane of its device and for the spacing of connections, scans the host
key line if it has none, verifies the product, queries, caches an output of
several pages, and records its outcome before the client has the result; a
follow-up names an output by its digest and is served from the cache. The device
may answer every query differently.

`ConfigSnapshots`: captures in memory, each with one filtered view, and cached
comparisons, under a budget of the process, one of the target, a number of
captures and a lifetime. A call that fails discards the capture it made. The last
thing that can fail is the record of its completion (`Answer`): the client then
has an error although the capture is stored (`withheld`).

`ProxyLimits`: the window of the request limit and the continuations that let
the next page of a read pass without being counted.

`Recorder`: processes append to the log of a role under a lock file and rotate
its segments by renames; a write may be short or fail, and a process can be
killed between any two system calls.

Abstractions: what lasts some time ends at any moment, in `ProxyLimits` by a
clock in seconds; an output, a text, a filter and a digest are model values;
redaction is left out; the lock of a critical section makes it one step; the
log keeps at least two segments; the request limit keeps its value for the life
of a proxy.

The run `helper` checks `PagesOfOneOutput`, `ResultRecorded` and
`ConnectionsPaced` of the reads (the first also of the captures),
`MemoryBounded` and `PublishedOnly` of the captures (between calls every stored
capture was given to a client, or only the record of its completion failed),
`RateKept` of the limits and `LogKept` of the log. Bounds:

| part | instance | reaches |
|---|---|---|
| reads | 2 threads of 3 calls on one query, whose two outputs have two pages, a cache of one entry, one failing record | an entry evicted between two pages, two clients on one query |
| captures | 2 targets, 2 texts, 2 filters, two limits, a budget of 4, 2 captures of a target and in all, 3 stored | eviction by each limit |
| limits | 3 requests in a window of 2 seconds, costs 1 and 2, 2 reads of 2 pages, 3 seconds | a window that slides, a continuation that expires or is evicted |
| log | 2 processes, 10 records, 4 segments of 2 records, 3 kills, one failing write | an interrupted rotation that is interrupted again |

Threads (as targets and writers too) and filters are symmetric.

`HelperProofs` proves `ResultRecorded`, `ConnectionsPaced`, `PublishedOnly`,
`PagesOfOneOutput` and `LogKept`, for any number of threads, queries, devices,
calls, captures and filters and any size of the cache, from `ReadAssumption` and
`HelperAssumption`. Each is proved of its part by itself; the lemma
`PartsAreKept` (a step of the Helper is one of one part) carries them over.

For the reads the invariant `ReadInv` says: who waits for the spacing or has a
connection holds the lane (`Lane`); what is recorded at each label (`Record`); a
client holds the beginning of one output, and what it follows is the next page
of it (`Follows`). The cache does not occur in it: the digest in the key is
enough, whatever is evicted or replaced.

For the captures `CaptureInv` says: a capture was given to a client, was
withheld, or is that of the call at work, which discards it if it fails
(`Known`); the view it caches
is of its own text, and so is whatever was given under its identity (`Sound`);
identities are not reused; and a call for a second page is a read of the capture
whose first page the client has (`SecondPage`).

`LogKept` is proved for any number of writers, segments, records, failures and
kills, from `log_limits`. A call that writes leaves part of a record in
the active segment for a while, and a kill leaves it there for good. `LogInv`
therefore speaks of the segments without what the call at work has written
(`Settled`): these hold every returned record that was not removed, in order and
within their size, with no more fragments than there were kills (`Safe`). A
rotation moves a segment into a hole, so that order is kept whichever of its
renames is the last.

## Store of the auditor (`AuditorStore.tla`)

Commands read a snapshot, then record the run, its findings, events and, if
asked for, its baseline in one transaction, and report. A run that is incomplete
or skips a rule carries the findings of that rule over from the last run that
evaluated it (`_carried`). `FindingLedger` is what the store promises: per
tenant, what is open, what is accepted, and reports of what is new, known and
gone.

A run is known by its id, and a history is a set of ids, of which the newest is
the largest (`ORDER BY id DESC` in the code).

Abstractions: a transaction is one step, since SQLite undoes one that does not
reach its end; a snapshot is the rules it lets evaluate and their hits;
fingerprints are free of collisions; accepting or forgetting single findings is
left out. The catalog of rules is the same for all runs of a store: the code
counts a rule of which a run has no status as evaluated (`unevaluated_rules`),
which concerns runs from before the rule existed, and these are not modelled.

The run `auditor_store` has two processes, two tenants, three findings of two
rules, five snapshots (among them a gate that stops the evaluation and runs that
skip a rule), two kinds of command, three attempts, and stores of the previous
release to migrate. It checks `LedgerKept` (the store implements the ledger:
`Ledger == INSTANCE FindingLedger` with what `last_evaluated` returns for what
is open and the baseline for what is accepted), `QueryAgrees`, `HistoryTrue`
and `BaselineEarned`. Processes and tenants are symmetric.

`AuditorStoreProofs` proves all four, for any processes, tenants, rules,
findings, snapshots, policies and attempts and any store of the previous
release. The assumptions are `StoreAssumption` (types of the constants) and
`EarlierAssumption` (an earlier store has one policy a tenant, and its baseline
names findings of complete runs). `StoreImplementsLedger` adds the initial
states to `LedgerKept` and states the refinement as a whole.

The inductive invariant `Inv` says what the rows of the store are: a fingerprint
names the tenant of its run (`OwnRows`), a baseline row comes from a complete
run of the tenant (`Baselines`), attempts are drawn once (`Attempts`); and what
a command that is about to report holds: its run as it is in the store, and as
`previous` what was open before the id of that run (`Jobs`), also after other
commands have recorded more. The refinement then rests on one characterisation
of what `last_evaluated` computes (`OpenFindings`): a finding is open if a
complete run of the device has it and every complete run after that skipped its
rule. From it follows what a new run changes (`OpenRecorded`), and that a
migration, which renames rows and nothing else, changes nothing
(`MigrateLedger`).

## Where the code and its documents differ without a run of their own

The properties state what the code does. In these places that is less than a
reader of the documents or of a message may expect:

- `write_private` with `replace=False` (`src/netops/files.py:59`) links the file
  and removes the temporary name afterwards, and `check_regular` refuses a file
  with two names. A kill in between stops the delivery of the audit queue (second
  exception of `EveryRecordLeaves`), and makes a rotation of the CA impossible to
  repeat (`KeyUnreadable`), although `src/netops/operator.py:478` prints "If
  rotation was interrupted, run it again; it always issues a complete new pair."
- A write of the proxy to its child has no deadline and holds the controller
  lock (hypothesis of `EveryRequestAnswered`).
- A capture whose completion could not be recorded stays stored, although its
  client was told of an error (`withheld` in `PublishedOnly`).
- `_settle_after_expiry` revokes the token of a webhook with the change still on
  the device (`GivenUp` in `NeverDisarmedUnconfirmed`).
- `docs/helper-configuration.md` says at line 157 that a follow-up page "is not
  counted", but one whose continuation has expired, was evicted or was used is.
- `components/netops-auditor/docs/tools.md` says at line 42 that `gone` compares
  the last run with "the previous completely evaluated run"; the code compares
  it, rule by rule, with the last run that evaluated the rule (`_carried`), and
  this is what `FindingLedger` states.

## What is not modelled

Text processing (parsers, planners, checks, reports, redaction, query catalogs),
input validation, command lines, and what a device or a server does beyond the
answers the code distinguishes. Loss of power, where data that was written but
not synchronised disappears, is not modelled either: a crash is the death of a
process. The components of `PROJECT.json` give the reason for every part.

## What is model-checked and not proved

- Liveness is out of the prover's reach: `EveryOperationSettles`,
  `EverythingEnds`, `InterruptedRecovers`, `CallEnds`, `EveryRecordLeaves`,
  `EveryRequestAnswered`.
- So is induction over data, and with it sums over sets and sequences:
  `BudgetsKept`, `BudgetKept`, `MemoryBounded`, `RateKept`; and properties of
  functions computed by recursion: `RoundTrip`.
- Not proved, though nothing known stands against it: `RecordsKept`.
- The bounds named `Max...` are constants of the theorems like all others, and
  these hold for every value of them.
