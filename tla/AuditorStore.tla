---------------------------- MODULE AuditorStore ----------------------------
(* The store of the auditor and the commands that write it                  *)
(* (netops_auditor: store.py, state.py, cli.py, query.py, engine.py). A     *)
(* transaction (BEGIN IMMEDIATE to COMMIT) is one step, as SQLite undoes    *)
(* one that does not reach its end; what a command reads or checks before,  *)
(* and its report afterwards, are steps of their own. A snapshot stands for *)
(* what a configuration shows: the rules it lets evaluate and their hits.   *)
EXTENDS Naturals, Sequences

CONSTANTS
    Procs, Tenants,      \* commands that run at a time; tenants, one device each
    Rules, Required,     \* the catalog and the rules an audit must evaluate
    Findings, Rule,      \* what rules can find, and the rule of each
    Snapshots,
    Policies, Commands,  \* the policy a command names, and whether it collects
    Earlier,             \* stores of the previous schema
    None,
    MaxAttempts          \* bound

ASSUME StoreAssumption ==
    /\ Required \subseteq Rules /\ Rule \in [Findings -> Rules]
    /\ Snapshots \subseteq [gate : BOOLEAN, evaluated : SUBSET Rules, hits : SUBSET Findings]
    /\ Commands \subseteq [policy : Policies, collect : BOOLEAN]
    /\ None \notin [tenant : Tenants, new : SUBSET Findings, known : SUBSET Findings,
                    gone : SUBSET Findings]

VARIABLES
    version,     \* user_version of the database
    runs,        \* rows of runs with their findings and rule status, oldest first
    baseline,    \* rows of baseline
    events,      \* rows of channel_events
    pc, job,     \* of a process: label, and what it works on
    attempts

vars == <<version, runs, baseline, events, pc, job, attempts>>
----------------------------------------------------------------------------
(* fingerprint_v1 and fingerprint_of; free of collisions *)
Fingerprint(v, t, f) == IF v = 1 THEN <<f>> ELSE <<t, f>>
Row(v, t, f) == [finding |-> f, fp |-> Fingerprint(v, t, f)]
Prints(rows) == {x.fp : x \in rows}

(* rows of runs with their findings, in a store of schema version v *)
Rows(v, tenants) == {Row(v, t, f) : t \in tenants, f \in Findings}
RunRows(v) ==
    [tenant : Tenants, policy : Policies, gate : BOOLEAN, evaluated : SUBSET Rules,
     found : SUBSET Rows(v, Tenants), attempt : Nat]

(* evaluate: a finding of a scope gate, or of the completeness check of a   *)
(* collection, leaves all other rules unevaluated                           *)
evaluated(s) == IF s.gate THEN {} ELSE s.evaluated
found(s) == {f \in s.hits : Rule[f] \in evaluated(s)}

evaluation_complete(run) == ~run.gate /\ Required \subseteq run.evaluated

(* Every run has a status of every rule: the catalog is the same for all    *)
(* runs of a store (the code counts a rule without a status as evaluated)   *)
unevaluated_rules(run) == Rules \ run.evaluated

(* runs_for_device: the ids, of which the newest is the largest *)
runs_for_device(t) == {i \in DOMAIN runs : runs[i].tenant = t}
Newest(ids) == {i \in ids : \A j \in ids : j <= i}

Complete(ids) == {i \in ids : evaluation_complete(runs[i])}

(* Mutant: a rule that was evaluated in between is not taken off the list *)
Carried_All(ids, skipped) ==
    UNION {{x \in runs[i].found : Rule[x.finding] \in skipped} : i \in Complete(ids)}

(* _carried: for the rules skipped since, the findings of older runs, back  *)
(* to the one that evaluated the rule                                       *)
Carried(ids, skipped) ==
    UNION {{x \in runs[i].found :
              /\ Rule[x.finding] \in skipped
              /\ \A j \in Complete(ids) : j > i => Rule[x.finding] \in unevaluated_rules(runs[j])} :
           i \in Complete(ids)}

(* last_evaluated: of the newest complete run, and carried over *)
last_evaluated(ids) ==
    UNION {runs[i].found \cup Carried({j \in ids : j < i}, unevaluated_rules(runs[i])) :
           i \in Newest(Complete(ids))}

(* classify: gone, if the rule was evaluated by a complete run *)
Gone(run, previous) ==
    {x \in previous : /\ evaluation_complete(run) /\ x.fp \notin Prints(run.found)
                      /\ Rule[x.finding] \in run.evaluated}

baseline_fingerprints(t) == {b.fp : b \in {b \in baseline : b.tenant = t}}

(* What the previous release has left: runs of one policy a tenant, without *)
(* attempts, and baselines that name findings of complete runs.             *)
ASSUME EarlierAssumption ==
    \A e \in Earlier :
        /\ e.runs \in Seq(RunRows(1)) /\ \A i \in DOMAIN e.runs : e.runs[i].attempt = 0
        /\ \A i, j \in DOMAIN e.runs :
              e.runs[i].tenant = e.runs[j].tenant => e.runs[i].policy = e.runs[j].policy
        /\ \A b \in e.baseline : \E i \in DOMAIN e.runs :
              /\ evaluation_complete(e.runs[i])
              /\ b \in {[tenant |-> e.runs[i].tenant, fp |-> x] : x \in Prints(e.runs[i].found)}
----------------------------------------------------------------------------
Job(tenant, policy, collect, attempt) ==
    [tenant |-> tenant, policy |-> policy, collect |-> collect, attempt |-> attempt,
     id |-> 0, run |-> None, previous |-> {}, baseline |-> {}]
Idle == Job(None, None, FALSE, 0)

(* a new store, or one of the previous release *)
Init ==
    /\ \/ version = 2 /\ runs = <<>> /\ baseline = {}
       \/ \E e \in Earlier : version = 1 /\ runs = e.runs /\ baseline = e.baseline
    /\ events = {} /\ pc = [p \in Procs |-> "idle"] /\ job = [p \in Procs |-> Idle]
    /\ attempts = 0

Goto(p, label) == pc' = [pc EXCEPT ![p] = label]
Done(p) == Goto(p, "idle") /\ job' = [job EXCEPT ![p] = Idle]

(* _command_run and _command_collect up to the transaction *)
Read(p) ==
    /\ pc[p] = "idle" /\ attempts < MaxAttempts /\ attempts' = attempts + 1
    /\ \E t \in Tenants, command \in Commands :
          job' = [job EXCEPT ![p] = Job(t, command.policy, command.collect, attempts + 1)]
    /\ Goto(p, "record") /\ UNCHANGED <<version, runs, baseline, events>>

RunOf(j, s) ==
    [tenant |-> j.tenant, policy |-> j.policy, gate |-> s.gate, evaluated |-> evaluated(s),
     found |-> {Row(2, j.tenant, f) : f \in found(s)},
     attempt |-> IF j.collect THEN j.attempt ELSE 0]

(* Mutant: the history is not bound to a policy *)
Admit_Any(t, policy) == TRUE

(* _policy_scope: a device keeps its policy *)
Admit(t, policy) ==
    \A i \in Newest(runs_for_device(t)) : runs[i].policy = policy

(* Mutant: the history is read after the run has been inserted *)
Observed_After(t, run) ==
    [previous |-> IF evaluation_complete(run) THEN run.found ELSE last_evaluated(runs_for_device(t)),
     baseline |-> baseline_fingerprints(t)]

(* _history: seen in the transaction, before the run is inserted *)
Observed(t, run) ==
    [previous |-> last_evaluated(runs_for_device(t)), baseline |-> baseline_fingerprints(t)]

(* _record_run: the run, its events and, if asked for, its baseline, or     *)
(* nothing of it. A baseline is not taken from an incomplete run.           *)
Record(p, s, accept) ==
    LET j == job[p]
        run == RunOf(j, s)
        seen == Observed(j.tenant, run) IN
    /\ pc[p] = "record" /\ version = 2
    /\ Admit(j.tenant, j.policy)
    /\ accept => evaluation_complete(run)
    /\ runs' = Append(runs, run)
    /\ baseline' = baseline \cup
          IF accept THEN {[tenant |-> j.tenant, fp |-> x] : x \in Prints(run.found)} ELSE {}
    /\ events' = events \cup
          IF j.collect THEN {[attempt |-> j.attempt, run |-> Len(runs) + 1]} ELSE {}
    /\ job' = [job EXCEPT ![p] = [j EXCEPT !.id = Len(runs) + 1, !.run = run,
                                           !.previous = seen.previous, !.baseline = seen.baseline]]
    /\ Goto(p, "report") /\ UNCHANGED <<version, attempts>>

(* classify and the output *)
Report(p) ==
    /\ pc[p] = "report" /\ Done(p)
    /\ UNCHANGED <<version, runs, baseline, events, attempts>>

(* a snapshot, a policy or the store refuses; the events of a collection    *)
(* are then recorded on their own (_traced), unless that fails as well      *)
Refuse(p) ==
    /\ pc[p] = "record" /\ Done(p)
    /\ \/ /\ job[p].collect /\ version = 2
          /\ events' = events \cup {[attempt |-> job[p].attempt, run |-> 0]}
       \/ UNCHANGED events
    /\ UNCHANGED <<version, runs, baseline, attempts>>
----------------------------------------------------------------------------
(* _migrate reads the version before its transaction, and not again in it *)
MigrateCheck(p) ==
    /\ pc[p] = "idle" /\ version = 1
    /\ Goto(p, "migrate")
    /\ UNCHANGED <<version, runs, baseline, events, job, attempts>>

(* Mutant: the old fingerprint, which names no tenant, is the key *)
Fresh_AnyTenant(b) ==
    UNION {{Fingerprint(2, runs[i].tenant, x.finding) : x \in {y \in runs[i].found : y.fp = b.fp}} :
           i \in DOMAIN runs}

(* _migrated_baseline: what a finding of the tenant with this fingerprint   *)
(* is called now                                                            *)
Fresh(b) ==
    {Fingerprint(2, b.tenant, x.finding) :
        x \in {y \in UNION {runs[i].found : i \in runs_for_device(b.tenant)} : y.fp = b.fp}}

Migrate(p) ==
    /\ pc[p] = "migrate" /\ Goto(p, "idle")
    /\ \/ /\ \A b \in baseline : Fresh(b) # {}
          /\ version' = 2
          /\ runs' = [i \in DOMAIN runs |->
                [runs[i] EXCEPT !.found = {Row(2, runs[i].tenant, x.finding) : x \in @}]]
          /\ \E name \in [baseline -> UNION {Fresh(b) : b \in baseline}] :
                /\ \A b \in baseline : name[b] \in Fresh(b)
                /\ baseline' = {[tenant |-> b.tenant, fp |-> name[b]] : b \in baseline}
       \/ (\E b \in baseline : Fresh(b) = {}) /\ UNCHANGED <<version, runs, baseline>>
    /\ UNCHANGED <<events, job, attempts>>

(* a process dies: its transaction leaves nothing *)
Kill(p) ==
    /\ pc[p] # "idle" /\ Done(p)
    /\ UNCHANGED <<version, runs, baseline, events, attempts>>

Next ==
    \E p \in Procs :
        \/ Read(p) \/ Report(p) \/ Refuse(p) \/ MigrateCheck(p) \/ Migrate(p) \/ Kill(p)
        \/ \E s \in Snapshots, accept \in BOOLEAN : Record(p, s, accept)

Spec == Init /\ [][Next]_vars
----------------------------------------------------------------------------
(* The ledger behind the store: what last_evaluated returns is open, and    *)
(* the baseline holds what is accepted.                                     *)
Open == [t \in Tenants |-> {x.finding : x \in last_evaluated(runs_for_device(t))}]
Accepted ==
    [t \in Tenants |-> {f \in Findings : Fingerprint(version, t, f) \in baseline_fingerprints(t)}]
Outbox ==
    [p \in Procs |->
        IF pc[p] # "report" THEN None
        ELSE LET j == job[p] IN
             [tenant |-> j.tenant,
              new |-> {x.finding : x \in {y \in j.run.found : y.fp \notin j.baseline}},
              known |-> {x.finding : x \in {y \in j.run.found : y.fp \in j.baseline}},
              gone |-> {x.finding : x \in Gone(j.run, j.previous)}]]
Ledger == INSTANCE FindingLedger WITH
    open <- Open, accepted <- Accepted, outbox <- Outbox,
    Audits <- {[found |-> found(s), evaluated |-> evaluated(s),
                complete |-> ~s.gate /\ Required \subseteq s.evaluated] : s \in Snapshots}

(* The store implements the ledger: whatever runs are incomplete, skip      *)
(* rules, fail, are killed or run at the same time, each report says what   *)
(* has gone and what is known since the audit that entered it, every        *)
(* disappearance is in exactly one report, and a migration, also one that   *)
(* runs twice, changes nothing (_record_run, last_evaluated, classify,      *)
(* _migrate).                                                               *)
LedgerKept == [][Ledger!Next]_<<Open, Accepted, Outbox>>

(* What the MCP tools read later is what the command has reported: the last *)
(* run against last_evaluated of the runs before it declares the same       *)
(* findings gone that the ledger took off (list_findings, _classified).     *)
QueryGone(t) ==
    LET ids == runs_for_device(t) IN
    UNION {Gone(runs[i], last_evaluated(ids \ {i})) : i \in Newest(ids)}
QueryAgrees ==
    \A p \in Procs : LET t == job[p].tenant IN
        pc[p] = "report" /\ job[p].id \in Newest(runs_for_device(t)) =>
            {x.finding : x \in QueryGone(t)} = Outbox[p].gone

(* The history of a device belongs to one policy, also when two commands    *)
(* with different policies find an empty history ("A run refuses before     *)
(* recording instead of marking findings under the old policy as gone").    *)
OnePolicy ==
    \A i, j \in DOMAIN runs : runs[i].tenant = runs[j].tenant => runs[i].policy = runs[j].policy

(* Every entry of the baseline carries the fingerprint of a finding of a    *)
(* complete run of its own tenant, before and after a migration.            *)
BaselineEarned ==
    \A b \in baseline : \E i \in DOMAIN runs :
        /\ runs[i].tenant = b.tenant /\ evaluation_complete(runs[i])
        /\ b.fp \in Prints(runs[i].found)

(* The events of a collection are recorded once: with its run, in the same  *)
(* transaction, or alone when there is no run (_traced).                    *)
TracedOnce ==
    /\ \A d, e \in events : d.attempt = e.attempt => d = e
    /\ \A i \in DOMAIN runs : runs[i].attempt > 0 => [attempt |-> runs[i].attempt, run |-> i] \in events

(* The history of a device belongs to one policy, and the events of a       *)
(* collection are in it once, with their run: see the two parts above.      *)
HistoryTrue == OnePolicy /\ TracedOnce
=============================================================================
