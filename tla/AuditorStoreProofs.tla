------------------------ MODULE AuditorStoreProofs ------------------------
(* Proofs about AuditorStore for any processes, tenants, rules and stores   *)
(* of the previous release: its history, its baseline, what is queried      *)
(* later, and that it implements FindingLedger.                             *)
EXTENDS AuditorStore, WellFoundedInduction, TLAPS

(* Zenon is the default prover; a leaf with arithmetic cites SMT. *)
USE Zenon
----------------------------------------------------------------------------
(* The inductive invariant *)
Labels == {"idle", "record", "report", "migrate"}
JobRows ==
    [tenant : Tenants \cup {None}, policy : Policies \cup {None}, collect : BOOLEAN,
     attempt : Nat, id : Nat, run : RunRows(2) \cup {None},
     previous : SUBSET Rows(2, Tenants), baseline : SUBSET {x.fp : x \in Rows(2, Tenants)}]

TypeOK ==
    /\ version \in {1, 2} /\ runs \in Seq(RunRows(version))
    /\ events \subseteq [attempt : Nat, run : Nat] /\ attempts \in Nat
    /\ pc \in [Procs -> Labels] /\ job \in [Procs -> JobRows]

(* the fingerprint of a row names the tenant of its run and its finding *)
OwnRows == \A i \in DOMAIN runs : runs[i].found \subseteq Rows(version, {runs[i].tenant})

(* what was open when the run with this id was recorded *)
History(t, id) == last_evaluated({i \in runs_for_device(t) : i < id})

(* what a command in its transaction or its report works with *)
Jobs ==
    \A p \in Procs :
        /\ pc[p] = "record" => job[p].tenant \in Tenants /\ job[p].policy \in Policies
        /\ pc[p] = "report" =>
              /\ version = 2 /\ job[p].id \in DOMAIN runs
              /\ job[p].run = runs[job[p].id] /\ job[p].tenant = runs[job[p].id].tenant
              /\ job[p].previous = History(job[p].tenant, job[p].id)

(* baseline rows are of the tenant and of a complete run of it *)
Baselines ==
    \A b \in baseline : \E i \in DOMAIN runs : \E x \in runs[i].found :
        /\ evaluation_complete(runs[i]) /\ b = [tenant |-> runs[i].tenant, fp |-> x.fp]

(* the events of an attempt that is not recorded yet are not in the store,  *)
(* and no other command has the attempt                                     *)
Attempts ==
    /\ \A e \in events : e.attempt <= attempts
    /\ \A p \in Procs : pc[p] = "record" =>
          /\ job[p].attempt > 0 /\ job[p].attempt <= attempts
          /\ \A e \in events : e.attempt # job[p].attempt
          /\ \A q \in Procs : q # p /\ pc[q] = "record" => job[q].attempt # job[p].attempt

Inv == TypeOK /\ OwnRows /\ Jobs /\ Baselines /\ Attempts /\ OnePolicy /\ TracedOnce
----------------------------------------------------------------------------
(* A set of ids that is not empty has a newest one. *)
LEMMA HasNewest ==
    ASSUME NEW n \in Nat, NEW ids \in SUBSET (1 .. n), ids # {}
    PROVE  \E i \in ids : \A j \in ids : j <= i
<1> DEFINE T == {n - i : i \in ids}
<1>1. T \subseteq Nat /\ T # {}
  <2>1. \A i \in ids : n - i \in Nat
    BY SMT
  <2> QED BY <2>1
<1>2. \E x \in T : \A y \in T : ~ (<<y, x>> \in OpToRel(<, Nat))
  <2> HIDE DEF T
  <2> QED BY <1>1, WFMin, NatLessThanWellFounded
<1>3. PICK x \in T : \A y \in T : ~ (<<y, x>> \in OpToRel(<, Nat))
  BY <1>2
<1>4. \A y \in T : x <= y
  <2>1. \A a, b \in Nat : <<a, b>> \in OpToRel(<, Nat) <=> a < b
    BY SMT DEF OpToRel
  <2> HIDE DEF T
  <2>2. x \in Nat /\ \A y \in T : y \in Nat /\ ~ (y < x)
    BY <1>1, <1>3, <2>1
  <2> QED BY <2>2, SMT
<1>5. PICK i \in ids : x = n - i
  BY <1>3
<1>6. \A j \in ids : n - j \in T
  OBVIOUS
<1>7. \A j \in ids : j <= i
  <2> HIDE DEF T
  <2> QED BY <1>4, <1>5, <1>6, SMT
<1> QED BY <1>7

(* What last_evaluated returns is, for each rule, what the last complete    *)
(* run that evaluated it has found: _carried looks back exactly that far.   *)
LastOfEachRule ==
    runs \in Seq(RunRows(version)) =>
        \A ids \in SUBSET DOMAIN runs : \A x :
            x \in last_evaluated(ids) <=>
                \E i \in Complete(ids) :
                    /\ x \in runs[i].found
                    /\ \A j \in Complete(ids) :
                          j > i => Rule[x.finding] \in unevaluated_rules(runs[j])

LEMMA LastEvaluated == LastOfEachRule
<1> SUFFICES ASSUME runs \in Seq(RunRows(version)), NEW ids \in SUBSET DOMAIN runs, NEW x
             PROVE  x \in last_evaluated(ids) <=>
                       \E i \in Complete(ids) :
                           /\ x \in runs[i].found
                           /\ \A j \in Complete(ids) :
                                 j > i => Rule[x.finding] \in unevaluated_rules(runs[j])
  BY DEF LastOfEachRule
<1> DEFINE C == Complete(ids)
           Skips(j) == Rule[x.finding] \in unevaluated_rules(runs[j])
           Before(m) == {j \in ids : j < m}
<1>1. Len(runs) \in Nat /\ DOMAIN runs = 1 .. Len(runs)
  BY SMT
<1>2. C \subseteq 1 .. Len(runs)
  BY <1>1 DEF Complete
<1>3. \A m : Complete(Before(m)) = {j \in C : j < m}
  BY DEF Complete
<1>4. \A m : x \in Carried(Before(m), unevaluated_rules(runs[m])) <=>
         \E i \in C : /\ i < m /\ x \in runs[i].found /\ Skips(m)
                      /\ \A j \in C : j < m /\ j > i => Skips(j)
  <2>1. \A B, skipped :
           x \in Carried(B, skipped) <=>
               \E i \in Complete(B) : /\ x \in runs[i].found /\ Rule[x.finding] \in skipped
                                      /\ \A j \in Complete(B) : j > i => Skips(j)
    <3> TAKE B, skipped
    <3> DEFINE Of(i) == {y \in runs[i].found :
                           /\ Rule[y.finding] \in skipped
                           /\ \A j \in Complete(B) : j > i =>
                                 Rule[y.finding] \in unevaluated_rules(runs[j])}
    <3>1. x \in Carried(B, skipped) <=> \E i \in Complete(B) : x \in Of(i)
      BY DEF Carried
    <3>2. \A i : x \in Of(i) <=> /\ x \in runs[i].found /\ Rule[x.finding] \in skipped
                                 /\ \A j \in Complete(B) : j > i => Skips(j)
      OBVIOUS
    <3> HIDE DEF Of, Skips
    <3> QED BY <3>1, <3>2
  <2> SUFFICES ASSUME NEW m
               PROVE  x \in Carried(Before(m), unevaluated_rules(runs[m])) <=>
                         \E i \in C : /\ i < m /\ x \in runs[i].found /\ Skips(m)
                                      /\ \A j \in C : j < m /\ j > i => Skips(j)
    OBVIOUS
  <2> DEFINE D == Complete(Before(m))
  <2>2. x \in Carried(Before(m), unevaluated_rules(runs[m])) <=>
           \E i \in D : /\ x \in runs[i].found /\ Skips(m)
                        /\ \A j \in D : j > i => Skips(j)
    BY <2>1
  <2>3. D = {j \in C : j < m}
    BY <1>3
  <2> HIDE DEF C, D, Before, Skips
  <2> QED BY <2>2, <2>3
<1>5. x \in last_evaluated(ids) <=>
         \E m \in C : /\ \A j \in C : j <= m
                      /\ x \in runs[m].found \/ x \in Carried(Before(m), unevaluated_rules(runs[m]))
  <2>1. \A m : m \in Newest(C) <=> m \in C /\ \A j \in C : j <= m
    BY DEF Newest
  <2>2. x \in last_evaluated(ids) <=>
           \E m \in Newest(C) : x \in runs[m].found \cup Carried(Before(m), unevaluated_rules(runs[m]))
    BY DEF last_evaluated
  <2> HIDE DEF C, Before
  <2> QED BY <2>1, <2>2
<1>6. ASSUME x \in last_evaluated(ids)
      PROVE  \E i \in C : x \in runs[i].found /\ \A j \in C : j > i => Skips(j)
  <2> HIDE DEF C, Skips, Before
  <2>1. PICK m \in C : /\ \A j \in C : j <= m
                       /\ x \in runs[m].found \/ x \in Carried(Before(m), unevaluated_rules(runs[m]))
    BY <1>5, <1>6
  <2>2. CASE x \in runs[m].found
    BY <1>2, <2>1, <2>2, SMT
  <2>3. CASE x \in Carried(Before(m), unevaluated_rules(runs[m]))
    <3>1. PICK i \in C : /\ i < m /\ x \in runs[i].found /\ Skips(m)
                         /\ \A j \in C : j < m /\ j > i => Skips(j)
      BY <1>4, <2>3
    <3>2. \A j \in C : j < m \/ j = m
      BY <1>2, <2>1, SMT
    <3> QED BY <3>1, <3>2
  <2> QED BY <2>1, <2>2, <2>3
<1>7. ASSUME NEW i \in C, x \in runs[i].found, \A j \in C : j > i => Skips(j)
      PROVE  x \in last_evaluated(ids)
  <2> HIDE DEF C, Skips, Before
  <2>1. PICK m \in C : \A j \in C : j <= m
    BY <1>1, <1>2, HasNewest
  <2>2. i = m \/ (i < m /\ m > i)
    BY <1>2, <2>1, SMT
  <2> QED BY <1>4, <1>5, <1>7, <2>1, <2>2
<1> QED BY <1>6, <1>7

(* It is that after a step as well. *)
LEMMA LastEvaluatedNext == LastOfEachRule'
BY LastEvaluated, PTL
----------------------------------------------------------------------------
(* A fingerprint names its finding, in both schemas. *)
LEMMA FingerprintsDiffer ==
    \A v, t, f, g : Fingerprint(v, t, f) = Fingerprint(v, t, g) => f = g
BY SMT DEF Fingerprint

LEMMA RowNames ==
    ASSUME NEW v, NEW t, NEW x \in Rows(v, {t})
    PROVE  /\ x.finding \in Findings /\ x.fp = Fingerprint(v, t, x.finding)
           /\ x = Row(v, t, x.finding)
<1>0. PICK u \in {t}, f \in Findings : x = Row(v, u, f)
  BY SMT DEF Rows
<1>1. x = Row(v, t, f)
  BY <1>0
<1>2. x.finding = f /\ x.fp = Fingerprint(v, t, f)
  BY <1>1 DEF Row
<1> QED BY <1>1, <1>2

LEMMA RowIn ==
    ASSUME NEW v, NEW T, NEW t \in T, NEW f \in Findings
    PROVE  Row(v, t, f) \in Rows(v, T)
BY SMT DEF Rows

(* A run that is added, or nothing, leaves the history of each older run. *)
LEMMA HistoryKept ==
    ASSUME runs \in Seq(RunRows(version)), runs' \in Seq(RunRows(version')),
           Len(runs) <= Len(runs'), \A i \in DOMAIN runs : runs'[i] = runs[i],
           NEW t, NEW n \in 1 .. Len(runs) + 1
    PROVE  History(t, n)' = History(t, n)
<1> DEFINE Older == {i \in runs_for_device(t) : i < n}
<1>1. DOMAIN runs = 1 .. Len(runs) /\ DOMAIN runs' = 1 .. Len(runs')
      /\ Len(runs) \in Nat /\ Len(runs') \in Nat
  BY SMT
<1>2. \A i \in DOMAIN runs' : i < n => i \in DOMAIN runs
  BY <1>1, SMT
<1>3. DOMAIN runs \subseteq DOMAIN runs'
  BY <1>1, SMT
<1>4. Older' = Older
  BY <1>2, <1>3 DEF runs_for_device
<1>5. Older \subseteq DOMAIN runs
  BY DEF runs_for_device
<1>6. ASSUME NEW ids \in SUBSET DOMAIN runs
      PROVE  last_evaluated(ids)' = last_evaluated(ids)
  <2>1. Complete(ids)' = Complete(ids)
    BY DEF Complete, evaluation_complete
  <2>2. Complete(ids) \subseteq DOMAIN runs
    BY DEF Complete
  <2>3. ASSUME NEW x
        PROVE  x \in last_evaluated(ids)' <=> x \in last_evaluated(ids)
    <3>1. x \in last_evaluated(ids) <=>
             \E i \in Complete(ids) :
                 /\ x \in runs[i].found
                 /\ \A j \in Complete(ids) : j > i => Rule[x.finding] \in unevaluated_rules(runs[j])
      BY LastEvaluated DEF LastOfEachRule
    <3>2. x \in last_evaluated(ids)' <=>
             \E i \in Complete(ids)' :
                 /\ x \in runs'[i].found
                 /\ \A j \in Complete(ids)' : j > i => Rule[x.finding] \in unevaluated_rules(runs'[j])
      BY <1>3, LastEvaluatedNext DEF LastOfEachRule
    <3>3. \A i \in Complete(ids) :
             /\ runs'[i].found = runs[i].found
             /\ unevaluated_rules(runs'[i]) = unevaluated_rules(runs[i])
      BY <2>2
    <3> QED BY <2>1, <3>1, <3>2, <3>3
  <2> QED BY <2>3
<1>7. History(t, n) = last_evaluated(Older) /\ History(t, n)' = last_evaluated(Older)'
  BY DEF History
<1> HIDE DEF Older
<1> QED BY <1>4, <1>5, <1>6, <1>7
----------------------------------------------------------------------------
LEMMA IdleType == Idle \in JobRows
BY SMT DEF Idle, Job, JobRows

LEMMA InitInv == Init => Inv
<1> SUFFICES ASSUME Init PROVE Inv
  OBVIOUS
<1>1. /\ events = {} /\ attempts = 0 /\ pc \in [Procs -> Labels] /\ job \in [Procs -> JobRows]
      /\ \A p \in Procs : pc[p] = "idle"
  BY IdleType DEF Init, Labels
<1>2. Jobs /\ Attempts
  BY <1>1 DEF Jobs, Attempts
<1>3. CASE version = 2 /\ runs = <<>> /\ baseline = {}
  <2>1. DOMAIN runs = {} /\ runs \in Seq(RunRows(version))
    BY <1>3, SMT
  <2>2. TypeOK
    BY <1>1, <1>3, <2>1, SMT DEF TypeOK
  <2> QED BY <1>1, <1>2, <1>3, <2>1, <2>2 DEF Inv, OwnRows, Baselines, OnePolicy, TracedOnce
<1>4. ASSUME NEW e \in Earlier, version = 1, runs = e.runs, baseline = e.baseline
      PROVE  Inv
  <2>1. /\ runs \in Seq(RunRows(1)) /\ \A i \in DOMAIN runs : runs[i].attempt = 0
        /\ OnePolicy
        /\ \A b \in baseline : \E i \in DOMAIN runs :
              /\ evaluation_complete(runs[i])
              /\ b \in {[tenant |-> runs[i].tenant, fp |-> x] : x \in Prints(runs[i].found)}
    <3>1. /\ e.runs \in Seq(RunRows(1)) /\ \A i \in DOMAIN e.runs : e.runs[i].attempt = 0
          /\ \A i, j \in DOMAIN e.runs :
                e.runs[i].tenant = e.runs[j].tenant => e.runs[i].policy = e.runs[j].policy
          /\ \A b \in e.baseline : \E i \in DOMAIN e.runs :
                /\ evaluation_complete(e.runs[i])
                /\ b \in {[tenant |-> e.runs[i].tenant, fp |-> x] : x \in Prints(e.runs[i].found)}
      BY EarlierAssumption
    <3>2. runs \in Seq(RunRows(1)) /\ \A i \in DOMAIN runs : runs[i].attempt = 0
      BY <1>4, <3>1
    <3>3. OnePolicy
      BY <1>4, <3>1 DEF OnePolicy
    <3>4. \A b \in baseline : \E i \in DOMAIN runs :
             /\ evaluation_complete(runs[i])
             /\ b \in {[tenant |-> runs[i].tenant, fp |-> x] : x \in Prints(runs[i].found)}
      BY <1>4, <3>1, SMT
    <3> QED BY <3>2, <3>3, <3>4
  <2>2. TypeOK
    BY <1>1, <1>4, <2>1, SMT DEF TypeOK
  <2>3. OwnRows
    <3>1. \A i \in DOMAIN runs : runs[i].found \subseteq Rows(1, Tenants)
      <4>1. \A i \in DOMAIN runs : runs[i] \in RunRows(1)
        BY <2>1, SMT
      <4> QED BY <4>1, SMT DEF RunRows
    <3>2. \A t : Rows(1, Tenants) \subseteq Rows(1, {t})
      BY SMT DEF Rows, Row, Fingerprint
    <3> QED BY <1>4, <3>1, <3>2 DEF OwnRows
  <2>4. Baselines
    BY <2>1 DEF Baselines, Prints
  <2>5. TracedOnce
    BY <1>1, <2>1, SMT DEF TracedOnce
  <2> QED BY <1>2, <2>1, <2>2, <2>3, <2>4, <2>5 DEF Inv
<1> QED BY <1>3, <1>4 DEF Init

(* What a step that leaves runs and baseline alone keeps. *)
LEMMA StoreKept ==
    ASSUME Inv, UNCHANGED <<version, runs, baseline>>
    PROVE  OwnRows' /\ Baselines' /\ OnePolicy'
<1>1. OwnRows'
  BY DEF Inv, OwnRows
<1>2. Baselines'
  <2>1. runs' = runs /\ baseline' = baseline
    OBVIOUS
  <2>2. Baselines
    BY DEF Inv
  <2> QED BY <2>1, <2>2, SMT DEF Baselines
<1>3. OnePolicy'
  BY DEF Inv, OnePolicy
<1> QED BY <1>1, <1>2, <1>3

(* A command in its report keeps what it works with, whatever the others    *)
(* add; p is the process of the step.                                       *)
LEMMA JobsKept ==
    ASSUME Inv, TypeOK', version' = version,
           Len(runs) <= Len(runs'), \A i \in DOMAIN runs : runs'[i] = runs[i],
           NEW p \in Procs,
           \A q \in Procs \ {p} : pc'[q] = pc[q] /\ job'[q] = job[q],
           pc'[p] = "record" => job'[p].tenant \in Tenants /\ job'[p].policy \in Policies,
           pc'[p] # "report"
    PROVE  Jobs'
<1>1. runs \in Seq(RunRows(version)) /\ runs' \in Seq(RunRows(version'))
  BY DEF Inv, TypeOK
<1>2. Len(runs) \in Nat /\ DOMAIN runs = 1 .. Len(runs) /\ DOMAIN runs \subseteq DOMAIN runs'
      /\ DOMAIN runs \subseteq 1 .. Len(runs) + 1
  BY <1>1, SMT
<1>3. ASSUME NEW q \in Procs \ {p}, pc[q] = "report",
             NEW t, NEW n, t = job[q].tenant, n = job[q].id
      PROVE  /\ version' = 2 /\ n \in DOMAIN runs'
             /\ job[q].run = runs'[n] /\ t = runs'[n].tenant
             /\ job[q].previous = History(t, n)'
  <2>1. /\ version = 2 /\ n \in DOMAIN runs
        /\ job[q].run = runs[n] /\ t = runs[n].tenant
        /\ job[q].previous = History(t, n)
    BY <1>3 DEF Inv, Jobs
  <2> QED BY <1>1, <1>2, <2>1, HistoryKept
<1>4. ASSUME NEW q \in Procs
      PROVE  pc'[q] = "record" => job'[q].tenant \in Tenants /\ job'[q].policy \in Policies
  BY DEF Inv, Jobs
<1>5. ASSUME NEW q \in Procs, pc'[q] = "report"
      PROVE  /\ version' = 2 /\ job'[q].id \in DOMAIN runs'
             /\ job'[q].run = runs'[job'[q].id] /\ job'[q].tenant = runs'[job'[q].id].tenant
             /\ job'[q].previous = History(job[q].tenant, job[q].id)'
  <2>1. q \in Procs \ {p} /\ pc[q] = "report" /\ job'[q] = job[q]
    BY <1>5
  <2> QED BY <1>3, <2>1, SMT
<1> QED BY <1>4, <1>5 DEF Jobs

(* A step of p moves p alone. *)
LEMMA Moves ==
    ASSUME Inv, NEW p \in Procs, NEW label \in Labels, NEW j \in JobRows,
           Goto(p, label), job' = [job EXCEPT ![p] = j]
    PROVE  /\ pc' \in [Procs -> Labels] /\ job' \in [Procs -> JobRows]
           /\ pc'[p] = label /\ job'[p] = j
           /\ \A q \in Procs \ {p} : pc'[q] = pc[q] /\ job'[q] = job[q]
<1>1. pc \in [Procs -> Labels] /\ job \in [Procs -> JobRows]
  BY DEF Inv, TypeOK
<1> QED BY <1>1 DEF Goto

LEMMA ReadStep ==
    ASSUME Inv, NEW p \in Procs, Read(p)
    PROVE  Inv'
<1>1. PICK t \in Tenants, command \in Commands :
         job' = [job EXCEPT ![p] = Job(t, command.policy, command.collect, attempts + 1)]
  BY DEF Read
<1> DEFINE j == Job(t, command.policy, command.collect, attempts + 1)
<1>2. attempts \in Nat /\ attempts' = attempts + 1 /\ UNCHANGED <<version, runs, baseline, events>>
  BY DEF Inv, TypeOK, Read
<1>3. command.policy \in Policies /\ command.collect \in BOOLEAN
  BY StoreAssumption, SMT
<1>4. /\ j \in JobRows /\ j.tenant = t /\ j.policy = command.policy /\ j.attempt = attempts + 1
  <2>1. attempts + 1 \in Nat
    BY <1>2, SMT
  <2> QED BY <1>3, <2>1, SMT DEF Job, JobRows
<1> HIDE DEF j
<1>5. /\ pc' \in [Procs -> Labels] /\ job' \in [Procs -> JobRows]
      /\ pc'[p] = "record" /\ job'[p] = j
      /\ \A q \in Procs \ {p} : pc'[q] = pc[q] /\ job'[q] = job[q]
  <2>1. "record" \in Labels /\ Goto(p, "record") /\ job' = [job EXCEPT ![p] = j]
    BY <1>1 DEF Labels, Read, j
  <2> QED BY <1>4, <2>1, Moves
<1>6. TypeOK'
  <2>1. attempts' \in Nat
    BY <1>2, SMT
  <2> QED BY <1>2, <1>5, <2>1 DEF Inv, TypeOK
<1>7. Jobs'
  <2>1. Len(runs) <= Len(runs') /\ \A i \in DOMAIN runs : runs'[i] = runs[i]
    BY <1>2, SMT DEF Inv, TypeOK
  <2> QED BY <1>2, <1>3, <1>4, <1>5, <1>6, <2>1, JobsKept
<1>8. Attempts'
  <2>1. \A e \in events : e.attempt \in Nat /\ e.attempt <= attempts
    BY SMT DEF Inv, TypeOK, Attempts
  <2>2. \A q \in Procs : job[q].attempt \in Nat
    BY SMT DEF Inv, TypeOK, JobRows
  <2>3. \A q \in Procs : pc[q] = "record" =>
          /\ job[q].attempt > 0 /\ job[q].attempt <= attempts
          /\ \A e \in events : e.attempt # job[q].attempt
          /\ \A r \in Procs : r # q /\ pc[r] = "record" => job[r].attempt # job[q].attempt
    BY DEF Inv, Attempts
  <2>4. \A e \in events' : e.attempt <= attempts' /\ e.attempt # attempts'
    BY <1>2, <2>1, SMT
  <2>5. job'[p].attempt = attempts' /\ attempts' > 0 /\ attempts' <= attempts'
    BY <1>2, <1>4, <1>5, SMT
  <2>6. \A q \in Procs \ {p} : pc'[q] = "record" =>
           /\ job'[q].attempt > 0 /\ job'[q].attempt <= attempts' /\ job'[q].attempt # attempts'
           /\ \A e \in events' : e.attempt # job'[q].attempt
    <3>1. \A q \in Procs : pc[q] = "record" =>
             job[q].attempt > 0 /\ job[q].attempt <= attempts' /\ job[q].attempt # attempts'
      BY <1>2, <2>2, <2>3, SMT
    <3> QED BY <1>2, <1>5, <2>3, <3>1
  <2>7. \A q, r \in Procs \ {p} : r # q /\ pc'[q] = "record" /\ pc'[r] = "record" =>
           job'[r].attempt # job'[q].attempt
    BY <1>5, <2>3
  <2> QED BY <2>4, <2>5, <2>6, <2>7 DEF Attempts
<1>9. TracedOnce'
  BY <1>2 DEF Inv, TracedOnce
<1> QED BY <1>2, <1>6, <1>7, <1>8, <1>9, StoreKept DEF Inv

(* A command that ends, or a migration that begins or finds its work done.  *)
(* The events of an attempt that comes to no run are recorded at most here. *)
LEMMA RestStep ==
    ASSUME Inv, NEW p \in Procs, UNCHANGED <<version, runs, baseline, attempts>>,
           pc' \in [Procs -> Labels], job' \in [Procs -> JobRows],
           pc'[p] # "record", pc'[p] # "report",
           \A q \in Procs \ {p} : pc'[q] = pc[q] /\ job'[q] = job[q],
           \/ events' = events
           \/ /\ pc[p] = "record"
              /\ events' = events \cup {[attempt |-> job[p].attempt, run |-> 0]}
    PROVE  Inv'
<1> DEFINE new == [attempt |-> job[p].attempt, run |-> 0]
<1>1. \A e \in events' : e \in events \/ (pc[p] = "record" /\ e = new)
  OBVIOUS
<1>2. events \subseteq events'
  OBVIOUS
<1>3. /\ new \in [attempt : Nat, run : Nat] /\ new.attempt = job[p].attempt
      /\ \A q \in Procs : job[q].attempt \in Nat
  BY SMT DEF Inv, TypeOK, JobRows
<1> HIDE DEF new
<1>4. TypeOK'
  BY <1>1, <1>3 DEF Inv, TypeOK
<1>5. Jobs'
  <2>1. Len(runs) <= Len(runs') /\ \A i \in DOMAIN runs : runs'[i] = runs[i]
    BY SMT DEF Inv, TypeOK
  <2> QED BY <1>4, <2>1, JobsKept
<1>6. \A q \in Procs : pc[q] = "record" =>
         /\ job[q].attempt > 0 /\ job[q].attempt <= attempts
         /\ \A e \in events : e.attempt # job[q].attempt
         /\ \A r \in Procs : r # q /\ pc[r] = "record" => job[r].attempt # job[q].attempt
  BY DEF Inv, Attempts
<1>7. Attempts'
  <2>1. \A e \in events' : e.attempt <= attempts'
    BY <1>1, <1>3, <1>6 DEF Inv, Attempts
  <2>2. ASSUME NEW q \in Procs, pc'[q] = "record"
        PROVE  /\ q \in Procs \ {p} /\ pc[q] = "record" /\ job'[q] = job[q]
               /\ \A e \in events' : e.attempt # job[q].attempt
    <3>1. q \in Procs \ {p} /\ pc[q] = "record" /\ job'[q] = job[q]
      BY <2>2
    <3>2. pc[p] = "record" => job[p].attempt # job[q].attempt
      BY <1>6, <3>1
    <3> QED BY <1>1, <1>3, <1>6, <3>1, <3>2
  <2> QED BY <1>6, <2>1, <2>2 DEF Attempts
<1>8. TracedOnce'
  <2>1. \A d, e \in events' : d.attempt = e.attempt => d = e
    BY <1>1, <1>3, <1>6 DEF Inv, TracedOnce
  <2> QED BY <1>2, <2>1 DEF Inv, TracedOnce
<1> QED BY <1>4, <1>5, <1>7, <1>8, StoreKept DEF Inv

LEMMA EndStep ==
    ASSUME Inv, NEW p \in Procs, Report(p) \/ Refuse(p) \/ Kill(p)
    PROVE  Inv'
<1>1. /\ Goto(p, "idle") /\ job' = [job EXCEPT ![p] = Idle]
      /\ UNCHANGED <<version, runs, baseline, attempts>>
      /\ \/ events' = events
         \/ /\ pc[p] = "record"
            /\ events' = events \cup {[attempt |-> job[p].attempt, run |-> 0]}
  BY DEF Report, Refuse, Kill, Done
<1>2. /\ pc' \in [Procs -> Labels] /\ job' \in [Procs -> JobRows] /\ pc'[p] = "idle"
      /\ \A q \in Procs \ {p} : pc'[q] = pc[q] /\ job'[q] = job[q]
  <2>1. "idle" \in Labels
    BY DEF Labels
  <2> QED BY <1>1, <2>1, IdleType, Moves
<1> QED BY <1>1, <1>2, RestStep

LEMMA MigrateCheckStep ==
    ASSUME Inv, NEW p \in Procs, MigrateCheck(p)
    PROVE  Inv'
<1>1. /\ UNCHANGED <<version, runs, baseline, events, attempts, job>>
      /\ pc' = [pc EXCEPT ![p] = "migrate"]
      /\ pc \in [Procs -> Labels] /\ job \in [Procs -> JobRows]
  BY DEF MigrateCheck, Goto, Inv, TypeOK
<1>2. pc' \in [Procs -> Labels] /\ pc'[p] = "migrate" /\ \A q \in Procs \ {p} : pc'[q] = pc[q]
  BY <1>1 DEF Labels
<1> QED BY <1>1, <1>2, RestStep
----------------------------------------------------------------------------
(* A run keeps all but the fingerprints of its findings. *)
Renamed(r) == [r EXCEPT !.found = {Row(2, r.tenant, x.finding) : x \in @}]

LEMMA RenamedRun ==
    ASSUME Inv, NEW i \in DOMAIN runs
    PROVE  /\ Renamed(runs[i]) \in RunRows(2)
           /\ Renamed(runs[i]).tenant = runs[i].tenant /\ Renamed(runs[i]).policy = runs[i].policy
           /\ Renamed(runs[i]).gate = runs[i].gate /\ Renamed(runs[i]).evaluated = runs[i].evaluated
           /\ Renamed(runs[i]).attempt = runs[i].attempt
           /\ Renamed(runs[i]).found = {Row(2, runs[i].tenant, x.finding) : x \in runs[i].found}
           /\ runs[i].tenant \in Tenants
           /\ version = 2 => Renamed(runs[i]) = runs[i]
<1> DEFINE r == runs[i]
           F == {Row(2, r.tenant, x.finding) : x \in r.found}
<1>1. r \in RunRows(version)
  BY SMT DEF Inv, TypeOK
<1>2. \A x \in r.found : x.finding \in Findings /\ x = Row(version, r.tenant, x.finding)
  BY RowNames DEF Inv, OwnRows
<1>3. r.tenant \in Tenants
  BY <1>1, SMT DEF RunRows
<1>4. F \subseteq Rows(2, Tenants)
  BY <1>2, <1>3, RowIn
<1>5. version = 2 => F = r.found
  BY <1>2
<1> HIDE DEF r, F
<1>6. Renamed(r) = [r EXCEPT !.found = F]
  BY DEF Renamed, F
<1>7. Renamed(r) \in RunRows(2)
  BY <1>1, <1>4, <1>6, SMT DEF RunRows
<1>8. /\ Renamed(r).tenant = r.tenant /\ Renamed(r).policy = r.policy
      /\ Renamed(r).gate = r.gate /\ Renamed(r).evaluated = r.evaluated
      /\ Renamed(r).attempt = r.attempt /\ Renamed(r).found = F
  BY <1>1, <1>6, SMT DEF RunRows
<1>9. version = 2 => Renamed(r) = r
  BY <1>1, <1>5, <1>6, SMT DEF RunRows
<1> QED BY <1>3, <1>7, <1>8, <1>9 DEF r, F

(* The new name of a row of the baseline is the one of its finding. *)
LEMMA FreshName ==
    ASSUME Inv, NEW b \in baseline, NEW z \in Fresh(b)
    PROVE  \E i \in DOMAIN runs : \E x \in runs[i].found :
              /\ evaluation_complete(runs[i]) /\ runs[i].tenant = b.tenant
              /\ b = [tenant |-> b.tenant, fp |-> x.fp]
              /\ b.fp = Fingerprint(version, b.tenant, x.finding)
              /\ z = Fingerprint(2, b.tenant, x.finding)
<1>0. PICK i \in DOMAIN runs : \E x \in runs[i].found :
         evaluation_complete(runs[i]) /\ b = [tenant |-> runs[i].tenant, fp |-> x.fp]
  BY DEF Inv, Baselines
<1>1. PICK x \in runs[i].found :
         evaluation_complete(runs[i]) /\ b = [tenant |-> runs[i].tenant, fp |-> x.fp]
  BY <1>0
<1>2. b.tenant = runs[i].tenant /\ b.fp = x.fp
  BY <1>1
<1>3. x.fp = Fingerprint(version, b.tenant, x.finding)
  BY <1>2, RowNames DEF Inv, OwnRows
<1>4. PICK y \in UNION {runs[j].found : j \in runs_for_device(b.tenant)} :
         y.fp = b.fp /\ z = Fingerprint(2, b.tenant, y.finding)
  BY DEF Fresh
<1>5. PICK k \in DOMAIN runs : runs[k].tenant = b.tenant /\ y \in runs[k].found
  BY <1>4 DEF runs_for_device
<1>6. y.fp = Fingerprint(version, b.tenant, y.finding)
  BY <1>4, <1>5, RowNames DEF Inv, OwnRows
<1>7. y.finding = x.finding
  BY <1>2, <1>3, <1>4, <1>6, FingerprintsDiffer
<1> QED BY <1>1, <1>2, <1>3, <1>4, <1>7

(* What a migration that goes through does. The second of two changes       *)
(* nothing (_migrate compares the version before its transaction only).     *)
LEMMA MigrateEffect ==
    ASSUME Inv, NEW p \in Procs, Migrate(p), ~ UNCHANGED <<version, runs, baseline>>
    PROVE  /\ version = 1 /\ version' = 2
           /\ runs' \in Seq(RunRows(2)) /\ Len(runs') = Len(runs) /\ DOMAIN runs' = DOMAIN runs
           /\ \A i \in DOMAIN runs : runs'[i] = Renamed(runs[i])
           /\ \E name \in [baseline -> UNION {Fresh(b) : b \in baseline}] :
                 /\ \A b \in baseline : name[b] \in Fresh(b)
                 /\ baseline' = {[tenant |-> b.tenant, fp |-> name[b]] : b \in baseline}
<1>1. /\ version' = 2
      /\ runs' = [i \in DOMAIN runs |->
            [runs[i] EXCEPT !.found = {Row(2, runs[i].tenant, x.finding) : x \in @}]]
      /\ \E name \in [baseline -> UNION {Fresh(b) : b \in baseline}] :
            /\ \A b \in baseline : name[b] \in Fresh(b)
            /\ baseline' = {[tenant |-> b.tenant, fp |-> name[b]] : b \in baseline}
  BY DEF Migrate
<1>2. runs' = [i \in DOMAIN runs |-> Renamed(runs[i])]
  BY <1>1 DEF Renamed
<1>3. /\ runs \in Seq(RunRows(version)) /\ version \in {1, 2}
  BY DEF Inv, TypeOK
<1>4. \A i \in DOMAIN runs : Renamed(runs[i]) \in RunRows(2)
  BY RenamedRun
<1>5. runs' \in Seq(RunRows(2)) /\ Len(runs') = Len(runs) /\ DOMAIN runs' = DOMAIN runs
  BY <1>2, <1>3, <1>4, SMT
<1>6. version # 2
  <2> SUFFICES ASSUME version = 2 PROVE FALSE
    OBVIOUS
  <2>1. runs' = runs
    <3>1. \A i \in DOMAIN runs : Renamed(runs[i]) = runs[i]
      BY RenamedRun
    <3>2. runs' = [i \in DOMAIN runs |-> runs[i]]
      BY <1>2, <3>1
    <3> QED BY <1>3, <3>2, SMT
  <2>2. PICK name \in [baseline -> UNION {Fresh(b) : b \in baseline}] :
            /\ \A b \in baseline : name[b] \in Fresh(b)
            /\ baseline' = {[tenant |-> b.tenant, fp |-> name[b]] : b \in baseline}
    BY <1>1
  <2>3. ASSUME NEW b \in baseline
        PROVE  [tenant |-> b.tenant, fp |-> name[b]] = b
    <3>1. name[b] \in Fresh(b)
      BY <2>2
    <3>2. PICK i \in DOMAIN runs : \E x \in runs[i].found :
              /\ evaluation_complete(runs[i]) /\ runs[i].tenant = b.tenant
              /\ b = [tenant |-> b.tenant, fp |-> x.fp]
              /\ b.fp = Fingerprint(version, b.tenant, x.finding)
              /\ name[b] = Fingerprint(2, b.tenant, x.finding)
      BY <3>1, FreshName
    <3>3. name[b] = b.fp /\ \E z : b = [tenant |-> b.tenant, fp |-> z]
      BY <3>2
    <3> QED BY <3>3
  <2>4. baseline' = baseline
    BY <2>2, <2>3
  <2> QED BY <1>1, <2>1, <2>4
<1> QED BY <1>1, <1>2, <1>3, <1>5, <1>6

LEMMA MigrateStep ==
    ASSUME Inv, NEW p \in Procs, Migrate(p)
    PROVE  Inv'
<1>1. /\ UNCHANGED <<events, attempts, job>> /\ pc' = [pc EXCEPT ![p] = "idle"]
      /\ pc \in [Procs -> Labels] /\ job \in [Procs -> JobRows]
  BY DEF Migrate, Goto, Inv, TypeOK
<1>2. pc' \in [Procs -> Labels] /\ pc'[p] = "idle" /\ \A q \in Procs \ {p} : pc'[q] = pc[q]
  BY <1>1 DEF Labels
<1>3. CASE UNCHANGED <<version, runs, baseline>>
  BY <1>1, <1>2, <1>3, RestStep
<1>4. CASE ~ UNCHANGED <<version, runs, baseline>>
  <2>1. /\ version = 1 /\ version' = 2
        /\ runs' \in Seq(RunRows(2)) /\ DOMAIN runs' = DOMAIN runs
        /\ \A i \in DOMAIN runs : runs'[i] = Renamed(runs[i])
    BY <1>4, MigrateEffect
  <2>2. PICK name \in [baseline -> UNION {Fresh(b) : b \in baseline}] :
            /\ \A b \in baseline : name[b] \in Fresh(b)
            /\ baseline' = {[tenant |-> b.tenant, fp |-> name[b]] : b \in baseline}
    BY <1>4, MigrateEffect
  <2>3. TypeOK'
    BY <1>1, <1>2, <2>1 DEF Inv, TypeOK
  <2>4. \A i \in DOMAIN runs :
           /\ runs'[i].tenant = runs[i].tenant /\ runs'[i].policy = runs[i].policy
           /\ runs'[i].gate = runs[i].gate /\ runs'[i].evaluated = runs[i].evaluated
           /\ runs'[i].attempt = runs[i].attempt /\ runs[i].tenant \in Tenants
           /\ runs'[i].found = {Row(2, runs[i].tenant, x.finding) : x \in runs[i].found}
    BY <2>1, RenamedRun
  <2>5. \A i \in DOMAIN runs : \A x \in runs[i].found : x.finding \in Findings
    BY RowNames DEF Inv, OwnRows
  <2>6. OwnRows'
    <3> SUFFICES ASSUME NEW i \in DOMAIN runs
                 PROVE  runs'[i].found \subseteq Rows(2, {runs[i].tenant})
      BY <2>1, <2>4 DEF OwnRows
    <3>1. \A x \in runs[i].found : Row(2, runs[i].tenant, x.finding) \in Rows(2, {runs[i].tenant})
      BY <2>5, RowIn
    <3>2. runs'[i].found = {Row(2, runs[i].tenant, x.finding) : x \in runs[i].found}
      BY <2>4
    <3> QED BY <3>1, <3>2
  <2>7. Jobs'
    <3>1. \A q \in Procs : pc[q] # "report"
      <4>1. version # 2
        BY <2>1, SMT
      <4> QED BY <4>1 DEF Inv, Jobs
    <3>2. \A q \in Procs : pc'[q] = pc[q] \/ pc'[q] = "idle"
      BY <1>2
    <3>3. \A q \in Procs : pc'[q] = "record" => job'[q].tenant \in Tenants /\ job'[q].policy \in Policies
      BY <1>1, <3>2 DEF Inv, Jobs
    <3>4. \A q \in Procs : pc'[q] # "report"
      BY <3>1, <3>2
    <3> QED BY <3>3, <3>4 DEF Jobs
  <2>8. Baselines'
    <3> SUFFICES ASSUME NEW c \in baseline'
                 PROVE  \E i \in DOMAIN runs' : \E x \in runs'[i].found :
                           /\ evaluation_complete(runs'[i])
                           /\ c = [tenant |-> runs'[i].tenant, fp |-> x.fp]
      BY DEF Baselines
    <3>1. PICK b \in baseline : c = [tenant |-> b.tenant, fp |-> name[b]]
      BY <2>2
    <3>2. name[b] \in Fresh(b)
      BY <2>2
    <3>3. PICK i \in DOMAIN runs : \E x \in runs[i].found :
              /\ evaluation_complete(runs[i]) /\ runs[i].tenant = b.tenant
              /\ name[b] = Fingerprint(2, b.tenant, x.finding)
      BY <3>2, FreshName
    <3>4. PICK x \in runs[i].found : name[b] = Fingerprint(2, b.tenant, x.finding)
      BY <3>3
    <3>5. /\ Row(2, b.tenant, x.finding) \in runs'[i].found
          /\ Row(2, b.tenant, x.finding).fp = name[b]
      BY <2>4, <3>3, <3>4 DEF Row
    <3>6. evaluation_complete(runs'[i]) /\ runs'[i].tenant = b.tenant
      BY <2>4, <3>3 DEF evaluation_complete
    <3> QED BY <2>1, <3>1, <3>5, <3>6
  <2>9. Attempts'
    BY <1>1, <1>2 DEF Inv, Attempts
  <2>10. OnePolicy'
    <3>1. \A i, j \in DOMAIN runs : runs[i].tenant = runs[j].tenant => runs[i].policy = runs[j].policy
      BY DEF Inv, OnePolicy
    <3>2. \A i, j \in DOMAIN runs :
             runs'[i].tenant = runs'[j].tenant => runs'[i].policy = runs'[j].policy
      <4>1. \A i \in DOMAIN runs :
               runs'[i].tenant = runs[i].tenant /\ runs'[i].policy = runs[i].policy
        BY <2>4
      <4> QED BY <3>1, <4>1, SMT
    <3> QED BY <2>1, <3>2 DEF OnePolicy
  <2>11. TracedOnce'
    BY <1>1, <2>1, <2>4 DEF Inv, TracedOnce
  <2> QED BY <2>3, <2>6, <2>7, <2>8, <2>9, <2>10, <2>11 DEF Inv
<1> QED BY <1>3, <1>4
----------------------------------------------------------------------------
(* The run a command records, of its own tenant, with findings of evaluated rules. *)
LEMMA NewRun ==
    ASSUME Inv, NEW p \in Procs, pc[p] = "record", NEW s \in Snapshots
    PROVE  /\ RunOf(job[p], s) \in RunRows(2)
           /\ RunOf(job[p], s).tenant = job[p].tenant /\ RunOf(job[p], s).policy = job[p].policy
           /\ RunOf(job[p], s).gate = s.gate /\ RunOf(job[p], s).evaluated = evaluated(s)
           /\ RunOf(job[p], s).found = {Row(2, job[p].tenant, f) : f \in found(s)}
           /\ RunOf(job[p], s).found \subseteq Rows(2, {job[p].tenant})
           /\ RunOf(job[p], s).attempt = (IF job[p].collect THEN job[p].attempt ELSE 0)
           /\ found(s) \subseteq Findings /\ job[p].tenant \in Tenants
<1>1. /\ job[p].tenant \in Tenants /\ job[p].policy \in Policies
  BY DEF Inv, Jobs
<1>2. job[p].attempt \in Nat /\ job[p].collect \in BOOLEAN
  BY SMT DEF Inv, TypeOK, JobRows
<1>3. s.gate \in BOOLEAN /\ s.evaluated \subseteq Rules /\ s.hits \subseteq Findings
  BY StoreAssumption, SMT
<1>4. evaluated(s) \subseteq Rules
  BY <1>3 DEF evaluated
<1>5. found(s) \subseteq Findings
  BY <1>3 DEF found
<1> DEFINE F == {Row(2, job[p].tenant, f) : f \in found(s)}
           a == IF job[p].collect THEN job[p].attempt ELSE 0
<1>6. F \subseteq Rows(2, Tenants) /\ F \subseteq Rows(2, {job[p].tenant})
  BY <1>1, <1>5, RowIn
<1>7. a \in Nat
  BY <1>2, SMT
<1> HIDE DEF F, a
<1>8. RunOf(job[p], s) = [tenant |-> job[p].tenant, policy |-> job[p].policy, gate |-> s.gate,
                          evaluated |-> evaluated(s), found |-> F, attempt |-> a]
  BY DEF RunOf, F, a
<1>9. RunOf(job[p], s) \in RunRows(2)
  BY <1>1, <1>3, <1>4, <1>6, <1>7, <1>8, SMT DEF RunRows
<1>10. /\ RunOf(job[p], s).tenant = job[p].tenant /\ RunOf(job[p], s).policy = job[p].policy
       /\ RunOf(job[p], s).gate = s.gate /\ RunOf(job[p], s).evaluated = evaluated(s)
       /\ RunOf(job[p], s).found = F /\ RunOf(job[p], s).attempt = a
  BY <1>3, <1>8, SMT
<1> QED BY <1>1, <1>5, <1>6, <1>9, <1>10 DEF F, a

(* What a command reads of the store in its transaction. *)
LEMMA SeenRows ==
    ASSUME Inv, version = 2, NEW t
    PROVE  /\ last_evaluated(runs_for_device(t)) \subseteq Rows(2, Tenants)
           /\ last_evaluated(runs_for_device(t)) \subseteq Rows(2, {t})
           /\ baseline_fingerprints(t) \subseteq {x.fp : x \in Rows(2, Tenants)}
           /\ last_evaluated(runs_for_device(t)) = History(t, Len(runs) + 1)
<1>1. runs \in Seq(RunRows(version))
  BY DEF Inv, TypeOK
<1>2. \A i \in DOMAIN runs : runs[i] \in RunRows(2)
  BY <1>1, SMT
<1>3. \A i \in DOMAIN runs : runs[i].found \subseteq Rows(2, Tenants)
  BY <1>2, SMT DEF RunRows
<1>4. runs_for_device(t) \subseteq DOMAIN runs
  BY DEF runs_for_device
<1>5. \A x \in last_evaluated(runs_for_device(t)) :
         \E i \in Complete(runs_for_device(t)) : x \in runs[i].found
  BY <1>1, <1>4, LastEvaluated DEF LastOfEachRule
<1>6. \A i \in Complete(runs_for_device(t)) : i \in DOMAIN runs /\ runs[i].tenant = t
  BY DEF Complete, runs_for_device
<1>7. last_evaluated(runs_for_device(t)) \subseteq Rows(2, Tenants)
  BY <1>3, <1>5, <1>6
<1>8. last_evaluated(runs_for_device(t)) \subseteq Rows(2, {t})
  BY <1>5, <1>6 DEF Inv, OwnRows
<1>9. baseline_fingerprints(t) \subseteq {x.fp : x \in Rows(2, Tenants)}
  <2> SUFFICES ASSUME NEW b \in baseline
               PROVE  b.fp \in {x.fp : x \in Rows(2, Tenants)}
    BY DEF baseline_fingerprints
  <2>1. PICK i \in DOMAIN runs : \E x \in runs[i].found : b = [tenant |-> runs[i].tenant, fp |-> x.fp]
    BY DEF Inv, Baselines
  <2>2. PICK x \in runs[i].found : b = [tenant |-> runs[i].tenant, fp |-> x.fp]
    BY <2>1
  <2> QED BY <1>3, <2>2
<1>10. {i \in runs_for_device(t) : i < Len(runs) + 1} = runs_for_device(t)
  <2>1. \A i \in DOMAIN runs : i < Len(runs) + 1
    BY <1>1, SMT
  <2> QED BY <1>4, <2>1
<1> QED BY <1>7, <1>8, <1>9, <1>10 DEF History

(* the job with its run; the four fields are set one after the other *)
Seen(j, n, run, previous, known) ==
    [j EXCEPT !.id = n, !.run = run, !.previous = previous, !.baseline = known]

LEMMA JobSeen ==
    ASSUME NEW j \in JobRows, NEW n \in Nat, NEW run \in RunRows(2),
           NEW previous \in SUBSET Rows(2, Tenants),
           NEW known \in SUBSET {x.fp : x \in Rows(2, Tenants)}
    PROVE  /\ Seen(j, n, run, previous, known) \in JobRows
           /\ Seen(j, n, run, previous, known).tenant = j.tenant
           /\ Seen(j, n, run, previous, known).id = n
           /\ Seen(j, n, run, previous, known).run = run
           /\ Seen(j, n, run, previous, known).previous = previous
           /\ Seen(j, n, run, previous, known).baseline = known
<1> DEFINE a == [j EXCEPT !.id = n]
           b == [a EXCEPT !.run = run]
           c == [b EXCEPT !.previous = previous]
           d == [c EXCEPT !.baseline = known]
<1>1. Seen(j, n, run, previous, known) = d
  BY SMT DEF JobRows, Seen
<1> HIDE DEF d
<1>2. a \in JobRows /\ a.tenant = j.tenant /\ a.id = n
  BY SMT DEF JobRows
<1> HIDE DEF a
<1>3. b \in JobRows /\ b.tenant = j.tenant /\ b.id = n /\ b.run = run
  BY <1>2, SMT DEF JobRows
<1> HIDE DEF b
<1>4. c \in JobRows /\ c.tenant = j.tenant /\ c.id = n /\ c.run = run /\ c.previous = previous
  BY <1>3, SMT DEF JobRows
<1> HIDE DEF c
<1>5. /\ d \in JobRows /\ d.tenant = j.tenant /\ d.id = n /\ d.run = run /\ d.previous = previous
      /\ d.baseline = known
  BY <1>4, SMT DEF JobRows, d
<1> QED BY <1>1, <1>5

(* what a transaction leaves: the run at the end, and the command that reports it *)
Recorded(p, t, n, run) ==
    /\ pc[p] = "record" /\ version = 2 /\ version' = 2
    /\ runs' \in Seq(RunRows(2)) /\ Len(runs) <= Len(runs')
    /\ DOMAIN runs' = DOMAIN runs \cup {n} /\ n \notin DOMAIN runs
    /\ \A i \in DOMAIN runs : runs'[i] = runs[i] /\ i < n
    /\ runs'[n] = run
    /\ pc' \in [Procs -> Labels] /\ job' \in [Procs -> JobRows] /\ pc'[p] = "report"
    /\ \A q \in Procs \ {p} : pc'[q] = pc[q] /\ job'[q] = job[q]
    /\ job'[p].tenant = t /\ job'[p].id = n /\ job'[p].run = run
    /\ job'[p].previous = last_evaluated(runs_for_device(t))
    /\ job'[p].baseline = baseline_fingerprints(t)

LEMMA RecordEffect ==
    ASSUME Inv, NEW p \in Procs, NEW s \in Snapshots, NEW accept \in BOOLEAN, Record(p, s, accept),
           NEW t, t = job[p].tenant, NEW n, n = Len(runs) + 1, NEW run, run = RunOf(job[p], s)
    PROVE  Recorded(p, t, n, run)
<1>1. /\ pc[p] = "record" /\ version = 2 /\ version' = version /\ runs' = Append(runs, run)
      /\ Goto(p, "report")
  BY DEF Record
<1>2. run \in RunRows(2) /\ runs \in Seq(RunRows(2))
  BY <1>1, NewRun DEF Inv, TypeOK
<1>3. n \in Nat /\ runs' \in Seq(RunRows(2)) /\ Len(runs) <= Len(runs') /\ runs'[n] = run
  BY <1>1, <1>2, SMT
<1>4. /\ DOMAIN runs' = DOMAIN runs \cup {n} /\ n \notin DOMAIN runs
      /\ \A i \in DOMAIN runs : runs'[i] = runs[i] /\ i < n
  BY <1>1, <1>2, SMT
<1> DEFINE previous == last_evaluated(runs_for_device(t))
           known == baseline_fingerprints(t)
           j == Seen(job[p], n, run, previous, known)
<1>5. job' = [job EXCEPT ![p] = j]
  BY DEF Record, Observed, Seen
<1>6. previous \in SUBSET Rows(2, Tenants) /\ known \in SUBSET {x.fp : x \in Rows(2, Tenants)}
  BY <1>1, SeenRows
<1>7. job[p] \in JobRows
  BY DEF Inv, TypeOK
<1> HIDE DEF previous, known
<1>8. j \in JobRows /\ j.tenant = t /\ j.id = n /\ j.run = run /\ j.previous = previous /\ j.baseline = known
  <2>1. n \in Nat /\ job[p].tenant = t
    BY <1>3
  <2> QED BY <1>2, <1>6, <1>7, <2>1, JobSeen, SMT
<1> HIDE DEF j
<1>9. /\ pc' \in [Procs -> Labels] /\ job' \in [Procs -> JobRows] /\ pc'[p] = "report" /\ job'[p] = j
      /\ \A q \in Procs \ {p} : pc'[q] = pc[q] /\ job'[q] = job[q]
  <2>1. "report" \in Labels
    BY DEF Labels
  <2> QED BY <1>1, <1>5, <1>8, <2>1, Moves
<1> QED BY <1>1, <1>3, <1>4, <1>8, <1>9 DEF Recorded, previous, known

LEMMA RecordStep ==
    ASSUME Inv, NEW p \in Procs, NEW s \in Snapshots, NEW accept \in BOOLEAN, Record(p, s, accept),
           NEW t, t = job[p].tenant, NEW n, n = Len(runs) + 1, NEW run, run = RunOf(job[p], s)
    PROVE  Inv'
<1>1. /\ pc[p] = "record" /\ version = 2 /\ version' = 2
      /\ runs' \in Seq(RunRows(2)) /\ Len(runs) <= Len(runs')
      /\ DOMAIN runs' = DOMAIN runs \cup {n} /\ n \notin DOMAIN runs
      /\ \A i \in DOMAIN runs : runs'[i] = runs[i] /\ i < n
      /\ runs'[n] = run
      /\ pc' \in [Procs -> Labels] /\ job' \in [Procs -> JobRows] /\ pc'[p] = "report"
      /\ \A q \in Procs \ {p} : pc'[q] = pc[q] /\ job'[q] = job[q]
      /\ job'[p].tenant = t /\ job'[p].id = n /\ job'[p].run = run
      /\ job'[p].previous = last_evaluated(runs_for_device(t))
  <2>1. Recorded(p, t, n, run)
    BY RecordEffect
  <2> QED BY <2>1 DEF Recorded
<1>2. /\ Admit(t, job[p].policy)
      /\ accept => evaluation_complete(run)
      /\ baseline' = baseline \cup
            IF accept THEN {[tenant |-> t, fp |-> x] : x \in Prints(run.found)} ELSE {}
      /\ events' = events \cup IF job[p].collect THEN {[attempt |-> job[p].attempt, run |-> n]} ELSE {}
      /\ attempts' = attempts
  BY DEF Record
<1>3. /\ run.tenant = t /\ run.policy = job[p].policy /\ run.found \subseteq Rows(2, {t})
      /\ run.attempt = (IF job[p].collect THEN job[p].attempt ELSE 0)
  <2> DEFINE r == RunOf(job[p], s)
             u == job[p].tenant
  <2>1. /\ r.tenant = u /\ r.policy = job[p].policy /\ r.found \subseteq Rows(2, {u})
        /\ r.attempt = (IF job[p].collect THEN job[p].attempt ELSE 0)
    BY <1>1, NewRun
  <2>2. r = run /\ u = t
    OBVIOUS
  <2> HIDE DEF r, u
  <2> QED BY <2>1, <2>2
<1>4. /\ \A q \in Procs : job[q].attempt \in Nat /\ job[q].collect \in BOOLEAN
      /\ runs \in Seq(RunRows(version)) /\ Len(runs) \in Nat /\ DOMAIN runs = 1 .. Len(runs)
  BY SMT DEF Inv, TypeOK, JobRows
<1>5. n \in Nat /\ n \in 1 .. Len(runs) + 1
  BY <1>4, SMT
<1> DEFINE new == [attempt |-> job[p].attempt, run |-> n]
<1>6. /\ \A e \in events' : e \in events \/ (job[p].collect /\ e = new)
      /\ events \subseteq events'
      /\ job[p].collect => new \in events'
  BY <1>2
<1>7. /\ new \in [attempt : Nat, run : Nat] /\ new.attempt = job[p].attempt
  BY <1>4, <1>5
<1> HIDE DEF new
<1>8. TypeOK'
  BY <1>1, <1>2, <1>6, <1>7 DEF Inv, TypeOK
<1>9. OwnRows'
  BY <1>1, <1>3 DEF Inv, OwnRows
<1>10. Jobs'
  <2>1. ASSUME NEW q \in Procs, pc'[q] = "record"
        PROVE  job'[q].tenant \in Tenants /\ job'[q].policy \in Policies
    BY <1>1, <2>1 DEF Inv, Jobs
  <2>2. \A u, m : m \in 1 .. Len(runs) + 1 => History(u, m)' = History(u, m)
    BY <1>1, <1>4, HistoryKept
  <2>3. ASSUME NEW q \in Procs, pc'[q] = "report"
        PROVE  /\ version' = 2 /\ job'[q].id \in DOMAIN runs'
               /\ job'[q].run = runs'[job'[q].id] /\ job'[q].tenant = runs'[job'[q].id].tenant
               /\ job'[q].previous = History(job[q].tenant, job[q].id)'
    <3>1. CASE q = p
      <4>1. last_evaluated(runs_for_device(t)) = History(t, n)
        BY <1>1, SeenRows
      <4> QED BY <1>1, <1>3, <1>5, <2>2, <3>1, <4>1, SMT
    <3>2. CASE q # p
      <4>1. pc[q] = "report" /\ job'[q] = job[q]
        BY <1>1, <2>3, <3>2
      <4>2. /\ job[q].id \in DOMAIN runs
            /\ job[q].run = runs[job[q].id] /\ job[q].tenant = runs[job[q].id].tenant
            /\ job[q].previous = History(job[q].tenant, job[q].id)
        BY <4>1 DEF Inv, Jobs
      <4>3. job[q].id \in 1 .. Len(runs) + 1
        BY <1>4, <4>2, SMT
      <4> QED BY <1>1, <2>2, <4>1, <4>2, <4>3, SMT
    <3> QED BY <3>1, <3>2
  <2> QED BY <2>1, <2>3 DEF Jobs
<1>11. Baselines'
  <2> SUFFICES ASSUME NEW b \in baseline'
               PROVE  \E i \in DOMAIN runs' : \E x \in runs'[i].found :
                         evaluation_complete(runs'[i]) /\ b = [tenant |-> runs'[i].tenant, fp |-> x.fp]
    BY DEF Baselines
  <2>1. CASE b \in baseline
    <3>1. PICK i \in DOMAIN runs : \E x \in runs[i].found :
             evaluation_complete(runs[i]) /\ b = [tenant |-> runs[i].tenant, fp |-> x.fp]
      BY <2>1 DEF Inv, Baselines
    <3>2. runs'[i] = runs[i] /\ i \in DOMAIN runs'
      BY <1>1
    <3> QED BY <3>1, <3>2, SMT
  <2>2. CASE b \notin baseline
    <3>1. accept /\ \E x \in run.found : b = [tenant |-> t, fp |-> x.fp]
      BY <1>2, <2>2 DEF Prints
    <3>2. runs'[n] = run /\ n \in DOMAIN runs' /\ evaluation_complete(run) /\ run.tenant = t
      BY <1>1, <1>2, <1>3, <3>1
    <3> QED BY <3>1, <3>2, SMT
  <2> QED BY <2>1, <2>2
<1>12. \A q \in Procs : pc[q] = "record" =>
          /\ job[q].attempt > 0 /\ job[q].attempt <= attempts
          /\ \A e \in events : e.attempt # job[q].attempt
          /\ \A r \in Procs : r # q /\ pc[r] = "record" => job[r].attempt # job[q].attempt
  BY DEF Inv, Attempts
<1>13. Attempts'
  <2>1. \A e \in events' : e.attempt <= attempts'
    BY <1>1, <1>2, <1>6, <1>7, <1>12 DEF Inv, Attempts
  <2>2. ASSUME NEW q \in Procs, pc'[q] = "record"
        PROVE  /\ q \in Procs \ {p} /\ pc[q] = "record" /\ job'[q] = job[q]
               /\ \A e \in events' : e.attempt # job[q].attempt
    <3>1. q \in Procs \ {p} /\ pc[q] = "record" /\ job'[q] = job[q]
      BY <1>1, <2>2
    <3>2. job[p].attempt # job[q].attempt
      BY <1>1, <1>12, <3>1
    <3> QED BY <1>6, <1>7, <1>12, <3>1, <3>2
  <2> QED BY <1>2, <1>12, <2>1, <2>2 DEF Attempts
<1>14. OnePolicy'
  <2>1. \A i, j \in DOMAIN runs : runs[i].tenant = runs[j].tenant => runs[i].policy = runs[j].policy
    BY DEF Inv, OnePolicy
  <2>2. ASSUME NEW i \in DOMAIN runs, runs[i].tenant = t
        PROVE  runs[i].policy = run.policy
    <3>1. runs_for_device(t) \in SUBSET (1 .. Len(runs)) /\ i \in runs_for_device(t)
      BY <1>4, <2>2 DEF runs_for_device
    <3>2. PICK m \in runs_for_device(t) : \A k \in runs_for_device(t) : k <= m
      BY <1>4, <3>1, HasNewest
    <3>3. runs[m].policy = run.policy
      BY <1>2, <1>3, <3>2 DEF Admit, Newest
    <3>4. m \in DOMAIN runs /\ runs[m].tenant = t
      BY <3>2 DEF runs_for_device
    <3> QED BY <2>1, <2>2, <3>3, <3>4
  <2>3. \A i, j \in DOMAIN runs' : runs'[i].tenant = runs'[j].tenant => runs'[i].policy = runs'[j].policy
    <3>1. \A i \in DOMAIN runs' : i = n \/ i \in DOMAIN runs
      BY <1>1
    <3>2. \A i \in DOMAIN runs : runs'[i] = runs[i]
      BY <1>1
    <3> QED BY <1>1, <1>3, <2>1, <2>2, <3>1, <3>2, SMT
  <2> QED BY <2>3 DEF OnePolicy
<1>15. TracedOnce'
  <2>1. \A d, e \in events' : d.attempt = e.attempt => d = e
    <3>1. \A d, e \in events : d.attempt = e.attempt => d = e
      BY DEF Inv, TracedOnce
    <3>2. \A e \in events : e.attempt # new.attempt
      BY <1>1, <1>7, <1>12
    <3>3. \A e \in events' : e \in events \/ e = new
      BY <1>6
    <3> QED BY <3>1, <3>2, <3>3
  <2>2. ASSUME NEW i \in DOMAIN runs', runs'[i].attempt > 0
        PROVE  [attempt |-> runs'[i].attempt, run |-> i] \in events'
    <3>1. CASE i \in DOMAIN runs
      <4>1. runs'[i] = runs[i]
        BY <1>1, <3>1
      <4> QED BY <1>6, <2>2, <3>1, <4>1 DEF Inv, TracedOnce
    <3>2. CASE i = n
      <4>1. runs'[i].attempt = run.attempt
        BY <1>1, <3>2
      <4>2. job[p].collect
        BY <1>3, <2>2, <4>1, SMT
      <4>3. run.attempt = job[p].attempt
        BY <1>3, <4>2
      <4> QED BY <1>6, <3>2, <4>1, <4>2, <4>3 DEF new
    <3> QED BY <1>1, <3>1, <3>2
  <2> QED BY <2>1, <2>2 DEF TracedOnce
<1> QED BY <1>8, <1>9, <1>10, <1>11, <1>13, <1>14, <1>15 DEF Inv

LEMMA StepInv == Inv /\ [Next]_vars => Inv'
<1> SUFFICES ASSUME Inv, [Next]_vars PROVE Inv'
  OBVIOUS
<1>1. CASE UNCHANGED vars
  <2>1. UNCHANGED <<version, runs, baseline, events, pc, job, attempts>>
    BY <1>1 DEF vars
  <2>2. TypeOK' /\ Attempts' /\ TracedOnce'
    BY <2>1 DEF Inv, TypeOK, Attempts, TracedOnce
  <2>3. Jobs'
    BY <2>1, SMT DEF Inv, Jobs, History, last_evaluated, Newest, Complete, Carried, runs_for_device
  <2> QED BY <2>1, <2>2, <2>3, StoreKept DEF Inv
<1>2. ASSUME NEW p \in Procs, Read(p) PROVE Inv'
  BY <1>2, ReadStep
<1>3. ASSUME NEW p \in Procs, Report(p) \/ Refuse(p) \/ Kill(p) PROVE Inv'
  BY <1>3, EndStep
<1>4. ASSUME NEW p \in Procs, MigrateCheck(p) PROVE Inv'
  BY <1>4, MigrateCheckStep
<1>5. ASSUME NEW p \in Procs, Migrate(p) PROVE Inv'
  BY <1>5, MigrateStep
<1>6. ASSUME NEW p \in Procs, NEW s \in Snapshots, NEW accept \in BOOLEAN, Record(p, s, accept)
      PROVE  Inv'
  BY <1>6, RecordStep
<1> QED BY <1>1, <1>2, <1>3, <1>4, <1>5, <1>6 DEF Next

(* The inductive invariant of the store holds in every state: what the      *)
(* commands of all processes have read, recorded and migrated (store.py).   *)
THEOREM SpecInv == Spec => []Inv
<1> QED BY InitInv, StepInv, PTL DEF Spec
----------------------------------------------------------------------------
(* The history of a device belongs to one policy, whatever commands with    *)
(* other policies find at the same time, and the events of a collection are *)
(* in the store once, with their run (_policy_scope, _record_run, _traced). *)
THEOREM HistoryIsTrue == Spec => []HistoryTrue
<1>1. Inv => HistoryTrue
  BY DEF Inv, HistoryTrue
<1> QED BY <1>1, SpecInv, PTL

(* Every entry of the baseline carries the fingerprint of a finding of a    *)
(* complete run of its own tenant, before and after a migration, and after  *)
(* a second one (_record_run, _migrated_baseline).                          *)
THEOREM BaselineIsEarned == Spec => []BaselineEarned
<1>1. Inv => BaselineEarned
  <2> SUFFICES ASSUME Inv, NEW b \in baseline
               PROVE  \E i \in DOMAIN runs :
                         /\ runs[i].tenant = b.tenant /\ evaluation_complete(runs[i])
                         /\ b.fp \in Prints(runs[i].found)
    BY DEF BaselineEarned
  <2>1. PICK i \in DOMAIN runs : \E x \in runs[i].found :
           evaluation_complete(runs[i]) /\ b = [tenant |-> runs[i].tenant, fp |-> x.fp]
    BY DEF Inv, Baselines
  <2>2. PICK x \in runs[i].found : b = [tenant |-> runs[i].tenant, fp |-> x.fp]
    BY <2>1
  <2>3. b.tenant = runs[i].tenant /\ b.fp = x.fp
    BY <2>2
  <2> QED BY <2>1, <2>3 DEF Prints
<1> QED BY <1>1, SpecInv, PTL

(* What the MCP tools read of the last run is what its command reports,     *)
(* whatever has been recorded or migrated in between (list_findings,        *)
(* _classified).                                                            *)
THEOREM QueriesAgree == Spec => []QueryAgrees
<1>1. Inv => QueryAgrees
  <2> SUFFICES ASSUME Inv, NEW p \in Procs, pc[p] = "report", NEW t, t = job[p].tenant,
                      NEW n, n = job[p].id, n \in Newest(runs_for_device(t))
               PROVE  {x.finding : x \in QueryGone(t)} = Outbox[p].gone
    BY DEF QueryAgrees
  <2> DEFINE ids == runs_for_device(t)
  <2>1. n \in DOMAIN runs /\ job[p].run = runs[n] /\ job[p].previous = History(t, n)
    BY DEF Inv, Jobs
  <2>2. ids \subseteq Nat
    BY SMT DEF Inv, TypeOK, runs_for_device
  <2>3. Newest(ids) = {n}
    <3>1. \A i \in Newest(ids) : i = n
      BY <2>2, SMT DEF Newest
    <3> QED BY <3>1
  <2>4. ids \ {n} = {i \in ids : i < n}
    <3>1. n \in ids /\ \A i \in ids : i <= n
      BY DEF Newest
    <3>2. \A i \in ids : i # n <=> i < n
      BY <2>2, <3>1, SMT
    <3> QED BY <3>2
  <2>5. QueryGone(t) = Gone(runs[n], last_evaluated(ids \ {n}))
    <3> DEFINE F(i) == Gone(runs[i], last_evaluated(ids \ {i}))
    <3>1. QueryGone(t) = UNION {F(i) : i \in Newest(ids)}
      BY DEF QueryGone
    <3> HIDE DEF F
    <3>2. UNION {F(i) : i \in {n}} = F(n)
      OBVIOUS
    <3>3. QueryGone(t) = F(n)
      BY <2>3, <3>1, <3>2
    <3> QED BY <3>3 DEF F
  <2>6. QueryGone(t) = Gone(job[p].run, job[p].previous)
    BY <2>1, <2>4, <2>5 DEF History
  <2>7. Outbox[p].gone = {x.finding : x \in Gone(job[p].run, job[p].previous)}
    BY DEF Outbox
  <2> QED BY <2>6, <2>7
<1> QED BY <1>1, SpecInv, PTL
----------------------------------------------------------------------------
(* An open finding is one of the last complete run that evaluated its rule. *)
Holds(i, f) == \E x \in runs[i].found : x.finding = f
OpenMeans ==
    \A t \in Tenants : \A f :
        f \in Open[t] <=>
            \E i \in Complete(runs_for_device(t)) :
                /\ Holds(i, f)
                /\ \A j \in Complete(runs_for_device(t)) :
                      j > i => Rule[f] \in unevaluated_rules(runs[j])

LEMMA OpenFindings == Inv => OpenMeans
<1> SUFFICES ASSUME Inv, NEW t \in Tenants, NEW f
             PROVE  f \in Open[t] <=>
                       \E i \in Complete(runs_for_device(t)) :
                           /\ Holds(i, f)
                           /\ \A j \in Complete(runs_for_device(t)) :
                                 j > i => Rule[f] \in unevaluated_rules(runs[j])
  BY DEF OpenMeans
<1> DEFINE ids == runs_for_device(t)
           C == Complete(ids)
<1>1. \A x : x \in last_evaluated(ids) <=>
         \E i \in C : /\ x \in runs[i].found
                      /\ \A j \in C : j > i => Rule[x.finding] \in unevaluated_rules(runs[j])
  <2>1. ids \in SUBSET DOMAIN runs
    BY DEF runs_for_device
  <2>2. runs \in Seq(RunRows(version))
    BY DEF Inv, TypeOK
  <2> QED BY <2>1, <2>2, LastEvaluated DEF LastOfEachRule
<1>2. f \in Open[t] <=> \E x \in last_evaluated(ids) : f = x.finding
  BY DEF Open
<1> HIDE DEF ids, C
<1>3. ASSUME f \in Open[t]
      PROVE  \E i \in C : Holds(i, f) /\ \A j \in C : j > i => Rule[f] \in unevaluated_rules(runs[j])
  <2>1. PICK x \in last_evaluated(ids) : f = x.finding
    BY <1>2, <1>3
  <2>2. PICK i \in C : /\ x \in runs[i].found
                       /\ \A j \in C : j > i => Rule[x.finding] \in unevaluated_rules(runs[j])
    BY <1>1
  <2> QED BY <2>1, <2>2 DEF Holds
<1>4. ASSUME NEW i \in C, Holds(i, f), \A j \in C : j > i => Rule[f] \in unevaluated_rules(runs[j])
      PROVE  f \in Open[t]
  <2>1. PICK x \in runs[i].found : x.finding = f
    BY <1>4 DEF Holds
  <2>2. x \in last_evaluated(ids)
    BY <1>1, <1>4, <2>1
  <2> QED BY <1>2, <2>1, <2>2
<1> QED BY <1>3, <1>4 DEF C, ids

LEMMA OpenFindingsNext == Inv' => OpenMeans'
BY OpenFindings, PTL

LEMMA LedgerTypes ==
    ASSUME Inv
    PROVE  /\ Open \in [Tenants -> SUBSET Findings] /\ Accepted \in [Tenants -> SUBSET Findings]
           /\ \A p \in Procs : pc[p] = "report" =>
                 /\ job[p].tenant \in Tenants /\ job[p].run.found \subseteq Rows(2, {job[p].tenant})
                 /\ job[p].previous \subseteq Rows(2, Tenants)
                 /\ Outbox[p] # None
<1>1. \A i \in DOMAIN runs : \A x \in runs[i].found : x.finding \in Findings
  BY RowNames DEF Inv, OwnRows
<1>2. ASSUME NEW t \in Tenants PROVE Open[t] \subseteq Findings
  <2>1. \A i \in Complete(runs_for_device(t)) : i \in DOMAIN runs
    BY DEF Complete, runs_for_device
  <2>2. \A f \in Open[t] : \E i \in Complete(runs_for_device(t)) : Holds(i, f)
    BY OpenFindings DEF OpenMeans
  <2> QED BY <1>1, <2>1, <2>2 DEF Holds
<1>3. Open \in [Tenants -> SUBSET Findings]
  BY <1>2 DEF Open
<1>4. Accepted \in [Tenants -> SUBSET Findings]
  BY DEF Accepted
<1>5. ASSUME NEW p \in Procs, pc[p] = "report"
      PROVE  /\ job[p].tenant \in Tenants /\ job[p].run.found \subseteq Rows(2, {job[p].tenant})
             /\ job[p].previous \subseteq Rows(2, Tenants)
             /\ Outbox[p] # None
  <2> DEFINE n == job[p].id
  <2>1. /\ n \in DOMAIN runs /\ job[p].run = runs[n] /\ job[p].tenant = runs[n].tenant /\ version = 2
    BY <1>5 DEF Inv, Jobs
  <2>2. runs[n].found \subseteq Rows(2, {runs[n].tenant})
    BY <2>1 DEF Inv, OwnRows
  <2>3. runs[n].tenant \in Tenants
    BY <2>1, RenamedRun
  <2>4. job[p].previous \subseteq Rows(2, Tenants)
    BY SMT DEF Inv, TypeOK, JobRows
  <2> HIDE DEF n
  <2>5. \A x \in job[p].run.found : x.finding \in Findings
    BY <2>1, <2>2, RowNames
  <2>6. \A x \in Rows(2, Tenants) : x.finding \in Findings
    BY SMT DEF Rows, Row
  <2> DEFINE New == {x.finding : x \in {y \in job[p].run.found : y.fp \notin job[p].baseline}}
             Known == {x.finding : x \in {y \in job[p].run.found : y.fp \in job[p].baseline}}
             Lost == {x.finding : x \in Gone(job[p].run, job[p].previous)}
  <2>7. New \subseteq Findings /\ Known \subseteq Findings
    BY <2>5
  <2>8. Lost \subseteq Findings
    BY <2>4, <2>6 DEF Gone
  <2>9. Outbox[p] = [tenant |-> job[p].tenant, new |-> New, known |-> Known, gone |-> Lost]
    BY <1>5 DEF Outbox
  <2> HIDE DEF New, Known, Lost
  <2>10. Outbox[p] \in [tenant : Tenants, new : SUBSET Findings, known : SUBSET Findings,
                        gone : SUBSET Findings]
    BY <2>1, <2>3, <2>7, <2>8, <2>9, SMT
  <2>11. Outbox[p] # None
    BY <2>10, StoreAssumption
  <2> QED BY <2>1, <2>2, <2>3, <2>4, <2>11
<1> QED BY <1>3, <1>4, <1>5

(* What the ledger sees of a step that leaves runs and baseline alone *)
LEMMA EntriesKept ==
    ASSUME UNCHANGED <<version, runs, baseline>>
    PROVE  Open' = Open /\ Accepted' = Accepted
<1>1. Open' = Open
  BY SMT DEF Open, last_evaluated, Newest, Complete, Carried, runs_for_device
<1>2. Accepted' = Accepted
  BY DEF Accepted, baseline_fingerprints
<1> QED BY <1>1, <1>2

LEMMA OutboxKept ==
    ASSUME NEW q \in Procs, pc'[q] = "report" <=> pc[q] = "report",
           pc[q] = "report" => job'[q] = job[q]
    PROVE  Outbox'[q] = Outbox[q]
BY DEF Outbox, Gone

(* A command that ends with its report, or is killed in it, shows it; any   *)
(* other step without a transaction is none of the ledger.                  *)
LEMMA QuietLedger ==
    ASSUME Inv, NEW p \in Procs, UNCHANGED <<version, runs, baseline>>,
           pc'[p] # "report", \A q \in Procs \ {p} : pc'[q] = pc[q] /\ job'[q] = job[q]
    PROVE  Ledger!Next \/ UNCHANGED <<Open, Accepted, Outbox>>
<1>1. Open' = Open /\ Accepted' = Accepted
  BY EntriesKept
<1>2. \A q \in Procs \ {p} : Outbox'[q] = Outbox[q]
  BY OutboxKept
<1>3. Outbox'[p] = None
  BY DEF Outbox
<1>4. Outbox' = [q \in Procs |-> Outbox'[q]] /\ Outbox = [q \in Procs |-> Outbox[q]]
  BY DEF Outbox
<1>5. CASE pc[p] = "report"
  <2>1. Outbox[p] # None
    BY <1>5, LedgerTypes
  <2>2. Outbox' = [Outbox EXCEPT ![p] = None]
    BY <1>2, <1>3, <1>4
  <2>3. Ledger!Show(p)
    BY <1>1, <2>1, <2>2 DEF Ledger!Show
  <2> QED BY <2>3 DEF Ledger!Next
<1>6. CASE pc[p] # "report"
  <2>1. Outbox[p] = None
    BY <1>6 DEF Outbox
  <2>2. Outbox' = Outbox
    BY <1>2, <1>3, <1>4, <2>1
  <2> QED BY <1>1, <2>2
<1> QED BY <1>5, <1>6

(* A migration renames every fingerprint and changes nothing the ledger     *)
(* knows of.                                                                *)
LEMMA MigrateLedger ==
    ASSUME Inv, Inv', NEW p \in Procs, Migrate(p)
    PROVE  Ledger!Next \/ UNCHANGED <<Open, Accepted, Outbox>>
<1>1. /\ job' = job /\ pc' = [pc EXCEPT ![p] = "idle"] /\ pc \in [Procs -> Labels]
      /\ pc[p] = "migrate"
  BY DEF Migrate, Goto, Inv, TypeOK
<1>2. pc'[p] = "idle" /\ \A q \in Procs \ {p} : pc'[q] = pc[q] /\ job'[q] = job[q]
  BY <1>1
<1>3. CASE UNCHANGED <<version, runs, baseline>>
  BY <1>2, <1>3, QuietLedger
<1>4. CASE ~ UNCHANGED <<version, runs, baseline>>
  <2>1. /\ version = 1 /\ version' = 2 /\ DOMAIN runs' = DOMAIN runs
        /\ \A i \in DOMAIN runs : runs'[i] = Renamed(runs[i])
    BY <1>4, MigrateEffect
  <2>2. PICK name \in [baseline -> UNION {Fresh(b) : b \in baseline}] :
            /\ \A b \in baseline : name[b] \in Fresh(b)
            /\ baseline' = {[tenant |-> b.tenant, fp |-> name[b]] : b \in baseline}
    BY <1>4, MigrateEffect
  <2>3. \A i \in DOMAIN runs :
           /\ runs'[i].tenant = runs[i].tenant /\ runs'[i].gate = runs[i].gate
           /\ runs'[i].evaluated = runs[i].evaluated
           /\ runs'[i].found = {Row(2, runs[i].tenant, x.finding) : x \in runs[i].found}
    BY <2>1, RenamedRun
  <2>4. Outbox' = Outbox
    <3>1. \A q \in Procs : Outbox'[q] = Outbox[q]
      BY <1>1, <1>2, OutboxKept
    <3> QED BY <3>1 DEF Outbox
  <2>5. ASSUME NEW t \in Tenants PROVE Open'[t] = Open[t]
    <3>1. Complete(runs_for_device(t))' = Complete(runs_for_device(t))
      BY <2>1, <2>3 DEF Complete, runs_for_device, evaluation_complete
    <3>2. \A i \in Complete(runs_for_device(t)) : i \in DOMAIN runs
      BY DEF Complete, runs_for_device
    <3>3. ASSUME NEW i \in DOMAIN runs, NEW f PROVE Holds(i, f)' <=> Holds(i, f)
      <4>1. \A u, g : Row(2, u, g).finding = g
        BY DEF Row
      <4>2. runs'[i].found = {Row(2, runs[i].tenant, x.finding) : x \in runs[i].found}
        BY <2>3
      <4>3. (\E y \in runs'[i].found : y.finding = f) <=> \E x \in runs[i].found : x.finding = f
        <5>1. ASSUME NEW x \in runs[i].found, x.finding = f
              PROVE  \E y \in runs'[i].found : y.finding = f
          <6>1. Row(2, runs[i].tenant, x.finding) \in runs'[i].found
            BY <4>2
          <6>2. Row(2, runs[i].tenant, x.finding).finding = f
            BY <4>1, <5>1
          <6> QED BY <6>1, <6>2
        <5>2. ASSUME NEW y \in runs'[i].found, y.finding = f
              PROVE  \E x \in runs[i].found : x.finding = f
          <6>1. PICK x \in runs[i].found : y = Row(2, runs[i].tenant, x.finding)
            BY <4>2
          <6>2. y.finding = x.finding
            BY <4>1, <6>1
          <6> QED BY <5>2, <6>2
        <5> QED BY <5>1, <5>2
      <4> QED BY <4>3 DEF Holds
    <3>4. \A i \in DOMAIN runs : unevaluated_rules(runs'[i]) = unevaluated_rules(runs[i])
      BY <2>3 DEF unevaluated_rules
    <3>5. ASSUME NEW f PROVE f \in Open'[t] <=> f \in Open[t]
      <4>1. f \in Open[t] <=>
               \E i \in Complete(runs_for_device(t)) :
                   /\ Holds(i, f)
                   /\ \A j \in Complete(runs_for_device(t)) :
                         j > i => Rule[f] \in unevaluated_rules(runs[j])
        BY OpenFindings DEF OpenMeans
      <4>2. f \in Open'[t] <=>
               \E i \in Complete(runs_for_device(t))' :
                   /\ Holds(i, f)'
                   /\ \A j \in Complete(runs_for_device(t))' :
                         j > i => Rule[f] \in unevaluated_rules(runs'[j])
        BY OpenFindingsNext DEF OpenMeans
      <4> DEFINE C == Complete(runs_for_device(t))
      <4>3. f \in Open'[t] <=>
               \E i \in C : /\ Holds(i, f)'
                            /\ \A j \in C : j > i => Rule[f] \in unevaluated_rules(runs'[j])
        BY <3>1, <4>2
      <4>4. \A i \in C : /\ Holds(i, f)' <=> Holds(i, f)
                         /\ unevaluated_rules(runs'[i]) = unevaluated_rules(runs[i])
        BY <3>2, <3>3, <3>4
      <4> HIDE DEF C
      <4>5. f \in Open[t] <=>
               \E i \in C : /\ Holds(i, f)
                            /\ \A j \in C : j > i => Rule[f] \in unevaluated_rules(runs[j])
        BY <4>1 DEF C
      <4> QED BY <4>3, <4>4, <4>5
    <3> QED BY <3>5
  <2>6. Open' = Open
    BY <2>5 DEF Open
  <2>7. ASSUME NEW t \in Tenants, NEW f \in Findings
        PROVE  f \in Accepted'[t] <=> f \in Accepted[t]
    <3>1. f \in Accepted[t] <=> \E b \in baseline : b.tenant = t /\ b.fp = Fingerprint(1, t, f)
      BY <2>1 DEF Accepted, baseline_fingerprints
    <3>2. f \in Accepted'[t] <=> \E c \in baseline' : c.tenant = t /\ c.fp = Fingerprint(2, t, f)
      BY <2>1 DEF Accepted, baseline_fingerprints
    <3>3. ASSUME NEW b \in baseline
          PROVE  b.fp = Fingerprint(1, b.tenant, f) <=> name[b] = Fingerprint(2, b.tenant, f)
      <4>1. name[b] \in Fresh(b)
        BY <2>2
      <4>2. PICK i \in DOMAIN runs : \E x \in runs[i].found :
                /\ evaluation_complete(runs[i]) /\ runs[i].tenant = b.tenant
                /\ b = [tenant |-> b.tenant, fp |-> x.fp]
                /\ b.fp = Fingerprint(version, b.tenant, x.finding)
                /\ name[b] = Fingerprint(2, b.tenant, x.finding)
        BY <4>1, FreshName
      <4>3. PICK g : b.fp = Fingerprint(1, b.tenant, g) /\ name[b] = Fingerprint(2, b.tenant, g)
        BY <2>1, <4>2
      <4> QED BY <4>3, FingerprintsDiffer
    <3>4. (\E c \in baseline' : c.tenant = t /\ c.fp = Fingerprint(2, t, f)) <=>
             \E b \in baseline : b.tenant = t /\ name[b] = Fingerprint(2, t, f)
      <4> DEFINE N(b) == [tenant |-> b.tenant, fp |-> name[b]]
      <4>1. \A b : N(b).tenant = b.tenant /\ N(b).fp = name[b]
        OBVIOUS
      <4>2. baseline' = {N(b) : b \in baseline}
        BY <2>2
      <4> HIDE DEF N
      <4> QED BY <4>1, <4>2
    <3> QED BY <3>1, <3>2, <3>3, <3>4
  <2>8. Accepted' = Accepted
    <3>1. \A t \in Tenants : Accepted'[t] \subseteq Findings /\ Accepted[t] \subseteq Findings
      BY LedgerTypes DEF Accepted
    <3>2. \A t \in Tenants : Accepted'[t] = Accepted[t]
      BY <2>7, <3>1
    <3> QED BY <3>2 DEF Accepted
  <2> QED BY <2>4, <2>6, <2>8
<1> QED BY <1>3, <1>4

(* Rows of one tenant and the findings they stand for *)
OwnRowsOf(t, F) == {Row(2, t, f) : f \in F}
NewOf(rows, B) == {x.finding : x \in {y \in rows : y.fp \notin B}}
KnownOf(rows, B) == {x.finding : x \in {y \in rows : y.fp \in B}}
LostOf(run, previous) == {x.finding : x \in Gone(run, previous)}
FindingsIn(rows) == {x.finding : x \in rows}
Undone(run, W, F) ==
    {f \in W : evaluation_complete(run) /\ Rule[f] \in run.evaluated /\ f \notin F}
Unnamed(t, F, B) == {f \in F : Fingerprint(2, t, f) \notin B}
Named(t, F, B) == {f \in F : Fingerprint(2, t, f) \in B}

LEMMA PrintsOfRows ==
    ASSUME NEW t, NEW F, NEW f
    PROVE  Fingerprint(2, t, f) \in Prints(OwnRowsOf(t, F)) <=> f \in F
<1>1. \A g : Row(2, t, g).fp = Fingerprint(2, t, g)
  BY DEF Row
<1>2. ASSUME f \in F PROVE Fingerprint(2, t, f) \in Prints(OwnRowsOf(t, F))
  <2>1. Row(2, t, f) \in OwnRowsOf(t, F) /\ Row(2, t, f).fp = Fingerprint(2, t, f)
    BY <1>1, <1>2 DEF OwnRowsOf
  <2> QED BY <2>1 DEF Prints
<1>3. ASSUME Fingerprint(2, t, f) \in Prints(OwnRowsOf(t, F)) PROVE f \in F
  <2>1. PICK y \in OwnRowsOf(t, F) : Fingerprint(2, t, f) = y.fp
    BY <1>3 DEF Prints
  <2>2. PICK g \in F : y = Row(2, t, g)
    BY <2>1 DEF OwnRowsOf
  <2>3. Fingerprint(2, t, f) = Fingerprint(2, t, g)
    BY <1>1, <2>1, <2>2
  <2> QED BY <2>3, FingerprintsDiffer
<1> QED BY <1>2, <1>3

LEMMA FindingsOfRows ==
    ASSUME NEW t, NEW F, NEW B
    PROVE  /\ NewOf(OwnRowsOf(t, F), B) = Unnamed(t, F, B)
           /\ KnownOf(OwnRowsOf(t, F), B) = Named(t, F, B)
<1>1. \A f : Row(2, t, f).finding = f /\ Row(2, t, f).fp = Fingerprint(2, t, f)
  BY DEF Row
<1>2. \A y \in OwnRowsOf(t, F) :
         y.finding \in F /\ y = Row(2, t, y.finding) /\ y.fp = Fingerprint(2, t, y.finding)
  <2> SUFFICES ASSUME NEW y \in OwnRowsOf(t, F)
               PROVE  y.finding \in F /\ y = Row(2, t, y.finding) /\ y.fp = Fingerprint(2, t, y.finding)
    OBVIOUS
  <2>1. PICK f \in F : y = Row(2, t, f)
    BY DEF OwnRowsOf
  <2>2. y.finding = f /\ y.fp = Fingerprint(2, t, f)
    BY <1>1, <2>1
  <2> QED BY <2>1, <2>2
<1>3. \A f \in F : Row(2, t, f) \in OwnRowsOf(t, F)
  BY DEF OwnRowsOf
<1>4. ASSUME NEW f
      PROVE  f \in {x.finding : x \in {y \in OwnRowsOf(t, F) : y.fp \notin B}} <=>
                f \in F /\ Fingerprint(2, t, f) \notin B
  <2>1. ASSUME f \in F, Fingerprint(2, t, f) \notin B
        PROVE  f \in {x.finding : x \in {y \in OwnRowsOf(t, F) : y.fp \notin B}}
    <3>1. Row(2, t, f) \in {y \in OwnRowsOf(t, F) : y.fp \notin B} /\ f = Row(2, t, f).finding
      BY <1>1, <1>3, <2>1
    <3> QED BY <3>1
  <2>2. ASSUME NEW y \in OwnRowsOf(t, F), y.fp \notin B, f = y.finding
        PROVE  f \in F /\ Fingerprint(2, t, f) \notin B
    BY <1>2, <2>2
  <2> QED BY <2>1, <2>2
<1>5. ASSUME NEW f
      PROVE  f \in {x.finding : x \in {y \in OwnRowsOf(t, F) : y.fp \in B}} <=>
                f \in F /\ Fingerprint(2, t, f) \in B
  <2>1. ASSUME f \in F, Fingerprint(2, t, f) \in B
        PROVE  f \in {x.finding : x \in {y \in OwnRowsOf(t, F) : y.fp \in B}}
    <3>1. Row(2, t, f) \in {y \in OwnRowsOf(t, F) : y.fp \in B} /\ f = Row(2, t, f).finding
      BY <1>1, <1>3, <2>1
    <3> QED BY <3>1
  <2>2. ASSUME NEW y \in OwnRowsOf(t, F), y.fp \in B, f = y.finding
        PROVE  f \in F /\ Fingerprint(2, t, f) \in B
    BY <1>2, <2>2
  <2> QED BY <2>1, <2>2
<1> QED BY <1>4, <1>5 DEF NewOf, KnownOf, Unnamed, Named

(* What a report calls gone, of rows of its own tenant *)
LEMMA GoneFindings ==
    ASSUME NEW t, NEW F, NEW run, run.found = OwnRowsOf(t, F),
           NEW previous, previous \subseteq Rows(2, {t})
    PROVE  LostOf(run, previous) = Undone(run, FindingsIn(previous), F)
<1>1. \A x \in previous : x.fp \in Prints(run.found) <=> x.finding \in F
  <2>1. \A x \in previous : x.fp = Fingerprint(2, t, x.finding)
    BY RowNames
  <2> QED BY <2>1, PrintsOfRows
<1>2. \A x : x \in Gone(run, previous) <=>
         /\ x \in previous /\ evaluation_complete(run) /\ x.finding \notin F
         /\ Rule[x.finding] \in run.evaluated
  BY <1>1 DEF Gone
<1> QED BY <1>2 DEF LostOf, Undone, FindingsIn

(* What a run changes of the open findings *)
LEMMA OpenRecorded ==
    ASSUME Inv, Inv', NEW p, NEW t, NEW n, NEW run, Recorded(p, t, n, run), run.tenant = t,
           NEW u \in Tenants
    PROVE  Open'[u] = IF u = t /\ evaluation_complete(run)
                      THEN {f \in Open[u] : Rule[f] \notin run.evaluated} \cup {x.finding : x \in run.found}
                      ELSE Open[u]
<1> DEFINE C == Complete(runs_for_device(u))
           C1 == Complete(runs_for_device(u))'
           Skips(i, f) == Rule[f] \in unevaluated_rules(runs[i])
           Skips1(i, f) == Rule[f] \in unevaluated_rules(runs'[i])
<1>1. /\ DOMAIN runs' = DOMAIN runs \cup {n} /\ n \notin DOMAIN runs /\ runs'[n] = run
      /\ \A i \in DOMAIN runs : runs'[i] = runs[i] /\ i < n
  BY DEF Recorded
<1>2. \A f : f \in Open[u] <=> \E i \in C : Holds(i, f) /\ \A j \in C : j > i => Skips(j, f)
  BY OpenFindings DEF OpenMeans
<1>3. \A f : f \in Open'[u] <=> \E i \in C1 : Holds(i, f)' /\ \A j \in C1 : j > i => Skips1(j, f)
  BY OpenFindingsNext DEF OpenMeans
<1>4. C \subseteq DOMAIN runs
  BY DEF Complete, runs_for_device
<1>5. \A i \in C : i < n /\ \A f : (Holds(i, f)' <=> Holds(i, f)) /\ (Skips1(i, f) <=> Skips(i, f))
  <2> SUFFICES ASSUME NEW i \in C
               PROVE  i < n /\ \A f : (Holds(i, f)' <=> Holds(i, f)) /\ (Skips1(i, f) <=> Skips(i, f))
    OBVIOUS
  <2>1. runs'[i] = runs[i] /\ i < n
    BY <1>1, <1>4
  <2>2. \A f : Holds(i, f)' <=> Holds(i, f)
    BY <2>1, SMT DEF Holds
  <2>3. \A f : Skips1(i, f) <=> Skips(i, f)
    BY <2>1
  <2> QED BY <2>1, <2>2, <2>3
<1>6. n \in Nat /\ C \subseteq Nat
  <2>1. DOMAIN runs' \subseteq Nat
    BY SMT DEF Inv, TypeOK
  <2> QED BY <1>1, <1>4, <2>1
<1>7. C1 = IF u = t /\ evaluation_complete(run) THEN C \cup {n} ELSE C
  <2>1. \A i \in DOMAIN runs : i \in C1 <=> i \in C
    BY <1>1 DEF Complete, runs_for_device
  <2>2. n \in C1 <=> u = t /\ evaluation_complete(run)
    BY <1>1 DEF Complete, runs_for_device
  <2>3. C1 \subseteq DOMAIN runs \cup {n}
    BY <1>1 DEF Complete, runs_for_device
  <2> HIDE DEF C, C1
  <2>4. CASE u = t /\ evaluation_complete(run)
    <3>1. C1 = C \cup {n}
      BY <1>1, <1>4, <2>1, <2>2, <2>3, <2>4
    <3> QED BY <2>4, <3>1
  <2>5. CASE ~ (u = t /\ evaluation_complete(run))
    <3>1. C1 = C
      BY <1>1, <1>4, <2>1, <2>2, <2>3, <2>5
    <3> QED BY <2>5, <3>1
  <2> QED BY <2>4, <2>5
<1>8. \A f : (Holds(n, f)' <=> f \in {x.finding : x \in run.found}) /\ (Skips1(n, f) <=> Rule[f] \in Rules \ run.evaluated)
  BY <1>1 DEF Holds, unevaluated_rules
<1>9. \A f \in Open[u] : Rule[f] \in Rules
  BY LedgerTypes, StoreAssumption
<1> HIDE DEF C, C1, Skips, Skips1
<1>10. CASE ~ (u = t /\ evaluation_complete(run))
  <2>1. C1 = C
    BY <1>7, <1>10
  <2>2. \A f : f \in Open'[u] <=> f \in Open[u]
    BY <1>2, <1>3, <1>5, <2>1
  <2> QED BY <1>10, <2>2
<1>11. CASE u = t /\ evaluation_complete(run)
  <2>1. C1 = C \cup {n}
    BY <1>7, <1>11
  <2>2. \A i \in C : n > i /\ ~ (i > n)
    BY <1>5, <1>6, SMT
  <2>3. ~ (n > n)
    BY <1>6, SMT
  <2>4. ASSUME NEW f, f \in {x.finding : x \in run.found}
        PROVE  f \in Open'[u]
    <3>1. n \in C1 /\ Holds(n, f)' /\ \A j \in C1 : ~ (j > n)
      BY <1>8, <2>1, <2>2, <2>3, <2>4
    <3> QED BY <1>3, <3>1
  <2>5. ASSUME NEW f \in Open[u], Rule[f] \notin run.evaluated
        PROVE  f \in Open'[u]
    <3>1. PICK i \in C : Holds(i, f) /\ \A j \in C : j > i => Skips(j, f)
      BY <1>2
    <3>2. Skips1(n, f)
      BY <1>8, <1>9, <2>5
    <3>3. i \in C1 /\ Holds(i, f)' /\ \A j \in C1 : j > i => Skips1(j, f)
      BY <1>5, <2>1, <3>1, <3>2
    <3> QED BY <1>3, <3>3
  <2>6. ASSUME NEW f \in Open'[u], f \notin {x.finding : x \in run.found}
        PROVE  f \in Open[u] /\ Rule[f] \notin run.evaluated
    <3>1. PICK i \in C1 : Holds(i, f)' /\ \A j \in C1 : j > i => Skips1(j, f)
      BY <1>3
    <3>2. i \in C
      BY <1>8, <2>1, <2>6, <3>1
    <3>3. Skips1(n, f)
      BY <2>1, <2>2, <3>1, <3>2
    <3>4. Holds(i, f) /\ \A j \in C : j > i => Skips(j, f)
      BY <1>5, <2>1, <3>1, <3>2
    <3> QED BY <1>2, <1>8, <3>2, <3>3, <3>4
  <2> DEFINE After == {f \in Open[u] : Rule[f] \notin run.evaluated} \cup {x.finding : x \in run.found}
  <2>7. Open'[u] = After
    BY <2>4, <2>5, <2>6
  <2> HIDE DEF After
  <2> QED BY <1>11, <2>7 DEF After
<1> QED BY <1>10, <1>11

(* What an accepted run changes of the baseline *)
Blessed(t, rows, accept) == IF accept THEN {[tenant |-> t, fp |-> x] : x \in Prints(rows)} ELSE {}

Blesses(t, F, accept, u) ==
    Accepted'[u] = IF u = t /\ accept THEN Accepted[u] \cup F ELSE Accepted[u]

LEMMA AcceptedRecorded ==
    ASSUME version = 2, version' = 2, NEW t, NEW F, F \subseteq Findings, NEW accept \in BOOLEAN,
           NEW rows, rows = OwnRowsOf(t, F),
           baseline' = baseline \cup Blessed(t, rows, accept), NEW u \in Tenants
    PROVE  Blesses(t, F, accept, u)
<1>1. \A f : f \in Accepted[u] <=>
         f \in Findings /\ \E b \in baseline : b.tenant = u /\ b.fp = Fingerprint(2, u, f)
  BY DEF Accepted, baseline_fingerprints
<1>2. \A f : f \in Accepted'[u] <=>
         f \in Findings /\ \E b \in baseline' : b.tenant = u /\ b.fp = Fingerprint(2, u, f)
  BY DEF Accepted, baseline_fingerprints
<1>3. \A f : Fingerprint(2, t, f) \in Prints(rows) <=> f \in F
  BY PrintsOfRows
<1> DEFINE N(x) == [tenant |-> t, fp |-> x]
<1>4. \A x : N(x).tenant = t /\ N(x).fp = x
  OBVIOUS
<1>5. \A b : b \in baseline' <=> b \in baseline \/ (accept /\ \E x \in Prints(rows) : b = N(x))
  BY DEF Blessed
<1> HIDE DEF N
<1>6. ASSUME NEW f, u = t, accept, f \in F
      PROVE  f \in Accepted'[u]
  <2>1. N(Fingerprint(2, t, f)) \in baseline'
    BY <1>3, <1>5, <1>6
  <2> QED BY <1>2, <1>4, <1>6, <2>1
<1>7. \A f \in Accepted[u] : f \in Accepted'[u]
  BY <1>1, <1>2, <1>5
<1>8. ASSUME NEW f \in Accepted'[u], f \notin Accepted[u]
      PROVE  u = t /\ accept /\ f \in F
  <2>1. PICK b \in baseline' : b.tenant = u /\ b.fp = Fingerprint(2, u, f)
    BY <1>2
  <2>2. b \notin baseline
    BY <1>1, <1>2, <1>8, <2>1
  <2>3. PICK x \in Prints(rows) : accept /\ b = N(x)
    BY <1>5, <2>2
  <2>4. u = t /\ x = Fingerprint(2, u, f)
    BY <1>4, <2>1, <2>3
  <2> QED BY <1>3, <2>3, <2>4
<1>9. CASE u = t /\ accept
  <2>1. Accepted'[u] = Accepted[u] \cup F
    BY <1>6, <1>7, <1>8, <1>9
  <2> QED BY <1>9, <2>1 DEF Blesses
<1>10. CASE ~ (u = t /\ accept)
  <2>1. Accepted'[u] = Accepted[u]
    BY <1>7, <1>8, <1>10
  <2> QED BY <1>10, <2>1 DEF Blesses
<1> QED BY <1>9, <1>10

(* What the ledger is told by the transaction of a process *)
complete(s) == ~s.gate /\ Required \subseteq s.evaluated
Entered(p, s, accept, t, n, run) ==
    /\ Recorded(p, t, n, run)
    /\ run.tenant = t /\ run.evaluated = evaluated(s) /\ run.found = OwnRowsOf(t, found(s))
    /\ found(s) \subseteq Findings /\ t \in Tenants
    /\ accept => evaluation_complete(run)
    /\ baseline' = baseline \cup Blessed(t, run.found, accept)
    /\ evaluation_complete(run) <=> complete(s)
    /\ pc[p] = "record" /\ pc'[p] = "report" /\ version = 2 /\ version' = 2
    /\ \A q \in Procs \ {p} : pc'[q] = pc[q] /\ job'[q] = job[q]
    /\ job'[p].tenant = t /\ job'[p].run = run
    /\ job'[p].previous = last_evaluated(runs_for_device(t))
    /\ job'[p].baseline = baseline_fingerprints(t)
    /\ last_evaluated(runs_for_device(t)) \subseteq Rows(2, {t})

LEMMA RecordEntered ==
    ASSUME Inv, Inv', NEW p \in Procs, NEW s \in Snapshots, NEW accept \in BOOLEAN, Record(p, s, accept),
           NEW t, t = job[p].tenant, NEW n, n = Len(runs) + 1, NEW run, run = RunOf(job[p], s)
    PROVE  Entered(p, s, accept, t, n, run)
<1> DEFINE F == found(s)
           seen == last_evaluated(runs_for_device(t))
           known == baseline_fingerprints(t)
<1>1. Recorded(p, t, n, run)
  BY RecordEffect
<1>2. /\ run.tenant = t /\ run.gate = s.gate /\ run.evaluated = evaluated(s)
      /\ run.found = OwnRowsOf(t, F) /\ F \subseteq Findings /\ t \in Tenants
  <2>1. pc[p] = "record"
    BY <1>1 DEF Recorded
  <2>2. /\ RunOf(job[p], s).tenant = job[p].tenant /\ RunOf(job[p], s).gate = s.gate
        /\ RunOf(job[p], s).evaluated = evaluated(s)
        /\ RunOf(job[p], s).found = OwnRowsOf(job[p].tenant, F)
        /\ F \subseteq Findings /\ job[p].tenant \in Tenants
    BY <2>1, NewRun DEF OwnRowsOf
  <2> HIDE DEF F
  <2> QED BY <2>2
<1>3. /\ accept => evaluation_complete(run)
      /\ baseline' = baseline \cup Blessed(t, run.found, accept)
  BY DEF Record, Blessed
<1>4. evaluation_complete(run) <=> complete(s)
  <2>1. evaluation_complete(run) <=> ~s.gate /\ Required \subseteq evaluated(s)
    BY <1>2 DEF evaluation_complete
  <2>2. ~s.gate => evaluated(s) = s.evaluated
    BY DEF evaluated
  <2> QED BY <2>1, <2>2 DEF complete
<1>5. /\ pc[p] = "record" /\ pc'[p] = "report" /\ version = 2 /\ version' = 2
      /\ \A q \in Procs \ {p} : pc'[q] = pc[q] /\ job'[q] = job[q]
      /\ job'[p].tenant = t /\ job'[p].run = run /\ job'[p].previous = seen
      /\ job'[p].baseline = known
  BY <1>1 DEF Recorded
<1>6. seen \subseteq Rows(2, {t})
  BY <1>5, SeenRows
<1> QED BY <1>1, <1>2, <1>3, <1>4, <1>5, <1>6 DEF Entered

(* A transaction enters its audit in the ledger. *)
LEMMA RecordLedger ==
    ASSUME Inv, Inv', NEW p \in Procs, NEW s \in Snapshots, NEW accept \in BOOLEAN,
           NEW t, NEW n, NEW run, Entered(p, s, accept, t, n, run)
    PROVE  Ledger!Next
<1> DEFINE F == found(s)
           a == [found |-> F, evaluated |-> evaluated(s), complete |-> complete(s)]
           Was == Open[t]
           Ok == Accepted[t]
           seen == last_evaluated(runs_for_device(t))
           known == baseline_fingerprints(t)
<1>1. Recorded(p, t, n, run)
  BY DEF Entered
<1>2. /\ run.tenant = t /\ run.evaluated = evaluated(s) /\ run.found = OwnRowsOf(t, F)
      /\ F \subseteq Findings /\ t \in Tenants
  BY DEF Entered
<1>3. /\ accept => evaluation_complete(run)
      /\ baseline' = baseline \cup Blessed(t, run.found, accept)
  BY DEF Entered
<1>4. evaluation_complete(run) <=> complete(s)
  BY DEF Entered
<1>5. /\ pc[p] = "record" /\ pc'[p] = "report" /\ version = 2 /\ version' = 2
      /\ \A q \in Procs \ {p} : pc'[q] = pc[q] /\ job'[q] = job[q]
      /\ job'[p].tenant = t /\ job'[p].run = run /\ job'[p].previous = seen
      /\ job'[p].baseline = known
  BY DEF Entered
<1>6. \A f \in Findings : f \in Ok <=> Fingerprint(2, t, f) \in known
  BY <1>2, <1>5 DEF Accepted
<1>7. seen \subseteq Rows(2, {t}) /\ Was = {x.finding : x \in seen}
  BY <1>2 DEF Open, Entered
<1> HIDE DEF F, Was, Ok, seen, known
<1>8. NewOf(run.found, known) = F \ Ok
  <2>1. NewOf(OwnRowsOf(t, F), known) = Unnamed(t, F, known)
    BY FindingsOfRows
  <2>2. Unnamed(t, F, known) = F \ Ok
    BY <1>2, <1>6 DEF Unnamed
  <2> QED BY <1>2, <2>1, <2>2
<1>9. KnownOf(run.found, known) = F \cap Ok
  <2>1. KnownOf(OwnRowsOf(t, F), known) = Named(t, F, known)
    BY FindingsOfRows
  <2>2. Named(t, F, known) = F \cap Ok
    BY <1>2, <1>6 DEF Named
  <2> QED BY <1>2, <2>1, <2>2
<1> DEFINE Lost == IF complete(s) THEN {f \in Was : Rule[f] \in evaluated(s)} \ F ELSE {}
<1>10. LostOf(run, seen) = Lost
  <2>1. LostOf(run, seen) = Undone(run, FindingsIn(seen), F)
    <3>1. run.found = OwnRowsOf(t, F)
      BY <1>2
    <3>2. seen \subseteq Rows(2, {t})
      BY <1>7
    <3> QED BY <3>1, <3>2, GoneFindings
  <2>2. FindingsIn(seen) = Was
    BY <1>7 DEF FindingsIn
  <2>3. Undone(run, Was, F) = Lost
    <3>1. CASE complete(s)
      BY <1>2, <1>4, <3>1 DEF Undone
    <3>2. CASE ~complete(s)
      BY <1>2, <1>4, <3>2 DEF Undone
    <3> QED BY <3>1, <3>2
  <2> QED BY <2>1, <2>2, <2>3
<1> HIDE DEF Lost
<1>11. Outbox'[p] = [tenant |-> t, new |-> F \ Ok, known |-> F \cap Ok, gone |-> Lost]
  <2>1. Outbox'[p] =
           [tenant |-> job'[p].tenant,
            new |-> NewOf(job'[p].run.found, job'[p].baseline),
            known |-> KnownOf(job'[p].run.found, job'[p].baseline),
            gone |-> LostOf(job'[p].run, job'[p].previous)]
    BY <1>5 DEF Outbox, NewOf, KnownOf, LostOf
  <2> QED BY <1>5, <1>8, <1>9, <1>10, <2>1
<1>12. Outbox[p] = None /\ Outbox'[p] # None
  <2>1. "record" # "report"
    OBVIOUS
  <2>2. Outbox[p] = None
    BY <1>5, <2>1 DEF Outbox
  <2>3. Outbox'[p] # None
    <3>1. Lost \subseteq Findings
      <4>1. Was \subseteq Findings
        BY <1>2, LedgerTypes DEF Was
      <4> QED BY <4>1 DEF Lost
    <3>2. Outbox'[p] \in [tenant : Tenants, new : SUBSET Findings, known : SUBSET Findings,
                          gone : SUBSET Findings]
      BY <1>2, <1>11, <3>1, SMT
    <3> QED BY <3>2, StoreAssumption
  <2> QED BY <2>2, <2>3
<1>13. \A q \in Procs \ {p} : Outbox'[q] = Outbox[q]
  BY <1>5, OutboxKept
<1>14. Outbox' = [Outbox EXCEPT ![p] = Outbox'[p]]
  <2>1. Outbox' = [q \in Procs |-> Outbox'[q]] /\ Outbox = [q \in Procs |-> Outbox[q]]
    BY DEF Outbox
  <2> QED BY <1>13, <2>1
<1>15. Open' = IF complete(s) THEN [Open EXCEPT ![t] = (@ \ Ledger!Of(@, evaluated(s))) \cup F] ELSE Open
  <2>1. ASSUME NEW u \in Tenants
        PROVE  Open'[u] = IF u = t /\ complete(s)
                          THEN (Open[u] \ Ledger!Of(Open[u], evaluated(s))) \cup F ELSE Open[u]
    <3>1. Open'[u] = IF u = t /\ evaluation_complete(run)
                     THEN {f \in Open[u] : Rule[f] \notin run.evaluated} \cup {x.finding : x \in run.found}
                     ELSE Open[u]
      BY <1>1, <1>2, OpenRecorded
    <3>2. {x.finding : x \in run.found} = F
      <4>1. \A f : Row(2, t, f).finding = f
        BY DEF Row
      <4>2. {x.finding : x \in OwnRowsOf(t, F)} = {Row(2, t, f).finding : f \in F}
        BY DEF OwnRowsOf
      <4>3. {Row(2, t, f).finding : f \in F} = F
        BY ONLY <4>1
      <4> QED BY <1>2, <4>2, <4>3
    <3>3. {f \in Open[u] : Rule[f] \notin run.evaluated} = Open[u] \ Ledger!Of(Open[u], evaluated(s))
      BY <1>2 DEF Ledger!Of
    <3> QED BY <1>4, <3>1, <3>2, <3>3
  <2>2. Open' = [u \in Tenants |-> Open'[u]] /\ Open = [u \in Tenants |-> Open[u]]
    BY DEF Open
  <2>3. CASE complete(s)
    BY <1>2, <2>1, <2>2, <2>3
  <2>4. CASE ~complete(s)
    BY <2>1, <2>2, <2>4
  <2> QED BY <2>3, <2>4
<1>16. Accepted' = IF accept THEN [Accepted EXCEPT ![t] = @ \cup F] ELSE Accepted
  <2>1. \A u \in Tenants :
           Accepted'[u] = IF u = t /\ accept THEN Accepted[u] \cup F ELSE Accepted[u]
    <3>1. run.found = OwnRowsOf(t, F) /\ F \subseteq Findings
      BY <1>2
    <3>2. baseline' = baseline \cup Blessed(t, run.found, accept)
      BY <1>3
    <3>3. version = 2 /\ version' = 2
      BY <1>5
    <3>4. \A u \in Tenants : Blesses(t, F, accept, u)
      BY <3>1, <3>2, <3>3, AcceptedRecorded
    <3> QED BY <3>4 DEF Blesses
  <2>2. Accepted' = [u \in Tenants |-> Accepted'[u]] /\ Accepted = [u \in Tenants |-> Accepted[u]]
    BY DEF Accepted
  <2>3. CASE accept
    BY <1>2, <2>1, <2>2, <2>3
  <2>4. CASE ~accept
    BY <2>1, <2>2, <2>4
  <2> QED BY <2>3, <2>4
<1>17. /\ a.found = F /\ a.evaluated = evaluated(s) /\ a.complete = complete(s)
       /\ a \in {[found |-> found(z), evaluated |-> evaluated(z),
                  complete |-> ~z.gate /\ Required \subseteq z.evaluated] : z \in Snapshots}
  BY DEF F, complete
<1> HIDE DEF a
<1>18. Ledger!Audit(p, t, a, accept)
  <2>1. accept => a.complete
    BY <1>3, <1>4, <1>17
  <2>2. Outbox' = [Outbox EXCEPT ![p] =
           [tenant |-> t, new |-> a.found \ Accepted[t], known |-> a.found \cap Accepted[t],
            gone |-> IF a.complete THEN Ledger!Of(Open[t], a.evaluated) \ a.found ELSE {}]]
    <3>1. Lost = IF complete(s) THEN Ledger!Of(Was, evaluated(s)) \ F ELSE {}
      BY DEF Lost, Ledger!Of
    <3> QED BY <1>11, <1>14, <1>17, <3>1 DEF Was, Ok
  <2> QED BY <1>12, <1>15, <1>16, <1>17, <2>1, <2>2 DEF Ledger!Audit
<1> QED BY <1>2, <1>12, <1>17, <1>18 DEF Ledger!Next

(* Every step of the store is a step of the ledger or leaves it alone. *)
LEMMA LedgerStep == Inv /\ Inv' /\ [Next]_vars => [Ledger!Next]_<<Open, Accepted, Outbox>>
<1> SUFFICES ASSUME Inv, Inv', [Next]_vars
             PROVE  Ledger!Next \/ UNCHANGED <<Open, Accepted, Outbox>>
  OBVIOUS
<1>1. CASE UNCHANGED vars
  <2>1. UNCHANGED <<version, runs, baseline, pc, job>>
    BY <1>1 DEF vars
  <2>2. Open' = Open /\ Accepted' = Accepted
    BY <2>1, EntriesKept
  <2>3. Outbox' = Outbox
    BY <2>1 DEF Outbox, Gone, evaluation_complete, Prints
  <2> QED BY <2>2, <2>3
<1>2. ASSUME NEW p \in Procs, Read(p) \/ Report(p) \/ Refuse(p) \/ Kill(p) \/ MigrateCheck(p)
      PROVE  Ledger!Next \/ UNCHANGED <<Open, Accepted, Outbox>>
  <2>1. /\ UNCHANGED <<version, runs, baseline>> /\ pc'[p] # "report"
        /\ \A q \in Procs \ {p} : pc'[q] = pc[q] /\ job'[q] = job[q]
    <3>1. pc \in [Procs -> Labels] /\ DOMAIN job = Procs
      BY DEF Inv, TypeOK
    <3>2. CASE Read(p)
      BY <3>1, <3>2 DEF Read, Goto
    <3>3. CASE Report(p) \/ Refuse(p) \/ Kill(p)
      BY <3>1, <3>3 DEF Report, Refuse, Kill, Done, Goto
    <3>4. CASE MigrateCheck(p)
      BY <3>1, <3>4 DEF MigrateCheck, Goto
    <3> QED BY <1>2, <3>2, <3>3, <3>4
  <2> QED BY <2>1, QuietLedger
<1>3. ASSUME NEW p \in Procs, Migrate(p)
      PROVE  Ledger!Next \/ UNCHANGED <<Open, Accepted, Outbox>>
  BY <1>3, MigrateLedger
<1>4. ASSUME NEW p \in Procs, NEW s \in Snapshots, NEW accept \in BOOLEAN, Record(p, s, accept)
      PROVE  Ledger!Next
  <2>1. Entered(p, s, accept, job[p].tenant, Len(runs) + 1, RunOf(job[p], s))
    BY <1>4, RecordEntered
  <2> QED BY <2>1, RecordLedger
<1> QED BY <1>1, <1>2, <1>3, <1>4 DEF Next

(* The store implements the ledger of the audits: commands of several       *)
(* processes that are killed, refused, retried or migrate the store between *)
(* two of them report, accept and drop findings as if every audit were      *)
(* entered in the ledger at once (_record_run, last_evaluated, classify,    *)
(* _migrate).                                                               *)
THEOREM StoreKeepsLedger == Spec => LedgerKept
<1> QED BY SpecInv, LedgerStep, PTL DEF Spec, LedgerKept

(* The same for the whole specification of the ledger: what a new store, or *)
(* one of an earlier release, holds is a ledger nobody has a report of.     *)
THEOREM StoreImplementsLedger == Spec => Ledger!Spec
<1>1. Init => Ledger!Init
  <2> SUFFICES ASSUME Init PROVE Ledger!Init
    OBVIOUS
  <2>1. Inv
    BY InitInv
  <2>2. Outbox = [p \in Procs |-> None]
    BY DEF Init, Outbox
  <2> QED BY <2>1, <2>2, LedgerTypes DEF Ledger!Init
<1>2. Inv /\ Inv' /\ [Next]_vars => [Ledger!Next]_Ledger!vars
  BY LedgerStep DEF Ledger!vars
<1> QED BY <1>1, <1>2, SpecInv, PTL DEF Spec, Ledger!Spec
===========================================================================
