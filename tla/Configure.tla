------------------------------ MODULE Configure ------------------------------
(* The operator commands that change the configuration of an instance or    *)
(* use it while no instance runs (src/netops/operator.py): configure for    *)
(* each role and for the syslog receiver, the command line of a role, the   *)
(* recovery of the local audit, and the start of the instance, which all    *)
(* take instance.lock. A document replaces several files of a role one      *)
(* after the other (write_private: each one entirely or not at all), a      *)
(* command may end between any two, and no command compares the files       *)
(* afterwards. A receiver of syslog is trusted by the CA that came with it. *)
EXTENDS Naturals, Sequences

CONSTANTS
    Procs,          \* processes that run commands
    Documents,      \* what operators pass to configure
    None,
    QueueLimit,     \* records the syslog queue takes
    MaxEnds         \* bound: commands that are cut off

Roles == {"helper", "admin", "auditor", "syslog"}

(* part: the optional part of a document. The topic of notifications is     *)
(* given with the document, kept from an earlier one, or not used; an       *)
(* auditor document may leave out inventory and vault, a syslog document    *)
(* the CA of the receiver. ok: it passes every check.                       *)
Document == [role : Roles, id : Nat, part : {"given", "kept", "none"}, ok : BOOLEAN]

configure_limits ==
    /\ Documents \subseteq Document /\ None \notin Procs \cup Documents
    /\ QueueLimit \in Nat \ {0} /\ MaxEnds \in Nat

VARIABLES
    file,         \* the document each file comes from; None since init
    queue,        \* records in the syslog queue
    tail,         \* the local audit ends in an incomplete record
    lock,         \* holder of instance.lock
    pc, job,      \* of a process: label, and document, number of its files
                  \* replaced, and what it has read
    interrupted,  \* roles of which a command was cut off while it replaced
                  \* files, and none has been completed since
    ends

audit == <<queue, tail>>
vars == <<file, audit, lock, pc, job, interrupted, ends>>
----------------------------------------------------------------------------
Files == {"helper/inventory.json", "helper/vault.json",
          "admin/notification.env", "admin/config.json", "admin/vault.json",
          "auditor/inventory.json", "auditor/vault.json", "auditor/config.json",
          "gateway/syslog-ca.pem", "gateway/config.json"}

(* the files a document replaces, in this order *)
Replaced(d) ==
    CASE d.role = "helper" -> <<"helper/inventory.json", "helper/vault.json">>
      [] d.role = "admin" ->
            (IF d.part = "none" THEN <<>> ELSE <<"admin/notification.env">>)
            \o <<"admin/config.json", "admin/vault.json">>
      [] d.role = "auditor" ->
            (IF d.part = "none" THEN <<>> ELSE <<"auditor/inventory.json", "auditor/vault.json">>)
            \o <<"auditor/config.json">>
      [] d.role = "syslog" ->
            (IF d.part = "none" THEN <<>> ELSE <<"gateway/syslog-ca.pem">>)
            \o <<"gateway/config.json">>

LastFile(role) ==
    CASE role = "helper" -> "helper/vault.json"
      [] role = "admin" -> "admin/vault.json"
      [] role = "auditor" -> "auditor/config.json"
      [] role = "syslog" -> "gateway/config.json"

(* _admin_notification: a topic that is kept is read and written back *)
Content(d, f) == IF f = "admin/notification.env" /\ d.part = "kept" THEN file[f] ELSE d
Missing(d) == d.role = "admin" /\ d.part = "kept" /\ file["admin/notification.env"] = None

(* what the last file of a role says of the others is true *)
Fits(role) ==
    LET d == file[LastFile(role)] IN
    d # None =>
        \A i \in DOMAIN Replaced(d) : LET f == Replaced(d)[i] IN
            IF Content(d, f) = d THEN file[f] = d ELSE file[f] # None

(* settings["audit"]["mode"]; the collector is trusted with the CA it came  *)
(* with                                                                     *)
Syslog == file["gateway/config.json"] # None
Delivers == Fits("syslog")

Idle == [doc |-> None, done |-> 0, read |-> None]
Goto(p, label) == pc' = [pc EXCEPT ![p] = label]

(* the process ends; its lock goes with its descriptors *)
Exit(p) ==
    /\ pc' = [pc EXCEPT ![p] = "idle"] /\ job' = [job EXCEPT ![p] = Idle]
    /\ lock' = IF lock = p THEN None ELSE lock

(* Audit.record: a line of the local segment, or a file in the queue *)
Recordable == IF Syslog THEN queue < QueueLimit ELSE ~tail
Record == queue' = (IF Syslog THEN queue + 1 ELSE queue) /\ UNCHANGED tail
----------------------------------------------------------------------------
(* init chooses the local audit or a receiver with public trust *)
Init ==
    /\ \E d \in {None} \cup {x \in Documents : x.role = "syslog" /\ x.part = "none" /\ x.ok} :
          file = [f \in Files |-> IF f = "gateway/config.json" THEN d ELSE None]
    /\ queue = 0 /\ tail = FALSE /\ lock = None
    /\ pc = [p \in Procs |-> "idle"] /\ job = [p \in Procs |-> Idle]
    /\ interrupted = {} /\ ends = 0

(* acquire_state, before anything is read; a lock that is taken refuses *)
acquire_state(p, label, j) ==
    /\ pc[p] = "idle" /\ lock = None
    /\ lock' = p /\ Goto(p, label) /\ job' = [job EXCEPT ![p] = j]
    /\ UNCHANGED <<file, audit, interrupted, ends>>

ConfigureRole(p, d) == acquire_state(p, "preflight", [Idle EXCEPT !.doc = d])

(* Mutant: the syslog receiver cannot be changed without a record either *)
Preflight_Strict(p) ==
    /\ pc[p] = "preflight"
    /\ IF Recordable
       THEN Record /\ Goto(p, "check") /\ UNCHANGED <<job, lock>>
       ELSE Exit(p) /\ UNCHANGED audit
    /\ UNCHANGED <<file, interrupted, ends>>

(* _operator_audit_preflight: a record, or no command; only a receiver of   *)
(* syslog may be replaced by another without one (_syslog_audit_preflight)  *)
Preflight(p) ==
    /\ pc[p] = "preflight"
    /\ \/ Recordable /\ Record /\ Goto(p, "check") /\ UNCHANGED <<job, lock>>
       \/ /\ ~Recordable /\ Syslog /\ job[p].doc.role = "syslog"
          /\ Goto(p, "check") /\ UNCHANGED <<audit, job, lock>>
       \/ /\ ~Recordable /\ ~(Syslog /\ job[p].doc.role = "syslog")
          /\ Exit(p) /\ UNCHANGED audit
    /\ UNCHANGED <<file, interrupted, ends>>

(* Mutant: the first file is replaced before the document has been checked *)
Check_Late(p) ==
    LET d == job[p].doc IN
    /\ pc[p] = "check"
    /\ file' = [file EXCEPT ![Head(Replaced(d))] = Content(d, Head(Replaced(d)))]
    /\ IF d.ok /\ ~Missing(d)
       THEN Goto(p, "replace") /\ UNCHANGED <<job, lock>>
       ELSE Exit(p)
    /\ UNCHANGED <<audit, interrupted, ends>>

(* the document is read, staged and checked before any file is replaced *)
Check(p) ==
    LET d == job[p].doc IN
    /\ pc[p] = "check"
    /\ IF d.ok /\ ~Missing(d)
       THEN Goto(p, "replace") /\ UNCHANGED <<job, lock>>
       ELSE Exit(p)
    /\ UNCHANGED <<file, audit, interrupted, ends>>

(* one file is replaced; after the last one the command is complete *)
Replace(p) ==
    LET d == job[p].doc
        f == Replaced(d)[job[p].done + 1] IN
    /\ pc[p] = "replace"
    /\ file' = [file EXCEPT ![f] = Content(d, f)]
    /\ IF job[p].done + 1 = Len(Replaced(d))
       THEN Exit(p) /\ interrupted' = interrupted \ {d.role}
       ELSE /\ job' = [job EXCEPT ![p].done = @ + 1]
            /\ UNCHANGED <<pc, lock, interrupted>>
    /\ UNCHANGED <<audit, ends>>
----------------------------------------------------------------------------
(* role_cli: a record for the commands of Admin and the imports of the      *)
(* auditor, then the command reads the files of its role and ends           *)
RoleCommand(p) == \E audited \in BOOLEAN :
    acquire_state(p, IF audited THEN "cli_preflight" ELSE "cli", [Idle EXCEPT !.read = file])

CliPreflight(p) ==
    /\ pc[p] = "cli_preflight"
    /\ IF Recordable THEN Record /\ Goto(p, "cli") /\ UNCHANGED <<job, lock>>
       ELSE Exit(p) /\ UNCHANGED audit
    /\ UNCHANGED <<file, interrupted, ends>>

CliDone(p) == pc[p] = "cli" /\ Exit(p) /\ UNCHANGED <<file, audit, interrupted, ends>>

(* recover_audit: the fragment is moved, then recorded *)
RecoverAudit(p) == acquire_state(p, "recover", Idle)

Recover(p) ==
    /\ pc[p] = "recover" /\ Exit(p)
    /\ tail' = FALSE
    /\ queue' = IF tail /\ Syslog /\ queue < QueueLimit THEN queue + 1 ELSE queue
    /\ UNCHANGED <<file, interrupted, ends>>

(* serve: the lock, the workers read their files; a full queue is delivered *)
(* until the start record fits, or there is no start                        *)
Serve(p) == acquire_state(p, "starting", [Idle EXCEPT !.read = file])

Start(p) ==
    /\ pc[p] = "starting" /\ UNCHANGED tail
    /\ \/ Recordable /\ Record /\ Goto(p, "serving") /\ UNCHANGED <<job, lock>>
       \/ /\ ~Recordable /\ Syslog /\ Delivers
          /\ queue' = QueueLimit /\ Goto(p, "serving") /\ UNCHANGED <<job, lock>>
       \/ ~Recordable /\ ~(Syslog /\ Delivers) /\ Exit(p) /\ UNCHANGED queue
    /\ UNCHANGED <<file, interrupted, ends>>

(* requests are recorded, and the forwarder delivers them in a batch *)
Request(p) ==
    /\ pc[p] = "serving" /\ Syslog /\ Recordable /\ Record
    /\ UNCHANGED <<file, lock, pc, job, interrupted, ends>>

Deliver(p) ==
    /\ pc[p] = "serving" /\ Syslog /\ Delivers /\ queue > 0 /\ queue' = 0
    /\ UNCHANGED <<file, tail, lock, pc, job, interrupted, ends>>

(* a stop is recorded when there is room *)
Stop(p) ==
    /\ pc[p] = "serving" /\ Exit(p)
    /\ IF Recordable THEN Record ELSE UNCHANGED audit
    /\ UNCHANGED <<file, interrupted, ends>>

Recording(p) == pc[p] \in {"preflight", "cli_preflight", "starting", "serving"}

(* A process is killed, or a write fails; also while it writes a record *)
End(p) ==
    LET d == job[p].doc IN
    /\ pc[p] # "idle" /\ ends < MaxEnds /\ ends' = ends + 1
    /\ Exit(p)
    /\ tail' \in {tail, tail \/ (Recording(p) /\ ~Syslog)}
    /\ interrupted' = interrupted \cup
          IF pc[p] = "replace" /\ job[p].done > 0 THEN {d.role} ELSE {}
    /\ UNCHANGED <<file, queue>>

Step(p) ==
    \/ Preflight(p) \/ Check(p) \/ Replace(p) \/ CliPreflight(p) \/ CliDone(p)
    \/ Recover(p) \/ Start(p)

Next == \E p \in Procs :
    \/ \E d \in Documents : ConfigureRole(p, d)
    \/ RoleCommand(p) \/ RecoverAudit(p) \/ Serve(p)
    \/ Step(p) \/ Request(p) \/ Deliver(p) \/ Stop(p) \/ End(p)

Spec == Init /\ [][Next]_vars

(* the operator repeats a command that was cut off, also at a moment when   *)
(* the audit takes records                                                  *)
Repeat ==
    /\ Recordable \/ "syslog" \in interrupted
    /\ \E p \in Procs, d \in Documents : d.role \in interrupted /\ d.ok /\ ConfigureRole(p, d)
----------------------------------------------------------------------------
(* The files of a role fit together, the receiver of syslog and its trust   *)
(* included, but while a command replaces them and after one that was cut   *)
(* off between two replacements, until one is completed: commands never     *)
(* mix, and a document that is refused replaces nothing (configure,         *)
(* configure_auditor, configure_syslog).                                    *)
OneDocument ==
    \A role \in Roles :
        \/ Fits(role) \/ role \in interrupted
        \/ \E p \in Procs : pc[p] = "replace" /\ job[p].doc.role = role

(* What an instance or a command of a role has read stays true until it     *)
(* ends: nothing is replaced underneath it (acquire_state).                 *)
ReadStaysTrue == \A p \in Procs : pc[p] \in {"cli", "starting", "serving"} => job[p].read = file
=============================================================================
