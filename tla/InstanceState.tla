--------------------------- MODULE InstanceState ---------------------------
(* The private state of an instance (src/netops: init.py, bootstrap.py,     *)
(* certificates.py, operator.py, gateway.py): its configuration, token, CA  *)
(* and server certificate. init creates them, the first start of a new      *)
(* release converts the configuration, the server renews its certificate    *)
(* while it runs, and "ca rotate" replaces all four certificate files. Each *)
(* command is a process of its own that may end after any write.            *)
EXTENDS Naturals, FiniteSets

CONSTANTS
    Procs,                       \* processes that run commands
    LeafDays, RenewDays,         \* lifetime of a server certificate, and the
                                 \* remaining lifetime at which it is renewed
    CaDays, CaMargin,            \* lifetime of a CA, and what it needs to sign
    None,
    MaxKeys, MaxDay, MaxEnds     \* bounds

ASSUME StateAssumption ==
    /\ LeafDays \in Nat /\ RenewDays \in Nat \ {0} /\ RenewDays < LeafDays
    /\ CaDays \in Nat /\ CaMargin \in Nat /\ LeafDays <= CaMargin /\ CaMargin < CaDays
    /\ None \notin Procs \cup Nat
    /\ None \notin [key : Nat, until : Nat] \cup [key : Nat, issuer : Nat, until : Nat]

VARIABLES
    \* files: the product version of config.json ("linked": with a second name);
    \* token; upgrade-pending.json; keys as numbers; certificates as records
    version, token, pending, caKey, caPem, srvKey, srvPem,
    twoNames,     \* server.key still has the second name it was linked from
    retired,      \* the copies in retired-ca-* directories
    log,          \* the audit records of starts, upgrades and rotations
    \* processes
    lock,         \* holder of instance.lock
    pc, mem,      \* label and local values of a process
    loaded,       \* certificate and key of the TLS server
    checked,      \* the monitor has looked since the day began
    \* environment and history
    day, keys, ends,
    served,       \* CAs an instance has run with
    origin        \* the version of the state at first

certs == <<caKey, caPem, srvKey, srvPem, twoNames, retired>>
files == <<version, token, pending, certs, log>>
time == <<day, ends, served, origin>>
vars == <<files, lock, pc, mem, loaded, checked, keys, time>>
----------------------------------------------------------------------------
Idle == [key |-> 0, upgrade |-> "no"]
CopyOf == [caPem |-> caPem, caKey |-> caKey]

(* verify_pairs: all files can be read, the key files fit their             *)
(* certificates, and the CA signed the server certificate. A file with two  *)
(* names is not read (check_regular).                                       *)
Consistent ==
    /\ None \notin {caKey, caPem, srvKey, srvPem} /\ ~twoNames
    /\ caPem.key = caKey /\ srvPem.key = srvKey /\ srvPem.issuer = caPem.key

(* renewal_inputs: nothing to do; or the CA must outlive what it signs *)
RenewalDue == srvPem = None \/ srvPem.until <= day + RenewDays
CaUsable == caPem # None /\ caKey # None /\ caPem.until > day + CaMargin
Leaf(key) == [key |-> key, issuer |-> caKey, until |-> day + LeafDays]

Goto(p, label) == pc' = [pc EXCEPT ![p] = label]
Keep(p, f, x) == mem' = [mem EXCEPT ![p][f] = x]

(* the end of a process: by itself, by an error or by a signal. Its lock is *)
(* released with its descriptors.                                           *)
Ended(p) ==
    /\ pc' = [pc EXCEPT ![p] = "idle"] /\ mem' = [mem EXCEPT ![p] = Idle]
    /\ lock' = IF lock = p THEN None ELSE lock
    /\ loaded' = IF pc[p] = "serving" THEN None ELSE loaded
----------------------------------------------------------------------------
(* A new volume, or the state of the previous release *)
Init ==
    /\ \/ /\ version = "none" /\ token = FALSE /\ keys = 0
          /\ caKey = None /\ caPem = None /\ srvKey = None /\ srvPem = None
       \/ /\ version = "old" /\ token = TRUE /\ keys = 2
          /\ caKey = 1 /\ caPem = [key |-> 1, until |-> CaDays]
          /\ srvKey = 2 /\ srvPem = [key |-> 2, issuer |-> 1, until |-> LeafDays]
    /\ pending = FALSE /\ twoNames = FALSE /\ retired = {} /\ log = {}
    /\ lock = None /\ pc = [p \in Procs |-> "idle"] /\ mem = [p \in Procs |-> Idle]
    /\ loaded = None /\ checked = TRUE /\ day = 0 /\ ends = 0 /\ served = {} /\ origin = version

(* initialize: refuses a configured instance and the rest of an earlier try *)
Initialize(p) ==
    /\ pc[p] = "idle" /\ version = "none"
    /\ caKey = None /\ caPem = None /\ ~token
    /\ Goto(p, "init_cakey")
    /\ UNCHANGED <<files, lock, mem, loaded, checked, keys, time>>

(* create_ca: a new key; init links the file and fails when it is there,    *)
(* the rotation replaces it                                                 *)
WriteCaKey(p) ==
    /\ pc[p] \in {"init_cakey", "rotate_cakey"}
    /\ \/ /\ pc[p] = "rotate_cakey" \/ caKey = None
          /\ keys' = keys + 1 /\ caKey' = keys + 1 /\ Keep(p, "key", keys + 1)
          /\ Goto(p, IF pc[p] = "init_cakey" THEN "init_capem" ELSE "rotate_capem")
          /\ UNCHANGED <<lock, loaded>>
       \/ /\ pc[p] = "init_cakey" /\ caKey # None
          /\ Ended(p) /\ UNCHANGED <<keys, caKey>>
    /\ UNCHANGED <<version, token, pending, caPem, srvKey, srvPem, twoNames, retired, log, checked, time>>

WriteCaPem(p) ==
    /\ pc[p] \in {"init_capem", "rotate_capem"}
    /\ caPem' = [key |-> mem[p].key, until |-> day + CaDays]
    /\ Goto(p, IF pc[p] = "init_capem" THEN "init_srvkey" ELSE "rotate_srvkey")
    /\ UNCHANGED <<version, token, pending, caKey, srvKey, srvPem, twoNames, retired, log, lock, mem,
                   loaded, checked, keys, time>>

(* renew with force: an existing server key is kept, a missing one created: *)
(* write_private links the file to its name, and removes the temporary name *)
(* afterwards                                                               *)
WriteServerKey(p) ==
    /\ pc[p] \in {"init_srvkey", "rotate_srvkey"}
    /\ \/ /\ srvKey = None /\ keys' = keys + 1 /\ srvKey' = keys + 1 /\ twoNames' = TRUE
          /\ Goto(p, IF pc[p] = "init_srvkey" THEN "init_unlink" ELSE "rotate_unlink")
       \/ /\ srvKey # None /\ UNCHANGED <<keys, srvKey, twoNames>>
          /\ Goto(p, IF pc[p] = "init_srvkey" THEN "init_srvpem" ELSE "rotate_srvpem")
    /\ UNCHANGED <<version, token, pending, caKey, caPem, srvPem, retired, log, lock, mem,
                   loaded, checked, time>>

UnlinkServerKey(p) ==
    /\ pc[p] \in {"init_unlink", "rotate_unlink"} /\ twoNames' = FALSE
    /\ Goto(p, IF pc[p] = "init_unlink" THEN "init_srvpem" ELSE "rotate_srvpem")
    /\ UNCHANGED <<version, token, pending, caKey, caPem, srvKey, srvPem, retired, log, lock, mem,
                   loaded, checked, keys, time>>

WriteServerPem(p) ==
    /\ pc[p] \in {"init_srvpem", "rotate_srvpem"}
    /\ srvPem' = Leaf(srvKey)
    /\ Goto(p, IF pc[p] = "init_srvpem" THEN "init_token" ELSE "rotate_complete")
    /\ UNCHANGED <<version, token, pending, caKey, caPem, srvKey, twoNames, retired, log, lock, mem,
                   loaded, checked, keys, time>>

WriteToken(p) ==
    /\ pc[p] = "init_token" /\ token' = TRUE /\ Goto(p, "init_config")
    /\ UNCHANGED <<version, pending, certs, log, lock, mem, loaded, checked, keys, time>>

(* the files of the roles, then, last of all, config.json: linked, and from *)
(* the removal of the temporary name on it can be read                      *)
WriteConfig(p) ==
    /\ \/ /\ pc[p] = "init_config" /\ version' = "linked" /\ Goto(p, "init_linked")
          /\ UNCHANGED <<lock, mem, loaded>>
       \/ pc[p] = "init_linked" /\ version' = "new" /\ Ended(p)
    /\ UNCHANGED <<token, pending, certs, log, checked, keys, time>>
----------------------------------------------------------------------------
(* serve: the lock, then the settings *)
Serve(p) ==
    /\ pc[p] = "idle" /\ version \in {"old", "new"} /\ lock = None
    /\ lock' = p /\ Goto(p, IF version = "old" THEN "convert" ELSE "resume")
    /\ UNCHANGED <<files, mem, loaded, checked, keys, time>>

(* the checks of a start come before the conversion changes anything *)
CheckConversion(p) ==
    /\ pc[p] = "convert"
    /\ \/ /\ Consistent /\ (~RenewalDue \/ CaUsable)
          /\ Goto(p, "write_pending") /\ UNCHANGED <<lock, mem, loaded>>
       \/ ~(Consistent /\ (~RenewalDue \/ CaUsable)) /\ Ended(p)
    /\ UNCHANGED <<files, checked, keys, time>>

(* Mutant: the configuration is converted before the note of the upgrade *)
WritePending_After(p) ==
    /\ \/ /\ pc[p] = "write_pending" /\ version' = "new" /\ Goto(p, "write_config")
          /\ UNCHANGED <<pending, mem>>
       \/ /\ pc[p] = "write_config" /\ pending' = TRUE /\ Goto(p, "workers")
          /\ Keep(p, "upgrade", "first") /\ UNCHANGED version
    /\ UNCHANGED <<token, certs, log, lock, loaded, checked, keys, time>>

(* upgrade-pending.json, then the converted configuration *)
WritePending(p) ==
    /\ \/ /\ pc[p] = "write_pending" /\ pending' = TRUE /\ Goto(p, "write_config")
          /\ UNCHANGED <<version, mem>>
       \/ /\ pc[p] = "write_config" /\ version' = "new" /\ Goto(p, "workers")
          /\ Keep(p, "upgrade", "first") /\ UNCHANGED pending
    /\ UNCHANGED <<token, certs, log, lock, loaded, checked, keys, time>>

(* a conversion that ended before its record is recorded by this start *)
ReadPending(p) ==
    /\ pc[p] = "resume"
    /\ Keep(p, "upgrade", IF pending THEN "resumed" ELSE "no") /\ Goto(p, "workers")
    /\ UNCHANGED <<files, lock, loaded, checked, keys, time>>

(* the workers are started; the gateway checks the state again *)
CheckStart(p) ==
    /\ pc[p] = "workers"
    /\ \/ Consistent /\ Goto(p, "renew") /\ UNCHANGED <<lock, mem, loaded>>
       \/ ~Consistent /\ Ended(p)
    /\ UNCHANGED <<files, checked, keys, time>>

(* renew: with the existing key, in one write *)
Renewed ==
    \/ RenewalDue /\ CaUsable /\ srvPem' = Leaf(srvKey)
    \/ ~RenewalDue /\ UNCHANGED srvPem

Renew(p) ==
    /\ pc[p] = "renew"
    /\ \/ Renewed /\ Goto(p, "record_start") /\ UNCHANGED <<lock, mem, loaded>>
       \/ RenewalDue /\ ~CaUsable /\ Ended(p) /\ UNCHANGED srvPem
    /\ UNCHANGED <<version, token, pending, caKey, caPem, srvKey, twoNames, retired, log, checked, keys, time>>

(* lifespan: instance_start with the upgrade in it, or no start *)
RecordStart(p) ==
    /\ pc[p] = "record_start"
    /\ log' = log \cup {"start"} \cup IF mem[p].upgrade = "no" THEN {} ELSE {"upgrade"}
    /\ Goto(p, IF mem[p].upgrade = "no" THEN "listen" ELSE "unlink")
    /\ UNCHANGED <<version, token, pending, certs, lock, mem, loaded, checked, keys, time>>

RemovePending(p) ==
    /\ pc[p] = "unlink" /\ pending' = FALSE /\ Goto(p, "listen")
    /\ UNCHANGED <<version, token, certs, log, lock, mem, loaded, checked, keys, time>>

Listen(p) ==
    /\ pc[p] = "listen" /\ Goto(p, "serving")
    /\ loaded' = [key |-> srvKey, cert |-> srvPem]
    /\ checked' = FALSE /\ served' = served \cup {caKey}
    /\ UNCHANGED <<files, lock, mem, keys, day, ends, origin>>

(* monitor, every minute: renews and loads the certificate, or stops the    *)
(* instance when the CA cannot sign it any more                             *)
Monitor(p) ==
    /\ pc[p] = "serving"
    /\ \/ /\ Renewed /\ checked' = TRUE
          /\ loaded' = IF RenewalDue THEN [key |-> srvKey, cert |-> srvPem'] ELSE loaded
          /\ UNCHANGED <<pc, lock, mem>>
       \/ RenewalDue /\ ~CaUsable /\ Ended(p) /\ UNCHANGED <<srvPem, checked>>
    /\ UNCHANGED <<version, token, pending, caKey, caPem, srvKey, twoNames, retired, log, keys, time>>
----------------------------------------------------------------------------
(* bound: enough numbers are left to repeat a rotation that is interrupted *)
MayRotate == keys + 2 * (1 + MaxEnds - ends) <= MaxKeys

(* Mutant: the rotation does not take the lock *)
RotateCa_NoLock(p) ==
    /\ pc[p] = "idle" /\ version = "new" /\ MayRotate
    /\ log' = log \cup {"rotate"} /\ Goto(p, "retire")
    /\ UNCHANGED <<version, token, pending, certs, lock, mem, loaded, checked, keys, time>>

(* rotate_instance_ca: the lock, converted state, and a record before any   *)
(* change; without it nothing happens                                       *)
RotateCa(p) ==
    /\ pc[p] = "idle" /\ version = "new" /\ lock = None /\ MayRotate
    /\ lock' = p /\ log' = log \cup {"rotate"} /\ Goto(p, "retire")
    /\ UNCHANGED <<version, token, pending, certs, mem, loaded, checked, keys, time>>

(* the copy of server.key comes last, and fails when it has two names *)
CopyEnds(p) ==
    \/ ~twoNames /\ Goto(p, "drop_srvkey") /\ UNCHANGED <<lock, mem, loaded>>
    \/ twoNames /\ Ended(p)

(* Mutant: there is one directory for retired files *)
Retire_Overwrites(p) ==
    /\ pc[p] = "retire" /\ CopyEnds(p)
    /\ retired' = {CopyOf}
    /\ UNCHANGED <<version, token, pending, caKey, caPem, srvKey, srvPem, twoNames, log, checked, keys, time>>

(* the files are copied, ca.pem first, before anything is replaced; a copy  *)
(* that ends early changes nothing else                                     *)
Retire(p) ==
    /\ pc[p] = "retire" /\ CopyEnds(p)
    /\ retired' = retired \cup {CopyOf}
    /\ UNCHANGED <<version, token, pending, caKey, caPem, srvKey, srvPem, twoNames, log, checked, keys, time>>

DropServerKey(p) ==
    /\ pc[p] = "drop_srvkey" /\ srvKey' = None /\ Goto(p, "rotate_cakey")
    /\ UNCHANGED <<version, token, pending, caKey, caPem, srvPem, twoNames, retired, log, lock, mem,
                   loaded, checked, keys, time>>

(* the record of the completion, or a warning that it could not be written *)
RotateComplete(p) ==
    /\ pc[p] = "rotate_complete" /\ Ended(p)
    /\ log' = log \cup {"rotated"} \/ UNCHANGED log
    /\ UNCHANGED <<version, token, pending, certs, checked, keys, time>>
----------------------------------------------------------------------------
(* A process is stopped or killed, or a read, a write or a record fails.    *)
(* Between link and unlink only a kill leaves the second name: after an     *)
(* error it is removed first.                                               *)
End(p) ==
    /\ pc[p] # "idle" /\ ends < MaxEnds /\ ends' = ends + 1
    /\ Ended(p)
    /\ UNCHANGED <<files, checked, keys, day, served, origin>>

(* A running monitor has looked at least once a day *)
NextDay ==
    /\ day < MaxDay /\ day' = day + 1
    /\ \A p \in Procs : pc[p] = "serving" => checked
    /\ \A p \in Procs : pc[p] \in {"idle", "serving"}
    /\ checked' = FALSE
    /\ UNCHANGED <<files, lock, pc, mem, loaded, keys, ends, served, origin>>

Step(p) ==
    \/ WriteCaKey(p) \/ WriteCaPem(p) \/ WriteServerKey(p) \/ UnlinkServerKey(p)
    \/ WriteServerPem(p) \/ WriteToken(p) \/ WriteConfig(p) \/ CheckConversion(p) \/ WritePending(p) \/ ReadPending(p) \/ CheckStart(p)
    \/ Renew(p) \/ RecordStart(p) \/ RemovePending(p) \/ Listen(p) \/ Monitor(p)
    \/ Retire(p) \/ DropServerKey(p) \/ RotateComplete(p)

Next == NextDay \/ \E p \in Procs : Initialize(p) \/ Serve(p) \/ RotateCa(p) \/ Step(p) \/ End(p)
Spec == Init /\ [][Next]_vars
----------------------------------------------------------------------------
Keys == 1 .. keys
Cas == [key : Keys, until : Nat]
Leaves == [key : Keys, issuer : Keys, until : Nat]
Labels == {"idle", "init_cakey", "init_capem", "init_srvkey", "init_unlink", "init_srvpem",
           "init_token", "init_config", "init_linked", "convert", "write_pending", "write_config", "resume", "workers",
           "renew", "record_start", "unlink", "listen", "serving", "retire", "drop_srvkey",
           "rotate_cakey", "rotate_capem", "rotate_srvkey", "rotate_unlink",
           "rotate_srvpem", "rotate_complete"}
Serving == {p \in Procs : pc[p] = "serving"}

TypeOK ==
    /\ version \in {"none", "old", "linked", "new"} /\ origin \in {"none", "old"}
    /\ token \in BOOLEAN /\ pending \in BOOLEAN /\ checked \in BOOLEAN /\ twoNames \in BOOLEAN
    /\ caKey \in Keys \cup {None} /\ caPem \in Cas \cup {None}
    /\ srvKey \in Keys \cup {None} /\ srvPem \in Leaves \cup {None}
    /\ retired \subseteq [caPem : Cas \cup {None}, caKey : Keys \cup {None}]
    /\ log \subseteq {"start", "upgrade", "rotate", "rotated"}
    /\ lock \in Procs \cup {None} /\ pc \in [Procs -> Labels]
    /\ mem \in [Procs -> [key : 0 .. keys, upgrade : {"no", "first", "resumed"}]]
    /\ loaded \in [key : Keys, cert : Leaves] \cup {None}
    /\ day \in Nat /\ keys \in Nat /\ ends \in Nat /\ served \subseteq Keys

(* A running instance presents a certificate that its exported CA has       *)
(* signed, for the key it uses, that has not expired and does not outlive   *)
(* the CA: no command changes the files underneath it, no start gets past   *)
(* files that an interrupted one has left, and renewal is early enough      *)
(* (instance.lock, check_start, renewal_inputs, monitor).                   *)
ValidChain ==
    \A p \in Serving :
        /\ Consistent
        /\ loaded.key = loaded.cert.key /\ loaded.cert.issuer = caPem.key
        /\ day < loaded.cert.until /\ loaded.cert.until <= caPem.until

(* What config.json says is true. It exists only for a complete instance,   *)
(* with its token, and certificates that match unless a rotation is under   *)
(* way or was interrupted; and a conversion of it is in the audit or noted  *)
(* for the next start, while the audit never claims one that has not        *)
(* happened (upgrade-pending.json).                                         *)
ConfigTrue ==
    /\ version # "none" => token /\ (Consistent \/ "rotate" \in log)
    /\ origin = "old" /\ version = "new" => pending \/ "upgrade" \in log
    /\ "upgrade" \in log => origin = "old" /\ version = "new"

(* Every CA an instance has run with is still there with its key, in place  *)
(* or in a retired copy, however often rotations are interrupted.           *)
NoCaLost ==
    \A k \in served :
        \/ caKey = k /\ caPem # None /\ caPem.key = k
        \/ \E c \in retired : c.caKey = k /\ c.caPem # None /\ c.caPem.key = k
============================================================================
