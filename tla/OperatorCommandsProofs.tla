----------------------- MODULE OperatorCommandsProofs -----------------------
(***************************************************************************)
(* Proofs about OperatorCommands, for any number of processes, keys,       *)
(* documents and interrupted commands.  Of InstanceState: what config.json *)
(* says is true, no CA an instance has run with is lost, and a running     *)
(* instance presents a valid chain.  Of Configure: the files of a role     *)
(* come from one document.  The argument: a process that may write is      *)
(* alone.  It holds instance.lock or, before there is a configuration, has *)
(* linked the key of the CA.                                               *)
(***************************************************************************)
EXTENDS OperatorCommands, Sequences, TLAPS

(* Zenon is the default prover; a leaf with arithmetic cites SMT. *)
USE Zenon

QuietLabels == {"idle", "init_cakey"}
SetupLabels == {"init_capem", "init_srvkey", "init_unlink", "init_srvpem", "init_token", "init_config",
                "init_linked"}
ConvertLabels == {"convert", "write_pending", "write_config"}
RotateLabels == {"retire", "drop_srvkey", "rotate_cakey", "rotate_capem", "rotate_srvkey",
                 "rotate_unlink", "rotate_srvpem", "rotate_complete"}
StartLabels == {"resume", "workers", "renew", "record_start", "unlink", "listen", "serving"}

(* who may write *)
MayWrite(p) ==
    /\ pc[p] \in SetupLabels =>
          caKey # None /\ version = IF pc[p] = "init_linked" THEN "linked" ELSE "none"
    /\ pc[p] \in ConvertLabels => lock = p /\ version = "old"
    /\ pc[p] \in StartLabels \cup RotateLabels => lock = p /\ version = "new"
    /\ pc[p] \in RotateLabels => "rotate" \in log

(* what a start knows of an upgrade *)
UpgradeKnown(p) ==
    /\ mem[p].upgrade # "no" => origin = "old"
    /\ pc[p] = "write_config" => pending
    /\ pc[p] = "unlink" => "upgrade" \in log
    /\ pc[p] \in {"init_config", "init_linked"} => token

(* how far init or a rotation has come with the certificates *)
Replacing(p) ==
    /\ pc[p] \in {"drop_srvkey", "rotate_cakey"} => CopyOf \in retired
    /\ pc[p] \in {"init_capem", "rotate_capem"} => caKey = mem[p].key
    /\ pc[p] \in {"init_capem", "rotate_cakey", "rotate_capem", "init_srvkey", "rotate_srvkey"} =>
          srvKey = None
    /\ pc[p] \in {"init_srvkey", "rotate_srvkey", "init_unlink", "rotate_unlink",
                  "init_srvpem", "rotate_srvpem"} =>
          /\ caKey # None /\ caPem # None /\ caPem.key = caKey /\ caPem.until >= day + LeafDays
    /\ pc[p] \in {"init_unlink", "rotate_unlink", "init_srvpem", "rotate_srvpem"} => srvKey # None
    /\ pc[p] \in {"init_unlink", "rotate_unlink"} => (srvPem # None => srvPem.key # srvKey)
    /\ pc[p] \in {"init_srvpem", "rotate_srvpem"} => ~twoNames
    /\ pc[p] \in {"init_token", "init_config", "init_linked"} => Consistent

(* what a start has checked still holds when it serves *)
Checked(p) ==
    /\ pc[p] \in {"renew", "record_start", "unlink", "listen", "serving"} => Consistent
    /\ pc[p] \in {"record_start", "unlink", "listen"} => srvPem.until > day + RenewDays
    /\ pc[p] = "serving" => /\ loaded = [key |-> srvKey, cert |-> srvPem]
                            /\ srvPem.until >= day + RenewDays
                            /\ checked => srvPem.until > day + RenewDays

ProcInv(p) == MayWrite(p) /\ UpgradeKnown(p) /\ Replacing(p) /\ Checked(p)

(* the files *)
FilesInv ==
    /\ version \in {"none", "linked"} => log = {} /\ origin = "none"
    /\ version = "old" => origin = "old" /\ "rotate" \notin log /\ "upgrade" \notin log
    /\ pending => origin = "old"
    /\ caKey = None => srvKey = None /\ version = "none"
    /\ Consistent => srvPem.until <= caPem.until

(* the key of the CA is linked: one init comes past it *)
OneSetup == \A p, q \in Procs : pc[p] \in SetupLabels /\ pc[q] \in SetupLabels => p = q

FileTruth == FilesInv /\ ConfigTrue /\ NoCaLost
IInv == TypeOK /\ FileTruth /\ OneSetup /\ \A p \in Procs : ProcInv(p)

----------------------------------------------------------------------------
(* A process past the quiet labels is the only one *)
LEMMA Alone ==
    ASSUME IInv, NEW p \in Procs, pc[p] \notin QuietLabels
    PROVE  \A q \in Procs : q # p => pc[q] \in QuietLabels
<1> SUFFICES ASSUME NEW q \in Procs, q # p, pc[q] \notin QuietLabels PROVE FALSE
  OBVIOUS
<1>1. pc[p] \in Labels /\ pc[q] \in Labels
  BY DEF IInv, TypeOK
<1>2. \A l \in Labels \ QuietLabels : l \in SetupLabels \cup ConvertLabels \cup StartLabels \cup RotateLabels
  BY DEF Labels, QuietLabels, SetupLabels, ConvertLabels, StartLabels, RotateLabels
<1>3. MayWrite(p) /\ MayWrite(q) /\ OneSetup
  BY DEF IInv, ProcInv
<1>4. QED
  BY <1>1, <1>2, <1>3 DEF MayWrite, OneSetup

(* what a process at a quiet label relies on *)
LEMMA QuietProc ==
    ASSUME NEW q \in Procs, pc'[q] \in QuietLabels, (mem[q].upgrade # "no" => origin = "old")'
    PROVE  ProcInv(q)'
BY DEF QuietLabels, ProcInv, MayWrite, UpgradeKnown, Replacing, Checked, SetupLabels, ConvertLabels,
       StartLabels, RotateLabels

LEMMA Others ==
    ASSUME IInv, NEW p \in Procs, \A q \in Procs : q # p => pc[q] \in QuietLabels,
           \A q \in Procs : q # p => pc'[q] = pc[q] /\ mem'[q] = mem[q], UNCHANGED origin, ProcInv(p)'
    PROVE  OneSetup' /\ \A q \in Procs : ProcInv(q)'
<1>1. OneSetup'
  BY DEF OneSetup, QuietLabels, SetupLabels
<1>2. ASSUME NEW q \in Procs, q # p PROVE ProcInv(q)'
  <2>1. mem[q].upgrade # "no" => origin = "old"
    BY DEF IInv, ProcInv, UpgradeKnown
  <2>2. QED
    BY <1>2, <2>1, QuietProc
<1>3. QED
  BY <1>1, <1>2

(* a command that goes on or ends; the files and what they are judged by *)
(* are as before                                                         *)
LEMMA FilesSame ==
    ASSUME UNCHANGED <<certs, version, token, pending, log, origin, served>>, FileTruth
    PROVE  FileTruth'
BY DEF FileTruth, FilesInv, ConfigTrue, NoCaLost, Consistent, certs

(* the types when no key is made *)
LEMMA TypeFrame ==
    ASSUME TypeOK, UNCHANGED <<certs, keys, origin>>, version' \in {"none", "old", "linked", "new"},
           token' \in BOOLEAN, pending' \in BOOLEAN, checked' \in BOOLEAN,
           log' \subseteq {"start", "upgrade", "rotate", "rotated"}, lock' \in Procs \cup {None},
           pc' \in [Procs -> Labels],
           mem' \in [Procs -> [key : 0 .. keys, upgrade : {"no", "first", "resumed"}]],
           loaded' \in [key : Keys, cert : Leaves] \cup {None},
           day' \in Nat, ends' \in Nat, served' \subseteq Keys
    PROVE  TypeOK'
<1>1. Keys' = Keys /\ Cas' = Cas /\ Leaves' = Leaves
  BY DEF Keys, Cas, Leaves
<1>2. QED
  BY <1>1 DEF TypeOK, certs

LEMMA EndedType ==
    ASSUME TypeOK, NEW p \in Procs, Ended(p)
    PROVE  /\ lock' \in Procs \cup {None} /\ pc' \in [Procs -> Labels]
           /\ mem' \in [Procs -> [key : 0 .. keys, upgrade : {"no", "first", "resumed"}]]
           /\ loaded' \in [key : Keys, cert : Leaves] \cup {None}
           /\ \A q \in Procs : q # p => pc'[q] = pc[q] /\ mem'[q] = mem[q]
           /\ pc'[p] = "idle" /\ mem'[p] = Idle
<1>1. Idle \in [key : 0 .. keys, upgrade : {"no", "first", "resumed"}]
  BY SMT DEF Idle, TypeOK
<1>2. "idle" \in Labels
  BY DEF Labels
<1>3. QED
  BY <1>1, <1>2 DEF TypeOK, Ended

(* a process that has ended knows nothing *)
LEMMA EndedProc == ASSUME TypeOK, NEW p \in Procs, Ended(p) PROVE ProcInv(p)'
<1>1. pc'[p] = "idle" /\ mem'[p].upgrade = "no"
  BY SMT, EndedType DEF Idle
<1>2. QED
  BY <1>1, QuietProc DEF QuietLabels

(* a process is not disturbed by one that touches no file *)
LEMMA Bystander ==
    ASSUME IInv, NEW q \in Procs, pc'[q] = pc[q], mem'[q] = mem[q],
           UNCHANGED <<files, checked, day, origin>>, lock = q => lock' = q,
           pc[q] \notin QuietLabels => UNCHANGED loaded
    PROVE  ProcInv(q)'
<1> USE DEF files
<1>1. ProcInv(q)
  BY DEF IInv
<1>2. MayWrite(q)'
  BY <1>1 DEF ProcInv, MayWrite, certs
<1>3. UpgradeKnown(q)'
  BY <1>1 DEF ProcInv, UpgradeKnown
<1>4. Replacing(q)'
  BY <1>1 DEF ProcInv, Replacing, CopyOf, Consistent, certs
<1>5. Checked(q)'
  BY <1>1 DEF ProcInv, Checked, Consistent, certs, QuietLabels
<1>6. QED
  BY <1>2, <1>3, <1>4, <1>5 DEF ProcInv

(* a process ends without touching a file *)
LEMMA EndedKeeps ==
    ASSUME IInv, NEW p \in Procs, Ended(p), UNCHANGED <<files, checked, keys, day, served, origin>>,
           ends' \in Nat
    PROVE  IInv'
<1>1. TypeOK /\ FileTruth /\ OneSetup
  BY DEF IInv
<1>2. TypeOK'
  <2>1. UNCHANGED <<certs, keys, origin>> /\ UNCHANGED <<version, token, pending, checked, log, day, served>>
    BY DEF files
  <2>2. QED
    BY <1>1, <2>1, EndedType, TypeFrame DEF TypeOK
<1>3. FileTruth'
  BY <1>1, FilesSame DEF files
<1>4. OneSetup'
  BY <1>1, EndedType DEF OneSetup, SetupLabels
<1>5. ASSUME NEW q \in Procs, q # p PROVE ProcInv(q)'
  <2>1. pc'[q] = pc[q] /\ mem'[q] = mem[q] /\ (lock = q => lock' = q)
    BY <1>1, <1>5, EndedType DEF Ended
  <2>2. pc[q] \notin QuietLabels => pc[p] \in QuietLabels
    BY <1>5, Alone
  <2>3. pc[q] \notin QuietLabels => UNCHANGED loaded
    BY <2>2 DEF Ended, QuietLabels
  <2>4. QED
    BY <2>1, <2>3, Bystander
<1>6. QED
  BY <1>1, <1>2, <1>3, <1>4, <1>5, EndedProc DEF IInv

LEMMA EndKeeps == ASSUME IInv, NEW p \in Procs, End(p) PROVE IInv'
<1>1. Ended(p) /\ UNCHANGED <<files, checked, keys, day, served, origin>> /\ ends' \in Nat
  BY SMT DEF End, IInv, TypeOK
<1>2. QED
  BY <1>1, EndedKeeps

LEMMA Moved ==
    ASSUME TypeOK, NEW p \in Procs, NEW lab \in Labels, Goto(p, lab)
    PROVE  /\ pc' \in [Procs -> Labels] /\ pc'[p] = lab
           /\ \A q \in Procs : q # p => pc'[q] = pc[q]
BY DEF TypeOK, Goto

LEMMA Labelled ==
    /\ SetupLabels \subseteq Labels /\ ConvertLabels \subseteq Labels /\ StartLabels \subseteq Labels
    /\ RotateLabels \subseteq Labels /\ "init_cakey" \in Labels
BY DEF Labels, SetupLabels, ConvertLabels, StartLabels, RotateLabels

LEMMA InitializeKeeps == ASSUME IInv, NEW p \in Procs, Initialize(p) PROVE IInv'
<1>1. TypeOK /\ FileTruth /\ OneSetup /\ \A q \in Procs : ProcInv(q)
  BY DEF IInv
<1>2. /\ pc' \in [Procs -> Labels] /\ pc'[p] = "init_cakey" /\ \A q \in Procs : q # p => pc'[q] = pc[q]
      /\ UNCHANGED <<files, lock, mem, loaded, checked, keys, time>>
  BY <1>1, Moved, Labelled DEF Initialize
<1>3. TypeOK'
  <2>1. /\ UNCHANGED <<certs, keys, origin>>
        /\ UNCHANGED <<version, token, pending, checked, log, lock, mem, loaded, day, ends, served>>
    BY <1>2 DEF files, time
  <2>2. QED
    BY <1>1, <1>2, <2>1, TypeFrame DEF TypeOK
<1>4. FileTruth'
  BY <1>1, <1>2, FilesSame DEF files, time
<1>5. OneSetup'
  BY <1>1, <1>2 DEF OneSetup, SetupLabels
<1>6. ASSUME NEW q \in Procs, q # p PROVE ProcInv(q)'
  BY <1>2, <1>6, Bystander DEF time
<1>7. ProcInv(p)'
  BY <1>1, <1>2, QuietProc DEF ProcInv, UpgradeKnown, QuietLabels, time
<1>8. QED
  BY <1>3, <1>4, <1>5, <1>6, <1>7 DEF IInv

(* the day changes while nobody but a server runs, whose monitor has looked *)
LEMMA NextDayKeeps == ASSUME IInv, NextDay PROVE IInv'
<1>1. TypeOK /\ FileTruth /\ OneSetup /\ \A q \in Procs : ProcInv(q)
  BY DEF IInv
<1>2. UNCHANGED <<certs, keys, version, token, pending, log, lock, pc, mem, loaded, ends, served, origin>>
  BY DEF NextDay, files
<1>3. TypeOK'
  <2>1. day' \in Nat
    BY SMT, <1>1 DEF NextDay, TypeOK
  <2>2. checked' \in BOOLEAN
    BY Zenon DEF NextDay
  <2>3. QED
    BY <1>1, <1>2, <2>1, <2>2, TypeFrame DEF TypeOK
<1>4. FileTruth'
  BY <1>1, <1>2, FilesSame
<1>5. OneSetup'
  BY <1>1, <1>2 DEF OneSetup
<1>6. ASSUME NEW q \in Procs PROVE ProcInv(q)'
  <2>1. CASE pc[q] = "idle"
    BY <1>1, <1>2, <2>1, QuietProc DEF ProcInv, UpgradeKnown, QuietLabels
  <2>2. CASE pc[q] = "serving"
    <3>1. checked /\ ~checked' /\ day' = day + 1 /\ day \in Nat /\ pc'[q] = "serving"
      BY <1>1, <1>2, <2>2 DEF NextDay, TypeOK
    <3>2. Consistent /\ loaded = [key |-> srvKey, cert |-> srvPem] /\ srvPem.until > day + RenewDays
      BY <1>1, <2>2, <3>1 DEF ProcInv, Checked
    <3>3. srvPem.until \in Nat /\ RenewDays \in Nat
      BY <1>1, <3>2, StateAssumption DEF TypeOK, Leaves, Consistent
    <3>4. srvPem.until >= day' + RenewDays
      BY SMT, <3>1, <3>2, <3>3
    <3>5. Checked(q)'
      BY <1>2, <3>1, <3>2, <3>4 DEF Checked, Consistent, certs
    <3>6. MayWrite(q)' /\ UpgradeKnown(q)' /\ Replacing(q)'
      BY <1>1, <1>2, <2>2 DEF ProcInv, MayWrite, UpgradeKnown, Replacing, SetupLabels, ConvertLabels,
                              StartLabels, RotateLabels
    <3>7. QED
      BY <3>5, <3>6 DEF ProcInv
  <2>3. QED
    BY <2>1, <2>2 DEF NextDay
<1>7. QED
  BY <1>3, <1>4, <1>5, <1>6 DEF IInv

----------------------------------------------------------------------------
(* the steps of the one process that may write *)
LEMMA AloneKeeps ==
    ASSUME IInv, NEW p \in Procs, \A q \in Procs : q # p => pc[q] \in QuietLabels,
           \A q \in Procs : q # p => pc'[q] = pc[q] /\ mem'[q] = mem[q], UNCHANGED origin,
           TypeOK', FileTruth', ProcInv(p)'
    PROVE  IInv'
BY Others DEF IInv

(* instance.lock is free and there is a configuration: everybody is quiet *)
LEMMA Unlocked ==
    ASSUME IInv, lock = None, version \in {"old", "new"}, NEW q \in Procs
    PROVE  pc[q] \in QuietLabels
<1>1. pc[q] \in Labels /\ MayWrite(q)
  BY DEF IInv, TypeOK, ProcInv
<1>2. None # q
  BY StateAssumption
<1>3. QED
  BY <1>1, <1>2 DEF MayWrite, Labels, QuietLabels, SetupLabels, ConvertLabels, StartLabels, RotateLabels

LEMMA WriteTokenKeeps == ASSUME IInv, NEW p \in Procs, WriteToken(p) PROVE IInv'
<1>1. TypeOK /\ FileTruth /\ ProcInv(p) /\ pc[p] = "init_token"
  BY DEF IInv, WriteToken
<1>2. /\ pc' \in [Procs -> Labels] /\ pc'[p] = "init_config" /\ \A q \in Procs : q # p => pc'[q] = pc[q]
  BY <1>1, Moved, Labelled DEF WriteToken, SetupLabels
<1>3. /\ UNCHANGED <<certs, keys, origin>> /\ token' = TRUE
      /\ UNCHANGED <<version, pending, checked, log, lock, mem, loaded, day, ends, served>>
  BY DEF WriteToken, time
<1>4. TypeOK'
  BY <1>1, <1>2, <1>3, TypeFrame DEF TypeOK
<1>5. version = "none" /\ caKey # None /\ Consistent /\ (mem[p].upgrade # "no" => origin = "old")
  BY <1>1 DEF ProcInv, MayWrite, UpgradeKnown, Replacing, SetupLabels
<1>6. FileTruth'
  BY <1>1, <1>3, <1>5 DEF FileTruth, FilesInv, ConfigTrue, NoCaLost, Consistent, certs
<1>7. ProcInv(p)'
  BY <1>2, <1>3, <1>5 DEF ProcInv, MayWrite, UpgradeKnown, Replacing, Checked, Consistent, certs,
                          SetupLabels, ConvertLabels, StartLabels, RotateLabels
<1>8. QED
  BY <1>1, <1>2, <1>3, <1>4, <1>6, <1>7, Alone, AloneKeeps DEF QuietLabels

LEMMA WriteConfigKeeps == ASSUME IInv, NEW p \in Procs, WriteConfig(p) PROVE IInv'
<1>1. TypeOK /\ FileTruth /\ ProcInv(p) /\ pc[p] \in {"init_config", "init_linked"}
  BY DEF IInv, WriteConfig
<1>2. UNCHANGED <<certs, keys, origin>> /\ UNCHANGED <<token, pending, checked, log, day, ends, served>>
  BY DEF WriteConfig, time
<1>3. /\ version \in {"none", "linked"} /\ caKey # None /\ Consistent /\ token
      /\ (mem[p].upgrade # "no" => origin = "old")
  BY <1>1 DEF ProcInv, MayWrite, UpgradeKnown, Replacing, SetupLabels
<1>4. version' \in {"linked", "new"}
  BY DEF WriteConfig
<1>5. FileTruth'
  BY <1>1, <1>2, <1>3, <1>4 DEF FileTruth, FilesInv, ConfigTrue, NoCaLost, Consistent, certs
<1>6. CASE Ended(p)
  <2>1. TypeOK'
    BY <1>1, <1>2, <1>4, <1>6, EndedType, TypeFrame DEF TypeOK
  <2>2. QED
    BY <1>1, <1>2, <1>5, <1>6, <2>1, EndedType, EndedProc, Alone, AloneKeeps DEF QuietLabels
<1>7. CASE version' = "linked" /\ Goto(p, "init_linked") /\ UNCHANGED <<lock, mem, loaded>>
  <2>1. /\ pc' \in [Procs -> Labels] /\ pc'[p] = "init_linked"
        /\ \A q \in Procs : q # p => pc'[q] = pc[q]
    BY <1>1, <1>7, Moved, Labelled DEF SetupLabels
  <2>2. TypeOK'
    BY <1>1, <1>2, <1>4, <1>7, <2>1, TypeFrame DEF TypeOK
  <2>3. ProcInv(p)'
    BY <1>2, <1>3, <1>7, <2>1 DEF ProcInv, MayWrite, UpgradeKnown, Replacing, Checked, Consistent, certs,
                                  SetupLabels, ConvertLabels, StartLabels, RotateLabels
  <2>4. QED
    BY <1>1, <1>2, <1>5, <1>7, <2>1, <2>2, <2>3, Alone, AloneKeeps DEF QuietLabels
<1>8. QED
  BY <1>6, <1>7 DEF WriteConfig

LEMMA ServeKeeps == ASSUME IInv, NEW p \in Procs, Serve(p) PROVE IInv'
<1>1. TypeOK /\ FileTruth /\ ProcInv(p)
  BY DEF IInv
<1>2. PICK lab \in {"convert", "resume"} : /\ Goto(p, lab) /\ lock' = p
                                             /\ lab = IF version = "old" THEN "convert" ELSE "resume"
  BY DEF Serve
<1>3. /\ pc' \in [Procs -> Labels] /\ pc'[p] = lab /\ \A q \in Procs : q # p => pc'[q] = pc[q]
  BY <1>1, <1>2, Moved, Labelled DEF ConvertLabels, StartLabels
<1>4. /\ UNCHANGED <<certs, keys, origin>> /\ lock = None /\ version \in {"old", "new"}
      /\ UNCHANGED <<version, token, pending, checked, log, mem, loaded, day, ends, served>>
  BY DEF Serve, time, files
<1>5. TypeOK'
  BY <1>1, <1>2, <1>3, <1>4, TypeFrame DEF TypeOK
<1>6. FileTruth'
  BY <1>1, <1>4, FilesSame
<1>7. (mem[p].upgrade # "no" => origin = "old") /\ version \in {"old", "new"}
  BY <1>1, <1>4 DEF ProcInv, UpgradeKnown, TypeOK
<1>8. ProcInv(p)'
  BY <1>2, <1>3, <1>4, <1>7 DEF ProcInv, MayWrite, UpgradeKnown, Replacing, Checked,
                                SetupLabels, ConvertLabels, StartLabels, RotateLabels
<1>9. QED
  BY <1>3, <1>4, <1>5, <1>6, <1>8, Unlocked, AloneKeeps

LEMMA CheckConversionKeeps == ASSUME IInv, NEW p \in Procs, CheckConversion(p) PROVE IInv'
<1>1. TypeOK /\ FileTruth /\ ProcInv(p) /\ pc[p] = "convert"
  BY DEF IInv, CheckConversion
<1>2. /\ UNCHANGED <<certs, keys, origin>> /\ UNCHANGED <<files, checked, keys, day, served, origin>>
      /\ UNCHANGED <<version, token, pending, checked, log, day, ends, served>>
  BY DEF CheckConversion, time, files
<1>3. CASE Ended(p)
  BY <1>1, <1>2, <1>3, EndedKeeps DEF TypeOK
<1>4. CASE Goto(p, "write_pending") /\ UNCHANGED <<lock, mem, loaded>>
  <2>1. /\ pc' \in [Procs -> Labels] /\ pc'[p] = "write_pending" /\ \A q \in Procs : q # p => pc'[q] = pc[q]
    BY <1>1, <1>4, Moved, Labelled DEF ConvertLabels
  <2>2. TypeOK'
    BY <1>1, <1>2, <1>4, <2>1, TypeFrame DEF TypeOK
  <2>3. FileTruth'
    BY <1>1, <1>2, FilesSame
  <2>4. lock = p /\ version = "old" /\ (mem[p].upgrade # "no" => origin = "old")
    BY <1>1 DEF ProcInv, MayWrite, UpgradeKnown, ConvertLabels
  <2>5. ProcInv(p)'
    BY <1>2, <1>4, <2>1, <2>4 DEF ProcInv, MayWrite, UpgradeKnown, Replacing, Checked,
                                  SetupLabels, ConvertLabels, StartLabels, RotateLabels
  <2>6. QED
    BY <1>1, <1>2, <1>4, <2>1, <2>2, <2>3, <2>5, Alone, AloneKeeps DEF QuietLabels
<1>5. QED
  BY <1>3, <1>4 DEF CheckConversion

LEMMA Kept ==
    ASSUME TypeOK, NEW p \in Procs, NEW x \in {"no", "first", "resumed"}, Keep(p, "upgrade", x)
    PROVE  /\ mem' \in [Procs -> [key : 0 .. keys, upgrade : {"no", "first", "resumed"}]]
           /\ mem'[p].upgrade = x /\ \A q \in Procs : q # p => mem'[q] = mem[q]
<1>1. mem[p] \in [key : 0 .. keys, upgrade : {"no", "first", "resumed"}]
  BY DEF TypeOK
<1>2. mem' = [mem EXCEPT ![p] = [mem[p] EXCEPT !["upgrade"] = x]]
  BY DEF Keep, TypeOK
<1>3. [mem[p] EXCEPT !["upgrade"] = x] \in [key : 0 .. keys, upgrade : {"no", "first", "resumed"}]
  BY <1>1
<1>4. QED
  BY <1>1, <1>2, <1>3 DEF TypeOK

LEMMA WritePendingKeeps == ASSUME IInv, NEW p \in Procs, WritePending(p) PROVE IInv'
<1>1. TypeOK /\ FileTruth /\ ProcInv(p) /\ pc[p] \in {"write_pending", "write_config"}
  BY DEF IInv, WritePending
<1>2. /\ UNCHANGED <<certs, keys, origin>>
      /\ UNCHANGED <<token, checked, log, lock, loaded, day, ends, served>>
  BY DEF WritePending, time
<1>3. lock = p /\ version = "old" /\ (mem[p].upgrade # "no" => origin = "old") /\ origin = "old"
  BY <1>1 DEF ProcInv, MayWrite, UpgradeKnown, ConvertLabels, FileTruth, FilesInv
<1>4. CASE pc[p] = "write_pending"
  <2>1. pending' = TRUE /\ Goto(p, "write_config") /\ UNCHANGED <<version, mem>>
    BY <1>4 DEF WritePending
  <2>2. /\ pc' \in [Procs -> Labels] /\ pc'[p] = "write_config" /\ \A q \in Procs : q # p => pc'[q] = pc[q]
    BY <1>1, <2>1, Moved, Labelled DEF ConvertLabels
  <2>3. TypeOK'
    BY <1>1, <1>2, <2>1, <2>2, TypeFrame DEF TypeOK
  <2>4. FileTruth'
    BY <1>1, <1>2, <1>3, <2>1 DEF FileTruth, FilesInv, ConfigTrue, NoCaLost, Consistent, certs
  <2>5. ProcInv(p)'
    BY <1>2, <1>3, <2>1, <2>2 DEF ProcInv, MayWrite, UpgradeKnown, Replacing, Checked,
                                  SetupLabels, ConvertLabels, StartLabels, RotateLabels
  <2>6. QED
    BY <1>1, <1>2, <2>1, <2>2, <2>3, <2>4, <2>5, Alone, AloneKeeps DEF QuietLabels
<1>5. CASE pc[p] = "write_config"
  <2>1. version' = "new" /\ Goto(p, "workers") /\ Keep(p, "upgrade", "first") /\ UNCHANGED pending
    BY <1>5 DEF WritePending
  <2>2. /\ pc' \in [Procs -> Labels] /\ pc'[p] = "workers" /\ \A q \in Procs : q # p => pc'[q] = pc[q]
    BY <1>1, <2>1, Moved, Labelled DEF StartLabels
  <2>3. /\ mem' \in [Procs -> [key : 0 .. keys, upgrade : {"no", "first", "resumed"}]]
        /\ \A q \in Procs : q # p => mem'[q] = mem[q]
    BY <1>1, <2>1, Kept
  <2>4. TypeOK'
    BY <1>1, <1>2, <2>1, <2>2, <2>3, TypeFrame DEF TypeOK
  <2>5. pending
    BY <1>1, <1>5 DEF ProcInv, UpgradeKnown
  <2>6. FileTruth'
    BY <1>1, <1>2, <1>3, <2>1, <2>5 DEF FileTruth, FilesInv, ConfigTrue, NoCaLost, Consistent, certs
  <2>7. ProcInv(p)'
    BY <1>2, <1>3, <2>1, <2>2 DEF ProcInv, MayWrite, UpgradeKnown, Replacing, Checked,
                                  SetupLabels, ConvertLabels, StartLabels, RotateLabels
  <2>8. QED
    BY <1>1, <1>2, <2>2, <2>3, <2>4, <2>6, <2>7, Alone, AloneKeeps DEF QuietLabels
<1>6. QED
  BY <1>1, <1>4, <1>5

LEMMA ReadPendingKeeps == ASSUME IInv, NEW p \in Procs, ReadPending(p) PROVE IInv'
<1>1. TypeOK /\ FileTruth /\ ProcInv(p) /\ pc[p] = "resume"
  BY DEF IInv, ReadPending
<1>2. /\ UNCHANGED <<certs, keys, origin>> /\ Goto(p, "workers")
      /\ UNCHANGED <<version, token, pending, checked, log, lock, loaded, day, ends, served>>
  BY DEF ReadPending, time, files
<1>3. PICK x \in {"no", "resumed"} : Keep(p, "upgrade", x) /\ (x # "no" => pending)
  BY DEF ReadPending
<1>4. /\ pc' \in [Procs -> Labels] /\ pc'[p] = "workers" /\ \A q \in Procs : q # p => pc'[q] = pc[q]
  BY <1>1, <1>2, Moved, Labelled DEF StartLabels
<1>5. /\ mem' \in [Procs -> [key : 0 .. keys, upgrade : {"no", "first", "resumed"}]]
      /\ mem'[p].upgrade = x /\ \A q \in Procs : q # p => mem'[q] = mem[q]
  BY <1>1, <1>3, Kept
<1>6. TypeOK'
  BY <1>1, <1>2, <1>4, <1>5, TypeFrame DEF TypeOK
<1>7. FileTruth'
  BY <1>1, <1>2, FilesSame
<1>8. lock = p /\ version = "new" /\ (x # "no" => origin = "old")
  BY <1>1, <1>3 DEF ProcInv, MayWrite, StartLabels, FileTruth, FilesInv
<1>9. ProcInv(p)'
  BY <1>2, <1>4, <1>5, <1>8 DEF ProcInv, MayWrite, UpgradeKnown, Replacing, Checked,
                                SetupLabels, ConvertLabels, StartLabels, RotateLabels
<1>10. QED
  BY <1>1, <1>2, <1>4, <1>5, <1>6, <1>7, <1>9, Alone, AloneKeeps DEF QuietLabels

LEMMA CheckStartKeeps == ASSUME IInv, NEW p \in Procs, CheckStart(p) PROVE IInv'
<1>1. TypeOK /\ FileTruth /\ ProcInv(p) /\ pc[p] = "workers"
  BY DEF IInv, CheckStart
<1>2. /\ UNCHANGED <<certs, keys, origin>> /\ UNCHANGED <<files, checked, keys, day, served, origin>>
      /\ UNCHANGED <<version, token, pending, checked, log, day, ends, served>>
  BY DEF CheckStart, time, files
<1>3. CASE Ended(p)
  BY <1>1, <1>2, <1>3, EndedKeeps DEF TypeOK
<1>4. CASE Consistent /\ Goto(p, "renew") /\ UNCHANGED <<lock, mem, loaded>>
  <2>1. /\ pc' \in [Procs -> Labels] /\ pc'[p] = "renew" /\ \A q \in Procs : q # p => pc'[q] = pc[q]
    BY <1>1, <1>4, Moved, Labelled DEF StartLabels
  <2>2. TypeOK'
    BY <1>1, <1>2, <1>4, <2>1, TypeFrame DEF TypeOK
  <2>3. FileTruth'
    BY <1>1, <1>2, FilesSame
  <2>4. lock = p /\ version = "new" /\ (mem[p].upgrade # "no" => origin = "old")
    BY <1>1 DEF ProcInv, MayWrite, UpgradeKnown, StartLabels
  <2>5. ProcInv(p)'
    BY <1>2, <1>4, <2>1, <2>4 DEF ProcInv, MayWrite, UpgradeKnown, Replacing, Checked, Consistent, certs,
                                  SetupLabels, ConvertLabels, StartLabels, RotateLabels
  <2>6. QED
    BY <1>1, <1>2, <1>4, <2>1, <2>2, <2>3, <2>5, Alone, AloneKeeps DEF QuietLabels
<1>5. QED
  BY <1>3, <1>4 DEF CheckStart

LEMMA RecordStartKeeps == ASSUME IInv, NEW p \in Procs, RecordStart(p) PROVE IInv'
<1>1. TypeOK /\ FileTruth /\ ProcInv(p) /\ pc[p] = "record_start"
  BY DEF IInv, RecordStart
<1>2. /\ UNCHANGED <<certs, keys, origin>>
      /\ UNCHANGED <<version, token, pending, checked, lock, mem, loaded, day, ends, served>>
  BY DEF RecordStart, time
<1>3. PICK lab \in {"listen", "unlink"} :
         /\ Goto(p, lab) /\ (lab = "unlink" => "upgrade" \in log')
  BY DEF RecordStart
<1>4. /\ log \subseteq log' /\ log' \subseteq log \cup {"start", "upgrade"}
      /\ "upgrade" \in log' => "upgrade" \in log \/ mem[p].upgrade # "no"
  BY DEF RecordStart
<1>5. /\ pc' \in [Procs -> Labels] /\ pc'[p] = lab /\ \A q \in Procs : q # p => pc'[q] = pc[q]
  BY <1>1, <1>3, Moved, Labelled DEF StartLabels
<1>6. TypeOK'
  <2>1. log' \subseteq {"start", "upgrade", "rotate", "rotated"}
    BY <1>1, <1>4 DEF TypeOK
  <2>2. QED
    BY <1>1, <1>2, <1>5, <2>1, TypeFrame DEF TypeOK
<1>7. /\ lock = p /\ version = "new" /\ (mem[p].upgrade # "no" => origin = "old")
      /\ Consistent /\ srvPem.until > day + RenewDays
  BY <1>1 DEF ProcInv, MayWrite, UpgradeKnown, Checked, StartLabels
<1>8. FileTruth'
  BY <1>1, <1>2, <1>4, <1>7 DEF FileTruth, FilesInv, ConfigTrue, NoCaLost, Consistent, certs
<1>9. ProcInv(p)'
  BY <1>2, <1>3, <1>5, <1>7 DEF ProcInv, MayWrite, UpgradeKnown, Replacing, Checked, Consistent, certs,
                                SetupLabels, ConvertLabels, StartLabels, RotateLabels
<1>10. QED
  BY <1>1, <1>2, <1>5, <1>6, <1>8, <1>9, Alone, AloneKeeps DEF QuietLabels

LEMMA RemovePendingKeeps == ASSUME IInv, NEW p \in Procs, RemovePending(p) PROVE IInv'
<1>1. TypeOK /\ FileTruth /\ ProcInv(p) /\ pc[p] = "unlink"
  BY DEF IInv, RemovePending
<1>2. /\ UNCHANGED <<certs, keys, origin>> /\ pending' = FALSE /\ Goto(p, "listen")
      /\ UNCHANGED <<version, token, checked, log, lock, mem, loaded, day, ends, served>>
  BY DEF RemovePending, time
<1>3. /\ pc' \in [Procs -> Labels] /\ pc'[p] = "listen" /\ \A q \in Procs : q # p => pc'[q] = pc[q]
  BY <1>1, <1>2, Moved, Labelled DEF StartLabels
<1>4. TypeOK'
  BY <1>1, <1>2, <1>3, TypeFrame DEF TypeOK
<1>5. /\ lock = p /\ version = "new" /\ (mem[p].upgrade # "no" => origin = "old")
      /\ Consistent /\ srvPem.until > day + RenewDays /\ "upgrade" \in log
  BY <1>1 DEF ProcInv, MayWrite, UpgradeKnown, Checked, StartLabels
<1>6. FileTruth'
  BY <1>1, <1>2, <1>5 DEF FileTruth, FilesInv, ConfigTrue, NoCaLost, Consistent, certs
<1>7. ProcInv(p)'
  BY <1>2, <1>3, <1>5 DEF ProcInv, MayWrite, UpgradeKnown, Replacing, Checked, Consistent, certs,
                          SetupLabels, ConvertLabels, StartLabels, RotateLabels
<1>8. QED
  BY <1>1, <1>2, <1>3, <1>4, <1>6, <1>7, Alone, AloneKeeps DEF QuietLabels

(* what verify_pairs says about the types *)
LEMMA ConsistentTypes ==
    ASSUME TypeOK, Consistent
    PROVE  /\ caKey \in Keys /\ srvKey \in Keys /\ caPem \in Cas /\ srvPem \in Leaves
           /\ srvPem.until \in Nat /\ caPem.until \in Nat /\ day \in Nat /\ RenewDays \in Nat
           /\ LeafDays \in Nat /\ CaMargin \in Nat
BY StateAssumption DEF TypeOK, Consistent, Cas, Leaves

LEMMA ListenKeeps == ASSUME IInv, NEW p \in Procs, Listen(p) PROVE IInv'
<1>1. TypeOK /\ FileTruth /\ ProcInv(p) /\ pc[p] = "listen"
  BY DEF IInv, Listen
<1>2. /\ UNCHANGED <<certs, keys, origin>> /\ Goto(p, "serving")
      /\ loaded' = [key |-> srvKey, cert |-> srvPem] /\ ~checked' /\ served' = served \cup {caKey}
      /\ UNCHANGED <<version, token, pending, log, lock, mem, day, ends>>
  BY DEF Listen, files
<1>3. checked' \in BOOLEAN
  BY Zenon DEF Listen
<1>4. /\ pc' \in [Procs -> Labels] /\ pc'[p] = "serving" /\ \A q \in Procs : q # p => pc'[q] = pc[q]
  BY <1>1, <1>2, Moved, Labelled DEF StartLabels
<1>5. /\ lock = p /\ version = "new" /\ (mem[p].upgrade # "no" => origin = "old")
      /\ Consistent /\ srvPem.until > day + RenewDays
  BY <1>1 DEF ProcInv, MayWrite, UpgradeKnown, Checked, StartLabels
<1>6. /\ caKey \in Keys /\ srvKey \in Keys /\ srvPem \in Leaves
      /\ srvPem.until \in Nat /\ day \in Nat /\ RenewDays \in Nat
  BY <1>1, <1>5, ConsistentTypes
<1>7. TypeOK'
  <2>1. loaded' \in [key : Keys, cert : Leaves] /\ served' \subseteq Keys
    BY <1>1, <1>2, <1>6 DEF TypeOK
  <2>2. QED
    BY <1>1, <1>2, <1>3, <1>4, <2>1, TypeFrame DEF TypeOK
<1>8. FileTruth'
  <2>1. NoCaLost'
    BY <1>1, <1>2, <1>5 DEF FileTruth, NoCaLost, Consistent, certs
  <2>2. QED
    BY <1>1, <1>2, <2>1 DEF FileTruth, FilesInv, ConfigTrue, Consistent, certs
<1>9. ProcInv(p)'
  <2>1. srvPem.until >= day + RenewDays
    BY SMT, <1>5, <1>6
  <2>2. QED
    BY <1>2, <1>4, <1>5, <2>1 DEF ProcInv, MayWrite, UpgradeKnown, Replacing, Checked, Consistent, certs,
                                SetupLabels, ConvertLabels, StartLabels, RotateLabels
<1>10. QED
  BY <1>1, <1>2, <1>4, <1>7, <1>8, <1>9, Alone, AloneKeeps DEF QuietLabels

LEMMA RotateCaKeeps == ASSUME IInv, NEW p \in Procs, RotateCa(p) PROVE IInv'
<1>1. TypeOK /\ FileTruth /\ ProcInv(p)
  BY DEF IInv
<1>2. /\ UNCHANGED <<certs, keys, origin>> /\ lock = None /\ version = "new" /\ lock' = p
      /\ log' = log \cup {"rotate"} /\ Goto(p, "retire")
      /\ UNCHANGED <<version, token, pending, checked, mem, loaded, day, ends, served>>
  BY DEF RotateCa, time
<1>3. /\ pc' \in [Procs -> Labels] /\ pc'[p] = "retire" /\ \A q \in Procs : q # p => pc'[q] = pc[q]
  BY <1>1, <1>2, Moved, Labelled DEF RotateLabels
<1>4. TypeOK'
  <2>1. log' \subseteq {"start", "upgrade", "rotate", "rotated"}
    BY <1>1, <1>2 DEF TypeOK
  <2>2. QED
    BY <1>1, <1>2, <1>3, <2>1, TypeFrame DEF TypeOK
<1>5. FileTruth'
  BY <1>1, <1>2 DEF FileTruth, FilesInv, ConfigTrue, NoCaLost, Consistent, certs
<1>6. mem[p].upgrade # "no" => origin = "old"
  BY <1>1 DEF ProcInv, UpgradeKnown
<1>7. ProcInv(p)'
  BY <1>2, <1>3, <1>6 DEF ProcInv, MayWrite, UpgradeKnown, Replacing, Checked,
                          SetupLabels, ConvertLabels, StartLabels, RotateLabels
<1>8. QED
  BY <1>2, <1>3, <1>4, <1>5, <1>7, Unlocked, AloneKeeps

LEMMA RotateCompleteKeeps == ASSUME IInv, NEW p \in Procs, RotateComplete(p) PROVE IInv'
<1>1. TypeOK /\ FileTruth /\ ProcInv(p) /\ pc[p] = "rotate_complete" /\ Ended(p)
  BY DEF IInv, RotateComplete
<1>2. /\ UNCHANGED <<certs, keys, origin>> /\ log \subseteq log' /\ log' \subseteq log \cup {"rotated"}
      /\ UNCHANGED <<version, token, pending, checked, day, ends, served>>
  BY DEF RotateComplete, time
<1>3. version = "new"
  BY <1>1 DEF ProcInv, MayWrite, RotateLabels
<1>4. TypeOK'
  <2>1. log' \subseteq {"start", "upgrade", "rotate", "rotated"}
    BY <1>1, <1>2 DEF TypeOK
  <2>2. QED
    BY <1>1, <1>2, <2>1, EndedType, TypeFrame DEF TypeOK
<1>5. FileTruth'
  BY <1>1, <1>2, <1>3 DEF FileTruth, FilesInv, ConfigTrue, NoCaLost, Consistent, certs
<1>6. QED
  BY <1>1, <1>2, <1>4, <1>5, EndedType, EndedProc, Alone, AloneKeeps DEF QuietLabels

----------------------------------------------------------------------------
(* the steps that write keys and certificates *)
Copies == [caPem : Cas \cup {None}, caKey : Keys \cup {None}]
Mems == [key : 0 .. keys, upgrade : {"no", "first", "resumed"}]
LoadedCerts == [key : Keys, cert : Leaves] \cup {None}

LEMMA KeysGrow ==
    ASSUME TypeOK, keys' \in Nat, keys <= keys'
    PROVE  /\ Keys \subseteq Keys' /\ Cas \subseteq Cas' /\ Leaves \subseteq Leaves' /\ Copies \subseteq Copies'
           /\ Mems \subseteq Mems' /\ LoadedCerts \subseteq LoadedCerts'
<1>1. Keys \subseteq Keys' /\ 0 .. keys \subseteq 0 .. keys'
  BY SMT DEF Keys, TypeOK
<1>2. Cas \subseteq Cas' /\ Leaves \subseteq Leaves'
  BY <1>1 DEF Cas, Leaves
<1>3. Copies \subseteq Copies' /\ LoadedCerts \subseteq LoadedCerts'
  BY <1>1, <1>2 DEF Copies, LoadedCerts
<1>4. Mems \subseteq Mems'
  BY <1>1 DEF Mems
<1>5. QED
  BY <1>1, <1>2, <1>3, <1>4

LEMMA CertTypes ==
    ASSUME TypeOK, keys' \in Nat, keys <= keys', UNCHANGED <<version, token, pending, log, checked, time>>,
           lock' \in Procs \cup {None}, caKey' \in Keys' \cup {None}, caPem' \in Cas' \cup {None},
           srvKey' \in Keys' \cup {None}, srvPem' \in Leaves' \cup {None}, twoNames' \in BOOLEAN,
           retired' \subseteq Copies', pc' \in [Procs -> Labels], mem' \in [Procs -> Mems'],
           loaded' \in LoadedCerts'
    PROVE  TypeOK'
<1>1. served' \subseteq Keys'
  BY KeysGrow DEF TypeOK, time
<1>2. QED
  BY <1>1 DEF TypeOK, time, Copies, Mems, LoadedCerts

(* the values a step leaves alone keep their types *)
LEMMA OldTypes ==
    ASSUME TypeOK, keys' \in Nat, keys <= keys'
    PROVE  /\ caKey \in Keys' \cup {None} /\ caPem \in Cas' \cup {None}
           /\ srvKey \in Keys' \cup {None} /\ srvPem \in Leaves' \cup {None}
           /\ retired \subseteq Copies' /\ mem \in [Procs -> Mems'] /\ loaded \in LoadedCerts'
           /\ lock \in Procs \cup {None} /\ twoNames \in BOOLEAN
<1>1. /\ caKey \in Keys \cup {None} /\ caPem \in Cas \cup {None} /\ srvKey \in Keys \cup {None}
      /\ srvPem \in Leaves \cup {None} /\ retired \subseteq Copies /\ mem \in [Procs -> Mems]
      /\ loaded \in LoadedCerts /\ lock \in Procs \cup {None} /\ twoNames \in BOOLEAN
  BY DEF TypeOK, Copies, Mems, LoadedCerts
<1>2. QED
  BY <1>1, KeysGrow

(* a missing file is no certificate *)
LEMMA NotNone ==
    /\ \A c \in Cas : c # None /\ c.key \in Keys /\ c.until \in Nat
    /\ \A c \in Leaves : c # None /\ c.key \in Keys /\ c.issuer \in Keys /\ c.until \in Nat
    /\ None \notin Nat
<1>1. Keys \subseteq Nat
  BY SMT DEF Keys
<1>2. Cas \subseteq [key : Nat, until : Nat] /\ Leaves \subseteq [key : Nat, issuer : Nat, until : Nat]
  BY <1>1 DEF Cas, Leaves
<1>3. QED
  BY <1>2, StateAssumption DEF Cas, Leaves

LEMMA RetireKeeps == ASSUME IInv, NEW p \in Procs, Retire(p) PROVE IInv'
<1>1. TypeOK /\ FileTruth /\ ProcInv(p) /\ pc[p] = "retire"
  BY DEF IInv, Retire
<1>2. /\ retired' = retired \cup {CopyOf}
      /\ UNCHANGED <<version, token, pending, caKey, caPem, srvKey, srvPem, twoNames, log, checked, keys, time>>
  BY DEF Retire
<1>3. keys' \in Nat /\ keys <= keys'
  BY SMT, <1>1, <1>2 DEF TypeOK
<1>4. retired' \subseteq Copies'
  <2>1. CopyOf \in Copies'
    BY <1>1, <1>3, OldTypes DEF CopyOf, Copies
  <2>2. QED
    BY <1>1, <1>2, <1>3, <2>1, OldTypes
<1>5. FileTruth'
  BY <1>1, <1>2 DEF FileTruth, FilesInv, ConfigTrue, NoCaLost, Consistent, time
<1>6. CASE Ended(p)
  <2>1. mem' \in [Procs -> Mems'] /\ loaded' \in LoadedCerts'
    BY <1>1, <1>2, <1>6, EndedType DEF Mems, LoadedCerts, Keys, Leaves
  <2>2. TypeOK'
    BY <1>1, <1>2, <1>3, <1>4, <1>6, <2>1, EndedType, OldTypes, CertTypes
  <2>3. QED
    BY <1>1, <1>2, <1>5, <1>6, <2>2, EndedType, EndedProc, Alone, AloneKeeps DEF QuietLabels, time
<1>7. CASE Goto(p, "drop_srvkey") /\ UNCHANGED <<lock, mem, loaded>>
  <2>1. /\ pc' \in [Procs -> Labels] /\ pc'[p] = "drop_srvkey" /\ \A q \in Procs : q # p => pc'[q] = pc[q]
    BY <1>1, <1>7, Moved, Labelled DEF RotateLabels
  <2>2. TypeOK'
    BY <1>1, <1>2, <1>3, <1>4, <1>7, <2>1, OldTypes, CertTypes
  <2>3. lock = p /\ version = "new" /\ "rotate" \in log /\ (mem[p].upgrade # "no" => origin = "old")
    BY <1>1 DEF ProcInv, MayWrite, UpgradeKnown, RotateLabels
  <2>4. CopyOf' \in retired'
    BY <1>2 DEF CopyOf
  <2>5. ProcInv(p)'
    BY <1>2, <1>7, <2>1, <2>3, <2>4 DEF ProcInv, MayWrite, UpgradeKnown, Replacing, Checked, time,
                                  SetupLabels, ConvertLabels, StartLabels, RotateLabels
  <2>6. QED
    BY <1>1, <1>2, <1>5, <1>7, <2>1, <2>2, <2>5, Alone, AloneKeeps DEF QuietLabels, time
<1>8. QED
  BY <1>6, <1>7 DEF Retire, CopyEnds

LEMMA DropServerKeyKeeps == ASSUME IInv, NEW p \in Procs, DropServerKey(p) PROVE IInv'
<1>1. TypeOK /\ FileTruth /\ ProcInv(p) /\ pc[p] = "drop_srvkey"
  BY DEF IInv, DropServerKey
<1>2. /\ Goto(p, "rotate_cakey") /\ srvKey' = None
      /\ UNCHANGED <<version, token, pending, caKey, caPem, srvPem, twoNames, retired, log, lock, mem,
                     loaded, checked, keys, time>>
  BY DEF DropServerKey
<1>3. /\ pc' \in [Procs -> Labels] /\ pc'[p] = "rotate_cakey" /\ \A q \in Procs : q # p => pc'[q] = pc[q]
  BY <1>1, <1>2, Moved, Labelled DEF RotateLabels
<1>4. TypeOK'
  <2>1. keys' \in Nat /\ keys <= keys'
    BY SMT, <1>1, <1>2 DEF TypeOK
  <2>2. QED
    BY <1>1, <1>2, <1>3, <2>1, OldTypes, CertTypes
<1>5. /\ lock = p /\ version = "new" /\ "rotate" \in log /\ (mem[p].upgrade # "no" => origin = "old")
      /\ CopyOf \in retired
  BY <1>1 DEF ProcInv, MayWrite, UpgradeKnown, Replacing, RotateLabels
<1>6. ~Consistent'
  BY <1>2 DEF Consistent
<1>7. FileTruth'
  BY <1>1, <1>2, <1>5, <1>6 DEF FileTruth, FilesInv, ConfigTrue, NoCaLost, time
<1>8. ProcInv(p)'
  BY <1>2, <1>3, <1>5 DEF ProcInv, MayWrite, UpgradeKnown, Replacing, Checked, CopyOf, time,
                          SetupLabels, ConvertLabels, StartLabels, RotateLabels
<1>9. QED
  BY <1>1, <1>2, <1>3, <1>4, <1>7, <1>8, Alone, AloneKeeps DEF QuietLabels, time

LEMMA WriteCaKeyKeeps == ASSUME IInv, NEW p \in Procs, WriteCaKey(p) PROVE IInv'
<1>1. TypeOK /\ FileTruth /\ ProcInv(p) /\ pc[p] \in {"init_cakey", "rotate_cakey"}
  BY DEF IInv, WriteCaKey
<1>2. UNCHANGED <<version, token, pending, caPem, srvKey, srvPem, twoNames, retired, log, checked, time>>
  BY DEF WriteCaKey
<1>3. CASE Ended(p) /\ UNCHANGED <<keys, caKey>>
  <2>1. UNCHANGED <<files, checked, keys, day, served, origin>> /\ ends' \in Nat
    BY <1>1, <1>2, <1>3 DEF files, certs, time, TypeOK
  <2>2. QED
    BY <1>3, <2>1, EndedKeeps
<1>4. CASE /\ pc[p] = "rotate_cakey" \/ caKey = None
           /\ keys' = keys + 1 /\ caKey' = keys + 1 /\ Keep(p, "key", keys + 1)
           /\ Goto(p, IF pc[p] = "init_cakey" THEN "init_capem" ELSE "rotate_capem")
           /\ UNCHANGED <<lock, loaded>>
  <2>1. PICK lab \in {"init_capem", "rotate_capem"} :
           /\ Goto(p, lab) /\ (lab = "init_capem" => pc[p] = "init_cakey" /\ caKey = None)
           /\ (lab = "rotate_capem" => pc[p] = "rotate_cakey")
    BY <1>1, <1>4
  <2>2. /\ pc' \in [Procs -> Labels] /\ pc'[p] = lab /\ \A q \in Procs : q # p => pc'[q] = pc[q]
    BY <1>1, <2>1, Moved, Labelled DEF RotateLabels, SetupLabels
  <2>3. keys \in Nat /\ keys' \in Nat /\ keys <= keys' /\ keys' \in Keys' /\ keys' \notin Keys
    BY SMT, <1>1, <1>4 DEF TypeOK, Keys
  <2>4. /\ mem' \in [Procs -> Mems'] /\ mem'[p].key = caKey' /\ mem'[p].upgrade = mem[p].upgrade
        /\ \A q \in Procs : q # p => mem'[q] = mem[q]
    <3>1. mem \in [Procs -> Mems'] /\ mem[p] \in Mems'
      BY <1>1, <2>3, OldTypes
    <3>2. mem' = [mem EXCEPT ![p] = [mem[p] EXCEPT !["key"] = keys + 1]]
      BY <1>4, <3>1 DEF Keep
    <3>3. /\ [mem[p] EXCEPT !["key"] = keys + 1] \in Mems'
          /\ [mem[p] EXCEPT !["key"] = keys + 1].key = keys + 1
          /\ [mem[p] EXCEPT !["key"] = keys + 1].upgrade = mem[p].upgrade
      BY SMT, <1>4, <2>3, <3>1 DEF Mems
    <3>4. QED
      BY <1>4, <3>1, <3>2, <3>3
  <2>5. TypeOK'
    BY <1>1, <1>2, <1>4, <2>2, <2>3, <2>4, OldTypes, CertTypes
  <2>6. ~Consistent'
    BY SMT, <1>1, <1>2, <1>4, <2>3, NotNone DEF Consistent, TypeOK
  <2>7. /\ lab = "init_capem" => version = "none"
        /\ lab = "rotate_capem" => lock = p /\ version = "new" /\ "rotate" \in log /\ CopyOf \in retired
        /\ srvKey = None /\ caKey' # None /\ (mem[p].upgrade # "no" => origin = "old")
    BY <1>1, <1>4, <2>1, <2>3, NotNone DEF ProcInv, MayWrite, UpgradeKnown, Replacing, FileTruth, FilesInv,
                                           RotateLabels
  <2>8. NoCaLost'
    <3>1. \A k \in served : k # None
      <4>1. served \subseteq Keys
        BY <1>1 DEF TypeOK
      <4>2. Keys \subseteq Nat
        BY SMT DEF Keys
      <4>3. QED
        BY <4>1, <4>2, NotNone
    <3>2. caKey = None \/ CopyOf \in retired
      BY <2>1, <2>7
    <3>3. \A k \in served : \E c \in retired : c.caKey = k /\ c.caPem # None /\ c.caPem.key = k
      BY <1>1, <3>1, <3>2 DEF FileTruth, NoCaLost, CopyOf
    <3>4. QED
      BY <1>2, <3>3 DEF NoCaLost, time
  <2>9. FileTruth'
    BY <1>1, <1>2, <2>6, <2>7, <2>8, <2>1 DEF FileTruth, FilesInv, ConfigTrue, time
  <2>10. ProcInv(p)'
    BY <1>2, <1>4, <2>1, <2>2, <2>4, <2>7 DEF ProcInv, MayWrite, UpgradeKnown, Replacing, Checked, time,
                                  SetupLabels, ConvertLabels, StartLabels, RotateLabels
  <2>11. \A q \in Procs : q # p => pc[q] \in QuietLabels
    <3>1. CASE lab = "rotate_capem"
      BY <2>1, <3>1, Alone DEF QuietLabels
    <3>2. CASE lab = "init_capem"
      <4>1. caKey = None /\ version = "none"
        BY <2>1, <2>7, <3>2
      <4>2. ASSUME NEW q \in Procs PROVE pc[q] \in Labels /\ MayWrite(q)
        BY DEF IInv, TypeOK, ProcInv
      <4>3. QED
        BY <4>1, <4>2 DEF MayWrite, Labels, QuietLabels, SetupLabels, ConvertLabels, StartLabels, RotateLabels
    <3>3. QED
      BY <3>1, <3>2
  <2>12. QED
    BY <1>2, <2>2, <2>4, <2>5, <2>9, <2>10, <2>11, AloneKeeps DEF time
<1>5. QED
  BY <1>3, <1>4 DEF WriteCaKey

LEMMA WriteCaPemKeeps == ASSUME IInv, NEW p \in Procs, WriteCaPem(p) PROVE IInv'
<1>1. TypeOK /\ FileTruth /\ ProcInv(p) /\ pc[p] \in {"init_capem", "rotate_capem"}
  BY DEF IInv, WriteCaPem
<1>2. /\ caPem' = [key |-> mem[p].key, until |-> day + CaDays]
      /\ UNCHANGED <<version, token, pending, caKey, srvKey, srvPem, twoNames, retired, log, lock, mem,
                     loaded, checked, keys, time>>
  BY DEF WriteCaPem
<1>3. PICK lab \in {"init_srvkey", "rotate_srvkey"} :
         Goto(p, lab) /\ (lab = "init_srvkey" <=> pc[p] = "init_capem")
  BY DEF WriteCaPem
<1>4. /\ pc' \in [Procs -> Labels] /\ pc'[p] = lab /\ \A q \in Procs : q # p => pc'[q] = pc[q]
  BY <1>1, <1>3, Moved, Labelled DEF RotateLabels, SetupLabels
<1>5. /\ lab = "init_srvkey" => version = "none"
      /\ lab = "rotate_srvkey" => lock = p /\ version = "new" /\ "rotate" \in log
      /\ caKey = mem[p].key /\ srvKey = None /\ caKey # None /\ (mem[p].upgrade # "no" => origin = "old")
  BY <1>1, <1>3 DEF ProcInv, MayWrite, UpgradeKnown, Replacing, FileTruth, FilesInv, RotateLabels, SetupLabels
<1>6. /\ caPem' \in Cas /\ caPem' # None /\ caPem'.key = caKey /\ caPem'.until >= day + LeafDays
  <2>1. caKey \in Keys /\ day \in Nat /\ CaDays \in Nat /\ LeafDays \in Nat /\ LeafDays <= CaDays
    BY SMT, <1>1, <1>5, StateAssumption DEF TypeOK
  <2>2. caPem' = [key |-> caKey, until |-> day + CaDays] /\ day + CaDays \in Nat
    BY SMT, <1>2, <1>5, <2>1
  <2>3. caPem' \in Cas
    BY <2>1, <2>2 DEF Cas
  <2>4. QED
    BY SMT, <2>1, <2>2, <2>3, NotNone
<1>7. TypeOK'
  <2>1. keys' \in Nat /\ keys <= keys' /\ Cas' = Cas
    BY SMT, <1>1, <1>2 DEF TypeOK, Cas, Keys
  <2>2. QED
    BY <1>1, <1>2, <1>4, <1>6, <2>1, OldTypes, CertTypes
<1>8. ~Consistent'
  BY <1>2, <1>5 DEF Consistent
<1>9. NoCaLost'
  BY <1>1, <1>2, <1>6 DEF FileTruth, NoCaLost, time
<1>10. FileTruth'
  BY <1>1, <1>2, <1>3, <1>5, <1>8, <1>9 DEF FileTruth, FilesInv, ConfigTrue, time
<1>11. ProcInv(p)'
  BY <1>2, <1>4, <1>5, <1>6 DEF ProcInv, MayWrite, UpgradeKnown, Replacing, Checked, time,
                                SetupLabels, ConvertLabels, StartLabels, RotateLabels
<1>12. QED
  BY <1>1, <1>2, <1>4, <1>7, <1>10, <1>11, Alone, AloneKeeps DEF QuietLabels, time

LEMMA WriteServerKeyKeeps == ASSUME IInv, NEW p \in Procs, WriteServerKey(p) PROVE IInv'
<1>1. TypeOK /\ FileTruth /\ ProcInv(p) /\ pc[p] \in {"init_srvkey", "rotate_srvkey"}
  BY DEF IInv, WriteServerKey
<1>2. /\ pc[p] = "init_srvkey" => version = "none"
      /\ pc[p] = "rotate_srvkey" => lock = p /\ version = "new" /\ "rotate" \in log
      /\ srvKey = None /\ (mem[p].upgrade # "no" => origin = "old")
      /\ caKey # None /\ caPem # None /\ caPem.key = caKey /\ caPem.until >= day + LeafDays
  BY <1>1 DEF ProcInv, MayWrite, UpgradeKnown, Replacing, RotateLabels, SetupLabels
<1>3. PICK lab \in {"init_unlink", "rotate_unlink"} :
         Goto(p, lab) /\ (lab = "init_unlink" <=> pc[p] = "init_srvkey")
  BY <1>2 DEF WriteServerKey
<1>4. /\ pc' \in [Procs -> Labels] /\ pc'[p] = lab /\ \A q \in Procs : q # p => pc'[q] = pc[q]
  BY <1>1, <1>3, Moved, Labelled DEF RotateLabels, SetupLabels
<1>5. /\ keys' = keys + 1 /\ srvKey' = keys + 1 /\ twoNames' = TRUE
      /\ UNCHANGED <<version, token, pending, caKey, caPem, srvPem, retired, log, lock, mem, loaded,
                     checked, time>>
  BY <1>2 DEF WriteServerKey
<1>6. keys \in Nat /\ keys' \in Nat /\ keys <= keys' /\ keys' \in Keys' /\ keys' \notin Keys
  BY SMT, <1>1, <1>5 DEF TypeOK, Keys
<1>7. TypeOK'
  <2>1. twoNames' \in BOOLEAN
    BY <1>5
  <2>2. QED
    BY <1>1, <1>4, <1>5, <1>6, <2>1, OldTypes, CertTypes
<1>8. ~Consistent' /\ srvKey' # None /\ (srvPem # None => srvPem.key # srvKey')
  BY <1>1, <1>5, <1>6, NotNone DEF Consistent, TypeOK
<1>9. FileTruth'
  BY <1>1, <1>2, <1>5, <1>8 DEF FileTruth, FilesInv, ConfigTrue, NoCaLost, time
<1>10. ProcInv(p)'
  BY <1>1, <1>2, <1>3, <1>4, <1>5, <1>8 DEF ProcInv, MayWrite, UpgradeKnown, Replacing, Checked, time,
                                SetupLabels, ConvertLabels, StartLabels, RotateLabels
<1>11. QED
  BY <1>1, <1>4, <1>5, <1>7, <1>9, <1>10, Alone, AloneKeeps DEF QuietLabels, time

(* the second name is removed while the certificate is that of another key  *)
LEMMA UnlinkServerKeyKeeps == ASSUME IInv, NEW p \in Procs, UnlinkServerKey(p) PROVE IInv'
<1>1. TypeOK /\ FileTruth /\ ProcInv(p) /\ pc[p] \in {"init_unlink", "rotate_unlink"}
  BY DEF IInv, UnlinkServerKey
<1>2. /\ twoNames' = FALSE
      /\ UNCHANGED <<version, token, pending, caKey, caPem, srvKey, srvPem, retired, log, lock, mem, loaded,
                     checked, keys, time>>
  BY DEF UnlinkServerKey
<1>3. PICK lab \in {"init_srvpem", "rotate_srvpem"} :
         Goto(p, lab) /\ (lab = "init_srvpem" <=> pc[p] = "init_unlink")
  BY DEF UnlinkServerKey
<1>4. /\ pc' \in [Procs -> Labels] /\ pc'[p] = lab /\ \A q \in Procs : q # p => pc'[q] = pc[q]
  BY <1>1, <1>3, Moved, Labelled DEF RotateLabels, SetupLabels
<1>5. /\ lab = "init_srvpem" => version = "none"
      /\ lab = "rotate_srvpem" => lock = p /\ version = "new" /\ "rotate" \in log
      /\ srvKey # None /\ (mem[p].upgrade # "no" => origin = "old")
      /\ caKey # None /\ caPem # None /\ caPem.key = caKey /\ caPem.until >= day + LeafDays
      /\ srvPem # None => srvPem.key # srvKey
  BY <1>1, <1>3 DEF ProcInv, MayWrite, UpgradeKnown, Replacing, RotateLabels, SetupLabels
<1>6. TypeOK'
  <2>1. keys' \in Nat /\ keys <= keys'
    BY SMT, <1>1, <1>2 DEF TypeOK
  <2>2. twoNames' \in BOOLEAN
    BY <1>2
  <2>3. QED
    BY <1>1, <1>2, <1>4, <2>1, <2>2, OldTypes, CertTypes
<1>7. ~Consistent'
  BY <1>2, <1>5 DEF Consistent
<1>8. FileTruth'
  BY <1>1, <1>2, <1>3, <1>5, <1>7 DEF FileTruth, FilesInv, ConfigTrue, NoCaLost, time
<1>9. ProcInv(p)'
  BY <1>2, <1>4, <1>5 DEF ProcInv, MayWrite, UpgradeKnown, Replacing, Checked, time,
                          SetupLabels, ConvertLabels, StartLabels, RotateLabels
<1>10. QED
  BY <1>1, <1>2, <1>4, <1>6, <1>8, <1>9, Alone, AloneKeeps DEF QuietLabels, time

(* a server certificate for the keys in place *)
LEMMA LeafFits ==
    ASSUME TypeOK, caKey # None, caPem # None, caPem.key = caKey, srvKey # None,
           caPem.until >= day + LeafDays, srvPem' = Leaf(srvKey), ~twoNames,
           UNCHANGED <<caKey, caPem, srvKey, twoNames, keys>>
    PROVE  /\ srvPem' \in Leaves /\ Leaves' = Leaves /\ srvPem' # None /\ srvPem'.until = day + LeafDays
           /\ Consistent' /\ srvPem'.until <= caPem.until /\ srvPem'.until > day + RenewDays
<1>1. /\ caKey \in Keys /\ srvKey \in Keys /\ day \in Nat /\ LeafDays \in Nat /\ RenewDays \in Nat
      /\ RenewDays < LeafDays /\ caPem.until \in Nat
  BY StateAssumption DEF TypeOK, Cas
<1>2. srvPem' = [key |-> srvKey, issuer |-> caKey, until |-> day + LeafDays] /\ day + LeafDays \in Nat
  BY SMT, <1>1 DEF Leaf
<1>3. srvPem' \in Leaves /\ Leaves' = Leaves
  BY SMT, <1>1, <1>2 DEF Leaves, Keys
<1>4. srvPem' # None
  BY <1>3, NotNone
<1>5. Consistent'
  BY SMT, <1>2, <1>4 DEF Consistent
<1>6. srvPem'.until = day + LeafDays
  BY SMT, <1>2
<1>7. srvPem'.until <= caPem.until /\ srvPem'.until > day + RenewDays
  BY SMT, <1>1, <1>6
<1>8. QED
  BY <1>3, <1>4, <1>5, <1>6, <1>7

LEMMA WriteServerPemKeeps == ASSUME IInv, NEW p \in Procs, WriteServerPem(p) PROVE IInv'
<1>1. TypeOK /\ FileTruth /\ ProcInv(p) /\ pc[p] \in {"init_srvpem", "rotate_srvpem"}
  BY DEF IInv, WriteServerPem
<1>2. /\ srvPem' = Leaf(srvKey)
      /\ UNCHANGED <<version, token, pending, caKey, caPem, srvKey, twoNames, retired, log, lock, mem,
                     loaded, checked, keys, time>>
  BY DEF WriteServerPem
<1>3. PICK lab \in {"init_token", "rotate_complete"} :
         Goto(p, lab) /\ (lab = "init_token" <=> pc[p] = "init_srvpem")
  BY DEF WriteServerPem
<1>4. /\ pc' \in [Procs -> Labels] /\ pc'[p] = lab /\ \A q \in Procs : q # p => pc'[q] = pc[q]
  BY <1>1, <1>3, Moved, Labelled DEF RotateLabels, SetupLabels
<1>5. /\ lab = "init_token" => version = "none"
      /\ lab = "rotate_complete" => lock = p /\ version = "new" /\ "rotate" \in log
      /\ srvKey # None /\ ~twoNames /\ (mem[p].upgrade # "no" => origin = "old")
      /\ caKey # None /\ caPem # None /\ caPem.key = caKey /\ caPem.until >= day + LeafDays
  BY <1>1, <1>3 DEF ProcInv, MayWrite, UpgradeKnown, Replacing, RotateLabels, SetupLabels
<1>6. srvPem' \in Leaves /\ Leaves' = Leaves /\ Consistent' /\ srvPem'.until <= caPem.until
  BY <1>1, <1>2, <1>5, LeafFits
<1>7. TypeOK'
  <2>1. keys' \in Nat /\ keys <= keys'
    BY SMT, <1>1, <1>2 DEF TypeOK
  <2>2. QED
    BY <1>1, <1>2, <1>4, <1>6, <2>1, OldTypes, CertTypes
<1>8. FileTruth'
  BY <1>1, <1>2, <1>6 DEF FileTruth, FilesInv, ConfigTrue, NoCaLost, time
<1>9. ProcInv(p)'
  BY <1>2, <1>4, <1>5, <1>6 DEF ProcInv, MayWrite, UpgradeKnown, Replacing, Checked, time,
                                SetupLabels, ConvertLabels, StartLabels, RotateLabels
<1>10. QED
  BY <1>1, <1>2, <1>4, <1>7, <1>8, <1>9, Alone, AloneKeeps DEF QuietLabels, time

(* renewal keeps the chain and leaves it valid for the day *)
LEMMA RenewedFits ==
    ASSUME TypeOK, FileTruth, Consistent, Renewed, UNCHANGED <<caKey, caPem, srvKey, twoNames, keys>>
    PROVE  /\ srvPem' \in Leaves /\ Leaves' = Leaves /\ Consistent' /\ srvPem'.until <= caPem.until
           /\ srvPem'.until > day + RenewDays
<1>1. /\ caKey # None /\ caPem # None /\ caPem.key = caKey /\ srvKey # None /\ srvPem # None /\ ~twoNames
      /\ srvPem \in Leaves /\ srvPem.until \in Nat /\ caPem.until \in Nat /\ day \in Nat
      /\ RenewDays \in Nat /\ LeafDays \in Nat /\ CaMargin \in Nat /\ LeafDays <= CaMargin
  BY ConsistentTypes, StateAssumption DEF Consistent
<1>2. CASE RenewalDue /\ CaUsable /\ srvPem' = Leaf(srvKey)
  <2>1. caPem.until >= day + LeafDays
    BY SMT, <1>1, <1>2 DEF CaUsable
  <2>2. QED
    BY <1>1, <1>2, <2>1, LeafFits
<1>3. CASE ~RenewalDue /\ UNCHANGED srvPem
  <2>1. srvPem.until > day + RenewDays
    BY SMT, <1>1, <1>3 DEF RenewalDue
  <2>2. srvPem.until <= caPem.until
    BY DEF FileTruth, FilesInv
  <2>3. QED
    BY <1>1, <1>3, <2>1, <2>2 DEF Consistent, Leaves, Keys
<1>4. QED
  BY <1>2, <1>3 DEF Renewed

LEMMA RenewKeeps == ASSUME IInv, NEW p \in Procs, Renew(p) PROVE IInv'
<1>1. TypeOK /\ FileTruth /\ ProcInv(p) /\ pc[p] = "renew"
  BY DEF IInv, Renew
<1>2. UNCHANGED <<version, token, pending, caKey, caPem, srvKey, twoNames, retired, log, checked, keys, time>>
  BY DEF Renew
<1>3. CASE Ended(p) /\ UNCHANGED srvPem
  <2>1. UNCHANGED <<files, checked, keys, day, served, origin>> /\ ends' \in Nat
    BY <1>1, <1>2, <1>3 DEF files, certs, time, TypeOK
  <2>2. QED
    BY <1>3, <2>1, EndedKeeps
<1>4. CASE Renewed /\ Goto(p, "record_start") /\ UNCHANGED <<lock, mem, loaded>>
  <2>1. /\ pc' \in [Procs -> Labels] /\ pc'[p] = "record_start" /\ \A q \in Procs : q # p => pc'[q] = pc[q]
    BY <1>1, <1>4, Moved, Labelled DEF StartLabels
  <2>2. lock = p /\ version = "new" /\ (mem[p].upgrade # "no" => origin = "old") /\ Consistent
    BY <1>1 DEF ProcInv, MayWrite, UpgradeKnown, Checked, StartLabels
  <2>3. /\ srvPem' \in Leaves /\ Leaves' = Leaves /\ Consistent' /\ srvPem'.until <= caPem.until
        /\ srvPem'.until > day + RenewDays
    BY <1>1, <1>2, <1>4, <2>2, RenewedFits
  <2>4. TypeOK'
    <3>1. keys' \in Nat /\ keys <= keys'
      BY SMT, <1>1, <1>2 DEF TypeOK
    <3>2. QED
      BY <1>1, <1>2, <1>4, <2>1, <2>3, <3>1, OldTypes, CertTypes
  <2>5. FileTruth'
    BY <1>1, <1>2, <2>3 DEF FileTruth, FilesInv, ConfigTrue, NoCaLost, time
  <2>6. ProcInv(p)'
    BY <1>2, <1>4, <2>1, <2>2, <2>3 DEF ProcInv, MayWrite, UpgradeKnown, Replacing, Checked, time,
                                  SetupLabels, ConvertLabels, StartLabels, RotateLabels
  <2>7. QED
    BY <1>1, <1>2, <1>4, <2>1, <2>4, <2>5, <2>6, Alone, AloneKeeps DEF QuietLabels, time
<1>5. QED
  BY <1>3, <1>4 DEF Renew

LEMMA MonitorKeeps == ASSUME IInv, NEW p \in Procs, Monitor(p) PROVE IInv'
<1>1. TypeOK /\ FileTruth /\ ProcInv(p) /\ pc[p] = "serving"
  BY DEF IInv, Monitor
<1>2. UNCHANGED <<version, token, pending, caKey, caPem, srvKey, twoNames, retired, log, keys, time>>
  BY DEF Monitor
<1>3. CASE Ended(p) /\ UNCHANGED <<srvPem, checked>>
  <2>1. UNCHANGED <<files, checked, keys, day, served, origin>> /\ ends' \in Nat
    BY <1>1, <1>2, <1>3 DEF files, certs, time, TypeOK
  <2>2. QED
    BY <1>3, <2>1, EndedKeeps
<1>4. CASE /\ Renewed /\ checked' = TRUE
           /\ loaded' = IF RenewalDue THEN [key |-> srvKey, cert |-> srvPem'] ELSE loaded
           /\ UNCHANGED <<pc, lock, mem>>
  <2>1. /\ lock = p /\ version = "new" /\ (mem[p].upgrade # "no" => origin = "old") /\ Consistent
        /\ loaded = [key |-> srvKey, cert |-> srvPem]
    BY <1>1 DEF ProcInv, MayWrite, UpgradeKnown, Checked, StartLabels
  <2>2. /\ srvPem' \in Leaves /\ Leaves' = Leaves /\ Consistent' /\ srvPem'.until <= caPem.until
        /\ srvPem'.until > day + RenewDays
    BY <1>1, <1>2, <1>4, <2>1, RenewedFits
  <2>3. srvPem'.until \in Nat /\ srvKey \in Keys /\ day \in Nat /\ RenewDays \in Nat /\ Keys' = Keys /\ Cas' = Cas
    BY <1>1, <1>2, <2>1, <2>2, ConsistentTypes, NotNone DEF Keys, Cas
  <2>4. loaded' = [key |-> srvKey, cert |-> srvPem']
    BY <1>4, <2>1 DEF Renewed
  <2>5. TypeOK'
    <3>1. loaded' \in [key : Keys', cert : Leaves']
      BY <2>2, <2>3, <2>4
    <3>2. checked' \in BOOLEAN
      BY <1>4, Zenon
    <3>3. QED
      BY <1>1, <1>2, <1>4, <2>2, <2>3, <3>1, <3>2 DEF TypeOK, time
  <2>6. FileTruth'
    BY <1>1, <1>2, <2>2 DEF FileTruth, FilesInv, ConfigTrue, NoCaLost, time
  <2>7. ProcInv(p)'
    <3>1. srvPem'.until >= day + RenewDays
      BY SMT, <2>2, <2>3
    <3>2. QED
      BY <1>1, <1>2, <1>4, <2>1, <2>2, <2>4, <3>1 DEF ProcInv, MayWrite, UpgradeKnown, Replacing, Checked, time,
                                  SetupLabels, ConvertLabels, StartLabels, RotateLabels
  <2>8. QED
    BY <1>1, <1>2, <1>4, <2>5, <2>6, <2>7, Alone, AloneKeeps DEF QuietLabels, time
<1>5. QED
  BY <1>3, <1>4 DEF Monitor

LEMMA StutterKeeps == ASSUME IInv, UNCHANGED vars PROVE IInv'
<1>1. /\ UNCHANGED <<files, checked, day, origin>> /\ UNCHANGED <<lock, pc, mem, loaded, keys, time>>
      /\ UNCHANGED <<certs, version, token, pending, log>>
  BY DEF vars, files, time
<1>2. TypeOK'
  BY <1>1, TypeFrame DEF IInv, TypeOK, time
<1>3. FileTruth'
  BY <1>1, FilesSame DEF IInv, time
<1>4. OneSetup'
  BY <1>1 DEF IInv, OneSetup
<1>5. ASSUME NEW q \in Procs PROVE ProcInv(q)'
  BY <1>1, Bystander
<1>6. QED
  BY <1>2, <1>3, <1>4, <1>5 DEF IInv

LEMMA NextIInv == IInv /\ [Next]_vars => IInv'
<1> SUFFICES ASSUME IInv, [Next]_vars PROVE IInv'
  OBVIOUS
<1>1. ASSUME NEW p \in Procs, Step(p) PROVE IInv'
  BY <1>1, WriteCaKeyKeeps, WriteCaPemKeeps, WriteServerKeyKeeps, UnlinkServerKeyKeeps, WriteServerPemKeeps,
     WriteTokenKeeps, WriteConfigKeeps, CheckConversionKeeps, WritePendingKeeps, ReadPendingKeeps, CheckStartKeeps, RenewKeeps,
     RecordStartKeeps, RemovePendingKeeps, ListenKeeps, MonitorKeeps, RetireKeeps, DropServerKeyKeeps,
     RotateCompleteKeeps DEF Step
<1>2. QED
  BY <1>1, NextDayKeeps, InitializeKeeps, ServeKeeps, RotateCaKeeps, EndKeeps, StutterKeeps DEF Next

LEMMA InitIInv == Init => IInv
<1> SUFFICES ASSUME Init PROVE IInv
  OBVIOUS
<1>1. /\ \A p \in Procs : pc[p] = "idle" /\ mem[p] = Idle
      /\ retired = {} /\ log = {} /\ served = {} /\ pending = FALSE /\ twoNames = FALSE
      /\ origin = version /\ day = 0
  BY DEF Init
<1>a. CaDays \in Nat /\ LeafDays \in Nat /\ LeafDays <= CaDays /\ None \notin Nat
  BY SMT, StateAssumption
<1>2. CASE /\ version = "none" /\ token = FALSE /\ keys = 0
           /\ caKey = None /\ caPem = None /\ srvKey = None /\ srvPem = None
  <2>1. TypeOK
    <3>1. Idle \in [key : 0 .. keys, upgrade : {"no", "first", "resumed"}]
      BY SMT, <1>2 DEF Idle
    <3>2. "idle" \in Labels
      BY DEF Labels
    <3>3. token \in BOOLEAN /\ pending \in BOOLEAN /\ checked \in BOOLEAN /\ twoNames \in BOOLEAN
      BY <1>1, <1>2, Zenon DEF Init
    <3>4. /\ pc \in [Procs -> Labels] /\ lock \in Procs \cup {None} /\ ends \in Nat
          /\ mem \in [Procs -> [key : 0 .. keys, upgrade : {"no", "first", "resumed"}]]
          /\ loaded \in [key : Keys, cert : Leaves] \cup {None}
      BY <3>1, <3>2 DEF Init
    <3>5. QED
      BY <1>1, <1>2, <3>3, <3>4 DEF TypeOK
  <2>2. FileTruth
    BY <1>1, <1>2 DEF FileTruth, FilesInv, ConfigTrue, NoCaLost, Consistent
  <2>3. QED
    BY SMT, <1>1, <2>1, <2>2 DEF IInv, OneSetup, ProcInv, MayWrite, UpgradeKnown, Replacing, Checked, Idle,
                            SetupLabels, ConvertLabels, StartLabels, RotateLabels
<1>3. CASE /\ version = "old" /\ token = TRUE /\ keys = 2
           /\ caKey = 1 /\ caPem = [key |-> 1, until |-> CaDays]
           /\ srvKey = 2 /\ srvPem = [key |-> 2, issuer |-> 1, until |-> LeafDays]
  <2>1. caKey \in Keys /\ srvKey \in Keys /\ caPem \in Cas /\ srvPem \in Leaves
    BY SMT, <1>a, <1>3 DEF Keys, Cas, Leaves
  <2>2. TypeOK
    <3>1. Idle \in [key : 0 .. keys, upgrade : {"no", "first", "resumed"}]
      BY SMT, <1>3 DEF Idle
    <3>2. "idle" \in Labels
      BY DEF Labels
    <3>3. token \in BOOLEAN /\ pending \in BOOLEAN /\ checked \in BOOLEAN /\ twoNames \in BOOLEAN
      BY <1>1, <1>3, Zenon DEF Init
    <3>4. /\ pc \in [Procs -> Labels] /\ lock \in Procs \cup {None} /\ ends \in Nat
          /\ mem \in [Procs -> [key : 0 .. keys, upgrade : {"no", "first", "resumed"}]]
          /\ loaded \in [key : Keys, cert : Leaves] \cup {None}
      BY <3>1, <3>2 DEF Init
    <3>5. QED
      BY <1>1, <1>3, <2>1, <3>3, <3>4 DEF TypeOK
  <2>3. Consistent /\ srvPem.until <= caPem.until
    BY SMT, <1>1, <1>a, <1>3, <2>1, NotNone DEF Consistent
  <2>4. FileTruth
    BY SMT, <1>1, <1>3, <1>a, <2>3 DEF FileTruth, FilesInv, ConfigTrue, NoCaLost
  <2>5. QED
    BY SMT, <1>1, <2>2, <2>4 DEF IInv, OneSetup, ProcInv, MayWrite, UpgradeKnown, Replacing, Checked, Idle,
                            SetupLabels, ConvertLabels, StartLabels, RotateLabels
<1>4. QED
  BY <1>2, <1>3 DEF Init

THEOREM Invariance == Spec => []IInv
BY InitIInv, NextIInv, PTL DEF Spec

----------------------------------------------------------------------------
(* What config.json says is true, however many processes run init, serve    *)
(* and ca rotate, and wherever each is interrupted: it exists only for a    *)
(* complete instance, and its conversion is in the audit or is noted in     *)
(* upgrade-pending.json.                                                    *)
THEOREM ConfigIsTrue == Spec => []ConfigTrue
<1>1. IInv => ConfigTrue
  BY DEF IInv, FileTruth
<1>2. QED
  BY <1>1, Invariance, PTL

(* Every CA an instance has run with is in place or in a retired copy:      *)
(* rotate_instance_ca copies the files before it replaces one, and nothing  *)
(* runs between the two.                                                    *)
THEOREM CasKept == Spec => []NoCaLost
<1>1. IInv => NoCaLost
  BY DEF IInv, FileTruth
<1>2. QED
  BY <1>1, Invariance, PTL

(* A running instance presents a certificate its exported CA has signed,    *)
(* which has not expired and does not outlive the CA, whatever the          *)
(* lifetimes are, as long as the CA outlives what it signs and the monitor  *)
(* looks once a day (renewal_inputs, monitor).                              *)
THEOREM ChainIsValid == Spec => []ValidChain
<1>1. ASSUME IInv, NEW p \in Serving
      PROVE  /\ Consistent
             /\ loaded.key = loaded.cert.key /\ loaded.cert.issuer = caPem.key
             /\ day < loaded.cert.until /\ loaded.cert.until <= caPem.until
  <2>1. p \in Procs /\ pc[p] = "serving" /\ TypeOK /\ FileTruth /\ Checked(p)
    BY <1>1 DEF IInv, Serving, ProcInv
  <2>2. Consistent /\ loaded = [key |-> srvKey, cert |-> srvPem] /\ srvPem.until >= day + RenewDays
    BY <2>1 DEF Checked
  <2>3. loaded.key = srvKey /\ loaded.cert = srvPem
    BY <2>2
  <2>4. srvPem.until <= caPem.until
    BY <2>1, <2>2 DEF FileTruth, FilesInv
  <2>5. day < srvPem.until
    BY SMT, <2>1, <2>2, ConsistentTypes, StateAssumption
  <2>6. QED
    BY <2>2, <2>3, <2>4, <2>5 DEF Consistent
<1>2. IInv => ValidChain
  BY <1>1 DEF ValidChain
<1>3. QED
  BY <1>2, Invariance, PTL
----------------------------------------------------------------------------
(* The configuration of an instance: whoever replaces or reads files is     *)
(* alone with instance.lock.                                                *)
FilesOf(role) ==
    CASE role = "helper" -> {"helper/inventory.json", "helper/vault.json"}
      [] role = "admin" -> {"admin/notification.env", "admin/config.json", "admin/vault.json"}
      [] role = "auditor" -> {"auditor/inventory.json", "auditor/vault.json", "auditor/config.json"}
      [] role = "syslog" -> {"gateway/syslog-ca.pem", "gateway/config.json"}

DocLabels == {"preflight", "check"}
ReadLabels == {"cli_preflight", "cli", "starting", "serving"}
ConfigLabels == {"idle", "replace", "recover"} \cup DocLabels \cup ReadLabels
Contents == [Configuration!Files -> Documents \cup {None}]
ConfigJobs == [doc : Documents \cup {None}, done : Nat, read : Contents \cup {None}]

(* a file a command has replaced *)
Holds(d, f) ==
    IF f = "admin/notification.env" /\ d.part = "kept" THEN file[f] # None ELSE file[f] = d

Whole(role) == Configuration!Fits(role) \/ role \in interrupted

(* what a command works with *)
ReplacingWell(p) ==
    LET d == job[p].doc IN
    /\ d \in Documents /\ job[p].done < Len(Configuration!Replaced(d)) /\ ~Configuration!Missing(d)
    /\ \A i \in 1 .. job[p].done : Holds(d, Configuration!Replaced(d)[i])
    /\ job[p].done = 0 => Whole(d.role)
CommandInv(p) ==
    /\ label[p] # "idle" => holder = p
    /\ label[p] \in DocLabels => job[p].doc \in Documents /\ job[p].done = 0
    /\ label[p] = "replace" => ReplacingWell(p)
    /\ label[p] \in ReadLabels => job[p].read = file

ConfigTypes == file \in Contents /\ label \in [Procs -> ConfigLabels] /\ job \in [Procs -> ConfigJobs]
LastOwned ==
    \A role \in Configuration!Roles :
        LET d == file[Configuration!LastFile(role)] IN d # None => d.role = role
ConfigInv ==
    /\ ConfigTypes /\ LastOwned /\ Configuration!OneDocument
    /\ \A p \in Procs : CommandInv(p)

(* The files of the roles are different ones. *)
LEMMA RoleFiles ==
    /\ \A role \in Configuration!Roles :
          /\ FilesOf(role) \subseteq Configuration!Files /\ Configuration!LastFile(role) \in FilesOf(role)
          /\ Configuration!LastFile(role) # "admin/notification.env"
    /\ \A r, role \in Configuration!Roles : \A f \in FilesOf(r) : f \in FilesOf(role) => r = role
BY SMT DEF FilesOf, Configuration!Files, Configuration!LastFile, Configuration!Roles

(* What a document replaces *)
LEMMA ReplacedFiles ==
    ASSUME NEW d \in Documents
    PROVE  LET s == Configuration!Replaced(d) IN
           /\ Len(s) \in Nat \ {0} /\ DOMAIN s = 1 .. Len(s)
           /\ \A i \in DOMAIN s : s[i] \in FilesOf(d.role)
           /\ s[Len(s)] = Configuration!LastFile(d.role) /\ d.role \in Configuration!Roles
<1>1. d.role \in Configuration!Roles /\ d # None
  BY DocumentAssumption DEF Configuration!configure_limits, Configuration!Document
<1>2. CASE d.role = "helper"
  BY <1>1, <1>2, SMT DEF Configuration!Replaced, FilesOf, Configuration!LastFile
<1>3. CASE d.role = "admin"
  BY <1>1, <1>3, SMT DEF Configuration!Replaced, FilesOf, Configuration!LastFile
<1>4. CASE d.role = "auditor"
  BY <1>1, <1>4, SMT DEF Configuration!Replaced, FilesOf, Configuration!LastFile
<1>5. CASE d.role = "syslog"
  BY <1>1, <1>5, SMT DEF Configuration!Replaced, FilesOf, Configuration!LastFile
<1> QED BY <1>1, <1>2, <1>3, <1>4, <1>5 DEF Configuration!Roles

(* Whoever is at work is alone. *)
LEMMA AloneAtWork ==
    ASSUME ConfigInv, NEW p \in Procs, label[p] # "idle" \/ holder = None
    PROVE  \A q \in Procs \ {p} : label[q] = "idle"
<1>1. \A q \in Procs : label[q] # "idle" => holder = q
  BY DEF ConfigInv, CommandInv
<1>2. None \notin Procs
  BY DocumentAssumption DEF Configuration!configure_limits
<1> QED BY <1>1, <1>2

(* A step of one command keeps the invariant, if it does so for its own     *)
(* part.                                                                    *)
LEMMA OwnPart ==
    ASSUME NEW p \in Procs, \A q \in Procs \ {p} : label'[q] = "idle",
           ConfigTypes', LastOwned', Configuration!OneDocument', CommandInv(p)'
    PROVE  ConfigInv'
<1>1. ASSUME NEW q \in Procs \ {p} PROVE CommandInv(q)'
  BY DEF CommandInv, DocLabels, ReadLabels
<1> QED BY <1>1 DEF ConfigInv

(* What does not change when no file is replaced *)
LEMMA QuietFiles ==
    ASSUME ConfigInv, file' = file, interrupted \subseteq interrupted', NEW p \in Procs,
           \A q \in Procs \ {p} : label[q] = "idle"
    PROVE  /\ LastOwned'
           /\ \A role \in Configuration!Roles : Whole(role) => Whole(role)'
           /\ (\A r \in Configuration!Roles : label[p] = "replace" /\ job[p].doc.role = r => Whole(r)')
              => Configuration!OneDocument'
<1>1. LastOwned'
  BY DEF ConfigInv, LastOwned
<1>2. \A role \in Configuration!Roles : Whole(role) => Whole(role)'
  BY DEF Whole, Configuration!Fits, Configuration!Content
<1>3. ASSUME \A r \in Configuration!Roles : label[p] = "replace" /\ job[p].doc.role = r => Whole(r)',
             NEW role \in Configuration!Roles
      PROVE  Whole(role)'
  <2>1. CASE Whole(role)
    BY <1>2, <2>1
  <2>2. CASE ~Whole(role)
    <3>1. PICK q \in Procs : label[q] = "replace" /\ job[q].doc.role = role
      BY <2>2 DEF ConfigInv, Configuration!OneDocument, Whole
    <3>2. q = p
      BY <3>1
    <3> QED BY <1>3, <3>1, <3>2
  <2> QED BY <2>1, <2>2
<1> QED BY <1>1, <1>2, <1>3 DEF Configuration!OneDocument, Whole

LEMMA IdleJob == Configuration!Idle \in ConfigJobs
BY DEF Configuration!Idle, ConfigJobs

(* A command ends, and nobody is at work. *)
LEMMA ExitStep ==
    ASSUME ConfigInv, NEW p \in Procs, label[p] # "idle", Configuration!Exit(p), file' = file,
           interrupted \subseteq interrupted',
           \A r \in Configuration!Roles : label[p] = "replace" /\ job[p].doc.role = r => Whole(r)'
    PROVE  ConfigInv'
<1>1. \A q \in Procs \ {p} : label[q] = "idle"
  BY AloneAtWork
<1>2. /\ label \in [Procs -> ConfigLabels] /\ job \in [Procs -> ConfigJobs] /\ file \in Contents
      /\ label' = [label EXCEPT ![p] = "idle"] /\ job' = [job EXCEPT ![p] = Configuration!Idle]
  BY DEF ConfigInv, ConfigTypes, Configuration!Exit
<1>3. ConfigTypes'
  BY <1>2, IdleJob DEF ConfigTypes, ConfigLabels
<1>4. label'[p] = "idle" /\ \A q \in Procs \ {p} : label'[q] = "idle"
  BY <1>1, <1>2
<1>5. CommandInv(p)'
  BY <1>4 DEF CommandInv, DocLabels, ReadLabels
<1> QED BY <1>1, <1>3, <1>4, <1>5, QuietFiles, OwnPart

(* A command begins: it takes the lock. *)
LEMMA AcquireStep ==
    ASSUME ConfigInv, NEW p \in Procs, NEW l \in ConfigLabels \ {"idle", "replace"}, NEW j \in ConfigJobs,
           Configuration!acquire_state(p, l, j),
           l \in DocLabels => j.doc \in Documents /\ j.done = 0, l \in ReadLabels => j.read = file
    PROVE  ConfigInv'
<1>1. \A q \in Procs \ {p} : label[q] = "idle"
  BY AloneAtWork DEF Configuration!acquire_state
<1>2. /\ label \in [Procs -> ConfigLabels] /\ job \in [Procs -> ConfigJobs] /\ file \in Contents
      /\ label[p] = "idle" /\ label' = [label EXCEPT ![p] = l] /\ job' = [job EXCEPT ![p] = j]
      /\ holder' = p /\ file' = file /\ interrupted' = interrupted
  BY DEF ConfigInv, ConfigTypes, Configuration!acquire_state, Configuration!Goto
<1>3. ConfigTypes'
  BY <1>2 DEF ConfigTypes
<1>4. label'[p] = l /\ job'[p] = j /\ \A q \in Procs \ {p} : label'[q] = "idle"
  BY <1>1, <1>2
<1>5. CommandInv(p)'
  BY <1>2, <1>4 DEF CommandInv
<1> QED BY <1>1, <1>2, <1>3, <1>4, <1>5, QuietFiles, OwnPart

(* A command goes on without replacing a file. *)
LEMMA MoveStep ==
    ASSUME ConfigInv, NEW p \in Procs, label[p] \notin {"idle", "replace"}, NEW l \in ConfigLabels,
           label' = [label EXCEPT ![p] = l], job' \in [Procs -> ConfigJobs],
           UNCHANGED <<file, holder, interrupted>>, CommandInv(p)'
    PROVE  ConfigInv'
<1>1. \A q \in Procs \ {p} : label[q] = "idle"
  BY AloneAtWork
<1>2. label \in [Procs -> ConfigLabels] /\ file \in Contents
  BY DEF ConfigInv, ConfigTypes
<1>3. ConfigTypes'
  BY <1>2 DEF ConfigTypes
<1>4. \A q \in Procs \ {p} : label'[q] = "idle"
  BY <1>1, <1>2
<1> QED BY <1>1, <1>3, <1>4, QuietFiles, OwnPart


(* _operator_audit_preflight *)
LEMMA PreflightStep ==
    ASSUME ConfigInv, NEW p \in Procs, Configuration!Preflight(p)
    PROVE  ConfigInv'
<1>1. label[p] = "preflight" /\ file' = file /\ interrupted' = interrupted
  BY DEF Configuration!Preflight
<1>2. /\ label \in [Procs -> ConfigLabels] /\ job \in [Procs -> ConfigJobs]
      /\ holder = p /\ job[p].doc \in Documents /\ job[p].done = 0
  BY <1>1 DEF ConfigInv, ConfigTypes, CommandInv, DocLabels
<1>3. CASE Configuration!Exit(p)
  BY <1>1, <1>3, ExitStep
<1>4. CASE label' = [label EXCEPT ![p] = "check"] /\ UNCHANGED <<holder, job>>
  <2>2. label'[p] = "check"
    BY <1>2, <1>4
  <2>3. CommandInv(p)'
    BY <1>2, <1>4, <2>2 DEF CommandInv, DocLabels, ReadLabels
  <2> QED BY <1>1, <1>2, <1>4, <2>3, MoveStep DEF ConfigLabels, DocLabels
<1> QED BY <1>3, <1>4 DEF Configuration!Preflight, Configuration!Goto

(* the checks before the first file is replaced *)
LEMMA CheckStep ==
    ASSUME ConfigInv, NEW p \in Procs, Configuration!Check(p)
    PROVE  ConfigInv'
<1>1. label[p] = "check" /\ file' = file /\ interrupted' = interrupted
  BY DEF Configuration!Check
<1>2. /\ label \in [Procs -> ConfigLabels] /\ job \in [Procs -> ConfigJobs]
      /\ holder = p /\ job[p].doc \in Documents /\ job[p].done = 0
  BY <1>1 DEF ConfigInv, ConfigTypes, CommandInv, DocLabels
<1>3. CASE Configuration!Exit(p)
  BY <1>1, <1>3, ExitStep
<1>4. CASE /\ label' = [label EXCEPT ![p] = "replace"] /\ UNCHANGED <<job, holder>>
           /\ ~Configuration!Missing(job[p].doc)
  <2>1. label'[p] = "replace" /\ job'[p] = job[p]
    BY <1>2, <1>4
  <2>2. ReplacingWell(p)'
    <3> DEFINE d == job[p].doc
    <3>1. d.role \in Configuration!Roles /\ Len(Configuration!Replaced(d)) \in Nat \ {0}
      BY <1>2, ReplacedFiles
    <3>2. \A q \in Procs : label[q] # "replace"
      BY <1>1, AloneAtWork
    <3>3. Whole(d.role)
      BY <3>1, <3>2 DEF ConfigInv, Configuration!OneDocument, Whole
    <3>4. (~Configuration!Missing(d))' /\ (Whole(d.role))'
      BY <1>1, <1>4, <3>3 DEF Configuration!Missing, Whole, Configuration!Fits, Configuration!Content
    <3>5. job[p].done < Len(Configuration!Replaced(d)) /\ 1 .. job[p].done = {}
      BY <1>2, <3>1, SMT
    <3>6. (Len(Configuration!Replaced(d)))' = Len(Configuration!Replaced(d))
      BY <1>4 DEF Configuration!Replaced
    <3> QED BY <1>2, <1>4, <3>4, <3>5, <3>6 DEF ReplacingWell
  <2>3. CommandInv(p)'
    BY <1>2, <1>4, <2>1, <2>2 DEF CommandInv, DocLabels, ReadLabels
  <2> QED BY <1>1, <1>2, <1>4, <2>3, MoveStep DEF ConfigLabels
<1> QED BY <1>3, <1>4 DEF Configuration!Check, Configuration!Goto

(* A file of a role is replaced: what is so of the other roles stays so. *)
LEMMA OtherRoles ==
    ASSUME ConfigInv, NEW d \in Documents, NEW f \in FilesOf(d.role), NEW c \in Documents \cup {None},
           file' = [file EXCEPT ![f] = c], f = Configuration!LastFile(d.role) => c = d,
           NEW role \in Configuration!Roles, role # d.role
    PROVE  Configuration!Fits(role) => Configuration!Fits(role)'
<1> DEFINE L == Configuration!LastFile(role)
           e == file[L]
<1>1. d.role \in Configuration!Roles /\ file \in Contents /\ file' \in Contents
  BY ReplacedFiles, RoleFiles DEF ConfigInv, ConfigTypes, Contents
<1>2. \A g \in FilesOf(role) : file'[g] = file[g]
  BY <1>1, RoleFiles DEF Contents
<1>3. file'[L] = e /\ L \in Configuration!Files
  BY <1>2, RoleFiles
<1>4. CASE e = None
  BY <1>3, <1>4 DEF Configuration!Fits
<1>5. CASE e # None
  <2>1. e \in Documents /\ e.role = role
    BY <1>1, <1>3, <1>5 DEF Contents, ConfigInv, LastOwned
  <2>2. \A i \in DOMAIN Configuration!Replaced(e) :
           file'[Configuration!Replaced(e)[i]] = file[Configuration!Replaced(e)[i]]
    BY <1>2, <2>1, ReplacedFiles
  <2> DEFINE Fit(g, x) ==
               IF (IF g = "admin/notification.env" /\ e.part = "kept" THEN x ELSE e) = e THEN x = e ELSE x # None
  <2>3. Configuration!Fits(role) <=>
           \A i \in DOMAIN Configuration!Replaced(e) :
              Fit(Configuration!Replaced(e)[i], file[Configuration!Replaced(e)[i]])
    BY <1>5 DEF Configuration!Fits, Configuration!Content
  <2>4. Configuration!Fits(role)' <=>
           \A i \in DOMAIN Configuration!Replaced(e) :
              Fit(Configuration!Replaced(e)[i], file'[Configuration!Replaced(e)[i]])
    <3> HIDE DEF e
    <3>1. file'[L] = e /\ e # None
      BY <1>3, <1>5
    <3> HIDE DEF L
    <3>2. Configuration!Fits(role)' <=>
             (file'[L] # None => \A i \in DOMAIN Configuration!Replaced(file'[L]) :
                 LET g == Configuration!Replaced(file'[L])[i] IN
                 IF (IF g = "admin/notification.env" /\ file'[L].part = "kept" THEN file'[g] ELSE file'[L]) = file'[L]
                 THEN file'[g] = file'[L] ELSE file'[g] # None)
      BY DEF Configuration!Fits, Configuration!Content, L
    <3> QED BY <3>1, <3>2
  <2> HIDE DEF Fit
  <2> QED BY <2>2, <2>3, <2>4
<1> QED BY <1>4, <1>5


(* The file a command replaces next, and with what *)
Replacement(p, d, n, f, c) ==
    /\ label[p] = "replace" /\ d = job[p].doc /\ n = job[p].done + 1
    /\ file' = [file EXCEPT ![f] = c] /\ d \in Documents
    /\ n \in Nat /\ n \in DOMAIN Configuration!Replaced(d) /\ f = Configuration!Replaced(d)[n]
    /\ f \in FilesOf(d.role) /\ f \in Configuration!Files
    /\ \A i \in 1 .. n : i # n => Holds(d, Configuration!Replaced(d)[i])
    /\ c = Configuration!Content(d, f) /\ c \in Documents \cup {None} /\ ~Configuration!Missing(d)
    /\ f # "admin/notification.env" => c = d
    /\ f = Configuration!LastFile(d.role) => c = d

LEMMA NextFile ==
    ASSUME ConfigInv, NEW p \in Procs, Configuration!Replace(p)
    PROVE  \E d, n, f, c : Replacement(p, d, n, f, c)
<1>1. PICK d : d = job[p].doc
  OBVIOUS
<1>2. PICK n : n = job[p].done + 1
  OBVIOUS
<1>3. PICK f : f = Configuration!Replaced(d)[n]
  OBVIOUS
<1>4. PICK c : c = Configuration!Content(d, f)
  OBVIOUS
<1>5. label[p] = "replace" /\ file' = [file EXCEPT ![f] = c]
  BY <1>1, <1>2, <1>3, <1>4 DEF Configuration!Replace
<1>6. file \in Contents /\ job[p].done \in Nat /\ ReplacingWell(p)
  BY <1>5 DEF ConfigInv, ConfigTypes, CommandInv, ConfigJobs
<1>7. /\ d \in Documents /\ job[p].done < Len(Configuration!Replaced(d)) /\ ~Configuration!Missing(d)
      /\ \A i \in 1 .. job[p].done : Holds(d, Configuration!Replaced(d)[i])
  BY <1>1, <1>6 DEF ReplacingWell
<1>8. /\ Len(Configuration!Replaced(d)) \in Nat \ {0}
      /\ DOMAIN Configuration!Replaced(d) = 1 .. Len(Configuration!Replaced(d))
      /\ \A i \in DOMAIN Configuration!Replaced(d) : Configuration!Replaced(d)[i] \in FilesOf(d.role)
      /\ d.role \in Configuration!Roles
  BY <1>7, ReplacedFiles
<1>9. n \in Nat /\ n \in DOMAIN Configuration!Replaced(d) /\ \A i \in 1 .. n : i # n => i \in 1 .. job[p].done
  BY <1>2, <1>6, <1>7, <1>8, SMT
<1>10. f \in FilesOf(d.role) /\ f \in Configuration!Files
  BY <1>3, <1>8, <1>9, RoleFiles
<1>11. c \in Documents \cup {None} /\ (f # "admin/notification.env" => c = d)
  BY <1>4, <1>6, <1>7, <1>10 DEF Configuration!Content, Contents
<1>12. f = Configuration!LastFile(d.role) => c = d
  BY <1>8, <1>11, RoleFiles
<1>13. \A i \in 1 .. n : i # n => Holds(d, Configuration!Replaced(d)[i])
  BY <1>7, <1>9
<1>14. Replacement(p, d, n, f, c)
  BY <1>1, <1>2, <1>3, <1>4, <1>5, <1>7, <1>9, <1>10, <1>11, <1>12, <1>13 DEF Replacement
<1> QED BY <1>14

(* One more file is replaced, or the last one. *)
LEMMA ReplaceStep ==
    ASSUME ConfigInv, NEW p \in Procs, Configuration!Replace(p),
           NEW d, NEW n, NEW f, NEW c, Replacement(p, d, n, f, c)
    PROVE  ConfigInv'
<1> DEFINE s == Configuration!Replaced(d)
<1>1. /\ label[p] = "replace" /\ d \in Documents /\ f \in FilesOf(d.role) /\ f \in Configuration!Files
      /\ c \in Documents \cup {None} /\ (f = Configuration!LastFile(d.role) => c = d)
      /\ file' = [file EXCEPT ![f] = c]
  BY DEF Replacement
<1>2. /\ label \in [Procs -> ConfigLabels] /\ job \in [Procs -> ConfigJobs] /\ file \in Contents
      /\ holder = p
  BY <1>1 DEF ConfigInv, ConfigTypes, CommandInv
<1>3. file' \in Contents
  BY <1>1, <1>2 DEF Contents
<1>4. file'[f] = c /\ \A g \in Configuration!Files : g # f => file'[g] = file[g]
  BY <1>1, <1>2 DEF Contents
<1>5. /\ Len(s) \in Nat \ {0} /\ DOMAIN s = 1 .. Len(s)
      /\ \A i \in DOMAIN s : s[i] \in FilesOf(d.role) /\ s[i] \in Configuration!Files
      /\ s[Len(s)] = Configuration!LastFile(d.role) /\ d.role \in Configuration!Roles
  BY <1>1, ReplacedFiles, RoleFiles
<1>6. LastOwned'
  <2> SUFFICES ASSUME NEW role \in Configuration!Roles, file'[Configuration!LastFile(role)] # None
               PROVE  file'[Configuration!LastFile(role)].role = role
    BY DEF LastOwned
  <2>1. Configuration!LastFile(role) \in FilesOf(role) /\ Configuration!LastFile(role) \in Configuration!Files
    BY RoleFiles
  <2>2. CASE Configuration!LastFile(role) = f
    <3>1. role = d.role
      BY <1>1, <1>5, <2>1, <2>2, RoleFiles
    <3> QED BY <1>1, <1>4, <2>2, <3>1
  <2>3. CASE Configuration!LastFile(role) # f
    BY <1>4, <2>1, <2>3 DEF ConfigInv, LastOwned
  <2> QED BY <2>2, <2>3
<1>7. \A q \in Procs \ {p} : label[q] = "idle"
  BY <1>1, AloneAtWork
<1>8. n \in Nat /\ n \in DOMAIN s /\ f = s[n]
  BY DEF Replacement
<1>9. ASSUME NEW i \in 1 .. n PROVE Holds(d, s[i])'
  <2>1. s[i] \in Configuration!Files
    <3>1. i \in DOMAIN s
      <4> HIDE DEF s
      <4> QED BY <1>5, <1>8, SMT
    <3> QED BY <1>5, <3>1
  <2>2. CASE s[i] = f
    <3>1. CASE f = "admin/notification.env" /\ d.part = "kept"
      <4>1. c = file[f] /\ d.role = "admin"
        BY <1>1, <1>5, <3>1, SMT DEF Replacement, Configuration!Content, FilesOf, Configuration!Roles
      <4>2. c # None
        BY <3>1, <4>1 DEF Replacement, Configuration!Missing
      <4> QED BY <1>4, <2>2, <3>1, <4>2 DEF Holds
    <3>2. CASE ~(f = "admin/notification.env" /\ d.part = "kept")
      <4>1. c = d
        BY <3>2 DEF Replacement, Configuration!Content
      <4> QED BY <1>4, <2>2, <3>2, <4>1 DEF Holds
    <3> QED BY <3>1, <3>2
  <2>3. CASE s[i] # f
    <3>1. i # n
      BY <1>8, <2>3
    <3>2. Holds(d, s[i])
      BY <3>1 DEF Replacement
    <3> QED BY <1>4, <2>1, <2>3, <3>2 DEF Holds
  <2> QED BY <2>2, <2>3
<1>10. ASSUME NEW role \in Configuration!Roles, role # d.role
       PROVE  Configuration!Fits(role)' \/ role \in interrupted
  <2>1. \A q \in Procs : label[q] = "replace" => job[q].doc.role = d.role
    BY <1>7 DEF Replacement
  <2>2. Configuration!Fits(role) \/ role \in interrupted
    BY <1>10, <2>1 DEF ConfigInv, Configuration!OneDocument
  <2>3. Configuration!Fits(role) => Configuration!Fits(role)'
    BY <1>1, <1>10, OtherRoles
  <2> QED BY <2>2, <2>3
<1>11. CASE n = Len(s)
  <2>1. /\ label' = [label EXCEPT ![p] = "idle"] /\ job' = [job EXCEPT ![p] = Configuration!Idle]
        /\ interrupted' = interrupted \ {d.role}
    BY <1>11 DEF Replacement, Configuration!Replace, Configuration!Exit
  <2>2. ConfigTypes'
    BY <1>2, <1>3, <2>1, IdleJob DEF ConfigTypes, ConfigLabels
  <2>3. label'[p] = "idle" /\ \A q \in Procs \ {p} : label'[q] = "idle"
    BY <1>2, <1>7, <2>1
  <2>4. Configuration!Fits(d.role)'
    <3>1. f = Configuration!LastFile(d.role) /\ file'[f] = d
      BY <1>1, <1>4, <1>5, <1>8, <1>11
    <3>2. \A i \in DOMAIN s : Holds(d, s[i])'
      BY <1>5, <1>9, <1>11
    <3>3. \A i \in DOMAIN s :
             IF s[i] = "admin/notification.env" /\ d.part = "kept" THEN file'[s[i]] # None
             ELSE file'[s[i]] = d
      BY <3>2 DEF Holds
    <3>4. Configuration!Fits(d.role)' <=>
             (file'[f] # None => \A i \in DOMAIN Configuration!Replaced(file'[f]) :
                 LET g == Configuration!Replaced(file'[f])[i] IN
                 IF (IF g = "admin/notification.env" /\ file'[f].part = "kept" THEN file'[g] ELSE file'[f]) = file'[f]
                 THEN file'[g] = file'[f] ELSE file'[g] # None)
      BY <3>1 DEF Configuration!Fits, Configuration!Content
    <3> QED BY <3>1, <3>3, <3>4
  <2>5. Configuration!OneDocument'
    <3>1. ASSUME NEW role \in Configuration!Roles
          PROVE  Configuration!Fits(role)' \/ role \in interrupted'
      BY <1>10, <2>1, <2>4
    <3> QED BY <3>1 DEF Configuration!OneDocument
  <2>6. CommandInv(p)'
    BY <2>3 DEF CommandInv, DocLabels, ReadLabels
  <2> QED BY <1>6, <2>2, <2>3, <2>5, <2>6, OwnPart
<1>12. CASE n # Len(s)
  <2>1. job' = [job EXCEPT ![p].done = @ + 1] /\ UNCHANGED <<label, holder, interrupted>>
    BY <1>12 DEF Replacement, Configuration!Replace
  <2>2. job'[p].doc = d /\ job'[p].done = n /\ job' \in [Procs -> ConfigJobs]
    <3>1. job[p] \in [doc : Documents \cup {None}, done : Nat, read : Contents \cup {None}]
      BY <1>2 DEF ConfigJobs
    <3>2. /\ job'[p] = [job[p] EXCEPT !.done = @ + 1] /\ job' = [job EXCEPT ![p] = job'[p]]
          /\ job[p].doc = d /\ job[p].done + 1 = n
      BY <1>2, <2>1 DEF Replacement
    <3>3. [job[p] EXCEPT !.done = @ + 1] \in [doc : Documents \cup {None}, done : Nat, read : Contents \cup {None}]
      BY <3>1, SMT
    <3>4. [job[p] EXCEPT !.done = @ + 1].doc = job[p].doc /\ [job[p] EXCEPT !.done = @ + 1].done = job[p].done + 1
      BY <3>1, SMT
    <3> QED BY <1>2, <3>2, <3>3, <3>4 DEF ConfigJobs
  <2>3. ConfigTypes'
    BY <1>2, <1>3, <2>1, <2>2 DEF ConfigTypes
  <2>4. Configuration!OneDocument'
    <3>1. ASSUME NEW role \in Configuration!Roles
          PROVE  (Configuration!Fits(role) \/ role \in interrupted)'
                 \/ (label'[p] = "replace" /\ job'[p].doc.role = role)
      BY <1>1, <1>10, <2>1, <2>2
    <3> QED BY <3>1 DEF Configuration!OneDocument
  <2>5. ReplacingWell(p)'
    <3>1. n < Len(s) /\ n # 0
      <4> DEFINE m == Len(s)
      <4>1. n \in 1 .. m /\ m \in Nat /\ n # m
        BY <1>5, <1>8, <1>12
      <4> HIDE DEF m
      <4>2. n < m /\ n # 0
        BY <4>1, SMT
      <4> QED BY <4>2 DEF m
    <3>2. ~Configuration!Missing(d)'
      <4>1. ~Configuration!Missing(d)
        BY DEF Replacement
      <4>2. CASE f = "admin/notification.env"
        BY <1>1, <1>4, <4>1, <4>2, DocumentAssumption
           DEF Configuration!Missing, Replacement, Configuration!Content, Configuration!configure_limits
      <4>3. CASE f # "admin/notification.env"
        <5>1. "admin/notification.env" \in Configuration!Files
          BY DEF Configuration!Files
        <5> QED BY <1>4, <4>1, <4>3, <5>1 DEF Configuration!Missing
      <4> QED BY <4>2, <4>3
    <3> QED BY <1>1, <1>9, <2>2, <3>1, <3>2 DEF ReplacingWell
  <2>6. CommandInv(p)'
    BY <1>1, <1>2, <2>1, <2>5 DEF CommandInv, DocLabels, ReadLabels
  <2>7. \A q \in Procs \ {p} : label'[q] = "idle"
    BY <1>7, <2>1
  <2> QED BY <1>6, <2>3, <2>4, <2>6, <2>7, OwnPart
<1> QED BY <1>11, <1>12


(* A command is cut off. *)
LEMMA CutStep ==
    ASSUME ConfigInv, NEW p \in Procs, Configuration!End(p)
    PROVE  ConfigInv'
<1>1. /\ label[p] # "idle" /\ Configuration!Exit(p) /\ file' = file /\ interrupted \subseteq interrupted'
      /\ label[p] = "replace" /\ job[p].done > 0 => job[p].doc.role \in interrupted'
  BY DEF Configuration!End
<1>2. ASSUME NEW r \in Configuration!Roles, label[p] = "replace", job[p].doc.role = r
      PROVE  Whole(r)'
  <2>1. ReplacingWell(p) /\ job[p].done \in Nat
    BY <1>2 DEF ConfigInv, CommandInv, ConfigTypes, ConfigJobs
  <2>2. CASE job[p].done = 0
    <3>1. Whole(r)
      BY <1>2, <2>1, <2>2 DEF ReplacingWell
    <3>2. \A q \in Procs \ {p} : label[q] = "idle"
      BY <1>1, AloneAtWork
    <3> QED BY <1>1, <3>1, <3>2, QuietFiles
  <2>3. CASE job[p].done # 0
    <3>1. job[p].done > 0
      BY <2>1, <2>3, SMT
    <3> QED BY <1>1, <1>2, <3>1 DEF Whole
  <2> QED BY <2>2, <2>3
<1> QED BY <1>1, <1>2, ExitStep

(* A command that only reads, the recovery of the audit or an instance goes *)
(* on or ends.                                                              *)
LEMMA ReaderStep ==
    ASSUME ConfigInv, NEW p \in Procs,
           \/ Configuration!CliPreflight(p) \/ Configuration!CliDone(p) \/ Configuration!Recover(p)
           \/ Configuration!Start(p) \/ Configuration!Request(p) \/ Configuration!Deliver(p)
           \/ Configuration!Stop(p)
    PROVE  ConfigInv'
<1>1. /\ label[p] \in ReadLabels \cup {"recover"} /\ UNCHANGED <<file, interrupted>>
      /\ \/ Configuration!Exit(p)
         \/ /\ label[p] \in ReadLabels /\ UNCHANGED <<job, holder>>
            /\ \E l \in ReadLabels : label' = [label EXCEPT ![p] = l]
  <2>1. label \in [Procs -> ConfigLabels]
    BY DEF ConfigInv, ConfigTypes
  <2>2. CASE Configuration!CliPreflight(p) \/ Configuration!CliDone(p) \/ Configuration!Recover(p)
    BY <2>2 DEF Configuration!CliPreflight, Configuration!CliDone, Configuration!Recover, ReadLabels, Configuration!Goto
  <2>3. CASE Configuration!Start(p) \/ Configuration!Stop(p)
    BY <2>3 DEF Configuration!Start, Configuration!Stop, ReadLabels, Configuration!Goto
  <2>4. CASE Configuration!Request(p) \/ Configuration!Deliver(p)
    <3>1. label[p] = "serving" /\ UNCHANGED <<file, interrupted, job, holder, label>>
      BY <2>4 DEF Configuration!Request, Configuration!Deliver
    <3>2. label' = [label EXCEPT ![p] = "serving"]
      BY <2>1, <3>1
    <3> QED BY <3>1, <3>2 DEF ReadLabels
  <2> QED BY <2>2, <2>3, <2>4
<1>2. label[p] \notin {"idle", "replace"}
  BY <1>1 DEF ReadLabels
<1>3. CASE Configuration!Exit(p)
  BY <1>1, <1>2, <1>3, ExitStep
<1>4. ASSUME label[p] \in ReadLabels, UNCHANGED <<job, holder>>, NEW l \in ReadLabels,
             label' = [label EXCEPT ![p] = l]
      PROVE  ConfigInv'
  <2>1. label \in [Procs -> ConfigLabels] /\ job \in [Procs -> ConfigJobs] /\ holder = p /\ job[p].read = file
    BY <1>2, <1>4 DEF ConfigInv, ConfigTypes, CommandInv
  <2>2. label'[p] = l
    BY <1>4, <2>1
  <2>3. CommandInv(p)'
    BY <1>1, <1>4, <2>1, <2>2 DEF CommandInv, DocLabels, ReadLabels
  <2> QED BY <1>1, <1>2, <1>4, <2>1, <2>3, MoveStep DEF ConfigLabels
<1> QED BY <1>1, <1>3, <1>4

(* A command begins. *)
LEMMA BeginStep ==
    ASSUME ConfigInv, NEW p \in Procs,
           \/ \E d \in Documents : Configuration!ConfigureRole(p, d)
           \/ Configuration!RoleCommand(p) \/ Configuration!RecoverAudit(p) \/ Configuration!Serve(p)
    PROVE  ConfigInv'
<1>1. file \in Contents
  BY DEF ConfigInv, ConfigTypes
<1>2. ASSUME NEW d \in Documents
      PROVE  /\ [Configuration!Idle EXCEPT !.doc = d] \in ConfigJobs
             /\ [Configuration!Idle EXCEPT !.doc = d].doc = d /\ [Configuration!Idle EXCEPT !.doc = d].done = 0
  <2>1. [Configuration!Idle EXCEPT !.doc = d] = [doc |-> d, done |-> 0, read |-> None]
    BY SMT DEF Configuration!Idle
  <2>2. /\ [doc |-> d, done |-> 0, read |-> None] \in ConfigJobs
        /\ [doc |-> d, done |-> 0, read |-> None].doc = d /\ [doc |-> d, done |-> 0, read |-> None].done = 0
    BY DEF ConfigJobs
  <2> QED BY ONLY <2>1, <2>2
<1>3. /\ [Configuration!Idle EXCEPT !.read = file] \in ConfigJobs
      /\ [Configuration!Idle EXCEPT !.read = file].read = file
  <2>1. [Configuration!Idle EXCEPT !.read = file] = [doc |-> None, done |-> 0, read |-> file]
    BY SMT DEF Configuration!Idle
  <2>2. /\ [doc |-> None, done |-> 0, read |-> file] \in ConfigJobs
        /\ [doc |-> None, done |-> 0, read |-> file].read = file
    BY <1>1 DEF ConfigJobs
  <2> QED BY ONLY <2>1, <2>2
<1>4. /\ DocLabels \cup ReadLabels \cup {"recover"} \subseteq ConfigLabels \ {"idle", "replace"}
      /\ DocLabels \cap ReadLabels = {} /\ "recover" \notin DocLabels \cup ReadLabels
      /\ "preflight" \in DocLabels /\ {"cli_preflight", "cli", "starting"} \subseteq ReadLabels
  BY DEF DocLabels, ReadLabels, ConfigLabels
<1>5. ASSUME NEW d \in Documents, Configuration!ConfigureRole(p, d) PROVE ConfigInv'
  BY <1>2, <1>4, <1>5, AcquireStep DEF Configuration!ConfigureRole
<1>6. ASSUME NEW l \in ReadLabels, Configuration!acquire_state(p, l, [Configuration!Idle EXCEPT !.read = file])
      PROVE  ConfigInv'
  BY <1>3, <1>4, <1>6, AcquireStep
<1>7. CASE Configuration!RoleCommand(p)
  BY <1>4, <1>6, <1>7 DEF Configuration!RoleCommand
<1>8. CASE Configuration!Serve(p)
  BY <1>4, <1>6, <1>8 DEF Configuration!Serve
<1>9. CASE Configuration!RecoverAudit(p)
  BY <1>4, <1>9, IdleJob, AcquireStep DEF Configuration!RecoverAudit
<1> QED BY <1>5, <1>7, <1>8, <1>9

LEMMA ConfigInit == Configuration!Init => ConfigInv
<1> SUFFICES ASSUME Configuration!Init PROVE ConfigInv
  OBVIOUS
<1>1. PICK d \in {None} \cup {x \in Documents : x.role = "syslog" /\ x.part = "none" /\ x.ok} :
         file = [f \in Configuration!Files |-> IF f = "gateway/config.json" THEN d ELSE None]
  BY DEF Configuration!Init
<1>2. label = [p \in Procs |-> "idle"] /\ job = [p \in Procs |-> Configuration!Idle]
  BY DEF Configuration!Init
<1>3. ConfigTypes
  BY <1>1, <1>2, IdleJob DEF ConfigTypes, Contents, ConfigLabels
<1>4. \A role \in Configuration!Roles :
         /\ Configuration!LastFile(role) \in Configuration!Files
         /\ Configuration!LastFile(role) = "gateway/config.json" => role = "syslog"
  BY SMT DEF Configuration!LastFile, Configuration!Roles, Configuration!Files
<1>5. LastOwned
  BY <1>1, <1>4 DEF LastOwned
<1>6. ASSUME NEW role \in Configuration!Roles PROVE Configuration!Fits(role)
  <2>1. CASE file[Configuration!LastFile(role)] = None
    BY <2>1 DEF Configuration!Fits
  <2>2. CASE file[Configuration!LastFile(role)] # None
    <3>1. /\ file[Configuration!LastFile(role)] = d /\ d.role = "syslog" /\ d.part = "none"
          /\ file["gateway/config.json"] = d
      BY <1>1, <1>4, <2>2
    <3>2. Configuration!Replaced(d) = <<"gateway/config.json">>
      BY <3>1, SMT DEF Configuration!Replaced
    <3>3. \A i \in DOMAIN Configuration!Replaced(d) : Configuration!Replaced(d)[i] = "gateway/config.json"
      BY <3>2, SMT
    <3> QED BY <3>1, <3>3 DEF Configuration!Fits, Configuration!Content
  <2> QED BY <2>1, <2>2
<1>7. \A p \in Procs : CommandInv(p)
  BY <1>2 DEF CommandInv, DocLabels, ReadLabels
<1> QED BY <1>3, <1>5, <1>6, <1>7 DEF ConfigInv, Configuration!OneDocument

LEMMA ConfigNext == ConfigInv /\ [Configuration!Next]_configuration => ConfigInv'
<1> SUFFICES ASSUME ConfigInv, [Configuration!Next]_configuration PROVE ConfigInv'
  OBVIOUS
<1>1. CASE UNCHANGED configuration
  <2>1. UNCHANGED <<file, holder, label, job, interrupted>>
    BY <1>1 DEF configuration
  <2>2. \A role : Configuration!Fits(role)' <=> Configuration!Fits(role)
    BY <2>1 DEF Configuration!Fits, Configuration!Content
  <2>3. ConfigTypes' /\ LastOwned' /\ Configuration!OneDocument'
    BY <2>1, <2>2 DEF ConfigInv, ConfigTypes, LastOwned, Configuration!OneDocument
  <2>4. ASSUME NEW p \in Procs PROVE CommandInv(p)'
    <3>1. CommandInv(p)
      BY DEF ConfigInv
    <3>2. ReplacingWell(p) => ReplacingWell(p)'
      BY <2>1, <2>2 DEF ReplacingWell, Holds, Whole, Configuration!Missing
    <3> QED BY <2>1, <3>1, <3>2 DEF CommandInv
  <2> QED BY <2>3, <2>4 DEF ConfigInv
<1>2. ASSUME NEW p \in Procs,
             \/ \E d \in Documents : Configuration!ConfigureRole(p, d)
             \/ Configuration!RoleCommand(p) \/ Configuration!RecoverAudit(p) \/ Configuration!Serve(p)
      PROVE  ConfigInv'
  BY <1>2, BeginStep
<1>3. ASSUME NEW p \in Procs, Configuration!Replace(p) PROVE ConfigInv'
  BY <1>3, NextFile, ReplaceStep
<1>4. ASSUME NEW p \in Procs, Configuration!Step(p) PROVE ConfigInv'
  BY <1>3, <1>4, PreflightStep, CheckStep, ReaderStep DEF Configuration!Step
<1>5. ASSUME NEW p \in Procs,
             Configuration!Request(p) \/ Configuration!Deliver(p) \/ Configuration!Stop(p)
      PROVE  ConfigInv'
  BY <1>5, ReaderStep
<1> QED BY <1>1, <1>2, <1>4, <1>5, CutStep DEF Configuration!Next

(* The files of a role come from one document, but while a command replaces *)
(* them and after one that was cut off, until one is completed; and nothing *)
(* is replaced underneath an instance or a command of a role: for any       *)
(* number of processes and documents (configure, acquire_state).            *)
THEOREM FilesOfOneDocument == StateSpec => []OneDocument
<1>1. StateInit => ConfigInv
  BY ConfigInit DEF StateInit
<1>2. ConfigInv /\ [StateNext]_state => ConfigInv'
  BY ConfigNext DEF StateNext, state
<1>3. ConfigInv => OneDocument
  BY DEF ConfigInv, CommandInv, OneDocument, Configuration!ReadStaysTrue, ReadLabels
<1> QED BY <1>1, <1>2, <1>3, PTL DEF StateSpec

(* The three properties of the certificates hold of all commands together.  *)
THEOREM CertificatesKept == StateSpec => []ConfigTrue /\ []NoCaLost /\ []ValidChain
<1>1. StateInit => Init
  BY DEF StateInit
<1>2. [StateNext]_state => [Next]_vars
  BY DEF StateNext, state
<1>3. StateSpec => Spec
  BY <1>1, <1>2, PTL DEF StateSpec, Spec
<1> QED BY <1>3, ConfigIsTrue, CasKept, ChainIsValid, PTL
============================================================================
