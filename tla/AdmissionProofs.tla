-------------------------- MODULE AdmissionProofs --------------------------
(***************************************************************************)
(* Proofs about Admission, for any number of processes, devices, requests  *)
(* and crashes: a request id starts one operation and is answered with it, *)
(* and a device never has two unsettled operations.                        *)
(***************************************************************************)
EXTENDS Admission, TLAPS

(* Zenon is the default prover; a leaf with arithmetic cites SMT. *)
USE Zenon

UnderAdmission == {"again", "budget", "save", "remember"}
UnderDevice    == {"target", "known", "prepare", "stamp", "admit", "again", "budget", "save",
                   "remember", "execute", "return"}
UnderTarget    == UnderDevice \ {"target"}
Cleared        == {"stamp", "admit", "again", "budget", "save"}
Unsaved        == {"admit", "again", "budget", "save"}

(* the locks a process holds at its label *)
Holds(p) ==
    /\ pc[p] \in UnderAdmission => admission = p
    /\ pc[p] \in UnderDevice => devLock[call[p].dev] = p
    /\ pc[p] \in UnderTarget => tgtLock[Target[call[p].dev]] = p

(* a drawn change id is not in the journal *)
Fresh(p) == pc[p] \in Unsaved => ops[call[p].change].status = "none"

(* between the second look and the save the request has no operation *)
Unknown(p) ==
    pc[p] \in {"budget", "save"} =>
        \A c \in Changes : ops[c].status # "none" => ops[c].req # call[p].req

(* operation c belongs to a call or an answer with these arguments *)
Matches(c, a) ==
    /\ ops[c].status # "none" /\ ops[c].req = a.req
    /\ ops[c].print = a.print /\ ops[c].dev = a.dev

(* once there is an operation, it is the one of the request *)
Own(p) == pc[p] \in {"remember", "execute", "return"} => Matches(call[p].change, call[p])

(* no operation of the device runs while a call is on its way to save one *)
Clear(p) ==
    pc[p] \in Cleared =>
        \A c \in Changes : ops[c].dev = call[p].dev => ops[c].status # "running"

(* all that a process relies on *)
Local(p) == Holds(p) /\ Fresh(p) /\ Unknown(p) /\ Own(p) /\ Clear(p)

(* two processes never draw the same change id *)
Distinct ==
    \A p, q \in Procs : pc[p] \in Unsaved /\ pc[q] \in Unsaved
                        /\ call[p].change = call[q].change => p = q

(* what was answered is in the journal *)
AnswersRecorded == \A a \in answers : Matches(a.change, a)

IInv == /\ TypeOK /\ Distinct /\ AnswersRecorded
        /\ OneOperationPerRequest /\ RequestResolves /\ OneRunningPerDevice
        /\ \A p \in Procs : Local(p)

----------------------------------------------------------------------------
(* type correctness *)

(* Leaving the with statements keeps the types. *)
LEMMA LeaveType ==
    ASSUME TypeOK, NEW p \in Procs, Leave(p)
    PROVE  /\ pc' \in [Procs -> Labels] /\ call' \in [Procs -> Calls \cup {NoCall}]
           /\ devLock' \in [Devices -> Procs \cup {Nobody}]
           /\ tgtLock' \in [Targets -> Procs \cup {Nobody}]
           /\ admission' \in Procs \cup {Nobody}
           /\ \A q \in Procs : pc'[q] # "idle" => call'[q] \in Calls
           /\ \A q \in Procs : pc'[q] \in Drawn => call'[q].change \in Changes
  BY DEF TypeOK, Leave, Goto, Labels, Drawn

(* An operation is settled: its record stays a record. *)
LEMMA FinishType ==
    ASSUME ops \in [Changes -> Records \cup {NoRecord}], NEW c \in Changes,
           ops[c] \in Records, Finish(c)
    PROVE  ops' \in [Changes -> Records \cup {NoRecord}]
<1>1. PICK ok \in BOOLEAN : ops' = [ops EXCEPT ![c].status = "finished", ![c].confirmed = ok]
  BY DEF Finish
<1>2. [ops[c] EXCEPT !.status = "finished", !.confirmed = ok] \in Records
  BY DEF Records
<1>3. ops' = [ops EXCEPT ![c] = [ops[c] EXCEPT !.status = "finished", !.confirmed = ok]]
  BY <1>1
<1> QED  BY <1>2, <1>3

----------------------------------------------------------------------------
(* what one process does to the others *)

(* A step that leaves the journal alone keeps the invariant when the others *)
(* keep their labels, calls and locks and the process meets its own part.   *)
LEMMA ProcessFrame ==
    ASSUME IInv, TypeOK', NEW p \in Procs, UNCHANGED journal, AnswersRecorded', Local(p)',
           \A q \in Procs : q # p => pc'[q] = pc[q] /\ call'[q] = call[q],
           \A q \in Procs : q # p /\ admission = q => admission' = q,
           \A q \in Procs : \A d \in Devices : q # p /\ devLock[d] = q => devLock'[d] = q,
           \A q \in Procs : \A t \in Targets : q # p /\ tgtLock[t] = q => tgtLock'[t] = q,
           pc'[p] \in Unsaved =>
               \A q \in Procs : q # p /\ pc[q] \in Unsaved => call[q].change # call'[p].change
    PROVE  IInv'
<1>1. ops' = ops /\ request' = request
  BY DEF journal
<1>2. Distinct'
  BY DEF IInv, Distinct
<1>3. OneOperationPerRequest' /\ RequestResolves' /\ OneRunningPerDevice'
  BY SMT, <1>1 DEF IInv, OneOperationPerRequest, RequestResolves, OneRunningPerDevice, Journaled, Running
<1>4. ASSUME NEW q \in Procs, q # p  PROVE Local(q)'
  <2>1. pc'[q] = pc[q] /\ call'[q] = call[q] /\ Local(q)
    BY <1>4 DEF IInv
  <2>2. pc[q] \in UnderDevice => call[q].dev \in Devices /\ Target[call[q].dev] \in Targets
    BY AdmissionAssumption DEF IInv, TypeOK, Calls, UnderDevice
  <2>3. Holds(q)'
    BY SMT, <1>4, <2>1, <2>2 DEF Local, Holds, UnderTarget
  <2>4. Fresh(q)' /\ Unknown(q)' /\ Own(q)' /\ Clear(q)'
    BY <1>1, <2>1 DEF Local, Fresh, Unknown, Own, Matches, Clear
  <2> QED  BY <2>3, <2>4 DEF Local
<1> QED  BY <1>2, <1>3, <1>4 DEF IInv

(* The same for a process that leaves. *)
LEMMA LeaveKeeps ==
    ASSUME IInv, NEW p \in Procs, Leave(p), UNCHANGED <<journal, now>>, crashes' \in Nat,
           answers' \subseteq [req: RequestIds, print: Prints, dev: Devices, change: Changes],
           AnswersRecorded'
    PROVE  IInv'
<1>1. TypeOK'
  BY LeaveType DEF IInv, TypeOK, journal
<1>2. pc'[p] = "idle" /\ \A q \in Procs : q # p => pc'[q] = pc[q] /\ call'[q] = call[q]
  BY DEF IInv, TypeOK, Leave, Goto
<1>3. Local(p)'
  BY <1>2 DEF Local, Holds, Fresh, Unknown, Own, Clear, UnderAdmission, UnderDevice, UnderTarget, Unsaved, Cleared
<1>4. \A q \in Procs : q # p /\ admission = q => admission' = q
  BY DEF Leave
<1>5. /\ \A q \in Procs : \A d \in Devices : q # p /\ devLock[d] = q => devLock'[d] = q
      /\ \A q \in Procs : \A t \in Targets : q # p /\ tgtLock[t] = q => tgtLock'[t] = q
  BY DEF Leave
<1> QED  BY <1>1, <1>2, <1>3, <1>4, <1>5, ProcessFrame DEF Unsaved

(* Settling an operation, or noting its safeguard, changes no name in the   *)
(* journal and starts nothing.                                              *)
LEMMA RecordFrame ==
    ASSUME IInv, TypeOK', UNCHANGED <<request, locks, call, answers>>,
           NEW p \in Procs,
           \A b \in Changes : /\ ops'[b].req = ops[b].req /\ ops'[b].print = ops[b].print
                              /\ ops'[b].dev = ops[b].dev
                              /\ ops'[b].status = "none" <=> ops[b].status = "none"
                              /\ ops'[b].status = "running" => ops[b].status = "running",
           \A q \in Procs : q # p => pc'[q] = pc[q],
           \/ pc'[p] = pc[p]
           \/ pc[p] = "execute" /\ pc'[p] = "return"
    PROVE  IInv'
<1>1. /\ request' = request /\ call' = call /\ answers' = answers
      /\ devLock' = devLock /\ tgtLock' = tgtLock /\ admission' = admission
  BY DEF locks
<1>2. \A q \in Procs : pc'[q] = pc[q] \/ (pc[q] = "execute" /\ pc'[q] = "return")
  OBVIOUS
<1>3. Distinct'
  BY SMT, <1>1, <1>2 DEF IInv, Distinct, Unsaved
<1>4. AnswersRecorded'
  <2>1. \A a \in answers : a.change \in Changes
    BY DEF IInv, TypeOK
  <2> QED  BY SMT, <1>1, <2>1 DEF IInv, AnswersRecorded, Matches
<1>5. OneOperationPerRequest' /\ OneRunningPerDevice'
  BY SMT DEF IInv, OneOperationPerRequest, OneRunningPerDevice, Journaled, Running
<1>6. RequestResolves'
  BY SMT, <1>1 DEF IInv, RequestResolves, Journaled
<1>7. ASSUME NEW q \in Procs  PROVE Local(q)'
  <2>1. Local(q)
    BY DEF IInv
  <2>2. pc[q] \in Drawn => call[q].change \in Changes
    BY DEF IInv, TypeOK
  <2>3. Holds(q)'
    BY <1>1, <1>2, <2>1 DEF Local, Holds, UnderAdmission, UnderDevice, UnderTarget
  <2>4. Fresh(q)' /\ Unknown(q)' /\ Clear(q)'
    BY SMT, <1>1, <1>2, <2>1, <2>2 DEF Local, Fresh, Unknown, Clear, Unsaved, Cleared, Drawn
  <2>5. Own(q)'
    BY SMT, <1>1, <1>2, <2>1, <2>2 DEF Local, Own, Matches, Drawn
  <2> QED  BY <2>3, <2>4, <2>5 DEF Local
<1> QED  BY <1>3, <1>4, <1>5, <1>6, <1>7 DEF IInv

----------------------------------------------------------------------------
(* one lemma per kind of step *)

(* A call begins. *)
LEMMA BeginKeeps ==
    ASSUME IInv, NEW p \in Procs, NEW r \in RequestIds, NEW f \in Prints, NEW d \in Devices,
           NEW w \in Weights, Begin(p, r, f, d, w)
    PROVE  IInv'
<1>1. /\ pc'[p] = "lock" /\ UNCHANGED <<journal, locks, now, answers, crashes>>
      /\ \A q \in Procs : q # p => pc'[q] = pc[q] /\ call'[q] = call[q]
  BY DEF IInv, TypeOK, Begin, Goto
<1>2. TypeOK'
  <2>1. call'[p] \in Calls
    BY DEF IInv, TypeOK, Begin, Calls
  <2>2. pc' \in [Procs -> Labels] /\ call' \in [Procs -> Calls \cup {NoCall}]
    BY <2>1 DEF IInv, TypeOK, Begin, Goto, Labels
  <2> QED  BY <1>1, <2>1, <2>2 DEF IInv, TypeOK, journal, locks, Drawn
<1>3. Local(p)'
  BY <1>1 DEF Local, Holds, Fresh, Unknown, Own, Clear, UnderAdmission, UnderDevice, UnderTarget, Unsaved, Cleared
<1>4. AnswersRecorded'
  BY <1>1 DEF IInv, AnswersRecorded, Matches, journal
<1> QED  BY <1>1, <1>2, <1>3, <1>4, ProcessFrame DEF Unsaved, locks

(* A process that goes to label l and touches no lock, no call and nothing  *)
(* of the journal keeps the invariant when it meets its own part at l.      *)
LEMMA MoveKeeps ==
    ASSUME IInv, NEW p \in Procs, NEW l \in Labels \ {"idle"}, pc[p] # "idle", Goto(p, l),
           UNCHANGED <<journal, locks, call, now, answers, crashes>>,
           l \in Drawn => pc[p] \in Drawn,
           l \in Unsaved => pc[p] \in Unsaved,
           Local(p)'
    PROVE  IInv'
<1>1. pc'[p] = l /\ call' = call /\ \A q \in Procs : q # p => pc'[q] = pc[q]
  BY DEF IInv, TypeOK, Goto
<1>2. TypeOK'
  BY <1>1 DEF IInv, TypeOK, Goto, journal, locks
<1>3. AnswersRecorded'
  BY DEF IInv, AnswersRecorded, Matches, journal
<1>4. pc'[p] \in Unsaved =>
          \A q \in Procs : q # p /\ pc[q] \in Unsaved => call[q].change # call'[p].change
  BY <1>1 DEF IInv, Distinct
<1> QED  BY <1>1, <1>2, <1>3, <1>4, ProcessFrame DEF locks

LEMMA RefusedLocal ==
    ASSUME NEW p \in Procs, pc'[p] = "refused"
    PROVE  Local(p)'
  BY DEF Local, Holds, Fresh, Unknown, Own, Clear, UnderAdmission, UnderDevice, UnderTarget, Unsaved, Cleared

LEMMA LockDeviceKeeps ==
    ASSUME IInv, NEW p \in Procs, LockDevice(p)
    PROVE  IInv'
<1>1. pc[p] = "lock" /\ UNCHANGED <<journal, tgtLock, admission, call, now, answers, crashes>>
  BY DEF LockDevice
<1>2. CASE devLock[call[p].dev] = Nobody /\ devLock' = [devLock EXCEPT ![call[p].dev] = p] /\ Goto(p, "target")
  <2>1. pc'[p] = "target" /\ \A q \in Procs : q # p => pc'[q] = pc[q]
    BY <1>2 DEF IInv, TypeOK, Goto
  <2>2. call[p].dev \in Devices
    BY <1>1 DEF IInv, TypeOK, Calls
  <2>3. TypeOK'
    BY <1>1, <1>2, <2>1 DEF IInv, TypeOK, Goto, journal, Labels, Drawn
  <2>4. Local(p)'
    BY <1>1, <1>2, <2>1, <2>2 DEF IInv, TypeOK, Local, Holds, Fresh, Unknown, Own, Clear, UnderAdmission,
       UnderDevice, UnderTarget, Unsaved, Cleared
  <2>5. AnswersRecorded'
    BY <1>1 DEF IInv, AnswersRecorded, Matches, journal
  <2>6. \A q \in Procs : \A d \in Devices : q # p /\ devLock[d] = q => devLock'[d] = q
    BY <1>2, AdmissionAssumption DEF IInv, TypeOK
  <2> QED  BY <1>1, <2>1, <2>3, <2>4, <2>5, <2>6, ProcessFrame DEF Unsaved
<1>3. CASE devLock[call[p].dev] # Nobody /\ Goto(p, "refused") /\ UNCHANGED devLock
  <2>1. pc'[p] = "refused"
    BY <1>3 DEF IInv, TypeOK, Goto
  <2> QED  BY <1>1, <1>3, <2>1, RefusedLocal, MoveKeeps DEF locks, Labels, Drawn, Unsaved
<1> QED  BY <1>2, <1>3 DEF LockDevice

LEMMA LockTargetKeeps ==
    ASSUME IInv, NEW p \in Procs, LockTarget(p)
    PROVE  IInv'
<1>1. pc[p] = "target" /\ UNCHANGED <<journal, devLock, admission, call, now, answers, crashes>>
  BY DEF LockTarget
<1>2. CASE tgtLock[Target[call[p].dev]] = Nobody /\ tgtLock' = [tgtLock EXCEPT ![Target[call[p].dev]] = p] /\ Goto(p, "known")
  <2>1. pc'[p] = "known" /\ \A q \in Procs : q # p => pc'[q] = pc[q]
    BY <1>2 DEF IInv, TypeOK, Goto
  <2>2. Target[call[p].dev] \in Targets
    BY <1>1, AdmissionAssumption DEF IInv, TypeOK, Calls
  <2>3. \A q \in Procs : \A t \in Targets : q # p /\ tgtLock[t] = q => tgtLock'[t] = q
    BY <1>2, AdmissionAssumption DEF IInv, TypeOK
  <2>4. TypeOK'
    BY <1>1, <1>2, <2>1 DEF IInv, TypeOK, Goto, journal, Labels, Drawn
  <2>5. Local(p)'
    BY <1>1, <1>2, <2>1, <2>2 DEF IInv, TypeOK, Local, Holds, Fresh, Unknown, Own, Clear, UnderAdmission,
       UnderDevice, UnderTarget, Unsaved, Cleared
  <2>6. AnswersRecorded'
    BY <1>1 DEF IInv, AnswersRecorded, Matches, journal
  <2> QED  BY <1>1, <2>1, <2>4, <2>5, <2>6, <2>3, ProcessFrame DEF Unsaved
<1>3. CASE Goto(p, "refused") /\ UNCHANGED tgtLock
  <2>1. pc'[p] = "refused"
    BY <1>3 DEF IInv, TypeOK, Goto
  <2> QED  BY <1>1, <1>3, <2>1, RefusedLocal, MoveKeeps DEF locks, Labels, Drawn, Unsaved
<1> QED  BY <1>2, <1>3 DEF LockTarget

(* What the request file or the journal names is the operation of the       *)
(* request; when they name none, there is none.                             *)
LEMMA KnownIsOwn ==
    ASSUME IInv, NEW q \in Calls
    PROVE  /\ \A c \in Known(q) : c \in Changes /\ ops[c].status # "none" /\ ops[c].req = q.req
           /\ Known(q) = {} => \A c \in Changes : ops[c].status # "none" => ops[c].req # q.req
<1>1. q.req \in RequestIds
  BY DEF Calls
<1> QED  BY <1>1 DEF IInv, RequestResolves, Known, Journaled

(* The lookup answers with the operation of the request, refuses, or knows  *)
(* that there is none.                                                      *)
LEMMA LookupKeeps ==
    ASSUME IInv, NEW p \in Procs,
           Lookup(p, "known", "prepare") \/ Lookup(p, "again", "budget")
    PROVE  IInv'
<1>1. /\ pc[p] \in {"known", "again"} /\ UNCHANGED <<journal, locks, now, answers, crashes>>
      /\ call[p] \in Calls
  BY DEF Lookup, IInv, TypeOK
<1>2. CASE Goto(p, "refused") /\ UNCHANGED call
  <2>1. pc'[p] = "refused"
    BY <1>2 DEF IInv, TypeOK, Goto
  <2> QED  BY <1>1, <1>2, <2>1, RefusedLocal, MoveKeeps DEF Labels, Drawn, Unsaved
<1>3. ASSUME ~Reused(call[p]), NEW c \in Known(call[p]),
             call' = [call EXCEPT ![p].change = c], Goto(p, "return")
      PROVE  IInv'
  <2>1. c \in Changes /\ Matches(c, call[p])
    BY <1>1, <1>3, KnownIsOwn DEF Matches, Reused
  <2>2. /\ pc'[p] = "return" /\ call'[p] = [call[p] EXCEPT !.change = c]
        /\ \A q \in Procs : q # p => pc'[q] = pc[q] /\ call'[q] = call[q]
    BY <1>3 DEF IInv, TypeOK, Goto
  <2>3. /\ call'[p] \in Calls /\ call'[p].change = c /\ call'[p].req = call[p].req
        /\ call'[p].print = call[p].print /\ call'[p].dev = call[p].dev
    BY <1>1, <2>1, <2>2 DEF Calls
  <2>4. call' \in [Procs -> Calls \cup {NoCall}] /\ pc' \in [Procs -> Labels]
    BY <1>3, <2>2, <2>3 DEF IInv, TypeOK, Goto, Labels
  <2>5. TypeOK'
    BY <1>1, <2>1, <2>2, <2>3, <2>4 DEF IInv, TypeOK, journal, locks
  <2>6. Local(p)'
    BY SMT, <1>1, <2>1, <2>2, <2>3 DEF IInv, Local, Holds, Fresh, Unknown, Own, Matches, Clear, UnderAdmission,
       UnderDevice, UnderTarget, Unsaved, Cleared, journal, locks
  <2>7. AnswersRecorded'
    BY <1>1 DEF IInv, AnswersRecorded, Matches, journal
  <2> QED  BY <1>1, <2>2, <2>5, <2>6, <2>7, ProcessFrame DEF Unsaved, locks
<1>4. CASE pc[p] = "known" /\ Goto(p, "prepare") /\ UNCHANGED call
  <2>1. pc'[p] = "prepare"
    BY <1>4 DEF IInv, TypeOK, Goto
  <2>2. Local(p)'
    BY <1>1, <1>4, <2>1 DEF IInv, Local, Holds, Fresh, Unknown, Own, Clear, UnderAdmission,
       UnderDevice, UnderTarget, Unsaved, Cleared, locks
  <2> QED  BY <1>1, <1>4, <2>1, <2>2, MoveKeeps DEF Labels, Drawn, Unsaved
<1>5. CASE pc[p] = "again" /\ Known(call[p]) = {} /\ Goto(p, "budget") /\ UNCHANGED call
  <2>1. pc'[p] = "budget"
    BY <1>5 DEF IInv, TypeOK, Goto
  <2>2. Unknown(p)'
    BY <1>1, <1>5, KnownIsOwn DEF Unknown, journal
  <2>3. Local(p)'
    BY <1>1, <1>5, <2>1, <2>2 DEF IInv, Local, Holds, Fresh, Own, Clear, UnderAdmission,
       UnderDevice, UnderTarget, Unsaved, Cleared, journal, locks
  <2> QED  BY <1>1, <1>5, <2>1, <2>3, MoveKeeps DEF Labels, Drawn, Unsaved
<1> QED  BY <1>2, <1>3, <1>4, <1>5 DEF Lookup

LEMMA PrepareKeeps ==
    ASSUME IInv, NEW p \in Procs, Prepare(p)
    PROVE  IInv'
<1>1. pc[p] = "prepare" /\ UNCHANGED <<journal, locks, call, now, answers, crashes>>
  BY DEF Prepare
<1>2. CASE Goto(p, "refused")
  <2>1. pc'[p] = "refused"
    BY <1>2 DEF IInv, TypeOK, Goto
  <2> QED  BY <1>1, <1>2, <2>1, RefusedLocal, MoveKeeps DEF Labels, Drawn, Unsaved
<1>3. CASE Running(call[p].dev) = {} /\ Goto(p, "stamp")
  <2>1. pc'[p] = "stamp"
    BY <1>3 DEF IInv, TypeOK, Goto
  <2>2. Clear(p)'
    BY <1>1, <1>3 DEF Clear, Running, journal
  <2>3. Local(p)'
    BY <1>1, <2>1, <2>2 DEF IInv, Local, Holds, Fresh, Unknown, Own, UnderAdmission,
       UnderDevice, UnderTarget, Unsaved, locks
  <2> QED  BY <1>1, <1>3, <2>1, <2>3, MoveKeeps DEF Labels, Drawn, Unsaved
<1> QED  BY <1>2, <1>3 DEF Prepare

LEMMA StampKeeps ==
    ASSUME IInv, NEW p \in Procs, Stamp(p)
    PROVE  IInv'
<1>1. pc[p] = "stamp" /\ Goto(p, "admit") /\ UNCHANGED <<journal, locks, now, answers, crashes>>
  BY DEF Stamp
<1>2. PICK c \in Changes : /\ ops[c].status = "none" /\ \A q \in Procs : call[q].change # c
                           /\ call' = [call EXCEPT ![p].change = c, ![p].at = now]
  BY DEF Stamp, Journaled
<1>3. /\ pc'[p] = "admit" /\ call'[p] = [call[p] EXCEPT !.change = c, !.at = now]
      /\ \A q \in Procs : q # p => pc'[q] = pc[q] /\ call'[q] = call[q]
  BY <1>1, <1>2 DEF IInv, TypeOK, Goto
<1>4. /\ call'[p] \in Calls /\ call'[p].change = c /\ call'[p].req = call[p].req
      /\ call'[p].dev = call[p].dev
  BY <1>1, <1>3 DEF IInv, TypeOK, Calls
<1>5. call' \in [Procs -> Calls \cup {NoCall}] /\ pc' \in [Procs -> Labels]
  BY <1>1, <1>2, <1>3, <1>4 DEF IInv, TypeOK, Goto, Labels
<1>6. TypeOK'
  BY <1>1, <1>3, <1>4, <1>5 DEF IInv, TypeOK, journal, locks
<1>7. Local(p)'
  <2>1. Local(p)
    BY DEF IInv
  <2>2. Holds(p)'
    BY <1>1, <1>3, <1>4, <2>1 DEF Local, Holds, UnderAdmission, UnderDevice, UnderTarget, locks
  <2>3. Fresh(p)' /\ Unknown(p)' /\ Own(p)'
    BY <1>1, <1>2, <1>3, <1>4 DEF Fresh, Unknown, Own, journal
  <2>4. Clear(p)'
    BY <1>1, <1>3, <1>4, <2>1 DEF Local, Clear, Cleared, journal
  <2> QED  BY <2>2, <2>3, <2>4 DEF Local
<1>8. AnswersRecorded'
  BY <1>1 DEF IInv, AnswersRecorded, Matches, journal
<1> QED  BY <1>1, <1>2, <1>3, <1>4, <1>6, <1>7, <1>8, ProcessFrame DEF locks

LEMMA AdmitKeeps ==
    ASSUME IInv, NEW p \in Procs, Admit(p)
    PROVE  IInv'
<1>1. pc[p] = "admit" /\ UNCHANGED <<journal, devLock, tgtLock, call, now, answers, crashes>>
  BY DEF Admit
<1>2. CASE admission = Nobody /\ admission' = p /\ Goto(p, "again")
  <2>1. pc'[p] = "again" /\ \A q \in Procs : q # p => pc'[q] = pc[q]
    BY <1>2 DEF IInv, TypeOK, Goto
  <2>2. TypeOK'
    BY <1>1, <1>2, <2>1 DEF IInv, TypeOK, Goto, journal, Labels, Drawn
  <2>3. Local(p)'
    BY <1>1, <1>2, <2>1 DEF IInv, Local, Holds, Fresh, Unknown, Own, Clear, UnderAdmission,
       UnderDevice, UnderTarget, Unsaved, Cleared, journal
  <2>4. AnswersRecorded'
    BY <1>1 DEF IInv, AnswersRecorded, Matches, journal
  <2>5. \A q \in Procs : q # p /\ pc[q] \in Unsaved => call[q].change # call'[p].change
    BY <1>1 DEF IInv, Distinct, Unsaved
  <2>6. \A q \in Procs : q # p /\ admission = q => admission' = q
    BY <1>2, AdmissionAssumption
  <2> QED  BY <1>1, <2>1, <2>2, <2>3, <2>4, <2>5, <2>6, ProcessFrame
<1>3. CASE Goto(p, "refused") /\ UNCHANGED admission
  <2>1. pc'[p] = "refused"
    BY <1>3 DEF IInv, TypeOK, Goto
  <2> QED  BY <1>1, <1>3, <2>1, RefusedLocal, MoveKeeps DEF locks, Labels, Drawn, Unsaved
<1> QED  BY <1>2, <1>3 DEF Admit

LEMMA CheckBudgetKeeps ==
    ASSUME IInv, NEW p \in Procs, CheckBudget(p)
    PROVE  IInv'
<1>1. pc[p] = "budget" /\ UNCHANGED <<journal, locks, call, now, answers, crashes>>
  BY DEF CheckBudget
<1>2. CASE Goto(p, "refused")
  <2>1. pc'[p] = "refused"
    BY <1>2 DEF IInv, TypeOK, Goto
  <2> QED  BY <1>1, <1>2, <2>1, RefusedLocal, MoveKeeps DEF Labels, Drawn, Unsaved
<1>3. CASE Goto(p, "save")
  <2>1. pc'[p] = "save"
    BY <1>3 DEF IInv, TypeOK, Goto
  <2>2. Local(p)'
    BY <1>1, <2>1 DEF IInv, Local, Holds, Fresh, Unknown, Own, Clear, UnderAdmission,
       UnderDevice, UnderTarget, Unsaved, Cleared, journal, locks
  <2> QED  BY <1>1, <1>3, <2>1, <2>2, MoveKeeps DEF Labels, Drawn, Unsaved
<1> QED  BY <1>2, <1>3 DEF CheckBudget

(* The record of the operation is written: the process holds the lock of    *)
(* the device and the admission lock, its request is new, its id fresh.     *)
LEMMA SaveKeeps ==
    ASSUME IInv, NEW p \in Procs, Save(p)
    PROVE  IInv'
<1> DEFINE c == call[p].change
<1>1. pc[p] = "save" /\ UNCHANGED <<request, locks, call, now, answers, crashes>>
  BY DEF Save
<1>2. pc'[p] = "remember" /\ \A q \in Procs : q # p => pc'[q] = pc[q]
  BY DEF IInv, TypeOK, Save, Goto
<1>3. /\ call[p] \in Calls /\ c \in Changes /\ Local(p)
      /\ ops[c].status = "none"
  BY <1>1 DEF IInv, TypeOK, Drawn, Local, Fresh, Unsaved
<1>4. /\ ops'[c] \in Records /\ ops'[c].status = "running" /\ ops'[c].req = call[p].req
      /\ ops'[c].print = call[p].print /\ ops'[c].dev = call[p].dev
      /\ \A b \in Changes : b # c => ops'[b] = ops[b]
  BY <1>3 DEF IInv, TypeOK, Save, Records, Calls
<1>5. TypeOK'
  <2>1. ops' \in [Changes -> Records \cup {NoRecord}]
    BY <1>4 DEF IInv, TypeOK, Save
  <2>2. pc' \in [Procs -> Labels]
    BY DEF IInv, TypeOK, Save, Goto, Labels
  <2> QED  BY <1>1, <1>2, <1>3, <2>1, <2>2 DEF IInv, TypeOK, locks, Drawn
<1>6. Distinct'
  BY <1>1, <1>2 DEF IInv, Distinct, Unsaved
<1>7. AnswersRecorded'
  <2>1. \A a \in answers : a.change \in Changes /\ a.change # c
    BY <1>3 DEF IInv, TypeOK, AnswersRecorded, Matches
  <2> QED  BY <1>1, <1>4, <2>1 DEF IInv, AnswersRecorded, Matches
<1>8. OneOperationPerRequest'
  <2>1. \A b \in Changes : ops[b].status # "none" => ops[b].req # call[p].req
    BY <1>1, <1>3 DEF Local, Unknown, Journaled
  <2>2. OneOperationPerRequest
    BY DEF IInv
  <2> QED  BY SMT, <1>3, <1>4, <2>1, <2>2 DEF OneOperationPerRequest, Journaled
<1>9. RequestResolves'
  BY <1>1, <1>3, <1>4 DEF IInv, RequestResolves, Journaled
<1>10. OneRunningPerDevice'
  <2>1. \A b \in Changes : ops[b].dev = call[p].dev => ops[b].status # "running"
    BY <1>1, <1>3 DEF Local, Clear, Cleared
  <2>2. OneRunningPerDevice
    BY DEF IInv
  <2> QED  BY SMT, <1>3, <1>4, <2>1, <2>2 DEF OneRunningPerDevice, Running
<1>11. ASSUME NEW q \in Procs, q # p  PROVE Local(q)'
  <2>1. Local(q) /\ pc'[q] = pc[q] /\ call' = call
    BY <1>1, <1>2, <1>11 DEF IInv
  <2>2. pc[q] \notin UnderAdmission
    BY <1>1, <1>3, <1>11, <2>1 DEF Local, Holds, UnderAdmission
  <2>3. pc[q] \in Cleared => call[q].dev # call[p].dev
    BY <1>1, <1>3, <1>11, <2>1 DEF Local, Holds, UnderDevice, Cleared
  <2>4. pc[q] \in Drawn => call[q].change \in Changes
    BY DEF IInv, TypeOK
  <2>5. Holds(q)'
    BY <1>1, <2>1 DEF Local, Holds, locks
  <2>6. Fresh(q)'
    <3>1. pc[q] \in Unsaved => call[q].change # c
      BY <1>1, <1>11 DEF IInv, Distinct, Unsaved
    <3> QED  BY <1>4, <2>1, <2>4, <3>1 DEF Local, Fresh, Unsaved, Drawn
  <2>7. Unknown(q)'
    BY <2>1, <2>2 DEF Unknown, UnderAdmission
  <2>8. Own(q)'
    <3>1. pc[q] \in {"remember", "execute", "return"} => call[q].change # c
      BY <1>3, <2>1 DEF Local, Own, Matches
    <3> QED  BY <1>4, <2>1, <2>4, <3>1 DEF Local, Own, Matches, Drawn
  <2>9. Clear(q)'
    BY <1>3, <1>4, <2>1, <2>3 DEF Local, Clear
  <2> QED  BY <2>5, <2>6, <2>7, <2>8, <2>9 DEF Local
<1>12. Local(p)'
  BY <1>1, <1>2, <1>3, <1>4 DEF Local, Holds, Fresh, Unknown, Own, Matches, Clear, UnderAdmission,
     UnderDevice, UnderTarget, Unsaved, Cleared, locks
<1> QED  BY <1>5, <1>6, <1>7, <1>8, <1>9, <1>10, <1>11, <1>12 DEF IInv

LEMMA RememberKeeps ==
    ASSUME IInv, NEW p \in Procs, Remember(p)
    PROVE  IInv'
<1>1. /\ pc[p] = "remember" /\ UNCHANGED <<ops, devLock, tgtLock, call, now, answers, crashes>>
      /\ request' = [request EXCEPT ![call[p].req] = call[p].change] /\ admission' = Nobody
  BY DEF Remember
<1>2. pc'[p] = "execute" /\ \A q \in Procs : q # p => pc'[q] = pc[q]
  BY DEF IInv, TypeOK, Remember, Goto
<1>3. /\ call[p] \in Calls /\ call[p].req \in RequestIds /\ call[p].change \in Changes
      /\ Matches(call[p].change, call[p]) /\ admission = p
  BY <1>1 DEF IInv, TypeOK, Drawn, Calls, Local, Own, Holds, UnderAdmission
<1>4. TypeOK'
  BY <1>1, <1>2, <1>3 DEF IInv, TypeOK, Remember, Goto, Labels, Drawn
<1>5. RequestResolves'
  BY <1>1, <1>3, AdmissionAssumption DEF IInv, TypeOK, RequestResolves, Journaled, Matches
<1>6. Distinct' /\ AnswersRecorded' /\ OneOperationPerRequest' /\ OneRunningPerDevice'
  <2>1. Distinct'
    BY <1>1, <1>2 DEF IInv, Distinct, Unsaved
  <2>2. AnswersRecorded'
    BY <1>1 DEF IInv, AnswersRecorded, Matches
  <2>3. OneOperationPerRequest'
    BY <1>1 DEF IInv, OneOperationPerRequest, Journaled
  <2>4. OneRunningPerDevice'
    BY <1>1 DEF IInv, OneRunningPerDevice, Running
  <2> QED  BY <2>1, <2>2, <2>3, <2>4
<1>7. ASSUME NEW q \in Procs  PROVE Local(q)'
  <2>1. Local(q)
    BY DEF IInv
  <2>2. q # p => pc[q] \notin UnderAdmission
    BY <1>3, <2>1 DEF Local, Holds
  <2>3. Holds(q)'
    BY <1>1, <1>2, <2>1, <2>2 DEF Local, Holds, UnderAdmission, UnderDevice, UnderTarget
  <2>4. Fresh(q)' /\ Unknown(q)' /\ Own(q)' /\ Clear(q)'
    BY <1>1, <1>2, <2>1 DEF Local, Fresh, Unknown, Own, Matches, Clear, Unsaved, Cleared
  <2> QED  BY <2>3, <2>4 DEF Local
<1> QED  BY <1>4, <1>5, <1>6, <1>7 DEF IInv

(* Settling an operation changes its status and result only. *)
LEMMA FinishEffect ==
    ASSUME TypeOK, NEW c \in Changes, ops[c].status # "none", Finish(c)
    PROVE  /\ ops' \in [Changes -> Records \cup {NoRecord}]
           /\ \A b \in Changes : /\ ops'[b].req = ops[b].req /\ ops'[b].print = ops[b].print
                                 /\ ops'[b].dev = ops[b].dev
                                 /\ ops'[b].status = "none" <=> ops[b].status = "none"
                                 /\ ops'[b].status = "running" => ops[b].status = "running"
<1>1. ops[c] \in Records
  BY SMT DEF TypeOK, NoRecord
<1>2. ops' \in [Changes -> Records \cup {NoRecord}]
  BY <1>1, FinishType DEF TypeOK
<1>3. PICK ok \in BOOLEAN : ops' = [ops EXCEPT ![c].status = "finished", ![c].confirmed = ok]
  BY DEF Finish
<1>4. \A b \in Changes : b # c => ops'[b] = ops[b]
  BY <1>3 DEF TypeOK
<1>5. ops'[c] = [ops[c] EXCEPT !.status = "finished", !.confirmed = ok]
  BY <1>3 DEF TypeOK
<1>6. /\ ops'[c].status = "finished" /\ ops'[c].req = ops[c].req
      /\ ops'[c].print = ops[c].print /\ ops'[c].dev = ops[c].dev
  BY <1>1, <1>5 DEF Records
<1> QED  BY <1>2, <1>4, <1>6

LEMMA ExecuteKeeps ==
    ASSUME IInv, NEW p \in Procs, Execute(p)
    PROVE  IInv'
<1> DEFINE c == call[p].change
<1>1. pc[p] = "execute" /\ UNCHANGED <<request, locks, call, now, answers, crashes>>
  BY DEF Execute
<1>2. c \in Changes /\ ops[c].status # "none"
  BY <1>1 DEF IInv, TypeOK, Drawn, Local, Own, Matches
<1>3. CASE Guard(c) /\ UNCHANGED pc
  <2>1. ops[c] \in Records
    BY SMT, <1>2 DEF IInv, TypeOK, NoRecord
  <2>2. ops'[c] = [ops[c] EXCEPT !.guarded = TRUE] /\ \A b \in Changes : b # c => ops'[b] = ops[b]
    BY <1>2, <1>3 DEF IInv, TypeOK, Guard
  <2>3. /\ ops'[c] \in Records /\ ops'[c].status = ops[c].status /\ ops'[c].req = ops[c].req
        /\ ops'[c].print = ops[c].print /\ ops'[c].dev = ops[c].dev
    BY <2>1, <2>2 DEF Records
  <2>4. ops' \in [Changes -> Records \cup {NoRecord}]
    BY <1>2, <1>3, <2>2, <2>3 DEF IInv, TypeOK, Guard
  <2>5. TypeOK'
    BY <1>1, <1>3, <2>4 DEF IInv, TypeOK, locks
  <2> QED  BY <1>1, <1>3, <2>2, <2>3, <2>5, RecordFrame
<1>4. CASE Finish(c) /\ Goto(p, "return")
  <2>1. pc' \in [Procs -> Labels] /\ pc'[p] = "return" /\ \A q \in Procs : q # p => pc'[q] = pc[q]
    BY <1>4 DEF IInv, TypeOK, Goto, Labels
  <2>2. TypeOK'
    BY <1>1, <1>2, <1>4, <2>1, FinishEffect DEF IInv, TypeOK, locks, Drawn
  <2> QED  BY <1>1, <1>2, <1>4, <2>1, <2>2, FinishEffect, RecordFrame DEF IInv
<1> QED  BY <1>3, <1>4 DEF Execute

LEMMA RecoverKeeps ==
    ASSUME IInv, NEW d \in Devices, Recover(d)
    PROVE  IInv'
<1>1. UNCHANGED <<request, locks, pc, call, now, answers, crashes>>
  BY DEF Recover
<1>2. PICK c \in Changes : ops[c].status = "running" /\ Finish(c)
  BY DEF Recover, Running
<1>3. TypeOK'
  BY <1>1, <1>2, FinishEffect DEF IInv, TypeOK, locks
<1>4. ASSUME NEW p \in Procs  PROVE IInv'
  BY <1>1, <1>2, <1>3, FinishEffect, RecordFrame DEF IInv
<1>5. CASE Procs = {}
  <2>1. Distinct' /\ \A p \in Procs : Local(p)'
    BY <1>5 DEF Distinct
  <2>2. \A a \in answers : a.change \in Changes
    BY DEF IInv, TypeOK
  <2>3. AnswersRecorded'
    <3>1. \A b \in Changes : /\ ops'[b].req = ops[b].req /\ ops'[b].print = ops[b].print
                             /\ ops'[b].dev = ops[b].dev
                             /\ ops'[b].status = "none" <=> ops[b].status = "none"
      BY <1>2, FinishEffect DEF IInv
    <3> QED  BY SMT, <1>1, <2>2, <3>1 DEF IInv, AnswersRecorded, Matches
  <2>4. OneOperationPerRequest' /\ OneRunningPerDevice' /\ RequestResolves'
    <3>1. \A b \in Changes : /\ ops'[b].req = ops[b].req /\ ops'[b].dev = ops[b].dev
                             /\ ops'[b].status = "none" <=> ops[b].status = "none"
                             /\ ops'[b].status = "running" => ops[b].status = "running"
      BY <1>2, FinishEffect DEF IInv
    <3>2. OneOperationPerRequest'
      BY <3>1 DEF IInv, OneOperationPerRequest, Journaled
    <3>3. OneRunningPerDevice'
      BY SMT, <3>1 DEF IInv, OneRunningPerDevice, Running
    <3>4. RequestResolves'
      BY <1>1, <3>1 DEF IInv, RequestResolves, Journaled
    <3> QED  BY <3>2, <3>3, <3>4
  <2> QED  BY <1>3, <2>1, <2>3, <2>4 DEF IInv
<1> QED  BY <1>4, <1>5

LEMMA ReturnRecordKeeps ==
    ASSUME IInv, NEW p \in Procs, ReturnRecord(p)
    PROVE  IInv'
<1> DEFINE a == [req |-> call[p].req, print |-> call[p].print,
                 dev |-> call[p].dev, change |-> call[p].change]
<1>1. /\ pc[p] = "return" /\ Leave(p) /\ UNCHANGED <<journal, now, crashes>>
      /\ answers' = answers \cup {a}
  BY DEF ReturnRecord
<1>2. a \in [req: RequestIds, print: Prints, dev: Devices, change: Changes]
  BY <1>1 DEF IInv, TypeOK, Calls, Drawn
<1>3. Matches(a.change, a)
  BY <1>1 DEF IInv, Local, Own, Matches
<1>4. AnswersRecorded'
  BY <1>1, <1>3 DEF IInv, AnswersRecorded, Matches, journal
<1> QED  BY <1>1, <1>2, <1>4, LeaveKeeps DEF IInv, TypeOK

LEMMA LeavingKeeps ==
    ASSUME IInv, NEW p \in Procs, Refuse(p) \/ Crash(p)
    PROVE  IInv'
<1>1. Leave(p) /\ UNCHANGED <<journal, now, answers>> /\ crashes' \in Nat
  BY SMT DEF Refuse, Crash, IInv, TypeOK
<1>2. AnswersRecorded'
  BY <1>1 DEF IInv, AnswersRecorded, Matches, journal
<1> QED  BY <1>1, <1>2, LeaveKeeps DEF IInv, TypeOK

(* The clock, and stuttering, are read by no part of the invariant. *)
LEMMA ClockKeeps ==
    ASSUME IInv, Tick \/ UNCHANGED vars
    PROVE  IInv'
<1>1. UNCHANGED <<journal, locks, pc, call, answers, crashes>> /\ now' \in Nat
  BY SMT DEF Tick, vars, IInv, TypeOK
<1>2. TypeOK'
  BY <1>1 DEF IInv, TypeOK, journal, locks
<1>3. Distinct' /\ AnswersRecorded'
  BY <1>1 DEF IInv, Distinct, AnswersRecorded, Matches, journal
<1>4. OneOperationPerRequest' /\ RequestResolves' /\ OneRunningPerDevice'
  BY SMT, <1>1 DEF IInv, OneOperationPerRequest, RequestResolves, OneRunningPerDevice, Journaled, Running, journal
<1>5. \A p \in Procs : Local(p)'
  BY <1>1 DEF IInv, Local, Holds, Fresh, Unknown, Own, Matches, Clear, journal, locks
<1> QED  BY <1>2, <1>3, <1>4, <1>5 DEF IInv

----------------------------------------------------------------------------
LEMMA InitIInv == Init => IInv
<1> SUFFICES ASSUME Init  PROVE IInv
  OBVIOUS
<1>1. TypeOK
  BY DEF Init, TypeOK, Labels, Drawn
<1>2. \A p \in Procs : Local(p)
  BY DEF Init, Local, Holds, Fresh, Unknown, Own, Clear, UnderAdmission, UnderDevice, UnderTarget, Unsaved, Cleared
<1>3. Distinct /\ AnswersRecorded
  BY DEF Init, Distinct, AnswersRecorded, Unsaved
<1>4. OneOperationPerRequest /\ RequestResolves /\ OneRunningPerDevice
  BY DEF Init, OneOperationPerRequest, RequestResolves, OneRunningPerDevice, Journaled, Running, NoRecord
<1> QED  BY <1>1, <1>2, <1>3, <1>4 DEF IInv

LEMMA NextIInv == IInv /\ [Next]_vars => IInv'
<1> SUFFICES ASSUME IInv, [Next]_vars  PROVE IInv'
  OBVIOUS
<1>1. ASSUME NEW p \in Procs, Step(p)  PROVE IInv'
  <2>1. CASE Apply(p)
    BY <2>1, BeginKeeps DEF Apply, RequestIds, Weights
  <2>2. CASE Undo(p)
    <3>1. PICK c \in Changes, f \in Prints :
             ops[c].status = "finished" /\ Begin(p, UndoOf(c), f, ops[c].dev, ops[c].weight)
      BY <2>2 DEF Undo
    <3>2. UndoOf(c) \in RequestIds
      BY DEF RequestIds
    <3>3. ops[c].dev \in Devices /\ ops[c].weight \in Weights
      <4>1. ops[c] \in Records
        BY SMT, <3>1 DEF IInv, TypeOK, NoRecord
      <4> QED  BY <4>1 DEF Records
    <3> QED  BY <3>1, <3>2, <3>3, BeginKeeps
  <2>3. CASE LockDevice(p) \/ LockTarget(p) \/ Prepare(p) \/ Stamp(p) \/ Admit(p) \/ CheckBudget(p)
    BY <2>3, LockDeviceKeeps, LockTargetKeeps, PrepareKeeps, StampKeeps, AdmitKeeps, CheckBudgetKeeps
  <2>4. CASE FindKnown(p) \/ FindAgain(p)
    BY <2>4, LookupKeeps DEF FindKnown, FindAgain
  <2>5. CASE Save(p) \/ Remember(p) \/ Execute(p) \/ ReturnRecord(p)
    BY <2>5, SaveKeeps, RememberKeeps, ExecuteKeeps, ReturnRecordKeeps
  <2>6. CASE Refuse(p) \/ Crash(p)
    BY <2>6, LeavingKeeps
  <2> QED  BY <1>1, <2>1, <2>2, <2>3, <2>4, <2>5, <2>6 DEF Step
<1>2. ASSUME NEW d \in Devices, Recover(d)  PROVE IInv'
  BY <1>2, RecoverKeeps
<1>3. CASE Tick \/ UNCHANGED vars
  BY <1>3, ClockKeeps
<1> QED  BY <1>1, <1>2, <1>3 DEF Next

(* The inductive invariant holds in every reachable state of the journal    *)
(* and of the processes that share it.                                      *)
THEOREM Invariance == Spec => []IInv
  BY InitIInv, NextIInv, PTL DEF Spec

(* Type correctness: in particular a call that reached the drawing of its   *)
(* change id has an operation to return (_apply).                           *)
THEOREM TypeCorrect == Spec => []TypeOK
<1>1. IInv => TypeOK
  BY DEF IInv
<1> QED  BY <1>1, Invariance, PTL

(* A request id starts at most one operation, for any number of processes,  *)
(* devices and crashes (_known, _journaled, the admission lock).            *)
THEOREM OneOperation == Spec => []OneOperationPerRequest
<1>1. IInv => OneOperationPerRequest
  BY DEF IInv
<1> QED  BY <1>1, Invariance, PTL

(* A request id is always answered with the same operation, and only to the *)
(* body and the device it was first used with (_known, REUSED_REQUEST).     *)
THEOREM SameAnswer == Spec => []AnswersAgree
<1>1. IInv => AnswersAgree
  <2> SUFFICES ASSUME IInv, NEW a \in answers, NEW b \in answers, a.req = b.req  PROVE a = b
    BY DEF AnswersAgree
  <2>1. /\ a \in [req: RequestIds, print: Prints, dev: Devices, change: Changes]
        /\ b \in [req: RequestIds, print: Prints, dev: Devices, change: Changes]
    BY DEF IInv, TypeOK
  <2>2. Matches(a.change, a) /\ Matches(b.change, b)
    BY DEF IInv, AnswersRecorded
  <2>3. a.change = b.change
    BY SMT, <2>1, <2>2 DEF IInv, OneOperationPerRequest, Journaled, Matches
  <2>4. a.print = b.print /\ a.dev = b.dev
    BY <2>2, <2>3 DEF Matches
  <2> QED  BY SMT, <2>1, <2>3, <2>4
<1> QED  BY <1>1, Invariance, PTL

(* A request file always names a journaled operation of that request: the   *)
(* record is written first (store.save, remember_request).                  *)
THEOREM FilesResolve == Spec => []RequestResolves
<1>1. IInv => RequestResolves
  BY DEF IInv
<1> QED  BY <1>1, Invariance, PTL

(* A device never has two unsettled operations in the journal, whoever died *)
(* (DeviceLock, store.running, recover).                                    *)
THEOREM OneUnsettled == Spec => []OneRunningPerDevice
<1>1. IInv => OneRunningPerDevice
  BY DEF IInv
<1> QED  BY <1>1, Invariance, PTL

(* Two processes never execute on one host key at once, whatever names the  *)
(* devices have (target_lock).                                              *)
THEOREM OneExecution == Spec => []OneExecutionPerTarget
<1>1. IInv => OneExecutionPerTarget
  BY SMT DEF IInv, Local, Holds, UnderDevice, UnderTarget, OneExecutionPerTarget
<1> QED  BY <1>1, Invariance, PTL
============================================================================
