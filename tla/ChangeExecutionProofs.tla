----------------------- MODULE ChangeExecutionProofs -----------------------
(* Proofs about ChangeExecution, for any number of operations, object       *)
(* states, accounts, foreign changes and crashes, on both platforms: first  *)
(* type correctness, then the safety properties, then what is left behind:  *)
(* the saved configuration, the reports and the enrollment certificate.     *)
EXTENDS ChangeExecution, TLAPS

(* Zenon is the default prover; a leaf with arithmetic cites SMT. *)
USE Zenon

(* Every reason falls into one of the classes the model keeps. *)
LEMMA ClassType == \A r : Class(r) \in Reasons
BY DEF Class, Reasons

(* Updates of one record keep the journal well-typed. *)
LEMMA StatusUpdate ==
    ASSUME NEW r \in [Ops -> Records], NEW o \in Ops, NEW s \in Statuses
    PROVE  [r EXCEPT ![o].status = s] \in [Ops -> Records]
<1>1. [r[o] EXCEPT !.status = s] \in Records
  BY DEF Records
<1>2. QED BY <1>1

LEMMA GuardedUpdate ==
    ASSUME NEW r \in [Ops -> Records], NEW o \in Ops
    PROVE  [r EXCEPT ![o].guarded = TRUE] \in [Ops -> Records]
<1>1. [r[o] EXCEPT !.guarded = TRUE] \in Records
  BY DEF Records
<1>2. QED BY <1>1

LEMMA StepsUpdate ==
    ASSUME NEW r \in [Ops -> Records], NEW o \in Ops, NEW m \in Marks
    PROVE  [r EXCEPT ![o].steps = @ \cup {m}] \in [Ops -> Records]
<1>1. [r[o] EXCEPT !.steps = @ \cup {m}] \in Records
  BY DEF Records
<1>2. QED BY <1>1

LEMMA NotificationUpdate ==
    ASSUME NEW r \in [Ops -> Records], NEW o \in Ops, NEW n \in Notes
    PROVE  /\ [r EXCEPT ![o].notification = n] \in [Ops -> Records]
           /\ [r[o] EXCEPT !.notification = n] \in Records
<1>1. [r[o] EXCEPT !.notification = n] \in Records
  BY SMT DEF Records
<1>2. QED BY <1>1

LEMMA CloseUpdate ==
    ASSUME NEW r \in [Ops -> Records], NEW o \in Ops, NEW s \in Statuses, NEW re \in Results,
           NEW rn \in Reasons, NEW n \in Notes
    PROVE  [r EXCEPT ![o].status = s, ![o].result = re, ![o].reason = rn, ![o].notification = n]
               \in [Ops -> Records]
<1>1. [r[o] EXCEPT !.status = s, !.result = re, !.reason = rn, !.notification = n] \in Records
  BY DEF Records
<1>2. QED BY <1>1

LEMMA RecordFields ==
    ASSUME NEW r \in Records
    PROVE  /\ r.status \in Statuses /\ r.kind \in {"change", "enrollment"}
           /\ r.before \in Values /\ r.after \in Values /\ r.rest \in Rests /\ r.accounts \in Accounts
           /\ r.guarded \in BOOLEAN /\ r.steps \in SUBSET Marks /\ r.result \in Results
           /\ r.reason \in Reasons /\ r.notification \in Notes
BY DEF Records

----------------------------------------------------------------------------
LEMMA InitType == Init => TypeOK
<1> SUFFICES ASSUME Init PROVE TypeOK
  OBVIOUS
<1>1. JournalType
  <2>1. rec \in [Ops -> Records]
    BY DEF Init, Records, Statuses, Results, Reasons, Notes
  <2>2. QED
    BY <2>1 DEF Init, JournalType
<1>2. DeviceType
  BY DEF Init, DeviceType, Config, Guards, Phases
<1>3. ProcessType
  BY DEF Init, ProcessType, FreeLabels, Results, Reasons
<1>4. HistoryType
  <2>1. foreign \in 0..MaxForeign /\ crashes \in 0..MaxCrashes
    BY SMT, ConstantsAssumption DEF Init
  <2>2. tampered \in BOOLEAN
    BY DEF Init
  <2>3. QED
    BY <2>1, <2>2 DEF Init, HistoryType
<1>5. QED
  BY <1>1, <1>2, <1>3, <1>4 DEF TypeOK

(* A part of the state keeps its type when it is not written. *)
LEMMA Unchanged ==
    ASSUME TypeOK
    PROVE  /\ UNCHANGED journal => JournalType'
           /\ UNCHANGED device => DeviceType'
           /\ UNCHANGED process => ProcessType'
           /\ UNCHANGED history => HistoryType'
BY DEF TypeOK, JournalType, DeviceType, ProcessType, HistoryType, journal, device, process, history

LEMMA CurIsOp == TypeOK /\ pc \in OwnedLabels => cur \in Ops
BY DEF TypeOK, ProcessType, OwnedLabels, FreeLabels

(* The three ways a command moves on. *)
LEMMA GotoType ==
    ASSUME TypeOK, NEW label, label \in FreeLabels \/ (label \in OwnedLabels /\ pc \in OwnedLabels), Goto(label)
    PROVE  ProcessType'
BY SMT DEF TypeOK, ProcessType, Goto, OwnedLabels, FreeLabels

LEMMA OutcomeType ==
    ASSUME TypeOK, pc \in OwnedLabels, NEW label \in OwnedLabels, NEW result \in Results, NEW reason,
           Outcome(label, result, reason)
    PROVE  ProcessType'
<1>1. cur \in Ops
  BY DEF TypeOK, ProcessType, OwnedLabels, FreeLabels
<1>2. out' \in [result: Results, reason: Reasons]
  BY ClassType DEF Outcome
<1>3. QED
  BY <1>1, <1>2 DEF TypeOK, ProcessType, Outcome

LEMMA ReleaseType == ASSUME TypeOK, Release PROVE ProcessType'
BY DEF Release, ProcessType, FreeLabels, Results, Reasons

LEMMA NextType == TypeOK /\ [Next]_vars => TypeOK'
<1> SUFFICES ASSUME TypeOK, [Next]_vars PROVE TypeOK'
  OBVIOUS
<1> USE DEF TypeOK, journal, device, process, history
<1>1. ASSUME NEW o \in Ops, NEW k \in {"change", "enrollment"}, NEW a \in Values, Prepare(o, k, a) PROVE TypeOK'
  <2>1. JournalType'
    BY <1>1 DEF Prepare, JournalType, DeviceType, Records, Statuses, Results, Reasons, Notes
  <2>2. DeviceType'
    BY <1>1, Unchanged DEF Prepare
  <2>3. ProcessType'
    BY <1>1 DEF Prepare, ProcessType, OwnedLabels, FreeLabels
  <2>4. HistoryType'
    BY <1>1 DEF Prepare, HistoryType
  <2>5. QED
    BY <2>1, <2>2, <2>3, <2>4 DEF TypeOK
<1>2. ASSUME BlockAccounts PROVE TypeOK'
  <2>1. JournalType'
    BY <1>2 DEF BlockAccounts, JournalType
  <2>2. DeviceType'
    BY <1>2, Unchanged DEF BlockAccounts
  <2>3. ProcessType'
    BY <1>2, Unchanged DEF BlockAccounts
  <2>4. HistoryType'
    BY <1>2, Unchanged DEF BlockAccounts
  <2>5. QED
    BY <2>1, <2>2, <2>3, <2>4 DEF TypeOK
<1>3. ASSUME Refuse PROVE TypeOK'
  <2>1. JournalType'
    BY <1>3, Unchanged DEF Refuse
  <2>2. DeviceType'
    BY <1>3, Unchanged DEF Refuse
  <2>3. ProcessType'
    BY <1>3, ReleaseType DEF Refuse
  <2>4. HistoryType'
    BY <1>3, Unchanged DEF Refuse
  <2>5. QED
    BY <2>1, <2>2, <2>3, <2>4 DEF TypeOK
<1>4. ASSUME Journal PROVE TypeOK'
  <2>1. JournalType'
    BY <1>4, StatusUpdate, CurIsOp DEF Journal, JournalType, OwnedLabels, Statuses
  <2>2. DeviceType'
    BY <1>4, Unchanged DEF Journal
  <2>3. ProcessType'
    BY <1>4, GotoType DEF Journal, OwnedLabels
  <2>4. HistoryType'
    BY <1>4, Unchanged DEF Journal
  <2>5. QED
    BY <2>1, <2>2, <2>3, <2>4 DEF TypeOK
<1>5. ASSUME SaveBaseline PROVE TypeOK'
  <2>1. JournalType'
    BY <1>5, RecordFields, CurIsOp DEF SaveBaseline, JournalType, OwnedLabels
  <2>2. DeviceType'
    BY <1>5, Unchanged DEF SaveBaseline
  <2>3. ProcessType'
    BY <1>5, GotoType DEF SaveBaseline, OwnedLabels
  <2>4. HistoryType'
    BY <1>5, Unchanged DEF SaveBaseline
  <2>5. QED
    BY <2>1, <2>2, <2>3, <2>4 DEF TypeOK
<1>6. ASSUME Start PROVE TypeOK'
  <2>1. JournalType'
    BY <1>6, CurIsOp DEF Start, JournalType, OwnedLabels
  <2>2. DeviceType'
    BY <1>6, Unchanged DEF Start
  <2>3. ProcessType'
    BY <1>6, GotoType, OutcomeType DEF Start, OwnedLabels, Results, Finish
  <2>4. HistoryType'
    BY <1>6, Unchanged DEF Start
  <2>5. QED
    BY <2>1, <2>2, <2>3, <2>4 DEF TypeOK
<1>7. ASSUME ReadClock PROVE TypeOK'
  <2>1. JournalType'
    <3>1. rec' \in [Ops -> Records]
      <4>1. cur \in Ops
        BY <1>7, CurIsOp DEF ReadClock, OwnedLabels
      <4>2. [rec EXCEPT ![cur].guarded = TRUE] \in [Ops -> Records]
        BY <4>1, GuardedUpdate DEF JournalType
      <4>3. rec' = rec \/ rec' = [rec EXCEPT ![cur].guarded = TRUE]
        BY <1>7 DEF ReadClock
      <4>4. QED
        BY <4>2, <4>3 DEF JournalType
    <3>2. QED
      BY <1>7, <3>1 DEF ReadClock, JournalType
  <2>2. DeviceType'
    BY <1>7 DEF ReadClock, DeviceType, Phases
  <2>3. ProcessType'
    BY <1>7, GotoType, OutcomeType DEF ReadClock, OwnedLabels, Results, Finish
  <2>4. HistoryType'
    BY <1>7, Unchanged DEF ReadClock
  <2>5. QED
    BY <2>1, <2>2, <2>3, <2>4 DEF TypeOK
<1>8. ASSUME InstallSafeguard PROVE TypeOK'
  <2>1. JournalType'
    <3>1. rec' \in [Ops -> Records]
      <4>1. cur \in Ops
        BY <1>8, CurIsOp DEF InstallSafeguard, OwnedLabels
      <4>2. [rec EXCEPT ![cur].steps = @ \cup {"safeguard_not_verified"}] \in [Ops -> Records]
        BY <4>1, StepsUpdate DEF JournalType, Marks
      <4>3. rec' = rec \/ rec' = [rec EXCEPT ![cur].steps = @ \cup {"safeguard_not_verified"}]
        BY <1>8 DEF InstallSafeguard, Step
      <4>4. QED
        BY <4>2, <4>3 DEF JournalType
    <3>2. QED
      BY <1>8, <3>1 DEF InstallSafeguard, JournalType
  <2>2. DeviceType'
    BY <1>8 DEF InstallSafeguard, DeviceType, Guards
  <2>3. ProcessType'
    BY <1>8, GotoType DEF InstallSafeguard, OwnedLabels
  <2>4. HistoryType'
    BY <1>8, Unchanged DEF InstallSafeguard
  <2>5. QED
    BY <2>1, <2>2, <2>3, <2>4 DEF TypeOK
<1>9. ASSUME Uninstall PROVE TypeOK'
  <2>1. JournalType'
    BY <1>9, Unchanged DEF Uninstall
  <2>2. DeviceType'
    BY <1>9 DEF Uninstall, DeviceType, Guards, RemoveSafeguard
  <2>3. ProcessType'
    BY <1>9, OutcomeType DEF Uninstall, OwnedLabels, Results, Finish
  <2>4. HistoryType'
    BY <1>9, Unchanged DEF Uninstall
  <2>5. QED
    BY <2>1, <2>2, <2>3, <2>4 DEF TypeOK
<1>10. ASSUME ChangeStart PROVE TypeOK'
  <2>1. JournalType'
    BY <1>10, StepsUpdate, CurIsOp DEF ChangeStart, JournalType, OwnedLabels, Step, Marks
  <2>2. DeviceType'
    BY <1>10, Unchanged DEF ChangeStart
  <2>3. ProcessType'
    BY <1>10, GotoType DEF ChangeStart, OwnedLabels
  <2>4. HistoryType'
    BY <1>10, Unchanged DEF ChangeStart
  <2>5. QED
    BY <2>1, <2>2, <2>3, <2>4 DEF TypeOK
<1>11. ASSUME ApplyChange PROVE TypeOK'
  <2>1. JournalType'
    BY <1>11, Unchanged DEF ApplyChange
  <2>2. DeviceType'
    BY <1>11, RecordFields, CurIsOp DEF ApplyChange, DeviceType, JournalType, OwnedLabels
  <2>3. ProcessType'
    BY <1>11, GotoType, OutcomeType DEF ApplyChange, OwnedLabels, Results, Settle
  <2>4. HistoryType'
    BY <1>11, Unchanged DEF ApplyChange
  <2>5. QED
    BY <2>1, <2>2, <2>3, <2>4 DEF TypeOK
<1>12. ASSUME Postcheck PROVE TypeOK'
  <2>1. JournalType'
    BY <1>12, Unchanged DEF Postcheck
  <2>2. DeviceType'
    BY <1>12, Unchanged DEF Postcheck
  <2>3. ProcessType'
    BY <1>12, GotoType, OutcomeType DEF Postcheck, OwnedLabels, Results, Settle
  <2>4. HistoryType'
    BY <1>12, Unchanged DEF Postcheck
  <2>5. QED
    BY <2>1, <2>2, <2>3, <2>4 DEF TypeOK
<1>13. ASSUME CheckIdentity PROVE TypeOK'
  <2>1. JournalType'
    BY <1>13, Unchanged DEF CheckIdentity
  <2>2. DeviceType'
    BY <1>13, Unchanged DEF CheckIdentity
  <2>3. ProcessType'
    BY <1>13, GotoType, OutcomeType DEF CheckIdentity, OwnedLabels, Results, Settle
  <2>4. HistoryType'
    BY <1>13, Unchanged DEF CheckIdentity
  <2>5. QED
    BY <2>1, <2>2, <2>3, <2>4 DEF TypeOK
<1>14. ASSUME CheckMargin PROVE TypeOK'
  <2>1. JournalType'
    BY <1>14, Unchanged DEF CheckMargin
  <2>2. DeviceType'
    BY <1>14, Unchanged DEF CheckMargin
  <2>3. ProcessType'
    BY <1>14, GotoType, OutcomeType DEF CheckMargin, OwnedLabels, Results, Settle
  <2>4. HistoryType'
    BY <1>14, Unchanged DEF CheckMargin
  <2>5. QED
    BY <2>1, <2>2, <2>3, <2>4 DEF TypeOK
<1>15. ASSUME FinalCheck PROVE TypeOK'
  <2>1. JournalType'
    <3>1. rec' \in [Ops -> Records]
      <4>1. cur \in Ops
        BY <1>15, CurIsOp DEF FinalCheck, OwnedLabels
      <4>2. [rec EXCEPT ![cur].steps = @ \cup {"confirm_start"}] \in [Ops -> Records]
        BY <4>1, StepsUpdate DEF JournalType, Marks
      <4>3. rec' = rec \/ rec' = [rec EXCEPT ![cur].steps = @ \cup {"confirm_start"}]
        BY <1>15 DEF FinalCheck, Step
      <4>4. QED
        BY <4>2, <4>3 DEF JournalType
    <3>2. QED
      BY <1>15, <3>1 DEF FinalCheck, JournalType
  <2>2. DeviceType'
    BY <1>15, Unchanged DEF FinalCheck
  <2>3. ProcessType'
    BY <1>15, GotoType, OutcomeType DEF FinalCheck, OwnedLabels, Results, Settle
  <2>4. HistoryType'
    BY <1>15, Unchanged DEF FinalCheck
  <2>5. QED
    BY <2>1, <2>2, <2>3, <2>4 DEF TypeOK
<1>16. ASSUME Confirm PROVE TypeOK'
  <2>1. JournalType'
    BY <1>16, Unchanged DEF Confirm
  <2>2. DeviceType'
    BY <1>16 DEF Confirm, DeviceType, Guards, RemoveSafeguard
  <2>3. ProcessType'
    BY <1>16, GotoType, OutcomeType DEF Confirm, OwnedLabels, Results, Settle
  <2>4. HistoryType'
    BY <1>16, Unchanged DEF Confirm
  <2>5. QED
    BY <2>1, <2>2, <2>3, <2>4 DEF TypeOK
<1>17. ASSUME RemovalCheck PROVE TypeOK'
  <2>1. JournalType'
    BY <1>17, Unchanged DEF RemovalCheck
  <2>2. DeviceType'
    BY <1>17, Unchanged DEF RemovalCheck
  <2>3. ProcessType'
    BY <1>17, OutcomeType DEF RemovalCheck, OwnedLabels, Results, Finish
  <2>4. HistoryType'
    BY <1>17, Unchanged DEF RemovalCheck
  <2>5. QED
    BY <2>1, <2>2, <2>3, <2>4 DEF TypeOK
<1>18. ASSUME SavedCheck PROVE TypeOK'
  <2>1. JournalType'
    BY <1>18, Unchanged DEF SavedCheck
  <2>2. DeviceType'
    BY <1>18, Unchanged DEF SavedCheck
  <2>3. ProcessType'
    BY <1>18, GotoType, OutcomeType DEF SavedCheck, OwnedLabels, Results, Finish
  <2>4. HistoryType'
    BY <1>18, Unchanged DEF SavedCheck
  <2>5. QED
    BY <2>1, <2>2, <2>3, <2>4 DEF TypeOK
<1>19. ASSUME CompleteEnrollment PROVE TypeOK'
  <2>1. JournalType'
    BY <1>19, CurIsOp DEF CompleteEnrollment, JournalType, DeviceType, OwnedLabels
  <2>2. DeviceType'
    BY <1>19, Unchanged DEF CompleteEnrollment
  <2>3. ProcessType'
    BY <1>19, ReleaseType DEF CompleteEnrollment
  <2>4. HistoryType'
    BY <1>19, Unchanged DEF CompleteEnrollment
  <2>5. QED
    BY <2>1, <2>2, <2>3, <2>4 DEF TypeOK
<1>20. ASSUME Persist PROVE TypeOK'
  <2>1. JournalType'
    BY <1>20, Unchanged DEF Persist
  <2>2. DeviceType'
    <3>1. Config \in [obj: Values, rest: Rests]
      BY DEF DeviceType, Config
    <3>2. QED
      BY <1>20, <3>1 DEF Persist, DeviceType
  <2>3. ProcessType'
    BY <1>20, GotoType, OutcomeType DEF Persist, OwnedLabels, Results, Finish, ProcessType
  <2>4. HistoryType'
    BY <1>20, Unchanged DEF Persist
  <2>5. QED
    BY <2>1, <2>2, <2>3, <2>4 DEF TypeOK
<1>21. ASSUME WaitForExpiry PROVE TypeOK'
  <2>1. JournalType'
    BY <1>21, Unchanged DEF WaitForExpiry
  <2>2. DeviceType'
    BY <1>21, Unchanged DEF WaitForExpiry
  <2>3. ProcessType'
    <3>1. CASE Finish("unknown", out.reason)
      BY <1>21, <3>1, OutcomeType DEF WaitForExpiry, Finish, OwnedLabels, Results
    <3>2. CASE pc' = "verdict" /\ verdict' = Verdict(cur) /\ UNCHANGED <<mode, cur, out>>
      BY <1>21, <3>2, CurIsOp DEF WaitForExpiry, ProcessType, Verdict, OwnedLabels
    <3>3. QED
      BY <1>21, <3>1, <3>2 DEF WaitForExpiry
  <2>4. HistoryType'
    BY <1>21, Unchanged DEF WaitForExpiry
  <2>5. QED
    BY <2>1, <2>2, <2>3, <2>4 DEF TypeOK
<1>22. ASSUME KeepSafeguard PROVE TypeOK'
  <2>1. JournalType'
    BY <1>22, Unchanged DEF KeepSafeguard
  <2>2. DeviceType'
    BY <1>22 DEF KeepSafeguard, RevokeToken, TypeOK, DeviceType, Guards
  <2>3. ProcessType'
    BY <1>22, OutcomeType DEF KeepSafeguard, OwnedLabels, Results, Finish
  <2>4. HistoryType'
    BY <1>22, Unchanged DEF KeepSafeguard
  <2>5. QED
    BY <2>1, <2>2, <2>3, <2>4 DEF TypeOK
<1>23. ASSUME SettleVerdict PROVE TypeOK'
  <2>1. JournalType'
    BY <1>23, Unchanged DEF SettleVerdict
  <2>2. DeviceType'
    BY <1>23 DEF SettleVerdict, DeviceType, Guards, RemoveSafeguard
  <2>3. ProcessType'
    <3>1. pc \in OwnedLabels
      BY <1>23 DEF SettleVerdict, OwnedLabels
    <3>2. \E label \in {"persist", "finish"}, result \in Results : \E reason : Outcome(label, result, reason)
      BY <1>23 DEF SettleVerdict, Finish, Results
    <3>3. QED
      BY <3>1, <3>2, OutcomeType DEF OwnedLabels
  <2>4. HistoryType'
    BY <1>23, Unchanged DEF SettleVerdict
  <2>5. QED
    BY <2>1, <2>2, <2>3, <2>4 DEF TypeOK
<1>24. ASSUME Block PROVE TypeOK'
  <2>1. JournalType'
    BY <1>24, CurIsOp DEF Block, JournalType, OwnedLabels
  <2>2. DeviceType'
    BY <1>24, Unchanged DEF Block
  <2>3. ProcessType'
    BY <1>24, GotoType DEF Block, OwnedLabels
  <2>4. HistoryType'
    BY <1>24, Unchanged DEF Block
  <2>5. QED
    BY <2>1, <2>2, <2>3, <2>4 DEF TypeOK
<1>25. ASSUME Close PROVE TypeOK'
  <2>1. JournalType'
    <3>1. cur \in Ops /\ out.result \in Results /\ out.reason \in Reasons
      BY <1>25, CurIsOp DEF Close, ProcessType, OwnedLabels
    <3>2. rec' \in [Ops -> Records]
      <4>1. ASSUME NEW note \in Notes
            PROVE  [rec EXCEPT ![cur].status = "finished", ![cur].result = out.result,
                       ![cur].reason = out.reason, ![cur].notification = note] \in [Ops -> Records]
        BY ZenonT(40), <3>1, CloseUpdate DEF JournalType, Statuses
      <4>2. PICK note \in Notes :
               rec' = [rec EXCEPT ![cur].status = "finished", ![cur].result = out.result,
                          ![cur].reason = out.reason, ![cur].notification = note]
        BY <1>25 DEF Close, Notes
      <4>3. QED
        BY <4>1, <4>2, Zenon
    <3>3. QED
      BY <1>25, <3>2 DEF Close, JournalType
  <2>2. DeviceType'
    BY <1>25, Unchanged DEF Close
  <2>3. ProcessType'
    <3>1. pc \in OwnedLabels
      BY <1>25 DEF Close, OwnedLabels
    <3>2. Release \/ \E label \in {"recover", "complete", "deliver"} : Goto(label)
      BY <1>25 DEF Close, Return
    <3>3. QED
      BY <3>1, <3>2, GotoType, ReleaseType DEF OwnedLabels, FreeLabels
  <2>4. HistoryType'
    BY <1>25, Unchanged DEF Close
  <2>5. QED
    BY <2>1, <2>2, <2>3, <2>4 DEF TypeOK
<1>26. ASSUME Deliver PROVE TypeOK'
  <2>1. JournalType'
    BY <1>26, NotificationUpdate, RecordFields, CurIsOp DEF Deliver, JournalType, OwnedLabels, Notes
  <2>2. DeviceType'
    BY <1>26, Unchanged DEF Deliver
  <2>3. ProcessType'
    BY <1>26, GotoType DEF Deliver, OwnedLabels
  <2>4. HistoryType'
    BY <1>26, Unchanged DEF Deliver
  <2>5. QED
    BY <2>1, <2>2, <2>3, <2>4 DEF TypeOK
<1>27. ASSUME Send PROVE TypeOK'
  <2>1. JournalType'
    BY <1>27, Unchanged DEF Send
  <2>2. DeviceType'
    BY <1>27, Unchanged DEF Send
  <2>3. ProcessType'
    BY <1>27, GotoType DEF Send, OwnedLabels
  <2>4. HistoryType'
    BY <1>27, CurIsOp DEF Send, HistoryType, OwnedLabels
  <2>5. QED
    BY <2>1, <2>2, <2>3, <2>4 DEF TypeOK
<1>28. ASSUME Noted PROVE TypeOK'
  <2>1. JournalType'
    BY <1>28, NotificationUpdate, CurIsOp DEF Noted, JournalType, OwnedLabels, Notes
  <2>2. DeviceType'
    BY <1>28, Unchanged DEF Noted
  <2>3. ProcessType'
    <3>1. pc \in OwnedLabels
      BY <1>28 DEF Noted, OwnedLabels
    <3>2. Release \/ \E label \in {"recover", "complete", "deliver"} : Goto(label)
      BY <1>28 DEF Noted, Return
    <3>3. QED
      BY <3>1, <3>2, GotoType, ReleaseType DEF OwnedLabels, FreeLabels
  <2>4. HistoryType'
    BY <1>28, Unchanged DEF Noted
  <2>5. QED
    BY <2>1, <2>2, <2>3, <2>4 DEF TypeOK
<1>29. ASSUME NEW o \in Ops, RecoverRecord(o) PROVE TypeOK'
  <2>1. JournalType'
    BY <1>29, Unchanged DEF RecoverRecord
  <2>2. DeviceType'
    BY <1>29, Unchanged DEF RecoverRecord
  <2>3. ProcessType'
    <3>1. \E label \in {"finish", "settle", "remaining", "compare"},
             result \in {"none", "rejected", "unknown"} : \E reason :
               TakeUp(o, label, result, reason)
      BY <1>29 DEF RecoverRecord
    <3>2. QED
      BY SMT, <3>1, ClassType DEF TakeUp, TypeOK, ProcessType, OwnedLabels, Results
  <2>4. HistoryType'
    BY <1>29, Unchanged DEF RecoverRecord
  <2>5. QED
    BY <2>1, <2>2, <2>3, <2>4 DEF TypeOK
<1>30. ASSUME RemoveRemaining PROVE TypeOK'
  <2>1. JournalType'
    BY <1>30, Unchanged DEF RemoveRemaining
  <2>2. DeviceType'
    BY <1>30 DEF RemoveRemaining, DeviceType, Guards, RemoveSafeguard
  <2>3. ProcessType'
    BY <1>30, GotoType, OutcomeType DEF RemoveRemaining, OwnedLabels, Results, Finish
  <2>4. HistoryType'
    BY <1>30, Unchanged DEF RemoveRemaining
  <2>5. QED
    BY <2>1, <2>2, <2>3, <2>4 DEF TypeOK
<1>31. ASSUME Compare PROVE TypeOK'
  <2>1. JournalType'
    BY <1>31, Unchanged DEF Compare
  <2>2. DeviceType'
    BY <1>31, Unchanged DEF Compare
  <2>3. ProcessType'
    BY <1>31, OutcomeType DEF Compare, OwnedLabels, Results, Finish
  <2>4. HistoryType'
    BY <1>31, Unchanged DEF Compare
  <2>5. QED
    BY <2>1, <2>2, <2>3, <2>4 DEF TypeOK
<1>32. ASSUME RecoverLeftover PROVE TypeOK'
  <2>1. JournalType'
    <3>1. CASE UNCHANGED rec
      BY <1>32, <3>1 DEF RecoverLeftover, JournalType
    <3>2. ASSUME NEW o \in Ops, rec' = [rec EXCEPT ![o].steps = @ \cup {"safeguard_removed"}]
          PROVE  JournalType'
      <4>1. rec' \in [Ops -> Records]
        BY <3>2, StepsUpdate DEF JournalType, Marks
      <4>2. QED
        BY <4>1, <1>32 DEF RecoverLeftover, JournalType
    <3>3. QED
      BY <1>32, <3>1, <3>2 DEF RecoverLeftover, UnverifiedSafeguard
  <2>2. DeviceType'
    BY <1>32 DEF RecoverLeftover, DeviceType, Guards, RemoveSafeguard
  <2>3. ProcessType'
    BY <1>32, ReleaseType DEF RecoverLeftover
  <2>4. HistoryType'
    BY <1>32, Unchanged DEF RecoverLeftover
  <2>5. QED
    BY <2>1, <2>2, <2>3, <2>4 DEF TypeOK
<1>33. ASSUME ClearBaseline PROVE TypeOK'
  <2>1. JournalType'
    BY <1>33 DEF ClearBaseline, JournalType
  <2>2. DeviceType'
    BY <1>33, Unchanged DEF ClearBaseline
  <2>3. ProcessType'
    BY <1>33, GotoType DEF ClearBaseline, FreeLabels
  <2>4. HistoryType'
    BY <1>33, Unchanged DEF ClearBaseline
  <2>5. QED
    BY <2>1, <2>2, <2>3, <2>4 DEF TypeOK
<1>34. ASSUME Waive PROVE TypeOK'
  <2>1. JournalType'
    BY <1>34, NotificationUpdate, CurIsOp DEF Waive, JournalType, OwnedLabels, Notes
  <2>2. DeviceType'
    BY <1>34, Unchanged DEF Waive
  <2>3. ProcessType'
    BY <1>34, ReleaseType DEF Waive
  <2>4. HistoryType'
    BY <1>34, Unchanged DEF Waive
  <2>5. QED
    BY <2>1, <2>2, <2>3, <2>4 DEF TypeOK
<1>35. ASSUME Recover PROVE TypeOK'
  <2>1. JournalType'
    BY <1>35, Unchanged DEF Recover
  <2>2. DeviceType'
    BY <1>35, Unchanged DEF Recover
  <2>3. ProcessType'
    BY <1>35 DEF Recover, ProcessType, OwnedLabels, FreeLabels
  <2>4. HistoryType'
    BY <1>35, Unchanged DEF Recover
  <2>5. QED
    BY <2>1, <2>2, <2>3, <2>4 DEF TypeOK
<1>36. ASSUME Unblock PROVE TypeOK'
  <2>1. JournalType'
    BY <1>36 DEF Unblock, JournalType
  <2>2. DeviceType'
    BY <1>36, Unchanged DEF Unblock
  <2>3. ProcessType'
    BY <1>36 DEF Unblock, ProcessType, OwnedLabels, FreeLabels
  <2>4. HistoryType'
    BY <1>36 DEF Unblock, HistoryType
  <2>5. QED
    BY <2>1, <2>2, <2>3, <2>4 DEF TypeOK
<1>37. ASSUME NEW o \in Ops, NotifyRetry(o) PROVE TypeOK'
  <2>1. JournalType'
    BY <1>37, Unchanged DEF NotifyRetry
  <2>2. DeviceType'
    BY <1>37, Unchanged DEF NotifyRetry
  <2>3. ProcessType'
    BY <1>37 DEF NotifyRetry, ProcessType, OwnedLabels, FreeLabels
  <2>4. HistoryType'
    BY <1>37, Unchanged DEF NotifyRetry
  <2>5. QED
    BY <2>1, <2>2, <2>3, <2>4 DEF TypeOK
<1>38. ASSUME Crash PROVE TypeOK'
  <2>1. JournalType'
    BY <1>38, Unchanged DEF Crash
  <2>2. DeviceType'
    BY <1>38, Unchanged DEF Crash
  <2>3. ProcessType'
    BY <1>38, ReleaseType DEF Crash
  <2>4. HistoryType'
    BY SMT, <1>38, ConstantsAssumption DEF Crash, HistoryType
  <2>5. QED
    BY <2>1, <2>2, <2>3, <2>4 DEF TypeOK
<1>39. ASSUME Tick PROVE TypeOK'
  <2>1. JournalType'
    BY <1>39, Unchanged DEF Tick
  <2>2. DeviceType'
    BY <1>39 DEF Tick, DeviceType, Phases
  <2>3. ProcessType'
    BY <1>39, Unchanged DEF Tick
  <2>4. HistoryType'
    BY <1>39, Unchanged DEF Tick
  <2>5. QED
    BY <2>1, <2>2, <2>3, <2>4 DEF TypeOK
<1>40. ASSUME NEW o \in Ops, Fire(o) PROVE TypeOK'
  <2>1. JournalType'
    BY <1>40, Unchanged DEF Fire
  <2>2. DeviceType'
    BY SMT, <1>40, RecordFields DEF Fire, DeviceType, JournalType, Guards
  <2>3. ProcessType'
    BY <1>40, Unchanged DEF Fire
  <2>4. HistoryType'
    BY <1>40, Unchanged DEF Fire
  <2>5. QED
    BY <2>1, <2>2, <2>3, <2>4 DEF TypeOK
<1>41. ASSUME Foreign PROVE TypeOK'
  <2>1. JournalType'
    BY <1>41, Unchanged DEF Foreign
  <2>2. DeviceType'
    BY SMT, <1>41 DEF Foreign, DeviceType, Config
  <2>3. ProcessType'
    BY <1>41, Unchanged DEF Foreign
  <2>4. HistoryType'
    BY SMT, <1>41, ConstantsAssumption DEF Foreign, HistoryType
  <2>5. QED
    BY <2>1, <2>2, <2>3, <2>4 DEF TypeOK
<1>42. ASSUME UNCHANGED vars PROVE TypeOK'
  BY <1>42, Unchanged DEF vars
<1>43. QED
  BY <1>1, <1>2, <1>3, <1>4, <1>5, <1>6, <1>7, <1>8, <1>9, <1>10, <1>11, <1>12, <1>13, <1>14,
     <1>15, <1>16, <1>17, <1>18, <1>19, <1>20, <1>21, <1>22, <1>23, <1>24, <1>25, <1>26, <1>27,
     <1>28, <1>29, <1>30, <1>31, <1>32, <1>33, <1>34, <1>35, <1>36, <1>37, <1>38, <1>39, <1>40,
     <1>41,
     <1>42 DEF Next, Command, CommandStep, ApplySteps, SettleSteps, FinishSteps,
     RecoverSteps, UnblockSteps, Device

(* Every command keeps the types of the journal, the device and its own     *)
(* state: at every label that works on an operation there is one.           *)
THEOREM TypeCorrect == Spec => []TypeOK
BY InitType, NextType, PTL DEF Spec
----------------------------------------------------------------------------

(***************************************************************************)
(* The inductive invariant.  StateInv speaks of the journal and the device *)
(* alone, LabelInv of what the command at a label knows about them.        *)
(***************************************************************************)

(* Only the operation planned last can be running or have an armed safeguard. *)
OnlyLatest == \A o \in Ops : rec[o].status = "running" \/ guard[o] = "armed" => o = latest

StateInv == /\ OnlyLatest /\ WriteAhead /\ BlockingOutcomeBlocks
            /\ SettledSafeguardGone /\ SettledOutcomeTrue

(* labels at which the record of cur is running, or finished *)
RunLabels == {"journaled", "start", "clock", "install", "uninstall", "verified", "change",
              "postcheck", "check", "margin", "final", "confirm", "removed", "persist", "saved",
              "settle", "verdict", "finish", "close", "remaining", "compare"}
NoteLabels == {"deliver", "send", "sent", "failed", "complete"}

(* the status of the record the command works on *)
Ownership ==
    /\ pc = "prepared" => /\ cur = latest /\ rec[cur].status = "none"
                          /\ \A o \in Ops : rec[o].status # "running"
    /\ pc \in RunLabels => rec[cur].status = "running"
    /\ pc \in NoteLabels => rec[cur].status = "finished"

(* what the saved record says while _execute is at a label *)
RecordedProgress ==
    /\ pc \in {"prepared", "journaled", "start", "clock"} => ~rec[cur].guarded
    /\ pc \in {"install", "uninstall", "verified", "change"} => rec[cur].guarded
    /\ pc \in {"prepared", "journaled", "start", "clock", "install", "uninstall", "verified"} =>
          "change_start" \notin rec[cur].steps
    /\ pc = "change" => "change_start" \in rec[cur].steps
    /\ pc = "confirm" => "confirm_start" \in rec[cur].steps

(* the labels after a verified removal have no safeguard left *)
GuardKnown ==
    /\ pc \in {"removed", "persist", "saved", "compare"} => guard[cur] = "absent"
    /\ pc \in {"finish", "close"} /\ ~blocks(out.result, out.reason) => guard[cur] = "absent"
    /\ pc = "remaining" => guard[cur] # "armed"
    /\ pc = "verdict" /\ FIRING_OBSERVED => guard[cur] # "armed"
    /\ pc = "verdict" => phase = "over"

(* the block is there before the record is closed *)
BlockFirst == pc = "close" /\ blocks(out.result, out.reason) => blocked # Free

(* what was read from the device stays true unless somebody else touches it *)
ReadingTrue ==
    ~tampered =>
      /\ pc = "verdict" /\ verdict \in {"match", "object"} => obj = rec[cur].before
      /\ pc \in {"persist", "saved", "finish", "close"} /\ ~blocks(out.result, out.reason) =>
            obj = Expected(out.result, cur)

LabelInv == Ownership /\ RecordedProgress /\ GuardKnown /\ BlockFirst /\ ReadingTrue

IInv == TypeOK /\ StateInv /\ LabelInv

(* a step that leaves the journal and the device as they are *)
LEMMA StateFrame ==
    ASSUME StateInv, UNCHANGED <<rec, guard, obj, blocked, latest, tampered, released>>
    PROVE  StateInv'
BY DEF StateInv, OnlyLatest, WriteAhead, BlockingOutcomeBlocks, SettledSafeguardGone,
       SettledOutcomeTrue, Settled, Expected

(* what StateInv reads of a record, except that a step may be added *)
Kept(o) == /\ rec'[o].status = rec[o].status /\ rec'[o].guarded = rec[o].guarded
           /\ rec'[o].before = rec[o].before /\ rec'[o].after = rec[o].after
           /\ rec'[o].result = rec[o].result /\ rec'[o].reason = rec[o].reason
           /\ rec[o].steps \subseteq rec'[o].steps

LEMMA KeptFrame ==
    ASSUME StateInv, \A o \in Ops : Kept(o),
           UNCHANGED <<guard, obj, blocked, latest, tampered, released>>
    PROVE  StateInv'
BY SMT DEF StateInv, OnlyLatest, WriteAhead, BlockingOutcomeBlocks, SettledSafeguardGone,
       SettledOutcomeTrue, Settled, Expected, Kept

(* a command that has returned, or between two records, knows nothing *)
LEMMA RestFrame == ASSUME pc' \in FreeLabels PROVE LabelInv'
BY DEF FreeLabels, LabelInv, Ownership, RecordedProgress, GuardKnown, BlockFirst, ReadingTrue,
       RunLabels, NoteLabels

(* _step adds the named step to the record of cur and nothing else *)
LEMMA StepEffect ==
    ASSUME TypeOK, cur \in Ops, NEW name, Step(name)
    PROVE  /\ \A o \in Ops : Kept(o)
           /\ rec'[cur].steps = rec[cur].steps \cup {name}
<1>1. rec \in [Ops -> Records]
  BY DEF TypeOK, JournalType
<1>2. rec' = [rec EXCEPT ![cur] = [rec[cur] EXCEPT !.steps = rec[cur].steps \cup {name}]]
  BY <1>1 DEF Step
<1>3. \A o \in Ops : o # cur => rec'[o] = rec[o]
  BY <1>1, <1>2
<1>4. rec'[cur] = [rec[cur] EXCEPT !.steps = rec[cur].steps \cup {name}] /\ rec[cur] \in Records
  BY <1>1, <1>2
<1>5. Kept(cur) /\ rec'[cur].steps = rec[cur].steps \cup {name}
  BY <1>4 DEF Kept, Records
<1>6. QED
  BY <1>3, <1>5 DEF Kept

(* a removal only takes parts away, and only of the operation's own safeguard *)
LEMMA RemovalEffect ==
    ASSUME TypeOK, NEW o \in Ops, NEW removed \in BOOLEAN, RemoveSafeguard(o, removed)
    PROVE  /\ \A p \in Ops : p # o => guard'[p] = guard[p]
           /\ guard'[o] \in {"absent", "partial", guard[o]}
           /\ guard[o] = "absent" => guard'[o] = "absent"
           /\ removed => guard'[o] = "absent"
BY DEF TypeOK, DeviceType, RemoveSafeguard

(* StateInv when only parts of safeguards of unsettled operations go away *)
LEMMA RemovalFrame ==
    ASSUME TypeOK, StateInv, NEW o \in Ops, NEW removed \in BOOLEAN, RemoveSafeguard(o, removed),
           UNCHANGED <<rec, obj, blocked, latest, tampered, released>>
    PROVE  StateInv'
<1>1. \A p \in Ops : /\ guard'[p] = "armed" => guard[p] = "armed"
                     /\ guard[p] = "absent" => guard'[p] = "absent"
  BY RemovalEffect
<1>2. QED
  BY <1>1 DEF StateInv, OnlyLatest, WriteAhead, BlockingOutcomeBlocks, SettledSafeguardGone,
       SettledOutcomeTrue, Settled, Expected

(* StateInv when a token is revoked: the safeguard stays, without its power *)
LEMMA RevokeFrame ==
    ASSUME TypeOK, StateInv, RevokeToken \/ UNCHANGED guard,
           UNCHANGED <<rec, obj, blocked, latest, tampered, released>>
    PROVE  StateInv'
<1>1. \A p \in Ops : /\ guard'[p] = "armed" => guard[p] = "armed"
                     /\ guard'[p] = "absent" <=> guard[p] = "absent"
  BY DEF RevokeToken, TypeOK, DeviceType
<1>2. QED
  BY <1>1 DEF StateInv, OnlyLatest, WriteAhead, BlockingOutcomeBlocks, SettledSafeguardGone,
       SettledOutcomeTrue, Settled, Expected

(* the classes of the reasons that block *)
LEMMA BlockingClasses ==
    /\ \A result, reason : reason \in BLOCKING_REASONS => blocks(result, Class(reason))
    /\ \A reason : blocks("unknown", reason) /\ blocks("revert-failed", reason)
    /\ \A reason \in Reasons : Class(reason) = reason
BY DEF blocks, Class, BLOCKING_RESULTS, BLOCKING_REASONS, Reasons

(* a running operation that has not journaled its safeguard, or its change, *)
(* has not touched the device                                               *)
LEMMA Untouched ==
    ASSUME StateInv, NEW o \in Ops, rec[o].status = "running"
    PROVE  /\ ~rec[o].guarded => guard[o] = "absent"
           /\ ~tampered /\ (~rec[o].guarded \/ "change_start" \notin rec[o].steps) => obj = rec[o].before
BY DEF StateInv, OnlyLatest, WriteAhead

(* an outcome is decided: what has to be known of the device at that time *)
LEMMA OutcomeLabel ==
    ASSUME LabelInv, pc \in RunLabels, NEW label \in {"persist", "finish"}, NEW result, NEW reason,
           Outcome(label, result, reason), UNCHANGED <<rec, obj, tampered>>,
           label = "persist" => guard'[cur] = "absent",
           ~blocks(result, Class(reason)) =>
               guard'[cur] = "absent" /\ (~tampered => obj = Expected(result, cur))
    PROVE  LabelInv'
<1>1. /\ pc' = label /\ cur' = cur
      /\ out'.result = result /\ out'.reason = Class(reason)
  BY DEF Outcome
<1>2. Ownership' /\ RecordedProgress'
  BY <1>1 DEF LabelInv, Ownership, RecordedProgress, RunLabels, NoteLabels
<1>3. GuardKnown' /\ BlockFirst'
  BY <1>1 DEF GuardKnown, BlockFirst
<1>4. ReadingTrue'
  BY <1>1 DEF ReadingTrue, Expected
<1>5. QED
  BY <1>2, <1>3, <1>4 DEF LabelInv

LEMMA SettleLabel ==
    ASSUME LabelInv, pc \in RunLabels, NEW reason, Settle(reason), UNCHANGED rec
    PROVE  LabelInv'
BY DEF Settle, Outcome, LabelInv, Ownership, RecordedProgress, GuardKnown, BlockFirst, ReadingTrue,
       RunLabels, NoteLabels

LEMMA NextIInv == IInv /\ [Next]_vars => IInv'
<1> SUFFICES ASSUME IInv, [Next]_vars PROVE StateInv' /\ LabelInv'
  BY NextType DEF IInv
<1>a. TypeOK /\ StateInv /\ LabelInv
  BY DEF IInv
<1> USE <1>a DEF journal, device, process, history
<1>1. ASSUME NEW o \in Ops, NEW k \in {"change", "enrollment"}, NEW a \in Values, Prepare(o, k, a)
  PROVE StateInv' /\ LabelInv'
  <2>1. /\ \A p \in Ops \ {o} : rec'[p] = rec[p]
        /\ rec'[o] = [status |-> "none", kind |-> k, before |-> obj, after |-> a, rest |-> rest,
             accounts |-> accounts, guarded |-> FALSE, steps |-> {}, result |-> "none",
             reason |-> "plain", notification |-> "none"]
    BY <1>1 DEF Prepare, TypeOK, JournalType
  <2>2. \A p \in Ops : rec[p].status # "running" /\ guard[p] # "armed"
    BY <1>1 DEF Prepare, JournalAllows, Running, Leftovers
  <2>3. rec[o].status = "none" /\ latest' = o /\ UNCHANGED <<guard, obj, blocked, released>>
    BY <1>1 DEF Prepare
  <2>4. StateInv'
    <3>1. \A p \in Ops : ~Settled(p)' \/ (p # o /\ rec'[p] = rec[p])
      BY SMT, <2>1 DEF Settled
    <3>2. OnlyLatest'
      BY <2>1, <2>2, <2>3 DEF StateInv, OnlyLatest
    <3>3. WriteAhead'
      BY SMT, <2>1, <2>2, <2>3 DEF StateInv, WriteAhead
    <3>4. BlockingOutcomeBlocks'
      BY SMT, <2>1, <2>3, <3>1 DEF StateInv, BlockingOutcomeBlocks, Settled
    <3>5. SettledSafeguardGone'
      BY <2>1, <2>2, <2>3, <3>1 DEF StateInv, SettledSafeguardGone, Settled
    <3>6. SettledOutcomeTrue'
      BY <2>1, <2>3, <3>1 DEF StateInv, SettledOutcomeTrue, Settled
    <3>7. QED
      BY <3>2, <3>3, <3>4, <3>5, <3>6 DEF StateInv
  <2>5. pc' = "prepared" /\ cur' = o
    BY <1>1 DEF Prepare
  <2>6. \A p \in Ops : rec'[p].status # "running"
    BY SMT, <2>1, <2>2
  <2>7. LabelInv'
    <3>1. Ownership'
      BY SMT, <2>1, <2>3, <2>5, <2>6 DEF Ownership, RunLabels, NoteLabels
    <3>2. RecordedProgress' /\ GuardKnown'
      BY SMT, <2>1, <2>3, <2>5 DEF RecordedProgress, GuardKnown, RunLabels
    <3>3. BlockFirst' /\ ReadingTrue'
      BY <2>1, <2>3, <2>5 DEF BlockFirst, ReadingTrue
    <3>4. QED
      BY <3>1, <3>2, <3>3 DEF LabelInv
  <2>8. QED
    BY <2>4, <2>7
<1>2. ASSUME BlockAccounts PROVE StateInv' /\ LabelInv'
  <2>1. StateInv'
    BY SMT, <1>2, CurIsOp, ConstantsAssumption DEF BlockAccounts, OwnedLabels, LabelInv, Ownership,
      RecordedProgress, GuardKnown, BlockFirst, ReadingTrue, RunLabels, NoteLabels, StateInv,
      OnlyLatest, WriteAhead, BlockingOutcomeBlocks, SettledSafeguardGone, SettledOutcomeTrue,
      Settled, Expected, TypeOK, JournalType, DeviceType, Records
  <2>2. LabelInv'
    BY <1>2, CurIsOp, BlockingClasses DEF BlockAccounts, JournalAllows, Running, Undelivered,
      LabelInv, Ownership, RecordedProgress, GuardKnown, BlockFirst, ReadingTrue, RunLabels,
      NoteLabels, OwnedLabels, StateInv, OnlyLatest, WriteAhead, Expected
  <2>3. QED
    BY <2>1, <2>2
<1>3. ASSUME Refuse PROVE StateInv' /\ LabelInv'
  <2>1. StateInv'
    BY <1>3, StateFrame DEF Refuse
  <2>2. LabelInv'
    BY <1>3, RestFrame DEF Refuse, Release, FreeLabels
  <2>3. QED
    BY <2>1, <2>2
<1>4. ASSUME Journal PROVE StateInv' /\ LabelInv'
  <2>1. cur \in Ops /\ cur = latest /\ rec[cur].status = "none"
    BY <1>4, CurIsOp DEF Journal, OwnedLabels, LabelInv, Ownership
  <2>2. /\ \A o \in Ops \ {cur} : rec'[o] = rec[o]
        /\ rec'[cur] = [rec[cur] EXCEPT !.status = "running"] /\ rec[cur] \in Records
    BY <1>4, <2>1 DEF Journal, TypeOK, JournalType
  <2>3. StateInv'
    BY SMT, <1>4, <2>1, <2>2 DEF Journal, Records, StateInv, OnlyLatest, WriteAhead,
      BlockingOutcomeBlocks, SettledSafeguardGone, SettledOutcomeTrue, Settled, Expected
  <2>4. LabelInv'
    BY SMT, <1>4, <2>1, <2>2 DEF Journal, Goto, Records, LabelInv, Ownership, RecordedProgress,
      GuardKnown, BlockFirst,
        ReadingTrue, RunLabels, NoteLabels
  <2>5. QED
    BY <2>3, <2>4
<1>5. ASSUME SaveBaseline PROVE StateInv' /\ LabelInv'
  <2>1. StateInv'
    BY <1>5, StateFrame DEF SaveBaseline
  <2>2. LabelInv'
    BY <1>5, CurIsOp, BlockingClasses DEF SaveBaseline, Goto, LabelInv, Ownership,
      RecordedProgress, GuardKnown, BlockFirst, ReadingTrue, RunLabels, NoteLabels, OwnedLabels,
      StateInv, OnlyLatest, WriteAhead, Expected
  <2>3. QED
    BY <2>1, <2>2
<1>6. ASSUME Start PROVE StateInv' /\ LabelInv'
  <2>1. StateInv'
    BY <1>6, StateFrame DEF Start
  <2>2. cur \in Ops /\ rec[cur].status = "running" /\ ~rec[cur].guarded
    BY <1>6, CurIsOp DEF Start, OwnedLabels, LabelInv, Ownership, RecordedProgress, RunLabels
  <2>3. CASE Goto("clock")
    <3>1. LabelInv'
      BY <1>6, <2>3 DEF Start, Goto, LabelInv, Ownership, RecordedProgress, GuardKnown, BlockFirst,
        ReadingTrue, RunLabels, NoteLabels
    <3>2. QED
      BY <2>1, <3>1
  <2>4. CASE Finish("rejected", "enrollment notification unavailable")
    <3>1. guard'[cur] = "absent" /\ (~tampered => obj = Expected("rejected", cur))
      BY <1>6, <2>2, Untouched DEF Start, Expected
    <3>2. LabelInv'
      BY <1>6, <2>4, <3>1, OutcomeLabel DEF Start, Finish, RunLabels
    <3>3. QED
      BY <2>1, <3>2
  <2>5. QED
    BY <1>6, <2>3, <2>4 DEF Start
<1>7. ASSUME ReadClock PROVE StateInv' /\ LabelInv'
  <2>1. cur \in Ops /\ rec[cur].status = "running" /\ ~rec[cur].guarded
    BY <1>7, CurIsOp DEF ReadClock, OwnedLabels, LabelInv, Ownership, RecordedProgress, RunLabels
  <2>2. CASE Finish("rejected", "device clock") /\ UNCHANGED <<rec, phase>>
    <3>1. guard'[cur] = "absent" /\ (~tampered => obj = Expected("rejected", cur))
      BY <1>7, <2>1, Untouched DEF ReadClock, Expected
    <3>2. LabelInv'
      BY <1>7, <2>2, <3>1, OutcomeLabel DEF ReadClock, Finish, RunLabels
    <3>3. QED
      BY <1>7, <2>2, <3>2, StateFrame DEF ReadClock
  <2>3. CASE rec' = [rec EXCEPT ![cur].guarded = TRUE] /\ Goto("install")
    <3>1. /\ \A o \in Ops \ {cur} : rec'[o] = rec[o]
          /\ rec'[cur].status = "running" /\ rec'[cur].guarded
          /\ rec'[cur].before = rec[cur].before /\ rec'[cur].steps = rec[cur].steps
      BY <2>1, <2>3 DEF TypeOK, JournalType, Records
    <3>2. pc = "clock" /\ UNCHANGED <<guard, obj, blocked, latest, tampered, released>>
      BY <1>7 DEF ReadClock
    <3>3. StateInv'
      BY SMT, <2>1, <3>1, <3>2 DEF StateInv, OnlyLatest, WriteAhead,
        BlockingOutcomeBlocks, SettledSafeguardGone, SettledOutcomeTrue, Settled, Expected
    <3>4. LabelInv'
      BY <2>1, <2>3, <3>1, <3>2 DEF Goto, LabelInv, Ownership, RecordedProgress, GuardKnown,
        BlockFirst,
        ReadingTrue, RunLabels, NoteLabels
    <3>5. QED
      BY <3>3, <3>4
  <2>4. QED
    BY <1>7, <2>2, <2>3 DEF ReadClock
<1>8. ASSUME InstallSafeguard PROVE StateInv' /\ LabelInv'
  <2>1. cur \in Ops /\ rec[cur].status = "running" /\ rec[cur].guarded
    BY <1>8, CurIsOp DEF InstallSafeguard, OwnedLabels, LabelInv, Ownership, RecordedProgress,
      RunLabels
  <2>2. \A o \in Ops \ {cur} : guard'[o] = guard[o]
    BY <1>8, <2>1 DEF InstallSafeguard, TypeOK, DeviceType
  <2>3. \A o \in Ops : Kept(o)
    BY <1>8, <2>1, StepEffect DEF InstallSafeguard, Kept
  <2>4. StateInv'
    <3>1. UNCHANGED <<obj, blocked, latest, tampered, released>>
      BY <1>8 DEF InstallSafeguard, history
    <3>2. cur = latest
      BY <2>1 DEF StateInv, OnlyLatest
    <3>3. OnlyLatest'
      BY <2>2, <2>3, <3>1, <3>2 DEF StateInv, OnlyLatest, Kept
    <3>4. WriteAhead'
      BY SMT, <2>1, <2>2, <2>3, <3>1 DEF StateInv, WriteAhead, Kept
    <3>5. BlockingOutcomeBlocks'
      BY <2>3, <3>1 DEF StateInv, BlockingOutcomeBlocks, Settled, Kept
    <3>6. SettledSafeguardGone'
      BY SMT, <2>1, <2>2, <2>3, <3>1 DEF StateInv, SettledSafeguardGone, Settled, Kept
    <3>7. SettledOutcomeTrue'
      BY <2>3, <3>1 DEF StateInv, SettledOutcomeTrue, Settled, Expected, Kept
    <3>8. QED
      BY <3>3, <3>4, <3>5, <3>6, <3>7 DEF StateInv
  <2>5. "change_start" \notin rec'[cur].steps
    <3>1. "change_start" \notin rec[cur].steps
      BY <1>8 DEF InstallSafeguard, LabelInv, RecordedProgress
    <3>2. CASE UNCHANGED rec
      BY <3>1, <3>2
    <3>3. CASE Step("safeguard_not_verified")
      <4>1. rec'[cur].steps = rec[cur].steps \cup {"safeguard_not_verified"}
        BY <2>1, <3>3, StepEffect
      <4>2. QED
        BY <3>1, <4>1
    <3>4. QED
      BY <1>8, <3>2, <3>3 DEF InstallSafeguard
  <2>6. pc' \in {"verified", "uninstall"} /\ cur' = cur
    BY <1>8 DEF InstallSafeguard, Goto
  <2>7. LabelInv'
    BY <2>1, <2>3, <2>5, <2>6 DEF Kept, LabelInv, Ownership, RecordedProgress, GuardKnown,
      BlockFirst,
        ReadingTrue, RunLabels, NoteLabels
  <2>8. QED
    BY <2>4, <2>7
<1>9. ASSUME Uninstall PROVE StateInv' /\ LabelInv'
  <2>1. cur \in Ops /\ rec[cur].status = "running" /\ "change_start" \notin rec[cur].steps
    BY <1>9, CurIsOp DEF Uninstall, OwnedLabels, LabelInv, Ownership, RecordedProgress, RunLabels
  <2>2. PICK removed \in BOOLEAN :
          /\ RemoveSafeguard(cur, removed)
          /\ IF removed THEN Outcome("persist", "reverted", "safeguard not verified")
                        ELSE Finish("unknown", "safeguard not verified")
    BY <1>9 DEF Uninstall
  <2>3. StateInv'
    BY <1>9, <2>1, <2>2, RemovalFrame DEF Uninstall
  <2>4. LabelInv'
    <3>1. CASE removed
      <4>1. guard'[cur] = "absent" /\ (~tampered => obj = Expected("reverted", cur))
        BY <2>1, <2>2, <3>1, RemovalEffect, Untouched DEF Expected
      <4>2. QED
        BY <1>9, <2>2, <3>1, <4>1, OutcomeLabel DEF Uninstall, RunLabels
    <3>2. CASE ~removed
      BY <1>9, <2>2, <3>2, BlockingClasses, OutcomeLabel DEF Uninstall, Finish, RunLabels
    <3>3. QED
      BY <3>1, <3>2
  <2>5. QED
    BY <2>3, <2>4
<1>10. ASSUME ChangeStart PROVE StateInv' /\ LabelInv'
  <2>1. cur \in Ops
    BY <1>10, CurIsOp DEF ChangeStart, OwnedLabels
  <2>2. StateInv'
    <3>1. \A o \in Ops : Kept(o)
      BY <1>10, <2>1, StepEffect DEF ChangeStart
    <3>2. UNCHANGED <<guard, obj, blocked, latest, tampered, released>>
      BY <1>10 DEF ChangeStart, device, history
    <3>3. QED
      BY <3>1, <3>2, KeptFrame
  <2>3. LabelInv'
    BY ZenonT(40), <1>10, <2>1, StepEffect, CurIsOp, BlockingClasses DEF ChangeStart, Goto, Step, Kept,
      LabelInv, Ownership, RecordedProgress, GuardKnown, BlockFirst, ReadingTrue, RunLabels,
      NoteLabels, OwnedLabels, StateInv, OnlyLatest, WriteAhead, Expected
  <2>4. QED
    BY <2>2, <2>3
<1>11. ASSUME ApplyChange PROVE StateInv' /\ LabelInv'
  <2>1. StateInv'
    BY <1>11, CurIsOp, ConstantsAssumption DEF ApplyChange, Goto, Settle, Outcome, OwnedLabels,
      LabelInv, Ownership, RecordedProgress, GuardKnown, BlockFirst, ReadingTrue, RunLabels,
      NoteLabels, StateInv, OnlyLatest, WriteAhead, BlockingOutcomeBlocks, SettledSafeguardGone,
      SettledOutcomeTrue, Settled, Expected, TypeOK, JournalType, DeviceType, Records
  <2>2. LabelInv'
    BY <1>11, CurIsOp, BlockingClasses DEF ApplyChange, Goto, Settle, Outcome, LabelInv,
      Ownership, RecordedProgress, GuardKnown, BlockFirst, ReadingTrue, RunLabels, NoteLabels,
      OwnedLabels, StateInv, OnlyLatest, WriteAhead, Expected
  <2>3. QED
    BY <2>1, <2>2
<1>12. ASSUME Postcheck PROVE StateInv' /\ LabelInv'
  <2>1. StateInv'
    BY <1>12, StateFrame DEF Postcheck
  <2>2. LabelInv'
    BY <1>12, CurIsOp, BlockingClasses DEF Postcheck, Goto, Settle, Outcome, IsAfter, LabelInv,
      Ownership, RecordedProgress, GuardKnown, BlockFirst, ReadingTrue, RunLabels, NoteLabels,
      OwnedLabels, StateInv, OnlyLatest, WriteAhead, Expected
  <2>3. QED
    BY <2>1, <2>2
<1>13. ASSUME CheckIdentity PROVE StateInv' /\ LabelInv'
  <2>1. StateInv'
    BY <1>13, StateFrame DEF CheckIdentity
  <2>2. LabelInv'
    BY <1>13, CurIsOp, BlockingClasses DEF CheckIdentity, Goto, Settle, Outcome, LabelInv,
      Ownership, RecordedProgress, GuardKnown, BlockFirst, ReadingTrue, RunLabels, NoteLabels,
      OwnedLabels, StateInv, OnlyLatest, WriteAhead, Expected
  <2>3. QED
    BY <2>1, <2>2
<1>14. ASSUME CheckMargin PROVE StateInv' /\ LabelInv'
  <2>1. StateInv'
    BY <1>14, StateFrame DEF CheckMargin
  <2>2. LabelInv'
    BY <1>14, CurIsOp, BlockingClasses DEF CheckMargin, Goto, Settle, Outcome, LabelInv,
      Ownership, RecordedProgress, GuardKnown, BlockFirst, ReadingTrue, RunLabels, NoteLabels,
      OwnedLabels, StateInv, OnlyLatest, WriteAhead, Expected
  <2>3. QED
    BY <2>1, <2>2
<1>15. ASSUME FinalCheck PROVE StateInv' /\ LabelInv'
  <2>1. cur \in Ops
    BY <1>15, CurIsOp DEF FinalCheck, OwnedLabels
  <2>2. StateInv'
    BY <1>15, <2>1, StepEffect, KeptFrame, StateFrame DEF FinalCheck
  <2>3. LabelInv'
    BY <1>15, <2>1, StepEffect, CurIsOp, BlockingClasses DEF FinalCheck, Goto, Settle, Step,
      Outcome, IsBefore, IsAfter, Kept, LabelInv, Ownership, RecordedProgress, GuardKnown,
      BlockFirst, ReadingTrue, RunLabels, NoteLabels, OwnedLabels, StateInv, OnlyLatest,
      WriteAhead, Expected
  <2>4. QED
    BY <2>2, <2>3
<1>16. ASSUME Confirm PROVE StateInv' /\ LabelInv'
  <2>1. cur \in Ops
    BY <1>16, CurIsOp DEF Confirm, OwnedLabels
  <2>2. \E removed \in BOOLEAN : RemoveSafeguard(cur, removed)
    BY <1>16 DEF Confirm
  <2>3. StateInv'
    BY <1>16, <2>1, <2>2, RemovalFrame DEF Confirm
  <2>4. LabelInv'
    BY <1>16, <2>1, RemovalEffect, BlockingClasses DEF Confirm, Goto, Settle, Outcome, LabelInv,
      Ownership, RecordedProgress, GuardKnown, BlockFirst, ReadingTrue, RunLabels, NoteLabels
  <2>5. QED
    BY <2>3, <2>4
<1>17. ASSUME RemovalCheck PROVE StateInv' /\ LabelInv'
  <2>1. StateInv'
    BY <1>17, StateFrame DEF RemovalCheck
  <2>2. pc \in RunLabels /\ guard'[cur] = "absent" /\ UNCHANGED <<rec, obj, tampered>>
    BY <1>17 DEF RemovalCheck, RunLabels, LabelInv, GuardKnown
  <2>3. CASE \E reason : Finish("unknown", reason)
    BY <2>1, <2>2, <2>3, BlockingClasses, OutcomeLabel DEF Finish
  <2>4. CASE IsBefore(cur) /\ Finish("reverted", "safeguard fired during confirmation")
    <3>1. obj = Expected("reverted", cur)
      BY <2>4 DEF IsBefore, Expected
    <3>2. QED
      BY <2>1, <2>2, <2>4, <3>1, OutcomeLabel DEF Finish
  <2>5. CASE IsAfter(cur) /\ Outcome("persist", "confirmed", "none")
    <3>1. obj = Expected("confirmed", cur)
      BY <2>5 DEF IsAfter, Expected
    <3>2. QED
      BY <2>1, <2>2, <2>5, <3>1, OutcomeLabel
  <2>6. QED
    BY <1>17, <2>3, <2>4, <2>5 DEF RemovalCheck
<1>18. ASSUME Persist PROVE StateInv' /\ LabelInv'
  <2>1. StateInv'
    BY <1>18, StateFrame DEF Persist
  <2>2. /\ pc = "persist" /\ pc \in RunLabels /\ guard[cur] = "absent"
        /\ UNCHANGED <<rec, guard, obj, blocked, tampered>>
    BY <1>18 DEF Persist, RunLabels, LabelInv, GuardKnown
  <2>3. CASE Goto("finish") \/ Goto("saved")
    <3>1. Ownership' /\ RecordedProgress' /\ BlockFirst'
      BY <2>2, <2>3 DEF Goto, LabelInv, Ownership, RecordedProgress, BlockFirst, RunLabels,
        NoteLabels
    <3>2. GuardKnown' /\ ReadingTrue'
      BY <2>2, <2>3 DEF Goto, LabelInv, GuardKnown, ReadingTrue, Expected
    <3>3. QED
      BY <2>1, <3>1, <3>2 DEF LabelInv
  <2>4. CASE Finish(out.result, "not persisted")
    <3>1. blocks(out.result, Class("not persisted"))
      BY BlockingClasses DEF BLOCKING_REASONS
    <3>2. QED
      BY <2>1, <2>2, <2>4, <3>1, OutcomeLabel DEF Finish
  <2>5. QED
    BY <1>18, <2>3, <2>4 DEF Persist
<1>19. ASSUME SavedCheck PROVE StateInv' /\ LabelInv'
  <2>1. StateInv'
    BY <1>19, StateFrame DEF SavedCheck
  <2>2. /\ pc = "saved" /\ pc \in RunLabels /\ guard[cur] = "absent"
        /\ UNCHANGED <<rec, guard, obj, blocked, tampered>>
    BY <1>19 DEF SavedCheck, RunLabels, LabelInv, GuardKnown
  <2>3. CASE Goto("finish")
    <3>1. Ownership' /\ RecordedProgress' /\ BlockFirst'
      BY <2>2, <2>3 DEF Goto, LabelInv, Ownership, RecordedProgress, BlockFirst, RunLabels,
        NoteLabels
    <3>2. GuardKnown' /\ ReadingTrue'
      BY <2>2, <2>3 DEF Goto, LabelInv, GuardKnown, ReadingTrue, Expected
    <3>3. QED
      BY <2>1, <3>1, <3>2 DEF LabelInv
  <2>4. CASE \E reason \in BLOCKING_REASONS : Finish("confirmed", reason)
    BY <2>1, <2>2, <2>4, BlockingClasses, OutcomeLabel DEF Finish
  <2>5. QED
    BY <1>19, <2>3, <2>4 DEF SavedCheck, BLOCKING_REASONS
<1>20. ASSUME WaitForExpiry PROVE StateInv' /\ LabelInv'
  <2>1. StateInv'
    BY <1>20, StateFrame DEF WaitForExpiry
  <2>2. pc = "settle" /\ UNCHANGED <<rec, guard, phase, obj, blocked, tampered>>
    BY <1>20 DEF WaitForExpiry, journal, device, history
  <2>3. CASE Finish("unknown", out.reason)
    <3>1. LabelInv'
      BY <2>2, <2>3, BlockingClasses, OutcomeLabel DEF Finish, RunLabels
    <3>2. QED
      BY <2>1, <3>1
  <2>4. CASE /\ phase = "over" /\ (FIRING_OBSERVED => guard[cur] = "fired")
             /\ pc' = "verdict" /\ verdict' = Verdict(cur) /\ UNCHANGED <<mode, cur, out>>
    <3>1. Ownership' /\ RecordedProgress' /\ GuardKnown' /\ BlockFirst'
      BY <2>2, <2>4 DEF LabelInv, Ownership, RecordedProgress, GuardKnown, BlockFirst, RunLabels,
        NoteLabels
    <3>2. ReadingTrue'
      BY <2>2, <2>4 DEF ReadingTrue, Verdict, IsBefore
    <3>3. QED
      BY <2>1, <3>1, <3>2 DEF LabelInv
  <2>5. QED
    BY <1>20, <2>3, <2>4 DEF WaitForExpiry
<1>21. ASSUME KeepSafeguard PROVE StateInv' /\ LabelInv'
  <2>1. StateInv'
    BY <1>21, RevokeFrame DEF KeepSafeguard
  <2>2. LabelInv'
    BY <1>21, CurIsOp, BlockingClasses DEF KeepSafeguard, Finish, Outcome, LabelInv, Ownership,
      RecordedProgress, GuardKnown, BlockFirst, ReadingTrue, RunLabels, NoteLabels, OwnedLabels,
      StateInv, OnlyLatest, WriteAhead, Expected
  <2>3. QED
    BY <2>1, <2>2
<1>22. ASSUME SettleVerdict PROVE StateInv' /\ LabelInv'
  <2>1. cur \in Ops /\ pc \in RunLabels
    BY <1>22, CurIsOp DEF SettleVerdict, OwnedLabels, RunLabels
  <2>2. PICK removed \in BOOLEAN :
          /\ RemoveSafeguard(cur, removed)
          /\ \/ verdict = "match" /\ removed /\ Outcome("persist", "reverted", out.reason)
             \/ verdict = "match" /\ ~removed /\ Finish("unknown", "safeguard cleanup unverified")
             \/ verdict = "object" /\ Finish("reverted", "foreign change")
             \/ verdict = "mismatch" /\ Finish("revert-failed", out.reason)
    BY <1>22 DEF SettleVerdict
  <2>3. StateInv'
    BY <1>22, <2>1, <2>2, RemovalFrame DEF SettleVerdict
  <2>4. UNCHANGED <<rec, obj, tampered>>
    BY <1>22 DEF SettleVerdict
  <2>5. CASE verdict = "match" /\ removed /\ Outcome("persist", "reverted", out.reason)
    <3>1. guard'[cur] = "absent" /\ (~tampered => obj = Expected("reverted", cur))
      BY <1>22, <2>1, <2>2, <2>5, RemovalEffect DEF SettleVerdict, LabelInv, ReadingTrue, Expected
    <3>2. QED
      BY <2>1, <2>3, <2>4, <2>5, <3>1, OutcomeLabel
  <2>6. CASE \E result \in {"unknown", "revert-failed"} : \E reason : Finish(result, reason)
    BY <2>1, <2>3, <2>4, <2>6, BlockingClasses, OutcomeLabel DEF Finish
  <2>7. CASE Finish("reverted", "foreign change")
    <3>1. blocks("reverted", Class("foreign change"))
      BY BlockingClasses DEF BLOCKING_REASONS
    <3>2. QED
      BY <2>1, <2>3, <2>4, <2>7, <3>1, OutcomeLabel DEF Finish
  <2>8. QED
    BY <2>2, <2>5, <2>6, <2>7
<1>23. ASSUME Block PROVE StateInv' /\ LabelInv'
  <2>1. cur \in Ops /\ cur # Free
    BY <1>23, CurIsOp, ConstantsAssumption DEF Block, OwnedLabels
  <2>2. blocked # Free => blocked' # Free
    BY <1>23, <2>1 DEF Block
  <2>3. StateInv'
    BY <1>23, <2>2 DEF Block, StateInv, OnlyLatest, WriteAhead, BlockingOutcomeBlocks,
      SettledSafeguardGone, SettledOutcomeTrue, Settled, Expected
  <2>4. LabelInv'
    BY <1>23, <2>1 DEF Block, Goto, Expected, LabelInv, Ownership, RecordedProgress, GuardKnown,
      BlockFirst,
        ReadingTrue, RunLabels, NoteLabels
  <2>5. QED
    BY <2>3, <2>4
<1>24. ASSUME Close PROVE StateInv' /\ LabelInv'
  <2>1. cur \in Ops /\ rec[cur].status = "running"
    BY <1>24, CurIsOp DEF Close, OwnedLabels, LabelInv, Ownership, RunLabels
  <2>2. /\ \A o \in Ops \ {cur} : rec'[o] = rec[o]
        /\ rec'[cur].status = "finished" /\ rec'[cur].result = out.result
        /\ rec'[cur].reason = out.reason /\ rec'[cur].guarded = rec[cur].guarded
        /\ rec'[cur].before = rec[cur].before /\ rec'[cur].after = rec[cur].after
        /\ rec'[cur].steps = rec[cur].steps
    BY SMT, <1>24, <2>1 DEF Close, TypeOK, JournalType, Records
  <2>3. StateInv'
    <3>1. pc = "close" /\ UNCHANGED <<guard, obj, blocked, latest, tampered, released>>
      BY <1>24 DEF Close
    <3>2. OnlyLatest' /\ WriteAhead'
      BY SMT, <2>1, <2>2, <3>1 DEF StateInv, OnlyLatest, WriteAhead
    <3>3. BlockingOutcomeBlocks'
      BY <2>2, <3>1 DEF StateInv, LabelInv, BlockingOutcomeBlocks, BlockFirst, Settled
    <3>4. SettledSafeguardGone'
      BY <2>2, <3>1 DEF StateInv, LabelInv, SettledSafeguardGone, GuardKnown, Settled
    <3>5. SettledOutcomeTrue'
      BY SMT, <2>2, <3>1 DEF StateInv, LabelInv, SettledOutcomeTrue, ReadingTrue, Settled, Expected
    <3>6. QED
      BY <3>2, <3>3, <3>4, <3>5 DEF StateInv
  <2>4. pc' \in FreeLabels \/ (pc' \in NoteLabels /\ cur' = cur)
    BY <1>24 DEF Close, Return, Goto, Release, FreeLabels, NoteLabels
  <2>5. LabelInv'
    BY <2>2, <2>4, RestFrame DEF LabelInv, Ownership, RecordedProgress, GuardKnown, BlockFirst,
        ReadingTrue, RunLabels, NoteLabels
  <2>6. QED
    BY <2>3, <2>5
<1>25. ASSUME Deliver PROVE StateInv' /\ LabelInv'
  <2>1. \A p \in Ops : Kept(p)
    BY SMT, <1>25, CurIsOp DEF Deliver, Kept, TypeOK, JournalType, Records, OwnedLabels
  <2>2. StateInv'
    BY <1>25, <2>1, KeptFrame DEF Deliver
  <2>3. LabelInv'
    BY SMT, <1>25, <2>1, CurIsOp, BlockingClasses DEF Deliver, Goto, Kept, LabelInv, Ownership,
      RecordedProgress, GuardKnown, BlockFirst, ReadingTrue, RunLabels, NoteLabels, OwnedLabels,
      StateInv, OnlyLatest, WriteAhead, Expected
  <2>4. QED
    BY <2>2, <2>3
<1>26. ASSUME Send PROVE StateInv' /\ LabelInv'
  <2>1. StateInv'
    BY <1>26, StateFrame DEF Send
  <2>2. LabelInv'
    BY <1>26, CurIsOp, BlockingClasses DEF Send, Goto, LabelInv, Ownership, RecordedProgress,
      GuardKnown, BlockFirst, ReadingTrue, RunLabels, NoteLabels, OwnedLabels, StateInv,
      OnlyLatest, WriteAhead, Expected
  <2>3. QED
    BY <2>1, <2>2
<1>27. ASSUME Noted PROVE StateInv' /\ LabelInv'
  <2>1. \A p \in Ops : Kept(p)
    BY <1>27, CurIsOp DEF Noted, Kept, TypeOK, JournalType, Records, OwnedLabels
  <2>2. StateInv'
    BY <1>27, <2>1, KeptFrame DEF Noted
  <2>3. LabelInv'
    BY ZenonT(40), <1>27, <2>1, CurIsOp, BlockingClasses DEF Noted, Return, Goto, Release, Kept, LabelInv,
      Ownership, RecordedProgress, GuardKnown, BlockFirst, ReadingTrue, RunLabels, NoteLabels,
      OwnedLabels, StateInv, OnlyLatest, WriteAhead, Expected
  <2>4. QED
    BY <2>2, <2>3
<1>28. ASSUME CompleteEnrollment PROVE StateInv' /\ LabelInv'
  <2>1. StateInv'
    <3>1. /\ UNCHANGED <<rec, guard, obj, latest, tampered, released>>
          /\ blocked' = blocked \/ blocked' # Free
      BY <1>28, CurIsOp, ConstantsAssumption DEF CompleteEnrollment, OwnedLabels, device, history
    <3>2. QED
      BY <3>1 DEF StateInv, OnlyLatest, WriteAhead, BlockingOutcomeBlocks, SettledSafeguardGone,
         SettledOutcomeTrue, Settled, Expected
  <2>2. LabelInv'
    BY <1>28, RestFrame DEF CompleteEnrollment, Release, FreeLabels
  <2>3. QED
    BY <2>1, <2>2
<1>29. ASSUME Recover PROVE StateInv' /\ LabelInv'
  <2>1. StateInv'
    BY <1>29, StateFrame DEF Recover
  <2>2. LabelInv'
    BY <1>29, RestFrame DEF Recover, FreeLabels
  <2>3. QED
    BY <2>1, <2>2
<1>30. ASSUME NEW o \in Ops, RecoverRecord(o) PROVE StateInv' /\ LabelInv'
  <2>1. StateInv'
    BY <1>30, StateFrame DEF RecoverRecord
  <2>2. /\ rec[o].status = "running" /\ cur' = o
        /\ UNCHANGED <<rec, obj, guard, tampered>>
    BY <1>30 DEF RecoverRecord, TakeUp, Running
  <2>3. \/ pc' = "finish" /\ ~rec[o].guarded /\ out'.result = "rejected"
        \/ pc' = "finish" /\ out'.result = "unknown"
        \/ pc' = "settle"
        \/ pc' = "remaining" /\ guard[o] # "armed"
        \/ pc' = "compare" /\ guard[o] = "absent"
    <3>1. \A label, result, reason : TakeUp(o, label, result, reason) => pc' = label /\
      out'.result = result
      BY SMT DEF TakeUp
    <3>2. \/ ~rec[o].guarded /\ TakeUp(o, "finish", "rejected", "interrupted before any mutation")
          \/ TakeUp(o, "finish", "unknown", "interrupted; device unreachable")
          \/ TakeUp(o, "settle", "none", "interrupted")
          \/ guard[o] \in {"absent", "partial"} /\ TakeUp(o, "remaining", "none", "none")
          \/ guard[o] = "absent" /\ TakeUp(o, "compare", "none", "none")
      BY <1>30 DEF RecoverRecord
    <3>3. QED
      BY <3>1, <3>2
  <2>4. Ownership' /\ RecordedProgress' /\ BlockFirst'
    BY <2>2, <2>3 DEF Ownership, RecordedProgress, BlockFirst, RunLabels, NoteLabels
  <2>5. GuardKnown'
    BY <2>2, <2>3, Untouched, BlockingClasses DEF GuardKnown
  <2>6. ReadingTrue'
    BY <2>2, <2>3, Untouched, BlockingClasses DEF ReadingTrue, Expected
  <2>7. QED
    BY <2>1, <2>4, <2>5, <2>6 DEF LabelInv
<1>31. ASSUME RemoveRemaining PROVE StateInv' /\ LabelInv'
  <2>1. cur \in Ops /\ pc \in RunLabels
    BY <1>31, CurIsOp DEF RemoveRemaining, OwnedLabels, RunLabels
  <2>2. PICK removed \in BOOLEAN :
          /\ RemoveSafeguard(cur, removed)
          /\ IF removed THEN Goto("compare") ELSE Finish("unknown", "safeguard cleanup unverified")
    BY <1>31 DEF RemoveRemaining
  <2>3. StateInv'
    BY <1>31, <2>1, <2>2, RemovalFrame DEF RemoveRemaining
  <2>4. CASE removed
    <3>1. guard'[cur] = "absent" /\ pc' = "compare" /\ UNCHANGED <<cur, rec>>
      BY <1>31, <2>1, <2>2, <2>4, RemovalEffect DEF Goto, RemoveRemaining
    <3>2. LabelInv'
      BY <2>1, <3>1 DEF LabelInv, Ownership, RecordedProgress, GuardKnown, BlockFirst,
        ReadingTrue, RunLabels, NoteLabels
    <3>3. QED
      BY <2>3, <3>2
  <2>5. CASE ~removed
    BY <1>31, <2>1, <2>2, <2>3, <2>5, BlockingClasses, OutcomeLabel DEF RemoveRemaining, Finish
  <2>6. QED
    BY <2>4, <2>5
<1>32. ASSUME Compare PROVE StateInv' /\ LabelInv'
  <2>1. StateInv'
    BY <1>32, StateFrame DEF Compare
  <2>2. pc \in RunLabels /\ guard'[cur] = "absent" /\ UNCHANGED <<rec, obj, tampered>>
    BY <1>32 DEF Compare, RunLabels, LabelInv, GuardKnown
  <2>3. CASE \E reason : Finish("unknown", reason)
    BY <2>1, <2>2, <2>3, BlockingClasses, OutcomeLabel DEF Finish
  <2>4. CASE IsBefore(cur) /\ Outcome("persist", "reverted", "interrupted")
    <3>1. obj = Expected("reverted", cur)
      BY <2>4 DEF IsBefore, Expected
    <3>2. QED
      BY <2>1, <2>2, <2>4, <3>1, OutcomeLabel
  <2>5. CASE IsAfter(cur) /\ Outcome("persist", "confirmed", "confirmed before the interruption")
    <3>1. obj = Expected("confirmed", cur)
      BY <2>5 DEF IsAfter, Expected
    <3>2. QED
      BY <2>1, <2>2, <2>5, <3>1, OutcomeLabel
  <2>6. QED
    BY <1>32, <2>3, <2>4, <2>5 DEF Compare
<1>33. ASSUME RecoverLeftover PROVE StateInv' /\ LabelInv'
  <2>1. LabelInv'
    BY <1>33, RestFrame DEF RecoverLeftover, Release, FreeLabels
  <2>2. CASE UNCHANGED <<rec, guard>>
    BY <1>33, <2>1, <2>2, StateFrame DEF RecoverLeftover
  <2>3. ASSUME NEW o \in UnverifiedSafeguard, NEW removed \in BOOLEAN, RemoveSafeguard(o, removed),
               rec' = IF removed THEN [rec EXCEPT ![o].steps = @ \cup {"safeguard_removed"}] ELSE
                 rec
        PROVE  StateInv'
    <3>1. o \in Ops
      BY <2>3 DEF UnverifiedSafeguard
    <3>2. \A p \in Ops : Kept(p)
      BY <2>3, <3>1 DEF Kept, TypeOK, JournalType, Records
    <3>3. \A p \in Ops : /\ guard'[p] = "armed" => guard[p] = "armed"
                         /\ guard[p] = "absent" => guard'[p] = "absent"
      BY <2>3, <3>1, RemovalEffect
    <3>4. QED
      BY SMT, <1>33, <3>2, <3>3 DEF RecoverLeftover, Kept, StateInv, OnlyLatest, WriteAhead,
        BlockingOutcomeBlocks, SettledSafeguardGone, SettledOutcomeTrue, Settled, Expected
  <2>4. QED
    BY <1>33, <2>1, <2>2, <2>3 DEF RecoverLeftover
<1>34. ASSUME Unblock PROVE StateInv' /\ LabelInv'
  <2>1. StateInv'
    BY <1>34, CurIsOp, ConstantsAssumption DEF Unblock, OwnedLabels, LabelInv, Ownership,
      RecordedProgress, GuardKnown, BlockFirst, ReadingTrue, RunLabels, NoteLabels, StateInv,
      OnlyLatest, WriteAhead, BlockingOutcomeBlocks, SettledSafeguardGone, SettledOutcomeTrue,
      Settled, Expected, TypeOK, JournalType, DeviceType, Records
  <2>2. LabelInv'
    BY <1>34, RestFrame DEF Unblock, FreeLabels
  <2>3. QED
    BY <2>1, <2>2
<1>35. ASSUME ClearBaseline PROVE StateInv' /\ LabelInv'
  <2>1. StateInv'
    BY <1>35, StateFrame DEF ClearBaseline
  <2>2. LabelInv'
    BY <1>35, RestFrame DEF ClearBaseline, Goto, FreeLabels
  <2>3. QED
    BY <2>1, <2>2
<1>36. ASSUME Waive PROVE StateInv' /\ LabelInv'
  <2>1. \A p \in Ops : Kept(p)
    BY <1>36, CurIsOp DEF Waive, Kept, TypeOK, JournalType, Records, OwnedLabels
  <2>2. StateInv'
    BY <1>36, <2>1, KeptFrame DEF Waive
  <2>3. LabelInv'
    BY <1>36, RestFrame DEF Waive, Release, FreeLabels
  <2>4. QED
    BY <2>2, <2>3
<1>37. ASSUME NEW o \in Ops, NotifyRetry(o) PROVE StateInv' /\ LabelInv'
  <2>1. StateInv'
    BY <1>37, StateFrame DEF NotifyRetry
  <2>2. LabelInv'
    BY <1>37, CurIsOp, BlockingClasses DEF NotifyRetry, LabelInv, Ownership, RecordedProgress,
      GuardKnown, BlockFirst, ReadingTrue, RunLabels, NoteLabels, OwnedLabels, StateInv,
      OnlyLatest, WriteAhead, Expected
  <2>3. QED
    BY <2>1, <2>2
<1>38. ASSUME Crash PROVE StateInv' /\ LabelInv'
  <2>1. StateInv'
    BY <1>38, StateFrame DEF Crash
  <2>2. LabelInv'
    BY <1>38, RestFrame DEF Crash, Release, FreeLabels
  <2>3. QED
    BY <2>1, <2>2
<1>39. ASSUME Tick PROVE StateInv' /\ LabelInv'
  <2>1. StateInv'
    BY <1>39, StateFrame DEF Tick
  <2>2. LabelInv'
    BY SMT, <1>39, CurIsOp, BlockingClasses DEF Tick, LabelInv, Ownership, RecordedProgress,
      GuardKnown, BlockFirst, ReadingTrue, RunLabels, NoteLabels, OwnedLabels, StateInv,
      OnlyLatest, WriteAhead, Expected
  <2>3. QED
    BY <2>1, <2>2
<1>40. ASSUME NEW o \in Ops, Fire(o) PROVE StateInv' /\ LabelInv'
  <2>1. StateInv'
    <3>1. /\ UNCHANGED <<rec, blocked, latest, tampered, released>>
          /\ guard[o] = "armed" /\ guard'[o] = "fired" /\ obj' \in {rec[o].before, obj}
          /\ \A p \in Ops : p # o => guard'[p] = guard[p]
      BY <1>40 DEF Fire, journal, history, TypeOK, DeviceType
    <3>2. o = latest
      BY <3>1 DEF StateInv, OnlyLatest
    <3>3. OnlyLatest' /\ BlockingOutcomeBlocks'
      <4>1. OnlyLatest'
        BY <3>1, <3>2 DEF StateInv, OnlyLatest
      <4>2. BlockingOutcomeBlocks'
        BY <3>1 DEF StateInv, BlockingOutcomeBlocks, Settled
      <4>3. QED
        BY <4>1, <4>2
    <3>4. SettledSafeguardGone'
      BY <3>1 DEF StateInv, SettledSafeguardGone, Settled
    <3>5. WriteAhead'
      BY <3>1, <3>2 DEF StateInv, WriteAhead
    <3>6. SettledOutcomeTrue'
      BY <3>1, <3>2 DEF StateInv, SettledSafeguardGone, SettledOutcomeTrue, Settled, Expected
    <3>7. QED
      BY <3>3, <3>4, <3>5, <3>6 DEF StateInv
  <2>2. LabelInv'
    BY <1>40, CurIsOp, BlockingClasses DEF Fire, LabelInv, Ownership, RecordedProgress,
      GuardKnown, BlockFirst, ReadingTrue, RunLabels, NoteLabels, OwnedLabels, StateInv,
      OnlyLatest, WriteAhead, Expected
  <2>3. QED
    BY <2>1, <2>2
<1>41. ASSUME Foreign PROVE StateInv' /\ LabelInv'
  <2>1. StateInv'
    <3>1. UNCHANGED <<rec, guard, blocked, latest, released>> /\ tampered' = TRUE
      BY <1>41 DEF Foreign, journal
    <3>2. QED
      BY <3>1 DEF StateInv, OnlyLatest, WriteAhead, BlockingOutcomeBlocks, SettledSafeguardGone,
         SettledOutcomeTrue, Settled, Expected
  <2>2. LabelInv'
    BY <1>41, CurIsOp, BlockingClasses DEF Foreign, LabelInv, Ownership, RecordedProgress,
      GuardKnown, BlockFirst, ReadingTrue, RunLabels, NoteLabels, OwnedLabels, StateInv,
      OnlyLatest, WriteAhead, Expected
  <2>3. QED
    BY <2>1, <2>2
<1>42. ASSUME UNCHANGED vars PROVE StateInv' /\ LabelInv'
  <2>1. StateInv'
    BY <1>42, StateFrame DEF vars
  <2>2. Ownership' /\ RecordedProgress' /\ GuardKnown'
    BY <1>42 DEF vars, LabelInv, Ownership, RecordedProgress, GuardKnown
  <2>3. BlockFirst' /\ ReadingTrue'
    BY <1>42 DEF vars, LabelInv, BlockFirst, ReadingTrue, Expected
  <2>4. QED
    BY <2>1, <2>2, <2>3 DEF LabelInv
<1>43. QED
  BY SMT, <1>1, <1>2, <1>3, <1>4, <1>5, <1>6, <1>7, <1>8, <1>9, <1>10, <1>11, <1>12, <1>13, <1>14,
    <1>15, <1>16, <1>17, <1>18, <1>19, <1>20, <1>21, <1>22, <1>23, <1>24, <1>25, <1>26, <1>27,
    <1>28, <1>29, <1>30, <1>31, <1>32, <1>33, <1>34, <1>35, <1>36, <1>37, <1>38, <1>39, <1>40,
    <1>41, <1>42 DEF Next, Command, CommandStep, ApplySteps, SettleSteps, FinishSteps,
    RecoverSteps, UnblockSteps, Device

LEMMA InitIInv == Init => IInv
<1> SUFFICES ASSUME Init PROVE IInv
  OBVIOUS
<1>1. \A o \in Ops : /\ rec[o].status = "none" /\ rec[o].before = obj
                     /\ guard[o] = "absent" /\ o # latest
  BY ConstantsAssumption DEF Init
<1>2. StateInv
  BY <1>1 DEF StateInv, OnlyLatest, WriteAhead, BlockingOutcomeBlocks, SettledSafeguardGone,
    SettledOutcomeTrue, Settled
<1>3. LabelInv
  BY DEF Init, LabelInv, Ownership, RecordedProgress, GuardKnown, BlockFirst, ReadingTrue,
    RunLabels, NoteLabels
<1>4. QED
  BY <1>2, <1>3, InitType DEF IInv

THEOREM Invariance == Spec => []IInv
BY InitIInv, NextIInv, PTL DEF Spec

----------------------------------------------------------------------------
(* For any number of operations, values and crashes, _prepared never lets   *)
(* two operations of the device be unsettled at once.                       *)
THEOREM OneRunning == Spec => []AtMostOneRunning
<1>1. IInv => AtMostOneRunning
  BY DEF IInv, StateInv, OnlyLatest, AtMostOneRunning, Running
<1>2. QED
  BY <1>1, Invariance, PTL

(* An outcome that calls for a person is never found without the block:     *)
(* _finish writes the block first.                                          *)
THEOREM BlockedUntilReleased == Spec => []BlockingOutcomeBlocks
<1>1. IInv => BlockingOutcomeBlocks
  BY DEF IInv, StateInv
<1>2. QED
  BY <1>1, Invariance, PTL

(* The journal is ahead of the device: _execute saves the safeguard and the *)
(* start of the change before it touches the device.                        *)
THEOREM JournalAhead == Spec => []WriteAhead
<1>1. IInv => WriteAhead
  BY DEF IInv, StateInv
<1>2. QED
  BY <1>1, Invariance, PTL

(* No operation is closed without a block while its safeguard is installed. *)
THEOREM NoSafeguardLeft == Spec => []SettledSafeguardGone
<1>1. IInv => SettledSafeguardGone
  BY DEF IInv, StateInv
<1>2. QED
  BY <1>1, Invariance, PTL

(* The recorded outcome is what the device holds, whatever crashed, unless  *)
(* another administrator interfered.                                        *)
THEOREM OutcomeTrue == Spec => []SettledOutcomeTrue
<1>1. IInv => SettledOutcomeTrue
  BY DEF IInv, StateInv
<1>2. QED
  BY <1>1, Invariance, PTL

----------------------------------------------------------------------------
(* every step leaves the outcome of a finished record alone *)
LEMMA NextFinal ==
    IInv /\ [Next]_vars =>
      \A o \in Ops : rec[o].status = "finished" =>
          /\ rec'[o].status = "finished"
          /\ rec'[o].result = rec[o].result /\ rec'[o].reason = rec[o].reason
<1> SUFFICES ASSUME IInv, [Next]_vars, NEW o \in Ops, rec[o].status = "finished"
             PROVE  Kept(o)
  BY DEF Kept
<1> USE DEF journal, device, process, history
<1>a. TypeOK /\ LabelInv /\ rec \in [Ops -> Records]
  BY DEF IInv, TypeOK, JournalType
<1>1. CASE UNCHANGED rec
  BY <1>1 DEF Kept
<1>2. ASSUME NEW p \in Ops, NEW k \in {"change", "enrollment"}, NEW a \in Values, Prepare(p, k, a)
      PROVE  Kept(o)
  BY <1>a, <1>2 DEF Prepare, Kept
<1>3. CASE Journal \/ ReadClock \/ Close
  <2>1. cur \in Ops /\ cur # o
    BY <1>a, <1>3, CurIsOp DEF Journal, ReadClock, Close, OwnedLabels, LabelInv, Ownership, RunLabels
  <2>2. rec'[o] = rec[o]
    BY <1>a, <1>3, <2>1 DEF Journal, ReadClock, Close
  <2>3. QED
    BY <2>2 DEF Kept
<1>4. CASE InstallSafeguard \/ ChangeStart \/ FinalCheck
  <2>1. cur \in Ops
    BY <1>a, <1>4, CurIsOp DEF InstallSafeguard, ChangeStart, FinalCheck, OwnedLabels
  <2>2. UNCHANGED rec \/ \E name : Step(name)
    BY <1>4 DEF InstallSafeguard, ChangeStart, FinalCheck
  <2>3. QED
    BY <1>1, <1>a, <2>1, <2>2, StepEffect
<1>5. CASE Deliver \/ Noted
  <2>1. cur \in Ops
    BY <1>a, <1>5, CurIsOp DEF Deliver, Noted, OwnedLabels
  <2>2. \E note : rec' = [rec EXCEPT ![cur].notification = note]
    BY <1>a, <1>5, <2>1 DEF Deliver, Noted
  <2>3. QED
    BY SMT, <1>a, <2>1, <2>2 DEF Kept, Records
<1>6. CASE RecoverLeftover \/ Waive
  <2>1. CASE Waive
    BY <1>a, <2>1 DEF Waive, Kept, Records
  <2>2. ASSUME NEW p \in Ops, rec' = [rec EXCEPT ![p].steps = @ \cup {"safeguard_removed"}]
        PROVE  Kept(o)
    BY <1>a, <2>2 DEF Kept, Records
  <2>3. QED
    BY <1>1, <1>6, <2>1, <2>2 DEF RecoverLeftover, UnverifiedSafeguard
<1>7. CASE \/ BlockAccounts \/ Recover \/ Unblock \/ (\E p \in Ops : NotifyRetry(p))
           \/ Crash \/ Device \/ ClearBaseline \/ Block \/ Send
  BY <1>1, <1>7 DEF BlockAccounts, Recover, Unblock, NotifyRetry, Crash, Device, Tick, Fire, Foreign,
    ClearBaseline, Block, Send
<1>8. CASE \/ Refuse \/ SaveBaseline \/ Start \/ Uninstall \/ ApplyChange \/ Postcheck
           \/ CheckIdentity \/ CheckMargin \/ Confirm \/ RemovalCheck \/ SavedCheck \/ CompleteEnrollment
  BY <1>1, <1>8 DEF Refuse, SaveBaseline, Start, Uninstall, ApplyChange, Postcheck,
    CheckIdentity, CheckMargin, Confirm, RemovalCheck, SavedCheck, CompleteEnrollment
<1>9. CASE SettleSteps \/ (\E p \in Ops : RecoverRecord(p)) \/ RemoveRemaining \/ Compare
  BY <1>1, <1>9 DEF SettleSteps, Persist, WaitForExpiry, KeepSafeguard, SettleVerdict,
    RecoverRecord, RemoveRemaining, Compare
<1>10. CASE UNCHANGED vars
  BY <1>1, <1>10 DEF vars
<1>11. QED
  BY <1>2, <1>3, <1>4, <1>5, <1>6, <1>7, <1>8, <1>9, <1>10
    DEF Next, Command, CommandStep, ApplySteps, FinishSteps, RecoverSteps, UnblockSteps

(* A recorded outcome is final: recover and the other commands never change *)
(* the result or the reason of a finished record.                           *)
THEOREM Final == Spec => OutcomeFinal
<1>1. IInv /\ [Next]_vars =>
        [\A o \in Ops : rec[o].status = "finished" =>
            /\ rec'[o].status = "finished"
            /\ rec'[o].result = rec[o].result /\ rec'[o].reason = rec[o].reason]_vars
  BY NextFinal
<1>2. QED
  BY <1>1, Invariance, PTL DEF Spec, OutcomeFinal

(* what a step may do to an armed safeguard *)
LEMMA NextDisarm ==
    IInv /\ [Next]_vars =>
      \A o \in Ops : guard[o] = "armed" /\ guard'[o] \notin {"armed", "fired"} /\ ~tampered =>
          obj = rec[o].before \/ "confirm_start" \in rec[o].steps \/ GivenUp(o)
<1> SUFFICES ASSUME IInv, [Next]_vars, NEW o \in Ops, guard[o] = "armed",
                    guard'[o] \notin {"armed", "fired"}, ~tampered
             PROVE  obj = rec[o].before \/ "confirm_start" \in rec[o].steps \/ GivenUp(o)
  OBVIOUS
<1> USE DEF journal, device, process, history
<1>a. TypeOK /\ LabelInv /\ StateInv /\ guard \in [Ops -> Guards]
  BY DEF IInv, TypeOK, DeviceType
<1>b. o = latest
  BY <1>a DEF StateInv, OnlyLatest
<1>1. CASE UNCHANGED guard
  BY <1>1
<1>2. CASE InstallSafeguard \/ Uninstall
  <2>1. cur \in Ops
    BY <1>a, <1>2, CurIsOp DEF InstallSafeguard, Uninstall, OwnedLabels
  <2>2. o = cur
    BY <1>a, <1>2, <2>1, RemovalEffect DEF InstallSafeguard, Uninstall
  <2>3. rec[cur].status = "running" /\ "change_start" \notin rec[cur].steps
    BY <1>a, <1>2 DEF InstallSafeguard, Uninstall, LabelInv, Ownership, RecordedProgress, RunLabels
  <2>4. QED
    BY <1>a, <2>2, <2>3, Untouched
<1>3. CASE Confirm
  <2>1. cur \in Ops
    BY <1>a, <1>3, CurIsOp DEF Confirm, OwnedLabels
  <2>2. o = cur
    BY <1>a, <1>3, <2>1, RemovalEffect DEF Confirm
  <2>3. QED
    BY <1>a, <1>3, <2>2 DEF Confirm, LabelInv, RecordedProgress
<1>4. CASE SettleVerdict
  <2>1. cur \in Ops
    BY <1>a, <1>4, CurIsOp DEF SettleVerdict, OwnedLabels
  <2>2. o = cur
    BY <1>a, <1>4, <2>1, RemovalEffect DEF SettleVerdict
  <2>3. verdict \in {"match", "object"}
    <3>1. pc = "verdict" /\ verdict \in {"match", "object", "mismatch"}
      BY <1>4 DEF SettleVerdict
    <3>2. verdict = "mismatch" => FALSE
      BY <1>a, <1>4, <2>2, <3>1 DEF SettleVerdict, LabelInv, GuardKnown
    <3>3. QED
      BY <3>1, <3>2
  <2>4. QED
    BY <1>a, <1>4, <2>2, <2>3 DEF SettleVerdict, LabelInv, ReadingTrue
<1>5. CASE RemoveRemaining
  <2>1. cur \in Ops
    BY <1>a, <1>5, CurIsOp DEF RemoveRemaining, OwnedLabels
  <2>2. o = cur
    BY <1>a, <1>5, <2>1, RemovalEffect DEF RemoveRemaining
  <2>3. QED
    BY <1>a, <1>5, <2>2 DEF RemoveRemaining, LabelInv, GuardKnown
<1>6. CASE RecoverLeftover
  <2>1. PICK p \in UnverifiedSafeguard, removed \in BOOLEAN : RemoveSafeguard(p, removed)
    BY <1>1, <1>6 DEF RecoverLeftover
  <2>2. o = p
    BY <1>a, <2>1, RemovalEffect DEF UnverifiedSafeguard
  <2>3. "change_start" \notin rec[o].steps
    BY <2>1, <2>2 DEF UnverifiedSafeguard
  <2>4. QED
    BY <1>a, <1>b, <2>3 DEF StateInv, WriteAhead
<1>7. ASSUME NEW p \in Ops, Fire(p) PROVE FALSE
  BY <1>a, <1>7 DEF Fire
<1>8. CASE Command \/ Crash \/ Tick \/ Foreign \/ UnblockSteps \/ FinishSteps
  BY <1>1, <1>8 DEF Command, Prepare, BlockAccounts, Recover, Unblock, NotifyRetry, Crash, Tick,
    Foreign, UnblockSteps, ClearBaseline, Waive, FinishSteps, Block, Close, Deliver, Send, Noted
<1>9. CASE \/ Refuse \/ Journal \/ SaveBaseline \/ Start \/ ReadClock \/ ChangeStart \/ ApplyChange
           \/ Postcheck \/ CheckIdentity \/ CheckMargin \/ FinalCheck \/ RemovalCheck \/ SavedCheck
           \/ CompleteEnrollment
  BY <1>1, <1>9 DEF Refuse, Journal, SaveBaseline, Start, ReadClock, ChangeStart, ApplyChange,
    Postcheck, CheckIdentity, CheckMargin, FinalCheck, RemovalCheck, SavedCheck, CompleteEnrollment
<1>10. CASE \/ Persist \/ WaitForExpiry
            \/ (\E p \in Ops : RecoverRecord(p)) \/ Compare
  BY <1>1, <1>10 DEF Persist, WaitForExpiry, RecoverRecord, Compare
<1>13. CASE KeepSafeguard
  <2>1. cur \in Ops
    BY <1>a, <1>13, CurIsOp DEF KeepSafeguard, OwnedLabels
  <2>2. RevokeToken /\ o = cur /\ guard'[o] = "revoked"
    BY <1>a, <1>1, <1>13, <2>1 DEF KeepSafeguard, RevokeToken
  <2>3. phase = "over" /\ rec[o].status = "running"
    BY <1>a, <1>13, <2>2 DEF KeepSafeguard, LabelInv, GuardKnown, Ownership, RunLabels
  <2>4. cur' = o /\ pc' = "finish" /\ out'.result = "unknown"
    BY <1>13, <2>2 DEF KeepSafeguard, Finish, Outcome
  <2>5. QED
    BY <2>2, <2>3, <2>4 DEF GivenUp, RevokeToken
<1>11. CASE UNCHANGED vars
  BY <1>1, <1>11 DEF vars
<1>12. QED
  BY <1>2, <1>3, <1>4, <1>5, <1>6, <1>7, <1>8, <1>9, <1>10, <1>11, <1>13
    DEF Next, CommandStep, ApplySteps, SettleSteps, RecoverSteps, Device

(* The power of an armed safeguard is taken away only to confirm the change *)
(* or when the object is back: not by a failed install, not by settling,    *)
(* not by recover.  On webhook firmware settling revokes the token of one   *)
(* that should have fired, and then its outcome is unknown and blocks.      *)
THEOREM RevertStaysArmed == Spec => NeverDisarmedUnconfirmed
<1>1. IInv /\ [Next]_vars =>
        [\A o \in Ops : guard[o] = "armed" /\ guard'[o] \notin {"armed", "fired"} /\ ~tampered =>
            obj = rec[o].before \/ "confirm_start" \in rec[o].steps \/ GivenUp(o)]_vars
  BY NextDisarm
<1>2. QED
  BY <1>1, Invariance, PTL DEF Spec, NeverDisarmedUnconfirmed
----------------------------------------------------------------------------
(* What the commands leave behind: the startup configuration of an EXOS     *)
(* switch, the reports to the notification channel and the enrollment       *)
(* certificate.  The proofs rest on IInv.                                   *)

(* the configuration operation o found *)
Found(o) == [obj |-> rec[o].before, rest |-> rec[o].rest]

(* labels of _execute before anything is saved to the startup configuration *)
Unsaved == {"install", "uninstall", "verified", "change", "postcheck", "check", "margin", "final",
            "confirm", "removed"}

(* EXOS: which configuration is saved while an operation goes on *)
FoundKept ==
    /\ \A o \in Ops : o = latest => rest = rec[o].rest /\ (~rec[o].guarded => saved = Found(o))
    /\ pc \in Unsaved => saved = Found(cur)
ResultSaved ==
    /\ pc \in {"saved", "finish", "close"} /\ ~blocks(out.result, out.reason) => saved = Config
    /\ \A o \in Ops : o = latest /\ Settled(o) => saved = Config
SavedInv == Platform = "exos" /\ ~tampered => FoundKept /\ ResultSaved

(* what a record says of its notification; a command that notifies has an *)
(* operation that was not reported yet                                    *)
NotesTrue ==
    \A o \in Ops : /\ rec[o].notification = "sent" => o \in delivered
                   /\ Notifier /\ rec[o].status = "finished" =>
                        rec[o].notification \in UNDELIVERED \cup {"sent", "waived"}
Reported == {"sent", "waived"}
EarlierReported ==
    Notifier /\ (pc = "prepared" \/ Running # {}) =>
        \A o \in Ops : rec[o].status = "finished" => rec[o].notification \in Reported
Notifying ==
    /\ pc \in {"deliver", "send", "sent", "failed"} => rec[cur].notification # "sent" /\ Notifier
    /\ pc = "sent" => cur \in delivered
ReportInv == NotesTrue /\ EarlierReported /\ Notifying

(* a self-test that has begun has no certificate; the command that completes *)
(* one works on the latest operation, whose record it has just closed        *)
SelfTest(o) == rec[o].kind = "enrollment" /\ rec[o].guarded
CertificateVoid ==
    /\ \A o \in Ops : o = latest /\ SelfTest(o) /\ rec[o].status # "finished" => cert = NoAccounts
    /\ pc = "clock" /\ rec[cur].kind = "enrollment" => cert = NoAccounts
Completing ==
    /\ pc \in {"deliver", "send", "sent", "failed"} /\ mode = "apply" =>
          cur = latest /\ rec[cur].result = out.result /\ rec[cur].reason = out.reason
    /\ pc = "complete" => /\ cur = latest /\ cur \in delivered /\ rec[cur].result = "reverted"
                          /\ rec[cur].reason = "enrollment self-test"
CertInv == CertificateVoid /\ Completing /\ CertificateEarned

----------------------------------------------------------------------------
(* what the three invariants read of a record, its notification apart *)
Same(o) == Kept(o) /\ rec'[o].rest = rec[o].rest /\ rec'[o].kind = rec[o].kind

(* the fields an action may write without changing the rest of a record *)
LEMMA StepSame ==
    ASSUME TypeOK, cur \in Ops, NEW name, Step(name)
    PROVE  /\ \A o \in Ops : Same(o) /\ rec'[o].notification = rec[o].notification
<1>1. rec \in [Ops -> Records]
  BY DEF TypeOK, JournalType
<1>2. rec' = [rec EXCEPT ![cur] = [rec[cur] EXCEPT !.steps = rec[cur].steps \cup {name}]]
  BY <1>1 DEF Step
<1>3. rec'[cur] = [rec[cur] EXCEPT !.steps = rec[cur].steps \cup {name}] /\ rec[cur] \in Records
  BY <1>1, <1>2
<1>4. rec'[cur].rest = rec[cur].rest /\ rec'[cur].kind = rec[cur].kind
      /\ rec'[cur].notification = rec[cur].notification
  BY <1>3 DEF Records
<1>5. \A o \in Ops : o # cur => rec'[o] = rec[o]
  BY <1>1, <1>2
<1>6. QED
  BY <1>4, <1>5, StepEffect DEF Same

LEMMA NoteSame ==
    ASSUME TypeOK, NEW o \in Ops, NEW note, rec' = [rec EXCEPT ![o].notification = note]
    PROVE  /\ \A p \in Ops : Same(p)
           /\ rec'[o].notification = note /\ \A p \in Ops : p # o => rec'[p] = rec[p]
<1>1. rec \in [Ops -> Records] /\ rec[o] \in Records
  BY DEF TypeOK, JournalType
<1>2. rec'[o] = [rec[o] EXCEPT !.notification = note] /\ \A p \in Ops : p # o => rec'[p] = rec[p]
  BY <1>1
<1>3. Same(o) /\ rec'[o].notification = note
  BY <1>1, <1>2 DEF Same, Kept, Records
<1>4. QED
  BY <1>2, <1>3 DEF Same, Kept

LEMMA RemovedSame ==
    ASSUME TypeOK, RecoverLeftover
    PROVE  \A o \in Ops : Same(o) /\ rec'[o].notification = rec[o].notification
<1>1. CASE UNCHANGED rec
  BY <1>1 DEF Same, Kept
<1>2. ASSUME NEW p \in Ops, rec' = [rec EXCEPT ![p].steps = @ \cup {"safeguard_removed"}]
      PROVE  \A o \in Ops : Same(o) /\ rec'[o].notification = rec[o].notification
  <2>1. rec \in [Ops -> Records] /\ rec[p] \in Records
    BY DEF TypeOK, JournalType
  <2>2. /\ rec'[p] = [rec[p] EXCEPT !.steps = rec[p].steps \cup {"safeguard_removed"}]
        /\ \A o \in Ops : o # p => rec'[o] = rec[o]
    BY <1>2, <2>1
  <2>3. Same(p) /\ rec'[p].notification = rec[p].notification
    BY <2>1, <2>2 DEF Same, Kept, Records
  <2>4. QED
    BY <2>2, <2>3 DEF Same, Kept
<1>3. QED
  BY <1>1, <1>2 DEF RecoverLeftover, UnverifiedSafeguard

LEMMA WaiveSame ==
    ASSUME TypeOK, Waive
    PROVE  \A o \in Ops : /\ Same(o)
                          /\ rec'[o].notification = IF o \in Undelivered THEN "waived" ELSE rec[o].notification
<1> SUFFICES ASSUME NEW o \in Ops
             PROVE  /\ Same(o)
                    /\ rec'[o].notification = IF o \in Undelivered THEN "waived" ELSE rec[o].notification
  OBVIOUS
<1>1. rec[o] \in Records
  BY DEF TypeOK, JournalType
<1>2. rec'[o] = IF o \in Undelivered THEN [rec[o] EXCEPT !.notification = "waived"] ELSE rec[o]
  BY DEF Waive
<1>3. CASE o \in Undelivered
  BY <1>1, <1>2, <1>3 DEF Same, Kept, Records
<1>4. CASE o \notin Undelivered
  BY <1>2, <1>4 DEF Same, Kept
<1>5. QED
  BY <1>3, <1>4

----------------------------------------------------------------------------
(* the startup configuration *)

(* a step that neither reaches a label with a claim on it nor leaves one *)
QuietLabel ==
    /\ pc' \in Unsaved => pc \in Unsaved /\ cur' = cur
    /\ pc' \in {"saved", "finish", "close"} /\ ~blocks(out'.result, out'.reason) =>
          pc \in {"saved", "finish", "close"} /\ out' = out

LEMMA QuietFrame ==
    ASSUME TypeOK, SavedInv, \A o \in Ops : Same(o), QuietLabel,
           UNCHANGED <<saved, obj, rest, latest, tampered>>
    PROVE  SavedInv'
<1> SUFFICES ASSUME Platform = "exos", ~tampered PROVE FoundKept' /\ ResultSaved'
  BY DEF SavedInv
<1>1. FoundKept /\ ResultSaved
  BY DEF SavedInv
<1>2. \A o \in Ops : Found(o)' = Found(o) /\ (Settled(o)' => Settled(o)) /\ rec'[o].rest = rec[o].rest
                     /\ rec'[o].guarded = rec[o].guarded
  BY DEF Found, Same, Kept, Settled
<1>3. Config' = Config
  BY DEF Config
<1>4. pc \in Unsaved => cur \in Ops
  BY CurIsOp DEF Unsaved, OwnedLabels
<1>5. FoundKept'
  BY <1>1, <1>2, <1>4 DEF FoundKept, QuietLabel, Found
<1>6. ResultSaved'
  BY <1>1, <1>2, <1>3 DEF ResultSaved, QuietLabel
<1>7. QED
  BY <1>5, <1>6

(* an outcome that blocks makes no claim on it *)
LEMMA BlockingFinish ==
    ASSUME NEW result, NEW reason, Finish(result, reason),
           result \in BLOCKING_RESULTS \/ reason \in BLOCKING_REASONS
    PROVE  pc' = "finish" /\ blocks(out'.result, out'.reason) /\ QuietLabel
<1>1. pc' = "finish" /\ out'.result = result /\ out'.reason = Class(reason)
  BY DEF Finish, Outcome
<1>2. blocks(result, Class(reason))
  BY BlockingClasses DEF blocks
<1>3. QED
  BY <1>1, <1>2 DEF QuietLabel, Unsaved

(* the steps that only move on, or decide on an outcome that blocks *)
LEMMA MovingQuiet ==
    ASSUME TypeOK, \/ BlockAccounts \/ Refuse \/ SaveBaseline \/ Postcheck \/ CheckIdentity \/ CheckMargin
                   \/ SavedCheck \/ WaitForExpiry \/ KeepSafeguard \/ Block \/ Send \/ CompleteEnrollment
                   \/ Recover \/ Unblock \/ ClearBaseline \/ (\E o \in Ops : NotifyRetry(o)) \/ Crash \/ Tick
                   \/ UNCHANGED vars
    PROVE  QuietLabel /\ UNCHANGED <<rec, saved, obj, rest, latest, tampered>>
<1> USE DEF Goto, Finish, Settle, Outcome, Release, Unsaved, QuietLabel, journal, device, process, history
<1>1. CASE BlockAccounts \/ Refuse \/ SaveBaseline \/ Postcheck \/ CheckIdentity \/ CheckMargin
  BY <1>1 DEF BlockAccounts, Refuse, SaveBaseline, Postcheck, CheckIdentity, CheckMargin
<1>2. CASE SavedCheck \/ WaitForExpiry \/ KeepSafeguard \/ Block
  <2> HIDE DEF Finish
  <2>1. CASE SavedCheck \/ Block
    BY <2>1, BlockingFinish DEF SavedCheck, Block, BLOCKING_REASONS
  <2>2. CASE WaitForExpiry \/ KeepSafeguard
    BY <2>2, BlockingFinish DEF WaitForExpiry, KeepSafeguard, BLOCKING_RESULTS
  <2>3. QED
    BY <1>2, <2>1, <2>2
<1>3. CASE \/ Send \/ CompleteEnrollment \/ Recover \/ Unblock \/ ClearBaseline
           \/ (\E o \in Ops : NotifyRetry(o)) \/ Crash \/ Tick \/ UNCHANGED vars
  BY <1>3 DEF Send, CompleteEnrollment, Recover, Unblock, ClearBaseline, NotifyRetry, Crash, Tick, vars
<1>4. QED
  BY <1>1, <1>2, <1>3

(* the steps that take a safeguard away, and those that write to the record *)
LEMMA RemovalQuiet ==
    ASSUME TypeOK, Uninstall \/ Confirm \/ SettleVerdict \/ RemoveRemaining \/ Compare
    PROVE  QuietLabel /\ UNCHANGED <<rec, saved, obj, rest, latest, tampered>>
<1> USE DEF BLOCKING_RESULTS, BLOCKING_REASONS, journal, device, history
<1>a. \A result, reason : Outcome("persist", result, reason) => QuietLabel
  BY DEF Outcome, QuietLabel, Unsaved
<1>b. \A reason : Settle(reason) => QuietLabel
  BY DEF Settle, Outcome, QuietLabel, Unsaved
<1>1. CASE Uninstall \/ RemoveRemaining \/ Confirm
  BY <1>1, <1>a, <1>b, BlockingFinish DEF Uninstall, RemoveRemaining, Confirm, Goto, QuietLabel, Unsaved
<1>2. CASE SettleVerdict
  BY <1>2, <1>a, BlockingFinish DEF SettleVerdict
<1>3. CASE Compare
  BY <1>3, <1>a, BlockingFinish DEF Compare
<1>4. QED
  BY <1>1, <1>2, <1>3

LEMMA WritingQuiet ==
    ASSUME TypeOK, InstallSafeguard \/ ChangeStart \/ FinalCheck \/ Deliver \/ Noted \/ RecoverLeftover \/ Waive
    PROVE  /\ QuietLabel /\ \A o \in Ops : Same(o)
           /\ UNCHANGED <<saved, obj, rest, latest, tampered>>
<1> USE DEF Goto, Settle, Outcome, Release, Unsaved, QuietLabel, device, history
<1>1. CASE InstallSafeguard \/ ChangeStart \/ FinalCheck
  <2>1. cur \in Ops
    BY <1>1, CurIsOp DEF InstallSafeguard, ChangeStart, FinalCheck, OwnedLabels
  <2>2. \A o \in Ops : Same(o)
    BY <1>1, <2>1, StepSame DEF InstallSafeguard, ChangeStart, FinalCheck, Same, Kept
  <2>3. QED
    BY <1>1, <2>2 DEF InstallSafeguard, ChangeStart, FinalCheck
<1>2. CASE Deliver \/ Noted
  <2>1. cur \in Ops
    BY <1>2, CurIsOp DEF Deliver, Noted, OwnedLabels
  <2>2. \A o \in Ops : Same(o)
    BY <1>2, <2>1, NoteSame DEF Deliver, Noted, TypeOK, JournalType
  <2>3. QED
    BY <1>2, <2>2 DEF Deliver, Noted, Return
<1>3. CASE RecoverLeftover \/ Waive
  BY <1>3, RemovedSame, WaiveSame DEF RecoverLeftover, Waive
<1>4. QED
  BY <1>1, <1>2, <1>3

LEMMA NextSaved == IInv /\ SavedInv /\ [Next]_vars => SavedInv'
<1> SUFFICES ASSUME IInv, SavedInv, [Next]_vars, Platform = "exos", ~tampered' PROVE FoundKept' /\ ResultSaved'
  BY DEF SavedInv
<1>a. TypeOK /\ StateInv /\ LabelInv /\ rec \in [Ops -> Records]
  BY DEF IInv, TypeOK, JournalType
<1> USE DEF journal, device, process, history
<1>1. CASE \/ BlockAccounts \/ Refuse \/ SaveBaseline \/ Postcheck \/ CheckIdentity \/ CheckMargin
           \/ SavedCheck \/ WaitForExpiry \/ KeepSafeguard \/ Block \/ Send \/ CompleteEnrollment
           \/ Recover \/ Unblock \/ ClearBaseline \/ (\E o \in Ops : NotifyRetry(o)) \/ Crash \/ Tick
           \/ UNCHANGED vars
  <2>1. QuietLabel /\ UNCHANGED <<rec, saved, obj, rest, latest, tampered>>
    BY <1>a, <1>1, MovingQuiet
  <2>2. SavedInv'
    BY <1>a, <2>1, QuietFrame DEF Same, Kept
  <2>3. QED
    BY <2>2 DEF SavedInv
<1>2. CASE Uninstall \/ Confirm \/ SettleVerdict \/ RemoveRemaining \/ Compare
  <2>1. QuietLabel /\ UNCHANGED <<rec, saved, obj, rest, latest, tampered>>
    BY <1>a, <1>2, RemovalQuiet
  <2>2. SavedInv'
    BY <1>a, <2>1, QuietFrame DEF Same, Kept
  <2>3. QED
    BY <2>2 DEF SavedInv
<1>3. CASE InstallSafeguard \/ ChangeStart \/ FinalCheck \/ Deliver \/ Noted \/ RecoverLeftover \/ Waive
  <2>1. SavedInv'
    BY <1>a, <1>3, WritingQuiet, QuietFrame
  <2>2. QED
    BY <2>1 DEF SavedInv
<1>4. ASSUME NEW o \in Ops, NEW k \in {"change", "enrollment"}, NEW a \in Values, Prepare(o, k, a)
      PROVE  FoundKept' /\ ResultSaved'
  <2>1. /\ rec'[o].before = obj /\ rec'[o].rest = rest /\ rec'[o].status = "none"
        /\ latest' = o /\ pc' = "prepared" /\ saved = Config /\ UNCHANGED <<saved, rest>>
    BY <1>a, <1>4 DEF Prepare
  <2>2. QED
    BY <2>1 DEF FoundKept, ResultSaved, Found, Config, Settled, Unsaved
<1>b. ASSUME UNCHANGED tampered PROVE FoundKept /\ ResultSaved /\ ~tampered
  BY <1>b DEF SavedInv
<1>5. CASE Journal
  <2>1. cur \in Ops
    BY <1>a, <1>5, CurIsOp DEF Journal, OwnedLabels
  <2>2. /\ \A o \in Ops : o # cur => rec'[o] = rec[o]
        /\ rec'[cur] = [rec[cur] EXCEPT !.status = "running"] /\ rec[cur] \in Records
    BY <1>a, <1>5, <2>1 DEF Journal
  <2>3. /\ rec'[cur].status = "running" /\ rec'[cur].before = rec[cur].before
        /\ rec'[cur].rest = rec[cur].rest /\ rec'[cur].guarded = rec[cur].guarded
    BY <2>2 DEF Records
  <2>4. FoundKept /\ ResultSaved /\ UNCHANGED <<saved, obj, rest, latest>> /\ pc' = "journaled"
    BY <1>b, <1>5 DEF Journal, Goto
  <2>5. FoundKept'
    <3>1. \A o \in Ops : /\ rec'[o].before = rec[o].before /\ rec'[o].rest = rec[o].rest
                         /\ rec'[o].guarded = rec[o].guarded
      BY <2>2, <2>3
    <3>2. QED
      BY <2>4, <3>1 DEF FoundKept, Found, Unsaved
  <2>6. ResultSaved'
    BY <2>2, <2>3, <2>4 DEF ResultSaved, Config, Settled
  <2>7. QED
    BY <2>5, <2>6
<1>6. CASE Start
  <2>1. /\ cur \in Ops /\ cur = latest /\ ~rec[cur].guarded /\ rec[cur].status = "running"
    BY <1>a, <1>6, CurIsOp DEF Start, OwnedLabels, LabelInv, Ownership, RecordedProgress, RunLabels, StateInv, OnlyLatest
  <2>2. FoundKept /\ ResultSaved /\ ~tampered /\ UNCHANGED <<rec, saved, obj, rest, latest>>
    BY <1>b, <1>6 DEF Start
  <2>3. saved = Config
    BY <1>a, <2>1, <2>2, Untouched DEF FoundKept, Found, Config
  <2>4. pc' \in {"clock", "finish"}
    BY <1>6 DEF Start, Goto, Finish, Outcome
  <2>5. QED
    BY <2>2, <2>3, <2>4 DEF FoundKept, ResultSaved, Found, Config, Settled, Unsaved
<1>7. CASE ReadClock
  <2>1. /\ cur \in Ops /\ cur = latest /\ ~rec[cur].guarded /\ rec[cur].status = "running"
    BY <1>a, <1>7, CurIsOp DEF ReadClock, OwnedLabels, LabelInv, Ownership, RecordedProgress, RunLabels, StateInv, OnlyLatest
  <2>2. FoundKept /\ ResultSaved /\ ~tampered /\ UNCHANGED <<saved, obj, rest, latest>>
    BY <1>b, <1>7 DEF ReadClock
  <2>3. saved = Config /\ saved = Found(cur)
    BY <1>a, <2>1, <2>2, Untouched DEF FoundKept, Found, Config
  <2>4. CASE rec' = [rec EXCEPT ![cur].guarded = TRUE] /\ Goto("install")
    <3>1. /\ \A o \in Ops : o # cur => rec'[o] = rec[o]
          /\ rec'[cur] = [rec[cur] EXCEPT !.guarded = TRUE] /\ rec[cur] \in Records
      BY <1>a, <2>1, <2>4
    <3>2. /\ rec'[cur].before = rec[cur].before /\ rec'[cur].rest = rec[cur].rest
          /\ rec'[cur].status = "running" /\ rec'[cur].guarded
      BY <2>1, <3>1 DEF Records
    <3>3. pc' = "install" /\ cur' = cur
      BY <2>4 DEF Goto
    <3>4. QED
      BY <2>1, <2>2, <2>3, <3>1, <3>2, <3>3 DEF FoundKept, ResultSaved, Found, Config, Settled
  <2>5. CASE Finish("rejected", "device clock") /\ UNCHANGED rec
    <3>1. pc' = "finish"
      BY <2>5 DEF Finish, Outcome
    <3>2. QED
      BY <2>2, <2>3, <2>5, <3>1 DEF FoundKept, ResultSaved, Found, Config, Settled, Unsaved
  <2>6. QED
    BY <1>7, <2>4, <2>5 DEF ReadClock
<1>8. CASE ApplyChange
  <2>1. /\ cur \in Ops /\ cur = latest /\ rec[cur].guarded /\ rec[cur].status = "running"
    BY <1>a, <1>8, CurIsOp DEF ApplyChange, OwnedLabels, LabelInv, Ownership, RecordedProgress, RunLabels, StateInv, OnlyLatest
  <2>2. /\ FoundKept /\ UNCHANGED <<rec, saved, rest, latest, cur>>
        /\ pc = "change" /\ pc' \in {"postcheck", "settle"}
    BY <1>b, <1>8 DEF ApplyChange, Goto, Settle, Outcome
  <2>3. QED
    BY <2>1, <2>2 DEF FoundKept, ResultSaved, Found, Settled, Unsaved
<1>9. CASE RemovalCheck
  <2>1. FoundKept /\ ResultSaved /\ UNCHANGED <<rec, saved, obj, rest, latest, tampered, cur>> /\ pc = "removed"
    BY <1>b, <1>9 DEF RemovalCheck, Finish, Outcome
  <2>2. saved = Found(cur)
    BY <2>1 DEF FoundKept, Unsaved
  <2>3. \/ pc' = "finish" /\ blocks(out'.result, out'.reason)
        \/ pc' = "finish" /\ saved = Config
        \/ pc' = "persist"
    <3>1. \A result, reason : /\ Finish(result, reason) => pc' = "finish"
                              /\ Outcome("persist", result, reason) => pc' = "persist"
      BY DEF Finish, Outcome
    <3>2. IsBefore(cur) => saved = Config
      BY <2>2 DEF IsBefore, Found, Config
    <3>3. QED
      BY <1>9, <3>1, <3>2, BlockingFinish DEF RemovalCheck, BLOCKING_RESULTS
  <2>4. QED
    BY <2>1, <2>3 DEF FoundKept, ResultSaved, Found, Config, Settled, Unsaved
<1>10. CASE Persist
  <2>1. /\ cur \in Ops /\ cur = latest /\ rec[cur].status = "running"
    BY <1>a, <1>10, CurIsOp DEF Persist, OwnedLabels, LabelInv, Ownership, RunLabels, StateInv, OnlyLatest
  <2>2. FoundKept /\ ~tampered /\ UNCHANGED <<rec, obj, rest, latest, tampered>> /\ saved' \in {saved, Config}
    BY <1>b, <1>10 DEF Persist
  <2>3. ~rec[cur].guarded => Config = Found(cur)
    BY <1>a, <2>1, <2>2, Untouched DEF FoundKept, Config, Found
  <2>4. \/ pc' \in {"saved", "finish"} /\ saved' = Config
        \/ pc' = "finish" /\ blocks(out'.result, out'.reason)
    BY <1>10, BlockingFinish DEF Persist, Goto, BLOCKING_REASONS
  <2>5. FoundKept'
    BY <2>1, <2>2, <2>3, <2>4 DEF FoundKept, Found, Unsaved
  <2>6. ResultSaved'
    BY <2>1, <2>2, <2>4 DEF ResultSaved, Config, Settled
  <2>7. QED
    BY <2>5, <2>6
<1>11. CASE Close
  <2>1. /\ cur \in Ops /\ cur = latest
    BY <1>a, <1>11, CurIsOp DEF Close, OwnedLabels, LabelInv, Ownership, RunLabels, StateInv, OnlyLatest
  <2>2. /\ \A o \in Ops : o # cur => rec'[o] = rec[o]
        /\ rec'[cur].result = out.result /\ rec'[cur].reason = out.reason
        /\ rec'[cur].before = rec[cur].before /\ rec'[cur].rest = rec[cur].rest
        /\ rec'[cur].guarded = rec[cur].guarded
    BY SMT, <1>a, <1>11, <2>1 DEF Close, Records
  <2>3. FoundKept /\ ResultSaved /\ UNCHANGED <<saved, obj, rest, latest>> /\ pc = "close"
    BY <1>b, <1>11 DEF Close
  <2>4. pc' \notin Unsaved \cup {"saved", "finish", "close"}
    BY <1>11 DEF Close, Goto, Return, Release, Unsaved
  <2>5. QED
    BY <2>1, <2>2, <2>3, <2>4 DEF FoundKept, ResultSaved, Found, Config, Settled
<1>12. ASSUME NEW o \in Ops, RecoverRecord(o) PROVE FoundKept' /\ ResultSaved'
  <2>1. /\ FoundKept /\ ResultSaved /\ ~tampered /\ rec[o].status = "running"
        /\ UNCHANGED <<rec, saved, obj, rest, latest>>
    BY <1>b, <1>12 DEF RecoverRecord, Running
  <2>2. o = latest
    BY <1>a, <2>1 DEF StateInv, OnlyLatest
  <2>3. ~rec[o].guarded => saved = Config
    BY <1>a, <2>1, <2>2, Untouched DEF FoundKept, Found, Config
  <2>4. \A label, result, reason : TakeUp(o, label, result, reason) => pc' = label /\ out'.result = result
    BY SMT DEF TakeUp
  <2>5. \/ pc' \in {"settle", "remaining", "compare"}
        \/ pc' = "finish" /\ blocks(out'.result, out'.reason)
        \/ pc' = "finish" /\ ~rec[o].guarded
    BY <1>12, <2>4, BlockingClasses DEF RecoverRecord
  <2>6. QED
    BY <2>1, <2>3, <2>5 DEF FoundKept, ResultSaved, Found, Config, Settled, Unsaved
<1>13. ASSUME NEW o \in Ops, Fire(o) PROVE FoundKept' /\ ResultSaved'
  <2>1. /\ FoundKept /\ ResultSaved /\ guard[o] = "armed"
        /\ UNCHANGED <<rec, saved, rest, latest, pc, cur, out>>
    BY <1>b, <1>13 DEF Fire
  <2>2. o = latest /\ ~Settled(o)
    BY <1>a, <2>1 DEF StateInv, OnlyLatest, SettledSafeguardGone
  <2>3. pc \in {"saved", "finish", "close"} => blocks(out.result, out.reason)
    <3>1. pc \in {"saved", "finish", "close"} => cur \in Ops /\ cur = latest
      BY <1>a, CurIsOp DEF OwnedLabels, LabelInv, Ownership, RunLabels, StateInv, OnlyLatest
    <3>2. QED
      BY <1>a, <2>1, <2>2, <3>1 DEF LabelInv, GuardKnown
  <2>4. FoundKept'
    BY <2>1 DEF FoundKept, Found
  <2>5. ResultSaved'
    BY <2>1, <2>2, <2>3 DEF ResultSaved, Settled
  <2>6. QED
    BY <2>4, <2>5
<1>14. ASSUME Foreign PROVE FALSE
  BY <1>14 DEF Foreign
<1>15. QED
  BY <1>1, <1>2, <1>3, <1>4, <1>5, <1>6, <1>7, <1>8, <1>9, <1>10, <1>11, <1>12, <1>13, <1>14
    DEF Next, Command, CommandStep, ApplySteps, SettleSteps, FinishSteps, RecoverSteps, UnblockSteps, Device

----------------------------------------------------------------------------
(* the reports and the certificate *)

(* labels at which the command knows something of them *)
Knowing == {"prepared", "clock", "deliver", "send", "sent", "failed", "complete"}

(* a step that neither reports nor certifies *)
Silent ==
    /\ \A o \in Ops : Same(o) /\ rec'[o].notification = rec[o].notification
    /\ pc' \notin Knowing \/ UNCHANGED process
    /\ UNCHANGED <<cert, latest, delivered>>

LEMMA SilentSteps ==
    ASSUME TypeOK, \/ BlockAccounts \/ Refuse \/ SaveBaseline \/ InstallSafeguard \/ Uninstall \/ ChangeStart
                   \/ ApplyChange \/ Postcheck \/ CheckIdentity \/ CheckMargin \/ FinalCheck \/ Confirm
                   \/ RemovalCheck \/ SavedCheck \/ SettleSteps \/ Block \/ Recover \/ RecoverSteps
                   \/ Unblock \/ ClearBaseline \/ Crash \/ Device \/ UNCHANGED vars
    PROVE  Silent
<1> USE DEF journal, device, process, history
<1>a. ASSUME UNCHANGED rec PROVE \A o \in Ops : Same(o) /\ rec'[o].notification = rec[o].notification
  BY <1>a DEF Same, Kept
<1>b. /\ \A label \in {"start", "verified", "uninstall", "change", "postcheck", "check", "margin", "final",
                       "confirm", "removed", "saved", "finish", "close", "compare", "waive"} :
             Goto(label) => pc' \notin Knowing
      /\ \A label \in {"persist", "finish", "settle"} : \A result, reason :
             Outcome(label, result, reason) => pc' \notin Knowing
      /\ Release => pc' \notin Knowing
  BY DEF Goto, Outcome, Release, Knowing
<1>c. /\ \A result, reason : Finish(result, reason) => pc' \notin Knowing
      /\ \A reason : Settle(reason) => pc' \notin Knowing
  BY <1>b DEF Finish, Settle
<1>1. CASE BlockAccounts \/ Refuse \/ SaveBaseline \/ Block \/ ClearBaseline \/ Crash
  BY <1>a, <1>b, <1>1 DEF BlockAccounts, Refuse, SaveBaseline, Block, ClearBaseline, Crash, Silent
<1>2. CASE Uninstall \/ ApplyChange \/ Postcheck \/ CheckIdentity \/ CheckMargin \/ Confirm
  BY <1>a, <1>b, <1>c, <1>2 DEF Uninstall, ApplyChange, Postcheck, CheckIdentity, CheckMargin, Confirm, Silent
<1>3. CASE RemovalCheck \/ SavedCheck
  BY <1>a, <1>b, <1>c, <1>3 DEF RemovalCheck, SavedCheck, Silent
<1>4. CASE SettleSteps
  BY <1>a, <1>b, <1>c, <1>4 DEF SettleSteps, Persist, WaitForExpiry, KeepSafeguard, SettleVerdict, Silent, Knowing
<1>5. CASE Recover \/ Unblock \/ Device \/ UNCHANGED vars
  BY <1>a, <1>5 DEF Recover, Unblock, Device, Tick, Fire, Foreign, vars, Silent, Knowing
<1>6. CASE InstallSafeguard \/ ChangeStart \/ FinalCheck
  <2>1. cur \in Ops
    BY <1>6, CurIsOp DEF InstallSafeguard, ChangeStart, FinalCheck, OwnedLabels
  <2>2. \A o \in Ops : Same(o) /\ rec'[o].notification = rec[o].notification
    BY <1>6, <1>a, <2>1, StepSame DEF InstallSafeguard, ChangeStart, FinalCheck
  <2>3. QED
    BY <1>b, <1>c, <1>6, <2>2 DEF InstallSafeguard, ChangeStart, FinalCheck, Silent
<1>7. CASE RecoverSteps
  <2>1. ASSUME NEW o \in Ops, RecoverRecord(o) PROVE Silent
    <3>1. \A label \in {"finish", "settle", "remaining", "compare"} : \A result, reason :
             TakeUp(o, label, result, reason) => pc' \notin Knowing
      BY DEF TakeUp, Knowing
    <3>2. QED
      BY <1>a, <2>1, <3>1 DEF RecoverRecord, Silent
  <2>2. CASE RemoveRemaining \/ Compare
    BY <1>a, <1>b, <1>c, <2>2 DEF RemoveRemaining, Compare, Silent
  <2>3. CASE RecoverLeftover
    BY <1>b, <2>3, RemovedSame DEF RecoverLeftover, Silent
  <2>4. QED
    BY <1>7, <2>1, <2>2, <2>3 DEF RecoverSteps
<1>8. QED
  BY <1>1, <1>2, <1>3, <1>4, <1>5, <1>6, <1>7

LEMMA SilentReports ==
    ASSUME TypeOK, ReportInv, Silent
    PROVE  ReportInv'
<1>1. /\ \A o \in Ops : rec'[o].status = rec[o].status /\ rec'[o].notification = rec[o].notification
      /\ UNCHANGED delivered /\ Running' = Running
      /\ pc' \notin Knowing \/ UNCHANGED <<pc, cur>>
  BY DEF Silent, Same, Kept, Running, process
<1>2. pc \in Knowing => cur \in Ops
  BY CurIsOp DEF Knowing, OwnedLabels
<1>3. NotesTrue'
  BY <1>1 DEF ReportInv, NotesTrue
<1>4. EarlierReported'
  BY <1>1 DEF ReportInv, EarlierReported, Knowing
<1>5. Notifying'
  BY <1>1, <1>2 DEF ReportInv, Notifying, Knowing
<1>6. QED
  BY <1>3, <1>4, <1>5 DEF ReportInv

LEMMA SilentCertificate ==
    ASSUME TypeOK, CertInv, Silent
    PROVE  CertInv'
<1>1. /\ \A o \in Ops : /\ rec'[o].status = rec[o].status /\ rec'[o].kind = rec[o].kind
                        /\ rec'[o].guarded = rec[o].guarded /\ rec'[o].result = rec[o].result
                        /\ rec'[o].reason = rec[o].reason
      /\ UNCHANGED <<delivered, cert, latest>>
      /\ pc' \notin Knowing \/ UNCHANGED <<pc, mode, cur, out>>
  BY DEF Silent, Same, Kept, process
<1>2. pc \in Knowing => cur \in Ops
  BY CurIsOp DEF Knowing, OwnedLabels
<1>3. CertificateVoid'
  BY <1>1, <1>2 DEF CertInv, CertificateVoid, SelfTest, Knowing
<1>4. Completing'
  BY <1>1, <1>2 DEF CertInv, Completing, Knowing
<1>5. CertificateEarned'
  BY ZenonT(40), <1>1 DEF CertInv, CertificateEarned
<1>6. QED
  BY <1>3, <1>4, <1>5 DEF CertInv

(* the steps that change the state of the record of cur *)
LEMMA JournalEffect ==
    ASSUME IInv, Journal
    PROVE  /\ cur \in Ops /\ cur = latest /\ rec[cur].status = "none" /\ ~rec[cur].guarded
           /\ \A o \in Ops : o # cur => rec'[o] = rec[o]
           /\ rec'[cur].status = "running" /\ rec'[cur].kind = rec[cur].kind /\ ~rec'[cur].guarded
           /\ rec'[cur].notification = rec[cur].notification
           /\ pc = "prepared" /\ pc' = "journaled" /\ UNCHANGED <<cert, latest, delivered>>
<1>1. cur \in Ops /\ cur = latest /\ rec[cur].status = "none" /\ ~rec[cur].guarded
  BY CurIsOp DEF IInv, Journal, OwnedLabels, LabelInv, Ownership, RecordedProgress
<1>2. rec \in [Ops -> Records] /\ rec[cur] \in Records
  BY <1>1 DEF IInv, TypeOK, JournalType
<1>3. /\ \A o \in Ops : o # cur => rec'[o] = rec[o]
      /\ rec'[cur] = [rec[cur] EXCEPT !.status = "running"]
  BY <1>1, <1>2 DEF Journal
<1>4. QED
  BY <1>1, <1>2, <1>3 DEF Records, Journal, Goto, history

LEMMA CloseEffect ==
    ASSUME IInv, Close
    PROVE  /\ cur \in Ops /\ cur = latest /\ rec[cur].status = "running"
           /\ \A o \in Ops : o # cur => rec'[o] = rec[o] /\ rec[o].status # "running"
           /\ rec'[cur].status = "finished" /\ rec'[cur].kind = rec[cur].kind
           /\ rec'[cur].guarded = rec[cur].guarded
           /\ rec'[cur].result = out.result /\ rec'[cur].reason = out.reason
           /\ rec'[cur].notification = IF Notifier THEN "pending" ELSE "not-configured"
           /\ UNCHANGED <<cert, latest, delivered>>
<1>1. cur \in Ops /\ rec[cur].status = "running"
  BY CurIsOp DEF IInv, Close, OwnedLabels, LabelInv, Ownership, RunLabels
<1>2. cur = latest /\ \A o \in Ops : o # cur => rec[o].status # "running"
  BY <1>1 DEF IInv, StateInv, OnlyLatest
<1>3. rec \in [Ops -> Records] /\ rec[cur] \in Records
  BY <1>1 DEF IInv, TypeOK, JournalType
<1>4. /\ \A o \in Ops : o # cur => rec'[o] = rec[o]
      /\ rec'[cur] = [rec[cur] EXCEPT !.status = "finished", !.result = out.result, !.reason = out.reason,
                                      !.notification = IF Notifier THEN "pending" ELSE "not-configured"]
  BY <1>1, <1>3 DEF Close
<1>5. QED
  BY SMT, <1>1, <1>2, <1>3, <1>4 DEF Records, Close, history

LEMMA ClockEffect ==
    ASSUME IInv, ReadClock
    PROVE  /\ cur \in Ops
           /\ \A o \in Ops : /\ o # cur => rec'[o] = rec[o]
                             /\ rec'[o].status = rec[o].status /\ rec'[o].kind = rec[o].kind
                             /\ rec'[o].result = rec[o].result /\ rec'[o].reason = rec[o].reason
                             /\ rec'[o].notification = rec[o].notification
           /\ pc = "clock" /\ pc' \in {"install", "finish"} /\ UNCHANGED <<cert, latest, delivered>>
<1>1. cur \in Ops
  BY CurIsOp DEF IInv, ReadClock, OwnedLabels
<1>2. rec \in [Ops -> Records] /\ rec[cur] \in Records
  BY <1>1 DEF IInv, TypeOK, JournalType
<1>3. pc = "clock" /\ pc' \in {"install", "finish"} /\ UNCHANGED <<cert, latest, delivered>>
  BY DEF ReadClock, Goto, Finish, Outcome, history
<1>4. CASE UNCHANGED rec
  BY <1>1, <1>3, <1>4
<1>5. CASE rec' = [rec EXCEPT ![cur].guarded = TRUE]
  <2>1. /\ \A o \in Ops : o # cur => rec'[o] = rec[o]
        /\ rec'[cur] = [rec[cur] EXCEPT !.guarded = TRUE]
    BY <1>1, <1>2, <1>5
  <2>2. /\ rec'[cur].status = rec[cur].status /\ rec'[cur].kind = rec[cur].kind
        /\ rec'[cur].result = rec[cur].result /\ rec'[cur].reason = rec[cur].reason
        /\ rec'[cur].notification = rec[cur].notification
    BY <1>2, <2>1 DEF Records
  <2>3. QED
    BY <1>1, <1>3, <2>1, <2>2
<1>6. QED
  BY <1>4, <1>5 DEF ReadClock

(* _deliver_notification: "sending" is written unless the report was waived *)
LEMMA DeliverEffect ==
    ASSUME IInv, Deliver
    PROVE  /\ cur \in Ops /\ rec[cur].status = "finished"
           /\ \A o \in Ops : Same(o) /\ (o # cur => rec'[o] = rec[o])
           /\ rec'[cur].notification = IF rec[cur].notification \in UNDELIVERED THEN "sending"
                                                                               ELSE rec[cur].notification
           /\ pc = "deliver" /\ pc' = "send" /\ UNCHANGED <<mode, cur, out, cert, latest, delivered>>
<1>1. cur \in Ops /\ rec[cur].status = "finished" /\ TypeOK
  BY CurIsOp DEF IInv, Deliver, OwnedLabels, LabelInv, Ownership, NoteLabels
<1>2. rec' = [rec EXCEPT ![cur].notification = IF rec[cur].notification \in UNDELIVERED THEN "sending"
                                                                             ELSE rec[cur].notification]
  BY <1>1 DEF Deliver, TypeOK, JournalType
<1>3. QED
  BY <1>1, <1>2, NoteSame DEF Deliver, Goto, history

LEMMA NotedEffect ==
    ASSUME IInv, Noted
    PROVE  /\ cur \in Ops /\ rec[cur].status = "finished"
           /\ \A o \in Ops : Same(o) /\ (o # cur => rec'[o] = rec[o])
           /\ rec'[cur].notification =
                 IF pc = "failed" /\ rec[cur].notification = "waived" THEN "waived" ELSE pc
           /\ pc \in {"sent", "failed"} /\ pc' \in {"recover", "complete", "idle"}
           /\ UNCHANGED <<cert, latest, delivered>>
<1>1. cur \in Ops /\ rec[cur].status = "finished" /\ TypeOK
  BY CurIsOp DEF IInv, Noted, OwnedLabels, LabelInv, Ownership, NoteLabels
<1>2. rec' = [rec EXCEPT ![cur].notification =
                 IF pc = "failed" /\ rec[cur].notification = "waived" THEN "waived" ELSE pc]
  BY <1>1 DEF Noted
<1>3. pc \in {"sent", "failed"} /\ pc' \in {"recover", "complete", "idle"} /\ UNCHANGED <<cert, latest, delivered>>
  BY DEF Noted, Return, Goto, Release, history
<1>4. QED
  BY <1>1, <1>2, <1>3, NoteSame

LEMMA PrepareEffect ==
    ASSUME TypeOK, NEW o \in Ops, NEW k, NEW a, Prepare(o, k, a)
    PROVE  /\ rec'[o].status = "none" /\ ~rec'[o].guarded /\ rec'[o].notification = "none"
           /\ \A p \in Ops : p # o => rec'[p] = rec[p]
           /\ Undelivered = {} /\ Running = {}
           /\ pc' = "prepared" /\ latest' = o /\ UNCHANGED <<cert, delivered>>
BY DEF Prepare, JournalAllows, TypeOK, JournalType

(* the actions that are not silent *)
Telling ==
    \/ Journal \/ Start \/ ReadClock \/ Close \/ Deliver \/ Send \/ Noted \/ CompleteEnrollment \/ Waive
    \/ \E o \in Ops : NotifyRetry(o)
    \/ \E o \in Ops, k \in {"change", "enrollment"}, a \in Values : Prepare(o, k, a)

LEMMA TellingOrSilent == TypeOK /\ [Next]_vars => Telling \/ Silent
BY SilentSteps DEF Next, Command, CommandStep, ApplySteps, FinishSteps, UnblockSteps, Telling

(* NotesTrue, EarlierReported and Notifying one by one, for each of them *)
LEMMA NextReports == IInv /\ ReportInv /\ [Next]_vars => ReportInv'
<1> SUFFICES ASSUME IInv, ReportInv, [Next]_vars PROVE ReportInv'
  OBVIOUS
<1>a. TypeOK /\ NotesTrue /\ EarlierReported /\ Notifying
  BY DEF IInv, ReportInv
<1>1. CASE Silent
  BY <1>a, <1>1, SilentReports
<1>2. ASSUME NEW o \in Ops, NEW k, NEW a, Prepare(o, k, a) PROVE ReportInv'
  <2>1. /\ rec'[o].status = "none" /\ rec'[o].notification = "none"
        /\ \A p \in Ops : p # o => rec'[p] = rec[p]
        /\ Undelivered = {} /\ pc' = "prepared" /\ UNCHANGED delivered
    BY <1>a, <1>2, PrepareEffect
  <2>2. NotesTrue'
    BY <1>a, <2>1 DEF NotesTrue
  <2>3. \A p \in Ops : Notifier /\ rec[p].status = "finished" => rec[p].notification \in Reported
    BY <1>a, <2>1 DEF NotesTrue, Undelivered, Reported
  <2>4. EarlierReported'
    BY <2>1, <2>3 DEF EarlierReported
  <2>5. QED
    BY <2>1, <2>2, <2>4 DEF ReportInv, Notifying
<1>3. CASE Journal
  <2>1. NotesTrue'
    BY <1>a, <1>3, JournalEffect DEF NotesTrue
  <2>2. EarlierReported'
    BY <1>a, <1>3, JournalEffect DEF EarlierReported
  <2>3. QED
    BY <1>3, <2>1, <2>2, JournalEffect DEF ReportInv, Notifying
<1>4. CASE Start \/ CompleteEnrollment
  <2>1. UNCHANGED <<rec, delivered>> /\ pc' \in {"clock", "finish", "idle"}
    BY <1>4 DEF Start, CompleteEnrollment, Goto, Finish, Outcome, Release, history
  <2>2. QED
    BY <1>a, <2>1 DEF ReportInv, NotesTrue, EarlierReported, Notifying, Running
<1>5. CASE ReadClock
  <2>1. Running' = Running
    BY <1>5, ClockEffect DEF Running
  <2>2. NotesTrue'
    BY <1>a, <1>5, ClockEffect DEF NotesTrue
  <2>3. EarlierReported'
    BY <1>a, <1>5, <2>1, ClockEffect DEF EarlierReported
  <2>4. QED
    BY <1>5, <2>2, <2>3, ClockEffect DEF ReportInv, Notifying
<1>6. CASE Close
  <2>1. Running' = {}
    BY <1>6, CloseEffect DEF Running
  <2>2. pc' \in {"recover", "idle"} \/ (Notifier /\ pc' = "deliver" /\ cur' = cur)
    BY <1>6 DEF Close, Return, Goto, Release
  <2>3. NotesTrue'
    BY <1>a, <1>6, CloseEffect DEF NotesTrue, UNDELIVERED
  <2>4. EarlierReported'
    BY <2>1, <2>2 DEF EarlierReported
  <2>5. Notifying'
    BY <1>6, <2>2, CloseEffect DEF Notifying
  <2>6. QED
    BY <2>3, <2>4, <2>5 DEF ReportInv
<1>7. CASE Deliver
  <2>1. \A o \in Ops : rec'[o].status = rec[o].status
    BY <1>7, DeliverEffect DEF Same, Kept
  <2>2. Running' = Running
    BY <2>1 DEF Running
  <2>3. rec[cur].notification \in Reported => rec'[cur].notification = rec[cur].notification
    BY <1>7, DeliverEffect DEF Reported, UNDELIVERED
  <2>4. NotesTrue'
    BY <1>a, <1>7, <2>1, DeliverEffect DEF NotesTrue, UNDELIVERED
  <2>5. EarlierReported'
    BY <1>a, <1>7, <2>1, <2>2, <2>3, DeliverEffect DEF EarlierReported
  <2>6. Notifying'
    BY <1>a, <1>7, DeliverEffect DEF Notifying
  <2>7. QED
    BY <2>4, <2>5, <2>6 DEF ReportInv
<1>8. CASE Send
  <2>1. /\ UNCHANGED <<rec, cur>> /\ delivered \subseteq delivered' /\ pc = "send" /\ pc' \in {"sent", "failed"}
        /\ pc' = "sent" => cur \in delivered'
    BY <1>8 DEF Send, Goto, journal
  <2>2. QED
    BY <1>a, <2>1 DEF ReportInv, NotesTrue, EarlierReported, Notifying, Running
<1>9. CASE Noted
  <2>1. \A o \in Ops : rec'[o].status = rec[o].status
    BY <1>9, NotedEffect DEF Same, Kept
  <2>2. Running' = Running
    BY <2>1 DEF Running
  <2>3. rec[cur].notification \in Reported => rec'[cur].notification \in Reported
    BY <1>a, <1>9, NotedEffect DEF Reported, Notifying
  <2>4. NotesTrue'
    BY SMT, <1>a, <1>9, <2>1, NotedEffect DEF NotesTrue, Notifying, UNDELIVERED
  <2>5. EarlierReported'
    BY <1>a, <1>9, <2>1, <2>2, <2>3, NotedEffect DEF EarlierReported
  <2>6. Notifying'
    BY <1>9, NotedEffect DEF Notifying
  <2>7. QED
    BY <2>4, <2>5, <2>6 DEF ReportInv
<1>10. CASE Waive
  <2>1. \A o \in Ops : /\ rec'[o].status = rec[o].status
                       /\ rec'[o].notification = IF o \in Undelivered THEN "waived" ELSE rec[o].notification
    BY <1>a, <1>10, WaiveSame DEF Same, Kept
  <2>2. Running' = Running /\ pc' = "idle" /\ UNCHANGED delivered
    BY <1>10, <2>1 DEF Running, Waive, Release, history
  <2>3. QED
    BY <1>a, <2>1, <2>2 DEF ReportInv, NotesTrue, EarlierReported, Notifying, Reported
<1>11. ASSUME NEW o \in Ops, NotifyRetry(o) PROVE ReportInv'
  <2>1. UNCHANGED <<rec, delivered>> /\ pc' = "deliver" /\ cur' = o /\ Notifier /\ rec[o].notification # "sent"
    BY <1>11 DEF NotifyRetry, journal, history
  <2>2. QED
    BY <1>a, <2>1 DEF ReportInv, NotesTrue, EarlierReported, Notifying, Running
<1>12. QED
  BY <1>a, <1>1, <1>2, <1>3, <1>4, <1>5, <1>6, <1>7, <1>8, <1>9, <1>10, <1>11, TellingOrSilent DEF Telling

(* ReportInv says that a self-test is certified only after its report *)
LEMMA NextCertificate == IInv /\ ReportInv /\ CertInv /\ [Next]_vars => CertInv'
<1> SUFFICES ASSUME IInv, ReportInv, CertInv, [Next]_vars PROVE CertInv'
  OBVIOUS
<1>a. TypeOK /\ LabelInv /\ CertificateVoid /\ Completing /\ CertificateEarned
  BY DEF IInv, CertInv
<1>1. CASE Silent
  BY <1>a, <1>1, SilentCertificate
<1>2. ASSUME NEW o \in Ops, NEW k, NEW a, Prepare(o, k, a) PROVE CertInv'
  <2>1. ~rec'[o].guarded /\ pc' = "prepared" /\ latest' = o
    BY <1>a, <1>2, PrepareEffect
  <2>2. QED
    BY <2>1 DEF CertInv, CertificateVoid, Completing, CertificateEarned, SelfTest
<1>3. CASE Journal
  <2>1. cur = latest /\ ~rec'[cur].guarded /\ pc' = "journaled" /\ UNCHANGED latest
    BY <1>3, JournalEffect
  <2>2. QED
    BY <2>1 DEF CertInv, CertificateVoid, Completing, CertificateEarned, SelfTest
<1>4. CASE Start
  <2>1. /\ UNCHANGED <<rec, latest, delivered, cur>> /\ pc' \in {"clock", "finish"}
        /\ cert' = cert \/ cert' = NoAccounts
        /\ pc' = "clock" => rec[cur].kind = "change" \/ cert' = NoAccounts
    BY <1>4 DEF Start, Goto, Finish, Outcome, history
  <2>2. QED
    BY <1>a, <2>1 DEF CertInv, CertificateVoid, Completing, CertificateEarned, SelfTest
<1>5. CASE ReadClock
  <2>1. rec[cur].kind = "enrollment" => cert = NoAccounts
    BY <1>a, <1>5, ClockEffect DEF CertificateVoid
  <2>2. CertificateVoid'
    BY SMT, <1>a, <1>5, <2>1, ClockEffect DEF CertificateVoid, SelfTest
  <2>3. CertificateEarned'
    BY ZenonT(40), <1>a, <1>5, <2>1, ClockEffect DEF CertificateEarned
  <2>4. QED
    BY <1>5, <2>2, <2>3, ClockEffect DEF CertInv, Completing
<1>6. CASE Close
  <2>1. pc' \in {"recover", "idle"} \/ (pc' = "deliver" /\ UNCHANGED <<cur, mode, out>>)
    BY <1>6 DEF Close, Return, Goto, Release
  <2>2. rec'[cur].kind = "enrollment" /\ rec'[cur].guarded => cert' = NoAccounts
    BY <1>a, <1>6, CloseEffect DEF CertificateVoid, SelfTest
  <2>3. CertificateVoid'
    BY <1>6, <2>1, CloseEffect DEF CertificateVoid
  <2>4. Completing'
    BY <1>6, <2>1, CloseEffect DEF Completing
  <2>5. CertificateEarned'
    BY <1>6, <2>2, CloseEffect DEF CertificateEarned
  <2>6. QED
    BY <2>3, <2>4, <2>5 DEF CertInv
<1>b. ASSUME \A o \in Ops : Same(o), UNCHANGED <<cert, latest>>, delivered \subseteq delivered', pc' # "clock"
      PROVE  CertificateVoid' /\ CertificateEarned'
  <2>1. \A o \in Ops : /\ rec'[o].status = rec[o].status /\ rec'[o].kind = rec[o].kind
                       /\ rec'[o].guarded = rec[o].guarded /\ rec'[o].result = rec[o].result
                       /\ rec'[o].reason = rec[o].reason
    BY <1>b DEF Same, Kept
  <2>2. QED
    BY ZenonT(40), <1>a, <1>b, <2>1 DEF CertificateVoid, CertificateEarned, SelfTest
<1>7. CASE Deliver
  <2>1. rec'[cur].result = rec[cur].result /\ rec'[cur].reason = rec[cur].reason
    BY <1>7, DeliverEffect DEF Same, Kept
  <2>2. Completing'
    BY <1>a, <1>7, <2>1, DeliverEffect DEF Completing
  <2>3. QED
    BY <1>b, <1>7, <2>2, DeliverEffect DEF CertInv
<1>8. CASE Send
  <2>1. /\ UNCHANGED <<rec, cur, mode, out, cert, latest>> /\ delivered \subseteq delivered'
        /\ pc = "send" /\ pc' \in {"sent", "failed"}
    BY <1>8 DEF Send, Goto, journal
  <2>2. Completing'
    BY <1>a, <2>1 DEF Completing
  <2>3. QED
    BY <1>b, <2>1, <2>2 DEF CertInv, Same, Kept
<1>9. CASE Noted
  <2>1. rec'[cur].result = rec[cur].result /\ rec'[cur].reason = rec[cur].reason
    BY <1>9, NotedEffect DEF Same, Kept
  <2>2. ASSUME pc' = "complete"
        PROVE  /\ pc = "sent" /\ mode = "apply" /\ cur' = cur
               /\ out = [result |-> "reverted", reason |-> "enrollment self-test"]
    BY <1>9, <2>2 DEF Noted, Return, Goto, Release
  <2>3. /\ pc' \in {"recover", "complete", "idle"} /\ UNCHANGED <<latest, delivered>>
        /\ pc = "sent" => cur \in delivered
    BY <1>9, NotedEffect DEF ReportInv, Notifying
  <2>4. ASSUME pc' = "complete"
        PROVE  /\ cur = latest /\ cur \in delivered /\ rec[cur].result = "reverted"
               /\ rec[cur].reason = "enrollment self-test"
    <3>1. pc = "sent" /\ mode = "apply" /\ out = [result |-> "reverted", reason |-> "enrollment self-test"]
      BY <2>2, <2>4, Zenon
    <3>2. out.result = "reverted" /\ out.reason = "enrollment self-test"
      BY <3>1
    <3>3. QED
      BY <1>a, <2>3, <3>1, <3>2 DEF Completing
  <2>5. Completing'
    BY <2>1, <2>2, <2>3, <2>4 DEF Completing
  <2>6. QED
    BY <1>b, <1>9, <2>5, NotedEffect DEF CertInv
<1>10. CASE CompleteEnrollment
  <2>1. /\ cur \in Ops /\ cur = latest /\ cur \in delivered /\ rec[cur].status = "finished"
        /\ rec[cur].result = "reverted" /\ rec[cur].reason = "enrollment self-test"
    BY <1>a, <1>10, CurIsOp DEF CompleteEnrollment, OwnedLabels, Completing, Ownership, LabelInv, NoteLabels
  <2>2. UNCHANGED <<rec, latest, delivered>> /\ pc' = "idle"
    BY <1>10 DEF CompleteEnrollment, Release, history
  <2>3. QED
    BY <2>1, <2>2 DEF CertInv, CertificateVoid, Completing, CertificateEarned
<1>11. CASE Waive
  <2>1. (\A o \in Ops : Same(o)) /\ pc' = "idle" /\ UNCHANGED <<cert, latest, delivered>>
    BY <1>a, <1>11, WaiveSame DEF Waive, Release, history
  <2>2. QED
    BY <1>b, <2>1 DEF CertInv, Completing
<1>12. ASSUME NEW o \in Ops, NotifyRetry(o) PROVE CertInv'
  <2>1. UNCHANGED <<rec, cert, latest, delivered>> /\ pc' = "deliver" /\ mode' = "notify"
    BY <1>12 DEF NotifyRetry, journal, history
  <2>2. QED
    BY <1>b, <2>1 DEF CertInv, Completing, Same, Kept
<1>13. QED
  BY <1>a, <1>1, <1>2, <1>3, <1>4, <1>5, <1>6, <1>7, <1>8, <1>9, <1>10, <1>11, <1>12, TellingOrSilent DEF Telling

----------------------------------------------------------------------------
LEMMA InitLeaves == Init => SavedInv /\ ReportInv /\ CertInv
<1> SUFFICES ASSUME Init PROVE SavedInv /\ ReportInv /\ CertInv
  OBVIOUS
<1>1. /\ \A o \in Ops : rec[o].status = "none" /\ rec[o].notification = "none" /\ ~rec[o].guarded
      /\ pc = "idle" /\ latest \notin Ops
  BY ConstantsAssumption DEF Init
<1>2. SavedInv
  BY <1>1 DEF SavedInv, FoundKept, ResultSaved, Unsaved
<1>3. ReportInv
  BY <1>1 DEF ReportInv, NotesTrue, EarlierReported, Notifying, Running
<1>4. CertInv
  BY <1>1 DEF CertInv, CertificateVoid, Completing, CertificateEarned, SelfTest
<1>5. QED
  BY <1>2, <1>3, <1>4

(* On EXOS an outcome recorded without a block survives a reboot: _persist   *)
(* has saved the running configuration, or the save was never needed because *)
(* nothing was changed, whatever crashes and recover runs came between.      *)
THEOREM OutcomeSaved == Spec => []SettledOutcomeSaved
<1>1. SavedInv => SettledOutcomeSaved
  BY DEF SavedInv, ResultSaved, SettledOutcomeSaved
<1>2. QED
  BY <1>1, InitLeaves, NextSaved, Invariance, PTL DEF Spec

(* While an operation runs, every earlier outcome has reached the channel or *)
(* was waived by a person: _prepared refuses while a report is outstanding,  *)
(* and _deliver_notification never takes back what it recorded.              *)
THEOREM OutcomesReported == Spec => []EarlierOutcomesReported
<1>1. ReportInv => EarlierOutcomesReported
  BY DEF ReportInv, NotesTrue, EarlierReported, EarlierOutcomesReported, Reported
<1>2. QED
  BY <1>1, InitLeaves, NextReports, Invariance, PTL DEF Spec

(* An enrollment certificate that outlives the last self-test was earned by  *)
(* it: _apply voids the earlier one before the device is touched, and        *)
(* enrollment.complete runs only after a reverted, reported self-test.       *)
THEOREM CertificateIsEarned == Spec => []CertificateEarned
<1>1. CertInv => CertificateEarned
  BY DEF CertInv
<1>2. QED
  BY <1>1, InitLeaves, NextReports, NextCertificate, Invariance, PTL DEF Spec
============================================================================
