---------------------------- MODULE MCAdmission ----------------------------
(* Two small instances of Admission for TLC, told apart by journal: in one  *)
(* two names of one host key get requests with two bodies and processes may *)
(* die; in the other two devices of their own spend their budgets on bodies *)
(* of one and of two changes while time passes.                             *)
EXTENDS Admission, TLC

CONSTANTS d1, d2, t1, t2, f1, f2, BusyTime

OneTarget  == d1 :> t1 @@ d2 :> t1
OwnTargets == d1 :> t1 @@ d2 :> t2
SingleChanges == f1 :> 1 @@ f2 :> 1
OneAndTwo     == f1 :> 1 @@ f2 :> 2

VARIABLES which, bops, brequest, bdevLock, btgtLock, badmission, bpc, bcall, bnow, banswers, bcrashes

Busy == INSTANCE Admission WITH
    Target <- OwnTargets, Weight <- OneAndTwo, changes_per_day <- 3,
    MaxTime <- BusyTime, MaxCrashes <- 0,
    ops <- bops, request <- brequest, devLock <- bdevLock, tgtLock <- btgtLock,
    admission <- badmission, pc <- bpc, call <- bcall, now <- bnow, answers <- banswers,
    crashes <- bcrashes

busy == <<bops, brequest, bdevLock, btgtLock, badmission, bpc, bcall, bnow, banswers, bcrashes>>

MCInit == which \in {"shared", "busy"} /\ Init /\ Busy!Init
MCNext ==
    \/ which = "shared" /\ Next /\ UNCHANGED <<which, busy>>
    \/ which = "busy" /\ Busy!Next /\ UNCHANGED <<which, vars>>
MCSpec == MCInit /\ [][MCNext]_<<which, vars, busy>>

(* At every moment the changes of the last hour of a device, of the last    *)
(* day and of the whole journal are within their budgets, although several  *)
(* processes are admitted at once (_budgets under the admission lock).      *)
BudgetsKept == BudgetsHold /\ Busy!BudgetsHold

(* Processes, change ids, request ids are compared for equality. *)
Interchangeable == Permutations(Procs) \cup Permutations(Changes) \cup Permutations(Requests)
============================================================================
