-------------------------- MODULE OperatorCommands --------------------------
(* The commands of an operator on the state of an instance: those about its *)
(* version and certificates (InstanceState), and those about its            *)
(* configuration (Configure). They work on files of their own and exclude   *)
(* each other by instance.lock in the same way, so a behaviour is one of    *)
(* the first or of the second.                                              *)
EXTENDS InstanceState

CONSTANTS Documents, QueueLimit, MaxCuts      \* see Configure

VARIABLES
    subject,     \* what the commands are about
    file, queue, tail, holder, label, job, interrupted, cuts     \* see Configure

Configuration == INSTANCE Configure
                 WITH lock <- holder, pc <- label, ends <- cuts, MaxEnds <- MaxCuts

ASSUME DocumentAssumption == Configuration!configure_limits

configuration == <<file, queue, tail, holder, label, job, interrupted, cuts>>
state == <<subject, vars, configuration>>

(* what the commands are not about is as at first *)
StateInit ==
    /\ Init /\ Configuration!Init
    /\ \/ subject = "certificates" /\ ~Configuration!Syslog
       \/ subject = "configuration" /\ version = "none"

StateNext ==
    \/ subject = "certificates" /\ Next /\ UNCHANGED <<subject, configuration>>
    \/ subject = "configuration" /\ Configuration!Next /\ UNCHANGED <<subject, vars>>

Forward(p) ==
    \/ subject = "certificates" /\ Step(p) /\ UNCHANGED <<subject, configuration>>
    \/ subject = "configuration" /\ Configuration!Step(p) /\ UNCHANGED <<subject, vars>>

(* An operator repeats a command that was cut off: rotates the CA of an     *)
(* instance that does not start, or configures the role again               *)
Again ==
    \/ subject = "certificates" /\ (\E p \in Procs : RotateCa(p)) /\ UNCHANGED <<subject, configuration>>
    \/ subject = "configuration" /\ Configuration!Repeat /\ UNCHANGED <<subject, vars>>

Operate(A) == subject = "configuration" /\ A /\ UNCHANGED <<subject, vars>>

(* Commands run to their end, and what was cut off is repeated. An operator *)
(* recovers the audit, and starts the instance again and again. An instance *)
(* is stopped for other commands, now and then with its queue delivered,    *)
(* which "audit stats" shows.                                               *)
Fairness ==
    /\ \A p \in Procs : WF_state(Forward(p)) /\ WF_state(Operate(Configuration!Stop(p)))
    /\ SF_state(Again)
    /\ SF_state(Operate(queue = 0 /\ \E p \in Procs : Configuration!Stop(p)))
    /\ SF_state(Operate(\E p \in Procs : Configuration!RecoverAudit(p)))
    /\ SF_state(Operate(\E p \in Procs : Configuration!Serve(p)))
    /\ SF_state(Operate(\E p \in Procs : Configuration!Deliver(p)))
StateSpec == StateInit /\ [][StateNext]_state /\ Fairness
----------------------------------------------------------------------------
(* The files of a role fit together, the receiver of syslog and its trust   *)
(* included, but while a command replaces them and after one that was cut   *)
(* off between two replacements, until one is completed: commands never     *)
(* mix, and a document that is refused replaces nothing (configure,         *)
(* configure_auditor, configure_syslog). And what an instance or a command  *)
(* of a role has read stays true until it ends (acquire_state).             *)
OneDocument == Configuration!OneDocument /\ Configuration!ReadStaysTrue

(* A process was killed between linking server.key and removing the name it *)
(* was linked from: every rotation fails at the copy of it (check_regular), *)
(* and nothing but a hand removes the name.                                 *)
KeyUnreadable == twoNames /\ \A p \in Procs : pc[p] \notin {"init_unlink", "rotate_unlink"}

(* An interrupted rotation of the CA can be completed by another one,       *)
(* unless it was killed while its new server.key had two names; and a       *)
(* configuration that was cut off always can, also when it left a receiver  *)
(* and a CA that do not fit, nothing was delivered since, and the full      *)
(* queue refuses every other command.                                       *)
InterruptedRecovers ==
    /\ (version = "new" /\ ~Consistent) ~> (Consistent \/ KeyUnreadable)
    /\ (interrupted # {}) ~> (interrupted = {})
=============================================================================
