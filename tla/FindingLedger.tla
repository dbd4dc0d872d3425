--------------------------- MODULE FindingLedger ---------------------------
(* What the auditor promises about the findings of a device, without runs,  *)
(* fingerprints or transactions: a ledger of open findings per tenant. An   *)
(* audit replaces the entries of the rules it has evaluated, and its report *)
(* tells, at the moment it is entered, which entries are gone and which     *)
(* findings have been accepted.                                             *)
EXTENDS Naturals

CONSTANTS Tenants, Procs, Findings, Rule, None,
          Audits       \* what an audit can come to

VARIABLES
    open,        \* findings of the last audit of their rule
    accepted,    \* the baseline
    outbox       \* the report of a process that has not been shown yet

vars == <<open, accepted, outbox>>

Init ==
    /\ open \in [Tenants -> SUBSET Findings] /\ accepted \in [Tenants -> SUBSET Findings]
    /\ outbox = [p \in Procs |-> None]

Of(S, evaluated) == {f \in S : Rule[f] \in evaluated}

(* an audit that could not evaluate what it has to (complete is FALSE)      *)
(* changes no entry and declares nothing gone                               *)
Audit(p, t, a, accept) ==
    /\ outbox[p] = None
    /\ accept => a.complete
    /\ outbox' = [outbox EXCEPT ![p] =
          [tenant |-> t,
           new |-> a.found \ accepted[t], known |-> a.found \cap accepted[t],
           gone |-> IF a.complete THEN Of(open[t], a.evaluated) \ a.found ELSE {}]]
    /\ open' = IF a.complete
               THEN [open EXCEPT ![t] = (@ \ Of(@, a.evaluated)) \cup a.found] ELSE open
    /\ accepted' = IF accept THEN [accepted EXCEPT ![t] = @ \cup a.found] ELSE accepted

(* a report is shown, or its process dies before *)
Show(p) == outbox[p] # None /\ outbox' = [outbox EXCEPT ![p] = None] /\ UNCHANGED <<open, accepted>>

Next ==
    \E p \in Procs :
        \/ Show(p)
        \/ /\ outbox[p] = None /\ outbox'[p] # None
           /\ \E t \in Tenants, a \in Audits, accept \in BOOLEAN : Audit(p, t, a, accept)

Spec == Init /\ [][Next]_vars
=============================================================================
