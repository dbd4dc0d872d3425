------------------------- MODULE MCOperatorCommands -------------------------
(* Two processes. A server certificate lives for two days and is renewed    *)
(* on its last, a CA lives for four. For each role there are documents that *)
(* differ in their optional part, one of them refused; the queue takes two  *)
(* records.                                                                 *)
EXTENDS OperatorCommands

CONSTANTS p1, p2

D(role, id, part, ok) == [role |-> role, id |-> id, part |-> part, ok |-> ok]
MCDocuments ==
    {D("helper", 1, "none", TRUE), D("helper", 2, "none", FALSE),
     D("admin", 1, "given", TRUE), D("admin", 2, "kept", TRUE),
     D("auditor", 1, "given", TRUE), D("auditor", 2, "none", TRUE),
     D("syslog", 1, "given", TRUE), D("syslog", 2, "given", TRUE), D("syslog", 3, "none", TRUE)}
=============================================================================
