----------------------- MODULE RequestBoundaryProofs -----------------------
(***************************************************************************)
(* Proofs about RequestBoundary, for any number of requests, slots, token  *)
(* rotations and failed records: what the audit says of a request is       *)
(* complete, and a client told that nothing was executed can rely on it.   *)
(***************************************************************************)
EXTENDS RequestBoundary, FiniteSetTheorems, TLAPS

(* Zenon is the default prover; a leaf with arithmetic cites SMT. *)
USE Zenon

(* labels before the dispatch, and labels that only a recorded request has *)
Undispatched == {"new", "large", "slot", "admitcancel1", "admitcancel2", "out", "body", "bodycancel1",
                 "bodycancel2", "bodyrecord", "bodygone", "refuse", "request", "gate", "early",
                 "replyearly", "probe", "gone1", "gone2"}
Accepted == {"gate", "early", "replyearly", "probe", "gone1", "gone2", "app", "failed1", "failed2",
             "withheld", "response", "end", "send", "replyfailed", "replywithheld"}
Waiters == {"large", "slot", "admitcancel1", "admitcancel2"}

(* the flag of handle says whether the role may have the request *)
FlagTrue(r) ==
    /\ pc[r] \in Undispatched => ~dispatched[r]
    /\ pc[r] = "app" => dispatched[r]
    /\ phase # "dead" /\ pc[r] # "done" /\ ~dispatched[r] => work[r] = "none"

(* the record of the request comes before everything else *)
RequestRecorded(r) ==
    /\ pc[r] \in Accepted \/ work[r] # "none" => <<r, "request">> \in log
    /\ r \in executed => work[r] # "none"

(* the records of a result come before it is sent *)
ResultRecorded(r) ==
    /\ pc[r] \in {"end", "send"} \/ told[r].kind = "result" => <<r, "response">> \in log
    /\ pc[r] = "send" \/ told[r].kind = "result" => <<r, "connection_end">> \in log

(* how a request the role may have is accounted for *)
Outcome(r) == \E dir \in {"response", "response_withheld", "interrupted"} : <<r, dir>> \in log
OutcomeRecorded(r) ==
    /\ pc[r] = "unavailable" => r \in trouble
    /\ pc[r] \in {"failed2", "replyfailed", "replywithheld", "end", "send", "interrupt2"} =>
          r \in trouble \/ Outcome(r)
    /\ pc[r] \in {"leave", "done"} /\ work[r] # "none" => r \in trouble \/ Outcome(r)

(* "nothing was executed" is the last word of a task without a dispatch *)
ComfortTrue(r) ==
    told[r].may = "no" => work[r] = "none" /\ (pc[r] \in {"leave", "done"} \/ phase = "dead")

RequestInv(r) == /\ FlagTrue(r) /\ RequestRecorded(r) /\ ResultRecorded(r)
                 /\ OutcomeRecorded(r) /\ ComfortTrue(r)

(* every unit of the semaphore is free, held by one task or by lifespan, *)
(* and waiting counts the tasks in _admit                                *)
At(labels) == {r \in Requests : pc[r] \in labels}
Counting ==
    /\ IsFiniteSet(At(Holding)) /\ slots + took + Cardinality(At(Holding)) = MAX_CONCURRENT_REQUESTS
    /\ IsFiniteSet(At(Waiters)) /\ waiting = Cardinality(At(Waiters))

IInv == TypeOK /\ Counting /\ StopIsLast /\ \A r \in Requests : RequestInv(r)

----------------------------------------------------------------------------
Labels == Admitting \cup Holding \cup {"new", "done"}

(* nothing a step does to r is seen by another request *)
Elsewhere(r) ==
    \A q \in Requests : q # r =>
        /\ pc'[q] = pc[q] /\ dispatched'[q] = dispatched[q]
        /\ work'[q] = work[q] /\ told'[q] = told[q]
        /\ q \in executed' <=> q \in executed
        /\ q \in trouble => q \in trouble'
        /\ \A dir : <<q, dir>> \in log <=> <<q, dir>> \in log'

LEMMA OthersKeep ==
    ASSUME NEW r \in Requests, Elsewhere(r), phase' = phase, \A q \in Requests : RequestInv(q),
           RequestInv(r)'
    PROVE  (\A q \in Requests : RequestInv(q))'
<1> SUFFICES ASSUME NEW q \in Requests, q # r PROVE RequestInv(q)'
  OBVIOUS
<1>1. /\ pc'[q] = pc[q] /\ dispatched'[q] = dispatched[q]
      /\ work'[q] = work[q] /\ told'[q] = told[q]
      /\ q \in executed' <=> q \in executed
      /\ q \in trouble => q \in trouble'
      /\ \A dir : <<q, dir>> \in log <=> <<q, dir>> \in log'
  BY DEF Elsewhere
<1>2. RequestInv(q)
  OBVIOUS
<1>3. FlagTrue(q)' /\ ComfortTrue(q)'
  BY <1>1, <1>2 DEF RequestInv, FlagTrue, ComfortTrue
<1>4. RequestRecorded(q)' /\ ResultRecorded(q)'
  BY <1>1, <1>2 DEF RequestInv, RequestRecorded, ResultRecorded
<1>5. OutcomeRecorded(q)'
  BY <1>1, <1>2 DEF RequestInv, OutcomeRecorded, Outcome
<1>6. QED
  BY <1>3, <1>4, <1>5 DEF RequestInv

(* a task that neither takes nor gives back anything *)
LEMMA CountsKept ==
    ASSUME Counting, NEW r \in Requests, NEW label,
           pc \in [Requests -> Labels], pc' = [pc EXCEPT ![r] = label],
           pc[r] \in Holding <=> label \in Holding, pc[r] \in Waiters <=> label \in Waiters,
           UNCHANGED <<slots, took, waiting>>
    PROVE  Counting'
<1>1. At(Holding)' = At(Holding) /\ At(Waiters)' = At(Waiters)
  BY DEF At
<1>2. QED
  BY <1>1 DEF Counting

(* a record is durable, or the request is in trouble *)
LEMMA RecordEffect ==
    ASSUME TypeOK, NEW r \in Requests, NEW dir \in Directions, NEW next, NEW failed, NEW cancelled,
           Record(r, dir, next, failed, cancelled)
    PROVE  /\ \/ /\ pc' = [pc EXCEPT ![r] = next] \/ pc' = [pc EXCEPT ![r] = cancelled]
                 /\ log' = log \cup {<<r, dir>>} /\ trouble' = trouble
              \/ /\ pc' = [pc EXCEPT ![r] = failed]
                 /\ log' = log /\ trouble' = trouble \cup {r}
           /\ cancel' \in [Requests -> BOOLEAN] /\ failures' \in Nat
           /\ log' \subseteq Requests \X Directions /\ trouble' \subseteq Requests
           /\ UNCHANGED <<token, phase, took, work, seen, told, executed>>
<1>1. CASE /\ log' = log \cup {<<r, dir>>}
           /\ (Goto(r, next) /\ UNCHANGED cancel) \/ Cancelled(r, cancelled)
           /\ UNCHANGED <<trouble, failures>>
  <2>1. pc' = [pc EXCEPT ![r] = next] \/ pc' = [pc EXCEPT ![r] = cancelled]
    BY <1>1 DEF Goto, Cancelled
  <2>2. cancel' \in [Requests -> BOOLEAN]
    BY <1>1 DEF Cancelled, TypeOK
  <2>3. log' \subseteq Requests \X Directions
    BY SMT, <1>1 DEF TypeOK
  <2>4. QED
    BY <1>1, <2>1, <2>2, <2>3 DEF Record, TypeOK, server
<1>2. CASE /\ failures' = failures + 1 /\ trouble' = trouble \cup {r} /\ UNCHANGED log
           /\ (Goto(r, failed) /\ UNCHANGED cancel) \/ Cancelled(r, failed)
  <2>1. pc' = [pc EXCEPT ![r] = failed] /\ cancel' \in [Requests -> BOOLEAN]
    BY <1>2 DEF Goto, Cancelled, TypeOK
  <2>2. QED
    BY SMT, <1>2, <2>1 DEF Record, TypeOK, server
<1>3. QED
  BY <1>1, <1>2 DEF Record

(* a task at work, or waiting in _admit, goes on to another such label *)
LEMMA Placed ==
    ASSUME IInv, Alive, NEW r \in Requests, NEW label,
           \/ pc[r] \in Holding /\ label \in Holding
           \/ pc[r] \in Waiters /\ label \in Waiters,
           pc' = [pc EXCEPT ![r] = label], UNCHANGED <<slots, took, waiting, phase>>
    PROVE  Counting' /\ StopIsLast' /\ pc' \in [Requests -> Labels]
<1>1. TypeOK /\ Counting /\ StopIsLast
  BY DEF IInv
<1>2. pc \in [Requests -> Labels]
  BY <1>1 DEF TypeOK, Labels
<1>3. label \in Labels /\ pc' \in [Requests -> Labels]
  BY <1>2 DEF Labels, Waiters, Admitting
<1>4. \/ pc[r] \in Holding /\ pc[r] \notin Waiters /\ label \in Holding /\ label \notin Waiters
      \/ pc[r] \notin Holding /\ pc[r] \in Waiters /\ label \notin Holding /\ label \in Waiters
  BY DEF Holding, Waiters
<1>5. Counting'
  BY <1>1, <1>2, <1>4, CountsKept
<1>6. StopIsLast'
  BY <1>1 DEF StopIsLast, Alive, Holding, Waiters
<1>7. QED
  BY <1>3, <1>5, <1>6

(* what a record leaves to be shown of the request itself *)
LEMMA RecordKeeps ==
    ASSUME IInv, Alive, NEW r \in Requests, NEW dir \in Directions,
           NEW next, NEW failed, NEW cancelled, Record(r, dir, next, failed, cancelled),
           \/ pc[r] \in Holding /\ {next, failed, cancelled} \subseteq Holding
           \/ pc[r] \in Waiters /\ {next, failed, cancelled} \subseteq Waiters,
           UNCHANGED <<semaphores, dispatched>>
    PROVE  TypeOK' /\ Counting' /\ StopIsLast' /\ Elsewhere(r) /\ phase' = phase
<1>1. TypeOK
  BY DEF IInv
<1>2. PICK label : /\ pc' = [pc EXCEPT ![r] = label]
                   /\ \/ pc[r] \in Holding /\ label \in Holding
                      \/ pc[r] \in Waiters /\ label \in Waiters
  BY SMT, <1>1, RecordEffect
<1>3. /\ cancel' \in [Requests -> BOOLEAN] /\ failures' \in Nat
      /\ log' \subseteq Requests \X Directions /\ trouble' \subseteq Requests
      /\ UNCHANGED <<token, phase, took, work, seen, told, executed, semaphores, dispatched>>
  BY <1>1, RecordEffect
<1>4. Counting' /\ StopIsLast' /\ pc' \in [Requests -> Labels]
  BY <1>2, <1>3, Placed DEF semaphores
<1>5. TypeOK'
  BY <1>1, <1>3, <1>4 DEF TypeOK, Labels, semaphores
<1>6. Elsewhere(r)
  <2>1. log' = log \/ log' = log \cup {<<r, dir>>}
    BY <1>1, RecordEffect
  <2>2. trouble \subseteq trouble'
    BY <1>1, RecordEffect
  <2>3. pc \in [Requests -> Labels]
    BY <1>1 DEF TypeOK, Labels
  <2>4. QED
    BY SMT, <1>2, <1>3, <2>1, <2>2, <2>3 DEF Elsewhere
<1>7. QED
  BY <1>3, <1>4, <1>5, <1>6

(* a step of one request: its own invariant is all that is left to show *)
LEMMA OwnStep ==
    ASSUME IInv, NEW r \in Requests, TypeOK', Counting', StopIsLast', Elsewhere(r), phase' = phase,
           RequestInv(r)'
    PROVE  IInv'
BY OthersKeep DEF IInv

(* the actions that are nothing but a record *)
Recording(r) == \/ AdmissionCancelled(r) \/ BodyCancelled(r) \/ BodyRejected(r) \/ RecordRequest(r)
                \/ RecordAnswer(r) \/ RecordResult(r) \/ Interrupt(r)

LEMMA RecordingKeeps ==
    ASSUME IInv, Alive, NEW r \in Requests, Recording(r)
    PROVE  IInv'
<1> USE DEF RequestInv, FlagTrue, RequestRecorded, ResultRecorded, OutcomeRecorded, Outcome,
        ComfortTrue, Undispatched, Accepted
<1>a. TypeOK /\ RequestInv(r)
  BY DEF IInv
<1>b. UNCHANGED <<semaphores, dispatched>>
  BY DEF Recording, AdmissionCancelled, BodyCancelled, BodyRejected, RecordRequest, RecordAnswer,
    RecordResult, Interrupt
<1>c. /\ "request" \in Directions /\ "response" \in Directions /\ "response_withheld" \in Directions
      /\ "interrupted" \in Directions /\ "connection_end" \in Directions
      /\ "client_disconnect" \in Directions /\ "rejection" \in Directions
      /\ "request_body_cancelled" \in Directions /\ "admission_cancelled" \in Directions
  BY DEF Directions
<1>1. CASE pc[r] = "admitcancel1" /\ Record(r, "admission_cancelled", "admitcancel2", "admitcancel2", "admitcancel2")
  <2>1. RequestInv(r)'
    BY SMT, <1>a, <1>b, <1>c, <1>1, RecordEffect DEF TypeOK, Alive
  <2>2. QED
    BY <1>b, <1>c, <1>1, <2>1, RecordKeeps, OwnStep DEF Waiters
<1>2. CASE pc[r] = "bodycancel1" /\ Record(r, "request_body_cancelled", "bodycancel2", "bodycancel2", "bodycancel2")
  <2>1. RequestInv(r)'
    BY SMT, <1>a, <1>b, <1>c, <1>2, RecordEffect DEF TypeOK, Alive
  <2>2. QED
    BY <1>b, <1>c, <1>2, <2>1, RecordKeeps, OwnStep DEF Holding
<1>3. CASE pc[r] = "bodycancel2" /\ Record(r, "connection_end", "leave", "leave", "leave")
  <2>1. RequestInv(r)'
    BY SMT, <1>a, <1>b, <1>c, <1>3, RecordEffect DEF TypeOK, Alive
  <2>2. QED
    BY <1>b, <1>c, <1>3, <2>1, RecordKeeps, OwnStep DEF Holding
<1>4. CASE pc[r] = "bodyrecord" /\ Record(r, "rejection", "refuse", "unavailable", "leave")
  <2>1. RequestInv(r)'
    BY SMT, <1>a, <1>b, <1>c, <1>4, RecordEffect DEF TypeOK, Alive
  <2>2. QED
    BY <1>b, <1>c, <1>4, <2>1, RecordKeeps, OwnStep DEF Holding
<1>5. CASE pc[r] = "bodygone" /\ Record(r, "client_disconnect", "leave", "unavailable", "leave")
  <2>1. RequestInv(r)'
    BY SMT, <1>a, <1>b, <1>c, <1>5, RecordEffect DEF TypeOK, Alive
  <2>2. QED
    BY <1>b, <1>c, <1>5, <2>1, RecordKeeps, OwnStep DEF Holding
<1>6. CASE pc[r] = "request" /\ Record(r, "request", "gate", "unavailable", "interrupt1")
  <2>1. RequestInv(r)'
    BY SMT, <1>a, <1>b, <1>c, <1>6, RecordEffect DEF TypeOK, Alive
  <2>2. QED
    BY <1>b, <1>c, <1>6, <2>1, RecordKeeps, OwnStep DEF Holding
<1>7. CASE pc[r] = "early" /\ Record(r, "response", "replyearly", "unavailable", "interrupt1")
  <2>1. RequestInv(r)'
    BY SMT, <1>a, <1>b, <1>c, <1>7, RecordEffect DEF TypeOK, Alive
  <2>2. QED
    BY <1>b, <1>c, <1>7, <2>1, RecordKeeps, OwnStep DEF Holding
<1>8. CASE pc[r] = "gone1" /\ Record(r, "client_disconnect", "gone2", "unavailable", "interrupt1")
  <2>1. RequestInv(r)'
    BY SMT, <1>a, <1>b, <1>c, <1>8, RecordEffect DEF TypeOK, Alive
  <2>2. QED
    BY <1>b, <1>c, <1>8, <2>1, RecordKeeps, OwnStep DEF Holding
<1>9. CASE pc[r] = "gone2" /\ Record(r, "connection_end", "leave", "unavailable", "interrupt1")
  <2>1. RequestInv(r)'
    BY SMT, <1>a, <1>b, <1>c, <1>9, RecordEffect DEF TypeOK, Alive
  <2>2. QED
    BY <1>b, <1>c, <1>9, <2>1, RecordKeeps, OwnStep DEF Holding
<1>10. CASE pc[r] = "failed1" /\ Record(r, "interrupted", "failed2", "unavailable", "interrupt1")
  <2>1. RequestInv(r)'
    BY SMT, <1>a, <1>b, <1>c, <1>10, RecordEffect DEF TypeOK, Alive
  <2>2. QED
    BY <1>b, <1>c, <1>10, <2>1, RecordKeeps, OwnStep DEF Holding
<1>11. CASE pc[r] = "failed2" /\ Record(r, "response", "replyfailed", "unavailable", "interrupt1")
  <2>1. RequestInv(r)'
    BY SMT, <1>a, <1>b, <1>c, <1>11, RecordEffect DEF TypeOK, Alive
  <2>2. QED
    BY <1>b, <1>c, <1>11, <2>1, RecordKeeps, OwnStep DEF Holding
<1>12. CASE pc[r] = "withheld" /\ Record(r, "response_withheld", "replywithheld", "unavailable", "interrupt1")
  <2>1. RequestInv(r)'
    BY SMT, <1>a, <1>b, <1>c, <1>12, RecordEffect DEF TypeOK, Alive
  <2>2. QED
    BY <1>b, <1>c, <1>12, <2>1, RecordKeeps, OwnStep DEF Holding
<1>13. CASE pc[r] = "response" /\ Record(r, "response", "end", "unavailable", "interrupt1")
  <2>1. RequestInv(r)'
    BY SMT, <1>a, <1>b, <1>c, <1>13, RecordEffect DEF TypeOK, Alive
  <2>2. QED
    BY <1>b, <1>c, <1>13, <2>1, RecordKeeps, OwnStep DEF Holding
<1>14. CASE pc[r] = "end" /\ Record(r, "connection_end", "send", "unavailable", "interrupt1")
  <2>1. RequestInv(r)'
    BY SMT, <1>a, <1>b, <1>c, <1>14, RecordEffect DEF TypeOK, Alive
  <2>2. QED
    BY <1>b, <1>c, <1>14, <2>1, RecordKeeps, OwnStep DEF Holding
<1>15. CASE pc[r] = "interrupt1" /\ Record(r, "interrupted", "interrupt2", "interrupt2", "interrupt2")
  <2>1. RequestInv(r)'
    BY SMT, <1>a, <1>b, <1>c, <1>15, RecordEffect DEF TypeOK, Alive
  <2>2. QED
    BY <1>b, <1>c, <1>15, <2>1, RecordKeeps, OwnStep DEF Holding
<1>16. CASE pc[r] = "interrupt2" /\ Record(r, "connection_end", "leave", "leave", "leave")
  <2>1. RequestInv(r)'
    BY SMT, <1>a, <1>b, <1>c, <1>16, RecordEffect DEF TypeOK, Alive
  <2>2. QED
    BY <1>b, <1>c, <1>16, <2>1, RecordKeeps, OwnStep DEF Holding
<1>17. QED
  BY <1>1, <1>2, <1>3, <1>4, <1>5, <1>6, <1>7, <1>8,
    <1>9, <1>10, <1>11, <1>12, <1>13, <1>14, <1>15, <1>16
    DEF Recording, AdmissionCancelled, BodyCancelled, BodyRejected, RecordRequest, RecordAnswer,
    RecordResult, Interrupt

LEMMA ReadBodyKeeps ==
    ASSUME IInv, Alive, NEW r \in Requests, ReadBody(r)
    PROVE  IInv'
<1> USE DEF ReadBody, Goto, semaphores, server, history
<1>1. TypeOK /\ RequestInv(r)
  BY DEF IInv
<1>2. /\ pc[r] = "body" /\ UNCHANGED <<slots, took, waiting, phase>>
      /\ \E label \in {"request", "refuse", "bodyrecord", "bodygone"} : pc' = [pc EXCEPT ![r] = label]
  OBVIOUS
<1>3. Counting' /\ StopIsLast' /\ pc' \in [Requests -> Labels]
  BY <1>2, Placed DEF Holding
<1>4. TypeOK'
  BY <1>1, <1>3 DEF TypeOK, Labels
<1>5. Elsewhere(r)
  BY <1>1 DEF TypeOK, Elsewhere
<1>6. RequestInv(r)'
  BY SMT, <1>1 DEF TypeOK, Alive, RequestInv, FlagTrue, RequestRecorded, ResultRecorded,
    OutcomeRecorded, Outcome, ComfortTrue, Undispatched, Accepted
<1>7. QED
  BY <1>2, <1>3, <1>4, <1>5, <1>6, OwnStep

LEMMA CancelBodyKeeps ==
    ASSUME IInv, Alive, NEW r \in Requests, CancelBody(r)
    PROVE  IInv'
<1> USE DEF CancelBody, Cancelled, Goto, semaphores, server, history
<1>1. TypeOK /\ RequestInv(r)
  BY DEF IInv
<1>2. /\ pc[r] = "body" /\ UNCHANGED <<slots, took, waiting, phase>>
      /\ \E label \in {"bodycancel1"} : pc' = [pc EXCEPT ![r] = label]
  OBVIOUS
<1>3. Counting' /\ StopIsLast' /\ pc' \in [Requests -> Labels]
  BY <1>2, Placed DEF Holding
<1>4. TypeOK'
  BY <1>1, <1>3 DEF TypeOK, Labels
<1>5. Elsewhere(r)
  BY <1>1 DEF TypeOK, Elsewhere
<1>6. RequestInv(r)'
  BY <1>1 DEF TypeOK, Alive, RequestInv, FlagTrue, RequestRecorded, ResultRecorded,
    OutcomeRecorded, Outcome, ComfortTrue, Undispatched, Accepted
<1>7. QED
  BY <1>2, <1>3, <1>4, <1>5, <1>6, OwnStep

LEMMA RefuseKeeps ==
    ASSUME IInv, Alive, NEW r \in Requests, Refuse(r)
    PROVE  IInv'
<1> USE DEF Refuse, Cancelled, Goto, Tell, semaphores, server, history
<1>1. TypeOK /\ RequestInv(r)
  BY DEF IInv
<1>2. /\ pc[r] = "refuse" /\ UNCHANGED <<slots, took, waiting, phase>>
      /\ \E label \in {"leave"} : pc' = [pc EXCEPT ![r] = label]
  OBVIOUS
<1>3. Counting' /\ StopIsLast' /\ pc' \in [Requests -> Labels]
  BY <1>2, Placed DEF Holding
<1>4. TypeOK'
  <2>1. told' \in [Requests -> Answers]
    BY SMT, <1>1 DEF TypeOK, Answers
  <2>2. cancel' \in [Requests -> BOOLEAN]
    BY <1>1 DEF TypeOK
  <2>3. QED
    BY <1>1, <1>3, <2>1, <2>2 DEF TypeOK, Labels
<1>5. Elsewhere(r)
  BY <1>1 DEF TypeOK, Elsewhere
<1>6. RequestInv(r)'
  BY SMT, <1>1 DEF TypeOK, Alive, RequestInv, FlagTrue, RequestRecorded, ResultRecorded,
    OutcomeRecorded, Outcome, ComfortTrue, Undispatched, Accepted
<1>7. QED
  BY <1>2, <1>3, <1>4, <1>5, <1>6, OwnStep

LEMMA GateKeeps ==
    ASSUME IInv, Alive, NEW r \in Requests, Gate(r)
    PROVE  IInv'
<1> USE DEF Gate, Dispatch, Goto, semaphores, server, history
<1>1. TypeOK /\ RequestInv(r)
  BY DEF IInv
<1>2. /\ pc[r] = "gate" /\ UNCHANGED <<slots, took, waiting, phase>>
      /\ \E label \in {"early", "probe", "app"} : pc' = [pc EXCEPT ![r] = label]
  OBVIOUS
<1>3. Counting' /\ StopIsLast' /\ pc' \in [Requests -> Labels]
  BY <1>2, Placed DEF Holding
<1>4. TypeOK'
  BY <1>1, <1>3 DEF TypeOK, Labels
<1>5. Elsewhere(r)
  BY <1>1 DEF TypeOK, Elsewhere
<1>6. RequestInv(r)'
  BY SMT, <1>1 DEF TypeOK, Alive, RequestInv, FlagTrue, RequestRecorded, ResultRecorded,
    OutcomeRecorded, Outcome, ComfortTrue, Undispatched, Accepted
<1>7. QED
  BY <1>2, <1>3, <1>4, <1>5, <1>6, OwnStep

LEMMA ProbeKeeps ==
    ASSUME IInv, Alive, NEW r \in Requests, Probe(r)
    PROVE  IInv'
<1> USE DEF Probe, Dispatch, Cancelled, Goto, semaphores, server, history
<1>1. TypeOK /\ RequestInv(r)
  BY DEF IInv
<1>2. /\ pc[r] = "probe" /\ UNCHANGED <<slots, took, waiting, phase>>
      /\ \E label \in {"app", "gone1", "interrupt1"} : pc' = [pc EXCEPT ![r] = label]
  OBVIOUS
<1>3. Counting' /\ StopIsLast' /\ pc' \in [Requests -> Labels]
  BY <1>2, Placed DEF Holding
<1>4. TypeOK'
  BY <1>1, <1>3 DEF TypeOK, Labels
<1>5. Elsewhere(r)
  BY <1>1 DEF TypeOK, Elsewhere
<1>6. RequestInv(r)'
  BY SMT, <1>1 DEF TypeOK, Alive, RequestInv, FlagTrue, RequestRecorded, ResultRecorded,
    OutcomeRecorded, Outcome, ComfortTrue, Undispatched, Accepted
<1>7. QED
  BY <1>2, <1>3, <1>4, <1>5, <1>6, OwnStep

LEMMA ReturnKeeps ==
    ASSUME IInv, Alive, NEW r \in Requests, Return(r)
    PROVE  IInv'
<1> USE DEF Return, Goto, semaphores, server, history
<1>1. TypeOK /\ RequestInv(r)
  BY DEF IInv
<1>2. /\ pc[r] = "app" /\ UNCHANGED <<slots, took, waiting, phase>>
      /\ \E label \in {"response", "withheld", "unavailable", "failed1"} : pc' = [pc EXCEPT ![r] = label]
  OBVIOUS
<1>3. Counting' /\ StopIsLast' /\ pc' \in [Requests -> Labels]
  BY <1>2, Placed DEF Holding
<1>4. TypeOK'
  BY <1>1, <1>3 DEF TypeOK, Labels
<1>5. Elsewhere(r)
  BY <1>1 DEF TypeOK, Elsewhere
<1>6. RequestInv(r)'
  BY SMT, <1>1 DEF TypeOK, Alive, RequestInv, FlagTrue, RequestRecorded, ResultRecorded,
    OutcomeRecorded, Outcome, ComfortTrue, Undispatched, Accepted
<1>7. QED
  BY <1>2, <1>3, <1>4, <1>5, <1>6, OwnStep

LEMMA CancelCallKeeps ==
    ASSUME IInv, Alive, NEW r \in Requests, CancelCall(r)
    PROVE  IInv'
<1> USE DEF CancelCall, Cancelled, Goto, semaphores, server, history
<1>1. TypeOK /\ RequestInv(r)
  BY DEF IInv
<1>2. /\ pc[r] = "app" /\ UNCHANGED <<slots, took, waiting, phase>>
      /\ \E label \in {"interrupt1"} : pc' = [pc EXCEPT ![r] = label]
  OBVIOUS
<1>3. Counting' /\ StopIsLast' /\ pc' \in [Requests -> Labels]
  BY <1>2, Placed DEF Holding
<1>4. TypeOK'
  BY <1>1, <1>3 DEF TypeOK, Labels
<1>5. Elsewhere(r)
  BY <1>1 DEF TypeOK, Elsewhere
<1>6. RequestInv(r)'
  BY <1>1 DEF TypeOK, Alive, RequestInv, FlagTrue, RequestRecorded, ResultRecorded,
    OutcomeRecorded, Outcome, ComfortTrue, Undispatched, Accepted
<1>7. QED
  BY <1>2, <1>3, <1>4, <1>5, <1>6, OwnStep

LEMMA UnavailableKeeps ==
    ASSUME IInv, Alive, NEW r \in Requests, Unavailable(r)
    PROVE  IInv'
<1> USE DEF Unavailable, Cancelled, Goto, Tell, semaphores, server, history
<1>1. TypeOK /\ RequestInv(r)
  BY DEF IInv
<1>2. /\ pc[r] = "unavailable" /\ UNCHANGED <<slots, took, waiting, phase>>
      /\ \E label \in {"leave"} : pc' = [pc EXCEPT ![r] = label]
  OBVIOUS
<1>3. Counting' /\ StopIsLast' /\ pc' \in [Requests -> Labels]
  BY <1>2, Placed DEF Holding
<1>4. TypeOK'
  <2>1. told' \in [Requests -> Answers]
    BY SMT, <1>1 DEF TypeOK, Answers
  <2>2. cancel' \in [Requests -> BOOLEAN]
    BY <1>1 DEF TypeOK
  <2>3. QED
    BY <1>1, <1>3, <2>1, <2>2 DEF TypeOK, Labels
<1>5. Elsewhere(r)
  BY <1>1 DEF TypeOK, Elsewhere
<1>6. RequestInv(r)'
  BY SMT, <1>1 DEF TypeOK, Alive, RequestInv, FlagTrue, RequestRecorded, ResultRecorded,
    OutcomeRecorded, Outcome, ComfortTrue, Undispatched, Accepted
<1>7. QED
  BY <1>2, <1>3, <1>4, <1>5, <1>6, OwnStep

LEMMA SendKeeps ==
    ASSUME IInv, Alive, NEW r \in Requests, Send(r)
    PROVE  IInv'
<1> USE DEF Send, Sending, Cancelled, Goto, semaphores, server, history
<1>1. TypeOK /\ RequestInv(r)
  BY DEF IInv
<1>2. /\ pc[r] \in Sending /\ UNCHANGED <<slots, took, waiting, phase>>
      /\ \E label \in {"leave", "interrupt1"} : pc' = [pc EXCEPT ![r] = label]
  OBVIOUS
<1>3. Counting' /\ StopIsLast' /\ pc' \in [Requests -> Labels]
  BY <1>2, Placed DEF Holding
<1>4. /\ \A q \in Requests : q # r => told'[q] = told[q]
      /\ told' \in [Requests -> Answers]
      /\ told'[r].may = "no" => told[r].may = "no"
      /\ told'[r].kind = "result" => told[r].kind = "result" \/ pc[r] = "send"
  <2>1. CASE UNCHANGED told
    BY <1>1, <2>1 DEF TypeOK
  <2>2. ASSUME NEW kind \in {"early", "failed", "withheld", "result"}, NEW may \in {"silent", "yes"},
               Tell(r, kind, may), kind = "result" => pc[r] = "send"
        PROVE  <1>4!:
    <3>1. [kind |-> kind, may |-> may] \in Answers
      BY DEF Answers
    <3>2. QED
      BY <1>1, <2>2, <3>1 DEF TypeOK, Tell
  <2>3. QED
    BY <2>1, <2>2 DEF Sent
<1>5. TypeOK'
  <2>1. cancel' \in [Requests -> BOOLEAN]
    BY <1>1 DEF TypeOK
  <2>2. QED
    BY <1>1, <1>3, <1>4, <2>1 DEF TypeOK, Labels
<1>6. Elsewhere(r)
  BY <1>1, <1>4 DEF TypeOK, Elsewhere
<1>7. RequestInv(r)'
  BY SMT, <1>1, <1>4 DEF TypeOK, Alive, RequestInv, FlagTrue, RequestRecorded, ResultRecorded,
    OutcomeRecorded, Outcome, ComfortTrue, Undispatched, Accepted
<1>8. QED
  BY <1>2, <1>3, <1>5, <1>6, <1>7, OwnStep

LEMMA CallKeeps ==
    ASSUME IInv, Alive, NEW r \in Requests, Call(r)
    PROVE  IInv'
<1> USE DEF Call, semaphores, server, history
<1>1. TypeOK /\ RequestInv(r)
  BY DEF IInv
<1>2. TypeOK' /\ phase' = phase
  BY <1>1 DEF TypeOK
<1>3. Counting' /\ StopIsLast'
  BY DEF IInv, Counting, StopIsLast, At
<1>4. Elsewhere(r)
  BY <1>1 DEF TypeOK, Elsewhere
<1>5. RequestInv(r)'
  BY <1>1 DEF TypeOK, Alive, RequestInv, FlagTrue, RequestRecorded, ResultRecorded,
    OutcomeRecorded, Outcome, ComfortTrue, Undispatched, Accepted
<1>6. QED
  BY <1>2, <1>3, <1>4, <1>5, OwnStep

(* _admit: the semaphore for large requests *)
LEMMA LargeKeeps ==
    ASSUME IInv, Alive, NEW r \in Requests, AcquireLarge(r) \/ CancelAdmission(r)
    PROVE  IInv'
<1> USE DEF AcquireLarge, CancelAdmission, Cancelled, Goto, semaphores, server, history
<1>1. TypeOK /\ RequestInv(r)
  BY DEF IInv
<1>2. /\ pc[r] \in {"large", "slot"} /\ UNCHANGED <<slots, took, waiting, phase>>
      /\ \E label \in {"slot", "admitcancel1"} : pc' = [pc EXCEPT ![r] = label]
  OBVIOUS
<1>3. Counting' /\ StopIsLast' /\ pc' \in [Requests -> Labels]
  BY <1>2, Placed DEF Waiters
<1>4. TypeOK'
  <2>1. cancel' \in [Requests -> BOOLEAN]
    BY <1>1 DEF TypeOK
  <2>2. large' \in Requests \cup {None}
    BY <1>1 DEF TypeOK
  <2>3. QED
    BY <1>1, <1>3, <2>1, <2>2 DEF TypeOK, Labels
<1>5. Elsewhere(r)
  BY <1>1 DEF TypeOK, Elsewhere
<1>6. RequestInv(r)'
  BY SMT, <1>1 DEF TypeOK, Alive, RequestInv, FlagTrue, RequestRecorded, ResultRecorded,
    OutcomeRecorded, Outcome, ComfortTrue, Undispatched, Accepted
<1>7. QED
  BY <1>2, <1>3, <1>4, <1>5, <1>6, OwnStep

(* a task joins or leaves those at a set of labels *)
LEMMA Joined ==
    ASSUME NEW r \in Requests, NEW label, NEW S, pc \in [Requests -> Labels],
           pc' = [pc EXCEPT ![r] = label], pc[r] \notin S, label \in S, IsFiniteSet(At(S))
    PROVE  /\ IsFiniteSet(At(S)') /\ Cardinality(At(S)') = Cardinality(At(S)) + 1
           /\ Cardinality(At(S)) \in Nat
<1>1. At(S)' = At(S) \cup {r} /\ r \notin At(S)
  BY DEF At
<1>2. QED
  BY SMT, <1>1, FS_AddElement, FS_CardinalityType

LEMMA Left ==
    ASSUME NEW r \in Requests, NEW label, NEW S, pc \in [Requests -> Labels],
           pc' = [pc EXCEPT ![r] = label], pc[r] \in S, label \notin S, IsFiniteSet(At(S))
    PROVE  /\ IsFiniteSet(At(S)') /\ Cardinality(At(S)') = Cardinality(At(S)) - 1
           /\ Cardinality(At(S)) \in Nat /\ Cardinality(At(S)') \in Nat
<1>1. At(S)' = At(S) \ {r} /\ r \in At(S)
  BY DEF At
<1>2. QED
  BY SMT, <1>1, FS_RemoveElement, FS_CardinalityType

LEMMA Stayed ==
    ASSUME NEW r \in Requests, NEW label, NEW S, pc \in [Requests -> Labels],
           pc' = [pc EXCEPT ![r] = label], pc[r] \in S <=> label \in S
    PROVE  At(S)' = At(S)
BY DEF At

LEMMA ArriveKeeps ==
    ASSUME IInv, NEW r \in Requests, Arrive(r)
    PROVE  IInv'
<1> USE DEF Arrive, Goto, server
<1>1. TypeOK /\ RequestInv(r) /\ Counting /\ pc \in [Requests -> Labels] /\ pc[r] = "new"
  BY DEF IInv, TypeOK, Labels
<1>2. StopIsLast' /\ phase' = phase
  BY DEF StopIsLast
<1>3. Elsewhere(r)
  BY <1>1 DEF TypeOK, Elsewhere, Tell
<1>4. CASE Goto(r, "done") /\ Tell(r, "refused", "no") /\ UNCHANGED <<waiting, seen>>
  <2>1. told' \in [Requests -> Answers] /\ told'[r].may = "no" /\ told'[r].kind = "refused"
    BY <1>1, <1>4 DEF TypeOK, Answers, Tell
  <2>2. TypeOK'
    BY <1>1, <1>4, <2>1 DEF TypeOK, Labels
  <2>3. Counting'
    BY <1>1, <1>4, CountsKept DEF Holding, Waiters
  <2>4. RequestInv(r)'
    BY <1>1, <1>4, <2>1 DEF TypeOK, Alive, RequestInv, FlagTrue, RequestRecorded, ResultRecorded,
    OutcomeRecorded, Outcome, ComfortTrue, Undispatched, Accepted
  <2>5. QED
    BY <1>2, <1>3, <2>2, <2>3, <2>4, OwnStep
<1>5. ASSUME NEW label \in {"large", "slot"}, Goto(r, label), waiting' = waiting + 1,
             seen' = [seen EXCEPT ![r] = token], UNCHANGED told
      PROVE  IInv'
  <2>1. TypeOK'
    BY SMT, <1>1, <1>5 DEF TypeOK, Labels, Admitting
  <2>2. /\ pc[r] \notin Holding /\ label \notin Holding
        /\ pc[r] \notin Waiters /\ label \in Waiters
    BY <1>1, <1>5 DEF Holding, Waiters
  <2>3. At(Holding)' = At(Holding)
    BY <1>1, <1>5, <2>2, Stayed
  <2>4. Counting'
    BY <1>1, <1>5, <2>2, <2>3, Joined DEF Counting
  <2>5. RequestInv(r)'
    BY <1>1, <1>5 DEF TypeOK, Alive, RequestInv, FlagTrue, RequestRecorded, ResultRecorded,
    OutcomeRecorded, Outcome, ComfortTrue, Undispatched, Accepted
  <2>6. QED
    BY <1>2, <1>3, <2>1, <2>4, <2>5, OwnStep
<1>6. QED
  BY <1>4, <1>5

LEMMA AcquireSlotKeeps ==
    ASSUME IInv, Alive, NEW r \in Requests, AcquireSlot(r)
    PROVE  IInv'
<1> USE DEF AcquireSlot, Goto, server, history
<1>1. TypeOK /\ RequestInv(r) /\ Counting /\ pc \in [Requests -> Labels] /\ pc[r] = "slot"
  BY DEF IInv, TypeOK, Labels
<1>2. phase' = phase /\ StopIsLast'
  BY DEF IInv, StopIsLast, Alive
<1>3. /\ pc[r] \notin Holding /\ "body" \in Holding /\ pc[r] \in Waiters /\ "body" \notin Waiters
      /\ pc' = [pc EXCEPT ![r] = "body"]
  BY <1>1 DEF Holding, Waiters
<1>4. /\ IsFiniteSet(At(Holding)') /\ Cardinality(At(Holding)') = Cardinality(At(Holding)) + 1
      /\ IsFiniteSet(At(Waiters)') /\ Cardinality(At(Waiters)') = Cardinality(At(Waiters)) - 1
      /\ Cardinality(At(Holding)) \in Nat /\ Cardinality(At(Waiters)') \in Nat
  BY <1>1, <1>3, Joined, Left DEF Counting
<1>5. Counting'
  BY SMT, <1>1, <1>4, BoundaryAssumption DEF Counting, TypeOK
<1>6. TypeOK'
  BY SMT, <1>1, <1>4, BoundaryAssumption DEF TypeOK, Counting, Labels, Holding
<1>7. Elsewhere(r)
  BY <1>1 DEF TypeOK, Elsewhere
<1>8. RequestInv(r)'
  BY <1>1 DEF TypeOK, Alive, RequestInv, FlagTrue, RequestRecorded, ResultRecorded,
    OutcomeRecorded, Outcome, ComfortTrue, Undispatched, Accepted
<1>9. QED
  BY <1>2, <1>5, <1>6, <1>7, <1>8, OwnStep

LEMMA AdmissionEndKeeps ==
    ASSUME IInv, Alive, NEW r \in Requests, AdmissionEnd(r)
    PROVE  IInv'
<1> USE DEF AdmissionEnd
<1>1. /\ TypeOK /\ RequestInv(r) /\ Counting /\ pc \in [Requests -> Labels]
      /\ pc[r] = "admitcancel2" /\ "connection_end" \in Directions
  BY DEF IInv, TypeOK, Labels, Directions
<1>2. /\ pc' = [pc EXCEPT ![r] = "out"] /\ trouble \subseteq trouble' /\ log \subseteq log'
      /\ log' = log \/ log' = log \cup {<<r, "connection_end">>}
      /\ cancel' \in [Requests -> BOOLEAN] /\ failures' \in Nat
      /\ log' \subseteq Requests \X Directions /\ trouble' \subseteq Requests
      /\ UNCHANGED <<token, phase, took, work, seen, told, executed>>
  BY SMT, <1>1, RecordEffect
<1>3. /\ pc[r] \notin Holding /\ "out" \notin Holding /\ pc[r] \in Waiters /\ "out" \notin Waiters
  BY <1>1 DEF Holding, Waiters
<1>4. /\ At(Holding)' = At(Holding)
      /\ IsFiniteSet(At(Waiters)') /\ Cardinality(At(Waiters)') = Cardinality(At(Waiters)) - 1
      /\ Cardinality(At(Waiters)') \in Nat
  BY <1>1, <1>2, <1>3, Stayed, Left DEF Counting
<1>5. Counting'
  BY <1>1, <1>2, <1>4 DEF Counting
<1>6. waiting' \in Nat
  BY <1>5, <1>4 DEF Counting
<1>7. TypeOK'
  BY <1>1, <1>2, <1>6 DEF TypeOK, Admitting
<1>8. StopIsLast'
  BY <1>1, <1>2 DEF IInv, StopIsLast, Alive
<1>9. Elsewhere(r)
  BY SMT, <1>1, <1>2 DEF Elsewhere
<1>10. RequestInv(r)'
  BY <1>1, <1>2 DEF TypeOK, Alive, RequestInv, FlagTrue, RequestRecorded, ResultRecorded,
    OutcomeRecorded, Outcome, ComfortTrue, Undispatched, Accepted
<1>11. QED
  BY <1>2, <1>5, <1>7, <1>8, <1>9, <1>10, OwnStep

LEMMA LeaveKeeps ==
    ASSUME IInv, Alive, NEW r \in Requests, Leave(r)
    PROVE  IInv'
<1> USE DEF Leave, Goto, server, history
<1>1. /\ TypeOK /\ RequestInv(r) /\ Counting /\ pc \in [Requests -> Labels]
      /\ pc[r] \in {"leave", "out"} /\ pc' = [pc EXCEPT ![r] = "done"]
  BY DEF IInv, TypeOK, Labels
<1>2. Counting' /\ slots' \in 0 .. MAX_CONCURRENT_REQUESTS
  <2>1. CASE pc[r] = "leave" /\ slots' = slots + 1
    <3>1. /\ pc[r] \in Holding /\ "done" \notin Holding /\ pc[r] \notin Waiters /\ "done" \notin Waiters
      BY <2>1 DEF Holding, Waiters
    <3>2. /\ At(Waiters)' = At(Waiters)
          /\ IsFiniteSet(At(Holding)') /\ Cardinality(At(Holding)') = Cardinality(At(Holding)) - 1
          /\ Cardinality(At(Holding)) \in Nat /\ Cardinality(At(Holding)') \in Nat
      BY <1>1, <3>1, Stayed, Left DEF Counting
    <3>3. QED
      BY SMT, <1>1, <2>1, <3>2, BoundaryAssumption DEF Counting, TypeOK
  <2>2. CASE pc[r] = "out" /\ UNCHANGED slots
    <3>1. /\ pc[r] \notin Holding /\ "done" \notin Holding /\ pc[r] \notin Waiters /\ "done" \notin Waiters
      BY <2>2 DEF Holding, Waiters
    <3>2. QED
      BY <1>1, <2>2, <3>1, CountsKept DEF TypeOK
  <2>3. QED
    BY <1>1, <2>1, <2>2
<1>3. TypeOK'
  <2>1. cancel' \in [Requests -> BOOLEAN] /\ dispatched' \in [Requests -> BOOLEAN]
    BY <1>1 DEF TypeOK
  <2>2. seen' \in [Requests -> Nat] /\ large' \in Requests \cup {None}
    BY <1>1 DEF TypeOK
  <2>3. QED
    BY SMT, <1>1, <1>2, <2>1, <2>2 DEF TypeOK, Labels
<1>4. StopIsLast'
  BY <1>1 DEF IInv, StopIsLast
<1>5. Elsewhere(r)
  BY <1>1 DEF TypeOK, Elsewhere
<1>6. RequestInv(r)'
  BY SMT, <1>1 DEF TypeOK, Alive, RequestInv, FlagTrue, RequestRecorded, ResultRecorded,
    OutcomeRecorded, Outcome, ComfortTrue, Undispatched, Accepted
<1>7. QED
  BY <1>2, <1>3, <1>4, <1>5, <1>6, OwnStep

(* the worker: it only has calls of requests that were dispatched *)
LEMMA RoleKeeps ==
    ASSUME IInv, NEW r \in Requests, Execute(r) \/ Reply(r)
    PROVE  IInv'
<1> USE DEF Execute, Reply, semaphores, server, history
<1>1. TypeOK /\ RequestInv(r)
  BY DEF IInv
<1>2. TypeOK' /\ phase' = phase
  BY <1>1 DEF TypeOK
<1>3. Counting' /\ StopIsLast'
  BY DEF IInv, Counting, StopIsLast, At
<1>4. Elsewhere(r)
  BY <1>1 DEF TypeOK, Elsewhere
<1>5. RequestInv(r)'
  BY <1>1 DEF TypeOK, Alive, RequestInv, FlagTrue, RequestRecorded, ResultRecorded,
    OutcomeRecorded, Outcome, ComfortTrue, Undispatched, Accepted
<1>6. QED
  BY <1>2, <1>3, <1>4, <1>5, OwnStep

(* a step of the server that no task takes part in *)
LEMMA ServerFrame ==
    ASSUME \A r \in Requests : RequestInv(r), phase = "dead" => phase' = "dead",
           UNCHANGED <<pc, dispatched, work, told, executed, trouble, log>>
    PROVE  (\A r \in Requests : RequestInv(r))'
<1> SUFFICES ASSUME NEW r \in Requests PROVE RequestInv(r)'
  OBVIOUS
<1>1. RequestInv(r)
  OBVIOUS
<1>2. QED
  BY <1>1 DEF RequestInv, FlagTrue, RequestRecorded, ResultRecorded, OutcomeRecorded, Outcome, ComfortTrue

LEMMA CollectKeeps ==
    ASSUME IInv, Collect
    PROVE  IInv'
<1> USE DEF Collect, history
<1>1. TypeOK /\ Counting
  BY DEF IInv
<1>2. At(Holding)' = At(Holding) /\ At(Waiters)' = At(Waiters)
  BY DEF At
<1>3. Cardinality(At(Holding)) \in Nat
  BY <1>1, FS_CardinalityType DEF Counting
<1>4. Counting'
  BY SMT, <1>1, <1>2, <1>3, BoundaryAssumption DEF Counting, TypeOK
<1>5. TypeOK' /\ StopIsLast'
  BY SMT, <1>1, BoundaryAssumption DEF TypeOK, StopIsLast
<1>6. QED
  BY <1>4, <1>5, ServerFrame DEF IInv

(* all slots taken and nobody waiting: no task has a record left to write *)
LEMMA CollectedKeeps ==
    ASSUME IInv, Collected
    PROVE  IInv'
<1> USE DEF Collected, semaphores, history
<1>1. TypeOK /\ Counting
  BY DEF IInv
<1>2. Cardinality(At(Holding)) = 0 /\ Cardinality(At(Waiters)) = 0
  BY SMT, <1>1, FS_CardinalityType, BoundaryAssumption DEF Counting, TypeOK
<1>3. At(Holding) = {} /\ At(Waiters) = {}
  BY <1>1, <1>2, FS_EmptySet DEF Counting
<1>4. StopIsLast'
  BY <1>1, <1>3 DEF StopIsLast, At, Waiters, TypeOK, Admitting
<1>5. Counting' /\ TypeOK'
  BY <1>1 DEF Counting, At, TypeOK
<1>6. QED
  BY <1>4, <1>5, ServerFrame DEF IInv

LEMMA PhaseKeeps ==
    ASSUME IInv, Rotate \/ Exit \/ CancelTasks \/ RecordStop
    PROVE  IInv'
<1> USE DEF Rotate, Exit, CancelTasks, RecordStop, semaphores, history, Alive
<1>1. TypeOK /\ Counting
  BY DEF IInv
<1>2. TypeOK'
  <2>1. cancel' \in [Requests -> BOOLEAN]
    BY <1>1 DEF TypeOK
  <2>2. token' \in Nat /\ failures' \in Nat
    BY SMT, <1>1 DEF TypeOK
  <2>3. QED
    BY <1>1, <2>1, <2>2 DEF TypeOK
<1>3. Counting' /\ StopIsLast'
  BY <1>1 DEF IInv, Counting, At, StopIsLast
<1>4. QED
  BY <1>2, <1>3, ServerFrame DEF IInv

LEMMA DieKeeps ==
    ASSUME IInv, Die
    PROVE  IInv'
<1> USE DEF Die, history
<1>1. TypeOK
  BY DEF IInv
<1>2. At(Holding)' = {} /\ At(Waiters)' = {}
  BY DEF At, Holding, Waiters
<1>3. Counting'
  BY SMT, <1>2, FS_EmptySet, BoundaryAssumption DEF Counting
<1>4. TypeOK' /\ StopIsLast'
  BY SMT, <1>1, BoundaryAssumption DEF TypeOK, StopIsLast
<1>5. ASSUME NEW r \in Requests PROVE RequestInv(r)'
  <2>1. RequestInv(r) /\ pc'[r] = "new" /\ dispatched'[r] = FALSE /\ phase' = "dead"
    BY DEF IInv
  <2>2. QED
    BY <2>1 DEF RequestInv, FlagTrue, RequestRecorded, ResultRecorded, OutcomeRecorded, Outcome,
      ComfortTrue, Accepted
<1>6. QED
  BY <1>3, <1>4, <1>5 DEF IInv

LEMMA InitIInv == Init => IInv
<1> SUFFICES ASSUME Init PROVE IInv
  OBVIOUS
<1> USE DEF Init
<1>1. TypeOK /\ StopIsLast
  BY SMT, BoundaryAssumption DEF TypeOK, StopIsLast, Answers
<1>2. At(Holding) = {} /\ At(Waiters) = {}
  BY DEF At, Holding, Waiters
<1>3. Counting
  BY SMT, <1>2, FS_EmptySet, BoundaryAssumption DEF Counting
<1>4. \A r \in Requests : RequestInv(r)
  BY DEF RequestInv, FlagTrue, RequestRecorded, ResultRecorded, OutcomeRecorded, Outcome, ComfortTrue,
    Accepted
<1>5. QED
  BY <1>1, <1>3, <1>4 DEF IInv

LEMMA NextIInv == IInv /\ [Next]_vars => IInv'
<1> SUFFICES ASSUME IInv, [Next]_vars PROVE IInv'
  OBVIOUS
<1>1. ASSUME NEW r \in Requests, Task(r) PROVE IInv'
  BY <1>1, RecordingKeeps, ReadBodyKeeps, CancelBodyKeeps, RefuseKeeps, GateKeeps, ProbeKeeps,
    ReturnKeeps, CancelCallKeeps, UnavailableKeeps, SendKeeps, CallKeeps, LargeKeeps,
    AcquireSlotKeeps, AdmissionEndKeeps, LeaveKeeps DEF Task, Recording
<1>2. CASE UNCHANGED vars
  <2>1. TypeOK' /\ Counting' /\ StopIsLast'
    BY <1>2 DEF vars, semaphores, server, history, IInv, TypeOK, Counting, At, StopIsLast
  <2>2. QED
    BY <1>2, <2>1, ServerFrame DEF vars, server, history, IInv
<1>3. QED
  BY <1>1, <1>2, ArriveKeeps, RoleKeeps, CollectKeeps, CollectedKeeps, PhaseKeeps, DieKeeps
    DEF Next, Role, Lifespan

THEOREM Invariance == Spec => []IInv
BY InitIInv, NextIInv, PTL DEF Spec

----------------------------------------------------------------------------
(* Type correctness: in particular slots never leaves 0 .. the limit, so no *)
(* exit path of handle gives a slot back twice.                             *)
THEOREM TypeCorrect == Spec => []TypeOK
<1>1. IInv => TypeOK
  BY DEF IInv
<1>2. QED
  BY <1>1, Invariance, PTL

(* For any number of requests the role never executes what has no durable   *)
(* record, no result is sent before its records, the audit of an executed   *)
(* request ends with an outcome, and instance_stop is the last record.      *)
THEOREM AuditComplete == Spec => []RequestsAudited
<1>1. IInv => RequestsAudited
  <2> SUFFICES ASSUME IInv PROVE RequestsAudited
    OBVIOUS
  <2>1. /\ StopIsLast /\ executed \subseteq Requests
        /\ \A r \in Requests : RequestRecorded(r) /\ ResultRecorded(r) /\ OutcomeRecorded(r)
    BY DEF IInv, TypeOK, RequestInv
  <2>2. AuditedBeforeExecution
    BY <2>1 DEF AuditedBeforeExecution, RequestRecorded
  <2>3. OutcomeAudited
    BY <2>1 DEF OutcomeAudited, RequestRecorded, ResultRecorded, OutcomeRecorded, Outcome
  <2>4. QED
    BY <2>1, <2>2, <2>3 DEF RequestsAudited
<1>2. QED
  BY <1>1, Invariance, PTL

(* operation_may_have_completed = no is the truth, and stays it: a request  *)
(* whose client was told so was not, and will not be, given to the role.    *)
THEOREM ComfortIsTrue == Spec => []NoFalseComfort
<1>1. IInv => NoFalseComfort
  BY DEF IInv, RequestInv, ComfortTrue, RequestRecorded, NoFalseComfort
<1>2. QED
  BY <1>1, Invariance, PTL
============================================================================
