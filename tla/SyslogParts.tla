---------------------------- MODULE SyslogParts ----------------------------
(* The parts in which an audit record travels to a syslog collector, and    *)
(* their reassembly from an archive (src/netops/syslog_parts.py). A record  *)
(* is a sequence of bytes; its digest is the record itself, that is, the    *)
(* hash is assumed to be free of collisions. JSON, base64 and the syslog    *)
(* header are left out: a line that cannot be attributed to a record is     *)
(* Garbage, one with wrong fields is a part that Valid refuses.             *)
EXTENDS Naturals, Sequences, SequencesExt, FiniteSets

CONSTANTS
    Ids,           \* record ids
    Raws,          \* records
    CHUNK_BYTES,   \* bytes of a part
    MAX_PARTS,     \* most parts of a record
    Garbage,       \* a line that is no JSON object with one record_id
    Noise,         \* other lines an archive may hold
    MaxLines       \* bound: lines of an archive

(* the constants make sense *)
syslog_limits ==
    /\ CHUNK_BYTES \in Nat \ {0} /\ MAX_PARTS \in Nat \ {0} /\ MaxLines \in Nat
    /\ \A raw \in Raws : Len(raw) \in 1 .. CHUNK_BYTES * MAX_PARTS

VARIABLES
    sent,      \* the record behind each id
    archive    \* the lines of the collector, oldest first

vars == <<sent, archive>>
----------------------------------------------------------------------------
(* Mutant: the last, shorter chunk is forgotten *)
PartCount_Floor(raw) == Len(raw) \div CHUNK_BYTES

PartCount(raw) == (Len(raw) + CHUNK_BYTES - 1) \div CHUNK_BYTES

Chunk(raw, k) ==
    SubSeq(raw, k * CHUNK_BYTES + 1,
           IF (k + 1) * CHUNK_BYTES < Len(raw) THEN (k + 1) * CHUNK_BYTES ELSE Len(raw))

encode_messages(raw, id) ==
    {[id |-> id, part |-> k, parts |-> PartCount(raw), sha |-> raw, data |-> Chunk(raw, k)] :
        k \in 0 .. PartCount(raw) - 1}

(* _selected: what is required of one part on its own *)
Valid(m) ==
    /\ m.parts \in 1 .. MAX_PARTS /\ m.part \in 0 .. m.parts - 1
    /\ Len(m.data) \in IF m.part = m.parts - 1 THEN 1 .. CHUNK_BYTES ELSE {CHUNK_BYTES}

----------------------------------------------------------------------------
(* decode_messages: a fold over the lines. selected holds the parts taken,  *)
(* all of one record when there are any (identity); completed is the record *)
(* once its last part is there; failed stops everything.                    *)
Empty == [selected |-> {}, completed |-> <<>>, failed |-> FALSE, warned |-> FALSE]

Selected(m, id)  == m # Garbage /\ m.id = id
Agrees(s, m) ==
    \A t \in s.selected : /\ t.parts = m.parts /\ t.sha = m.sha
                          /\ t.part = m.part => t = m
Known(s, m)  == Agrees(s, m) /\ m \in s.selected
Original(S)  == LET n == Cardinality(S)
                    data[k \in 0 .. n] ==
                        IF k = 0 THEN <<>>
                        ELSE data[k - 1] \o (CHOOSE t \in S : t.part = k - 1).data
                IN  data[n]

Take(s, m) ==
    LET S == s.selected \cup {m} IN
    IF Cardinality(S) < m.parts THEN [s EXCEPT !.selected = S]
    ELSE IF Original(S) = m.sha THEN [s EXCEPT !.selected = S, !.completed = Original(S)]
    ELSE [s EXCEPT !.failed = TRUE]

Line(s, m, id) ==
    CASE s.failed \/ (m # Garbage /\ m.id # id) -> s
      [] ~s.failed /\ s.completed # <<>> /\ (m = Garbage \/ m.id = id) ->
            [s EXCEPT !.warned = @ \/ ~(Selected(m, id) /\ Valid(m) /\ Known(s, m))]
      [] OTHER -> IF Selected(m, id) /\ Valid(m) /\ Agrees(s, m)
                  THEN Take(s, m) ELSE [s EXCEPT !.failed = TRUE]

decode_messages(messages, id) ==
    FoldLeft(LAMBDA s, m : Line(s, m, id), Empty, messages)
----------------------------------------------------------------------------
Init == sent \in [Ids -> Raws] /\ archive = <<>>

(* A part arrives, for the first time or again, in any order *)
Arrive ==
    /\ Len(archive) < MaxLines
    /\ \E id \in Ids : \E m \in encode_messages(sent[id], id) : archive' = Append(archive, m)
    /\ UNCHANGED sent

(* The archive holds other lines, damaged parts included *)
Disturb ==
    /\ Len(archive) < MaxLines
    /\ \E m \in Noise : archive' = Append(archive, m)
    /\ UNCHANGED sent

Next == Arrive \/ Disturb
Spec == Init /\ [][Next]_vars
----------------------------------------------------------------------------
Genuine(id) == encode_messages(sent[id], id)
Reassembled(id) == LET s == decode_messages(archive, id) IN ~s.failed /\ s.completed # <<>>

(* As long as the archive holds genuine parts only, in any order and any    *)
(* number of copies, the record comes out unchanged and without a warning   *)
(* as soon as every part is there, and before that it does not come out;    *)
(* and whatever else the archive holds, a record that comes out is one      *)
(* whose parts are all there: chunks of two records, or damaged ones, are   *)
(* never joined (encode_messages, decode_messages; the gateway resends      *)
(* whole batches).                                                          *)
RoundTrip ==
    \A id \in Ids :
        LET s == decode_messages(archive, id) IN
        /\ ToSet(archive) \subseteq UNION {Genuine(i) : i \in Ids} =>
              /\ ~s.failed /\ ~s.warned
              /\ s.completed = IF Genuine(id) \subseteq ToSet(archive) THEN sent[id] ELSE <<>>
        /\ Reassembled(id) => encode_messages(s.completed, id) \subseteq ToSet(archive)
============================================================================
