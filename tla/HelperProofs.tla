---------------------------- MODULE HelperProofs ----------------------------
(* Proofs about the Helper, for any number of threads, queries, devices,    *)
(* captures, filters, pages, writers and segments: the pages of a client    *)
(* are of one output, a device has one connection at a time, a result is in *)
(* the record, a capture was given to a client or withheld with a failed    *)
(* record, and the log keeps what it has to keep. LogInv is about the log,  *)
(* ReadInv about the device reads, CaptureInv about the captures; the       *)
(* theorems about the whole are at the end.                                 *)
EXTENDS Helper, FiniteSetTheorems, TLAPS

(* Zenon is the default prover; a leaf with arithmetic cites SMT. *)
USE Zenon
----------------------------------------------------------------------------
(* The log. *)
Slots == 0 .. Log!oldest

(* about any segments g: the lines they hold, their fragments, their order *)
Line(g, i, k) == g[i] # None /\ k \in DOMAIN g[i].lines
Holds(g, n) == \E i \in Slots : \E k : Line(g, i, k) /\ g[i].lines[k] = n
Torn(g) == {f \in Slots \X (1 .. segment_bytes) : Line(g, f[1], f[2]) /\ g[f[1]].lines[f[2]] = 0}
Older(g, i, k, j, l) ==
    i > j \/ (i = j /\ k < l) => \/ 0 \in {g[i].lines[k], g[j].lines[l]}
                                 \/ g[i].lines[k] < g[j].lines[l]
InOrder(g) ==
    \A i, j \in Slots : \A k, l : Line(g, i, k) /\ Line(g, j, l) => Older(g, i, k, j, l)
Fits(g) == \A i \in Slots : g[i] # None => g[i].bytes <= segment_bytes
Files == [Slots -> Log!Segment \cup {None}]

LEMMA LogLimits ==
    ASSUME Log!log_limits
    PROVE  /\ Log!oldest \in Nat \ {0} /\ segment_bytes \in Nat /\ RecordBytes \in Nat \ {0, 1}
           /\ RecordBytes <= segment_bytes /\ None \notin Writers /\ None \notin Log!Segment
           /\ 0 \in Slots
<1>1. Log!log_limits
  OBVIOUS
<1>2. retained_segments - 1 \in Nat \ {0}
  BY SMT, <1>1 DEF Log!log_limits
<1>3. 0 \in Slots
  BY SMT, <1>2 DEF Slots, Log!oldest
<1> QED  BY <1>1, <1>2, <1>3 DEF Log!log_limits, Log!oldest

LEMMA LineType == ASSUME Log!log_limits, NEW g \in Files, NEW i \in Slots, NEW k, Line(g, i, k)
                  PROVE  g[i].lines[k] \in Nat /\ k \in Nat
<1>1. g[i] \in Log!Segment
  BY DEF Files, Line
<1>2. g[i].lines \in Seq(Nat) /\ k \in DOMAIN g[i].lines
  BY <1>1 DEF Log!Segment, Line
<1> QED  BY SMT, <1>2

LEMMA TornFinite == ASSUME Log!log_limits, NEW g PROVE IsFiniteSet(Torn(g)) /\ Cardinality(Torn(g)) \in Nat
<1>1. IsFiniteSet(Slots) /\ IsFiniteSet(1 .. segment_bytes)
  <2>1. Log!oldest \in Int /\ segment_bytes \in Int /\ 0 \in Int /\ 1 \in Int
    BY SMT, LogLimits
  <2> QED  BY <2>1, FS_Interval DEF Slots
<1>2. IsFiniteSet(Slots \X (1 .. segment_bytes))
  BY <1>1, FS_Product
<1>3. Torn(g) \in SUBSET (Slots \X (1 .. segment_bytes))
  BY DEF Torn
<1>4. IsFiniteSet(Torn(g))
  BY <1>2, <1>3, FS_Subset
<1> QED  BY <1>4, FS_CardinalityType

(* One line more in the active segment. *)
OneMore(g, h, m, f) ==
    /\ h \in Files /\ InOrder(h) /\ Fits(h)
    /\ \A n \in Nat : Holds(h, n) <=> Holds(g, n) \/ n = m
    /\ m # 0 => Torn(h) \subseteq Torn(g)
    /\ Torn(h) \subseteq Torn(g) \cup {f}

LEMMA LineAppended ==
    ASSUME Log!log_limits, NEW g \in Files, NEW s \in Log!Segment, g[0] = s, NEW m \in Nat,
           NEW a \in Log!Segment, a.lines = Append(s.lines, m), a.bytes <= segment_bytes,
           NEW h, h = [g EXCEPT ![0] = a], InOrder(g), Fits(g),
           m # 0 => \A n \in Nat : Holds(g, n) => n < m
    PROVE  OneMore(g, h, m, <<0, Len(s.lines) + 1>>)
<1>1. s.lines \in Seq(Nat) /\ 0 \in Slots /\ s # None /\ a # None
  BY LogLimits DEF Log!Segment
<1>2. PICK e \in Seq(Nat) : e = s.lines
  BY <1>1
<1>3. PICK d : d = a.lines
  OBVIOUS
<1>4. PICK z \in Nat : z = Len(e) + 1
  BY SMT
<1>5. /\ DOMAIN d = DOMAIN e \cup {z} /\ z \notin DOMAIN e /\ DOMAIN e \subseteq Nat
      /\ d[z] = m /\ \A k \in DOMAIN e : d[k] = e[k] /\ k < z /\ e[k] \in Nat
  BY SMT, <1>2, <1>3, <1>4
<1>6. h \in Files /\ h[0] = a /\ \A i \in Slots : i # 0 => h[i] = g[i]
  BY <1>1 DEF Files
<1>7. Fits(h)
  BY <1>6 DEF Fits
(* every line of h but the new one is a line of g *)
<1>8. ASSUME NEW i \in Slots, NEW k, Line(h, i, k), ~(i = 0 /\ k = z)
      PROVE  Line(g, i, k) /\ h[i].lines[k] = g[i].lines[k]
  <2>1. CASE i = 0
    <3>1. k \in DOMAIN e /\ d[k] = e[k]
      BY <1>3, <1>5, <1>6, <1>8, <2>1 DEF Line
    <3> QED  BY <1>1, <1>2, <1>3, <1>6, <2>1, <3>1 DEF Line
  <2>2. CASE i # 0
    BY <1>6, <1>8, <2>2 DEF Line
  <2> QED  BY <2>1, <2>2
<1>9. ASSUME NEW i \in Slots, NEW k, Line(g, i, k)
      PROVE  Line(h, i, k) /\ h[i].lines[k] = g[i].lines[k] /\ ~(i = 0 /\ k = z)
  <2>1. CASE i = 0
    <3>1. k \in DOMAIN e /\ d[k] = e[k] /\ k \in DOMAIN d /\ k # z
      BY <1>2, <1>5, <1>9, <2>1 DEF Line
    <3> QED  BY <1>1, <1>2, <1>3, <1>6, <2>1, <3>1 DEF Line
  <2>2. CASE i # 0
    BY <1>6, <1>9, <2>2 DEF Line
  <2> QED  BY <2>1, <2>2
<1>10. Line(h, 0, z) /\ h[0].lines[z] = m
  BY <1>1, <1>3, <1>5, <1>6 DEF Line
<1>11. ASSUME NEW n \in Nat PROVE Holds(h, n) <=> Holds(g, n) \/ n = m
  <2>1. ASSUME Holds(h, n) PROVE Holds(g, n) \/ n = m
    BY <1>8, <1>10, <2>1 DEF Holds
  <2>2. ASSUME Holds(g, n) PROVE Holds(h, n)
    <3>1. PICK i, k : i \in Slots /\ Line(g, i, k) /\ g[i].lines[k] = n
      BY <2>2 DEF Holds
    <3>2. Line(h, i, k) /\ h[i].lines[k] = n
      BY <1>9, <3>1
    <3> QED  BY <3>1, <3>2 DEF Holds
  <2>3. Holds(h, m)
    BY <1>1, <1>10 DEF Holds
  <2> QED  BY <2>1, <2>2, <2>3
<1>12. Torn(h) \subseteq Torn(g) \cup {<<0, z>>}
  <2>1. ASSUME NEW f \in Torn(h), ~(f[1] = 0 /\ f[2] = z) PROVE f \in Torn(g)
    BY <1>8, <2>1 DEF Torn
  <2>2. ASSUME NEW f \in Torn(h), f[1] = 0 /\ f[2] = z PROVE f = <<0, z>>
    BY SMT, <2>2 DEF Torn
  <2> QED  BY <2>1, <2>2
<1>13. m # 0 => Torn(h) \subseteq Torn(g)
  BY <1>8, <1>10 DEF Torn
<1>14. ASSUME NEW i \in Slots, NEW j \in Slots, NEW k, NEW l, Line(h, i, k), Line(h, j, l)
       PROVE  Older(h, i, k, j, l)
  <2>1. CASE ~(i = 0 /\ k = z) /\ ~(j = 0 /\ l = z)
    <3>1. Older(g, i, k, j, l)
      BY <1>8, <1>14, <2>1 DEF InOrder
    <3> QED  BY <1>8, <1>14, <2>1, <3>1 DEF Older
  <2>2. CASE j = 0 /\ l = z /\ ~(i = 0 /\ k = z)
    <3>1. Line(g, i, k) /\ h[i].lines[k] = g[i].lines[k]
      BY <1>8, <1>14, <2>2
    <3>2. g[i].lines[k] \in Nat
      BY <3>1, LineType
    <3>3. Holds(g, g[i].lines[k])
      BY <3>1 DEF Holds
    <3>4. m = 0 \/ h[i].lines[k] < m
      BY <3>1, <3>2, <3>3
    <3> QED  BY <1>10, <2>2, <3>4 DEF Older
  <2>3. CASE i = 0 /\ k = z
    <3>1. ~(i > j)
      BY SMT, <2>3, LogLimits DEF Slots
    <3>2. ASSUME j = 0 PROVE ~(k < l)
      <4>1. l \in DOMAIN e \cup {z}
        BY <1>3, <1>5, <1>6, <1>14, <3>2 DEF Line
      <4>2. l \in Nat /\ (l < z \/ l = z)
        BY <1>5, <4>1
      <4> QED  BY SMT, <2>3, <4>2
    <3> QED  BY <2>3, <3>1, <3>2 DEF Older
  <2> QED  BY <2>1, <2>2, <2>3
<1>15. InOrder(h)
  BY <1>14 DEF InOrder
<1> QED  BY <1>2, <1>4, <1>6, <1>7, <1>11, <1>12, <1>13, <1>15 DEF OneMore

(* The active segment is created, or the same lines take more bytes. *)
LEMMA SameLines ==
    ASSUME Log!log_limits, NEW g \in Files, NEW a \in Log!Segment, a.bytes <= segment_bytes,
           \/ g[0] # None /\ a.lines = g[0].lines
           \/ g[0] = None /\ a.lines = <<>>,
           NEW h, h = [g EXCEPT ![0] = a], InOrder(g), Fits(g)
    PROVE  /\ h \in Files /\ InOrder(h) /\ Fits(h) /\ Torn(h) = Torn(g)
           /\ \A n \in Nat : Holds(h, n) <=> Holds(g, n)
<1>1. h \in Files /\ h[0] = a /\ a # None /\ \A i \in Slots : i # 0 => h[i] = g[i]
  BY LogLimits DEF Files
<1>2. DOMAIN (<<>>) = {}
  BY SMT
<1>3. ASSUME NEW i \in Slots, NEW k
      PROVE  /\ Line(h, i, k) <=> Line(g, i, k)
             /\ Line(h, i, k) => h[i].lines[k] = g[i].lines[k]
  BY <1>1, <1>2 DEF Line
<1>4. Fits(h)
  BY <1>1 DEF Fits
<1>5. Torn(h) = Torn(g)
  BY <1>3 DEF Torn
<1>6. \A n \in Nat : Holds(h, n) <=> Holds(g, n)
  BY <1>3 DEF Holds
<1>7. ASSUME NEW i \in Slots, NEW j \in Slots, NEW k, NEW l, Line(h, i, k), Line(h, j, l)
      PROVE  Older(h, i, k, j, l)
  <2>1. Older(g, i, k, j, l)
    BY <1>3, <1>7 DEF InOrder
  <2>2. h[i].lines[k] = g[i].lines[k] /\ h[j].lines[l] = g[j].lines[l]
    BY <1>3, <1>7
  <2> QED  BY <2>1, <2>2 DEF Older
<1>8. InOrder(h)
  BY <1>7 DEF InOrder
<1> QED  BY <1>1, <1>4, <1>5, <1>6, <1>8

(* The oldest segment is removed. *)
Dropped(g, o, h) ==
    /\ h \in Files /\ InOrder(h) /\ Fits(h) /\ Torn(h) \subseteq Torn(g)
    /\ \A n \in Nat : Holds(h, n) => Holds(g, n)
    /\ \A n \in Nat : Holds(g, n) => Holds(h, n) \/ \E k : Line(g, o, k) /\ g[o].lines[k] = n

LEMMA SegmentRemoved ==
    ASSUME Log!log_limits, NEW g \in Files, NEW o \in Slots, NEW h, h = [g EXCEPT ![o] = None], InOrder(g), Fits(g)
    PROVE  Dropped(g, o, h)
<1>1. h \in Files /\ h[o] = None /\ \A i \in Slots : i # o => h[i] = g[i]
  BY DEF Files
<1>2. ASSUME NEW i \in Slots, NEW k, Line(h, i, k)
      PROVE  Line(g, i, k) /\ h[i].lines[k] = g[i].lines[k]
  BY <1>1, <1>2 DEF Line
<1>3. Fits(h)
  BY <1>1 DEF Fits
<1>4. Torn(h) \subseteq Torn(g)
  BY <1>2 DEF Torn
<1>5. ASSUME NEW n \in Nat, Holds(h, n) PROVE Holds(g, n)
  <2>1. PICK i, k : i \in Slots /\ Line(h, i, k) /\ h[i].lines[k] = n
    BY <1>5 DEF Holds
  <2>2. Line(g, i, k) /\ g[i].lines[k] = n
    BY <1>2, <2>1
  <2> QED  BY <2>1, <2>2 DEF Holds
<1>6. ASSUME NEW n \in Nat, Holds(g, n)
      PROVE  Holds(h, n) \/ \E k : Line(g, o, k) /\ g[o].lines[k] = n
  <2>1. PICK i, k : i \in Slots /\ Line(g, i, k) /\ g[i].lines[k] = n
    BY <1>6 DEF Holds
  <2>2. CASE i = o
    BY <2>1, <2>2
  <2>3. CASE i # o
    <3>1. Line(h, i, k) /\ h[i].lines[k] = n
      BY <1>1, <2>1, <2>3 DEF Line
    <3> QED  BY <2>1, <3>1 DEF Holds
  <2> QED  BY <2>2, <2>3
<1>7. ASSUME NEW i \in Slots, NEW j \in Slots, NEW k, NEW l, Line(h, i, k), Line(h, j, l)
      PROVE  Older(h, i, k, j, l)
  <2>1. Older(g, i, k, j, l)
    BY <1>2, <1>7 DEF InOrder
  <2>2. h[i].lines[k] = g[i].lines[k] /\ h[j].lines[l] = g[j].lines[l]
    BY <1>2, <1>7
  <2> QED  BY <2>1, <2>2 DEF Older
<1>8. InOrder(h)
  BY <1>7 DEF InOrder
<1> QED  BY <1>1, <1>3, <1>4, <1>5, <1>6, <1>8 DEF Dropped

(* A segment moves into the free slot above it. *)
Moved(g, h) ==
    /\ h \in Files /\ InOrder(h) /\ Fits(h) /\ Cardinality(Torn(h)) <= Cardinality(Torn(g))
    /\ \A n \in Nat : Holds(h, n) <=> Holds(g, n)

LEMMA SegmentMoved ==
    ASSUME Log!log_limits, NEW g \in Files, NEW j \in Slots, j + 1 \in Slots, g[j + 1] = None,
           NEW h, h = [g EXCEPT ![j + 1] = g[j], ![j] = None], InOrder(g), Fits(g)
    PROVE  Moved(g, h)
<1>1. PICK u \in Slots : u = j + 1 /\ u # j
  BY SMT DEF Slots
<1>2. h \in Files /\ h[u] = g[j] /\ h[j] = None /\ \A i \in Slots : i # j /\ i # u => h[i] = g[i]
  BY <1>1 DEF Files
<1> DEFINE from(i) == IF i = u THEN j ELSE i
           to(i) == IF i = j THEN u ELSE i
<1>3. ASSUME NEW i \in Slots, NEW k, Line(h, i, k)
      PROVE  i # j /\ Line(g, from(i), k) /\ h[i].lines[k] = g[from(i)].lines[k] /\ from(i) \in Slots
  BY <1>1, <1>2, <1>3 DEF Line
<1>4. ASSUME NEW i \in Slots, NEW k, Line(g, i, k)
      PROVE  to(i) \in Slots /\ Line(h, to(i), k) /\ h[to(i)].lines[k] = g[i].lines[k]
  <2>1. CASE i = j
    BY <1>1, <1>2, <1>4, <2>1 DEF Line
  <2>2. CASE i # j
    BY <1>1, <1>2, <1>4, <2>2 DEF Line
  <2> QED  BY <2>1, <2>2
<1>5. Fits(h)
  BY <1>1, <1>2 DEF Fits
<1>6. ASSUME NEW i \in Slots, NEW t \in Slots, i # j, t # j
      PROVE  (i > t => from(i) > from(t)) /\ (i = t => from(i) = from(t))
  BY SMT, <1>1, <1>6 DEF Slots
<1>0. ASSUME NEW i \in Slots, i # j PROVE to(from(i)) = i
  BY <1>0, <1>1
<1> HIDE DEF from, to
<1>7. \A n \in Nat : Holds(h, n) <=> Holds(g, n)
  <2>1. ASSUME NEW n \in Nat, Holds(h, n) PROVE Holds(g, n)
    <3>1. PICK i, k : i \in Slots /\ Line(h, i, k) /\ h[i].lines[k] = n
      BY <2>1 DEF Holds
    <3>2. Line(g, from(i), k) /\ g[from(i)].lines[k] = n /\ from(i) \in Slots
      BY <1>3, <3>1
    <3> QED  BY <3>2 DEF Holds
  <2>2. ASSUME NEW n \in Nat, Holds(g, n) PROVE Holds(h, n)
    <3>1. PICK i, k : i \in Slots /\ Line(g, i, k) /\ g[i].lines[k] = n
      BY <2>2 DEF Holds
    <3>2. Line(h, to(i), k) /\ h[to(i)].lines[k] = n /\ to(i) \in Slots
      BY <1>4, <3>1
    <3> QED  BY <3>2 DEF Holds
  <2> QED  BY <2>1, <2>2
<1>8. ASSUME NEW i \in Slots, NEW t \in Slots, NEW k, NEW l, Line(h, i, k), Line(h, t, l)
      PROVE  Older(h, i, k, t, l)
  <2>1. Older(g, from(i), k, from(t), l)
    BY <1>3, <1>8 DEF InOrder
  <2>2. h[i].lines[k] = g[from(i)].lines[k] /\ h[t].lines[l] = g[from(t)].lines[l] /\ i # j /\ t # j
    BY <1>3, <1>8
  <2> QED  BY <1>6, <2>1, <2>2 DEF Older
<1>9. InOrder(h)
  BY <1>8 DEF InOrder
<1>10. Cardinality(Torn(h)) <= Cardinality(Torn(g))
  <2> DEFINE moved == [f \in Torn(g) |-> <<to(f[1]), f[2]>>]
  <2>1. ASSUME NEW f \in Torn(g) PROVE <<to(f[1]), f[2]>> \in Torn(h)
    <3>1. f[1] \in Slots /\ f[2] \in 1 .. segment_bytes /\ Line(g, f[1], f[2]) /\ g[f[1]].lines[f[2]] = 0
      BY DEF Torn
    <3>2. to(f[1]) \in Slots /\ Line(h, to(f[1]), f[2]) /\ h[to(f[1])].lines[f[2]] = 0
      BY <1>4, <3>1
    <3> QED  BY <3>1, <3>2 DEF Torn
  <2>2. ASSUME NEW f \in Torn(h) PROVE \E e \in Torn(g) : moved[e] = f
    <3>1. /\ f[1] \in Slots /\ f[2] \in 1 .. segment_bytes /\ Line(h, f[1], f[2])
          /\ h[f[1]].lines[f[2]] = 0
      BY DEF Torn
    <3>5. f = <<f[1], f[2]>>
      BY SMT DEF Torn
    <3>2. f[1] # j /\ from(f[1]) \in Slots /\ Line(g, from(f[1]), f[2]) /\ g[from(f[1])].lines[f[2]] = 0
      BY <1>3, <3>1
    <3>3. <<from(f[1]), f[2]>> \in Torn(g)
      BY <3>1, <3>2 DEF Torn
    <3>4. moved[<<from(f[1]), f[2]>>] = <<to(from(f[1])), f[2]>>
      BY <3>3
    <3> QED  BY <1>0, <3>1, <3>2, <3>3, <3>4, <3>5
  <2>3. moved \in [Torn(g) -> Torn(h)]
    BY <2>1
  <2> HIDE DEF moved
  <2>4. moved \in Surjection(Torn(g), Torn(h))
    BY <2>2, <2>3 DEF Surjection
  <2> QED  BY <2>4, TornFinite, FS_Surjection
<1> QED  BY <1>2, <1>5, <1>7, <1>9, <1>10 DEF Moved
----------------------------------------------------------------------------
LogLabels == {"idle", "open", "rotate", "shift", "reopen", "write", "close"}
Writes == {"write", "close"}

LogType ==
    /\ seg \in Files /\ torn \in BOOLEAN /\ lock \in Writers \cup {None}
    /\ step \in [Writers -> LogLabels] /\ next \in [Writers -> Nat]
    /\ start \in Log!Segment /\ newline \in BOOLEAN /\ written \in Nat
    /\ records \in Nat /\ returned \subseteq Nat /\ removed \subseteq Nat
    /\ rotations \in Nat /\ crashes \in Nat

(* Who is in a call of record has the lock, and writes the latest record.   *)
(* What it writes into the active segment is what _append has written so    *)
(* far, and all of it fits.                                                 *)
InCall(p) ==
    /\ step[p] # "idle" => lock = p /\ next[p] = records /\ records # 0
    /\ step[p] \in {"rotate", "shift"} => seg[0] # None
    /\ step[p] = "reopen" => seg[0] = None
    /\ step[p] \in {"rotate", "shift", "reopen"} => written = 0
    /\ step[p] \in Writes => /\ seg[0] = Log!After(p, written) /\ written <= Log!Needed(newline)
                             /\ start.bytes + Log!Needed(newline) <= segment_bytes
    /\ step[p] = "close" => written = Log!Needed(newline)

(* The segments without what the call at work has written, and what they    *)
(* promise: of the records that returned, those that were removed, the      *)
(* number of the next record and that of killed processes.                  *)
Settled == IF \E p \in Writers : step[p] \in Writes THEN [seg EXCEPT ![0] = start] ELSE seg
Top == IF lock = None THEN records + 1 ELSE records
Safe(g, back, gone, top, deaths) ==
    /\ g \in Files /\ InOrder(g) /\ Fits(g)
    /\ \A n \in back : Holds(g, n) \/ n \in gone
    /\ \A n \in gone, m \in Nat : Holds(g, m) => m = 0 \/ n < m
    /\ \A n \in Nat : Holds(g, n) \/ n \in gone => n < top
    /\ Cardinality(Torn(g)) <= deaths

LogInv ==
    /\ LogType /\ Log!RetentionKept /\ Safe(Settled, returned, removed, Top, crashes)
    /\ \A p \in Writers : InCall(p)
----------------------------------------------------------------------------
LEMMA Alone == ASSUME Log!log_limits, LogInv, NEW p \in Writers, lock \in {p, None}
               PROVE  \A q \in Writers : q # p => step[q] = "idle"
  BY LogLimits DEF LogInv, InCall

LEMMA SettledOf ==
    ASSUME Log!log_limits, NEW p \in Writers, \A q \in Writers : q # p => step[q] = "idle"
    PROVE  Settled = IF step[p] \in Writes THEN [seg EXCEPT ![0] = start] ELSE seg
  BY DEF Settled, Writes

(* A step of the call that has the lock, or of the one that takes it *)
LEMMA CallSteps ==
    ASSUME Log!log_limits, LogInv, NEW p \in Writers, \A q \in Writers : q # p => step[q] = "idle",
           NEW l \in LogLabels, step' = [step EXCEPT ![p] = l], LogType', Log!RetentionKept', InCall(p)',
           Safe(IF l \in Writes THEN [seg' EXCEPT ![0] = start'] ELSE seg', returned', removed', Top', crashes')
    PROVE  LogInv'
<1>1. step'[p] = l /\ \A q \in Writers : q # p => step'[q] = "idle"
  BY DEF LogInv, LogType
<1>2. Settled' = IF l \in Writes THEN [seg' EXCEPT ![0] = start'] ELSE seg'
  BY <1>1 DEF Settled, Writes
<1>3. \A q \in Writers : InCall(q)'
  BY <1>1 DEF InCall, Writes
<1> QED  BY <1>2, <1>3 DEF LogInv

LEMMA LockKeeps == ASSUME Log!log_limits, LogInv, NEW p \in Writers, Log!Lock(p) PROVE LogInv'
<1>1. /\ step[p] = "idle" /\ lock = None /\ lock' = p /\ step' = [step EXCEPT ![p] = "open"]
      /\ records' = records + 1 /\ next' = [next EXCEPT ![p] = records + 1]
      /\ UNCHANGED <<seg, torn, start, newline, written, returned, removed, rotations, crashes>>
  BY DEF Log!Lock, Log!Goto, Log!files, Log!call
<1>2. records + 1 \in Nat \ {0}
  BY SMT DEF LogInv, LogType
<1>3. LogType'
  BY <1>1, <1>2 DEF LogInv, LogType, LogLabels
<1>4. \A q \in Writers : q # p => step[q] = "idle"
  BY <1>1, Alone
<1>5. InCall(p)'
  BY <1>1, <1>2 DEF LogInv, LogType, InCall, Writes
<1>6. Top' = Top /\ Settled = seg
  BY <1>1, <1>4, SettledOf, LogLimits DEF Top, Writes
<1>7. Safe(IF "open" \in Writes THEN [seg' EXCEPT ![0] = start'] ELSE seg', returned', removed', Top', crashes')
  BY <1>1, <1>6 DEF LogInv, Writes
<1>8. Log!RetentionKept'
  BY <1>1 DEF LogInv, Log!RetentionKept, Log!Rotated
<1> QED  BY <1>1, <1>3, <1>4, <1>5, <1>7, <1>8, CallSteps DEF LogLabels

(* What is known of a call before it writes, and while it does *)
LEMMA BeforeWrite ==
    ASSUME Log!log_limits, LogInv, NEW p \in Writers, step[p] \notin Writes \cup {"idle"}
    PROVE  /\ lock = p /\ lock # None /\ next[p] = records /\ records # 0
           /\ \A q \in Writers : q # p => step[q] = "idle"
           /\ Safe(seg, returned, removed, records, crashes)
<1>1. lock = p /\ next[p] = records /\ records # 0 /\ lock # None
  BY LogLimits DEF LogInv, InCall
<1>2. \A q \in Writers : q # p => step[q] = "idle"
  BY <1>1, Alone
<1>3. Settled = seg /\ Top = records
  BY <1>1, <1>2, SettledOf DEF Top
<1> QED  BY <1>1, <1>2, <1>3 DEF LogInv

LEMMA AtWrite ==
    ASSUME Log!log_limits, LogInv, NEW p \in Writers, step[p] \in Writes
    PROVE  /\ lock = p /\ lock # None /\ next[p] = records /\ records # 0
           /\ \A q \in Writers : q # p => step[q] = "idle"
           /\ Safe([seg EXCEPT ![0] = start], returned, removed, records, crashes)
<1>1. lock = p /\ next[p] = records /\ records # 0 /\ lock # None
  BY LogLimits DEF LogInv, InCall, Writes
<1>2. \A q \in Writers : q # p => step[q] = "idle"
  BY <1>1, Alone
<1>3. Settled = [seg EXCEPT ![0] = start] /\ Top = records
  BY <1>1, <1>2, SettledOf DEF Top
<1> QED  BY <1>1, <1>2, <1>3 DEF LogInv

LEMMA NeededType == ASSUME Log!log_limits, NEW b \in BOOLEAN
                    PROVE  Log!Needed(b) \in Nat /\ Log!Needed(b) > (IF b THEN 1 ELSE 0) + 1
  BY SMT, LogLimits DEF Log!Needed

LEMMA ActiveType == ASSUME Log!log_limits, LogType PROVE Log!Active \in Log!Segment
<1>1. Log!Empty \in Log!Segment
  BY SMT DEF Log!Empty, Log!Segment
<1> QED  BY <1>1, LogLimits DEF LogType, Files, Log!Active

(* nothing but the active segment changes *)
LEMMA RotatedSame ==
    ASSUME Log!log_limits, LogType, Log!RetentionKept, seg' \in Files, \A i \in Slots : i # 0 => seg'[i] = seg[i],
           rotations' = rotations
    PROVE  Log!RetentionKept'
<1>1. \A i \in 1 .. Log!oldest : i \in Slots /\ i # 0
  BY SMT, LogLimits DEF Slots
<1>2. Log!Rotated' = Log!Rotated
  BY <1>1 DEF Log!Rotated
<1> QED  BY <1>2 DEF Log!RetentionKept

LEMMA NothingWritten ==
    ASSUME Log!log_limits, LogType', written' = 0, NEW p \in Writers
    PROVE  Log!After(p, written)' = start' /\ written' <= Log!Needed(newline)'
<1>1. newline' \in BOOLEAN /\ start' \in Log!Segment /\ start'.bytes \in Nat
  BY DEF LogType, Log!Segment
<1>2. PICK w \in Nat : w = Log!Needed(newline)' /\ w # 0 /\ 0 <= w
  BY SMT, <1>1, LogLimits DEF Log!Needed
<1>3. ~(0 > IF newline' THEN 1 ELSE 0) /\ start'.bytes + 0 = start'.bytes
  BY SMT, <1>1
<1>4. Log!After(p, written)' = [bytes |-> start'.bytes, lines |-> start'.lines]
  BY <1>2, <1>3 DEF Log!After
<1>5. start' = [bytes |-> start'.bytes, lines |-> start'.lines]
  BY SMT, <1>1 DEF Log!Segment
<1> QED  BY <1>2, <1>4, <1>5

LEMMA OpenKeeps == ASSUME Log!log_limits, LogInv, NEW p \in Writers, Log!Open(p) PROVE LogInv'
<1> DEFINE a == Log!Active
           l == IF a.bytes + Log!Needed(torn) <= segment_bytes THEN "write" ELSE "rotate"
<1>1. /\ step[p] = "open" /\ start' = a /\ newline' = torn /\ written' = 0
      /\ step' = [step EXCEPT ![p] = l] /\ seg' = [seg EXCEPT ![0] = a]
      /\ UNCHANGED <<torn, lock, next, records, returned, removed, rotations, crashes>>
  BY DEF Log!Open, Log!Goto, Log!count
<1>2. /\ lock = p /\ lock # None /\ next[p] = records /\ records # 0
      /\ \A q \in Writers : q # p => step[q] = "idle"
      /\ Safe(seg, returned, removed, records, crashes)
  BY <1>1, BeforeWrite DEF Writes
<1>3. a \in Log!Segment /\ a # None /\ seg \in Files
  BY ActiveType, LogLimits DEF LogInv, LogType
<1>4. /\ a.bytes <= segment_bytes
      /\ \/ seg[0] # None /\ a.lines = seg[0].lines
         \/ seg[0] = None /\ a.lines = <<>>
  <2>1. CASE seg[0] = None
    <3>1. a.bytes = 0 /\ a.lines = <<>>
      BY <2>1 DEF Log!Active, Log!Empty
    <3> QED  BY SMT, <2>1, <3>1, LogLimits
  <2>2. CASE seg[0] # None
    <3>1. a = seg[0] /\ Fits(seg)
      BY <1>2, <2>2 DEF Log!Active, Safe
    <3>2. seg[0].bytes <= segment_bytes
      BY <2>2, <3>1, LogLimits DEF Fits
    <3> QED  BY <2>2, <3>1, <3>2
  <2> QED  BY <2>1, <2>2
<1>5. /\ seg' \in Files /\ InOrder(seg') /\ Fits(seg') /\ Torn(seg') = Torn(seg)
      /\ \A n \in Nat : Holds(seg', n) <=> Holds(seg, n)
  <2>1. InOrder(seg) /\ Fits(seg)
    BY <1>2 DEF Safe
  <2> HIDE DEF a
  <2> QED  BY <1>1, <1>3, <1>4, <2>1, SameLines
<1>6. Safe(seg', returned', removed', Top', crashes')
  <2>1. Top' = records
    BY <1>1, <1>2 DEF Top
  <2>2. returned \subseteq Nat
    BY DEF LogInv, LogType
  <2> QED  BY <1>1, <1>2, <1>5, <2>1, <2>2 DEF Safe
<1>7. seg'[0] = a /\ \A i \in Slots : i # 0 => seg'[i] = seg[i]
  BY <1>1, <1>3, LogLimits DEF Files
<1>8. [seg' EXCEPT ![0] = start'] = seg'
  BY <1>1, <1>5, <1>7, LogLimits DEF Files
<1>9. Log!RetentionKept'
  BY <1>1, <1>5, <1>7, RotatedSame DEF LogInv
<1>10. l \in LogLabels /\ l \in {"write", "rotate"} /\ (l = "write" => a.bytes + Log!Needed(torn) <= segment_bytes)
  BY DEF LogLabels
<1> HIDE DEF l, a
<1>11. LogType'
  <2>1. 0 \in Nat
    BY SMT
  <2>2. step' \in [Writers -> LogLabels]
    BY <1>1, <1>10 DEF LogInv, LogType
  <2> QED  BY <1>1, <1>3, <1>5, <2>1, <2>2 DEF LogInv, LogType
<1>12. InCall(p)'
  <2>1. step'[p] = l
    BY <1>1 DEF LogInv, LogType
  <2>2. /\ step'[p] # "idle" => lock' = p /\ next'[p] = records' /\ records' # 0
        /\ step'[p] \in {"rotate", "shift"} => seg'[0] # None
        /\ step'[p] = "reopen" => seg'[0] = None
        /\ step'[p] \in {"rotate", "shift", "reopen"} => written' = 0
        /\ step'[p] # "close"
    BY <1>1, <1>2, <1>3, <1>7, <1>10, <2>1
  <2>3. Log!After(p, written)' = start' /\ written' <= Log!Needed(newline)'
    <3>1. LogType' /\ written' = 0
      BY <1>1, <1>11
    <3> QED  BY <3>1, NothingWritten
  <2>4. start'.bytes + Log!Needed(newline)' <= segment_bytes \/ l # "write"
    BY <1>1, <1>10 DEF Log!Needed
  <2>5. step'[p] \in Writes => l = "write"
    BY <1>10, <2>1 DEF Writes
  <2> QED  BY <1>1, <1>7, <2>1, <2>2, <2>3, <2>4, <2>5 DEF InCall
<1>13. Safe(IF l \in Writes THEN [seg' EXCEPT ![0] = start'] ELSE seg', returned', removed', Top', crashes')
  BY <1>6, <1>8
<1> QED  BY <1>1, <1>2, <1>9, <1>10, <1>11, <1>12, <1>13, CallSteps

LEMMA SameCardinality == \A S : Log!Cardinality(S) = Cardinality(S)
  BY DEF Log!Cardinality, Cardinality

LEMMA RotatedFinite == ASSUME Log!log_limits PROVE IsFiniteSet(Log!Rotated) /\ Cardinality(Log!Rotated) \in Nat
<1>1. IsFiniteSet(1 .. Log!oldest)
  <2>1. Log!oldest \in Int /\ 1 \in Int
    BY SMT, LogLimits
  <2> QED  BY <2>1, FS_Interval
<1>2. Log!Rotated \in SUBSET (1 .. Log!oldest)
  BY DEF Log!Rotated
<1>3. IsFiniteSet(Log!Rotated)
  BY <1>1, <1>2, FS_Subset
<1> QED  BY <1>3, FS_CardinalityType

LEMMA FewerTorn ==
    ASSUME Log!log_limits, NEW g, NEW h, Torn(h) \subseteq Torn(g), NEW n \in Nat, Cardinality(Torn(g)) <= n
    PROVE  Cardinality(Torn(h)) <= n
<1>1. Cardinality(Torn(h)) <= Cardinality(Torn(g))
  BY TornFinite, FS_Subset
<1>2. Cardinality(Torn(h)) \in Nat /\ Cardinality(Torn(g)) \in Nat
  BY TornFinite
<1> QED  BY SMT, <1>1, <1>2

(* the promises when the oldest segment is gone *)
LEMMA SafeRemoved ==
    ASSUME Log!log_limits, NEW g, NEW back \in SUBSET Nat, NEW gone \in SUBSET Nat, NEW top, NEW deaths \in Nat,
           Safe(g, back, gone, top, deaths), NEW o \in Slots, \A i \in Slots : i # o => o > i,
           g[o] # None, NEW h, h = [g EXCEPT ![o] = None]
    PROVE  /\ Safe(h, back, gone \cup Log!Lines(g[o]), top, deaths)
           /\ gone \cup Log!Lines(g[o]) \subseteq Nat
<1>2. g \in Files /\ InOrder(g) /\ Fits(g)
  BY DEF Safe
<1>3. /\ h \in Files /\ InOrder(h) /\ Fits(h) /\ Torn(h) \subseteq Torn(g)
      /\ \A n \in Nat : Holds(h, n) => Holds(g, n)
      /\ \A n \in Nat : Holds(g, n) => Holds(h, n) \/ \E k : Line(g, o, k) /\ g[o].lines[k] = n
  <2>1. Dropped(g, o, h)
    BY <1>2, SegmentRemoved
  <2> QED  BY <2>1 DEF Dropped
<1>4. PICK old : old = Log!Lines(g[o])
  OBVIOUS
<1>5. \A n : n \in old <=> \E k : Line(g, o, k) /\ g[o].lines[k] = n
  BY <1>4 DEF Log!Lines, Line
<1>6. old \subseteq Nat /\ \A n \in old : Holds(g, n)
  BY <1>2, <1>5, LineType DEF Holds
<1>7. \A n \in back : Holds(h, n) \/ n \in gone \cup old
  BY <1>3, <1>5 DEF Safe
<1>8. \A n \in Nat : Holds(h, n) \/ n \in gone \cup old => n < top
  BY <1>3, <1>6 DEF Safe
<1>9. ASSUME NEW n \in old, NEW m \in Nat, Holds(h, m) PROVE m = 0 \/ n < m
  <2>1. PICK k : Line(g, o, k) /\ g[o].lines[k] = n
    BY <1>5
  <2>2. PICK i, l : i \in Slots /\ Line(h, i, l) /\ h[i].lines[l] = m
    BY <1>9 DEF Holds
  <2>3. i # o /\ h[i] = g[i]
    BY <1>2, <2>2 DEF Line, Files
  <2>4. Line(g, i, l) /\ g[i].lines[l] = m
    BY <2>2, <2>3 DEF Line
  <2>5. Older(g, o, k, i, l)
    BY <1>2, <2>1, <2>2, <2>4 DEF InOrder
  <2>6. 0 \in {n, m} \/ n < m
    BY <2>1, <2>2, <2>3, <2>4, <2>5 DEF Older
  <2>7. n \in Nat
    BY <1>6
  <2> QED  BY SMT, <2>6, <2>7
<1>10. \A n \in gone \cup old, m \in Nat : Holds(h, m) => m = 0 \/ n < m
  BY <1>3, <1>9 DEF Safe
<1>11. Cardinality(Torn(h)) <= deaths
  BY <1>3, FewerTorn DEF Safe
<1> QED  BY <1>3, <1>4, <1>6, <1>7, <1>8, <1>10, <1>11 DEF Safe

LEMMA RemoveOldestKeeps == ASSUME Log!log_limits, LogInv, NEW p \in Writers, Log!RemoveOldest(p) PROVE LogInv'
<1>1. /\ step[p] = "rotate" /\ step' = [step EXCEPT ![p] = "shift"]
      /\ UNCHANGED <<torn, lock, start, newline, written, next, records, returned, rotations, crashes>>
  BY DEF Log!RemoveOldest, Log!Goto, Log!call
<1>2. /\ lock = p /\ lock # None /\ next[p] = records /\ records # 0
      /\ \A q \in Writers : q # p => step[q] = "idle"
      /\ Safe(seg, returned, removed, records, crashes)
  BY <1>1, BeforeWrite DEF Writes
<1>3. /\ seg[0] # None /\ written = 0 /\ returned \subseteq Nat /\ removed \subseteq Nat /\ crashes \in Nat
      /\ seg \in Files
  BY <1>1 DEF LogInv, InCall, LogType
<1>4. Top' = records /\ step'[p] = "shift"
  BY <1>1, <1>2 DEF Top, LogInv, LogType
<1>5. ASSUME seg'[0] # None, seg' \in Files, removed' \subseteq Nat, Log!RetentionKept',
             Safe(seg', returned, removed', records, crashes)
      PROVE  LogInv'
  <2>1. LogType'
    BY <1>1, <1>5 DEF LogInv, LogType, LogLabels
  <2>2. InCall(p)'
    BY <1>1, <1>2, <1>3, <1>4, <1>5 DEF InCall, Writes
  <2>3. Safe(IF "shift" \in Writes THEN [seg' EXCEPT ![0] = start'] ELSE seg',
             returned', removed', Top', crashes')
    BY <1>1, <1>4, <1>5 DEF Writes
  <2> QED  BY <1>1, <1>2, <1>5, <2>1, <2>2, <2>3, CallSteps DEF LogLabels
<1>6. CASE UNCHANGED <<seg, removed>>
  <2>1. Log!RetentionKept'
    BY <1>1, <1>6 DEF LogInv, Log!RetentionKept, Log!Rotated
  <2> QED  BY <1>2, <1>3, <1>5, <1>6, <2>1
<1>7. ASSUME Log!Free = {}, seg' = [seg EXCEPT ![Log!oldest] = None],
             removed' = removed \cup Log!Lines(seg[Log!oldest])
      PROVE  LogInv'
  <2>1. Log!oldest \in 1 .. Log!oldest /\ Log!oldest # 0 /\ Log!oldest \in Slots /\ 0 \in Slots
    BY SMT, LogLimits DEF Slots
  <2>2. seg[Log!oldest] # None
    BY <1>7, <2>1 DEF Log!Free
  <2>3. Safe(seg', returned, removed', records, crashes) /\ removed' \subseteq Nat
    <3>1. \A i \in Slots : i # Log!oldest => Log!oldest > i
      BY SMT, LogLimits DEF Slots
    <3> QED  BY <1>2, <1>3, <1>7, <2>1, <2>2, <3>1, SafeRemoved
  <2>4. seg'[0] # None /\ seg' \in Files
    BY <1>3, <1>7, <2>1, <2>3 DEF Safe, Files
  <2>5. Log!RetentionKept'
    <3>1. \A i \in 1 .. Log!oldest : i \in Slots /\ seg[i] # None
      <4>1. \A i \in 1 .. Log!oldest : i \in Slots
        BY SMT, LogLimits DEF Slots
      <4> QED  BY <1>7, <4>1 DEF Log!Free
    <3>2. Log!Rotated = 1 .. Log!oldest
      BY <3>1 DEF Log!Rotated
    <3>3. Log!Rotated' = (1 .. Log!oldest) \ {Log!oldest}
      BY <1>3, <1>7, <2>1, <3>1 DEF Log!Rotated, Files
    <3>4. IsFiniteSet(1 .. Log!oldest) /\ Cardinality(1 .. Log!oldest) = Log!oldest
      <4>1. Log!oldest \in Int /\ 1 \in Int /\ ~(1 > Log!oldest) /\ Log!oldest - 1 + 1 = Log!oldest
        BY SMT, LogLimits
      <4> QED  BY <4>1, FS_Interval
    <3>5. Cardinality(Log!Rotated') = Log!oldest - 1
      BY <2>1, <3>3, <3>4, FS_RemoveElement
    <3>6. Cardinality(Log!Rotated') + 1 >= Log!oldest
      BY SMT, <3>5, LogLimits
    <3> QED  BY <3>6, SameCardinality DEF Log!RetentionKept
  <2> QED  BY <1>5, <2>3, <2>4, <2>5
<1> QED  BY <1>6, <1>7 DEF Log!RemoveOldest

LEMMA ShiftKeeps == ASSUME Log!log_limits, LogInv, NEW p \in Writers, Log!Shift(p) PROVE LogInv'
<1>1. /\ step[p] = "shift"
      /\ UNCHANGED <<lock, start, newline, written, next, records, returned, removed, crashes>>
  BY DEF Log!Shift, Log!call
<1>2. /\ lock = p /\ lock # None /\ next[p] = records /\ records # 0
      /\ \A q \in Writers : q # p => step[q] = "idle"
      /\ Safe(seg, returned, removed, records, crashes)
  BY <1>1, BeforeWrite DEF Writes
<1>3. /\ seg[0] # None /\ written = 0 /\ returned \subseteq Nat /\ crashes \in Nat /\ seg \in Files
      /\ rotations \in Nat /\ step \in [Writers -> LogLabels]
  BY <1>1 DEF LogInv, InCall, LogType
<1>4. PICK j \in 0 .. Log!oldest - 1 :
          /\ j + 1 \in Log!Free /\ \A i \in Log!Free : j < i
          /\ seg' = [seg EXCEPT ![j + 1] = seg[j], ![j] = None]
          /\ \/ j > 0 /\ UNCHANGED <<torn, step, rotations>>
             \/ /\ j = 0 /\ rotations' = rotations + 1 /\ torn' = FALSE
                /\ step' = [step EXCEPT ![p] = "reopen"]
  BY DEF Log!Shift, Log!Goto
<1>5. /\ j \in Slots /\ j + 1 \in Slots /\ 0 \in Slots /\ j + 1 # 0 /\ j # j + 1 /\ j \in Nat
      /\ j + 1 \in 1 .. Log!oldest /\ (j > 0 => j # 0 /\ j \in 1 .. Log!oldest) /\ j \notin Log!Free
      /\ \A i \in 1 .. Log!oldest : i \in Slots /\ i # 0
  BY SMT, <1>4, LogLimits DEF Slots, Log!Free
<1>6. seg[j + 1] = None
  BY <1>4 DEF Log!Free
<1>7. Moved(seg, seg')
  <2>1. InOrder(seg) /\ Fits(seg)
    BY <1>2 DEF Safe
  <2> QED  BY <1>3, <1>4, <1>5, <1>6, <2>1, SegmentMoved
<1>8. /\ seg' \in Files /\ seg'[j + 1] = seg[j] /\ seg'[j] = None
      /\ \A i \in Slots : i # j /\ i # j + 1 => seg'[i] = seg[i]
  BY <1>3, <1>4, <1>5, <1>7 DEF Moved, Files
<1>9. Safe(seg', returned, removed, records, crashes)
  <2>1. Cardinality(Torn(seg')) <= crashes
    <3>1. Cardinality(Torn(seg')) \in Nat /\ Cardinality(Torn(seg)) \in Nat
      BY TornFinite
    <3>2. Cardinality(Torn(seg')) <= Cardinality(Torn(seg)) /\ Cardinality(Torn(seg)) <= crashes
      BY <1>2, <1>7 DEF Moved, Safe
    <3> QED  BY SMT, <1>3, <3>1, <3>2
  <2> QED  BY <1>2, <1>3, <1>7, <2>1 DEF Moved, Safe
<1>10. Top' = records
  BY <1>1, <1>2 DEF Top
<1>11. CASE j > 0 /\ UNCHANGED <<torn, step, rotations>>
  <2>1. seg[j] # None /\ j \in 1 .. Log!oldest
    BY <1>5, <1>11 DEF Log!Free
  <2>2. Log!Rotated' = (Log!Rotated \ {j}) \cup {j + 1}
    BY <1>5, <1>8, <2>1 DEF Log!Rotated
  <2>3. j \in Log!Rotated /\ j + 1 \notin Log!Rotated \ {j}
    BY <1>6, <2>1 DEF Log!Rotated
  <2>4. Cardinality(Log!Rotated') = Cardinality(Log!Rotated)
    <3>1. IsFiniteSet(Log!Rotated) /\ Cardinality(Log!Rotated) \in Nat
      BY RotatedFinite
    <3>2. IsFiniteSet(Log!Rotated \ {j}) /\ Cardinality(Log!Rotated \ {j}) = Cardinality(Log!Rotated) - 1
      BY <2>3, <3>1, FS_RemoveElement
    <3>3. Cardinality((Log!Rotated \ {j}) \cup {j + 1}) = Cardinality(Log!Rotated \ {j}) + 1
      BY <2>3, <3>2, FS_AddElement
    <3>4. Cardinality((Log!Rotated \ {j}) \cup {j + 1}) = Cardinality(Log!Rotated)
      BY SMT, <3>1, <3>2, <3>3
    <3> QED  BY <2>2, <3>4
  <2>5. Log!RetentionKept'
    BY <1>11, <2>4, SameCardinality DEF LogInv, Log!RetentionKept
  <2>6. LogType'
    BY <1>1, <1>8, <1>11 DEF LogInv, LogType
  <2>7. seg'[0] # None
    BY <1>3, <1>5, <1>8, <1>11
  <2>8. InCall(p)'
    BY <1>1, <1>2, <1>3, <1>11, <2>7 DEF InCall, Writes
  <2>9. step' = [step EXCEPT ![p] = "shift"]
    BY <1>1, <1>3, <1>11
  <2>10. Safe(IF "shift" \in Writes THEN [seg' EXCEPT ![0] = start'] ELSE seg',
              returned', removed', Top', crashes')
    BY <1>1, <1>9, <1>10 DEF Writes
  <2> QED  BY <1>2, <2>5, <2>6, <2>8, <2>9, <2>10, CallSteps DEF LogLabels
<1>12. CASE j = 0 /\ rotations' = rotations + 1 /\ torn' = FALSE /\ step' = [step EXCEPT ![p] = "reopen"]
  <2>1. Log!Rotated' = Log!Rotated \cup {1} /\ 1 \notin Log!Rotated /\ seg'[0] = None
    <3>1. /\ seg'[1] = seg[0] /\ seg[1] = None /\ 1 \in 1 .. Log!oldest /\ seg'[0] = None
          /\ \A i \in 1 .. Log!oldest : i # 1 => seg'[i] = seg[i]
      <4>1. j + 1 = 1
        BY SMT, <1>12
      <4> QED  BY <1>5, <1>6, <1>8, <1>12, <4>1
    <3> QED  BY <1>3, <3>1 DEF Log!Rotated
  <2>2. Cardinality(Log!Rotated') = Cardinality(Log!Rotated) + 1
    BY <2>1, RotatedFinite, FS_AddElement
  <2>3. Log!RetentionKept'
    <3>1. PICK c \in Nat : c = Cardinality(Log!Rotated)
      BY RotatedFinite
    <3>2. c + 1 >= rotations \/ c + 1 >= Log!oldest
      BY <3>1, SameCardinality DEF LogInv, Log!RetentionKept
    <3>3. (c + 1) + 1 >= rotations + 1 \/ (c + 1) + 1 >= Log!oldest
      BY SMT, <1>3, <3>2, LogLimits
    <3> QED  BY <1>12, <2>2, <3>1, <3>3, SameCardinality DEF Log!RetentionKept
  <2>4. LogType'
    <3>1. rotations' \in Nat
      BY SMT, <1>3, <1>12
    <3>2. torn' \in BOOLEAN /\ step' \in [Writers -> LogLabels]
      BY <1>3, <1>12 DEF LogLabels
    <3> QED  BY <1>1, <1>8, <3>1, <3>2 DEF LogInv, LogType
  <2>5. step'[p] = "reopen"
    BY <1>3, <1>12
  <2>6. InCall(p)'
    BY <1>1, <1>2, <1>3, <2>1, <2>5 DEF InCall, Writes
  <2>7. Safe(IF "reopen" \in Writes THEN [seg' EXCEPT ![0] = start'] ELSE seg',
             returned', removed', Top', crashes')
    BY <1>1, <1>9, <1>10 DEF Writes
  <2> QED  BY <1>2, <1>12, <2>3, <2>4, <2>6, <2>7, CallSteps DEF LogLabels
<1> QED  BY <1>4, <1>11, <1>12

LEMMA ReopenKeeps == ASSUME Log!log_limits, LogInv, NEW p \in Writers, Log!Reopen(p) PROVE LogInv'
<1>1. PICK a : a = Log!Active
  OBVIOUS
<1>2. /\ step[p] = "reopen" /\ step' = [step EXCEPT ![p] = "write"]
      /\ seg' = [seg EXCEPT ![0] = a] /\ start' = a /\ newline' = FALSE
      /\ UNCHANGED <<torn, lock, written, next, records, returned, removed, rotations, crashes>>
  BY <1>1 DEF Log!Reopen, Log!Goto, Log!count
<1>3. /\ lock = p /\ lock # None /\ next[p] = records /\ records # 0
      /\ \A q \in Writers : q # p => step[q] = "idle"
      /\ Safe(seg, returned, removed, records, crashes)
  BY <1>2, BeforeWrite DEF Writes
<1>4. seg[0] = None /\ written = 0 /\ seg \in Files
  BY <1>2 DEF LogInv, LogType, InCall
<1>5. a \in Log!Segment /\ a # None /\ a.bytes = 0 /\ a.lines = <<>>
  BY <1>1, <1>4, ActiveType, LogLimits DEF LogInv, Log!Active, Log!Empty
<1>6. a.bytes <= segment_bytes /\ a.bytes + RecordBytes <= segment_bytes
  BY SMT, <1>5, LogLimits
<1>7. /\ seg' \in Files /\ InOrder(seg') /\ Fits(seg') /\ Torn(seg') = Torn(seg)
      /\ \A n \in Nat : Holds(seg', n) <=> Holds(seg, n)
  <2>1. InOrder(seg) /\ Fits(seg)
    BY <1>3 DEF Safe
  <2> QED  BY <1>2, <1>4, <1>5, <1>6, <2>1, SameLines
<1>8. Safe(seg', returned', removed', Top', crashes')
  <2>1. Top' = records
    BY <1>2, <1>3 DEF Top
  <2>2. returned \subseteq Nat
    BY DEF LogInv, LogType
  <2> QED  BY <1>2, <1>3, <1>7, <2>1, <2>2 DEF Safe
<1>9. seg'[0] = a /\ \A i \in Slots : i # 0 => seg'[i] = seg[i]
  BY <1>2, <1>4, LogLimits DEF Files
<1>10. [seg' EXCEPT ![0] = start'] = seg'
  BY <1>2, <1>7, <1>9, LogLimits DEF Files
<1>11. Log!RetentionKept'
  BY <1>2, <1>7, <1>9, RotatedSame DEF LogInv
<1>12. LogType'
  BY <1>2, <1>5, <1>7 DEF LogInv, LogType, LogLabels
<1>13. InCall(p)'
  <2>1. step'[p] = "write"
    BY <1>2 DEF LogInv, LogType
  <2>2. Log!After(p, written)' = start' /\ written' <= Log!Needed(newline)'
    BY <1>2, <1>4, <1>12, NothingWritten
  <2>3. start'.bytes + Log!Needed(newline)' <= segment_bytes
    <3>1. Log!Needed(newline)' = RecordBytes
      BY SMT, <1>2, LogLimits DEF Log!Needed
    <3> QED  BY <1>2, <1>6, <3>1
  <2> QED  BY <1>2, <1>3, <1>9, <2>1, <2>2, <2>3 DEF InCall
<1>14. Safe(IF "write" \in Writes THEN [seg' EXCEPT ![0] = start'] ELSE seg',
            returned', removed', Top', crashes')
  BY <1>8, <1>10
<1> QED  BY <1>2, <1>3, <1>11, <1>12, <1>13, <1>14, CallSteps DEF LogLabels

(* what _append has written so far: no line, a fragment, or the record *)
LEMMA AfterIs ==
    ASSUME Log!log_limits, LogType, NEW p \in Writers, NEW k \in Nat, k <= Log!Needed(newline)
    PROVE  /\ Log!After(p, k) \in Log!Segment /\ Log!After(p, k).bytes = start.bytes + k
           /\ \/ Log!After(p, k).lines = start.lines
              \/ Log!After(p, k).lines = Append(start.lines, 0)
              \/ Log!After(p, k).lines = Append(start.lines, next[p])
           /\ k = Log!Needed(newline) => Log!After(p, k).lines = Append(start.lines, next[p])
<1>1. start.lines \in Seq(Nat) /\ start.bytes \in Nat /\ next[p] \in Nat
  BY DEF LogType, Log!Segment
<1>2. /\ Append(start.lines, 0) \in Seq(Nat) /\ Append(start.lines, next[p]) \in Seq(Nat)
      /\ start.bytes + k \in Nat
  BY SMT, <1>1
<1>3. PICK ls : ls = IF k = Log!Needed(newline) THEN Append(start.lines, next[p])
                     ELSE IF k > IF newline THEN 1 ELSE 0 THEN Append(start.lines, 0)
                     ELSE start.lines
  OBVIOUS
<1>4. /\ ls = start.lines \/ ls = Append(start.lines, 0) \/ ls = Append(start.lines, next[p])
      /\ k = Log!Needed(newline) => ls = Append(start.lines, next[p])
  BY <1>3
<1>5. Log!After(p, k) = [bytes |-> start.bytes + k, lines |-> ls]
  BY <1>3 DEF Log!After
<1>6. ls \in Seq(Nat)
  BY <1>1, <1>2, <1>4
<1>7. Log!After(p, k) \in Log!Segment
  BY SMT, <1>2, <1>5, <1>6 DEF Log!Segment
<1>8. Log!After(p, k).bytes = start.bytes + k /\ Log!After(p, k).lines = ls
  BY SMT, <1>5
<1> QED  BY <1>4, <1>7, <1>8

LEMMA AppendKeeps == ASSUME Log!log_limits, LogInv, NEW p \in Writers, Log!Write(p) PROVE LogInv'
<1>1. PICK k \in written + 1 .. Log!Needed(newline) :
          /\ seg' = [seg EXCEPT ![0] = Log!After(p, k)] /\ torn' \in BOOLEAN /\ written' = k
          /\ step' = [step EXCEPT ![p] = IF k = Log!Needed(newline) THEN "close" ELSE "write"]
  BY DEF Log!Write, Log!Goto
<1>2. /\ step[p] = "write"
      /\ UNCHANGED <<lock, start, newline, next, records, returned, removed, rotations, crashes>>
  BY DEF Log!Write, Log!count
<1>3. /\ lock = p /\ lock # None /\ next[p] = records /\ records # 0
      /\ \A q \in Writers : q # p => step[q] = "idle"
      /\ Safe([seg EXCEPT ![0] = start], returned, removed, records, crashes)
  BY <1>2, AtWrite DEF Writes
<1>4. LogType /\ seg \in Files /\ start.bytes + Log!Needed(newline) <= segment_bytes
  BY <1>2 DEF LogInv, LogType, InCall, Writes
<1>5. k \in Nat /\ k <= Log!Needed(newline)
  <2>1. Log!Needed(newline) \in Nat /\ written \in Nat
    BY <1>4, NeededType DEF LogType
  <2> QED  BY SMT, <2>1
<1>6. PICK a \in Log!Segment : a = Log!After(p, k)
  BY <1>4, <1>5, AfterIs
<1>7. PICK l \in LogLabels : /\ l = IF k = Log!Needed(newline) THEN "close" ELSE "write"
                             /\ l \in Writes /\ step' = [step EXCEPT ![p] = l]
  BY <1>1 DEF LogLabels, Writes
<1>8. seg' \in Files /\ seg'[0] = a /\ \A i \in Slots : i # 0 => seg'[i] = seg[i]
  BY <1>1, <1>4, <1>6, LogLimits DEF Files
<1>9. [seg' EXCEPT ![0] = start'] = [seg EXCEPT ![0] = start]
  BY <1>2, <1>4, <1>8, LogLimits DEF Files
<1>10. Log!RetentionKept'
  BY <1>2, <1>4, <1>8, RotatedSame DEF LogInv
<1>11. LogType'
  BY <1>1, <1>2, <1>4, <1>5, <1>7, <1>8 DEF LogType
<1>12. InCall(p)'
  <2>1. step'[p] = l
    BY <1>4, <1>7 DEF LogType
  <2>2. Log!Needed(newline)' = Log!Needed(newline)
    BY <1>2 DEF Log!Needed
  <2>3. Log!After(p, written)' = a
    BY <1>1, <1>2, <1>6 DEF Log!After, Log!Needed
  <2> QED  BY <1>1, <1>2, <1>3, <1>4, <1>5, <1>7, <1>8, <2>1, <2>2, <2>3 DEF InCall, Writes
<1>13. Safe(IF l \in Writes THEN [seg' EXCEPT ![0] = start'] ELSE seg', returned', removed', Top', crashes')
  <2>1. Top' = records
    BY <1>2, <1>3 DEF Top
  <2> QED  BY <1>2, <1>3, <1>7, <1>9, <2>1
<1> QED  BY <1>3, <1>7, <1>10, <1>11, <1>12, <1>13, CallSteps

(* A call ends: the lock is free, and the segments have what it left there. *)
LEMMA LeaveKeeps ==
    ASSUME Log!log_limits, LogInv, NEW p \in Writers, lock = p, \A q \in Writers : q # p => step[q] = "idle",
           Log!Leave(p), torn' \in BOOLEAN, \A i \in Slots : i # 0 => seg'[i] = seg[i],
           records' = records, rotations' = rotations, removed' = removed,
           returned' \subseteq Nat, crashes' \in Nat,
           Safe(seg', returned', removed', records + 1, crashes')
    PROVE  LogInv'
<1>1. /\ step' = [step EXCEPT ![p] = "idle"] /\ next' = [next EXCEPT ![p] = 0]
      /\ lock' = None /\ start' = Log!Empty /\ newline' = FALSE /\ written' = 0
  BY DEF Log!Leave
<1>2. LogType
  BY DEF LogInv
<1>3. Log!Empty \in Log!Segment
  BY SMT DEF Log!Empty, Log!Segment
<1>4. seg' \in Files
  BY DEF Safe
<1>5. 0 \in Nat
  BY SMT
<1>6. LogType'
  BY <1>1, <1>2, <1>3, <1>4, <1>5 DEF LogType, LogLabels
<1>7. Log!RetentionKept'
  BY <1>2, <1>4, RotatedSame DEF LogInv
<1>8. step'[p] = "idle"
  BY <1>1, <1>2 DEF LogType
<1>9. InCall(p)'
  BY <1>8 DEF InCall, Writes
<1>10. Top' = records + 1
  BY <1>1 DEF Top
<1>11. "idle" \in LogLabels /\ "idle" \notin Writes
  BY DEF LogLabels, Writes
<1>12. Safe(IF "idle" \in Writes THEN [seg' EXCEPT ![0] = start'] ELSE seg',
            returned', removed', Top', crashes')
  BY <1>10, <1>11
<1> QED  BY <1>1, <1>6, <1>7, <1>9, <1>11, <1>12, CallSteps

LEMMA SafeLater ==
    ASSUME Log!log_limits, NEW g, NEW back, NEW gone \in SUBSET Nat, NEW top \in Nat, NEW deaths \in Nat,
           Safe(g, back, gone, top, deaths)
    PROVE  Safe(g, back, gone, top + 1, deaths) /\ Safe(g, back, gone, top + 1, deaths + 1)
<1>1. \A n \in Nat : n < top => n < top + 1
  BY SMT
<1>2. Cardinality(Torn(g)) <= deaths + 1
  <2>1. Cardinality(Torn(g)) \in Nat /\ Cardinality(Torn(g)) <= deaths
    BY TornFinite DEF Safe
  <2> QED  BY SMT, <2>1
<1> QED  BY <1>1, <1>2 DEF Safe

LEMMA CallFailsKeeps == ASSUME Log!log_limits, LogInv, NEW p \in Writers, Log!CallFails(p) PROVE LogInv'
<1>1. /\ step[p] \in {"open", "rotate", "shift", "reopen"} /\ Log!Leave(p)
      /\ UNCHANGED <<seg, torn, records, returned, removed, rotations, crashes>>
  BY DEF Log!CallFails, Log!files
<1>2. /\ lock = p /\ \A q \in Writers : q # p => step[q] = "idle"
      /\ Safe(seg, returned, removed, records, crashes)
  BY <1>1, BeforeWrite DEF Writes
<1>3. torn \in BOOLEAN /\ returned \subseteq Nat /\ removed \in SUBSET Nat /\ records \in Nat /\ crashes \in Nat
  BY DEF LogInv, LogType
<1>4. Safe(seg, returned, removed, records + 1, crashes)
  BY <1>2, <1>3, SafeLater
<1> QED  BY <1>1, <1>2, <1>3, <1>4, LeaveKeeps

LEMMA WriteFailsKeeps == ASSUME Log!log_limits, LogInv, NEW p \in Writers, Log!WriteFails(p) PROVE LogInv'
<1>1. /\ step[p] \in Writes /\ Log!Leave(p)
      /\ seg' = [seg EXCEPT ![0] = start] /\ torn' = newline
      /\ UNCHANGED <<records, returned, removed, rotations, crashes>>
  BY DEF Log!WriteFails, Writes
<1>2. /\ lock = p /\ \A q \in Writers : q # p => step[q] = "idle"
      /\ Safe([seg EXCEPT ![0] = start], returned, removed, records, crashes)
  BY <1>1, AtWrite
<1>3. /\ newline \in BOOLEAN /\ returned \subseteq Nat /\ removed \in SUBSET Nat
      /\ records \in Nat /\ crashes \in Nat /\ seg \in Files
  BY DEF LogInv, LogType
<1>4. Safe(seg', returned, removed, records + 1, crashes)
  BY <1>1, <1>2, <1>3, SafeLater
<1>5. \A i \in Slots : i # 0 => seg'[i] = seg[i]
  BY <1>1, <1>3 DEF Files
<1> QED  BY <1>1, <1>2, <1>3, <1>4, <1>5, LeaveKeeps

(* What the call at work has written so far is one line at most. *)
Extended(g, h, m) ==
    /\ h \in Files /\ InOrder(h) /\ Fits(h)
    /\ \A n \in Nat : Holds(g, n) => Holds(h, n)
    /\ \A n \in Nat : Holds(h, n) => Holds(g, n) \/ n \in {0, m}
    /\ Cardinality(Torn(h)) <= Cardinality(Torn(g)) + 1

LEMMA OneTorn == ASSUME Log!log_limits, NEW g, NEW h, NEW f, Torn(h) \subseteq Torn(g) \cup {f}
                 PROVE  Cardinality(Torn(h)) <= Cardinality(Torn(g)) + 1
<1>1. IsFiniteSet(Torn(g)) /\ Cardinality(Torn(g)) \in Nat /\ Cardinality(Torn(h)) \in Nat
  BY TornFinite
<1>2. /\ IsFiniteSet(Torn(g) \cup {f})
      /\ Cardinality(Torn(g) \cup {f}) = Cardinality(Torn(g)) \/ Cardinality(Torn(g) \cup {f}) = Cardinality(Torn(g)) + 1
  BY <1>1, FS_AddElement
<1>3. Cardinality(Torn(h)) <= Cardinality(Torn(g) \cup {f})
  BY <1>2, FS_Subset
<1> QED  BY SMT, <1>1, <1>2, <1>3

LEMMA WrittenSoFar ==
    ASSUME Log!log_limits, LogInv, NEW p \in Writers, step[p] \in Writes, NEW g, g = [seg EXCEPT ![0] = start]
    PROVE  /\ Extended(g, seg, records)
           /\ step[p] = "close" => Holds(seg, records) /\ Torn(seg) \subseteq Torn(g)
<1>1. /\ next[p] = records /\ records # 0
      /\ Safe(g, returned, removed, records, crashes)
  BY AtWrite
<1>2. /\ LogType /\ seg \in Files /\ start \in Log!Segment /\ start.bytes \in Nat
      /\ written \in Nat /\ newline \in BOOLEAN /\ records \in Nat /\ 0 \in Slots
  BY LogLimits DEF LogInv, LogType, Log!Segment
<1>3. /\ seg[0] = Log!After(p, written) /\ written <= Log!Needed(newline)
      /\ start.bytes + Log!Needed(newline) <= segment_bytes
      /\ step[p] = "close" => written = Log!Needed(newline)
  BY DEF LogInv, InCall
<1>4. PICK a \in Log!Segment : a = Log!After(p, written)
  BY <1>2, <1>3, AfterIs
<1>5. /\ a.bytes = start.bytes + written
      /\ a.lines = start.lines \/ a.lines = Append(start.lines, 0) \/ a.lines = Append(start.lines, records)
      /\ step[p] = "close" => a.lines = Append(start.lines, records)
  BY <1>1, <1>2, <1>3, <1>4, AfterIs
<1>6. a.bytes <= segment_bytes
  <2>1. Log!Needed(newline) \in Nat /\ segment_bytes \in Nat
    BY <1>2, NeededType, LogLimits
  <2> QED  BY SMT, <1>2, <1>3, <1>5, <2>1
<1>7. g \in Files /\ g[0] = start /\ seg = [g EXCEPT ![0] = a] /\ start # None
  BY <1>2, <1>3, <1>4, LogLimits DEF Files
<1>8. InOrder(g) /\ Fits(g) /\ \A n \in Nat : Holds(g, n) => n < records
  BY <1>1 DEF Safe
<1>9. CASE a.lines = Append(start.lines, records)
  <2>0. OneMore(g, seg, records, <<0, Len(start.lines) + 1>>)
    BY <1>2, <1>6, <1>7, <1>8, <1>9, LineAppended
  <2>1. /\ seg \in Files /\ InOrder(seg) /\ Fits(seg)
        /\ \A n \in Nat : Holds(seg, n) <=> Holds(g, n) \/ n = records
        /\ records # 0 => Torn(seg) \subseteq Torn(g)
        /\ Torn(seg) \subseteq Torn(g) \cup {<<0, Len(start.lines) + 1>>}
    BY <2>0 DEF OneMore
  <2>2. Torn(seg) \subseteq Torn(g) /\ Holds(seg, records)
    BY <1>1, <1>2, <2>1
  <2>3. Cardinality(Torn(seg)) <= Cardinality(Torn(g)) + 1
    BY <2>1, OneTorn
  <2> QED  BY <2>1, <2>2, <2>3 DEF Extended
<1>10. CASE a.lines = Append(start.lines, 0) /\ step[p] # "close"
  <2>1. 0 \in Nat
    BY SMT
  <2>2. OneMore(g, seg, 0, <<0, Len(start.lines) + 1>>)
    BY <1>2, <1>6, <1>7, <1>8, <1>10, <2>1, LineAppended
  <2>3. Cardinality(Torn(seg)) <= Cardinality(Torn(g)) + 1
    BY <2>2, OneTorn DEF OneMore
  <2> QED  BY <1>10, <2>2, <2>3 DEF OneMore, Extended
<1>11. CASE a.lines = start.lines /\ step[p] # "close"
  <2>1. /\ seg \in Files /\ InOrder(seg) /\ Fits(seg) /\ Torn(seg) = Torn(g)
        /\ \A n \in Nat : Holds(seg, n) <=> Holds(g, n)
    BY <1>6, <1>7, <1>8, <1>11, SameLines
  <2>2. Torn(seg) \subseteq Torn(g) \cup {0}
    BY <2>1
  <2>3. Cardinality(Torn(seg)) <= Cardinality(Torn(g)) + 1
    BY <2>2, OneTorn
  <2> QED  BY <1>11, <2>1, <2>3 DEF Extended
<1> QED  BY <1>5, <1>9, <1>10, <1>11

(* A process is killed with a record in part or in whole in the segment. *)
LEMMA SafeExtended ==
    ASSUME Log!log_limits, NEW g, NEW h, NEW back \in SUBSET Nat, NEW gone \in SUBSET Nat, NEW m \in Nat, NEW deaths \in Nat,
           Safe(g, back, gone, m, deaths), Extended(g, h, m)
    PROVE  Safe(h, back, gone, m + 1, deaths + 1)
<1>1. /\ \A n \in back : Holds(g, n) \/ n \in gone
      /\ \A n \in gone, k \in Nat : Holds(g, k) => k = 0 \/ n < k
      /\ \A n \in Nat : Holds(g, n) \/ n \in gone => n < m
      /\ Cardinality(Torn(g)) <= deaths
  BY DEF Safe
<1>2. /\ h \in Files /\ InOrder(h) /\ Fits(h)
      /\ \A n \in Nat : Holds(g, n) => Holds(h, n)
      /\ \A n \in Nat : Holds(h, n) => Holds(g, n) \/ n = 0 \/ n = m
      /\ Cardinality(Torn(h)) <= Cardinality(Torn(g)) + 1
  BY DEF Extended
<1>3. /\ \A n \in Nat : n < m => n < m + 1
      /\ 0 < m + 1 /\ m < m + 1
  BY SMT
<1>4. Cardinality(Torn(h)) <= deaths + 1
  <2>1. Cardinality(Torn(g)) \in Nat /\ Cardinality(Torn(h)) \in Nat
    BY TornFinite
  <2> QED  BY SMT, <1>1, <1>2, <2>1
<1>5. \A n \in back : Holds(h, n) \/ n \in gone
  BY <1>1, <1>2
<1>6. \A n \in gone, k \in Nat : Holds(h, k) => k = 0 \/ n < k
  BY <1>1, <1>2
<1>7. \A n \in Nat : Holds(h, n) \/ n \in gone => n < m + 1
  BY <1>1, <1>2, <1>3
<1> QED  BY <1>2, <1>4, <1>5, <1>6, <1>7 DEF Safe

(* With what the call at work has written, one fragment more at most. *)
LEMMA AsTheyAre ==
    ASSUME Log!log_limits, LogInv
    PROVE  /\ Safe(seg, returned, removed, records + 1, crashes + 1)
           /\ lock = None => Safe(seg, returned, removed, records + 1, crashes)
<1>1. /\ returned \in SUBSET Nat /\ removed \in SUBSET Nat /\ records \in Nat /\ crashes \in Nat
      /\ records + 1 \in Nat
  <2>1. returned \in SUBSET Nat /\ removed \in SUBSET Nat /\ records \in Nat /\ crashes \in Nat
    BY DEF LogInv, LogType
  <2> QED  BY SMT, <2>1
<1>2. CASE \E p \in Writers : step[p] \in Writes
  <2>1. PICK p \in Writers : step[p] \in Writes
    BY <1>2
  <2>2. PICK g : g = [seg EXCEPT ![0] = start]
    OBVIOUS
  <2>3. lock # None /\ Safe(g, returned, removed, records, crashes)
    BY <2>1, <2>2, AtWrite
  <2>4. Extended(g, seg, records)
    BY <2>1, <2>2, WrittenSoFar
  <2> QED  BY <1>1, <2>3, <2>4, SafeExtended
<1>3. CASE ~\E p \in Writers : step[p] \in Writes
  <2>1. Safe(seg, returned, removed, Top, crashes)
    BY <1>3 DEF LogInv, Settled
  <2>2. Safe(seg, returned, removed, records + 1, crashes)
    BY <1>1, <2>1, SafeLater DEF Top
  <2>3. Cardinality(Torn(seg)) <= crashes + 1
    <3>1. Cardinality(Torn(seg)) \in Nat /\ Cardinality(Torn(seg)) <= crashes
      BY <2>2, TornFinite DEF Safe
    <3> QED  BY SMT, <1>1, <3>1
  <2> QED  BY <2>2, <2>3 DEF Safe
<1> QED  BY <1>2, <1>3

LEMMA CrashKeeps == ASSUME Log!log_limits, LogInv, NEW p \in Writers, Log!Crash(p) PROVE LogInv'
<1>1. /\ step[p] # "idle" /\ Log!Leave(p) /\ crashes' = crashes + 1
      /\ UNCHANGED <<seg, torn, records, returned, removed, rotations>>
  BY DEF Log!Crash, Log!files
<1>2. torn \in BOOLEAN /\ returned \subseteq Nat /\ crashes \in Nat
  BY DEF LogInv, LogType
<1>3. crashes + 1 \in Nat
  BY SMT, <1>2
<1>4. lock = p
  BY <1>1 DEF LogInv, InCall
<1>5. \A q \in Writers : q # p => step[q] = "idle"
  BY <1>4, Alone
<1>6. Safe(seg, returned, removed, records + 1, crashes + 1)
  BY AsTheyAre
<1> QED  BY <1>1, <1>2, <1>3, <1>4, <1>5, <1>6, LeaveKeeps

LEMMA ReturnKeeps == ASSUME Log!log_limits, LogInv, NEW p \in Writers, Log!Return(p) PROVE LogInv'
<1>1. /\ step[p] = "close" /\ step[p] \in Writes /\ Log!Leave(p) /\ returned' = returned \cup {next[p]}
      /\ UNCHANGED <<seg, torn, records, removed, rotations, crashes>>
  BY DEF Log!Return, Log!files, Writes
<1>2. /\ torn \in BOOLEAN /\ returned \in SUBSET Nat /\ removed \in SUBSET Nat
      /\ records \in Nat /\ crashes \in Nat
  BY DEF LogInv, LogType
<1>3. PICK g : g = [seg EXCEPT ![0] = start]
  OBVIOUS
<1>4. /\ lock = p /\ next[p] = records /\ \A q \in Writers : q # p => step[q] = "idle"
      /\ Safe(g, returned, removed, records, crashes)
  BY <1>1, <1>3, AtWrite
<1>5. Extended(g, seg, records) /\ Holds(seg, records) /\ Torn(seg) \subseteq Torn(g)
  BY <1>1, <1>3, WrittenSoFar
<1>6. Safe(seg, returned, removed, records + 1, crashes + 1)
  BY <1>2, <1>4, <1>5, SafeExtended
<1>7. Cardinality(Torn(seg)) <= crashes
  <2>1. /\ IsFiniteSet(Torn(g)) /\ Cardinality(Torn(g)) \in Nat /\ Cardinality(Torn(seg)) \in Nat
    BY TornFinite
  <2>2. Cardinality(Torn(seg)) <= Cardinality(Torn(g))
    BY <1>5, <2>1, FS_Subset
  <2>3. Cardinality(Torn(g)) <= crashes
    BY <1>4 DEF Safe
  <2> QED  BY SMT, <1>2, <2>1, <2>2, <2>3
<1>8. \A n \in returned' : Holds(seg, n) \/ n \in removed
  BY <1>1, <1>4, <1>5, <1>6 DEF Safe
<1>9. Safe(seg, returned', removed, records + 1, crashes)
  BY <1>6, <1>7, <1>8 DEF Safe
<1>10. returned' \subseteq Nat
  BY <1>1, <1>2, <1>4
<1> QED  BY <1>1, <1>2, <1>4, <1>9, <1>10, LeaveKeeps

LEMMA LogInit == ASSUME Log!log_limits PROVE Log!Init => LogInv
<1> SUFFICES ASSUME Log!Init PROVE LogInv
  OBVIOUS
<1>1. seg \in Files /\ \A i \in Slots : seg[i] = None
  BY DEF Log!Init, Files, Slots
<1>2. Log!Empty \in Log!Segment /\ 0 \in Nat /\ 0 < 0 + 1 /\ ~(0 + 1 < 0)
  BY SMT DEF Log!Empty, Log!Segment
<1>3. LogType
  BY <1>1, <1>2 DEF Log!Init, LogType, LogLabels
<1>4. /\ Settled = seg /\ \A p \in Writers : InCall(p)
  BY DEF Log!Init, Settled, InCall, Writes
<1>5. /\ InOrder(seg) /\ Fits(seg) /\ Torn(seg) = {} /\ \A n : ~Holds(seg, n)
  BY <1>1 DEF InOrder, Fits, Torn, Holds, Line
<1>6. Cardinality(Torn(seg)) <= crashes
  <2>1. Cardinality(Torn(seg)) = 0 /\ crashes = 0
    BY <1>5, FS_EmptySet DEF Log!Init
  <2> QED  BY SMT, <2>1
<1>7. Safe(Settled, returned, removed, Top, crashes)
  BY <1>1, <1>4, <1>5, <1>6 DEF Log!Init, Safe
<1>8. Log!RetentionKept
  <2>1. IsFiniteSet(Log!Rotated) /\ Cardinality(Log!Rotated) \in Nat
    BY RotatedFinite, FS_CardinalityType
  <2>2. Cardinality(Log!Rotated) + 1 >= rotations
    BY SMT, <2>1 DEF Log!Init
  <2> QED  BY <2>2, SameCardinality DEF Log!RetentionKept
<1> QED  BY <1>3, <1>4, <1>7, <1>8 DEF LogInv

LEMMA LogNext == ASSUME Log!log_limits PROVE LogInv /\ Log!Next => LogInv'
  BY LockKeeps, OpenKeeps, RemoveOldestKeeps, ShiftKeeps, ReopenKeeps, AppendKeeps, WriteFailsKeeps,
     CallFailsKeeps, ReturnKeeps, CrashKeeps DEF Log!Next

LEMMA LogStill == ASSUME Log!log_limits, LogInv, UNCHANGED Log!vars PROVE LogInv'
<1>1. UNCHANGED <<seg, torn, lock, step, start, newline, written, next, records, returned,
                  removed, rotations, crashes>>
  BY DEF Log!vars, Log!files, Log!call, Log!count
<1>2. LogType'
  BY <1>1 DEF LogInv, LogType
<1>3. Log!RetentionKept'
  BY <1>1 DEF LogInv, Log!RetentionKept, Log!Rotated
<1>4. \A p \in Writers : InCall(p)'
  BY <1>1 DEF LogInv, InCall, Log!After, Log!Needed
<1>5. Settled' = Settled /\ Top' = Top
  BY <1>1 DEF Settled, Top
<1> QED  BY <1>1, <1>2, <1>3, <1>4, <1>5 DEF LogInv

LEMMA LogGoal == ASSUME Log!log_limits PROVE LogInv => Log!LogKept
<1> SUFFICES ASSUME LogInv PROVE Log!LogKept
  OBVIOUS
<1>1. /\ Safe(seg, returned, removed, records + 1, crashes + 1)
      /\ lock = None => Safe(seg, returned, removed, records + 1, crashes)
  BY AsTheyAre
<1>2. \A n : Log!Stored(n) <=> Holds(seg, n)
  BY DEF Log!Stored, Log!Lines, Holds, Line, Slots
<1>3. \A m \in 1 .. records : m \in Nat /\ m # 0
  <2>1. records \in Nat
    BY DEF LogInv, LogType
  <2> QED  BY SMT, <2>1
<1>4. Log!Fragments = Torn(seg)
  BY DEF Log!Fragments, Torn, Line, Slots
<1>5. Log!NothingLost
  <2>1. \A n \in returned : Log!Stored(n) \/ n \in removed
    BY <1>1, <1>2 DEF Safe
  <2>2. \A n \in removed, m \in 1 .. records : Log!Stored(m) => n < m
    BY <1>1, <1>2, <1>3 DEF Safe
  <2>3. lock = None => Log!Cardinality(Log!Fragments) <= crashes
    BY <1>1, <1>4, SameCardinality DEF Safe
  <2> QED  BY <2>1, <2>2, <2>3 DEF Log!NothingLost
<1>6. Log!Chronological
  <2>1. InOrder(seg) /\ Fits(seg)
    BY <1>1 DEF Safe
  <2>2. ASSUME NEW i \in Slots, NEW j \in Slots, seg[i] # None, seg[j] # None,
               NEW k \in DOMAIN seg[i].lines, NEW l \in DOMAIN seg[j].lines
        PROVE  Older(seg, i, k, j, l)
    BY <2>1, <2>2 DEF InOrder, Line
  <2> QED  BY <2>1, <2>2 DEF Log!Chronological, Fits, Older, Slots
<1> QED  BY <1>5, <1>6 DEF LogInv, Log!LogKept

(* However many processes write, fail or are killed at whatever system      *)
(* call, and however often rotations are interrupted: a record whose call   *)
(* returned is a whole line until its segment, then the oldest, is removed; *)
(* the lines are in order and none is there twice; a fragment is left by a  *)
(* killed process only; no segment grows past its limit, and at most one    *)
(* that could be kept is missing (_append, _open_log, _rotate).             *)
THEOREM RecorderKeepsLog == Log!log_limits /\ Log!Spec => []Log!LogKept
<1> DEFINE Inv == Log!log_limits /\ LogInv
<1>1. Log!log_limits /\ Log!Init => Inv
  BY LogInit
<1>2. Inv /\ [Log!Next]_Log!vars => Inv'
  <2> SUFFICES ASSUME Log!log_limits, LogInv, [Log!Next]_Log!vars PROVE Inv'
    OBVIOUS
  <2>1. Log!log_limits'
    BY DEF Log!log_limits, Log!Segment
  <2>2. LogInv'
    BY LogNext, LogStill DEF Log!vars
  <2> QED  BY <2>1, <2>2
<1>3. Inv => Log!LogKept
  BY LogGoal
<1> QED  BY <1>1, <1>2, <1>3, PTL DEF Log!Spec
----------------------------------------------------------------------------
(* The device reads. *)
ReadLabels == {"idle", "preflight", "page", "key", "lane", "wait", "connected", "serve", "complete"}

(* labels of a fresh read, from the record on *)
Fresh == {"key", "lane", "wait", "connected", "serve"}

Contents == AllOutputs \cup {None}
Jobs == [query : Queries, content : Contents, page : Nat, stage : {"identity", "query"},
         scan : BOOLEAN, status : {"failed", "ok"}]
Held == [query : Queries, content : Contents, page : Nat]

ReadType ==
    /\ pc \in [Threads -> ReadLabels] /\ job \in [Threads -> Jobs \cup {None}]
    /\ holder \in [Devices -> Threads \cup {None}] /\ waits \in [Devices -> BOOLEAN]
    /\ recorded \in [Threads -> Seq({"started", "failed", "ok"})]
    /\ answer \in [Threads -> {"result", "error", None}] /\ held \in [Threads -> Seq(Held)]

(* Who waits for the spacing, or has a connection, holds the lane. *)
Lane(t) == pc[t] \in {"wait", "connected"} => holder[At(t)] = t

(* The operation is recorded as started before the device is contacted, and *)
(* its outcome before the client has a result.                              *)
Record(t) ==
    /\ pc[t] = "preflight" => recorded[t] = <<>>
    /\ pc[t] \in Fresh \cup {"page", "complete"} => recorded[t] = <<"started">>
    /\ pc[t] = "idle" => /\ answer[t] = "result" => recorded[t] = <<"started", "ok">>
                         /\ recorded[t] = <<"started">> => answer[t] = "error"

(* What a client holds is the beginning of one output, and what it follows  *)
(* is the next page of that output.                                         *)
Beginning(h) == \A i \in 1 .. Len(h) : h[i] = [query |-> h[1].query, content |-> h[1].content, page |-> i]
Continues(j, h) ==
    h # <<>> /\ j.page = Len(h) + 1 /\ j.query = h[1].query /\ j.content = h[1].content
Follows(t) ==
    /\ Beginning(held[t])
    /\ pc[t] # "idle" => job[t] \in Jobs /\ (job[t].page = 1 \/ Continues(job[t], held[t]))
    /\ pc[t] \in Fresh => job[t].page = 1

ReadInv == ReadType /\ \A t \in Threads : Lane(t) /\ Record(t) /\ Follows(t)
----------------------------------------------------------------------------
LEMMA JobType == ASSUME NEW q \in Queries, NEW c \in Contents, NEW n \in Nat
                 PROVE  /\ Job(q, c, n) \in Jobs
                        /\ Job(q, c, n).query = q /\ Job(q, c, n).content = c /\ Job(q, c, n).page = n
  BY DEF Job, Jobs

(* A step of one thread leaves the others what they have, their lane too. *)
LEMMA OneMoves ==
    ASSUME ReadInv, NEW t \in Threads, ReadType', Lane(t)', Record(t)', Follows(t)',
           \A q \in Threads \ {t} : /\ pc'[q] = pc[q] /\ job'[q] = job[q] /\ recorded'[q] = recorded[q]
                                    /\ answer'[q] = answer[q] /\ held'[q] = held[q]
                                    /\ \A d \in Devices : holder[d] = q => holder'[d] = q
    PROVE  ReadInv'
<1>1. ASSUME NEW q \in Threads, q # t PROVE Lane(q)' /\ Record(q)' /\ Follows(q)'
  <2>1. pc[q] # "idle" => At(q) \in Devices /\ At(q)' = At(q)
    BY <1>1, ReadAssumption DEF ReadInv, Follows, At, Jobs
  <2>2. Lane(q)'
    BY SMT, <1>1, <2>1 DEF ReadInv, Lane
  <2>3. Record(q)' /\ Follows(q)'
    BY SMT, <1>1 DEF ReadInv, Record, Follows
  <2> QED  BY <2>2, <2>3
<1> QED  BY <1>1 DEF ReadInv

(* Where a thread is between two records, all that has to be shown is that  *)
(* its lane is its own, and its call is still the one it was.               *)
LEMMA CallMoves ==
    ASSUME ReadInv, NEW t \in Threads, pc[t] \in Fresh \cup {"page"},
           NEW l \in Fresh \cup {"complete"}, pc' = [pc EXCEPT ![t] = l],
           NEW j \in Jobs, job' = [job EXCEPT ![t] = j],
           j.page = job[t].page, j.query = job[t].query, j.content = job[t].content \/ j.page = 1,
           l \in Fresh => j.page = 1,
           holder' \in [Devices -> Threads \cup {None}], waits' \in [Devices -> BOOLEAN],
           l \in {"wait", "connected"} => holder'[At(t)] = t,
           \A q \in Threads \ {t} : \A d \in Devices : holder[d] = q => holder'[d] = q,
           UNCHANGED <<recorded, answer, held>>
    PROVE  ReadInv'
<1>1. pc'[t] = l /\ job'[t] = j /\ \A q \in Threads \ {t} : pc'[q] = pc[q] /\ job'[q] = job[q]
  BY DEF ReadInv, ReadType
<1>2. ReadType'
  <2>1. l \in ReadLabels
    BY DEF ReadLabels, Fresh
  <2> QED  BY <2>1 DEF ReadInv, ReadType
<1>3. Lane(t)'
  <2>1. At(t)' = At(t)
    BY <1>1 DEF At
  <2> QED  BY <1>1, <2>1 DEF Lane
<1>4. Record(t)'
  BY <1>1 DEF ReadInv, Record, Fresh
<1>5. Follows(t)'
  <2>1. pc[t] # "idle"
    BY DEF Fresh
  <2>2. Beginning(held[t]) /\ (job[t].page = 1 \/ Continues(job[t], held[t]))
    BY <2>1 DEF ReadInv, Follows
  <2>3. j.page = 1 \/ Continues(j, held[t])
    BY <2>2 DEF Continues
  <2> QED  BY <1>1, <2>2, <2>3 DEF Follows
<1> QED  BY <1>1, <1>2, <1>3, <1>4, <1>5, OneMoves

(* A thread whose call is under way has a call, on a device. *)
LEMMA UnderWay ==
    ASSUME ReadInv, NEW t \in Threads, pc[t] # "idle"
    PROVE  job[t] \in Jobs /\ At(t) \in Devices /\ Beginning(held[t]) /\ (pc[t] \in Fresh => job[t].page = 1)
  BY ReadAssumption DEF ReadInv, Follows, At, Jobs

LEMMA PreflightKeeps == ASSUME ReadInv, NEW t \in Threads, Preflight(t) PROVE ReadInv'
<1>1. pc[t] = "preflight" /\ UNCHANGED <<holder, waits, job, held>>
  BY DEF Preflight, lanes
<1>2. PICK l \in {"key", "page", "idle"} : pc' = [pc EXCEPT ![t] = l]
  BY DEF Preflight, Goto
<1>3. pc'[t] = l /\ \A q \in Threads \ {t} : pc'[q] = pc[q]
  BY <1>2 DEF ReadInv, ReadType
<1>4. CASE /\ recorded' = [recorded EXCEPT ![t] = <<"started">>]
           /\ l = (IF job[t].page = 1 THEN "key" ELSE "page") /\ answer' = answer
  <2>1. recorded' \in [Threads -> Seq({"started", "failed", "ok"})] /\ recorded'[t] = <<"started">>
    BY SMT, <1>4 DEF ReadInv, ReadType
  <2>2. ReadType'
    BY <1>1, <1>2, <1>4, <2>1 DEF ReadInv, ReadType, ReadLabels
  <2>3. Lane(t)' /\ Record(t)'
    BY <1>3, <1>4, <2>1 DEF Lane, Record, Fresh
  <2>4. Follows(t)'
    BY <1>1, <1>3, <1>4 DEF ReadInv, Follows, Fresh
  <2>5. \A q \in Threads \ {t} : recorded'[q] = recorded[q]
    BY <1>4 DEF ReadInv, ReadType
  <2> QED  BY <1>1, <1>3, <1>4, <2>2, <2>3, <2>4, <2>5, OneMoves
<1>5. CASE answer' = [answer EXCEPT ![t] = "error"] /\ l = "idle" /\ recorded' = recorded
  <2>1. ReadType'
    BY <1>1, <1>2, <1>5 DEF ReadInv, ReadType, ReadLabels
  <2>2. answer'[t] = "error" /\ \A q \in Threads \ {t} : answer'[q] = answer[q]
    BY <1>5 DEF ReadInv, ReadType
  <2>3. Lane(t)' /\ Record(t)'
    BY <1>3, <1>5, <2>2 DEF Lane, Record, Fresh
  <2>4. Follows(t)'
    BY <1>1, <1>3, <1>5 DEF ReadInv, Follows, Fresh
  <2> QED  BY <1>1, <1>3, <1>5, <2>1, <2>2, <2>3, <2>4, OneMoves
<1>6. \/ /\ recorded' = [recorded EXCEPT ![t] = <<"started">>]
         /\ l = (IF job[t].page = 1 THEN "key" ELSE "page") /\ answer' = answer
      \/ answer' = [answer EXCEPT ![t] = "error"] /\ l = "idle" /\ recorded' = recorded
  BY <1>3 DEF Preflight, Goto, ReadInv, ReadType
<1> QED  BY <1>4, <1>5, <1>6

LEMMA PageKeeps == ASSUME ReadInv, NEW t \in Threads, Page(t) PROVE ReadInv'
<1>1. pc[t] = "page" /\ pc' = [pc EXCEPT ![t] = "complete"] /\ UNCHANGED <<holder, waits, recorded, answer, held>>
  BY DEF Page, Goto, lanes, clients
<1>2. job[t] \in Jobs
  BY <1>1, UnderWay
<1>3. /\ holder' \in [Devices -> Threads \cup {None}] /\ waits' \in [Devices -> BOOLEAN]
      /\ "complete" \notin Fresh /\ "complete" \in Fresh \cup {"complete"} /\ pc[t] \in Fresh \cup {"page"}
  BY <1>1 DEF ReadInv, ReadType, Fresh
<1>4. CASE job' = job
  <2>1. job' = [job EXCEPT ![t] = job[t]]
    BY <1>4 DEF ReadInv, ReadType
  <2> QED  BY <1>1, <1>2, <1>3, <2>1, CallMoves
<1>5. ASSUME NEW e \in Loaded(job[t].query, job[t].content),
             job' = [job EXCEPT ![t].status = "ok", ![t].content = e.content]
      PROVE  ReadInv'
  <2>1. e.content = job[t].content
    BY <1>5 DEF Loaded, SameKey
  <2>2. job' = [job EXCEPT ![t] = [job[t] EXCEPT !.status = "ok", !.content = e.content]]
    BY <1>5 DEF ReadInv, ReadType
  <2> DEFINE j == [job[t] EXCEPT !.status = "ok", !.content = e.content]
  <2>3. j \in Jobs /\ j.page = job[t].page /\ j.query = job[t].query /\ j.content = job[t].content
    BY <1>2, <2>1 DEF Jobs
  <2> HIDE DEF j
  <2>4. job' = [job EXCEPT ![t] = j]
    BY <2>2 DEF j
  <2> QED  BY <1>1, <1>3, <2>3, <2>4, CallMoves
<1> QED  BY <1>4, <1>5 DEF Page

LEMMA HostKeyKeeps == ASSUME ReadInv, NEW t \in Threads, HostKey(t) PROVE ReadInv'
<1>1. pc[t] = "key" /\ pc' = [pc EXCEPT ![t] = "lane"] /\ UNCHANGED <<holder, waits, recorded, answer, held>>
  BY DEF HostKey, Goto, lanes, clients
<1>2. job[t] \in Jobs /\ job[t].page = 1
  BY <1>1, UnderWay DEF Fresh
<1>3. PICK b \in BOOLEAN : job' = [job EXCEPT ![t] = [job[t] EXCEPT !.scan = b]]
  BY DEF HostKey, ReadInv, ReadType
<1> DEFINE j == [job[t] EXCEPT !.scan = b]
<1>4. j \in Jobs /\ j.page = 1 /\ j.query = job[t].query /\ job' = [job EXCEPT ![t] = j]
  BY <1>2, <1>3 DEF Jobs
<1> HIDE DEF j
<1>5. /\ holder' \in [Devices -> Threads \cup {None}] /\ waits' \in [Devices -> BOOLEAN]
      /\ "lane" \in Fresh \cup {"complete"} /\ pc[t] \in Fresh \cup {"page"}
  BY <1>1 DEF ReadInv, ReadType, Fresh
<1> QED  BY <1>1, <1>2, <1>4, <1>5, CallMoves

LEMMA AcquireKeeps == ASSUME ReadInv, NEW t \in Threads, Acquire(t) PROVE ReadInv'
<1>1. /\ pc[t] = "lane" /\ pc' = [pc EXCEPT ![t] = "wait"] /\ holder[At(t)] = None
      /\ holder' = [holder EXCEPT ![At(t)] = t] /\ UNCHANGED <<waits, job, recorded, answer, held>>
  BY DEF Acquire, Goto, clients
<1>2. job[t] \in Jobs /\ job[t].page = 1 /\ At(t) \in Devices
  BY <1>1, UnderWay DEF Fresh
<1>3. job' = [job EXCEPT ![t] = job[t]]
  BY <1>1 DEF ReadInv, ReadType
<1>4. /\ holder' \in [Devices -> Threads \cup {None}] /\ holder'[At(t)] = t
      /\ \A q \in Threads \ {t} : \A d \in Devices : holder[d] = q => holder'[d] = q
  BY <1>1, <1>2, ReadAssumption DEF ReadInv, ReadType
<1>5. waits' \in [Devices -> BOOLEAN] /\ "wait" \in Fresh \cup {"complete"} /\ pc[t] \in Fresh \cup {"page"}
  BY <1>1 DEF ReadInv, ReadType, Fresh
<1> QED  BY <1>1, <1>2, <1>3, <1>4, <1>5, CallMoves

LEMMA StartKeeps == ASSUME ReadInv, NEW t \in Threads, Start(t) PROVE ReadInv'
<1>1. /\ pc[t] = "wait" /\ pc' = [pc EXCEPT ![t] = "connected"]
      /\ waits' = [waits EXCEPT ![At(t)] = TRUE] /\ UNCHANGED <<holder, job, recorded, answer, held>>
  BY DEF Start, Goto, clients
<1>2. job[t] \in Jobs /\ job[t].page = 1 /\ At(t) \in Devices /\ holder'[At(t)] = t
  BY <1>1, UnderWay DEF Fresh, ReadInv, Lane
<1>3. job' = [job EXCEPT ![t] = job[t]]
  BY <1>1 DEF ReadInv, ReadType
<1>4. waits' \in [Devices -> BOOLEAN]
  BY <1>1 DEF ReadInv, ReadType
<1>5. /\ holder' \in [Devices -> Threads \cup {None}]
      /\ "connected" \in Fresh \cup {"complete"} /\ pc[t] \in Fresh \cup {"page"}
  BY <1>1 DEF ReadInv, ReadType, Fresh
<1> QED  BY <1>1, <1>2, <1>3, <1>4, <1>5, CallMoves

(* The end of a connection gives the lane back, and no other. *)
LEMMA DisconnectKeeps ==
    ASSUME ReadInv, NEW t \in Threads, Disconnect(t), NEW l \in {"lane", "key", "serve", "complete"},
           pc' = [pc EXCEPT ![t] = l], NEW j \in Jobs, job' = [job EXCEPT ![t] = j],
           j.page = job[t].page, j.query = job[t].query
    PROVE  ReadInv'
<1>1. /\ pc[t] = "connected" /\ holder' = [holder EXCEPT ![At(t)] = None]
      /\ UNCHANGED <<waits, recorded, answer, held>>
  BY DEF Disconnect, clients
<1>2. job[t].page = 1 /\ At(t) \in Devices /\ holder[At(t)] = t
  BY <1>1, UnderWay DEF Fresh, ReadInv, Lane
<1>3. /\ holder' \in [Devices -> Threads \cup {None}]
      /\ \A q \in Threads \ {t} : \A d \in Devices : holder[d] = q => holder'[d] = q
  BY <1>1, <1>2 DEF ReadInv, ReadType
<1>4. /\ waits' \in [Devices -> BOOLEAN] /\ l \in Fresh \cup {"complete"} /\ pc[t] \in Fresh \cup {"page"}
      /\ l \notin {"wait", "connected"}
  BY <1>1 DEF ReadInv, ReadType, Fresh
<1> QED  BY <1>1, <1>2, <1>3, <1>4, CallMoves

LEMMA ConnectionKeeps ==
    ASSUME ReadInv, NEW t \in Threads, Scanned(t) \/ Lost(t) \/ Identified(t) \/ Answered(t)
    PROVE  ReadInv'
<1>1. Disconnect(t) /\ pc[t] = "connected"
  BY DEF Scanned, Lost, Identified, Answered, Disconnect
<1>2. job[t] \in Jobs
  BY <1>1, UnderWay
<1>3. PICK l \in {"lane", "key", "serve", "complete"} : pc' = [pc EXCEPT ![t] = l]
  BY DEF Scanned, Lost, Identified, Answered, Goto
<1>4. CASE job' = job
  <2>1. job' = [job EXCEPT ![t] = job[t]]
    BY <1>4 DEF ReadInv, ReadType
  <2> QED  BY <1>1, <1>2, <1>3, <2>1, DisconnectKeeps
<1>5. CASE job' = [job EXCEPT ![t].scan = FALSE]
  <2> DEFINE j == [job[t] EXCEPT !.scan = FALSE]
  <2>1. j \in Jobs /\ j.page = job[t].page /\ j.query = job[t].query
    BY <1>2 DEF Jobs
  <2>2. job' = [job EXCEPT ![t] = j]
    BY <1>5 DEF ReadInv, ReadType
  <2> HIDE DEF j
  <2> QED  BY <1>1, <1>3, <2>1, <2>2, DisconnectKeeps
<1>6. CASE job' = [job EXCEPT ![t].stage = "query"]
  <2> DEFINE j == [job[t] EXCEPT !.stage = "query"]
  <2>1. j \in Jobs /\ j.page = job[t].page /\ j.query = job[t].query
    BY <1>2 DEF Jobs
  <2>2. job' = [job EXCEPT ![t] = j]
    BY <1>6 DEF ReadInv, ReadType
  <2> HIDE DEF j
  <2> QED  BY <1>1, <1>3, <2>1, <2>2, DisconnectKeeps
<1>7. ASSUME NEW c \in Outputs[job[t].query], job' = [job EXCEPT ![t].content = c] PROVE ReadInv'
  <2>1. c \in Contents
    BY <1>2 DEF Contents, AllOutputs, Jobs
  <2> DEFINE j == [job[t] EXCEPT !.content = c]
  <2>2. j \in Jobs /\ j.page = job[t].page /\ j.query = job[t].query
    BY <1>2, <2>1 DEF Jobs
  <2>3. job' = [job EXCEPT ![t] = j]
    BY <1>7 DEF ReadInv, ReadType
  <2> HIDE DEF j
  <2> QED  BY <1>1, <1>3, <2>2, <2>3, DisconnectKeeps
<1> QED  BY <1>4, <1>5, <1>6, <1>7 DEF Scanned, Lost, Identified, Answered

LEMMA ServeKeeps == ASSUME ReadInv, NEW t \in Threads, Serve(t) PROVE ReadInv'
<1>1. /\ pc[t] = "serve" /\ pc' = [pc EXCEPT ![t] = "complete"]
      /\ UNCHANGED <<holder, waits, recorded, answer, held>>
  BY DEF Serve, Goto, lanes, clients
<1>2. job[t] \in Jobs /\ job[t].page = 1
  BY <1>1, UnderWay DEF Fresh
<1> DEFINE j == [job[t] EXCEPT !.status = "ok"]
<1>3. j \in Jobs /\ j.page = 1 /\ j.query = job[t].query
  BY <1>2 DEF Jobs
<1>4. job' = [job EXCEPT ![t] = j]
  BY DEF Serve, ReadInv, ReadType
<1> HIDE DEF j
<1>5. /\ holder' \in [Devices -> Threads \cup {None}] /\ waits' \in [Devices -> BOOLEAN]
      /\ "complete" \in Fresh \cup {"complete"} /\ pc[t] \in Fresh \cup {"page"}
  BY <1>1 DEF ReadInv, ReadType, Fresh
<1> QED  BY <1>1, <1>2, <1>3, <1>4, <1>5, CallMoves

(* A page that continues what a client holds makes a longer beginning. *)
LEMMA BeginningGrows ==
    ASSUME NEW j \in Jobs, NEW h \in Seq(Held), Beginning(h), Continues(j, h)
    PROVE  Beginning(Append(h, [query |-> j.query, content |-> j.content, page |-> j.page]))
<1> DEFINE e == [query |-> j.query, content |-> j.content, page |-> j.page]
           g == Append(h, e)
<1>1. Len(h) \in Nat /\ Len(h) > 0 /\ Len(g) = Len(h) + 1 /\ g[Len(h) + 1] = e
  BY SMT DEF Continues
<1>2. \A i \in 1 .. Len(h) : g[i] = h[i]
  BY SMT
<1>3. 1 \in 1 .. Len(h) /\ g[1] = h[1]
  BY SMT, <1>1, <1>2
<1>4. e = [query |-> h[1].query, content |-> h[1].content, page |-> Len(h) + 1]
  BY DEF Continues
<1> HIDE DEF g, e
<1>5. ASSUME NEW i \in 1 .. Len(g)
      PROVE  g[i] = [query |-> g[1].query, content |-> g[1].content, page |-> i]
  <2>1. CASE i \in 1 .. Len(h)
    BY <1>2, <1>3, <2>1 DEF Beginning
  <2>2. CASE i = Len(h) + 1
    BY <1>1, <1>3, <1>4, <2>2
  <2> QED  BY SMT, <1>1, <2>1, <2>2
<1>6. Beginning(g)
  BY <1>5 DEF Beginning
<1> QED  BY <1>6 DEF g, e

LEMMA TwoRecords == ASSUME NEW x PROVE Append(<<"started">>, x) = <<"started", x>>
<1>1. PICK r : r = Append(<<"started">>, x)
  OBVIOUS
<1>2. /\ r = [i \in 1 .. 2 |-> r[i]] /\ <<"started", x>> = [i \in 1 .. 2 |-> <<"started", x>>[i]]
      /\ \A i \in 1 .. 2 : r[i] = <<"started", x>>[i]
  BY SMT, <1>1
<1> QED  BY <1>1, <1>2

LEMMA CompleteKeeps == ASSUME ReadInv, NEW t \in Threads, Complete(t) PROVE ReadInv'
<1>1. /\ pc[t] = "complete" /\ pc' = [pc EXCEPT ![t] = "idle"] /\ job' = [job EXCEPT ![t] = None]
      /\ UNCHANGED <<holder, waits>>
  BY DEF Complete, Goto, lanes
<1>2. /\ job[t] \in Jobs /\ Beginning(held[t]) /\ recorded[t] = <<"started">>
      /\ job[t].page = 1 \/ Continues(job[t], held[t])
  BY <1>1 DEF ReadInv, Follows, Record
<1>3. pc'[t] = "idle" /\ \A q \in Threads \ {t} : pc'[q] = pc[q] /\ job'[q] = job[q]
  BY <1>1 DEF ReadInv, ReadType
<1>4. pc' \in [Threads -> ReadLabels] /\ job' \in [Threads -> Jobs \cup {None}]
  BY <1>1 DEF ReadInv, ReadType, ReadLabels
<1>5. CASE /\ recorded' = [recorded EXCEPT ![t] = Append(@, job[t].status)]
           /\ answer' = [answer EXCEPT ![t] = IF job[t].status = "ok" THEN "result" ELSE "error"]
           /\ Given(t)
  <2>1. job[t].status \in {"failed", "ok"}
    BY <1>2 DEF Jobs
  <2> DEFINE r == Append(recorded[t], job[t].status)
  <2>2. r = <<"started", job[t].status>> /\ r \in Seq({"started", "failed", "ok"})
    <3>1. r \in Seq({"started", "failed", "ok"})
      <4>1. <<"started">> \in Seq({"started", "failed", "ok"})
        BY SMT
      <4> QED  BY SMT, <1>2, <2>1, <4>1
    <3>2. r = Append(<<"started">>, job[t].status)
      BY <1>2
    <3>3. r = <<"started", job[t].status>>
      BY <2>1, <3>2, TwoRecords
    <3> QED  BY <3>1, <3>3
  <2>3. recorded' = [recorded EXCEPT ![t] = r]
    BY <1>5
  <2> HIDE DEF r
  <2>4. recorded'[t] = <<"started", job[t].status>> /\ \A q \in Threads \ {t} : recorded'[q] = recorded[q]
    BY <2>2, <2>3 DEF ReadInv, ReadType
  <2>5. recorded' \in [Threads -> Seq({"started", "failed", "ok"})]
    BY <2>2, <2>3 DEF ReadInv, ReadType
  <2>6. /\ answer' \in [Threads -> {"result", "error", None}] /\ \A q \in Threads \ {t} : answer'[q] = answer[q]
        /\ answer'[t] = IF job[t].status = "ok" THEN "result" ELSE "error"
    BY <1>5 DEF ReadInv, ReadType
  <2>7. Record(t)'
    <3>1. recorded'[t] # <<"started">>
      BY SMT, <2>4
    <3> QED  BY <1>3, <2>1, <2>4, <2>6, <3>1 DEF Record, Fresh
  <2> DEFINE page == [query |-> job[t].query, content |-> job[t].content, page |-> job[t].page]
             h == IF job[t].page = 1 THEN <<page>> ELSE Append(held[t], page)
  <2>8. held' = held \/ held' = [held EXCEPT ![t] = h]
    BY <1>5 DEF Given
  <2>9. h \in Seq(Held) /\ Beginning(h)
    <3>1. page \in Held
      BY <1>2 DEF Jobs, Held
    <3>2. held[t] \in Seq(Held)
      BY DEF ReadInv, ReadType
    <3>3. CASE job[t].page = 1
      <4>1. h = <<page>> /\ page.page = 1
        BY <3>3
      <4>2. \A i \in 1 .. 1 : i = 1
        BY SMT
      <4> QED  BY SMT, <3>1, <3>3, <4>1, <4>2 DEF Beginning
    <3>4. CASE job[t].page # 1
      <4>1. Beginning(Append(held[t], page))
        BY <1>2, <3>2, <3>4, BeginningGrows
      <4> QED  BY SMT, <3>1, <3>2, <3>4, <4>1
    <3> QED  BY <3>3, <3>4
  <2> HIDE DEF h
  <2>10. /\ held' \in [Threads -> Seq(Held)] /\ Beginning(held'[t])
        /\ \A q \in Threads \ {t} : held'[q] = held[q]
    BY <1>2, <2>8, <2>9 DEF ReadInv, ReadType
  <2>11. Lane(t)' /\ Follows(t)'
    BY <1>3, <2>10 DEF Lane, Follows, Fresh
  <2>12. ReadType'
    BY <1>1, <1>4, <2>5, <2>6, <2>10 DEF ReadInv, ReadType
  <2> QED  BY <1>1, <1>3, <2>4, <2>6, <2>7, <2>10, <2>11, <2>12, OneMoves
<1>6. CASE answer' = [answer EXCEPT ![t] = "error"] /\ UNCHANGED <<recorded, held>>
  <2>1. /\ answer' \in [Threads -> {"result", "error", None}] /\ answer'[t] = "error"
        /\ \A q \in Threads \ {t} : answer'[q] = answer[q]
    BY <1>6 DEF ReadInv, ReadType
  <2>2. Lane(t)' /\ Record(t)'
    BY <1>3, <2>1 DEF Lane, Record, Fresh
  <2>3. Follows(t)'
    BY <1>2, <1>3, <1>6 DEF Follows, Fresh
  <2>4. ReadType'
    BY <1>1, <1>4, <1>6, <2>1 DEF ReadInv, ReadType
  <2> QED  BY <1>1, <1>3, <1>6, <2>1, <2>2, <2>3, <2>4, OneMoves
<1> QED  BY <1>5, <1>6 DEF Complete

LEMMA AskKeeps == ASSUME ReadInv, NEW t \in Threads, Ask(t) PROVE ReadInv'
<1>1. pc[t] = "idle" /\ recorded' = [recorded EXCEPT ![t] = <<>>] /\ UNCHANGED <<holder, waits>>
  BY DEF Ask, lanes
<1>2. /\ recorded' \in [Threads -> Seq({"started", "failed", "ok"})] /\ recorded'[t] = <<>>
      /\ \A q \in Threads \ {t} : recorded'[q] = recorded[q]
  BY SMT, <1>1 DEF ReadInv, ReadType
<1>3. Beginning(held[t]) /\ held[t] \in Seq(Held)
  BY DEF ReadInv, Follows, ReadType
<1>4. ASSUME NEW q \in Queries, NEW c \in Contents, NEW n \in Nat,
             n = 1 \/ Continues(Job(q, c, n), held[t]),
             job' = [job EXCEPT ![t] = Job(q, c, n)], pc' = [pc EXCEPT ![t] = "preflight"],
             answer' = [answer EXCEPT ![t] = None], held' = held
      PROVE  ReadInv'
  <2>1. Job(q, c, n) \in Jobs /\ Job(q, c, n).page = n
    BY SMT, JobType
  <2>2. /\ pc' \in [Threads -> ReadLabels] /\ job' \in [Threads -> Jobs \cup {None}]
        /\ answer' \in [Threads -> {"result", "error", None}]
        /\ pc'[t] = "preflight" /\ job'[t] = Job(q, c, n)
        /\ \A r \in Threads \ {t} : pc'[r] = pc[r] /\ job'[r] = job[r] /\ answer'[r] = answer[r]
    BY <1>4, <2>1 DEF ReadInv, ReadType, ReadLabels
  <2>3. ReadType'
    BY <1>1, <1>2, <1>4, <2>2 DEF ReadInv, ReadType
  <2>4. Lane(t)' /\ Record(t)'
    BY <1>2, <2>2 DEF Lane, Record, Fresh
  <2>5. Follows(t)'
    BY <1>3, <1>4, <2>1, <2>2 DEF Follows, Fresh
  <2> QED  BY <1>1, <1>2, <1>4, <2>2, <2>3, <2>4, <2>5, OneMoves
<1>5. CASE \E q \in Queries : /\ job' = [job EXCEPT ![t] = Job(q, None, 1)] /\ Goto(t, "preflight")
                              /\ answer' = [answer EXCEPT ![t] = None] /\ UNCHANGED <<cache, held>>
  <2>1. None \in Contents
    BY DEF Contents
  <2> QED  BY <1>4, <1>5, <2>1 DEF Goto
<1>6. CASE held[t] # <<>>
  <2> DEFINE last == held[t][Len(held[t])]
  <2>1. /\ Len(held[t]) \in 1 .. Len(held[t]) /\ Len(held[t]) \in Nat
        /\ last = [query |-> held[t][1].query, content |-> held[t][1].content, page |-> Len(held[t])]
        /\ last \in Held
    <3>1. Len(held[t]) \in Nat /\ Len(held[t]) > 0
      BY SMT, <1>3, <1>6
    <3>2. Len(held[t]) \in 1 .. Len(held[t])
      BY SMT, <3>1
    <3> QED  BY SMT, <1>3, <3>1, <3>2 DEF Beginning
  <2>2. /\ last.query = held[t][1].query /\ last.content = held[t][1].content /\ last.page = Len(held[t])
        /\ last.query \in Queries /\ last.content \in Contents /\ last.page + 1 \in Nat
    BY SMT, <2>1 DEF Held
  <2> HIDE DEF last
  <2>3. Continues(Job(last.query, last.content, last.page + 1), held[t])
    BY SMT, <1>6, <2>2, JobType DEF Continues
  <2>4. CASE /\ job' = [job EXCEPT ![t] = Job(last.query, last.content, last.page + 1)]
             /\ Goto(t, "preflight") /\ answer' = [answer EXCEPT ![t] = None] /\ UNCHANGED held
    BY <1>4, <2>2, <2>3, <2>4 DEF Goto
  <2>5. CASE /\ answer' = [answer EXCEPT ![t] = "error"]
             /\ held' = [held EXCEPT ![t] = <<>>] /\ UNCHANGED <<pc, job>>
    <3>1. /\ answer' \in [Threads -> {"result", "error", None}] /\ answer'[t] = "error"
          /\ held' \in [Threads -> Seq(Held)] /\ held'[t] = <<>>
          /\ \A q \in Threads \ {t} : answer'[q] = answer[q] /\ held'[q] = held[q]
      BY SMT, <2>5 DEF ReadInv, ReadType
    <3>2. ReadType'
      BY <1>1, <1>2, <2>5, <3>1 DEF ReadInv, ReadType
    <3>3. Lane(t)' /\ Record(t)'
      BY <1>1, <1>2, <2>5, <3>1 DEF Lane, Record, Fresh
    <3>4. Beginning(held'[t])
      BY SMT, <3>1 DEF Beginning
    <3>5. Follows(t)'
      BY <1>1, <2>5, <3>4 DEF Follows, Fresh
    <3> QED  BY <1>1, <1>2, <2>5, <3>1, <3>2, <3>3, <3>5, OneMoves
  <2> QED
    <3>1. CASE \E q \in Queries : /\ job' = [job EXCEPT ![t] = Job(q, None, 1)] /\ Goto(t, "preflight")
                                  /\ answer' = [answer EXCEPT ![t] = None] /\ UNCHANGED <<cache, held>>
      BY <1>5, <3>1
    <3> QED  BY <2>4, <2>5, <3>1 DEF Ask, last
<1> QED  BY <1>5, <1>6 DEF Ask

LEMMA StillKeeps ==
    ASSUME ReadInv, UNCHANGED <<holder, pc, job, recorded, answer, held>>, waits' \in [Devices -> BOOLEAN]
    PROVE  ReadInv'
  BY DEF ReadInv, ReadType, Lane, At, Record, Follows
----------------------------------------------------------------------------
LEMMA ReadsInit == Init => ReadInv
<1> SUFFICES ASSUME Init PROVE ReadInv
  OBVIOUS
<1>1. ReadType
  <2>1. waits \in [Devices -> BOOLEAN]
    BY DEF Init
  <2>2. /\ recorded \in [Threads -> Seq({"started", "failed", "ok"})] /\ held \in [Threads -> Seq(Held)]
        /\ holder \in [Devices -> Threads \cup {None}]
    BY SMT DEF Init
  <2>3. pc \in [Threads -> ReadLabels] /\ job \in [Threads -> Jobs \cup {None}]
        /\ answer \in [Threads -> {"result", "error", None}]
    BY DEF Init, ReadLabels
  <2> QED  BY <2>1, <2>2, <2>3 DEF ReadType
<1>2. ASSUME NEW t \in Threads PROVE Lane(t) /\ Record(t) /\ Follows(t)
  <2>1. pc[t] = "idle" /\ recorded[t] = <<>> /\ answer[t] = None /\ held[t] = <<>>
    BY DEF Init
  <2>2. answer[t] # "result" /\ recorded[t] # <<"started">>
    BY SMT, <2>1, ReadAssumption
  <2>3. Beginning(held[t])
    BY SMT, <2>1 DEF Beginning
  <2> QED  BY <2>1, <2>2, <2>3 DEF Lane, Record, Follows, Fresh
<1> QED  BY <1>1, <1>2 DEF ReadInv

LEMMA ReadsNext == ReadInv /\ [Next]_vars => ReadInv'
<1> SUFFICES ASSUME ReadInv, [Next]_vars PROVE ReadInv'
  OBVIOUS
<1>1. CASE UNCHANGED vars
  <2>1. UNCHANGED <<holder, pc, job, recorded, answer, held>> /\ waits' \in [Devices -> BOOLEAN]
    BY <1>1 DEF vars, ReadInv, ReadType
  <2> QED  BY <2>1, StillKeeps
<1>2. ASSUME NEW t \in Threads, Ask(t) \/ Step(t) PROVE ReadInv'
  BY <1>2, AskKeeps, PreflightKeeps, PageKeeps, HostKeyKeeps, AcquireKeeps, StartKeeps, ConnectionKeeps,
     ServeKeeps, CompleteKeeps DEF Step
<1>3. CASE Expire \/ \E d \in Devices : ExpireKey(d) \/ Spacing(d)
  <2>1. UNCHANGED <<holder, pc, job, recorded, answer, held>>
    BY <1>3 DEF Expire, ExpireKey, Spacing, lanes, clients
  <2>2. waits' \in [Devices -> BOOLEAN]
    <3>1. CASE waits' = waits
      BY <3>1 DEF ReadInv, ReadType
    <3>2. ASSUME NEW d \in Devices, waits' = [waits EXCEPT ![d] = FALSE] PROVE waits' \in [Devices -> BOOLEAN]
      BY <3>2 DEF ReadInv, ReadType
    <3> QED  BY <1>3, <3>1, <3>2 DEF Expire, ExpireKey, Spacing, lanes
  <2> QED  BY <2>1, <2>2, StillKeeps
<1> QED  BY <1>1, <1>2, <1>3 DEF Next

(* Only Start opens a connection. *)
LEMMA ConnectedBefore ==
    ASSUME ReadInv, Next, NEW t \in Threads, pc'[t] = "connected", ~Start(t)
    PROVE  pc[t] = "connected" /\ At(t)' = At(t)
<1>1. CASE Expire \/ \E d \in Devices : ExpireKey(d) \/ Spacing(d)
  <2>1. UNCHANGED <<pc, job>>
    BY <1>1 DEF Expire, ExpireKey, Spacing
  <2> QED  BY <2>1 DEF At
<1>2. ASSUME NEW r \in Threads, Ask(r) \/ Step(r), r # t PROVE pc'[t] = pc[t] /\ At(t)' = At(t)
  <2>1. /\ pc' = pc \/ \E l : pc' = [pc EXCEPT ![r] = l]
        /\ job' = job \/ \E j : job' = [job EXCEPT ![r] = j]
    BY <1>2 DEF Ask, Step, Preflight, Page, HostKey, Acquire, Start, Scanned, Lost, Identified, Answered,
                Serve, Complete, Goto
  <2>2. pc'[t] = pc[t] /\ job'[t] = job[t]
    BY <1>2, <2>1 DEF ReadInv, ReadType
  <2> QED  BY <2>2 DEF At
<1>3. ASSUME Ask(t) \/ Step(t) PROVE FALSE
  <2>1. CASE Ask(t)
    BY <2>1 DEF Ask, Goto, ReadInv, ReadType
  <2>2. CASE Step(t)
    <3>1. \E l \in ReadLabels \ {"connected"} : pc' = [pc EXCEPT ![t] = l]
      BY <2>2 DEF Step, Preflight, Page, HostKey, Acquire, Scanned, Lost, Identified, Answered, Serve,
                  Complete, Goto, ReadLabels
    <3> QED  BY <3>1 DEF ReadInv, ReadType
  <2> QED  BY <1>3, <2>1, <2>2
<1> QED  BY <1>1, <1>2, <1>3 DEF Next
----------------------------------------------------------------------------
(* The captures. *)
Viewed == [id : Nat, got : Seq(Texts \X Filters)]

CaptureType ==
    /\ snapshots \subseteq Captures!Snapshot /\ made \in Nat
    /\ active \in Captures!Calls \cup {None}
    /\ published \subseteq Nat \X Texts
    /\ viewed \in [Filters -> Viewed \cup {None}]

(* A capture was given to a client or withheld with the record of its call, *)
(* or it is the one that the call at work has taken; the view that it caches is of its own text, and so is         *)
(* whatever was given under its identity.                                   *)
Done(s) == <<s.id, s.text>> \in published \/ s.id \in withheld
Known(s) == Done(s) \/ (active # None /\ active.fresh /\ active.id = s.id)
Sound(s) ==
    /\ s.id <= made /\ Known(s) /\ (s.view # None => s.view[1] = s.text)
    /\ \A p \in published : p[1] = s.id => p[2] = s.text

(* A call for a second page is a read of the capture whose first page the   *)
(* client has; a view is built for a filter; and a call begins without a    *)
(* capture of its own.                                                      *)
SecondPage(c) ==
    c.page = 2 => /\ c.kind = "read" /\ c.filter \in Filters
                  /\ viewed[c.filter] # None /\ viewed[c.filter].id = c.id
AtWork ==
    active # None => /\ SecondPage(active) /\ (active.step = "build" => active.filter # None)
                     /\ (active.step = "begun" => ~active.fresh)

CaptureInv ==
    /\ CaptureType /\ AtWork /\ Captures!PagesAgree
    /\ \A s \in snapshots : Sound(s)
    /\ \A s, r \in snapshots : s.id = r.id => s = r
    /\ \A p \in published : p[1] <= made
----------------------------------------------------------------------------
LEMMA ViewChanges ==
    ASSUME NEW s \in Captures!Snapshot, NEW v \in (Texts \X Filters) \cup {None}
    PROVE  LET new == [s EXCEPT !.view = v] IN
           new \in Captures!Snapshot /\ new.id = s.id /\ new.text = s.text /\ new.view = v
  BY SMT DEF Captures!Snapshot

LEMMA LifetimeEnds ==
    ASSUME NEW s \in Captures!Snapshot
    PROVE  LET new == [s EXCEPT !.expired = TRUE] IN
           new \in Captures!Snapshot /\ new.id = s.id /\ new.text = s.text /\ new.view = s.view
  BY DEF Captures!Snapshot

(* A step that takes captures away and publishes nothing. *)
LEMMA FewerKeep ==
    ASSUME CaptureInv, snapshots' \subseteq snapshots, UNCHANGED <<made, published, viewed, withheld>>,
           active' \in Captures!Calls \cup {None}, AtWork', \A s \in snapshots' : Known(s)'
    PROVE  CaptureInv'
<1>1. CaptureType'
  BY DEF CaptureInv, CaptureType
<1>2. \A s \in snapshots' : Sound(s)'
  BY DEF CaptureInv, Sound
<1>3. Captures!PagesAgree'
  BY DEF CaptureInv, Captures!PagesAgree
<1> QED  BY <1>1, <1>2, <1>3 DEF CaptureInv
(* A capture that is replaced by one with the same identity and text. *)
LEMMA ReplacedKeeps ==
    ASSUME CaptureInv, NEW s \in snapshots, NEW new \in Captures!Snapshot,
           new.id = s.id, new.text = s.text, new.view # None => new.view[1] = s.text,
           snapshots' = Captures!Replaced(s, new), UNCHANGED <<made, published, viewed, withheld>>,
           active' \in Captures!Calls \cup {None}, AtWork',
           \A r : Known(r) => Known(r)'
    PROVE  CaptureInv'
<1>1. CaptureType'
  BY DEF CaptureInv, CaptureType, Captures!Replaced
<1>2. ASSUME NEW r \in snapshots' PROVE Sound(r)'
  <2>1. CASE r = new
    <3>1. Sound(s)
      BY DEF CaptureInv
    <3>2. Known(new)
      BY <3>1 DEF Sound, Known, Done
    <3> QED  BY <2>1, <3>1, <3>2 DEF Sound
  <2>2. CASE r \in snapshots
    BY <2>2 DEF CaptureInv, Sound
  <2> QED  BY <2>1, <2>2 DEF Captures!Replaced
<1>3. \A q, r \in snapshots' : q.id = r.id => q = r
  BY DEF CaptureInv, Captures!Replaced
<1>4. Captures!PagesAgree'
  BY DEF CaptureInv, Captures!PagesAgree
<1> QED  BY <1>1, <1>2, <1>3, <1>4 DEF CaptureInv

(* A call takes the lock, and what has expired goes. *)
LEMMA EnterKeeps ==
    ASSUME CaptureInv, NEW c \in Captures!Calls, Captures!Enter(c), SecondPage(c), c.step = "begun", ~c.fresh
    PROVE  CaptureInv'
<1>1. /\ active = None /\ snapshots' \subseteq snapshots /\ UNCHANGED <<made, published, viewed, withheld>>
      /\ active' \in {c, None}
  BY DEF Captures!Enter, Captures!Kept
<1>2. AtWork'
  BY <1>1 DEF AtWork, SecondPage
<1>3. \A s \in snapshots' : Known(s)'
  BY <1>1 DEF CaptureInv, Sound, Known, Done
<1>4. active' \in Captures!Calls \cup {None}
  BY <1>1
<1> QED  BY <1>1, <1>2, <1>3, <1>4, FewerKeep

LEMMA CaptureKeeps ==
    ASSUME CaptureInv, NEW t \in Targets, NEW lim \in Limits, NEW f \in Captures!Views,
           Captures!Capture(t, lim, f)
    PROVE  CaptureInv'
<1> DEFINE c == Captures!Call(t, lim, "capture", None, f, 1)
<1>1. c \in Captures!Calls /\ c.page = 1 /\ c.step = "begun" /\ ~c.fresh
  BY DEF Captures!Views, Captures!Call, Captures!Calls
<1>2. Captures!Enter(c)
  BY DEF Captures!Capture
<1> HIDE DEF c
<1>3. SecondPage(c)
  BY SMT, <1>1 DEF SecondPage
<1> QED  BY <1>1, <1>2, <1>3, EnterKeeps

LEMMA ReadKeeps ==
    ASSUME CaptureInv, NEW t \in Targets, NEW lim \in Limits, NEW f \in Captures!Views,
           NEW id \in Nat, Captures!Read(t, lim, id, f)
    PROVE  CaptureInv'
<1> DEFINE c == Captures!Call(t, lim, "read", id, f, 1)
<1>1. c \in Captures!Calls /\ c.page = 1 /\ c.step = "begun" /\ ~c.fresh
  BY DEF Captures!Views, Captures!Call, Captures!Calls
<1>2. Captures!Enter(c)
  BY DEF Captures!Read
<1> HIDE DEF c
<1>3. SecondPage(c)
  BY SMT, <1>1 DEF SecondPage
<1> QED  BY <1>1, <1>2, <1>3, EnterKeeps

LEMMA DiffKeeps ==
    ASSUME CaptureInv, NEW t \in Targets, NEW lim \in Limits,
           NEW id \in Nat, NEW other \in Nat, Captures!Diff(t, lim, id, other)
    PROVE  CaptureInv'
<1> DEFINE d == Captures!Call(t, lim, "diff", id, None, 1)
           c == [d EXCEPT !.other = other]
<1>1. d \in Captures!Calls /\ d.page = 1 /\ d.step = "begun" /\ ~d.fresh
  BY DEF Captures!Views, Captures!Call, Captures!Calls
<1>2. Captures!Enter(c)
  BY DEF Captures!Diff
<1> HIDE DEF d
<1>3. c \in Captures!Calls /\ c.page = 1 /\ c.step = "begun" /\ ~c.fresh
  BY <1>1 DEF Captures!Calls
<1> HIDE DEF c
<1>4. SecondPage(c)
  BY SMT, <1>3 DEF SecondPage
<1> QED  BY <1>2, <1>3, <1>4, EnterKeeps

LEMMA ContinueKeeps ==
    ASSUME CaptureInv, NEW t \in Targets, NEW lim \in Limits, NEW f \in Filters,
           Captures!Continue(t, lim, f)
    PROVE  CaptureInv'
<1> DEFINE c == Captures!Call(t, lim, "read", viewed[f].id, f, 2)
<1>1. viewed[f] # None /\ viewed[f].id \in Nat /\ Captures!Enter(c)
  BY DEF Captures!Continue, CaptureInv, CaptureType, Viewed
<1>2. /\ c \in Captures!Calls /\ c.filter = f /\ c.kind = "read" /\ c.id = viewed[f].id
      /\ c.step = "begun" /\ ~c.fresh
  BY <1>1 DEF Captures!Call, Captures!Calls
<1> HIDE DEF c
<1>3. SecondPage(c)
  BY <1>1, <1>2 DEF SecondPage
<1> QED  BY <1>1, <1>2, <1>3, EnterKeeps

LEMMA FailKeeps == ASSUME CaptureInv, Captures!Fail PROVE CaptureInv'
<1>1. /\ active' = None /\ snapshots' \subseteq snapshots /\ UNCHANGED <<made, published, viewed, withheld>>
      /\ active.fresh => \A s \in snapshots' : s.id # active.id
  BY DEF Captures!Fail, Captures!Release, Captures!Kept
<1>2. AtWork' /\ active' \in Captures!Calls \cup {None}
  BY <1>1 DEF AtWork
<1>3. \A s \in snapshots' : Known(s)'
  BY <1>1 DEF CaptureInv, Sound, Known, Done
<1> QED  BY <1>1, <1>2, <1>3, FewerKeep

(* An action that changes the label of the call only leaves it the call     *)
(* that it was.                                                             *)
LEMMA StepChanges ==
    ASSUME CaptureInv, active # None, NEW l \in {"view", "build"},
           l = "build" => active.filter # None,
           active' = [active EXCEPT !.step = l], UNCHANGED <<published, viewed, withheld>>
    PROVE  /\ active' \in Captures!Calls \cup {None} /\ AtWork'
           /\ \A r : Known(r) => Known(r)'
<1>1. active \in Captures!Calls
  BY DEF CaptureInv, CaptureType
<1>2. /\ active' \in Captures!Calls /\ active'.page = active.page /\ active'.kind = active.kind
      /\ active'.filter = active.filter /\ active'.id = active.id /\ active'.fresh = active.fresh
      /\ active'.step = l
  BY <1>1 DEF Captures!Calls
<1>3. active' # None
  BY <1>2, HelperAssumption DEF Captures!configuration_limits
<1>4. AtWork'
  BY <1>2 DEF CaptureInv, AtWork, SecondPage
<1>5. \A r : Known(r) => Known(r)'
  BY <1>2, <1>3 DEF Known, Done
<1> QED  BY <1>2, <1>4, <1>5

LEMMA FoundKeeps == ASSUME CaptureInv, Captures!Found PROVE CaptureInv'
<1>1. /\ active # None /\ active' = [active EXCEPT !.step = "view"]
      /\ UNCHANGED <<snapshots, made, published, viewed, withheld>>
  BY DEF Captures!Found
<1>2. /\ active' \in Captures!Calls \cup {None} /\ AtWork'
      /\ \A r : Known(r) => Known(r)'
  BY <1>1, StepChanges
<1>3. \A s \in snapshots' : Known(s)'
  BY <1>1, <1>2 DEF CaptureInv, Sound
<1>4. snapshots' \subseteq snapshots
  BY <1>1
<1> QED  BY <1>1, <1>2, <1>3, <1>4, FewerKeep

LEMMA BuildKeeps == ASSUME CaptureInv, Captures!Build PROVE CaptureInv'
<1>1. /\ active # None /\ active.filter # None /\ active' = [active EXCEPT !.step = "build"]
      /\ UNCHANGED <<made, published, viewed, withheld>>
  BY DEF Captures!Build
<1>2. PICK s \in snapshots : snapshots' = Captures!Replaced(s, [s EXCEPT !.view = None])
  BY DEF Captures!Build, Captures!Scoped
<1> DEFINE new == [s EXCEPT !.view = None]
<1>3. new \in Captures!Snapshot /\ new.id = s.id /\ new.text = s.text /\ new.view = None
  <2>1. s \in Captures!Snapshot
    BY DEF CaptureInv, CaptureType
  <2> QED  BY <2>1, ViewChanges
<1>4. snapshots' = Captures!Replaced(s, new)
  BY <1>2
<1> HIDE DEF new
<1>5. /\ active' \in Captures!Calls \cup {None} /\ AtWork'
      /\ \A r : Known(r) => Known(r)'
  BY <1>1, StepChanges
<1> QED  BY <1>1, <1>3, <1>4, <1>5, ReplacedKeeps

LEMMA BuiltKeeps == ASSUME CaptureInv, Captures!Built PROVE CaptureInv'
<1>1. /\ active # None /\ active' = [active EXCEPT !.step = "view"]
      /\ UNCHANGED <<made, published, viewed, withheld>>
  BY DEF Captures!Built
<1>2. PICK s \in snapshots :
          snapshots' = Captures!Replaced(s, [s EXCEPT !.view = <<s.text, active.filter>>])
  BY DEF Captures!Built, Captures!Scoped
<1>3. s \in Captures!Snapshot /\ active.filter \in Filters
  BY <1>1 DEF Captures!Built, CaptureInv, CaptureType, AtWork, Captures!Calls
<1> DEFINE v == <<s.text, active.filter>>
           new == [s EXCEPT !.view = v]
<1>4. v \in (Texts \X Filters) \cup {None} /\ v[1] = s.text
  BY <1>3 DEF Captures!Snapshot
<1>5. snapshots' = Captures!Replaced(s, new)
  BY <1>2
<1> HIDE DEF v
<1>6. new \in Captures!Snapshot /\ new.id = s.id /\ new.text = s.text /\ new.view = v
  BY <1>3, <1>4, ViewChanges
<1> HIDE DEF new
<1>7. /\ active' \in Captures!Calls \cup {None} /\ AtWork'
      /\ \A r : Known(r) => Known(r)'
  BY <1>1, StepChanges
<1>8. new.view # None => new.view[1] = s.text
  BY <1>4, <1>6
<1> QED  BY <1>1, <1>5, <1>6, <1>7, <1>8, ReplacedKeeps

LEMMA StoreKeeps == ASSUME CaptureInv, NEW x \in Texts, Captures!Store(x) PROVE CaptureInv'
<1>0. PICK new : new = [id |-> made + 1, target |-> active.target, limits |-> active.limits,
                        text |-> x, view |-> None, expired |-> FALSE]
  OBVIOUS
<1>1. /\ active \in Captures!Calls /\ active # None /\ active.kind = "capture"
      /\ made' = made + 1 /\ UNCHANGED <<published, viewed, withheld>>
  BY DEF Captures!Store, CaptureInv, CaptureType
<1>2. PICK room : /\ room \subseteq snapshots
                  /\ \/ /\ snapshots' = room \cup {new}
                        /\ active' = [active EXCEPT !.id = made + 1, !.step = "view", !.fresh = TRUE]
                     \/ snapshots' = room /\ active' = None
  BY <1>0 DEF Captures!Store, Captures!Kept, Captures!Release
<1>3. ~active.fresh
  BY <1>1 DEF Captures!Store, CaptureInv, AtWork
<1>4. \A s \in room : s \in Captures!Snapshot /\ Done(s) /\ s.id <= made
  BY <1>2, <1>3 DEF CaptureInv, CaptureType, Sound, Known, Done
<1>5. made \in Nat
  BY DEF CaptureInv, CaptureType
<1>6. /\ \A s \in room : s.id <= made' /\ s.id # made'
      /\ \A p \in published' : p[1] <= made' /\ p[1] # made'
  <2>1. \A s \in room : s.id \in Nat
    BY <1>4 DEF Captures!Snapshot
  <2>2. \A p \in published : p[1] \in Nat /\ p[1] <= made
    BY DEF CaptureInv, CaptureType
  <2>3. \A n \in Nat : n <= made => n <= made' /\ n # made'
    BY SMT, <1>1, <1>5
  <2> QED  BY <1>1, <1>4, <2>1, <2>2, <2>3
<1>7. CASE snapshots' = room /\ active' = None
  <2>1. CaptureType' /\ AtWork'
    BY <1>1, <1>2, <1>4, <1>5, <1>7, SMT DEF CaptureInv, CaptureType, AtWork
  <2>2. \A s \in snapshots' : Sound(s)'
    BY <1>1, <1>2, <1>4, <1>6, <1>7 DEF CaptureInv, Sound, Known, Done
  <2>3. Captures!PagesAgree'
    BY <1>1 DEF CaptureInv, Captures!PagesAgree
  <2> QED  BY <1>2, <1>6, <1>7, <2>1, <2>2, <2>3 DEF CaptureInv
<1>8. ASSUME snapshots' = room \cup {new},
             active' = [active EXCEPT !.id = made + 1, !.step = "view", !.fresh = TRUE]
      PROVE  CaptureInv'
  <2>1. made + 1 \in Nat
    BY SMT, <1>5
  <2>2. /\ active' \in Captures!Calls /\ active'.page = active.page /\ active'.kind = "capture"
        /\ active'.id = made' /\ active'.step = "view" /\ active'.fresh = TRUE
    BY <1>1, <1>8, <2>1 DEF Captures!Calls
  <2>3. active' # None
    BY <2>2, HelperAssumption DEF Captures!configuration_limits
  <2>4. AtWork'
    BY <1>1, <2>2 DEF CaptureInv, AtWork, SecondPage
  <2>5. active.target \in Targets /\ active.limits \in Limits
    BY <1>1 DEF Captures!Calls
  <2>6. /\ new \in Captures!Snapshot /\ new.id = made' /\ new.text = x /\ new.view = None
    BY <1>0, <1>1, <2>1, <2>5 DEF Captures!Snapshot
  <2>7. CaptureType'
    BY <1>1, <1>4, <1>8, <2>1, <2>2, <2>6 DEF CaptureInv, CaptureType
  <2>8. made' <= made'
    BY SMT, <1>1, <1>5
  <2>9. Sound(new)'
    BY <1>6, <2>2, <2>3, <2>6, <2>8 DEF Sound, Known, Done
  <2>10. \A s \in room : Sound(s)'
    BY <1>1, <1>2, <1>4, <1>6 DEF CaptureInv, Sound, Known, Done
  <2>11. \A s, r \in snapshots' : s.id = r.id => s = r
    BY <1>2, <1>6, <1>8, <2>6 DEF CaptureInv
  <2>12. Captures!PagesAgree'
    BY <1>1 DEF CaptureInv, Captures!PagesAgree
  <2> QED  BY <1>6, <1>8, <2>4, <2>7, <2>9, <2>10, <2>11, <2>12 DEF CaptureInv
<1> QED  BY <1>2, <1>7, <1>8

(* The record of the completion fails: the capture stays, the client has    *)
(* nothing.                                                                 *)
LEMMA WithheldKeeps ==
    ASSUME CaptureInv, Captures!Answer, NEW s \in snapshots, s.id = active.id,
           withheld' = IF active.fresh THEN withheld \cup {s.id} ELSE withheld,
           UNCHANGED <<published, viewed>>
    PROVE  CaptureInv'
<1>1. active # None /\ active' = None /\ UNCHANGED <<snapshots, made>>
  BY DEF Captures!Answer, Captures!Release
<1>2. AtWork' /\ CaptureType' /\ Captures!PagesAgree'
  BY <1>1 DEF AtWork, CaptureInv, CaptureType, Captures!PagesAgree
<1>3. \A r \in snapshots : Sound(r)'
  BY <1>1 DEF CaptureInv, Sound, Known, Done
<1> QED  BY <1>1, <1>2, <1>3 DEF CaptureInv

(* The pages of the client with the filter, after one more of the view of s *)
LEMMA AnswerKeeps == ASSUME CaptureInv, Captures!Answer PROVE CaptureInv'
<1> SUFFICES ASSUME NEW s \in snapshots, s.id = active.id, Captures!ViewOf(s) # None,
                    Captures!Give(s), UNCHANGED withheld
             PROVE  CaptureInv'
  BY WithheldKeeps DEF Captures!Answer, Captures!Scoped
<1>1. /\ s.id = active.id /\ Captures!ViewOf(s) # None
      /\ published' = published \cup {<<s.id, s.text>>}
      /\ \/ active.filter = None /\ UNCHANGED viewed
         \/ active.filter # None /\ viewed' = [viewed EXCEPT ![active.filter] =
               [id |-> s.id,
                got |-> IF active.page = 1 THEN <<Captures!ViewOf(s)>>
                        ELSE Append(@.got, Captures!ViewOf(s))]]
  BY DEF Captures!Give
<1>2. active # None /\ active' = None /\ UNCHANGED <<snapshots, made>>
  BY DEF Captures!Answer, Captures!Release
<1>3. active \in Captures!Calls /\ s \in Captures!Snapshot /\ s.id \in Nat /\ s.text \in Texts
  BY <1>2 DEF CaptureInv, CaptureType, Captures!Snapshot
<1>4. AtWork' /\ active' \in Captures!Calls \cup {None}
  BY <1>2 DEF AtWork
<1>5. published' \subseteq Nat \X Texts /\ \A p \in published' : p[1] <= made'
  <2>1. s.id <= made /\ <<s.id, s.text>> \in Nat \X Texts /\ <<s.id, s.text>>[1] = s.id
    BY <1>3 DEF CaptureInv, Sound
  <2> QED  BY <1>1, <1>2, <2>1 DEF CaptureInv, CaptureType
<1>6. ASSUME NEW r \in snapshots' PROVE Sound(r)'
  <2>1. Sound(r)
    BY <1>2 DEF CaptureInv
  <2>2. Done(r)'
    BY <1>1, <1>2, <2>1 DEF CaptureInv, Sound, Known, Done
  <2>3. ASSUME NEW p \in published', p[1] = r.id PROVE p[2] = r.text
    <3>1. CASE p \in published
      BY <2>1, <2>3, <3>1 DEF Sound
    <3>2. CASE p = <<s.id, s.text>>
      BY <1>2, <2>3, <3>2 DEF CaptureInv
    <3> QED  BY <1>1, <3>1, <3>2
  <2> QED  BY <1>2, <2>1, <2>2, <2>3 DEF Sound, Known, Done
<1>7. viewed' \in [Filters -> Viewed \cup {None}] /\ Captures!PagesAgree'
  <2>1. CASE active.filter = None /\ UNCHANGED viewed
    BY <1>1, <2>1 DEF CaptureInv, CaptureType, Captures!PagesAgree
  <2>2. ASSUME NEW f \in Filters, f = active.filter, active.filter # None,
               NEW g \in Seq(Texts \X Filters),
               viewed' = [viewed EXCEPT ![f] = [id |-> s.id, got |-> g]],
               \A i \in DOMAIN g : g[i] = <<s.text, f>>
        PROVE  viewed' \in [Filters -> Viewed \cup {None}] /\ Captures!PagesAgree'
    <3>1. [id |-> s.id, got |-> g] \in Viewed
      BY <1>3, <2>2 DEF Viewed
    <3>2. viewed' \in [Filters -> Viewed \cup {None}]
      BY <2>2, <3>1 DEF CaptureInv, CaptureType
    <3>3. ASSUME NEW e \in Filters, viewed'[e] # None
          PROVE  \E p \in published' : /\ p[1] = viewed'[e].id
                    /\ \A i \in DOMAIN viewed'[e].got : viewed'[e].got[i] = <<p[2], e>>
      <4>1. CASE e = f
        <5>1. viewed'[e].id = s.id /\ viewed'[e].got = g
          BY <2>2, <4>1 DEF CaptureInv, CaptureType
        <5>2. <<s.id, s.text>> \in published' /\ <<s.id, s.text>>[1] = s.id /\ <<s.id, s.text>>[2] = s.text
          BY <1>1
        <5> QED  BY <2>2, <4>1, <5>1, <5>2
      <4>2. CASE e # f
        <5>1. viewed'[e] = viewed[e]
          BY <2>2, <4>2 DEF CaptureInv, CaptureType
        <5>2. PICK p \in published : /\ p[1] = viewed[e].id
                 /\ \A i \in DOMAIN viewed[e].got : viewed[e].got[i] = <<p[2], e>>
          BY <3>3, <5>1 DEF CaptureInv, Captures!PagesAgree
        <5>3. p \in published'
          BY <1>1
        <5> QED  BY <5>1, <5>2, <5>3
      <4> QED  BY <4>1, <4>2
    <3> QED  BY <3>2, <3>3 DEF Captures!PagesAgree
  <2>3. CASE active.filter # None
    <3>1. PICK f \in Filters : f = active.filter
      BY <1>3, <2>3 DEF Captures!Calls
    <3>2. PICK w \in Texts \X Filters : w = <<s.text, f>> /\ w = Captures!ViewOf(s)
      <4>1. Captures!ViewOf(s) = s.view /\ s.view # None /\ s.view[2] = f /\ s.view[1] = s.text
        BY <1>1, <2>3, <3>1 DEF Captures!ViewOf, CaptureInv, Sound
      <4>2. s.view \in Texts \X Filters
        BY <1>3, <4>1 DEF Captures!Snapshot
      <4>3. s.view = <<s.text, f>>
        BY SMT, <4>1, <4>2
      <4> QED  BY <4>1, <4>2, <4>3
    <3>3.  viewed' = [viewed EXCEPT ![f] = [id |-> s.id,
                        got |-> IF active.page = 1 THEN <<w>> ELSE Append(viewed[f].got, w)]]
      BY <1>1, <2>3, <3>1, <3>2
    <3>4. CASE active.page = 1
      <4>1. <<w>> \in Seq(Texts \X Filters) /\ \A i \in DOMAIN <<w>> : <<w>>[i] = w
        BY SMT
      <4>2. viewed' = [viewed EXCEPT ![f] = [id |-> s.id, got |-> <<w>>]]
        BY <3>3, <3>4
      <4> QED  BY <2>2, <2>3, <3>1, <3>2, <4>1, <4>2
    <3>5. CASE active.page = 2
      <4>1. viewed[f] # None /\ viewed[f].id = s.id
        BY <1>1, <1>2, <3>1, <3>5 DEF CaptureInv, AtWork, SecondPage
      <4>2. PICK p \in published : /\ p[1] = s.id
               /\ \A i \in DOMAIN viewed[f].got : viewed[f].got[i] = <<p[2], f>>
        BY <4>1 DEF CaptureInv, Captures!PagesAgree
      <4>3. p[2] = s.text
        BY <4>2 DEF CaptureInv, Sound
      <4>4. PICK h \in Seq(Texts \X Filters) : h = viewed[f].got
        BY <4>1 DEF CaptureInv, CaptureType, Viewed
      <4>5. \A i \in DOMAIN h : h[i] = w
        BY <3>2, <4>2, <4>3, <4>4
      <4>6. Append(h, w) \in Seq(Texts \X Filters) /\ \A i \in DOMAIN Append(h, w) : Append(h, w)[i] = w
        BY SMT, <4>4, <4>5, <3>2
      <4>7. active.page # 1
        BY SMT, <3>5
      <4>8. viewed' = [viewed EXCEPT ![f] = [id |-> s.id, got |-> Append(h, w)]]
        BY <3>3, <4>4, <4>7
      <4> QED  BY <2>2, <2>3, <3>1, <3>2, <4>6, <4>8
    <3> QED  BY <1>3, <3>4, <3>5 DEF Captures!Calls
  <2> QED  BY <1>1, <2>1, <2>3
<1> QED  BY <1>2, <1>4, <1>5, <1>6, <1>7 DEF CaptureInv, CaptureType

LEMMA CompareKeeps == ASSUME CaptureInv, Captures!Compare PROVE CaptureInv'
<1>1. /\ active # None /\ active.step = "begun" /\ active' = None
      /\ UNCHANGED <<snapshots, made, published, viewed, withheld>>
  BY DEF Captures!Compare, Captures!Release
<1>2. AtWork' /\ active' \in Captures!Calls \cup {None}
  BY <1>1 DEF AtWork
<1>3. \A s \in snapshots' : Known(s)'
  BY <1>1 DEF CaptureInv, Sound, Known, Done, AtWork
<1> QED  BY <1>1, <1>2, <1>3, FewerKeep

LEMMA ExpireKeeps == ASSUME CaptureInv, Captures!Expire PROVE CaptureInv'
<1>1. UNCHANGED <<active, made, published, viewed, withheld>>
  BY DEF Captures!Expire
<1>2. PICK s \in snapshots : snapshots' = Captures!Replaced(s, [s EXCEPT !.expired = TRUE])
  BY DEF Captures!Expire
<1>3. s \in Captures!Snapshot
  BY DEF CaptureInv, CaptureType
<1> DEFINE new == [s EXCEPT !.expired = TRUE]
<1>4. new \in Captures!Snapshot /\ new.id = s.id /\ new.text = s.text /\ new.view = s.view
  BY <1>3, LifetimeEnds
<1>5. snapshots' = Captures!Replaced(s, new)
  BY <1>2
<1> HIDE DEF new
<1>6. new.view # None => new.view[1] = s.text
  BY <1>4 DEF CaptureInv, Sound
<1>7. AtWork' /\ active' \in Captures!Calls \cup {None} /\ \A r : Known(r) => Known(r)'
  BY <1>1 DEF CaptureInv, CaptureType, AtWork, SecondPage, Known, Done
<1> QED  BY <1>1, <1>4, <1>5, <1>6, <1>7, ReplacedKeeps

LEMMA CapturesInit == Captures!Init => CaptureInv
<1> SUFFICES ASSUME Captures!Init PROVE CaptureInv
  OBVIOUS
<1>1. CaptureType
  BY SMT DEF Captures!Init, CaptureType
<1>2. AtWork /\ Captures!PagesAgree
  BY DEF Captures!Init, AtWork, Captures!PagesAgree
<1> QED  BY <1>1, <1>2 DEF Captures!Init, CaptureInv

LEMMA CapturesNext == CaptureInv /\ Captures!Next => CaptureInv'
<1> SUFFICES ASSUME CaptureInv, Captures!Next PROVE CaptureInv'
  OBVIOUS
<1>1. \A p \in published : p[1] \in Nat
  BY DEF CaptureInv, CaptureType
<1> QED  BY <1>1, CaptureKeeps, ContinueKeeps, ReadKeeps, DiffKeeps, StoreKeeps, FoundKeeps, BuildKeeps,
            BuiltKeeps, AnswerKeeps, CompareKeeps, FailKeeps, ExpireKeeps DEF Captures!Next

LEMMA CapturesGoal == CaptureInv => PublishedOnly
  BY DEF CaptureInv, Sound, Known, Done, PublishedOnly, Captures!PublishedOnly
----------------------------------------------------------------------------
(* The parts by themselves. *)
LEMMA CapturesStill == ASSUME CaptureInv, UNCHANGED Captures!vars PROVE CaptureInv'
<1>1. UNCHANGED <<snapshots, active, made, published, viewed, withheld>>
  BY DEF Captures!vars
<1>2. CaptureType' /\ AtWork' /\ Captures!PagesAgree'
  BY <1>1 DEF CaptureInv, CaptureType, AtWork, SecondPage, Captures!PagesAgree
<1>3. \A s \in snapshots' : Sound(s)'
  BY <1>1 DEF CaptureInv, Sound, Known, Done
<1> QED  BY <1>1, <1>2, <1>3 DEF CaptureInv

(* In every reachable state a thread with a connection holds its lane, the  *)
(* record of a call is as far as the call, and what a client holds is the   *)
(* beginning of one output.                                                 *)
THEOREM ReadsInvariance == Spec => []ReadInv
  BY ReadsInit, ReadsNext, PTL DEF Spec

(* In every reachable state a capture was given to a client or withheld     *)
(* from it, or is that of the call at work, and its view is of its text.    *)
THEOREM CapturesInvariance == Captures!Spec => []CaptureInv
<1>1. CaptureInv /\ [Captures!Next]_Captures!vars => CaptureInv'
  BY CapturesNext, CapturesStill
<1> QED  BY CapturesInit, <1>1, PTL DEF Captures!Spec

(* The pages a client has put together are the first pages of one output of *)
(* its query, for any number of threads, queries and pages and whatever     *)
(* expires or gives way in the cache (_SSH_PAGE_CACHE).                     *)
THEOREM PagesAreWhole == Spec => []PagesWhole
<1>1. ReadInv => PagesWhole
  BY DEF ReadInv, Follows, Beginning, PagesWhole
<1> QED  BY ReadsInvariance, <1>1, PTL

(* A client that has a result finds its operation in the record, started    *)
(* and ok; an operation that was started is never without its outcome       *)
(* unless that record failed, and then the client has an error              *)
(* (_audit_device_call).                                                    *)
THEOREM ResultIsRecorded == Spec => []ResultRecorded
<1>1. ReadInv => ResultRecorded
  BY DEF ReadInv, Record, ResultRecorded
<1> QED  BY ReadsInvariance, <1>1, PTL

(* A device never has two connections of the Helper at a time, nor one that *)
(* starts before the spacing since the start of the previous one has        *)
(* passed, and none without a record that was written first, for any number *)
(* of threads and devices (_paced_connection, _audit_device_call).          *)
THEOREM ConnectionsArePaced == Spec => ConnectionsPaced
<1> DEFINE Paced == \A d \in Devices : \A t \in Open(d)' \ Open(d) :
                        Open(d)' = {t} /\ ~waits[d] /\ recorded[t] = <<"started">>
<1>1. ASSUME ReadInv, Next, NEW d \in Devices, NEW t \in Threads, t \in Open(d)', t \notin Open(d)
      PROVE  Open(d)' = {t} /\ ~waits[d] /\ recorded[t] = <<"started">>
  <2>1. pc'[t] = "connected" /\ At(t)' = d
    BY <1>1 DEF Open
  <2>2. Start(t)
    BY <1>1, <2>1, ConnectedBefore DEF Open
  <2>3. /\ pc[t] = "wait" /\ pc' = [pc EXCEPT ![t] = "connected"] /\ job' = job /\ ~waits[At(t)]
        /\ At(t) = d
    BY <2>1, <2>2 DEF Start, Goto, At
  <2>4. holder[d] = t /\ recorded[t] = <<"started">>
    BY <1>1, <2>3 DEF ReadInv, Lane, Record, Fresh
  <2>5. ASSUME NEW q \in Threads, q # t, q \in Open(d)' PROVE FALSE
    <3>1. pc[q] = "connected" /\ At(q) = d
      BY <1>1, <2>3, <2>5 DEF Open, At, ReadInv, ReadType
    <3> QED  BY <1>1, <2>4, <2>5, <3>1 DEF ReadInv, Lane
  <2>6. Open(d)' = {t}
    BY <1>1, <2>5 DEF Open
  <2> QED  BY <2>3, <2>4, <2>6
<1>2. ReadInv /\ Next => Paced
  BY <1>1 DEF Open
<1> QED  BY ReadsInvariance, <1>2, PTL DEF Spec, ConnectionsPaced

(* Between calls there is no capture that no client was given, whichever    *)
(* step of the capture, the filter or the page fails: "errors discard       *)
(* staged state" (store, discard_snapshot). What is left is the capture     *)
(* whose answer was lost with the record of its completion.                 *)
THEOREM CapturesArePublished == Captures!Spec => []PublishedOnly
  BY CapturesInvariance, CapturesGoal, PTL

(* The pages of a filtered capture are of the one text that was given under *)
(* its identity, whatever is read, expires or is pruned between them        *)
(* (filtered_snapshot).                                                     *)
THEOREM PagesAgreeOnText == Captures!Spec => []Captures!PagesAgree
<1>1. CaptureInv => Captures!PagesAgree
  BY DEF CaptureInv
<1> QED  BY CapturesInvariance, <1>1, PTL
----------------------------------------------------------------------------
(* The Helper: a step is one of one part, and leaves the others alone. *)

(* A step of HelperNext is one of one part and leaves the variables of the  *)
(* others alone, so that what is shown of a part can be used of the Helper. *)
LEMMA PartsAreKept == HelperSpec => Spec /\ Captures!Spec /\ Proxy!Spec /\ Log!Spec
<1>1. HelperInit => Init /\ Captures!Init /\ Proxy!Init /\ Log!Init
  BY DEF HelperInit
<1>2. ASSUME [HelperNext]_helper
      PROVE  [Next]_vars /\ [Captures!Next]_Captures!vars /\ [Proxy!Next]_Proxy!vars /\ [Log!Next]_Log!vars
  <2>1. [Next]_vars
    BY <1>2 DEF HelperNext, helper
  <2>2. [Captures!Next]_Captures!vars
    BY <1>2 DEF HelperNext, helper, captures, Captures!vars
  <2>3. [Proxy!Next]_Proxy!vars
    BY <1>2 DEF HelperNext, helper, limits, Proxy!vars
  <2>4. [Log!Next]_Log!vars
    BY <1>2 DEF HelperNext, helper, log, Log!vars, Log!files, Log!call, Log!count
  <2> QED  BY <2>1, <2>2, <2>3, <2>4
<1> QED  BY <1>1, <1>2, PTL DEF HelperSpec, Spec, Captures!Spec, Proxy!Spec, Log!Spec

(* In the Helper, what a client puts together page by page is one output of *)
(* the device: the pages of a read (_SSH_PAGE_CACHE) and those of a         *)
(* filtered capture (filtered_snapshot).                                    *)
THEOREM PagesAreOfOneOutput == HelperSpec => []PagesOfOneOutput
<1>1. PagesWhole /\ Captures!PagesAgree => PagesOfOneOutput
  BY DEF PagesOfOneOutput
<1> QED  BY PartsAreKept, PagesAreWhole, PagesAgreeOnText, <1>1, PTL

(* In the Helper, results are in the record, captures were given, withheld  *)
(* with a failed record or are gone, and connections are paced              *)
(* (_audit_device_call, discard_snapshot, _paced_connection).               *)
THEOREM ReadsAndCapturesKept ==
    HelperSpec => []ResultRecorded /\ []PublishedOnly /\ ConnectionsPaced
  BY PartsAreKept, ResultIsRecorded, CapturesArePublished, ConnectionsArePaced, PTL

(* In the Helper, the log keeps every record whose call returned until      *)
(* retention removes it, whole, in order and within its limits, for any     *)
(* number of writers, segments, failures and kills (_append, _rotate).      *)
THEOREM LogIsKept == HelperSpec => []LogKept
<1>1. Log!log_limits
  BY HelperAssumption
<1>2. Log!LogKept => LogKept
  BY DEF LogKept
<1> QED  BY PartsAreKept, RecorderKeepsLog, <1>1, <1>2, PTL
=============================================================================
