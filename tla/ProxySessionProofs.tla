------------------------- MODULE ProxySessionProofs -------------------------
(***************************************************************************)
(* Proofs about ProxySession: for any number of ids, sessions and faults,  *)
(* an answer belongs to the request that waits under its id, and a request *)
(* is answered at most once.  The argument: a request that the client has  *)
(* sent is in one hand at a time, of the thread that forwards it, of those *)
(* that wait, or of the thread that relays its answer; and what the        *)
(* session that is open was given to answer still waits.                   *)
(***************************************************************************)
EXTENDS ProxySession, TLAPS

(* Zenon is the default prover; a leaf with arithmetic cites SMT. *)
USE Zenon

Lines == [id : Ids, sent : Nat, taken : Nat]

Typed ==
    /\ asked \in [Ids -> Nat] /\ told \in [Ids -> Nat] /\ pending \in [Ids -> Nat]
    /\ epoch \in Nat /\ msg \in Ids \cup {None}
    /\ inbox \in [Epochs -> SUBSET (Ids \X Nat)]
    /\ line \in [Epochs -> Lines \cup {None}]
    /\ \A e \in Epochs : rpc[e] = "relay" => line[e] \in Lines
    /\ rpc \in [Epochs -> {"none", "read", "relay", "exit", "done"}]
    /\ cpc # "free" => lock \in {"main", "watch", "failed", "stop"}

(* forward has the message, and it does not wait yet (the watcher, which    *)
(* looks first, has none); it waits and is not written yet                  *)
Early == {"look", "reap", "kill", "abandon", "request"}
Unwritten == {"accepting", "spawn", "initialize", "replay", "initialized", "write"}

(* the three hands *)
Forwarded(i) == msg = i /\ cpc \in Early
Waits(i) == pending[i] # 0
Relayed(e, i) == line[e] # None /\ line[e].id = i

(* A request in a hand is not answered, and it is in one hand only. *)
Owed(i) ==
    /\ told[i] <= asked[i]
    /\ Forwarded(i) \/ Waits(i) \/ (\E e \in Epochs : Relayed(e, i)) => asked[i] = told[i] + 1
    /\ Waits(i) => pending[i] = asked[i] /\ ~Forwarded(i)
    /\ \A e \in Epochs : Relayed(e, i) => /\ ~Forwarded(i) /\ ~Waits(i)
                                          /\ \A f \in Epochs : Relayed(f, i) => e = f

(* What the open session has been given waits; a session to come has        *)
(* nothing; a relayed answer was that of the request that waited.           *)
Paired ==
    /\ open => \A e \in Epochs : e = epoch => \A r \in inbox[e] : r[2] # 0 /\ pending[r[1]] = r[2]
    /\ \A e \in Epochs : e > epoch => inbox[e] = {}
    /\ \A e \in Epochs : line[e] # None => line[e].sent = line[e].taken

(* What forward is about to write waits and was not written before; what is *)
(* abandoned is the rest of a session that is closed.                       *)
Writing ==
    /\ msg # None /\ cpc \in Unwritten =>
          /\ Waits(msg)
          /\ open => \A e \in Epochs : e = epoch => \A r \in inbox[e] : r[1] # msg
    /\ cpc \in {"kill", "abandon", "spawn"} => ~open

IInv == Typed /\ (\A i \in Ids : Owed(i)) /\ Paired /\ Writing
----------------------------------------------------------------------------
LEMMA InitInv == Init => IInv
<1> SUFFICES ASSUME Init PROVE IInv
  OBVIOUS
<1>1. Typed
  BY DEF Init, Typed, Epochs
<1>2. ASSUME NEW i \in Ids PROVE Owed(i)
  BY SMT, ProxyAssumption DEF Init, Owed, Forwarded, Waits, Relayed, Early
<1>3. Paired /\ Writing
  BY DEF Init, Paired, Writing, Unwritten
<1>4. QED BY <1>1, <1>2, <1>3 DEF IInv

(* A step that gives no request to another hand, opens no session and       *)
(* writes nothing: the holder of the controller lock goes on with its       *)
(* message, or without one.                                                 *)
Quiet ==
    /\ UNCHANGED <<asked, told, pending, line, inbox, epoch>> /\ (open' => open)
    /\ \/ msg' = None
       \/ /\ msg' = msg
          /\ cpc' \in Early => cpc \in Early
          /\ cpc' \in Unwritten => cpc \in Unwritten
    /\ cpc' \in {"kill", "abandon", "spawn"} => ~open'

LEMMA QuietKeeps ==
    ASSUME IInv, Quiet, Typed'
    PROVE  IInv'
<1>1. ASSUME NEW i \in Ids PROVE Owed(i)'
  <2>1. Forwarded(i)' => Forwarded(i)
    BY ProxyAssumption DEF Quiet, Forwarded
  <2>2. (Waits(i)' <=> Waits(i)) /\ \A e \in Epochs : Relayed(e, i)' <=> Relayed(e, i)
    BY DEF Quiet, Waits, Relayed
  <2>3. Owed(i) /\ asked' = asked /\ told' = told /\ pending' = pending
    BY DEF IInv, Quiet
  <2>4. QED BY <2>1, <2>2, <2>3 DEF Owed
<1>2. Paired'
  BY DEF IInv, Paired, Quiet
<1>3. Writing'
  BY DEF IInv, Writing, Quiet, Waits
<1>4. QED BY <1>1, <1>2, <1>3 DEF IInv

(* Readers and the server leave the controller alone *)
LEMMA ThreadQuiet ==
    ASSUME IInv, UNCHANGED <<asked, told, pending, line, inbox, epoch>>, open' => open,
           UNCHANGED controller
    PROVE  Quiet
BY DEF IInv, Writing, Quiet, controller

LEMMA CloseSession ==
    ASSUME NEW why, NEW e, close_session(why, e)
    PROVE  epoch' = epoch /\ (open' => open)
BY DEF close_session, session
----------------------------------------------------------------------------
(* The controller, where no request changes hands *)
LEMMA ControllerQuiet ==
    ASSUME IInv, \/ ClientGone \/ Watch \/ Stop \/ Look \/ Reap \/ Kill \/ AwaitEnd
                 \/ Initialize \/ Replay \/ Initialized
    PROVE  IInv'
<1> USE DEF Quiet, Early, Unwritten
<1>1. Typed /\ Writing
  BY DEF IInv
<1> DEFINE Owner == cpc' # "free" => lock' \in {"main", "watch", "failed", "stop"}
<1>2. /\ Quiet /\ UNCHANGED <<rpc, line, told, asked, pending, inbox, epoch>>
      /\ msg' \in {msg, None} /\ Owner
  <2>1. CASE ClientGone
    BY <2>1, <1>1 DEF ClientGone, waiting, session, server, reader, Writing, Typed
  <2>2. CASE Watch
    BY <2>2 DEF Watch, client, waiting, session, server, reader
  <2>3. CASE Stop
    BY <2>3 DEF Stop, client, waiting, session, server, reader
  <2>4. CASE Look
    <3>1. epoch' = epoch /\ (open' => open)
      BY <2>4, CloseSession DEF Look, session
    <3>2. UNCHANGED <<rpc, line, told, asked, pending, inbox, msg, lock>> /\ cpc = "look" /\ cpc' = "reap"
      BY <2>4 DEF Look, Goto, client, waiting, server, reader
    <3>3. QED BY <1>1, <3>1, <3>2 DEF Typed
  <2>5. CASE Reap
    <3>1. /\ UNCHANGED <<asked, told, pending, line, inbox, epoch, open, rpc>> /\ cpc = "reap"
          /\ lock \in {"main", "watch", "failed", "stop"}
      BY <2>5, <1>1 DEF Typed, Reap, client, waiting, session, server, reader
    <3>2. CASE open \/ reason = None
      BY <2>5, <3>1, <3>2 DEF Reap, AfterReap, Goto, Release, Ended
    <3>3. CASE ~(open \/ reason = None)
      BY <2>5, <3>1, <3>3 DEF Reap, Goto
    <3>4. QED BY <3>2, <3>3
  <2>6. CASE Kill
    BY <2>6, <1>1 DEF Kill, Goto, client, waiting, session, reader, Writing, Typed
  <2>7. CASE Initialize \/ Replay \/ Initialized
    <3>1. /\ UNCHANGED <<asked, told, pending, line, inbox, rpc>>
          /\ cpc \in {"initialize", "replay", "initialized"}
      BY <2>7 DEF Initialize, Replay, Initialized, client, waiting, server, reader
    <3>2. \/ UNCHANGED session /\ \E l \in {"replay", "initialized", "write"} : Goto(l)
          \/ StartFails
      BY <2>7 DEF Initialize, Replay, Initialized
    <3>3. epoch' = epoch /\ (open' => open)
      <4>1. CASE UNCHANGED session
        BY <4>1 DEF session
      <4>2. CASE StartFails
        BY <4>2, CloseSession DEF StartFails
      <4>3. QED BY <3>2, <4>1, <4>2
    <3>4. /\ \/ msg' = msg /\ cpc' \in {"replay", "initialized", "write"}
             \/ msg' = None /\ cpc' = "reap"
          /\ Owner
      BY <3>1, <3>2, <1>1 DEF StartFails, Goto, Typed
    <3>5. QED BY <3>1, <3>3, <3>4
  <2>8. CASE AwaitEnd
    <3>1. epoch' = epoch /\ (open' => open)
      BY <2>8, CloseSession DEF AwaitEnd
    <3>2. QED BY <2>8, <3>1 DEF AwaitEnd, client, waiting, server, reader
  <2>9. QED BY <2>1, <2>2, <2>3, <2>4, <2>5, <2>6, <2>7, <2>8
<1>3. Typed'
  BY <1>1, <1>2 DEF Typed
<1>4. QED BY <1>2, <1>3, QuietKeeps

(* The other threads and the server, where no request changes hands *)
LEMMA ThreadsQuiet ==
    ASSUME IInv, NEW e \in Epochs,
           ReadInitialized(e) \/ ReadRefused(e) \/ ReadEnd(e) \/ ChildExited(e) \/ ServerExits(e)
    PROVE  IInv'
<1>1. Typed
  BY DEF IInv
<1>2. /\ UNCHANGED <<asked, told, pending, line, inbox, epoch, controller>> /\ (open' => open)
      /\ rpc' = rpc \/ \E l \in {"exit", "done"} : rpc' = [rpc EXCEPT ![e] = l]
  <2>1. CASE ReadInitialized(e)
    BY <2>1 DEF ReadInitialized, client, waiting, session, server, reader
  <2>2. CASE ReadRefused(e)
    BY <2>2, CloseSession DEF ReadRefused, client, waiting, reader
  <2>3. CASE ReadEnd(e)
    BY <2>3 DEF ReadEnd, client, waiting, session, server
  <2>4. CASE ChildExited(e)
    BY <2>4, CloseSession DEF ChildExited, client, waiting, server
  <2>5. CASE ServerExits(e)
    BY <2>5 DEF ServerExits, client, waiting, session, reader
  <2>6. QED BY <2>1, <2>2, <2>3, <2>4, <2>5
<1>3. Typed'
  BY <1>1, <1>2 DEF Typed, controller
<1>4. QED BY <1>2, <1>3, ThreadQuiet, QuietKeeps
----------------------------------------------------------------------------
(* abandon answers all that wait, after the session was closed *)
LEMMA AbandonKeeps ==
    ASSUME IInv, abandon, ~open, UNCHANGED <<asked, line, inbox, rpc>>,
           msg' = None \/ (msg' = msg /\ cpc \in Early /\ cpc' \in Early),
           cpc' \in {"free", "request"}, cpc' # "free" => lock' = lock /\ cpc # "free"
    PROVE  IInv'
<1> USE DEF Early, Unwritten
<1>1. Typed /\ Paired
  BY DEF IInv
<1>2. /\ \A i \in Ids : pending'[i] = 0 /\ told'[i] = told[i] + (IF Waits(i) THEN 1 ELSE 0)
      /\ pending' = [i \in Ids |-> 0] /\ epoch' = epoch /\ open' = open
  BY DEF abandon, Waiting, Waits
<1>3. told' \in [Ids -> Nat]
  BY SMT, <1>1 DEF abandon, Typed
<1>4. Typed'
  BY <1>1, <1>2, <1>3, ProxyAssumption DEF Typed
<1>5. ASSUME NEW i \in Ids PROVE Owed(i)'
  <2>1. Forwarded(i)' => Forwarded(i)
    BY ProxyAssumption DEF Forwarded
  <2>2. ~Waits(i)' /\ \A e \in Epochs : Relayed(e, i)' <=> Relayed(e, i)
    BY <1>2 DEF Waits, Relayed
  <2>3. Owed(i) /\ asked' = asked /\ asked[i] \in Nat /\ told[i] \in Nat
    BY <1>1 DEF IInv, Typed
  <2>4. QED BY SMT, <1>2, <2>1, <2>2, <2>3 DEF Owed
<1>6. Paired'
  BY <1>1, <1>2 DEF Paired
<1>7. Writing'
  BY DEF Writing
<1>8. QED BY <1>4, <1>5, <1>6, <1>7 DEF IInv

LEMMA AbandonStep ==
    ASSUME IInv, Abandon \/ SpawnFails
    PROVE  IInv'
<1> USE DEF Early, Unwritten
<1>1. ~open
  BY DEF IInv, Writing, Abandon, SpawnFails
<1>2. CASE Abandon
  <2>1. /\ abandon /\ UNCHANGED <<asked, line, inbox, rpc>> /\ cpc = "abandon"
        /\ lock \in {"main", "watch", "failed", "stop"}
    BY <1>2 DEF Abandon, server, reader, IInv, Typed
  <2>2. /\ msg' = None \/ (msg' = msg /\ cpc' = "request")
        /\ cpc' \in {"free", "request"} /\ (cpc' # "free" => lock' = lock)
    BY <1>2, <2>1 DEF Abandon, AfterReap, Goto, Release, Ended
  <2>3. QED BY <1>1, <2>1, <2>2, AbandonKeeps
<1>3. CASE SpawnFails
  BY <1>1, <1>3, AbandonKeeps DEF SpawnFails, Ended, server, reader
<1>4. QED BY <1>2, <1>3
----------------------------------------------------------------------------
(* The steps that give a request to another hand *)
LEMMA ForwardKeeps == ASSUME IInv, Forward PROVE IInv'
<1> USE DEF Early, Unwritten
<1>1. Typed /\ Paired /\ Writing
  BY DEF IInv
<1>2. /\ UNCHANGED <<told, pending, epoch, open, inbox, line, rpc>>
      /\ lock' = "main" /\ cpc' = "reap"
  BY DEF Forward, waiting, session, server, reader
<1>3. \/ \E i \in Ids : asked[i] = told[i] /\ asked' = [asked EXCEPT ![i] = @ + 1] /\ msg' = i
      \/ asked' = asked /\ msg' = None
  BY DEF Forward
<1>4. Typed'
  BY SMT, <1>1, <1>2, <1>3 DEF Typed
<1>5. ASSUME NEW i \in Ids PROVE Owed(i)'
  <2>1. (Waits(i)' <=> Waits(i)) /\ \A e \in Epochs : Relayed(e, i)' <=> Relayed(e, i)
    BY <1>2 DEF Waits, Relayed
  <2>2. Owed(i) /\ asked[i] \in Nat /\ told[i] \in Nat
    BY <1>1 DEF IInv, Typed
  <2>3. CASE msg' = i
    <3>1. asked[i] = told[i] /\ asked'[i] = asked[i] + 1
      BY <1>1, <1>3, <2>3, ProxyAssumption DEF Typed
    <3>2. ~Waits(i) /\ \A e \in Epochs : ~Relayed(e, i)
      BY SMT, <2>2, <3>1 DEF Owed
    <3>3. QED BY SMT, <1>2, <2>1, <2>2, <3>1, <3>2 DEF Owed
  <2>4. CASE msg' # i
    <3>1. asked'[i] = asked[i] /\ ~Forwarded(i)'
      BY <1>1, <1>3, <2>4 DEF Typed, Forwarded
    <3>2. QED BY <1>2, <2>1, <2>2, <3>1 DEF Owed
  <2>5. QED BY <2>3, <2>4
<1>6. Paired' /\ Writing'
  BY <1>1, <1>2 DEF Paired, Writing
<1>7. QED BY <1>4, <1>5, <1>6 DEF IInv

LEMMA RequestKeeps == ASSUME IInv, Request PROVE IInv'
<1> USE DEF Early, Unwritten
<1>1. Typed /\ Paired /\ Writing /\ \A i \in Ids : Owed(i)
  BY DEF IInv
<1>2. UNCHANGED <<asked, epoch, open, inbox, line, rpc>> /\ cpc = "request"
  BY DEF Request, session, server, reader
<1>3. CASE msg = None /\ Goto("accepting") /\ UNCHANGED <<told, pending>>
  <2>1. Typed'
    BY <1>1, <1>2, <1>3 DEF Typed, Goto
  <2>2. Quiet
    BY <1>2, <1>3 DEF Quiet, Goto
  <2>3. QED BY <2>1, <2>2, QuietKeeps
<1>4. CASE msg # None /\ pending' = [pending EXCEPT ![msg] = asked[msg]] /\ Goto("accepting") /\ UNCHANGED told
  <2>1. /\ msg \in Ids /\ msg' = msg /\ cpc' = "accepting" /\ lock' = lock
        /\ pending'[msg] = asked[msg] /\ \A i \in Ids \ {msg} : pending'[i] = pending[i]
    BY <1>1, <1>4 DEF Goto, Typed
  <2>2. Forwarded(msg) /\ Owed(msg)
    BY <1>1, <1>2, <2>1 DEF Forwarded
  <2>3. /\ asked[msg] = told[msg] + 1 /\ pending[msg] = 0 /\ asked[msg] # 0
        /\ \A e \in Epochs : ~Relayed(e, msg)
    BY SMT, <1>1, <2>1, <2>2 DEF Owed, Waits, Typed
  <2>4. Typed'
    BY <1>1, <1>2, <1>4, <2>1 DEF Typed
  <2>5. ASSUME NEW i \in Ids PROVE Owed(i)'
    <3>1. \A e \in Epochs : Relayed(e, i)' <=> Relayed(e, i)
      BY <1>2 DEF Relayed
    <3>2. ~Forwarded(i)'
      BY <2>1 DEF Forwarded
    <3>3. CASE i = msg
      <4>1. Waits(i)' /\ pending'[i] = asked[i] /\ asked' = asked /\ told' = told
        BY <1>2, <1>4, <2>1, <2>3, <3>3 DEF Waits
      <4>2. QED BY <1>1, <2>3, <3>1, <3>2, <3>3, <4>1 DEF Owed
    <3>4. CASE i # msg
      <4>1. (Waits(i)' <=> Waits(i)) /\ pending'[i] = pending[i] /\ asked' = asked /\ told' = told
        BY <1>2, <1>4, <2>1, <3>4 DEF Waits
      <4>2. QED BY <1>1, <3>1, <3>2, <4>1 DEF Owed
    <3>5. QED BY <3>3, <3>4
  <2>6. open => \A e \in Epochs : e = epoch => \A r \in inbox[e] : r[1] # msg
    BY <1>1, <2>3 DEF Paired
  <2>7. Paired'
    <3>1. \A e \in Epochs : \A r \in inbox[e] : r[1] \in Ids
      BY SMT, <1>1 DEF Typed
    <3>2. QED BY <1>1, <1>2, <2>1, <2>6, <3>1 DEF Paired
  <2>8. Writing'
    BY <1>2, <2>1, <2>3, <2>6 DEF Writing, Waits
  <2>9. QED BY <2>4, <2>5, <2>7, <2>8 DEF IInv
<1>5. CASE msg # None /\ told' = [told EXCEPT ![msg] = @ + 1] /\ Release /\ UNCHANGED pending
  <2>1. /\ msg \in Ids /\ msg' = None /\ cpc' = "free"
        /\ told'[msg] = told[msg] + 1 /\ \A i \in Ids \ {msg} : told'[i] = told[i]
    BY <1>1, <1>5 DEF Release, Typed
  <2>2. Forwarded(msg) /\ Owed(msg)
    BY <1>1, <1>2, <2>1 DEF Forwarded
  <2>3. /\ asked[msg] = told[msg] + 1 /\ ~Waits(msg) /\ \A e \in Epochs : ~Relayed(e, msg)
    BY <1>1, <2>1, <2>2 DEF Owed
  <2>4. Typed'
    BY SMT, <1>1, <1>2, <1>5, <2>1 DEF Typed
  <2>5. ASSUME NEW i \in Ids PROVE Owed(i)'
    <3>1. (Waits(i)' <=> Waits(i)) /\ \A e \in Epochs : Relayed(e, i)' <=> Relayed(e, i)
      BY <1>2, <1>5 DEF Relayed, Waits
    <3>2. ~Forwarded(i)' /\ asked' = asked /\ pending' = pending /\ Owed(i)
      BY <1>1, <1>2, <1>5, <2>1 DEF Forwarded
    <3>3. CASE i = msg
      <4>1. asked[i] \in Nat
        BY <1>1 DEF Typed
      <4>2. QED BY SMT, <2>1, <2>3, <3>1, <3>2, <3>3, <4>1 DEF Owed
    <3>4. CASE i # msg
      BY <2>1, <3>1, <3>2, <3>4 DEF Owed
    <3>5. QED BY <3>3, <3>4
  <2>6. Paired' /\ Writing'
    BY <1>1, <1>2, <1>5, <2>1 DEF Paired, Writing
  <2>7. QED BY <2>4, <2>5, <2>6 DEF IInv
<1>6. QED BY <1>3, <1>4, <1>5 DEF Request

LEMMA CheckSessionKeeps == ASSUME IInv, CheckSession PROVE IInv'
<1> USE DEF Early, Unwritten
<1>1. Typed /\ Writing
  BY DEF IInv
<1>2. UNCHANGED <<asked, inbox, line, rpc>> /\ cpc = "accepting"
  BY DEF CheckSession, server, reader
<1>3. CASE ~open /\ msg # None /\ ~restartable /\ abandon /\ Ended
  BY <1>2, <1>3, AbandonKeeps DEF Ended
<1>4. CASE UNCHANGED <<told, waiting, session>> /\ (Release \/ Goto("write") \/ (~open /\ Goto("spawn")))
  <2>1. UNCHANGED <<told, pending, epoch, open>>
    BY <1>4 DEF waiting, session
  <2>2. \/ msg' = None /\ cpc' = "free"
        \/ msg' = msg /\ lock' = lock /\ cpc' = "write"
        \/ msg' = msg /\ lock' = lock /\ cpc' = "spawn" /\ ~open
    BY <1>4 DEF Release, Goto
  <2>3. Typed'
    BY <1>1, <1>2, <2>1, <2>2 DEF Typed
  <2>4. Quiet
    BY <1>2, <2>1, <2>2 DEF Quiet
  <2>5. QED BY <2>3, <2>4, QuietKeeps
<1>5. QED BY <1>3, <1>4 DEF CheckSession

(* the new session has been given nothing yet *)
LEMMA SpawnKeeps == ASSUME IInv, Spawn PROVE IInv'
<1> USE DEF Early, Unwritten
<1>1. Typed /\ Paired /\ Writing /\ \A i \in Ids : Owed(i)
  BY DEF IInv
<1>2. /\ UNCHANGED <<asked, told, pending, inbox, line, msg, lock>> /\ cpc = "spawn"
      /\ epoch' = epoch + 1 /\ cpc' \in {"initialize", "write"}
      /\ rpc' = [rpc EXCEPT ![epoch + 1] = "read"]
  BY DEF Spawn, Goto, client, waiting
<1>3. Typed'
  <2>1. rpc' \in [Epochs -> {"none", "read", "relay", "exit", "done"}]
    BY <1>1, <1>2 DEF Typed
  <2>2. \A e \in Epochs : rpc'[e] = "relay" => rpc[e] = "relay"
    BY <1>1, <1>2 DEF Typed
  <2>3. epoch' \in Nat /\ lock' \in {"main", "watch", "failed", "stop"}
    BY SMT, <1>1, <1>2 DEF Typed
  <2>4. QED BY <1>1, <1>2, <2>1, <2>2, <2>3 DEF Typed
<1>4. ASSUME NEW i \in Ids PROVE Owed(i)'
  <2>1. (Waits(i)' <=> Waits(i)) /\ \A e \in Epochs : Relayed(e, i)' <=> Relayed(e, i)
    BY <1>2 DEF Relayed, Waits
  <2>2. ~Forwarded(i)'
    BY <1>2 DEF Forwarded
  <2>3. QED BY <1>1, <1>2, <2>1, <2>2 DEF Owed
<1>5. \A e \in Epochs : e >= epoch' => inbox'[e] = {}
  BY SMT, <1>1, <1>2 DEF Paired, Typed, Epochs
<1>6. Paired'
  BY SMT, <1>1, <1>2, <1>5 DEF Paired, Typed, Epochs
<1>7. Writing'
  BY SMT, <1>1, <1>2, <1>5 DEF Writing, Waits, Typed, Epochs
<1>8. QED BY <1>3, <1>4, <1>6, <1>7 DEF IInv

LEMMA WriteKeeps == ASSUME IInv, WriteRequest PROVE IInv'
<1> USE DEF Early, Unwritten
<1>1. Typed /\ Paired /\ Writing /\ \A i \in Ids : Owed(i)
  BY DEF IInv
<1>2. UNCHANGED <<asked, told, pending, epoch, open, line, rpc>> /\ cpc = "write"
  BY DEF WriteRequest, client, waiting, session, reader
<1>3. CASE Goto("await_end") /\ UNCHANGED inbox
  <2>1. Typed'
    BY <1>1, <1>2, <1>3 DEF Typed, Goto
  <2>2. Quiet
    BY <1>2, <1>3 DEF Quiet, Goto
  <2>3. QED BY <2>1, <2>2, QuietKeeps
<1>4. CASE Release /\ inbox' = [inbox EXCEPT ![epoch] = @ \cup {<<i, asked[i]>> : i \in {msg} \ {None}}]
  <2> DEFINE New == {<<i, asked[i]>> : i \in {msg} \ {None}}
  <2>1. \A r \in New : r \in Ids \X Nat /\ r[2] # 0 /\ pending[r[1]] = r[2]
    <3>1. SUFFICES ASSUME msg # None
                   PROVE  msg \in Ids /\ asked[msg] \in Nat /\ asked[msg] # 0 /\ pending[msg] = asked[msg]
      BY SMT
    <3>2. msg \in Ids /\ asked[msg] \in Nat
      BY <1>1, <3>1 DEF Typed
    <3>3. Waits(msg)
      BY <1>1, <1>2, <3>1 DEF Writing
    <3>4. QED BY <1>1, <3>2, <3>3 DEF Owed, Waits
  <2>2. New \in SUBSET (Ids \X Nat)
    BY <2>1
  <2>3. \A e \in Epochs : inbox'[e] = IF e = epoch THEN inbox[e] \cup New ELSE inbox[e]
    BY <1>1, <1>4 DEF Typed
  <2>4. inbox' \in [Epochs -> SUBSET (Ids \X Nat)]
    <3> HIDE DEF New
    <3>1. inbox' = [inbox EXCEPT ![epoch] = inbox[epoch] \cup New]
      BY <1>4 DEF New
    <3>2. QED BY <1>1, <2>2, <3>1 DEF Typed
  <2>5. msg' = None /\ cpc' = "free"
    BY <1>4 DEF Release
  <2>6. Typed'
    BY <1>1, <1>2, <2>4, <2>5 DEF Typed
  <2>7. ASSUME NEW i \in Ids PROVE Owed(i)'
    <3>1. (Waits(i)' <=> Waits(i)) /\ \A e \in Epochs : Relayed(e, i)' <=> Relayed(e, i)
      BY <1>2 DEF Relayed, Waits
    <3>2. ~Forwarded(i)'
      BY <2>5 DEF Forwarded
    <3>3. QED BY <1>1, <1>2, <3>1, <3>2 DEF Owed
  <2>8. Paired'
    <3> HIDE DEF New
    <3>1. ASSUME open, NEW e \in Epochs, e = epoch, NEW r \in inbox'[e]
          PROVE  r[2] # 0 /\ pending[r[1]] = r[2]
      BY <1>1, <2>1, <2>3, <3>1 DEF Paired
    <3>2. ASSUME NEW e \in Epochs, e > epoch PROVE inbox'[e] = {}
      <4>1. e # epoch
        BY SMT, <1>1, <3>2 DEF Typed
      <4>2. QED BY <1>1, <2>3, <3>2, <4>1 DEF Paired
    <3>3. QED BY <1>1, <1>2, <3>1, <3>2 DEF Paired
  <2>9. Writing'
    BY <2>5 DEF Writing
  <2>10. QED BY <2>6, <2>7, <2>8, <2>9 DEF IInv
<1>5. QED BY <1>3, <1>4 DEF WriteRequest

(* an answer is taken for what waits under its id in this session *)
LEMMA AnswerKeeps == ASSUME IInv, NEW e \in Epochs, ReadAnswer(e) PROVE IInv'
<1> USE DEF Early, Unwritten
<1>1. Typed /\ Paired /\ Writing /\ \A i \in Ids : Owed(i)
  BY DEF IInv
<1>2. UNCHANGED <<asked, told, controller>> /\ rpc[e] = "read"
  BY DEF ReadAnswer, client
<1>3. UNCHANGED <<lock, cpc, msg>>
  BY <1>2 DEF controller
<1>4. PICK r \in inbox[e] :
         /\ inbox' = [inbox EXCEPT ![e] = @ \ {r}]
         /\ IF Accepting(e) /\ pending[r[1]] # 0
            THEN /\ pending' = [pending EXCEPT ![r[1]] = 0] /\ late' = late \ {r[1]}
                 /\ line' = [line EXCEPT ![e] = [id |-> r[1], sent |-> r[2], taken |-> pending[r[1]]]]
                 /\ rpc' = [rpc EXCEPT ![e] = "relay"] /\ UNCHANGED session
            ELSE close_session("unpaired_response", e) /\ UNCHANGED <<waiting, reader>>
  BY DEF ReadAnswer
<1>5. r \in Ids \X Nat /\ r[1] \in Ids /\ r[2] \in Nat
  BY SMT, <1>1 DEF Typed
<1>6. \A f \in Epochs : inbox'[f] = IF f = e THEN inbox[f] \ {r} ELSE inbox[f]
  BY <1>1, <1>4 DEF Typed
<1>7. inbox' \in [Epochs -> SUBSET (Ids \X Nat)]
  <2>1. inbox[e] \ {r} \in SUBSET (Ids \X Nat)
    BY <1>1 DEF Typed
  <2>2. QED BY <1>1, <1>4, <2>1 DEF Typed
<1>8. CASE Accepting(e) /\ pending[r[1]] # 0
  <2> DEFINE id == r[1]
             new == [id |-> r[1], sent |-> r[2], taken |-> pending[r[1]]]
  <2>1. UNCHANGED <<epoch, open>> /\ open /\ e = epoch
    BY <1>4, <1>8 DEF session, Accepting
  <2>2. r[2] = pending[id] /\ r[2] # 0
    BY <1>1, <2>1 DEF Paired
  <2>3. new \in Lines /\ new.id = id /\ new.sent = new.taken
    BY <1>1, <1>5, <2>2 DEF Lines, Typed
  <2>4. /\ pending' = [pending EXCEPT ![id] = 0]
        /\ pending'[id] = 0 /\ \A i \in Ids \ {id} : pending'[i] = pending[i]
    BY <1>1, <1>4, <1>5, <1>8 DEF Typed
  <2>5. /\ line' = [line EXCEPT ![e] = new] /\ rpc' = [rpc EXCEPT ![e] = "relay"]
    BY <1>4, <1>8
  <2> HIDE DEF new
  <2>6. line'[e] = new /\ \A f \in Epochs \ {e} : line'[f] = line[f] /\ rpc'[f] = rpc[f]
    BY <1>1, <2>5 DEF Typed
  <2>7. Typed'
    <3>1. line' \in [Epochs -> Lines \cup {None}] /\ pending' \in [Ids -> Nat]
      BY <1>1, <1>5, <2>3, <2>4, <2>5 DEF Typed
    <3>2. rpc' \in [Epochs -> {"none", "read", "relay", "exit", "done"}]
      BY <1>1, <2>5 DEF Typed
    <3>3. \A f \in Epochs : rpc'[f] = "relay" => line'[f] \in Lines
      BY <1>1, <2>3, <2>6 DEF Typed
    <3>4. QED BY <1>1, <1>2, <1>3, <1>7, <2>1, <3>1, <3>2, <3>3 DEF Typed
  <2>8. ASSUME NEW i \in Ids PROVE Owed(i)'
    <3>1. Owed(i) /\ (Forwarded(i)' <=> Forwarded(i)) /\ asked' = asked /\ told' = told
      BY <1>1, <1>2, <1>3 DEF Forwarded
    <3>2. \A f \in Epochs \ {e} : Relayed(f, i)' <=> Relayed(f, i)
      BY <2>6 DEF Relayed
    <3>3. CASE i = id
      <4>1. Waits(i) /\ ~Waits(i)'
        BY <1>8, <2>4, <3>3 DEF Waits
      <4>2. \A f \in Epochs : ~Relayed(f, i)
        BY <3>1, <4>1 DEF Owed
      <4>3. QED BY <3>1, <3>2, <4>1, <4>2 DEF Owed
    <3>4. CASE i # id
      <4>1. (Waits(i)' <=> Waits(i)) /\ pending'[i] = pending[i]
        BY <2>4, <3>4 DEF Waits
      <4>2. ~Relayed(e, i)'
        BY <2>3, <2>6, <3>4 DEF Relayed
      <4>3. QED BY <3>1, <3>2, <4>1, <4>2 DEF Owed
    <3>5. QED BY <3>3, <3>4
  <2>9. Paired'
    <3>1. ASSUME NEW q \in inbox'[e] PROVE q[2] # 0 /\ pending'[q[1]] = q[2]
      <4>1. q \in inbox[e] /\ q # r
        BY <1>6
      <4>2. q \in Ids \X Nat /\ q[2] # 0 /\ pending[q[1]] = q[2]
        BY <1>1, <2>1, <4>1 DEF Paired, Typed
      <4>3. q[1] # id
        BY SMT, <1>5, <2>2, <4>1, <4>2
      <4>4. QED BY <2>4, <4>2, <4>3
    <3>2. \A f \in Epochs : f > epoch => inbox'[f] = {}
      BY <1>1, <1>6 DEF Paired
    <3>3. \A f \in Epochs : line'[f] # None => line'[f].sent = line'[f].taken
      BY <1>1, <2>3, <2>6 DEF Paired
    <3>4. QED BY <2>1, <3>1, <3>2, <3>3 DEF Paired
  <2>10. Writing'
    <3>1. msg # None /\ cpc \in Unwritten => msg \in Ids /\ msg # id
      BY <1>1, <2>1 DEF Writing, Typed
    <3>2. \A q \in inbox'[e] : q \in inbox[e]
      BY <1>6
    <3>3. QED BY <1>1, <1>3, <2>1, <2>4, <3>1, <3>2 DEF Writing, Waits
  <2>11. QED BY <2>7, <2>8, <2>9, <2>10 DEF IInv
<1>9. CASE ~(Accepting(e) /\ pending[r[1]] # 0)
  <2>1. UNCHANGED <<pending, rpc, line, epoch>> /\ (open' => open)
    BY <1>4, <1>9, CloseSession DEF waiting, reader
  <2>2. \A f \in Epochs : inbox'[f] \subseteq inbox[f]
    BY <1>6
  <2>3. Typed'
    BY <1>1, <1>2, <1>3, <1>7, <2>1 DEF Typed
  <2>4. ASSUME NEW i \in Ids PROVE Owed(i)'
    <3>1. /\ Owed(i) /\ (Forwarded(i)' <=> Forwarded(i)) /\ asked' = asked /\ told' = told
          /\ (Waits(i)' <=> Waits(i)) /\ \A f \in Epochs : Relayed(f, i)' <=> Relayed(f, i)
      BY <1>1, <1>2, <1>3, <2>1 DEF Forwarded, Waits, Relayed
    <3>2. QED BY <2>1, <3>1 DEF Owed
  <2>5. Paired'
    BY <1>1, <2>1, <2>2 DEF Paired
  <2>6. Writing'
    BY <1>1, <1>3, <2>1, <2>2 DEF Writing, Waits
  <2>7. QED BY <2>3, <2>4, <2>5, <2>6 DEF IInv
<1>10. QED BY <1>8, <1>9

LEMMA RelayKeeps == ASSUME IInv, NEW e \in Epochs, Relay(e) PROVE IInv'
<1> USE DEF Early, Unwritten
<1>1. Typed /\ Paired /\ Writing /\ \A i \in Ids : Owed(i)
  BY DEF IInv
<1>2. /\ UNCHANGED <<asked, pending, inbox, controller>> /\ rpc[e] = "relay"
      /\ line' = [line EXCEPT ![e] = None]
  BY DEF Relay, waiting, server
<1>3. UNCHANGED <<lock, cpc, msg>>
  BY <1>2 DEF controller
<1>4. epoch' = epoch /\ (open' => open)
  BY CloseSession DEF Relay, session
<1>5. PICK l \in {"done", "read"} : rpc' = [rpc EXCEPT ![e] = l]
  BY DEF Relay
<1>6. line'[e] = None /\ \A f \in Epochs \ {e} : line'[f] = line[f]
  BY <1>1, <1>2 DEF Typed
<1>7. line[e] \in Lines
  BY <1>1, <1>2 DEF Typed
<1>8. told' = told \/ told' = [told EXCEPT ![line[e].id] = @ + 1]
  BY DEF Relay
<1>9. Typed'
  <2>1. told' \in [Ids -> Nat]
    BY SMT, <1>1, <1>7, <1>8 DEF Typed, Lines
  <2>2. line' \in [Epochs -> Lines \cup {None}]
    BY <1>1, <1>2 DEF Typed
  <2>3. /\ rpc' \in [Epochs -> {"none", "read", "relay", "exit", "done"}]
        /\ \A f \in Epochs : rpc'[f] = "relay" => f # e /\ rpc[f] = "relay"
    BY <1>1, <1>5 DEF Typed
  <2>4. QED BY <1>1, <1>2, <1>3, <1>4, <1>6, <2>1, <2>2, <2>3 DEF Typed
<1>10. ASSUME NEW i \in Ids PROVE Owed(i)'
  <2>1. /\ Owed(i) /\ (Forwarded(i)' <=> Forwarded(i)) /\ asked' = asked /\ pending' = pending
        /\ (Waits(i)' <=> Waits(i)) /\ asked[i] \in Nat /\ told[i] \in Nat
    BY <1>1, <1>2, <1>3 DEF Forwarded, Waits, Typed
  <2>2. ~Relayed(e, i)' /\ \A f \in Epochs \ {e} : Relayed(f, i)' <=> Relayed(f, i)
    BY <1>6 DEF Relayed
  <2>3. CASE told' = told
    BY <2>1, <2>2, <2>3 DEF Owed
  <2>4. CASE told' = [told EXCEPT ![line[e].id] = @ + 1] /\ line[e].id = i /\ line[e] # None
    <3>1. Relayed(e, i) /\ told'[i] = told[i] + 1
      BY <1>1, <2>4 DEF Relayed, Typed
    <3>2. /\ asked[i] = told[i] + 1 /\ ~Forwarded(i) /\ ~Waits(i)
          /\ \A f \in Epochs \ {e} : ~Relayed(f, i)
      BY <2>1, <3>1 DEF Owed
    <3>3. QED BY SMT, <2>1, <2>2, <3>1, <3>2 DEF Owed
  <2>5. CASE told' = [told EXCEPT ![line[e].id] = @ + 1] /\ line[e].id # i
    <3>1. told'[i] = told[i]
      BY <1>1, <2>5 DEF Typed
    <3>2. QED BY <2>1, <2>2, <3>1 DEF Owed
  <2>6. CASE told' = [told EXCEPT ![line[e].id] = @ + 1] /\ line[e] = None
    BY <1>7, <2>6, ProxyAssumption DEF Lines
  <2>7. QED BY <1>8, <2>3, <2>4, <2>5, <2>6
<1>11. Paired' /\ Writing'
  BY <1>1, <1>2, <1>3, <1>4, <1>6 DEF Paired, Writing, Waits
<1>12. QED BY <1>9, <1>10, <1>11 DEF IInv
----------------------------------------------------------------------------
LEMMA NextInv == IInv /\ [Next]_vars => IInv'
<1> SUFFICES ASSUME IInv, [Next]_vars PROVE IInv'
  OBVIOUS
<1>1. CASE \/ ClientGone \/ Watch \/ Stop \/ Look \/ Reap \/ Kill \/ AwaitEnd
           \/ Initialize \/ Replay \/ Initialized
  BY <1>1, ControllerQuiet
<1>2. ASSUME NEW e \in Epochs,
             ReadInitialized(e) \/ ReadRefused(e) \/ ReadEnd(e) \/ ChildExited(e) \/ ServerExits(e)
      PROVE  IInv'
  BY <1>2, ThreadsQuiet
<1>3. CASE (\E i \in Ids : Late(i)) \/ Stall \/ Resume
  <2>1. /\ UNCHANGED <<asked, told, pending, line, inbox, epoch, controller>> /\ (open' => open)
        /\ rpc' = rpc
    BY SMT, <1>3 DEF Late, Stall, Resume, client, waiting, session, server, reader
  <2>2. Typed'
    BY <2>1 DEF IInv, Typed, controller
  <2>3. QED BY <2>1, <2>2, ThreadQuiet, QuietKeeps
<1>4. CASE Forward
  BY <1>4, ForwardKeeps
<1>5. CASE Abandon \/ SpawnFails
  BY <1>5, AbandonStep
<1>6. CASE Request
  BY <1>6, RequestKeeps
<1>7. CASE CheckSession
  BY <1>7, CheckSessionKeeps
<1>8. CASE Spawn
  BY <1>8, SpawnKeeps
<1>9. CASE WriteRequest
  BY <1>9, WriteKeeps
<1>10. ASSUME NEW e \in Epochs, ReadAnswer(e) PROVE IInv'
  BY <1>10, AnswerKeeps
<1>11. ASSUME NEW e \in Epochs, Relay(e) PROVE IInv'
  BY <1>11, RelayKeeps
<1>12. CASE UNCHANGED vars
  <2>1. UNCHANGED <<asked, told, pending, line, inbox, epoch, open, rpc, controller>>
    BY <1>12 DEF vars, client, waiting, session, server, reader
  <2>2. Typed'
    BY <2>1 DEF IInv, Typed, controller
  <2>3. QED BY <2>1, <2>2, ThreadQuiet, QuietKeeps
<1>13. QED
  BY <1>1, <1>2, <1>3, <1>4, <1>5, <1>6, <1>7, <1>8, <1>9, <1>10, <1>11, <1>12
  DEF Next, ControllerStep, ReaderStep

THEOREM Invariance == Spec => []IInv
BY InitInv, NextInv, PTL DEF Spec

LEMMA InvMatch == IInv => AnswersMatch
<1> SUFFICES ASSUME IInv PROVE AnswersMatch
  OBVIOUS
<1>1. \A e \in Epochs : line[e] # None => line[e].sent = line[e].taken
  BY DEF IInv, Paired
<1>2. ASSUME NEW i \in Ids PROVE told[i] + (IF i \in Waiting THEN 1 ELSE 0) <= asked[i]
  <2>1. Owed(i) /\ told[i] \in Nat /\ asked[i] \in Nat
    BY DEF IInv, Typed
  <2>2. QED BY SMT, <2>1 DEF Owed, Waiting, Waits
<1>3. QED BY <1>1, <1>2 DEF AnswersMatch

(* An answer the client gets is that of the request that waits under its    *)
(* id, though the id was used in a session before whose answer comes late,  *)
(* and no request is answered twice, by the server, the watcher or the end  *)
(* of a session (response, abandon, forward).                               *)
THEOREM AnswersPaired == Spec => []AnswersMatch
BY Invariance, InvMatch, PTL
=============================================================================
