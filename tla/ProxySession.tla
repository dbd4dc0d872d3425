---------------------------- MODULE ProxySession ----------------------------
(* The stdio proxy of the helper (netops_helper/proxy.py): one thread       *)
(* forwards the requests of the client, one watches for overdue answers,    *)
(* and one per server session relays what the server answers. A session     *)
(* that can no longer be trusted is ended: its ssh child is killed and the  *)
(* waiting requests are answered; the next request starts a new session.    *)
(* The controller lock serialises the first two threads, so they share one  *)
(* program counter; a relaying thread only takes pending_lock.              *)
EXTENDS Naturals, FiniteSets

CONSTANTS
    Ids,          \* JSON-RPC ids; the client uses one again after its answer
    MaxSends,     \* how often it does
    MaxEpochs,    \* sessions
    MaxNotes,     \* notifications of the client
    MaxFaults,    \* server lines that end a session, servers that exit or stop reading
    None

ASSUME ProxyAssumption ==
    /\ {MaxSends, MaxEpochs, MaxNotes, MaxFaults} \subseteq Nat
    /\ None \notin Ids /\ None \notin [id : Ids, sent : Nat, taken : Nat]

Epochs == 1 .. MaxEpochs

VARIABLES
    asked, told,   \* per id: requests sent, answers received by the client
    pending,       \* per id: number of the request that waits, or 0
    late,          \* ids whose deadline has passed
    epoch, open, reason,      \* of the session
    replay,        \* the proxy's own initialize: None, "waiting", "ok" or "error"
    child,         \* per session: "none", "alive" or "dead"
    full,          \* the server does not read: the pipe to it is full
    inbox,         \* per session: requests written and not read as answered
    rpc, line,     \* per session: step of its relaying thread, and its answer
    lock, cpc, msg,           \* controller lock, step of its holder, its message
    restartable, phase,       \* phase: "run", "stop" or "over"
    gone,          \* the client has closed its end
    notes, faults  \* bounds

client == <<asked, told, gone, notes>>
waiting == <<pending, late>>
session == <<epoch, open, reason>>
server == <<child, full, inbox, faults>>
reader == <<rpc, line>>
controller == <<lock, cpc, msg, restartable, phase>>
vars == <<client, waiting, session, replay, server, reader, controller>>
----------------------------------------------------------------------------
Init ==
    /\ asked = [i \in Ids |-> 0] /\ told = [i \in Ids |-> 0] /\ gone = FALSE /\ notes = 0
    /\ pending = [i \in Ids |-> 0] /\ late = {}
    /\ epoch = 1 /\ open = TRUE /\ reason = None /\ replay = None
    /\ child = [e \in Epochs |-> IF e = 1 THEN "alive" ELSE "none"]
    /\ full = FALSE /\ inbox = [e \in Epochs |-> {}] /\ faults = 0
    /\ rpc = [e \in Epochs |-> IF e = 1 THEN "read" ELSE "none"] /\ line = [e \in Epochs |-> None]
    /\ lock = None /\ cpc = "free" /\ msg = None /\ restartable = TRUE /\ phase = "run"

Waiting == {i \in Ids : pending[i] # 0}

Accepting(e) == open /\ e = epoch

(* close_session: the first reason counts *)
close_session(why, e) ==
    IF Accepting(e) THEN open' = FALSE /\ reason' = why /\ UNCHANGED epoch
    ELSE UNCHANGED session

Goto(label) == cpc' = label /\ UNCHANGED <<lock, msg, phase>>
Release == lock' = None /\ cpc' = "free" /\ msg' = None /\ UNCHANGED phase
(* forward returns FALSE, or the client is gone: main goes on to stop *)
Ended == lock' = None /\ cpc' = "free" /\ msg' = None /\ phase' = "stop"

(* Mutant: requests that were answered go on waiting *)
abandon_Kept ==
    /\ replay' = None /\ reason' = None
    /\ told' = [i \in Ids |-> told[i] + IF i \in Waiting THEN 1 ELSE 0]
    /\ UNCHANGED <<epoch, open, waiting>>

(* Mutant: waiting requests are forgotten *)
abandon_Silent ==
    /\ pending' = [i \in Ids |-> 0] /\ late' = {} /\ replay' = None /\ reason' = None
    /\ UNCHANGED <<epoch, open, told>>

(* abandon: every waiting request is answered with session_terminated *)
abandon ==
    /\ pending' = [i \in Ids |-> 0] /\ late' = {} /\ replay' = None /\ reason' = None
    /\ told' = [i \in Ids |-> told[i] + IF i \in Waiting THEN 1 ELSE 0]
    /\ UNCHANGED <<epoch, open>>
----------------------------------------------------------------------------
(* forward: the client sends a request, or a notification (msg = None) *)
Forward ==
    /\ phase = "run" /\ ~gone /\ lock = None
    /\ \/ \E i \in Ids : /\ asked[i] = told[i] /\ asked[i] < MaxSends
                         /\ asked' = [asked EXCEPT ![i] = @ + 1] /\ msg' = i
                         /\ UNCHANGED notes
       \/ notes < MaxNotes /\ notes' = notes + 1 /\ msg' = None /\ UNCHANGED asked
    /\ lock' = "main" /\ cpc' = "reap"
    /\ UNCHANGED <<told, gone, waiting, session, replay, server, reader, restartable, phase>>

(* the client closes its end: main leaves its loop *)
ClientGone ==
    /\ phase = "run" /\ lock = None
    /\ gone' = TRUE /\ phase' = "stop"
    /\ UNCHANGED <<asked, told, notes, waiting, session, replay, server, reader, lock, cpc, msg, restartable>>

(* _watch: wakes up, or is woken, and takes the lock *)
Watch ==
    /\ phase # "over" /\ lock = None
    /\ lock' = "watch" /\ cpc' = "look" /\ msg' = None
    /\ UNCHANGED <<client, waiting, session, replay, server, reader, restartable, phase>>

(* overdue: an answer did not come in time *)
Look ==
    /\ cpc = "look" /\ Goto("reap")
    /\ IF late # {} THEN close_session("response_timeout", epoch) ELSE UNCHANGED session
    /\ UNCHANGED <<client, waiting, replay, server, reader, restartable>>

(* after _reap: forward goes on with the request, the watcher waits again,  *)
(* and after an error or in stop the process ends                           *)
AfterReap ==
    CASE lock = "main" -> Goto("request")
      [] lock = "watch" -> Release
      [] lock = "failed" -> Ended
      [] lock = "stop" -> lock' = None /\ cpc' = "free" /\ msg' = None /\ phase' = "over"

(* finish_session: nothing to do while the session is open, or was finished *)
Reap ==
    /\ cpc = "reap"
    /\ IF open \/ reason = None THEN AfterReap ELSE Goto("kill")
    /\ UNCHANGED <<client, waiting, session, replay, server, reader, restartable>>

(* kill: and wait for its exit *)
Kill ==
    /\ cpc = "kill" /\ Goto("abandon")
    /\ child' = [child EXCEPT ![epoch] = "dead"] /\ full' = FALSE
    /\ UNCHANGED <<client, waiting, session, replay, inbox, faults, reader, restartable>>

Abandon ==
    /\ cpc = "abandon"
    /\ abandon /\ AfterReap
    /\ restartable' = (restartable /\ reason \notin {"transport_closed", "session_start"})
    /\ UNCHANGED <<asked, gone, notes, server, reader>>

(* request: answered by the proxy itself (invalid, not authorised, over a   *)
(* limit, target_scope), or waiting from now on; a notification passes      *)
Request ==
    /\ cpc = "request"
    /\ \/ msg = None /\ Goto("accepting") /\ UNCHANGED <<told, pending>>
       \/ msg # None /\ pending' = [pending EXCEPT ![msg] = asked[msg]] /\ Goto("accepting")
          /\ UNCHANGED told
       \/ msg # None /\ told' = [told EXCEPT ![msg] = @ + 1] /\ Release /\ UNCHANGED pending
    /\ UNCHANGED <<asked, gone, notes, late, session, replay, server, reader, restartable>>

(* forward: without a session a notification is dropped, and a request      *)
(* starts a new one, unless the transport was lost                          *)
CheckSession ==
    /\ cpc = "accepting"
    /\ \/ open /\ Goto("write") /\ UNCHANGED <<told, waiting, session, replay>>
       \/ ~open /\ msg = None /\ Release /\ UNCHANGED <<told, waiting, session, replay>>
       \/ ~open /\ msg # None /\ restartable /\ Goto("spawn")
          /\ UNCHANGED <<told, waiting, session, replay>>
       \/ ~open /\ msg # None /\ ~restartable /\ abandon /\ Ended
    /\ UNCHANGED <<asked, gone, notes, server, reader, restartable>>

(* _restart: a new child and session; initialize is repeated unless there   *)
(* was none, or the request is one                                          *)
Spawn ==
    /\ cpc = "spawn" /\ epoch < MaxEpochs
    /\ epoch' = epoch + 1 /\ open' = TRUE /\ reason' = None
    /\ child' = [child EXCEPT ![epoch + 1] = "alive"] /\ rpc' = [rpc EXCEPT ![epoch + 1] = "read"]
    /\ full' = FALSE
    /\ Goto("initialize") \/ Goto("write")
    /\ UNCHANGED <<client, waiting, replay, inbox, faults, line, restartable>>

SpawnFails ==
    /\ cpc = "spawn"
    /\ abandon /\ Ended /\ restartable' = FALSE
    /\ UNCHANGED <<asked, gone, notes, server, reader>>

(* _restart: the new session is given up *)
StartFails ==
    /\ close_session("session_start", epoch)
    /\ lock' = "failed" /\ cpc' = "reap" /\ msg' = None /\ UNCHANGED <<replay, phase>>

(* _replay_initialize: writes initialize. A write has no timeout: it waits, *)
(* with the controller lock held, until the server reads, and fails when    *)
(* the child is dead.                                                       *)
Initialize ==
    /\ cpc = "initialize" /\ ~full
    /\ \/ child[epoch] = "alive" /\ replay' = "waiting" /\ Goto("replay") /\ UNCHANGED session
       \/ child[epoch] = "dead" /\ StartFails
    /\ UNCHANGED <<client, waiting, server, reader, restartable>>

(* the answer has come, and the client has sent notifications/initialized   *)
(* before or not; or an error, the end of the session, or the timeout       *)
Replay ==
    /\ cpc = "replay"
    /\ \/ replay = "ok" /\ Goto("initialized") /\ UNCHANGED <<session, replay>>
       \/ replay = "ok" /\ open /\ Goto("write") /\ replay' = None /\ UNCHANGED session
       \/ (replay # "ok" \/ ~open) /\ StartFails
    /\ UNCHANGED <<client, waiting, server, reader, restartable>>

(* writes notifications/initialized, and looks at the session again *)
Initialized ==
    /\ cpc = "initialized" /\ ~full
    /\ IF open /\ child[epoch] = "alive"
       THEN Goto("write") /\ replay' = None /\ UNCHANGED session
       ELSE StartFails
    /\ UNCHANGED <<client, waiting, server, reader, restartable>>

(* the request goes into the pipe of the child, or it is dead: then the     *)
(* relaying thread is waited for (await_end)                                *)
WriteRequest ==
    /\ cpc = "write" /\ ~full
    /\ \/ /\ child[epoch] = "alive" /\ Release
          /\ inbox' = [inbox EXCEPT ![epoch] = @ \cup {<<i, asked[i]>> : i \in {msg} \ {None}}]
       \/ child[epoch] = "dead" /\ Goto("await_end") /\ UNCHANGED inbox
    /\ UNCHANGED <<client, waiting, session, replay, child, full, faults, reader, restartable>>

AwaitEnd ==
    /\ cpc = "await_end"
    /\ close_session("transport_closed", epoch)
    /\ lock' = "failed" /\ cpc' = "reap" /\ msg' = None /\ UNCHANGED phase
    /\ UNCHANGED <<client, waiting, replay, server, reader, restartable>>

(* stop: ends the session if it has to, then the process *)
Stop ==
    /\ phase = "stop" /\ lock = None
    /\ lock' = "stop" /\ cpc' = "reap" /\ msg' = None
    /\ UNCHANGED <<client, waiting, session, replay, server, reader, restartable, phase>>
----------------------------------------------------------------------------
(* response, _transform: an answer is paired with the request that waits    *)
(* under its id, or it ends the session; what a session that has ended      *)
(* sends is discarded                                                       *)
ReadAnswer(e) ==
    /\ phase # "over" /\ rpc[e] = "read"
    /\ \E r \in inbox[e] :
          /\ inbox' = [inbox EXCEPT ![e] = @ \ {r}]
          /\ IF Accepting(e) /\ pending[r[1]] # 0
             THEN /\ pending' = [pending EXCEPT ![r[1]] = 0] /\ late' = late \ {r[1]}
                  /\ line' = [line EXCEPT ![e] = [id |-> r[1], sent |-> r[2], taken |-> pending[r[1]]]]
                  /\ rpc' = [rpc EXCEPT ![e] = "relay"] /\ UNCHANGED session
             ELSE /\ close_session("unpaired_response", e)
                  /\ UNCHANGED <<waiting, reader>>
    /\ UNCHANGED <<client, replay, child, full, faults, controller>>

(* the answer to the proxy's own initialize *)
ReadInitialized(e) ==
    /\ phase # "over" /\ rpc[e] = "read" /\ Accepting(e) /\ replay = "waiting"
    /\ replay' \in {"ok", "error"}
    /\ UNCHANGED <<client, waiting, session, server, reader, controller>>

(* a line that is no JSON-RPC message, or answers nothing *)
ReadRefused(e) ==
    /\ phase # "over" /\ rpc[e] = "read" /\ Accepting(e) /\ faults < MaxFaults
    /\ faults' = faults + 1
    /\ \E why \in {"server_message", "unpaired_response"} : close_session(why, e)
    /\ UNCHANGED <<client, waiting, replay, child, full, inbox, reader, controller>>

(* the answer is written to the client *)
Relay(e) ==
    /\ phase # "over" /\ rpc[e] = "relay"
    /\ line' = [line EXCEPT ![e] = None]
    /\ IF gone THEN /\ close_session("transport_closed", e)
                    /\ rpc' = [rpc EXCEPT ![e] = "done"] /\ UNCHANGED told
               ELSE /\ told' = [told EXCEPT ![line[e].id] = @ + 1]
                    /\ rpc' = [rpc EXCEPT ![e] = "read"] /\ UNCHANGED session
    /\ UNCHANGED <<asked, gone, notes, waiting, replay, server, controller>>

(* end of the output: nothing to do when the session was ended elsewhere *)
ReadEnd(e) ==
    /\ phase # "over" /\ rpc[e] = "read" /\ child[e] = "dead"
    /\ rpc' = [rpc EXCEPT ![e] = IF Accepting(e) THEN "exit" ELSE "done"]
    /\ UNCHANGED <<client, waiting, session, replay, server, line, controller>>

(* the exit was waited for and reported *)
ChildExited(e) ==
    /\ phase # "over" /\ rpc[e] = "exit"
    /\ close_session("transport_closed", e)
    /\ rpc' = [rpc EXCEPT ![e] = "done"]
    /\ UNCHANGED <<client, waiting, replay, server, line, controller>>

(* the ssh child exits on its own *)
ServerExits(e) ==
    /\ phase # "over" /\ child[e] = "alive" /\ faults < MaxFaults
    /\ child' = [child EXCEPT ![e] = "dead"] /\ faults' = faults + 1
    /\ full' = (full /\ e # epoch)
    /\ UNCHANGED <<client, waiting, session, replay, inbox, reader, controller>>

(* the server of the session stops reading its input, and may read on *)
Stall ==
    /\ phase # "over" /\ child[epoch] = "alive" /\ ~full /\ faults < MaxFaults
    /\ full' = TRUE /\ faults' = faults + 1
    /\ UNCHANGED <<client, waiting, session, replay, child, inbox, reader, controller>>

Resume ==
    /\ phase # "over" /\ full /\ full' = FALSE
    /\ UNCHANGED <<client, waiting, session, replay, child, inbox, faults, reader, controller>>

(* the deadline of a waiting request passes *)
Late(i) ==
    /\ phase # "over" /\ i \in Waiting \ late
    /\ late' = late \cup {i}
    /\ UNCHANGED <<client, pending, session, replay, server, reader, controller>>
----------------------------------------------------------------------------
ControllerStep == \/ Look \/ Reap \/ Kill \/ Abandon \/ Request \/ CheckSession
                  \/ Spawn \/ SpawnFails \/ Initialize \/ Replay \/ Initialized
                  \/ WriteRequest \/ AwaitEnd
ReaderStep(e) == ReadAnswer(e) \/ Relay(e) \/ ReadEnd(e) \/ ChildExited(e)

Next == \/ Forward \/ ClientGone \/ Watch \/ Stop \/ ControllerStep
        \/ \E e \in Epochs : ReaderStep(e) \/ ReadInitialized(e) \/ ReadRefused(e) \/ ServerExits(e)
        \/ Stall \/ Resume
        \/ \E i \in Ids : Late(i)

Spec == Init /\ [][Next]_vars

(* Threads that can run do so, the client reads what it is sent, and time   *)
(* passes. Nothing is assumed about the server or who gets the lock.        *)
FairSpec ==
    /\ Spec
    /\ WF_vars(Watch) /\ WF_vars(ControllerStep)
    /\ \A e \in Epochs : WF_vars(Relay(e)) /\ WF_vars(ReadEnd(e)) /\ WF_vars(ChildExited(e))
    /\ \A i \in Ids : WF_vars(Late(i))
----------------------------------------------------------------------------
(* An answer the client gets belongs to the request that waits under its    *)
(* id, also when the id was used in an earlier session whose answer comes   *)
(* late, and a request is answered at most once.                            *)
AnswersMatch ==
    /\ \A e \in Epochs : line[e] # None => line[e].sent = line[e].taken
    /\ \A i \in Ids : told[i] + (IF i \in Waiting THEN 1 ELSE 0) <= asked[i]

(* The thread that forwards waits for a server that does not read; it holds *)
(* the controller lock, so the watcher can do nothing about it.             *)
Blocked == cpc \in {"initialize", "initialized", "write"} /\ full

(* Every request is answered, unless the proxy ends first, or blocks for    *)
(* ever in a write to a server that does not read: deadlines, the watcher   *)
(* and the end of a session leave no request without an answer, whatever    *)
(* else the server does (forward, _watch, abandon).                         *)
EveryRequestAnswered ==
    []<>~Blocked => \A i \in Ids : told[i] < asked[i] ~> told[i] = asked[i] \/ phase # "run"

(* docs/.../configuration.md: a session is ended, its child killed and its  *)
(* waiting requests answered, before the next one starts.                   *)
EndedBeforeNext ==
    \A e \in 1 .. epoch - 1 :
        /\ child[e] = "dead"
        /\ \A i \in Waiting : <<i, pending[i]>> \notin inbox[e]
============================================================================
