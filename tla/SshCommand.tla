----------------------------- MODULE SshCommand -----------------------------
(* run_command of the core (netops_core: ssh.py; sftp.stat and Session open *)
(* and leave their workspaces through the same functions). Processes run    *)
(* one call after another. A call first removes what killed calls have left *)
(* in the temporary directory, makes a workspace of its own, claims it by a *)
(* lock on its owner file, writes the credential into it, runs the client   *)
(* under a deadline and a limit for its output, and removes the workspace.  *)
(* A system call on a file, a lock or a pipe is one step.                   *)
EXTENDS Naturals, Sequences

CONSTANTS
    Procs, Dirs,         \* processes; names mkdtemp can return
    None,
    MaxChunks,           \* chunks the client of a process writes at most
    Cap,                 \* chunks a call accepts
    MaxKills             \* bound

ASSUME CallAssumption == None \notin Procs \cup Dirs /\ MaxChunks \in [Procs -> Nat] /\ Cap \in Nat

VARIABLES
    made, files,     \* of a workspace: does it exist, and what does it hold
    lock,            \* of its owner file: the process that holds the flock
    pc, ws,          \* of a process: label, and workspace of its call
    todo, at,        \* names it still looks at for remains, and the one it opened
    client,          \* the client of its call, and what was read of it
    outcome,         \* of its call
    kills, left, due \* workspaces of killed calls; those a call has to remove

vars == <<made, files, lock, pc, ws, todo, at, client, outcome, kills, left, due>>
dirs == <<made, files, lock>>
ghosts == <<kills, left, due>>
----------------------------------------------------------------------------
NoClient == [state |-> "none", child |-> FALSE, quiet |-> FALSE, wrote |-> 0, pipe |-> <<>>,
             got |-> <<>>, ended |-> FALSE]

Init ==
    /\ made = [d \in Dirs |-> FALSE] /\ files = [d \in Dirs |-> {}] /\ lock = [d \in Dirs |-> None]
    /\ pc = [p \in Procs |-> "idle"] /\ ws = [p \in Procs |-> None]
    /\ todo = [p \in Procs |-> {}] /\ at = [p \in Procs |-> None]
    /\ client = [p \in Procs |-> NoClient] /\ outcome = [p \in Procs |-> None]
    /\ kills = 0 /\ left = {} /\ due = [p \in Procs |-> {}]

Goto(p, label) == pc' = [pc EXCEPT ![p] = label]
----------------------------------------------------------------------------
(* _abandoned_removed: the entries of the temporary directory, once *)
Sweep(p) ==
    /\ pc[p] = "idle" /\ Goto(p, "sweep")
    /\ \E d \in Dirs : ~made[d] /\ d \notin left
    /\ todo' = [todo EXCEPT ![p] = {d \in Dirs : made[d]}]
    /\ due' = [due EXCEPT ![p] = {d \in left : "owner" \in files[d]}]
    /\ UNCHANGED <<dirs, ws, at, client, outcome, kills, left>>

(* Mutant: an entry that cannot be opened ends the sweep *)
Look_Abort(p) ==
    /\ pc[p] = "sweep"
    /\ \E d \in todo[p] :
          \/ /\ "owner" \in files[d] /\ todo' = [todo EXCEPT ![p] = @ \ {d}]
             /\ at' = [at EXCEPT ![p] = d] /\ Goto(p, "trylock")
          \/ "owner" \notin files[d] /\ todo' = [todo EXCEPT ![p] = {}] /\ UNCHANGED <<at, pc>>
    /\ UNCHANGED <<dirs, ws, client, outcome, ghosts>>

(* _removed_if_abandoned opens the owner file, if there is one *)
Look(p) ==
    /\ pc[p] = "sweep"
    /\ \E d \in todo[p] :
          /\ todo' = [todo EXCEPT ![p] = @ \ {d}]
          /\ \/ "owner" \in files[d] /\ at' = [at EXCEPT ![p] = d] /\ Goto(p, "trylock")
             \/ "owner" \notin files[d] /\ UNCHANGED <<at, pc>>
    /\ UNCHANGED <<dirs, ws, client, outcome, ghosts>>

(* and takes its lock, if it is free *)
TryLock(p) ==
    /\ pc[p] = "trylock"
    /\ \/ lock[at[p]] = None /\ lock' = [lock EXCEPT ![at[p]] = p] /\ Goto(p, "remove")
          /\ UNCHANGED at
       \/ lock[at[p]] # None /\ Goto(p, "sweep") /\ at' = [at EXCEPT ![p] = None]
          /\ UNCHANGED lock
    /\ UNCHANGED <<made, files, ws, todo, client, outcome, ghosts>>

(* rmtree: file by file, in no particular order, then the directory *)
Unlink(d) ==
    \/ \E f \in files[d] : files' = [files EXCEPT ![d] = @ \ {f}] /\ UNCHANGED made
    \/ files[d] = {} /\ made[d] /\ made' = [made EXCEPT ![d] = FALSE] /\ UNCHANGED files

Close(p, d) == lock' = IF lock[d] = p THEN [lock EXCEPT ![d] = None] ELSE lock

Remove(p) ==
    /\ pc[p] = "remove"
    /\ \/ Unlink(at[p]) /\ UNCHANGED <<lock, at, pc>>
       \/ ~made[at[p]] /\ Close(p, at[p]) /\ at' = [at EXCEPT ![p] = None] /\ Goto(p, "sweep")
          /\ UNCHANGED <<made, files>>
    /\ UNCHANGED <<ws, todo, client, outcome, ghosts>>
----------------------------------------------------------------------------
(* mkdtemp: a name that nobody knows; they are all alike, so one is taken *)
Fresh ==
    {d \in Dirs : ~made[d] /\ d \notin left /\ \A q \in Procs : ws[q] # d /\ at[q] # d}

Make(p) ==
    /\ pc[p] = "sweep" /\ todo[p] = {} /\ Goto(p, "claim")
    /\ \E d \in Fresh :
          /\ d = CHOOSE e \in Fresh : TRUE
          /\ made' = [made EXCEPT ![d] = TRUE] /\ ws' = [ws EXCEPT ![p] = d]
    /\ UNCHANGED <<files, lock, todo, at, client, outcome, ghosts>>

(* Mutant: the owner file has its name before it is locked *)
Created_Owner == "owner"

(* the name of the owner file until it is locked *)
Created == "pending"

(* _claimed: create, lock, rename *)
Claim(p) ==
    LET d == ws[p] IN
    /\ \/ /\ pc[p] = "claim" /\ files' = [files EXCEPT ![d] = @ \cup {Created}]
          /\ Goto(p, "lock") /\ UNCHANGED lock
       \/ /\ pc[p] = "lock" /\ lock[d] = None /\ lock' = [lock EXCEPT ![d] = p]
          /\ Goto(p, "rename") /\ UNCHANGED files
       \/ /\ pc[p] = "rename" /\ files' = [files EXCEPT ![d] = (@ \ {Created}) \cup {"owner"}]
          /\ Goto(p, "prepare") /\ UNCHANGED lock
    /\ UNCHANGED <<made, ws, todo, at, client, outcome, ghosts>>

(* _prepared writes the credential; then the client is started *)
Prepare(p) ==
    /\ pc[p] = "prepare" /\ Goto(p, "read")
    /\ files' = [files EXCEPT ![ws[p]] = @ \cup {"secret"}]
    /\ client' = [client EXCEPT ![p].state = "runs"]
    /\ UNCHANGED <<made, lock, ws, todo, at, outcome, ghosts>>

(* an error before the client runs; _claimed gives its lock back *)
Fail(p) ==
    /\ pc[p] \in {"claim", "lock", "rename", "prepare"} /\ Goto(p, "release")
    /\ \/ pc[p] = "prepare" /\ UNCHANGED lock
       \/ pc[p] # "prepare" /\ Close(p, ws[p])
    /\ UNCHANGED <<made, files, ws, todo, at, client, outcome, ghosts>>

(* _released: the directory first, the lock afterwards *)
Release(p) ==
    LET d == ws[p] IN
    /\ pc[p] = "release"
    /\ \/ Unlink(d) /\ UNCHANGED <<lock, ws, pc, due>>
       \/ /\ ~made[d] /\ Close(p, d) /\ ws' = [ws EXCEPT ![p] = None] /\ Goto(p, "idle")
          /\ due' = [due EXCEPT ![p] = {}] /\ UNCHANGED <<made, files>>
    /\ UNCHANGED <<todo, at, client, outcome, kills, left>>
----------------------------------------------------------------------------
(* The client, which may close its end of the pipe and go on, and a process *)
(* it starts, which holds the pipe as well                                  *)
ClientStep(p) ==
    LET c == client[p] IN
    /\ \/ /\ c.state = "runs" /\ MaxChunks[p] > 0
          /\ \/ /\ c.wrote < MaxChunks[p] /\ ~c.quiet
                /\ client' = [client EXCEPT ![p].wrote = @ + 1, ![p].pipe = Append(@, c.wrote + 1)]
             \/ client' = [client EXCEPT ![p].child = TRUE]
             \/ client' = [client EXCEPT ![p].quiet = TRUE]
       \/ c.child /\ Len(c.pipe) < 1 /\ client' = [client EXCEPT ![p].pipe = Append(@, 0)]
       \/ c.state = "runs" /\ \E s \in {"exits", "signalled"} : client' = [client EXCEPT ![p].state = s]
    /\ UNCHANGED <<dirs, pc, ws, todo, at, outcome, ghosts>>

Dead(c) == c.state \in {"exits", "signalled"}

(* Mutant: reading stops as soon as the client has ended *)
Drained_AtOnce(c) == c.ended

(* the client has ended and nothing waits in the pipe, or the pipe is closed *)
Drained(c) == c.pipe = <<>> /\ (c.ended \/ ((Dead(c) \/ c.quiet) /\ ~c.child))

(* _run_capped: the reading loop *)
Read(p) ==
    LET c == client[p] IN
    /\ pc[p] = "read"
    /\ \/ /\ c.pipe # <<>>
          /\ client' = [client EXCEPT ![p].pipe = Tail(@), ![p].got = Append(@, Head(c.pipe))]
          /\ IF Len(c.got) < Cap THEN UNCHANGED <<pc, outcome>>
             ELSE Goto(p, "stop") /\ outcome' = [outcome EXCEPT ![p] = "refused"]
       \/ Dead(c) /\ ~c.ended /\ client' = [client EXCEPT ![p].ended = TRUE]
          /\ UNCHANGED <<pc, outcome>>
       \/ Drained(c) /\ Goto(p, "reap") /\ UNCHANGED <<client, outcome>>
    /\ UNCHANGED <<dirs, ws, todo, at, ghosts>>

(* the client is waited for, and what is left of its group is ended         *)
(* (_swept); one that died of a signal has not answered                     *)
Reap(p) ==
    LET c == client[p] IN
    /\ pc[p] = "reap" /\ Dead(c) /\ Goto(p, "return")
    /\ client' = [client EXCEPT ![p].child = FALSE]
    /\ outcome' = [outcome EXCEPT ![p] = IF c.state = "exits" THEN "result" ELSE "refused"]
    /\ UNCHANGED <<dirs, ws, todo, at, ghosts>>

(* Mutant: the deadline is for the reading only *)
Expire_Reading(p) ==
    /\ pc[p] = "read" /\ Goto(p, "stop")
    /\ outcome' = [outcome EXCEPT ![p] = "refused"]
    /\ UNCHANGED <<dirs, ws, todo, at, client, ghosts>>

(* the deadline, or the limit for silence *)
Expire(p) ==
    /\ pc[p] \in {"read", "reap"} /\ Goto(p, "stop")
    /\ outcome' = [outcome EXCEPT ![p] = "refused"]
    /\ UNCHANGED <<dirs, ws, todo, at, client, ghosts>>

(* _stopped: the group is terminated and killed *)
Stop(p) ==
    /\ pc[p] = "stop" /\ Goto(p, "return")
    /\ client' = [client EXCEPT ![p].state = IF @ = "runs" THEN "signalled" ELSE @, ![p].child = FALSE]
    /\ UNCHANGED <<dirs, ws, todo, at, outcome, ghosts>>
----------------------------------------------------------------------------
(* the result or the error goes to the caller, past the removal *)
Return(p) ==
    /\ pc[p] = "return" /\ Goto(p, "release")
    /\ client' = [client EXCEPT ![p] = NoClient] /\ outcome' = [outcome EXCEPT ![p] = None]
    /\ UNCHANGED <<dirs, ws, todo, at, ghosts>>

(* SIGKILL: the kernel drops the locks; the client goes on without a reader.*)
(* A workspace counts as left if no removal of it had begun.                *)
Kill(p) ==
    /\ pc[p] # "idle" /\ kills < MaxKills /\ kills' = kills + 1
    /\ lock' = [d \in Dirs |-> IF lock[d] = p THEN None ELSE lock[d]]
    /\ left' = (left \cup IF ws[p] # None THEN {ws[p]} ELSE {})
    /\ due' = [q \in Procs |-> IF q = p THEN {}
                               ELSE due[q] \ IF pc[p] \in {"remove", "release"} THEN {at[p], ws[p]} ELSE {}]
    /\ Goto(p, "idle") /\ ws' = [ws EXCEPT ![p] = None]
    /\ todo' = [todo EXCEPT ![p] = {}] /\ at' = [at EXCEPT ![p] = None]
    /\ client' = [client EXCEPT ![p] = NoClient] /\ outcome' = [outcome EXCEPT ![p] = None]
    /\ UNCHANGED <<made, files>>

Step(p) ==
    \/ Look(p) \/ TryLock(p) \/ Remove(p) \/ Make(p) \/ Claim(p) \/ Prepare(p) \/ Fail(p)
    \/ Release(p) \/ Read(p) \/ Reap(p) \/ Expire(p) \/ Stop(p) \/ Return(p)
Next == \E p \in Procs : Sweep(p) \/ Step(p) \/ ClientStep(p) \/ Kill(p)

(* a call is carried out, and time passes while it waits *)
Spec == Init /\ [][Next]_vars /\ \A p \in Procs : WF_vars(Step(p))
----------------------------------------------------------------------------
(* A call that has claimed its workspace finds in it all it has written     *)
(* until it removes it itself, whatever other calls sweep meanwhile         *)
(* (_claimed, _removed_if_abandoned).                                       *)
WorkspaceKept ==
    \A p \in Procs :
        /\ ws[p] # None /\ pc[p] # "release" => made[ws[p]]
        /\ pc[p] \in {"prepare", "read", "reap", "stop", "return"} => "owner" \in files[ws[p]]
        /\ pc[p] \in {"read", "reap", "stop", "return"} => "secret" \in files[ws[p]]

(* What killed calls have left behind an owner file, before a call began,   *)
(* is gone when that call makes its own workspace, or another call is just  *)
(* removing it ("every later run_command ... first removes what such a call *)
(* left"). A removal that was itself killed is not counted: see             *)
(* CredentialOwned.                                                         *)
RemainsRemoved ==
    \A p \in Procs : pc[p] \in {"claim", "lock", "rename", "prepare", "read", "reap", "stop", "return"} =>
        \A d \in due[p] : made[d] => \E q \in Procs \ {p} : at[q] = d /\ pc[q] = "remove"

(* the chunks 1 .. n in order, whatever others have written between them *)
Whole(s, n) ==
    /\ \A x \in 1 .. n : \E i \in DOMAIN s : s[i] = x
    /\ \A i \in DOMAIN s : s[i] <= n
    /\ \A i, j \in DOMAIN s : i < j /\ s[i] > 0 /\ s[j] > 0 => s[i] < s[j]

(* A call that returns has left neither the client nor one of its processes *)
(* running (_swept, _stopped), and a result holds all the client wrote, in  *)
(* order, though reading stops before the pipe is closed when a process of  *)
(* the client's holds it (_run_capped, _exit_watch).                        *)
AnswerWhole ==
    \A p \in Procs : pc[p] = "return" =>
        /\ client[p].state # "runs" /\ ~client[p].child
        /\ outcome[p] = "result" => Whole(client[p].got, client[p].wrote)

(* Every call ends, also with a client that neither writes nor exits.       *)
CallEnds == \A p \in Procs : pc[p] # "idle" ~> pc[p] = "idle"

(* A workspace without an owner file holds no credential, as it is "one     *)
(* written by a call that has not taken its lock yet" (docs/ssh.md), so all *)
(* that has to be removed by hand is empty.                                 *)
CredentialOwned ==
    \A d \in Dirs : "secret" \in files[d] /\ "owner" \notin files[d] =>
        \E p \in Procs : ws[p] = d \/ at[p] = d
=============================================================================
