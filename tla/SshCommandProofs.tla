-------------------------- MODULE SshCommandProofs --------------------------
(* Proofs about SshCommand: for any number of processes, names and kills, a *)
(* call finds its workspace as it left it, what killed calls have left is   *)
(* gone, or being removed, when a later call makes its workspace, and a     *)
(* result is all the client wrote. IInv is about the workspaces, CInv about *)
(* the client of a call.                                                    *)
EXTENDS SshCommand, TLAPS

(* Zenon is the default prover; a leaf with arithmetic cites SMT. *)
USE Zenon

(* labels of a call that has a workspace: before the owner file has its     *)
(* name; while it holds the lock of it; all of them                         *)
Unnamed == {"claim", "lock", "rename"}
Held == {"rename", "prepare", "read", "reap", "stop", "return"}
Using == Unnamed \cup Held
Labels == {"idle", "sweep", "trylock", "remove", "release"} \cup Using

(* What the arguments below need of the types *)
Typed ==
    /\ made \in [Dirs -> BOOLEAN] /\ files \in [Dirs -> SUBSET {"pending", "owner", "secret"}]
    /\ lock \in [Dirs -> Procs \cup {None}] /\ pc \in [Procs -> Labels]
    /\ ws \in [Procs -> Dirs \cup {None}] /\ at \in [Procs -> Dirs \cup {None}]
    /\ todo \in [Procs -> SUBSET Dirs] /\ due \in [Procs -> SUBSET Dirs] /\ left \subseteq Dirs

(* A workspace belongs to a call, a name to a sweep that has opened its     *)
(* owner file.                                                              *)
Stage(p) ==
    /\ ws[p] # None <=> pc[p] \in Using \cup {"release"}
    /\ at[p] # None <=> pc[p] \in {"trylock", "remove"}

(* No two calls share a workspace, none has that of a killed call, and what *)
(* does not exist holds nothing.                                            *)
Apart ==
    /\ \A p, q \in Procs : ws[p] # None /\ ws[p] = ws[q] => p = q
    /\ \A p \in Procs : ws[p] \notin left
    /\ \A d \in Dirs : ~made[d] => files[d] = {}

Removes(q, d) == at[q] = d /\ pc[q] = "remove"

(* A lock is held by the call whose workspace it is, or by who removes it.  *)
Locked(d) == lock[d] # None => Removes(lock[d], d) \/ ws[lock[d]] = d

(* No sweep has opened the owner file, and none can. *)
Unseen(d) == "owner" \notin files[d] /\ \A q \in Procs : at[q] # d

(* A call is alone with its workspace: the owner file has no name yet, or   *)
(* the call holds its lock.                                                 *)
Own(p) ==
    /\ pc[p] = "remove" => lock[at[p]] = p
    /\ pc[p] \in Held => lock[ws[p]] = p
    /\ pc[p] \in Unnamed => Unseen(ws[p])
    /\ pc[p] = "release" => lock[ws[p]] = p \/ Unseen(ws[p])

Kept(p) ==
    /\ pc[p] \in Using => made[ws[p]]
    /\ pc[p] \in Held \ {"rename"} => "owner" \in files[ws[p]]
    /\ pc[p] \in Held \ {"rename", "prepare"} => "secret" \in files[ws[p]]

(* What a call has to remove was left by a killed one, and still has its    *)
(* owner file unless its removal has begun.                                 *)
Debt(p) ==
    /\ due[p] \subseteq left
    /\ \A d \in due[p] : made[d] => "owner" \in files[d] \/ \E q \in Procs : Removes(q, d)

(* The sweep still comes to it, has opened it, or has found it locked. *)
Swept(p) ==
    /\ pc[p] \in {"sweep", "trylock", "remove"} =>
          \A d \in due[p] : made[d] =>
              d \in todo[p] \/ at[p] = d \/ \E q \in Procs \ {p} : Removes(q, d)
    /\ pc[p] \in Using =>
          \A d \in due[p] : made[d] => \E q \in Procs \ {p} : Removes(q, d)

(* The pipe continues what was read: together they are whole. *)
Stream(got, pipe, n) ==
    /\ got \in Seq(Nat) /\ pipe \in Seq(Nat) /\ n \in Nat
    /\ \A x \in 1 .. n : (\E i \in 1 .. Len(got) : got[i] = x) \/ \E i \in 1 .. Len(pipe) : pipe[i] = x
    /\ \A i \in 1 .. Len(got) : got[i] <= n
    /\ \A i \in 1 .. Len(pipe) : pipe[i] <= n
    /\ \A i, j \in 1 .. Len(got) : i < j /\ got[i] > 0 /\ got[j] > 0 => got[i] < got[j]
    /\ \A i, j \in 1 .. Len(pipe) : i < j /\ pipe[i] > 0 /\ pipe[j] > 0 => pipe[i] < pipe[j]
    /\ \A i \in 1 .. Len(got), j \in 1 .. Len(pipe) : got[i] > 0 /\ pipe[j] > 0 => got[i] < pipe[j]

Clients == [state : {"none", "runs", "exits", "signalled"}, child : BOOLEAN, quiet : BOOLEAN,
            wrote : Nat, pipe : Seq(Nat), got : Seq(Nat), ended : BOOLEAN]

(* nothing of the client's can be in the pipe, or get into it *)
Silent(c) == (Dead(c) \/ c.quiet) /\ \A i \in 1 .. Len(c.pipe) : c.pipe[i] = 0

(* There is a client while a call reads or ends it; reading ends when the   *)
(* client has nothing more to say; and only such a call has a result.       *)
Hears(c, label, answer) ==
    /\ label \notin {"read", "reap", "stop", "return"} => c = NoClient
    /\ Stream(c.got, c.pipe, c.wrote)
    /\ c.ended => Dead(c)
    /\ label = "reap" => Silent(c)
    /\ label = "stop" => answer = "refused"
    /\ label = "return" => c.state # "runs" /\ ~c.child /\ (answer = "result" => Silent(c))

Heard(p) == Hears(client[p], pc[p], outcome[p])

CInv ==
    /\ client \in [Procs -> Clients] /\ outcome \in [Procs -> {"result", "refused", None}]
    /\ \A p \in Procs : Heard(p)

IInv ==
    /\ Typed /\ Apart /\ \A d \in Dirs : Locked(d)
    /\ \A p \in Procs : Stage(p) /\ Own(p) /\ Kept(p) /\ Debt(p) /\ Swept(p)
----------------------------------------------------------------------------
space == <<made, files, lock, ws, todo, at, left, due>>

(* A step on the client or towards the end of a call leaves the workspaces  *)
(* alone and the call where it holds its lock (Read, Reap, Expire, Stop,    *)
(* Return).                                                                 *)
LEMMA CallKeeps ==
    ASSUME IInv, UNCHANGED space, NEW p \in Procs,
           \/ pc' = pc
           \/ /\ pc[p] \in {"read", "reap", "stop", "return"}
              /\ \E l \in {"reap", "stop", "return", "release"} : pc' = [pc EXCEPT ![p] = l]
    PROVE  IInv'
<1>1. CASE pc' = pc
  BY SMT, <1>1 DEF IInv, space, Typed, Apart, Locked, Removes, Stage, Own, Unseen, Kept, Debt, Swept
<1>2. CASE pc[p] \in {"read", "reap", "stop", "return"} /\ pc' # pc
  <2>1. PICK l \in {"reap", "stop", "return", "release"} : pc' = [pc EXCEPT ![p] = l]
    BY <1>2
  <2>2. Typed' /\ Apart'
    BY <1>2, <2>1 DEF IInv, space, Typed, Apart, Labels, Using, Held, Unnamed
  <2>3. \A q \in Procs : \A d : Removes(q, d)' <=> Removes(q, d)
    BY <1>2, <2>1 DEF IInv, space, Typed, Removes
  <2>4. ASSUME NEW d \in Dirs PROVE Locked(d)'
    BY <2>3 DEF IInv, space, Typed, Locked
  <2>5. ASSUME NEW q \in Procs PROVE Stage(q)' /\ Own(q)' /\ Kept(q)'
    BY SMT, <1>2, <2>1 DEF IInv, space, Typed, Stage, Own, Unseen, Kept, Using, Held, Unnamed
  <2>6. ASSUME NEW q \in Procs PROVE Debt(q)'
    BY <2>3 DEF IInv, space, Typed, Debt
  <2>7. ASSUME NEW q \in Procs PROVE Swept(q)'
    BY SMT, <1>2, <2>1, <2>3 DEF IInv, space, Typed, Swept, Using, Held, Unnamed
  <2> QED  BY <2>2, <2>4, <2>5, <2>6, <2>7 DEF IInv
<1> QED  BY <1>1, <1>2

LEMMA SweepKeeps == ASSUME IInv, NEW p \in Procs, Sweep(p) PROVE IInv'
<1>1. /\ pc[p] = "idle" /\ pc' = [pc EXCEPT ![p] = "sweep"]
      /\ todo' = [todo EXCEPT ![p] = {d \in Dirs : made[d]}]
      /\ due' = [due EXCEPT ![p] = {d \in left : "owner" \in files[d]}]
      /\ UNCHANGED <<made, files, lock, ws, at, left>>
  BY DEF Sweep, Goto, dirs
<1>2. Typed' /\ Apart'
  BY <1>1 DEF IInv, Typed, Apart, Labels, Using, Held, Unnamed
<1>3. \A q \in Procs : \A d : Removes(q, d)' <=> Removes(q, d)
  BY <1>1 DEF IInv, Typed, Removes
<1>4. ASSUME NEW d \in Dirs PROVE Locked(d)'
  BY <1>1, <1>3 DEF IInv, Typed, Locked
<1>5. ASSUME NEW q \in Procs PROVE Stage(q)' /\ Own(q)' /\ Kept(q)'
  BY SMT, <1>1 DEF IInv, Typed, Stage, Own, Unseen, Kept, Using, Held, Unnamed
<1>6. ASSUME NEW q \in Procs PROVE Debt(q)'
  BY <1>1, <1>3 DEF IInv, Typed, Debt
<1>7. ASSUME NEW q \in Procs PROVE Swept(q)'
  BY SMT, <1>1, <1>3 DEF IInv, Typed, Swept, Using, Held, Unnamed
<1> QED  BY <1>2, <1>4, <1>5, <1>6, <1>7 DEF IInv

LEMMA LookKeeps == ASSUME IInv, NEW p \in Procs, Look(p) PROVE IInv'
<1>1. PICK d \in todo[p] :
      /\ todo' = [todo EXCEPT ![p] = @ \ {d}]
      /\ \/ "owner" \in files[d] /\ at' = [at EXCEPT ![p] = d] /\ pc' = [pc EXCEPT ![p] = "trylock"]
         \/ "owner" \notin files[d] /\ UNCHANGED <<at, pc>>
  BY DEF Look, Goto
<1>2. pc[p] = "sweep" /\ at[p] = None /\ d \in Dirs /\ UNCHANGED <<made, files, lock, ws, due, left>>
  BY DEF Look, dirs, ghosts, IInv, Typed, Stage
<1>3. Typed' /\ Apart'
  BY SMT, <1>1, <1>2 DEF IInv, Typed, Apart, Labels
<1>4. \A q \in Procs : \A e : Removes(q, e)' <=> Removes(q, e)
  BY <1>1, <1>2 DEF IInv, Typed, Removes
<1>5. ASSUME NEW e \in Dirs PROVE Locked(e)'
  BY <1>2, <1>4 DEF IInv, Typed, Locked
<1>6. ASSUME NEW q \in Procs PROVE Stage(q)' /\ Kept(q)'
  BY SMT, <1>1, <1>2, CallAssumption DEF IInv, Typed, Stage, Kept, Using, Held, Unnamed
<1>7. ASSUME NEW q \in Procs PROVE Own(q)'
  BY SMT, <1>1, <1>2 DEF IInv, Typed, Own, Unseen, Stage, Using, Held, Unnamed
<1>8. ASSUME NEW q \in Procs PROVE Debt(q)'
  BY <1>2, <1>4 DEF IInv, Typed, Debt
<1>9. Swept(p)'
  <2>1. ASSUME NEW e \in due[p], made[e]
        PROVE  e \in todo'[p] \/ at'[p] = e \/ \E q \in Procs \ {p} : Removes(q, e)
    <3>1. e \in todo[p] \/ \E q \in Procs \ {p} : Removes(q, e)
      BY SMT, <1>2, <2>1, CallAssumption DEF IInv, Typed, Swept
    <3>2. "owner" \in files[e] \/ \E q \in Procs : Removes(q, e)
      BY <2>1 DEF IInv, Debt
    <3>3. ~Removes(p, e)
      BY <1>2 DEF Removes
    <3> QED  BY SMT, <1>1, <1>2, <3>1, <3>2, <3>3 DEF IInv, Typed
  <2> QED  BY SMT, <1>1, <1>2, <1>4, <2>1 DEF IInv, Typed, Swept, Using, Held, Unnamed
<1>10. ASSUME NEW q \in Procs, q # p PROVE Swept(q)'
  BY SMT, <1>1, <1>2, <1>4, <1>10 DEF IInv, Typed, Swept
<1> QED  BY <1>3, <1>5, <1>6, <1>7, <1>8, <1>9, <1>10 DEF IInv

LEMMA TryLockKeeps == ASSUME IInv, NEW p \in Procs, TryLock(p) PROVE IInv'
<1>1. /\ pc[p] = "trylock" /\ at[p] \in Dirs /\ ws[p] = None
      /\ UNCHANGED <<made, files, ws, todo, due, left>>
  BY DEF TryLock, ghosts, IInv, Typed, Stage, Using, Held, Unnamed
<1>2. CASE /\ lock[at[p]] = None /\ lock' = [lock EXCEPT ![at[p]] = p]
           /\ pc' = [pc EXCEPT ![p] = "remove"] /\ at' = at
  <2>1. Typed' /\ Apart'
    BY <1>1, <1>2 DEF IInv, Typed, Apart, Labels
  <2>2. /\ \A q \in Procs : \A e : Removes(q, e) => Removes(q, e)'
        /\ \A q \in Procs \ {p} : \A e : Removes(q, e)' <=> Removes(q, e)
    BY <1>1, <1>2 DEF IInv, Typed, Removes
  <2>3. ASSUME NEW e \in Dirs PROVE Locked(e)'
    <3>1. CASE e = at[p]
      BY <1>1, <1>2, <3>1 DEF IInv, Typed, Locked, Removes
    <3>2. CASE e # at[p]
      BY <1>1, <1>2, <2>2, <3>2 DEF IInv, Typed, Locked
    <3> QED  BY <3>1, <3>2
  <2>4. ASSUME NEW q \in Procs PROVE Stage(q)' /\ Kept(q)'
    BY <1>1, <1>2 DEF IInv, Typed, Stage, Kept, Using, Held, Unnamed
  <2>5. ASSUME NEW q \in Procs PROVE Own(q)'
    BY SMT, <1>1, <1>2, CallAssumption DEF IInv, Typed, Own, Unseen, Using, Held, Unnamed
  <2>6. ASSUME NEW q \in Procs PROVE Debt(q)'
    BY <1>1, <2>2 DEF IInv, Typed, Debt
  <2>7. ASSUME NEW q \in Procs PROVE Swept(q)'
    BY SMT, <1>1, <1>2, <2>2 DEF IInv, Typed, Swept, Using, Held, Unnamed
  <2> QED  BY <2>1, <2>3, <2>4, <2>5, <2>6, <2>7 DEF IInv
<1>3. CASE /\ lock[at[p]] # None /\ pc' = [pc EXCEPT ![p] = "sweep"]
           /\ at' = [at EXCEPT ![p] = None] /\ lock' = lock
  <2>1. Typed' /\ Apart'
    BY <1>1, <1>3 DEF IInv, Typed, Apart, Labels
  <2>2. \A q \in Procs : \A e : Removes(q, e)' <=> Removes(q, e)
    BY <1>1, <1>3 DEF IInv, Typed, Removes
  <2>3. ASSUME NEW e \in Dirs PROVE Locked(e)'
    BY <1>1, <1>3, <2>2 DEF IInv, Typed, Locked
  <2>4. ASSUME NEW q \in Procs PROVE Stage(q)' /\ Kept(q)'
    BY <1>1, <1>3 DEF IInv, Typed, Stage, Kept, Using, Held, Unnamed
  <2>5. ASSUME NEW q \in Procs PROVE Own(q)'
    BY <1>1, <1>3, CallAssumption DEF IInv, Typed, Own, Unseen, Stage, Using, Held, Unnamed
  <2>6. ASSUME NEW q \in Procs PROVE Debt(q)'
    BY <1>1, <2>2 DEF IInv, Typed, Debt
  <2>7. at[p] \in due[p] => \E q \in Procs \ {p} : Removes(q, at[p])
    <3>1. lock[at[p]] \in Procs
      BY <1>1, <1>3 DEF IInv, Typed
    <3>2. Removes(lock[at[p]], at[p]) \/ ws[lock[at[p]]] = at[p]
      BY <1>1, <1>3 DEF IInv, Locked
    <3>3. at[p] \in due[p] => ws[lock[at[p]]] # at[p]
      BY <3>1 DEF IInv, Debt, Apart
    <3>4. ~Removes(p, at[p])
      BY <1>1 DEF Removes
    <3> QED  BY <3>1, <3>2, <3>3, <3>4
  <2>8. Swept(p)'
    BY SMT, <1>1, <1>3, <2>2, <2>7 DEF IInv, Typed, Swept, Using, Held, Unnamed
  <2>9. ASSUME NEW q \in Procs, q # p PROVE Swept(q)'
    BY SMT, <1>1, <1>3, <2>2, <2>9 DEF IInv, Typed, Swept
  <2> QED  BY <2>1, <2>3, <2>4, <2>5, <2>6, <2>8, <2>9 DEF IInv
<1> QED  BY <1>2, <1>3 DEF TryLock, Goto

(* A removal disturbs nobody: the call or sweep that removes d is alone     *)
(* with it.                                                                 *)
LEMMA AloneWith ==
    ASSUME IInv, NEW p \in Procs, NEW d \in Dirs,
           Removes(p, d) \/ (pc[p] = "release" /\ ws[p] = d)
    PROVE  \A q \in Procs : ws[q] = d => q = p /\ pc[p] = "release"
<1>1. ASSUME NEW q \in Procs, ws[q] = d, Removes(p, d) PROVE FALSE
  <2>1. lock[d] = p /\ at[p] = d /\ q # p
    BY <1>1, CallAssumption DEF IInv, Own, Removes, Stage, Using, Held, Unnamed
  <2>2. pc[q] \in Using \cup {"release"}
    BY <1>1, CallAssumption DEF IInv, Stage
  <2> QED  BY <1>1, <2>1, <2>2 DEF IInv, Own, Unseen, Using
<1> QED  BY <1>1, CallAssumption DEF IInv, Apart

LEMMA UnlinkKeeps ==
    ASSUME IInv, NEW p \in Procs, NEW d \in Dirs, Unlink(d),
           Removes(p, d) \/ (pc[p] = "release" /\ ws[p] = d),
           UNCHANGED <<lock, pc, ws, todo, at, left, due>>
    PROVE  IInv'
<1>1. \A q \in Procs : ws[q] = d => q = p /\ pc[p] = "release"
  BY AloneWith
<1>2. /\ \A e \in Dirs : e # d => made'[e] = made[e] /\ files'[e] = files[e]
      /\ \A e \in Dirs : files'[e] \subseteq files[e] /\ (made'[e] => made[e])
      /\ ~made'[d] => files'[d] = {}
  BY SMT DEF Unlink, IInv, Typed, Apart
<1>3. Typed'
  <2>1. files' \in [Dirs -> SUBSET {"pending", "owner", "secret"}]
    BY SMT DEF Unlink, IInv, Typed
  <2>2. made' \in [Dirs -> BOOLEAN]
    BY DEF Unlink, IInv, Typed
  <2> QED  BY <2>1, <2>2 DEF IInv, Typed
<1>4. Apart'
  BY <1>2 DEF IInv, Typed, Apart
<1>5. \A q \in Procs : \A e : Removes(q, e)' <=> Removes(q, e)
  BY DEF Removes
<1>6. ASSUME NEW e \in Dirs PROVE Locked(e)'
  BY <1>5 DEF IInv, Typed, Locked
<1>7. ASSUME NEW q \in Procs PROVE Stage(q)' /\ Own(q)'
  BY SMT, <1>2, CallAssumption DEF IInv, Typed, Stage, Own, Unseen, Using, Held, Unnamed
<1>8. ASSUME NEW q \in Procs PROVE Kept(q)'
  <2>1. CASE pc[q] \in Using
    <3>1. ws[q] \in Dirs /\ ws[q] # d
      BY <1>1, <2>1 DEF IInv, Typed, Stage, Using, Held, Unnamed
    <3> QED  BY <1>2, <3>1 DEF IInv, Kept
  <2>2. CASE pc[q] \notin Using
    BY <2>2 DEF Kept, Using
  <2> QED  BY <2>1, <2>2
<1>9. ASSUME NEW q \in Procs PROVE Debt(q)'
  <2>1. \A e \in due[q] : e \in Dirs /\ e \in left
    BY DEF IInv, Typed, Debt
  <2>2. d \in due[q] => Removes(p, d)
    BY <2>1 DEF IInv, Apart
  <2> QED  BY SMT, <1>2, <1>5, <2>1, <2>2 DEF IInv, Debt
<1>10. ASSUME NEW q \in Procs PROVE Swept(q)'
  <2>1. \A e \in due[q] : e \in Dirs
    BY DEF IInv, Typed
  <2> QED  BY <1>2, <1>5, <2>1 DEF IInv, Swept
<1> QED  BY <1>3, <1>4, <1>6, <1>7, <1>8, <1>9, <1>10 DEF IInv

LEMMA RemoveKeeps == ASSUME IInv, NEW p \in Procs, Remove(p) PROVE IInv'
<1>1. /\ pc[p] = "remove" /\ at[p] \in Dirs /\ ws[p] = None /\ lock[at[p]] = p
      /\ UNCHANGED <<ws, todo, due, left>>
  BY DEF Remove, ghosts, IInv, Typed, Stage, Own, Using, Held, Unnamed
<1>2. CASE Unlink(at[p]) /\ UNCHANGED <<lock, at, pc>>
  <2>1. Removes(p, at[p])
    BY <1>1 DEF Removes
  <2> QED  BY <1>1, <1>2, <2>1, UnlinkKeeps
<1>3. CASE /\ ~made[at[p]] /\ Close(p, at[p]) /\ at' = [at EXCEPT ![p] = None]
           /\ pc' = [pc EXCEPT ![p] = "sweep"] /\ UNCHANGED <<made, files>>
  <2>1. lock' = [lock EXCEPT ![at[p]] = None]
    BY <1>1, <1>3 DEF Close
  <2>2. Typed' /\ Apart'
    BY <1>1, <1>3, <2>1 DEF IInv, Typed, Apart, Labels
  <2>3. \A q \in Procs \ {p} : \A e : Removes(q, e)' <=> Removes(q, e)
    BY <1>1, <1>3 DEF IInv, Typed, Removes
  <2>4. \A e \in Dirs : made[e] => ~Removes(p, e)
    BY <1>3 DEF Removes
  <2>5. ASSUME NEW e \in Dirs PROVE Locked(e)'
    <3>1. CASE e = at[p]
      BY <1>1, <2>1, <3>1 DEF IInv, Typed, Locked
    <3>2. CASE e # at[p]
      <4>1. lock'[e] = lock[e]
        BY <1>1, <2>1, <3>2 DEF IInv, Typed
      <4>2. ~Removes(p, e) /\ ws[p] # e
        BY <1>1, <3>2, CallAssumption DEF Removes
      <4> QED  BY <1>1, <2>3, <4>1, <4>2 DEF IInv, Typed, Locked
    <3> QED  BY <3>1, <3>2
  <2>6. ASSUME NEW q \in Procs PROVE Stage(q)' /\ Kept(q)'
    BY <1>1, <1>3 DEF IInv, Typed, Stage, Kept, Using, Held, Unnamed
  <2>7. ASSUME NEW q \in Procs PROVE Own(q)'
    <3>1. CASE q = p
      BY <1>1, <1>3, <3>1 DEF IInv, Typed, Own, Using, Held, Unnamed
    <3>2. CASE q # p
      BY SMT, <1>1, <1>3, <2>1, <3>2, CallAssumption DEF IInv, Typed, Own, Unseen, Stage, Using, Held, Unnamed
    <3> QED  BY <3>1, <3>2
  <2>8. ASSUME NEW q \in Procs PROVE Debt(q)'
    <3>1. \A e \in due[q] : e \in Dirs
      BY DEF IInv, Typed
    <3> QED  BY <1>1, <1>3, <2>3, <2>4, <3>1 DEF IInv, Debt
  <2>9. Swept(p)'
    BY SMT, <1>1, <1>3, <2>3 DEF IInv, Typed, Swept, Using, Held, Unnamed
  <2>10. ASSUME NEW q \in Procs, q # p PROVE Swept(q)'
    <3>1. \A e \in due[q] : e \in Dirs
      BY DEF IInv, Typed
    <3>2. pc'[q] = pc[q] /\ at'[q] = at[q]
      BY <1>3, <2>10 DEF IInv, Typed
    <3> QED  BY SMT, <1>1, <1>3, <2>3, <2>4, <3>1, <3>2 DEF IInv, Swept
  <2> QED  BY <2>2, <2>5, <2>6, <2>7, <2>8, <2>9, <2>10 DEF IInv
<1> QED  BY <1>2, <1>3 DEF Remove, Goto

LEMMA MakeKeeps == ASSUME IInv, NEW p \in Procs, Make(p) PROVE IInv'
<1>1. /\ pc[p] = "sweep" /\ todo[p] = {} /\ at[p] = None /\ pc' = [pc EXCEPT ![p] = "claim"]
      /\ UNCHANGED <<files, lock, todo, at, due, left>>
  BY DEF Make, Goto, ghosts, IInv, Stage
<1>2. PICK d \in Fresh : made' = [made EXCEPT ![d] = TRUE] /\ ws' = [ws EXCEPT ![p] = d]
  BY DEF Make
<1>3. /\ d \in Dirs /\ ~made[d] /\ d \notin left /\ files[d] = {}
      /\ \A q \in Procs : ws[q] # d /\ at[q] # d
  BY <1>2 DEF Fresh, IInv, Apart
<1>4. Typed'
  BY <1>1, <1>2, <1>3 DEF IInv, Typed, Labels, Using, Held, Unnamed
<1>5. Apart'
  BY <1>1, <1>2, <1>3 DEF IInv, Typed, Apart
<1>6. \A q \in Procs : \A e : Removes(q, e)' <=> Removes(q, e)
  BY <1>1 DEF IInv, Typed, Removes
<1>7. ASSUME NEW e \in Dirs PROVE Locked(e)'
  <2>1. ws[p] = None
    BY <1>1 DEF IInv, Stage, Using, Held, Unnamed
  <2> QED  BY <1>1, <1>2, <1>6, <2>1, CallAssumption DEF IInv, Typed, Locked
<1>8. ASSUME NEW q \in Procs PROVE Stage(q)'
  BY <1>1, <1>2, <1>3, CallAssumption DEF IInv, Typed, Stage, Using, Held, Unnamed
<1>9. Own(p)' /\ Kept(p)'
  BY SMT, <1>1, <1>2, <1>3 DEF IInv, Typed, Own, Unseen, Kept, Using, Held, Unnamed
<1>10. ASSUME NEW q \in Procs, q # p PROVE Own(q)' /\ Kept(q)'
  <2>1. pc'[q] = pc[q] /\ ws'[q] = ws[q]
    BY <1>1, <1>2, <1>10 DEF IInv, Typed
  <2>2. Own(q)'
    BY <1>1, <2>1 DEF IInv, Own, Unseen
  <2>3. pc[q] \in Using => ws[q] \in Dirs
    BY DEF IInv, Typed, Stage
  <2>4. pc[q] \in Using => made'[ws[q]]
    BY <1>2, <1>3, <2>3 DEF IInv, Typed, Kept
  <2>5. Kept(q)'
    BY <1>1, <2>1, <2>4 DEF IInv, Kept
  <2> QED  BY <2>2, <2>5
<1>11. \A q \in Procs : \A e \in due[q] : e # d /\ made'[e] = made[e]
  BY <1>2, <1>3 DEF IInv, Typed, Debt
<1>12. ASSUME NEW q \in Procs PROVE Debt(q)'
  BY <1>1, <1>6, <1>11 DEF IInv, Debt
<1>13. Swept(p)'
  <2>1. \A e \in due[p] : e \in Dirs
    BY DEF IInv, Typed
  <2>2. \A e \in due[p] : made[e] => \E q \in Procs \ {p} : Removes(q, e)
    BY SMT, <1>1, <2>1, CallAssumption DEF IInv, Swept
  <2>3. pc'[p] = "claim"
    BY <1>1 DEF IInv, Typed
  <2> QED  BY <1>1, <1>6, <1>11, <2>2, <2>3 DEF Swept
<1>14. ASSUME NEW q \in Procs, q # p PROVE Swept(q)'
  <2>1. pc'[q] = pc[q]
    BY <1>1, <1>14 DEF IInv, Typed
  <2> QED  BY <1>1, <1>6, <1>11, <2>1 DEF IInv, Swept
<1> QED  BY <1>4, <1>5, <1>7, <1>8, <1>9, <1>10, <1>12, <1>13, <1>14 DEF IInv

(* What a call writes into its own workspace concerns no other call. *)
LEMMA WriteKeeps ==
    ASSUME IInv, NEW p \in Procs, pc[p] \in Using, NEW l \in Using,
           NEW F \in SUBSET {"pending", "owner", "secret"},
           pc' = [pc EXCEPT ![p] = l], files' = [files EXCEPT ![ws[p]] = F],
           UNCHANGED <<made, lock, ws, todo, at, left, due>>, Own(p)', Kept(p)'
    PROVE  IInv'
<1>1. ws[p] \in Dirs /\ made[ws[p]] /\ ws[p] \notin left
  BY SMT DEF IInv, Typed, Stage, Kept, Apart
<1>2. Typed' /\ Apart'
  <2>1. l \in Labels
    BY DEF Labels
  <2> QED  BY <1>1, <2>1 DEF IInv, Typed, Apart
<1>3. \A q \in Procs : \A e : Removes(q, e)' <=> Removes(q, e)
  BY DEF IInv, Typed, Removes, Using, Held, Unnamed
<1>4. ASSUME NEW e \in Dirs PROVE Locked(e)'
  BY <1>3 DEF IInv, Typed, Locked
<1>5. ASSUME NEW q \in Procs PROVE Stage(q)'
  BY DEF IInv, Typed, Stage, Using, Held, Unnamed
<1>6. ASSUME NEW q \in Procs, q # p PROVE Own(q)' /\ Kept(q)'
  <2>1. pc'[q] = pc[q]
    BY <1>6 DEF IInv, Typed
  <2>2. ws[q] # None => ws[q] \in Dirs /\ files'[ws[q]] = files[ws[q]]
    BY SMT, <1>1, <1>6 DEF IInv, Typed, Apart
  <2>3. pc[q] \in Using \cup {"release"} => ws[q] # None
    BY DEF IInv, Stage
  <2> QED  BY SMT, <2>1, <2>2, <2>3 DEF IInv, Own, Unseen, Kept, Using
<1>7. ASSUME NEW q \in Procs PROVE Debt(q)'
  <2>1. \A e \in due[q] : files'[e] = files[e]
    BY <1>1 DEF IInv, Typed, Debt
  <2> QED  BY <1>3, <2>1 DEF IInv, Debt
<1>8. ASSUME NEW q \in Procs PROVE Swept(q)'
  BY SMT, <1>3 DEF IInv, Typed, Swept, Using, Held, Unnamed
<1> QED  BY <1>2, <1>4, <1>5, <1>6, <1>7, <1>8 DEF IInv

LEMMA ClaimKeeps == ASSUME IInv, NEW p \in Procs, Claim(p) PROVE IInv'
<1>1. UNCHANGED <<made, ws, todo, at, due, left>>
  BY DEF Claim, ghosts
<1>2. CASE /\ pc[p] = "claim" /\ files' = [files EXCEPT ![ws[p]] = @ \cup {Created}]
           /\ pc' = [pc EXCEPT ![p] = "lock"] /\ lock' = lock
  <2>1. ws[p] \in Dirs /\ pc[p] \in Using /\ "lock" \in Using
    BY <1>2 DEF IInv, Typed, Stage, Using, Held, Unnamed
  <2>2. Own(p)' /\ Kept(p)'
    BY <1>1, <1>2, <2>1 DEF IInv, Typed, Own, Unseen, Kept, Using, Held, Unnamed, Created
  <2>3. files[ws[p]] \cup {Created} \in SUBSET {"pending", "owner", "secret"}
    BY <2>1 DEF IInv, Typed, Created
  <2>4. files' = [files EXCEPT ![ws[p]] = files[ws[p]] \cup {Created}]
    BY <1>2
  <2> QED  BY <1>1, <1>2, <2>1, <2>2, <2>3, <2>4, WriteKeeps
<1>3. CASE /\ pc[p] = "lock" /\ lock[ws[p]] = None /\ lock' = [lock EXCEPT ![ws[p]] = p]
           /\ pc' = [pc EXCEPT ![p] = "rename"] /\ files' = files
  <2>1. ws[p] \in Dirs /\ at[p] = None
    BY <1>3 DEF IInv, Typed, Stage, Using, Held, Unnamed
  <2>2. Typed' /\ Apart'
    BY <1>1, <1>3, <2>1 DEF IInv, Typed, Apart, Labels, Using, Held, Unnamed
  <2>3. \A q \in Procs : \A e : Removes(q, e)' <=> Removes(q, e)
    BY <1>1, <1>3 DEF IInv, Typed, Removes
  <2>4. ASSUME NEW e \in Dirs PROVE Locked(e)'
    BY <1>1, <1>3, <2>1, <2>3 DEF IInv, Typed, Locked
  <2>5. ASSUME NEW q \in Procs PROVE Stage(q)' /\ Kept(q)'
    BY <1>1, <1>3 DEF IInv, Typed, Stage, Kept, Using, Held, Unnamed
  <2>6. ASSUME NEW q \in Procs PROVE Own(q)'
    <3>1. \A e \in Dirs : lock[e] = q => lock'[e] = q
      BY <1>3, <2>1, CallAssumption DEF IInv, Typed
    <3>2. pc[q] = "remove" => at[q] \in Dirs
      BY DEF IInv, Typed, Stage
    <3>3. pc[q] \in Using \cup {"release"} => ws[q] \in Dirs
      BY DEF IInv, Typed, Stage
    <3> QED  BY <1>1, <1>3, <2>1, <3>1, <3>2, <3>3 DEF IInv, Typed, Own, Unseen, Using, Held, Unnamed
  <2>7. ASSUME NEW q \in Procs PROVE Debt(q)'
    BY <1>1, <1>3, <2>3 DEF IInv, Debt
  <2>8. ASSUME NEW q \in Procs PROVE Swept(q)'
    BY SMT, <1>1, <1>3, <2>3 DEF IInv, Typed, Swept, Using, Held, Unnamed
  <2> QED  BY <2>2, <2>4, <2>5, <2>6, <2>7, <2>8 DEF IInv
<1>4. CASE /\ pc[p] = "rename" /\ files' = [files EXCEPT ![ws[p]] = (@ \ {Created}) \cup {"owner"}]
           /\ pc' = [pc EXCEPT ![p] = "prepare"] /\ lock' = lock
  <2>1. ws[p] \in Dirs /\ pc[p] \in Using /\ "prepare" \in Using
    BY <1>4 DEF IInv, Typed, Stage, Using, Held, Unnamed
  <2>2. Own(p)' /\ Kept(p)'
    BY <1>1, <1>4, <2>1 DEF IInv, Typed, Own, Unseen, Kept, Using, Held, Unnamed
  <2>3. (files[ws[p]] \ {Created}) \cup {"owner"} \in SUBSET {"pending", "owner", "secret"}
    BY <2>1 DEF IInv, Typed
  <2>4. files' = [files EXCEPT ![ws[p]] = (files[ws[p]] \ {Created}) \cup {"owner"}]
    BY <1>4
  <2> QED  BY <1>1, <1>4, <2>1, <2>2, <2>3, <2>4, WriteKeeps
<1> QED  BY <1>2, <1>3, <1>4 DEF Claim, Goto

LEMMA PrepareKeeps == ASSUME IInv, NEW p \in Procs, Prepare(p) PROVE IInv'
<1>1. /\ pc[p] = "prepare" /\ pc' = [pc EXCEPT ![p] = "read"]
      /\ files' = [files EXCEPT ![ws[p]] = files[ws[p]] \cup {"secret"}]
      /\ UNCHANGED <<made, lock, ws, todo, at, left, due>>
  BY DEF Prepare, Goto, ghosts
<1>2. ws[p] \in Dirs /\ pc[p] \in Using /\ "read" \in Using
  BY <1>1 DEF IInv, Typed, Stage, Using, Held, Unnamed
<1>3. Own(p)' /\ Kept(p)'
  BY <1>1, <1>2 DEF IInv, Typed, Own, Unseen, Kept, Using, Held, Unnamed
<1>4. files[ws[p]] \cup {"secret"} \in SUBSET {"pending", "owner", "secret"}
  BY <1>2 DEF IInv, Typed
<1> QED  BY <1>1, <1>2, <1>3, <1>4, WriteKeeps

LEMMA FailKeeps == ASSUME IInv, NEW p \in Procs, Fail(p) PROVE IInv'
<1>1. /\ pc[p] \in {"claim", "lock", "rename", "prepare"} /\ pc' = [pc EXCEPT ![p] = "release"]
      /\ UNCHANGED <<made, files, ws, todo, at, due, left>>
  BY DEF Fail, Goto, ghosts
<1>2. ws[p] \in Dirs /\ at[p] = None
  BY <1>1 DEF IInv, Typed, Stage, Using, Held, Unnamed
<1>3. /\ lock' \in [Dirs -> Procs \cup {None}]
      /\ \A e \in Dirs : lock'[e] = lock[e] \/ (lock[e] = p /\ lock'[e] = None)
      /\ pc[p] = "prepare" => lock' = lock
  BY <1>2 DEF Fail, Close, IInv, Typed
<1>4. Typed' /\ Apart'
  BY <1>1, <1>3 DEF IInv, Typed, Apart, Labels
<1>5. \A q \in Procs : \A e : Removes(q, e)' <=> Removes(q, e)
  BY <1>1 DEF IInv, Typed, Removes
<1>6. ASSUME NEW e \in Dirs PROVE Locked(e)'
  BY <1>1, <1>3, <1>5 DEF IInv, Typed, Locked
<1>7. ASSUME NEW q \in Procs PROVE Stage(q)' /\ Kept(q)'
  BY <1>1 DEF IInv, Typed, Stage, Kept, Using, Held, Unnamed
<1>8. Own(p)'
  BY <1>1, <1>3 DEF IInv, Typed, Own, Unseen, Using, Held, Unnamed
<1>9. ASSUME NEW q \in Procs, q # p PROVE Own(q)'
  <2>1. pc'[q] = pc[q]
    BY <1>1, <1>9 DEF IInv, Typed
  <2>2. \A e \in Dirs : lock[e] = q => lock'[e] = q
    BY <1>3, <1>9
  <2>3. (pc[q] = "remove" => at[q] \in Dirs) /\ (pc[q] \in Using \cup {"release"} => ws[q] \in Dirs)
    BY DEF IInv, Typed, Stage
  <2> QED  BY <1>1, <2>1, <2>2, <2>3 DEF IInv, Own, Unseen, Using
<1>10. ASSUME NEW q \in Procs PROVE Debt(q)'
  BY <1>1, <1>5 DEF IInv, Debt
<1>11. ASSUME NEW q \in Procs PROVE Swept(q)'
  BY SMT, <1>1, <1>5 DEF IInv, Typed, Swept, Using, Held, Unnamed
<1> QED  BY <1>4, <1>6, <1>7, <1>8, <1>9, <1>10, <1>11 DEF IInv

LEMMA ReleaseKeeps == ASSUME IInv, NEW p \in Procs, Release(p) PROVE IInv'
<1>1. pc[p] = "release" /\ ws[p] \in Dirs /\ at[p] = None /\ UNCHANGED <<todo, at, left>>
  BY DEF Release, IInv, Typed, Stage
<1>2. CASE Unlink(ws[p]) /\ UNCHANGED <<lock, ws, pc, due>>
  BY <1>1, <1>2, UnlinkKeeps
<1>3. CASE /\ ~made[ws[p]] /\ Close(p, ws[p]) /\ ws' = [ws EXCEPT ![p] = None]
           /\ pc' = [pc EXCEPT ![p] = "idle"] /\ due' = [due EXCEPT ![p] = {}]
           /\ UNCHANGED <<made, files>>
  <2>1. /\ lock' \in [Dirs -> Procs \cup {None}]
        /\ \A e \in Dirs : lock'[e] = lock[e] \/ (lock[e] = p /\ lock'[e] = None)
        /\ lock'[ws[p]] # p
    BY <1>1, <1>3, CallAssumption DEF Close, IInv, Typed
  <2>2. Typed'
    BY <1>1, <1>3, <2>1 DEF IInv, Typed, Labels
  <2>3. Apart'
    <3>1. None \notin left
      BY CallAssumption DEF IInv, Typed
    <3> QED  BY <1>1, <1>3, <3>1 DEF IInv, Typed, Apart
  <2>4. \A q \in Procs : \A e : Removes(q, e)' <=> Removes(q, e)
    BY <1>1, <1>3 DEF IInv, Typed, Removes
  <2>5. ASSUME NEW e \in Dirs PROVE Locked(e)'
    BY SMT, <1>1, <1>3, <2>1, <2>4 DEF IInv, Typed, Locked
  <2>6. ASSUME NEW q \in Procs PROVE Stage(q)' /\ Kept(q)'
    BY <1>1, <1>3 DEF IInv, Typed, Stage, Kept, Using, Held, Unnamed
  <2>7. ASSUME NEW q \in Procs PROVE Own(q)'
    <3>1. CASE q = p
      BY <1>3, <3>1 DEF IInv, Typed, Own, Held, Unnamed
    <3>2. CASE q # p
      <4>1. pc'[q] = pc[q] /\ ws'[q] = ws[q]
        BY <1>3, <3>2 DEF IInv, Typed
      <4>2. \A e \in Dirs : lock[e] = q => lock'[e] = q
        BY <2>1, <3>2
      <4>3. (pc[q] = "remove" => at[q] \in Dirs) /\ (pc[q] \in Using \cup {"release"} => ws[q] \in Dirs)
        BY DEF IInv, Typed, Stage
      <4> QED  BY <1>1, <1>3, <4>1, <4>2, <4>3 DEF IInv, Own, Unseen, Using
    <3> QED  BY <3>1, <3>2
  <2>8. ASSUME NEW q \in Procs PROVE Debt(q)'
    BY <1>1, <1>3, <2>4 DEF IInv, Typed, Debt
  <2>9. ASSUME NEW q \in Procs PROVE Swept(q)'
    BY SMT, <1>1, <1>3, <2>4 DEF IInv, Typed, Swept, Using, Held, Unnamed
  <2> QED  BY <2>2, <2>3, <2>5, <2>6, <2>7, <2>8, <2>9 DEF IInv
<1> QED  BY <1>2, <1>3 DEF Release, Goto

LEMMA KillKeeps == ASSUME IInv, NEW p \in Procs, Kill(p) PROVE IInv'
<1>1. /\ lock' = [d \in Dirs |-> IF lock[d] = p THEN None ELSE lock[d]]
      /\ left' = (left \cup IF ws[p] # None THEN {ws[p]} ELSE {})
      /\ due' = [q \in Procs |-> IF q = p THEN {}
                                 ELSE due[q] \ IF pc[p] \in {"remove", "release"} THEN {at[p], ws[p]} ELSE {}]
      /\ pc' = [pc EXCEPT ![p] = "idle"] /\ ws' = [ws EXCEPT ![p] = None]
      /\ todo' = [todo EXCEPT ![p] = {}] /\ at' = [at EXCEPT ![p] = None]
      /\ UNCHANGED <<made, files>>
  BY DEF Kill, Goto
<1>2. Typed'
  <2>1. lock' \in [Dirs -> Procs \cup {None}]
    BY <1>1 DEF IInv, Typed
  <2>2. due' \in [Procs -> SUBSET Dirs]
    BY <1>1 DEF IInv, Typed
  <2> QED  BY <1>1, <2>1, <2>2 DEF IInv, Typed, Labels
<1>3. Apart'
  <2>1. None \notin left'
    BY <1>1, CallAssumption DEF IInv, Typed
  <2>2. ASSUME NEW q \in Procs PROVE ws'[q] \notin left'
    BY <1>1, <2>1 DEF IInv, Typed, Apart
  <2> QED  BY <1>1, <2>2 DEF IInv, Typed, Apart
<1>4. \A q \in Procs \ {p} : \A e : Removes(q, e)' <=> Removes(q, e)
  BY <1>1 DEF IInv, Typed, Removes
<1>5. \A e \in Dirs : lock'[e] = IF lock[e] = p THEN None ELSE lock[e]
  BY <1>1
<1>6. ASSUME NEW e \in Dirs PROVE Locked(e)'
  <2>1. CASE lock[e] \in {p, None}
    BY <1>5, <2>1 DEF Locked
  <2>2. CASE lock[e] \notin {p, None}
    <3>1. lock'[e] = lock[e] /\ lock[e] \in Procs \ {p}
      BY <1>5, <2>2 DEF IInv, Typed
    <3>2. ws'[lock[e]] = ws[lock[e]]
      BY <1>1, <3>1 DEF IInv, Typed
    <3> QED  BY <1>4, <2>2, <3>1, <3>2 DEF IInv, Locked
  <2> QED  BY <2>1, <2>2
<1>7. Stage(p)' /\ Own(p)' /\ Kept(p)' /\ Swept(p)'
  BY SMT, <1>1 DEF IInv, Typed, Stage, Own, Kept, Swept, Using, Held, Unnamed
<1>8. Debt(p)'
  BY <1>1 DEF IInv, Typed, Debt
<1>9. ASSUME NEW q \in Procs, q # p PROVE Stage(q)' /\ Own(q)' /\ Kept(q)' /\ Debt(q)' /\ Swept(q)'
  <2>1. pc'[q] = pc[q] /\ ws'[q] = ws[q] /\ at'[q] = at[q] /\ todo'[q] = todo[q]
    BY <1>1, <1>9 DEF IInv, Typed
  <2>2. Stage(q)' /\ Kept(q)'
    BY <1>1, <2>1 DEF IInv, Stage, Kept
  <2>3. \A e \in Dirs : (lock[e] = q => lock'[e] = q) /\ (Unseen(e) => Unseen(e)')
    BY <1>1, <1>5, <1>9, CallAssumption DEF IInv, Typed, Unseen
  <2>4. (pc[q] = "remove" => at[q] \in Dirs) /\ (pc[q] \in Using \cup {"release"} => ws[q] \in Dirs)
    BY DEF IInv, Typed, Stage
  <2>5. Own(q)'
    BY <2>1, <2>3, <2>4 DEF IInv, Own, Using
  <2>6. \A e \in due'[q] : e \in due[q] /\ ~Removes(p, e)
    BY <1>1, <1>9 DEF IInv, Typed, Removes
  <2>7. due'[q] \subseteq left'
    BY <1>1, <2>6 DEF IInv, Debt
  <2>8. Debt(q)'
    BY <1>1, <1>4, <2>6, <2>7 DEF IInv, Debt
  <2>9. Swept(q)'
    BY SMT, <1>1, <1>4, <2>1, <2>6 DEF IInv, Swept
  <2> QED  BY <2>2, <2>5, <2>8, <2>9
<1> QED  BY <1>2, <1>3, <1>6, <1>7, <1>8, <1>9 DEF IInv
----------------------------------------------------------------------------
LEMMA InitHolds == Init => IInv
<1> SUFFICES ASSUME Init PROVE IInv
  OBVIOUS
<1>1. Typed
  <2>1. made \in [Dirs -> BOOLEAN]
    BY DEF Init
  <2> QED  BY <2>1 DEF Init, Typed, Labels
<1> QED  BY <1>1 DEF Init, IInv, Apart, Locked, Stage, Own, Kept, Debt, Swept, Using, Held, Unnamed

LEMMA NextKeeps == IInv /\ [Next]_vars => IInv'
<1> SUFFICES ASSUME IInv, [Next]_vars PROVE IInv'
  OBVIOUS
<1>1. CASE UNCHANGED vars
  <2>1. UNCHANGED space /\ pc' = pc
    BY <1>1 DEF vars, space
  <2> QED  BY SMT, <2>1 DEF IInv, space, Typed, Apart, Locked, Removes, Stage, Own, Unseen, Kept, Debt, Swept
<1>2. ASSUME NEW p \in Procs, Sweep(p) \/ Step(p) \/ ClientStep(p) \/ Kill(p) PROVE IInv'
  <2>1. CASE Sweep(p)
    BY <2>1, SweepKeeps
  <2>2. CASE Look(p)
    BY <2>2, LookKeeps
  <2>3. CASE TryLock(p)
    BY <2>3, TryLockKeeps
  <2>4. CASE Remove(p)
    BY <2>4, RemoveKeeps
  <2>5. CASE Make(p)
    BY <2>5, MakeKeeps
  <2>6. CASE Claim(p)
    BY <2>6, ClaimKeeps
  <2>7. CASE Prepare(p)
    BY <2>7, PrepareKeeps
  <2>8. CASE Fail(p)
    BY <2>8, FailKeeps
  <2>9. CASE Release(p)
    BY <2>9, ReleaseKeeps
  <2>10. CASE ClientStep(p)
    <3>1. UNCHANGED space /\ pc' = pc
      BY <2>10 DEF ClientStep, space, dirs, ghosts
    <3> QED  BY <3>1, CallKeeps
  <2>11. CASE Read(p)
    <3>1. /\ UNCHANGED space /\ pc[p] = "read"
          /\ pc' = pc \/ pc' = [pc EXCEPT ![p] = "stop"] \/ pc' = [pc EXCEPT ![p] = "reap"]
      BY <2>11 DEF Read, Goto, space, dirs, ghosts
    <3> QED  BY <3>1, CallKeeps
  <2>12. CASE Reap(p) \/ Expire(p) \/ Stop(p) \/ Return(p)
    <3>1. UNCHANGED space /\ pc[p] \in {"read", "reap", "stop", "return"}
      BY <2>12 DEF Reap, Expire, Stop, Return, space, dirs, ghosts
    <3>2. \E l \in {"reap", "stop", "return", "release"} : pc' = [pc EXCEPT ![p] = l]
      BY <2>12 DEF Reap, Expire, Stop, Return, Goto
    <3> QED  BY <3>1, <3>2, CallKeeps
  <2>13. CASE Kill(p)
    BY <2>13, KillKeeps
  <2> QED  BY <1>2, <2>1, <2>2, <2>3, <2>4, <2>5, <2>6, <2>7, <2>8, <2>9, <2>10, <2>11, <2>12, <2>13 DEF Step
<1> QED  BY <1>1, <1>2 DEF Next

(* In every reachable state a call is alone with its workspace, and what is *)
(* left to remove is either still to be looked at or in somebody's hands.   *)
THEOREM Invariance == Spec => []IInv
  BY InitHolds, NextKeeps, PTL DEF Spec

(* A call that has claimed its workspace finds in it all it has written     *)
(* until it removes it itself, for any number of calls that sweep at the    *)
(* same time (_claimed, _removed_if_abandoned).                             *)
THEOREM WorkspaceIsKept == Spec => []WorkspaceKept
<1>1. IInv => WorkspaceKept
  <2> SUFFICES ASSUME IInv, NEW p \in Procs
               PROVE  /\ ws[p] # None /\ pc[p] # "release" => made[ws[p]]
                      /\ pc[p] \in {"prepare", "read", "reap", "stop", "return"} => "owner" \in files[ws[p]]
                      /\ pc[p] \in {"read", "reap", "stop", "return"} => "secret" \in files[ws[p]]
    BY DEF WorkspaceKept
  <2> QED  BY DEF IInv, Stage, Kept, Using, Held, Unnamed
<1> QED  BY Invariance, <1>1, PTL

(* What killed calls have left behind an owner file, before a call began,   *)
(* is gone when that call makes its own workspace, or another call is just  *)
(* removing it (_abandoned_removed).                                        *)
THEOREM RemainsAreRemoved == Spec => []RemainsRemoved
<1>1. IInv => RemainsRemoved
  BY DEF IInv, Swept, Removes, RemainsRemoved, Using, Held, Unnamed
<1> QED  BY Invariance, <1>1, PTL
----------------------------------------------------------------------------
(* What the client writes is one more chunk of the stream. *)
LEMMA StreamWrite ==
    ASSUME NEW g, NEW s, NEW n, Stream(g, s, n)
    PROVE  Stream(g, Append(s, n + 1), n + 1)
<1> DEFINE t == Append(s, n + 1)
<1>1. g \in Seq(Nat) /\ s \in Seq(Nat) /\ n \in Nat
  BY DEF Stream
<1>2. t \in Seq(Nat) /\ Len(t) = Len(s) + 1 /\ t[Len(s) + 1] = n + 1 /\ Len(s) \in Nat
  BY SMT, <1>1
<1>3. \A i \in 1 .. Len(s) : t[i] = s[i] /\ s[i] \in Nat
  BY SMT, <1>1
<1>4. \A i \in 1 .. Len(g) : g[i] \in Nat
  BY SMT, <1>1
<1> HIDE DEF t
<1>5. \A x \in 1 .. n + 1 : (\E i \in 1 .. Len(g) : g[i] = x) \/ \E i \in 1 .. Len(t) : t[i] = x
  <2> SUFFICES ASSUME NEW x \in 1 .. n + 1
               PROVE  (\E i \in 1 .. Len(g) : g[i] = x) \/ \E i \in 1 .. Len(t) : t[i] = x
    OBVIOUS
  <2>1. CASE x = n + 1
    <3>1. Len(s) + 1 \in 1 .. Len(t)
      BY SMT, <1>2
    <3> QED  BY <1>2, <2>1, <3>1
  <2>2. CASE x \in 1 .. n
    <3>1. (\E i \in 1 .. Len(g) : g[i] = x) \/ \E i \in 1 .. Len(s) : s[i] = x
      BY <2>2 DEF Stream
    <3>2. \A i \in 1 .. Len(s) : i \in 1 .. Len(t)
      BY SMT, <1>2
    <3> QED  BY <1>3, <3>1, <3>2
  <2> QED  BY SMT, <1>1, <2>1, <2>2
<1>6. \A i \in 1 .. Len(t) : i \in 1 .. Len(s) \/ i = Len(s) + 1
  BY SMT, <1>2
<1>7. /\ \A i \in 1 .. Len(g) : g[i] <= n + 1 /\ g[i] < n + 1
      /\ \A i \in 1 .. Len(s) : s[i] <= n + 1 /\ s[i] < n + 1
  BY SMT, <1>1, <1>3, <1>4 DEF Stream
<1>8. ASSUME NEW i \in 1 .. Len(t) PROVE t[i] <= n + 1
  <2>1. CASE i \in 1 .. Len(s)
    BY <1>3, <1>7, <2>1
  <2>2. CASE i = Len(s) + 1
    BY SMT, <1>1, <1>2, <2>2
  <2> QED  BY <1>6, <2>1, <2>2
<1>9. \A i, j \in 1 .. Len(t) : i < j /\ t[i] > 0 /\ t[j] > 0 => t[i] < t[j]
  <2> SUFFICES ASSUME NEW i \in 1 .. Len(t), NEW j \in 1 .. Len(t), i < j, t[i] > 0, t[j] > 0
               PROVE  t[i] < t[j]
    OBVIOUS
  <2>1. i \in 1 .. Len(s)
    BY SMT, <1>2, <1>6
  <2>2. CASE j = Len(s) + 1
    BY <1>2, <1>3, <1>7, <2>1, <2>2
  <2>3. CASE j \in 1 .. Len(s)
    BY <1>3, <2>1, <2>3 DEF Stream
  <2> QED  BY <1>6, <2>2, <2>3
<1>10. \A i \in 1 .. Len(g), j \in 1 .. Len(t) : g[i] > 0 /\ t[j] > 0 => g[i] < t[j]
  <2> SUFFICES ASSUME NEW i \in 1 .. Len(g), NEW j \in 1 .. Len(t), g[i] > 0, t[j] > 0
               PROVE  g[i] < t[j]
    OBVIOUS
  <2>1. CASE j = Len(s) + 1
    BY <1>2, <1>7, <2>1
  <2>2. CASE j \in 1 .. Len(s)
    BY <1>3, <2>2 DEF Stream
  <2> QED  BY <1>6, <2>1, <2>2
<1>11. n + 1 \in Nat /\ \A i, j \in 1 .. Len(g) : i < j /\ g[i] > 0 /\ g[j] > 0 => g[i] < g[j]
  BY SMT, <1>1 DEF Stream
<1>12. Stream(g, t, n + 1)
  BY <1>1, <1>2, <1>5, <1>7, <1>8, <1>9, <1>10, <1>11 DEF Stream
<1> QED  BY <1>12 DEF t

(* What a process of the client's writes is nothing the client has written. *)
LEMMA StreamOther ==
    ASSUME NEW g, NEW s, NEW n, Stream(g, s, n)
    PROVE  Stream(g, Append(s, 0), n)
<1> DEFINE t == Append(s, 0)
<1>1. g \in Seq(Nat) /\ s \in Seq(Nat) /\ n \in Nat
  BY DEF Stream
<1>2. t \in Seq(Nat) /\ Len(t) = Len(s) + 1 /\ t[Len(s) + 1] = 0 /\ Len(s) \in Nat
  BY SMT, <1>1
<1>3. \A i \in 1 .. Len(s) : t[i] = s[i] /\ i \in 1 .. Len(t)
  BY SMT, <1>1
<1> HIDE DEF t
<1>4. \A i \in 1 .. Len(t) : i \in 1 .. Len(s) \/ (i = Len(s) + 1 /\ t[i] = 0)
  BY SMT, <1>2
<1>5. \A x \in 1 .. n : (\E i \in 1 .. Len(g) : g[i] = x) \/ \E i \in 1 .. Len(t) : t[i] = x
  BY <1>3 DEF Stream
<1>6. ASSUME NEW i \in 1 .. Len(t) PROVE t[i] <= n
  <2>1. CASE i \in 1 .. Len(s)
    BY <1>3, <2>1 DEF Stream
  <2>2. CASE t[i] = 0
    BY SMT, <1>1, <2>2
  <2> QED  BY <1>4, <2>1, <2>2
<1>7. \A i, j \in 1 .. Len(t) : i < j /\ t[i] > 0 /\ t[j] > 0 => t[i] < t[j]
  BY SMT, <1>3, <1>4 DEF Stream
<1>8. ASSUME NEW i \in 1 .. Len(g), NEW j \in 1 .. Len(t), g[i] > 0, t[j] > 0 PROVE g[i] < t[j]
  <2>1. j \in 1 .. Len(s)
    BY SMT, <1>4, <1>8
  <2> QED  BY <1>3, <1>8, <2>1 DEF Stream
<1>9. Stream(g, t, n)
  BY <1>1, <1>2, <1>5, <1>6, <1>7, <1>8 DEF Stream
<1> QED  BY <1>9 DEF t

(* Reading moves the first chunk of the pipe to the end of what was read. *)
LEMMA StreamRead ==
    ASSUME NEW g, NEW s, NEW n, Stream(g, s, n), s # <<>>
    PROVE  Stream(Append(g, Head(s)), Tail(s), n)
<1> DEFINE h == Append(g, Head(s))
           t == Tail(s)
<1>1. g \in Seq(Nat) /\ s \in Seq(Nat) /\ n \in Nat
  BY DEF Stream
<1>2. /\ h \in Seq(Nat) /\ Len(h) = Len(g) + 1 /\ h[Len(g) + 1] = s[1] /\ Len(g) \in Nat
      /\ t \in Seq(Nat) /\ Len(s) = Len(t) + 1 /\ Len(t) \in Nat
  BY SMT, <1>1
<1>3. \A i \in 1 .. Len(g) : h[i] = g[i] /\ i \in 1 .. Len(h)
  BY SMT, <1>1
<1>4. \A i \in 1 .. Len(t) : t[i] = s[i + 1] /\ i + 1 \in 1 .. Len(s) /\ 1 < i + 1
  BY SMT, <1>1
<1> HIDE DEF h, t
<1>5. \A i \in 1 .. Len(h) : i \in 1 .. Len(g) \/ i = Len(g) + 1
  BY SMT, <1>2
<1>6. 1 \in 1 .. Len(s) /\ Len(g) + 1 \in 1 .. Len(h)
  BY SMT, <1>2
<1>7. \A x \in 1 .. n : (\E i \in 1 .. Len(h) : h[i] = x) \/ \E i \in 1 .. Len(t) : t[i] = x
  <2> SUFFICES ASSUME NEW x \in 1 .. n
               PROVE  (\E i \in 1 .. Len(h) : h[i] = x) \/ \E i \in 1 .. Len(t) : t[i] = x
    OBVIOUS
  <2>1. CASE \E i \in 1 .. Len(g) : g[i] = x
    BY <1>3, <2>1
  <2>2. CASE \E i \in 1 .. Len(s) : s[i] = x
    <3>1. PICK i \in 1 .. Len(s) : s[i] = x
      BY <2>2
    <3>2. CASE i = 1
      BY <1>2, <1>6, <3>1, <3>2
    <3>3. CASE i # 1
      <4>1. i - 1 \in 1 .. Len(t) /\ (i - 1) + 1 = i
        BY SMT, <1>2, <3>3
      <4> QED  BY <1>4, <3>1, <4>1
    <3> QED  BY <3>2, <3>3
  <2> QED  BY <2>1, <2>2 DEF Stream
<1>8. (\A i \in 1 .. Len(h) : h[i] <= n) /\ \A i \in 1 .. Len(t) : t[i] <= n
  BY <1>2, <1>3, <1>4, <1>5, <1>6 DEF Stream
<1>9. \A i, j \in 1 .. Len(h) : i < j /\ h[i] > 0 /\ h[j] > 0 => h[i] < h[j]
  <2> SUFFICES ASSUME NEW i \in 1 .. Len(h), NEW j \in 1 .. Len(h), i < j, h[i] > 0, h[j] > 0
               PROVE  h[i] < h[j]
    OBVIOUS
  <2>1. i \in 1 .. Len(g)
    BY SMT, <1>2, <1>5
  <2>2. CASE j = Len(g) + 1
    BY <1>2, <1>3, <1>6, <2>1, <2>2 DEF Stream
  <2>3. CASE j \in 1 .. Len(g)
    BY <1>3, <2>1, <2>3 DEF Stream
  <2> QED  BY <1>5, <2>2, <2>3
<1>10. \A i, j \in 1 .. Len(t) : i < j /\ t[i] > 0 /\ t[j] > 0 => t[i] < t[j]
  <2> SUFFICES ASSUME NEW i \in 1 .. Len(t), NEW j \in 1 .. Len(t), i < j, t[i] > 0, t[j] > 0
               PROVE  t[i] < t[j]
    OBVIOUS
  <2>1. i + 1 < j + 1
    BY SMT, <1>2
  <2> QED  BY <1>4, <2>1 DEF Stream
<1>11. \A i \in 1 .. Len(h), j \in 1 .. Len(t) : h[i] > 0 /\ t[j] > 0 => h[i] < t[j]
  <2> SUFFICES ASSUME NEW i \in 1 .. Len(h), NEW j \in 1 .. Len(t), h[i] > 0, t[j] > 0
               PROVE  h[i] < t[j]
    OBVIOUS
  <2>1. CASE i = Len(g) + 1
    BY <1>2, <1>4, <1>6, <2>1 DEF Stream
  <2>2. CASE i \in 1 .. Len(g)
    BY <1>3, <1>4, <2>2 DEF Stream
  <2> QED  BY <1>5, <2>1, <2>2
<1>12. Stream(h, t, n)
  BY <1>1, <1>2, <1>7, <1>8, <1>9, <1>10, <1>11 DEF Stream
<1> QED  BY <1>12 DEF h, t

(* What was read is whole when the client has nothing left in the pipe. *)
LEMMA StreamWhole ==
    ASSUME NEW g, NEW s, NEW n, Stream(g, s, n), \A i \in 1 .. Len(s) : s[i] = 0
    PROVE  Whole(g, n)
<1>1. DOMAIN g = 1 .. Len(g) /\ n \in Nat
  BY SMT DEF Stream
<1>2. ASSUME NEW x \in 1 .. n PROVE \E i \in DOMAIN g : g[i] = x
  <2>1. x # 0
    BY SMT, <1>1
  <2> QED  BY <1>1, <2>1 DEF Stream
<1> QED  BY <1>1, <1>2 DEF Stream, Whole

Reading == {"read", "reap", "stop", "return"}

(* A step of one call concerns the client of that call only. *)
LEMMA HeardByOne ==
    ASSUME CInv, NEW p \in Procs, client' \in [Procs -> Clients],
           outcome' \in [Procs -> {"result", "refused", None}], Heard(p)',
           \A q \in Procs \ {p} : pc'[q] = pc[q] /\ client'[q] = client[q] /\ outcome'[q] = outcome[q]
    PROVE  CInv'
<1>1. ASSUME NEW q \in Procs, q # p PROVE Heard(q)'
  BY <1>1 DEF CInv, Heard
<1> QED  BY <1>1 DEF CInv

(* Before and after the client runs a step leaves it alone. *)
LEMMA HeardBefore ==
    ASSUME IInv, CInv, NEW p \in Procs, pc[p] \notin Reading, NEW l, l \notin Reading,
           pc' = [pc EXCEPT ![p] = l], UNCHANGED <<client, outcome>>
    PROVE  CInv'
<1>1. pc'[p] = l /\ \A q \in Procs \ {p} : pc'[q] = pc[q]
  BY DEF IInv, Typed
<1>2. Heard(p)'
  BY <1>1 DEF CInv, Heard, Hears, Reading
<1> QED  BY <1>1, <1>2, HeardByOne DEF CInv

LEMMA NoClientStream == NoClient \in Clients /\ Stream(NoClient.got, NoClient.pipe, NoClient.wrote)
<1>1. NoClient \in Clients
  BY SMT DEF NoClient, Clients
<1>2. NoClient.got = <<>> /\ NoClient.pipe = <<>> /\ NoClient.wrote = 0
  BY DEF NoClient
<1> QED  BY SMT, <1>1, <1>2 DEF Stream

LEMMA HeardPrepare == ASSUME IInv, CInv, NEW p \in Procs, Prepare(p) PROVE CInv'
<1>1. /\ pc[p] = "prepare" /\ pc' = [pc EXCEPT ![p] = "read"] /\ outcome' = outcome
      /\ client' = [client EXCEPT ![p].state = "runs"]
  BY DEF Prepare, Goto
<1>2. client[p] = NoClient /\ pc'[p] = "read" /\ \A q \in Procs \ {p} : pc'[q] = pc[q]
  BY <1>1 DEF IInv, Typed, CInv, Heard, Hears
<1>3. client' \in [Procs -> Clients] /\ client'[p] = [NoClient EXCEPT !.state = "runs"]
  BY ZenonT(40), <1>1, <1>2 DEF CInv, Clients
<1>4. Heard(p)'
  <2>1. /\ client'[p].got = NoClient.got /\ client'[p].pipe = NoClient.pipe
        /\ client'[p].wrote = NoClient.wrote /\ client'[p].ended = FALSE
    BY <1>3 DEF NoClient
  <2> QED  BY <1>2, <2>1, NoClientStream DEF Heard, Hears
<1>5. \A q \in Procs \ {p} : client'[q] = client[q]
  BY <1>1 DEF CInv
<1> QED  BY <1>1, <1>2, <1>3, <1>4, <1>5, HeardByOne DEF CInv

(* The client writes, starts a process, closes its end of the pipe or ends; *)
(* or its process writes.                                                   *)
LEMMA ClientMoves ==
    ASSUME NEW c \in Clients, NEW d, NEW l \in {"read", "reap", "stop"}, NEW o, Hears(c, l, o),
           \/ /\ c.state = "runs" /\ ~c.quiet
              /\ d = [c EXCEPT !.wrote = c.wrote + 1, !.pipe = Append(c.pipe, c.wrote + 1)]
           \/ c.state = "runs" /\ d = [c EXCEPT !.child = TRUE]
           \/ c.state = "runs" /\ d = [c EXCEPT !.quiet = TRUE]
           \/ d = [c EXCEPT !.pipe = Append(c.pipe, 0)]
           \/ c.state = "runs" /\ \E s \in {"exits", "signalled"} : d = [c EXCEPT !.state = s]
    PROVE  d \in Clients /\ Hears(d, l, o)
<1>1. Stream(c.got, c.pipe, c.wrote)
  BY DEF Hears
<1>0. /\ c.pipe \in Seq(Nat) /\ c.wrote \in Nat /\ c.wrote + 1 \in Nat
      /\ Append(c.pipe, c.wrote + 1) \in Seq(Nat) /\ Append(c.pipe, 0) \in Seq(Nat)
  <2>1. c.pipe \in Seq(Nat) /\ c.wrote \in Nat
    BY DEF Clients
  <2> QED  BY SMT, <2>1
<1>2. CASE /\ c.state = "runs" /\ ~c.quiet
           /\ d = [c EXCEPT !.wrote = c.wrote + 1, !.pipe = Append(c.pipe, c.wrote + 1)]
  <2>1. /\ d.state = c.state /\ d.child = c.child /\ d.quiet = c.quiet /\ d.ended = c.ended /\ d.got = c.got
        /\ d.wrote = c.wrote + 1 /\ d.pipe = Append(c.pipe, c.wrote + 1) /\ d \in Clients
    <3> DEFINE t == Append(c.pipe, c.wrote + 1)
               n == c.wrote + 1
    <3> HIDE DEF t, n
    <3>1. t \in Seq(Nat) /\ n \in Nat
      BY <1>0 DEF t, n
    <3>2. d = [c EXCEPT !.wrote = n, !.pipe = t]
      BY <1>2 DEF t, n
    <3>3. /\ d.state = c.state /\ d.child = c.child /\ d.quiet = c.quiet /\ d.ended = c.ended
          /\ d.got = c.got /\ d.wrote = n /\ d.pipe = t /\ d \in Clients
      BY <3>1, <3>2 DEF Clients
    <3> QED  BY <3>3 DEF t, n
  <2>2. Stream(c.got, Append(c.pipe, c.wrote + 1), c.wrote + 1)
    BY <1>1, StreamWrite
  <2>3. l # "reap"
    BY <1>2 DEF Hears, Silent, Dead
  <2> QED  BY <2>1, <2>2, <2>3 DEF Hears, Dead
<1>3. CASE c.state = "runs" /\ d = [c EXCEPT !.child = TRUE]
  <2>1. /\ d.state = c.state /\ d.quiet = c.quiet /\ d.ended = c.ended /\ d.got = c.got
        /\ d.wrote = c.wrote /\ d.pipe = c.pipe /\ d \in Clients
    BY <1>3 DEF Clients
  <2> QED  BY <2>1 DEF Hears, Dead, Silent
<1>4. CASE c.state = "runs" /\ d = [c EXCEPT !.quiet = TRUE]
  <2>1. /\ d.state = c.state /\ d.quiet /\ d.ended = c.ended /\ d.got = c.got
        /\ d.wrote = c.wrote /\ d.pipe = c.pipe /\ d \in Clients
    BY <1>4 DEF Clients
  <2> QED  BY <2>1 DEF Hears, Dead, Silent
<1>5. CASE d = [c EXCEPT !.pipe = Append(c.pipe, 0)]
  <2>1. /\ d.state = c.state /\ d.quiet = c.quiet /\ d.ended = c.ended /\ d.got = c.got
        /\ d.wrote = c.wrote /\ d.pipe = Append(c.pipe, 0) /\ d \in Clients
    <3> DEFINE t == Append(c.pipe, 0)
    <3> HIDE DEF t
    <3>1. t \in Seq(Nat) /\ d = [c EXCEPT !.pipe = t]
      BY <1>5, <1>0 DEF t
    <3>2. /\ d.state = c.state /\ d.quiet = c.quiet /\ d.ended = c.ended /\ d.got = c.got
          /\ d.wrote = c.wrote /\ d.pipe = t /\ d \in Clients
      BY <3>1 DEF Clients
    <3> QED  BY <3>2 DEF t
  <2>2. Stream(c.got, Append(c.pipe, 0), c.wrote)
    BY <1>1, StreamOther
  <2>3. Silent(c) => Silent(d)
    <3>1. c.pipe \in Seq(Nat)
      BY DEF Clients
    <3>2. \A i \in 1 .. Len(d.pipe) : d.pipe[i] = 0 \/ (i \in 1 .. Len(c.pipe) /\ d.pipe[i] = c.pipe[i])
      BY SMT, <2>1, <3>1
    <3> QED  BY <2>1, <3>2 DEF Silent, Dead
  <2> QED  BY <2>1, <2>2, <2>3 DEF Hears, Dead
<1>6. ASSUME NEW s \in {"exits", "signalled"}, c.state = "runs", d = [c EXCEPT !.state = s]
      PROVE  d \in Clients /\ Hears(d, l, o)
  <2>1. /\ d.state = s /\ d.quiet = c.quiet /\ d.ended = c.ended /\ d.got = c.got
        /\ d.wrote = c.wrote /\ d.pipe = c.pipe /\ d \in Clients
    BY <1>6 DEF Clients
  <2> QED  BY <2>1 DEF Hears, Dead, Silent
<1> QED  BY <1>2, <1>3, <1>4, <1>5, <1>6

LEMMA HeardClient == ASSUME IInv, CInv, NEW p \in Procs, ClientStep(p) PROVE CInv'
<1>1. UNCHANGED <<pc, outcome>>
  BY DEF ClientStep
<1>2. client[p] \in Clients /\ Hears(client[p], pc[p], outcome[p])
  BY DEF CInv, Heard
<1>3. client[p].state = "runs" \/ client[p].child
  BY DEF ClientStep
<1>4. pc[p] \in {"read", "reap", "stop"}
  <2>1. client[p] # NoClient
    BY SMT, <1>3 DEF NoClient
  <2> QED  BY <1>2, <1>3, <2>1 DEF Hears
<1>5. PICK d : /\ client' = [client EXCEPT ![p] = d]
               /\ \/ /\ client[p].state = "runs" /\ ~client[p].quiet
                     /\ d = [client[p] EXCEPT !.wrote = client[p].wrote + 1,
                                              !.pipe = Append(client[p].pipe, client[p].wrote + 1)]
                  \/ client[p].state = "runs" /\ d = [client[p] EXCEPT !.child = TRUE]
                  \/ client[p].state = "runs" /\ d = [client[p] EXCEPT !.quiet = TRUE]
                  \/ d = [client[p] EXCEPT !.pipe = Append(client[p].pipe, 0)]
                  \/ /\ client[p].state = "runs"
                     /\ \E s \in {"exits", "signalled"} : d = [client[p] EXCEPT !.state = s]
  BY ZenonT(40) DEF ClientStep
<1>6. d \in Clients /\ Hears(d, pc[p], outcome[p])
  BY <1>2, <1>4, <1>5, ClientMoves
<1>7. client' \in [Procs -> Clients] /\ client'[p] = d /\ \A q \in Procs \ {p} : client'[q] = client[q]
  BY <1>5, <1>6 DEF CInv
<1>8. Heard(p)'
  BY <1>1, <1>6, <1>7 DEF Heard
<1> QED  BY <1>1, <1>7, <1>8, HeardByOne DEF CInv

(* The reading loop takes a chunk, notes that the client has ended, or ends *)
(* because the client has nothing more to say; beyond the limit it refuses. *)
LEMMA HeardRead == ASSUME IInv, CInv, NEW p \in Procs, Read(p) PROVE CInv'
<1>1. pc[p] = "read" /\ client[p] \in Clients /\ Hears(client[p], "read", outcome[p])
  BY DEF Read, CInv, Heard
<1>2. Stream(client[p].got, client[p].pipe, client[p].wrote)
  BY <1>1 DEF Hears
<1>3. CASE /\ client[p].pipe # <<>>
           /\ client' = [client EXCEPT ![p].pipe = Tail(@), ![p].got = Append(@, Head(client[p].pipe))]
           /\ IF Len(client[p].got) < Cap THEN UNCHANGED <<pc, outcome>>
              ELSE Goto(p, "stop") /\ outcome' = [outcome EXCEPT ![p] = "refused"]
  <2> DEFINE t == Tail(client[p].pipe)
             g == Append(client[p].got, Head(client[p].pipe))
  <2>1. Stream(g, t, client[p].wrote)
    BY <1>2, <1>3, StreamRead
  <2>2. g \in Seq(Nat) /\ t \in Seq(Nat)
    BY <2>1 DEF Stream
  <2>3. client' = [client EXCEPT ![p] = [client[p] EXCEPT !.pipe = t, !.got = g]]
    BY <1>3 DEF CInv
  <2> HIDE DEF t, g
  <2>4. /\ client' \in [Procs -> Clients] /\ \A q \in Procs \ {p} : client'[q] = client[q]
        /\ client'[p] = [client[p] EXCEPT !.pipe = t, !.got = g]
    BY <1>1, <2>2, <2>3 DEF CInv, Clients
  <2>5. /\ client'[p].state = client[p].state /\ client'[p].ended = client[p].ended
        /\ client'[p].got = g /\ client'[p].pipe = t /\ client'[p].wrote = client[p].wrote
    BY <1>1, <2>4 DEF Clients
  <2>6. /\ outcome' \in [Procs -> {"result", "refused", None}]
        /\ pc'[p] = "read" \/ (pc'[p] = "stop" /\ outcome'[p] = "refused")
        /\ \A q \in Procs \ {p} : pc'[q] = pc[q] /\ outcome'[q] = outcome[q]
    BY <1>1, <1>3 DEF IInv, Typed, CInv, Goto
  <2>7. Heard(p)'
    BY <1>1, <2>1, <2>5, <2>6 DEF Heard, Hears, Dead
  <2> QED  BY <2>4, <2>6, <2>7, HeardByOne
<1>4. CASE /\ Dead(client[p]) /\ client' = [client EXCEPT ![p].ended = TRUE]
           /\ UNCHANGED <<pc, outcome>>
  <2>1. /\ client' \in [Procs -> Clients] /\ \A q \in Procs \ {p} : client'[q] = client[q]
        /\ client'[p] = [client[p] EXCEPT !.ended = TRUE]
    BY <1>1, <1>4 DEF CInv, Clients
  <2>2. /\ client'[p].state = client[p].state /\ client'[p].got = client[p].got
        /\ client'[p].pipe = client[p].pipe /\ client'[p].wrote = client[p].wrote
    BY <1>1, <2>1 DEF Clients
  <2>3. Heard(p)'
    BY <1>1, <1>2, <1>4, <2>2 DEF Heard, Hears, Dead
  <2> QED  BY <1>4, <2>1, <2>3, HeardByOne DEF CInv
<1>5. CASE Drained(client[p]) /\ Goto(p, "reap") /\ UNCHANGED <<client, outcome>>
  <2>1. pc'[p] = "reap" /\ \A q \in Procs \ {p} : pc'[q] = pc[q]
    BY <1>5 DEF IInv, Typed, Goto
  <2>2. Silent(client[p])
    BY SMT, <1>1, <1>5 DEF Drained, Silent, Hears
  <2>3. Heard(p)'
    BY <1>1, <1>5, <2>1, <2>2 DEF Heard, Hears
  <2> QED  BY <1>5, <2>1, <2>3, HeardByOne DEF CInv
<1> QED  BY <1>3, <1>4, <1>5 DEF Read

LEMMA HeardReap == ASSUME IInv, CInv, NEW p \in Procs, Reap(p) PROVE CInv'
<1>1. /\ pc[p] = "reap" /\ client[p] \in Clients /\ Hears(client[p], "reap", outcome[p])
      /\ Dead(client[p])
  BY DEF Reap, CInv, Heard
<1>2. pc'[p] = "return" /\ \A q \in Procs \ {p} : pc'[q] = pc[q]
  BY DEF Reap, Goto, IInv, Typed
<1>3. /\ client' \in [Procs -> Clients] /\ \A q \in Procs \ {p} : client'[q] = client[q]
      /\ client'[p] = [client[p] EXCEPT !.child = FALSE]
  BY <1>1 DEF Reap, CInv, Clients
<1>4. /\ client'[p].state = client[p].state /\ client'[p].got = client[p].got /\ ~client'[p].child
      /\ client'[p].pipe = client[p].pipe /\ client'[p].wrote = client[p].wrote
      /\ client'[p].ended = client[p].ended /\ client'[p].quiet = client[p].quiet
  BY <1>1, <1>3 DEF Clients
<1>5. /\ outcome' \in [Procs -> {"result", "refused", None}]
      /\ \A q \in Procs \ {p} : outcome'[q] = outcome[q]
  BY DEF Reap, CInv
<1>6. Heard(p)'
  BY <1>1, <1>2, <1>4 DEF Heard, Hears, Silent, Dead
<1> QED  BY <1>2, <1>3, <1>5, <1>6, HeardByOne

LEMMA HeardExpire == ASSUME IInv, CInv, NEW p \in Procs, Expire(p) PROVE CInv'
<1>1. pc'[p] = "stop" /\ \A q \in Procs \ {p} : pc'[q] = pc[q]
  BY DEF Expire, Goto, IInv, Typed
<1>2. /\ outcome' \in [Procs -> {"result", "refused", None}] /\ outcome'[p] = "refused"
      /\ client' = client /\ \A q \in Procs \ {p} : outcome'[q] = outcome[q]
  BY DEF Expire, CInv
<1>3. Heard(p)'
  BY <1>1, <1>2 DEF CInv, Heard, Hears
<1> QED  BY <1>1, <1>2, <1>3, HeardByOne DEF CInv

LEMMA HeardStop == ASSUME IInv, CInv, NEW p \in Procs, Stop(p) PROVE CInv'
<1>1. pc[p] = "stop" /\ client[p] \in Clients /\ Hears(client[p], "stop", outcome[p])
  BY DEF Stop, CInv, Heard
<1>2. pc'[p] = "return" /\ \A q \in Procs \ {p} : pc'[q] = pc[q]
  BY DEF Stop, Goto, IInv, Typed
<1>3. PICK s \in {"none", "exits", "signalled"} :
         /\ client' = [client EXCEPT ![p] = [client[p] EXCEPT !.state = s, !.child = FALSE]]
         /\ s = (IF client[p].state = "runs" THEN "signalled" ELSE client[p].state)
  <2>1. client' = [client EXCEPT ![p] = [client[p] EXCEPT
                      !.state = IF client[p].state = "runs" THEN "signalled" ELSE client[p].state,
                      !.child = FALSE]]
    BY DEF Stop, CInv
  <2>2. (IF client[p].state = "runs" THEN "signalled" ELSE client[p].state) \in {"none", "exits", "signalled"}
    BY <1>1 DEF Clients
  <2> QED  BY <2>1, <2>2
<1>4. /\ client' \in [Procs -> Clients] /\ \A q \in Procs \ {p} : client'[q] = client[q]
      /\ client'[p] = [client[p] EXCEPT !.state = s, !.child = FALSE]
  BY <1>1, <1>3 DEF CInv, Clients
<1>5. /\ client'[p].state = s /\ client'[p].got = client[p].got /\ ~client'[p].child
      /\ client'[p].pipe = client[p].pipe /\ client'[p].wrote = client[p].wrote
      /\ client'[p].ended = client[p].ended
  BY <1>1, <1>4 DEF Clients
<1>6. outcome' = outcome /\ outcome[p] = "refused"
  BY <1>1 DEF Stop, Hears
<1>7. Heard(p)'
  BY <1>1, <1>2, <1>3, <1>5, <1>6 DEF Heard, Hears, Dead
<1> QED  BY <1>2, <1>4, <1>6, <1>7, HeardByOne DEF CInv

(* The end of a call, and a killed one, leave no client that is read. *)
LEMMA HeardEnd == ASSUME IInv, CInv, NEW p \in Procs, Return(p) \/ Kill(p) PROVE CInv'
<1>1. pc'[p] \in {"release", "idle"} /\ \A q \in Procs \ {p} : pc'[q] = pc[q]
  BY DEF Return, Kill, Goto, IInv, Typed
<1>2. client' = [client EXCEPT ![p] = NoClient] /\ outcome' = [outcome EXCEPT ![p] = None]
  BY DEF Return, Kill
<1>3. /\ client' \in [Procs -> Clients] /\ client'[p] = NoClient
      /\ \A q \in Procs \ {p} : client'[q] = client[q] /\ outcome'[q] = outcome[q]
      /\ outcome' \in [Procs -> {"result", "refused", None}]
  BY <1>2, NoClientStream DEF CInv
<1>4. NoClient.ended = FALSE
  BY DEF NoClient
<1>5. Heard(p)'
  BY <1>1, <1>3, <1>4, NoClientStream DEF Heard, Hears
<1> QED  BY <1>1, <1>3, <1>5, HeardByOne

LEMMA NextHeard == IInv /\ CInv /\ [Next]_vars => CInv'
<1> SUFFICES ASSUME IInv, CInv, [Next]_vars PROVE CInv'
  OBVIOUS
<1>1. CASE UNCHANGED vars
  BY <1>1 DEF vars, CInv, Heard
<1>2. ASSUME NEW p \in Procs, Sweep(p) \/ Step(p) \/ ClientStep(p) \/ Kill(p) PROVE CInv'
  <2>1. CASE Sweep(p)
    <3>1. pc[p] \notin Reading /\ pc' = [pc EXCEPT ![p] = "sweep"] /\ UNCHANGED <<client, outcome>>
      BY <2>1 DEF Sweep, Goto, Reading
    <3> QED  BY <3>1, HeardBefore DEF Reading
  <2>2. CASE Look(p) \/ TryLock(p) \/ Remove(p) \/ Make(p)
    <3>1. /\ pc[p] \in {"sweep", "trylock", "remove"} /\ UNCHANGED <<client, outcome>>
          /\ pc' = pc \/ \E l \in {"sweep", "trylock", "remove", "claim"} : pc' = [pc EXCEPT ![p] = l]
      BY <2>2 DEF Look, TryLock, Remove, Make, Goto
    <3>2. CASE pc' = pc
      BY <3>1, <3>2 DEF CInv, Heard
    <3>3. CASE pc' # pc
      <4>1. PICK l \in {"sweep", "trylock", "remove", "claim"} : pc' = [pc EXCEPT ![p] = l]
        BY <3>1, <3>3
      <4>2. pc[p] \notin Reading /\ l \notin Reading
        BY <3>1 DEF Reading
      <4> QED  BY <3>1, <4>1, <4>2, HeardBefore
    <3> QED  BY <3>2, <3>3
  <2>3. CASE Claim(p) \/ Fail(p) \/ Release(p)
    <3>1. /\ pc[p] \in {"claim", "lock", "rename", "prepare", "release"} /\ UNCHANGED <<client, outcome>>
          /\ pc' = pc \/ \E l \in {"lock", "rename", "prepare", "release", "idle"} : pc' = [pc EXCEPT ![p] = l]
      BY <2>3 DEF Claim, Fail, Release, Goto
    <3>2. CASE pc' = pc
      BY <3>1, <3>2 DEF CInv, Heard
    <3>3. CASE pc' # pc
      <4>1. PICK l \in {"lock", "rename", "prepare", "release", "idle"} : pc' = [pc EXCEPT ![p] = l]
        BY <3>1, <3>3
      <4>2. pc[p] \notin Reading /\ l \notin Reading
        BY <3>1 DEF Reading
      <4> QED  BY <3>1, <4>1, <4>2, HeardBefore
    <3> QED  BY <3>2, <3>3
  <2>4. CASE Prepare(p)
    BY <2>4, HeardPrepare
  <2>5. CASE ClientStep(p)
    BY <2>5, HeardClient
  <2>6. CASE Read(p)
    BY <2>6, HeardRead
  <2>7. CASE Reap(p)
    BY <2>7, HeardReap
  <2>8. CASE Expire(p)
    BY <2>8, HeardExpire
  <2>9. CASE Stop(p)
    BY <2>9, HeardStop
  <2>10. CASE Return(p) \/ Kill(p)
    BY <2>10, HeardEnd
  <2> QED  BY <1>2, <2>1, <2>2, <2>3, <2>4, <2>5, <2>6, <2>7, <2>8, <2>9, <2>10 DEF Step
<1> QED  BY <1>1, <1>2 DEF Next

(* A call that returns has left neither the client nor one of its processes *)
(* running, and a result holds all the client wrote, in order, however much *)
(* the client and its processes write and whenever they end (_run_capped,   *)
(* _exit_watch, _stopped).                                                  *)
THEOREM AnswerIsWhole == Spec => []AnswerWhole
<1>1. Init => CInv
  <2> SUFFICES ASSUME Init PROVE CInv
    OBVIOUS
  <2>1. client = [p \in Procs |-> NoClient] /\ outcome = [p \in Procs |-> None] /\ pc = [p \in Procs |-> "idle"]
    BY DEF Init
  <2>2. NoClient.ended = FALSE
    BY DEF NoClient
  <2>3. ASSUME NEW p \in Procs PROVE Heard(p)
    BY <2>1, <2>2, NoClientStream DEF Heard, Hears
  <2> QED  BY <2>1, <2>3, NoClientStream DEF CInv
<1>2. CInv => AnswerWhole
  <2> SUFFICES ASSUME CInv, NEW p \in Procs, pc[p] = "return"
               PROVE  /\ client[p].state # "runs" /\ ~client[p].child
                      /\ outcome[p] = "result" => Whole(client[p].got, client[p].wrote)
    BY DEF AnswerWhole
  <2>1. Hears(client[p], "return", outcome[p])
    BY DEF CInv, Heard
  <2>2. client[p].state # "runs" /\ ~client[p].child /\ (outcome[p] = "result" => Silent(client[p]))
    BY <2>1 DEF Hears
  <2>3. Stream(client[p].got, client[p].pipe, client[p].wrote)
    BY <2>1 DEF Hears
  <2>4. Silent(client[p]) => Whole(client[p].got, client[p].wrote)
    BY <2>3, StreamWhole DEF Silent
  <2> QED  BY <2>2, <2>4
<1> QED  BY Invariance, NextHeard, <1>1, <1>2, PTL DEF Spec
=============================================================================
