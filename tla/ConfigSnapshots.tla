-------------------------- MODULE ConfigSnapshots --------------------------
(* The configuration captures of the Helper (netops_helper:                 *)
(* configuration.py, with config_read and config_diff of engine.py).        *)
(* Redacted captures stay in the memory of the process, with one filtered   *)
(* view each and the cached comparisons of two of them, under a budget of   *)
(* the process, one of the target and a lifetime. One call at a time holds  *)
(* the capture lock; another one is refused and changes nothing. A text is  *)
(* a model value; its filtered view is a pair of the text and the filter,   *)
(* and either is read in two pages; the clients are told apart by their     *)
(* filters. What it means for a text to be redacted is not modelled.        *)
EXTENDS Naturals, Sequences, FiniteSets, FiniteSetsExt

CONSTANTS
    Targets, Texts, Filters, None,
    Section,             \* of a text: section, profile, firmware of its capture
    Size,                \* of a text: the memory it takes; a view or a diff takes 1
    Limits,              \* values of helper.configuration_limits.memory_bytes
    Available,           \* memory that may be left above the reserve
    BYTE_BUDGET, PER_TARGET, IN_ALL,    \* 512 MiB, 4 and 16 captures
    MaxCaptures          \* bound: captures that are stored

(* Snapshot, and what a call that holds the lock keeps *)
Snapshot == [id : Nat, target : Targets, limits : Limits, text : Texts,
             view : (Texts \X Filters) \cup {None}, expired : BOOLEAN]
Calls == [target : Targets, limits : Limits, kind : {"capture", "read", "diff"},
          id : Nat \cup {None}, other : Nat \cup {None}, filter : Filters \cup {None},
          page : {1, 2}, step : {"begun", "view", "build"}, fresh : BOOLEAN]

(* the constants make sense *)
configuration_limits ==
    /\ None \notin Texts \cup Filters \cup Calls
    /\ Size \in [Texts -> Nat] /\ Limits \cup Available \subseteq Nat /\ BYTE_BUDGET \in Nat
    /\ PER_TARGET \in Nat \ {0} /\ IN_ALL \in Nat \ {0}

VARIABLES
    snapshots,       \* _SNAPSHOTS; an older capture has a smaller identity
    diffs,           \* _DIFFS: pairs of identities
    active,          \* the call that holds _CAPTURE_LOCK, or None
    budget,          \* _ACTIVE_BUDGET
    made,            \* identities so far
    published,       \* identities and texts that a client was given
    viewed,          \* of the client with a filter: its capture, and the pages it has
    withheld         \* captures whose answer was lost with the record of its completion

vars == <<snapshots, diffs, active, budget, made, published, viewed, withheld>>
----------------------------------------------------------------------------
Init ==
    /\ snapshots = {} /\ diffs = {} /\ active = None /\ budget = BYTE_BUDGET
    /\ made = 0 /\ published = {}
    /\ viewed = [f \in Filters |-> None] /\ withheld = {}

Ids(ss) == {s.id : s \in ss}
Oldest(ss) == CHOOSE s \in ss : \A r \in ss : s.id <= r.id
Replaced(s, new) == (snapshots \ {s}) \cup {new}

(* _prune: what has outlived _TTL, and the comparisons of what is gone *)
Kept(ss) == {s \in ss : ~s.expired}
Pruned(ss) == {d \in diffs : d[1] \in Ids(ss) /\ d[2] \in Ids(ss)}

(* Snapshot.memory_bytes *)
Memory(s) == Size[s.text] + IF s.view = None THEN 0 ELSE 1

Retained(ss, ds) == MapThenSumSet(Memory, ss) + Cardinality(ds)

OfTarget(ss, t) == {s \in ss : s.target = t}

(* _budget: of the process, as far as memory was available, and of the target *)
Budget(ss, ds, staged) ==
    /\ Retained(ss, ds) + staged <= budget
    /\ Retained(OfTarget(ss, active.target),
                {d \in ds : d[1] \in Ids(OfTarget(ss, active.target))}) + staged <= active.limits
----------------------------------------------------------------------------
Call(t, lim, kind, id, filter, page) ==
    [target |-> t, limits |-> lim, kind |-> kind, id |-> id, other |-> None,
     filter |-> filter, page |-> page, step |-> "begun", fresh |-> FALSE]

(* capture: a target whose limits have changed loses its captures *)
Enter(call) ==
    LET rest == Kept({s \in snapshots : s.target = call.target => s.limits = call.limits})
    IN  /\ active = None
        /\ snapshots' = rest /\ diffs' = Pruned(rest)
        /\ \/ /\ active' = call
              /\ \E a \in Available : budget' = Min({BYTE_BUDGET, Retained(rest, Pruned(rest)) + a})
           \/ UNCHANGED <<active, budget>>        \* insufficient memory
        /\ UNCHANGED <<made, published, viewed, withheld>>

(* config_read without a snapshot, config_read of one, config_diff *)
Capture(t, lim, f) == made < MaxCaptures /\ Enter(Call(t, lim, "capture", None, f, 1))
Read(t, lim, id, f) == Enter(Call(t, lim, "read", id, f, 1))
Continue(t, lim, f) ==
    viewed[f] # None /\ Len(viewed[f].got) = 1 /\ Enter(Call(t, lim, "read", viewed[f].id, f, 2))
Diff(t, lim, id, other) == Enter([Call(t, lim, "diff", id, None, 1) EXCEPT !.other = other])

Release == active' = None /\ budget' = BYTE_BUDGET

(* Mutant: a capture that cannot be shown stays *)
Fail_Kept ==
    /\ active # None /\ Release /\ UNCHANGED <<snapshots, diffs, made, published, viewed, withheld>>

(* The call ends with an error: a capture of its own is discarded *)
Fail ==
    LET rest == Kept({s \in snapshots : s.id # active.id}) IN
    /\ active # None /\ Release
    /\ \/ active.fresh /\ snapshots' = rest /\ diffs' = Pruned(rest)
       \/ ~active.fresh /\ UNCHANGED <<snapshots, diffs>>
    /\ UNCHANGED <<made, published, viewed, withheld>>

(* store: room is made before the budget is asked *)
Store(x) ==
    LET t == active.target
        live == Kept(snapshots)
        mine == OfTarget(live, t)
        fewer == IF Cardinality(mine) < PER_TARGET THEN live ELSE live \ {Oldest(mine)}
        room == IF Cardinality(fewer) < IN_ALL THEN fewer ELSE fewer \ {Oldest(fewer)}
        new == [id |-> made + 1, target |-> t, limits |-> active.limits, text |-> x,
                view |-> None, expired |-> FALSE]
    IN  /\ active # None /\ active.kind = "capture" /\ active.step = "begun"
        /\ diffs' = Pruned(room) /\ made' = made + 1
        /\ \/ /\ Budget(room, Pruned(room), Size[x])
              /\ snapshots' = room \cup {new}
              /\ active' = [active EXCEPT !.id = made + 1, !.step = "view", !.fresh = TRUE]
              /\ UNCHANGED budget
           \/ ~Budget(room, Pruned(room), Size[x]) /\ snapshots' = room /\ Release
        /\ UNCHANGED <<published, viewed, withheld>>

(* _scoped_snapshot: the capture is there, of this target and these limits, *)
(* and of the section that the client names, which it has from the answer   *)
Scoped(id) ==
    {s \in snapshots : /\ s.id = id /\ ~s.expired
                       /\ s.target = active.target /\ s.limits = active.limits}

Found ==
    /\ active # None /\ active.kind = "read" /\ active.step = "begun" /\ Scoped(active.id) # {}
    /\ active' = [active EXCEPT !.step = "view"]
    /\ UNCHANGED <<snapshots, diffs, budget, made, published, viewed, withheld>>
----------------------------------------------------------------------------
(* filtered_snapshot: the whole text, or the view that is cached *)
ViewOf(s) == IF active.filter = None THEN <<s.text, None>>
             ELSE IF s.view # None /\ s.view[2] = active.filter THEN s.view ELSE None

(* the view that is cached gives way before the new one is built *)
Build ==
    /\ active # None /\ active.step = "view" /\ active.filter # None /\ active.page = 1
    /\ \E s \in Scoped(active.id) :
          ViewOf(s) = None /\ snapshots' = Replaced(s, [s EXCEPT !.view = None])
    /\ active' = [active EXCEPT !.step = "build"]
    /\ UNCHANGED <<diffs, budget, made, published, viewed, withheld>>

(* Mutant: the new view is kept whatever it takes *)
Built_Unbudgeted ==
    /\ active # None /\ active.step = "build"
    /\ \E s \in Scoped(active.id) :
          snapshots' = Replaced(s, [s EXCEPT !.view = <<s.text, active.filter>>])
    /\ active' = [active EXCEPT !.step = "view"]
    /\ UNCHANGED <<diffs, budget, made, published, viewed, withheld>>

Built ==
    /\ active # None /\ active.step = "build" /\ Budget(snapshots, diffs, 1)
    /\ \E s \in Scoped(active.id) :
          snapshots' = Replaced(s, [s EXCEPT !.view = <<s.text, active.filter>>])
    /\ active' = [active EXCEPT !.step = "view"]
    /\ UNCHANGED <<diffs, budget, made, published, viewed, withheld>>

(* the client is given the page *)
Give(s) ==
    /\ published' = published \cup {<<s.id, s.text>>}
    /\ \/ active.filter = None /\ UNCHANGED viewed
       \/ active.filter # None /\ viewed' = [viewed EXCEPT ![active.filter] =
             [id |-> s.id,
              got |-> IF active.page = 1 THEN <<ViewOf(s)>> ELSE Append(@.got, ViewOf(s))]]

(* The call returns its page and releases the lock; then the completion is  *)
(* recorded (_audit_device_call) and the client has the page, or the record *)
(* fails and it has an error, but a new capture stays stored. Nobody else   *)
(* can name the capture in between, so the two are one step.                *)
Answer ==
    /\ active # None /\ active.step = "view"
    /\ \E s \in Scoped(active.id) :
          /\ ViewOf(s) # None
          /\ \/ Give(s) /\ UNCHANGED withheld
             \/ /\ withheld' = IF active.fresh THEN withheld \cup {s.id} ELSE withheld
                /\ UNCHANGED <<published, viewed>>
    /\ Release /\ UNCHANGED <<snapshots, diffs, made>>

(* compare: two captures of one scope and one section *)
Compare ==
    /\ active # None /\ active.kind = "diff" /\ active.step = "begun"
    /\ \E s \in Scoped(active.id), o \in Scoped(active.other) : Section[s.text] = Section[o.text]
    /\ \/ <<active.id, active.other>> \in diffs /\ UNCHANGED diffs
       \/ /\ <<active.id, active.other>> \notin diffs /\ Budget(snapshots, diffs, 1)
          /\ diffs' = diffs \cup {<<active.id, active.other>>}
    /\ Release /\ UNCHANGED <<snapshots, made, published, viewed, withheld>>

(* a capture outlives its lifetime, the older before the younger *)
Expire ==
    /\ \E s \in snapshots :
          /\ ~s.expired /\ \A r \in snapshots : r.id < s.id => r.expired
          /\ snapshots' = Replaced(s, [s EXCEPT !.expired = TRUE])
    /\ UNCHANGED <<diffs, active, budget, made, published, viewed, withheld>>

Views == Filters \cup {None}
Next ==
    \/ \E t \in Targets, lim \in Limits :
          \/ \E f \in Views : Capture(t, lim, f)
          \/ \E f \in Filters : Continue(t, lim, f)
          \/ \E id \in {p[1] : p \in published} :
                \/ \E f \in Views : Read(t, lim, id, f)
                \/ \E other \in {p[1] : p \in published} : id < other /\ Diff(t, lim, id, other)
    \/ \E x \in Texts : Store(x)
    \/ Found \/ Build \/ Built \/ Answer \/ Compare \/ Fail \/ Expire

Spec == Init /\ [][Next]_vars
----------------------------------------------------------------------------
(* Captures, views and comparisons together never take more than the budget *)
(* of the process ("Captures and cached diffs share a fixed 512 MiB process *)
(* budget"), those of a target no more than its own limit; a target has at  *)
(* most four captures.                                                      *)
MemoryBounded ==
    /\ Retained(snapshots, diffs) <= BYTE_BUDGET /\ Cardinality(snapshots) <= IN_ALL
    /\ \A t \in Targets :
          LET mine == OfTarget(snapshots, t) IN
          /\ Cardinality(mine) <= PER_TARGET
          /\ \A s \in mine : Retained(mine, {d \in diffs : d[1] \in Ids(mine)}) <= s.limits

(* Between calls there is no capture that no client was given: "errors      *)
(* discard staged state" (_budget, discard_snapshot). One error does not:   *)
(* when the record of the completion fails, the capture is stored already   *)
(* and stays until it expires or gives way.                                 *)
PublishedOnly ==
    active = None => \A s \in snapshots : <<s.id, s.text>> \in published \/ s.id \in withheld

(* The pages a client has put together are those of one view, the one of    *)
(* its capture by its filter, though other clients filter the same capture  *)
(* and it has one cached view ("all pages come from one device read").      *)
PagesAgree ==
    \A f \in Filters : viewed[f] # None =>
        \E p \in published :
            p[1] = viewed[f].id /\ \A i \in DOMAIN viewed[f].got : viewed[f].got[i] = <<p[2], f>>
=============================================================================
