----------------------------- MODULE ProxyLimits -----------------------------
(* The request limit of the helper's proxy (netops_helper/proxy.py): what   *)
(* is forwarded to a target within its window, and the continuations that   *)
(* let the next page of a read pass without being counted. forward, which   *)
(* admits requests, and the relaying thread, which issues continuations,    *)
(* run at the same time; each of their critical sections is one step. A     *)
(* read is a model value (tool, arguments and digest of the output); its    *)
(* page n + 1 follows its page n. The clock counts in seconds.              *)
EXTENDS Naturals, Sequences, FiniteSetsExt

CONSTANTS
    Aliases, Reads,
    Alias,               \* of a read: its target
    Costs,               \* 1, and the reads of a triage tool (TRIAGE_READS)
    Limits, Window,      \* rate_limit: requests, which may be changed, and window_seconds
    NoPromise,
    CONTINUATION_MAX_ENTRIES, CONTINUATION_TTL_SECONDS,
    Pages, MaxTime, MaxSpent        \* bounds

(* the constants make sense *)
rate_limits ==
    /\ Alias \in [Reads -> Aliases] /\ Costs \cup Limits \subseteq Nat \ {0}
    /\ {Window, CONTINUATION_MAX_ENTRIES, CONTINUATION_TTL_SECONDS} \subseteq Nat \ {0}

VARIABLES
    now,
    history,           \* of an alias: rate_history, the times of what was counted
    continuations,     \* in the order of their expiry
    waiting, relayed,  \* pages asked for; pages whose answer has left pending
    spent,             \* what was admitted so far, with its cost and the limit
    promise,           \* of an alias: what retry_after_seconds promised
    shown, free        \* of a page: how often it was shown, and passed uncounted

vars == <<now, history, continuations, waiting, relayed, spent, promise, shown, free>>
ghosts == <<shown, free>>
----------------------------------------------------------------------------
Init ==
    /\ now = 0 /\ history = [a \in Aliases |-> <<>>] /\ continuations = <<>>
    /\ waiting = {} /\ relayed = {} /\ spent = <<>>
    /\ promise = [a \in Aliases |-> NoPromise]
    /\ shown = [p \in Reads \X (1..Pages) |-> 0] /\ free = [p \in Reads \X (1..Pages) |-> 0]

(* the requests that are still in the window *)
Recent(a) == SelectSeq(history[a], LAMBDA t : t + Window > now)

(* Mutant: the wait until the oldest request leaves the window *)
RetryAt_Oldest(recent, cost, limit) == recent[1] + Window

(* the moment at which enough of them will have left it *)
RetryAt(recent, cost, limit) ==
    IF recent = <<>> THEN now + Window
    ELSE LET excess == Len(recent) + cost - limit
         IN  recent[Min({Len(recent), Max({1, excess})})] + Window

(* _consume_rate_limit *)
Consume(a, limit, cost) ==
    LET recent == Recent(a) IN
    \/ /\ Len(recent) + cost <= limit
       /\ history' = [history EXCEPT ![a] = recent \o [i \in 1..cost |-> now]]
       /\ spent' = Append(spent, [alias |-> a, at |-> now, cost |-> cost, limit |-> limit])
       /\ promise' = [promise EXCEPT ![a] = NoPromise]
    \/ /\ Len(recent) + cost > limit
       /\ history' = [history EXCEPT ![a] = recent]
       /\ promise' = [promise EXCEPT ![a] =
             [at |-> Max({now + 1, RetryAt(recent, cost, limit)}), cost |-> cost, limit |-> limit]]
       /\ UNCHANGED spent
Admitted == spent' # spent

(* _rate_status, of helper_status: what has left the window is dropped *)
Status(a) ==
    /\ history' = [history EXCEPT ![a] = Recent(a)]
    /\ UNCHANGED <<now, continuations, waiting, relayed, spent, promise, ghosts>>

(* a request that is no read of pages *)
Call(a, limit, cost) ==
    /\ Consume(a, limit, cost) /\ UNCHANGED <<now, continuations, waiting, relayed, ghosts>>

Redeemable(r, n) ==
    \E i \in 1..Len(continuations) :
        LET c == continuations[i] IN c.read = r /\ c.page = n /\ c.expires > now

(* _redeem_continuation: it is used up *)
Redeem(r, n) ==
    Redeemable(r, n) /\ continuations' = SelectSeq(continuations, LAMBDA c : c.read # r)

(* request: a page; a first one is always counted, and a further one unless *)
(* its continuation is redeemed                                             *)
Ask(r, n, limit) ==
    /\ <<r, n>> \notin waiting
    /\ \/ /\ n > 1 /\ Redeem(r, n)
          /\ free' = [free EXCEPT ![<<r, n>>] = @ + 1] /\ waiting' = waiting \cup {<<r, n>>}
          /\ UNCHANGED <<history, spent, promise>>
       \/ /\ ~(n > 1 /\ Redeemable(r, n)) /\ Consume(Alias[r], limit, 1)
          /\ waiting' = IF Admitted THEN waiting \cup {<<r, n>>} ELSE waiting
          /\ UNCHANGED <<continuations, free>>
    /\ UNCHANGED <<now, relayed, shown>>

(* _transform: the answer leaves pending *)
Transform(p) ==
    /\ p \in waiting /\ waiting' = waiting \ {p} /\ relayed' = relayed \cup {p}
    /\ UNCHANGED <<now, history, continuations, spent, promise, ghosts>>

(* _issue_continuation: for a page that has a successor *)
Issue(p) ==
    LET others == SelectSeq(continuations, LAMBDA c : c.read # p[1] /\ c.expires > now)
        room == IF Len(others) < CONTINUATION_MAX_ENTRIES THEN others ELSE Tail(others)
    IN  /\ p \in relayed /\ relayed' = relayed \ {p}
        /\ \/ /\ p[2] < Pages /\ shown' = [shown EXCEPT ![p] = @ + 1]
              /\ continuations' = Append(room, [read |-> p[1], page |-> p[2] + 1,
                                                expires |-> now + CONTINUATION_TTL_SECONDS])
           \/ continuations' = others /\ UNCHANGED shown        \* the last page, or an error
        /\ UNCHANGED <<now, history, waiting, spent, promise, free>>

(* abandon: a session ends *)
Abandon ==
    /\ waiting' = {} /\ continuations' = <<>>
    /\ UNCHANGED <<now, history, relayed, spent, promise, ghosts>>

Tick == now < MaxTime /\ now' = now + 1
        /\ UNCHANGED <<history, continuations, waiting, relayed, spent, promise, ghosts>>

Next ==
    \/ /\ Len(spent) < MaxSpent
       /\ \E limit \in Limits :
             \/ \E a \in Aliases, cost \in Costs : Call(a, limit, cost)
             \/ \E r \in Reads, n \in 1..Pages : Ask(r, n, limit)
    \/ \E p \in Reads \X (1..Pages) : Transform(p) \/ Issue(p)
    \/ (\E a \in Aliases : Status(a)) \/ Abandon \/ Tick

Spec == Init /\ [][Next]_vars
----------------------------------------------------------------------------
(* Whenever something was admitted, the target had been asked for no more   *)
(* in the window that ends there than the limit of that moment allows:      *)
(* "per-target limit on accepted device operations" (_consume_rate_limit).  *)
WindowKept ==
    \A i \in 1..Len(spent) :
        LET s == spent[i]
            inside == {j \in 1..i : spent[j].alias = s.alias /\ spent[j].at + Window > s.at}
        IN  MapThenSumSet(LAMBDA j : spent[j].cost, inside) <= s.limit

(* A request that was refused, and is repeated after retry_after_seconds    *)
(* under the same limit, is admitted if nothing else was meanwhile, unless  *)
(* it costs more than the limit (the index into the history).               *)
RetryTrue ==
    \A a \in Aliases : promise[a] # NoPromise =>
        LET p == promise[a] IN
        now >= p.at /\ p.cost <= p.limit => Len(Recent(a)) + p.cost <= p.limit

(* A page passes uncounted no more often than the page before it was shown, *)
(* whatever is asked again, expires, is evicted or ends with its session    *)
(* (_redeem_continuation, _issue_continuation).                             *)
FreePagesEarned ==
    \A r \in Reads : \A n \in 2..Pages : free[r, n] <= shown[r, n - 1]
=============================================================================
