---------------------------- MODULE HelperReads ----------------------------
(* ssh_read of the Helper (netops_helper: engine.py). The tools run in      *)
(* threads of one process. A fresh read connects to the device once for its *)
(* identity and once for the query, each time behind the lane of the device *)
(* and with a host key line that may have to be scanned first; a long       *)
(* output is cached, and its further pages are served from the cache to a   *)
(* client that names the output by its digest. Every call is recorded       *)
(* before the device is contacted and before its result is given out.       *)
(* What lasts some time (an entry of a cache, the spacing) ends at any      *)
(* moment, the older before the younger. The calls of a client are those of *)
(* its thread.                                                              *)
EXTENDS Naturals, Sequences

CONSTANTS
    Threads, Queries, Devices,
    Device,             \* of a query: where it is answered
    Verified,           \* devices whose product is verified before a query
    Outputs,            \* of a query: what the device may answer at a time
    Pages,              \* of an output: the number of its pages
    None,
    MAX_ENTRIES,        \* _SSH_CACHE_MAX_ENTRIES
    MaxCalls, MaxFailures    \* bounds: calls of a thread, records that fail

AllOutputs == UNION {Outputs[q] : q \in Queries}

ASSUME ReadAssumption ==
    /\ None \notin Threads \cup AllOutputs \cup {"result"} /\ Verified \subseteq Devices
    /\ Device \in [Queries -> Devices] /\ Pages \in [AllOutputs -> Nat \ {0}]
    /\ MAX_ENTRIES \in Nat \ {0}

VARIABLES
    holder, waits,     \* of a lane: its lock, and has the spacing still to pass
    keyed,             \* of a device: is there a host key line in the cache
    cache,             \* _SSH_PAGE_CACHE, in the order of expiry
    pc, job, recorded, \* of a thread: label, call, and the records of the call
    answer, held,      \* of a client: its last answer, and the pages it follows
    calls, failures

vars == <<holder, waits, keyed, cache, pc, job, recorded, answer, held, calls, failures>>
lanes == <<holder, waits>>
clients == <<answer, held, calls>>
----------------------------------------------------------------------------
Job(q, content, page) ==
    [query |-> q, content |-> content, page |-> page,
     stage |-> IF Device[q] \in Verified THEN "identity" ELSE "query",
     scan |-> FALSE, status |-> "failed"]

Init ==
    /\ holder = [d \in Devices |-> None] /\ waits = [d \in Devices |-> FALSE]
    /\ keyed = [d \in Devices |-> FALSE] /\ cache = <<>>
    /\ pc = [t \in Threads |-> "idle"] /\ job = [t \in Threads |-> None]
    /\ recorded = [t \in Threads |-> <<>>]
    /\ answer = [t \in Threads |-> None] /\ held = [t \in Threads |-> <<>>]
    /\ calls = [t \in Threads |-> 0] /\ failures = 0

Goto(t, label) == pc' = [pc EXCEPT ![t] = label]
At(t) == Device[job[t].query]
----------------------------------------------------------------------------
(* Mutant: the digest of the output is not part of the key *)
SameKey_Query(entry, q, content) == entry.query = q

(* the key of the cache: _ssh_cache_key and the digest of the output *)
SameKey(entry, q, content) == entry.query = q /\ entry.content = content

Without(q, content) == SelectSeq(cache, LAMBDA e : ~SameKey(e, q, content))

(* _load_cached_ssh_output: what has expired is dropped; the entry, if any *)
Live == SelectSeq(cache, LAMBDA e : ~e.expired)
Loaded(q, content) ==
    {cache[i] : i \in {k \in 1 .. Len(cache) : ~cache[k].expired /\ SameKey(cache[k], q, content)}}

(* _store_cached_ssh_output *)
Stored(q, content) ==
    LET full == Len(cache) >= MAX_ENTRIES
        room == IF full THEN Tail(cache) ELSE cache
    IN  SelectSeq(room, LAMBDA e : ~SameKey(e, q, content))
        \o <<[query |-> q, content |-> content, expired |-> FALSE]>>
----------------------------------------------------------------------------
(* The client asks for a query, or for the next page of what it follows,    *)
(* which _missing_continuation refuses without a record if it is not cached *)
Ask(t) ==
    /\ pc[t] = "idle" /\ calls[t] < MaxCalls
    /\ calls' = [calls EXCEPT ![t] = @ + 1] /\ recorded' = [recorded EXCEPT ![t] = <<>>]
    /\ \/ \E q \in Queries :
             /\ job' = [job EXCEPT ![t] = Job(q, None, 1)] /\ Goto(t, "preflight")
             /\ answer' = [answer EXCEPT ![t] = None] /\ UNCHANGED <<cache, held>>
       \/ /\ held[t] # <<>>
          /\ LET last == held[t][Len(held[t])] IN
             /\ last.page < Pages[last.content] /\ cache' = Live
             /\ \/ /\ Loaded(last.query, last.content) # {}
                   /\ job' = [job EXCEPT ![t] = Job(last.query, last.content, last.page + 1)]
                   /\ Goto(t, "preflight")
                   /\ answer' = [answer EXCEPT ![t] = None] /\ UNCHANGED held
                \/ /\ Loaded(last.query, last.content) = {}
                   /\ answer' = [answer EXCEPT ![t] = "error"]
                   /\ held' = [held EXCEPT ![t] = <<>>] /\ UNCHANGED <<pc, job>>
    /\ UNCHANGED <<lanes, keyed, failures>>

(* _audit_device_call.preflight *)
Preflight(t) ==
    /\ pc[t] = "preflight"
    /\ \/ /\ recorded' = [recorded EXCEPT ![t] = <<"started">>]
          /\ Goto(t, IF job[t].page = 1 THEN "key" ELSE "page")
          /\ UNCHANGED <<answer, failures>>
       \/ /\ failures < MaxFailures /\ failures' = failures + 1
          /\ answer' = [answer EXCEPT ![t] = "error"] /\ Goto(t, "idle") /\ UNCHANGED recorded
    /\ UNCHANGED <<lanes, keyed, cache, job, held, calls>>

(* a further page, from the cache; the last one ends the entry *)
Page(t) ==
    LET j == job[t]
        found == Loaded(j.query, j.content)
    IN  /\ pc[t] = "page" /\ Goto(t, "complete")
        /\ \/ /\ \E e \in found : job' = [job EXCEPT ![t].status = "ok", ![t].content = e.content]
              /\ cache' = IF j.page < Pages[j.content] THEN Live
                          ELSE SelectSeq(Live, LAMBDA e : ~SameKey(e, j.query, j.content))
           \/ found = {} /\ cache' = Live /\ UNCHANGED job
        /\ UNCHANGED <<lanes, keyed, recorded, clients, failures>>

(* host_key_line: from its cache, or by a scan *)
HostKey(t) ==
    /\ pc[t] = "key" /\ Goto(t, "lane")
    /\ job' = [job EXCEPT ![t].scan = ~keyed[At(t)]]
    /\ UNCHANGED <<lanes, keyed, cache, recorded, clients, failures>>
----------------------------------------------------------------------------
(* _paced_connection: the lock of the lane *)
Acquire(t) ==
    /\ pc[t] = "lane" /\ holder[At(t)] = None
    /\ holder' = [holder EXCEPT ![At(t)] = t] /\ Goto(t, "wait")
    /\ UNCHANGED <<waits, keyed, cache, job, recorded, clients, failures>>

(* Mutant: the lane is free again as soon as the connection has started *)
Start_Unlocked(t) ==
    /\ pc[t] = "wait" /\ ~waits[At(t)] /\ Goto(t, "connected")
    /\ waits' = [waits EXCEPT ![At(t)] = TRUE] /\ holder' = [holder EXCEPT ![At(t)] = None]
    /\ UNCHANGED <<keyed, cache, job, recorded, clients, failures>>

(* the sleep until the spacing has passed, and the new start *)
Start(t) ==
    /\ pc[t] = "wait" /\ ~waits[At(t)] /\ Goto(t, "connected")
    /\ waits' = [waits EXCEPT ![At(t)] = TRUE]
    /\ UNCHANGED <<holder, keyed, cache, job, recorded, clients, failures>>

(* The connection ends, and with it the hold on the lane                    *)
Disconnect(t) ==
    /\ pc[t] = "connected" /\ holder' = [holder EXCEPT ![At(t)] = None]
    /\ UNCHANGED <<waits, cache, recorded, clients, failures>>

(* a scan finds the pinned key (_cache_host_key_line), or not *)
Scanned(t) ==
    /\ Disconnect(t) /\ job[t].scan
    /\ \/ /\ keyed' = [keyed EXCEPT ![At(t)] = TRUE]
          /\ job' = [job EXCEPT ![t].scan = FALSE] /\ Goto(t, "lane")
       \/ Goto(t, "complete") /\ UNCHANGED <<keyed, job>>

(* a session that failed: _forget_host_key_line *)
Lost(t) ==
    /\ Disconnect(t) /\ ~job[t].scan /\ Goto(t, "complete")
    /\ keyed' = [keyed EXCEPT ![At(t)] = FALSE] /\ UNCHANGED job

(* _verified_read: the device is the selected product, or not *)
Identified(t) ==
    /\ Disconnect(t) /\ ~job[t].scan /\ job[t].stage = "identity" /\ UNCHANGED keyed
    /\ \/ job' = [job EXCEPT ![t].stage = "query"] /\ Goto(t, "key")
       \/ Goto(t, "complete") /\ UNCHANGED job

(* the query is answered, or its output is refused, empty or too long *)
Answered(t) ==
    /\ Disconnect(t) /\ ~job[t].scan /\ job[t].stage = "query" /\ UNCHANGED keyed
    /\ \/ \E c \in Outputs[job[t].query] :
             job' = [job EXCEPT ![t].content = c] /\ Goto(t, "serve")
       \/ Goto(t, "complete") /\ UNCHANGED job
----------------------------------------------------------------------------
(* ssh_read: the first page of a fresh output *)
Serve(t) ==
    LET j == job[t] IN
    /\ pc[t] = "serve" /\ Goto(t, "complete") /\ job' = [job EXCEPT ![t].status = "ok"]
    /\ cache' = IF Pages[j.content] > 1 THEN Stored(j.query, j.content)
                ELSE Without(j.query, j.content)
    /\ UNCHANGED <<lanes, keyed, recorded, clients, failures>>

(* the client goes on from the page it was given *)
Given(t) ==
    LET j == job[t]
        page == [query |-> j.query, content |-> j.content, page |-> j.page]
    IN  held' = IF j.status # "ok" THEN held
                ELSE [held EXCEPT ![t] = IF j.page = 1 THEN <<page>> ELSE Append(@, page)]

(* Mutant: a result is given out though its record failed *)
Complete_Anyway(t) ==
    /\ pc[t] = "complete" /\ Goto(t, "idle") /\ job' = [job EXCEPT ![t] = None]
    /\ \/ recorded' = [recorded EXCEPT ![t] = Append(@, job[t].status)] /\ UNCHANGED failures
       \/ failures < MaxFailures /\ failures' = failures + 1 /\ UNCHANGED recorded
    /\ answer' = [answer EXCEPT ![t] = IF job[t].status = "ok" THEN "result" ELSE "error"]
    /\ Given(t) /\ UNCHANGED <<lanes, keyed, cache, calls>>

(* _audit_device_call.complete: without the record there is no result *)
Complete(t) ==
    /\ pc[t] = "complete" /\ Goto(t, "idle") /\ job' = [job EXCEPT ![t] = None]
    /\ \/ /\ recorded' = [recorded EXCEPT ![t] = Append(@, job[t].status)]
          /\ answer' = [answer EXCEPT ![t] = IF job[t].status = "ok" THEN "result" ELSE "error"]
          /\ Given(t) /\ UNCHANGED failures
       \/ /\ failures < MaxFailures /\ failures' = failures + 1
          /\ answer' = [answer EXCEPT ![t] = "error"] /\ UNCHANGED <<recorded, held>>
    /\ UNCHANGED <<lanes, keyed, cache, calls>>
----------------------------------------------------------------------------
(* Time: the oldest entry of the cache, a host key line, a spacing *)
Expire ==
    /\ \E i \in 1..Len(cache) :
          /\ ~cache[i].expired /\ \A k \in 1..(i - 1) : cache[k].expired
          /\ cache' = [cache EXCEPT ![i].expired = TRUE]
    /\ UNCHANGED <<lanes, keyed, pc, job, recorded, clients, failures>>

ExpireKey(d) ==
    /\ keyed[d] /\ keyed' = [keyed EXCEPT ![d] = FALSE]
    /\ UNCHANGED <<lanes, cache, pc, job, recorded, clients, failures>>

Spacing(d) ==
    /\ waits[d] /\ waits' = [waits EXCEPT ![d] = FALSE]
    /\ UNCHANGED <<holder, keyed, cache, pc, job, recorded, clients, failures>>

Step(t) ==
    \/ Preflight(t) \/ Page(t) \/ HostKey(t) \/ Acquire(t) \/ Start(t) \/ Scanned(t)
    \/ Lost(t) \/ Identified(t) \/ Answered(t) \/ Serve(t) \/ Complete(t)
Next ==
    \/ \E t \in Threads : Ask(t) \/ Step(t)
    \/ Expire \/ \E d \in Devices : ExpireKey(d) \/ Spacing(d)

Spec == Init /\ [][Next]_vars
----------------------------------------------------------------------------
(* The pages a client has put together are the first pages of one output of *)
(* its query, though the device answers every read differently, other       *)
(* clients read the same query, and entries expire or give way (the digest  *)
(* in the key of _SSH_PAGE_CACHE).                                          *)
PagesWhole ==
    \A t \in Threads : \A i \in 1..Len(held[t]) :
        held[t][i] = [query |-> held[t][1].query, content |-> held[t][1].content, page |-> i]

(* A device never has two connections of the Helper at a time, nor one that *)
(* starts before the spacing since the start of the previous one has        *)
(* passed, and none without a record that was written first                 *)
(* (_paced_connection, _audit_device_call).                                 *)
Open(d) == {t \in Threads : pc[t] = "connected" /\ At(t) = d}
ConnectionsPaced ==
    [][\A d \in Devices : \A t \in Open(d)' \ Open(d) :
          Open(d)' = {t} /\ ~waits[d] /\ recorded[t] = <<"started">>]_vars

(* A client that has a result finds its operation in the record, started    *)
(* and ok; an operation that was started is never without its outcome       *)
(* unless that record failed, and then the client has an error.             *)
ResultRecorded ==
    \A t \in Threads : pc[t] = "idle" =>
        /\ answer[t] = "result" => recorded[t] = <<"started", "ok">>
        /\ recorded[t] = <<"started">> => answer[t] = "error"
=============================================================================
