--------------------------- MODULE DownloadQueue ---------------------------
(***************************************************************************)
(* Content retrieval of one synchronisation: the queue                     *)
(* (eth/downloader/queue.go), the loops that download bodies and receipts  *)
(* (fetchParts in downloader.go) and the processor that takes results out. *)
(*                                                                         *)
(* A block is its number; its body or its receipts are the pair of a kind  *)
(* and that number. The headers of a request are in ascending order (they  *)
(* are popped from a priority queue), so a request is a set of blocks, and *)
(* so is a reply, whose items come in the order of the request.            *)
(***************************************************************************)
EXTENDS Integers, FiniteSets, Sequences

CONSTANTS
    Height,        \* the blocks to download are 1..Height
    Pivot,         \* fastSyncPivot: receipts are fetched up to it (0: full sync)
    ForceVerify,   \* fsHeaderForceVerify
    CacheLimit,    \* blockCacheLimit
    Batch,         \* maxHeadersProcess: headers are scheduled in chunks
    Capacity,      \* headers in a request
    FailLimit,     \* a peer that let this many headers or fewer expire is dropped
    EmptyBody, EmptyReceipts,   \* blocks without transactions, without receipts
    Peer, Master,  \* the peers, and the one the synchronisation was started with
    MaxFaults      \* bound: peers that disconnect, replies that never come, requests that
                   \* expire although the reply is on its way

ASSUME SizeAssumption ==
    /\ Height \in Nat \ {0} /\ Pivot \in Nat /\ ForceVerify \in Nat
    /\ CacheLimit \in Nat \ {0} /\ Batch \in Nat \ {0} /\ Capacity \in Nat \ {0}
    /\ FailLimit \in Nat /\ MaxFaults \in Nat
ASSUME PeerAssumption == IsFiniteSet(Peer) /\ Master \in Peer
\* The pivot keeps fsMinFullBlocks > fsHeaderForceVerify blocks above it, and the
\* cache holds more than fsHeaderForceVerify blocks.
ASSUME PivotAssumption == Pivot + ForceVerify <= Height /\ ForceVerify < CacheLimit

Kind == {"body", "receipts"}
Block == 1..Height

Wanted(k, b) == k = "body" \/ b <= Pivot

\* isNoop of ReserveBodies and ReserveReceipts.
IsNoop(k, b) == b \in (IF k = "body" THEN EmptyBody ELSE EmptyReceipts)

Content(b) == {k \in Kind : Wanted(k, b) /\ ~IsNoop(k, b)}

VARIABLES
    scheduled,     \* the headers scheduled so far are 1..scheduled
    headersDone,   \* no more headers will come
    taskQueue,     \* kind -> how often each block is queued
    pend,          \* kind -> peer -> the blocks asked of it ({}: no request)
    done,          \* kind -> the done pool
    cache,         \* resultCache: block -> its fetchResult, or Nil
    offset,        \* resultOffset
    lacking,       \* peer -> blocks it is known not to have
    busy,          \* kind -> peers whose idle flag is taken
    peers,         \* the registered peers
    net,           \* kind -> peer -> the requests it has not answered yet
    fetch,         \* kind -> the local state of its fetchParts
    err,           \* the error that ended a fetcher, or "none"
    closed,        \* queue.closed
    wake,          \* the processor is not asleep in WaitResults
    processor,     \* "running" or "returned"
    out,           \* results handed out
    faults, stale  \* history: faults so far, and whether a delivery was stale

vars == <<scheduled, headersDone, taskQueue, pend, done, cache, offset, lacking, busy,
          peers, net, fetch, err, closed, wake, processor, out, faults, stale>>

headers == <<scheduled, headersDone>>
tasks == <<taskQueue, pend, done, cache>>
history == <<faults, stale>>

Nil == [pending |-> -1, parts |-> {}]

InCache(b) == b \in offset..(offset + CacheLimit - 1)

Queued(k) == {b \in Block : taskQueue[k][b] > 0}
InFlight(k) == \E p \in Peer : pend[k][p] # {}
NumAsked(k) == Cardinality({x \in Peer \X Block : x[2] \in pend[k][x[1]]})

-----------------------------------------------------------------------------
(* fetchParts is a loop: "select" waits for a packet or the ticker, "update" *)
(* looks for expired requests, "assign" goes through the idle peers.         *)
Selecting == [pc |-> "select", idles |-> {}, allIdle |-> FALSE, moved |-> FALSE]

Init ==
    /\ scheduled = 0 /\ headersDone = FALSE /\ offset = 1
    /\ taskQueue = [k \in Kind |-> [b \in Block |-> 0]]
    /\ pend = [k \in Kind |-> [p \in Peer |-> {}]]
    /\ done = [k \in Kind |-> {}]
    /\ cache = [b \in Block |-> Nil]
    /\ lacking = [p \in Peer |-> {}]
    /\ busy = [k \in Kind |-> {}]
    /\ peers = Peer
    /\ net = [k \in Kind |-> [p \in Peer |-> <<>>]]
    /\ fetch = [k \in Kind |-> Selecting]
    /\ err = "none" /\ closed = FALSE
    /\ wake = TRUE /\ processor = "running" /\ out = <<>>
    /\ faults = 0 /\ stale = FALSE

Running == err = "none"

Pushed(q, S) == [b \in Block |-> q[b] + (IF b \in S THEN 1 ELSE 0)]

\* processHeaders hands a batch of headers to queue.Schedule.
Schedule ==
    /\ Running
    /\ scheduled < Height
    /\ \E n \in {scheduled + Batch, Height} :
        LET new(k) == {b \in (scheduled + 1)..n : Wanted(k, b)} IN
        /\ n <= scheduled + Batch /\ n <= Height
        /\ scheduled' = n
        /\ taskQueue' = [k \in Kind |-> Pushed(taskQueue[k], new(k))]
    /\ UNCHANGED <<headersDone, pend, done, cache, offset, lacking, busy, peers, net,
                   fetch, err, closed, wake, processor, out, history>>

\* There are no more headers: the continuation flag FALSE for both loops.
HeadersDone ==
    /\ Running /\ scheduled = Height /\ ~headersDone
    /\ headersDone' = TRUE
    /\ UNCHANGED <<scheduled, tasks, offset, lacking, busy, peers, net, fetch, err,
                   closed, wake, processor, out, history>>

-----------------------------------------------------------------------------
(* Peers. *)

\* Mutant of Revoke: the requests stay with the peer too.
RevokeKeeps(p) ==
    /\ taskQueue' = [k \in Kind |-> Pushed(taskQueue[k], pend[k][p])]
    /\ pend' = pend

\* Revoke: the requests of a peer go back to the queues.
Revoke(p) ==
    /\ taskQueue' = [k \in Kind |-> Pushed(taskQueue[k], pend[k][p])]
    /\ pend' = [k \in Kind |-> [pend[k] EXCEPT ![p] = {}]]

\* UnregisterPeer: losing the master peer cancels the synchronisation.
UnregisterPeer(p) ==
    /\ peers' = peers \ {p}
    /\ Revoke(p)
    /\ err' = IF p = Master /\ \E k \in Kind : fetch[k].pc # "done"
              THEN "cancelled" ELSE err

Disconnect(p) ==
    /\ Running /\ p \in peers /\ faults < MaxFaults
    /\ UnregisterPeer(p)
    /\ faults' = faults + 1
    /\ UNCHANGED <<headers, done, cache, offset, lacking, busy, net, fetch, closed,
                   wake, processor, out, stale>>

\* A sequence without its i-th element.
Without(s, i) == SubSeq(s, 1, i - 1) \o SubSeq(s, i + 1, Len(s))

NoAnswer(k, p, i) ==
    /\ Running /\ faults < MaxFaults
    /\ i \in DOMAIN net[k][p]
    /\ net' = [net EXCEPT ![k][p] = Without(@, i)]
    /\ faults' = faults + 1
    /\ UNCHANGED <<headers, tasks, offset, lacking, busy, peers, fetch, err, closed,
                   wake, processor, out, stale>>

-----------------------------------------------------------------------------
(* The update case of fetchParts. *)

\* Loop k may go through an update: the updates of the two loops are not interleaved.
\* (Their sections under the queue's lock commute, except for a dropped peer, and
\* Disconnect may drop one at any time.)
MayUpdate(k) == \A j \in Kind \ {k} : fetch[j].pc \in {"select", "done"}

\* The request of p took too long. A large one only makes the peer idle again, a
\* small one drops it. (With no peer left the update ends before that.)
Expire(k, p) ==
    /\ Running /\ MayUpdate(k) /\ pend[k][p] # {}
    /\ fetch[k].pc = "update" \/ (fetch[k].pc = "select" /\ peers # {})
    /\ IF net[k][p] = <<>> THEN UNCHANGED faults
       ELSE faults < MaxFaults /\ faults' = faults + 1
    /\ IF p \in peers /\ Cardinality(pend[k][p]) <= FailLimit
       THEN UnregisterPeer(p) /\ UNCHANGED busy
       ELSE /\ taskQueue' = [taskQueue EXCEPT ![k] = Pushed(@, pend[k][p])]
            /\ pend' = [pend EXCEPT ![k][p] = {}]
            /\ busy' = [busy EXCEPT ![k] = IF p \in peers THEN @ \ {p} ELSE @]
            /\ UNCHANGED <<peers, err>>
    /\ fetch' = [fetch EXCEPT ![k].pc = "update"]
    /\ UNCHANGED <<headers, done, cache, offset, lacking, net, closed, wake,
                   processor, out, stale>>

\* The rest of the update. Nothing to fetch: wait, or stop. Otherwise go through the
\* idle peers, if there are any.
BeginAssign(k) ==
    LET idles == peers \ busy[k]
        nothing == Queued(k) = {}
        over == nothing /\ ~InFlight(k) /\ headersDone
        wait == nothing /\ ~over
        nobody == ~nothing /\ idles = {} /\ (peers # {} \/ InFlight(k))
    IN  /\ Running /\ MayUpdate(k) /\ fetch[k].pc \in {"select", "update"}
        /\ IF fetch[k].pc = "select" /\ peers = {}
           THEN err' = "noPeers" /\ UNCHANGED fetch
           ELSE /\ fetch' = [fetch EXCEPT ![k] =
                       CASE over -> [@ EXCEPT !.pc = "done"]
                         [] wait \/ nobody -> Selecting
                         [] OTHER -> [@ EXCEPT !.pc = "assign",
                                               !.idles = idles,
                                               !.allIdle = idles = peers,
                                               !.moved = InFlight(k)]]
                /\ UNCHANGED err
        /\ UNCHANGED <<headers, tasks, offset, lacking, busy, peers, net, closed, wake,
                       processor, out, history>>

Space(k) == CacheLimit - Cardinality(done[k]) - NumAsked(k)

\* Mutant of Popped: the loop may run once more than there is room.
PoppedOver(k, p) ==
    LET before(b) == {c \in Queued(k) : c < b}
    IN  {b \in Queued(k) :
            /\ Cardinality(before(b)) <= Space(k)
            /\ Cardinality({c \in before(b) : ~IsNoop(k, c) /\ c \notin lacking[p]}) < Capacity}

\* What the loop of reserveHeaders pops: the lowest blocks, while there is room in
\* the cache and the request is not full. (No block is queued twice: TaskOnce.)
Popped(k, p) ==
    LET before(b) == {c \in Queued(k) : c < b}
    IN  {b \in Queued(k) :
            /\ Cardinality(before(b)) < Space(k)
            /\ Cardinality({c \in before(b) : ~IsNoop(k, c) /\ c \notin lacking[p]}) < Capacity}

\* Mutant of Components: the pivot is taken for a block above it.
ComponentsPivot(b) == IF b < Pivot THEN 2 ELSE 1

Components(b) == IF b <= Pivot THEN 2 ELSE 1

\* The result of a block of which the part of kind k was popped.
Reserved(k, b) ==
    LET result == IF cache[b] = Nil THEN [pending |-> Components(b), parts |-> {}]
                  ELSE cache[b]
    IN  IF IsNoop(k, b) THEN [result EXCEPT !.pending = @ - 1] ELSE result

\* reserveHeaders, and the request to the peer: it fails when the peer is not idle.
Reserve(k, p) ==
    LET popped == Popped(k, p)
        noops == {b \in popped : IsNoop(k, b)}
        send == {b \in popped : ~IsNoop(k, b) /\ b \notin lacking[p]}
    IN  IF \E b \in popped : ~InCache(b)
        THEN /\ err' = "invalidChain"
             /\ UNCHANGED <<tasks, busy, net, fetch, wake>>
        ELSE /\ taskQueue' = [taskQueue EXCEPT ![k] =
                    [b \in Block |-> @[b] - (IF b \in noops \cup send THEN 1 ELSE 0)]]
             /\ cache' = [b \in Block |-> IF b \in popped THEN Reserved(k, b) ELSE cache[b]]
             /\ done' = [done EXCEPT ![k] = @ \cup noops]
             /\ wake' = (wake \/ noops # {})
             /\ fetch' = [fetch EXCEPT ![k].idles = @ \ {p},
                                       ![k].moved = @ \/ noops \cup send # {}]
             /\ IF send = {}
                THEN UNCHANGED <<pend, busy, net, err>>
                ELSE /\ pend' = [pend EXCEPT ![k][p] = send]
                     /\ busy' = [busy EXCEPT ![k] = @ \cup {p}]
                     /\ net' = [net EXCEPT ![k][p] = IF p \in peers THEN Append(@, send) ELSE @]
                     /\ err' = IF p \in busy[k] THEN "panic" ELSE err

\* ShouldThrottleBlocks, ShouldThrottleReceipts.
Throttle(k) == NumAsked(k) >= CacheLimit - Cardinality(done[k])

Assign(k, p) ==
    /\ Running /\ fetch[k].pc = "assign" /\ p \in fetch[k].idles
    /\ CASE Throttle(k) ->
              /\ fetch' = [fetch EXCEPT ![k].idles = {}, ![k].moved = TRUE]
              /\ UNCHANGED <<tasks, busy, net, wake, err>>
         [] ~Throttle(k) /\ Queued(k) = {} ->
              /\ fetch' = [fetch EXCEPT ![k].idles = {}]
              /\ UNCHANGED <<tasks, busy, net, wake, err>>
         [] ~Throttle(k) /\ Queued(k) # {} /\ pend[k][p] # {} ->
              /\ fetch' = [fetch EXCEPT ![k].idles = @ \ {p}]
              /\ UNCHANGED <<tasks, busy, net, wake, err>>
         [] OTHER -> Reserve(k, p)
    /\ UNCHANGED <<headers, offset, lacking, peers, closed, processor, out, history>>

\* All peers were tried and none of them helps: give up.
EndAssign(k) ==
    /\ Running /\ fetch[k].pc = "assign" /\ fetch[k].idles = {}
    /\ IF ~fetch[k].moved /\ fetch[k].allIdle /\ Queued(k) # {}
       THEN err' = "peersUnavailable" /\ UNCHANGED fetch
       ELSE fetch' = [fetch EXCEPT ![k] = Selecting] /\ UNCHANGED err
    /\ UNCHANGED <<headers, tasks, offset, lacking, busy, peers, net, closed, wake,
                   processor, out, history>>

-----------------------------------------------------------------------------
(* The delivery case of fetchParts. *)

\* The items of a reply that match the headers of the request, position by
\* position and up to the first that does not.
Matching(req, reply) ==
    {b \in req \cap reply : {c \in req : c < b} = {c \in reply : c < b}}

\* A header that deliver gets to, for which there is no room in the cache.
Uncached(req, reply) ==
    \E b \in req :
        /\ {c \in req : c < b} \subseteq Matching(req, reply)
        /\ Cardinality({c \in req : c < b}) < Cardinality(reply)
        /\ ~InCache(b) \/ cache[b] = Nil

\* Mutant of Accept: the processor is not woken.
AcceptSilent(k, p, good) ==
    /\ pend' = [pend EXCEPT ![k][p] = {}]
    /\ taskQueue' = [taskQueue EXCEPT ![k] = Pushed(@, pend[k][p] \ good)]
    /\ done' = [done EXCEPT ![k] = @ \cup good]
    /\ cache' = [b \in Block |->
            IF b \in good
            THEN [pending |-> cache[b].pending - 1, parts |-> cache[b].parts \cup {k}]
            ELSE cache[b]]
    /\ wake' = wake

\* The matching items complete their results, the other tasks are queued again.
Accept(k, p, good) ==
    /\ pend' = [pend EXCEPT ![k][p] = {}]
    /\ taskQueue' = [taskQueue EXCEPT ![k] = Pushed(@, pend[k][p] \ good)]
    /\ done' = [done EXCEPT ![k] = @ \cup good]
    /\ cache' = [b \in Block |->
            IF b \in good
            THEN [pending |-> cache[b].pending - 1, parts |-> cache[b].parts \cup {k}]
            ELSE cache[b]]
    /\ wake' = (wake \/ good # {})

\* A reply to the i-th request that p has not answered arrives: any part of it.
Deliver(k, p, i, reply) ==
    LET req == pend[k][p]
        good == Matching(req, reply)
        isStale == good = {} /\ reply # {}
    IN  /\ Running /\ fetch[k].pc = "select"
        /\ i \in DOMAIN net[k][p] /\ reply \subseteq net[k][p][i]
        /\ net' = [net EXCEPT ![k][p] = Without(@, i)]
        /\ CASE p \notin peers ->
                  UNCHANGED <<tasks, lacking, busy, err, wake, stale>>
             [] p \in peers /\ req = {} ->
                  /\ busy' = [busy EXCEPT ![k] = @ \ {p}]
                  /\ UNCHANGED <<tasks, lacking, err, wake, stale>>
             [] p \in peers /\ req # {} /\ Uncached(req, reply) ->
                  /\ err' = "invalidChain"
                  /\ UNCHANGED <<tasks, lacking, busy, wake, stale>>
             [] OTHER ->
                  /\ Accept(k, p, good)
                  /\ lacking' = [lacking EXCEPT ![p] = IF reply = {} THEN @ \cup req ELSE @]
                  /\ busy' = [busy EXCEPT ![k] = IF isStale THEN @ ELSE @ \ {p}]
                  /\ stale' = (stale \/ isStale)
                  /\ UNCHANGED err
        /\ UNCHANGED <<headers, offset, peers, fetch, closed, processor, out, faults>>

-----------------------------------------------------------------------------
(* The processor. *)

\* spawnSync closes the queue when the fetchers have returned, or one of them failed.
Close ==
    /\ ~closed
    /\ ~Running \/ \A k \in Kind : fetch[k].pc = "done"
    /\ closed' = TRUE /\ wake' = TRUE
    /\ UNCHANGED <<headers, tasks, offset, lacking, busy, peers, net, fetch, err,
                   processor, out, history>>

\* countProcessableItems stops at an incomplete result, and at the pivot as long as
\* the ForceVerify blocks behind it are not in the cache.
Processable(b) ==
    /\ b \in Block /\ InCache(b) /\ cache[b] # Nil /\ cache[b].pending <= 0
    /\ b = Pivot =>
        \A j \in 1..ForceVerify : InCache(b + j) /\ cache[b + j] # Nil

IsCount(n) ==
    /\ \A i \in 0..(n - 1) : Processable(offset + i)
    /\ ~Processable(offset + n)

TakeResults(n) ==
    LET taken == offset..(offset + n - 1)
    IN  /\ out' = out \o [i \in 1..n |-> [number |-> offset + i - 1,
                                          parts |-> cache[offset + i - 1].parts]]
        /\ done' = [k \in Kind |-> done[k] \ taken]
        /\ cache' = [b \in Block |-> IF b \in taken THEN Nil ELSE cache[b]]
        /\ offset' = offset + n

WaitResults ==
    /\ processor = "running" /\ wake
    /\ \E n \in 0..CacheLimit :
        /\ IsCount(n)
        /\ IF n > 0
           THEN TakeResults(n) /\ UNCHANGED <<wake, processor>>
           ELSE /\ IF closed
                   THEN processor' = "returned" /\ UNCHANGED wake
                   ELSE wake' = FALSE /\ UNCHANGED processor
                /\ UNCHANGED <<out, done, cache, offset>>
    /\ UNCHANGED <<headers, taskQueue, pend, lacking, busy, peers, net, fetch, err,
                   closed, history>>

Answered(k, p) ==
    \E i \in DOMAIN net[k][p] : \E reply \in SUBSET net[k][p][i] : Deliver(k, p, i, reply)

Next ==
    \/ Schedule \/ HeadersDone \/ Close \/ WaitResults
    \/ \E p \in Peer : Disconnect(p)
    \/ \E k \in Kind :
        \/ BeginAssign(k) \/ EndAssign(k)
        \/ \E p \in Peer :
            \/ Expire(k, p) \/ Assign(k, p) \/ Answered(k, p)
            \/ \E i \in DOMAIN net[k][p] : NoAnswer(k, p, i)

\* The goroutines keep running, and a request is answered unless its reply is lost.
Fairness ==
    /\ WF_vars(Schedule \/ HeadersDone) /\ WF_vars(Close) /\ WF_vars(WaitResults)
    /\ \A k \in Kind :
        /\ SF_vars(BeginAssign(k) \/ EndAssign(k) \/ \E p \in Peer : Assign(k, p))
        /\ SF_vars(\E p \in Peer : Answered(k, p))
        /\ SF_vars(\E p \in Peer : Expire(k, p))

Spec == Init /\ [][Next]_vars /\ Fairness

-----------------------------------------------------------------------------
Fetching == [pc : {"select", "update", "assign", "done"}, idles : SUBSET Peer,
             allIdle : BOOLEAN, moved : BOOLEAN]

TypeOK ==
    /\ scheduled \in 0..Height /\ offset \in Nat \ {0}
    /\ taskQueue \in [Kind -> [Block -> Nat]]
    /\ pend \in [Kind -> [Peer -> SUBSET Block]]
    /\ done \in [Kind -> SUBSET Block]
    /\ cache \in [Block -> [pending : -1..2, parts : SUBSET Kind]]
    /\ busy \in [Kind -> SUBSET Peer] /\ peers \subseteq Peer
    /\ fetch \in [Kind -> Fetching]
    /\ err \in {"none", "noPeers", "peersUnavailable", "cancelled", "invalidChain", "panic"}
    /\ headersDone \in BOOLEAN /\ closed \in BOOLEAN
    /\ processor \in {"running", "returned"}

(* While the synchronisation runs, every part that was scheduled is in exactly *)
(* one place: queued once, asked of one peer, done, or handed out.             *)
TaskOnce ==
    Running => \A k \in Kind, b \in Block :
        taskQueue[k][b]
          + Cardinality({p \in Peer : b \in pend[k][p]})
          + (IF b \in done[k] \/ (Wanted(k, b) /\ b < offset) THEN 1 ELSE 0)
        = IF b <= scheduled /\ Wanted(k, b) THEN 1 ELSE 0

(* The checks that reserveHeaders, deliver and fetchParts make on the state of *)
(* the queue itself (errInvalidChain, "fetch assignment failed") never fire.   *)
NoInternalError == err \notin {"invalidChain", "panic"}

(* The processor gets the blocks in order, each once and complete, and a       *)
(* synchronisation that ends without an error has handed out all of them.      *)
Stream == INSTANCE BlockStream WITH
    outcome <- CASE processor = "running" -> "running"
                 [] processor = "returned" /\ err = "none" -> "success"
                 [] OTHER -> "failure"

StreamSpec == Stream!Spec

(* The synchronisation comes to an end, with or without an error, although     *)
(* replies are late or lost and peers are dropped. Left out is a stale          *)
(* delivery: it leaves its peer marked as busy without a request, and if that   *)
(* happens to every peer the loop waits for good.                               *)
SyncEnds == <>(processor = "returned" \/ stale)
=============================================================================
