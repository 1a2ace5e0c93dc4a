-------------------------- MODULE DownloadQueueInv --------------------------
(***************************************************************************)
(* An inductive invariant of DownloadQueue, and the proof that everything  *)
(* but the arrival of replies and the work of the processor preserves it   *)
(* (for these see DownloadQueueProof).                                     *)
(***************************************************************************)
EXTENDS DownloadQueue, FiniteSetTheorems, TLAPS

(* Where the part of kind k of block b is: in one place at most, and in some *)
(* place exactly if it is wanted, scheduled and not yet handed out.          *)
Placed(k, b) ==
    /\ taskQueue[k][b] \in {0, 1}
    /\ taskQueue[k][b] = 1 => b \notin done[k] /\ \A p \in Peer : b \notin pend[k][p]
    /\ \A p, q \in Peer : b \in pend[k][p] /\ b \in pend[k][q] => p = q
    /\ \A p \in Peer :
          b \in pend[k][p] => b \notin done[k] /\ cache[b] # Nil /\ ~IsNoop(k, b)
    /\ b \in done[k] => cache[b] # Nil
    /\ (taskQueue[k][b] = 1 \/ b \in done[k] \/ \E p \in Peer : b \in pend[k][p])
          <=> (Wanted(k, b) /\ b \in offset..scheduled)

Missing(b) ==
    (IF b \in done["body"] THEN 0 ELSE 1)
      + (IF b <= Pivot /\ b \notin done["receipts"] THEN 1 ELSE 0)

Got(b) == {k \in Kind : b \in done[k] /\ ~IsNoop(k, b)}

(* A result counts the parts it still misses and holds those it got. *)
Cached(b) ==
    cache[b] # Nil => /\ InCache(b)
                      /\ cache[b].pending = Missing(b)
                      /\ cache[b].parts = Got(b)

Places == \A k \in Kind, b \in Block : Placed(k, b)
Results == \A b \in Block : Cached(b)

(* What was handed out so far is the beginning of the stream. *)
HandedOut ==
    /\ offset <= scheduled + 1
    /\ out = [i \in 1..(offset - 1) |-> [number |-> i, parts |-> Content(i)]]

(* A loop that returned has nothing left to fetch, and without an error the  *)
(* processor returns only after the last block.                              *)
Ends ==
    /\ headersDone => scheduled = Height
    /\ \A k \in Kind :
          /\ fetch[k].idles \cap busy[k] = {}
          /\ fetch[k].pc = "done" =>
                /\ headersDone
                /\ \A b \in Block : taskQueue[k][b] = 0
                /\ \A p \in Peer : pend[k][p] = {}
    /\ closed /\ Running => \A k \in Kind : fetch[k].pc = "done"
    /\ processor = "returned" => closed /\ (Running => offset = Height + 1)

IInv == TypeOK /\ Places /\ Results /\ HandedOut /\ Ends /\ NoInternalError

-----------------------------------------------------------------------------
LEMMA InitIInv == Init => IInv
<1> SUFFICES ASSUME Init PROVE IInv
  OBVIOUS
<1> USE SizeAssumption, PeerAssumption DEF Kind, Block
<1>1. TypeOK
  <2>1. Selecting \in Fetching
    BY DEF Selecting, Fetching
  <2>2. Nil \in [pending : -1..2, parts : SUBSET Kind]
    BY DEF Nil
  <2>3. cache \in [Block -> [pending : -1..2, parts : SUBSET Kind]] /\ fetch \in [Kind -> Fetching]
    BY <2>1, <2>2 DEF Init
  <2>4. /\ taskQueue \in [Kind -> [Block -> Nat]] /\ pend \in [Kind -> [Peer -> SUBSET Block]]
        /\ done \in [Kind -> SUBSET Block] /\ busy \in [Kind -> SUBSET Peer]
    BY DEF Init
  <2>5. scheduled \in 0..Height /\ offset \in Nat \ {0} /\ peers \subseteq Peer
    BY DEF Init
  <2> QED
    BY <2>3, <2>4, <2>5, ZenonT(40) DEF Init, TypeOK
<1>2. Places
  BY DEF Init, Places, Placed, Nil
<1>3. Results
  BY DEF Init, Results, Cached
<1>4. HandedOut
  BY SMT DEF Init, HandedOut
<1>5. Ends /\ NoInternalError
  BY DEF Init, Ends, Selecting, NoInternalError, Running
<1> QED
  BY <1>1, <1>2, <1>3, <1>4, <1>5 DEF IInv

(* A step that changes neither tasks nor results keeps them in order. *)
LEMMA Unchanged ==
    ASSUME IInv, UNCHANGED <<tasks, scheduled, offset>>
    PROVE  Places' /\ Results'
<1>1. Places'
  BY DEF IInv, Places, Placed, tasks
<1>2. Results'
  BY DEF IInv, Results, Cached, InCache, Missing, Got, tasks
<1> QED
  BY <1>1, <1>2

LEMMA ScheduleIInv == IInv /\ Schedule => IInv'
<1> SUFFICES ASSUME IInv, Schedule PROVE IInv'
  OBVIOUS
<1> USE SizeAssumption, PeerAssumption DEF Kind, Block
<1>1. TypeOK /\ Places /\ Results /\ HandedOut /\ Ends /\ NoInternalError
  BY DEF IInv
<1>2. PICK n \in Nat :
        /\ scheduled < n /\ n <= Height
        /\ scheduled' = n
        /\ taskQueue' = [k \in Kind |->
              Pushed(taskQueue[k], {b \in (scheduled + 1)..n : Wanted(k, b)})]
  <2>1. PICK n \in {scheduled + Batch, Height} :
          /\ n <= scheduled + Batch /\ n <= Height
          /\ scheduled' = n
          /\ taskQueue' = [k \in Kind |->
                Pushed(taskQueue[k], {b \in (scheduled + 1)..n : Wanted(k, b)})]
    BY Zenon DEF Schedule
  <2>2. n \in Nat /\ scheduled < n
    BY <1>1, <2>1 DEF TypeOK, Schedule
  <2> QED
    BY <2>1, <2>2, ZenonT(30)
<1>3. UNCHANGED <<headersDone, pend, done, cache, offset, busy, peers, fetch, err, closed,
                  processor, out>>
  BY DEF Schedule, history
<1>4. TypeOK'
  BY <1>1, <1>2, <1>3, SMTT(30) DEF TypeOK, Pushed
<1>5. Places'
  <2> SUFFICES ASSUME NEW k \in Kind, NEW b \in Block PROVE Placed(k, b)'
    BY DEF Places
  <2>1. Placed(k, b)
    BY <1>1 DEF Places
  <2>2. taskQueue'[k][b] =
          taskQueue[k][b] + (IF b \in (scheduled + 1)..n /\ Wanted(k, b) THEN 1 ELSE 0)
    BY <1>2 DEF Pushed
  <2>3. CASE b \in (scheduled + 1)..n /\ Wanted(k, b)
    BY <2>1, <2>2, <2>3, <1>1, <1>2, <1>3 DEF Placed, TypeOK, HandedOut
  <2>4. CASE ~(b \in (scheduled + 1)..n /\ Wanted(k, b))
    BY <2>1, <2>2, <2>4, <1>1, <1>2, <1>3 DEF Placed, TypeOK, Wanted
  <2> QED
    BY <2>3, <2>4
<1>6. Results'
  BY <1>1, <1>3, Zenon DEF Results, Cached, InCache, Missing, Got
<1>7. HandedOut'
  BY <1>1, <1>2, <1>3 DEF HandedOut, TypeOK
<1>8. Ends'
  <2>1. ~headersDone
    BY <1>1, <1>2 DEF Ends, TypeOK
  <2> QED
    BY <1>1, <1>3, <2>1, SMTT(30) DEF Ends, Running, Schedule
<1>9. NoInternalError'
  BY <1>1, <1>3 DEF NoInternalError
<1> QED
  BY <1>4, <1>5, <1>6, <1>7, <1>8, <1>9 DEF IInv

LEMMA HeadersDoneIInv == IInv /\ HeadersDone => IInv'
<1> SUFFICES ASSUME IInv, HeadersDone PROVE IInv'
  OBVIOUS
<1>1. TypeOK /\ HandedOut /\ Ends /\ NoInternalError
  BY DEF IInv
<1>2. UNCHANGED <<tasks, scheduled, offset>>
  BY DEF HeadersDone
<1>3. TypeOK' /\ HandedOut' /\ NoInternalError'
  BY <1>1 DEF HeadersDone, tasks, TypeOK, HandedOut, NoInternalError
<1>4. Ends'
  BY <1>1 DEF HeadersDone, tasks, Ends, Running
<1> QED
  BY <1>2, <1>3, <1>4, Unchanged DEF IInv

-----------------------------------------------------------------------------
(* A task that leaves the request of a peer is done or queued again; the     *)
(* tasks of a kind that nobody touches stay where they are.                  *)
LEMMA GiveBack ==
    ASSUME IInv, NEW k \in Kind, NEW p \in Peer, NEW good \in SUBSET pend[k][p],
           taskQueue'[k] = Pushed(taskQueue[k], pend[k][p] \ good),
           pend'[k] = [pend[k] EXCEPT ![p] = {}],
           done'[k] = done[k] \cup good,
           \A b \in Block : cache[b] # Nil => cache'[b] # Nil,
           scheduled' = scheduled, offset' = offset
    PROVE  \A b \in Block : Placed(k, b)'
<1> SUFFICES ASSUME NEW b \in Block PROVE Placed(k, b)'
  OBVIOUS
<1>1. TypeOK /\ Placed(k, b)
  BY DEF IInv, Places
<1>2. taskQueue'[k][b] = taskQueue[k][b] + (IF b \in pend[k][p] \ good THEN 1 ELSE 0)
  BY DEF Pushed
<1>3. \A q \in Peer : pend'[k][q] = IF q = p THEN {} ELSE pend[k][q]
  BY <1>1 DEF TypeOK
<1>4. Nil' = Nil
  BY DEF Nil
<1>5. CASE b \in good
  BY <1>1, <1>2, <1>3, <1>4, <1>5, SMTT(30) DEF Placed, TypeOK
<1>6. CASE b \in pend[k][p] \ good
  BY <1>1, <1>2, <1>3, <1>4, <1>6, SMTT(30) DEF Placed, TypeOK
<1>7. CASE b \notin pend[k][p]
  BY <1>1, <1>2, <1>3, <1>4, <1>7, SMTT(30) DEF Placed, TypeOK
<1> QED
  BY <1>5, <1>6, <1>7

LEMMA LeftAlone ==
    ASSUME IInv, NEW k \in Kind,
           taskQueue'[k] = taskQueue[k], pend'[k] = pend[k], done'[k] = done[k],
           \A b \in Block : cache[b] # Nil => cache'[b] # Nil,
           scheduled' = scheduled, offset' = offset
    PROVE  \A b \in Block : Placed(k, b)'
<1> SUFFICES ASSUME NEW b \in Block PROVE Placed(k, b)'
  OBVIOUS
<1>1. Placed(k, b) /\ Nil' = Nil
  BY DEF IInv, Places, Nil
<1> QED
  BY <1>1, Zenon DEF Placed

LEMMA RevokeIInv ==
    ASSUME IInv, NEW p \in Peer, Revoke(p), UNCHANGED <<scheduled, offset, done, cache>>
    PROVE  /\ Places' /\ Results'
           /\ taskQueue' \in [Kind -> [Block -> Nat]]
           /\ pend' \in [Kind -> [Peer -> SUBSET Block]]
           /\ \A k \in Kind : (\A q \in Peer : pend[k][q] = {}) =>
                 taskQueue'[k] = taskQueue[k] /\ pend'[k] = pend[k]
<1>1. TypeOK /\ Results
  BY DEF IInv
<1>2. Places'
  <2> SUFFICES ASSUME NEW k \in Kind PROVE \A b \in Block : Placed(k, b)'
    BY DEF Places
  <2>1. pend[k][p] \ {} = pend[k][p] /\ {} \in SUBSET pend[k][p]
    OBVIOUS
  <2>2. taskQueue'[k] = Pushed(taskQueue[k], pend[k][p] \ {})
    BY <2>1 DEF Revoke
  <2>3. pend'[k] = [pend[k] EXCEPT ![p] = {}]
    BY DEF Revoke
  <2>4. done'[k] = done[k] \cup {} /\ \A b \in Block : cache[b] # Nil => cache'[b] # Nil
    OBVIOUS
  <2> QED
    BY <2>1, <2>2, <2>3, <2>4, GiveBack, ZenonT(30)
<1>3. Results'
  BY <1>1 DEF Results, Cached, InCache, Missing, Got
<1>4. /\ taskQueue' \in [Kind -> [Block -> Nat]]
      /\ pend' \in [Kind -> [Peer -> SUBSET Block]]
  BY <1>1 DEF Revoke, Pushed, TypeOK
<1>5. ASSUME NEW k \in Kind, \A q \in Peer : pend[k][q] = {}
      PROVE  taskQueue'[k] = taskQueue[k] /\ pend'[k] = pend[k]
  BY <1>1, <1>5 DEF Revoke, Pushed, TypeOK
<1> QED
  BY <1>2, <1>3, <1>4, <1>5

LEMMA DisconnectIInv == ASSUME NEW p \in Peer PROVE IInv /\ Disconnect(p) => IInv'
<1> SUFFICES ASSUME IInv, Disconnect(p) PROVE IInv'
  OBVIOUS
<1>1. TypeOK /\ HandedOut /\ Ends /\ NoInternalError
  BY DEF IInv
<1>2. Revoke(p) /\ UNCHANGED <<scheduled, offset, done, cache>>
  BY DEF Disconnect, UnregisterPeer, headers
<1>3. /\ Places' /\ Results'
      /\ taskQueue' \in [Kind -> [Block -> Nat]]
      /\ pend' \in [Kind -> [Peer -> SUBSET Block]]
      /\ \A k \in Kind : (\A q \in Peer : pend[k][q] = {}) =>
            taskQueue'[k] = taskQueue[k] /\ pend'[k] = pend[k]
  BY <1>2, RevokeIInv
<1>4. TypeOK'
  BY <1>1, <1>3 DEF Disconnect, UnregisterPeer, headers, TypeOK
<1>5. HandedOut' /\ NoInternalError'
  BY <1>1 DEF Disconnect, UnregisterPeer, headers, HandedOut, NoInternalError
<1>6. Ends'
  BY <1>1, <1>3 DEF Disconnect, UnregisterPeer, headers, Ends, Running
<1> QED
  BY <1>3, <1>4, <1>5, <1>6 DEF IInv

LEMMA NoAnswerIInv ==
    ASSUME NEW k \in Kind, NEW p \in Peer, NEW i
    PROVE  IInv /\ NoAnswer(k, p, i) => IInv'
<1> SUFFICES ASSUME IInv, NoAnswer(k, p, i) PROVE IInv'
  OBVIOUS
<1>1. TypeOK /\ HandedOut /\ Ends /\ NoInternalError
  BY DEF IInv
<1>2. UNCHANGED <<tasks, scheduled, offset>>
  BY DEF NoAnswer, headers
<1>3. TypeOK' /\ HandedOut' /\ NoInternalError'
  BY <1>1 DEF NoAnswer, headers, tasks, TypeOK, HandedOut, NoInternalError
<1>4. Ends'
  BY <1>1 DEF NoAnswer, headers, tasks, Ends, Running
<1> QED
  BY <1>2, <1>3, <1>4, Unchanged DEF IInv

-----------------------------------------------------------------------------
(* The update case of fetchParts. *)

LEMMA ExpireIInv ==
    ASSUME NEW k \in Kind, NEW p \in Peer PROVE IInv /\ Expire(k, p) => IInv'
<1> SUFFICES ASSUME IInv, Expire(k, p) PROVE IInv'
  OBVIOUS
<1>1. TypeOK /\ Results /\ HandedOut /\ Ends /\ NoInternalError
  BY DEF IInv
<1>2. /\ Running /\ fetch[k].pc \in {"select", "update"}
      /\ fetch' = [fetch EXCEPT ![k].pc = "update"]
      /\ UNCHANGED <<scheduled, headersDone, done, cache, offset, closed, processor, out>>
  BY DEF Expire, headers
<1>3. ~closed /\ processor # "returned"
  BY <1>1, <1>2 DEF Ends
<1>4. fetch' \in [Kind -> Fetching]
  BY <1>1, <1>2, ZenonT(40) DEF TypeOK, Fetching
<1> DEFINE Loops == \A j \in Kind : /\ fetch'[j].idles = fetch[j].idles
                                   /\ fetch'[j].pc = "done" => fetch[j].pc = "done"
<1>5. Loops
  BY <1>1, <1>2 DEF TypeOK, Fetching
<1> HIDE DEF Loops
<1>6. CASE UnregisterPeer(p) /\ UNCHANGED busy
  <2>1. Revoke(p) /\ peers' = peers \ {p} /\ err' \in {err, "cancelled"}
    BY <1>6 DEF UnregisterPeer
  <2>2. /\ Places' /\ Results'
        /\ taskQueue' \in [Kind -> [Block -> Nat]]
        /\ pend' \in [Kind -> [Peer -> SUBSET Block]]
        /\ \A j \in Kind : (\A q \in Peer : pend[j][q] = {}) =>
              taskQueue'[j] = taskQueue[j] /\ pend'[j] = pend[j]
    BY <1>2, <2>1, RevokeIInv
  <2>3. TypeOK'
    BY <1>1, <1>2, <1>4, <1>6, <2>1, <2>2 DEF TypeOK
  <2>4. HandedOut' /\ NoInternalError'
    BY <1>1, <1>2, <2>1 DEF HandedOut, NoInternalError
  <2>5. Ends'
    BY <1>1, <1>2, <1>3, <1>6, <1>5, <2>1, <2>2 DEF Ends, Loops
  <2> QED
    BY <2>2, <2>3, <2>4, <2>5 DEF IInv
<1>7. CASE /\ taskQueue' = [taskQueue EXCEPT ![k] = Pushed(@, pend[k][p])]
           /\ pend' = [pend EXCEPT ![k][p] = {}]
           /\ busy' = [busy EXCEPT ![k] = IF p \in peers THEN @ \ {p} ELSE @]
           /\ UNCHANGED <<peers, err>>
  <2>1. pend[k][p] \ {} = pend[k][p] /\ {} \in SUBSET pend[k][p] /\ done'[k] = done[k] \cup {}
    BY <1>2
  <2>2. /\ taskQueue'[k] = Pushed(taskQueue[k], pend[k][p] \ {})
        /\ pend'[k] = [pend[k] EXCEPT ![p] = {}]
    BY <1>1, <1>7, <2>1 DEF TypeOK
  <2>3. \A b \in Block : Placed(k, b)'
    BY <1>2, <2>1, <2>2, GiveBack, ZenonT(30)
  <2>4. ASSUME NEW j \in Kind \ {k}
        PROVE  taskQueue'[j] = taskQueue[j] /\ pend'[j] = pend[j]
    BY <1>1, <1>7 DEF TypeOK
  <2>5. ASSUME NEW j \in Kind \ {k} PROVE \A b \in Block : Placed(j, b)'
    BY <1>2, <2>4, LeftAlone
  <2>6. Places'
    BY <2>3, <2>5 DEF Places
  <2>7. Results'
    BY <1>1, <1>2 DEF Results, Cached, InCache, Missing, Got
  <2>8. TypeOK'
    BY <1>1, <1>2, <1>4, <1>7 DEF TypeOK, Pushed
  <2>9. HandedOut' /\ NoInternalError'
    BY <1>1, <1>2, <1>7 DEF HandedOut, NoInternalError
  <2>10. Ends'
    BY <1>1, <1>2, <1>3, <1>7, <1>5, <2>4 DEF Ends, Loops, TypeOK
  <2> QED
    BY <2>6, <2>7, <2>8, <2>9, <2>10 DEF IInv
<1> QED
  BY <1>6, <1>7 DEF Expire

LEMMA BeginAssignIInv ==
    ASSUME NEW k \in Kind PROVE IInv /\ BeginAssign(k) => IInv'
<1> SUFFICES ASSUME IInv, BeginAssign(k) PROVE IInv'
  OBVIOUS
<1>1. TypeOK /\ HandedOut /\ Ends /\ NoInternalError
  BY DEF IInv
<1>2. /\ Running /\ fetch[k].pc \in {"select", "update"}
      /\ UNCHANGED <<tasks, scheduled, headersDone, offset, busy, peers, closed, processor, out>>
      /\ err' \in {err, "noPeers"}
  BY DEF BeginAssign, headers
<1>3. ~closed /\ processor # "returned"
  BY <1>1, <1>2 DEF Ends
<1>4. HandedOut' /\ NoInternalError'
  BY <1>1, <1>2 DEF HandedOut, NoInternalError
<1>5. CASE UNCHANGED fetch
  <2>1. TypeOK'
    BY <1>1, <1>2, <1>5, Zenon DEF TypeOK, tasks
  <2>2. Ends'
    BY <1>1, <1>2, <1>3, <1>5, Zenon DEF Ends, tasks
  <2> QED
    BY <1>2, <1>4, <2>1, <2>2, Unchanged DEF IInv
<1>6. ASSUME NEW f \in Fetching, fetch' = [fetch EXCEPT ![k] = f],
             f.idles \cap busy[k] = {},
             f.pc = "done" => headersDone /\ Queued(k) = {} /\ ~InFlight(k)
      PROVE  IInv'
  <2>1. TypeOK'
    BY <1>1, <1>2, <1>6, Zenon DEF TypeOK, tasks
  <2>2. \A j \in Kind \ {k} : fetch'[j] = fetch[j]
    BY <1>1, <1>6 DEF TypeOK
  <2>3. fetch'[k] = f
    BY <1>1, <1>6 DEF TypeOK
  <2>4. f.pc = "done" => /\ headersDone
                         /\ \A b \in Block : taskQueue[k][b] = 0
                         /\ \A p \in Peer : pend[k][p] = {}
    BY <1>1, <1>6 DEF Queued, InFlight, TypeOK
  <2>5. Ends'
    BY <1>1, <1>2, <1>3, <1>6, <2>2, <2>3, <2>4, Zenon DEF Ends, tasks
  <2> QED
    BY <1>2, <1>4, <2>1, <2>5, Unchanged, Zenon DEF IInv
<1>7. fetch[k] \in Fetching /\ Selecting \in Fetching /\ fetch[k].idles \cap busy[k] = {}
  BY <1>1, Zenon DEF TypeOK, Ends, Selecting, Fetching
<1> DEFINE over == [fetch[k] EXCEPT !.pc = "done"]
           go == [fetch[k] EXCEPT !.pc = "assign", !.idles = peers \ busy[k],
                                  !.allIdle = (peers \ busy[k] = peers), !.moved = InFlight(k)]
<1>8. over \in Fetching /\ over.idles = fetch[k].idles
  BY <1>7, Zenon DEF Fetching
<1>9. go \in Fetching /\ go.pc = "assign" /\ go.idles = peers \ busy[k]
  BY <1>1, <1>7, ZenonT(40) DEF Fetching, InFlight, TypeOK
<1>10. CASE fetch' = [fetch EXCEPT ![k] = over] /\ headersDone /\ Queued(k) = {} /\ ~InFlight(k)
  <2> HIDE DEF over
  <2> QED
    BY <1>6, <1>7, <1>8, <1>10, ZenonT(30)
<1>11. CASE fetch' = [fetch EXCEPT ![k] = Selecting]
  BY <1>6, <1>7, <1>11, ZenonT(30) DEF Selecting
<1>12. CASE fetch' = [fetch EXCEPT ![k] = go]
  <2> HIDE DEF go
  <2> QED
    BY <1>6, <1>9, <1>12, ZenonT(40)
<1> QED
  BY <1>5, <1>10, <1>11, <1>12 DEF BeginAssign

LEMMA EndAssignIInv ==
    ASSUME NEW k \in Kind PROVE IInv /\ EndAssign(k) => IInv'
<1> SUFFICES ASSUME IInv, EndAssign(k) PROVE IInv'
  OBVIOUS
<1>1. TypeOK /\ HandedOut /\ Ends /\ NoInternalError
  BY DEF IInv
<1>2. /\ Running /\ fetch[k].pc = "assign" /\ err' \in {err, "peersUnavailable"}
      /\ UNCHANGED <<tasks, scheduled, headersDone, offset, busy, peers, closed, processor, out>>
      /\ fetch' \in {fetch, [fetch EXCEPT ![k] = Selecting]}
  BY DEF EndAssign, headers
<1>3. ~closed /\ processor # "returned"
  BY <1>1, <1>2 DEF Ends
<1>4. HandedOut' /\ NoInternalError'
  BY <1>1, <1>2 DEF HandedOut, NoInternalError
<1>5. Selecting \in Fetching /\ Selecting.idles = {} /\ Selecting.pc = "select"
  BY DEF Selecting, Fetching
<1>6. TypeOK'
  BY <1>1, <1>2, <1>5, ZenonT(40) DEF TypeOK, tasks
<1>7. \A j \in Kind : fetch'[j] = fetch[j] \/ fetch'[j] = Selecting
  BY <1>1, <1>2 DEF TypeOK
<1>8. Ends'
  BY <1>1, <1>2, <1>3, <1>5, <1>7 DEF Ends, tasks
<1> QED
  BY <1>2, <1>4, <1>6, <1>8, Unchanged DEF IInv

-----------------------------------------------------------------------------
(* What reserveHeaders pops has room in the cache: the blocks below it that  *)
(* were not handed out are done, asked of a peer or lower in the queue, and  *)
(* the loop counts all of them.                                              *)
LEMMA PoppedInCache ==
    ASSUME IInv, NEW k \in Kind, NEW p \in Peer, NEW b \in Popped(k, p)
    PROVE  InCache(b)
<1> USE SizeAssumption, PeerAssumption
<1> DEFINE before == {c \in Queued(k) : c < b}
           pairs == {x \in Peer \X Block : x[2] \in pend[k][x[1]]}
           asked == {c \in Block : \E q \in Peer : c \in pend[k][q]}
           below == offset..(b - 1)
<1>1. TypeOK /\ Places
  BY DEF IInv
<1>2. b \in Queued(k) /\ Cardinality(before) < CacheLimit - Cardinality(done[k]) - Cardinality(pairs)
  BY DEF Popped, Space, NumAsked
<1>3. b \in Block /\ taskQueue[k][b] = 1 /\ Wanted(k, b) /\ b \in offset..scheduled
  <2>1. b \in Block /\ taskQueue[k][b] > 0
    BY <1>2 DEF Queued
  <2> QED
    BY <1>1, <2>1 DEF Places, Placed
<1>4. below \subseteq before \cup (done[k] \cup asked)
  <2> SUFFICES ASSUME NEW c \in below, c \notin done[k], c \notin asked PROVE c \in before
    OBVIOUS
  <2>1. c \in Block /\ c \in offset..scheduled /\ Wanted(k, c) /\ c < b
    <3>1. offset \in Nat \ {0} /\ scheduled \in 0..Height
      BY <1>1 DEF TypeOK
    <3> QED
      BY <1>3, <3>1 DEF Block, Wanted
  <2>2. taskQueue[k][c] = 1
    BY <1>1, <2>1 DEF Places, Placed
  <2> QED
    BY <2>1, <2>2 DEF Queued
<1>5. IsFiniteSet(Block) /\ IsFiniteSet(before) /\ IsFiniteSet(done[k]) /\ IsFiniteSet(asked)
  <2>1. IsFiniteSet(Block)
    BY FS_Interval DEF Block
  <2>2. before \subseteq Block /\ done[k] \subseteq Block /\ asked \subseteq Block
    BY <1>1 DEF Queued, TypeOK
  <2> QED
    BY <2>1, <2>2, FS_Subset
<1>6. IsFiniteSet(pairs) /\ Cardinality(asked) <= Cardinality(pairs)
  <2>1. IsFiniteSet(Peer \X Block)
    BY <1>5, FS_Product
  <2>2. pairs \subseteq Peer \X Block
    OBVIOUS
  <2>3. IsFiniteSet(pairs)
    BY <2>1, <2>2, FS_Subset, Zenon
  <2> DEFINE f == [x \in pairs |-> x[2]]
  <2>4. f \in Surjection(pairs, asked)
    <3>1. f \in [pairs -> asked]
      OBVIOUS
    <3>2. \A c \in asked : \E x \in pairs : f[x] = c
      <4> SUFFICES ASSUME NEW c \in asked PROVE \E x \in pairs : f[x] = c
        OBVIOUS
      <4>1. PICK q \in Peer : c \in pend[k][q]
        OBVIOUS
      <4>2. <<q, c>> \in pairs
        BY <4>1
      <4> QED
        BY <4>2
    <3> QED
      BY <3>1, <3>2, Zenon DEF Surjection
  <2> HIDE DEF pairs, asked, f
  <2> QED
    BY <2>3, <2>4, FS_Surjection
<1>7. Cardinality(below) = b - offset
  <2>1. offset \in Int /\ b \in Int /\ b - 1 \in Int /\ offset <= b
    BY <1>1, <1>3 DEF TypeOK, Block
  <2>2. \A m, n \in Int : Cardinality(m..n) = IF m > n THEN 0 ELSE n - m + 1
    BY FS_Interval, Zenon
  <2>3. Cardinality(below) = IF offset > b - 1 THEN 0 ELSE (b - 1) - offset + 1
    BY <2>1, <2>2, Zenon
  <2> QED
    BY <2>1, <2>3, SMT
<1>8. Cardinality(below) <= Cardinality(before) + (Cardinality(done[k]) + Cardinality(asked))
  <2> HIDE DEF before, pairs, asked, below
  <2>1. IsFiniteSet(done[k] \cup asked) /\ IsFiniteSet(before \cup (done[k] \cup asked))
    BY <1>5, FS_Union, ZenonT(30)
  <2>2. Cardinality(done[k] \cap asked) \in Nat /\ Cardinality(before \cap (done[k] \cup asked)) \in Nat
    BY <1>5, FS_Intersection, FS_CardinalityType, ZenonT(30)
  <2>3. /\ Cardinality(before) \in Nat /\ Cardinality(done[k]) \in Nat
        /\ Cardinality(asked) \in Nat /\ Cardinality(done[k] \cup asked) \in Nat
    BY <1>5, <2>1, FS_CardinalityType
  <2>4. Cardinality(below) <= Cardinality(before \cup (done[k] \cup asked))
    BY <1>4, <2>1, FS_Subset
  <2>5. Cardinality(done[k] \cup asked) <= Cardinality(done[k]) + Cardinality(asked)
    BY <1>5, <2>2, <2>3, FS_Union
  <2>6. Cardinality(before \cup (done[k] \cup asked))
          <= Cardinality(before) + Cardinality(done[k] \cup asked)
    <3> DEFINE rest == done[k] \cup asked
    <3> HIDE DEF rest
    <3>1. Cardinality(before \cup rest)
            = Cardinality(before) + Cardinality(rest) - Cardinality(before \cap rest)
      BY <1>5, <2>1, FS_Union DEF rest
    <3> QED
      BY <3>1, <2>2, <2>3 DEF rest
  <2>7. Cardinality(below) \in Nat /\ Cardinality(before \cup (done[k] \cup asked)) \in Nat
    BY <1>4, <2>1, FS_CardinalityType, FS_Subset
  <2> QED
    BY <2>4, <2>5, <2>6, <2>7, <2>3
<1>9. /\ Cardinality(before) \in Nat /\ Cardinality(done[k]) \in Nat
      /\ Cardinality(asked) \in Nat /\ Cardinality(pairs) \in Nat
  BY <1>5, <1>6, FS_CardinalityType
<1>10. b - offset < CacheLimit
  <2> HIDE DEF before, pairs, asked, below
  <2> QED
    BY <1>1, <1>2, <1>3, <1>6, <1>7, <1>8, <1>9, SMTT(30) DEF TypeOK, Block
<1> QED
  BY <1>1, <1>3, <1>10 DEF InCache, TypeOK, Block

(* The changes that reserveHeaders makes to the tasks of kind k: the parts   *)
(* that are empty are done, those that are sent belong to the peer.          *)
LEMMA ReservePlaces ==
    ASSUME IInv, NEW k \in Kind, NEW p \in Peer, pend[k][p] = {},
           NEW noops \in SUBSET Queued(k), NEW send \in SUBSET Queued(k),
           \A b \in noops : IsNoop(k, b), \A b \in send : ~IsNoop(k, b),
           taskQueue' = [taskQueue EXCEPT ![k] =
               [b \in Block |-> @[b] - (IF b \in noops \cup send THEN 1 ELSE 0)]],
           done' = [done EXCEPT ![k] = @ \cup noops],
           pend' = [pend EXCEPT ![k][p] = send],
           \A b \in Block : cache[b] # Nil => cache'[b] # Nil,
           \A b \in noops \cup send : cache'[b] # Nil,
           scheduled' = scheduled, offset' = offset
    PROVE  Places' /\ taskQueue' \in [Kind -> [Block -> Nat]]
<1>1. TypeOK /\ Places
  BY DEF IInv
<1>2. \A b \in Queued(k) : b \in Block /\ taskQueue[k][b] = 1
  <2> SUFFICES ASSUME NEW b \in Queued(k) PROVE b \in Block /\ taskQueue[k][b] = 1
    OBVIOUS
  <2>1. b \in Block /\ taskQueue[k][b] > 0
    BY DEF Queued
  <2> QED
    BY <1>1, <2>1 DEF Places, Placed
<1>3. ASSUME NEW b \in Block PROVE Placed(k, b)'
  <2>1. Placed(k, b) /\ Nil' = Nil
    BY <1>1, Zenon DEF Places, Nil
  <2>2. taskQueue'[k][b] = taskQueue[k][b] - (IF b \in noops \cup send THEN 1 ELSE 0)
    BY <1>1, Zenon DEF TypeOK
  <2>3. \A q \in Peer : pend'[k][q] = IF q = p THEN send ELSE pend[k][q]
    BY <1>1, Zenon DEF TypeOK
  <2>4. done'[k] = done[k] \cup noops
    BY <1>1 DEF TypeOK
  <2>5. CASE b \in noops
    <3>1. taskQueue[k][b] = 1 /\ taskQueue'[k][b] = 0 /\ b \notin send /\ b \in done'[k]
      BY <1>2, <2>2, <2>4, <2>5
    <3>2. \A q \in Peer : b \notin pend'[k][q]
      BY <2>1, <2>3, <3>1, ZenonT(30) DEF Placed
    <3>3. Wanted(k, b) /\ b \in offset'..scheduled' /\ cache'[b] # Nil'
      BY <2>1, <2>5, <3>1, Zenon DEF Placed
    <3> QED
      BY <3>1, <3>2, <3>3, SMT DEF Placed
  <2>6. CASE b \in send
    <3>1. taskQueue[k][b] = 1 /\ taskQueue'[k][b] = 0 /\ b \notin noops
      BY <1>2, <2>2, <2>6
    <3>2. b \notin done'[k] /\ \A q \in Peer : b \in pend'[k][q] <=> q = p
      BY <2>1, <2>3, <2>4, <2>6, <3>1, ZenonT(30) DEF Placed
    <3>3. /\ Wanted(k, b) /\ b \in offset'..scheduled' /\ cache'[b] # Nil'
          /\ ~IsNoop(k, b)
      BY <2>1, <2>6, <3>1, Zenon DEF Placed
    <3> QED
      BY <3>1, <3>2, <3>3, SMT DEF Placed
  <2>7. CASE b \notin noops \cup send
    <3>1. taskQueue'[k][b] = taskQueue[k][b]
      BY <2>1, <2>2, <2>7 DEF Placed
    <3>2. /\ b \in done'[k] <=> b \in done[k]
          /\ \A q \in Peer : b \in pend'[k][q] <=> b \in pend[k][q]
      BY <2>3, <2>4, <2>7, ZenonT(30)
    <3> QED
      BY <2>1, <3>1, <3>2, ZenonT(30) DEF Placed
  <2> QED
    BY <2>5, <2>6, <2>7
<1>4. ASSUME NEW j \in Kind \ {k}
      PROVE  taskQueue'[j] = taskQueue[j] /\ pend'[j] = pend[j] /\ done'[j] = done[j]
  BY <1>1, Zenon DEF TypeOK
<1>5. ASSUME NEW j \in Kind \ {k} PROVE \A b \in Block : Placed(j, b)'
  BY <1>4, LeftAlone, ZenonT(30)
<1>6. taskQueue' \in [Kind -> [Block -> Nat]]
  <2>1. [b \in Block |-> taskQueue[k][b] - (IF b \in noops \cup send THEN 1 ELSE 0)]
          \in [Block -> Nat]
    BY <1>1, <1>2, SMTT(90) DEF TypeOK
  <2> QED
    BY <1>1, <2>1, Zenon DEF TypeOK
<1> QED
  BY <1>3, <1>5, <1>6 DEF Places

LEMMA ReserveResults ==
    ASSUME IInv, NEW k \in Kind, NEW popped \in SUBSET Queued(k),
           \A b \in popped : InCache(b),
           cache' = [b \in Block |-> IF b \in popped THEN Reserved(k, b) ELSE cache[b]],
           done' = [done EXCEPT ![k] = @ \cup {b \in popped : IsNoop(k, b)}],
           offset' = offset
    PROVE  /\ Results'
           /\ cache' \in [Block -> [pending : -1..2, parts : SUBSET Kind]]
           /\ \A b \in Block : cache[b] # Nil => cache'[b] # Nil
           /\ \A b \in popped : cache'[b] # Nil
<1> USE SizeAssumption
<1>1. TypeOK /\ Places /\ Results
  BY DEF IInv
<1>2. ASSUME NEW b \in popped
      PROVE  /\ b \in Block /\ b \notin done[k] /\ Wanted(k, b)
             /\ cache[b] # Nil => cache[b].pending = Missing(b) /\ cache[b].parts = Got(b)
             /\ cache[b] = Nil => \A j \in Kind : b \notin done[j]
  <2>1. b \in Block /\ taskQueue[k][b] > 0
    BY Zenon DEF Queued
  <2>2. \A j \in Kind : Placed(j, b)
    BY <1>1, <2>1 DEF Places
  <2>3. taskQueue[k][b] = 1
    <3>1. taskQueue[k][b] \in {0, 1}
      BY <2>2, Zenon DEF Placed
    <3> QED
      BY <2>1, <3>1
  <2>4. b \notin done[k] /\ Wanted(k, b)
    BY <2>2, <2>3, Zenon DEF Placed
  <2>5. \A j \in Kind : b \in done[j] => cache[b] # Nil
    BY <2>2, Zenon DEF Placed
  <2>6. Cached(b)
    BY <1>1, <2>1, Zenon DEF Results
  <2> QED
    BY <2>1, <2>4, <2>5, <2>6, Zenon DEF Cached
<1> DEFINE fresh(b) == [pending |-> Components(b), parts |-> {}]
           old(b) == IF cache[b] = Nil THEN fresh(b) ELSE cache[b]
<1>3. ASSUME NEW b \in popped
      PROVE  /\ old(b) \in [pending : 0..2, parts : SUBSET Kind]
             /\ old(b).pending = Missing(b) /\ old(b).parts = Got(b)
             /\ Missing(b) >= 1
  <2>1. CASE cache[b] = Nil
    <3>1. old(b) = fresh(b) /\ \A j \in Kind : b \notin done[j]
      BY <1>2, <2>1, Zenon
    <3>2. Missing(b) = Components(b) /\ Components(b) \in 1..2
      BY <1>2, <3>1, SMTT(30) DEF Components, Missing, Kind, Block
    <3>3. Got(b) = {}
      BY <3>1, Zenon DEF Got
    <3>4. /\ fresh(b) \in [pending : 0..2, parts : SUBSET Kind]
          /\ fresh(b).pending = Components(b) /\ fresh(b).parts = {} /\ Components(b) >= 1
      BY <3>2, SMTT(30)
    <3> HIDE DEF old, fresh
    <3> QED
      BY <3>1, <3>2, <3>3, <3>4, Zenon
  <2>2. CASE cache[b] # Nil
    BY <1>1, <1>2, <2>2 DEF TypeOK, Missing, Kind, Block, Wanted
  <2> QED
    BY <2>1, <2>2, ZenonT(30)
<1>4. ASSUME NEW b \in popped
      PROVE  /\ cache'[b] \in [pending : -1..2, parts : SUBSET Kind]
             /\ cache'[b].pending >= 0
             /\ cache'[b].pending = Missing(b) - (IF IsNoop(k, b) THEN 1 ELSE 0)
             /\ cache'[b].parts = Got(b)
  <2>1. cache'[b] = IF IsNoop(k, b) THEN [old(b) EXCEPT !.pending = @ - 1] ELSE old(b)
    BY <1>2 DEF Reserved
  <2> HIDE DEF old
  <2> QED
    BY <1>3, <2>1
<1>5. ASSUME NEW b \in Block
      PROVE  /\ Missing(b)' = Missing(b) - (IF b \in popped /\ IsNoop(k, b) THEN 1 ELSE 0)
             /\ Got(b)' = Got(b)
  <2>1. \A j \in Kind :
          b \in done'[j] <=> b \in done[j] \/ (j = k /\ b \in popped /\ IsNoop(k, b))
    BY <1>1 DEF TypeOK
  <2>2. Got(b)' = Got(b)
    BY <2>1 DEF Got, IsNoop
  <2>3. Missing(b)' = Missing(b) - (IF b \in popped /\ IsNoop(k, b) THEN 1 ELSE 0)
    BY <1>2, <2>1, SMTT(30) DEF Missing, Kind, Wanted, Block
  <2> QED
    BY <2>2, <2>3
<1>6. Nil' = Nil /\ Nil.pending = -1
  BY Zenon DEF Nil
<1>7. ASSUME NEW b \in popped PROVE cache'[b] # Nil
  <2>1. cache'[b].pending >= 0
    BY <1>4, Zenon
  <2>2. ~(-1 >= 0)
    OBVIOUS
  <2> QED
    BY <1>6, <2>1, <2>2, Zenon
<1>8. \A b \in Block : b \notin popped => cache'[b] = cache[b]
  OBVIOUS
<1> HIDE DEF old, fresh
<1>9. Results'
  <2> SUFFICES ASSUME NEW b \in Block PROVE Cached(b)'
    BY DEF Results
  <2>1. CASE b \in popped
    BY <1>4, <1>5, <2>1, ZenonT(40) DEF Cached, InCache
  <2>2. CASE b \notin popped
    <3>1. cache'[b] = cache[b] /\ Missing(b)' = Missing(b) /\ Got(b)' = Got(b) /\ Cached(b)
      BY <1>1, <1>5, <1>8, <2>2, SMTT(30) DEF Results, Missing
    <3> QED
      BY <1>6, <3>1, Zenon DEF Cached, InCache
  <2> QED
    BY <2>1, <2>2
<1>10. cache' \in [Block -> [pending : -1..2, parts : SUBSET Kind]]
  <2>1. ASSUME NEW b \in Block PROVE cache'[b] \in [pending : -1..2, parts : SUBSET Kind]
    <3>1. CASE b \in popped
      BY <1>4, <3>1, ZenonT(30)
    <3>2. CASE b \notin popped
      BY <1>1, <1>8, <3>2 DEF TypeOK
    <3> QED
      BY <3>1, <3>2, Zenon
  <2>2. cache' = [b \in Block |-> cache'[b]]
    OBVIOUS
  <2> QED
    BY <2>1, <2>2, Zenon
<1> QED
  BY <1>7, <1>8, <1>9, <1>10, Zenon

LEMMA AssignIInv ==
    ASSUME NEW k \in Kind, NEW p \in Peer PROVE IInv /\ Assign(k, p) => IInv'
<1> SUFFICES ASSUME IInv, Assign(k, p) PROVE IInv'
  OBVIOUS
<1>1. TypeOK /\ HandedOut /\ Ends /\ NoInternalError
  BY DEF IInv
<1>2. /\ Running /\ fetch[k].pc = "assign" /\ p \in fetch[k].idles
      /\ UNCHANGED <<scheduled, headersDone, offset, peers, closed, processor, out>>
  BY DEF Assign, headers
<1>3. ~closed /\ processor # "returned" /\ p \notin busy[k]
  BY <1>1, <1>2 DEF Ends
<1>4. HandedOut'
  BY <1>1, <1>2 DEF HandedOut
<1> DEFINE Fewer == /\ fetch' \in [Kind -> Fetching]
                    /\ \A j \in Kind \ {k} : fetch'[j] = fetch[j]
                    /\ fetch'[k].pc = "assign" /\ fetch'[k].idles \subseteq fetch[k].idles
<1>5. CASE UNCHANGED <<tasks, busy, err>> /\ Fewer
  <2>1. TypeOK' /\ NoInternalError'
    BY <1>1, <1>2, <1>5, Zenon DEF TypeOK, NoInternalError, tasks
  <2>2. Ends'
    BY <1>1, <1>2, <1>3, <1>5, SMTT(90) DEF Ends, tasks
  <2> QED
    BY <1>2, <1>4, <1>5, <2>1, <2>2, Unchanged, Zenon DEF IInv
<1>6. ASSUME fetch' = [fetch EXCEPT ![k].idles = {}, ![k].moved = TRUE] PROVE Fewer
  BY <1>1, <1>2, <1>6, ZenonT(30) DEF TypeOK, Fetching
<1>7. ASSUME fetch' = [fetch EXCEPT ![k].idles = {}] PROVE Fewer
  BY <1>1, <1>2, <1>7, ZenonT(30) DEF TypeOK, Fetching
<1>8. ASSUME fetch' = [fetch EXCEPT ![k].idles = @ \ {p}]
      PROVE  Fewer /\ p \notin fetch'[k].idles
  BY <1>1, <1>2, <1>8, ZenonT(30) DEF TypeOK, Fetching
<1> DEFINE noops == {b \in Popped(k, p) : IsNoop(k, b)}
           send == {b \in Popped(k, p) : ~IsNoop(k, b) /\ b \notin lacking[p]}
<1>9. ASSUME fetch' = [fetch EXCEPT ![k].idles = @ \ {p}, ![k].moved = @ \/ noops \cup send # {}]
      PROVE  Fewer /\ p \notin fetch'[k].idles
  <2> HIDE DEF noops, send
  <2> QED
    BY <1>1, <1>2, <1>9, ZenonT(90) DEF TypeOK, Fetching
<1>10. CASE Reserve(k, p) /\ pend[k][p] = {}
  <2>1. \A b \in Popped(k, p) : InCache(b)
    BY PoppedInCache
  <2>2. /\ taskQueue' = [taskQueue EXCEPT ![k] =
               [b \in Block |-> @[b] - (IF b \in noops \cup send THEN 1 ELSE 0)]]
        /\ cache' = [b \in Block |-> IF b \in Popped(k, p) THEN Reserved(k, b) ELSE cache[b]]
        /\ done' = [done EXCEPT ![k] = @ \cup noops]
        /\ fetch' = [fetch EXCEPT ![k].idles = @ \ {p}, ![k].moved = @ \/ noops \cup send # {}]
        /\ IF send = {} THEN UNCHANGED <<pend, busy, err>>
           ELSE /\ pend' = [pend EXCEPT ![k][p] = send]
                /\ busy' = [busy EXCEPT ![k] = @ \cup {p}]
                /\ err' = IF p \in busy[k] THEN "panic" ELSE err
    BY <1>10, <2>1, ZenonT(30) DEF Reserve
  <2>3. /\ pend' = [pend EXCEPT ![k][p] = send]
        /\ busy' \in {busy, [busy EXCEPT ![k] = @ \cup {p}]}
        /\ err' = err
    BY <1>1, <1>3, <1>10, <2>2 DEF TypeOK
  <2>4. Popped(k, p) \in SUBSET Queued(k) /\ noops \in SUBSET Queued(k) /\ send \in SUBSET Queued(k)
    BY Zenon DEF Popped
  <2>5. /\ Results'
        /\ cache' \in [Block -> [pending : -1..2, parts : SUBSET Kind]]
        /\ \A b \in Block : cache[b] # Nil => cache'[b] # Nil
        /\ \A b \in Popped(k, p) : cache'[b] # Nil
    BY <1>2, <2>1, <2>2, <2>4, ReserveResults, ZenonT(30)
  <2>6. /\ \A b \in noops : IsNoop(k, b)
        /\ \A b \in send : ~IsNoop(k, b)
        /\ \A b \in noops \cup send : cache'[b] # Nil
    BY <2>5, Zenon
  <2>7. Places' /\ taskQueue' \in [Kind -> [Block -> Nat]]
    <3> HIDE DEF noops, send
    <3> QED
      BY <1>2, <1>10, <2>2, <2>3, <2>4, <2>5, <2>6, ReservePlaces, ZenonT(30)
  <2>8. noops \subseteq Block /\ send \subseteq Block
    BY Zenon DEF Popped, Queued
  <2>9. Fewer /\ p \notin fetch'[k].idles
    BY <1>9, <2>2
  <2> HIDE DEF noops, send
  <2>10. TypeOK'
    <3>1. done' \in [Kind -> SUBSET Block] /\ pend' \in [Kind -> [Peer -> SUBSET Block]]
      BY <1>1, <2>2, <2>3, <2>8 DEF TypeOK
    <3>2. busy' \in [Kind -> SUBSET Peer]
      <4>1. busy \in [Kind -> SUBSET Peer]
        BY <1>1 DEF TypeOK
      <4>2. CASE busy' = busy
        BY <4>1, <4>2
      <4>3. CASE busy' = [busy EXCEPT ![k] = @ \cup {p}]
        BY <4>1, <4>3, Zenon
      <4> QED
        BY <2>3, <4>2, <4>3
    <3> QED
      BY <1>1, <1>2, <2>3, <2>5, <2>7, <2>9, <3>1, <3>2, Zenon DEF TypeOK
  <2>11. Ends'
    <3>1. \A j \in Kind \ {k} :
            busy'[j] = busy[j] /\ taskQueue'[j] = taskQueue[j] /\ pend'[j] = pend[j]
      BY <1>1, <2>2, <2>3 DEF TypeOK
    <3>2. busy'[k] \subseteq busy[k] \cup {p}
      BY <1>1, <2>3 DEF TypeOK
    <3> QED
      BY <1>1, <1>2, <1>3, <2>9, <3>1, <3>2, SMTT(90) DEF Ends
  <2>12. NoInternalError'
    BY <1>1, <2>3 DEF NoInternalError
  <2> QED
    BY <1>4, <2>5, <2>7, <2>10, <2>11, <2>12 DEF IInv
<1> HIDE DEF Fewer
<1> QED
  BY <1>5, <1>6, <1>7, <1>8, <1>10 DEF Assign
=============================================================================
