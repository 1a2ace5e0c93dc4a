------------------------- MODULE DownloadQueueProof -------------------------
(***************************************************************************)
(* Proofs about DownloadQueue for every height, pivot, cache, set of peers *)
(* and number of faults: the tasks are never lost or doubled, the queue's  *)
(* checks on its own state never fire, and the results that are handed out *)
(* implement BlockStream.                                                  *)
(***************************************************************************)
EXTENDS DownloadQueueInv

-----------------------------------------------------------------------------
(* The delivery case of fetchParts. *)

LEMMA AcceptIInv ==
    ASSUME IInv, NEW k \in Kind, NEW p \in Peer, NEW good \in SUBSET pend[k][p],
           Accept(k, p, good), scheduled' = scheduled, offset' = offset
    PROVE  /\ Places' /\ Results'
           /\ taskQueue' \in [Kind -> [Block -> Nat]]
           /\ pend' \in [Kind -> [Peer -> SUBSET Block]]
           /\ done' \in [Kind -> SUBSET Block]
           /\ cache' \in [Block -> [pending : -1..2, parts : SUBSET Kind]]
           /\ \A j \in Kind \ {k} : taskQueue'[j] = taskQueue[j] /\ pend'[j] = pend[j]
<1> USE SizeAssumption
<1>1. TypeOK /\ Places /\ Results
  BY DEF IInv
<1>2. /\ taskQueue' = [taskQueue EXCEPT ![k] = Pushed(@, pend[k][p] \ good)]
      /\ pend' = [pend EXCEPT ![k][p] = {}]
      /\ done' = [done EXCEPT ![k] = @ \cup good]
      /\ cache' = [b \in Block |->
            IF b \in good
            THEN [pending |-> cache[b].pending - 1, parts |-> cache[b].parts \cup {k}]
            ELSE cache[b]]
  BY DEF Accept
<1>3. ASSUME NEW b \in good
      PROVE  /\ b \in Block /\ b \notin done[k] /\ ~IsNoop(k, b) /\ Wanted(k, b) /\ InCache(b)
             /\ cache[b].pending = Missing(b) /\ cache[b].parts = Got(b)
  <2>1. b \in Block /\ b \in pend[k][p]
    BY <1>1 DEF TypeOK
  <2>2. Placed(k, b) /\ Cached(b)
    BY <1>1, <2>1 DEF Places, Results
  <2> QED
    BY <2>1, <2>2 DEF Placed, Cached
<1>4. ASSUME NEW b \in Block
      PROVE  /\ Missing(b)' = Missing(b) - (IF b \in good THEN 1 ELSE 0)
             /\ Got(b)' = Got(b) \cup (IF b \in good THEN {k} ELSE {})
  <2>1. \A j \in Kind : b \in done'[j] <=> b \in done[j] \/ (j = k /\ b \in good)
    BY <1>1, <1>2 DEF TypeOK
  <2>2. Got(b)' = Got(b) \cup (IF b \in good THEN {k} ELSE {})
    BY <1>3, <2>1 DEF Got, IsNoop
  <2>3. Missing(b)' = Missing(b) - (IF b \in good THEN 1 ELSE 0)
    BY <1>3, <2>1 DEF Missing, Kind, Wanted, Block
  <2> QED
    BY <2>2, <2>3
<1>5. \A b \in good : Missing(b) \in 1..2 /\ Got(b) \subseteq Kind
  BY <1>3 DEF Missing, Kind, Wanted, Block, Got
<1>6. ASSUME NEW b \in good
      PROVE  /\ cache'[b].pending = Missing(b) - 1 /\ cache'[b].parts = Got(b) \cup {k}
             /\ cache'[b].pending # -1
             /\ cache'[b] \in [pending : -1..2, parts : SUBSET Kind]
  <2>1. cache'[b] = [pending |-> Missing(b) - 1, parts |-> Got(b) \cup {k}]
    BY <1>2, <1>3, ZenonT(30)
  <2>2. Missing(b) - 1 \in 0..1 /\ Got(b) \cup {k} \subseteq Kind
    BY <1>5
  <2> QED
    BY <2>1, <2>2
<1>7. \A b \in Block : b \notin good => cache'[b] = cache[b]
  BY <1>2
<1>8. Nil' = Nil /\ Nil.pending = -1
  BY DEF Nil
<1>9. ASSUME NEW b \in Block, cache[b] # Nil PROVE cache'[b] # Nil
  BY <1>6, <1>7, <1>8, <1>9
<1>10. Places'
  <2>1. /\ taskQueue'[k] = Pushed(taskQueue[k], pend[k][p] \ good)
        /\ pend'[k] = [pend[k] EXCEPT ![p] = {}]
        /\ done'[k] = done[k] \cup good
    BY <1>1, <1>2 DEF TypeOK
  <2>2. \A b \in Block : Placed(k, b)'
    BY <1>9, <2>1, GiveBack, ZenonT(30)
  <2>3. ASSUME NEW j \in Kind \ {k} PROVE \A b \in Block : Placed(j, b)'
    <3>1. taskQueue'[j] = taskQueue[j] /\ pend'[j] = pend[j] /\ done'[j] = done[j]
      BY <1>1, <1>2 DEF TypeOK
    <3> QED
      BY <1>9, <3>1, LeftAlone, ZenonT(30)
  <2> QED
    BY <2>2, <2>3 DEF Places
<1>11. Results'
  <2> SUFFICES ASSUME NEW b \in Block PROVE Cached(b)'
    BY ZenonT(30) DEF Results
  <2>1. CASE b \in good
    <3>1. cache'[b].pending = Missing(b)' /\ cache'[b].parts = Got(b)'
      BY <1>4, <1>6, <2>1
    <3>2. InCache(b)'
      BY <1>3, <2>1 DEF InCache
    <3> QED
      BY <3>1, <3>2 DEF Cached
  <2>2. CASE b \notin good
    <3>1. Missing(b) \in Int
      BY DEF Missing
    <3>2. Missing(b)' = Missing(b) /\ Got(b)' = Got(b)
      <4>1. Missing(b)' = Missing(b) - 0 /\ Got(b)' = Got(b) \cup {}
        BY <1>4, <2>2, Zenon
      <4> QED
        BY <3>1, <4>1
    <3>3. cache'[b] = cache[b] /\ Cached(b)
      BY <1>1, <1>7, <2>2 DEF Results
    <3> QED
      BY <1>8, <3>2, <3>3 DEF Cached, InCache
  <2> QED
    BY <2>1, <2>2
<1>12. cache' \in [Block -> [pending : -1..2, parts : SUBSET Kind]]
  <2>1. ASSUME NEW b \in Block PROVE cache'[b] \in [pending : -1..2, parts : SUBSET Kind]
    <3>1. CASE b \in good
      BY <1>6, <3>1
    <3>2. CASE b \notin good
      BY <1>1, <1>7, <3>2 DEF TypeOK
    <3> QED
      BY <3>1, <3>2
  <2>2. cache' = [b \in Block |-> cache'[b]]
    BY <1>2
  <2> QED
    BY <2>1, <2>2
<1>13. /\ taskQueue' \in [Kind -> [Block -> Nat]]
       /\ pend' \in [Kind -> [Peer -> SUBSET Block]]
       /\ done' \in [Kind -> SUBSET Block]
       /\ \A j \in Kind \ {k} : taskQueue'[j] = taskQueue[j] /\ pend'[j] = pend[j]
  BY <1>1, <1>2 DEF TypeOK, Pushed
<1> QED
  BY <1>10, <1>11, <1>12, <1>13

LEMMA DeliverIInv ==
    ASSUME NEW k \in Kind, NEW p \in Peer, NEW i, NEW reply
    PROVE  IInv /\ Deliver(k, p, i, reply) => IInv'
<1> SUFFICES ASSUME IInv, Deliver(k, p, i, reply) PROVE IInv'
  OBVIOUS
<1> DEFINE good == Matching(pend[k][p], reply)
<1>1. TypeOK /\ Places /\ Results /\ HandedOut /\ Ends /\ NoInternalError
  BY DEF IInv
<1>2. /\ Running /\ fetch[k].pc = "select"
      /\ UNCHANGED <<scheduled, headersDone, offset, peers, fetch, closed, processor, out>>
  BY DEF Deliver, headers
<1>3. ~closed /\ processor # "returned"
  BY <1>1, <1>2, ZenonT(30) DEF Ends
<1>4. ~Uncached(pend[k][p], reply)
  <2>1. ASSUME NEW b \in pend[k][p] PROVE InCache(b) /\ cache[b] # Nil
    <3>1. b \in Block
      BY <1>1 DEF TypeOK
    <3> QED
      BY <1>1, <3>1 DEF Places, Placed, Results, Cached
  <2> QED
    BY <2>1, ZenonT(30) DEF Uncached
<1>5. good \in SUBSET pend[k][p]
  BY DEF Matching
<1> HIDE DEF good
<1>6. CASE UNCHANGED <<tasks, err>> /\ busy' \in {busy, [busy EXCEPT ![k] = @ \ {p}]}
  <2>1. busy' \in [Kind -> SUBSET Peer] /\ \A j \in Kind : busy'[j] \subseteq busy[j]
    <3>1. busy \in [Kind -> SUBSET Peer]
      BY <1>1 DEF TypeOK
    <3>2. CASE busy' = busy
      BY <3>1, <3>2
    <3>3. CASE busy' = [busy EXCEPT ![k] = @ \ {p}]
      BY <3>1, <3>3
    <3> QED
      BY <1>6, <3>2, <3>3
  <2>2. TypeOK' /\ HandedOut' /\ NoInternalError'
    BY <1>1, <1>2, <1>6, <2>1 DEF TypeOK, HandedOut, NoInternalError, tasks
  <2>3. Ends'
    <3>1. \A j \in Kind : fetch'[j].idles \cap busy'[j] = {}
      BY <1>1, <1>2, <2>1, ZenonT(30) DEF Ends
    <3>2. UNCHANGED <<taskQueue, pend>>
      BY <1>6 DEF tasks
    <3> QED
      BY <1>1, <1>2, <1>3, <3>1, <3>2, ZenonT(30) DEF Ends
  <2> QED
    BY <1>2, <1>6, <2>2, <2>3, Unchanged DEF IInv
<1>7. CASE /\ Accept(k, p, good) /\ UNCHANGED err
           /\ busy' \in {busy, [busy EXCEPT ![k] = @ \ {p}]}
  <2>1. /\ Places' /\ Results'
        /\ taskQueue' \in [Kind -> [Block -> Nat]]
        /\ pend' \in [Kind -> [Peer -> SUBSET Block]]
        /\ done' \in [Kind -> SUBSET Block]
        /\ cache' \in [Block -> [pending : -1..2, parts : SUBSET Kind]]
        /\ \A j \in Kind \ {k} : taskQueue'[j] = taskQueue[j] /\ pend'[j] = pend[j]
    BY <1>2, <1>5, <1>7, AcceptIInv, ZenonT(30)
  <2>2. busy' \in [Kind -> SUBSET Peer] /\ \A j \in Kind : busy'[j] \subseteq busy[j]
    BY <1>1, <1>7, ZenonT(40) DEF TypeOK
  <2>3. TypeOK' /\ HandedOut' /\ NoInternalError'
    BY <1>1, <1>2, <1>7, <2>1, <2>2 DEF TypeOK, HandedOut, NoInternalError
  <2>4. Ends'
    <3>1. ASSUME NEW j \in Kind
          PROVE  /\ fetch'[j].idles \cap busy'[j] = {}
                 /\ fetch'[j].pc = "done" =>
                       /\ headersDone'
                       /\ \A b \in Block : taskQueue'[j][b] = 0
                       /\ \A q \in Peer : pend'[j][q] = {}
      <4>1. CASE j = k
        BY <1>1, <1>2, <2>2, <4>1 DEF Ends
      <4>2. CASE j # k
        <5>1. taskQueue'[j] = taskQueue[j] /\ pend'[j] = pend[j] /\ busy'[j] \subseteq busy[j]
          BY <2>1, <2>2, <4>2
        <5> QED
          BY <1>1, <1>2, <5>1 DEF Ends
      <4> QED
        BY <4>1, <4>2
    <3> QED
      BY <1>1, <1>2, <1>3, <3>1 DEF Ends
  <2> QED
    BY <2>1, <2>3, <2>4, ZenonT(30) DEF IInv
<1>8. \/ UNCHANGED <<tasks, err>> /\ busy' \in {busy, [busy EXCEPT ![k] = @ \ {p}]}
      \/ /\ Accept(k, p, good) /\ UNCHANGED err
         /\ busy' \in {busy, [busy EXCEPT ![k] = @ \ {p}]}
  <2>1. CASE p \notin peers
    BY <2>1 DEF Deliver
  <2>2. CASE p \in peers /\ pend[k][p] = {}
    <3>1. UNCHANGED <<tasks, err>> /\ busy' = [busy EXCEPT ![k] = @ \ {p}]
      BY <2>2 DEF Deliver
    <3> QED
      BY <3>1
  <2>3. CASE p \in peers /\ pend[k][p] # {}
    <3>1. Accept(k, p, good) /\ UNCHANGED err
      BY <1>4, <2>3 DEF Deliver, good
    <3>2. \E t : busy' = [busy EXCEPT ![k] = IF t THEN @ ELSE @ \ {p}]
      BY <1>4, <2>3 DEF Deliver
    <3>3. [busy EXCEPT ![k] = @] = busy
      BY <1>1 DEF TypeOK
    <3> QED
      BY <3>1, <3>2, <3>3, ZenonT(30)
  <2> QED
    BY <2>1, <2>2, <2>3, ZenonT(30)
<1> QED
  BY <1>6, <1>7, <1>8

-----------------------------------------------------------------------------
(* The processor. *)

LEMMA CloseIInv == IInv /\ Close => IInv'
<1> SUFFICES ASSUME IInv, Close PROVE IInv'
  OBVIOUS
<1>1. TypeOK /\ HandedOut /\ Ends /\ NoInternalError
  BY DEF IInv
<1>2. /\ UNCHANGED <<tasks, scheduled, headersDone, offset, busy, peers, fetch, err, processor, out>>
      /\ closed' = TRUE /\ (~Running \/ \A k \in Kind : fetch[k].pc = "done")
  BY DEF Close, headers
<1>3. TypeOK' /\ HandedOut' /\ NoInternalError'
  BY <1>1, <1>2 DEF tasks, TypeOK, HandedOut, NoInternalError
<1>4. Ends'
  BY <1>1, <1>2 DEF tasks, Ends, Running
<1> QED
  BY <1>2, <1>3, <1>4, Unchanged DEF IInv

(* A result that may be handed out is complete. *)
LEMMA ProcessableComplete ==
    ASSUME IInv, NEW b, Processable(b)
    PROVE  /\ b \in Block /\ b \in offset..scheduled
           /\ cache[b].parts = Content(b)
           /\ \A k \in Kind : taskQueue[k][b] = 0 /\ \A p \in Peer : b \notin pend[k][p]
<1> USE SizeAssumption
<1>1. b \in Block /\ cache[b] # Nil /\ cache[b].pending <= 0
  BY DEF Processable
<1>2. Cached(b) /\ \A k \in Kind : Placed(k, b)
  BY <1>1 DEF IInv, Places, Results
<1>3. Missing(b) <= 0 /\ cache[b].parts = Got(b)
  BY <1>1, <1>2 DEF Cached
<1>4. \A k \in Kind : b \in done[k] <=> Wanted(k, b)
  <2>1. b \in done["body"] /\ (b <= Pivot => b \in done["receipts"])
    BY <1>1, <1>3 DEF Missing, Block
  <2>2. \A k \in Kind : b \in done[k] => Wanted(k, b)
    BY <1>2 DEF Placed
  <2> QED
    BY <2>1, <2>2 DEF Wanted, Kind
<1>5. \A k \in Kind : taskQueue[k][b] = 0 /\ \A p \in Peer : b \notin pend[k][p]
  BY <1>2, <1>4 DEF Placed
<1>6. b \in offset..scheduled
  BY <1>2, <1>4 DEF Placed, Wanted, Kind
<1>7. Got(b) = Content(b)
  BY <1>4 DEF Got, Content
<1> QED
  BY <1>1, <1>3, <1>5, <1>6, <1>7

(* Sequences that start with the first blocks grow by the blocks after them. *)
LEMMA StreamGrows ==
    ASSUME NEW m \in Nat, NEW n \in Nat
    PROVE  [i \in 1..m |-> [number |-> i, parts |-> Content(i)]]
             \o [i \in 1..n |-> [number |-> m + i, parts |-> Content(m + i)]]
           = [i \in 1..(m + n) |-> [number |-> i, parts |-> Content(i)]]
<1> DEFINE s == [i \in 1..m |-> [number |-> i, parts |-> Content(i)]]
           t == [i \in 1..n |-> [number |-> m + i, parts |-> Content(m + i)]]
           R == [number : Nat, parts : SUBSET Kind]
<1>1. s \in Seq(R) /\ t \in Seq(R) /\ Len(s) = m /\ Len(t) = n
  BY DEF Content
<1>2. \A i \in 1..(m + n) : (s \o t)[i] = [number |-> i, parts |-> Content(i)]
  <2> SUFFICES ASSUME NEW i \in 1..(m + n)
               PROVE  (s \o t)[i] = [number |-> i, parts |-> Content(i)]
    OBVIOUS
  <2>1. CASE i <= m
    <3>1. (s \o t)[i] = s[i]
      BY <1>1, <2>1
    <3> QED
      BY <2>1, <3>1
  <2>2. CASE i > m
    <3>1. (s \o t)[i] = t[i - m] /\ i - m \in 1..n /\ m + (i - m) = i
      BY <1>1, <2>2
    <3> QED
      BY <3>1
  <2> QED
    BY <2>1, <2>2
<1>3. s \o t \in Seq(R) /\ Len(s \o t) = m + n
  BY <1>1
<1> HIDE DEF s, t, R
<1>4. s \o t = [i \in 1..(m + n) |-> (s \o t)[i]]
  <2>1. \A r \in Seq(R) : r = [i \in 1..Len(r) |-> r[i]]
    OBVIOUS
  <2> QED
    BY <1>3, <2>1, Zenon
<1>5. s \o t = [i \in 1..(m + n) |-> [number |-> i, parts |-> Content(i)]]
  BY <1>2, <1>4
<1> QED
  BY <1>5 DEF s, t

LEMMA TakeResultsIInv ==
    ASSUME IInv, NEW n \in Nat \ {0}, IsCount(n), TakeResults(n),
           UNCHANGED <<scheduled, headersDone, taskQueue, pend, busy, peers, fetch, err, closed,
                       processor>>,
           processor = "running"
    PROVE  /\ IInv'
           /\ offset + n - 1 <= Height
           /\ out' = out \o [i \in 1..n |-> [number |-> offset - 1 + i,
                                             parts |-> Content(offset - 1 + i)]]
<1> USE SizeAssumption
<1> DEFINE taken == offset..(offset + n - 1)
<1>1. TypeOK /\ Places /\ Results /\ HandedOut /\ Ends /\ NoInternalError
  BY DEF IInv
<1>2. offset \in Nat \ {0} /\ scheduled \in 0..Height
  BY <1>1 DEF TypeOK
<1>3. ASSUME NEW b \in taken
      PROVE  /\ b \in Block /\ b \in offset..scheduled /\ cache[b].parts = Content(b)
             /\ \A k \in Kind : taskQueue[k][b] = 0 /\ \A p \in Peer : b \notin pend[k][p]
  <2>1. b - offset \in 0..(n - 1) /\ offset + (b - offset) = b
    BY <1>2
  <2>2. Processable(b)
    BY <2>1 DEF IsCount
  <2> QED
    BY <2>2, ProcessableComplete
<1>4. offset + n - 1 <= scheduled
  BY <1>2, <1>3
<1>5. /\ done' = [k \in Kind |-> done[k] \ taken]
      /\ cache' = [b \in Block |-> IF b \in taken THEN Nil ELSE cache[b]]
      /\ offset' = offset + n
  BY DEF TakeResults
<1>6. out' = out \o [i \in 1..n |-> [number |-> offset - 1 + i, parts |-> Content(offset - 1 + i)]]
  <2>1. ASSUME NEW i \in 1..n
        PROVE  [number |-> offset + i - 1, parts |-> cache[offset + i - 1].parts]
                 = [number |-> offset - 1 + i, parts |-> Content(offset - 1 + i)]
    <3>1. offset + i - 1 = offset - 1 + i /\ offset - 1 + i \in taken
      BY <1>2
    <3> QED
      BY <1>3, <3>1
  <2>2. [i \in 1..n |-> [number |-> offset + i - 1, parts |-> cache[offset + i - 1].parts]]
          = [i \in 1..n |-> [number |-> offset - 1 + i, parts |-> Content(offset - 1 + i)]]
    BY <2>1
  <2> QED
    BY <2>2, SMTT(30) DEF TakeResults
<1>7. Nil' = Nil /\ Nil \in [pending : -1..2, parts : SUBSET Kind]
  BY DEF Nil
<1>8. TypeOK'
  BY <1>1, <1>2, <1>5, <1>7 DEF TypeOK
<1>9. Places'
  <2> SUFFICES ASSUME NEW k \in Kind, NEW b \in Block PROVE Placed(k, b)'
    BY DEF Places
  <2>1. Placed(k, b)
    BY <1>1 DEF Places
  <2>2. b \in done'[k] <=> b \in done[k] /\ b \notin taken
    BY <1>5
  <2>3. CASE b \in taken
    <3>1. taskQueue'[k][b] = 0 /\ b \notin done'[k] /\ \A p \in Peer : b \notin pend'[k][p]
      BY <1>3, <2>2, <2>3, ZenonT(30)
    <3>2. b \notin offset'..scheduled'
      BY <1>2, <1>5, <2>3
    <3> QED
      BY <3>1, <3>2 DEF Placed
  <2>4. CASE b \notin taken
    <3>1. b \in offset'..scheduled' <=> b \in offset..scheduled
      BY <1>2, <1>5, <2>4 DEF Block
    <3>2. cache'[b] = cache[b]
      BY <1>5, <2>4
    <3> QED
      BY <1>7, <2>1, <2>2, <2>4, <3>1, <3>2, Zenon DEF Placed
  <2> QED
    BY <2>3, <2>4
<1>10. Results'
  <2> SUFFICES ASSUME NEW b \in Block, cache'[b] # Nil PROVE Cached(b)'
    BY <1>7 DEF Results, Cached
  <2>1. b \notin taken /\ cache'[b] = cache[b]
    BY <1>5
  <2>2. InCache(b) /\ cache[b].pending = Missing(b) /\ cache[b].parts = Got(b)
    BY <1>1, <2>1 DEF Results, Cached
  <2>3. InCache(b)'
    BY <1>2, <1>5, <2>1, <2>2, SMTT(30) DEF InCache, Block
  <2>4. \A k \in Kind : b \in done'[k] <=> b \in done[k]
    BY <1>5, <2>1, Zenon
  <2>5. Missing(b)' = Missing(b) /\ Got(b)' = Got(b)
    BY <2>4, Zenon DEF Missing, Got, Kind
  <2> QED
    BY <2>1, <2>2, <2>3, <2>5 DEF Cached
<1>11. HandedOut'
  <2>0. offset' = offset + n
    BY <1>5
  <2>1. offset - 1 \in Nat /\ n \in Nat /\ (offset - 1) + n = offset' - 1
    BY <1>2, <2>0, SMT
  <2>2. out = [i \in 1..(offset - 1) |-> [number |-> i, parts |-> Content(i)]]
    BY <1>1 DEF HandedOut
  <2>3. out' = [i \in 1..((offset - 1) + n) |-> [number |-> i, parts |-> Content(i)]]
    BY <1>6, <2>1, <2>2, StreamGrows
  <2>4. offset' <= scheduled' + 1
    BY <1>2, <1>4, <2>0, SMT
  <2>5. 1..((offset - 1) + n) = 1..(offset' - 1)
    BY <2>1
  <2> QED
    BY <2>3, <2>4, <2>5, Zenon DEF HandedOut
<1>12. Ends' /\ NoInternalError'
  BY <1>1 DEF Ends, NoInternalError, Running
<1> QED
  BY <1>2, <1>4, <1>6, <1>8, <1>9, <1>10, <1>11, <1>12 DEF IInv

(* When the loops have returned without an error, the next block can be      *)
(* processed, so that the processor does not return before the last one.     *)
LEMMA NoneLeft ==
    ASSUME IInv, closed, Running, ~Processable(offset)
    PROVE  offset = Height + 1
<1> USE SizeAssumption, PivotAssumption
<1>1. TypeOK /\ Places /\ Results /\ HandedOut /\ Ends
  BY DEF IInv
<1>2. offset \in Nat \ {0} /\ scheduled = Height /\ offset <= Height + 1
  BY <1>1 DEF TypeOK, Ends, HandedOut, Kind
<1>3. ASSUME NEW k \in Kind, NEW b \in offset..Height, Wanted(k, b)
      PROVE  b \in Block /\ b \in done[k] /\ cache[b] # Nil /\ Cached(b)
  <2>1. b \in Block /\ b \in offset..scheduled
    BY <1>2 DEF Block
  <2>2. taskQueue[k][b] = 0 /\ \A p \in Peer : pend[k][p] = {}
    BY <1>1, <2>1, ZenonT(30) DEF Ends
  <2>3. Placed(k, b) /\ Cached(b)
    BY <1>1, <2>1, Zenon DEF Places, Results
  <2>4. b \notin {} /\ 0 # 1
    BY SMT
  <2> QED
    BY <1>3, <2>1, <2>2, <2>3, <2>4, ZenonT(30) DEF Placed
<1>4. SUFFICES ASSUME offset <= Height PROVE FALSE
  BY <1>2
<1>5. offset \in offset..Height /\ Wanted("body", offset) /\ "body" \in Kind
  BY <1>2, <1>4 DEF Wanted, Kind
<1>6. offset \in Block /\ offset \in done["body"] /\ cache[offset] # Nil /\ Cached(offset)
  BY <1>3, <1>5
<1>7. offset <= Pivot => offset \in done["receipts"]
  BY <1>3, <1>5 DEF Wanted, Kind
<1>8. InCache(offset) /\ cache[offset].pending <= 0
  BY <1>6, <1>7 DEF Cached, Missing
<1>9. ASSUME offset = Pivot, NEW j \in 1..ForceVerify
      PROVE  InCache(offset + j) /\ cache[offset + j] # Nil
  <2>1. offset + j \in offset..Height /\ Wanted("body", offset + j)
    BY <1>2, <1>9 DEF Wanted
  <2> QED
    BY <1>3, <1>5, <2>1 DEF Cached
<1>10. Processable(offset)
  BY <1>6, <1>8, <1>9 DEF Processable
<1> QED
  BY <1>10

LEMMA WaitResultsIInv == IInv /\ WaitResults => IInv'
<1> SUFFICES ASSUME IInv, WaitResults PROVE IInv'
  OBVIOUS
<1>1. TypeOK /\ HandedOut /\ Ends /\ NoInternalError
  BY DEF IInv
<1>2. /\ processor = "running"
      /\ UNCHANGED <<scheduled, headersDone, taskQueue, pend, busy, peers, fetch, err, closed>>
  BY DEF WaitResults, headers
<1>3. PICK n \in 0..CacheLimit :
        /\ IsCount(n)
        /\ IF n > 0
           THEN TakeResults(n) /\ UNCHANGED <<wake, processor>>
           ELSE /\ IF closed
                   THEN processor' = "returned" /\ UNCHANGED wake
                   ELSE wake' = FALSE /\ UNCHANGED processor
                /\ UNCHANGED <<out, done, cache, offset>>
  BY ZenonT(40) DEF WaitResults
<1>4. CASE n > 0
  <2>1. n \in Nat \ {0} /\ TakeResults(n) /\ UNCHANGED processor
    BY <1>3, <1>4, SizeAssumption
  <2> QED
    BY <1>2, <1>3, <2>1, TakeResultsIInv
<1>5. CASE n = 0
  <2>1. /\ UNCHANGED <<out, done, cache, offset>>
        /\ processor' \in {"running", "returned"}
        /\ processor' = "returned" => closed
    BY <1>2, <1>3, <1>5
  <2>2. UNCHANGED <<tasks, scheduled, offset>>
    BY <1>2, <2>1 DEF tasks
  <2>3. TypeOK' /\ HandedOut' /\ NoInternalError'
    BY <1>1, <1>2, <2>1 DEF TypeOK, HandedOut, NoInternalError
  <2>4. ~Processable(offset)
    <3>1. offset + 0 = offset
      BY <1>1 DEF TypeOK
    <3> QED
      BY <1>3, <1>5, <3>1 DEF IsCount
  <2>5. closed /\ Running => offset = Height + 1
    BY <2>4, NoneLeft, SMTT(30)
  <2>6. Ends'
    BY <1>1, <1>2, <2>1, <2>5, Zenon DEF Ends, Running
  <2> QED
    BY <2>2, <2>3, <2>6, Unchanged DEF IInv
<1> QED
  BY <1>4, <1>5, SizeAssumption

-----------------------------------------------------------------------------
LEMMA NextIInv == IInv /\ [Next]_vars => IInv'
<1> SUFFICES ASSUME IInv, [Next]_vars PROVE IInv'
  OBVIOUS
<1>1. ASSUME NEW p \in Peer, Disconnect(p) PROVE IInv'
  BY <1>1, DisconnectIInv
<1>2. ASSUME NEW k \in Kind, BeginAssign(k) \/ EndAssign(k) PROVE IInv'
  BY <1>2, BeginAssignIInv, EndAssignIInv
<1>3. ASSUME NEW k \in Kind, NEW p \in Peer, Expire(k, p) \/ Assign(k, p) PROVE IInv'
  BY <1>3, ExpireIInv, AssignIInv
<1>4. ASSUME NEW k \in Kind, NEW p \in Peer, Answered(k, p) PROVE IInv'
  BY <1>4, DeliverIInv DEF Answered
<1>5. ASSUME NEW k \in Kind, NEW p \in Peer, NEW i \in DOMAIN net[k][p], NoAnswer(k, p, i)
      PROVE  IInv'
  BY <1>5, NoAnswerIInv
<1>6. CASE UNCHANGED vars
  <2>1. UNCHANGED <<tasks, scheduled, offset>>
    BY <1>6, SMTT(30) DEF vars, tasks
  <2>2. TypeOK' /\ HandedOut' /\ Ends' /\ NoInternalError'
    BY <1>6, Zenon DEF vars, IInv, TypeOK, HandedOut, Ends, NoInternalError, Running
  <2> QED
    BY <2>1, <2>2, Unchanged DEF IInv
<1> QED
  BY <1>1, <1>2, <1>3, <1>4, <1>5, <1>6, ScheduleIInv, HeadersDoneIInv, CloseIInv,
     WaitResultsIInv DEF Next

(* The invariant of a synchronisation, for every number of blocks, peers,    *)
(* faults and size of the cache: see IInv.                                   *)
THEOREM Inductive == Spec => []IInv
<1> QED
  BY InitIInv, NextIInv, PTL DEF Spec

(* No task is lost or doubled: a scheduled body or receipt list is queued    *)
(* once, asked of one peer, done or handed out, whatever expires, is         *)
(* revoked or arrives late.                                                  *)
THEOREM TaskOnceAlways == Spec => []TaskOnce
<1>1. IInv => TaskOnce
  <2> SUFFICES ASSUME IInv, NEW k \in Kind, NEW b \in Block
               PROVE  taskQueue[k][b]
                        + Cardinality({p \in Peer : b \in pend[k][p]})
                        + (IF b \in done[k] \/ (Wanted(k, b) /\ b < offset) THEN 1 ELSE 0)
                      = IF b <= scheduled /\ Wanted(k, b) THEN 1 ELSE 0
    BY DEF TaskOnce
  <2> DEFINE holders == {p \in Peer : b \in pend[k][p]}
  <2>1. TypeOK /\ Placed(k, b) /\ offset <= scheduled + 1
    BY DEF IInv, Places, HandedOut
  <2>2. b \in Nat /\ offset \in Nat /\ scheduled \in Nat
    BY <2>1, SizeAssumption DEF TypeOK, Block
  <2>3. CASE holders = {}
    <3>1. Cardinality(holders) = 0
      BY <2>3, FS_EmptySet
    <3>2. (taskQueue[k][b] = 1 \/ b \in done[k]) <=> (Wanted(k, b) /\ b \in offset..scheduled)
      BY <2>1, <2>3 DEF Placed
    <3> HIDE DEF holders
    <3>3. taskQueue[k][b] + 0 + (IF b \in done[k] \/ (Wanted(k, b) /\ b < offset) THEN 1 ELSE 0)
            = IF b <= scheduled /\ Wanted(k, b) THEN 1 ELSE 0
      BY <2>1, <2>2, <3>2, SMTT(30) DEF Placed
    <3> QED
      BY <3>1, <3>3 DEF holders
  <2>4. CASE holders # {}
    <3>1. PICK q \in Peer : b \in pend[k][q]
      BY <2>4
    <3>2. holders = {q}
      BY <2>1, <3>1 DEF Placed
    <3>3. Cardinality(holders) = 1
      BY <3>2, FS_Singleton, ZenonT(30)
    <3>4. /\ taskQueue[k][b] = 0 /\ b \notin done[k]
          /\ Wanted(k, b) /\ b \in offset..scheduled
      BY <2>1, <3>1, Zenon DEF Placed
    <3> HIDE DEF holders
    <3>5. taskQueue[k][b] + 1 + (IF b \in done[k] \/ (Wanted(k, b) /\ b < offset) THEN 1 ELSE 0)
            = IF b <= scheduled /\ Wanted(k, b) THEN 1 ELSE 0
      BY <2>2, <3>4
    <3> QED
      BY <3>3, <3>5 DEF holders
  <2> QED
    BY <2>3, <2>4, Zenon
<1> QED
  BY <1>1, Inductive, PTL

(* The checks that the queue makes on its own state never fire: what         *)
(* reserveHeaders pops fits into the cache, deliver finds the results of the *)
(* blocks it asked for, and fetchParts asks only idle peers.                 *)
THEOREM NoInternalErrorAlways == Spec => []NoInternalError
<1>1. IInv => NoInternalError
  BY DEF IInv
<1> QED
  BY <1>1, Inductive, PTL

(* Only the processor hands out results, and after an error, or when the     *)
(* loops have returned, nothing fails any more.                              *)
LEMMA OthersKeep ==
    ASSUME Next, ~WaitResults
    PROVE  /\ UNCHANGED <<out, processor>>
           /\ ~Running \/ (\A k \in Kind : fetch[k].pc = "done") => UNCHANGED err
<1> DEFINE Kept == /\ UNCHANGED <<out, processor>>
                   /\ ~Running \/ (\A k \in Kind : fetch[k].pc = "done") => UNCHANGED err
<1>1. Schedule \/ HeadersDone \/ Close => Kept
  <2>1. Schedule => UNCHANGED <<out, processor, err>>
    BY Zenon DEF Schedule
  <2>2. HeadersDone => UNCHANGED <<out, processor, err>>
    BY Zenon DEF HeadersDone
  <2>3. Close => UNCHANGED <<out, processor, err>>
    BY Zenon DEF Close
  <2> QED
    BY <2>1, <2>2, <2>3
<1>2. ASSUME NEW p \in Peer, Disconnect(p) PROVE Kept
  BY <1>2, Zenon DEF Disconnect, UnregisterPeer
<1>3. ASSUME NEW k \in Kind, BeginAssign(k) PROVE Kept
  BY <1>3, SMTT(30) DEF BeginAssign
<1>4. ASSUME NEW k \in Kind, EndAssign(k) PROVE Kept
  BY <1>4, ZenonT(40) DEF EndAssign
<1>5. ASSUME NEW k \in Kind, NEW p \in Peer, Expire(k, p) PROVE Kept
  BY <1>5 DEF Expire
<1>6. ASSUME NEW k \in Kind, NEW p \in Peer, Assign(k, p) PROVE Kept
  BY <1>6 DEF Assign
<1>7. ASSUME NEW k \in Kind, NEW p \in Peer, Answered(k, p) PROVE Kept
  <2>1. PICK i \in DOMAIN net[k][p] : \E reply \in SUBSET net[k][p][i] : Deliver(k, p, i, reply)
    BY <1>7 DEF Answered
  <2>2. PICK reply : Deliver(k, p, i, reply)
    BY <2>1
  <2>3. Running /\ fetch[k].pc = "select" /\ UNCHANGED <<out, processor>>
    BY <2>2 DEF Deliver
  <2> QED
    BY <2>3
<1>8. ASSUME NEW k \in Kind, NEW p \in Peer, NEW i \in DOMAIN net[k][p], NoAnswer(k, p, i)
      PROVE  Kept
  BY <1>8 DEF NoAnswer
<1> HIDE DEF Kept
<1>9. Kept
  BY <1>1, <1>2, <1>3, <1>4, <1>5, <1>6, <1>7, <1>8 DEF Next
<1> QED
  BY <1>9, SMTT(30) DEF Kept

(* The queue, its fetchers and the processor implement BlockStream: blocks   *)
(* come out in order, once and complete, and success means all of them.      *)
THEOREM Implements == Spec => StreamSpec
<1> DEFINE outcome == CASE processor = "running" -> "running"
                        [] processor = "returned" /\ err = "none" -> "success"
                        [] OTHER -> "failure"
<1>1. Init => Stream!Init
  BY DEF Init, Stream!Init
<1>2. IInv /\ [Next]_vars => [Stream!Next]_<<out, outcome>>
  <2> SUFFICES ASSUME IInv, [Next]_vars PROVE Stream!Next \/ UNCHANGED <<out, outcome>>
    OBVIOUS
  <2>1. TypeOK /\ Ends /\ HandedOut
    BY DEF IInv
  <2>2. CASE WaitResults
    <3>1. /\ processor = "running"
          /\ UNCHANGED <<scheduled, headersDone, taskQueue, pend, busy, peers, fetch, err, closed>>
      BY <2>2 DEF WaitResults, headers
    <3>2. PICK n \in 0..CacheLimit :
            /\ IsCount(n)
            /\ IF n > 0
               THEN TakeResults(n) /\ UNCHANGED <<wake, processor>>
               ELSE UNCHANGED <<out, done, cache, offset>>
      BY <2>2, ZenonT(40) DEF WaitResults
    <3>3. out = [i \in 1..(offset - 1) |-> [number |-> i, parts |-> Content(i)]]
          /\ offset - 1 \in Nat /\ Len(out) = offset - 1
      BY <2>1 DEF HandedOut, TypeOK
    <3>4. CASE n > 0
      <4>1. n \in Nat \ {0} /\ TakeResults(n) /\ UNCHANGED processor
        BY <3>2, <3>4, SizeAssumption
      <4>2. /\ offset + n - 1 <= Height
            /\ out' = out \o [i \in 1..n |-> [number |-> offset - 1 + i,
                                              parts |-> Content(offset - 1 + i)]]
        BY <3>1, <3>2, <4>1, TakeResultsIInv
      <4>3. n \in 1..(Height - Len(out))
        BY <2>1, <3>3, <4>1, <4>2, SizeAssumption DEF TypeOK
      <4>4. out' = out \o [i \in 1..n |-> Stream!Complete(Len(out) + i)]
        BY <3>3, <4>2, ZenonT(30) DEF Stream!Complete
      <4>5. UNCHANGED outcome
        BY <3>1, <4>1
      <4> QED
        BY <4>3, <4>4, <4>5 DEF Stream!Next, Stream!HandOut
    <3>5. CASE n = 0
      <4>1. UNCHANGED out
        BY <3>2, <3>5
      <4>2. CASE processor' = processor
        BY <3>1, <4>1, <4>2
      <4>3. CASE processor' # processor /\ err = "none"
        <5>1. processor' = "returned" /\ offset' = Height + 1
          BY <2>2, <3>1, <4>3, WaitResultsIInv, ZenonT(40) DEF IInv, Ends, TypeOK, Running
        <5>2. offset' = offset
          BY <3>2, <3>5
        <5>3. Len(out) = Height
          BY <3>3, <5>1, <5>2, SizeAssumption
        <5>4. outcome = "running" /\ outcome' = "success"
          BY <3>1, <4>3, <5>1
        <5> QED
          BY <4>1, <5>3, <5>4, SMTT(30) DEF Stream!Next, Stream!Succeed
      <4>4. CASE processor' # processor /\ err # "none"
        <5>1. processor' # "running"
          BY <3>1, <4>4
        <5>2. outcome = "running" /\ outcome' = "failure"
          BY <3>1, <4>4, <5>1
        <5> QED
          BY <4>1, <5>2 DEF Stream!Next, Stream!Fail
      <4> QED
        BY <4>2, <4>3, <4>4
    <3> QED
      BY <3>4, <3>5, SizeAssumption
  <2>3. CASE ~WaitResults
    <3>1. /\ UNCHANGED <<out, processor>>
          /\ ~Running \/ (\A k \in Kind : fetch[k].pc = "done") => UNCHANGED err
      BY <2>3, OthersKeep, Zenon DEF vars
    <3>2. processor = "returned" => UNCHANGED err
      BY <2>1, <3>1 DEF Ends
    <3>3. UNCHANGED outcome
      BY <2>1, <3>1, <3>2 DEF TypeOK
    <3> QED
      BY <3>1, <3>3, SMTT(30)
  <2> QED
    BY <2>2, <2>3
<1> QED
  BY <1>1, <1>2, Inductive, PTL DEF Spec, StreamSpec, Stream!Spec
=============================================================================
