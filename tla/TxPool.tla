------------------------------- MODULE TxPool -------------------------------
(***************************************************************************)
(* The transaction pool of core/tx_pool.go with its nonce-sorted lists,    *)
(* its price heap (core/tx_list.go) and its journal (core/tx_journal.go).  *)
(*                                                                         *)
(* Every handler of the pool runs under pool.mu, so a handler is a         *)
(* function from one value of the pool to the next.  The pool is a record: *)
(*                                                                         *)
(*   pending, queue  the transactions of the per-account lists             *)
(*   all             the transactions known by hash                        *)
(*   items, stales   the price heap, as a bag, and its counter of entries  *)
(*                   whose transaction is no longer in all                 *)
(*   nonce           pendingState: the next nonce of every account         *)
(*   beats           the accounts with a heartbeat, oldest first           *)
(*   locals          the accounts exempt from the price and size limits    *)
(*   gasPrice        the lowest price accepted from a remote account       *)
(*   state           currentState: nonce and balance of every account      *)
(*   journal         the transactions in the journal file                  *)
(*   leaked          history: removeTx lost track of a transaction         *)
(*                                                                         *)
(* A transaction is a record [from, nonce, price, cost, base]; base marks  *)
(* the transactions of a base contract, which are validated by their nonce *)
(* alone.  Prices are distinct, so the heap's order is the price order.    *)
(* The gas limit, a second bound beside the balance in every test of the   *)
(* balance, is left out.                                                   *)
(***************************************************************************)
EXTENDS Integers, FiniteSets, Sequences, FiniteSetsExt, SequencesExt

CONSTANTS Account, Tx, PriceBump, AccountSlots, GlobalSlots, AccountQueue,
          GlobalQueue

ASSUME PricesDistinct ==
    \A s, t \in Tx : s.price = t.price => s = t

Slots == GlobalSlots + GlobalQueue

\* A price above all others: no limit.
Dear == 1 + (CHOOSE t \in Tx : \A s \in Tx : s.price <= t.price).price

Of(S, a) == {t \in S : t.from = a}

\* The transaction of a list that has the sender and the nonce of t, as a set.
Same(S, t) == {s \in S : s.from = t.from /\ s.nonce = t.nonce}

ByNonce(S) == SetToSortSeq(S, LAMBDA s, t : s.nonce < t.nonce)

EmptyPool(state, gasPrice, journal) ==
    [pending  |-> {}, queue |-> {}, all |-> {},
     items    |-> [t \in Tx |-> 0], stales |-> 0,
     nonce    |-> state.nonce, beats |-> <<>>, locals |-> {},
     gasPrice |-> gasPrice, state |-> state, journal |-> journal,
     leaked   |-> FALSE]

-----------------------------------------------------------------------------
(* The price heap *)

Put(p, t) == [p EXCEPT !.items[t] = @ + 1]

Size(items) == MapThenSumSet(LAMBDA t : items[t], Tx)

\* Called after every removal from all: more than a quarter of the heap stale
\* and it is built anew.
Removed(p) ==
    IF p.stales + 1 <= Size(p.items) \div 4
      THEN [p EXCEPT !.stales = @ + 1]
      ELSE [p EXCEPT !.stales = 0,
                     !.items = [t \in Tx |-> IF t \in p.all THEN 1 ELSE 0]]

Forget(p, t) == Removed([p EXCEPT !.all = @ \ {t}])

ForgetAll(p, S) == FoldLeft(Forget, p, ByNonce(S))

Cheapest(S) == CHOOSE t \in S : \A s \in S : t.price <= s.price

\* Discard and Cap of the heap: pop entries in the order of their price, throw
\* the stale ones away, put those of local accounts back and drop the others,
\* until count are dropped or an entry costs limit.  A transaction with two
\* entries counts twice.
RECURSIVE Popped(_, _, _, _, _)
Popped(p, count, limit, kept, drop) ==
    LET left == {t \in Tx : p.items[t] > 0 /\ t \notin kept}
        t == Cheapest(left)
        popped == [p EXCEPT !.items[t] = @ - 1]
    IN IF count = 0 \/ left = {}
         THEN [pool |-> p, drop |-> drop]
       ELSE IF t \notin p.all
         THEN Popped([popped EXCEPT !.stales = @ - 1], count, limit, kept, drop)
       ELSE IF t.price >= limit
         THEN [pool |-> p, drop |-> drop]
       ELSE IF t.from \in p.locals
         THEN Popped(p, count, limit, kept \cup {t}, drop)
         ELSE Popped(popped, count - 1, limit, kept, Append(drop, t))

\* Underpriced also throws away the stale entries in front of the heap.
Trimmed(p) == Popped(p, 1, 0, {}, <<>>).pool

Underpriced(p, t) ==
    LET live == {s \in p.all : p.items[s] > 0}
    IN /\ t.from \notin p.locals
       /\ live # {}
       /\ Cheapest(live).price >= t.price

-----------------------------------------------------------------------------
(* Moving one transaction *)

\* txList.Add accepts a replacement only for a price higher by PriceBump per cent.
Better(t, old) ==
    /\ t.price > old.price
    /\ t.price >= (old.price * (100 + PriceBump)) \div 100

Inserts(S, t) == \A old \in Same(S, t) : Better(t, old)

\* Mutant of EnqueueTx: the transaction replaced stays known.
EnqueueKeepsOld(p, t) ==
    IF ~Inserts(p.queue, t)
      THEN p
      ELSE Put([p EXCEPT !.queue = (@ \ Same(@, t)) \cup {t},
                         !.all = @ \cup {t}], t)

EnqueueTx(p, t) ==
    IF ~Inserts(p.queue, t)
      THEN p
      ELSE LET old == Same(p.queue, t)
               q == ForgetAll([p EXCEPT !.queue = (@ \ old) \cup {t}], old)
           IN Put([q EXCEPT !.all = @ \cup {t}], t)

EnqueueAll(p, S) == FoldLeft(EnqueueTx, p, ByNonce(S))

NoBeat(p, a) == [p EXCEPT !.beats = Remove(@, a)]

Lowered(p, a, n) == [p EXCEPT !.nonce[a] = IF @ > n THEN n ELSE @]

Later(p, t) == {s \in Of(p.pending, t.from) : s.nonce > t.nonce}

\* When the removed transaction t was the first of its pending list, the later
\* ones are neither pending nor queued afterwards, though still in all.
Requeue(p, t, later) ==
    IF Of(p.pending, t.from) = {}
      THEN [NoBeat(p, t.from) EXCEPT !.leaked = @ \/ later # {}]
      ELSE EnqueueAll(p, later)

\* The lists are searched by nonce.
RemoveTx(p, t) ==
    IF t \notin p.all
      THEN p
    ELSE IF Same(p.pending, t) = {}
      THEN [Forget(p, t) EXCEPT !.queue = @ \ Same(@, t)]
      ELSE Lowered(Requeue([Forget(p, t) EXCEPT
                               !.pending = @ \ (Same(@, t) \cup Later(p, t))],
                           t, Later(p, t)),
                   t.from, t.nonce)

Known(p, t) == IF t \in p.all THEN p ELSE Put([p EXCEPT !.all = @ \cup {t}], t)

PromoteTx(p, t) ==
    LET old == Same(p.pending, t)
        moved == [p EXCEPT !.pending = (@ \ old) \cup {t}]
    IN IF ~Inserts(p.pending, t)
         THEN Forget(p, t)
         ELSE [Known(ForgetAll(moved, old), t) EXCEPT
                  !.beats = Append(Remove(@, t.from), t.from),
                  !.nonce[t.from] = t.nonce + 1]

-----------------------------------------------------------------------------
(* promoteExecutables *)

\* txSortedMap.Ready: the run of consecutive nonces from the lowest one, when
\* that is not above start.
Ready(S, start) ==
    {t \in S : /\ \E s \in S : s.nonce <= start
               /\ \A s \in S : s.nonce < t.nonce =>
                     \A n \in s.nonce..t.nonce : \E r \in S : r.nonce = n}

\* The transactions txSortedMap.Cap removes: the highest nonces beyond limit.
Excess(S, limit) ==
    {t \in S : Cardinality({s \in S : s.nonce < t.nonce}) >= limit}

DropQueued(p, S) == ForgetAll([p EXCEPT !.queue = @ \ S], S)

QueuedOld(p, a) == {t \in Of(p.queue, a) : t.nonce < p.state.nonce[a]}

QueuedUnpayable(p, a) == {t \in Of(p.queue, a) : t.cost > p.state.balance[a]}

PromoteReady(p, ready) ==
    FoldLeft(PromoteTx, [p EXCEPT !.queue = @ \ ready], ByNonce(ready))

\* The executable transactions of a become pending, and the excess of a remote
\* account is dropped.
DropExcess(p, a) ==
    IF a \in p.locals THEN p ELSE DropQueued(p, Excess(Of(p.queue, a), AccountQueue))

PromoteQueue(p, a) ==
    DropExcess(PromoteReady(p, Ready(Of(p.queue, a), p.nonce[a])), a)

DropUnpayable(p, a) == DropQueued(p, QueuedUnpayable(p, a))

\* Before, old and then unpayable transactions leave the queue of a.
Promote(p, a) == PromoteQueue(DropUnpayable(DropQueued(p, QueuedOld(p, a)), a), a)

\* Each account of S loses its pending transaction with the highest nonce.
Shed(p, S) ==
    LET highest == {t \in p.pending : /\ t.from \in S
                                      /\ \A s \in Of(p.pending, t.from) :
                                            s.nonce <= t.nonce}
        One(q, t) == Lowered(Forget([q EXCEPT !.pending = @ \ {t}], t),
                             t.from, t.nonce)
    IN FoldLeft(One, p, SetToSeq(highest))

Overflows(p) == Cardinality(p.pending) > GlobalSlots

Pending(p, a) == Cardinality(Of(p.pending, a))

RECURSIVE Level(_, _, _)
Level(p, S, threshold) ==
    IF Overflows(p) /\ \E a \in S : Pending(p, a) > threshold
      THEN Level(Shed(p, S), S, threshold)
      ELSE p

\* The spammers join the offenders in the order of their pending lists, the
\* longest first; the offenders before are levelled to the one that joins, and
\* at the end all of them to AccountSlots, as long as the pool overflows.
RECURSIVE Penalize(_, _, _)
Penalize(p, offenders, spammers) ==
    IF Overflows(p) /\ spammers # {}
      THEN LET next == CHOOSE a \in spammers :
                         \A b \in spammers : Pending(p, a) >= Pending(p, b)
           IN Penalize(Level(p, offenders, Pending(p, next)),
                       offenders \cup {next}, spammers \ {next})
      ELSE Level(p, offenders, AccountSlots)

\* The queues of remote accounts are cut, the account that was active last
\* first, until drop transactions are gone.
RECURSIVE CutQueues(_, _, _)
CutQueues(p, addresses, drop) ==
    IF drop <= 0 \/ addresses = <<>>
      THEN p
      ELSE LET list == Of(p.queue, Last(addresses))
               size == Cardinality(list)
               gone == IF size <= drop
                         THEN ByNonce(list)
                         ELSE Reverse(ByNonce(Excess(list, size - drop)))
           IN CutQueues(FoldLeft(RemoveTx, p, gone), Front(addresses), drop - size)

PenalizeSpammers(p) ==
    Penalize(p, {}, {a \in Account \ p.locals : Pending(p, a) > AccountSlots})

\* The order resolves what the code leaves to the iteration over a map and to
\* an unstable sort.
LimitQueues(p, order) ==
    LET remote == {t.from : t \in p.queue} \ p.locals
        silent == SelectSeq(order, LAMBDA a : a \notin ToSet(p.beats))
        addresses == SelectSeq(silent \o p.beats, LAMBDA a : a \in remote)
    IN CutQueues(p, addresses, Cardinality(p.queue) - GlobalQueue)

PromoteExecutables(p, accounts, order) ==
    LimitQueues(PenalizeSpammers(
                    FoldLeft(Promote, p, SelectSeq(order, LAMBDA a : a \in accounts))),
                order)

-----------------------------------------------------------------------------
(* Accepting transactions *)

\* A transaction of a base contract is not asked for its price and its cost.
ValidateTx(p, t, local) ==
    /\ t.nonce >= p.state.nonce[t.from]
    /\ \/ t.base
       \/ /\ local \/ t.from \in p.locals \/ t.price >= p.gasPrice
          /\ t.cost <= p.state.balance[t.from]

\* A full pool refuses a transaction that is not dearer than its cheapest one,
\* and otherwise drops its cheapest ones to make room.
Rejects(p, t) == Cardinality(p.all) >= Slots /\ Underpriced(p, t)

DropCheapest(d) == FoldLeft(RemoveTx, d.pool, d.drop)

MadeRoom(p) ==
    IF Cardinality(p.all) < Slots
      THEN p
      ELSE DropCheapest(Popped(p, Cardinality(p.all) - (Slots - 1), Dear, {}, <<>>))

JournalTx(p, t) ==
    [p EXCEPT !.journal = IF t.from \in p.locals THEN @ \cup {t} ELSE @]

Fails(p) == [pool |-> p, ok |-> FALSE, replace |-> FALSE]

\* The transaction takes the place of a pending one, or is queued.  The sender
\* becomes local only when the transaction is queued.
ReplacePending(p, t) ==
    LET old == Same(p.pending, t)
        moved == [p EXCEPT !.pending = (@ \ old) \cup {t}]
    IN JournalTx(Put([ForgetAll(moved, old) EXCEPT !.all = @ \cup {t}], t), t)

EnqueueNew(p, t, local) ==
    JournalTx([EnqueueTx(p, t) EXCEPT
                  !.locals = IF local THEN @ \cup {t.from} ELSE @], t)

Place(p, t, local) ==
    IF Same(p.pending, t) # {}
      THEN IF Inserts(p.pending, t)
             THEN [pool |-> ReplacePending(p, t), ok |-> TRUE, replace |-> TRUE]
             ELSE Fails(p)
    ELSE IF Inserts(p.queue, t)
      THEN [pool |-> EnqueueNew(p, t, local), ok |-> TRUE,
            replace |-> Same(p.queue, t) # {}]
      ELSE Fails(p)

\* add: the pool, whether the transaction was accepted, whether it replaced
\* another.
Add(p, t, local) ==
    IF t \in p.all \/ ~ValidateTx(p, t, local)
      THEN Fails(p)
    ELSE IF Rejects(p, t)
      THEN Fails(Trimmed(p))
      ELSE Place(MadeRoom(p), t, local)

\* addTxsLocked: the senders of what was accepted and replaced nothing are
\* dirty, and their queues are looked at.
Added(dirty, r, t) ==
    [pool |-> r.pool,
     dirty |-> IF r.ok /\ ~r.replace THEN dirty \cup {t.from} ELSE dirty]

PromoteDirty(r, order) ==
    IF r.dirty = {} THEN r.pool ELSE PromoteExecutables(r.pool, r.dirty, order)

AddTxsLocked(p, txs, local, order) ==
    LET One(acc, t) == Added(acc.dirty, Add(acc.pool, t, local), t)
    IN PromoteDirty(FoldLeft(One, [pool |-> p, dirty |-> {}], txs), order)

AddTx(p, t, local, order) == PromoteDirty(Added({}, Add(p, t, local), t), order)

-----------------------------------------------------------------------------
(* A new head *)

\* Mutant of Demote: what follows an unpayable transaction stays pending.
DemoteUnpayable(p, a) ==
    LET gone == {t \in Of(p.pending, a) : \/ t.nonce < p.state.nonce[a]
                                        \/ t.cost > p.state.balance[a]}
    IN ForgetAll([p EXCEPT !.pending = @ \ gone], gone)

DropPending(p, S) == ForgetAll([p EXCEPT !.pending = @ \ S], S)

DemotePending(p, S) == EnqueueAll([p EXCEPT !.pending = @ \ S], S)

PendingOld(p, a) == {t \in Of(p.pending, a) : t.nonce < p.state.nonce[a]}

\* Those a cannot pay are dropped, what follows one is queued again.
DemoteUnpaid(p, a) ==
    LET list == Of(p.pending, a)
        unpayable == {t \in list : t.cost > p.state.balance[a]}
        invalid == {t \in list \ unpayable :
                       \E s \in unpayable : t.nonce > s.nonce}
    IN DemotePending(DropPending(p, unpayable), invalid)

\* A list that does not start at the account's nonce is queued as a whole.
DemoteGapped(p, a) ==
    IF \E t \in Of(p.pending, a) : t.nonce = p.state.nonce[a]
      THEN p
      ELSE DemotePending(p, Of(p.pending, a))

DemoteList(p, a) == DemoteGapped(DemoteUnpaid(p, a), a)

\* demoteUnexecutables for the pending list of a: old transactions are dropped
\* first, and an account without a list is not looked at.
Demote(p, a) ==
    LET Beatless(q) == IF Of(q.pending, a) = {} THEN NoBeat(q, a) ELSE q
    IN IF Of(p.pending, a) = {}
         THEN p
         ELSE Beatless(DemoteList(DropPending(p, PendingOld(p, a)), a))

\* pendingState after the demotion: the nonce after the last pending one.
WithNonces(p) ==
    [p EXCEPT !.nonce = [a \in Account |->
        IF Of(p.pending, a) = {} THEN p.nonce[a]
                                 ELSE 1 + Last(ByNonce(Of(p.pending, a))).nonce]]

AtState(p, state) == [p EXCEPT !.state = state, !.nonce = state.nonce]

Demoted(p, order) == WithNonces(FoldLeft(Demote, p, order))

PromoteAll(p, order) == PromoteExecutables(p, {t.from : t \in p.queue}, order)

\* Mutant of Reset: the queues are not looked at again.
ResetNoPromote(p, reinject, state, order) ==
    Demoted(AddTxsLocked(AtState(p, state), reinject, FALSE, order), order)

Reset(p, reinject, state, order) ==
    PromoteAll(Demoted(AddTxsLocked(AtState(p, state), reinject, FALSE, order), order),
               order)

-----------------------------------------------------------------------------
(* Timers, the operator, and a restart *)

SetGasPrice(p, price) ==
    DropCheapest(Popped([p EXCEPT !.gasPrice = price], Size(p.items) + 1,
                        price, {}, <<>>))

\* The eviction timer empties the queues of the remote accounts whose last
\* heartbeat is too old.  An account without one counts as too old.
Evict(p, fresh, order) ==
    LET old(a) == a \notin p.locals /\ a \notin fresh
        Emptied(q, a) == FoldLeft(RemoveTx, q, ByNonce(Of(q.queue, a)))
    IN FoldLeft(Emptied, p, SelectSeq(order, old))

LocalTxs(p) == {t \in p.pending \cup p.queue : t.from \in p.locals}

Rotate(p) == [p EXCEPT !.journal = LocalTxs(p)]

\* NewTxPool after a restart: an empty pool at the head takes the journal in.
\* Nothing is journaled while it loads; the file is written anew at the end.
NewTxPool(state, gasPrice, txs, order) ==
    LET Load(q, t) == AddTx(q, t, TRUE, order)
    IN Rotate(FoldLeft(Load, EmptyPool(state, gasPrice, {}), txs))

=============================================================================
