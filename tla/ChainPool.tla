----------------------------- MODULE ChainPool ------------------------------
(***************************************************************************)
(* The transaction pool of a node that follows its chain.  Of the chain    *)
(* the pool sees what ChainHeads promises (BlockChain implements it):      *)
(* TxPool.loop compares the block of a head event with the one of the last *)
(* event and calls reset.  A restart builds the pool anew, from the head   *)
(* and the journal.                                                        *)
(*                                                                         *)
(*   pool   the pool, a record of TxPool; it was reset to the block told   *)
(*   calls  transactions offered and prices set so far                     *)
(***************************************************************************)
EXTENDS ChainHeads, TxPool

CONSTANTS TxsOf,      \* the transactions of every block, in their order
          Funds,      \* balance of every account in the genesis state
          GasPrices,  \* prices the operator may set; the lowest is set at start
          DeepReorg,  \* difference in height above which nothing is reinjected
          MaxCalls,
          MaxCrashes

VARIABLES pool, calls, crashes

vars == <<headVars, pool, calls, crashes>>

\* A block with its ancestors.
Chain[b \in Block] == {b} \cup (IF b = Genesis THEN {} ELSE Chain[Parent[b]])

Txs(B) == UNION {ToSet(TxsOf[b]) : b \in B}

\* The state of block b: a transaction raises its sender's nonce and costs.
StateAt(b) ==
    LET spent(a) == {t \in Txs(Chain[b]) : t.from = a}
    IN [nonce   |-> [a \in Account |-> Cardinality(spent(a))],
        balance |-> [a \in Account |->
                        Funds[a] - MapThenSumSet(LAMBDA t : t.cost, spent(a))]]

Orders == SetToSeqs(Account)

PoolInit ==
    /\ Init
    /\ pool = EmptyPool(StateAt(Genesis), Min(GasPrices), {})
    /\ calls = 0
    /\ crashes = 0

\* Mutant of Reinject: the difference is taken the wrong way round.
ReinjectIncluded(old, new) ==
    LET joined == SetToSortSeq(Chain[new] \ Chain[old],
                               LAMBDA a, b : Number[a] > Number[b])
        included == FlattenSeq([i \in DOMAIN joined |-> TxsOf[joined[i]]])
        discarded == Txs(Chain[old] \ Chain[new])
    IN SelectSeq(included, LAMBDA t : t \notin discarded)

\* The transactions of the blocks that left the chain, the newest block first,
\* without those the new chain contains too.
Reinject(old, new) ==
    LET left == SetToSortSeq(Chain[old] \ Chain[new],
                             LAMBDA a, b : Number[a] > Number[b])
        discarded == FlattenSeq([i \in DOMAIN left |-> TxsOf[left[i]]])
        included == Txs(Chain[new] \ Chain[old])
    IN SelectSeq(discarded, LAMBDA t : t \notin included)

Distance(a, b) == Max({Number[a] - Number[b], Number[b] - Number[a]})

\* The loop takes a head event.
HeadEvent ==
    \E new \in posts, order \in Orders :
        /\ Deliver(new)
        /\ pool' = Reset(pool,
                         IF Parent[new] = told \/ Distance(told, new) > DeepReorg
                           THEN <<>>
                           ELSE Reinject(told, new),
                         StateAt(new), order)
        /\ UNCHANGED <<calls, crashes>>

Call == /\ calls < MaxCalls
        /\ calls' = calls + 1
        /\ UNCHANGED <<headVars, crashes>>

AddRemote ==
    /\ Call
    /\ \E t \in Tx, order \in Orders : pool' = AddTx(pool, t, FALSE, order)

AddLocal ==
    /\ Call
    /\ \E t \in Tx, order \in Orders : pool' = AddTx(pool, t, TRUE, order)

SetPrice ==
    /\ Call
    /\ \E price \in GasPrices : pool' = SetGasPrice(pool, price)

\* The eviction timer: the accounts with the latest heartbeats are fresh.
EvictTimer ==
    /\ \E n \in 0..Len(pool.beats), order \in Orders :
         pool' = Evict(pool, ToSet(SubSeq(pool.beats, n + 1, Len(pool.beats))), order)
    /\ UNCHANGED <<headVars, calls, crashes>>

JournalTimer ==
    /\ pool' = Rotate(pool)
    /\ UNCHANGED <<headVars, calls, crashes>>

\* A crash at any point.  The journal is read in the order of the file, which
\* is that of arrival or of a map.
Crash ==
    /\ crashes < MaxCrashes
    /\ crashes' = crashes + 1
    /\ \E b \in Block, order \in Orders, txs \in SetToSeqs(pool.journal) :
         /\ top' = b
         /\ pool' = NewTxPool(StateAt(b), Min(GasPrices), txs, order)
    /\ Restart
    /\ UNCHANGED calls

PoolNext ==
    \/ (NewBlock \/ AnnounceTop) /\ UNCHANGED <<pool, calls, crashes>>
    \/ HeadEvent \/ AddRemote \/ AddLocal \/ SetPrice
    \/ EvictTimer \/ JournalTimer \/ Crash

PoolSpec == PoolInit /\ [][PoolNext]_vars

-----------------------------------------------------------------------------
(* Properties *)

\* The pool knows exactly the transactions of its lists, and no nonce of an
\* account twice, as long as removeTx leaked nothing (add, enqueueTx, promoteTx,
\* removeTx, demoteUnexecutables keep all, pending and queue in step).
PoolAccounted ==
    ~pool.leaked =>
        /\ pool.all = pool.pending \cup pool.queue
        /\ \A s, t \in pool.all :
              s.from = t.from /\ s.nonce = t.nonce => s = t

\* The pending transactions of an account can be executed one after the other
\* from the state the pool was reset to, and pendingState is the nonce after the
\* last of them (what validateTxPoolInternals of the tests asks for).
PendingExecutable ==
    \A a \in Account :
        LET nonces == {t.nonce : t \in Of(pool.pending, a)}
            first == pool.state.nonce[a]
        IN /\ nonces = first..(first + Cardinality(nonces) - 1)
           /\ IF nonces = {} THEN pool.nonce[a] <= first
                             ELSE pool.nonce[a] = first + Cardinality(nonces)

\* No transaction waits in the queue that could be executed at once: whatever
\* made it executable also promoted it (promoteExecutables).
NoneForgotten ==
    \A t \in pool.queue : t.nonce > pool.nonce[t.from]

\* A queue at its limit may drop any transaction.
Crowded(p) ==
    \/ Cardinality(p.queue) >= GlobalQueue
    \/ \E a \in Account : Cardinality(Of(p.queue, a)) >= AccountQueue

\* A reset loses no transaction of the blocks that left the chain: it is in the
\* pool, or another transaction took its nonce, or it is not valid any more, or
\* the pool ran full, where the transactions the new blocks contain still count
\* (reset reinjects before demoteUnexecutables).
ReorgKeepsTxs ==
    [][LET lost == Txs(Chain[told]) \ Txs(Chain[told'])
       IN \A t \in lost :
            \/ Same(pool'.all, t) # {}
            \/ ~ValidateTx(pool', t, FALSE)
            \/ t.cost > pool'.state.balance[t.from]
            \/ Cardinality(pool.all) + Cardinality(lost) > GlobalSlots
            \/ Crowded(pool')
            \/ crashes' # crashes]_vars

=============================================================================
