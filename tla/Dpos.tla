-------------------------------- MODULE Dpos --------------------------------
(***************************************************************************)
(* Nodes that mint, exchange and import blocks under the DPoS engine:      *)
(* consensus/dpos/dpos.go, the minting path of miner/worker.go, the import *)
(* path of core/blockchain.go and the SetValidator transaction of          *)
(* core/state_processor.go.                                                *)
(*                                                                         *)
(* A block is the sequence of headers from genesis to itself, so a block   *)
(* is its own ancestry and its hash is its value; the block number is the  *)
(* length minus one and, difficulty being 1, so is the total difficulty.   *)
(***************************************************************************)
EXTENDS DposContext, FiniteSetsExt

CONSTANTS
    Miners,          \* nodes with mining enabled once they hold block 1
    Founders,        \* the miners that mine from genesis
    StartupDone,     \* addValidator was called before miner.start (startup.md), so
                     \* that its transaction is pending when block 1 is assembled
    GenesisTime,
    ConsensusSize,   \* distinct validators that confirm a header
    NoNode, NoTx, NoBlock,
    MaxTime, MaxLen, MaxLag, MaxCrashes   \* bounds, see README

ASSUME NodeAssumption == Founders \subseteq Miners /\ Miners \subseteq Node /\ NoNode \notin Node
ASSUME TimeAssumption == GenesisTime \in Nat /\ MaxLag \in Nat
ASSUME ConsensusAssumption == ConsensusSize \in Nat \ {0}

VARIABLES
    now,        \* the clock (seconds); the nodes' clocks agree
    head,       \* head[n]: BlockChain.currentBlock
    known,      \* known[n]: blocks in the chain database
    mint,       \* mint[n]: mintLoop's phase: idle, work (checks passed), seal
    recv,       \* recv[n]: worker.recv, sealed blocks waiting to be written
    events,     \* nodes whose update loop has a ChainHeadEvent to take
    net,        \* blocks announced to the peers
    conf,       \* conf[n]: Dpos.confirmedBlockHeader, NoBlock when nil
    confDb,     \* confDb[n]: the stored hash of it, NoBlock when absent
    crashes

vars == <<now, head, known, mint, recv, events, net, conf, confDb, crashes>>

Idle(t) == [phase |-> "idle", at |-> t, block |-> NoBlock]
Restarted == Idle(-1)

Tx == [from : Node, to : Node]      \* a SetValidator transaction

Genesis == <<[time |-> GenesisTime, validator |-> NoNode, tx |-> NoTx,
              ctx |-> EmptyContext]>>

HeaderOf(b) == b[Len(b)]

Number(b) == Len(b) - 1

Parent(b) == SubSeq(b, 1, Len(b) - 1)

Ancestor(a, b) == Len(a) <= Len(b) /\ a = SubSeq(b, 1, Len(a))

-----------------------------------------------------------------------------
(* Transactions and block assembly. *)

(* validatorTransaction: with an empty list the transaction is accepted only  *)
(* while the executing node's own head is block 0; otherwise only from the    *)
(* producer of the slot counted from genesis.                                 *)
TxValid(ctx, time, headNumber, tx) ==
    LET p == GetProducer(ctx, time, GenesisTime)
    IN  tx # NoTx => IF p = ErrInvalidProducer THEN headNumber = 0 ELSE p = tx.from

(* Mutant of ApplyTx: the new validator joins the old ones. *)
ApplyTxNoClean(ctx, tx) == IF tx = NoTx THEN ctx ELSE InsertValidator(ctx, tx.to)

ApplyTx(ctx, tx) ==
    IF tx = NoTx THEN ctx ELSE InsertValidator(Clean(ctx), tx.to)

(* Process and Finalize: the context the block's header commits to. *)
FinalContext(parent, time, validator, tx) ==
    UpdateMintCnt(ApplyTx(HeaderOf(parent).ctx, tx), HeaderOf(parent).time, time, validator)

Extend(parent, time, validator, tx) ==
    Append(parent, [time |-> time, validator |-> validator, tx |-> tx,
                    ctx |-> FinalContext(parent, time, validator, tx)])

-----------------------------------------------------------------------------
(* Minting. *)

IsSlot(t) == ((t - GenesisTime) % EpochInterval) % ProducerInterval = 0

(* CheckDeadline(lastBlock, t, genesis time) = nil *)
CheckDeadline(last, t) ==
    LET prevSlot == PrevSlot(t - GenesisTime) + GenesisTime
        nextSlot == NextSlot(t - GenesisTime) + GenesisTime
    IN  /\ HeaderOf(last).time < nextSlot
        /\ IsSlot(t)
        /\ HeaderOf(last).time = prevSlot \/ nextSlot - t <= 1

(* Mutant of CheckProducer: any signer passes on a slot. *)
CheckProducerAnyone(last, t, n) ==
    GetProducer(HeaderOf(last).ctx, t, GenesisTime) # ErrInvalidProducerTime

(* CheckProducer(lastBlock, t, genesis time) = nil for the signer n *)
CheckProducer(last, t, n) == GetProducer(HeaderOf(last).ctx, t, GenesisTime) = n

(* The first half of mintBlock, run once per second on a tick of mintLoop.    *)
(* With no producer listed every miner may mint: Boker.IsValidator always     *)
(* answers true.                                                              *)
MintCheck(n) ==
    /\ n \in IF Number(head[n]) = 0 THEN Founders ELSE Miners
    /\ mint[n].phase = "idle" /\ mint[n].at < now
    /\ Len(head[n]) < MaxLen
    /\ CheckDeadline(head[n], now)
    /\ Len(HeaderOf(head[n]).ctx.validators) > 0 => CheckProducer(head[n], now, n)
    /\ mint' = [mint EXCEPT ![n] = [phase |-> "work", at |-> now, block |-> NoBlock]]
    /\ UNCHANGED <<now, head, known, recv, events, net, conf, confDb, crashes>>

(* createNewWork: reads the clock and the head again. *)
Stamp(parent, t) == IF HeaderOf(parent).time >= t THEN HeaderOf(parent).time + 1 ELSE t

(* commitTransactions: a pending transaction that fails is skipped, and the   *)
(* block is assembled without it.                                             *)
Included(parent, time, tx) ==
    IF TxValid(HeaderOf(parent).ctx, time, Number(parent), tx) THEN tx ELSE NoTx

NewWork(parent, time, n, tx) == Extend(parent, time, n, Included(parent, time, tx))

CreateNewWork(n) ==
    /\ mint[n].phase = "work"
    /\ \E tx \in Tx \cup {NoTx} :
          /\ StartupDone /\ Number(head[n]) = 0 => tx # NoTx
          /\ mint' = [mint EXCEPT ![n] =
                [phase |-> "seal", at |-> now,
                 block |-> NewWork(head[n], Stamp(head[n], now), n, tx)]]
    /\ UNCHANGED <<now, head, known, recv, events, net, conf, confDb, crashes>>

(* Seal: waits for the next slot (there is no wait on a slot) and signs; the *)
(* header keeps the time createNewWork gave it.                              *)
Seal(n) ==
    /\ mint[n].phase = "seal"
    /\ NextSlot(now - GenesisTime) + GenesisTime - now = 0
    /\ recv' = [recv EXCEPT ![n] = Append(@, [block |-> mint[n].block, at |-> now])]
    /\ mint' = [mint EXCEPT ![n] = Idle(now)]
    /\ UNCHANGED <<now, head, known, events, net, conf, confDb, crashes>>

(* The update loop takes a ChainHeadEvent and closes quitCh: a Seal that      *)
(* waits drops its work. The event may be that of the very head the work is   *)
(* built on.                                                                  *)
Waits(n) ==
    mint[n].phase = "seal" /\ NextSlot(now - GenesisTime) + GenesisTime > now

TakeHeadEvent(n) ==
    /\ n \in events
    /\ events' = events \ {n}
    /\ UNCHANGED <<now, head, known, recv, net, conf, confDb, crashes>>

SealInterrupted(n) ==
    /\ TakeHeadEvent(n) /\ Waits(n)
    /\ mint' = [mint EXCEPT ![n] = Idle(now)]

EventIgnored(n) == TakeHeadEvent(n) /\ ~Waits(n) /\ UNCHANGED mint

(* WriteBlockAndState: the longer chain wins, a tie is a coin toss. A new     *)
(* head is told to the worker.                                               *)
NewHead(cur, b) ==
    CASE Len(b) > Len(cur) -> {b}
      [] Len(b) = Len(cur) -> {b, cur}
      [] OTHER             -> {cur}

WriteBlockAndState(n, b) ==
    /\ known' = [known EXCEPT ![n] = @ \cup {b}]
    /\ \E h \in NewHead(head[n], b) :
          /\ head' = [head EXCEPT ![n] = h]
          /\ events' = IF h = b THEN events \cup {n} ELSE events

(* worker.wait: a sealed block is written, without any verification, and     *)
(* announced.                                                                *)
WriteMined(n) ==
    /\ recv[n] # <<>>
    /\ WriteBlockAndState(n, recv[n][1].block)
    /\ net' = net \cup {recv[n][1].block}
    /\ recv' = [recv EXCEPT ![n] = Tail(@)]
    /\ UNCHANGED <<now, mint, conf, confDb, crashes>>

-----------------------------------------------------------------------------
(* Import. *)

(* Mutant of VerifyHeader: a block exactly one slot after its parent is early. *)
VerifyHeaderStrict(n, b) ==
    /\ HeaderOf(b).time <= now
    /\ Parent(b) \in known[n]
    /\ HeaderOf(Parent(b)).time + ProducerInterval < HeaderOf(b).time

(* verifyHeader = nil. A header of the future is queued and retried once its *)
(* time has come, so its import simply is not possible before.               *)
VerifyHeader(n, b) ==
    /\ HeaderOf(b).time <= now
    /\ Parent(b) \in known[n]
    /\ HeaderOf(Parent(b)).time + ProducerInterval <= HeaderOf(b).time

(* Process, ValidateDposState: the transactions execute against the parent's *)
(* context, on a node whose head has number headNumber.                      *)
ProcessBlock(headNumber, b) ==
    LET h == HeaderOf(b)
        parent == Parent(b)
    IN  /\ TxValid(HeaderOf(parent).ctx, h.time, headNumber, h.tx)
        /\ FinalContext(parent, h.time, h.validator, h.tx) = h.ctx

(* verifySeal up to the confirmation: block 1 is not checked; the producer   *)
(* of any other block is looked up with the slots counted from its parent.   *)
VerifySeal(b) ==
    \/ Number(b) = 1
    \/ GetProducer(HeaderOf(Parent(b)).ctx, HeaderOf(b).time, HeaderOf(Parent(b)).time)
           = HeaderOf(b).validator

(* validatorMap when the loop of updateConfirmedBlockHeader reaches header i *)
(* of chain c: it is emptied whenever the epoch (counted from block 1)       *)
(* changes.                                                                  *)
ConfirmEpoch(c, i) == (c[i].time - c[2].time) \div EpochInterval

(* Mutant of ValidatorMap: the map survives the epoch boundary. *)
ValidatorMapNoReset(c, k) ==
    LET m[i \in k .. Len(c)] ==
            IF i = Len(c) THEN {} ELSE m[i + 1] \cup {c[i + 1].validator}
    IN  m

ValidatorMap(c, k) ==
    LET m[i \in k .. Len(c)] ==
            IF i = Len(c) \/ ConfirmEpoch(c, i) # ConfirmEpoch(c, i + 1)
            THEN {}
            ELSE m[i + 1] \cup {c[i + 1].validator}
    IN  m

(* The length of the prefix of c that becomes confirmed when k headers are.  *)
UpdateConfirmed(c, k, size) ==
    LET m == ValidatorMap(c, k + 1)
        FastReturn(i) == i - k < size - Cardinality(m[i])
        Reached(i) == Cardinality(m[i] \cup {c[i].validator}) >= size
        stops == {i \in k + 1 .. Len(c) : FastReturn(i) \/ Reached(i)}
    IN  IF Len(c) <= k \/ Len(c) < 2 \/ stops = {} THEN k
        ELSE IF FastReturn(Max(stops)) THEN k ELSE Max(stops)

(* updateConfirmedBlockHeader: loads the stored header when none is in       *)
(* memory, falls back to genesis, and stores a header it confirms.           *)
ConfirmBase(n) ==
    IF conf[n] # NoBlock THEN conf[n]
    ELSE IF confDb[n] # NoBlock THEN confDb[n] ELSE Genesis

UpdateConfirmedBlockHeader(n) ==
    LET base == ConfirmBase(n)
        k == UpdateConfirmed(head[n], Len(base), ConsensusSize)
    IN  IF k = Len(base) THEN base ELSE SubSeq(head[n], 1, k)

StoreConfirmedBlockHeader(n) ==
    LET c == UpdateConfirmedBlockHeader(n)
    IN  confDb' = IF c = ConfirmBase(n) THEN confDb ELSE [confDb EXCEPT ![n] = c]

(* insertChain of one announced block. A block that fails a check changes     *)
(* nothing.                                                                  *)
InsertBlock(n, b) ==
    /\ b \in net \ known[n]
    /\ VerifyHeader(n, b)
    /\ ProcessBlock(Number(head[n]), b)
    /\ VerifySeal(b)
    /\ conf' = [conf EXCEPT ![n] = UpdateConfirmedBlockHeader(n)]
    /\ StoreConfirmedBlockHeader(n)
    /\ WriteBlockAndState(n, b)
    /\ UNCHANGED <<now, mint, recv, net, crashes>>

-----------------------------------------------------------------------------
(* Crashes. The chain database keeps the head, the blocks and the stored      *)
(* confirmed header; everything else is memory.                              *)
LoseMemory(n) ==
    /\ crashes < MaxCrashes
    /\ crashes' = crashes + 1
    /\ mint' = [mint EXCEPT ![n] = Restarted]
    /\ recv' = [recv EXCEPT ![n] = <<>>]
    /\ events' = events \ {n}
    /\ conf' = [conf EXCEPT ![n] = NoBlock]
    /\ UNCHANGED <<now, net, head>>

Crash(n) == LoseMemory(n) /\ UNCHANGED <<known, confDb>>

(* WriteBlockAndState writes the block in a batch before bc.insert moves the *)
(* head: a crash in between leaves a block that is known but not the head.   *)
CrashWritingMined(n) ==
    /\ recv[n] # <<>>
    /\ known' = [known EXCEPT ![n] = @ \cup {recv[n][1].block}]
    /\ LoseMemory(n)
    /\ UNCHANGED confDb

CrashInserting(n, b) ==
    /\ b \in net \ known[n]
    /\ VerifyHeader(n, b)
    /\ ProcessBlock(Number(head[n]), b)
    /\ VerifySeal(b)
    /\ StoreConfirmedBlockHeader(n)
    /\ known' = [known EXCEPT ![n] = @ \cup {b}]
    /\ LoseMemory(n)

-----------------------------------------------------------------------------
(* The clock. MaxLag bounds how long a node takes from the tick to           *)
(* createNewWork and from a sealed block to its write; Seal's timer is       *)
(* prompt.                                                                   *)
Tick ==
    /\ now < MaxTime
    /\ \A n \in Node :
          /\ mint[n].phase = "work" => now - mint[n].at < MaxLag
          /\ mint[n].phase = "seal" => NextSlot(now - GenesisTime) # now - GenesisTime
          /\ recv[n] # <<>> => now - recv[n][1].at < MaxLag
    /\ now' = now + 1
    /\ UNCHANGED <<head, known, mint, recv, events, net, conf, confDb, crashes>>

Init ==
    /\ now = GenesisTime
    /\ head = [n \in Node |-> Genesis]
    /\ known = [n \in Node |-> {Genesis}]
    /\ mint = [n \in Node |-> Restarted]
    /\ recv = [n \in Node |-> <<>>]
    /\ events = {}
    /\ net = {}
    /\ conf = [n \in Node |-> NoBlock]
    /\ confDb = [n \in Node |-> NoBlock]
    /\ crashes = 0

Next ==
    \/ Tick
    \/ \E n \in Node : MintCheck(n) \/ CreateNewWork(n) \/ Seal(n)
                        \/ SealInterrupted(n) \/ EventIgnored(n) \/ WriteMined(n)
                        \/ Crash(n) \/ CrashWritingMined(n)
    \/ \E n \in Node : \E b \in net : InsertBlock(n, b) \/ CrashInserting(n, b)

Spec == Init /\ [][Next]_vars

(* The goroutines of mintLoop, of wait and of the block fetcher keep running, *)
(* and so does the clock.                                                     *)
MintLoop(n) == MintCheck(n) \/ CreateNewWork(n) \/ Seal(n)

Fairness ==
    /\ WF_vars(Tick)
    /\ \A n \in Node :
          /\ WF_vars(MintLoop(n))
          /\ WF_vars(WriteMined(n))
          /\ WF_vars(\E b \in net : InsertBlock(n, b))

FairSpec == Spec /\ Fairness

-----------------------------------------------------------------------------
(* Properties. *)

IsContext(c) ==
    /\ c.validators \in Seq(Node)
    /\ c.trie \subseteq Node
    /\ \A k \in DOMAIN c.cnt : k \in Nat \X Node /\ c.cnt[k] \in Nat \ {0}

IsBlock(b) ==
    /\ Len(b) >= 1 /\ b[1] = Genesis[1]
    /\ \A i \in 2 .. Len(b) :
          /\ b[i].time \in Nat /\ b[i].validator \in Node
          /\ b[i].tx \in Tx \cup {NoTx}
          /\ IsContext(b[i].ctx)

(* Every variable has its type, and a node's head is a block it has stored   *)
(* (BlockChain.currentBlock is always in the chain database).                *)
TypeOK ==
    /\ now \in Nat /\ crashes \in 0 .. MaxCrashes
    /\ \A n \in Node :
          /\ head[n] \in known[n] /\ \A b \in known[n] : IsBlock(b)
          /\ mint[n].phase \in {"idle", "work", "seal"}
          /\ mint[n].phase = "seal" => IsBlock(mint[n].block)
          /\ \A i \in DOMAIN recv[n] : IsBlock(recv[n][i].block)
          /\ {conf[n], confDb[n]} \subseteq known[n] \cup {NoBlock}
    /\ \A b \in net : IsBlock(b)

Blocks == UNION {known[n] : n \in Node}

(* The block-count trie of every stored block counts exactly the blocks of   *)
(* its own ancestry, per epoch and validator, although updateMintCnt only    *)
(* ever compares the block with its parent and restarts at one when the      *)
(* epoch changes.                                                            *)
Minted(b, k) == {i \in 2 .. Len(b) : <<Epoch(b[i].time), b[i].validator>> = k}

MintCntExact ==
    \A b \in Blocks :
       LET cnt == HeaderOf(b).ctx.cnt
       IN  /\ \A i \in 2 .. Len(b) : <<Epoch(b[i].time), b[i].validator>> \in DOMAIN cnt
           /\ \A k \in DOMAIN cnt : cnt[k] = Cardinality(Minted(b, k))

(* In every stored block the validator trie holds a record for exactly the   *)
(* validators of the epoch list: Clean and InsertValidator keep the two      *)
(* tries of the context in step, through any sequence of SetValidator        *)
(* transactions.                                                             *)
ListMatchesTrie ==
    \A b \in Blocks : HeaderOf(b).ctx.trie = Listed(HeaderOf(b).ctx)

(* createNewWork reads the clock again after mintBlock has checked the slot: *)
(* a block of a slow node may carry a time off every slot.                   *)
OnSlot(b) ==
    \A i \in 2 .. Len(b) : (b[i].time - GenesisTime) % ProducerInterval = 0

Punctual == \A b \in Blocks : OnSlot(b)

(* The first block set the validator. It does when it is on a slot: stamped  *)
(* late it is assembled without the transaction, which is refused off a slot *)
(* (GetProducer), the list stays empty and every miner may extend it.        *)
Started == \A b \in net : b[2].tx # NoTx

(* Nodes never hold diverging chains: of any two heads one extends the other,*)
(* whatever the order in which blocks are minted, delivered, imported or     *)
(* lost in crashes, across a change of the validator, and also when a slow   *)
(* node's block carries a time off the slots (mintBlock, createNewWork),     *)
(* unless that is the first block and it set no validator.                   *)
OneChain ==
    Started =>
       \A m, n \in Node : Ancestor(head[m], head[n]) \/ Ancestor(head[n], head[m])

(* A confirmed header, in memory or stored, is on the node's canonical chain *)
(* and stays there: confirmation is never undone by an import or a restart   *)
(* (updateConfirmedBlockHeader).                                             *)
ConfirmedFinal ==
    \A n \in Node : \A c \in {conf[n], confDb[n]} \ {NoBlock} : Ancestor(c, head[n])

(* A block its minter wrote without verification is one that every peer     *)
(* accepts, however late it was written, if it and its ancestors are on a    *)
(* slot: verifySeal, which counts the slots from the parent and not from     *)
(* genesis, names its minter; verifyHeader does not find it too close to its *)
(* parent; and at any node that has the parent and not the block, wherever   *)
(* that node's own head is, validatorTransaction accepts its transaction and *)
(* the context comes out as the header says.                                 *)
PeersAccept ==
    \A b \in {x \in net : OnSlot(x)} :
       /\ VerifySeal(b)
       /\ HeaderOf(Parent(b)).time + ProducerInterval <= HeaderOf(b).time
       /\ \A n \in Node :
             Parent(b) \in known[n] /\ b \notin known[n] => ProcessBlock(Number(head[n]), b)

(* The reference for updateConfirmedBlockHeader: the longest prefix of c     *)
(* beyond k that is backed by size distinct validators among its             *)
(* last header and the later headers of the same epoch.                      *)
Backing(c, i) ==
    {c[j].validator : j \in {x \in i .. Len(c) : ConfirmEpoch(c, x) = ConfirmEpoch(c, i)}}

Confirmable(c, k, size) ==
    {i \in k + 1 .. Len(c) : Cardinality(Backing(c, i)) >= size}

(* The loop of updateConfirmedBlockHeader with its fast return and its map   *)
(* that is emptied at every epoch boundary confirms the header the reference *)
(* names, for every stored chain, every header confirmed so far and every    *)
(* number of validators that a confirmation may take.                        *)
ConfirmsReference ==
    \A b \in Blocks : \A k \in 1 .. Len(b), size \in 1 .. Cardinality(Node) :
       UpdateConfirmed(b, k, size) =
          IF Confirmable(b, k, size) = {} THEN k ELSE Max(Confirmable(b, k, size))

(* Every announced block ends up stored at every node (insertChain, also of  *)
(* a node that was restarted), as long as every block is on a slot.          *)
BlocksSpread == <>[](Punctual => \A n \in Node : net \subseteq known[n])
=============================================================================
