----------------------------- MODULE BlockChain -----------------------------
(***************************************************************************)
(* The canonical chain of core/blockchain.go: blocks are imported by       *)
(* InsertChain or written by the miner, a heavier side chain makes the     *)
(* chain reorganise, every write goes to the database on its own, the      *)
(* process may crash between two writes, and a restart reads the head back *)
(* with loadLastState.  Every block has difficulty one                     *)
(* (consensus/dpos), so the total difficulty of a block is its number.     *)
(*                                                                         *)
(* Persistent:                                                             *)
(*   stored   blocks with header, body, total difficulty and state         *)
(*   canon    number -> block of the canonical chain, or None              *)
(*   head     head block hash; bc.currentBlock is updated right after it   *)
(*   header   head header hash, with hc.currentHeader and the fast block   *)
(*   lookup   transaction -> block it is found in by its hash, or None     *)
(* In memory:                                                              *)
(*   writes   the database writes left of the WriteBlockAndState that      *)
(*            holds bc.mu                                                  *)
(*   todo     the blocks left of the InsertChain that holds bc.chainmu     *)
(*   busy     an InsertChain holds bc.chainmu                              *)
(*   last     the last block of that call that became canonical, or None   *)
(*   future   blocks kept for later since their time has not come          *)
(*   posts    blocks whose ChainHeadEvent is due, each in a goroutine      *)
(* History:                                                                *)
(*   announced, told   the blocks that got a ChainHeadEvent, and the one   *)
(*            of the last event delivered                                  *)
(*   torn     what a crash interrupted so far: 0 no write of a canonical   *)
(*            block, 1 one that extended the head, 2 a reorganisation      *)
(*   untold   the last event is not that of the head: an import failed     *)
(*            after it had moved the head, or an event overtook another    *)
(***************************************************************************)
EXTENDS Integers, FiniteSets, Sequences

CONSTANTS Block, Genesis, Parent, Number, TxsOf, ChainTx, None,
          Own,       \* blocks this node's miner may seal
          Bad,       \* blocks whose execution fails
          Early,     \* blocks that may arrive before their time
          MaxBatch,  \* longest chain given to InsertChain
          MaxCrashes

VARIABLES stored, canon, head, header, lookup, writes, todo, busy, last,
          future, posts, announced, told, torn, untold, crashes

database == <<stored, canon, head, header, lookup>>
vars == <<stored, canon, head, header, lookup, writes, todo, busy, last,
               future, posts, announced, told, torn, untold, crashes>>

ASSUME TreeAssumption ==
    /\ IsFiniteSet(Block) /\ Genesis \in Block /\ None \notin Block
    /\ Number \in [Block -> Nat] /\ Number[Genesis] = 0
    /\ Own \subseteq Block
    /\ \A b \in Block \ {Genesis} :
          Parent[b] \in Block /\ Number[b] = Number[Parent[b]] + 1

\* It is a tree: a chain of parents ends with genesis.
ASSUME RootAssumption ==
    \A S \in SUBSET Block :
        S # {} /\ (\A y \in S \ {Genesis} : Parent[y] \in S) => Genesis \in S

ASSUME BoundAssumption == {MaxBatch, MaxCrashes} \subseteq Nat

\* A block with its ancestors: the least set that holds it and the parents of
\* its members.
Chain ==
    [b \in Block |->
        {x \in Block : \A S \in SUBSET Block :
            b \in S /\ (\A y \in S \ {Genesis} : Parent[y] \in S) => x \in S}]

Txs(B) == UNION {{TxsOf[b][i] : i \in DOMAIN TxsOf[b]} : b \in B}

Height == {Number[b] : b \in Block}

\* Genesis and the blocks this node seals are valid, genesis is empty, and a
\* transaction executes once on a chain, since its nonce is spent then.
ASSUME ValidAssumption ==
    /\ (Own \cup {Genesis}) \cap Bad = {}
    /\ Txs({Genesis}) = {}
    /\ \A b \in Block : Chain[b] \cap Bad = {} =>
          \A x, y \in Chain[b] : Txs({x}) \cap Txs({y}) # {} => x = y

Init ==
    /\ stored = {Genesis}
    /\ canon = [n \in Height |-> IF n = 0 THEN Genesis ELSE None]
    /\ head = Genesis
    /\ header = Genesis
    /\ lookup = [t \in ChainTx |-> None]
    /\ writes = <<>> /\ todo = <<>> /\ busy = FALSE /\ last = None
    /\ future = {} /\ posts = {} /\ announced = {} /\ told = Genesis
    /\ torn = 0 /\ untold = FALSE /\ crashes = 0

-----------------------------------------------------------------------------
(* Writing a block *)

Op(op, b) == [op |-> op, block |-> b]

\* The blocks of b's chain that are not on the head's, and from b down to the
\* common block.
NewBlocks(b) == Chain[b] \ Chain[head]

CommonBlock(b) ==
    CHOOSE x \in Chain[b] \cap Chain[head] :
        \A y \in Chain[b] \cap Chain[head] : Number[y] <= Number[x]

NewChain(b) ==
    [i \in 1 .. Number[b] - Number[CommonBlock(b)] |->
        CHOOSE x \in Chain[b] : Number[x] = Number[b] + 1 - i]

\* Mutant of Reorg: the loop over the new chain stops one block early.
ReorgSkip(b) ==
    LET newChain == NewChain(b)
        deleted == Txs(Chain[head] \ Chain[b])
    IN [i \in 1..2 * (Len(newChain) - 1) |->
           Op(IF i % 2 = 1 THEN "insert" ELSE "lookup", newChain[(i + 1) \div 2])]
         \o <<[op |-> "unlook", block |-> b, txs |-> deleted \ Txs(NewBlocks(b))]>>

\* Mutant of Reorg: every transaction of the old chain loses its entry.
ReorgDeletesAll(b) ==
    LET newChain == NewChain(b)
        deleted == Txs(Chain[head] \ Chain[b])
    IN [i \in 1..2 * Len(newChain) |->
           Op(IF i % 2 = 1 THEN "insert" ELSE "lookup", newChain[(i + 1) \div 2])]
         \o <<[op |-> "unlook", block |-> b, txs |-> deleted]>>

\* The reorganisation from the head to block b: its chain is inserted from b
\* down to the first block off the old chain, each with its lookup entries,
\* then the entries of the transactions that were on the old chain only go.
Reorg(b) ==
    LET newChain == NewChain(b)
        deleted == Txs(Chain[head] \ Chain[b])
    IN [i \in 1..2 * Len(newChain) |->
           Op(IF i % 2 = 1 THEN "insert" ELSE "lookup", newChain[(i + 1) \div 2])]
         \o <<[op |-> "unlook", block |-> b, txs |-> deleted \ Txs(NewBlocks(b))]>>

\* Mutant of WriteBlockAndState: a lighter block may win too.
WriteAnyway(b, by) ==
    /\ writes = <<>>
    /\ writes' = (IF Parent[b] # head THEN Reorg(b) ELSE <<>>)
                    \o <<Op("batchCanon", b), Op("insert", b),
                         [op |-> by, block |-> b, before |-> head]>>

\* WriteBlockAndState takes bc.mu.  A heavier block becomes the head, an equally
\* heavy one by the toss of a coin.
WriteBlockAndState(b, by) ==
    /\ writes = <<>>
    /\ \E wins \in BOOLEAN :
         /\ Number[b] > Number[head] => wins
         /\ Number[b] < Number[head] => ~wins
         /\ writes' = IF ~wins
                        THEN <<Op("batch", b)>>
                        ELSE (IF Parent[b] # head THEN Reorg(b) ELSE <<>>)
                               \o <<Op("batchCanon", b), Op("insert", b),
                                    [op |-> by, block |-> b, before |-> head]>>

\* Mutant of Insert: the head header follows only to a greater number.
InsertHigher(b) ==
    /\ canon' = [canon EXCEPT ![Number[b]] = b]
    /\ writes' = <<Op("head", b)>>
                   \o (IF Number[header] < Number[b] THEN <<Op("header", b)>> ELSE <<>>)
                   \o Tail(writes)
    /\ UNCHANGED <<stored, head, header, lookup, last, future, posts, announced>>

\* insert writes the number, then the head; the head header and the fast block
\* follow only if the number did not belong to the block before.
Insert(b) ==
    /\ canon' = [canon EXCEPT ![Number[b]] = b]
    /\ writes' = <<Op("head", b)>>
                   \o (IF canon[Number[b]] # b THEN <<Op("header", b)>> ELSE <<>>)
                   \o Tail(writes)
    /\ UNCHANGED <<stored, head, header, lookup, last, future, posts, announced>>

SetLookup(b) == [t \in ChainTx |-> IF t \in Txs({b}) THEN b ELSE lookup[t]]

\* A block that is to become the head is being written.
Goal == writes[Len(writes)]
Canonical == writes # <<>> /\ Goal.op \in {"imported", "mined"}

\* The next write of the block being written.
Write ==
    /\ writes # <<>>
    /\ LET w == writes[1]
           b == w.block
       IN \/ w.op = "insert" /\ Insert(b)
          \/ /\ w.op # "insert"
             /\ writes' = Tail(writes)
             /\ canon' = canon
             /\ head' = IF w.op = "head" THEN b ELSE head
             /\ header' = IF w.op = "header" THEN b ELSE header
             /\ stored' = IF w.op \in {"batch", "batchCanon"} THEN stored \cup {b} ELSE stored
             /\ lookup' = CASE w.op \in {"lookup", "batchCanon"} -> SetLookup(b)
                            [] w.op = "unlook" ->
                                 [t \in ChainTx |-> IF t \in w.txs THEN None ELSE lookup[t]]
                            [] OTHER -> lookup
             /\ future' = IF w.op \in {"batch", "batchCanon"} THEN future \ {b} ELSE future
             /\ last' = IF w.op = "imported" THEN b ELSE last
             /\ posts' = IF w.op = "mined" THEN posts \cup {b} ELSE posts
             /\ announced' = IF w.op = "mined" THEN announced \cup {b} ELSE announced
    /\ UNCHANGED <<todo, busy, told, torn, untold, crashes>>

-----------------------------------------------------------------------------
(* Importing and mining *)

Contiguous(s) == \A i \in 2..Len(s) : Parent[s[i]] = s[i - 1]

\* InsertChain with a contiguous chain, from the fetcher or the downloader.
InsertChain ==
    /\ ~busy
    /\ \E n \in 1..MaxBatch : \E s \in [1..n -> Block \ {Genesis}] :
         Contiguous(s) /\ todo' = s
    /\ busy' = TRUE
    /\ last' = None
    /\ UNCHANGED <<database, writes, future, posts, announced, told, torn, untold, crashes>>

\* procFutureBlocks tries the future blocks one by one.  It sorts them, but a
\* block that fails stays among them and the others are tried after it.
ProcFutureBlocks ==
    /\ ~busy
    /\ \E b \in future : todo' = <<b>>
    /\ busy' = TRUE
    /\ last' = None
    /\ UNCHANGED <<database, writes, future, posts, announced, told, torn, untold, crashes>>

\* The next block of insertChain: known, early or a child of a future block,
\* refused, or written.  An error ends the import without a head event.
ImportBlock ==
    /\ todo # <<>> /\ writes = <<>>
    /\ LET b == todo[1]
       IN \/ /\ b \in stored
             /\ todo' = Tail(todo)
             /\ UNCHANGED <<writes, last, future, untold>>
          \/ /\ b \notin stored
             /\ \/ b \in Early
                \/ Parent[b] \notin stored /\ Parent[b] \in future
             /\ future' = future \cup {b}
             /\ todo' = Tail(todo)
             /\ UNCHANGED <<writes, last, untold>>
          \/ /\ b \notin stored
             /\ \/ Parent[b] \notin stored /\ Parent[b] \notin future
                \/ Parent[b] \in stored /\ b \in Bad
             /\ todo' = <<>>
             /\ last' = None
             /\ untold' = (untold \/ last # None)
             /\ UNCHANGED <<writes, future>>
          \/ /\ b \notin stored /\ Parent[b] \in stored /\ b \notin Bad
             /\ WriteBlockAndState(b, "imported")
             /\ todo' = Tail(todo)
             /\ UNCHANGED <<last, future, untold>>
    /\ UNCHANGED <<database, busy, posts, announced, told, torn, crashes>>

\* Mutant of ImportDone: the last block is compared with the head header.
ImportDoneHeader ==
    /\ busy /\ todo = <<>> /\ writes = <<>>
    /\ busy' = FALSE
    /\ posts' = IF last = header THEN posts \cup {last} ELSE posts
    /\ announced' = IF last = header THEN announced \cup {last} ELSE announced
    /\ last' = None
    /\ UNCHANGED <<database, writes, todo, future, told, torn, untold, crashes>>

\* The end of insertChain: one head event, if the last canonical block still is
\* the head.
ImportDone ==
    /\ busy /\ todo = <<>> /\ writes = <<>>
    /\ busy' = FALSE
    /\ posts' = IF last = head THEN posts \cup {last} ELSE posts
    /\ announced' = IF last = head THEN announced \cup {last} ELSE announced
    /\ last' = None
    /\ UNCHANGED <<database, writes, todo, future, told, torn, untold, crashes>>

\* worker.wait writes a sealed block without bc.chainmu, in between the blocks
\* of an import.
MineBlock ==
    /\ \E b \in Own \ stored : Parent[b] \in stored /\ WriteBlockAndState(b, "mined")
    /\ UNCHANGED <<database, todo, busy, last, future, posts, announced, told, torn, untold,
                   crashes>>

\* PostChainEvents runs outside the locks, so events may overtake each other.
PostChainEvents ==
    /\ \E b \in posts : /\ posts' = posts \ {b}
                        /\ told' = b
                        /\ untold' = (b # head)
    /\ UNCHANGED <<database, writes, todo, busy, last, future, announced, torn, crashes>>

\* Known only if block and state are there; anything else starts from genesis.
\* The header chain was set up at genesis then, so no number is taken back.
LoadLastState ==
    IF head \in stored
      THEN /\ header' = IF header \in stored THEN header ELSE head
           /\ UNCHANGED <<head, canon>>
      ELSE /\ head' = Genesis
           /\ header' = Genesis
           /\ canon' = [canon EXCEPT ![0] = Genesis]

\* The process stops at any point and starts again.
Restart ==
    /\ crashes < MaxCrashes
    /\ crashes' = crashes + 1
    /\ LoadLastState
    /\ writes' = <<>> /\ todo' = <<>> /\ busy' = FALSE /\ last' = None
    /\ future' = {} /\ posts' = {} /\ told' = head'
    /\ torn' = IF Canonical
                 THEN IF torn = 2 \/ Parent[Goal.block] # Goal.before THEN 2 ELSE 1
                 ELSE torn
    /\ untold' = FALSE
    /\ UNCHANGED <<stored, lookup, announced>>

Next ==
    \/ InsertChain \/ ProcFutureBlocks \/ ImportBlock \/ ImportDone
    \/ Write \/ MineBlock \/ PostChainEvents \/ Restart

Spec == Init /\ [][Next]_vars

-----------------------------------------------------------------------------
(* Properties *)

\* The chain keeps the promise of ChainHeads, with a block known and the head
\* moved when the last of its writes is done (WriteBlockAndState under bc.mu,
\* PostChainEvents outside).
Heads == INSTANCE ChainHeads WITH
            known <- IF Canonical THEN stored \ {Goal.block} ELSE stored,
            top   <- IF Canonical THEN Goal.before ELSE head

HeadsSpec == Heads!Spec

Idle == writes = <<>>

\* Between two block writes the canonical numbers up to the head name the head
\* and its ancestors, whatever reorganisations, imports and mined blocks came
\* before, unless a crash hit a reorganisation (reorg, insert).
CanonicalLinked ==
    Idle /\ torn < 2 =>
        /\ head \in stored
        /\ {canon[n] : n \in 0..Number[head]} = Chain[head]

\* Between two block writes a transaction of the canonical chain is found by its
\* hash, in its block; without a crash no other transaction is found
\* (WriteTxLookupEntries, DeleteTxLookupEntry).
LookupsExact ==
    Idle /\ torn < 2 =>
        \A t \in ChainTx :
            IF t \in Txs(Chain[head])
              THEN lookup[t] \in Chain[head] /\ t \in Txs({lookup[t]})
              ELSE torn = 0 => lookup[t] = None

\* The head header is the head or one of its ancestors (insert).
HeaderOnChain == Idle /\ torn < 2 => header \in Chain[head]

\* When nothing is under way the last head event delivered is that of the head,
\* unless an import failed after it had moved the head or an event overtook
\* another (insertChain's test of LastBlockHash, worker.wait).
HeadTold ==
    ~busy /\ Idle /\ posts = {} /\ ~untold => told = head

=============================================================================
