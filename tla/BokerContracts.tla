--------------------------- MODULE BokerContracts ---------------------------
(***************************************************************************)
(* The registry of base contracts (chain/boker).  Every node keeps ONE      *)
(* registry in memory: a map from addresses to contract types and three     *)
(* tries (type per address, list of addresses, abi per address).  It is     *)
(* changed while a contract transaction executes: when the worker assembles *)
(* a block, when it tries a pending transaction and when the node imports a *)
(* block.  It is never rolled back with the state.  The header of a block   *)
(* carries the roots of the producer's tries; a node that restarts reopens  *)
(* its tries at the roots of its current header, from its own database.     *)
(*                                                                          *)
(* A trie root is represented by the content it commits to; a database by   *)
(* the contents that were committed to it.                                  *)
(***************************************************************************)
EXTENDS Integers, Sequences, FiniteSets, Functions

CONSTANTS
    Node,        \* the nodes, all on one chain
    Miner,       \* the nodes that assemble blocks
    Address,     \* the addresses contract transactions name
    TxType,      \* the contract transaction types that are submitted
    MaxDrops,    \* bound: executions that are not written: blocks assembled and
                 \* abandoned, and transactions executed on the pending state
    MaxBlocks    \* bound: blocks on the chain

None == "none"

ASSUME MinerAssumption == Miner \subseteq Node

ASSUME AddressAssumption == IsFiniteSet(Address) /\ None \notin Address

ASSUME TxTypeAssumption ==
    TxType \subseteq {"SetPersonal", "CancelPersonal", "SetSystem", "CancelSystem"}

VARIABLES
    chain,       \* the blocks: transaction, BokerProto and producer
    node,        \* each node's registry, database, head and condition
    work,        \* the block, if any, a node's worker assembled and has not written
    drops        \* how many executions were not written

vars == <<chain, node, work, drops>>

Tx == [type : TxType, to : Address]

\* A block without a contract transaction.
NoTx == [type |-> None, to |-> None]

Type == {"Personal", "System"}

(***************************************************************************)
(* What the header of a block says of the registry, and what a node holds.  *)
(***************************************************************************)
Proto(s) == [single |-> s.single, list |-> s.list, abi |-> s.abi]

EmptyProto == [single |-> <<>>, list |-> <<>>, abi |-> {}]

\* The header of the block a node has at its head; genesis has empty tries.
HeadProto(h) == IF h = 0 THEN EmptyProto ELSE chain[h].proto

\* CommitTrie: the three tries are written to the node's database.
CommitTrie(s) ==
    [s EXCEPT !.db = [single |-> @.single \union {s.single},
                      list |-> @.list \union {s.list},
                      abi |-> @.abi \union {s.abi}]]

With(f, a, t) == [x \in DOMAIN f \union {a} |-> IF x = a THEN t ELSE f[x]]

Without(f, a) == [x \in DOMAIN f \ {a} |-> f[x]]

(***************************************************************************)
(* setContractsTrie: the list of the registered addresses in the order in   *)
(* which the runtime happens to iterate over the map.                       *)
(***************************************************************************)
Orders(S) == Injection(1 .. Cardinality(S), S)

SetContractsTrie(s) == {[s EXCEPT !.list = l] : l \in Orders(DOMAIN s.contracts)}

\* Contract.SetContract up to the commit, for an address that is not registered.
Registered(s, a, t, hasAbi) ==
    SetContractsTrie([s EXCEPT !.contracts = With(@, a, t),
                               !.single = With(@, a, t),
                               !.abi = IF hasAbi THEN @ \union {a} ELSE @ \ {a},
                               !.service = IF t = "System" THEN a ELSE @,
                               !.running = IF t = "System" THEN @ \union {a} ELSE @])

\* Mutant of SetContract: the tries are not committed.
SetContractNoCommit(s, a, t, hasAbi) ==
    IF a \in DOMAIN s.contracts THEN {s} ELSE Registered(s, a, t, hasAbi)

(***************************************************************************)
(* BokerBackend.SetContract: an address that is registered already is left  *)
(* alone (the caller ignores the error).  Otherwise the tries and the map   *)
(* are updated, a system contract gets a new service that is started (one   *)
(* that runs for another address goes on running), and the tries are        *)
(* committed.  Storing an empty abi deletes the key.                        *)
(***************************************************************************)
SetContract(s, a, t, hasAbi) ==
    IF a \in DOMAIN s.contracts
    THEN {s}
    ELSE {CommitTrie(r) : r \in Registered(s, a, t, hasAbi)}

\* Mutant of CancelContract: the list of addresses is not rewritten.
CancelContractKeepList(s, a) ==
    {[s EXCEPT !.contracts = Without(@, a), !.single = Without(@, a)]}

(***************************************************************************)
(* BokerBackend.CancelContract: the address leaves the type trie, the map   *)
(* and the list, whatever its type; its abi stays and nothing is committed. *)
(* For a system contract the current service is then stopped if it is       *)
(* started, and Stop does not return (it sends on tickQuit, which no        *)
(* goroutine receives from): the node hangs in the transaction.             *)
(***************************************************************************)
CancelContract(s, a) ==
    LET isSystem == a \in DOMAIN s.contracts /\ s.contracts[a] = "System"
        stops == isSystem /\ s.service # None
    IN  SetContractsTrie(
            [s EXCEPT !.contracts = Without(@, a),
                      !.single = Without(@, a),
                      !.condition = IF stops THEN "hung" ELSE @])

(***************************************************************************)
(* ContractTransitionDb: which registry operation a transaction performs.   *)
(* CancelPersonal calls SetContract with isCancel set and an empty abi, and *)
(* SetContract does not look at isCancel.                                   *)
(***************************************************************************)
ContractTransitionDb(s, tx) ==
    CASE tx = NoTx                  -> {s}
      [] tx.type = "SetPersonal"    -> SetContract(s, tx.to, "Personal", TRUE)
      [] tx.type = "SetSystem"      -> SetContract(s, tx.to, "System", TRUE)
      [] tx.type = "CancelPersonal" -> SetContract(s, tx.to, "Personal", FALSE)
      [] tx.type = "CancelSystem"   -> CancelContract(s, tx.to)

\* The map read back from the list and the type trie; an address without a
\* type would read as a binary contract (loadTrieContract, readContractType).
LoadTrieContract(proto) ==
    [a \in Range(proto.list) |->
        IF a \in DOMAIN proto.single THEN proto.single[a] ELSE "Binary"]

\* The registry opened at the roots, before its service is started.
Opened(s, proto) ==
    [s EXCEPT !.contracts = LoadTrieContract(proto),
              !.single = proto.single,
              !.list = proto.list,
              !.abi = proto.abi,
              !.service = None,
              !.running = {},
              !.condition = "up"]

\* The tries can be opened only if the node's database has them.
Stored(s, proto) ==
    /\ proto.single \in s.db.single
    /\ proto.list \in s.db.list
    /\ proto.abi \in s.db.abi

\* Mutant of NewContract: the service of a system contract is not started.
NewContractNoService(s, proto) ==
    IF Stored(s, proto) THEN {Opened(s, proto)} ELSE {[s EXCEPT !.condition = "nil"]}

(***************************************************************************)
(* NewContract at the header's roots: it fails when one of the tries is not *)
(* in the database, and Init drops the error and leaves a nil registry.     *)
(* Otherwise one system contract, whichever the map yields first, gets its  *)
(* service started.                                                         *)
(***************************************************************************)
NewContract(s, proto) ==
    LET loaded == Opened(s, proto)
        systems == {a \in DOMAIN loaded.contracts : loaded.contracts[a] = "System"}
    IN  CASE ~Stored(s, proto) -> {[s EXCEPT !.condition = "nil"]}
          [] Stored(s, proto) /\ systems = {} -> {loaded}
          [] OTHER -> {[loaded EXCEPT !.service = a, !.running = {a}] : a \in systems}

\* Mutant of StartupProto: the roots are those of the first block.
StartupProtoGenesis(n) == HeadProto(0)

\* The header a restarting node takes the roots from: that of its head.
StartupProto(n) == HeadProto(node[n].head)

(***************************************************************************)
(* The worker executes the transaction on the live registry and finalizes   *)
(* the block with the roots it has then (createNewWork, Finalize).  A block *)
(* assembled before and not written is abandoned.                           *)
(***************************************************************************)
CreateNewWork(n) ==
    /\ node[n].condition = "up"
    /\ Len(chain) < MaxBlocks
    /\ work[n] # {} => drops < MaxDrops
    /\ drops' = IF work[n] = {} THEN drops ELSE drops + 1
    /\ \E tx \in Tx \union {NoTx} :
         \E s \in ContractTransitionDb(node[n], tx) :
            /\ node' = [node EXCEPT ![n] = s]
            /\ work' = [work EXCEPT ![n] =
                          IF s.condition = "up"
                          THEN {[parent |-> s.head,
                                 block |-> [tx |-> tx, proto |-> Proto(s), by |-> n]]}
                          ELSE {}]
    /\ UNCHANGED chain

\* The sealed block is written and becomes the node's head, if it still
\* extends the chain (a block that lost the race is not modelled further).
WriteMined(n) ==
    /\ node[n].condition = "up"
    /\ \E w \in work[n] :
         /\ w.parent = Len(chain)
         /\ chain' = Append(chain, w.block)
         /\ node' = [node EXCEPT ![n].head = Len(chain) + 1]
         /\ work' = [work EXCEPT ![n] = {}]
    /\ UNCHANGED drops

\* A block of another producer is executed on the live registry and written.
\* Its BokerProto is not compared with the node's own.
ImportBlock(n) ==
    /\ node[n].condition = "up"
    /\ node[n].head < Len(chain)
    /\ \E s \in ContractTransitionDb(node[n], chain[node[n].head + 1].tx) :
         node' = [node EXCEPT ![n] =
                    IF s.condition = "up" THEN [s EXCEPT !.head = @ + 1] ELSE s]
    /\ UNCHANGED <<chain, work, drops>>

\* A node that does not mine executes a transaction that arrives in its pool
\* on the pending state, and with it on the live registry (worker.update).
PendingTx(n) ==
    /\ node[n].condition = "up"
    /\ drops < MaxDrops
    /\ drops' = drops + 1
    /\ \E tx \in Tx :
         \E s \in ContractTransitionDb(node[n], tx) : node' = [node EXCEPT ![n] = s]
    /\ UNCHANGED <<chain, work>>

\* The process stops at any moment, with everything in memory, and starts.
Restart(n) ==
    /\ \E s \in NewContract(node[n], StartupProto(n)) : node' = [node EXCEPT ![n] = s]
    /\ work' = [work EXCEPT ![n] = {}]
    /\ UNCHANGED <<chain, drops>>

\* Genesis commits the empty tries (initBoker, commitBoker).
Init ==
    /\ chain = <<>>
    /\ node = [n \in Node |->
                 [contracts |-> <<>>, single |-> <<>>, list |-> <<>>, abi |-> {},
                  db |-> [single |-> {<<>>}, list |-> {<<>>}, abi |-> {{}}],
                  service |-> None, running |-> {}, condition |-> "up", head |-> 0]]
    /\ work = [n \in Node |-> {}]
    /\ drops = 0

Next ==
    \/ \E n \in Miner : CreateNewWork(n) \/ WriteMined(n)
    \/ \E n \in Node \ Miner : PendingTx(n)
    \/ \E n \in Node : ImportBlock(n) \/ Restart(n)

Spec == Init /\ [][Next]_vars

-----------------------------------------------------------------------------
Up(n) == node[n].condition = "up"

\* The map GetContract answers from, the type trie and the list trie of a
\* node that works always describe the same contracts, through sets, cancels,
\* abandoned blocks and reloads from another producer's roots
\* (SetContract, CancelContract, setContractsTrie, loadTrieContract).
MapMatchesTries ==
    \A n \in Node : Up(n) =>
        /\ node[n].contracts = node[n].single
        /\ Range(node[n].list) = DOMAIN node[n].contracts
        /\ IsInjective(node[n].list)

\* A working node runs a contract service exactly when its map holds a system
\* contract, and its current service is one that runs (SetContract,
\* NewContract and CancelContract start and stop it).
ServiceRuns ==
    \A n \in Node : Up(n) =>
        /\ (node[n].running # {}) <=>
              (\E a \in DOMAIN node[n].contracts : node[n].contracts[a] = "System")
        /\ node[n].running # {} => node[n].service \in node[n].running

\* Nothing was executed on a registry and then thrown away, and no
\* transaction of the chain cancels a system contract.
Straight == drops = 0 /\ \A i \in 1 .. Len(chain) : chain[i].tx.type # "CancelSystem"

\* As long as the history is straight, two working nodes at the same head,
\* neither with a block in progress, have registered the same contracts with
\* the same types, whatever restarts happened in between.  State transitions
\* (BaseTransitionDb) ask the map, so executing the next block depends on it.
NodesAgree ==
    Straight => \A m, n \in Node :
        Up(m) /\ Up(n) /\ work[m] = {} /\ work[n] = {} /\ node[m].head = node[n].head
            => node[m].contracts = node[n].contracts

\* The block a node assembled, if any, is one on top of its head.
InTime(n) == \A w \in work[n] : w.parent = node[n].head

Reloads(n) == "nil" \notin {s.condition : s \in NewContract(node[n], HeadProto(node[n].head))}

\* As long as the history is straight, a node that works can reload its
\* registry (main.go reads CurrentBlock().Header().BokerProto, NewContract opens
\* the three tries from the node's own database) from a header it produced, and
\* from another producer's that lists fewer than two contracts: the order of a
\* longer list is the producer's, and the node's own database may lack it.  A
\* node that assembled a block and then imported another at its height has both
\* in its registry, and is left out.
ReloadsOwnHead ==
    Straight => \A n \in Node :
        (Up(n) /\ node[n].head > 0 /\ InTime(n)
           /\ \/ chain[node[n].head].by = n
              \/ Len(chain[node[n].head].proto.list) < 2)
            => Reloads(n)
=============================================================================
