------------------------ MODULE BokerContractsProof ------------------------
(***************************************************************************)
(* Proofs about BokerContracts, for any nodes, producers, addresses and     *)
(* bounds: what a node's registry says of itself, and, while nothing that   *)
(* was executed is thrown away and no system contract is cancelled, what it *)
(* has to do with the chain.                                                *)
(***************************************************************************)
EXTENDS BokerContracts, FiniteSetTheorems, TLAPS

Map == UNION {[D -> Type] : D \in SUBSET Address}

\* Three tries that describe the same contracts: the list holds every address
\* with a type, once.
Coherent(p) == Range(p.list) = DOMAIN p.single /\ IsInjective(p.list)

Roots == {p \in [single : Map, list : Seq(Address), abi : SUBSET Address] : Coherent(p)}

Block == [tx : Tx \union {NoTx}, proto : Roots, by : Node]

Database == [single : SUBSET Map, list : SUBSET Seq(Address), abi : SUBSET SUBSET Address]

Record ==
    [contracts : Map, single : Map, list : Seq(Address), abi : SUBSET Address,
     db : Database, service : Address \union {None}, running : SUBSET Address,
     condition : {"up", "hung", "nil"}, head : Nat]

\* A registry whose map and tries agree, as MapMatchesTries has it.
Registry == {s \in Record : s.contracts = s.single /\ Coherent(s)}

Systems(s) == {a \in DOMAIN s.contracts : s.contracts[a] = "System"}

\* What ServiceRuns says of one registry.
Served(s) ==
    s.condition = "up" =>
        /\ s.running # {} <=> Systems(s) # {}
        /\ s.running # {} => s.service \in s.running

TypeInv ==
    /\ chain \in Seq(Block)
    /\ node \in [Node -> Registry]
    /\ work \in [Node -> SUBSET [parent : Nat, block : Block]]
    /\ drops \in Nat

\* A node's head is on the chain, and what it assembled is no higher.
InRange ==
    \A n \in Node :
        /\ node[n].head <= Len(chain)
        /\ \A w \in work[n] : w.parent <= node[n].head /\ w.block.by = n

AllServed == \A n \in Node : Served(node[n])

RegistryInv == TypeInv /\ InRange /\ AllServed

-----------------------------------------------------------------------------
(* The operators of the registry.                                           *)

\* The order setContractsTrie happens to iterate in lists every address once.
LEMMA OrdersList ==
    ASSUME NEW S \in SUBSET Address, NEW l \in Orders(S)
    PROVE  l \in Seq(Address) /\ Range(l) = S /\ IsInjective(l)
<1> DEFINE k == Cardinality(S)
<1>1. IsFiniteSet(S) /\ k \in Nat
  BY AddressAssumption, FS_Subset, FS_CardinalityType
<1>2. l \in Injection(1 .. k, S)
  BY DEF Orders
<1>3. Cardinality(1 .. k) = k
  BY <1>1, FS_Interval
<1> HIDE DEF k
<1>4. l \in Surjection(1 .. k, S)
  BY <1>1, <1>2, <1>3, FS_Injection DEF k
<1>5. l \in [1 .. k -> S] /\ IsInjective(l) /\ \A t \in S : \E i \in 1 .. k : l[i] = t
  BY <1>2, <1>4 DEF Injection, Surjection, IsInjective
<1>6. Range(l) = S
  BY <1>5 DEF Range
<1>7. l \in Seq(Address)
  BY <1>1, <1>5
<1>8. QED
  BY <1>5, <1>6, <1>7

\* A type recorded for an address leaves a map of types.
LEMMA WithMap ==
    ASSUME NEW f \in Map, NEW a \in Address, NEW t \in Type
    PROVE  /\ With(f, a, t) \in Map
           /\ DOMAIN With(f, a, t) = DOMAIN f \union {a}
           /\ With(f, a, t)[a] = t
           /\ \A x \in DOMAIN f : x # a => With(f, a, t)[x] = f[x]
<1>1. PICK D \in SUBSET Address : f \in [D -> Type]
  BY DEF Map
<1>2. With(f, a, t) \in [D \union {a} -> Type] /\ D \union {a} \in SUBSET Address
  BY <1>1 DEF With
<1>3. With(f, a, t) \in Map
  BY <1>2 DEF Map
<1>4. QED
  BY <1>1, <1>3 DEF With

\* A type removed for an address leaves a map of types.
LEMMA WithoutMap ==
    ASSUME NEW f \in Map, NEW a \in Address
    PROVE  /\ Without(f, a) \in Map
           /\ DOMAIN Without(f, a) = DOMAIN f \ {a}
           /\ \A x \in DOMAIN f \ {a} : Without(f, a)[x] = f[x]
<1>1. PICK D \in SUBSET Address : f \in [D -> Type]
  BY DEF Map
<1>2. Without(f, a) \in [D \ {a} -> Type] /\ D \ {a} \in SUBSET Address
  BY <1>1 DEF Without
<1>3. Without(f, a) \in Map
  BY <1>2 DEF Map
<1>4. QED
  BY <1>1, <1>3 DEF Without

\* Rewriting the list makes the tries coherent again and changes nothing else.
LEMMA ListRewritten ==
    ASSUME NEW s \in Record, s.contracts = s.single, NEW r \in SetContractsTrie(s)
    PROVE  /\ r \in Registry
           /\ r = [s EXCEPT !.list = r.list]
<1>1. PICK l \in Orders(DOMAIN s.contracts) : r = [s EXCEPT !.list = l]
  BY DEF SetContractsTrie
<1>2. DOMAIN s.contracts \in SUBSET Address
  <2>1. s.contracts \in Map
    BY DEF Record
  <2>2. QED
    BY <2>1 DEF Map
<1>3. l \in Seq(Address) /\ Range(l) = DOMAIN s.contracts /\ IsInjective(l)
  BY <1>2, OrdersList
<1>4. r \in Record /\ r.list = l /\ r.contracts = s.contracts /\ r.single = s.single
  BY <1>1, <1>3 DEF Record
<1>5. QED
  BY <1>1, <1>3, <1>4, Zenon DEF Registry, Coherent

\* The database of a node only grows.
Grows(s, r) ==
    /\ s.db.single \subseteq r.db.single
    /\ s.db.list \subseteq r.db.list
    /\ s.db.abi \subseteq r.db.abi

\* SetContract on an address that is not registered: what each field becomes.
LEMMA SetFields ==
    ASSUME NEW s \in Registry, NEW a \in Address, a \notin DOMAIN s.contracts,
           NEW t \in Type, NEW hasAbi \in BOOLEAN,
           NEW r \in SetContract(s, a, t, hasAbi)
    PROVE  /\ r \in Registry
           /\ r.single = With(s.single, a, t)
           /\ hasAbi => r.abi = s.abi \union {a}
           /\ ~hasAbi => r.abi = s.abi \ {a}
           /\ t = "System" => r.service = a /\ r.running = s.running \union {a}
           /\ t # "System" => r.service = s.service /\ r.running = s.running
           /\ r.condition = s.condition
           /\ r.head = s.head
           /\ Stored(r, Proto(r))
           /\ Grows(s, r)
<1> DEFINE u == [s EXCEPT !.contracts = With(@, a, t),
                          !.single = With(@, a, t),
                          !.abi = IF hasAbi THEN @ \union {a} ELSE @ \ {a},
                          !.service = IF t = "System" THEN a ELSE @,
                          !.running = IF t = "System" THEN @ \union {a} ELSE @]
<1>1. s \in Record /\ s.contracts = s.single /\ s.single \in Map
  BY DEF Registry, Record
<1>2. PICK q \in SetContractsTrie(u) : r = CommitTrie(q)
  BY DEF SetContract, Registered
<1>3. With(s.single, a, t) \in Map
  BY <1>1, WithMap, Zenon
<1>4. /\ u \in Record
      /\ u.contracts = With(s.single, a, t) /\ u.single = With(s.single, a, t)
      /\ u.abi = IF hasAbi THEN s.abi \union {a} ELSE s.abi \ {a}
      /\ u.service = IF t = "System" THEN a ELSE s.service
      /\ u.running = IF t = "System" THEN s.running \union {a} ELSE s.running
      /\ u.condition = s.condition /\ u.head = s.head /\ u.db = s.db
  <2> DEFINE f == With(s.single, a, t)
             b == IF hasAbi THEN s.abi \union {a} ELSE s.abi \ {a}
             v == IF t = "System" THEN a ELSE s.service
             g == IF t = "System" THEN s.running \union {a} ELSE s.running
  <2>1. u = [s EXCEPT !.contracts = f, !.single = f, !.abi = b, !.service = v, !.running = g]
    BY <1>1 DEF Record
  <2>2. f \in Map /\ b \in SUBSET Address /\ v \in Address \union {None} /\ g \in SUBSET Address
    BY <1>1, <1>3 DEF Record
  <2> HIDE DEF u, f, b, v, g
  <2>3. u \in Record
    BY <1>1, <2>1, <2>2, Zenon DEF Record
  <2>4. /\ u.contracts = f /\ u.single = f /\ u.abi = b /\ u.service = v /\ u.running = g
        /\ u.condition = s.condition /\ u.head = s.head /\ u.db = s.db
    BY <1>1, <2>1 DEF Record
  <2>5. QED
    BY <2>3, <2>4 DEF f, b, v, g
<1> HIDE DEF u
<1>5. q \in Registry /\ q = [u EXCEPT !.list = q.list]
  BY <1>2, <1>4, ListRewritten
<1>6. /\ q.contracts = u.contracts /\ q.single = u.single /\ q.abi = u.abi /\ q.db = u.db
      /\ q.service = u.service /\ q.running = u.running
      /\ q.condition = u.condition /\ q.head = u.head
  BY <1>4, <1>5 DEF Record
<1>7. /\ r \in Registry
      /\ r.single = q.single /\ r.list = q.list /\ r.abi = q.abi
      /\ r.service = q.service /\ r.running = q.running
      /\ r.condition = q.condition /\ r.head = q.head
      /\ r.db.single = q.db.single \union {q.single}
      /\ r.db.list = q.db.list \union {q.list}
      /\ r.db.abi = q.db.abi \union {q.abi}
  <2> DEFINE d == [single |-> q.db.single \union {q.single},
                   list |-> q.db.list \union {q.list},
                   abi |-> q.db.abi \union {q.abi}]
  <2>1. q \in Record /\ q.db \in Database /\ q.contracts = q.single /\ Coherent(q)
    BY <1>5 DEF Registry, Record
  <2>2. d \in Database
    BY <2>1 DEF Record, Database
  <2>3. r = [q EXCEPT !.db = d]
    BY <1>2, <2>1 DEF CommitTrie, Record
  <2>4. /\ r \in Record
        /\ r.contracts = q.contracts
        /\ r.single = q.single /\ r.list = q.list /\ r.abi = q.abi
        /\ r.service = q.service /\ r.running = q.running
        /\ r.condition = q.condition /\ r.head = q.head /\ r.db = d
    <3> HIDE DEF d
    <3>1. QED
      BY <2>1, <2>2, <2>3 DEF Record
  <2>5. r \in Registry
    BY <2>1, <2>4 DEF Registry, Coherent
  <2>6. QED
    BY <2>4, <2>5
<1>8. Stored(r, Proto(r))
  BY <1>7 DEF Stored, Proto
<1>9. Grows(s, r)
  BY <1>4, <1>6, <1>7 DEF Grows
<1>10. QED
  BY <1>4, <1>6, <1>7, <1>8, <1>9

\* CancelContract: what each field becomes.
LEMMA CancelFields ==
    ASSUME NEW s \in Registry, NEW a \in Address, NEW r \in CancelContract(s, a)
    PROVE  /\ r \in Registry
           /\ r.contracts = Without(s.contracts, a)
           /\ r.service = s.service /\ r.running = s.running
           /\ r.condition = IF a \in Systems(s) /\ s.service # None THEN "hung" ELSE s.condition
           /\ r.head = s.head /\ r.db = s.db
<1> DEFINE c == IF a \in Systems(s) /\ s.service # None THEN "hung" ELSE s.condition
           f == Without(s.contracts, a)
           u == [s EXCEPT !.contracts = f, !.single = f, !.condition = c]
<1>1. s \in Record /\ s.contracts = s.single /\ s.single \in Map
  BY DEF Registry, Record
<1>2. r \in SetContractsTrie(u)
  BY <1>1 DEF CancelContract, Systems, Record
<1>3. f \in Map /\ c \in {"up", "hung", "nil"}
  BY <1>1, WithoutMap, Zenon DEF Record
<1> HIDE DEF c, f
<1>4. /\ u \in Record /\ u.contracts = f /\ u.single = f /\ u.condition = c
      /\ u.service = s.service /\ u.running = s.running /\ u.head = s.head /\ u.db = s.db
  BY <1>1, <1>3, Zenon DEF Record
<1> HIDE DEF u
<1>5. r \in Registry /\ r = [u EXCEPT !.list = r.list]
  BY <1>2, <1>4, ListRewritten
<1>6. /\ r.contracts = f /\ r.condition = c /\ r.service = s.service /\ r.running = s.running
      /\ r.head = s.head /\ r.db = s.db
  BY <1>4, <1>5 DEF Record
<1>7. QED
  BY <1>5, <1>6 DEF c, f

-----------------------------------------------------------------------------
(* Contract transactions.                                                   *)

Plain(tx) == tx.type # "CancelSystem"

\* A transaction registers its address if that is not registered.
Adds(f, tx) == tx # NoTx /\ tx.to \notin DOMAIN f

\* How the contents of the type and abi tries follow from those before a
\* transaction that is not a cancellation of a system contract.
Follows(p, tx, q) ==
    /\ q.single = IF Adds(p.single, tx)
                  THEN With(p.single, tx.to, IF tx.type = "SetSystem" THEN "System" ELSE "Personal")
                  ELSE p.single
    /\ q.abi = IF Adds(p.single, tx)
               THEN IF tx.type = "CancelPersonal" THEN p.abi \ {tx.to} ELSE p.abi \union {tx.to}
               ELSE p.abi

\* Adding a contract keeps the service in step: a system contract's starts.
LEMMA SetServed ==
    ASSUME NEW s \in Registry, NEW r \in Registry, Served(s), NEW a \in Address,
           a \notin DOMAIN s.contracts, NEW t \in Type,
           r.single = With(s.single, a, t),
           t = "System" => r.service = a /\ r.running = s.running \union {a},
           t # "System" => r.service = s.service /\ r.running = s.running,
           r.condition = s.condition
    PROVE  Served(r)
<1>1. s.contracts = s.single /\ r.contracts = r.single /\ s.single \in Map
  BY DEF Registry, Record
<1>2. /\ DOMAIN r.contracts = DOMAIN s.contracts \union {a}
      /\ r.contracts[a] = t
      /\ \A x \in DOMAIN s.contracts : x # a => r.contracts[x] = s.contracts[x]
  <2> DEFINE f == s.single
             g == r.single
  <2>1. f \in Map /\ g = With(f, a, t) /\ s.contracts = f /\ r.contracts = g
    BY <1>1
  <2> HIDE DEF f, g
  <2>2. QED
    BY <2>1, WithMap
<1>3. CASE t = "System"
  <2>1. a \in Systems(r)
    BY <1>2, <1>3 DEF Systems
  <2>2. QED
    BY <1>3, <2>1 DEF Served
<1>4. CASE t # "System"
  <2>1. Systems(r) = Systems(s)
    BY <1>2, <1>4 DEF Systems
  <2>2. QED
    BY <1>4, <2>1 DEF Served
<1>5. QED
  BY <1>3, <1>4

\* Cancelling keeps the service in step: with a system contract gone the node
\* hangs in Stop, since a service is running then.
LEMMA CancelServed ==
    ASSUME NEW s \in Registry, Served(s), NEW a \in Address, NEW r \in CancelContract(s, a)
    PROVE  Served(r)
<1>1. /\ r.contracts = Without(s.contracts, a)
      /\ r.service = s.service /\ r.running = s.running
      /\ r.condition = IF a \in Systems(s) /\ s.service # None THEN "hung" ELSE s.condition
  BY CancelFields
<1>2. s.contracts \in Map /\ s.running \in SUBSET Address
  BY DEF Registry, Record
<1>3. /\ DOMAIN r.contracts = DOMAIN s.contracts \ {a}
      /\ \A x \in DOMAIN s.contracts \ {a} : r.contracts[x] = s.contracts[x]
  <2> DEFINE f == s.contracts
             g == r.contracts
  <2>1. f \in Map /\ g = Without(f, a) /\ s.contracts = f /\ r.contracts = g
    BY <1>1, <1>2
  <2> HIDE DEF f, g
  <2>2. QED
    BY <2>1, WithoutMap
<1>4. CASE a \in Systems(s)
  <2>1. s.condition = "up" => s.service # None
    BY <1>2, <1>4, AddressAssumption DEF Served
  <2>2. QED
    BY <1>1, <1>4, <2>1 DEF Served
<1>5. CASE a \notin Systems(s)
  <2>1. Systems(r) = Systems(s)
    BY <1>3, <1>5 DEF Systems
  <2>2. QED
    BY <1>1, <1>5, <2>1 DEF Served
<1>6. QED
  BY <1>4, <1>5

\* What any contract transaction does to a registry.
LEMMA Transition ==
    ASSUME NEW s \in Registry, NEW tx \in Tx \union {NoTx},
           NEW r \in ContractTransitionDb(s, tx)
    PROVE  /\ r \in Registry
           /\ r.head = s.head
           /\ Grows(s, r)
           /\ Served(s) => Served(r)
           /\ Plain(tx) => /\ Follows(s, tx, r)
                           /\ r.condition = s.condition
                           /\ Stored(s, Proto(s)) => Stored(r, Proto(r))
<1>1. Grows(s, s) /\ (~Adds(s.single, tx) => Follows(s, tx, s))
  BY DEF Grows, Follows
<1>2. CASE tx = NoTx
  <2>1. r = s /\ ~Adds(s.single, tx)
    BY <1>2 DEF ContractTransitionDb, Adds, NoTx, None
  <2>2. QED
    BY <1>1, <2>1
<1>3. CASE tx # NoTx /\ tx.type # "CancelSystem"
  <2> DEFINE a == tx.to
             t == IF tx.type = "SetSystem" THEN "System" ELSE "Personal"
             hasAbi == tx.type # "CancelPersonal"
  <2>1. tx \in Tx /\ a \in Address
    BY <1>3 DEF Tx
  <2>2. tx.type \in {"SetPersonal", "CancelPersonal", "SetSystem"}
    BY <1>3, <2>1, TxTypeAssumption, Zenon DEF Tx
  <2>3. r \in SetContract(s, a, t, hasAbi)
    BY <1>3, <2>2, Zenon DEF ContractTransitionDb
  <2>4. t \in Type /\ hasAbi \in BOOLEAN /\ s.contracts = s.single
    BY DEF Type, Registry
  <2> HIDE DEF t, hasAbi
  <2>5. CASE a \in DOMAIN s.contracts
    <3>1. r = s /\ ~Adds(s.single, tx)
      BY <2>3, <2>4, <2>5 DEF SetContract, Adds
    <3>2. QED
      BY <1>1, <3>1
  <2>6. CASE a \notin DOMAIN s.contracts
    <3>1. /\ r \in Registry
          /\ r.single = With(s.single, a, t)
          /\ hasAbi => r.abi = s.abi \union {a}
          /\ ~hasAbi => r.abi = s.abi \ {a}
          /\ t = "System" => r.service = a /\ r.running = s.running \union {a}
          /\ t # "System" => r.service = s.service /\ r.running = s.running
          /\ r.condition = s.condition /\ r.head = s.head
          /\ Stored(r, Proto(r)) /\ Grows(s, r)
      BY <2>1, <2>3, <2>4, <2>6, SetFields
    <3>2. Served(s) => Served(r)
      BY <2>1, <2>4, <2>6, <3>1, SetServed
    <3>3. Follows(s, tx, r)
      BY <1>3, <2>4, <2>6, <3>1 DEF Follows, Adds, t, hasAbi
    <3>4. QED
      BY <3>1, <3>2, <3>3
  <2>7. QED
    BY <2>5, <2>6
<1>4. CASE tx # NoTx /\ tx.type = "CancelSystem"
  <2>1. tx.to \in Address
    BY <1>4 DEF Tx
  <2>2. r \in CancelContract(s, tx.to)
    BY <1>4 DEF ContractTransitionDb
  <2>3. r \in Registry /\ r.head = s.head /\ Grows(s, r)
    BY <2>1, <2>2, CancelFields DEF Grows
  <2>4. Served(s) => Served(r)
    BY <2>1, <2>2, CancelServed
  <2>5. QED
    BY <1>4, <2>3, <2>4 DEF Plain
<1>5. QED
  BY <1>2, <1>3, <1>4

\* Moving the head leaves the registry as it is.
LEMMA HeadMoved ==
    ASSUME NEW s \in Registry, NEW h \in Nat
    PROVE  LET r == [s EXCEPT !.head = h]
           IN  /\ r \in Registry /\ r.head = h
               /\ r.contracts = s.contracts /\ r.single = s.single /\ r.list = s.list
               /\ r.abi = s.abi /\ r.db = s.db /\ r.condition = s.condition
               /\ Served(s) => Served(r)
<1> DEFINE r == [s EXCEPT !.head = h]
<1>1. s \in Record /\ s.contracts = s.single /\ Coherent(s)
  BY DEF Registry
<1>2. /\ r \in Record /\ r.head = h
      /\ r.contracts = s.contracts /\ r.single = s.single /\ r.list = s.list
      /\ r.abi = s.abi /\ r.db = s.db /\ r.condition = s.condition
      /\ r.service = s.service /\ r.running = s.running
  BY <1>1 DEF Record
<1> HIDE DEF r
<1>3. r \in Registry
  BY <1>1, <1>2 DEF Registry, Coherent
<1>4. Served(s) => Served(r)
  BY <1>2 DEF Served, Systems
<1>5. QED
  BY <1>2, <1>3, <1>4 DEF r

\* A registry reloaded from coherent roots is coherent, runs a service exactly
\* for a system contract, and keeps the node's database and head.
LEMMA Reloaded ==
    ASSUME NEW s \in Registry, NEW p \in Roots, NEW r \in NewContract(s, p)
    PROVE  /\ r \in Registry
           /\ r.head = s.head /\ r.db = s.db
           /\ Served(r)
           /\ r.condition = "up" => /\ r.single = p.single /\ r.abi = p.abi /\ r.list = p.list
                                    /\ Stored(s, p)
           /\ Stored(s, p) => r.condition = "up"
<1>1. s \in Record /\ s.contracts = s.single /\ Coherent(s)
  BY DEF Registry
<1>2. p.single \in Map /\ p.list \in Seq(Address) /\ p.abi \in SUBSET Address /\ Coherent(p)
  BY DEF Roots
<1>3. LoadTrieContract(p) = p.single
  <2>1. Range(p.list) = DOMAIN p.single
    BY <1>2 DEF Coherent
  <2>2. p.single = [a \in DOMAIN p.single |-> p.single[a]]
    BY <1>2 DEF Map
  <2>3. QED
    BY <2>1, <2>2 DEF LoadTrieContract
<1> DEFINE o == Opened(s, p)
<1>4. /\ o \in Registry
      /\ o.contracts = p.single /\ o.single = p.single /\ o.list = p.list /\ o.abi = p.abi
      /\ o.service = None /\ o.running = {} /\ o.condition = "up"
      /\ o.head = s.head /\ o.db = s.db
  <2>1. o = [s EXCEPT !.contracts = p.single, !.single = p.single, !.list = p.list,
                      !.abi = p.abi, !.service = None, !.running = {}, !.condition = "up"]
    BY <1>3 DEF Opened
  <2> HIDE DEF o
  <2>2. /\ o \in Record
        /\ o.contracts = p.single /\ o.single = p.single /\ o.list = p.list /\ o.abi = p.abi
        /\ o.service = None /\ o.running = {} /\ o.condition = "up"
        /\ o.head = s.head /\ o.db = s.db
    BY <1>1, <1>2, <2>1, Zenon DEF Record
  <2>3. QED
    BY <1>2, <2>2 DEF Registry, Coherent
<1>5. CASE ~Stored(s, p)
  <2>1. r = [s EXCEPT !.condition = "nil"]
    BY <1>5, Zenon DEF NewContract
  <2>2. /\ r \in Record /\ r.condition = "nil" /\ r.head = s.head /\ r.db = s.db
        /\ r.contracts = s.contracts /\ r.single = s.single /\ r.list = s.list
    BY <1>1, <2>1 DEF Record
  <2>3. QED
    BY <1>1, <1>5, <2>2 DEF Registry, Coherent, Served
<1>6. CASE Stored(s, p) /\ Systems(o) = {}
  <2>1. r = o
    BY <1>6 DEF NewContract, Systems
  <2>2. QED
    BY <1>4, <1>6, <2>1 DEF Served
<1>7. CASE Stored(s, p) /\ Systems(o) # {}
  <2>1. PICK a \in Systems(o) : r = [o EXCEPT !.service = a, !.running = {a}]
    BY <1>7, Zenon DEF NewContract, Systems
  <2> HIDE DEF o
  <2>2. o \in Record /\ o.contracts \in Map /\ o.contracts = o.single /\ Coherent(o)
    BY <1>4 DEF Registry, Record
  <2>3. a \in Address
    BY <2>1, <2>2 DEF Systems, Map
  <2>4. /\ r \in Record /\ r.service = a /\ r.running = {a} /\ r.contracts = o.contracts
        /\ r.single = o.single /\ r.list = o.list /\ r.abi = o.abi
        /\ r.condition = o.condition /\ r.head = o.head /\ r.db = o.db
    BY <2>1, <2>2, <2>3, Zenon DEF Record
  <2>5. Systems(r) # {}
    BY <1>7, <2>4 DEF Systems
  <2>6. Served(r)
    BY <2>4, <2>5 DEF Served
  <2>7. r \in Registry
    BY <2>2, <2>4 DEF Registry, Coherent
  <2>8. QED
    BY <1>4, <1>7, <2>4, <2>6, <2>7
<1>8. QED
  BY <1>5, <1>6, <1>7

\* The empty sequence is the empty map of types.
LEMMA EmptyMap == <<>> \in Map /\ <<>> \in Seq(Address) /\ DOMAIN <<>> = {}
<1>1. \A q \in Seq(Type) : Len(q) = 0 => q \in [1 .. 0 -> Type]
  OBVIOUS
<1>2. <<>> \in [1 .. 0 -> Type] /\ 1 .. 0 = {}
  BY <1>1
<1>3. <<>> \in [{} -> Type]
  BY <1>2
<1>4. <<>> \in Map
  BY <1>3 DEF Map
<1>5. QED
  BY <1>4

\* The roots of a node's head are coherent.
LEMMA HeadRoots ==
    ASSUME TypeInv, NEW h \in 0 .. Len(chain)
    PROVE  HeadProto(h) \in Roots
<1>1. CASE h = 0
  <2>1. <<>> \in Map /\ <<>> \in Seq(Address) /\ DOMAIN <<>> = {}
    BY EmptyMap
  <2>2. EmptyProto \in Roots
    BY <2>1 DEF EmptyProto, Roots, Coherent, Range, IsInjective
  <2>3. QED
    BY <1>1, <2>2 DEF HeadProto
<1>2. CASE h # 0
  <2>1. chain[h] \in Block
    BY <1>2 DEF TypeInv
  <2>2. QED
    BY <1>2, <2>1 DEF HeadProto, Block
<1>3. QED
  BY <1>1, <1>2

\* The roots a finalized header takes from the registry are coherent.
LEMMA ProtoRoots ==
    ASSUME NEW s \in Registry
    PROVE  /\ Proto(s) \in Roots
           /\ Proto(s).single = s.single /\ Proto(s).list = s.list /\ Proto(s).abi = s.abi
BY DEF Registry, Record, Roots, Proto, Coherent

-----------------------------------------------------------------------------
(* The map, the tries and the service of a node.                            *)

\* A step that replaces one node's registry by another coherent, served one
\* that does not go back keeps the invariant.
LEMMA OneRegistry ==
    ASSUME RegistryInv, NEW n \in Node, NEW s \in Registry, Served(s),
           node[n].head <= s.head, s.head <= Len(chain), chain' = chain,
           node' = [node EXCEPT ![n] = s], drops' \in Nat,
           \/ work' = work
           \/ \E W \in SUBSET [parent : Nat, block : Block] :
                /\ work' = [work EXCEPT ![n] = W]
                /\ \A w \in W : w.parent <= s.head /\ w.block.by = n
    PROVE  RegistryInv'
<1>1. /\ chain \in Seq(Block) /\ node \in [Node -> Registry]
      /\ work \in [Node -> SUBSET [parent : Nat, block : Block]]
  BY DEF RegistryInv, TypeInv
<1>2. TypeInv'
  BY <1>1 DEF TypeInv
<1>3. AllServed'
  BY <1>1 DEF RegistryInv, AllServed
<1>4. InRange'
  <2>1. ASSUME NEW m \in Node
        PROVE  /\ node'[m].head <= Len(chain)
               /\ \A w \in work'[m] : w.parent <= node'[m].head /\ w.block.by = m
    <3>1. /\ node[m].head \in Nat /\ node[m].head <= Len(chain)
          /\ \A w \in work[m] : w.parent <= node[m].head /\ w.block.by = m /\ w.parent \in Nat
      BY <1>1 DEF RegistryInv, InRange, Registry, Record
    <3>2. CASE m # n
      BY <1>1, <3>1, <3>2
    <3>3. CASE m = n
      <4>1. node'[m] = s /\ s.head \in Nat
        BY <1>1, <3>3 DEF Registry, Record
      <4>2. CASE work' = work
        BY <3>1, <3>3, <4>1, <4>2
      <4>3. CASE work' # work
        BY <1>1, <3>3, <4>1, <4>3
      <4>4. QED
        BY <4>2, <4>3
    <3>4. QED
      BY <3>2, <3>3
  <2>2. QED
    BY <2>1 DEF InRange
<1>5. QED
  BY <1>2, <1>3, <1>4 DEF RegistryInv

\* Every step keeps the registries coherent and their services in step.
LEMMA RegistryStep == RegistryInv /\ [Next]_vars => RegistryInv'
<1> SUFFICES ASSUME RegistryInv, [Next]_vars PROVE RegistryInv'
  OBVIOUS
<1>0. /\ TypeInv /\ chain \in Seq(Block) /\ node \in [Node -> Registry]
      /\ work \in [Node -> SUBSET [parent : Nat, block : Block]] /\ drops \in Nat
  BY DEF RegistryInv, TypeInv
<1>1. ASSUME NEW n \in Node
      PROVE  /\ node[n] \in Registry /\ Served(node[n])
             /\ node[n].head \in Nat /\ node[n].head <= Len(chain)
  BY <1>0 DEF RegistryInv, AllServed, InRange, Registry, Record
<1>2. ASSUME NEW n \in Miner, CreateNewWork(n) PROVE RegistryInv'
  <2>1. n \in Node
    BY MinerAssumption
  <2>0. PICK tx \in Tx \union {NoTx} : \E s \in ContractTransitionDb(node[n], tx) :
          /\ node' = [node EXCEPT ![n] = s]
          /\ work' = [work EXCEPT ![n] =
                        IF s.condition = "up"
                        THEN {[parent |-> s.head, block |-> [tx |-> tx, proto |-> Proto(s), by |-> n]]}
                        ELSE {}]
    BY <1>2, Zenon DEF CreateNewWork
  <2>2. PICK s \in ContractTransitionDb(node[n], tx) :
          /\ node' = [node EXCEPT ![n] = s]
          /\ work' = [work EXCEPT ![n] =
                        IF s.condition = "up"
                        THEN {[parent |-> s.head, block |-> [tx |-> tx, proto |-> Proto(s), by |-> n]]}
                        ELSE {}]
    BY <2>0, Zenon
  <2>3. s \in Registry /\ s.head = node[n].head /\ Served(s)
    BY <1>1, <2>1, Transition
  <2> DEFINE b == [tx |-> tx, proto |-> Proto(s), by |-> n]
             W == IF s.condition = "up" THEN {[parent |-> s.head, block |-> b]} ELSE {}
  <2>4. b \in Block /\ b.by = n
    BY <2>1, <2>3, ProtoRoots DEF Block
  <2>5. W \in SUBSET [parent : Nat, block : Block] /\ \A w \in W : w.parent <= s.head /\ w.block.by = n
    <3> HIDE DEF b
    <3>1. s.head \in Nat
      BY <2>3 DEF Registry, Record
    <3> DEFINE v == [parent |-> s.head, block |-> b]
    <3>2. /\ v \in [parent : Nat, block : Block]
          /\ v.parent <= s.head /\ v.block.by = n
      BY <2>4, <3>1
    <3> HIDE DEF v
    <3>3. W \in SUBSET {v}
      BY DEF v
    <3>4. QED
      BY <3>2, <3>3
  <2>6. work' = [work EXCEPT ![n] = W]
    BY <2>2
  <2>7. chain' = chain /\ drops' \in Nat
    BY <1>0, <1>2 DEF CreateNewWork
  <2> HIDE DEF W
  <2>8. node[n].head <= s.head /\ s.head <= Len(chain)
    BY <1>1, <2>1, <2>3
  <2>9. QED
    BY <2>1, <2>2, <2>3, <2>5, <2>6, <2>7, <2>8, OneRegistry, Zenon
<1>3. ASSUME NEW n \in Miner, WriteMined(n) PROVE RegistryInv'
  <2>1. n \in Node
    BY MinerAssumption
  <2>2. PICK w \in work[n] :
          /\ w.parent = Len(chain)
          /\ chain' = Append(chain, w.block)
          /\ node' = [node EXCEPT ![n].head = Len(chain) + 1]
          /\ work' = [work EXCEPT ![n] = {}]
          /\ drops' = drops
    BY <1>3 DEF WriteMined
  <2>3. w.block \in Block
    BY <1>0, <2>1, <2>2
  <2> DEFINE s == [node[n] EXCEPT !.head = Len(chain) + 1]
  <2>4. /\ chain' \in Seq(Block) /\ Len(chain') = Len(chain) + 1
        /\ Len(chain) \in Nat /\ Len(chain) + 1 \in Nat
    BY <1>0, <2>2, <2>3
  <2>5. node' = [node EXCEPT ![n] = s]
    BY <2>2
  <2>6. s \in Registry /\ s.head = Len(chain) + 1 /\ Served(s)
    BY <1>1, <2>1, <2>4, HeadMoved, Zenon
  <2> HIDE DEF s
  <2>7. TypeInv'
    BY <1>0, <2>2, <2>4, <2>5, <2>6, Zenon DEF TypeInv
  <2>8. AllServed'
    BY <1>0, <1>1, <2>5, <2>6 DEF AllServed
  <2>9. ASSUME NEW m \in Node
        PROVE  /\ node'[m].head <= Len(chain')
               /\ \A v \in work'[m] : v.parent <= node'[m].head /\ v.block.by = m
    <3>1. CASE m = n
      BY <1>0, <2>2, <2>4, <2>5, <2>6, <3>1
    <3>2. CASE m # n
      <4>1. node'[m] = node[m] /\ work'[m] = work[m]
        BY <1>0, <2>2, <2>5, <3>2
      <4>2. QED
        BY <1>1, <2>4, <4>1 DEF RegistryInv, InRange
    <3>3. QED
      BY <3>1, <3>2
  <2>10. QED
    BY <2>7, <2>8, <2>9 DEF RegistryInv, InRange
<1>4. ASSUME NEW n \in Node \ Miner, PendingTx(n) PROVE RegistryInv'
  <2>0. PICK tx \in Tx : \E s \in ContractTransitionDb(node[n], tx) : node' = [node EXCEPT ![n] = s]
    BY <1>4, Zenon DEF PendingTx
  <2>1. PICK s \in ContractTransitionDb(node[n], tx) : node' = [node EXCEPT ![n] = s]
    BY <2>0, Zenon
  <2>2. s \in Registry /\ s.head = node[n].head /\ Served(s)
    BY <1>1, Transition
  <2>3. chain' = chain /\ work' = work /\ drops' \in Nat
    BY <1>0, <1>4 DEF PendingTx
  <2>4. node[n].head <= s.head /\ s.head <= Len(chain)
    BY <1>1, <2>2
  <2>5. QED
    BY <2>1, <2>2, <2>3, <2>4, OneRegistry, Zenon
<1>5. ASSUME NEW n \in Node, ImportBlock(n) PROVE RegistryInv'
  <2> DEFINE tx == chain[node[n].head + 1].tx
  <2>1. node[n].head < Len(chain) /\ Len(chain) \in Nat
    BY <1>0, <1>5 DEF ImportBlock
  <2>2. chain[node[n].head + 1] \in Block
    BY <1>0, <1>1, <2>1
  <2>3. tx \in Tx \union {NoTx}
    BY <2>2 DEF Block
  <2>4. PICK r \in ContractTransitionDb(node[n], tx) :
          node' = [node EXCEPT ![n] = IF r.condition = "up" THEN [r EXCEPT !.head = @ + 1] ELSE r]
    BY <1>5, Zenon DEF ImportBlock
  <2> HIDE DEF tx
  <2>5. r \in Registry /\ r.head = node[n].head /\ Served(r)
    BY <1>1, <2>3, Transition
  <2> DEFINE s == IF r.condition = "up" THEN [r EXCEPT !.head = @ + 1] ELSE r
  <2>6. r.head \in Nat /\ r.head + 1 \in Nat
    BY <1>1, <2>5
  <2>7. s \in Registry /\ s.head \in {r.head, r.head + 1} /\ Served(s)
    BY <2>5, <2>6, HeadMoved
  <2>8. node' = [node EXCEPT ![n] = s] /\ chain' = chain /\ work' = work /\ drops' \in Nat
    BY <1>0, <1>5, <2>4, Zenon DEF ImportBlock
  <2> HIDE DEF s
  <2>9. node[n].head <= s.head /\ s.head <= Len(chain)
    BY <1>1, <2>1, <2>5, <2>7
  <2>10. QED
    BY <2>7, <2>8, <2>9, OneRegistry, Zenon
<1>6. ASSUME NEW n \in Node, Restart(n) PROVE RegistryInv'
  <2>1. StartupProto(n) \in Roots
    <3>1. node[n].head \in 0 .. Len(chain)
      BY <1>0, <1>1
    <3>2. QED
      BY <1>0, <3>1, HeadRoots DEF StartupProto
  <2>2. PICK s \in NewContract(node[n], StartupProto(n)) : node' = [node EXCEPT ![n] = s]
    BY <1>6, Zenon DEF Restart
  <2>3. s \in Registry /\ Served(s) /\ s.head = node[n].head
    BY <1>1, <2>1, Reloaded
  <2>4. chain' = chain /\ work' = [work EXCEPT ![n] = {}] /\ drops' \in Nat
    BY <1>0, <1>6 DEF Restart
  <2>5. node[n].head <= s.head /\ s.head <= Len(chain)
    BY <1>1, <2>3
  <2>6. \E W \in SUBSET [parent : Nat, block : Block] :
          /\ work' = [work EXCEPT ![n] = W]
          /\ \A w \in W : w.parent <= s.head /\ w.block.by = n
    <3>1. /\ work' = [work EXCEPT ![n] = {}]
          /\ \A w \in {} : w.parent <= s.head /\ w.block.by = n
      BY <2>4
    <3>2. {} \in SUBSET [parent : Nat, block : Block]
      OBVIOUS
    <3>3. QED
      BY <3>1, <3>2, Zenon
  <2>7. QED
    BY <2>2, <2>3, <2>4, <2>5, <2>6, OneRegistry, Zenon
<1>7. CASE UNCHANGED vars
  BY <1>7 DEF vars, RegistryInv, TypeInv, InRange, AllServed
<1>8. QED
  BY <1>2, <1>3, <1>4, <1>5, <1>6, <1>7 DEF Next

\* Genesis commits the empty tries, which are coherent.
LEMMA RegistryStart == Init => RegistryInv
<1> SUFFICES ASSUME Init PROVE RegistryInv
  OBVIOUS
<1> DEFINE s == [contracts |-> <<>>, single |-> <<>>, list |-> <<>>, abi |-> {},
                 db |-> [single |-> {<<>>}, list |-> {<<>>}, abi |-> {{}}],
                 service |-> None, running |-> {}, condition |-> "up", head |-> 0]
<1>1. <<>> \in Map /\ <<>> \in Seq(Address) /\ DOMAIN <<>> = {}
  BY EmptyMap
<1>2. [single |-> {<<>>}, list |-> {<<>>}, abi |-> {{}}] \in Database
  BY <1>1 DEF Database
<1>3. s \in Record /\ s.contracts = s.single /\ s.list = <<>> /\ s.single = <<>>
  BY <1>1, <1>2 DEF Record
<1>4. s \in Registry
  BY <1>1, <1>3 DEF Registry, Coherent, Range, IsInjective
<1>5. s.head = 0 /\ s.running = {} /\ s.contracts = <<>>
  OBVIOUS
<1>6. node = [n \in Node |-> s]
  BY DEF Init
<1> HIDE DEF s
<1>7. Served(s)
  BY <1>1, <1>5 DEF Served, Systems
<1>8. TypeInv
  <2>1. chain \in Seq(Block) /\ drops \in Nat
    BY DEF Init
  <2>2. work \in [Node -> SUBSET [parent : Nat, block : Block]]
    BY DEF Init
  <2>3. node \in [Node -> Registry]
    BY <1>4, <1>6
  <2>4. QED
    BY <2>1, <2>2, <2>3 DEF TypeInv
<1>9. InRange
  BY <1>5, <1>6 DEF Init, InRange
<1>10. AllServed
  BY <1>6, <1>7 DEF AllServed
<1>11. QED
  BY <1>8, <1>9, <1>10 DEF RegistryInv

\* The invariant of the registries holds in every reachable state.
THEOREM RegistriesCorrect == Spec => []RegistryInv
BY RegistryStart, RegistryStep, PTL DEF Spec

\* The map GetContract answers from, the type trie and the list of a working
\* node always describe the same contracts, whatever is set, cancelled,
\* abandoned, imported or reloaded.
THEOREM MapAlwaysMatches == Spec => []MapMatchesTries
<1>1. RegistryInv => MapMatchesTries
  BY DEF RegistryInv, TypeInv, Registry, Coherent, MapMatchesTries
<1>2. QED
  BY <1>1, RegistriesCorrect, PTL

\* A working node runs a service exactly when its map holds a system contract,
\* and the current service is one that runs.
THEOREM ServiceAlwaysRuns == Spec => []ServiceRuns
<1>1. RegistryInv => ServiceRuns
  <2>1. SUFFICES ASSUME RegistryInv, NEW n \in Node, Up(n)
                 PROVE  /\ (node[n].running # {}) <=>
                             (\E a \in DOMAIN node[n].contracts : node[n].contracts[a] = "System")
                        /\ node[n].running # {} => node[n].service \in node[n].running
    BY DEF ServiceRuns
  <2>2. Served(node[n]) /\ node[n].condition = "up"
    BY <2>1 DEF RegistryInv, AllServed, Up
  <2>3. QED
    BY <2>2 DEF Served, Systems
<1>2. QED
  BY <1>1, RegistriesCorrect, PTL

-----------------------------------------------------------------------------
(* The registries and the chain, while the history is straight.  The        *)
(* predicates take the registry, the work and the chain as parameters.      *)

ProtoAt(c, h) == IF h = 0 THEN EmptyProto ELSE c[h].proto

\* The tries a header commits to follow from its parent's by its transaction.
Recorded(c) == \A i \in 1 .. Len(c) : Follows(ProtoAt(c, i - 1), c[i].tx, c[i].proto)

\* A producer has the tries of its blocks in its database.
OwnStored(n, s, c) == \A i \in 1 .. Len(c) : c[i].by = n => Stored(s, c[i].proto)

\* A node with nothing in progress holds what the header at its head says, in
\* its database too; only the order of the list is its own.
Settled(s, c) ==
    /\ s.single = ProtoAt(c, s.head).single
    /\ s.abi = ProtoAt(c, s.head).abi
    /\ Stored(s, Proto(s))

\* A block assembled on the head follows from it, and the registry and the
\* database have its tries.
Assembled(s, w, c) ==
    /\ Follows(ProtoAt(c, s.head), w.block.tx, w.block.proto)
    /\ w.block.proto = Proto(s)
    /\ Stored(s, Proto(s))

\* The node's database has the tries of its head, but for the order of the list.
Based(s, c) ==
    /\ ProtoAt(c, s.head).single \in s.db.single
    /\ ProtoAt(c, s.head).abi \in s.db.abi
    /\ Len(ProtoAt(c, s.head).list) < 2 => ProtoAt(c, s.head).list \in s.db.list

NodeHistory(n, s, W, c) ==
    /\ OwnStored(n, s, c)
    /\ s.condition = "up" /\ W = {} => Settled(s, c)
    /\ \A w \in W : s.condition = "up" /\ w.parent = s.head /\ Plain(w.block.tx) => Assembled(s, w, c)
    /\ s.condition = "up" /\ (\A w \in W : w.parent = s.head) => Based(s, c)

History ==
    Straight => /\ Recorded(chain)
                /\ \A n \in Node : NodeHistory(n, node[n], work[n], chain)

\* A database that grows keeps what is stored in it.
LEMMA StoredGrows ==
    ASSUME NEW s, NEW r, NEW p, Stored(s, p), Grows(s, r)
    PROVE  Stored(r, p)
BY DEF Stored, Grows

\* Two lists of the same addresses, each without repetition, are the same if
\* they have fewer than two: there is only one order.
LEMMA ShortLists ==
    ASSUME NEW k \in Seq(Address), NEW l \in Seq(Address), Range(k) = Range(l),
           IsInjective(k), IsInjective(l), Len(k) < 2
    PROVE  k = l
<1>1. /\ Len(k) \in Nat /\ DOMAIN k = 1 .. Len(k)
      /\ Len(l) \in Nat /\ DOMAIN l = 1 .. Len(l)
  OBVIOUS
<1>2. \A i \in 1 .. Len(l) : l[i] \in Range(l)
  BY <1>1 DEF Range
<1>3. CASE Len(k) = 0
  <2>1. Range(k) = {}
    BY <1>1, <1>3 DEF Range
  <2>2. Len(l) = 0
    BY <1>1, <1>2, <2>1
  <2>3. QED
    BY <1>3, <2>2
<1>4. CASE Len(k) = 1
  <2>1. Range(k) = {k[1]}
    BY <1>1, <1>4 DEF Range
  <2>2. \A i \in 1 .. Len(l) : l[i] = k[1]
    BY <1>2, <2>1
  <2>3. \A i, j \in 1 .. Len(l) : i = j
    BY <1>1, <2>2 DEF IsInjective
  <2>4. Len(l) <= 1
    BY <1>1, <2>3
  <2>5. Len(l) # 0
    <3>1. Len(l) = 0 => Range(l) = {}
      BY <1>1 DEF Range
    <3>2. QED
      BY <2>1, <3>1
  <2>6. Len(l) = 1 /\ l[1] = k[1]
    BY <1>1, <2>2, <2>4, <2>5
  <2>7. QED
    BY <1>4, <2>6
<1>5. QED
  BY <1>1, <1>3, <1>4

\* A settled node can fall back on its head.
LEMMA SettledBased ==
    ASSUME NEW s \in Registry, NEW c, ProtoAt(c, s.head) \in Roots, Settled(s, c)
    PROVE  Based(s, c)
<1> DEFINE p == ProtoAt(c, s.head)
<1>1. s.list \in Seq(Address) /\ Range(s.list) = DOMAIN s.single /\ IsInjective(s.list)
  BY DEF Registry, Record, Coherent
<1>2. p.list \in Seq(Address) /\ Range(p.list) = DOMAIN p.single /\ IsInjective(p.list)
  BY DEF Roots, Coherent
<1>3. p.single = s.single /\ p.abi = s.abi
  BY DEF Settled
<1>4. s.single \in s.db.single /\ s.list \in s.db.list /\ s.abi \in s.db.abi
  BY DEF Settled, Stored, Proto
<1>5. Len(p.list) < 2 => p.list = s.list
  <2> HIDE DEF p
  <2>1. Range(p.list) = Range(s.list)
    BY <1>1, <1>2, <1>3
  <2>2. QED
    BY <1>1, <1>2, <2>1, ShortLists
<1>6. QED
  BY <1>3, <1>4, <1>5 DEF Based

\* The effect of a transaction depends on the tries it is executed on, not on
\* where they are kept.
LEMMA FollowsSame ==
    ASSUME NEW p, NEW s, p.single = s.single, p.abi = s.abi, NEW tx,
           NEW q, NEW r, q.single = r.single, q.abi = r.abi
    PROVE  Follows(p, tx, q) <=> Follows(s, tx, r)
BY DEF Follows

\* A settled node that executes a transaction and puts it into a block.
LEMMA CreateHistory ==
    ASSUME NEW n \in Node, NEW s \in Registry, NEW c, s.condition = "up",
           ProtoAt(c, s.head) \in Roots, NodeHistory(n, s, {}, c),
           NEW tx \in Tx \union {NoTx}, NEW r \in ContractTransitionDb(s, tx), NEW W,
           W = IF r.condition = "up"
               THEN {[parent |-> r.head, block |-> [tx |-> tx, proto |-> Proto(r), by |-> n]]}
               ELSE {}
    PROVE  NodeHistory(n, r, W, c)
<1>1. /\ r \in Registry /\ r.head = s.head /\ Grows(s, r)
      /\ Plain(tx) => /\ Follows(s, tx, r) /\ r.condition = s.condition
                      /\ Stored(s, Proto(s)) => Stored(r, Proto(r))
  BY Transition
<1>2. Settled(s, c) /\ OwnStored(n, s, c)
  BY DEF NodeHistory
<1>3. OwnStored(n, r, c)
  BY <1>1, <1>2, StoredGrows DEF OwnStored
<1>4. Based(r, c)
  <2>1. Based(s, c)
    BY <1>2, SettledBased
  <2>2. QED
    BY <1>1, <2>1 DEF Based, Grows
<1>5. r.condition = "up" => W # {}
  OBVIOUS
<1>6. ASSUME NEW w \in W, Plain(w.block.tx), r.condition = "up" PROVE Assembled(r, w, c)
  <2>1. w.block.tx = tx /\ w.block.proto = Proto(r)
    BY <1>6
  <2>2. Follows(s, tx, r) /\ Stored(r, Proto(r))
    BY <1>1, <1>2, <1>6, <2>1, Zenon DEF Settled
  <2> DEFINE p == ProtoAt(c, s.head)
  <2>3. p.single = s.single /\ p.abi = s.abi
    BY <1>2 DEF Settled
  <2>4. Proto(r).single = r.single /\ Proto(r).abi = r.abi
    BY DEF Proto
  <2> HIDE DEF p
  <2>5. Follows(p, tx, Proto(r))
    BY <2>2, <2>3, <2>4, FollowsSame
  <2>6. QED
    BY <1>1, <2>1, <2>2, <2>5 DEF Assembled, p
<1>7. QED
  BY <1>3, <1>4, <1>5, <1>6 DEF NodeHistory

\* A node that imports the next block of a recorded chain.
LEMMA ImportHistory ==
    ASSUME NEW n \in Node, NEW s \in Registry, NEW c, s.condition = "up", NEW W,
           Recorded(c), NodeHistory(n, s, W, c), \A w \in W : w.parent \in Nat /\ w.parent <= s.head,
           s.head + 1 \in 1 .. Len(c), c[s.head + 1].tx \in Tx \union {NoTx},
           Plain(c[s.head + 1].tx), c[s.head + 1].proto \in Roots,
           NEW r \in ContractTransitionDb(s, c[s.head + 1].tx)
    PROVE  r.condition = "up" /\ NodeHistory(n, [r EXCEPT !.head = @ + 1], W, c)
<1> DEFINE h == s.head
           tx == c[h + 1].tx
           q == c[h + 1].proto
           u == [r EXCEPT !.head = @ + 1]
<1>1. /\ r \in Registry /\ r.head = h /\ Grows(s, r)
      /\ Follows(s, tx, r) /\ r.condition = s.condition
      /\ Stored(s, Proto(s)) => Stored(r, Proto(r))
  BY Transition
<1>2. h \in Nat /\ h + 1 \in Nat /\ r.head + 1 = h + 1
  BY <1>1, SMTT(90) DEF Registry, Record
<1>3. /\ u \in Registry /\ u.head = h + 1
      /\ u.single = r.single /\ u.list = r.list /\ u.abi = r.abi /\ u.db = r.db
      /\ u.condition = r.condition
  BY <1>1, <1>2, HeadMoved
<1>4. ProtoAt(c, u.head) = q /\ ProtoAt(c, h + 1 - 1) = ProtoAt(c, h)
  BY <1>2, <1>3 DEF ProtoAt
<1>5. Follows(ProtoAt(c, h), tx, q)
  BY <1>2, <1>4 DEF Recorded
<1> HIDE DEF u
<1>6. OwnStored(n, u, c)
  BY <1>1, <1>3, Zenon DEF NodeHistory, OwnStored, Stored, Grows
<1>7. ASSUME W = {} PROVE Settled(u, c)
  <2>1. Settled(s, c)
    BY <1>7 DEF NodeHistory
  <2>2. Follows(ProtoAt(c, h), tx, r)
    BY <1>1, <2>1, FollowsSame DEF Settled
  <2>3. r.single = q.single /\ r.abi = q.abi
    BY <1>5, <2>2, Zenon DEF Follows
  <2>4. Stored(u, Proto(u))
    BY <1>1, <1>3, <2>1, Zenon DEF Settled, Stored, Proto
  <2>5. QED
    BY <1>3, <1>4, <2>3, <2>4, Zenon DEF Settled
<1>8. \A w \in W : w.parent # u.head
  BY <1>2, <1>3
<1>9. (\A w \in W : w.parent = u.head) => Based(u, c)
  <2>1. (\A w \in W : w.parent = u.head) => W = {}
    BY <1>8
  <2>2. W = {} => Based(u, c)
    BY <1>3, <1>4, <1>7, SettledBased
  <2>3. QED
    BY <2>1, <2>2
<1>10. NodeHistory(n, u, W, c)
  BY <1>6, <1>7, <1>8, <1>9, Zenon DEF NodeHistory
<1>11. QED
  BY <1>1, <1>10 DEF u

\* A node that restarts has nothing in progress and what its header says, if
\* the tries are in its database.
LEMMA ReloadHistory ==
    ASSUME NEW n \in Node, NEW s \in Registry, NEW c, NEW W, NodeHistory(n, s, W, c),
           ProtoAt(c, s.head) \in Roots, NEW r \in NewContract(s, ProtoAt(c, s.head))
    PROVE  NodeHistory(n, r, {}, c)
<1> DEFINE p == ProtoAt(c, s.head)
<1>1. /\ r \in Registry /\ r.head = s.head /\ r.db = s.db
      /\ r.condition = "up" => /\ r.single = p.single /\ r.abi = p.abi /\ r.list = p.list
                               /\ Stored(s, p)
  BY Reloaded
<1>2. OwnStored(n, r, c)
  BY <1>1 DEF NodeHistory, OwnStored, Stored
<1>3. ASSUME r.condition = "up" PROVE Settled(r, c)
  <2>1. Stored(r, Proto(r))
    BY <1>1, <1>3 DEF Stored, Proto
  <2>2. QED
    BY <1>1, <1>3, <2>1 DEF Settled
<1>4. ASSUME r.condition = "up" PROVE Based(r, c)
  BY <1>1, <1>3, <1>4, SettledBased
<1>5. QED
  BY <1>2, <1>3, <1>4 DEF NodeHistory

\* A block that is appended is above every head: it changes nothing for a
\* node, except that its producer must have it stored.
LEMMA AppendHistory ==
    ASSUME NEW n \in Node, NEW s \in Registry, NEW W, NEW c \in Seq(Block), NEW b \in Block,
           s.head <= Len(c), NodeHistory(n, s, W, c), b.by = n => Stored(s, b.proto)
    PROVE  NodeHistory(n, s, W, Append(c, b))
<1> DEFINE d == Append(c, b)
<1>1. /\ Len(c) \in Nat /\ Len(d) = Len(c) + 1 /\ d[Len(c) + 1] = b
      /\ \A i \in 1 .. Len(c) : d[i] = c[i]
  OBVIOUS
<1>2. s.head \in Nat
  BY DEF Registry, Record
<1>3. ProtoAt(d, s.head) = ProtoAt(c, s.head)
  BY <1>1, <1>2 DEF ProtoAt
<1> HIDE DEF d
<1>4. OwnStored(n, s, d)
  <2>1. SUFFICES ASSUME NEW i \in 1 .. Len(d), d[i].by = n PROVE Stored(s, d[i].proto)
    BY DEF OwnStored
  <2>2. CASE i \in 1 .. Len(c)
    BY <1>1, <2>1, <2>2 DEF NodeHistory, OwnStored
  <2>3. CASE i \notin 1 .. Len(c)
    <3>1. i = Len(c) + 1
      BY <1>1, <2>3
    <3>2. QED
      BY <1>1, <2>1, <3>1
  <2>4. QED
    BY <2>2, <2>3
<1>5. /\ Settled(s, c) => Settled(s, d)
      /\ \A w \in W : Assembled(s, w, c) => Assembled(s, w, d)
      /\ Based(s, c) => Based(s, d)
  BY <1>3 DEF Settled, Assembled, Based
<1>6. NodeHistory(n, s, W, d)
  BY <1>4, <1>5 DEF NodeHistory
<1>7. QED
  BY <1>6 DEF d

\* The chain stays recorded when the appended block follows from the last.
LEMMA AppendRecorded ==
    ASSUME NEW c \in Seq(Block), NEW b \in Block, Recorded(c),
           Follows(ProtoAt(c, Len(c)), b.tx, b.proto)
    PROVE  Recorded(Append(c, b))
<1> DEFINE d == Append(c, b)
<1>1. /\ Len(c) \in Nat /\ Len(d) = Len(c) + 1 /\ d[Len(c) + 1] = b
      /\ \A i \in 1 .. Len(c) : d[i] = c[i]
  OBVIOUS
<1> HIDE DEF d
<1>2. \A i \in 0 .. Len(c) : ProtoAt(d, i) = ProtoAt(c, i)
  BY <1>1 DEF ProtoAt
<1>3. ASSUME NEW i \in 1 .. Len(d)
      PROVE  Follows(ProtoAt(d, i - 1), d[i].tx, d[i].proto)
  <2>1. CASE i \in 1 .. Len(c)
    <3>1. i - 1 \in 0 .. Len(c)
      BY <1>1, <2>1
    <3>2. QED
      BY <1>1, <1>2, <2>1, <3>1 DEF Recorded
  <2>2. CASE i \notin 1 .. Len(c)
    <3>1. i = Len(c) + 1 /\ i - 1 = Len(c) /\ Len(c) \in 0 .. Len(c)
      BY <1>1, <2>2
    <3>2. QED
      BY <1>1, <1>2, <3>1
  <2>3. QED
    BY <2>1, <2>2
<1>4. Recorded(d)
  BY <1>3 DEF Recorded
<1>5. QED
  BY <1>4 DEF d

\* The producer's own view after its block is written.
LEMMA MinedHistory ==
    ASSUME NEW n \in Node, NEW s \in Registry, s.condition = "up", NEW c \in Seq(Block),
           s.head = Len(c), NEW W, NEW w \in W, w.block \in Block, w.parent = Len(c),
           Plain(w.block.tx), NodeHistory(n, s, W, c)
    PROVE  /\ Follows(ProtoAt(c, Len(c)), w.block.tx, w.block.proto)
           /\ Stored(s, w.block.proto)
           /\ NodeHistory(n, [s EXCEPT !.head = Len(c) + 1], {}, Append(c, w.block))
<1> DEFINE b == w.block
           d == Append(c, b)
           u == [s EXCEPT !.head = Len(c) + 1]
<1>1. Assembled(s, w, c)
  BY DEF NodeHistory
<1>2. Follows(ProtoAt(c, Len(c)), b.tx, b.proto) /\ b.proto = Proto(s) /\ Stored(s, b.proto)
  BY <1>1 DEF Assembled
<1>3. Len(c) \in Nat /\ Len(c) + 1 \in Nat /\ d[Len(c) + 1] = b
  OBVIOUS
<1>4. /\ u \in Registry /\ u.head = Len(c) + 1
      /\ u.single = s.single /\ u.list = s.list /\ u.abi = s.abi /\ u.db = s.db
      /\ u.condition = s.condition
  BY <1>3, HeadMoved
<1>5. NodeHistory(n, s, W, d)
  <2>1. s.head <= Len(c)
    BY <1>3
  <2>2. QED
    BY <1>2, <2>1, AppendHistory
<1> HIDE DEF d, u
<1>6. OwnStored(n, u, d)
  BY <1>4, <1>5 DEF NodeHistory, OwnStored, Stored
<1>7. ProtoAt(d, u.head) = b.proto
  BY <1>3, <1>4 DEF ProtoAt
<1>8. b.proto.single = u.single /\ b.proto.abi = u.abi /\ b.proto.list = u.list
  BY <1>2, <1>4 DEF Proto
<1>9. Settled(u, d)
  BY <1>2, <1>4, <1>7, <1>8, Zenon DEF Settled, Stored, Proto
<1>10. Based(u, d)
  BY <1>4, <1>7, <1>9, SettledBased DEF Block
<1>11. NodeHistory(n, u, {}, d)
  BY <1>6, <1>9, <1>10, Zenon DEF NodeHistory
<1>12. QED
  BY <1>2, <1>11 DEF d, u

\* While the history is straight, every step keeps the chain recorded and the
\* nodes in line with it.
LEMMA HistoryStep == RegistryInv /\ History /\ [Next]_vars => History'
<1>1. SUFFICES ASSUME RegistryInv, History, [Next]_vars, Straight'
               PROVE  /\ Recorded(chain')
                      /\ \A m \in Node : NodeHistory(m, node'[m], work'[m], chain')
  BY DEF History
<1>2. /\ TypeInv /\ chain \in Seq(Block) /\ node \in [Node -> Registry]
      /\ work \in [Node -> SUBSET [parent : Nat, block : Block]] /\ drops \in Nat
  BY <1>1 DEF RegistryInv, TypeInv
<1>3. ASSUME NEW n \in Node
      PROVE  /\ node[n] \in Registry
             /\ node[n].head \in Nat /\ node[n].head \in 0 .. Len(chain) /\ node[n].head <= Len(chain)
             /\ \A w \in work[n] : w.parent \in Nat /\ w.parent <= node[n].head /\ w.block \in Block
                                   /\ w.block.by = n
             /\ ProtoAt(chain, node[n].head) \in Roots
             /\ HeadProto(node[n].head) = ProtoAt(chain, node[n].head)
  <2>1. node[n] \in Registry /\ node[n].head \in Nat /\ node[n].head <= Len(chain)
    BY <1>1, <1>2 DEF RegistryInv, InRange, Registry, Record
  <2>2. node[n].head \in 0 .. Len(chain)
    BY <1>2, <2>1
  <2>3. HeadProto(node[n].head) = ProtoAt(chain, node[n].head)
    BY DEF HeadProto, ProtoAt
  <2>4. ProtoAt(chain, node[n].head) \in Roots
    BY <1>2, <2>2, <2>3, HeadRoots
  <2>5. \A w \in work[n] : w.parent \in Nat /\ w.parent <= node[n].head /\ w.block \in Block
                           /\ w.block.by = n
    BY <1>1, <1>2 DEF RegistryInv, InRange
  <2>6. QED
    BY <2>1, <2>2, <2>3, <2>4, <2>5
<1>4. ASSUME Straight, NEW n \in Node, chain' = chain,
             NEW s, node' = [node EXCEPT ![n] = s],
             NEW W, work' = [work EXCEPT ![n] = W],
             NodeHistory(n, s, W, chain)
      PROVE  /\ Recorded(chain')
             /\ \A m \in Node : NodeHistory(m, node'[m], work'[m], chain')
  <2>1. Recorded(chain) /\ \A m \in Node : NodeHistory(m, node[m], work[m], chain)
    BY <1>1, <1>4 DEF History
  <2>2. \A m \in Node : NodeHistory(m, node'[m], work'[m], chain)
    BY <1>2, <1>4, <2>1
  <2>3. QED
    BY <1>4, <2>1, <2>2
<1>5. ASSUME chain' = chain, drops' = drops PROVE Straight
  BY <1>1, <1>5 DEF Straight
<1>6. ASSUME NEW n \in Miner, CreateNewWork(n)
      PROVE  /\ Recorded(chain')
             /\ \A m \in Node : NodeHistory(m, node'[m], work'[m], chain')
  <2>1. n \in Node /\ node[n].condition = "up" /\ chain' = chain
    BY <1>6, MinerAssumption DEF CreateNewWork
  <2>2. drops' = 0
    BY <1>1 DEF Straight
  <2>3. work[n] = {} /\ drops' = drops
    BY <1>2, <1>6, <2>2 DEF CreateNewWork
  <2>4. Straight
    BY <1>5, <2>1, <2>3
  <2>5. NodeHistory(n, node[n], {}, chain)
    BY <1>1, <2>1, <2>3, <2>4 DEF History
  <2>6. PICK tx \in Tx \union {NoTx} : \E s \in ContractTransitionDb(node[n], tx) :
          /\ node' = [node EXCEPT ![n] = s]
          /\ work' = [work EXCEPT ![n] =
                        IF s.condition = "up"
                        THEN {[parent |-> s.head, block |-> [tx |-> tx, proto |-> Proto(s), by |-> n]]}
                        ELSE {}]
    BY <1>6, Zenon DEF CreateNewWork
  <2>7. PICK s \in ContractTransitionDb(node[n], tx) :
          /\ node' = [node EXCEPT ![n] = s]
          /\ work' = [work EXCEPT ![n] =
                        IF s.condition = "up"
                        THEN {[parent |-> s.head, block |-> [tx |-> tx, proto |-> Proto(s), by |-> n]]}
                        ELSE {}]
    BY <2>6, Zenon
  <2> DEFINE W == IF s.condition = "up"
                  THEN {[parent |-> s.head, block |-> [tx |-> tx, proto |-> Proto(s), by |-> n]]}
                  ELSE {}
  <2>8. NodeHistory(n, s, W, chain)
    BY <1>3, <2>1, <2>5, CreateHistory, Zenon
  <2>9. work' = [work EXCEPT ![n] = W]
    BY <2>7
  <2> HIDE DEF W
  <2>10. QED
    BY <1>4, <2>1, <2>4, <2>7, <2>8, <2>9, Zenon
<1>7. ASSUME NEW n \in Miner, WriteMined(n)
      PROVE  /\ Recorded(chain')
             /\ \A m \in Node : NodeHistory(m, node'[m], work'[m], chain')
  <2>1. n \in Node /\ node[n].condition = "up" /\ drops' = drops
    BY <1>7, MinerAssumption DEF WriteMined
  <2>2. PICK w \in work[n] :
          /\ w.parent = Len(chain)
          /\ chain' = Append(chain, w.block)
          /\ node' = [node EXCEPT ![n].head = Len(chain) + 1]
          /\ work' = [work EXCEPT ![n] = {}]
    BY <1>7 DEF WriteMined
  <2> DEFINE b == w.block
             s == [node[n] EXCEPT !.head = Len(chain) + 1]
  <2>3. b \in Block /\ b.by = n /\ node[n].head = Len(chain)
    BY <1>2, <1>3, <2>1, <2>2
  <2>4. /\ Len(chain) \in Nat /\ Len(chain') = Len(chain) + 1 /\ chain'[Len(chain) + 1] = b
        /\ \A i \in 1 .. Len(chain) : chain'[i] = chain[i]
    BY <1>2, <2>2, <2>3
  <2>5. \A i \in 1 .. Len(chain) + 1 : Plain(chain'[i].tx)
    BY <1>1, <2>4 DEF Straight, Plain
  <2>6. Straight
    BY <1>1, <2>1, <2>4, <2>5 DEF Straight, Plain
  <2>7. Plain(b.tx)
    BY <2>4, <2>5
  <2>8. Recorded(chain) /\ \A m \in Node : NodeHistory(m, node[m], work[m], chain)
    BY <1>1, <2>6 DEF History
  <2>9. /\ Follows(ProtoAt(chain, Len(chain)), b.tx, b.proto)
        /\ NodeHistory(n, s, {}, chain')
    BY <1>2, <1>3, <2>1, <2>2, <2>3, <2>7, <2>8, MinedHistory, Zenon
  <2>10. Recorded(chain')
    BY <1>2, <2>2, <2>3, <2>8, <2>9, AppendRecorded
  <2>11. ASSUME NEW m \in Node PROVE NodeHistory(m, node'[m], work'[m], chain')
    <3>1. CASE m = n
      <4>1. node'[m] = s /\ work'[m] = {}
        BY <1>2, <2>2, <3>1
      <4>2. QED
        BY <2>9, <3>1, <4>1
    <3>2. CASE m # n
      <4>1. node'[m] = node[m] /\ work'[m] = work[m]
        BY <1>2, <2>2, <3>2
      <4>2. NodeHistory(m, node[m], work[m], chain')
        BY <1>2, <1>3, <2>2, <2>3, <2>8, <3>2, AppendHistory, Zenon
      <4>3. QED
        BY <4>1, <4>2
    <3>3. QED
      BY <3>1, <3>2
  <2>12. QED
    BY <2>10, <2>11
<1>8. ASSUME NEW n \in Node \ Miner, PendingTx(n)
      PROVE  FALSE
  BY <1>1, <1>2, <1>8 DEF PendingTx, Straight
<1>9. ASSUME NEW n \in Node, ImportBlock(n)
      PROVE  /\ Recorded(chain')
             /\ \A m \in Node : NodeHistory(m, node'[m], work'[m], chain')
  <2> DEFINE h == node[n].head
  <2>1. /\ node[n].condition = "up" /\ h < Len(chain)
        /\ chain' = chain /\ work' = work /\ drops' = drops
    BY <1>9 DEF ImportBlock
  <2>2. Straight
    BY <1>5, <2>1
  <2>3. Recorded(chain) /\ NodeHistory(n, node[n], work[n], chain)
    BY <1>1, <2>2 DEF History
  <2>4. h + 1 \in 1 .. Len(chain) /\ h \in Nat /\ Len(chain) \in Nat
    BY <1>2, <1>3, <2>1
  <2>5. chain[h + 1] \in Block /\ Plain(chain[h + 1].tx)
    BY <1>2, <2>2, <2>4 DEF Straight, Plain
  <2>6. PICK r \in ContractTransitionDb(node[n], chain[h + 1].tx) :
          node' = [node EXCEPT ![n] = IF r.condition = "up" THEN [r EXCEPT !.head = @ + 1] ELSE r]
    BY <1>9, Zenon DEF ImportBlock
  <2>7. chain[h + 1].tx \in Tx \union {NoTx} /\ chain[h + 1].proto \in Roots
    BY <2>5 DEF Block
  <2>8. r.condition = "up" /\ NodeHistory(n, [r EXCEPT !.head = @ + 1], work[n], chain)
    BY <1>3, <2>1, <2>3, <2>4, <2>5, <2>7, ImportHistory
  <2> DEFINE s == [r EXCEPT !.head = @ + 1]
  <2>9. node' = [node EXCEPT ![n] = s] /\ work' = [work EXCEPT ![n] = work[n]]
    BY <1>2, <2>1, <2>6, <2>8
  <2>10. NodeHistory(n, s, work[n], chain)
    BY <2>8
  <2> HIDE DEF s
  <2>11. QED
    BY <1>4, <2>1, <2>2, <2>9, <2>10, Zenon
<1>10. ASSUME NEW n \in Node, Restart(n)
       PROVE  /\ Recorded(chain')
              /\ \A m \in Node : NodeHistory(m, node'[m], work'[m], chain')
  <2>1. chain' = chain /\ drops' = drops /\ work' = [work EXCEPT ![n] = {}]
    BY <1>10 DEF Restart
  <2>2. Straight
    BY <1>5, <2>1
  <2>3. NodeHistory(n, node[n], work[n], chain)
    BY <1>1, <2>2 DEF History
  <2>4. PICK s \in NewContract(node[n], ProtoAt(chain, node[n].head)) : node' = [node EXCEPT ![n] = s]
    BY <1>3, <1>10, Zenon DEF Restart, StartupProto
  <2>5. NodeHistory(n, s, {}, chain)
    BY <1>3, <2>3, ReloadHistory
  <2>6. QED
    BY <1>4, <2>1, <2>2, <2>4, <2>5, Zenon
<1>11. CASE UNCHANGED vars
  <2>1. /\ chain' = chain /\ node' = node /\ work' = work /\ drops' = drops
    BY <1>11 DEF vars
  <2>2. Straight
    BY <1>5, <2>1
  <2>3. QED
    BY <1>1, <2>1, <2>2 DEF History
<1>12. QED
  BY <1>1, <1>6, <1>7, <1>8, <1>9, <1>10, <1>11 DEF Next

\* At genesis every node is settled on the empty tries.
LEMMA HistoryStart == Init => History
<1> SUFFICES ASSUME Init PROVE Recorded(chain) /\ \A n \in Node : NodeHistory(n, node[n], work[n], chain)
  BY DEF History
<1>1. chain = <<>> /\ Len(chain) = 0 /\ 1 .. Len(chain) = {}
  BY DEF Init
<1>2. Recorded(chain)
  BY <1>1 DEF Recorded
<1>3. ASSUME NEW n \in Node PROVE NodeHistory(n, node[n], work[n], chain)
  <2> DEFINE s == node[n]
  <2>1. /\ s.single = <<>> /\ s.list = <<>> /\ s.abi = {} /\ s.head = 0
        /\ s.db.single = {<<>>} /\ s.db.list = {<<>>} /\ s.db.abi = {{}}
        /\ work[n] = {}
    BY DEF Init
  <2> HIDE DEF s
  <2>2. ProtoAt(chain, s.head) = [single |-> <<>>, list |-> <<>>, abi |-> {}]
    BY <2>1 DEF ProtoAt, EmptyProto
  <2>3. Settled(s, chain)
    BY <2>1, <2>2 DEF Settled, Stored, Proto
  <2>4. Based(s, chain)
    BY <2>1, <2>2 DEF Based
  <2>5. OwnStored(n, s, chain)
    BY <1>1 DEF OwnStored
  <2>6. NodeHistory(n, s, {}, chain)
    BY <2>3, <2>4, <2>5 DEF NodeHistory
  <2>7. QED
    BY <2>1, <2>6 DEF s
<1>4. QED
  BY <1>2, <1>3

\* What relates the registries to the chain holds in every reachable state.
THEOREM HistoryCorrect == Spec => [](RegistryInv /\ History)
<1>1. Init => RegistryInv /\ History
  BY RegistryStart, HistoryStart
<1>2. RegistryInv /\ History /\ [Next]_vars => (RegistryInv /\ History)'
  BY RegistryStep, HistoryStep
<1>3. QED
  BY <1>1, <1>2, PTL DEF Spec

\* As long as nothing executed is thrown away and no system contract is
\* cancelled, working nodes at the same head with no block in progress have
\* registered the same contracts with the same types, however many restarted.
THEOREM NodesAlwaysAgree == Spec => []NodesAgree
<1>1. RegistryInv /\ History => NodesAgree
  <2>1. SUFFICES ASSUME RegistryInv, History, Straight, NEW m \in Node, NEW n \in Node,
                        Up(m), Up(n), work[m] = {}, work[n] = {}, node[m].head = node[n].head
                 PROVE  node[m].contracts = node[n].contracts
    BY DEF NodesAgree
  <2>2. NodeHistory(m, node[m], work[m], chain) /\ NodeHistory(n, node[n], work[n], chain)
    BY <2>1 DEF History
  <2>3. Settled(node[m], chain) /\ Settled(node[n], chain)
    BY <2>1, <2>2, Zenon DEF NodeHistory, Up
  <2>4. node[m].contracts = node[m].single /\ node[n].contracts = node[n].single
    BY <2>1 DEF RegistryInv, TypeInv, Registry
  <2>5. QED
    BY <2>1, <2>3, <2>4 DEF Settled
<1>2. QED
  BY <1>1, HistoryCorrect, PTL

\* As long as the history is straight, a working node can reload its registry
\* from a header it produced, and from another producer's that lists fewer than
\* two contracts.
THEOREM AlwaysReloads == Spec => []ReloadsOwnHead
<1>1. RegistryInv /\ History => ReloadsOwnHead
  <2>1. SUFFICES ASSUME RegistryInv, History, Straight, NEW n \in Node, Up(n),
                        node[n].head > 0, InTime(n),
                        \/ chain[node[n].head].by = n
                        \/ Len(chain[node[n].head].proto.list) < 2
                 PROVE  Reloads(n)
    BY DEF ReloadsOwnHead
  <2> DEFINE s == node[n]
             p == chain[node[n].head].proto
  <2>2. NodeHistory(n, s, work[n], chain)
    BY <2>1 DEF History
  <2>3. s \in Registry /\ s.head \in 1 .. Len(chain)
    BY <2>1, SMTT(90) DEF RegistryInv, TypeInv, InRange, Registry, Record
  <2>4. ProtoAt(chain, s.head) = p /\ HeadProto(s.head) = p
    BY <2>3 DEF ProtoAt, HeadProto
  <2>5. OwnStored(n, s, chain) /\ Based(s, chain)
    BY <2>1, <2>2 DEF NodeHistory, Up, InTime
  <2>6. Stored(s, p)
    <3>1. CASE chain[s.head].by = n
      BY <2>3, <2>5, <3>1 DEF OwnStored
    <3>2. CASE Len(p.list) < 2
      BY <2>4, <2>5, <3>2 DEF Based, Stored
    <3>3. QED
      BY <2>1, <3>1, <3>2
  <2>7. ASSUME NEW r \in NewContract(s, p) PROVE r.condition = "up"
    <3>1. p \in Roots
      <4>1. chain[s.head] \in Block
        BY <2>1, <2>3 DEF RegistryInv, TypeInv
      <4>2. QED
        BY <4>1 DEF Block
    <3>2. QED
      BY <2>3, <2>6, <2>7, <3>1, Reloaded
  <2>8. QED
    BY <2>4, <2>7 DEF Reloads
<1>2. QED
  BY <1>1, HistoryCorrect, PTL
=============================================================================
