--------------------------- MODULE BlockChainProof ---------------------------
(***************************************************************************)
(* BlockChain implements ChainHeads and keeps its canonical numbers, head  *)
(* header, lookup entries and head events in step with the head, for every *)
(* tree of blocks, any choice of mined, early and invalid ones, any length *)
(* of an import and any number of crashes.                                 *)
(***************************************************************************)
EXTENDS BlockChain, TLAPS

Last(w) == w[Len(w)]

\* The refinement mapping, of the writes w left, the blocks st stored and the
\* head h.
IsGoal(g) == g.op \in {"imported", "mined"}
KnownOf(w, st) == IF w # <<>> /\ IsGoal(Last(w)) THEN st \ {Last(w).block} ELSE st
TopOf(w, h) == IF w # <<>> /\ IsGoal(Last(w)) THEN Last(w).before ELSE h

Known == KnownOf(writes, stored)
Top == TopOf(writes, head)

IsSeq(s) == s \in Seq({s[i] : i \in DOMAIN s})

\* What the last write says of the block that is to become the head.
GoalRight(g, st) ==
    /\ IsGoal(g)
    /\ g.block \in Block \ {Genesis}
    /\ {g.before, Parent[g.block]} \subseteq st \ {g.block}
    /\ Number[g.block] >= Number[g.before]

\* What a reorganisation writes before the batch.
ReorgOps == {"insert", "lookup", "unlook", "head", "header"}

\* Before the batch: whatever a reorganisation writes first, then the batch and
\* the insertion of the block itself.
Before(s, g) ==
    /\ IsSeq(s)
    /\ Len(s) >= 3
    /\ s[Len(s) - 2] = Op("batchCanon", g.block)
    /\ s[Len(s) - 1] = Op("insert", g.block)
    /\ s[Len(s)] = g
    /\ \A i \in 1 .. Len(s) - 3 : s[i].op \in ReorgOps

\* After the batch: the steps of insert.
After(s, g, h) ==
    \/ s = <<Op("insert", g.block), g>>
    \/ s = <<Op("head", g.block), g>>
    \/ s = <<Op("head", g.block), Op("header", g.block), g>>
    \/ h = g.block /\ s = <<Op("header", g.block), g>>
    \/ h = g.block /\ s = <<g>>

\* The writes of a side block, and those of a block that becomes the head.
Side(w, st, h) ==
    \E b \in Block \ st :
        /\ w = <<Op("batch", b)>>
        /\ Parent[b] \in st
        /\ h \in st
        /\ Number[b] <= Number[h]

Main(w, st, h) ==
    \E g : /\ GoalRight(g, st)
           /\ \/ g.block \notin st /\ Before(w, g)
              \/ g.block \in st /\ After(w, g, h)

Shape(w, st, h) == (w = <<>> /\ h \in st) \/ Side(w, st, h) \/ Main(w, st, h)

\* The inductive invariant.  A block is announced once because it is announced
\* only when it becomes known, by the miner, or as the last one of an import,
\* which was not announced before.
IInv ==
    /\ stored \subseteq Block /\ Genesis \in stored
    /\ todo \in Seq(Block \ {Genesis})
    /\ future \subseteq Block \ {Genesis}
    /\ announced \subseteq Known
    /\ last # None => last \in Known \ announced
    /\ Shape(writes, stored, head)

-----------------------------------------------------------------------------
(* The tree of blocks *)

Closed(S) == \A y \in S \ {Genesis} : Parent[y] \in S

\* A set of blocks that holds b and the parents of its members holds the chain.
LEMMA ChainLeast ==
    ASSUME NEW b \in Block, NEW S \in SUBSET Block, b \in S, Closed(S)
    PROVE  Chain[b] \subseteq S
BY DEF Chain, Closed

\* The chain of b is such a set.
LEMMA ChainClosed ==
    ASSUME NEW b \in Block
    PROVE  b \in Chain[b] /\ Chain[b] \subseteq Block /\ Closed(Chain[b])
<1>1. Chain[b] = {x \in Block : \A S \in SUBSET Block : b \in S /\ Closed(S) => x \in S}
  BY DEF Chain, Closed
<1>2. ASSUME NEW y \in Chain[b] \ {Genesis} PROVE Parent[y] \in Chain[b]
  <2>1. Parent[y] \in Block
    BY <1>1, TreeAssumption
  <2>2. ASSUME NEW S \in SUBSET Block, b \in S, Closed(S) PROVE Parent[y] \in S
    BY <1>1, <2>2 DEF Closed
  <2> QED BY <1>1, <2>1, <2>2
<1> QED BY <1>1, <1>2 DEF Closed

\* The chain of a block is the block and its parent's chain.
LEMMA ChainStep ==
    /\ Chain[Genesis] = {Genesis}
    /\ \A b \in Block \ {Genesis} : Chain[b] = {b} \cup Chain[Parent[b]]
<1>1. Chain[Genesis] = {Genesis}
  <2>1. Closed({Genesis}) /\ {Genesis} \in SUBSET Block /\ Genesis \in Block
    BY TreeAssumption DEF Closed
  <2>2. Chain[Genesis] \subseteq {Genesis}
    BY <2>1, ChainLeast
  <2> QED BY <2>1, <2>2, ChainClosed
<1>2. ASSUME NEW b \in Block \ {Genesis} PROVE Chain[b] = {b} \cup Chain[Parent[b]]
  <2>1. Parent[b] \in Block
    BY TreeAssumption
  <2> DEFINE S == {b} \cup Chain[Parent[b]]
  <2>2. S \in SUBSET Block /\ b \in S /\ Closed(S)
    BY <2>1, ChainClosed DEF Closed
  <2>3. Chain[b] \subseteq S
    BY <2>2, ChainLeast
  <2>4. b \in Chain[b] /\ Parent[b] \in Chain[b] /\ Chain[b] \in SUBSET Block /\ Closed(Chain[b])
    BY ChainClosed DEF Closed
  <2>5. Chain[Parent[b]] \subseteq Chain[b]
    BY <2>1, <2>4, ChainLeast
  <2> QED BY <2>3, <2>4, <2>5
<1> QED BY <1>1, <1>2

\* The chain of an ancestor is part of the chain.
LEMMA ChainPart ==
    ASSUME NEW b \in Block, NEW x \in Chain[b]
    PROVE  x \in Block /\ Chain[x] \subseteq Chain[b]
<1>1. Chain[b] \in SUBSET Block /\ Closed(Chain[b])
  BY ChainClosed
<1> QED BY <1>1, ChainLeast

\* The numbers on a chain are those from zero to the block's, each once.
OneEach(b) ==
    /\ \A x \in Chain[b] : Number[x] \in 0 .. Number[b]
    /\ \A x, y \in Chain[b] : Number[x] = Number[y] => x = y
    /\ \A n \in 0 .. Number[b] : \E x \in Chain[b] : Number[x] = n

LEMMA ChainNumbers == ASSUME NEW b \in Block PROVE OneEach(b)
<1>1. OneEach(Genesis)
  BY ChainStep, TreeAssumption DEF OneEach
<1>2. ASSUME NEW c \in Block \ {Genesis}, OneEach(Parent[c]) PROVE OneEach(c)
  <2>1. /\ Chain[c] = {c} \cup Chain[Parent[c]] /\ Parent[c] \in Block
        /\ Number[c] = Number[Parent[c]] + 1
    BY ChainStep, TreeAssumption
  <2>2. Number[c] \in Nat /\ Number[Parent[c]] \in Nat
    BY <2>1, TreeAssumption
  <2> QED BY <1>2, <2>1, <2>2 DEF OneEach
<1> DEFINE B == {c \in Block : ~OneEach(c)}
<1>3. B \in SUBSET Block /\ Genesis \notin B
  BY <1>1
<1>4. ASSUME NEW y \in B \ {Genesis} PROVE Parent[y] \in B
  BY <1>2, <1>4, TreeAssumption
<1>5. B = {}
  BY <1>3, <1>4, RootAssumption, Zenon
<1> QED BY <1>5

\* Genesis is on every chain.
LEMMA GenesisOnChain == ASSUME NEW b \in Block PROVE Genesis \in Chain[b]
<1>1. b \in Chain[b] /\ Chain[b] \in SUBSET Block /\ Closed(Chain[b])
  BY ChainClosed
<1> QED BY <1>1, RootAssumption DEF Closed

\* The new chain of a reorganisation from h to b: the blocks of b's chain that
\* are not on h's, from b down (the walk to the common block).
LEMMA NewChainRight ==
    ASSUME NEW b \in Block, head \in Block
    PROVE  /\ NewChain(b) \in Seq(Block)
           /\ \A i \in 1 .. Len(NewChain(b)) : NewChain(b)[i] \in Chain[b]
           /\ \A x \in NewBlocks(b) : \E i \in 1 .. Len(NewChain(b)) : NewChain(b)[i] = x
<1> DEFINE C == Chain[b] \cap Chain[head]
           c == CommonBlock(b)
           k == Number[b] - Number[c]
           at(i) == CHOOSE x \in Chain[b] : Number[x] = Number[b] + 1 - i
           s == NewChain(b)
<1>1. /\ Number[b] \in Nat /\ Number[head] \in Nat
      /\ Chain[b] \subseteq Block /\ Chain[head] \subseteq Block
      /\ OneEach(b) /\ OneEach(head) /\ Genesis \in C
  BY TreeAssumption, ChainClosed, ChainNumbers, GenesisOnChain
<1>2. \E x \in C : \A y \in C : Number[y] <= Number[x]
  <2> DEFINE B == {x \in Chain[b] : \A y \in C : Number[y] <= Number[x]}
  <2>1. b \in B /\ B \in SUBSET Block
    BY <1>1, ChainClosed DEF OneEach
  <2>2. SUFFICES ASSUME B \cap C = {} PROVE FALSE
    OBVIOUS
  <2>3. ASSUME NEW x \in B \ {Genesis} PROVE Parent[x] \in B
    <3>1. x \in Chain[b] /\ x \notin C
      BY <2>2, <2>3
    <3>2. /\ Parent[x] \in Chain[b] /\ Number[x] = Number[Parent[x]] + 1
          /\ Number[Parent[x]] \in Nat
      BY <1>1, <2>3, <3>1, ChainClosed, TreeAssumption DEF Closed
    <3>3. ASSUME NEW y \in C PROVE Number[y] <= Number[Parent[x]]
      <4>1. Number[y] <= Number[x] /\ Number[y] # Number[x] /\ Number[y] \in Nat
        BY <1>1, <2>3, <3>1, <3>3 DEF OneEach
      <4> QED BY <3>2, <4>1
    <3> QED BY <3>2, <3>3
  <2>4. Genesis \in B
    BY <2>1, <2>3, RootAssumption, Zenon
  <2> QED BY <1>1, <2>2, <2>4
<1>3. c \in C /\ \A y \in C : Number[y] <= Number[c]
  BY <1>2 DEF CommonBlock
<1> HIDE DEF c
<1>4. Number[c] \in Nat /\ Number[c] <= Number[b]
  BY <1>1, <1>3 DEF OneEach
<1>5. k \in Nat /\ s = [i \in 1 .. k |-> at(i)]
  BY <1>1, <1>4 DEF NewChain, c
<1>6. ASSUME NEW i \in 1 .. k PROVE at(i) \in Chain[b] /\ Number[at(i)] = Number[b] + 1 - i
  <2>1. Number[b] + 1 - i \in 0 .. Number[b]
    BY <1>1, <1>4, <1>5
  <2>2. \E x \in Chain[b] : Number[x] = Number[b] + 1 - i
    BY <1>1, <2>1 DEF OneEach
  <2> QED BY <2>2
<1> HIDE DEF at
<1>7. DOMAIN s = 1 .. k /\ \A i \in 1 .. k : s[i] = at(i)
  BY <1>5
<1>8. s \in Seq(Block) /\ Len(s) = k
  BY <1>1, <1>5, <1>6
<1>9. ASSUME NEW x \in NewBlocks(b) PROVE \E i \in 1 .. k : s[i] = x
  <2>1. x \in Chain[b] /\ x \notin C /\ Number[x] \in 0 .. Number[b] /\ x \in Block
    BY <1>1 DEF NewBlocks, OneEach
  <2>2. Number[x] > Number[c]
    <3>1. SUFFICES ASSUME Number[x] <= Number[c] PROVE x \in Chain[c]
      <4>1. c \in Chain[head] /\ Chain[c] \subseteq Chain[head]
        BY <1>1, <1>3, ChainPart, TreeAssumption
      <4> QED BY <2>1, <1>4, <3>1, <4>1
    <3>2. c \in Block /\ Chain[c] \subseteq Chain[b] /\ OneEach(c)
      BY <1>3, <1>1, ChainPart, ChainNumbers
    <3>3. PICK y \in Chain[c] : Number[y] = Number[x]
      BY <1>4, <2>1, <3>1, <3>2 DEF OneEach
    <3> QED BY <1>1, <2>1, <3>2, <3>3 DEF OneEach
  <2> DEFINE i == Number[b] + 1 - Number[x]
  <2>3. i \in 1 .. k /\ Number[b] + 1 - i = Number[x]
    BY <1>1, <1>4, <2>1, <2>2
  <2>4. at(i) = x
    BY <1>1, <1>6, <2>1, <2>3 DEF OneEach
  <2> QED BY <1>7, <2>3, <2>4
<1> QED BY <1>6, <1>7, <1>8, <1>9

-----------------------------------------------------------------------------
(* Sequences of writes *)

\* A sequence over any set is one over its own elements.
LEMMA SeqIsSeq == ASSUME NEW S, NEW s \in Seq(S) PROVE IsSeq(s)
BY DEF IsSeq

\* Short sequences.
LEMMA Tuples ==
    ASSUME NEW x, NEW y, NEW z
    PROVE  /\ Tail(<<x>>) = <<>> /\ Tail(<<x, y>>) = <<y>> /\ Tail(<<x, y, z>>) = <<y, z>>
           /\ <<x>>[1] = x /\ <<x, y>>[1] = x /\ <<x, y, z>>[1] = x
           /\ <<x>> \in Seq({x}) /\ <<x, y>> \in Seq({x, y})
           /\ <<x>> \o <<>> \o <<y>> = <<x, y>>
           /\ <<x>> \o <<z>> \o <<y>> = <<x, z, y>>
<1>1. Tail(<<x>>) = <<>> /\ Tail(<<x, y>>) = <<y>> /\ Tail(<<x, y, z>>) = <<y, z>>
  OBVIOUS
<1>2. <<x>>[1] = x /\ <<x, y>>[1] = x /\ <<x, y, z>>[1] = x
  OBVIOUS
<1>3. <<x>> \in Seq({x}) /\ <<x, y>> \in Seq({x, y})
  OBVIOUS
<1>4. <<x>> \o <<>> = <<x>>
  <2> DEFINE s == <<x>> \o <<>>
  <2>1. s \in Seq({x}) /\ Len(s) = 1 /\ s[1] = x
    OBVIOUS
  <2> HIDE DEF s
  <2>2. s = <<s[1]>>
    BY <2>1
  <2> QED BY <2>1, <2>2 DEF s
<1>5. \A a, b : <<a>> \o <<b>> = <<a, b>>
  <2> TAKE a, b
  <2> DEFINE s == <<a>> \o <<b>>
  <2>1. s \in Seq({a, b}) /\ Len(s) = 2 /\ s[1] = a /\ s[2] = b
    OBVIOUS
  <2> HIDE DEF s
  <2>2. s = <<s[1], s[2]>>
    BY <2>1
  <2> QED BY <2>1, <2>2 DEF s
<1>6. <<x, z>> \o <<y>> = <<x, z, y>>
  <2> DEFINE s == <<x, z>> \o <<y>>
  <2>1. s \in Seq({x, y, z}) /\ Len(s) = 3 /\ s[1] = x /\ s[2] = z /\ s[3] = y
    OBVIOUS
  <2> HIDE DEF s
  <2>2. s = <<s[1], s[2], s[3]>>
    BY <2>1
  <2> QED BY <2>1, <2>2 DEF s
<1>7. <<x>> \o <<>> \o <<y>> = <<x, y>> /\ <<x>> \o <<z>> \o <<y>> = <<x, z, y>>
  BY <1>4, <1>5, <1>6, ZenonT(40)
<1> QED BY <1>1, <1>2, <1>3, <1>7

\* Writes of a reorganisation may be put in front (reorg before the batch).
LEMMA PrefixBefore ==
    ASSUME NEW S, NEW p \in Seq(S), \A i \in 1 .. Len(p) : p[i].op \in ReorgOps,
           NEW t, NEW g, Before(t, g)
    PROVE  Before(p \o t, g)
<1> DEFINE T == {t[i] : i \in DOMAIN t}
           s == p \o t
<1>1. t \in Seq(T) /\ Len(t) \in Nat /\ Len(t) >= 3 /\ Len(p) \in Nat
  BY DEF Before, IsSeq
<1>2. s \in Seq(S \cup T) /\ Len(s) = Len(p) + Len(t)
  BY <1>1
<1>3. \A i \in 1 .. Len(s) : s[i] = IF i <= Len(p) THEN p[i] ELSE t[i - Len(p)]
  BY <1>1
<1>4. IsSeq(s)
  BY <1>2, SeqIsSeq, ZenonT(40)
<1> HIDE DEF s, T
<1>5. ASSUME NEW j \in 0 .. 2 PROVE s[Len(s) - j] = t[Len(t) - j]
  <2>1. /\ Len(s) - j \in 1 .. Len(s) /\ ~(Len(s) - j <= Len(p))
        /\ (Len(s) - j) - Len(p) = Len(t) - j
    BY <1>1, <1>2
  <2> QED BY <1>3, <2>1, ZenonT(40)
<1>6. ASSUME NEW i \in 1 .. Len(s) - 3 PROVE s[i].op \in ReorgOps
  <2>1. CASE i <= Len(p)
    BY <1>1, <1>2, <1>3, <2>1
  <2>2. CASE i > Len(p)
    <3>1. i - Len(p) \in 1 .. Len(t) - 3 /\ s[i] = t[i - Len(p)]
      BY <1>1, <1>2, <1>3, <2>2
    <3> QED BY <3>1 DEF Before
  <2> QED BY <2>1, <2>2, <1>1, <1>2
<1>7. s[Len(s)] = t[Len(t)] /\ s[Len(s) - 1] = t[Len(t) - 1] /\ s[Len(s) - 2] = t[Len(t) - 2]
  <2>1. s[Len(s) - 0] = t[Len(t) - 0] /\ Len(s) - 0 = Len(s) /\ Len(t) - 0 = Len(t)
    BY <1>1, <1>2, <1>5
  <2> QED BY <2>1, <1>5
<1>8. Len(s) >= 3
  BY <1>1, <1>2
<1>9. Before(s, g)
  BY <1>4, <1>6, <1>7, <1>8 DEF Before
<1> QED BY <1>9 DEF s

\* Without its first write it is still one before the batch.
LEMMA TailBefore ==
    ASSUME NEW s, NEW g, Before(s, g), Len(s) # 3
    PROVE  Before(Tail(s), g)
<1> DEFINE T == {s[i] : i \in DOMAIN s}
           t == Tail(s)
<1>1. s \in Seq(T)
  BY DEF Before, IsSeq
<1>2. Len(s) \in Nat /\ Len(s) >= 3 /\ s # <<>>
  BY <1>1 DEF Before
<1>3. t \in Seq(T) /\ Len(t) = Len(s) - 1 /\ \A i \in 1 .. Len(t) : t[i] = s[i + 1]
  BY <1>1, <1>2
<1>4. IsSeq(t)
  BY <1>3, SeqIsSeq, ZenonT(40)
<1> HIDE DEF T, t
<1>5. Len(t) >= 3
  BY <1>2, <1>3
<1>6. t[Len(t)] = s[Len(s)] /\ t[Len(t) - 1] = s[Len(s) - 1] /\ t[Len(t) - 2] = s[Len(s) - 2]
  <2>1. ASSUME NEW j \in 0 .. 2 PROVE t[Len(t) - j] = s[Len(s) - j]
    <3>1. Len(t) - j \in 1 .. Len(t) /\ (Len(t) - j) + 1 = Len(s) - j
      BY <1>2, <1>3, <1>5
    <3> QED BY <1>3, <3>1
  <2>2. t[Len(t) - 0] = s[Len(s) - 0] /\ Len(s) - 0 = Len(s) /\ Len(t) - 0 = Len(t)
    BY <1>2, <1>3, <2>1
  <2> QED BY <2>1, <2>2
<1>7. ASSUME NEW i \in 1 .. Len(t) - 3 PROVE t[i].op \in ReorgOps
  <2>1. t[i] = s[i + 1] /\ i + 1 \in 1 .. Len(s) - 3
    BY <1>2, <1>3, SMTT(30)
  <2> QED BY <2>1 DEF Before
<1>8. Before(t, g)
  BY <1>4, <1>5, <1>6, <1>7 DEF Before
<1> QED BY <1>8 DEF t

\* The mapping of a sequence that ends in a goal, and of the others.
LEMMA GoalMapping ==
    ASSUME NEW w, NEW st, NEW h, NEW g, IsGoal(g), Before(w, g) \/ After(w, g, h)
    PROVE  /\ w # <<>> /\ Last(w) = g
           /\ KnownOf(w, st) = st \ {g.block}
           /\ TopOf(w, h) = g.before
<1>1. w # <<>> /\ Last(w) = g
  <2>1. CASE Before(w, g)
    BY <2>1 DEF Before, Last
  <2>2. CASE After(w, g, h)
    BY <2>2 DEF After, Last
  <2> QED BY <2>1, <2>2
<1> QED BY <1>1 DEF KnownOf, TopOf

\* Nothing is being written: the mapping is the identity.
LEMMA IdleMapping ==
    ASSUME NEW st, NEW h
    PROVE  KnownOf(<<>>, st) = st /\ TopOf(<<>>, h) = h
BY DEF KnownOf, TopOf

\* Nor does the batch of a side block hide anything.
LEMMA SideMapping ==
    ASSUME NEW st, NEW h, NEW b
    PROVE  /\ KnownOf(<<Op("batch", b)>>, st) = st
           /\ TopOf(<<Op("batch", b)>>, h) = h
BY DEF KnownOf, TopOf, Last, Op, IsGoal

-----------------------------------------------------------------------------
(* The steps of ChainHeads under the mapping *)

Follows == Heads!Next \/ UNCHANGED Heads!headVars

\* The mapping is the one the refinement is stated with.
LEMMA Mapping ==
    /\ Known = IF Canonical THEN stored \ {Goal.block} ELSE stored
    /\ Top = IF Canonical THEN Goal.before ELSE head
    /\ Known' = IF Canonical' THEN stored' \ {Goal'.block} ELSE stored'
    /\ Top' = IF Canonical' THEN Goal'.before ELSE head'
BY DEF Known, Top, KnownOf, TopOf, Canonical, Goal, IsGoal, Last

\* A step that leaves the mapped variables alone.
LEMMA Stutter ==
    ASSUME Known' = Known, Top' = Top, UNCHANGED <<announced, posts, told>>
    PROVE  Follows
BY Mapping DEF Follows, Heads!headVars

\* A block that is written and leaves the head where it is.
LEMMA NewMinor ==
    ASSUME NEW b \in Block \ Known, Parent[b] \in Known, Known' = Known \cup {b},
           Number[b] <= Number[Top], Top' = Top, UNCHANGED <<announced, posts, told>>
    PROVE  Follows
<1>1. Heads!NewBlock
  BY Mapping DEF Heads!NewBlock
<1> QED BY <1>1 DEF Follows, Heads!Next

\* A block that becomes the head, announced or not.
LEMMA NewHead ==
    ASSUME NEW b \in Block \ Known, Parent[b] \in Known, Known' = Known \cup {b},
           Number[b] >= Number[Top], Top' = b, UNCHANGED told,
           \/ UNCHANGED <<announced, posts>>
           \/ /\ b \notin announced
              /\ announced' = announced \cup {b} /\ posts' = posts \cup {b}
    PROVE  Follows
<1>1. Heads!Announce(b) \/ UNCHANGED <<announced, posts, told>>
  BY DEF Heads!Announce
<1>2. Heads!NewBlock
  BY <1>1, Mapping DEF Heads!NewBlock
<1> QED BY <1>2 DEF Follows, Heads!Next

-----------------------------------------------------------------------------
(* Initial states *)

\* loadLastState of an empty database: genesis.
LEMMA InitIInv == Init => IInv /\ Heads!Init
<1> SUFFICES ASSUME Init PROVE IInv /\ Heads!Init
  OBVIOUS
<1>1. Known = stored /\ Top = head
  BY IdleMapping DEF Init, Known, Top
<1>2. IInv
  BY <1>1, TreeAssumption DEF Init, IInv, Shape
<1>3. Heads!Init
  BY <1>1, Mapping DEF Init, Heads!Init
<1> QED BY <1>2, <1>3

-----------------------------------------------------------------------------
(* Steps that write nothing *)

\* Steps that write nothing keep the mapping and the shape of the writes.
LEMMA SameChain ==
    ASSUME IInv, UNCHANGED <<stored, head, writes>>
    PROVE  Known' = Known /\ Top' = Top /\ Shape(writes, stored, head)'
BY DEF IInv, Known, Top

\* InsertChain only takes its blocks.
LEMMA InsertChainStep ==
    ASSUME IInv, InsertChain PROVE IInv' /\ Follows
<1>1. PICK n \in 1 .. MaxBatch : \E s \in [1 .. n -> Block \ {Genesis}] : todo' = s
  BY DEF InsertChain
<1>2. todo' \in Seq(Block \ {Genesis})
  <2>1. n \in Nat
    BY BoundAssumption
  <2> QED BY <1>1, <2>1
<1>3. UNCHANGED <<stored, head, writes, announced, posts, told, future>> /\ last' = None
  BY DEF InsertChain, database
<1>4. Known' = Known /\ Top' = Top /\ Shape(writes, stored, head)'
  BY <1>3, SameChain
<1>5. IInv'
  BY <1>2, <1>3, <1>4 DEF IInv
<1> QED BY <1>3, <1>4, <1>5, Stutter

\* So does procFutureBlocks.
LEMMA ProcFutureStep ==
    ASSUME IInv, ProcFutureBlocks PROVE IInv' /\ Follows
<1>1. PICK b \in future : todo' = <<b>>
  BY DEF ProcFutureBlocks
<1>2. todo' \in Seq(Block \ {Genesis})
  BY <1>1 DEF IInv
<1>3. UNCHANGED <<stored, head, writes, announced, posts, told, future>> /\ last' = None
  BY DEF ProcFutureBlocks, database
<1>4. Known' = Known /\ Top' = Top /\ Shape(writes, stored, head)'
  BY <1>3, SameChain
<1>5. IInv'
  BY <1>2, <1>3, <1>4 DEF IInv
<1> QED BY <1>3, <1>4, <1>5, Stutter

\* PostChainEvents delivers.
LEMMA PostStep ==
    ASSUME IInv, PostChainEvents PROVE IInv' /\ Follows
<1>1. PICK b \in posts : posts' = posts \ {b} /\ told' = b
  BY DEF PostChainEvents
<1>2. UNCHANGED <<stored, head, writes, announced, todo, future, last>>
  BY DEF PostChainEvents, database
<1>3. Known' = Known /\ Top' = Top /\ Shape(writes, stored, head)'
  BY <1>2, SameChain
<1>4. IInv'
  BY <1>2, <1>3 DEF IInv
<1>5. Heads!Deliver(b)
  BY <1>1, <1>2, <1>3, Mapping DEF Heads!Deliver
<1> QED BY <1>4, <1>5 DEF Follows, Heads!Next

\* The end of insertChain announces the head, or nothing.
LEMMA ImportDoneStep ==
    ASSUME IInv, ImportDone PROVE IInv' /\ Follows
<1>1. /\ UNCHANGED <<stored, head, writes, told, todo, future>> /\ last' = None
      /\ writes = <<>>
  BY DEF ImportDone, database
<1>2. Known' = Known /\ Top' = Top /\ Shape(writes, stored, head)'
  BY <1>1, SameChain
<1>3. Known = stored /\ Top = head
  BY <1>1, IdleMapping DEF Known, Top
<1>4. CASE last = head
  <2>1. announced' = announced \cup {last} /\ posts' = posts \cup {last}
    BY <1>4 DEF ImportDone
  <2>2. head \in stored /\ last # None /\ last \in Known \ announced
    BY <1>1, <1>4, TreeAssumption DEF IInv, Shape, Side, Main, GoalRight, Before, After
  <2>3. IInv'
    BY <1>1, <1>2, <2>1, <2>2 DEF IInv
  <2>4. Heads!AnnounceTop
    BY <1>1, <1>2, <1>3, <1>4, <2>1, <2>2, Mapping, ZenonT(40)
       DEF Heads!AnnounceTop, Heads!Announce
  <2> QED BY <2>3, <2>4 DEF Follows, Heads!Next
<1>5. CASE last # head
  <2>1. UNCHANGED <<announced, posts>>
    BY <1>5 DEF ImportDone
  <2>2. IInv'
    BY <1>1, <1>2, <2>1 DEF IInv
  <2> QED BY <1>1, <1>2, <2>1, <2>2, Stutter
<1> QED BY <1>4, <1>5

-----------------------------------------------------------------------------
(* A block starts to be written *)

\* The writes of reorg: an insertion and its lookup entries for every block of
\* the new chain, newest first, and the removal of the lookup entries that are
\* left over.
Unlook(b) == [op |-> "unlook", block |-> b,
              txs |-> Txs(Chain[head] \ Chain[b]) \ Txs(NewBlocks(b))]

LEMMA ReorgWrites ==
    ASSUME NEW b, NEW n \in Nat, NewChain(b) \in Seq(Block), Len(NewChain(b)) = n
    PROVE  /\ IsSeq(Reorg(b)) /\ Len(Reorg(b)) = 2 * n + 1
           /\ \A i \in 1 .. 2 * n :
                 Reorg(b)[i] = Op(IF i % 2 = 1 THEN "insert" ELSE "lookup",
                                  NewChain(b)[(i + 1) \div 2])
           /\ Reorg(b)[2 * n + 1] = Unlook(b)
<1> DEFINE u == Unlook(b)
           m == 2 * n
           f == [i \in 1 .. m |->
                   Op(IF i % 2 = 1 THEN "insert" ELSE "lookup", NewChain(b)[(i + 1) \div 2])]
           S == {f[i] : i \in 1 .. m} \cup {u}
<1>1. Reorg(b) = f \o <<u>>
  BY DEF Reorg, Unlook
<1>2. DOMAIN f = 1 .. m /\ \A i \in 1 .. m : f[i] \in S
  OBVIOUS
<1>3. f = [i \in 1 .. m |-> f[i]] /\ <<u>> \in Seq(S) /\ Len(<<u>>) = 1 /\ <<u>>[1] = u
  OBVIOUS
<1>4. \A i \in 1 .. m : f[i] = Op(IF i % 2 = 1 THEN "insert" ELSE "lookup",
                                  NewChain(b)[(i + 1) \div 2])
  OBVIOUS
<1>5. m \in Nat /\ m = 2 * n
  OBVIOUS
<1> HIDE DEF m, f, u, S
<1>6. f \in Seq(S) /\ Len(f) = m
  BY <1>2, <1>3, <1>5
<1> DEFINE r == f \o <<u>>
<1>7. /\ r \in Seq(S) /\ Len(r) = m + 1
      /\ \A i \in 1 .. m + 1 : r[i] = IF i <= m THEN f[i] ELSE u
  BY <1>3, <1>5, <1>6
<1>8. IsSeq(r)
  BY <1>7, SeqIsSeq, ZenonT(40)
<1> HIDE DEF r
<1>9. \A i \in 1 .. m : r[i] = f[i]
  BY <1>5, <1>7
<1>10. r[m + 1] = u
  BY <1>5, <1>7
<1> QED BY <1>1, <1>4, <1>5, <1>7, <1>8, <1>9, <1>10 DEF r, u

\* reorg only prepares writes that come before the batch.
LEMMA ReorgPrefix ==
    ASSUME NEW b, NewChain(b) \in Seq(Block)
    PROVE  \E S : Reorg(b) \in Seq(S)
                  /\ \A i \in 1 .. Len(Reorg(b)) : Reorg(b)[i].op \in ReorgOps
<1> DEFINE n == Len(NewChain(b))
           r == Reorg(b)
<1>1. n \in Nat
  OBVIOUS
<1>2. /\ IsSeq(r) /\ Len(r) = 2 * n + 1
      /\ \A i \in 1 .. 2 * n :
            r[i] = Op(IF i % 2 = 1 THEN "insert" ELSE "lookup", NewChain(b)[(i + 1) \div 2])
      /\ r[2 * n + 1] = Unlook(b)
  BY <1>1, ReorgWrites
<1>3. \A o, x : Op(o, x).op = o
  BY DEF Op
<1>4. Unlook(b).op \in ReorgOps
  BY DEF Unlook, ReorgOps
<1> HIDE DEF n, r
<1>5. ASSUME NEW i \in 1 .. Len(r) PROVE r[i].op \in ReorgOps
  <2>1. CASE i = 2 * n + 1
    BY <1>2, <1>4, <2>1
  <2>2. CASE i # 2 * n + 1
    <3>1. i \in 1 .. 2 * n
      BY <1>1, <1>2, <2>2
    <3> QED BY <1>2, <1>3, <3>1 DEF ReorgOps
  <2> QED BY <2>1, <2>2
<1> QED BY <1>2, <1>5 DEF IsSeq, r

\* WriteBlockAndState changes neither what is known nor the head yet.
LEMMA WriteStarts ==
    ASSUME IInv, NEW by \in {"imported", "mined"}, NEW b \in Block \ stored,
           Parent[b] \in stored, WriteBlockAndState(b, by), UNCHANGED <<stored, head>>
    PROVE  Known' = Known /\ Top' = Top /\ Shape(writes, stored, head)'
<1>1. writes = <<>> /\ head \in stored
  BY DEF WriteBlockAndState, IInv, Shape, Side, Main, GoalRight, Before, After
<1>2. Known = stored /\ Top = head
  BY <1>1, IdleMapping DEF Known, Top
<1>3. b # Genesis /\ b # head /\ Parent[b] # b /\ head \in Block /\ stored \ {b} = stored
  BY <1>1 DEF IInv
<1> DEFINE g == [op |-> by, block |-> b, before |-> head]
           core == <<Op("batchCanon", b), Op("insert", b), g>>
           pre == IF Parent[b] # head THEN Reorg(b) ELSE <<>>
<1>4. \/ writes' = <<Op("batch", b)>> /\ Number[b] <= Number[head]
      \/ writes' = pre \o core /\ Number[b] >= Number[head]
  BY <1>3, TreeAssumption DEF WriteBlockAndState
<1>5. CASE writes' = <<Op("batch", b)>> /\ Number[b] <= Number[head]
  <2>1. Known' = stored /\ Top' = head
    BY <1>5, SideMapping DEF Known, Top
  <2>2. Side(writes', stored', head')
    BY <1>1, <1>5 DEF Side
  <2> QED BY <1>2, <2>1, <2>2 DEF Shape
<1>6. CASE writes' = pre \o core /\ Number[b] >= Number[head]
  <2>1. Before(core, g)
    <3>1. core \in Seq({core[1], core[2], core[3]}) /\ Len(core) = 3
      OBVIOUS
    <3>2. IsSeq(core)
      BY <3>1, SeqIsSeq, ZenonT(40)
    <3> QED BY <3>1, <3>2 DEF Before
  <2>2. IsGoal(g) /\ GoalRight(g, stored)
    BY <1>1, <1>3, <1>6 DEF GoalRight, IsGoal
  <2>3. g.block = b /\ g.before = head
    OBVIOUS
  <2>4. \E S : pre \in Seq(S) /\ \A i \in 1 .. Len(pre) : pre[i].op \in ReorgOps
    <3>1. CASE Parent[b] # head
      BY <1>3, <3>1, NewChainRight, ReorgPrefix
    <3>2. CASE Parent[b] = head
      <4>1. pre = <<>> /\ pre \in Seq({}) /\ Len(pre) = 0
        BY <3>2
      <4> QED BY <4>1
    <3> QED BY <3>1, <3>2
  <2> HIDE DEF g, core, pre
  <2>5. Before(writes', g)
    BY <1>6, <2>1, <2>4, PrefixBefore
  <2>6. Known' = stored \ {b} /\ Top' = head
    BY <2>2, <2>3, <2>5, GoalMapping, ZenonT(40) DEF Known, Top
  <2>7. Main(writes', stored', head')
    BY <2>2, <2>3, <2>5 DEF Main
  <2> QED BY <1>2, <1>3, <2>6, <2>7 DEF Shape
<1> QED BY <1>4, <1>5, <1>6

\* The miner's block starts to be written.
LEMMA MineStep ==
    ASSUME IInv, MineBlock PROVE IInv' /\ Follows
<1>1. PICK b \in Own \ stored : Parent[b] \in stored /\ WriteBlockAndState(b, "mined")
  BY DEF MineBlock
<1>2. UNCHANGED <<stored, head, todo, future, last, announced, posts, told>>
  BY DEF MineBlock, database
<1>3. b \in Block \ stored
  BY TreeAssumption
<1>4. Known' = Known /\ Top' = Top /\ Shape(writes, stored, head)'
  BY <1>1, <1>2, <1>3, WriteStarts
<1>5. IInv'
  BY <1>2, <1>4 DEF IInv
<1> QED BY <1>2, <1>4, <1>5, Stutter

\* insertChain skips, keeps, refuses or starts to write its next block.
LEMMA ImportBlockStep ==
    ASSUME IInv, ImportBlock PROVE IInv' /\ Follows
<1> DEFINE b == todo[1]
<1>1. /\ UNCHANGED <<stored, head, announced, posts, told>>
      /\ todo # <<>> /\ writes = <<>>
  BY DEF ImportBlock, database
<1>2. b \in Block \ {Genesis} /\ Tail(todo) \in Seq(Block \ {Genesis})
  BY <1>1 DEF IInv
<1>3. /\ todo' \in {Tail(todo), <<>>} /\ future' \in {future, future \cup {b}}
      /\ last' \in {last, None}
  BY DEF ImportBlock
<1>4. \/ UNCHANGED writes
      \/ b \notin stored /\ Parent[b] \in stored /\ WriteBlockAndState(b, "imported")
  BY DEF ImportBlock
<1>5. Known' = Known /\ Top' = Top /\ Shape(writes, stored, head)'
  <2>1. CASE UNCHANGED writes
    BY <1>1, <2>1, SameChain
  <2>2. CASE b \notin stored /\ Parent[b] \in stored /\ WriteBlockAndState(b, "imported")
    BY <1>1, <1>2, <2>2, WriteStarts
  <2> QED BY <1>4, <2>1, <2>2
<1> HIDE DEF b
<1>6. todo' \in Seq(Block \ {Genesis})
  <2>1. <<>> \in Seq(Block \ {Genesis})
    OBVIOUS
  <2> QED BY <1>2, <1>3, <2>1, ZenonT(40)
<1>7. IInv'
  BY <1>1, <1>2, <1>3, <1>5, <1>6 DEF IInv
<1> QED BY <1>1, <1>5, <1>7, Stutter

-----------------------------------------------------------------------------
(* The writes *)

\* A side block: it is known, and the head stays.
LEMMA WriteSide ==
    ASSUME IInv, Write, Side(writes, stored, head) PROVE IInv' /\ Follows
<1>1. PICK b \in Block \ stored :
         /\ writes = <<Op("batch", b)>> /\ Parent[b] \in stored /\ head \in stored
         /\ Number[b] <= Number[head]
  BY DEF Side
<1>2. writes[1].op = "batch" /\ writes[1].block = b /\ Tail(writes) = <<>>
  BY <1>1 DEF Op
<1>3. /\ writes' = <<>> /\ stored' = stored \cup {b} /\ head' = head
      /\ last' = last /\ future' \subseteq future
      /\ UNCHANGED <<posts, announced, told, todo>>
  BY <1>2 DEF Write
<1>4. Known = stored /\ Top = head
  BY <1>1, SideMapping DEF Known, Top
<1>5. Known' = stored \cup {b} /\ Top' = head
  BY <1>3, IdleMapping DEF Known, Top
<1>6. IInv'
  BY <1>1, <1>3, <1>4, <1>5 DEF IInv, Shape
<1> QED BY <1>1, <1>3, <1>4, <1>5, <1>6, NewMinor

\* Before the batch and with it: nothing that ChainHeads shows.
LEMMA WriteBefore ==
    ASSUME IInv, Write, NEW g, GoalRight(g, stored), g.block \notin stored,
           Before(writes, g)
    PROVE  IInv' /\ Follows
<1>1. Known = stored \ {g.block} /\ Top = g.before
  BY GoalMapping, ZenonT(40) DEF Known, Top, GoalRight
<1> DEFINE w == writes[1]
<1>2. writes \in Seq({writes[i] : i \in DOMAIN writes}) /\ Len(writes) >= 3
  BY DEF Before, IsSeq
<1> DEFINE n == Len(writes)
<1>n. n \in Nat /\ n >= 3
  BY <1>2
<1> HIDE DEF n
<1>3. SUFFICES /\ UNCHANGED <<last, posts, announced, told, todo>> /\ future' \subseteq future
               /\ Known' = Known /\ Top' = Top
               /\ stored' \subseteq Block /\ stored \subseteq stored'
               /\ Main(writes', stored', head')
  <2>1. IInv'
    BY <1>3 DEF IInv, Shape
  <2> QED BY <1>3, <2>1, Stutter
<1>4. CASE Len(writes) = 3
  <2>1. w = Op("batchCanon", g.block) /\ Tail(writes) = <<Op("insert", g.block), g>>
    <3>1. /\ writes[1] = Op("batchCanon", g.block) /\ writes[2] = Op("insert", g.block)
          /\ writes[3] = g
      BY <1>4 DEF Before
    <3>2. writes = <<writes[1], writes[2], writes[3]>>
      BY <1>2, <1>4
    <3>3. Tail(<<writes[1], writes[2], writes[3]>>) = <<writes[2], writes[3]>>
      OBVIOUS
    <3> QED BY <3>1, <3>2, <3>3, ZenonT(40)
  <2>2. w.op = "batchCanon" /\ w.block = g.block
    BY <2>1 DEF Op
  <2>3. /\ writes' = Tail(writes) /\ stored' = stored \cup {g.block} /\ head' = head
        /\ future' \subseteq future /\ UNCHANGED <<last, posts, announced, told, todo>>
    BY <2>2 DEF Write
  <2>4. After(writes', g, head')
    BY <2>1, <2>3 DEF After
  <2>5. Known' = stored' \ {g.block} /\ Top' = g.before
    BY <2>4, GoalMapping, ZenonT(40) DEF Known, Top, GoalRight
  <2>6. GoalRight(g, stored') /\ g.block \in stored'
    BY <2>3 DEF GoalRight
  <2>7. Main(writes', stored', head')
    BY <2>4, <2>6 DEF Main
  <2> QED BY <1>1, <2>3, <2>5, <2>7 DEF IInv, GoalRight
<1>5. CASE Len(writes) # 3
  <2>1. w.op \in ReorgOps
    <3>1. n # 3
      BY <1>5 DEF n
    <3>2. 1 \in 1 .. n - 3
      BY <3>1, <1>n
    <3> QED BY <3>2 DEF Before, n
  <2>2. Before(Tail(writes), g)
    BY <1>5, TailBefore
  <2>3. /\ UNCHANGED <<stored, last, posts, announced, told, todo>> /\ future' \subseteq future
        /\ \/ writes' = Tail(writes)
           \/ \E p : writes' = p \o Tail(writes)
                     /\ \/ p = <<Op("head", w.block)>> \o <<>>
                        \/ p = <<Op("head", w.block)>> \o <<Op("header", w.block)>>
    BY <2>1, ZenonT(40) DEF Write, Insert, ReorgOps
  <2>4. Before(writes', g)
    <3>1. CASE writes' = Tail(writes)
      BY <2>2, <3>1
    <3>2. ASSUME NEW p, writes' = p \o Tail(writes),
                 \/ p = <<Op("head", w.block)>> \o <<>>
                 \/ p = <<Op("head", w.block)>> \o <<Op("header", w.block)>>
          PROVE  Before(writes', g)
      <4>1. \/ p = <<Op("head", w.block)>>
            \/ p = <<Op("head", w.block), Op("header", w.block)>>
        BY <3>2
      <4>2. PICK S : p \in Seq(S)
        <5>1. <<Op("head", w.block)>> \in Seq({Op("head", w.block)})
          BY Tuples
        <5>2. /\ <<Op("head", w.block), Op("header", w.block)>>
                    \in Seq({Op("head", w.block), Op("header", w.block)})
          BY Tuples
        <5> QED BY <4>1, <5>1, <5>2, ZenonT(40)
      <4>3. \A i \in 1 .. Len(p) : p[i].op \in ReorgOps
        BY <4>1 DEF Op, ReorgOps
      <4> QED BY <2>2, <3>2, <4>2, <4>3, PrefixBefore
    <3> QED BY <2>3, <3>1, <3>2, ZenonT(40)
  <2>5. Known' = stored' \ {g.block} /\ Top' = g.before
    BY <2>4, GoalMapping, ZenonT(40) DEF Known, Top, GoalRight
  <2>6. Main(writes', stored', head')
    BY <2>3, <2>4 DEF Main
  <2> QED BY <1>1, <2>3, <2>5, <2>6 DEF IInv
<1> QED BY <1>4, <1>5

\* After the batch: the insertion shows nothing, and when insert is done the
\* block is known and is the head.
LEMMA WriteAfter ==
    ASSUME IInv, Write, NEW g, GoalRight(g, stored), g.block \in stored,
           After(writes, g, head)
    PROVE  IInv' /\ Follows
<1>1. Known = stored \ {g.block} /\ Top = g.before
  BY GoalMapping, ZenonT(40) DEF Known, Top, GoalRight
<1>2. ASSUME UNCHANGED <<stored, last, posts, announced, told, todo, future>>,
             After(writes', g, head')
      PROVE  IInv' /\ Follows
  <2>1. Known' = stored \ {g.block} /\ Top' = g.before
    BY <1>2, GoalMapping, ZenonT(40) DEF Known, Top, GoalRight
  <2>2. Main(writes', stored', head')
    BY <1>2 DEF Main
  <2>3. IInv'
    BY <1>1, <1>2, <2>1, <2>2 DEF IInv, Shape
  <2> QED BY <1>1, <1>2, <2>1, <2>3, Stutter
<1> DEFINE w == writes[1]
           ins == Op("insert", g.block)
           hd == Op("head", g.block)
           hdr == Op("header", g.block)
<1>4. CASE writes = <<ins, g>>
  <2>1. w.op = "insert" /\ w.block = g.block /\ Tail(writes) = <<g>>
    BY <1>4, Tuples DEF Op
  <2>2. Insert(g.block) /\ UNCHANGED <<told, todo>>
    BY <2>1 DEF Write
  <2>3. writes' = <<hd, g>> \/ writes' = <<hd, hdr, g>>
    <3>1. writes' = <<hd>> \o <<>> \o <<g>> \/ writes' = <<hd>> \o <<hdr>> \o <<g>>
      BY <2>1, <2>2, ZenonT(40) DEF Insert
    <3>2. <<hd>> \o <<>> \o <<g>> = <<hd, g>> /\ <<hd>> \o <<hdr>> \o <<g>> = <<hd, hdr, g>>
      BY Tuples, ZenonT(40)
    <3> QED BY <3>1, <3>2
  <2>4. After(writes', g, head')
    BY <2>3 DEF After
  <2>5. UNCHANGED <<stored, last, posts, announced, told, todo, future>>
    BY <2>2 DEF Insert
  <2> QED BY <1>2, <2>4, <2>5
<1>5. CASE writes = <<hd, g>> \/ writes = <<hd, hdr, g>>
  <2>1. w = hd /\ Tail(writes) \in {<<g>>, <<hdr, g>>}
    <3>1. CASE writes = <<hd, g>>
      BY <3>1
    <3>2. CASE writes = <<hd, hdr, g>>
      BY <3>2
    <3> QED BY <1>5, <3>1, <3>2
  <2>2. /\ writes' = Tail(writes) /\ head' = g.block
        /\ UNCHANGED <<stored, last, posts, announced, told, todo, future>>
    BY <2>1 DEF Write, Op
  <2>3. After(writes', g, head')
    BY <2>1, <2>2 DEF After
  <2> QED BY <1>2, <2>2, <2>3
<1>6. CASE head = g.block /\ writes = <<hdr, g>>
  <2>1. w.op = "header" /\ Tail(writes) = <<g>>
    BY <1>6, Tuples DEF Op
  <2>2. /\ writes' = Tail(writes) /\ head' = g.block
        /\ UNCHANGED <<stored, last, posts, announced, told, todo, future>>
    BY <1>6, <2>1 DEF Write
  <2>3. After(writes', g, head')
    BY <2>1, <2>2 DEF After
  <2> QED BY <1>2, <2>2, <2>3
<1>7. CASE head = g.block /\ writes = <<g>>
  <2>1. w = g /\ Tail(writes) = <<>> /\ g.op \in {"imported", "mined"}
    BY <1>7, Tuples DEF GoalRight, IsGoal
  <2>2. /\ writes' = <<>> /\ UNCHANGED <<stored, head, told, todo, future>>
        /\ \/ g.op = "imported" /\ last' = g.block /\ UNCHANGED <<posts, announced>>
           \/ /\ g.op = "mined" /\ last' = last
              /\ posts' = posts \cup {g.block} /\ announced' = announced \cup {g.block}
    BY <2>1 DEF Write
  <2>3. Known' = stored /\ Top' = g.block
    BY <1>7, <2>2, IdleMapping DEF Known, Top
  <2>4. /\ g.block \in Block \ Known /\ Parent[g.block] \in Known
        /\ Known' = Known \cup {g.block} /\ Number[g.block] >= Number[Top]
    BY <1>1, <2>3 DEF GoalRight
  <2>5. g.block \notin announced /\ g.block # last
    BY <1>1, <2>4, TreeAssumption DEF IInv
  <2>6. Follows
    BY <2>2, <2>3, <2>4, <2>5, NewHead, SMTT(30)
  <2>7. IInv'
    BY <1>7, <2>2, <2>3, <2>4, <2>5 DEF IInv, Shape
  <2> QED BY <2>6, <2>7
<1> QED BY <1>4, <1>5, <1>6, <1>7 DEF After

\* Every write of WriteBlockAndState.
LEMMA WriteStep ==
    ASSUME IInv, Write PROVE IInv' /\ Follows
<1>1. writes # <<>>
  BY DEF Write
<1>2. Side(writes, stored, head) \/ Main(writes, stored, head)
  BY <1>1 DEF IInv, Shape
<1>3. CASE Main(writes, stored, head)
  <2>1. PICK g : /\ GoalRight(g, stored)
                 /\ \/ g.block \notin stored /\ Before(writes, g)
                    \/ g.block \in stored /\ After(writes, g, head)
    BY <1>3 DEF Main
  <2> QED BY <2>1, WriteBefore, WriteAfter
<1> QED BY <1>2, <1>3, WriteSide

-----------------------------------------------------------------------------
(* Crash and restart *)

\* A restart at any point: loadLastState finds a block that is stored.
LEMMA RestartStep ==
    ASSUME IInv, Restart PROVE IInv' /\ Follows
<1>1. /\ writes' = <<>> /\ todo' = <<>> /\ last' = None /\ future' = {}
      /\ posts' = {} /\ told' = head' /\ UNCHANGED <<stored, announced>>
  BY DEF Restart
<1>2. head' \in stored
  BY DEF Restart, LoadLastState, IInv
<1>3. Known' = stored /\ Top' = head'
  BY <1>1, IdleMapping DEF Known, Top
<1>4. Known \subseteq stored /\ stored \subseteq Block
  BY DEF Known, KnownOf, IInv
<1>5. IInv'
  <2>1. <<>> \in Seq(Block \ {Genesis})
    OBVIOUS
  <2> QED BY <1>1, <1>2, <1>3, <1>4, <2>1 DEF IInv, Shape
<1>6. Heads!Restart
  BY <1>1, <1>2, <1>3, <1>4, Mapping DEF Heads!Restart
<1> QED BY <1>5, <1>6 DEF Follows, Heads!Next

-----------------------------------------------------------------------------
(* Theorems *)

\* Every step keeps the invariant and is a step of ChainHeads or none.
LEMMA StepIInv == IInv /\ [Next]_vars => IInv' /\ [Heads!Next]_Heads!headVars
<1> SUFFICES ASSUME IInv, [Next]_vars PROVE IInv' /\ [Heads!Next]_Heads!headVars
  OBVIOUS
<1>1. IInv' /\ Follows
  <2>1. CASE UNCHANGED vars
    <3>1. UNCHANGED <<stored, head, writes, todo, future, last, announced, posts, told>>
      BY <2>1 DEF vars
    <3>2. Known' = Known /\ Top' = Top /\ Shape(writes, stored, head)'
      BY <3>1, SameChain
    <3>3. IInv'
      BY <3>1, <3>2 DEF IInv
    <3> QED BY <3>1, <3>2, <3>3, Stutter
  <2> QED
    BY <2>1, InsertChainStep, ProcFutureStep, ImportBlockStep, ImportDoneStep, WriteStep,
       MineStep, PostStep, RestartStep DEF Next
<1> QED BY <1>1 DEF Follows

\* The strengthened invariant holds in every reachable state, whatever the tree
\* of blocks and wherever the crashes fall (all of blockchain.go's writes).
THEOREM WritesInOrder == Spec => []IInv
<1>1. Init => IInv
  BY InitIInv
<1>2. IInv /\ [Next]_vars => IInv'
  BY StepIInv
<1> QED BY <1>1, <1>2, PTL DEF Spec

\* The chain implements ChainHeads (WriteBlockAndState, insertChain,
\* PostChainEvents, loadLastState): every head is a known block at least as
\* heavy as the one before, every head event names a block that was the head,
\* and none is made twice, with imports, a miner and crashes interleaved.
THEOREM HeadsImplemented == Spec => HeadsSpec
<1>1. Init => IInv /\ Heads!Init
  BY InitIInv
<1>2. IInv /\ [Next]_vars => IInv' /\ [Heads!Next]_Heads!headVars
  BY StepIInv
<1> QED BY <1>1, <1>2, PTL DEF Spec, HeadsSpec, Heads!Spec

-----------------------------------------------------------------------------
(* The canonical numbers, the head header and the lookup entries *)

Elems(w) == {w[i] : i \in DOMAIN w}
Left(E, op, x) == \E e \in E : e.op = op /\ e.block = x

Linked(h, cn) == \A x \in Chain[h] : cn[Number[x]] = x

Found(h, lk) ==
    \A t \in ChainTx : t \in Txs(Chain[h]) => lk[t] \in Chain[h] /\ t \in Txs({lk[t]})

NoOther(h, lk) == \A t \in ChainTx : t \notin Txs(Chain[h]) => lk[t] = None

\* Block h is stored, and numbers cn, head header hr and lookup entries lk agree
\* with its chain.
Settled(h, st, cn, hr, lk) ==
    h \in st /\ Linked(h, cn) /\ hr \in Chain[h] /\ Found(h, lk)

\* They are on their way to block b: what does not agree yet is among the writes
\* E that are left.  In particular a head header off b's chain is followed by a
\* block whose number is still another's, which insert takes as its condition.
NumbersOnWay(b, E, cn) ==
    \A x \in Chain[b] : cn[Number[x]] = x \/ Left(E, "insert", x)

HeaderOnWay(b, E, cn, hr) ==
    \/ hr \in Chain[b]
    \/ \E x \in Chain[b] : Left(E, "header", x)
    \/ \E x \in Chain[b] : Left(E, "insert", x) /\ cn[Number[x]] # x

LookupsOnWay(b, E, lk) ==
    \A t \in ChainTx : t \in Txs(Chain[b]) =>
        \/ lk[t] \in Chain[b] /\ t \in Txs({lk[t]})
        \/ \E x \in Chain[b] : t \in Txs({x}) /\ (Left(E, "lookup", x) \/ Left(E, "batchCanon", x))

OthersOnWay(b, E, lk) ==
    \A t \in ChainTx : t \notin Txs(Chain[b]) =>
        lk[t] = None \/ \E e \in E : e.op = "unlook" /\ t \in e.txs

OnWay(b, E, cn, hr, lk, tn) ==
    /\ \A e \in E : e.block \in Chain[b]
    /\ \A e \in E : e.op = "unlook" => e.txs \cap Txs(Chain[b]) = {}
    /\ NumbersOnWay(b, E, cn)
    /\ HeaderOnWay(b, E, cn, hr)
    /\ LookupsOnWay(b, E, lk)
    /\ tn = 0 => OthersOnWay(b, E, lk)

\* A block that extends the head: a crash in between leaves a head that is
\* settled, the old one or the new one.
Straight(g, w, st, h, cn, hr, lk) ==
    Parent[g.block] = g.before =>
        /\ Settled(h, st, cn, hr, lk)
        /\ g.block \notin st => w = <<Op("batchCanon", g.block), Op("insert", g.block), g>>
        /\ w[1].op \in {"batchCanon", "insert", "head"} => h = g.before

\* The inductive invariant, on top of IInv.
LInv ==
    /\ DOMAIN canon = Height
    /\ torn \in 0 .. 2
    /\ Closed(stored) /\ stored \cap Bad = {}
    /\ \A e \in Elems(writes) : e.op \in {"batch", "batchCanon"} => e.block \notin Bad
    /\ torn < 2 =>
         /\ ~Canonical => /\ Settled(head, stored, canon, header, lookup)
                          /\ torn = 0 => NoOther(head, lookup)
         /\ Canonical => /\ OnWay(Goal.block, Elems(writes), canon, header, lookup, torn)
                         /\ Straight(Goal, writes, stored, head, canon, header, lookup)

\* Transactions of a chain are those of its blocks.
LEMMA TxsOfChain ==
    ASSUME NEW b \in Block, NEW t
    PROVE  t \in Txs(Chain[b]) <=> \E x \in Chain[b] : t \in Txs({x})
BY DEF Txs

\* A valid chain has a transaction once.
LEMMA TxOnce ==
    ASSUME NEW b \in Block, Chain[b] \cap Bad = {}, NEW x \in Chain[b], NEW y \in Chain[b],
           NEW t, t \in Txs({x}), t \in Txs({y})
    PROVE  x = y
BY ValidAssumption, Zenon

\* insert of a block of the chain.
LEMMA InsertOnWay ==
    ASSUME NEW b \in Block, NEW E, NEW E2, NEW e, NEW cn, NEW hr, NEW lk, NEW tn,
           OnWay(b, {e} \cup E, cn, hr, lk, tn), e.op = "insert", DOMAIN cn = Height,
           NEW H, E2 = E \cup H,
           \A x \in H : x \in {Op("head", e.block), Op("header", e.block)},
           cn[Number[e.block]] # e.block => Op("header", e.block) \in H
    PROVE  OnWay(b, E2, [cn EXCEPT ![Number[e.block]] = e.block], hr, lk, tn)
<1> DEFINE y == e.block
           c2 == [cn EXCEPT ![Number[y]] = y]
<1>1. y \in Chain[b] /\ y \in Block /\ OneEach(b) /\ Chain[b] \subseteq Block
  BY ChainClosed, ChainNumbers, Zenon DEF OnWay
<1>2. Number[y] \in DOMAIN cn
  BY <1>1 DEF Height
<1>3. \A x \in Chain[b] : c2[Number[x]] = IF x = y THEN y ELSE cn[Number[x]]
  <2> TAKE x \in Chain[b]
  <2>1. Number[x] \in DOMAIN cn
    BY <1>1 DEF Height
  <2>2. CASE x = y
    BY <1>2, <2>2
  <2>3. CASE x # y
    <3>1. Number[x] # Number[y]
      BY <1>1, <2>3 DEF OneEach
    <3> QED BY <2>1, <2>3, <3>1
  <2> QED BY <2>2, <2>3, Zenon
<1>4. /\ Op("head", y).op = "head" /\ Op("header", y).op = "header"
      /\ Op("head", y).block = y /\ Op("header", y).block = y
  BY DEF Op
<1>5. \A x \in H : x.block = y /\ x.op \in {"head", "header"}
  BY <1>4
<1>6. \A op, x : Left({e} \cup E, op, x) => Left(E2, op, x) \/ (op = "insert" /\ x = y)
  BY DEF Left
<1> HIDE DEF c2, y
<1>7. /\ \A x \in E2 : x.block \in Chain[b]
      /\ \A x \in E2 : x.op = "unlook" => x.txs \cap Txs(Chain[b]) = {}
  <2>1. \A x \in E : x.block \in Chain[b] /\ (x.op = "unlook" => x.txs \cap Txs(Chain[b]) = {})
    BY Zenon DEF OnWay
  <2> QED BY <1>1, <1>5, <2>1, Zenon
<1>8. NumbersOnWay(b, E2, c2)
  <2>1. NumbersOnWay(b, {e} \cup E, cn)
    BY Zenon DEF OnWay
  <2>2. ASSUME NEW x \in Chain[b] PROVE c2[Number[x]] = x \/ Left(E2, "insert", x)
    <3>1. cn[Number[x]] = x \/ Left({e} \cup E, "insert", x)
      BY <2>1, Zenon DEF NumbersOnWay
    <3> QED BY <1>3, <1>6, <3>1, Zenon
  <2> QED BY <2>2 DEF NumbersOnWay
<1>9. HeaderOnWay(b, E2, c2, hr)
  <2>1. CASE hr \in Chain[b]
    BY <2>1 DEF HeaderOnWay
  <2>2. ASSUME NEW x \in Chain[b], Left({e} \cup E, "header", x) PROVE HeaderOnWay(b, E2, c2, hr)
    BY <1>6, <2>2, Zenon DEF HeaderOnWay
  <2>3. ASSUME NEW x \in Chain[b], Left({e} \cup E, "insert", x), cn[Number[x]] # x
        PROVE  HeaderOnWay(b, E2, c2, hr)
    <3>1. CASE x = y
      <4>1. Op("header", y) \in E2
        BY <2>3, <3>1, Zenon DEF y
      <4> QED BY <1>1, <1>4, <4>1, Zenon DEF HeaderOnWay, Left
    <3>2. CASE x # y
      <4>1. Left(E2, "insert", x) /\ c2[Number[x]] # x
        BY <1>3, <1>6, <2>3, <3>2, Zenon
      <4> QED BY <4>1 DEF HeaderOnWay
    <3> QED BY <3>1, <3>2
  <2> QED BY <2>1, <2>2, <2>3, Zenon DEF OnWay, HeaderOnWay
<1>10. LookupsOnWay(b, E2, lk)
  BY <1>6, Zenon DEF OnWay, LookupsOnWay
<1>11. tn = 0 => OthersOnWay(b, E2, lk)
  BY Zenon DEF OnWay, OthersOnWay
<1> QED BY <1>7, <1>8, <1>9, <1>10, <1>11, Zenon DEF OnWay, c2, y

\* The other writes of a block that becomes the head.
LEMMA OtherOnWay ==
    ASSUME NEW b \in Block, NEW E, NEW e, NEW cn, NEW hr, NEW lk, NEW tn,
           OnWay(b, {e} \cup E, cn, hr, lk, tn), Chain[b] \cap Bad = {},
           NEW hr2, NEW lk2,
           \/ e.op \in {"head", "imported", "mined"} /\ hr2 = hr /\ lk2 = lk
           \/ e.op = "header" /\ hr2 = e.block /\ lk2 = lk
           \/ /\ e.op \in {"lookup", "batchCanon"} /\ hr2 = hr
              /\ lk2 = [t \in ChainTx |-> IF t \in Txs({e.block}) THEN e.block ELSE lk[t]]
           \/ /\ e.op = "unlook" /\ hr2 = hr
              /\ lk2 = [t \in ChainTx |-> IF t \in e.txs THEN None ELSE lk[t]]
    PROVE  OnWay(b, E, cn, hr2, lk2, tn)
<1> DEFINE y == e.block
           F == {e} \cup E
<1>1. y \in Chain[b]
  BY DEF OnWay
<1>2. \A op, x : Left(F, op, x) => Left(E, op, x) \/ (op = e.op /\ x = y)
  BY DEF Left
<1>3. /\ \A x \in E : x.block \in Chain[b]
      /\ \A x \in E : x.op = "unlook" => x.txs \cap Txs(Chain[b]) = {}
  BY DEF OnWay
<1>4. NumbersOnWay(b, E, cn)
  <2>1. NumbersOnWay(b, F, cn) /\ e.op # "insert"
    BY DEF OnWay
  <2> QED BY <1>2, <2>1 DEF NumbersOnWay
<1>5. HeaderOnWay(b, E, cn, hr2)
  BY <1>1, <1>2, Zenon DEF OnWay, HeaderOnWay
<1>6. e.op = "unlook" => e.txs \cap Txs(Chain[b]) = {}
  BY DEF OnWay
<1>7. ASSUME NEW t \in ChainTx, t \in Txs(Chain[b])
      PROVE  \/ lk2[t] \in Chain[b] /\ t \in Txs({lk2[t]})
             \/ \E x \in Chain[b] :
                  t \in Txs({x}) /\ (Left(E, "lookup", x) \/ Left(E, "batchCanon", x))
  <2>1. \/ lk[t] \in Chain[b] /\ t \in Txs({lk[t]})
        \/ \E x \in Chain[b] : t \in Txs({x}) /\ (Left(F, "lookup", x) \/ Left(F, "batchCanon", x))
    BY <1>7, Zenon DEF OnWay, LookupsOnWay
  <2>2. CASE lk2 = lk /\ e.op \notin {"lookup", "batchCanon"}
    BY <1>2, <2>1, <2>2, Zenon
  <2>3. CASE e.op \in {"lookup", "batchCanon"}
    <3>1. lk2[t] = IF t \in Txs({y}) THEN y ELSE lk[t]
      BY <2>3
    <3>2. CASE t \in Txs({y})
      BY <1>1, <3>1, <3>2
    <3>3. CASE t \notin Txs({y})
      BY <1>2, <2>1, <3>1, <3>3, Zenon
    <3> QED BY <3>2, <3>3, Zenon
  <2>4. CASE e.op = "unlook"
    <3>1. lk2[t] = lk[t]
      BY <1>6, <1>7, <2>4
    <3> QED BY <1>2, <2>1, <2>4, <3>1, Zenon
  <2> QED BY <2>2, <2>3, <2>4, Zenon
<1>8. ASSUME tn = 0, NEW t \in ChainTx, t \notin Txs(Chain[b])
      PROVE  lk2[t] = None \/ \E x \in E : x.op = "unlook" /\ t \in x.txs
  <2>1. lk[t] = None \/ \E x \in F : x.op = "unlook" /\ t \in x.txs
    BY <1>8 DEF OnWay, OthersOnWay
  <2>2. t \notin Txs({y})
    BY <1>1, <1>8 DEF Txs
  <2>3. CASE e.op = "unlook"
    BY <2>1, <2>3
  <2>4. CASE e.op # "unlook"
    <3>1. lk2[t] = lk[t]
      BY <2>2, <2>4
    <3> QED BY <2>1, <2>4, <3>1
  <2> QED BY <2>3, <2>4
<1> QED BY <1>3, <1>4, <1>5, <1>7, <1>8, Zenon DEF OnWay, LookupsOnWay, OthersOnWay

\* Nothing but the goal is left: the block is settled.
LEMMA OnWayEnds ==
    ASSUME NEW b \in Block, NEW E, NEW cn, NEW hr, NEW lk, NEW tn, NEW st, b \in st,
           OnWay(b, E, cn, hr, lk, tn),
           \A e \in E : e.op \in {"imported", "mined"}
    PROVE  Settled(b, st, cn, hr, lk) /\ (tn = 0 => NoOther(b, lk))
<1>1. \A op, x : op \in {"insert", "header", "lookup", "batchCanon"} => ~Left(E, op, x)
  BY DEF Left
<1>2. Linked(b, cn)
  BY <1>1, SMTT(90) DEF OnWay, NumbersOnWay, Linked
<1>3. hr \in Chain[b]
  BY <1>1, SMTT(90) DEF OnWay, HeaderOnWay
<1>4. Found(b, lk)
  <2>1. LookupsOnWay(b, E, lk)
    BY DEF OnWay
  <2>2. \A x : ~(Left(E, "lookup", x) \/ Left(E, "batchCanon", x))
    BY <1>1
  <2>3. ASSUME NEW t \in ChainTx, t \in Txs(Chain[b])
        PROVE  lk[t] \in Chain[b] /\ t \in Txs({lk[t]})
    BY <2>1, <2>2, <2>3, Zenon DEF LookupsOnWay
  <2> QED BY <2>3 DEF Found
<1>5. tn = 0 => NoOther(b, lk)
  BY Zenon DEF OnWay, OthersOnWay, NoOther
<1> QED BY <1>2, <1>3, <1>4, <1>5 DEF Settled

\* What a reorganisation writes: every block of the new chain gets its number and
\* its transactions their entries, and the old chain's others lose theirs.
LEMMA ReorgMembers ==
    ASSUME NEW b \in Block, head \in Block
    PROVE  /\ \A x \in NewBlocks(b) : {Op("insert", x), Op("lookup", x)} \subseteq Elems(Reorg(b))
           /\ Unlook(b) \in Elems(Reorg(b))
           /\ \A e \in Elems(Reorg(b)) :
                 e.block \in Chain[b] /\ (e.op = "unlook" => e = Unlook(b))
<1> DEFINE s == NewChain(b)
           n == Len(s)
           r == Reorg(b)
<1>0. /\ s \in Seq(Block)
      /\ \A i \in 1 .. n : s[i] \in Chain[b]
      /\ \A x \in NewBlocks(b) : \E i \in 1 .. n : s[i] = x
  BY NewChainRight, Zenon
<1>1. n \in Nat
  <2> HIDE DEF s
  <2> QED BY <1>0
<1>2. /\ IsSeq(r) /\ Len(r) = 2 * n + 1 /\ r[2 * n + 1] = Unlook(b)
      /\ \A i \in 1 .. 2 * n :
            r[i] = Op(IF i % 2 = 1 THEN "insert" ELSE "lookup", s[(i + 1) \div 2])
  BY <1>0, <1>1, ReorgWrites, Zenon
<1> HIDE DEF s, n, r
<1>3. DOMAIN r = 1 .. 2 * n + 1
  BY <1>1, <1>2 DEF IsSeq
<1>4. \A i \in 1 .. 2 * n + 1 : r[i] \in Elems(r)
  BY <1>3 DEF Elems
<1>5. ASSUME NEW x \in NewBlocks(b) PROVE {Op("insert", x), Op("lookup", x)} \subseteq Elems(r)
  <2>1. PICK j \in 1 .. n : s[j] = x
    BY <1>0
  <2>2. /\ 2 * j - 1 \in 1 .. 2 * n /\ 2 * j \in 1 .. 2 * n
        /\ (2 * j - 1) % 2 = 1 /\ (2 * j) % 2 # 1
        /\ (2 * j - 1 + 1) \div 2 = j /\ (2 * j + 1) \div 2 = j
    BY <1>1
  <2>3. r[2 * j - 1] = Op("insert", x) /\ r[2 * j] = Op("lookup", x)
    BY <1>2, <2>1, <2>2
  <2>4. 2 * j - 1 \in 1 .. 2 * n + 1 /\ 2 * j \in 1 .. 2 * n + 1
    BY <1>1, <2>2
  <2> QED BY <1>4, <2>3, <2>4, Zenon
<1>6. ASSUME NEW e \in Elems(r) PROVE e.block \in Chain[b] /\ (e.op = "unlook" => e = Unlook(b))
  <2>1. PICK i \in 1 .. 2 * n + 1 : e = r[i]
    BY <1>3 DEF Elems
  <2>2. CASE i = 2 * n + 1
    <3>1. Unlook(b).block = b /\ b \in Chain[b]
      BY ChainClosed DEF Unlook
    <3> QED BY <1>2, <2>1, <2>2, <3>1
  <2>3. CASE i # 2 * n + 1
    <3>1. i \in 1 .. 2 * n /\ (i + 1) \div 2 \in 1 .. n
      BY <1>1, <2>3
    <3>2. PICK o \in {"insert", "lookup"} : e = Op(o, s[(i + 1) \div 2])
      BY <1>2, <2>1, <3>1
    <3>3. e.op = o /\ e.block = s[(i + 1) \div 2]
      BY <3>2 DEF Op
    <3> QED BY <1>0, <3>1, <3>2, <3>3
  <2> QED BY <2>2, <2>3
<1>7. Unlook(b) \in Elems(r)
  <2>1. 2 * n + 1 \in 1 .. 2 * n + 1
    BY <1>1
  <2> QED BY <1>2, <1>4, <2>1
<1> QED BY <1>5, <1>6, <1>7, Zenon DEF r

\* A head header of the old chain that is not on the new, higher one is followed
\* there by a block of the same number.
LEMMA HeaderReplaced ==
    ASSUME NEW b \in Block, NEW h \in Block, Number[b] >= Number[h],
           NEW cn, Linked(h, cn), NEW hr \in Chain[h], hr \notin Chain[b]
    PROVE  \E y \in Chain[b] \ Chain[h] : cn[Number[y]] # y
<1>1. OneEach(b) /\ OneEach(h)
  BY ChainNumbers
<1>2. Number[b] \in Nat /\ Number[h] \in Nat
  BY TreeAssumption
<1>3. Number[hr] \in 0 .. Number[h]
  BY <1>1 DEF OneEach
<1>4. Number[hr] \in 0 .. Number[b]
  BY <1>2, <1>3
<1>5. PICK y \in Chain[b] : Number[y] = Number[hr]
  BY <1>1, <1>4, Zenon DEF OneEach
<1>6. y # hr
  BY <1>5
<1>7. y \notin Chain[h]
  BY <1>1, <1>5, <1>6, Zenon DEF OneEach
<1>8. cn[Number[y]] = hr
  BY <1>5, Zenon DEF Linked
<1> QED BY <1>6, <1>7, <1>8

\* A transaction of both chains is in a block of the new part, or only in blocks
\* the chains share.
LEMMA SharedTx ==
    ASSUME NEW b \in Block, NEW h \in Block, Chain[h] \cap Bad = {},
           NEW t, t \in Txs(Chain[b]), t \in Txs(Chain[h])
    PROVE  \/ \E x \in Chain[b] \ Chain[h] : t \in Txs({x})
           \/ \A z \in Chain[h] : t \in Txs({z}) => z \in Chain[b]
<1>1. PICK x \in Chain[b] : t \in Txs({x})
  BY TxsOfChain, Zenon
<1>2. CASE x \in Chain[h]
  <2>1. ASSUME NEW z \in Chain[h], t \in Txs({z}) PROVE z = x
    BY <1>1, <1>2, <2>1, TxOnce, Zenon
  <2> QED BY <1>1, <2>1, Zenon
<1>3. CASE x \notin Chain[h]
  BY <1>1, <1>3, Zenon
<1> QED BY <1>2, <1>3, Zenon

\* The entries a reorganisation deletes are not of the new chain (the difference
\* of deletedTxs and addedTxs), and they are all those of the old chain's others.
LEMMA UnlookRight ==
    ASSUME NEW b \in Block, head \in Block, Chain[head] \cap Bad = {}
    PROVE  /\ Unlook(b).txs \cap Txs(Chain[b]) = {}
           /\ \A t : t \notin Txs(Chain[b]) /\ t \in Txs(Chain[head]) => t \in Unlook(b).txs
<1>1. Unlook(b).txs = Txs(Chain[head] \ Chain[b]) \ Txs(NewBlocks(b))
  BY DEF Unlook
<1>2. \A B, t : t \in Txs(B) <=> \E x \in B : t \in Txs({x})
  BY DEF Txs
<1>3. NewBlocks(b) = Chain[b] \ Chain[head]
  BY DEF NewBlocks
<1>4. ASSUME NEW t, t \in Txs(Chain[head] \ Chain[b]), t \notin Txs(NewBlocks(b)),
             t \in Txs(Chain[b])
      PROVE  FALSE
  <2>1. PICK z \in Chain[head] \ Chain[b] : t \in Txs({z})
    BY <1>2, <1>4, Zenon
  <2>2. t \in Txs(Chain[head])
    BY <2>1, TxsOfChain, Zenon
  <2>3. ~\E x \in Chain[b] \ Chain[head] : t \in Txs({x})
    BY <1>2, <1>3, <1>4, Zenon
  <2>4. \A y \in Chain[head] : t \in Txs({y}) => y \in Chain[b]
    BY <1>4, <2>2, <2>3, SharedTx, Zenon
  <2> QED BY <2>1, <2>4, Zenon
<1>5. ASSUME NEW t, t \notin Txs(Chain[b]), t \in Txs(Chain[head])
      PROVE  t \in Txs(Chain[head] \ Chain[b]) /\ t \notin Txs(NewBlocks(b))
  <2>1. PICK z \in Chain[head] : t \in Txs({z})
    BY <1>5, TxsOfChain, Zenon
  <2>2. z \notin Chain[b]
    BY <1>2, <1>5, <2>1, Zenon
  <2>3. t \in Txs(Chain[head] \ Chain[b])
    BY <1>2, <2>1, <2>2, Zenon
  <2>4. ASSUME NEW x \in NewBlocks(b), t \in Txs({x}) PROVE FALSE
    <3>1. x \in Chain[b]
      BY <1>3, <2>4
    <3> QED BY <1>5, <2>4, <3>1, TxsOfChain, Zenon
  <2>5. t \notin Txs(NewBlocks(b))
    BY <1>2, <2>4, Zenon
  <2> QED BY <2>3, <2>5
<1> QED BY <1>1, <1>4, <1>5, Zenon

\* The lookup entries of the new chain: of the shared part, or still to come.
LEMMA LookupsReplaced ==
    ASSUME NEW b \in Block, NEW h \in Block, Chain[h] \cap Bad = {},
           NEW lk, Found(h, lk), NEW E,
           \A x \in Chain[b] \ Chain[h] : Left(E, "lookup", x)
    PROVE  LookupsOnWay(b, E, lk)
<1>1. SUFFICES ASSUME NEW t \in ChainTx, t \in Txs(Chain[b])
      PROVE  \/ lk[t] \in Chain[b] /\ t \in Txs({lk[t]})
             \/ \E x \in Chain[b] : t \in Txs({x}) /\ Left(E, "lookup", x)
  BY Zenon DEF LookupsOnWay
<1>2. PICK x \in Chain[b] : t \in Txs({x})
  BY <1>1, TxsOfChain, Zenon
<1>3. CASE x \notin Chain[h]
  BY <1>2, <1>3, Zenon
<1>4. CASE x \in Chain[h]
  <2>1. t \in Txs(Chain[h])
    BY <1>2, <1>4, TxsOfChain, Zenon
  <2>2. lk[t] \in Chain[h] /\ t \in Txs({lk[t]})
    BY <1>1, <2>1, Zenon DEF Found
  <2>3. lk[t] = x
    BY <1>2, <1>4, <2>2, TxOnce, Zenon
  <2> QED BY <1>2, <2>2, <2>3, Zenon
<1> QED BY <1>3, <1>4, Zenon

\* A write that is queued is still left to do.
LEMMA OpLeft ==
    ASSUME NEW E, NEW o, NEW x, Op(o, x) \in E
    PROVE  Left(E, o, x)
BY DEF Op, Left

\* A reorganisation that starts from a settled head.
LEMMA ReorgOnWay ==
    ASSUME NEW b \in Block, head \in Block, Settled(head, stored, canon, header, lookup),
           NEW tn, tn = 0 => NoOther(head, lookup), Number[b] >= Number[head],
           Chain[b] \cap Bad = {}, Chain[head] \cap Bad = {},
           NEW E, Elems(Reorg(b)) \subseteq E,
           \A e \in E : e \in Elems(Reorg(b)) \/ (e.block = b /\ e.op # "unlook")
    PROVE  OnWay(b, E, canon, header, lookup, tn)
<1>1. /\ \A x \in NewBlocks(b) : {Op("insert", x), Op("lookup", x)} \subseteq Elems(Reorg(b))
      /\ Unlook(b) \in Elems(Reorg(b))
      /\ \A e \in Elems(Reorg(b)) :
            e.block \in Chain[b] /\ (e.op = "unlook" => e = Unlook(b))
  BY ReorgMembers, Zenon
<1>2. Linked(head, canon) /\ header \in Chain[head] /\ Found(head, lookup)
  BY DEF Settled
<1>3. NewBlocks(b) = Chain[b] \ Chain[head] /\ b \in Chain[b]
  BY ChainClosed DEF NewBlocks
<1>4. Unlook(b).op = "unlook"
  BY Zenon DEF Unlook
<1>5. ASSUME NEW x \in Chain[b] \ Chain[head]
      PROVE  Left(E, "insert", x) /\ Left(E, "lookup", x)
  <2>1. Op("insert", x) \in E /\ Op("lookup", x) \in E
    BY <1>1, <1>3, Zenon
  <2> QED BY <2>1, OpLeft, Zenon
<1>6. \A e \in E : e.block \in Chain[b] /\ (e.op = "unlook" => e = Unlook(b))
  BY <1>1, <1>3, Zenon
<1>7. NumbersOnWay(b, E, canon)
  BY <1>2, <1>5, Zenon DEF NumbersOnWay, Linked
<1>8. HeaderOnWay(b, E, canon, header)
  BY <1>2, <1>5, HeaderReplaced, Zenon DEF HeaderOnWay
<1>9. LookupsOnWay(b, E, lookup)
  BY <1>2, <1>5, LookupsReplaced, Zenon
<1>10. /\ Unlook(b).txs \cap Txs(Chain[b]) = {}
       /\ \A t : t \notin Txs(Chain[b]) /\ t \in Txs(Chain[head]) => t \in Unlook(b).txs
  BY UnlookRight, Zenon
<1>11. tn = 0 => OthersOnWay(b, E, lookup)
  BY <1>1, <1>4, <1>10, Zenon DEF OthersOnWay, NoOther
<1> QED BY <1>6, <1>7, <1>8, <1>9, <1>10, <1>11, Zenon DEF OnWay

\* A block that extends a settled head.
LEMMA ExtendOnWay ==
    ASSUME NEW b \in Block \ {Genesis}, Parent[b] = head,
           Settled(head, stored, canon, header, lookup),
           NEW tn, tn = 0 => NoOther(head, lookup), NEW E,
           \A e \in E : e.block = b /\ e.op # "unlook",
           Left(E, "insert", b), Left(E, "batchCanon", b)
    PROVE  OnWay(b, E, canon, header, lookup, tn)
<1>1. Chain[b] = {b} \cup Chain[head] /\ head \in Block
  BY ChainStep, TreeAssumption, Zenon
<1>2. Linked(head, canon) /\ header \in Chain[head] /\ Found(head, lookup)
  BY DEF Settled
<1>3. NumbersOnWay(b, E, canon)
  BY <1>1, <1>2 DEF NumbersOnWay, Linked
<1>4. HeaderOnWay(b, E, canon, header)
  BY <1>1, <1>2 DEF HeaderOnWay
<1>5. LookupsOnWay(b, E, lookup)
  <2>1. SUFFICES ASSUME NEW t \in ChainTx, t \in Txs(Chain[b])
        PROVE  \/ lookup[t] \in Chain[b] /\ t \in Txs({lookup[t]})
               \/ \E x \in Chain[b] : t \in Txs({x}) /\ Left(E, "batchCanon", x)
    BY Zenon DEF LookupsOnWay
  <2>2. PICK x \in Chain[b] : t \in Txs({x})
    BY <2>1, TxsOfChain, Zenon
  <2>3. CASE x = b
    BY <2>2, <2>3, Zenon
  <2>4. CASE x # b
    <3>1. x \in Chain[head] /\ t \in Txs(Chain[head])
      BY <1>1, <2>2, <2>4, TxsOfChain, Zenon
    <3> QED BY <1>1, <1>2, <2>1, <3>1, Zenon DEF Found
  <2> QED BY <2>3, <2>4, Zenon
<1>6. tn = 0 => OthersOnWay(b, E, lookup)
  <2>1. \A t : t \in Txs(Chain[head]) => t \in Txs(Chain[b])
    BY <1>1, TxsOfChain, Zenon
  <2> QED BY <2>1, Zenon DEF OthersOnWay, NoOther
<1> QED BY <1>1, <1>3, <1>4, <1>5, <1>6, Zenon DEF OnWay

\* The elements of a sequence, and its last one.
LEMMA ElemsTail ==
    ASSUME NEW w, IsSeq(w), w # <<>>
    PROVE  /\ Len(w) \in Nat /\ Len(w) >= 1
           /\ IsSeq(Tail(w)) /\ Len(Tail(w)) = Len(w) - 1
           /\ Elems(w) = {w[1]} \cup Elems(Tail(w))
           /\ Len(w) >= 2 => Tail(w) # <<>> /\ Last(Tail(w)) = Last(w)
<1> DEFINE S == {w[i] : i \in DOMAIN w}
           t == Tail(w)
<1>1. w \in Seq(S)
  BY DEF IsSeq
<1>2. Len(w) \in Nat /\ Len(w) >= 1 /\ DOMAIN w = 1 .. Len(w)
  BY <1>1
<1>3. t \in Seq(S) /\ Len(t) = Len(w) - 1 /\ \A i \in 1 .. Len(t) : t[i] = w[i + 1]
  BY <1>1, <1>2
<1>4. IsSeq(t)
  BY <1>3, SeqIsSeq, ZenonT(40)
<1>5. DOMAIN t = 1 .. Len(t)
  BY <1>3
<1> HIDE DEF S, t
<1>6. Elems(w) = {w[1]} \cup Elems(t)
  <2>1. ASSUME NEW i \in DOMAIN w PROVE w[i] \in {w[1]} \cup Elems(t)
    <3>1. CASE i = 1
      BY <3>1
    <3>2. CASE i # 1
      <4>1. i - 1 \in 1 .. Len(t) /\ (i - 1) + 1 = i
        BY <1>2, <1>3, <3>2
      <4> QED BY <1>3, <1>5, <4>1 DEF Elems
    <3> QED BY <3>1, <3>2
  <2>2. ASSUME NEW i \in DOMAIN t PROVE t[i] \in Elems(w)
    <3>1. i + 1 \in DOMAIN w /\ t[i] = w[i + 1]
      BY <1>2, <1>3, <1>5
    <3> QED BY <3>1 DEF Elems
  <2>3. 1 \in DOMAIN w
    BY <1>2
  <2> QED BY <2>1, <2>2, <2>3 DEF Elems
<1>7. ASSUME Len(w) >= 2 PROVE t # <<>> /\ Last(t) = Last(w)
  <2>1. Len(t) \in 1 .. Len(t) /\ Len(t) + 1 = Len(w)
    BY <1>2, <1>3, <1>7
  <2>2. t # <<>>
    BY <1>3, <2>1
  <2> QED BY <1>3, <2>1, <2>2 DEF Last
<1> QED BY <1>2, <1>3, <1>4, <1>6, <1>7 DEF t

LEMMA ElemsConcat ==
    ASSUME NEW S, NEW p \in Seq(S), NEW q, IsSeq(q)
    PROVE  /\ IsSeq(p \o q) /\ Elems(p \o q) = Elems(p) \cup Elems(q)
           /\ q # <<>> => p \o q # <<>> /\ Last(p \o q) = Last(q)
<1> DEFINE T == {q[i] : i \in DOMAIN q}
           r == p \o q
<1>1. q \in Seq(T)
  BY DEF IsSeq
<1>2. Len(p) \in Nat /\ Len(q) \in Nat /\ DOMAIN p = 1 .. Len(p) /\ DOMAIN q = 1 .. Len(q)
  BY <1>1
<1>3. /\ r \in Seq(S \cup T) /\ Len(r) = Len(p) + Len(q)
      /\ \A i \in 1 .. Len(r) : r[i] = IF i <= Len(p) THEN p[i] ELSE q[i - Len(p)]
  BY <1>1
<1>4. IsSeq(r) /\ DOMAIN r = 1 .. Len(r)
  <2>1. IsSeq(r)
    BY <1>3, SeqIsSeq, ZenonT(40)
  <2> QED BY <1>3, <2>1
<1>5. q # <<>> => Len(q) > 0
  BY <1>1
<1> HIDE DEF T, r
<1>6. Elems(r) = Elems(p) \cup Elems(q)
  <2>1. ASSUME NEW i \in DOMAIN r PROVE r[i] \in Elems(p) \cup Elems(q)
    <3>1. CASE i <= Len(p)
      <4>1. i \in DOMAIN p /\ r[i] = p[i]
        BY <1>2, <1>3, <1>4, <3>1
      <4> QED BY <4>1 DEF Elems
    <3>2. CASE ~(i <= Len(p))
      <4>1. i - Len(p) \in DOMAIN q /\ r[i] = q[i - Len(p)]
        BY <1>2, <1>3, <1>4, <3>2
      <4> QED BY <4>1 DEF Elems
    <3> QED BY <3>1, <3>2
  <2>2. ASSUME NEW i \in DOMAIN p PROVE p[i] \in Elems(r)
    <3>1. i \in DOMAIN r /\ r[i] = p[i]
      BY <1>2, <1>3, <1>4
    <3> QED BY <3>1 DEF Elems
  <2>3. ASSUME NEW i \in DOMAIN q PROVE q[i] \in Elems(r)
    <3>1. i + Len(p) \in DOMAIN r /\ ~(i + Len(p) <= Len(p)) /\ (i + Len(p)) - Len(p) = i
      BY <1>2, <1>3, <1>4
    <3>2. r[i + Len(p)] = q[i]
      BY <1>3, <1>4, <3>1
    <3> QED BY <3>1, <3>2 DEF Elems
  <2> QED BY <2>1, <2>2, <2>3 DEF Elems
<1>7. ASSUME q # <<>> PROVE r # <<>> /\ Last(r) = Last(q)
  <2>1. Len(r) \in 1 .. Len(r) /\ ~(Len(r) <= Len(p)) /\ Len(r) - Len(p) = Len(q)
    BY <1>2, <1>3, <1>5, <1>7
  <2>2. r # <<>>
    BY <1>3, <2>1
  <2> QED BY <1>3, <2>1, <2>2 DEF Last
<1> QED BY <1>4, <1>6, <1>7 DEF r

LEMMA ElemsTuple ==
    ASSUME NEW x, NEW y, NEW z
    PROVE  /\ IsSeq(<<>>) /\ Elems(<<>>) = {}
           /\ IsSeq(<<x>>) /\ Elems(<<x>>) = {x}
           /\ IsSeq(<<x, y>>) /\ Elems(<<x, y>>) = {x, y}
           /\ IsSeq(<<x, y, z>>)
<1>1. /\ <<>> \in Seq({}) /\ <<x>> \in Seq({x})
      /\ <<x, y>> \in Seq({x, y}) /\ <<x, y, z>> \in Seq({x, y, z})
  OBVIOUS
<1>2. IsSeq(<<>>) /\ IsSeq(<<x>>) /\ IsSeq(<<x, y>>) /\ IsSeq(<<x, y, z>>)
  BY <1>1, SeqIsSeq, ZenonT(40)
<1>3. Elems(<<>>) = {} /\ Elems(<<x>>) = {x}
  BY DEF Elems
<1>4. Elems(<<x, y>>) = {x, y}
  <2>1. DOMAIN <<x, y>> = {1, 2} /\ <<x, y>>[1] = x /\ <<x, y>>[2] = y
    OBVIOUS
  <2> QED BY <2>1 DEF Elems
<1> QED BY <1>2, <1>3, <1>4

LEMMA ElemsTriple == \A x, y, z : IsSeq(<<x, y, z>>) /\ Elems(<<x, y, z>>) = {x, y, z}
<1> TAKE x, y, z
<1>1. Elems(<<x, y, z>>) = {x, y, z}
  <2>1. /\ DOMAIN <<x, y, z>> = {1, 2, 3}
        /\ <<x, y, z>>[1] = x /\ <<x, y, z>>[2] = y /\ <<x, y, z>>[3] = z
    OBVIOUS
  <2> QED BY <2>1 DEF Elems
<1>2. IsSeq(<<x, y, z>>)
  BY ElemsTuple, ZenonT(40)
<1> QED BY <1>1, <1>2

\* What IInv says of the writes left, for a block that becomes the head.
LEMMA CanonicalMain ==
    ASSUME IInv, Canonical
    PROVE  /\ IsSeq(writes) /\ GoalRight(Goal, stored)
           /\ \/ Goal.block \notin stored /\ Before(writes, Goal)
              \/ Goal.block \in stored /\ After(writes, Goal, head)
<1>1. writes # <<>> /\ IsGoal(Last(writes)) /\ Goal = Last(writes)
  BY DEF Canonical, Goal, Last, IsGoal
<1>2. ~Side(writes, stored, head)
  <2>1. \A b : ~IsGoal(Last(<<Op("batch", b)>>))
    BY DEF Last, IsGoal, Op
  <2> QED BY <1>1, <2>1 DEF Side
<1>3. PICK g : /\ GoalRight(g, stored)
               /\ \/ g.block \notin stored /\ Before(writes, g)
                  \/ g.block \in stored /\ After(writes, g, head)
  BY <1>1, <1>2 DEF IInv, Shape, Main
<1>4. Last(writes) = g
  BY <1>3, GoalMapping, ZenonT(40) DEF GoalRight
<1>5. IsSeq(writes)
  <2>1. CASE Before(writes, g)
    BY <2>1 DEF Before
  <2>2. CASE After(writes, g, head)
    <3>1. \A x, y, z : IsSeq(<<x>>) /\ IsSeq(<<x, y>>) /\ IsSeq(<<x, y, z>>)
      BY ElemsTuple, Zenon
    <3>2. \/ \E x : writes = <<x>>
          \/ \E x, y : writes = <<x, y>>
          \/ \E x, y, z : writes = <<x, y, z>>
      BY <2>2, ZenonT(40) DEF After
    <3> QED BY <3>1, <3>2, ZenonT(40)
  <2> QED BY <1>3, <2>1, <2>2
<1> QED BY <1>1, <1>3, <1>4, <1>5

\* And otherwise: nothing, or a side block.
LEMMA NotCanonical ==
    ASSUME IInv, ~Canonical
    PROVE  /\ head \in stored
           /\ writes = <<>> \/ Side(writes, stored, head)
<1>1. ~Main(writes, stored, head)
  <2>1. SUFFICES ASSUME NEW g, GoalRight(g, stored), Before(writes, g) \/ After(writes, g, head)
                 PROVE  FALSE
    BY DEF Main
  <2>2. writes # <<>> /\ Last(writes) = g /\ IsGoal(g)
    BY <2>1, GoalMapping, ZenonT(40) DEF GoalRight
  <2> QED BY <2>2 DEF Canonical, Goal, Last, IsGoal
<1> QED BY <1>1 DEF IInv, Shape, Side

\* The first write, and what is left after it.
LEMMA WriteElems ==
    ASSUME Write, IsSeq(writes)
    PROVE  /\ Elems(writes) = {writes[1]} \cup Elems(Tail(writes))
           /\ writes[1].op # "insert" =>
                 writes' = Tail(writes) /\ Elems(writes') = Elems(Tail(writes))
           /\ writes[1].op = "insert" =>
                 \E H : /\ Elems(writes') = Elems(Tail(writes)) \cup H
                        /\ \A x \in H :
                             x \in {Op("head", writes[1].block), Op("header", writes[1].block)}
                        /\ canon[Number[writes[1].block]] # writes[1].block =>
                              Op("header", writes[1].block) \in H
           /\ Len(writes) >= 2 => writes' # <<>> /\ Last(writes') = Last(writes)
<1> DEFINE e == writes[1]
           b == e.block
           t == Tail(writes)
<1>1. writes # <<>>
  BY DEF Write
<1>2. /\ IsSeq(t) /\ Elems(writes) = {e} \cup Elems(t)
      /\ Len(writes) >= 2 => t # <<>> /\ Last(t) = Last(writes)
  BY <1>1, ElemsTail
<1>3. CASE e.op # "insert"
  <2>1. writes' = t
    BY <1>3 DEF Write
  <2> QED BY <1>2, <1>3, <2>1
<1>4. CASE e.op = "insert"
  <2> DEFINE hd == Op("head", b)
             hdr == Op("header", b)
             m == IF canon[Number[b]] # b THEN <<hdr>> ELSE <<>>
             H == {hd} \cup (IF canon[Number[b]] # b THEN {hdr} ELSE {})
  <2>1. writes' = <<hd>> \o m \o t
    BY <1>4, Zenon DEF Write, Insert
  <2>2. PICK S : <<hd>> \in Seq(S) /\ m \in Seq(S)
    <3>1. <<hd>> \in Seq({hd, hdr}) /\ <<hdr>> \in Seq({hd, hdr}) /\ <<>> \in Seq({hd, hdr})
      OBVIOUS
    <3> QED BY <3>1, Zenon
  <2>3. IsSeq(m) /\ Elems(m) = (IF canon[Number[b]] # b THEN {hdr} ELSE {}) /\ Elems(<<hd>>) = {hd}
    BY ElemsTuple, Zenon
  <2> HIDE DEF hd, hdr, m
  <2>4. Elems(<<hd>> \o m) = H /\ <<hd>> \o m \in Seq(S)
    <3>1. Elems(<<hd>> \o m) = Elems(<<hd>>) \cup Elems(m)
      BY <2>2, <2>3, ElemsConcat, ZenonT(40)
    <3>2. <<hd>> \o m \in Seq(S)
      BY <2>2
    <3> QED BY <2>3, <3>1, <3>2
  <2> DEFINE p == <<hd>> \o m
  <2> HIDE DEF p
  <2>5. /\ Elems(p \o t) = Elems(p) \cup Elems(t)
        /\ t # <<>> => p \o t # <<>> /\ Last(p \o t) = Last(t)
    BY <1>2, <2>4, ElemsConcat, Zenon DEF p
  <2>6. Elems(writes') = Elems(t) \cup H
    BY <2>1, <2>4, <2>5 DEF p
  <2>7. Len(writes) >= 2 => writes' # <<>> /\ Last(writes') = Last(writes)
    BY <1>2, <2>1, <2>5 DEF p
  <2>8. (\A x \in H : x \in {hd, hdr}) /\ (canon[Number[b]] # b => hdr \in H)
    OBVIOUS
  <2> QED BY <1>2, <1>4, <2>6, <2>7, <2>8, Zenon DEF hd, hdr
<1> QED BY <1>3, <1>4, Zenon

\* The first write of a block that becomes the head is the end of it, or one of
\* a reorganisation or the batch.
LEMMA FirstWrite ==
    ASSUME IInv, Canonical
    PROVE  \/ writes = <<Goal>> /\ Goal.block \in stored /\ head = Goal.block
           \/ /\ Len(writes) >= 2
              /\ writes[1].op \in ReorgOps \cup {"batchCanon"}
              /\ writes[1].op = "batchCanon" => writes[1].block = Goal.block
<1>1. /\ IsSeq(writes)
      /\ \/ Goal.block \notin stored /\ Before(writes, Goal)
         \/ Goal.block \in stored /\ After(writes, Goal, head)
  BY CanonicalMain
<1> DEFINE n == Len(writes)
<1>2. CASE Before(writes, Goal)
  <2>1. n \in Nat /\ n >= 3
    <3>1. writes \in Seq({writes[i] : i \in DOMAIN writes})
      BY <1>1 DEF IsSeq
    <3> QED BY <1>2, <3>1 DEF Before
  <2>2. CASE n = 3
    <3>1. writes[1] = Op("batchCanon", Goal.block)
      BY <1>2, <2>2 DEF Before
    <3> QED BY <2>2, <3>1 DEF Op
  <2> HIDE DEF n
  <2>3. CASE n # 3
    <3>1. 1 \in 1 .. n - 3
      BY <2>1, <2>3
    <3>2. writes[1].op \in ReorgOps
      BY <1>2, <3>1 DEF Before, n
    <3> QED BY <2>1, <3>2 DEF ReorgOps, n
  <2> QED BY <2>2, <2>3
<1>3. CASE Goal.block \in stored /\ After(writes, Goal, head)
  <2>2. ASSUME NEW o \in {"insert", "head", "header"}, NEW r,
               writes = <<Op(o, Goal.block), Goal>> \/ writes = <<Op(o, Goal.block), r, Goal>>
        PROVE  n >= 2 /\ writes[1].op = o
    <3> DEFINE x == Op(o, Goal.block)
               y == Goal
    <3>1. x.op = o /\ (writes = <<x, y>> \/ writes = <<x, r, y>>)
      BY <2>2 DEF Op
    <3> HIDE DEF x, y
    <3> QED BY <3>1
  <2>3. \/ head = Goal.block /\ writes = <<Goal>>
        \/ n >= 2 /\ writes[1].op \in {"insert", "head", "header"}
    BY <1>3, <2>2 DEF After
  <2> QED BY <1>3, <2>3 DEF ReorgOps
<1> QED BY <1>1, <1>2, <1>3

\* Stored blocks, and the one that is to become the head, are on valid chains.
LEMMA ValidChain ==
    ASSUME IInv, LInv
    PROVE  /\ \A b \in stored : Chain[b] \subseteq stored /\ Chain[b] \cap Bad = {}
           /\ \A b \in Block \ Bad : b # Genesis /\ Parent[b] \in stored => Chain[b] \cap Bad = {}
<1>1. stored \in SUBSET Block /\ Closed(stored) /\ stored \cap Bad = {}
  BY DEF IInv, LInv
<1>2. \A b \in stored : Chain[b] \subseteq stored
  BY <1>1, ChainLeast, Zenon
<1> QED BY <1>1, <1>2, ChainStep

\* Steps that leave the database and the writes alone.
LEMMA QuietLinked ==
    ASSUME LInv, UNCHANGED <<database, writes, torn>> PROVE LInv'
BY DEF LInv, database, Canonical, Goal

\* WriteBlockAndState starts to write block b.
LEMMA StartLinked ==
    ASSUME IInv, LInv, NEW by \in {"imported", "mined"}, NEW b \in Block \ stored,
           b \notin Bad, Parent[b] \in stored, WriteBlockAndState(b, by),
           UNCHANGED <<database, torn>>
    PROVE  LInv'
<1>1. writes = <<>> /\ ~Canonical
  BY DEF WriteBlockAndState, Canonical
<1>2. head \in stored /\ head \in Block /\ b # Genesis /\ b # head /\ Parent[b] # b
  BY <1>1, NotCanonical, Zenon DEF IInv
<1>3. UNCHANGED <<stored, canon, head, header, lookup, torn>>
  BY DEF database
<1>4. torn < 2 => /\ Settled(head, stored, canon, header, lookup)
                  /\ torn = 0 => NoOther(head, lookup)
  BY <1>1, Zenon DEF LInv
<1>5. DOMAIN canon = Height /\ torn \in 0 .. 2 /\ Closed(stored) /\ stored \cap Bad = {}
  BY Zenon DEF LInv
<1> DEFINE g == [op |-> by, block |-> b, before |-> head]
           bc == Op("batchCanon", b)
           ins == Op("insert", b)
           core == <<bc, ins, g>>
           pre == IF Parent[b] # head THEN Reorg(b) ELSE <<>>
<1>6. \/ writes' = <<Op("batch", b)>>
      \/ writes' = pre \o core /\ Number[b] >= Number[head]
  BY <1>2, TreeAssumption, SMTT(90) DEF WriteBlockAndState
<1>7. CASE writes' = <<Op("batch", b)>>
  <2>1. Elems(writes') = {Op("batch", b)}
    BY <1>7, ElemsTuple, Zenon
  <2>2. Op("batch", b).block = b /\ ~Canonical'
    BY <1>7 DEF Op, Canonical, Goal
  <2> QED BY <1>3, <1>4, <1>5, <2>1, <2>2, Zenon DEF LInv
<1>8. CASE writes' = pre \o core /\ Number[b] >= Number[head]
  <2>1. IsSeq(core) /\ Elems(core) = {bc, ins, g} /\ core # <<>> /\ Last(core) = g
    <3> HIDE DEF bc, ins, g
    <3>1. IsSeq(core) /\ Elems(core) = {bc, ins, g}
      BY ElemsTriple
    <3>2. core # <<>> /\ Last(core) = g
      BY DEF Last
    <3> QED BY <3>1, <3>2, Zenon
  <2>2. PICK S : pre \in Seq(S) /\ \A i \in 1 .. Len(pre) : pre[i].op \in ReorgOps
    <3>1. CASE Parent[b] # head
      BY <1>2, <3>1, NewChainRight, ReorgPrefix, Zenon
    <3>2. CASE Parent[b] = head
      <4>1. pre = <<>> /\ pre \in Seq({}) /\ Len(pre) = 0
        BY <3>2
      <4> QED BY <4>1
    <3> QED BY <3>1, <3>2
  <2>3. /\ bc.op = "batchCanon" /\ ins.op = "insert" /\ g.op = by /\ g.before = head
        /\ bc.block = b /\ ins.block = b /\ g.block = b
    BY DEF Op
  <2>4. Parent[b] = head => writes' = core
    <3>1. SUFFICES ASSUME pre = <<>>, writes' = pre \o core PROVE writes' = core
      BY <1>8, Zenon
    <3> HIDE DEF bc, ins, g
    <3> DEFINE s == <<>> \o core
    <3>2. s \in Seq({bc, ins, g}) /\ Len(s) = 3 /\ s[1] = bc /\ s[2] = ins /\ s[3] = g
      OBVIOUS
    <3> HIDE DEF s
    <3>3. s = <<s[1], s[2], s[3]>>
      BY <3>2
    <3>4. s = core
      BY <3>2, <3>3
    <3> QED BY <3>1, <3>4, Zenon DEF s
  <2>5. Parent[b] = head => Elems(pre) = {}
    BY ElemsTuple, Zenon
  <2>6. Parent[b] # head => Elems(pre) = Elems(Reorg(b))
    OBVIOUS
  <2> HIDE DEF pre, core, g, bc, ins
  <2>7. Elems(writes') = Elems(pre) \cup {bc, ins, g} /\ writes' # <<>> /\ Last(writes') = g
    BY <1>8, <2>1, <2>2, ElemsConcat, ZenonT(40)
  <2>8. Canonical' /\ Goal' = g
    BY <2>3, <2>7 DEF Canonical, Goal, Last
  <2>9. \A e \in Elems(pre) : e.op \in ReorgOps
    BY <2>2 DEF Elems
  <2>10. \A e \in Elems(writes') : e.op \in {"batch", "batchCanon"} => e.block \notin Bad
    BY <2>3, <2>7, <2>9 DEF ReorgOps
  <2>11. Chain[b] \cap Bad = {} /\ Chain[head] \cap Bad = {}
    BY <1>2, ValidChain
  <2>12. ASSUME torn < 2 PROVE OnWay(b, Elems(writes'), canon, header, lookup, torn)
    <3> DEFINE E == Elems(writes')
    <3>1. Left(E, "insert", b) /\ Left(E, "batchCanon", b)
      BY <2>3, <2>7 DEF Left
    <3>2. CASE Parent[b] = head
      <4>1. \A e \in E : e.block = b /\ e.op # "unlook"
        BY <2>3, <2>5, <2>7, <3>2
      <4> HIDE DEF E
      <4>2. OnWay(b, E, canon, header, lookup, torn)
        BY <1>2, <1>4, <2>12, <3>1, <3>2, <4>1, ExtendOnWay, Zenon
      <4> QED BY <4>2 DEF E
    <3>3. CASE Parent[b] # head
      <4>1. /\ Elems(Reorg(b)) \subseteq E
            /\ \A e \in E : e \in Elems(Reorg(b)) \/ (e.block = b /\ e.op # "unlook")
        BY <2>3, <2>6, <2>7, <3>3, Zenon
      <4> HIDE DEF E
      <4>2. OnWay(b, E, canon, header, lookup, torn)
        BY <1>2, <1>4, <1>8, <2>11, <2>12, <4>1, ReorgOnWay, Zenon
      <4> QED BY <4>2 DEF E
    <3> QED BY <3>2, <3>3
  <2>13. ASSUME torn < 2 PROVE Straight(g, writes', stored, head, canon, header, lookup)
    BY <1>4, <2>3, <2>4, <2>13, Zenon DEF Straight, core, bc, ins
  <2>14. torn' < 2 => /\ OnWay(Goal'.block, Elems(writes'), canon', header', lookup', torn')
                      /\ Straight(Goal', writes', stored', head', canon', header', lookup')
    BY <1>3, <2>3, <2>8, <2>12, <2>13, Zenon
  <2> QED BY <1>3, <1>5, <2>8, <2>10, <2>14, Zenon DEF LInv
<1> QED BY <1>6, <1>7, <1>8, Zenon

\* A side block is stored.
LEMMA SideLinked ==
    ASSUME IInv, LInv, Write, ~Canonical PROVE LInv'
<1>1. PICK b \in Block \ stored :
         writes = <<Op("batch", b)>> /\ Parent[b] \in stored
  BY NotCanonical DEF Write, Side
<1>2. writes[1].op = "batch" /\ writes[1].block = b /\ Tail(writes) = <<>>
  BY <1>1 DEF Op
<1>3. writes' = <<>> /\ stored' = stored \cup {b} /\ UNCHANGED <<canon, head, header, lookup, torn>>
  BY <1>2, Zenon DEF Write
<1>4. b \notin Bad
  <2>1. Op("batch", b) \in Elems(writes)
    BY <1>1, ElemsTuple, Zenon
  <2> QED BY <2>1 DEF LInv, Op
<1>5. Closed(stored') /\ stored' \cap Bad = {}
  BY <1>1, <1>3, <1>4, Zenon DEF LInv, Closed
<1>6. ~Canonical' /\ Elems(writes') = {}
  BY <1>3, ElemsTuple, Zenon DEF Canonical
<1>7. torn < 2 => /\ Settled(head, stored', canon, header, lookup)
                  /\ torn = 0 => NoOther(head, lookup)
  BY <1>3, Zenon DEF LInv, Settled
<1>8. DOMAIN canon = Height /\ torn \in 0 .. 2
  BY DEF LInv
<1> QED BY <1>3, <1>5, <1>6, <1>7, <1>8, Zenon DEF LInv

\* A block that extends the head, write by write.
LEMMA StraightLinked ==
    ASSUME IInv, LInv, Write, Canonical, torn < 2, Len(writes) >= 2,
           OnWay(Goal.block, Elems(writes'), canon', header', lookup', torn)
    PROVE  Straight(Goal, writes', stored', head', canon', header', lookup')
<1> DEFINE g == Goal
           b == g.block
           h == g.before
           bc == Op("batchCanon", b)
           ins == Op("insert", b)
           hd == Op("head", b)
           hdr == Op("header", b)
<1>1. SUFFICES ASSUME Parent[b] = h
      PROVE  /\ Settled(head', stored', canon', header', lookup')
             /\ b \notin stored' => writes' = <<bc, ins, g>>
             /\ writes'[1].op \in {"batchCanon", "insert", "head"} => head' = h
  BY Zenon DEF Straight
<1>2. /\ Settled(head, stored, canon, header, lookup)
      /\ b \notin stored => writes = <<bc, ins, g>>
      /\ writes[1].op \in {"batchCanon", "insert", "head"} => head = h
  BY <1>1, Zenon DEF LInv, Straight
<1>3. /\ b \in Block \ {Genesis} /\ h \in stored /\ h \in Block /\ g.op \in {"imported", "mined"}
      /\ \/ b \notin stored
         \/ b \in stored /\ After(writes, g, head)
  BY CanonicalMain, Zenon DEF GoalRight, IsGoal, IInv
<1>4. Chain[b] = {b} \cup Chain[h] /\ b \notin Chain[h] /\ b \in Chain[b]
  <2>1. Number[b] = Number[h] + 1 /\ Number[h] \in Nat /\ OneEach(h)
    BY <1>1, <1>3, TreeAssumption, ChainNumbers, Zenon
  <2>2. b \notin Chain[h]
    BY <2>1, SMTT(30) DEF OneEach
  <2> QED BY <1>1, <1>3, <2>2, ChainStep, Zenon
<1>5. /\ \A o, x : Op(o, x).op = o /\ Op(o, x).block = x
  BY DEF Op
<1>6. CASE b \notin stored
  <2>1. writes = <<bc, ins, g>> /\ writes[1] = bc /\ Tail(writes) = <<ins, g>>
    <3>1. writes = <<bc, ins, g>>
      BY <1>2, <1>6
    <3> HIDE DEF bc, ins, g
    <3> QED BY <3>1
  <2>2. bc.op = "batchCanon" /\ bc.block = b /\ ins.op = "insert"
    BY <1>5
  <2>3. /\ writes' = <<ins, g>> /\ stored' = stored \cup {b} /\ lookup' = SetLookup(b)
        /\ UNCHANGED <<canon, head, header>>
    BY <2>1, <2>2 DEF Write
  <2>4. head = h
    BY <1>2, <2>1, <2>2, Zenon
  <2>5. Chain[b] \cap Bad = {}
    <3>1. bc \in Elems(writes)
      <4> HIDE DEF bc, ins, g
      <4> QED BY <2>1, ElemsTriple
    <3>2. b \notin Bad
      BY <2>2, <3>1, Zenon DEF LInv
    <3> QED BY <1>1, <1>3, <3>2, ValidChain, Zenon
  <2>6. ASSUME NEW t \in ChainTx, t \in Txs(Chain[h])
        PROVE  lookup'[t] \in Chain[h] /\ t \in Txs({lookup'[t]})
    <3>1. lookup[t] \in Chain[h] /\ t \in Txs({lookup[t]})
      BY <1>2, <2>4, <2>6, Zenon DEF Settled, Found
    <3>2. t \notin Txs({b})
      BY <1>3, <1>4, <2>5, <3>1, TxOnce, Zenon
    <3> QED BY <2>3, <3>1, <3>2, Zenon DEF SetLookup
  <2>7. Settled(head', stored', canon', header', lookup')
    BY <1>2, <2>3, <2>4, <2>6, Zenon DEF Settled, Found
  <2> QED BY <2>3, <2>4, <2>7
<1>7. CASE b \in stored /\ writes = <<ins, g>>
  <2>1. writes[1] = ins /\ Tail(writes) = <<g>> /\ ins.op = "insert" /\ ins.block = b
    BY <1>5, <1>7, Tuples, Zenon
  <2>2. Insert(b)
    BY <2>1 DEF Write
  <2>3. /\ canon' = [canon EXCEPT ![Number[b]] = b] /\ UNCHANGED <<stored, head, header, lookup>>
        /\ head = h
    BY <1>2, <2>1, <2>2, Zenon DEF Insert
  <2>4. ASSUME NEW x \in Chain[h] PROVE canon'[Number[x]] = x
    <3>1. x \in Block /\ Number[x] # Number[b] /\ canon[Number[x]] = x
      <4>1. x \in Chain[b] /\ x # b /\ OneEach(b) /\ x \in Block
        BY <1>3, <1>4, ChainNumbers, ChainClosed, Zenon
      <4> QED BY <1>2, <1>4, <2>3, <4>1, Zenon DEF OneEach, Settled, Linked
    <3>2. Number[x] \in DOMAIN canon
      BY <3>1, Zenon DEF LInv, Height
    <3> QED BY <2>3, <3>1, <3>2, Zenon
  <2>5. Settled(head', stored', canon', header', lookup')
    BY <1>2, <2>3, <2>4, Zenon DEF Settled, Linked
  <2> QED BY <1>7, <2>3, <2>5, Zenon
<1>8. CASE b \in stored /\ (writes = <<hd, g>> \/ writes = <<hd, hdr, g>>)
  <2>1. writes[1] = hd /\ Tail(writes) \in {<<g>>, <<hdr, g>>}
    <3>1. CASE writes = <<hd, g>>
      BY <3>1, Tuples
    <3>2. CASE writes = <<hd, hdr, g>>
      BY <3>2, Tuples
    <3> QED BY <1>8, <3>1, <3>2
  <2>2. hd.op = "head" /\ hd.block = b /\ hdr.op = "header"
    BY <1>5, Zenon
  <2>3. /\ writes' = Tail(writes) /\ head' = b
        /\ UNCHANGED <<stored, canon, header, lookup>> /\ head = h
    BY <1>2, <2>1, <2>2 DEF Write
  <2>4. Elems(writes') \subseteq {g, hdr} /\ writes'[1] \in {g, hdr}
    <3>1. \A x, y : /\ Elems(<<x>>) = {x} /\ Elems(<<x, y>>) = {x, y}
                    /\ <<x>>[1] = x /\ <<x, y>>[1] = x
      BY ElemsTuple, Tuples, Zenon
    <3> HIDE DEF g, hdr
    <3>2. CASE writes' = <<g>>
      BY <3>1, <3>2
    <3>3. CASE writes' = <<hdr, g>>
      BY <3>1, <3>3
    <3> QED BY <2>1, <2>3, <3>2, <3>3
  <2>5. \A op, x : op \in {"insert", "lookup", "batchCanon"} => ~Left(Elems(writes'), op, x)
    BY <1>3, <2>2, <2>4, Zenon DEF Left
  <2>6. Linked(b, canon')
    <3>1. NumbersOnWay(b, Elems(writes'), canon')
      BY Zenon DEF OnWay
    <3> QED BY <2>5, <3>1, SMTT(30) DEF NumbersOnWay, Linked
  <2>7. Found(b, lookup')
    <3>1. LookupsOnWay(b, Elems(writes'), lookup')
      BY DEF OnWay
    <3>2. \A x : ~(Left(Elems(writes'), "lookup", x) \/ Left(Elems(writes'), "batchCanon", x))
      BY <2>5
    <3>3. ASSUME NEW t \in ChainTx, t \in Txs(Chain[b])
          PROVE  lookup'[t] \in Chain[b] /\ t \in Txs({lookup'[t]})
      BY <3>1, <3>2, <3>3, Zenon DEF LookupsOnWay
    <3> QED BY <3>3, Zenon DEF Found
  <2>8. header' \in Chain[b]
    BY <1>2, <1>4, <2>3, Zenon DEF Settled
  <2>9. writes'[1].op \in {"imported", "mined", "header"}
    BY <1>3, <2>2, <2>4, Zenon
  <2> QED BY <1>8, <2>3, <2>6, <2>7, <2>8, <2>9, Zenon DEF Settled
<1>9. CASE b \in stored /\ head = b /\ writes = <<hdr, g>>
  <2>1. writes[1] = hdr /\ Tail(writes) = <<g>> /\ hdr.op = "header" /\ hdr.block = b
    BY <1>5, <1>9, Tuples, Zenon
  <2>2. writes' = <<g>> /\ header' = b /\ UNCHANGED <<stored, canon, head, lookup>>
    BY <2>1, Zenon DEF Write
  <2>3. writes'[1] = g
    BY <2>2, Tuples
  <2> QED BY <1>2, <1>3, <1>4, <1>9, <2>2, <2>3, Zenon DEF Settled
<1>10. writes # <<g>>
  <2>1. \A x : Len(<<x>>) = 1
    OBVIOUS
  <2>2. ASSUME writes = <<g>> PROVE Len(writes) = 1
    <3> HIDE DEF g
    <3> QED BY <2>1, <2>2, ZenonT(40)
  <2>3. Len(writes) # 1
    <3>1. Len(writes) \in Nat
      BY CanonicalMain, ElemsTail DEF Canonical
    <3> DEFINE n == Len(writes)
    <3>2. n \in Nat /\ n >= 2
      BY <3>1
    <3> HIDE DEF n
    <3>3. n # 1
      BY <3>2
    <3> QED BY <3>3 DEF n
  <2> QED BY <2>2, <2>3, ZenonT(40)
<1> QED BY <1>3, <1>6, <1>7, <1>8, <1>9, <1>10, Zenon DEF After

\* The next write of a block that becomes the head.
LEMMA MainLinked ==
    ASSUME IInv, LInv, Write, Canonical PROVE LInv'
<1> DEFINE g == Goal
           b == g.block
           e == writes[1]
           t == Tail(writes)
<1>1. /\ IsSeq(writes) /\ writes # <<>> /\ b \in Block \ {Genesis} /\ Parent[b] \in stored
      /\ g.op \in {"imported", "mined"}
  BY CanonicalMain DEF GoalRight, IsGoal, Canonical
<1>2. /\ DOMAIN canon = Height /\ torn \in 0 .. 2 /\ Closed(stored) /\ stored \cap Bad = {}
      /\ \A x \in Elems(writes) : x.op \in {"batch", "batchCanon"} => x.block \notin Bad
  BY DEF LInv
<1>3. torn < 2 => OnWay(b, Elems(writes), canon, header, lookup, torn)
  BY DEF LInv
<1>4. torn' = torn
  BY DEF Write
<1>5. CASE writes = <<g>> /\ b \in stored /\ head = b
  <2>1. e = g /\ t = <<>> /\ Elems(writes) = {g}
    <3>1. \A x : <<x>>[1] = x /\ Tail(<<x>>) = <<>> /\ Elems(<<x>>) = {x}
      BY Tuples, ElemsTuple, Zenon
    <3>2. writes = <<g>>
      BY <1>5
    <3> HIDE DEF g
    <3> QED BY <3>1, <3>2, ZenonT(40)
  <2>2. writes' = <<>> /\ UNCHANGED <<stored, canon, head, header, lookup>>
    BY <1>1, <2>1, Zenon DEF Write
  <2>3. ~Canonical' /\ Elems(writes') = {}
    BY <2>2, ElemsTuple, Zenon DEF Canonical
  <2>4. torn < 2 => Settled(b, stored, canon, header, lookup) /\ (torn = 0 => NoOther(b, lookup))
    BY <1>1, <1>3, <1>5, <2>1, OnWayEnds, Zenon
  <2>5. torn' < 2 => /\ Settled(head', stored', canon', header', lookup')
                     /\ torn' = 0 => NoOther(head', lookup')
    BY <1>4, <1>5, <2>2, <2>4
  <2>6. Closed(stored') /\ stored' \cap Bad = {} /\ DOMAIN canon' = Height /\ torn' \in 0 .. 2
    BY <1>2, <1>4, <2>2
  <2> QED BY <2>3, <2>5, <2>6, Zenon DEF LInv
<1>6. CASE /\ Len(writes) >= 2 /\ e.op \in ReorgOps \cup {"batchCanon"}
           /\ e.op = "batchCanon" => e.block = b
  <2>1. /\ Elems(writes) = {e} \cup Elems(t)
        /\ e.op # "insert" => Elems(writes') = Elems(t)
        /\ e.op = "insert" =>
              \E H : /\ Elems(writes') = Elems(t) \cup H
                     /\ \A x \in H : x \in {Op("head", e.block), Op("header", e.block)}
                     /\ canon[Number[e.block]] # e.block => Op("header", e.block) \in H
        /\ writes' # <<>> /\ Last(writes') = Last(writes)
    BY <1>1, <1>6, WriteElems, Zenon
  <2>2. Canonical' /\ Goal' = g
    BY <1>1, <2>1 DEF Canonical, Goal, Last
  <2>3. \A o, x : Op(o, x).op = o
    BY DEF Op
  <2>4. \A x \in Elems(writes') : x.op \in {"batch", "batchCanon"} => x.block \notin Bad
    <3>1. CASE e.op # "insert"
      BY <1>2, <2>1, <3>1
    <3>2. CASE e.op = "insert"
      <4>1. PICK H : /\ Elems(writes') = Elems(t) \cup H
                     /\ \A x \in H : x \in {Op("head", e.block), Op("header", e.block)}
        BY <2>1, <3>2
      <4> QED BY <1>2, <2>1, <2>3, <4>1, SMTT(30)
    <3> QED BY <3>1, <3>2
  <2>5. /\ stored' = stored \/ (e.op = "batchCanon" /\ stored' = stored \cup {b})
        /\ DOMAIN canon' = Height
    <3>1. CASE e.op = "insert"
      BY <1>2, <3>1 DEF Write, Insert
    <3>2. CASE e.op # "insert"
      BY <1>2, <1>6, <3>2 DEF Write, ReorgOps
    <3> QED BY <3>1, <3>2
  <2>6. Closed(stored') /\ stored' \cap Bad = {}
    <3>1. CASE e.op = "batchCanon" /\ stored' = stored \cup {b}
      <4>1. b \notin Bad
        BY <1>2, <1>6, <2>1, <3>1, Zenon
      <4> QED BY <1>1, <1>2, <3>1, <4>1 DEF Closed
    <3> QED BY <1>2, <2>5, <3>1
  <2>7. ASSUME torn < 2 PROVE OnWay(b, Elems(writes'), canon', header', lookup', torn)
    <3>1. CASE e.op = "insert"
      <4>1. PICK H : /\ Elems(writes') = Elems(t) \cup H
                     /\ \A x \in H : x \in {Op("head", e.block), Op("header", e.block)}
                     /\ canon[Number[e.block]] # e.block => Op("header", e.block) \in H
        BY <2>1, <3>1, Zenon
      <4>2. canon' = [canon EXCEPT ![Number[e.block]] = e.block] /\ UNCHANGED <<header, lookup>>
        BY <3>1, Zenon DEF Write, Insert
      <4>3. OnWay(b, {e} \cup Elems(t), canon, header, lookup, torn)
        BY <1>3, <2>1, <2>7, Zenon
      <4> HIDE DEF e, t, b
      <4>4. b \in Block
        BY <1>1
      <4> DEFINE E2 == Elems(writes')
      <4>5. E2 = Elems(t) \cup H
        BY <4>1
      <4> HIDE DEF E2
      <4>6. OnWay(b, E2, [canon EXCEPT ![Number[e.block]] = e.block], header, lookup, torn)
        BY <1>2, <3>1, <4>1, <4>3, <4>4, <4>5, InsertOnWay, ZenonT(60)
      <4> QED BY <4>2, <4>6, Zenon DEF E2
    <3>2. CASE e.op # "insert"
      <4>1. Chain[b] \cap Bad = {}
        <5>1. CASE b \in stored
          BY <5>1, ValidChain
        <5>2. CASE b \notin stored
          <6>1. Op("batchCanon", b) \in Elems(writes)
            <7>1. /\ writes[Len(writes) - 2] = Op("batchCanon", b) /\ Len(writes) >= 3
                  /\ writes \in Seq({writes[i] : i \in DOMAIN writes})
              BY <5>2, CanonicalMain DEF Before, IsSeq
            <7>2. Len(writes) - 2 \in DOMAIN writes
              BY <7>1
            <7> QED BY <7>1, <7>2, Zenon DEF Elems
          <6>2. b \notin Bad
            BY <1>2, <6>1 DEF Op
          <6> QED BY <1>1, <6>2, ValidChain
        <5> QED BY <5>1, <5>2
      <4>2. /\ canon' = canon
            /\ \/ e.op = "head" /\ header' = header /\ lookup' = lookup
               \/ e.op = "header" /\ header' = e.block /\ lookup' = lookup
               \/ /\ e.op \in {"lookup", "batchCanon"} /\ header' = header
                  /\ lookup' = SetLookup(e.block)
               \/ /\ e.op = "unlook" /\ header' = header
                  /\ lookup' = [x \in ChainTx |-> IF x \in e.txs THEN None ELSE lookup[x]]
        BY <1>6, <3>2 DEF Write, ReorgOps
      <4>3. OnWay(b, {e} \cup Elems(t), canon, header, lookup, torn)
        BY <1>3, <2>1, <2>7
      <4>4. Elems(writes') = Elems(t) /\ b \in Block
        BY <1>1, <2>1, <3>2, Zenon
      <4> HIDE DEF e, t, b
      <4>5. OnWay(b, Elems(t), canon, header', lookup', torn)
        BY <4>1, <4>2, <4>3, <4>4, OtherOnWay, SMTT(90) DEF SetLookup
      <4> QED BY <4>2, <4>4, <4>5
    <3> QED BY <3>1, <3>2
  <2>8. ASSUME torn < 2 PROVE Straight(g, writes', stored', head', canon', header', lookup')
    BY <1>6, <2>7, <2>8, StraightLinked, Zenon
  <2>9. torn' < 2 => /\ OnWay(Goal'.block, Elems(writes'), canon', header', lookup', torn')
                     /\ Straight(Goal', writes', stored', head', canon', header', lookup')
    BY <1>4, <2>2, <2>7, <2>8
  <2> QED BY <1>2, <1>4, <2>2, <2>4, <2>5, <2>6, <2>9, Zenon DEF LInv
<1> QED BY <1>5, <1>6, FirstWrite

\* A crash that does not hit a reorganisation leaves a settled head, and
\* loadLastState takes it as it is.
LEMMA RestartLinked ==
    ASSUME IInv, LInv, Restart PROVE LInv'
<1>1. /\ writes' = <<>> /\ UNCHANGED <<stored, lookup>> /\ LoadLastState
      /\ torn' = IF Canonical
                   THEN IF torn = 2 \/ Parent[Goal.block] # Goal.before THEN 2 ELSE 1
                   ELSE torn
  BY Zenon DEF Restart
<1>2. DOMAIN canon = Height /\ torn \in 0 .. 2 /\ Closed(stored) /\ stored \cap Bad = {}
  BY DEF LInv
<1>3. ~Canonical' /\ Elems(writes') = {} /\ torn' \in 0 .. 2
  <2>1. writes' = <<>> => ~Canonical' /\ Elems(writes') = {}
    BY ElemsTuple, Zenon DEF Canonical
  <2>2. torn' = torn \/ torn' \in {1, 2}
    BY <1>1
  <2> QED BY <1>1, <1>2, <2>1, <2>2
<1>4. DOMAIN canon' = Height
  BY <1>1, <1>2 DEF LoadLastState
<1>5. ASSUME torn' < 2
      PROVE  /\ Settled(head, stored, canon, header, lookup)
             /\ torn' = 0 => torn = 0 /\ NoOther(head, lookup)
  <2>1. CASE ~Canonical
    BY <1>1, <1>2, <1>5, <2>1, Zenon DEF LInv
  <2>2. CASE Canonical
    <3>1. torn # 2 /\ Parent[Goal.block] = Goal.before /\ torn' = 1
      BY <1>1, <1>5, <2>2
    <3>2. torn < 2
      BY <1>2, <3>1
    <3>3. Straight(Goal, writes, stored, head, canon, header, lookup)
      BY <2>2, <3>2 DEF LInv
    <3>4. Settled(head, stored, canon, header, lookup)
      BY <3>1, <3>3, Zenon DEF Straight
    <3> QED BY <3>1, <3>4, SMTT(30)
  <2> QED BY <2>1, <2>2
<1>6. torn' < 2 => UNCHANGED <<head, header, canon>>
  <2>1. ASSUME torn' < 2 PROVE head \in stored /\ header \in stored
    BY <1>5, <2>1, ValidChain DEF Settled
  <2> QED BY <1>1, <2>1 DEF LoadLastState
<1>7. torn' < 2 => /\ Settled(head', stored', canon', header', lookup')
                   /\ torn' = 0 => NoOther(head', lookup')
  BY <1>1, <1>5, <1>6, Zenon
<1> QED BY <1>1, <1>2, <1>3, <1>4, <1>7, Zenon DEF LInv

\* Genesis is settled.
LEMMA InitLInv == Init => LInv
<1> SUFFICES ASSUME Init PROVE LInv
  OBVIOUS
<1>1. /\ writes = <<>> /\ torn = 0 /\ stored = {Genesis} /\ head = Genesis /\ header = Genesis
      /\ canon = [n \in Height |-> IF n = 0 THEN Genesis ELSE None]
      /\ lookup = [t \in ChainTx |-> None]
  BY DEF Init
<1>2. ~Canonical /\ Elems(writes) = {}
  BY <1>1, ElemsTuple, Zenon DEF Canonical
<1>3. Closed(stored) /\ stored \cap Bad = {}
  BY <1>1, ValidAssumption DEF Closed
<1>4. Chain[Genesis] = {Genesis} /\ Txs(Chain[Genesis]) = {} /\ Number[Genesis] = 0
      /\ Genesis \in Block
  BY ChainStep, ValidAssumption, TreeAssumption, Zenon
<1>5. canon[Number[Genesis]] = Genesis
  BY <1>1, <1>4 DEF Height
<1>6. Settled(head, stored, canon, header, lookup) /\ NoOther(head, lookup)
  BY <1>1, <1>4, <1>5, Zenon DEF Settled, Linked, Found, NoOther
<1>7. DOMAIN canon = Height /\ torn \in 0 .. 2
  BY <1>1
<1> QED BY <1>2, <1>3, <1>6, <1>7, Zenon DEF LInv

\* Every step keeps the head settled or on its way.
LEMMA StepLInv == IInv /\ LInv /\ [Next]_vars => LInv'
<1> SUFFICES ASSUME IInv, LInv, [Next]_vars PROVE LInv'
  OBVIOUS
<1>1. CASE InsertChain \/ ProcFutureBlocks \/ ImportDone \/ PostChainEvents \/ UNCHANGED vars
  <2>1. UNCHANGED <<database, writes, torn>>
    BY <1>1, Zenon DEF InsertChain, ProcFutureBlocks, ImportDone, PostChainEvents, vars, database
  <2> QED BY <2>1, QuietLinked
<1>2. CASE ImportBlock
  <2> DEFINE b == todo[1]
  <2>1. UNCHANGED <<database, torn>> /\ todo # <<>>
    BY <1>2 DEF ImportBlock
  <2>2. b \in Block
    BY <2>1 DEF IInv
  <2>3. \/ UNCHANGED writes
        \/ /\ b \notin stored /\ b \notin Bad /\ Parent[b] \in stored
           /\ WriteBlockAndState(b, "imported")
    BY <1>2 DEF ImportBlock
  <2> QED BY <2>1, <2>2, <2>3, QuietLinked, StartLinked
<1>3. CASE MineBlock
  <2>1. PICK b \in Own \ stored : Parent[b] \in stored /\ WriteBlockAndState(b, "mined")
    BY <1>3 DEF MineBlock
  <2>2. b \in Block /\ b \notin Bad
    BY TreeAssumption, ValidAssumption, Zenon
  <2>3. UNCHANGED <<database, torn>>
    BY <1>3 DEF MineBlock
  <2> QED BY <2>1, <2>2, <2>3, StartLinked
<1>4. CASE Write
  BY <1>4, MainLinked, SideLinked
<1>5. CASE Restart
  BY <1>5, RestartLinked
<1> QED BY <1>1, <1>2, <1>3, <1>4, <1>5 DEF Next

\* Whatever tree of blocks is imported and mined in whatever order, and wherever
\* crashes fall: the numbers, the head header and the lookup entries agree with
\* the head, or what does not is among the writes left (reorg, insert,
\* WriteBlockAndState, loadLastState).
THEOREM WritesLead == Spec => [](IInv /\ LInv)
<1>1. Init => IInv /\ LInv
  BY InitIInv, InitLInv
<1>2. IInv /\ LInv /\ [Next]_vars => IInv' /\ LInv'
  BY StepIInv, StepLInv
<1> QED BY <1>1, <1>2, PTL DEF Spec

\* Nothing is being written: the head is settled.
LEMMA IdleSettled ==
    ASSUME IInv, LInv, Idle, torn < 2
    PROVE  /\ Settled(head, stored, canon, header, lookup) /\ head \in Block
           /\ torn = 0 => NoOther(head, lookup)
<1>1. ~Canonical
  BY DEF Idle, Canonical
<1> QED BY <1>1, NotCanonical DEF LInv, IInv

\* For every tree of blocks: between two block writes the canonical numbers name
\* the head and its ancestors, unless a crash hit a reorganisation (reorg,
\* insert).
THEOREM CanonicalAlwaysLinked == Spec => []CanonicalLinked
<1>1. IInv /\ LInv => CanonicalLinked
  <2> SUFFICES ASSUME IInv, LInv, Idle, torn < 2
               PROVE  head \in stored /\ {canon[n] : n \in 0 .. Number[head]} = Chain[head]
    BY Zenon DEF CanonicalLinked
  <2>1. head \in stored /\ head \in Block /\ Linked(head, canon) /\ OneEach(head)
    BY IdleSettled, ChainNumbers DEF Settled
  <2>2. ASSUME NEW n \in 0 .. Number[head] PROVE canon[n] \in Chain[head]
    <3>1. PICK x \in Chain[head] : Number[x] = n
      BY <2>1 DEF OneEach
    <3> QED BY <2>1, <3>1 DEF Linked
  <2>3. ASSUME NEW x \in Chain[head] PROVE \E n \in 0 .. Number[head] : canon[n] = x
    BY <2>1 DEF OneEach, Linked
  <2> QED BY <2>1, <2>2, <2>3, Zenon
<1> QED BY <1>1, WritesLead, PTL

\* For every tree of blocks and transactions: between two block writes a
\* transaction of the canonical chain is found by its hash, in its block, and
\* without a crash no other is (WriteTxLookupEntries, DeleteTxLookupEntry).
THEOREM LookupsAlwaysExact == Spec => []LookupsExact
<1>1. IInv /\ LInv => LookupsExact
  <2> SUFFICES ASSUME IInv, LInv, Idle, torn < 2, NEW t \in ChainTx
               PROVE  IF t \in Txs(Chain[head])
                        THEN lookup[t] \in Chain[head] /\ t \in Txs({lookup[t]})
                        ELSE torn = 0 => lookup[t] = None
    BY DEF LookupsExact
  <2>1. Found(head, lookup) /\ (torn = 0 => NoOther(head, lookup))
    BY IdleSettled DEF Settled
  <2> QED BY <2>1 DEF Found, NoOther
<1> QED BY <1>1, WritesLead, PTL

\* For every tree of blocks: the head header is the head or one of its ancestors
\* although insert moves it only when the number changes hands.
THEOREM HeaderAlwaysOnChain == Spec => []HeaderOnChain
<1>1. IInv /\ LInv => HeaderOnChain
  BY IdleSettled, Zenon DEF HeaderOnChain, Settled
<1> QED BY <1>1, WritesLead, PTL

-----------------------------------------------------------------------------
(* Head events *)

\* The head is announced by the last event, an event that is due, or the end of
\* the import that made it the head.
TInv ==
    /\ todo # <<>> => busy
    /\ ~busy => last = None
    /\ Canonical /\ Goal.op = "imported" => busy
    /\ ~Canonical => untold \/ told = head \/ head \in posts \/ last = head

\* The writes of a block end in the one that says who wrote it.
LEMMA StartGoal ==
    ASSUME IInv, NEW by \in {"imported", "mined"}, NEW b \in Block \ stored,
           Parent[b] \in stored, WriteBlockAndState(b, by)
    PROVE  Canonical' => Goal'.op = by
<1> DEFINE g == [op |-> by, block |-> b, before |-> head]
           core == <<Op("batchCanon", b), Op("insert", b), g>>
           pre == IF Parent[b] # head THEN Reorg(b) ELSE <<>>
<1>1. head \in Block
  <2>1. ~Canonical
    BY Zenon DEF WriteBlockAndState, Canonical
  <2> QED BY <2>1, NotCanonical, Zenon DEF IInv
<1>2. writes' = <<Op("batch", b)>> \/ writes' = pre \o core
  BY Zenon DEF WriteBlockAndState
<1>3. CASE writes' = <<Op("batch", b)>>
  BY <1>3, Zenon DEF Canonical, Goal, Op
<1>4. CASE writes' = pre \o core
  <2>1. \E S : pre \in Seq(S)
    <3>1. CASE Parent[b] # head
      BY <1>1, <3>1, NewChainRight, ReorgPrefix, Zenon
    <3>2. CASE Parent[b] = head
      <4>1. pre = <<>> /\ pre \in Seq({})
        BY <3>2
      <4> QED BY <4>1
    <3> QED BY <3>1, <3>2, Zenon
  <2>2. \A x, y, z : <<x, y, z>> # <<>> /\ Last(<<x, y, z>>) = z
    BY DEF Last
  <2>3. IsSeq(core) /\ core # <<>> /\ Last(core) = g /\ g.op = by
    BY <2>2, ElemsTriple, ZenonT(40)
  <2> HIDE DEF pre, core, g
  <2>4. Last(writes') = g
    BY <1>4, <2>1, <2>3, ElemsConcat, ZenonT(40)
  <2> QED BY <2>3, <2>4 DEF Goal, Last
<1> QED BY <1>2, <1>3, <1>4, Zenon

\* Every step keeps it.
LEMMA StepTInv == IInv /\ TInv /\ [Next]_vars => TInv'
<1> SUFFICES ASSUME IInv, TInv, [Next]_vars PROVE TInv'
  OBVIOUS
<1>1. UNCHANGED writes => (Canonical' <=> Canonical) /\ Goal' = Goal
  BY DEF Canonical, Goal
<1>2. writes = <<>> => ~Canonical
  BY DEF Canonical
<1>3. ~Canonical => head \in Block /\ head # None
  BY NotCanonical, TreeAssumption, Zenon DEF IInv
<1>4. CASE InsertChain \/ ProcFutureBlocks
  <2>1. ~busy /\ busy' /\ last' = None /\ UNCHANGED <<writes, head, posts, told, untold>>
    BY <1>4 DEF InsertChain, ProcFutureBlocks, database
  <2> QED BY <1>1, <1>3, <2>1 DEF TInv
<1>5. CASE ImportDone
  <2>1. /\ writes = <<>> /\ todo' = <<>> /\ last' = None
        /\ UNCHANGED <<writes, head, told, untold>>
        /\ last = head => head \in posts'
        /\ posts \subseteq posts'
    BY <1>5 DEF ImportDone, database
  <2> QED BY <1>1, <1>2, <2>1 DEF TInv
<1>6. CASE PostChainEvents
  <2>1. PICK b \in posts : posts' = posts \ {b} /\ told' = b /\ untold' = (b # head)
    BY <1>6 DEF PostChainEvents
  <2>2. UNCHANGED <<writes, todo, busy, last, head>>
    BY <1>6 DEF PostChainEvents, database
  <2>3. untold' \/ told' = head'
    BY <2>1, <2>2, Zenon
  <2> QED BY <1>1, <2>2, <2>3 DEF TInv
<1>7. CASE UNCHANGED vars
  <2>1. UNCHANGED <<writes, todo, busy, last, head, posts, told, untold>>
    BY <1>7 DEF vars
  <2> QED BY <1>1, <2>1 DEF TInv
<1>8. CASE ImportBlock
  <2>1. /\ UNCHANGED <<busy, head, posts, told>> /\ todo # <<>> /\ writes = <<>> /\ busy
    BY <1>8, Zenon DEF ImportBlock, database, TInv
  <2>2. (last' = last /\ untold' = untold) \/ (last' = None /\ untold' = (untold \/ last # None))
    BY <1>8 DEF ImportBlock
  <2>3. untold \/ told = head \/ head \in posts \/ last = head
    BY <1>2, <2>1 DEF TInv
  <2>4. untold' \/ told' = head' \/ head' \in posts' \/ last' = head'
    <3>1. CASE last' = last /\ untold' = untold
      BY <2>1, <2>3, <3>1
    <3>2. CASE last' = None /\ untold' = (untold \/ last # None)
      <4>1. last = head => last # None
        BY <1>2, <1>3, <2>1
      <4>2. CASE untold \/ last # None
        BY <3>2, <4>2, ZenonT(20)
      <4>3. CASE ~(untold \/ last # None)
        BY <2>1, <2>3, <4>1, <4>3
      <4> QED BY <4>2, <4>3
    <3> QED BY <2>2, <3>1, <3>2
  <2> QED BY <2>1, <2>4 DEF TInv
<1>9. CASE MineBlock
  <2>1. PICK b \in Own \ stored : Parent[b] \in stored /\ WriteBlockAndState(b, "mined")
    BY <1>9 DEF MineBlock
  <2>2. UNCHANGED <<todo, busy, last, head, posts, told, untold>> /\ writes = <<>>
    BY <1>9, <2>1, Zenon DEF MineBlock, database, WriteBlockAndState
  <2>3. Canonical' => Goal'.op = "mined"
    BY <2>1, TreeAssumption, StartGoal, Zenon
  <2> QED BY <1>2, <2>2, <2>3 DEF TInv
<1>10. CASE Write /\ ~Canonical
  <2>1. PICK b : writes = <<Op("batch", b)>>
    BY <1>10, NotCanonical DEF Write, Side
  <2>2. writes[1].op = "batch" /\ Tail(writes) = <<>>
    BY <2>1 DEF Op
  <2>3. writes' = <<>> /\ UNCHANGED <<todo, busy, last, head, posts, told, untold>>
    BY <1>10, <2>2, Zenon DEF Write
  <2>4. ~Canonical'
    BY <2>3 DEF Canonical
  <2> QED BY <1>10, <2>3, <2>4 DEF TInv
<1>11. CASE Write /\ Canonical /\ writes = <<Goal>> /\ head = Goal.block
  <2> DEFINE g == Goal
  <2>1. writes[1] = g /\ Tail(writes) = <<>> /\ g.op \in {"imported", "mined"}
    <3>1. \A x : <<x>>[1] = x /\ Tail(<<x>>) = <<>>
      BY Tuples
    <3>2. writes = <<g>> /\ g.op \in {"imported", "mined"}
      BY <1>11 DEF Canonical
    <3> HIDE DEF g
    <3> QED BY <3>1, <3>2, ZenonT(40)
  <2>2. /\ writes' = <<>> /\ UNCHANGED <<todo, busy, head, told, untold>>
        /\ \/ g.op = "imported" /\ last' = head'
           \/ g.op = "mined" /\ last' = last /\ head' \in posts'
    BY <1>11, <2>1 DEF Write
  <2>3. ~Canonical'
    BY <2>2 DEF Canonical
  <2> QED BY <1>11, <2>2, <2>3 DEF TInv
<1>12. CASE /\ Write /\ Canonical /\ Len(writes) >= 2
            /\ writes[1].op \in ReorgOps \cup {"batchCanon"}
  <2>1. writes' # <<>> /\ Last(writes') = Last(writes)
    BY <1>12, CanonicalMain, WriteElems, Zenon
  <2>2. Canonical' /\ Goal' = Goal
    BY <1>12, <2>1, Zenon DEF Canonical, Goal, Last
  <2>3. UNCHANGED <<todo, busy, last>>
    BY <1>12, Zenon DEF Write, Insert, ReorgOps
  <2> QED BY <1>12, <2>2, <2>3 DEF TInv
<1>13. CASE Restart
  <2>1. writes' = <<>> /\ todo' = <<>> /\ last' = None /\ told' = head'
    BY <1>13 DEF Restart
  <2>2. ~Canonical'
    BY <2>1 DEF Canonical
  <2> QED BY <2>1, <2>2 DEF TInv
<1> QED
  BY <1>4, <1>5, <1>6, <1>7, <1>8, <1>9, <1>10, <1>11, <1>12, <1>13, FirstWrite DEF Next

\* For every tree of blocks and any order of imports, mined blocks, events and
\* crashes: when nothing is under way the last head event delivered is that of
\* the head, unless an import failed after it had moved the head or an event
\* overtook another (insertChain's test of LastBlockHash, worker.wait).
THEOREM HeadAlwaysTold == Spec => []HeadTold
<1>1. Init => IInv /\ TInv
  <2>1. Init => TInv
    BY Zenon DEF Init, TInv, Canonical
  <2> QED BY <2>1, InitIInv
<1>2. IInv /\ TInv /\ [Next]_vars => IInv' /\ TInv'
  BY StepIInv, StepTInv
<1>3. IInv /\ TInv => HeadTold
  <2> SUFFICES ASSUME IInv, TInv, ~busy, Idle, posts = {}, ~untold PROVE told = head
    BY DEF HeadTold
  <2>1. ~Canonical
    BY DEF Idle, Canonical
  <2>2. head # None
    BY <2>1, NotCanonical, TreeAssumption, Zenon DEF IInv
  <2> QED BY <2>1, <2>2 DEF TInv
<1> QED BY <1>1, <1>2, <1>3, PTL DEF Spec
=============================================================================
