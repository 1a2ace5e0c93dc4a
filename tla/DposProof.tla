----------------------------- MODULE DposProof -----------------------------
(***************************************************************************)
(* Proofs about Dpos for every number of nodes, every interval and every   *)
(* bound. Each block that exists anywhere, stored, announced, being sealed *)
(* or waiting to be written, carries a context that is exact for its own   *)
(* ancestry (IInv). The loop that confirms headers finds what its          *)
(* reference names. What is stored is stored with its ancestors, and what  *)
(* is announced executes again on its parent (KInv). With one founder      *)
(* (Orderly) whose first block sets the validator (Started) the nodes keep *)
(* one chain (CInv), what is confirmed stays on it (FInv), and peers       *)
(* accept what is minted on a slot.                                        *)
(***************************************************************************)
EXTENDS Dpos, FiniteSetTheorems, TLAPS

(* General facts: sequences, division, least and greatest elements.           *)

(* Appending a header to a sequence: what the later steps need of it.        *)
LEMMA AppendFacts ==
    ASSUME NEW S, NEW p \in Seq(S), NEW h \in S
    PROVE  /\ Append(p, h) \in Seq(S)
           /\ Len(Append(p, h)) = Len(p) + 1
           /\ \A i \in 1 .. Len(p) : Append(p, h)[i] = p[i]
           /\ Append(p, h)[Len(p) + 1] = h
           /\ HeaderOf(Append(p, h)) = h
BY DEF HeaderOf

(* Prefixes of sequences. *)
LEMMA PrefixFacts ==
    ASSUME NEW S, NEW s \in Seq(S), NEW i \in 0 .. Len(s)
    PROVE  /\ SubSeq(s, 1, i) \in Seq(S) /\ Len(SubSeq(s, 1, i)) = i
           /\ \A j \in 1 .. i : SubSeq(s, 1, i)[j] = s[j]
OBVIOUS

(* Sequences with the same elements are the same. *)
LEMMA SeqEqual ==
    ASSUME NEW S, NEW s \in Seq(S), NEW t \in Seq(S), Len(s) = Len(t),
           \A i \in 1 .. Len(s) : s[i] = t[i]
    PROVE  s = t
OBVIOUS

(* Taking the first block off worker.recv leaves a queue of exact blocks. *)
LEMMA QueueFacts ==
    ASSUME NEW S, NEW q \in Seq(S)
    PROVE  /\ q # <<>> => q[1] \in S /\ Tail(q) \in Seq(S)
           /\ \A x \in S : Append(q, x) \in Seq(S)
OBVIOUS

(* A queue of one. *)
LEMMA OneElement == \A x : Append(<<>>, x) = <<x>> /\ <<x>>[1] = x /\ Len(<<x>>) = 1
OBVIOUS

(* An idle mint loop remembers when it last minted or checked.           *)
LEMMA IdleFacts == \A t : Idle(t).phase = "idle" /\ Idle(t).at = t
BY DEF Idle

(* Nothing is left behind the only entry of a queue. *)
LEMMA TailOfOne ==
    ASSUME NEW S, NEW q \in Seq(S), Len(q) = 1
    PROVE  Tail(q) = <<>>
<1>1. q # <<>>
  OBVIOUS
<1>2. Tail(q) \in Seq(S) /\ Len(Tail(q)) = Len(q) - 1
  BY <1>1
<1>3. Len(Tail(q)) = 0
  BY <1>2
<1>4. \A s \in Seq(S) : Len(s) = 0 => s = <<>>
  OBVIOUS
<1> QED BY <1>2, <1>3, <1>4, Zenon

(* Quotient and remainder. *)
LEMMA DivMod ==
    ASSUME NEW a \in Nat, NEW p \in Nat \ {0}
    PROVE  \E q, r \in Nat : q = a \div p /\ r = a % p /\ a = q * p + r
<1>1. a \div p \in Nat
  BY SMTT(30)
<1>2. a % p \in Nat
  BY SMTT(30)
<1>3. a % p = a - p * (a \div p)
  OBVIOUS
<1>4. PICK q \in Nat, r \in Nat : q = a \div p /\ r = a % p
  BY <1>1, <1>2
<1>5. PICK m \in Nat : m = p * q
  OBVIOUS
<1>6. r = a - m
  BY <1>3, <1>4, <1>5
<1>7. a = m + r
  BY <1>6
<1>8. m = q * p
  BY <1>5
<1> QED BY <1>4, <1>7, <1>8, Zenon

(* Multiples have no remainder. *)
LEMMA MultipleRest ==
    ASSUME NEW p \in Nat \ {0}, NEW x \in Nat, NEW a \in Nat, a = x * p
    PROVE  a % p = 0
<1>1. PICK q \in Nat, r \in Nat : q = a \div p /\ r = a % p /\ a = q * p + r
  BY DivMod
<1>2. r < p
  <2>1. a % p < p
    BY SMTT(30)
  <2> QED BY <1>1, <2>1
<1>3. a = q * p + r /\ q * p \in Nat
  BY <1>1
<1>4. ASSUME q < x PROVE FALSE
  <2>1. PICK d \in Nat : x = q + 1 + d
    <3>1. x - q - 1 \in Nat /\ x = q + 1 + (x - q - 1)
      BY <1>4
    <3> QED BY <3>1
  <2>2. x * p = q * p + p + d * p /\ d * p \in Nat
    BY <2>1
  <2> QED BY <1>2, <1>3, <2>2
<1>5. ASSUME x < q PROVE FALSE
  <2>1. PICK d \in Nat : q = x + 1 + d
    <3>1. q - x - 1 \in Nat /\ q = x + 1 + (q - x - 1)
      BY <1>5
    <3> QED BY <3>1
  <2>2. q * p = x * p + p + d * p /\ d * p \in Nat /\ x * p \in Nat
    BY <2>1
  <2> QED BY <1>3, <2>2
<1>6. x = q
  BY <1>4, <1>5
<1>7. r = 0
  BY <1>3, <1>6
<1> QED BY <1>1, <1>7

(* Division by the epoch's length is monotone. *)
LEMMA DivMonotone ==
    ASSUME NEW a \in Int, NEW b \in Int, a <= b, NEW p \in Nat \ {0}
    PROVE  a \div p \in Int /\ b \div p \in Int /\ a \div p <= b \div p
BY SMTT(30)

(* A set of numbers that is not empty has a least one. *)
LEMMA LeastNumber ==
    ASSUME NEW T \in SUBSET Nat, T # {}
    PROVE  \E x \in T : \A y \in T : x <= y
<1>1. PICK x \in T : \A y \in T : ~ (<<y, x>> \in OpToRel(<, Nat))
  BY NatLessThanWellFounded, WFMin, Zenon
<1>2. \A y \in T : ~(y < x)
  BY <1>1, Zenon DEF OpToRel
<1> QED BY <1>2

(* The maximum of a set of positions. *)
LEMMA MaxRight ==
    ASSUME NEW n \in Nat, NEW S \in SUBSET (0 .. n), S # {}
    PROVE  Max(S) \in S /\ \A y \in S : y <= Max(S)
<1>0. PICK T : T = {n - x : x \in S}
  BY Zenon
<1>1. \A x \in S : x \in Int /\ n - x \in Nat
  OBVIOUS
<1>2. T \in SUBSET Nat /\ T # {}
  BY <1>0, <1>1, Zenon
<1>3. PICK d \in T : \A y \in T : d <= y
  BY <1>2, LeastNumber, Zenon
<1>4. PICK x \in S : d = n - x
  BY <1>0, <1>3, Zenon
<1>5. \A y \in S : n - x <= n - y
  BY <1>0, <1>3, <1>4, Zenon
<1>6. \A a, b \in Int : n - a <= n - b => a >= b
  OBVIOUS
<1>7. \A y \in S : x >= y
  BY <1>1, <1>5, <1>6, Zenon
<1>8. Max(S) \in S /\ \A y \in S : Max(S) >= y
  BY <1>7, Zenon DEF Max
<1>9. \A a, b \in Int : a >= b => b <= a
  OBVIOUS
<1> QED BY <1>1, <1>8, <1>9, Zenon

(* Two numbers that both are the maximum are the same. *)
LEMMA MaxUnique ==
    ASSUME NEW n \in Nat, NEW S \in SUBSET (0 .. n), NEW x \in S, \A y \in S : y <= x
    PROVE  Max(S) = x
<1>1. Max(S) \in S /\ \A y \in S : y <= Max(S)
  BY MaxRight
<1>2. Max(S) <= x /\ x <= Max(S) /\ Max(S) \in 0 .. n /\ x \in 0 .. n
  BY <1>1, Zenon
<1>3. \A a, b \in 0 .. n : a <= b /\ b <= a => a = b
  OBVIOUS
<1> QED BY <1>2, <1>3, Zenon

(* The validators of a range of headers are at most as many as the headers. *)
LEMMA RangeBound ==
    ASSUME NEW c, NEW a \in Nat, NEW b \in Nat, a <= b + 1
    PROVE  /\ IsFiniteSet({c[x].validator : x \in a .. b})
           /\ Cardinality({c[x].validator : x \in a .. b}) <= b - a + 1
           /\ Cardinality({c[x].validator : x \in a .. b}) \in Nat
<1> DEFINE S == a .. b
           T == {c[x].validator : x \in S}
           f == [x \in S |-> c[x].validator]
<1>1. IsFiniteSet(S) /\ Cardinality(S) = b - a + 1
  <2>1. a \in Int /\ b \in Int
    OBVIOUS
  <2>2. IsFiniteSet(a .. b) /\ Cardinality(a .. b) = IF a > b THEN 0 ELSE b - a + 1
    BY <2>1, FS_Interval
  <2> QED BY <2>2
<1>2. f \in Surjection(S, T)
  BY DEF Surjection
<1> HIDE DEF S, T, f
<1>3. IsFiniteSet(T) /\ Cardinality(T) <= Cardinality(S)
  BY <1>1, <1>2, FS_Surjection
<1>4. Cardinality(T) \in Nat
  BY <1>3, FS_CardinalityType
<1> QED BY <1>1, <1>3, <1>4 DEF S, T

-----------------------------------------------------------------------------
(* The slots: whole numbers of intervals after genesis.                       *)
Slot(t) == \E k \in Nat : t = GenesisTime + k * ProducerInterval

(* Slots are a whole number of intervals apart. *)
LEMMA SlotFacts ==
    ASSUME NEW s \in Nat, NEW t \in Nat, Slot(s), Slot(t)
    PROVE  /\ s < t => s + ProducerInterval <= t
           /\ s <= t => \E d \in Nat : t - s = d * ProducerInterval
<1>0. ProducerInterval \in Nat \ {0} /\ GenesisTime \in Nat
  BY IntervalAssumption, TimeAssumption
<1>1. PICK j \in Nat : s = GenesisTime + j * ProducerInterval
  BY DEF Slot
<1>2. PICK k \in Nat : t = GenesisTime + k * ProducerInterval
  BY DEF Slot
<1> DEFINE P == ProducerInterval
<1>3. ASSUME s <= t PROVE j <= k
  <2>1. ASSUME k < j PROVE FALSE
    <3>1. PICK d \in Nat : j = k + 1 + d
      <4>1. j - k - 1 \in Nat /\ j = k + 1 + (j - k - 1)
        BY <2>1
      <4> QED BY <4>1
    <3>2. j * P = k * P + P + d * P /\ d * P \in Nat /\ k * P \in Nat
      BY <1>0, <3>1
    <3> QED BY <1>0, <1>1, <1>2, <1>3, <3>2
  <2> QED BY <2>1
<1>4. ASSUME s <= t PROVE \E d \in Nat : t - s = d * P /\ (s < t => d # 0)
  <2>1. k - j \in Nat /\ k = j + (k - j)
    BY <1>3, <1>4
  <2>2. PICK d \in Nat : k = j + d
    BY <2>1
  <2>3. k * P = j * P + d * P /\ d * P \in Nat /\ j * P \in Nat
    BY <1>0, <2>2
  <2>4. t - s = d * P
    BY <1>0, <1>1, <1>2, <2>3
  <2>5. d = 0 => d * P = 0
    BY <1>0
  <2> QED BY <2>4, <2>5
<1>5. ASSUME s < t PROVE s + P <= t
  <2>1. PICK d \in Nat : t - s = d * P /\ d # 0
    BY <1>4, <1>5
  <2>2. PICK e \in Nat : d = e + 1
    <3>1. d - 1 \in Nat /\ d = (d - 1) + 1
      BY <2>1
    <3> QED BY <3>1
  <2>3. d * P = e * P + P /\ e * P \in Nat
    BY <1>0, <2>2
  <2> QED BY <1>0, <2>1, <2>3
<1> QED BY <1>4, <1>5

(* The slots that mintBlock and Seal recognise. *)
LEMMA SlotTests ==
    ASSUME NEW t \in Nat, t >= GenesisTime
    PROVE  /\ (t - GenesisTime) % ProducerInterval = 0 => Slot(t)
           /\ IsSlot(t) => Slot(t)
           /\ NextSlot(t - GenesisTime) + GenesisTime - t = 0 => Slot(t)
<1>0. /\ ProducerInterval \in Nat \ {0} /\ EpochInterval \in Nat \ {0} /\ GenesisTime \in Nat
      /\ EpochInterval % ProducerInterval = 0
  BY IntervalAssumption, TimeAssumption
<1> DEFINE P == ProducerInterval
           x == t - GenesisTime
<1>1. x \in Nat /\ t = GenesisTime + x
  BY <1>0
<1>2. \A a \in Nat, p \in Nat \ {0} : a % p = 0 => \E q \in Nat : a = q * p
  <2>1. \A a \in Nat, p \in Nat \ {0} : a % p = 0 => a = (a \div p) * p /\ a \div p \in Nat
    BY SMTT(30)
  <2> QED BY <2>1, Zenon
<1>3. \A q \in Nat : x = q * P => Slot(t)
  BY <1>1 DEF Slot
<1> HIDE DEF x
<1>4. x % P = 0 => Slot(t)
  BY <1>0, <1>1, <1>2, <1>3, Zenon
<1>5. (x % EpochInterval) % P = 0 => Slot(t)
  <2>0. \E q, r \in Nat : q = x \div EpochInterval /\ r = x % EpochInterval
                           /\ x = q * EpochInterval + r
    BY <1>0, <1>1, DivMod, Zenon
  <2>1. PICK q \in Nat, r \in Nat : r = x % EpochInterval /\ x = q * EpochInterval + r
    BY <2>0, Zenon
  <2>2. x = q * EpochInterval + r
    BY <2>1
  <2>3. PICK e \in Nat : EpochInterval = e * P
    BY <1>0, <1>2
  <2>4. ASSUME r % P = 0 PROVE Slot(t)
    <3>1. PICK u \in Nat : r = u * P
      BY <1>0, <1>2, <2>4
    <3>2. q * EpochInterval = (q * e) * P /\ q * e \in Nat
      BY <1>0, <2>3
    <3>3. PICK w \in Nat : w = q * e
      BY <3>2
    <3>4. x = w * P + u * P
      BY <2>2, <3>1, <3>2, <3>3
    <3>5. w * P + u * P = (w + u) * P /\ w + u \in Nat
      BY <1>0
    <3> QED BY <1>3, <3>4, <3>5
  <2> QED BY <2>1, <2>4
<1>6. NextSlot(x) + GenesisTime - t = 0 => Slot(t)
  <2>1. x + P - 1 \in Nat /\ (x + P - 1) \div P \in Nat
    <3>1. x + P - 1 \in Nat
      BY <1>0, <1>1
    <3>2. \A a \in Nat, p \in Nat \ {0} : a \div p \in Nat
      BY SMTT(30)
    <3> QED BY <1>0, <3>1, <3>2
  <2>2. PICK q \in Nat : q = (x + P - 1) \div P
    BY <2>1
  <2>3. NextSlot(x) = q * P
    BY <2>1, <2>2 DEF NextSlot, TruncDiv
  <2>4. q * P \in Nat
    BY <1>0
  <2> QED BY <1>0, <1>1, <1>3, <2>3, <2>4
<1> QED BY <1>4, <1>5, <1>6 DEF IsSlot, x

(* Slots stay slots when they are counted within the epoch from another slot.  *)
LEMMA EpochSlot ==
    ASSUME NEW d \in Nat, NEW a \in Nat, a = d * ProducerInterval
    PROVE  (a % EpochInterval) % ProducerInterval = 0
<1> DEFINE P == ProducerInterval
           E == EpochInterval
<1>0. P \in Nat \ {0} /\ E \in Nat \ {0} /\ E % P = 0
  BY IntervalAssumption
<1>1. PICK q \in Nat, r \in Nat : r = a % E /\ a = q * E + r
  <2>1. \E x, y \in Nat : x = a \div E /\ y = a % E /\ a = x * E + y
    BY <1>0, DivMod, Zenon
  <2> QED BY <2>1, Zenon
<1>2. PICK e \in Nat : E = e * P
  <2>1. PICK u \in Nat, v \in Nat : v = E % P /\ E = u * P + v
    <3>0. E \in Nat
      BY <1>0
    <3>1. \E x, y \in Nat : x = E \div P /\ y = E % P /\ E = x * P + y
      BY <1>0, <3>0, DivMod, Zenon
    <3> QED BY <3>1, Zenon
  <2>2. E = u * P
    BY <1>0, <2>1
  <2> QED BY <2>2
<1>3. PICK w \in Nat : w = q * e
  OBVIOUS
<1>4. q * E = w * P /\ w * P \in Nat
  BY <1>0, <1>2, <1>3
<1>5. d * P = w * P + r
  BY <1>1, <1>4
<1>6. w <= d
  <2>1. ASSUME d < w PROVE FALSE
    <3>1. PICK f \in Nat : w = d + 1 + f
      <4>1. w - d - 1 \in Nat /\ w = d + 1 + (w - d - 1)
        BY <2>1
      <4> QED BY <4>1
    <3>2. w * P = d * P + P + f * P /\ f * P \in Nat /\ d * P \in Nat
      BY <1>0, <3>1
    <3> QED BY <1>0, <1>5, <3>2
  <2> QED BY <2>1
<1>7. PICK f \in Nat : d = w + f
  <2>1. d - w \in Nat /\ d = w + (d - w)
    BY <1>6
  <2> QED BY <2>1
<1>8. d * P = w * P + f * P /\ f * P \in Nat
  BY <1>0, <1>7
<1>9. r = f * P
  BY <1>4, <1>5, <1>8
<1>10. r % P = 0
  BY <1>0, <1>9, MultipleRest
<1> QED BY <1>1, <1>10

(* With one validator listed GetProducer names it or refuses the time. *)
LEMMA SoleProducer ==
    ASSUME NEW c, NEW m, c.validators = <<m>>, NEW t \in Nat, NEW s \in Nat, s <= t
    PROVE  /\ GetProducer(c, t, s) \in {ErrInvalidProducerTime, m}
           /\ ((t - s) % EpochInterval) % ProducerInterval = 0 => GetProducer(c, t, s) = m
<1>0. ProducerInterval \in Nat \ {0} /\ EpochInterval \in Nat \ {0} /\ t - s \in Nat
  BY IntervalAssumption
<1>1. PICK x \in Nat : x = (t - s) % EpochInterval
  <2>1. \A a \in Nat, p \in Nat \ {0} : a % p \in Nat
    BY SMTT(30)
  <2> QED BY <1>0, <2>1
<1>2. PICK y \in Nat : y = x \div ProducerInterval
  <2>1. \A a \in Nat, p \in Nat \ {0} : a \div p \in Nat
    BY SMTT(30)
  <2> QED BY <1>0, <2>1
<1>3. y % 1 = 0
  OBVIOUS
<1>4. Len(c.validators) = 1 /\ c.validators[1] = m
  OBVIOUS
<1>5. GetProducer(c, t, s) = IF x % ProducerInterval # 0 THEN ErrInvalidProducerTime ELSE m
  BY <1>1, <1>2, <1>3, <1>4 DEF GetProducer
<1> QED BY <1>1, <1>5

-----------------------------------------------------------------------------
Counts == UNION {[K -> Nat] : K \in SUBSET (Nat \X Node)}

Context == [validators : Seq(Node), trie : SUBSET Node, cnt : Counts]

Header == [time : Nat, validator : Node \cup {NoNode}, tx : Tx \cup {NoTx},
           ctx : Context]

Key(h) == <<Epoch(h.time), h.validator>>

(* What makes a block's context exact: times increase along the ancestry,    *)
(* the count trie has an entry for every minted key with the right count,    *)
(* and the two validator tries agree.                                        *)
Increasing(b) == \A i, j \in 1 .. Len(b) : i < j => b[i].time < b[j].time

CountsMinted(b, cnt) ==
    /\ \A i \in 2 .. Len(b) : Key(b[i]) \in DOMAIN cnt
    /\ \A k \in DOMAIN cnt : cnt[k] = Cardinality(Minted(b, k))

Exact(b) ==
    /\ b \in Seq(Header) /\ Len(b) >= 1
    /\ \A i \in 2 .. Len(b) : b[i].validator \in Node
    /\ Increasing(b)
    /\ CountsMinted(b, HeaderOf(b).ctx.cnt)
    /\ HeaderOf(b).ctx.trie = Listed(HeaderOf(b).ctx)

-----------------------------------------------------------------------------
(* What an exact block is made of, and the times along it. *)
LEMMA ExactFacts ==
    ASSUME NEW b, Exact(b)
    PROVE  /\ b \in Seq(Header) /\ Len(b) \in Nat /\ Len(b) >= 1
           /\ HeaderOf(b) \in Header
           /\ HeaderOf(b).ctx.trie = Listed(HeaderOf(b).ctx)
<1>1. b \in Seq(Header) /\ Len(b) >= 1 /\ HeaderOf(b).ctx.trie = Listed(HeaderOf(b).ctx)
  BY Zenon DEF Exact
<1>2. Len(b) \in Nat /\ b[Len(b)] \in Header
  BY <1>1
<1> QED BY <1>1, <1>2, Zenon DEF HeaderOf

LEMMA ExactTimes ==
    ASSUME NEW b, Exact(b), NEW i \in 1 .. Len(b), NEW j \in 1 .. Len(b), i < j
    PROVE  b[i].time < b[j].time
BY Zenon DEF Exact, Increasing

(* Epochs are natural numbers. *)
LEMMA EpochType == \A t \in Nat : Epoch(t) \in Nat
BY IntervalAssumption DEF Epoch

(* A later time is never in an earlier epoch. *)
LEMMA EpochMonotone == \A s, t \in Nat : s <= t => Epoch(s) <= Epoch(t)
BY IntervalAssumption, SMTT(30) DEF Epoch

(* The genesis block counts nothing and lists nobody. *)
LEMMA GenesisExact == Exact(Genesis)
<1>1. EmptyContext \in Context
  <2>1. [k \in {} |-> 0] \in [{} -> Nat]
    OBVIOUS
  <2>2. {} \in SUBSET (Nat \X Node)
    OBVIOUS
  <2>3. [k \in {} |-> 0] \in Counts
    BY <2>1, <2>2, Zenon DEF Counts
  <2> QED
    BY <2>3 DEF EmptyContext, Context
<1>2. Genesis \in Seq(Header) /\ Len(Genesis) = 1
  BY <1>1, TimeAssumption DEF Genesis, Header
<1>3. HeaderOf(Genesis).ctx = EmptyContext
  BY DEF Genesis, HeaderOf
<1>4. Listed(EmptyContext) = {} /\ DOMAIN EmptyContext.cnt = {}
  BY DEF Listed, EmptyContext
<1>5. HeaderOf(Genesis) = Genesis[1]
  BY <1>2 DEF HeaderOf
<1>6. Epoch(Genesis[1].time) \in Nat
  BY EpochType, TimeAssumption DEF Genesis
<1> QED
  BY <1>2, <1>3, <1>4, <1>5, <1>6 DEF Exact, Increasing, CountsMinted, EmptyContext

-----------------------------------------------------------------------------
(* The blocks that are counted are finitely many. *)
LEMMA MintedFinite ==
    ASSUME NEW b, Len(b) \in Nat, NEW k
    PROVE  IsFiniteSet(Minted(b, k)) /\ Cardinality(Minted(b, k)) \in Nat
<1>1. IsFiniteSet(2 .. Len(b))
  BY FS_Interval
<1>2. Minted(b, k) \subseteq 2 .. Len(b)
  BY DEF Minted
<1> QED
  BY <1>1, <1>2, FS_Subset, FS_CardinalityType

(* Counting one more header.                                                 *)
LEMMA MintedAppend ==
    ASSUME NEW p \in Seq(Header), Len(p) >= 1, NEW h \in Header, NEW k
    PROVE  Cardinality(Minted(Append(p, h), k)) =
              IF k = Key(h) THEN Cardinality(Minted(p, k)) + 1
              ELSE Cardinality(Minted(p, k))
<1> DEFINE b == Append(p, h)
<1>1. Len(b) = Len(p) + 1 /\ b[Len(p) + 1] = h /\ \A i \in 1 .. Len(p) : b[i] = p[i]
  BY AppendFacts, ZenonT(30)
<1>2. Len(p) \in Nat
  OBVIOUS
<1>3. CASE k = Key(h)
  <2>1. Minted(b, k) = Minted(p, k) \cup {Len(p) + 1}
    BY <1>1, <1>2, <1>3 DEF Minted, Key
  <2>2. Len(p) + 1 \notin Minted(p, k)
    BY <1>2 DEF Minted
  <2>3. IsFiniteSet(Minted(p, k))
    BY <1>2, MintedFinite, Zenon
  <2>4. Cardinality(Minted(p, k) \cup {Len(p) + 1}) = Cardinality(Minted(p, k)) + 1
    BY <2>2, <2>3, FS_AddElement, Zenon
  <2> QED
    BY <1>3, <2>1, <2>4, Zenon
<1>4. CASE k # Key(h)
  <2>1. Minted(b, k) = Minted(p, k)
    BY <1>1, <1>2, <1>4 DEF Minted, Key
  <2> QED
    BY <1>4, <2>1
<1> QED
  BY <1>3, <1>4
-----------------------------------------------------------------------------
(* SetValidator keeps the two validator tries of a context in step and does  *)
(* not touch the counts.                                                     *)
LEMMA ApplyTxFacts ==
    ASSUME NEW c \in Context, c.trie = Listed(c), NEW tx \in Tx \cup {NoTx}
    PROVE  /\ ApplyTx(c, tx) \in Context
           /\ ApplyTx(c, tx).trie = Listed(ApplyTx(c, tx))
           /\ ApplyTx(c, tx).cnt = c.cnt
           /\ tx = NoTx => ApplyTx(c, tx).validators = c.validators
           /\ tx # NoTx => \E m \in Node : ApplyTx(c, tx).validators = <<m>>
<1>1. CASE tx = NoTx
  BY <1>1 DEF ApplyTx
<1>2. CASE tx # NoTx
  <2> DEFINE d == Clean(c)
  <2>1. tx.to \in Node
    BY <1>2 DEF Tx
  <2>2. /\ d.validators = <<>> /\ d.trie = {} /\ d.cnt = c.cnt
        /\ d \in Context
    <3>1. c.trie \ Listed(c) = {}
      OBVIOUS
    <3>2. d = [[c EXCEPT !.trie = {}] EXCEPT !.validators = <<>>]
      BY <3>1, Zenon DEF Clean
    <3>3. [c EXCEPT !.trie = {}] \in Context
      BY DEF Context
    <3>4. d \in Context
      <4>1. <<>> \in Seq(Node)
        OBVIOUS
      <4> QED
        BY <3>2, <3>3, <4>1, Zenon DEF Context
    <3> QED
      BY <3>2, <3>4 DEF Context
  <2>3. Len(d.validators) = 0
    BY <2>2
  <2>4. ApplyTx(c, tx) =
          [d EXCEPT !.trie = @ \cup {tx.to}, !.validators = Append(@, tx.to)]
    BY <1>2, <2>3, SizeAssumption DEF InsertValidator, ApplyTx
  <2>5. /\ ApplyTx(c, tx).validators = <<tx.to>> /\ ApplyTx(c, tx).trie = {tx.to}
        /\ ApplyTx(c, tx).cnt = c.cnt
        /\ ApplyTx(c, tx) \in Context
    <3>1. Append(d.validators, tx.to) = <<tx.to>> /\ <<tx.to>> \in Seq(Node)
      BY <2>1, <2>2
    <3>2. d.trie \cup {tx.to} = {tx.to}
      BY <2>2
    <3> HIDE DEF d
    <3>3. ApplyTx(c, tx) = [[d EXCEPT !.trie = {tx.to}] EXCEPT !.validators = <<tx.to>>]
      BY <2>4, <3>1, <3>2, Zenon
    <3>4. [d EXCEPT !.trie = {tx.to}] \in Context /\ [d EXCEPT !.trie = {tx.to}].cnt = d.cnt
      BY <2>1, <2>2 DEF Context
    <3>5. ApplyTx(c, tx) \in Context
      BY <3>1, <3>3, <3>4, Zenon DEF Context
    <3> QED
      BY <2>2, <3>3, <3>4, <3>5 DEF Context
  <2>6. Listed(ApplyTx(c, tx)) = {tx.to}
    BY <2>5 DEF Listed
  <2> QED
    BY <1>2, <2>1, <2>5, <2>6
<1> QED
  BY <1>1, <1>2

(* The count trie d is c with one mint more under the key.                    *)
OneMore(d, c, key, n) ==
    /\ DOMAIN d = DOMAIN c \cup {key} /\ d[key] = n
    /\ \A k \in DOMAIN c : k # key => d[k] = c[k]

NextCount(c, s, t, key) ==
    IF Epoch(s) = Epoch(t) /\ key \in DOMAIN c THEN c[key] + 1 ELSE 1

(* updateMintCnt changes one entry of the counts and nothing else.           *)
LEMMA UpdateMintCntFacts ==
    ASSUME NEW c \in Context, NEW s \in Nat, NEW t \in Nat, NEW v \in Node
    PROVE  \E f \in Counts :
              /\ UpdateMintCnt(c, s, t, v) = [c EXCEPT !.cnt = f]
              /\ OneMore(f, c.cnt, <<Epoch(t), v>>, NextCount(c.cnt, s, t, <<Epoch(t), v>>))
<1>1. PICK a : a = c.cnt
  BY Zenon
<1>2. PICK key : key = <<Epoch(t), v>>
  BY Zenon
<1>3. PICK n : n = NextCount(a, s, t, key)
  BY Zenon
<1> DEFINE f == [k \in DOMAIN a \cup {key} |-> IF k = key THEN n ELSE a[k]]
<1>4. PICK K \in SUBSET (Nat \X Node) : a \in [K -> Nat]
  BY <1>1, Zenon DEF Context, Counts
<1>5. key \in Nat \X Node
  BY <1>2, EpochType
<1>6. n \in Nat
  BY <1>3, <1>4 DEF NextCount
<1>7. f \in [K \cup {key} -> Nat] /\ K \cup {key} \in SUBSET (Nat \X Node)
  BY <1>4, <1>5, <1>6
<1>8. OneMore(f, a, key, n)
  BY DEF OneMore
<1>9. UpdateMintCnt(c, s, t, v) = [c EXCEPT !.cnt = f]
  BY <1>1, <1>2, <1>3 DEF UpdateMintCnt, NextCount
<1> HIDE DEF f
<1>10. f \in Counts
  BY <1>7, Zenon DEF Counts
<1> QED BY <1>1, <1>2, <1>3, <1>8, <1>9, <1>10, Zenon

(* Replacing the counts of a context. *)
LEMMA CountsReplaced ==
    ASSUME NEW c \in Context, NEW f \in Counts
    PROVE  /\ [c EXCEPT !.cnt = f] \in Context
           /\ [c EXCEPT !.cnt = f].validators = c.validators
           /\ [c EXCEPT !.cnt = f].trie = c.trie
           /\ [c EXCEPT !.cnt = f].cnt = f
BY DEF Context

-----------------------------------------------------------------------------
(* A later header goes behind the others. *)
LEMMA AppendIncreasing ==
    ASSUME NEW p \in Seq(Header), Len(p) >= 1, Increasing(p), NEW h \in Header,
           HeaderOf(p).time < h.time
    PROVE  /\ Increasing(Append(p, h))
           /\ \A i \in 1 .. Len(p) : p[i].time \in Nat /\ p[i].time <= HeaderOf(p).time
<1>0. Len(p) \in Nat /\ Len(p) \in 1 .. Len(p)
  OBVIOUS
<1>1. \A x \in Header : x.time \in Nat
  BY DEF Header
<1>2. \A i \in 1 .. Len(p) : p[i].time \in Nat
  <2>1. \A i \in 1 .. Len(p) : p[i] \in Header
    OBVIOUS
  <2> QED BY <1>1, <2>1, Zenon
<1>3. ASSUME NEW i \in 1 .. Len(p) PROVE p[i].time <= HeaderOf(p).time
  <2>1. CASE i < Len(p)
    <3>1. p[i].time < p[Len(p)].time
      BY <1>0, <2>1, Zenon DEF Increasing
    <3>2. \A a, b \in Nat : a < b => a <= b
      OBVIOUS
    <3> QED BY <1>0, <1>2, <3>1, <3>2, Zenon DEF HeaderOf
  <2>2. CASE ~(i < Len(p))
    <3>1. i = Len(p)
      BY <1>0, <2>2
    <3>2. \A a \in Nat : a <= a
      OBVIOUS
    <3> QED BY <1>0, <1>2, <3>1, <3>2, Zenon DEF HeaderOf
  <2> QED BY <2>1, <2>2
<1>4. PICK b : b = Append(p, h)
  BY Zenon
<1>5. /\ Len(b) = Len(p) + 1 /\ b[Len(p) + 1] = h
      /\ \A i \in 1 .. Len(p) : b[i] = p[i]
  BY <1>4, AppendFacts, ZenonT(30)
<1>6. ASSUME NEW i \in 1 .. Len(b), NEW j \in 1 .. Len(b), i < j PROVE b[i].time < b[j].time
  <2>1. i \in 1 .. Len(p)
    BY <1>0, <1>5, <1>6
  <2>2. CASE j = Len(p) + 1
    <3>1. b[i].time = p[i].time /\ b[j].time = h.time
      BY <1>5, <2>1, <2>2, Zenon
    <3>2. \A x, y, z \in Nat : x <= y /\ y < z => x < z
      OBVIOUS
    <3>3. h.time \in Nat /\ HeaderOf(p).time \in Nat
      BY <1>0, <1>1, <1>2, Zenon DEF HeaderOf
    <3> QED BY <1>2, <1>3, <2>1, <3>1, <3>2, <3>3, Zenon
  <2>3. CASE j # Len(p) + 1
    <3>1. j \in 1 .. Len(p)
      BY <1>0, <1>5, <2>3
    <3> QED BY <1>5, <1>6, <2>1, <3>1, Zenon DEF Increasing
  <2> QED BY <2>2, <2>3
<1>7. Increasing(b)
  BY <1>6, Zenon DEF Increasing
<1> QED BY <1>2, <1>3, <1>4, <1>7, Zenon

(* A key that is counted from one was not minted before: the epochs only ever  *)
(* grow along the ancestry.                                                   *)
LEMMA FreshKey ==
    ASSUME NEW p, NEW c, CountsMinted(p, c), NEW s \in Nat, NEW h, h.time \in Nat,
           \A i \in 2 .. Len(p) : p[i].time \in Nat /\ p[i].time <= s, s < h.time,
           ~(Epoch(s) = Epoch(h.time) /\ Key(h) \in DOMAIN c)
    PROVE  Minted(p, Key(h)) = {}
<1> SUFFICES ASSUME NEW i \in 2 .. Len(p), Key(p[i]) = Key(h) PROVE FALSE
  BY Zenon DEF Minted, Key
<1>1. Key(h) \in DOMAIN c
  BY Zenon DEF CountsMinted
<1>2. Epoch(p[i].time) = Epoch(h.time)
  BY DEF Key
<1>3. PICK a, t : a = p[i].time /\ t = h.time
  BY Zenon
<1>4. a \in Nat /\ t \in Nat /\ a <= s /\ s <= t
  BY <1>3
<1>5. Epoch(a) <= Epoch(s) /\ Epoch(s) <= Epoch(t)
  BY <1>4, EpochMonotone, Zenon
<1>6. Epoch(a) \in Nat /\ Epoch(s) \in Nat /\ Epoch(t) \in Nat
  BY <1>4, EpochType, Zenon
<1>7. \A x, y, z \in Nat : x <= y /\ y <= z /\ x = z => y = z
  OBVIOUS
<1>8. Epoch(s) = Epoch(t)
  BY <1>2, <1>3, <1>5, <1>6, <1>7, Zenon
<1> QED BY <1>1, <1>3, <1>8

(* One mint more is counted once more. *)
LEMMA AppendCounted ==
    ASSUME NEW p \in Seq(Header), Len(p) >= 1, Increasing(p), NEW h \in Header,
           NEW s, s = HeaderOf(p).time, s < h.time, NEW c, NEW d, CountsMinted(p, c),
           OneMore(d, c, Key(h), NextCount(c, s, h.time, Key(h)))
    PROVE  CountsMinted(Append(p, h), d)
<1>0. Len(p) \in Nat /\ Len(p) \in 1 .. Len(p)
  OBVIOUS
<1>1. PICK b : b = Append(p, h)
  BY Zenon
<1>2. /\ Len(b) = Len(p) + 1 /\ b[Len(p) + 1] = h
      /\ \A i \in 1 .. Len(p) : b[i] = p[i]
  BY <1>1, AppendFacts, ZenonT(30)
<1>3. PICK key : key = Key(h)
  BY Zenon
<1>4. /\ DOMAIN d = DOMAIN c \cup {key} /\ d[key] = NextCount(c, s, h.time, key)
      /\ \A k \in DOMAIN c : k # key => d[k] = c[k]
  BY <1>3, Zenon DEF OneMore
<1>5. ASSUME NEW i \in 2 .. Len(b) PROVE Key(b[i]) \in DOMAIN d
  <2>1. CASE i = Len(p) + 1
    BY <1>2, <1>3, <1>4, <2>1, Zenon
  <2>2. CASE i # Len(p) + 1
    <3>1. i \in 2 .. Len(p) /\ i \in 1 .. Len(p)
      BY <1>0, <1>2, <2>2
    <3>2. Key(p[i]) \in DOMAIN c
      BY <3>1, Zenon DEF CountsMinted
    <3> QED BY <1>2, <1>4, <3>1, <3>2, Zenon
  <2> QED BY <2>1, <2>2
<1>6. ASSUME NEW k \in DOMAIN d PROVE d[k] = Cardinality(Minted(b, k))
  <2>1. Cardinality(Minted(b, k)) =
          IF k = key THEN Cardinality(Minted(p, k)) + 1 ELSE Cardinality(Minted(p, k))
    BY <1>1, <1>3, MintedAppend, Zenon
  <2>2. \A x \in DOMAIN c : c[x] = Cardinality(Minted(p, x))
    BY Zenon DEF CountsMinted
  <2>3. CASE k # key
    BY <1>4, <2>1, <2>2, <2>3, Zenon
  <2>4. CASE k = key /\ Epoch(s) = Epoch(h.time) /\ key \in DOMAIN c
    BY <1>4, <2>1, <2>2, <2>4, Zenon DEF NextCount
  <2>5. CASE k = key /\ ~(Epoch(s) = Epoch(h.time) /\ key \in DOMAIN c)
    <3>1. h.time \in Nat /\ s \in Nat
      <4>1. \A x \in Header : x.time \in Nat
        BY DEF Header
      <4>2. HeaderOf(p) \in Header
        BY <1>0 DEF HeaderOf
      <4> QED BY <4>1, <4>2, Zenon
    <3>2. \A i \in 2 .. Len(p) : p[i].time \in Nat /\ p[i].time <= s
      <4>1. \A i \in 1 .. Len(p) : p[i].time \in Nat /\ p[i].time <= s
        BY AppendIncreasing, Zenon
      <4>2. \A i \in 2 .. Len(p) : i \in 1 .. Len(p)
        OBVIOUS
      <4> QED BY <4>1, <4>2, Zenon
    <3>3. Minted(p, key) = {}
      BY <1>3, <2>5, <3>1, <3>2, FreshKey, Zenon
    <3>4. Cardinality(Minted(p, key)) = 0
      BY <3>3, FS_EmptySet, Zenon
    <3>5. d[key] = 1
      BY <1>4, <2>5, Zenon DEF NextCount
    <3>6. Cardinality(Minted(b, k)) = 0 + 1
      BY <2>1, <2>5, <3>4, Zenon
    <3> QED BY <2>5, <3>5, <3>6
  <2> QED BY <2>3, <2>4, <2>5
<1>7. CountsMinted(b, d)
  BY <1>5, <1>6, Zenon DEF CountsMinted
<1> QED BY <1>1, <1>7

(* The header that Extend appends, as one fact to cite. *)
Formed(p, t, v, tx) ==
    \E h \in Header :
        /\ Extend(p, t, v, tx) = Append(p, h)
        /\ h.time = t /\ h.validator = v /\ h.tx = tx
        /\ h.ctx = FinalContext(p, t, v, tx)
        /\ h.ctx.validators = ApplyTx(HeaderOf(p).ctx, tx).validators

(* What Process and Finalize make of an exact block's context: a block built   *)
(* on it, later than it, is exact.                                            *)
LEMMA ExtendForm ==
    ASSUME NEW p, Exact(p), NEW t \in Nat, HeaderOf(p).time < t,
           NEW v \in Node, NEW tx \in Tx \cup {NoTx}
    PROVE  Exact(Extend(p, t, v, tx)) /\ Formed(p, t, v, tx)
<1>1. /\ p \in Seq(Header) /\ Len(p) \in Nat /\ Len(p) >= 1 /\ HeaderOf(p) \in Header
      /\ HeaderOf(p).ctx.trie = Listed(HeaderOf(p).ctx)
  BY ExactFacts, Zenon
<1>2. PICK s, g : s = HeaderOf(p).time /\ g = HeaderOf(p).ctx
  BY Zenon
<1>3. s \in Nat /\ g \in Context
  BY <1>1, <1>2 DEF Header
<1>4. PICK c : c = ApplyTx(g, tx)
  BY Zenon
<1>5. c \in Context /\ c.trie = Listed(c) /\ c.cnt = g.cnt
  BY <1>1, <1>2, <1>3, <1>4, ApplyTxFacts, Zenon
<1>6. PICK f \in Counts :
         /\ UpdateMintCnt(c, s, t, v) = [c EXCEPT !.cnt = f]
         /\ OneMore(f, c.cnt, <<Epoch(t), v>>, NextCount(c.cnt, s, t, <<Epoch(t), v>>))
  BY <1>3, <1>5, UpdateMintCntFacts, Zenon
<1>7. PICK x : x = [c EXCEPT !.cnt = f]
  BY Zenon
<1>8. x \in Context /\ x.validators = c.validators /\ x.trie = c.trie /\ x.cnt = f
  BY <1>5, <1>7, CountsReplaced, Zenon
<1>9. PICK h : h = [time |-> t, validator |-> v, tx |-> tx, ctx |-> x]
  BY Zenon
<1>10. h.time = t /\ h.validator = v /\ h.ctx = x /\ h.tx = tx
  BY <1>9
<1>11. h \in Header
  BY <1>8, <1>9 DEF Header
<1>12. Extend(p, t, v, tx) = Append(p, h) /\ FinalContext(p, t, v, tx) = x
  BY <1>2, <1>4, <1>6, <1>7, <1>9, Zenon DEF Extend, FinalContext
<1>13. PICK b : b = Append(p, h)
  BY Zenon
<1>14. /\ b \in Seq(Header) /\ Len(b) = Len(p) + 1 /\ b[Len(p) + 1] = h /\ HeaderOf(b) = h
       /\ \A i \in 1 .. Len(p) : b[i] = p[i]
  <2>1. p \in Seq(Header) /\ h \in Header
    BY <1>1, <1>11, Zenon
  <2>2. /\ Append(p, h) \in Seq(Header) /\ Len(Append(p, h)) = Len(p) + 1
        /\ Append(p, h)[Len(p) + 1] = h /\ HeaderOf(Append(p, h)) = h
        /\ \A i \in 1 .. Len(p) : Append(p, h)[i] = p[i]
    BY <2>1, AppendFacts, SMTT(60)
  <2> QED BY <1>13, <2>2, Zenon
<1>15. Increasing(b)
  BY <1>1, <1>2, <1>10, <1>11, <1>13, AppendIncreasing, Zenon DEF Exact
<1>16. CountsMinted(b, f)
  <2>1. CountsMinted(p, c.cnt) /\ Increasing(p)
    BY <1>2, <1>5, Zenon DEF Exact
  <2>2. Key(h) = <<Epoch(t), v>>
    BY <1>10, Zenon DEF Key
  <2>3. OneMore(f, c.cnt, Key(h), NextCount(c.cnt, s, h.time, Key(h)))
    BY <1>6, <1>10, <2>2, Zenon
  <2> QED BY <1>1, <1>2, <1>10, <1>11, <1>13, <2>1, <2>3, AppendCounted, Zenon
<1>17. ASSUME NEW i \in 2 .. Len(b) PROVE b[i].validator \in Node
  <2>1. CASE i = Len(p) + 1
    BY <1>10, <1>14, <2>1, Zenon
  <2>2. CASE i # Len(p) + 1
    <3>1. i \in 2 .. Len(p) /\ i \in 1 .. Len(p)
      BY <1>1, <1>14, <2>2
    <3> QED BY <1>14, <3>1, Zenon DEF Exact
  <2> QED BY <2>1, <2>2
<1>18. x.trie = Listed(x)
  BY <1>5, <1>8, Zenon DEF Listed
<1>19. Len(b) >= 1
  BY <1>1, <1>14
<1>20. Exact(b)
  BY <1>8, <1>10, <1>14, <1>15, <1>16, <1>17, <1>18, <1>19, Zenon DEF Exact
<1>21. Formed(p, t, v, tx)
  BY <1>2, <1>4, <1>8, <1>10, <1>11, <1>12, Zenon DEF Formed
<1> QED BY <1>12, <1>13, <1>20, <1>21, Zenon

(* In short: what is built on an exact block is exact.                        *)
LEMMA ExtendExact ==
    ASSUME NEW p, Exact(p), NEW t \in Nat, HeaderOf(p).time < t,
           NEW v \in Node, NEW tx \in Tx \cup {NoTx}
    PROVE  Exact(Extend(p, t, v, tx))
BY ExtendForm, Zenon

-----------------------------------------------------------------------------
(* The inductive invariant: wherever a block may be (stored, announced, being *)
(* sealed, waiting to be written) it is exact.                               *)
ExactBlocks == {b \in Seq(Header) : Exact(b)}

MintStates == [phase : {"idle", "work", "seal"}, at : Int,
               block : ExactBlocks \cup {NoBlock}]

IInv ==
    /\ now \in Nat
    /\ head \in [Node -> ExactBlocks]
    /\ known \in [Node -> SUBSET ExactBlocks]
    /\ mint \in [Node -> MintStates]
    /\ \A n \in Node : mint[n].phase = "seal" => mint[n].block \in ExactBlocks
    /\ recv \in [Node -> Seq([block : ExactBlocks, at : Nat])]
    /\ net \in SUBSET ExactBlocks

(* Membership in ExactBlocks is exactness. *)
LEMMA ExactBlock == \A b : b \in ExactBlocks <=> Exact(b)
BY DEF ExactBlocks, Exact

(* The state of a mint loop that is idle. *)
LEMMA IdleType == \A t \in Int : Idle(t) \in MintStates /\ Idle(t).phase = "idle"
BY DEF Idle, MintStates

(* Every node starts with the genesis block only. *)
LEMMA InitIInv == Init => IInv
<1> SUFFICES ASSUME Init PROVE IInv
  OBVIOUS
<1>1. Genesis \in ExactBlocks
  BY GenesisExact, ExactBlock
<1>2. Restarted \in MintStates /\ Restarted.phase = "idle"
  BY IdleType DEF Restarted
<1>3. <<>> \in Seq([block : ExactBlocks, at : Nat])
  OBVIOUS
<1> QED
  BY <1>1, <1>2, <1>3, TimeAssumption DEF Init, IInv

(* WriteBlockAndState with an exact block keeps the stores exact.            *)
LEMMA WriteKeeps ==
    ASSUME NEW n \in Node, NEW b \in ExactBlocks,
           head \in [Node -> ExactBlocks], known \in [Node -> SUBSET ExactBlocks],
           WriteBlockAndState(n, b)
    PROVE  head' \in [Node -> ExactBlocks] /\ known' \in [Node -> SUBSET ExactBlocks]
<1>1. PICK h \in NewHead(head[n], b) : head' = [head EXCEPT ![n] = h]
  BY Zenon DEF WriteBlockAndState
<1>2. h \in {b, head[n]}
  BY <1>1 DEF NewHead
<1> QED
  BY <1>1, <1>2 DEF WriteBlockAndState

(* A new phase for one node.                                                 *)
LEMMA MintKeeps ==
    ASSUME NEW n \in Node, mint \in [Node -> MintStates],
           \A m \in Node : mint[m].phase = "seal" => mint[m].block \in ExactBlocks,
           NEW w \in MintStates, w.phase = "seal" => w.block \in ExactBlocks,
           mint' = [mint EXCEPT ![n] = w]
    PROVE  /\ mint' \in [Node -> MintStates]
           /\ \A m \in Node : mint'[m].phase = "seal" => mint'[m].block \in ExactBlocks
OBVIOUS

(* What createNewWork assembles is exact.                                    *)
LEMMA StampExact ==
    ASSUME NEW p \in ExactBlocks, NEW t \in Nat, NEW n \in Node, NEW tx \in Tx \cup {NoTx}
    PROVE  Extend(p, Stamp(p, t), n, tx) \in ExactBlocks
<1>1. Exact(p)
  BY ExactBlock
<1>2. HeaderOf(p) \in Header
  BY <1>1, ExactFacts, Zenon
<1>3. HeaderOf(p).time \in Nat
  BY <1>2 DEF Header
<1>4. Stamp(p, t) \in Nat /\ HeaderOf(p).time < Stamp(p, t)
  BY <1>3 DEF Stamp
<1> QED
  BY <1>1, <1>4, ExtendExact, ExactBlock

(* createNewWork puts a transaction that executes, or none, into the block.   *)
LEMMA IncludedFacts ==
    ASSUME NEW p, NEW t, NEW tx \in Tx \cup {NoTx}
    PROVE  /\ Included(p, t, tx) \in Tx \cup {NoTx}
           /\ TxValid(HeaderOf(p).ctx, t, Number(p), Included(p, t, tx))
BY DEF Included, TxValid

LEMMA NewWorkForm ==
    ASSUME NEW n \in Node, CreateNewWork(n)
    PROVE  \E tx \in Tx \cup {NoTx} :
              /\ TxValid(HeaderOf(head[n]).ctx, Stamp(head[n], now), Number(head[n]), tx)
              /\ mint' = [mint EXCEPT ![n] = [phase |-> "seal", at |-> now,
                            block |-> Extend(head[n], Stamp(head[n], now), n, tx)]]
<1>1. PICK tx \in Tx \cup {NoTx} :
         mint' = [mint EXCEPT ![n] = [phase |-> "seal", at |-> now,
                    block |-> NewWork(head[n], Stamp(head[n], now), n, tx)]]
  BY Zenon DEF CreateNewWork
<1>2. PICK u : u = Included(head[n], Stamp(head[n], now), tx)
  BY Zenon
<1>3. u \in Tx \cup {NoTx} /\ TxValid(HeaderOf(head[n]).ctx, Stamp(head[n], now), Number(head[n]), u)
  BY <1>2, IncludedFacts, Zenon
<1>4. NewWork(head[n], Stamp(head[n], now), n, tx) = Extend(head[n], Stamp(head[n], now), n, u)
  BY <1>2, Zenon DEF NewWork
<1> QED BY <1>1, <1>3, <1>4, Zenon

(* Minting, writing, importing, crashing and time keep all blocks exact. *)
LEMMA NextIInv == IInv /\ [Next]_vars => IInv'
<1> SUFFICES ASSUME IInv, [Next]_vars PROVE IInv'
  BY Zenon
<1>0. IInv
  OBVIOUS
<1>1. CASE UNCHANGED vars
  BY <1>0, <1>1, Zenon DEF IInv, vars
<1>2. CASE Tick
  <2>1. now' = now + 1 /\ UNCHANGED <<head, known, mint, recv, net>>
    BY <1>2 DEF Tick
  <2>2. now' \in Nat
    BY <1>0, <2>1 DEF IInv
  <2> QED
    BY <1>0, <2>1, <2>2, Zenon DEF IInv
<1>3. ASSUME NEW n \in Node, MintCheck(n) PROVE IInv'
  <2>1. PICK w : w = [phase |-> "work", at |-> now, block |-> NoBlock]
    BY Zenon
  <2>2. w \in MintStates /\ w.phase # "seal" /\ mint' = [mint EXCEPT ![n] = w]
    BY <1>0, <1>3, <2>1 DEF IInv, MintStates, MintCheck
  <2>3. /\ mint' \in [Node -> MintStates]
        /\ \A m \in Node : mint'[m].phase = "seal" => mint'[m].block \in ExactBlocks
    BY <1>0, <2>2, MintKeeps DEF IInv
  <2> QED
    BY <1>0, <1>3, <2>3, Zenon DEF IInv, MintCheck
<1>4. ASSUME NEW n \in Node, CreateNewWork(n) PROVE IInv'
  <2>1. PICK tx \in Tx \cup {NoTx} :
           mint' = [mint EXCEPT ![n] = [phase |-> "seal", at |-> now,
                        block |-> Extend(head[n], Stamp(head[n], now), n, tx)]]
    BY <1>4, NewWorkForm, Zenon
  <2>2. PICK b : b = Extend(head[n], Stamp(head[n], now), n, tx)
    BY Zenon
  <2>3. b \in ExactBlocks
    BY <1>0, <2>2, StampExact DEF IInv
  <2>4. [phase |-> "seal", at |-> now, block |-> b] \in MintStates
    BY <1>0, <2>3 DEF IInv, MintStates
  <2> QED
    BY <1>0, <1>4, <2>1, <2>2, <2>3, <2>4, Zenon DEF IInv, CreateNewWork
<1>5. ASSUME NEW n \in Node, Seal(n) PROVE IInv'
  <2>1. mint' \in [Node -> MintStates] /\
        \A m \in Node : mint'[m].phase = "seal" => mint'[m].block \in ExactBlocks
    <3>1. PICK w : w = Idle(now)
      BY Zenon
    <3>2. mint' = [mint EXCEPT ![n] = w]
      BY <1>5, <3>1, Zenon DEF Seal
    <3>3. now \in Int
      BY <1>0 DEF IInv
    <3>4. w \in MintStates /\ w.phase = "idle"
      BY <3>1, <3>3, IdleType, Zenon
    <3> QED BY <1>0, <3>2, <3>4, MintKeeps DEF IInv
  <2>2. [block |-> mint[n].block, at |-> now] \in [block : ExactBlocks, at : Nat]
    BY <1>0, <1>5 DEF IInv, Seal
  <2>3. Append(recv[n], [block |-> mint[n].block, at |-> now])
           \in Seq([block : ExactBlocks, at : Nat])
    BY <1>0, <2>2, QueueFacts, Zenon DEF IInv
  <2>4. recv' \in [Node -> Seq([block : ExactBlocks, at : Nat])]
    BY <1>0, <1>5, <2>3, Zenon DEF IInv, Seal
  <2> QED
    BY <1>0, <1>5, <2>1, <2>4, Zenon DEF IInv, Seal
<1>6. ASSUME NEW n \in Node, SealInterrupted(n) PROVE IInv'
  <2>1. Idle(now) \in MintStates /\ Idle(now).phase # "seal"
    BY <1>0, IdleType DEF IInv
  <2>2. /\ mint' \in [Node -> MintStates]
        /\ \A m \in Node : mint'[m].phase = "seal" => mint'[m].block \in ExactBlocks
    BY <1>0, <1>6, <2>1, MintKeeps DEF IInv, SealInterrupted
  <2> QED
    BY <1>0, <1>6, <2>2, Zenon DEF IInv, SealInterrupted, TakeHeadEvent
<1>13. ASSUME NEW n \in Node, EventIgnored(n) PROVE IInv'
  BY <1>0, <1>13, Zenon DEF IInv, EventIgnored, TakeHeadEvent
<1>7. ASSUME NEW n \in Node, WriteMined(n) PROVE IInv'
  <2>1. recv[n] \in Seq([block : ExactBlocks, at : Nat]) /\ recv[n] # <<>>
    BY <1>0, <1>7, Zenon DEF IInv, WriteMined
  <2>2. recv[n][1].block \in ExactBlocks /\ Tail(recv[n]) \in Seq([block : ExactBlocks, at : Nat])
    <3>1. recv[n][1] \in [block : ExactBlocks, at : Nat]
      BY <2>1, QueueFacts, Zenon
    <3> QED
      BY <2>1, <3>1, QueueFacts
  <2>3. head' \in [Node -> ExactBlocks] /\ known' \in [Node -> SUBSET ExactBlocks]
    BY <1>0, <1>7, <2>2, WriteKeeps, Zenon DEF IInv, WriteMined
  <2> QED
    BY <1>0, <1>7, <2>2, <2>3, Zenon DEF IInv, WriteMined
<1>8. ASSUME NEW n \in Node, NEW b \in net, InsertBlock(n, b) PROVE IInv'
  <2>1. head' \in [Node -> ExactBlocks] /\ known' \in [Node -> SUBSET ExactBlocks]
    BY <1>0, <1>8, WriteKeeps, Zenon DEF IInv, InsertBlock
  <2> QED
    BY <1>0, <1>8, <2>1, Zenon DEF IInv, InsertBlock
<1>9. ASSUME NEW n \in Node, LoseMemory(n), known' \in [Node -> SUBSET ExactBlocks]
      PROVE  IInv'
  <2>1. Restarted \in MintStates /\ Restarted.phase = "idle"
    BY IdleType DEF Restarted
  <2>2. <<>> \in Seq([block : ExactBlocks, at : Nat])
    OBVIOUS
  <2> QED
    BY <1>0, <1>9, <2>1, <2>2, Zenon DEF IInv, LoseMemory
<1>10. ASSUME NEW n \in Node, Crash(n) PROVE IInv'
  BY <1>0, <1>9, <1>10, Zenon DEF IInv, Crash
<1>11. ASSUME NEW n \in Node, CrashWritingMined(n) PROVE IInv'
  <2>1. recv[n] \in Seq([block : ExactBlocks, at : Nat]) /\ recv[n] # <<>>
    BY <1>0, <1>11, Zenon DEF IInv, CrashWritingMined
  <2>2. recv[n][1].block \in ExactBlocks
    <3>1. recv[n][1] \in [block : ExactBlocks, at : Nat]
      BY <2>1, QueueFacts, Zenon
    <3> QED
      BY <3>1
  <2>3. known' \in [Node -> SUBSET ExactBlocks]
    BY <1>0, <1>11, <2>2 DEF IInv, CrashWritingMined
  <2> QED
    BY <1>9, <1>11, <2>3 DEF CrashWritingMined
<1>12. ASSUME NEW n \in Node, NEW b \in net, CrashInserting(n, b) PROVE IInv'
  <2>1. known' \in [Node -> SUBSET ExactBlocks]
    BY <1>0, <1>12 DEF IInv, CrashInserting
  <2> QED
    BY <1>9, <1>12, <2>1 DEF CrashInserting
<1> QED
  BY <1>1, <1>2, <1>3, <1>4, <1>5, <1>6, <1>7, <1>8, <1>10, <1>11, <1>12, <1>13 DEF Next

(* In every reachable state every block anywhere is exact. *)
THEOREM Inductive == Spec => []IInv
BY InitIInv, NextIInv, PTL DEF Spec

(* Every stored block's count trie counts exactly the blocks of its ancestry *)
(* per epoch and validator (updateMintCnt), for any nodes, intervals, clock  *)
(* lag and number of crashes.                                                *)
THEOREM MintCntExactAlways == Spec => []MintCntExact
<1>1. IInv => MintCntExact
  <2> SUFFICES ASSUME IInv, NEW b \in Blocks
               PROVE  LET cnt == HeaderOf(b).ctx.cnt
                      IN  /\ \A i \in 2 .. Len(b) : <<Epoch(b[i].time), b[i].validator>> \in DOMAIN cnt
                          /\ \A k \in DOMAIN cnt : cnt[k] = Cardinality(Minted(b, k))
    BY DEF MintCntExact
  <2>1. Exact(b)
    BY ExactBlock DEF IInv, Blocks
  <2> QED
    BY <2>1, Zenon DEF Exact, CountsMinted, Key
<1> QED
  BY <1>1, Inductive, PTL

(* Clean and InsertValidator keep the validator trie and the epoch list of   *)
(* every stored block in step, whatever SetValidator transactions it holds.  *)
THEOREM ListMatchesTrieAlways == Spec => []ListMatchesTrie
<1>1. IInv => ListMatchesTrie
  <2> SUFFICES ASSUME IInv, NEW b \in Blocks PROVE HeaderOf(b).ctx.trie = Listed(HeaderOf(b).ctx)
    BY DEF ListMatchesTrie
  <2>1. Exact(b)
    BY ExactBlock DEF IInv, Blocks
  <2> QED
    BY <2>1 DEF Exact
<1> QED
  BY <1>1, Inductive, PTL

-----------------------------------------------------------------------------
(* updateConfirmedBlockHeader. The times of a chain of headers never fall, so *)
(* neither do the epochs the loop compares.                                  *)
Timed(c) ==
    /\ Len(c) \in Nat
    /\ \A i \in 1 .. Len(c) : c[i].time \in Nat
    /\ \A i, j \in 1 .. Len(c) : i < j => c[i].time < c[j].time

(* The validators of the later headers of i's epoch: what validatorMap holds  *)
(* when the loop reaches header i.                                           *)
Later(c, i) ==
    {c[j].validator : j \in {x \in i + 1 .. Len(c) : ConfirmEpoch(c, x) = ConfirmEpoch(c, i)}}

(* Epochs never fall along a chain. *)
LEMMA ConfirmEpochMonotone ==
    ASSUME NEW c, Timed(c), Len(c) >= 2, NEW i \in 1 .. Len(c), NEW j \in 1 .. Len(c), i <= j
    PROVE  /\ ConfirmEpoch(c, i) \in Int /\ ConfirmEpoch(c, j) \in Int
           /\ ConfirmEpoch(c, i) <= ConfirmEpoch(c, j)
<1>1. /\ c[i].time \in Nat /\ c[j].time \in Nat /\ c[2].time \in Nat
      /\ c[i].time <= c[j].time
  BY DEF Timed
<1>2. /\ c[i].time - c[2].time \in Int /\ c[j].time - c[2].time \in Int
      /\ c[i].time - c[2].time <= c[j].time - c[2].time
  BY <1>1
<1> QED BY <1>2, DivMonotone, IntervalAssumption DEF ConfirmEpoch

(* How the map grows from header i + 1 to header i. *)
LEMMA LaterStep ==
    ASSUME NEW c, Timed(c), Len(c) >= 2, NEW i \in 1 .. Len(c)
    PROVE  Later(c, i) = IF i = Len(c) \/ ConfirmEpoch(c, i) # ConfirmEpoch(c, i + 1)
                         THEN {} ELSE Later(c, i + 1) \cup {c[i + 1].validator}
<1> DEFINE X(k) == {x \in k + 1 .. Len(c) : ConfirmEpoch(c, x) = ConfirmEpoch(c, k)}
<1>0. Len(c) \in Nat /\ i \in Nat
  BY DEF Timed
<1>1. CASE i = Len(c)
  <2>1. X(i) = {}
    BY <1>0, <1>1
  <2> QED BY <1>1, <2>1 DEF Later
<1>2. CASE i # Len(c) /\ ConfirmEpoch(c, i) # ConfirmEpoch(c, i + 1)
  <2>1. ASSUME NEW x \in i + 1 .. Len(c) PROVE ConfirmEpoch(c, x) # ConfirmEpoch(c, i)
    <3>1. i + 1 \in 1 .. Len(c) /\ x \in 1 .. Len(c) /\ i + 1 <= x /\ i <= i + 1
      BY <1>0, <1>2
    <3>2. /\ ConfirmEpoch(c, i) <= ConfirmEpoch(c, i + 1) /\ ConfirmEpoch(c, i + 1) <= ConfirmEpoch(c, x)
          /\ {ConfirmEpoch(c, i), ConfirmEpoch(c, i + 1), ConfirmEpoch(c, x)} \subseteq Int
      BY <3>1, ConfirmEpochMonotone
    <3> QED BY <1>2, <3>2
  <2>2. X(i) = {}
    BY <2>1
  <2> QED BY <1>2, <2>2 DEF Later
<1>3. CASE i # Len(c) /\ ConfirmEpoch(c, i) = ConfirmEpoch(c, i + 1)
  <2>1. X(i) = X(i + 1) \cup {i + 1}
    <3>1. i + 1 \in i + 1 .. Len(c)
      BY <1>0, <1>3
    <3>2. i + 1 .. Len(c) = (i + 1 + 1 .. Len(c)) \cup {i + 1}
      BY <1>0, <1>3
    <3> QED BY <1>3, <3>1, <3>2
  <2>2. Later(c, i) = {c[j].validator : j \in X(i)} /\ Later(c, i + 1) = {c[j].validator : j \in X(i + 1)}
    BY DEF Later
  <2> HIDE DEF X
  <2> QED BY <1>3, <2>1, <2>2
<1> QED BY <1>1, <1>2, <1>3

(* validatorMap, as the loop builds it from the last header down, holds the   *)
(* validators of the later headers of the epoch.                              *)
LEMMA ValidatorMapRight ==
    ASSUME NEW c, Timed(c), Len(c) >= 2, NEW k \in 1 .. Len(c)
    PROVE  \A i \in k .. Len(c) : ValidatorMap(c, k)[i] = Later(c, i)
<1> DEFINE E(i) == i = Len(c) \/ ConfirmEpoch(c, i) # ConfirmEpoch(c, i + 1)
           Rec(m) == [i \in k .. Len(c) |-> IF E(i) THEN {} ELSE m[i + 1] \cup {c[i + 1].validator}]
           g == [i \in k .. Len(c) |-> Later(c, i)]
           f == ValidatorMap(c, k)
           n == Len(c)
<1>0. n \in Nat /\ k \in Nat /\ k .. n \subseteq 1 .. n
  BY DEF Timed
<1>1. f = CHOOSE m : m = Rec(m)
  BY DEF ValidatorMap
<1>2. g = Rec(g)
  <2>1. ASSUME NEW i \in k .. n
        PROVE  Later(c, i) = IF E(i) THEN {} ELSE g[i + 1] \cup {c[i + 1].validator}
    <3>1. i \in 1 .. Len(c)
      BY <1>0
    <3>2. Later(c, i) = IF E(i) THEN {} ELSE Later(c, i + 1) \cup {c[i + 1].validator}
      BY <3>1, LaterStep
    <3>3. i # n => i + 1 \in k .. n
      BY <1>0
    <3> QED BY <3>2, <3>3, Zenon
  <2> QED BY <2>1
<1>3. f = Rec(f)
  <2> HIDE DEF g, f, Rec
  <2>1. \E m : m = Rec(m)
    BY <1>2
  <2> QED BY <1>1, <2>1
<1>4. \A i \in k .. n : f[i] = IF E(i) THEN {} ELSE f[i + 1] \cup {c[i + 1].validator}
  <2> HIDE DEF f
  <2>1. \A i \in k .. n : Rec(f)[i] = IF E(i) THEN {} ELSE f[i + 1] \cup {c[i + 1].validator}
    OBVIOUS
  <2> HIDE DEF Rec
  <2> QED BY <1>3, <2>1, Zenon
<1> HIDE DEF f, g, Rec
<1>5. \A i \in k .. n : Later(c, i) = IF E(i) THEN {} ELSE Later(c, i + 1) \cup {c[i + 1].validator}
  BY <1>0, LaterStep
<1> HIDE DEF E
<1> DEFINE T == {d \in Nat : n - d \in k .. n /\ f[n - d] # Later(c, n - d)}
<1>6. ASSUME T # {} PROVE FALSE
  <2>1. PICK d \in T : \A y \in T : d <= y
    BY <1>6, LeastNumber, Zenon
  <2>2. PICK i \in k .. n : i = n - d /\ f[i] # Later(c, i)
    BY <2>1
  <2>3. ~E(i) /\ f[i + 1] # Later(c, i + 1)
    BY <1>4, <1>5, <2>2, Zenon
  <2>4. i # n
    BY <2>3 DEF E
  <2>5. d - 1 \in Nat /\ n - (d - 1) = i + 1 /\ i + 1 \in k .. n
    BY <1>0, <2>1, <2>2, <2>4
  <2>6. d \in Nat /\ d - 1 \in T
    BY <2>1, <2>3, <2>5
  <2>7. d <= d - 1
    BY <2>1, <2>6, Zenon
  <2> HIDE DEF T
  <2> QED BY <2>6, <2>7
<1>7. ASSUME NEW i \in k .. n PROVE f[i] = Later(c, i)
  <2>1. n - i \in Nat /\ n - (n - i) = i
    BY <1>0
  <2> QED BY <1>6, <2>1, Zenon
<1> QED BY <1>7 DEF f

(* A header is backed by the map and by itself. *)
LEMMA BackingLater ==
    ASSUME NEW c, Timed(c), NEW i \in 1 .. Len(c)
    PROVE  Backing(c, i) = Later(c, i) \cup {c[i].validator}
<1>0. Len(c) \in Nat /\ i \in Nat
  BY DEF Timed
<1> DEFINE X == {x \in i + 1 .. Len(c) : ConfirmEpoch(c, x) = ConfirmEpoch(c, i)}
           Y == {x \in i .. Len(c) : ConfirmEpoch(c, x) = ConfirmEpoch(c, i)}
<1>1. i .. Len(c) = (i + 1 .. Len(c)) \cup {i}
  BY <1>0
<1>2. Y = X \cup {i}
  BY <1>1
<1>3. Backing(c, i) = {c[j].validator : j \in Y} /\ Later(c, i) = {c[j].validator : j \in X}
  BY DEF Backing, Later
<1> HIDE DEF X, Y
<1> QED BY <1>2, <1>3

(* The map is finite. *)
LEMMA LaterFinite ==
    ASSUME NEW c, Timed(c), NEW i \in 1 .. Len(c)
    PROVE  /\ IsFiniteSet(Later(c, i)) /\ Cardinality(Later(c, i)) \in Nat
           /\ IsFiniteSet(Backing(c, i)) /\ Cardinality(Backing(c, i)) \in Nat
<1> DEFINE R == {c[x].validator : x \in i .. Len(c)}
<1>0. Len(c) \in Nat /\ i \in Nat /\ i <= Len(c) + 1
  BY DEF Timed
<1>1. IsFiniteSet(R)
  BY <1>0, RangeBound, Zenon
<1>2. Later(c, i) \in SUBSET R /\ Backing(c, i) \in SUBSET R
  BY <1>0 DEF Later, Backing
<1> HIDE DEF R
<1>3. IsFiniteSet(Later(c, i)) /\ IsFiniteSet(Backing(c, i))
  BY <1>1, <1>2, FS_Subset
<1> QED BY <1>3, FS_CardinalityType

(* The fast return: what backs an earlier header j is in the map at i or the  *)
(* validator of one of the headers between.                                  *)
LEMMA BackingBound ==
    ASSUME NEW c, Timed(c), Len(c) >= 2, NEW i \in 1 .. Len(c), NEW j \in 1 .. i
    PROVE  Cardinality(Backing(c, j)) <= Cardinality(Later(c, i)) + (i - j + 1)
<1> DEFINE R == {c[x].validator : x \in j .. i}
           L == Later(c, i)
           B == Backing(c, j)
<1>0. Len(c) \in Nat /\ i \in Nat /\ j \in Nat /\ j <= i + 1 /\ j \in 1 .. Len(c) /\ j <= i
  BY DEF Timed
<1>1. IsFiniteSet(R) /\ Cardinality(R) <= i - j + 1 /\ Cardinality(R) \in Nat
  BY <1>0, RangeBound, Zenon
<1>2. IsFiniteSet(L) /\ Cardinality(L) \in Nat
  BY LaterFinite
<1>3. ASSUME NEW x \in j .. Len(c), ConfirmEpoch(c, x) = ConfirmEpoch(c, j)
      PROVE  c[x].validator \in L \cup R
  <2>1. CASE x <= i
    <3>1. x \in j .. i
      BY <1>0, <2>1
    <3> QED BY <3>1
  <2>2. CASE ~(x <= i)
    <3>1. x \in i + 1 .. Len(c) /\ x \in 1 .. Len(c) /\ i <= x
      BY <1>0, <2>2
    <3>2. /\ ConfirmEpoch(c, j) <= ConfirmEpoch(c, i) /\ ConfirmEpoch(c, i) <= ConfirmEpoch(c, x)
          /\ {ConfirmEpoch(c, j), ConfirmEpoch(c, i), ConfirmEpoch(c, x)} \subseteq Int
      BY <1>0, <3>1, ConfirmEpochMonotone
    <3>3. ConfirmEpoch(c, x) = ConfirmEpoch(c, i)
      BY <1>3, <3>2
    <3> QED BY <3>1, <3>3 DEF Later
  <2> QED BY <2>1, <2>2
<1>4. B \in SUBSET (L \cup R)
  BY <1>3 DEF Backing
<1> HIDE DEF R, L, B
<1>5. /\ IsFiniteSet(L \cup R)
      /\ Cardinality(L \cup R) = Cardinality(L) + Cardinality(R) - Cardinality(L \cap R)
  BY <1>1, <1>2, FS_Union, Zenon
<1>6. IsFiniteSet(L \cap R)
  BY <1>2, FS_Intersection
<1>7. Cardinality(L \cap R) \in Nat
  BY <1>6, FS_CardinalityType
<1>8. Cardinality(B) <= Cardinality(L \cup R) /\ IsFiniteSet(B)
  BY <1>4, <1>5, FS_Subset
<1>9. Cardinality(B) \in Nat
  BY <1>8, FS_CardinalityType
<1>10. Cardinality(B) <= Cardinality(L) + (i - j + 1)
  BY <1>0, <1>1, <1>2, <1>5, <1>7, <1>8, <1>9
<1> QED BY <1>10 DEF B, L

(* updateConfirmedBlockHeader confirms what the reference names. *)
LEMMA UpdateConfirmedRight ==
    ASSUME NEW c, Timed(c), NEW k \in 1 .. Len(c), NEW size \in Nat \ {0}
    PROVE  UpdateConfirmed(c, k, size) =
              IF Confirmable(c, k, size) = {} THEN k ELSE Max(Confirmable(c, k, size))
<1> DEFINE n == Len(c)
           C == Confirmable(c, k, size)
           m == ValidatorMap(c, k + 1)
           F(i) == i - k < size - Cardinality(m[i])
           R(i) == Cardinality(m[i] \cup {c[i].validator}) >= size
           D == {i \in k + 1 .. n : F(i) \/ R(i)}
<1>0. n \in Nat /\ k \in Nat /\ k <= n /\ 1 <= k
  BY DEF Timed
<1>1. UpdateConfirmed(c, k, size) =
        IF n <= k \/ n < 2 \/ D = {} THEN k ELSE IF F(Max(D)) THEN k ELSE Max(D)
  BY DEF UpdateConfirmed
<1>2. C \in SUBSET (0 .. n) /\ D \in SUBSET (0 .. n)
  BY <1>0, SMTT(30) DEF Confirmable
<1>3. CASE n <= k
  <2>1. C = {}
    BY <1>0, <1>3 DEF Confirmable
  <2> QED BY <1>1, <1>3, <2>1, Zenon
<1>4. CASE ~(n <= k)
  <2>1. n >= 2 /\ k + 1 \in 1 .. n
    BY <1>0, <1>4
  <2>2. \A i \in k + 1 .. n : m[i] = Later(c, i) /\ i \in 1 .. n
    BY <1>0, <2>1, ValidatorMapRight
  <2>3. \A i \in k + 1 .. n : R(i) <=> i \in C
    <3>1. \A i \in k + 1 .. n : m[i] \cup {c[i].validator} = Backing(c, i)
      BY <2>2, BackingLater
    <3> HIDE DEF m
    <3> QED BY <3>1, Zenon DEF Confirmable
  <2>4. ASSUME NEW i \in k + 1 .. n, F(i), NEW j \in k + 1 .. i PROVE j \notin C
    <3>1. i \in 1 .. n /\ j \in 1 .. i /\ j \in 1 .. n /\ i \in Nat /\ j \in Nat /\ j >= k + 1
      BY <1>0
    <3>2. /\ Cardinality(Backing(c, j)) <= Cardinality(Later(c, i)) + (i - j + 1)
          /\ Cardinality(Later(c, i)) \in Nat /\ Cardinality(Backing(c, j)) \in Nat
      BY <2>1, <3>1, BackingBound, LaterFinite
    <3>3. i - k < size - Cardinality(Later(c, i))
      BY <2>2, <2>4
    <3>4. ~(Cardinality(Backing(c, j)) >= size)
      BY <1>0, <3>1, <3>2, <3>3
    <3> QED BY <3>4 DEF Confirmable
  <2>5. C \subseteq k + 1 .. n
    BY DEF Confirmable
  <2>6. C \subseteq D
    BY <2>3, <2>5
  <2>7. CASE D = {}
    BY <1>1, <2>6, <2>7, Zenon
  <2>8. CASE D # {}
    <3> DEFINE x == Max(D)
    <3> HIDE DEF D, C, m, F, R
    <3>1. x \in D /\ \A y \in D : y <= x
      BY <1>0, <1>2, <2>8, MaxRight, Zenon
    <3>2. x \in k + 1 .. n /\ (F(x) \/ R(x))
      BY <3>1 DEF D
    <3>3. \A y \in C : y <= x
      BY <2>6, <3>1
    <3> HIDE DEF x
    <3>4. CASE F(x)
      <4>1. C = {}
        BY <1>0, <2>4, <2>5, <3>2, <3>3, <3>4
      <4> QED BY <1>1, <2>1, <2>8, <3>4, <4>1 DEF C, x
    <3>5. CASE ~F(x)
      <4>1. x \in C
        BY <2>3, <3>2, <3>5
      <4>2. Max(C) = x
        BY <1>0, <1>2, <3>3, <4>1, MaxUnique, Zenon
      <4>3. UpdateConfirmed(c, k, size) = x
        BY <1>0, <1>1, <1>4, <2>1, <2>8, <3>5 DEF x
      <4> QED BY <4>1, <4>2, <4>3, Zenon DEF C
    <3> QED BY <3>4, <3>5
  <2> QED BY <2>7, <2>8, Zenon
<1> QED BY <1>3, <1>4

(* Every block anywhere is a chain with increasing times. *)
LEMMA ExactTimed ==
    ASSUME NEW b, Exact(b)
    PROVE  Timed(b)
<1>1. b \in Seq(Header) /\ Len(b) \in Nat
  BY ExactFacts, Zenon
<1>2. ASSUME NEW i \in 1 .. Len(b) PROVE b[i].time \in Nat
  <2>1. b[i] \in Header
    BY <1>1
  <2> QED BY <2>1 DEF Header
<1> QED BY <1>1, <1>2, ExactTimes, Zenon DEF Timed

(* updateConfirmedBlockHeader, with its map that is emptied at the epoch      *)
(* boundaries and its fast return, confirms exactly the header that the       *)
(* reference names: the last one backed by enough distinct validators of its  *)
(* epoch. This holds for every chain a node stores, every header confirmed    *)
(* so far and every consensus size, for chains of any length.                 *)
THEOREM ConfirmsReferenceAlways == Spec => []ConfirmsReference
<1>1. IInv => ConfirmsReference
  <2> SUFFICES ASSUME IInv, NEW b \in Blocks, NEW k \in 1 .. Len(b),
                      NEW size \in 1 .. Cardinality(Node)
               PROVE  UpdateConfirmed(b, k, size) =
                         IF Confirmable(b, k, size) = {} THEN k ELSE Max(Confirmable(b, k, size))
    BY DEF ConfirmsReference
  <2>1. Timed(b)
    BY ExactBlock, ExactTimed DEF IInv, Blocks
  <2>2. size \in Nat \ {0}
    OBVIOUS
  <2> QED
    BY <2>1, <2>2, UpdateConfirmedRight, Zenon
<1> QED
  BY <1>1, Inductive, PTL
-----------------------------------------------------------------------------
(* One chain. Whose turn it is to extend a block: the founder's at genesis,   *)
(* afterwards the one validator its context lists.                            *)
Turn(h, n) == IF Len(h) = 1 THEN n \in Founders ELSE HeaderOf(h).ctx.validators = <<n>>

Sole(b) == Len(b) # 1 => \E m \in Node : HeaderOf(b).ctx.validators = <<m>>

(* The chain of a block began with a SetValidator transaction. *)
Opened(b) == b[2].tx # NoTx

Child(h, n, b) ==
    /\ Len(b) = Len(h) + 1 /\ Parent(b) = h /\ HeaderOf(b).validator = n
    /\ Opened(b) => Sole(b)

(* Ancestry, header by header. *)
LEMMA AncestorIff ==
    ASSUME NEW a \in Seq(Header), NEW b \in Seq(Header)
    PROVE  Ancestor(a, b) <=> Len(a) <= Len(b) /\ \A i \in 1 .. Len(a) : a[i] = b[i]
<1>0. Len(a) \in Nat /\ Len(b) \in Nat
  OBVIOUS
<1>1. ASSUME Len(a) <= Len(b)
      PROVE  a = SubSeq(b, 1, Len(a)) <=> \A i \in 1 .. Len(a) : a[i] = b[i]
  <2>1. Len(a) \in 0 .. Len(b)
    BY <1>0, <1>1
  <2>2. /\ SubSeq(b, 1, Len(a)) \in Seq(Header) /\ Len(SubSeq(b, 1, Len(a))) = Len(a)
        /\ \A j \in 1 .. Len(a) : SubSeq(b, 1, Len(a))[j] = b[j]
    BY <2>1, PrefixFacts, ZenonT(30)
  <2> DEFINE p == SubSeq(b, 1, Len(a))
  <2> HIDE DEF p
  <2>3. p \in Seq(Header) /\ Len(p) = Len(a) /\ \A j \in 1 .. Len(a) : p[j] = b[j]
    BY <2>2 DEF p
  <2>4. (\A i \in 1 .. Len(a) : a[i] = b[i]) => a = p
    BY <2>3, SeqEqual, ZenonT(30)
  <2>5. a = p => \A i \in 1 .. Len(a) : a[i] = b[i]
    BY <2>3
  <2> QED BY <2>4, <2>5 DEF p
<1> QED BY <1>1 DEF Ancestor

(* Ancestry is reflexive, transitive and, at the same height, equality. *)
LEMMA AncestorFacts ==
    ASSUME NEW a \in Seq(Header), NEW b \in Seq(Header), NEW c \in Seq(Header)
    PROVE  /\ Ancestor(a, a)
           /\ Ancestor(a, b) /\ Ancestor(b, c) => Ancestor(a, c)
           /\ Ancestor(a, b) /\ Len(b) <= Len(a) => a = b
<1>0. Len(a) \in Nat /\ Len(b) \in Nat /\ Len(c) \in Nat
  OBVIOUS
<1>1. Ancestor(a, a)
  BY <1>0, AncestorIff
<1>2. Ancestor(a, b) /\ Ancestor(b, c) => Ancestor(a, c)
  BY <1>0, AncestorIff
<1>3. ASSUME Ancestor(a, b), Len(b) <= Len(a) PROVE a = b
  <2>1. Len(a) <= Len(b) /\ \A i \in 1 .. Len(a) : a[i] = b[i]
    BY <1>3, AncestorIff
  <2>2. Len(a) = Len(b)
    BY <1>0, <1>3, <2>1
  <2> QED BY <2>1, <2>2, SeqEqual
<1> QED BY <1>1, <1>2, <1>3

(* The parent of a block is its ancestor, and of its ancestors. *)
LEMMA ParentFacts ==
    ASSUME NEW b \in Seq(Header), Len(b) >= 2
    PROVE  /\ Parent(b) \in Seq(Header) /\ Len(Parent(b)) = Len(b) - 1
           /\ \A j \in 1 .. Len(b) - 1 : Parent(b)[j] = b[j]
           /\ Ancestor(Parent(b), b)
           /\ \A i \in 1 .. Len(b) - 1 : SubSeq(b, 1, i) = SubSeq(Parent(b), 1, i)
<1>0. Len(b) \in Nat /\ Len(b) - 1 \in 0 .. Len(b)
  OBVIOUS
<1>1. /\ Parent(b) \in Seq(Header) /\ Len(Parent(b)) = Len(b) - 1
      /\ \A j \in 1 .. Len(b) - 1 : Parent(b)[j] = b[j]
  BY <1>0, PrefixFacts, ZenonT(30) DEF Parent
<1>2. Ancestor(Parent(b), b)
  BY <1>0, <1>1, AncestorIff
<1>3. ASSUME NEW i \in 1 .. Len(b) - 1 PROVE SubSeq(b, 1, i) = SubSeq(Parent(b), 1, i)
  <2> DEFINE x == SubSeq(b, 1, i)
             y == SubSeq(Parent(b), 1, i)
  <2>1. i \in 0 .. Len(b) /\ i \in 0 .. Len(Parent(b))
    BY <1>0, <1>1
  <2>2. x \in Seq(Header) /\ Len(x) = i /\ \A j \in 1 .. i : x[j] = b[j]
    BY <2>1, PrefixFacts, ZenonT(30)
  <2>3. y \in Seq(Header) /\ Len(y) = i /\ \A j \in 1 .. i : y[j] = Parent(b)[j]
    BY <1>1, <2>1, PrefixFacts, ZenonT(30)
  <2> HIDE DEF x, y
  <2>4. \A j \in 1 .. i : x[j] = y[j]
    BY <1>0, <1>1, <2>2, <2>3
  <2>5. x = y
    BY <2>2, <2>3, <2>4, SeqEqual, ZenonT(30)
  <2> QED BY <2>5 DEF x, y
<1> QED BY <1>1, <1>2, <1>3

(* The parent of a block built on p is p. *)
LEMMA ParentAppend ==
    ASSUME NEW p \in Seq(Header), Len(p) >= 1, NEW h \in Header
    PROVE  Parent(Append(p, h)) = p
<1>0. Len(p) \in Nat
  OBVIOUS
<1>1. PICK b : b = Append(p, h)
  BY Zenon
<1>2. b \in Seq(Header) /\ Len(b) = Len(p) + 1 /\ \A i \in 1 .. Len(p) : b[i] = p[i]
  BY <1>1, AppendFacts, ZenonT(30)
<1>3. Len(b) >= 2 /\ Len(b) - 1 = Len(p)
  BY <1>0, <1>2
<1>4. /\ Parent(b) \in Seq(Header) /\ Len(Parent(b)) = Len(b) - 1
      /\ \A j \in 1 .. Len(b) - 1 : Parent(b)[j] = b[j]
  BY <1>2, <1>3, ParentFacts, Zenon
<1>5. Parent(b) \in Seq(Header) /\ Len(Parent(b)) = Len(p)
  BY <1>3, <1>4, Zenon
<1>6. \A j \in 1 .. Len(p) : Parent(b)[j] = p[j]
  BY <1>2, <1>3, <1>4, Zenon
<1> QED BY <1>1, <1>5, <1>6, SeqEqual, Zenon

-----------------------------------------------------------------------------
(* Stores and announcements. A block executes on its parent as its header     *)
(* says, for a node whose head is that parent.                                *)
Executes(b) == ProcessBlock(Number(Parent(b)), b)

(* A store that has every block's ancestors. *)
Closed(K) == \A b \in K : \A i \in 1 .. Len(b) : SubSeq(b, 1, i) \in K

(* A block its minter may write: built on a stored one.                       *)
Ready(b, K) == Len(b) >= 2 /\ Parent(b) \in K /\ Executes(b)

KInv ==
    /\ \A b \in net : Executes(b)
    /\ \A n \in Node : head[n] \in known[n] /\ Closed(known[n])
    /\ \A n \in Node : mint[n].phase = "seal" => Ready(mint[n].block, known[n])
    /\ \A n \in Node : \A i \in 1 .. Len(recv[n]) : Ready(recv[n][i].block, known[n])

(* A child of a stored block may join the store. *)
LEMMA ClosedGrows ==
    ASSUME NEW K, Closed(K), NEW b \in Seq(Header), Len(b) >= 2, Parent(b) \in K
    PROVE  Closed(K \cup {b})
<1>0. Len(b) \in Nat
  OBVIOUS
<1>1. /\ Len(Parent(b)) = Len(b) - 1
      /\ \A i \in 1 .. Len(b) - 1 : SubSeq(b, 1, i) = SubSeq(Parent(b), 1, i)
  BY ParentFacts, Zenon
<1>2. ASSUME NEW i \in 1 .. Len(b) PROVE SubSeq(b, 1, i) \in K \cup {b}
  <2>1. CASE i = Len(b)
    <3>1. SubSeq(b, 1, Len(b)) = b
      OBVIOUS
    <3> QED BY <2>1, <3>1
  <2>2. CASE i # Len(b)
    <3>1. i \in 1 .. Len(b) - 1
      BY <1>0, <2>2
    <3>2. i \in 1 .. Len(Parent(b))
      BY <1>1, <3>1, Zenon
    <3>3. SubSeq(Parent(b), 1, i) \in K
      BY <3>2, Zenon DEF Closed
    <3> QED BY <1>1, <3>1, <3>3, Zenon
  <2> QED BY <2>1, <2>2
<1> QED BY <1>2, Zenon DEF Closed

(* What createNewWork builds on a stored head may be written. *)
LEMMA NewWorkReady ==
    ASSUME NEW p \in ExactBlocks, NEW K, p \in K, NEW t \in Nat, NEW n \in Node,
           NEW tx \in Tx \cup {NoTx},
           TxValid(HeaderOf(p).ctx, Stamp(p, t), Number(p), tx)
    PROVE  Ready(Extend(p, Stamp(p, t), n, tx), K)
<1>1. Exact(p) /\ p \in Seq(Header) /\ Len(p) \in Nat /\ Len(p) >= 1
  BY ExactBlock, ExactFacts, Zenon
<1>2. HeaderOf(p) \in Header
  BY <1>1, ExactFacts, Zenon
<1>3. HeaderOf(p).time \in Nat
  BY <1>2 DEF Header
<1>4. Stamp(p, t) \in Nat /\ HeaderOf(p).time < Stamp(p, t)
  BY <1>3 DEF Stamp
<1>5. PICK u \in Nat : u = Stamp(p, t) /\ HeaderOf(p).time < u
  BY <1>4, Zenon
<1>6. PICK h \in Header :
         /\ Extend(p, u, n, tx) = Append(p, h)
         /\ h.time = u /\ h.validator = n /\ h.tx = tx
         /\ h.ctx = FinalContext(p, u, n, tx)
         /\ h.ctx.validators = ApplyTx(HeaderOf(p).ctx, tx).validators
  <2>1. Formed(p, u, n, tx)
    BY <1>1, <1>5, ExtendForm, ZenonT(60)
  <2> QED BY <2>1, Zenon DEF Formed
<1>7. PICK b : b = Append(p, h)
  BY Zenon
<1>8. Len(b) = Len(p) + 1 /\ HeaderOf(b) = h
  BY <1>1, <1>7, AppendFacts, ZenonT(30)
<1>9. Parent(b) = p
  BY <1>1, <1>7, ParentAppend, ZenonT(30)
<1>10. Len(b) >= 2
  BY <1>1, <1>8
<1>11. ProcessBlock(Number(p), b)
  BY <1>5, <1>6, <1>8, <1>9, Zenon DEF ProcessBlock
<1> QED BY <1>5, <1>6, <1>7, <1>9, <1>10, <1>11, Zenon DEF Ready, Executes

(* A store that grows keeps what is ready to be written. *)
LEMMA ReadyGrows ==
    ASSUME NEW b, NEW K, NEW L, K \subseteq L, Ready(b, K)
    PROVE  Ready(b, L)
BY DEF Ready

(* A child of a stored block is written. *)
LEMMA StoreStep ==
    ASSUME IInv, KInv, NEW n \in Node, NEW b \in ExactBlocks, Len(b) >= 2, Parent(b) \in known[n],
           known' = [known EXCEPT ![n] = @ \cup {b}]
    PROVE  /\ \A m \in Node : Closed(known'[m]) /\ known[m] \subseteq known'[m]
           /\ b \in known'[n]
<1>1. known \in [Node -> SUBSET ExactBlocks] /\ \A m \in Node : Closed(known[m])
  BY Zenon DEF IInv, KInv
<1>2. b \in Seq(Header)
  BY DEF ExactBlocks
<1>3. Closed(known[n] \cup {b})
  BY <1>1, <1>2, ClosedGrows, Zenon
<1>4. known'[n] = known[n] \cup {b} /\ \A m \in Node : m # n => known'[m] = known[m]
  BY <1>1, Zenon
<1>5. ASSUME NEW m \in Node PROVE Closed(known'[m]) /\ known[m] \subseteq known'[m]
  <2>1. CASE m = n
    <3>1. known[n] \subseteq known[n] \cup {b}
      OBVIOUS
    <3> QED BY <1>3, <1>4, <2>1, <3>1, Zenon
  <2>2. CASE m # n
    BY <1>1, <1>4, <2>2, Zenon
  <2> QED BY <2>1, <2>2
<1>6. b \in known[n] \cup {b}
  OBVIOUS
<1> QED BY <1>4, <1>5, <1>6, Zenon

(* A step in which stores grow, one node's work and queue change, and only     *)
(* blocks that execute are announced.                                         *)
LEMMA KInvStep ==
    ASSUME KInv, NEW n \in Node,
           \A b \in net' : b \in net \/ Executes(b),
           \A m \in Node : /\ head'[m] \in known'[m] /\ Closed(known'[m])
                           /\ known[m] \subseteq known'[m],
           \A m \in Node : m # n => mint'[m] = mint[m] /\ recv'[m] = recv[m],
           mint'[n].phase = "seal" => Ready(mint'[n].block, known'[n]),
           \A i \in 1 .. Len(recv'[n]) : Ready(recv'[n][i].block, known'[n])
    PROVE  KInv'
<1>1. (\A b \in net : Executes(b))'
  BY Zenon DEF KInv, Executes, ProcessBlock, TxValid, FinalContext
<1>2. ASSUME NEW m \in Node
      PROVE  /\ mint'[m].phase = "seal" => Ready(mint'[m].block, known'[m])
             /\ \A i \in 1 .. Len(recv'[m]) : Ready(recv'[m][i].block, known'[m])
  <2>1. CASE m = n
    BY <2>1
  <2>2. CASE m # n
    <3>1. /\ mint[m].phase = "seal" => Ready(mint[m].block, known[m])
          /\ \A i \in 1 .. Len(recv[m]) : Ready(recv[m][i].block, known[m])
      BY Zenon DEF KInv
    <3>2. \A b : Ready(b, known[m]) => Ready(b, known'[m])
      BY ReadyGrows, Zenon
    <3>3. mint'[m] = mint[m] /\ recv'[m] = recv[m]
      BY <2>2
    <3> QED BY <3>1, <3>2, <3>3, Zenon
  <2> QED BY <2>1, <2>2
<1>3. \A m \in Node : head'[m] \in known'[m] /\ Closed(known'[m])
  OBVIOUS
<1> QED BY <1>1, <1>2, <1>3, Zenon DEF KInv, Ready, Executes, Closed, ProcessBlock, TxValid, FinalContext

(* At the start every store holds the genesis block. *)
LEMMA KInvInit == Init => KInv
<1> SUFFICES ASSUME Init PROVE KInv
  OBVIOUS
<1>1. Genesis \in Seq(Header) /\ Len(Genesis) = 1
  <2>1. Len(Genesis) = 1
    BY DEF Genesis
  <2> QED BY <2>1, GenesisExact, ExactFacts, Zenon
<1>2. \A i \in 1 .. Len(Genesis) : SubSeq(Genesis, 1, i) = Genesis
  <2>1. SubSeq(Genesis, 1, 1) = Genesis
    BY <1>1, AncestorFacts, ZenonT(30) DEF Ancestor
  <2>2. \A i \in 1 .. Len(Genesis) : i = 1
    BY <1>1
  <2> QED BY <2>1, <2>2, Zenon
<1>3. Closed({Genesis})
  BY <1>2 DEF Closed
<1>4. \A n \in Node : head[n] = Genesis /\ known[n] = {Genesis} /\ recv[n] = <<>>
  BY DEF Init
<1>5. \A n \in Node : mint[n].phase = "idle"
  BY DEF Init, Restarted, Idle
<1>6. 1 .. Len(<<>>) = {}
  OBVIOUS
<1>7. net = {}
  BY DEF Init
<1>8. \A n \in Node : head[n] \in known[n] /\ Closed(known[n])
  BY <1>3, <1>4, Zenon
<1>9. \A n \in Node : \A i \in 1 .. Len(recv[n]) : Ready(recv[n][i].block, known[n])
  BY <1>4, <1>6
<1>10. \A n \in Node : mint[n].phase # "seal"
  BY <1>5
<1> QED BY <1>7, <1>8, <1>9, <1>10, Zenon DEF KInv

(* A block that insertChain accepts is not a genesis block. *)
LEMMA ImportedChild ==
    ASSUME IInv, NEW n \in Node, NEW b \in net, VerifyHeader(n, b)
    PROVE  b \in ExactBlocks /\ Len(b) >= 2 /\ Parent(b) \in known[n]
<1>1. b \in ExactBlocks /\ Parent(b) \in known[n] /\ known[n] \subseteq ExactBlocks
  BY DEF IInv, VerifyHeader
<1>2. b \in Seq(Header) /\ Len(b) \in Nat /\ Len(b) >= 1
  BY <1>1, ExactBlock, ExactFacts, Zenon
<1>3. Len(Parent(b)) >= 1
  BY <1>1, ExactBlock, ExactFacts, Zenon
<1>4. ASSUME Len(b) = 1 PROVE FALSE
  <2>1. Len(b) - 1 \in 0 .. Len(b) /\ Len(b) - 1 = 0
    BY <1>4
  <2>2. Len(Parent(b)) = 0
    BY <1>2, <2>1, PrefixFacts, ZenonT(30) DEF Parent
  <2> QED BY <1>3, <2>2
<1>5. Len(b) # 1
  BY <1>4, Zenon
<1>6. Len(b) >= 2
  <2>1. \A k \in Nat : k >= 1 /\ k # 1 => k >= 2
    OBVIOUS
  <2> QED BY <1>2, <1>5, <2>1, Zenon
<1> QED BY <1>1, <1>6

(* No step stores a block without its ancestors, nor announces one that does   *)
(* not execute.                                                               *)
LEMMA KInvNext ==
    ASSUME IInv, KInv, [Next]_vars
    PROVE  KInv'
<1>0. /\ mint \in [Node -> MintStates] /\ head \in [Node -> ExactBlocks]
      /\ recv \in [Node -> Seq([block : ExactBlocks, at : Nat])]
      /\ net \in SUBSET ExactBlocks /\ now \in Nat
      /\ \A m \in Node : head[m] \in known[m] /\ Closed(known[m])
      /\ \A m \in Node : mint[m].phase = "seal" => Ready(mint[m].block, known[m])
      /\ \A m \in Node : \A i \in 1 .. Len(recv[m]) : Ready(recv[m][i].block, known[m])
  BY Zenon DEF IInv, KInv
<1>1. CASE UNCHANGED <<head, known, mint, recv, net>>
  BY <1>1, ZenonT(60) DEF KInv, Ready, Executes, Closed, ProcessBlock, TxValid, FinalContext
<1>2. ASSUME NEW n \in Node, NEW w, mint' = [mint EXCEPT ![n] = w],
             w.phase = "seal" => Ready(w.block, known[n]), UNCHANGED <<head, known, recv, net>>
      PROVE  KInv'
  <2>1. mint'[n] = w /\ \A m \in Node : m # n => mint'[m] = mint[m]
    BY <1>0, <1>2, Zenon
  <2>2. known' = known /\ head' = head /\ recv' = recv /\ net' = net
    BY <1>2
  <2>3. \A m \in Node : head'[m] \in known'[m] /\ Closed(known'[m]) /\ known[m] \subseteq known'[m]
    BY <1>0, <2>2
  <2> QED BY <1>0, <1>2, <2>1, <2>2, <2>3, KInvStep, Zenon
<1>3. ASSUME NEW n \in Node, MintCheck(n) PROVE KInv'
  <2>1. PICK w : w = [phase |-> "work", at |-> now, block |-> NoBlock]
    BY Zenon
  <2>2. w.phase # "seal"
    BY <2>1
  <2> QED BY <1>2, <1>3, <2>1, <2>2, Zenon DEF MintCheck
<1>4. ASSUME NEW n \in Node, CreateNewWork(n) PROVE KInv'
  <2>1. PICK tx \in Tx \cup {NoTx} :
           /\ TxValid(HeaderOf(head[n]).ctx, Stamp(head[n], now), Number(head[n]), tx)
           /\ mint' = [mint EXCEPT ![n] = [phase |-> "seal", at |-> now,
                        block |-> Extend(head[n], Stamp(head[n], now), n, tx)]]
    BY <1>4, NewWorkForm, Zenon
  <2>2. PICK b : b = Extend(head[n], Stamp(head[n], now), n, tx)
    BY Zenon
  <2>3. Ready(b, known[n])
    BY <1>0, <2>1, <2>2, NewWorkReady, Zenon
  <2>4. PICK w : w = [phase |-> "seal", at |-> now, block |-> b]
    BY Zenon
  <2>5. w.block = b /\ mint' = [mint EXCEPT ![n] = w]
    BY <2>1, <2>2, <2>4
  <2>6. UNCHANGED <<head, known, recv, net>>
    BY <1>4 DEF CreateNewWork
  <2> QED BY <1>2, <2>3, <2>5, <2>6, Zenon
<1>5. ASSUME NEW n \in Node, Seal(n) PROVE KInv'
  <2>1. PICK e : e = [block |-> mint[n].block, at |-> now]
    BY Zenon
  <2>2. /\ mint[n].phase = "seal" /\ mint' = [mint EXCEPT ![n] = Idle(now)]
        /\ recv' = [recv EXCEPT ![n] = Append(recv[n], e)]
        /\ UNCHANGED <<head, known, net>>
    BY <1>5, <2>1 DEF Seal
  <2>3. /\ mint'[n] = Idle(now) /\ recv'[n] = Append(recv[n], e)
        /\ \A m \in Node : m # n => mint'[m] = mint[m] /\ recv'[m] = recv[m]
    BY <1>0, <2>2
  <2>4. e.block = mint[n].block /\ e \in [block : ExactBlocks, at : Nat]
    BY <1>0, <2>1, <2>2 DEF IInv
  <2>5. ASSUME NEW i \in 1 .. Len(recv'[n]) PROVE Ready(recv'[n][i].block, known[n])
    <3>1. PICK q : q = recv[n]
      BY Zenon
    <3>2. q \in Seq([block : ExactBlocks, at : Nat]) /\ recv'[n] = Append(q, e)
      BY <1>0, <2>3, <3>1, Zenon
    <3>3. (i \in 1 .. Len(q) /\ recv'[n][i] = q[i]) \/ recv'[n][i] = e
      BY <2>4, <3>2
    <3> QED BY <1>0, <2>2, <2>4, <3>1, <3>3, Zenon
  <2>6. mint'[n].phase # "seal"
    BY <2>3, IdleFacts
  <2>7. \A m \in Node : head'[m] \in known'[m] /\ Closed(known'[m]) /\ known[m] \subseteq known'[m]
    BY <1>0, <2>2
  <2> QED BY <2>2, <2>3, <2>5, <2>6, <2>7, KInvStep, Zenon
<1>6. ASSUME NEW n \in Node, SealInterrupted(n) PROVE KInv'
  <2>1. Idle(now).phase # "seal"
    BY IdleFacts
  <2> QED BY <1>2, <1>6, <2>1, Zenon DEF SealInterrupted, TakeHeadEvent
<1>7. ASSUME NEW n \in Node, NEW b \in ExactBlocks, Len(b) >= 2, Parent(b) \in known[n],
             WriteBlockAndState(n, b)
      PROVE  /\ \A m \in Node : head'[m] \in known'[m] /\ Closed(known'[m])
             /\ \A m \in Node : known[m] \subseteq known'[m]
  <2>1. /\ \A m \in Node : Closed(known'[m]) /\ known[m] \subseteq known'[m]
        /\ b \in known'[n]
    BY <1>7, StoreStep, Zenon DEF WriteBlockAndState
  <2>2. PICK h \in NewHead(head[n], b) : head' = [head EXCEPT ![n] = h]
    BY <1>7, Zenon DEF WriteBlockAndState
  <2>3. h = b \/ h = head[n]
    BY <2>2 DEF NewHead
  <2>4. head'[n] = h /\ \A m \in Node : m # n => head'[m] = head[m]
    BY <1>0, <2>2, Zenon
  <2>5. \A m \in Node : head[m] \in known'[m]
    BY <1>0, <2>1
  <2> QED BY <2>1, <2>3, <2>4, <2>5, Zenon
<1>8. ASSUME NEW n \in Node, recv[n] # <<>>
      PROVE  /\ 1 \in 1 .. Len(recv[n]) /\ recv[n][1].block \in ExactBlocks
             /\ Ready(recv[n][1].block, known[n])
  <2>1. PICK q \in Seq([block : ExactBlocks, at : Nat]) : q = recv[n]
    BY <1>0, Zenon
  <2>2. 1 \in 1 .. Len(q) /\ q[1] \in [block : ExactBlocks, at : Nat]
    <3>1. q # <<>>
      BY <1>8, <2>1, Zenon
    <3>2. ASSUME NEW S, NEW r \in Seq(S), r # <<>> PROVE 1 \in 1 .. Len(r) /\ r[1] \in S
      BY <3>2
    <3> QED BY <3>1, <3>2, Zenon
  <2>3. q[1].block \in ExactBlocks
    BY <2>2
  <2> QED BY <1>0, <2>1, <2>2, <2>3, Zenon
<1>9. ASSUME NEW n \in Node, WriteMined(n) PROVE KInv'
  <2>1. PICK b : b = recv[n][1].block
    BY Zenon
  <2>2. /\ recv[n] # <<>> /\ WriteBlockAndState(n, b) /\ net' = net \cup {b}
        /\ recv' = [recv EXCEPT ![n] = Tail(recv[n])] /\ mint' = mint
    BY <1>9, <2>1 DEF WriteMined
  <2>3. b \in ExactBlocks /\ Ready(b, known[n])
    BY <1>8, <2>1, <2>2, Zenon
  <2>4. Len(b) >= 2 /\ Parent(b) \in known[n] /\ Executes(b)
    BY <2>3, Zenon DEF Ready
  <2>5. /\ \A m \in Node : head'[m] \in known'[m] /\ Closed(known'[m])
        /\ \A m \in Node : known[m] \subseteq known'[m]
    BY <1>7, <2>2, <2>3, <2>4, Zenon
  <2>6. /\ recv'[n] = Tail(recv[n])
        /\ \A m \in Node : m # n => recv'[m] = recv[m]
    BY <1>0, <2>2, Zenon
  <2>7. ASSUME NEW i \in 1 .. Len(recv'[n]) PROVE Ready(recv'[n][i].block, known'[n])
    <3>1. PICK q \in Seq([block : ExactBlocks, at : Nat]) : q = recv[n]
      BY <1>0, Zenon
    <3>2. i \in 1 .. Len(Tail(q)) /\ q # <<>>
      BY <2>2, <2>6, <3>1, Zenon
    <3>3. i + 1 \in 1 .. Len(q) /\ Tail(q)[i] = q[i + 1]
      BY <3>2
    <3>4. Ready(recv'[n][i].block, known[n])
      BY <1>0, <2>6, <3>1, <3>3, Zenon
    <3> QED BY <2>5, <3>4, ReadyGrows, Zenon
  <2>8. mint'[n].phase = "seal" => Ready(mint'[n].block, known'[n])
    BY <1>0, <2>2, <2>5, ReadyGrows, Zenon
  <2>9. \A c \in net' : c \in net \/ Executes(c)
    BY <2>2, <2>4
  <2> QED BY <2>2, <2>5, <2>6, <2>7, <2>8, <2>9, KInvStep, Zenon
<1>10. ASSUME NEW n \in Node, NEW b \in net, InsertBlock(n, b) PROVE KInv'
  <2>1. /\ VerifyHeader(n, b) /\ WriteBlockAndState(n, b)
        /\ mint' = mint /\ recv' = recv /\ net' = net
    BY <1>10, Zenon DEF InsertBlock
  <2>2. b \in ExactBlocks /\ Len(b) >= 2 /\ Parent(b) \in known[n]
    BY <2>1, ImportedChild, Zenon
  <2>3. /\ \A m \in Node : head'[m] \in known'[m] /\ Closed(known'[m])
        /\ \A m \in Node : known[m] \subseteq known'[m]
    BY <1>7, <2>1, <2>2, Zenon
  <2>4. /\ mint'[n].phase = "seal" => Ready(mint'[n].block, known'[n])
        /\ \A i \in 1 .. Len(recv'[n]) : Ready(recv'[n][i].block, known'[n])
    BY <1>0, <2>1, <2>3, ReadyGrows, Zenon
  <2> QED BY <2>1, <2>3, <2>4, KInvStep, Zenon
<1>11. ASSUME NEW n \in Node, LoseMemory(n),
              \A m \in Node : Closed(known'[m]) /\ known[m] \subseteq known'[m]
       PROVE  KInv'
  <2>1. /\ mint' = [mint EXCEPT ![n] = Restarted] /\ recv' = [recv EXCEPT ![n] = <<>>]
        /\ head' = head /\ net' = net
    BY <1>11 DEF LoseMemory
  <2>2. /\ mint'[n] = Restarted /\ recv'[n] = <<>>
        /\ \A m \in Node : m # n => mint'[m] = mint[m] /\ recv'[m] = recv[m]
    BY <1>0, <2>1, Zenon
  <2>3. mint'[n].phase # "seal"
    BY <2>2, IdleFacts DEF Restarted
  <2>4. \A m \in Node : head'[m] \in known'[m] /\ Closed(known'[m]) /\ known[m] \subseteq known'[m]
    BY <1>0, <1>11, <2>1
  <2>5. 1 .. Len(<<>>) = {}
    OBVIOUS
  <2>6. \A i \in 1 .. Len(recv'[n]) : Ready(recv'[n][i].block, known'[n])
    BY <2>2, <2>5
  <2> QED BY <2>1, <2>2, <2>3, <2>4, <2>6, KInvStep, Zenon
<1>12. ASSUME NEW n \in Node, Crash(n) PROVE KInv'
  <2>1. \A m \in Node : Closed(known'[m]) /\ known[m] \subseteq known'[m]
    BY <1>0, <1>12 DEF Crash
  <2> QED BY <1>11, <1>12, <2>1, Zenon DEF Crash
<1>13. ASSUME NEW n \in Node, CrashWritingMined(n) PROVE KInv'
  <2>1. PICK b : b = recv[n][1].block
    BY Zenon
  <2>2. recv[n] # <<>> /\ known' = [known EXCEPT ![n] = @ \cup {b}] /\ LoseMemory(n)
    BY <1>13, <2>1, Zenon DEF CrashWritingMined
  <2>3. b \in ExactBlocks /\ Len(b) >= 2 /\ Parent(b) \in known[n]
    BY <1>8, <2>1, <2>2, Zenon DEF Ready
  <2>4. \A m \in Node : Closed(known'[m]) /\ known[m] \subseteq known'[m]
    BY <2>2, <2>3, StoreStep, Zenon
  <2> QED BY <1>11, <2>2, <2>4, Zenon
<1>14. ASSUME NEW n \in Node, NEW b \in net, CrashInserting(n, b) PROVE KInv'
  <2>1. VerifyHeader(n, b) /\ known' = [known EXCEPT ![n] = @ \cup {b}] /\ LoseMemory(n)
    BY <1>14, Zenon DEF CrashInserting
  <2>2. b \in ExactBlocks /\ Len(b) >= 2 /\ Parent(b) \in known[n]
    BY <2>1, ImportedChild, Zenon
  <2>3. \A m \in Node : Closed(known'[m]) /\ known[m] \subseteq known'[m]
    BY <2>1, <2>2, StoreStep, Zenon
  <2> QED BY <1>11, <2>1, <2>3, Zenon
<1>15. ASSUME Tick \/ \E n \in Node : EventIgnored(n) PROVE KInv'
  <2>1. UNCHANGED <<head, known, mint, recv, net>>
    BY <1>15 DEF Tick, EventIgnored, TakeHeadEvent
  <2> QED BY <1>1, <2>1
<1>16. CASE UNCHANGED vars
  <2>1. UNCHANGED <<head, known, mint, recv, net>>
    BY <1>16 DEF vars
  <2> QED BY <1>1, <2>1
<1>17. CASE Next
  BY <1>3, <1>4, <1>5, <1>6, <1>9, <1>10, <1>12, <1>13, <1>14, <1>15, <1>17, Zenon DEF Next
<1> QED BY <1>16, <1>17

(* Every reachable state has such stores. *)
THEOREM KInvAlways == Spec => []KInv
<1>1. Init => KInv
  BY KInvInit
<1>2. IInv /\ KInv /\ [Next]_vars => KInv'
  BY KInvNext
<1> QED BY <1>1, <1>2, Inductive, PTL DEF Spec

-----------------------------------------------------------------------------
(* How the nodes are run: the chain is started by one founder, and no node    *)
(* takes a whole slot to write a block.                                       *)
Orderly ==
    /\ \A m, n \in Founders : m = n
    /\ MaxLag < ProducerInterval

(* The announced blocks are one chain, with every block's ancestry, and each  *)
(* after genesis lists one validator.                                         *)
All(N) == N \cup {Genesis}

Chained(N) ==
    /\ \A a, b \in All(N) : Ancestor(a, b) \/ Ancestor(b, a)
    /\ \A b \in All(N) : Sole(b)
    /\ \A b \in All(N) : \A i \in 1 .. Len(b) : SubSeq(b, 1, i) \in All(N)

(* A block was minted by the node whose turn it was, which is on it or beyond. *)
Holders(N, hd) ==
    \A b \in N : /\ Len(b) # 1
                 /\ Turn(Parent(b), HeaderOf(b).validator)
                 /\ Len(hd[HeaderOf(b).validator]) >= Len(b)

(* A node at work has the turn on its head; it has one block on the way, a     *)
(* child of its head, and a sealed one is written before the next slot.        *)
Working(n, h, m, q, t) ==
    /\ m.phase # "idle" => q = <<>> /\ Turn(h, n)
    /\ m.phase = "seal" => Child(h, n, m.block)
    /\ q # <<>> => /\ Len(q) = 1 /\ Turn(h, n) /\ Child(h, n, q[1].block)
                   /\ Slot(q[1].at) /\ m.at = q[1].at /\ t <= q[1].at + MaxLag

CInv ==
    /\ now >= GenesisTime
    /\ Chained(net)
    /\ Holders(net, head)
    /\ \A n \in Node : head[n] \in All(net) /\ head[n] \in known[n]
    /\ \A n \in Node : Working(n, head[n], mint[n], recv[n], now)

(* The blocks of the chain are sequences of headers. *)
LEMMA AllExact ==
    ASSUME NEW N \in SUBSET ExactBlocks, NEW b \in All(N)
    PROVE  /\ Exact(b) /\ b \in Seq(Header) /\ Len(b) \in Nat /\ Len(b) >= 1
           /\ Len(b) # 1 => b \in N
<1>1. Exact(b)
  BY GenesisExact, ExactBlock DEF All
<1>2. Len(Genesis) = 1
  BY DEF Genesis
<1> QED BY <1>1, <1>2, ExactFacts, Zenon DEF All

(* The turn is one node's. *)
LEMMA TurnOnce ==
    ASSUME Orderly, NEW h, NEW m, NEW n, Turn(h, m), Turn(h, n)
    PROVE  m = n
<1>1. CASE Len(h) = 1
  BY <1>1 DEF Turn, Orderly
<1>2. CASE Len(h) # 1
  <2>1. <<m>> = <<n>>
    BY <1>2 DEF Turn
  <2> QED BY <2>1
<1> QED BY <1>1, <1>2

(* A node that has the turn on its head is at the end of the chain: had the    *)
(* head been extended, this node would have done it and moved on.              *)
LEMMA HolderAtEnd ==
    ASSUME Orderly, NEW N \in SUBSET ExactBlocks, NEW hd, Chained(N), Holders(N, hd),
           NEW n, hd[n] \in All(N), Turn(hd[n], n), NEW b \in All(N)
    PROVE  Ancestor(b, hd[n])
<1> DEFINE h == hd[n]
<1>1. /\ h \in Seq(Header) /\ Len(h) \in Nat /\ Len(h) >= 1
      /\ b \in Seq(Header) /\ Len(b) \in Nat
  BY AllExact, ZenonT(30)
<1>2. Ancestor(b, h) \/ Ancestor(h, b)
  BY DEF Chained
<1>3. CASE Ancestor(h, b) /\ Len(b) <= Len(h)
  <2>1. h = b
    BY <1>1, <1>3, AncestorFacts, ZenonT(30)
  <2> QED BY <1>1, <2>1, AncestorFacts
<1>4. CASE Ancestor(h, b) /\ ~(Len(b) <= Len(h))
  <2> DEFINE x == SubSeq(b, 1, Len(h) + 1)
  <2>1. Len(h) + 1 \in 0 .. Len(b) /\ Len(h) + 1 \in 1 .. Len(b)
    BY <1>1, <1>4
  <2>2. /\ x \in Seq(Header) /\ Len(x) = Len(h) + 1
        /\ \A j \in 1 .. Len(h) + 1 : x[j] = b[j]
    BY <1>1, <2>1, PrefixFacts, ZenonT(30)
  <2>3. x \in All(N)
    BY <2>1 DEF Chained
  <2> HIDE DEF x
  <2>4. x \in N
    BY <1>1, <2>2, <2>3, AllExact
  <2>5. Parent(x) = h
    <3>1. /\ Parent(x) \in Seq(Header) /\ Len(Parent(x)) = Len(h)
          /\ \A j \in 1 .. Len(h) : Parent(x)[j] = x[j]
      <4>1. Len(x) >= 2 /\ Len(x) - 1 = Len(h)
        BY <1>1, <2>2, SMTT(30)
      <4>2. /\ Parent(x) \in Seq(Header) /\ Len(Parent(x)) = Len(x) - 1
            /\ \A j \in 1 .. Len(x) - 1 : Parent(x)[j] = x[j]
        BY <2>2, <4>1, ParentFacts, Zenon
      <4> QED BY <4>1, <4>2, Zenon
    <3>2. \A j \in 1 .. Len(h) : h[j] = b[j]
      BY <1>1, <1>4, AncestorIff, Zenon
    <3>3. \A k \in Nat : \A j \in 1 .. k : j \in 1 .. k + 1
      OBVIOUS
    <3> HIDE DEF h
    <3>4. \A j \in 1 .. Len(h) : Parent(x)[j] = h[j]
      BY <1>1, <2>2, <3>1, <3>2, <3>3, Zenon
    <3> QED BY <1>1, <3>1, <3>4, SeqEqual, Zenon
  <2>6. Turn(h, HeaderOf(x).validator) /\ Len(hd[HeaderOf(x).validator]) >= Len(x)
    BY <2>4, <2>5 DEF Holders
  <2>7. HeaderOf(x).validator = n
    BY <2>6, TurnOnce
  <2>8. \A k \in Nat : ~(k >= k + 1)
    OBVIOUS
  <2> QED BY <1>1, <2>2, <2>6, <2>7, <2>8, Zenon
<1> QED BY <1>2, <1>3, <1>4

(* A child of the chain's end continues the chain. *)
LEMMA ChainGrows ==
    ASSUME NEW N \in SUBSET ExactBlocks, Chained(N), NEW h \in All(N),
           \A a \in All(N) : Ancestor(a, h), NEW n, NEW b \in ExactBlocks, Child(h, n, b),
           Opened(b)
    PROVE  Chained(N \cup {b})
<1>1. /\ b \in Seq(Header) /\ h \in Seq(Header) /\ Len(h) \in Nat /\ Len(h) >= 1
      /\ Len(b) = Len(h) + 1 /\ Parent(b) = h /\ Sole(b)
  BY AllExact, ExactBlock, ExactFacts, Zenon DEF Child
<1>2. All(N \cup {b}) = All(N) \cup {b}
  BY DEF All
<1>3. Ancestor(h, b) /\ Ancestor(b, b)
  <2>1. Len(b) >= 2
    BY <1>1, SMTT(30)
  <2>2. Ancestor(Parent(b), b)
    BY <1>1, <2>1, ParentFacts, Zenon
  <2> QED BY <1>1, <2>2, AncestorFacts, Zenon
<1>4. \A a \in All(N) : Ancestor(a, b)
  BY <1>1, <1>3, AllExact, AncestorFacts, ZenonT(30)
<1>5. ASSUME NEW i \in 1 .. Len(b) PROVE SubSeq(b, 1, i) \in All(N) \cup {b}
  <2>1. CASE i = Len(b)
    <3>1. SubSeq(b, 1, Len(b)) = b
      BY <1>3 DEF Ancestor
    <3> QED BY <2>1, <3>1
  <2>2. CASE i # Len(b)
    <3>1. i \in 1 .. Len(h) /\ i \in 1 .. Len(b) - 1
      BY <1>1, <2>2
    <3>2. SubSeq(b, 1, i) = SubSeq(h, 1, i)
      <4>1. Len(b) >= 2
        BY <1>1, SMTT(30)
      <4>2. SubSeq(b, 1, i) = SubSeq(Parent(b), 1, i)
        BY <1>1, <3>1, <4>1, ParentFacts, Zenon
      <4> QED BY <1>1, <4>2, Zenon
    <3> QED BY <3>1, <3>2, Zenon DEF Chained
  <2> QED BY <2>1, <2>2
<1> QED BY <1>1, <1>2, <1>3, <1>4, <1>5, Zenon DEF Chained

(* What createNewWork assembles is a child of the head; if the first block    *)
(* carries a SetValidator transaction, it lists one validator.                *)
LEMMA StampChild ==
    ASSUME NEW p \in ExactBlocks, Sole(p), NEW t \in Nat, NEW n \in Node,
           NEW tx \in Tx \cup {NoTx}
    PROVE  Child(p, n, Extend(p, Stamp(p, t), n, tx))
<1>1. Exact(p) /\ p \in Seq(Header) /\ Len(p) \in Nat /\ Len(p) >= 1
  BY ExactBlock, ExactFacts, Zenon
<1>2. HeaderOf(p) \in Header
  BY <1>1, ExactFacts, Zenon
<1>3. HeaderOf(p).time \in Nat /\ HeaderOf(p).ctx \in Context
  BY <1>2 DEF Header
<1>4. Stamp(p, t) \in Nat /\ HeaderOf(p).time < Stamp(p, t)
  BY <1>3 DEF Stamp
<1>4a. PICK u \in Nat : u = Stamp(p, t) /\ HeaderOf(p).time < u
  BY <1>4, Zenon
<1>5. PICK h \in Header :
         /\ Extend(p, u, n, tx) = Append(p, h)
         /\ h.time = u /\ h.validator = n /\ h.tx = tx
         /\ h.ctx = FinalContext(p, u, n, tx)
         /\ h.ctx.validators = ApplyTx(HeaderOf(p).ctx, tx).validators
  <2>1. Formed(p, u, n, tx)
    BY <1>1, <1>4a, ExtendForm, ZenonT(60)
  <2> QED BY <2>1, Zenon DEF Formed
<1>6. /\ Append(p, h) \in Seq(Header) /\ Len(Append(p, h)) = Len(p) + 1
      /\ HeaderOf(Append(p, h)) = h /\ Append(p, h)[Len(p) + 1] = h
  <2>1. p \in Seq(Header)
    BY <1>1, Zenon
  <2> QED BY <2>1, AppendFacts, Zenon
<1> DEFINE b == Append(p, h)
<1> HIDE DEF b
<1>7. Parent(b) = p
  BY <1>1, <1>5, ParentAppend, ZenonT(30) DEF b
<1>8. Opened(b) => \E m \in Node : h.ctx.validators = <<m>>
  <2>1. HeaderOf(p).ctx.trie = Listed(HeaderOf(p).ctx)
    BY <1>1, ExactFacts, Zenon
  <2>2. /\ tx = NoTx => h.ctx.validators = HeaderOf(p).ctx.validators
        /\ tx # NoTx => \E m \in Node : h.ctx.validators = <<m>>
    <3>1. /\ tx = NoTx => ApplyTx(HeaderOf(p).ctx, tx).validators = HeaderOf(p).ctx.validators
          /\ tx # NoTx => \E m \in Node : ApplyTx(HeaderOf(p).ctx, tx).validators = <<m>>
      BY <1>3, <2>1, ApplyTxFacts, Zenon
    <3> QED BY <1>5, <3>1, Zenon
  <2>3. CASE Len(p) = 1
    <3>1. b[2] = h
      BY <1>6, <2>3 DEF b
    <3> QED BY <1>5, <2>2, <3>1 DEF Opened
  <2>4. CASE Len(p) # 1
    BY <2>2, <2>4 DEF Sole
  <2> QED BY <2>3, <2>4
<1> QED BY <1>4a, <1>5, <1>6, <1>7, <1>8, Zenon DEF Child, Sole, b

-----------------------------------------------------------------------------
(* At the start every node is on the genesis block and nothing is on the way. *)
LEMMA CInvInit == Init => CInv
<1> SUFFICES ASSUME Init PROVE CInv
  OBVIOUS
<1>1. Genesis \in Seq(Header) /\ Len(Genesis) = 1
  <2>1. Len(Genesis) = 1
    BY DEF Genesis
  <2> QED BY <2>1, GenesisExact, ExactFacts, Zenon
<1>2. Ancestor(Genesis, Genesis)
  BY <1>1, AncestorFacts, ZenonT(30)
<1>3. SubSeq(Genesis, 1, 1) = Genesis
  BY <1>1, <1>2 DEF Ancestor
<1>4. All({}) = {Genesis}
  BY DEF All
<1>5. Chained({})
  <2>1. \A i \in 1 .. Len(Genesis) : SubSeq(Genesis, 1, i) = Genesis
    <3>1. \A i \in 1 .. Len(Genesis) : i = 1
      BY <1>1
    <3> QED BY <1>3, <3>1, Zenon
  <2>2. Sole(Genesis)
    BY <1>1 DEF Sole
  <2>3. \A b : b \in All({}) <=> b = Genesis
    BY <1>4
  <2> QED BY <1>2, <2>1, <2>2, <2>3, Zenon DEF Chained
<1>6. Restarted.phase = "idle"
  BY DEF Restarted, Idle
<1>7. now >= GenesisTime
  BY TimeAssumption DEF Init
<1>8. net = {} /\ Holders(net, head)
  BY DEF Init, Holders
<1>9. \A n \in Node : head[n] \in All(net) /\ head[n] \in known[n]
  BY <1>4 DEF Init
<1>10. \A n \in Node : mint[n].phase = "idle" /\ recv[n] = <<>>
  BY <1>6 DEF Init
<1>11. \A n \in Node : Working(n, head[n], mint[n], recv[n], now)
  BY <1>10 DEF Working
<1> QED BY <1>5, <1>7, <1>8, <1>9, <1>11, Zenon DEF CInv

(* A step of one node that leaves the clock, the heads and the network alone. *)
LEMMA LocalStep ==
    ASSUME CInv, NEW n \in Node, UNCHANGED <<now, net, head>>,
           \A m \in Node : known[m] \subseteq known'[m],
           \A m \in Node : m # n => mint'[m] = mint[m] /\ recv'[m] = recv[m],
           Working(n, head[n], mint'[n], recv'[n], now)
    PROVE  CInv'
<1>1. now' >= GenesisTime /\ Chained(net)' /\ Holders(net, head)'
  BY Zenon DEF CInv, Chained, Holders, All
<1>2. \A m \in Node : head'[m] \in All(net') /\ head'[m] \in known'[m]
  BY DEF CInv
<1>3. \A m \in Node : Working(m, head'[m], mint'[m], recv'[m], now')
  <2>1. \A m \in Node : Working(m, head[m], mint[m], recv[m], now)
    BY Zenon DEF CInv
  <2>2. ASSUME NEW m \in Node, m # n PROVE Working(m, head[m], mint'[m], recv'[m], now)
    BY <2>1, <2>2
  <2>3. now' = now /\ head' = head
    OBVIOUS
  <2> QED BY <2>2, <2>3, Zenon
<1> QED BY <1>1, <1>2, <1>3, Zenon DEF CInv

(* The steps of one node's mint loop. A node that passes the checks of        *)
(* mintBlock has the turn; a block it sealed before is written by now, for    *)
(* both are on a slot.                                                        *)
LEMMA MintCheckStep ==
    ASSUME Orderly, IInv, CInv, NEW n \in Node, MintCheck(n)
    PROVE  CInv'
<1> DEFINE h == head[n]
           w == [phase |-> "work", at |-> now, block |-> NoBlock]
<1>1. /\ now \in Nat /\ h \in ExactBlocks /\ h \in All(net) /\ net \in SUBSET ExactBlocks
      /\ mint[n] \in MintStates /\ mint \in [Node -> MintStates]
      /\ recv[n] \in Seq([block : ExactBlocks, at : Nat])
      /\ now >= GenesisTime /\ Sole(h)
      /\ Working(n, h, mint[n], recv[n], now)
  BY Zenon DEF IInv, CInv, Chained
<1>2. /\ Len(h) \in Nat /\ Len(h) >= 1 /\ Exact(h)
  BY <1>1, AllExact, Zenon
<1>3. Turn(h, n)
  <2>1. CASE Len(h) = 1
    <3>1. n \in Founders
      BY <2>1 DEF MintCheck, Number
    <3> QED BY <2>1, <3>1 DEF Turn
  <2>2. CASE Len(h) # 1
    <3>1. PICK m \in Node : HeaderOf(h).ctx.validators = <<m>>
      BY <1>1, <2>2, Zenon DEF Sole
    <3>2. Len(HeaderOf(h).ctx.validators) > 0
      BY <3>1
    <3>3. GetProducer(HeaderOf(h).ctx, now, GenesisTime) = n
      BY <3>2 DEF MintCheck, CheckProducer
    <3>4. GetProducer(HeaderOf(h).ctx, now, GenesisTime) \in {ErrInvalidProducerTime, m}
      BY <1>1, <3>1, TimeAssumption, SoleProducer, Zenon
    <3>5. m = n
      BY <3>3, <3>4, ErrorAssumption
    <3> QED BY <2>2, <3>1, <3>5 DEF Turn
  <2> QED BY <2>1, <2>2
<1>4. recv[n] = <<>>
  <2>1. SUFFICES ASSUME recv[n] # <<>> PROVE FALSE
    OBVIOUS
  <2>2. PICK t \in Nat : t = recv[n][1].at
    <3>1. recv[n][1] \in [block : ExactBlocks, at : Nat]
      BY <1>1, <2>1, QueueFacts, Zenon
    <3> QED BY <3>1
  <2>3. Slot(t) /\ mint[n].at = t /\ now <= t + MaxLag
    BY <1>1, <2>1, <2>2, Zenon DEF Working
  <2>4. Slot(now)
    BY <1>1, SlotTests, Zenon DEF MintCheck, CheckDeadline
  <2>5. t < now
    BY <2>3 DEF MintCheck
  <2>6. t + ProducerInterval <= now
    BY <1>1, <2>3, <2>4, <2>5, SlotFacts, Zenon
  <2>7. ProducerInterval \in Nat /\ MaxLag \in Nat /\ MaxLag < ProducerInterval
    BY IntervalAssumption, TimeAssumption DEF Orderly
  <2>8. now \in Nat
    BY <1>1
  <2>9. now <= t + MaxLag
    BY <2>3
  <2> QED BY <2>6, <2>7, <2>8, <2>9
<1>5. mint' = [mint EXCEPT ![n] = w] /\ UNCHANGED <<now, head, known, recv, net>>
  BY DEF MintCheck
<1>6. mint'[n] = w /\ \A m \in Node : m # n => mint'[m] = mint[m]
  BY <1>1, <1>5, Zenon
<1>7. w.phase = "work"
  OBVIOUS
<1>8. Working(n, h, mint'[n], recv'[n], now)
  <2> HIDE DEF w, h
  <2> QED BY <1>3, <1>4, <1>5, <1>6, <1>7, Zenon DEF Working
<1> HIDE DEF w
<1> QED BY <1>5, <1>6, <1>8, LocalStep, Zenon

(* createNewWork builds a child of the head. *)
LEMMA CreateNewWorkStep ==
    ASSUME Orderly, IInv, CInv, NEW n \in Node, CreateNewWork(n)
    PROVE  CInv'
<1> DEFINE h == head[n]
<1>1. /\ now \in Nat /\ h \in ExactBlocks /\ h \in All(net) /\ net \in SUBSET ExactBlocks
      /\ mint \in [Node -> MintStates] /\ Sole(h)
      /\ Working(n, h, mint[n], recv[n], now)
  BY Zenon DEF IInv, CInv, Chained
<1>2. PICK tx \in Tx \cup {NoTx} :
         mint' = [mint EXCEPT ![n] = [phase |-> "seal", at |-> now,
                        block |-> Extend(h, Stamp(h, now), n, tx)]]
  BY NewWorkForm, Zenon
<1>4. PICK b : b = Extend(h, Stamp(h, now), n, tx)
  BY Zenon
<1>5. Child(h, n, b)
  BY <1>1, <1>4, StampChild, Zenon
<1>6. PICK w : w = [phase |-> "seal", at |-> now, block |-> b]
  BY Zenon
<1>7. w.phase = "seal" /\ w.block = b /\ mint' = [mint EXCEPT ![n] = w]
  BY <1>2, <1>4, <1>6
<1>8. mint'[n] = w /\ \A m \in Node : m # n => mint'[m] = mint[m]
  BY <1>1, <1>7, Zenon
<1>9. UNCHANGED <<now, head, known, recv, net>> /\ mint[n].phase # "idle"
  BY DEF CreateNewWork
<1>10. recv[n] = <<>> /\ Turn(h, n)
  BY <1>1, <1>9, Zenon DEF Working
<1>11. Working(n, h, mint'[n], recv'[n], now)
  <2> HIDE DEF h
  <2> QED BY <1>5, <1>7, <1>8, <1>9, <1>10, Zenon DEF Working
<1> QED BY <1>8, <1>9, <1>11, LocalStep, Zenon

(* Seal hands the block to worker.wait on a slot. *)
LEMMA SealStep ==
    ASSUME Orderly, IInv, CInv, NEW n \in Node, Seal(n)
    PROVE  CInv'
<1> DEFINE h == head[n]
<1>1. /\ now \in Nat /\ mint \in [Node -> MintStates] /\ now >= GenesisTime
      /\ recv \in [Node -> Seq([block : ExactBlocks, at : Nat])]
      /\ Working(n, h, mint[n], recv[n], now)
  BY Zenon DEF IInv, CInv
<1>2. PICK e : e = [block |-> mint[n].block, at |-> now]
  BY Zenon
<1>3. /\ mint[n].phase = "seal" /\ NextSlot(now - GenesisTime) + GenesisTime - now = 0
      /\ mint' = [mint EXCEPT ![n] = Idle(now)]
      /\ recv' = [recv EXCEPT ![n] = Append(recv[n], e)]
      /\ UNCHANGED <<now, head, known, net>>
  BY <1>2 DEF Seal
<1>4. recv[n] = <<>> /\ Turn(h, n) /\ Child(h, n, mint[n].block)
  BY <1>1, <1>3, Zenon DEF Working
<1>5. /\ mint'[n] = Idle(now) /\ recv'[n] = Append(recv[n], e)
      /\ \A m \in Node : m # n => mint'[m] = mint[m] /\ recv'[m] = recv[m]
  BY <1>1, <1>3
<1>6. recv'[n] = <<e>>
  BY <1>4, <1>5, OneElement, Zenon
<1>7. e.block = mint[n].block /\ e.at = now
  BY <1>2
<1>8. mint'[n].phase = "idle" /\ mint'[n].at = now
  BY <1>5, IdleFacts, Zenon
<1>9. Slot(now) /\ now <= now + MaxLag
  BY <1>1, <1>3, SlotTests, TimeAssumption
<1>10. Working(n, h, mint'[n], recv'[n], now)
  <2>1. recv'[n][1] = e /\ Len(recv'[n]) = 1
    BY <1>6, OneElement, Zenon
  <2> HIDE DEF h
  <2> QED BY <1>4, <1>7, <1>8, <1>9, <2>1, Zenon DEF Working
<1> QED BY <1>3, <1>5, <1>10, LocalStep, Zenon

(* Work that is dropped, by an interrupted Seal or by a crash. *)
LEMMA DropStep ==
    ASSUME Orderly, IInv, CInv, NEW n \in Node, NEW w, w.phase = "idle",
           mint' = [mint EXCEPT ![n] = w], UNCHANGED <<now, head, net>>,
           \A m \in Node : known[m] \subseteq known'[m],
           \/ recv' = [recv EXCEPT ![n] = <<>>]
           \/ recv' = recv /\ mint[n].phase # "idle"
    PROVE  CInv'
<1>1. /\ mint \in [Node -> MintStates]
      /\ recv \in [Node -> Seq([block : ExactBlocks, at : Nat])]
      /\ Working(n, head[n], mint[n], recv[n], now)
  BY Zenon DEF IInv, CInv
<1>2. mint'[n] = w /\ \A m \in Node : m # n => mint'[m] = mint[m]
  BY <1>1, Zenon
<1>3. recv'[n] = <<>> /\ \A m \in Node : m # n => recv'[m] = recv[m]
  <2>1. CASE recv' = [recv EXCEPT ![n] = <<>>]
    BY <1>1, <2>1, Zenon
  <2>2. CASE recv' = recv /\ mint[n].phase # "idle"
    BY <1>1, <2>2, Zenon DEF Working
  <2> QED BY <2>1, <2>2
<1>4. Working(n, head[n], mint'[n], recv'[n], now)
  BY <1>2, <1>3, Zenon DEF Working
<1> QED BY <1>2, <1>3, <1>4, LocalStep, Zenon

(* An event that interrupts nothing. *)
LEMMA EventIgnoredStep ==
    ASSUME IInv, CInv, NEW n \in Node, EventIgnored(n)
    PROVE  CInv'
<1>1. UNCHANGED <<now, head, known, mint, recv, net>>
  BY DEF EventIgnored, TakeHeadEvent
<1>2. Working(n, head[n], mint[n], recv[n], now)
  BY Zenon DEF CInv
<1>3. Working(n, head[n], mint'[n], recv'[n], now)
  BY <1>1, <1>2
<1> QED BY <1>1, <1>3, LocalStep, Zenon

(* Heads that only grow keep every block's minter on it or beyond. *)
LEMMA HoldersGrow ==
    ASSUME NEW N \in SUBSET ExactBlocks, NEW f \in [Node -> ExactBlocks],
           NEW g \in [Node -> ExactBlocks], Holders(N, f),
           \A m \in Node : Len(g[m]) >= Len(f[m])
    PROVE  Holders(N, g)
<1> SUFFICES ASSUME NEW b \in N PROVE Len(g[HeaderOf(b).validator]) >= Len(b)
  BY DEF Holders
<1>1. Exact(b) /\ Len(b) # 1 /\ Len(f[HeaderOf(b).validator]) >= Len(b)
  BY ExactBlock DEF Holders
<1>2. Len(b) \in Nat /\ Len(b) >= 1
  BY <1>1, ExactFacts, Zenon
<1>3. Len(b) \in 2 .. Len(b)
  <2>1. \A k \in Nat : k >= 1 /\ k # 1 => k \in 2 .. k
    OBVIOUS
  <2> QED BY <1>1, <1>2, <2>1, Zenon
<1>4. HeaderOf(b).validator \in Node
  BY <1>1, <1>3, Zenon DEF Exact, HeaderOf
<1>5. \A m \in Node : Len(g[m]) \in Nat /\ Len(f[m]) \in Nat
  <2>1. \A x \in ExactBlocks : Len(x) \in Nat
    BY DEF ExactBlocks
  <2> QED BY <2>1
<1> QED BY <1>1, <1>2, <1>4, <1>5

(* worker.wait: the block is a child of the head and becomes the head. *)
LEMMA WriteMinedFacts ==
    ASSUME IInv, CInv, NEW n \in Node, WriteMined(n)
    PROVE  \E b \in ExactBlocks :
              /\ Turn(head[n], n) /\ Child(head[n], n, b)
              /\ head' = [head EXCEPT ![n] = b] /\ net' = net \cup {b}
              /\ known' = [known EXCEPT ![n] = @ \cup {b}]
              /\ recv' = [recv EXCEPT ![n] = <<>>]
              /\ mint[n].phase = "idle" /\ UNCHANGED <<now, mint, conf, confDb>>
<1>1. /\ recv \in [Node -> Seq([block : ExactBlocks, at : Nat])]
      /\ head[n] \in ExactBlocks /\ recv[n] # <<>>
      /\ Working(n, head[n], mint[n], recv[n], now)
  BY Zenon DEF IInv, CInv, WriteMined
<1>2. PICK b : b = recv[n][1].block
  BY Zenon
<1>3. b \in ExactBlocks
  <2>1. recv[n][1] \in [block : ExactBlocks, at : Nat]
    BY <1>1, QueueFacts, Zenon
  <2> QED BY <1>2, <2>1
<1>4. Len(recv[n]) = 1 /\ Turn(head[n], n) /\ Child(head[n], n, b) /\ mint[n].phase = "idle"
  BY <1>1, <1>2, Zenon DEF Working
<1>5. Tail(recv[n]) = <<>>
  BY <1>1, <1>4, TailOfOne, Zenon
<1>6. Len(b) > Len(head[n])
  <2>1. Len(b) = Len(head[n]) + 1
    BY <1>4 DEF Child
  <2>2. Len(head[n]) \in Nat
    BY <1>1 DEF ExactBlocks
  <2> QED BY <2>1, <2>2
<1>7. NewHead(head[n], b) = {b}
  BY <1>6 DEF NewHead
<1>8. head' = [head EXCEPT ![n] = b] /\ known' = [known EXCEPT ![n] = @ \cup {b}]
  <2>1. WriteBlockAndState(n, b)
    BY <1>2 DEF WriteMined
  <2>2. known' = [known EXCEPT ![n] = @ \cup {b}] /\ \E x \in {b} : head' = [head EXCEPT ![n] = x]
    BY <1>7, <2>1, Zenon DEF WriteBlockAndState
  <2> QED BY <2>2
<1>9. net' = net \cup {b} /\ UNCHANGED <<now, mint, conf, confDb>>
  BY <1>2 DEF WriteMined
<1>10. recv' = [recv EXCEPT ![n] = <<>>]
  <2>1. recv' = [recv EXCEPT ![n] = Tail(recv[n])]
    BY DEF WriteMined
  <2> QED BY <1>5, <2>1, Zenon
<1> QED BY <1>3, <1>4, <1>8, <1>9, <1>10, Zenon

(* The chain with the written block is one chain, and its minter is on it. *)
LEMMA WriteMinedStep ==
    ASSUME Orderly, IInv, CInv, NEW n \in Node, WriteMined(n), Started'
    PROVE  CInv'
<1>1. PICK b \in ExactBlocks :
              /\ Turn(head[n], n) /\ Child(head[n], n, b)
              /\ head' = [head EXCEPT ![n] = b] /\ net' = net \cup {b}
              /\ known' = [known EXCEPT ![n] = @ \cup {b}]
              /\ recv' = [recv EXCEPT ![n] = <<>>]
              /\ mint[n].phase = "idle" /\ UNCHANGED <<now, mint, conf, confDb>>
  BY WriteMinedFacts, Zenon
<1>2. /\ head \in [Node -> ExactBlocks] /\ net \in SUBSET ExactBlocks
      /\ known \in [Node -> SUBSET ExactBlocks]
      /\ recv \in [Node -> Seq([block : ExactBlocks, at : Nat])]
  BY Zenon DEF IInv
<1>3. /\ now >= GenesisTime /\ Chained(net) /\ Holders(net, head)
      /\ \A m \in Node : head[m] \in All(net) /\ head[m] \in known[m]
      /\ \A m \in Node : Working(m, head[m], mint[m], recv[m], now)
  BY Zenon DEF CInv
<1>4. \A a \in All(net) : Ancestor(a, head[n])
  BY <1>1, <1>2, <1>3, HolderAtEnd, Zenon
<1>5. Chained(net \cup {b})
  <2>1. Opened(b)
    BY <1>1 DEF Started, Opened
  <2> QED BY <1>1, <1>2, <1>3, <1>4, <2>1, ChainGrows, Zenon
<1>6. head' \in [Node -> ExactBlocks] /\ head'[n] = b /\ \A m \in Node : m # n => head'[m] = head[m]
  BY <1>1, <1>2, Zenon
<1>7. Len(head[n]) \in Nat /\ Len(head[n]) >= 1 /\ Len(b) = Len(head[n]) + 1
      /\ Parent(b) = head[n] /\ HeaderOf(b).validator = n
  BY <1>1, <1>2, <1>3, AllExact, Zenon DEF Child
<1>8. Holders(net, head')
  <2>1. \A m \in Node : Len(head[m]) \in Nat
    BY <1>2, <1>3, AllExact, Zenon
  <2>2. \A m \in Node : Len(head'[m]) >= Len(head[m])
    BY <1>6, <1>7, <2>1
  <2> QED BY <1>2, <1>3, <1>6, <2>2, HoldersGrow, Zenon
<1>9. Holders(net \cup {b}, head')
  <2>1. /\ Len(b) # 1 /\ Turn(Parent(b), HeaderOf(b).validator)
        /\ Len(head'[HeaderOf(b).validator]) >= Len(b)
    <3>1. \A k \in Nat : k >= 1 => k + 1 # 1 /\ k + 1 >= k + 1
      OBVIOUS
    <3> QED BY <1>1, <1>6, <1>7, <3>1, Zenon
  <2> QED BY <1>8, <2>1, Zenon DEF Holders
<1>10. \A m \in Node : head'[m] \in All(net \cup {b}) /\ head'[m] \in known'[m]
  BY <1>1, <1>2, <1>3, <1>6, Zenon DEF All
<1>11. recv'[n] = <<>> /\ mint' = mint /\ now' = now /\ \A m \in Node : m # n => recv'[m] = recv[m]
  BY <1>1, <1>2, Zenon
<1>12. ASSUME NEW m \in Node PROVE Working(m, head'[m], mint'[m], recv'[m], now')
  <2>1. CASE m = n
    BY <1>1, <1>11, <2>1, Zenon DEF Working
  <2>2. CASE m # n
    BY <1>3, <1>6, <1>11, <2>2, Zenon
  <2> QED BY <2>1, <2>2, Zenon
<1>13. Chained(net') /\ Holders(net', head')
  BY <1>1, <1>5, <1>9, Zenon
<1>14. (\A m \in Node : head'[m] \in All(net') /\ head'[m] \in known'[m]) /\ now' >= GenesisTime
  BY <1>1, <1>3, <1>10, Zenon
<1> QED BY <1>12, <1>13, <1>14, Zenon DEF CInv, Chained, Holders, All

(* insertChain leaves the head or moves it up the chain, and then the node     *)
(* had no turn and nothing on the way.                                        *)
LEMMA InsertFacts ==
    ASSUME Orderly, IInv, CInv, NEW n \in Node, NEW b, InsertBlock(n, b)
    PROVE  \/ head' = head
           \/ /\ head' = [head EXCEPT ![n] = b] /\ b \in net
              /\ Ancestor(head[n], b) /\ Len(b) > Len(head[n])
              /\ mint[n].phase = "idle" /\ recv[n] = <<>>
<1>1. /\ net \in SUBSET ExactBlocks /\ Chained(net) /\ Holders(net, head)
      /\ head \in [Node -> ExactBlocks]
      /\ head[n] \in All(net) /\ head[n] \in known[n]
      /\ Working(n, head[n], mint[n], recv[n], now)
  BY Zenon DEF IInv, CInv
<1>2. b \in net /\ b \notin known[n] /\ WriteBlockAndState(n, b)
  BY Zenon DEF InsertBlock
<1>3. b \in All(net)
  BY <1>2, Zenon DEF All
<1>4. /\ b \in Seq(Header) /\ Len(b) \in Nat
      /\ head[n] \in Seq(Header) /\ Len(head[n]) \in Nat
  BY <1>1, <1>3, AllExact, Zenon
<1>5. Ancestor(head[n], b) \/ Ancestor(b, head[n])
  BY <1>1, <1>3, Zenon DEF Chained
<1>6. PICK x \in NewHead(head[n], b) : head' = [head EXCEPT ![n] = x]
  BY <1>2, Zenon DEF WriteBlockAndState
<1>7. CASE Len(b) > Len(head[n])
  <2>1. ~Ancestor(b, head[n])
    BY <1>4, <1>7 DEF Ancestor
  <2>2. ~Turn(head[n], n)
    BY <1>1, <1>3, <2>1, HolderAtEnd, Zenon
  <2>3. mint[n].phase = "idle" /\ recv[n] = <<>>
    BY <1>1, <2>2, Zenon DEF Working
  <2>4. x = b
    BY <1>6, <1>7 DEF NewHead
  <2> QED BY <1>2, <1>5, <1>6, <1>7, <2>1, <2>3, <2>4, Zenon
<1>8. CASE ~(Len(b) > Len(head[n]))
  <2>1. Len(b) # Len(head[n])
    <3>1. SUFFICES ASSUME Len(b) = Len(head[n]) PROVE FALSE
      OBVIOUS
    <3>2. b = head[n]
      BY <1>4, <1>5, <3>1, AncestorFacts
    <3> QED BY <1>1, <1>2, <3>2
  <2>2. x = head[n]
    BY <1>6, <1>8, <2>1 DEF NewHead
  <2>3. head' = head
    BY <1>1, <1>6, <2>2, Zenon
  <2> QED BY <2>3
<1> QED BY <1>7, <1>8, Zenon

(* An import keeps all of that. *)
LEMMA InsertStep ==
    ASSUME Orderly, IInv, CInv, NEW n \in Node, NEW b, InsertBlock(n, b)
    PROVE  CInv'
<1>1. /\ head \in [Node -> ExactBlocks] /\ net \in SUBSET ExactBlocks
      /\ known \in [Node -> SUBSET ExactBlocks]
  BY DEF IInv
<1>2. /\ now >= GenesisTime /\ Chained(net) /\ Holders(net, head)
      /\ \A m \in Node : head[m] \in All(net) /\ head[m] \in known[m]
      /\ \A m \in Node : Working(m, head[m], mint[m], recv[m], now)
  BY Zenon DEF CInv
<1>3. UNCHANGED <<now, mint, recv, net>> /\ known' = [known EXCEPT ![n] = @ \cup {b}]
  BY DEF InsertBlock, WriteBlockAndState
<1>4. \A m \in Node : known[m] \subseteq known'[m]
  BY <1>1, <1>3
<1>5. CASE head' = head
  <2>1. Working(n, head[n], mint'[n], recv'[n], now)
    BY <1>2, <1>3, Zenon
  <2> QED BY <1>3, <1>4, <1>5, <2>1, LocalStep, Zenon
<1>6. CASE /\ head' = [head EXCEPT ![n] = b] /\ b \in net
           /\ Ancestor(head[n], b) /\ Len(b) > Len(head[n])
           /\ mint[n].phase = "idle" /\ recv[n] = <<>>
  <2>1. head' \in [Node -> ExactBlocks] /\ head'[n] = b /\ \A m \in Node : m # n => head'[m] = head[m]
    BY <1>1, <1>6, Zenon
  <2>2. Holders(net, head')
    <3>1. (\A m \in Node : Len(head[m]) \in Nat) /\ Len(b) \in Nat
      BY <1>1, <1>2, <1>6, AllExact, Zenon DEF All
    <3>2. \A m \in Node : Len(head'[m]) >= Len(head[m])
      BY <1>6, <2>1, <3>1, SMTT(30)
    <3> QED BY <1>1, <1>2, <2>1, <3>2, HoldersGrow, Zenon
  <2>3. \A m \in Node : head'[m] \in All(net) /\ head'[m] \in known'[m]
    <3>1. b \in known'[n]
      BY <1>1, <1>3
    <3> QED BY <1>2, <1>4, <1>6, <2>1, <3>1, Zenon DEF All
  <2>4. ASSUME NEW m \in Node PROVE Working(m, head'[m], mint'[m], recv'[m], now')
    <3>1. CASE m = n
      BY <1>3, <1>6, <3>1, Zenon DEF Working
    <3>2. CASE m # n
      BY <1>2, <1>3, <2>1, <3>2, Zenon
    <3> QED BY <3>1, <3>2, Zenon
  <2>5. Chained(net') /\ Holders(net', head') /\ now' >= GenesisTime
    BY <1>2, <1>3, <2>2, Zenon
  <2>6. \A m \in Node : head'[m] \in All(net') /\ head'[m] \in known'[m]
    BY <1>3, <2>3
  <2> QED BY <2>4, <2>5, <2>6, Zenon DEF CInv, Chained, Holders, All
<1> QED BY <1>5, <1>6, InsertFacts, Zenon

(* Time passes only while every sealed block is being written in time. *)
LEMMA TickStep ==
    ASSUME IInv, CInv, Tick
    PROVE  CInv'
<1>1. now' = now + 1 /\ UNCHANGED <<head, known, mint, recv, net>> /\ now \in Nat
  BY Zenon DEF Tick, IInv
<1>2. ASSUME NEW n \in Node PROVE Working(n, head[n], mint[n], recv[n], now + 1)
  <2>1. Working(n, head[n], mint[n], recv[n], now)
    BY Zenon DEF CInv
  <2>2. ASSUME recv[n] # <<>> PROVE now + 1 <= recv[n][1].at + MaxLag
    <3>1. recv[n][1].at \in Nat
      <4>1. recv[n][1] \in [block : ExactBlocks, at : Nat]
        BY <2>2, QueueFacts, Zenon DEF IInv
      <4> QED BY <4>1
    <3>2. now - recv[n][1].at < MaxLag
      BY <2>2, Zenon DEF Tick
    <3> QED BY <1>1, <3>1, <3>2, TimeAssumption
  <2> QED BY <2>1, <2>2, Zenon DEF Working
<1>3. \A n \in Node : Working(n, head'[n], mint'[n], recv'[n], now')
  BY <1>1, <1>2
<1>4. now' >= GenesisTime
  <2>1. now >= GenesisTime
    BY Zenon DEF CInv
  <2> QED BY <1>1, <2>1, TimeAssumption
<1> QED BY <1>1, <1>3, <1>4, Zenon DEF CInv, Chained, Holders, All

(* Every step keeps the chain one chain. *)
LEMMA CInvNext ==
    ASSUME Orderly, IInv, CInv, [Next]_vars, Started'
    PROVE  CInv'
<1>0. /\ known \in [Node -> SUBSET ExactBlocks] /\ mint \in [Node -> MintStates]
  BY Zenon DEF IInv
<1>1. CASE UNCHANGED vars
  BY <1>1, Zenon DEF CInv, Chained, Holders, All, Working, vars
<1>2. CASE Tick
  BY <1>2, TickStep
<1>3. ASSUME NEW n \in Node, MintCheck(n) PROVE CInv'
  BY <1>3, MintCheckStep
<1>4. ASSUME NEW n \in Node, CreateNewWork(n) PROVE CInv'
  BY <1>4, CreateNewWorkStep
<1>5. ASSUME NEW n \in Node, Seal(n) PROVE CInv'
  BY <1>5, SealStep
<1>6. ASSUME NEW n \in Node, SealInterrupted(n) PROVE CInv'
  <2>1. /\ mint' = [mint EXCEPT ![n] = Idle(now)] /\ mint[n].phase = "seal"
        /\ UNCHANGED <<now, head, known, recv, net>>
    BY <1>6, Zenon DEF SealInterrupted, TakeHeadEvent, Waits
  <2>2. Idle(now).phase = "idle"
    BY DEF Idle
  <2>3. \A m \in Node : known[m] \subseteq known'[m]
    BY <2>1
  <2> QED BY <2>1, <2>2, <2>3, DropStep, Zenon
<1>7. ASSUME NEW n \in Node, EventIgnored(n) PROVE CInv'
  BY <1>7, EventIgnoredStep
<1>8. ASSUME NEW n \in Node, WriteMined(n) PROVE CInv'
  BY <1>8, WriteMinedStep
<1>9. ASSUME NEW n \in Node, NEW b, InsertBlock(n, b) PROVE CInv'
  BY <1>9, InsertStep
<1>10. ASSUME NEW n \in Node, LoseMemory(n), \A m \in Node : known[m] \subseteq known'[m]
       PROVE  CInv'
  <2>1. /\ mint' = [mint EXCEPT ![n] = Restarted] /\ recv' = [recv EXCEPT ![n] = <<>>]
        /\ UNCHANGED <<now, net, head>>
    BY <1>10, Zenon DEF LoseMemory
  <2>2. Restarted.phase = "idle"
    BY DEF Restarted, Idle
  <2> QED BY <1>10, <2>1, <2>2, DropStep, Zenon
<1>11. ASSUME NEW n \in Node, Crash(n) PROVE CInv'
  BY <1>10, <1>11 DEF Crash
<1>12. ASSUME NEW n \in Node, CrashWritingMined(n) PROVE CInv'
  <2>1. LoseMemory(n) /\ known' = [known EXCEPT ![n] = @ \cup {recv[n][1].block}]
    BY <1>12 DEF CrashWritingMined
  <2>2. \A m \in Node : known[m] \subseteq known'[m]
    BY <1>0, <2>1
  <2> QED BY <1>10, <2>1, <2>2, Zenon
<1>13. ASSUME NEW n \in Node, NEW b, CrashInserting(n, b) PROVE CInv'
  <2>1. LoseMemory(n) /\ known' = [known EXCEPT ![n] = @ \cup {b}]
    BY <1>13, Zenon DEF CrashInserting
  <2>2. \A m \in Node : known[m] \subseteq known'[m]
    BY <1>0, <2>1
  <2> QED BY <1>10, <2>1, <2>2
<1> QED
  BY <1>1, <1>2, <1>3, <1>4, <1>5, <1>6, <1>7, <1>8, <1>9, <1>11, <1>12, <1>13, Zenon DEF Next

(* A chain that has begun without a validator stays without one. *)
LEMMA StartedBefore ==
    ASSUME [Next]_vars, Started'
    PROVE  Started
<1>1. net \subseteq net'
  <2>1. CASE \E n \in Node : WriteMined(n)
    BY <2>1 DEF WriteMined
  <2>2. CASE net' = net
    BY <2>2
  <2>3. net' = net \/ \E n \in Node : WriteMined(n)
    BY Zenon DEF Next, vars, Tick, MintCheck, CreateNewWork, Seal, SealInterrupted, EventIgnored,
           TakeHeadEvent, InsertBlock, Crash, CrashWritingMined, CrashInserting, LoseMemory
  <2> QED BY <2>1, <2>2, <2>3
<1> QED BY <1>1 DEF Started

(* The chain is one at every moment of an orderly run. *)
THEOREM CInvAlways ==
    ASSUME Orderly
    PROVE  Spec => [](Started => CInv)
<1>1. Init => CInv
  BY CInvInit
<1>2. IInv /\ CInv /\ [Next]_vars /\ Started' => CInv'
  BY CInvNext
<1>3. [Next]_vars /\ Started' => Started
  BY StartedBefore
<1> QED BY <1>1, <1>2, <1>3, Inductive, PTL DEF Spec

(* Of any two heads one extends the other, at every moment: through every      *)
(* order of minting, writing, delivery and import, every crash and every       *)
(* change of the validator, also when blocks carry a time off the slots.       *)
THEOREM OneChainAlways ==
    ASSUME Orderly
    PROVE  Spec => []OneChain
<1>1. (Started => CInv) => OneChain
  BY Zenon DEF CInv, Chained, OneChain
<1> QED BY <1>1, CInvAlways, PTL

-----------------------------------------------------------------------------
(* Confirmation. The loop stops at a header beyond the confirmed one, or not   *)
(* at all.                                                                    *)
LEMMA UpdateConfirmedRange ==
    ASSUME NEW c, Len(c) \in Nat, NEW k \in Nat, NEW size
    PROVE  UpdateConfirmed(c, k, size) \in {k} \cup (k + 1 .. Len(c))
<1> DEFINE n == Len(c)
           m == ValidatorMap(c, k + 1)
           F(i) == i - k < size - Cardinality(m[i])
           R(i) == Cardinality(m[i] \cup {c[i].validator}) >= size
           D == {i \in k + 1 .. n : F(i) \/ R(i)}
<1>1. UpdateConfirmed(c, k, size) =
        IF n <= k \/ n < 2 \/ D = {} THEN k ELSE IF F(Max(D)) THEN k ELSE Max(D)
  BY Zenon DEF UpdateConfirmed
<1>2. D \in SUBSET (0 .. n) /\ D \subseteq k + 1 .. n
  OBVIOUS
<1> HIDE DEF D, F
<1>3. D # {} => Max(D) \in D
  BY <1>2, MaxRight, Zenon
<1>4. D # {} => Max(D) \in k + 1 .. n
  BY <1>2, <1>3, Zenon
<1> QED BY <1>1, <1>4, Zenon

(* The stored and the remembered confirmed headers are on the node's chain.    *)
Confirms == Seq(Header) \cup {NoBlock}

FInv ==
    /\ conf \in [Node -> Confirms] /\ confDb \in [Node -> Confirms]
    /\ \A n \in Node : /\ conf[n] # NoBlock => Ancestor(conf[n], head[n])
                       /\ confDb[n] # NoBlock => Ancestor(confDb[n], head[n])

(* What an import confirms is on the chain of the node's head.                *)
LEMMA ConfirmFacts ==
    ASSUME IInv, CInv, FInv, NEW n \in Node
    PROVE  /\ UpdateConfirmedBlockHeader(n) \in Seq(Header)
           /\ Ancestor(UpdateConfirmedBlockHeader(n), head[n])
<1> DEFINE h == head[n]
<1>1. net \in SUBSET ExactBlocks /\ h \in All(net) /\ Chained(net)
  BY Zenon DEF IInv, CInv
<1>2. h \in Seq(Header) /\ Len(h) \in Nat /\ Len(h) >= 1
  BY <1>1, AllExact, ZenonT(30)
<1>3. Genesis \in All(net) /\ Len(Genesis) = 1
  BY DEF All, Genesis
<1>4. Genesis \in Seq(Header)
  BY <1>1, <1>3, AllExact, ZenonT(30)
<1>5. Ancestor(Genesis, h)
  <2>1. CASE Ancestor(h, Genesis)
    <3>1. h = Genesis
      BY <1>2, <1>3, <1>4, <2>1, AncestorFacts, ZenonT(30)
    <3> QED BY <2>1, <3>1
  <2> QED BY <1>1, <1>3, <2>1 DEF Chained
<1>6. PICK base : base = ConfirmBase(n)
  BY Zenon
<1>7. base \in Seq(Header) /\ Ancestor(base, h)
  BY <1>4, <1>5, <1>6 DEF ConfirmBase, FInv, Confirms
<1>8. Len(base) \in Nat
  BY <1>7
<1>9. PICK k : k = UpdateConfirmed(h, Len(base), ConsensusSize)
  BY Zenon
<1>10. UpdateConfirmedBlockHeader(n) = IF k = Len(base) THEN base ELSE SubSeq(h, 1, k)
  BY <1>6, <1>9 DEF UpdateConfirmedBlockHeader
<1>11. CASE k = Len(base)
  BY <1>7, <1>10, <1>11
<1>12. CASE k # Len(base)
  <2>1. k \in Len(base) + 1 .. Len(h)
    BY <1>2, <1>8, <1>9, <1>12, UpdateConfirmedRange
  <2>2. k \in 0 .. Len(h)
    BY <1>2, <1>8, <2>1
  <2> DEFINE x == SubSeq(h, 1, k)
  <2>3. x \in Seq(Header) /\ Len(x) = k /\ \A j \in 1 .. k : x[j] = h[j]
    BY <1>2, <2>2, PrefixFacts, Zenon
  <2> HIDE DEF x, h
  <2>4. Ancestor(x, h)
    BY <1>2, <2>2, <2>3, AncestorIff
  <2>5. UpdateConfirmedBlockHeader(n) = x
    BY <1>10, <1>12, Zenon DEF x
  <2> QED BY <2>3, <2>4, <2>5, Zenon DEF h
<1> QED BY <1>11, <1>12

(* A node's head only ever moves up its chain. *)
LEMMA HeadsGrow ==
    ASSUME Orderly, IInv, CInv, [Next]_vars
    PROVE  \A m \in Node : Ancestor(head[m], head'[m])
<1>0. head \in [Node -> ExactBlocks] /\ \A m \in Node : head[m] \in Seq(Header)
  BY Zenon DEF IInv, ExactBlocks
<1>1. \A m \in Node : Ancestor(head[m], head[m])
  BY <1>0, AncestorFacts, ZenonT(30)
<1>2. CASE head' = head
  BY <1>1, <1>2
<1>3. ASSUME NEW n \in Node, WriteMined(n) PROVE \A m \in Node : Ancestor(head[m], head'[m])
  <2>1. PICK b \in ExactBlocks : Child(head[n], n, b) /\ head' = [head EXCEPT ![n] = b]
    BY <1>3, WriteMinedFacts, Zenon
  <2>2. b \in Seq(Header) /\ Len(head[n]) \in Nat /\ Len(head[n]) >= 1
    <3>1. Exact(b) /\ Exact(head[n])
      BY <1>0, ExactBlock
    <3> QED BY <1>0, <3>1, ExactFacts, Zenon
  <2>3. Len(b) = Len(head[n]) + 1 /\ Parent(b) = head[n]
    BY <2>1 DEF Child
  <2>4. Ancestor(head[n], b)
    BY <2>2, <2>3, ParentFacts
  <2> QED BY <1>0, <1>1, <2>1, <2>4
<1>4. ASSUME NEW n \in Node, NEW b, InsertBlock(n, b)
      PROVE  \A m \in Node : Ancestor(head[m], head'[m])
  <2>1. CASE head' = [head EXCEPT ![n] = b] /\ Ancestor(head[n], b)
    BY <1>0, <1>1, <2>1
  <2> QED BY <1>2, <1>4, <2>1, InsertFacts, Zenon
<1>5. \/ head' = head
      \/ \E n \in Node : WriteMined(n)
      \/ \E n \in Node : \E b \in net : InsertBlock(n, b)
  BY Zenon DEF Next, vars, Tick, MintCheck, CreateNewWork, Seal, SealInterrupted, EventIgnored,
         TakeHeadEvent, Crash, CrashWritingMined, CrashInserting, LoseMemory
<1> QED BY <1>2, <1>3, <1>4, <1>5

(* What becomes of a node's confirmed headers in a step. *)
LEMMA ConfirmSteps ==
    ASSUME [Next]_vars
    PROVE  \/ UNCHANGED <<conf, confDb>>
           \/ \E n \in Node :
                 /\ \/ conf' = [conf EXCEPT ![n] = UpdateConfirmedBlockHeader(n)]
                    \/ conf' = [conf EXCEPT ![n] = NoBlock]
                 /\ \/ confDb' = confDb
                    \/ confDb' = [confDb EXCEPT ![n] = UpdateConfirmedBlockHeader(n)]
<1>1. CASE \E n \in Node : \E b \in net : InsertBlock(n, b) \/ CrashInserting(n, b)
  BY <1>1, Zenon DEF InsertBlock, CrashInserting, LoseMemory, StoreConfirmedBlockHeader
<1>2. CASE \E n \in Node : Crash(n) \/ CrashWritingMined(n)
  BY <1>2, Zenon DEF Crash, CrashWritingMined, LoseMemory
<1>3. CASE \/ Tick \/ UNCHANGED vars
           \/ \E n \in Node : \/ MintCheck(n) \/ CreateNewWork(n) \/ Seal(n)
                              \/ SealInterrupted(n) \/ EventIgnored(n) \/ WriteMined(n)
  BY <1>3, Zenon DEF Tick, vars, MintCheck, CreateNewWork, Seal, SealInterrupted, EventIgnored,
              TakeHeadEvent, WriteMined
<1> QED BY <1>1, <1>2, <1>3, Zenon DEF Next

(* No step takes a confirmed header off the chain. *)
LEMMA FInvNext ==
    ASSUME Orderly, IInv, CInv, FInv, [Next]_vars, IInv'
    PROVE  FInv'
<1>0. /\ conf \in [Node -> Confirms] /\ confDb \in [Node -> Confirms]
      /\ head \in [Node -> Seq(Header)] /\ head' \in [Node -> Seq(Header)]
  <2>1. ExactBlocks \subseteq Seq(Header)
    BY DEF ExactBlocks
  <2> QED BY <2>1, Zenon DEF FInv, IInv
<1>1. \A m \in Node : Ancestor(head[m], head'[m])
  BY HeadsGrow
<1>2. \A n \in Node : UpdateConfirmedBlockHeader(n) \in Seq(Header)
                      /\ Ancestor(UpdateConfirmedBlockHeader(n), head[n])
  BY ConfirmFacts
<1>3. \A m \in Node : \A c \in Seq(Header) : Ancestor(c, head[m]) => Ancestor(c, head'[m])
  BY <1>0, <1>1, AncestorFacts, ZenonT(30)
<1>4. \A m \in Node : /\ conf[m] # NoBlock => Ancestor(conf[m], head'[m])
                      /\ confDb[m] # NoBlock => Ancestor(confDb[m], head'[m])
  BY <1>0, <1>3, Zenon DEF FInv, Confirms
<1>5. \A n \in Node : UpdateConfirmedBlockHeader(n) \in Confirms
                      /\ Ancestor(UpdateConfirmedBlockHeader(n), head'[n])
  BY <1>2, <1>3, Zenon DEF Confirms
<1>6. NoBlock \in Confirms
  BY DEF Confirms
<1>7. CASE UNCHANGED <<conf, confDb>>
  BY <1>0, <1>4, <1>7 DEF FInv
<1>8. ASSUME NEW n \in Node,
             \/ conf' = [conf EXCEPT ![n] = UpdateConfirmedBlockHeader(n)]
             \/ conf' = [conf EXCEPT ![n] = NoBlock],
             \/ confDb' = confDb
             \/ confDb' = [confDb EXCEPT ![n] = UpdateConfirmedBlockHeader(n)]
      PROVE  FInv'
  <2>1. PICK u : u = UpdateConfirmedBlockHeader(n)
    BY Zenon
  <2>2. u \in Confirms /\ Ancestor(u, head'[n])
    BY <1>5, <2>1
  <2>3. conf' \in [Node -> Confirms] /\ \A m \in Node : conf'[m] # NoBlock => Ancestor(conf'[m], head'[m])
    BY <1>0, <1>4, <1>6, <1>8, <2>1, <2>2, Zenon
  <2>4. confDb' \in [Node -> Confirms] /\ \A m \in Node : confDb'[m] # NoBlock => Ancestor(confDb'[m], head'[m])
    BY <1>0, <1>4, <1>8, <2>1, <2>2, Zenon
  <2> QED BY <2>3, <2>4, Zenon DEF FInv
<1> QED BY <1>7, <1>8, ConfirmSteps, Zenon

(* A header once confirmed, in memory or in the database, is on the node's     *)
(* chain at every later moment: no import, no restart and no change of the     *)
(* validator takes a confirmed block off it, as long as the first block set a  *)
(* validator.                                                                 *)
THEOREM ConfirmedFinalAlways ==
    ASSUME Orderly
    PROVE  Spec => [](Started => ConfirmedFinal)
<1>1. Init => FInv
  <2>1. NoBlock \in Confirms
    BY DEF Confirms
  <2> QED BY <2>1, Zenon DEF Init, FInv
<1>2. IInv /\ CInv /\ FInv /\ [Next]_vars /\ IInv' => FInv'
  BY FInvNext
<1>3. FInv => ConfirmedFinal
  BY DEF FInv, ConfirmedFinal
<1>4. [Next]_vars /\ Started' => Started
  BY StartedBefore
<1> QED BY <1>1, <1>2, <1>3, <1>4, Inductive, CInvAlways, PTL DEF Spec

-----------------------------------------------------------------------------
(* The times of a chain that is on the slots. *)
LEMMA SlotTimes ==
    ASSUME NEW N \in SUBSET ExactBlocks, Chained(N), NEW b \in N, OnSlot(b),
           NEW i \in 1 .. Len(b)
    PROVE  b[i].time \in Nat /\ GenesisTime <= b[i].time /\ Slot(b[i].time)
<1>0. GenesisTime \in Nat /\ ProducerInterval \in Nat \ {0}
  BY TimeAssumption, IntervalAssumption
<1>1. b \in All(N) /\ Genesis \in All(N)
  BY DEF All
<1>2. /\ Exact(b) /\ b \in Seq(Header) /\ Len(b) \in Nat /\ Len(b) >= 1
      /\ Genesis \in Seq(Header)
  BY <1>1, AllExact, ZenonT(30)
<1>3. Len(Genesis) = 1 /\ Genesis[1].time = GenesisTime
  BY Zenon DEF Genesis
<1>4. b[1] = Genesis[1]
  <2>0. 1 \in 1 .. Len(Genesis) /\ 1 \in 1 .. Len(b)
    BY <1>2, <1>3
  <2>1. CASE Ancestor(Genesis, b)
    <3>1. \A j \in 1 .. Len(Genesis) : Genesis[j] = b[j]
      BY <1>2, <2>1, AncestorIff, Zenon
    <3> QED BY <2>0, <3>1, Zenon
  <2>2. CASE Ancestor(b, Genesis)
    <3>1. \A j \in 1 .. Len(b) : b[j] = Genesis[j]
      BY <1>2, <2>2, AncestorIff, Zenon
    <3> QED BY <2>0, <3>1, Zenon
  <2> QED BY <1>1, <2>1, <2>2 DEF Chained
<1>5. b[i] \in Header
  BY <1>2
<1>6. b[i].time \in Nat
  BY <1>5 DEF Header
<1>7. CASE i = 1
  <2>1. GenesisTime = GenesisTime + 0 * ProducerInterval
    BY <1>0
  <2>2. Slot(GenesisTime)
    BY <2>1 DEF Slot
  <2> QED BY <1>0, <1>3, <1>4, <1>7, <2>2
<1>8. CASE i # 1
  <2>1. 1 \in 1 .. Len(b) /\ 1 < i /\ i \in 2 .. Len(b)
    BY <1>2, <1>8
  <2>2. b[1].time < b[i].time
    BY <1>2, <2>1, ExactTimes, Zenon
  <2>3. GenesisTime < b[i].time
    BY <1>3, <1>4, <2>2, Zenon
  <2>4. GenesisTime <= b[i].time
    BY <1>0, <1>6, <2>3
  <2>5. (b[i].time - GenesisTime) % ProducerInterval = 0
    BY <2>1 DEF OnSlot
  <2> QED BY <1>6, <2>4, <2>5, SlotTests
<1> QED BY <1>7, <1>8, Zenon

(* A node that has not stored the first block of the chain has the genesis      *)
(* block as its head.                                                         *)
LEMMA HeadZero ==
    ASSUME IInv, CInv, KInv, NEW n \in Node, NEW b \in net, Len(b) = 2, b \notin known[n]
    PROVE  Number(head[n]) = 0
<1>1. net \in SUBSET ExactBlocks /\ Chained(net) /\ head[n] \in All(net)
  BY Zenon DEF IInv, CInv
<1>2. head[n] \in known[n] /\ Closed(known[n])
  BY Zenon DEF KInv
<1>3. PICK h : h = head[n]
  BY Zenon
<1>4. h \in All(net) /\ b \in All(net)
  BY <1>1, <1>3 DEF All
<1>5. h \in Seq(Header) /\ Len(h) \in Nat /\ Len(h) >= 1 /\ b \in Seq(Header)
  BY <1>1, <1>4, AllExact, Zenon
<1>6. ASSUME Len(h) # 1 PROVE FALSE
  <2>1. 2 \in 1 .. Len(h) /\ 2 \in 0 .. Len(h)
    <3>1. \A k \in Nat : k >= 1 /\ k # 1 => 2 \in 1 .. k /\ 2 \in 0 .. k
      OBVIOUS
    <3> QED BY <1>5, <1>6, <3>1, Zenon
  <2>2. PICK a : a = SubSeq(h, 1, 2)
    BY Zenon
  <2>3. a \in known[n]
    BY <1>2, <1>3, <2>1, <2>2, Zenon DEF Closed
  <2>4. a \in All(net)
    BY <1>1, <1>4, <2>1, <2>2, Zenon DEF Chained
  <2>5. a \in Seq(Header) /\ Len(a) = 2
    BY <1>5, <2>1, <2>2, PrefixFacts, Zenon
  <2>6. Len(a) <= Len(b) /\ Len(b) <= Len(a)
    BY <2>5
  <2>7. Ancestor(a, b) \/ Ancestor(b, a)
    BY <1>1, <1>4, <2>4, Zenon DEF Chained
  <2>8. a = b
    BY <1>5, <2>5, <2>6, <2>7, AncestorFacts, Zenon
  <2> QED BY <2>3, <2>8
<1>7. Len(head[n]) = 1
  BY <1>3, <1>6, Zenon
<1> QED BY <1>7 DEF Number

(* Wherever the head of a node is, it executes an announced block whose parent  *)
(* it has and which it lacks.                                                  *)
LEMMA ExecutesAnywhere ==
    ASSUME IInv, CInv, KInv, NEW n \in Node, NEW b \in net, b \notin known[n],
           HeaderOf(b).time \in Nat, GenesisTime <= HeaderOf(b).time
    PROVE  ProcessBlock(Number(head[n]), b)
<1>0. GenesisTime \in Nat
  BY TimeAssumption
<1>1. PICK p, t, tx, c : /\ p = Parent(b) /\ t = HeaderOf(b).time /\ tx = HeaderOf(b).tx
                         /\ c = HeaderOf(p).ctx
  BY Zenon
<1>2. TxValid(c, t, Number(p), tx) /\ FinalContext(p, t, HeaderOf(b).validator, tx) = HeaderOf(b).ctx
  BY <1>1, Zenon DEF KInv, Executes, ProcessBlock
<1>3. SUFFICES TxValid(c, t, Number(head[n]), tx)
  BY <1>1, <1>2, Zenon DEF ProcessBlock
<1>4. net \in SUBSET ExactBlocks /\ Chained(net) /\ Len(b) # 1
  BY Zenon DEF IInv, CInv, Holders
<1>5. b \in All(net)
  BY DEF All
<1>6. b \in Seq(Header) /\ Len(b) \in Nat /\ Len(b) >= 1
  BY <1>4, <1>5, AllExact, Zenon
<1>7. Len(b) >= 2 /\ Len(b) - 1 \in 1 .. Len(b)
  <2>1. \A k \in Nat : k >= 1 /\ k # 1 => k >= 2 /\ k - 1 \in 1 .. k
    OBVIOUS
  <2> QED BY <1>4, <1>6, <2>1, Zenon
<1>8. p \in All(net) /\ Len(p) = Len(b) - 1
  <2>1. SubSeq(b, 1, Len(b) - 1) \in All(net)
    BY <1>4, <1>5, <1>7, Zenon DEF Chained
  <2>2. Len(Parent(b)) = Len(b) - 1
    BY <1>6, <1>7, ParentFacts, Zenon
  <2> QED BY <1>1, <2>1, <2>2, Zenon DEF Parent
<1>9. CASE Len(p) = 1
  <2>0. \A k \in Nat : k - 1 = 1 => k = 2
    OBVIOUS
  <2>1. Len(b) = 2
    BY <1>6, <1>8, <1>9, <2>0, Zenon
  <2>2. Number(head[n]) = 0 /\ Number(p) = 0
    <3>1. Number(p) = 0
      BY <1>9 DEF Number
    <3> QED BY <2>1, <3>1, HeadZero, Zenon
  <2> QED BY <1>2, <2>1, <2>2, Zenon
<1>10. CASE Len(p) # 1
  <2>1. PICK m \in Node : c.validators = <<m>>
    BY <1>1, <1>4, <1>8, <1>10, Zenon DEF Chained, Sole
  <2>2. t \in Nat /\ GenesisTime <= t
    BY <1>1, Zenon
  <2>3. GetProducer(c, t, GenesisTime) \in {ErrInvalidProducerTime, m}
    BY <1>0, <2>1, <2>2, SoleProducer, Zenon
  <2>4. GetProducer(c, t, GenesisTime) # ErrInvalidProducer
    BY <2>3, ErrorAssumption
  <2> QED BY <1>2, <2>4, Zenon DEF TxValid
<1> QED BY <1>9, <1>10, Zenon

(* A block that worker.wait announced without verification is one every peer   *)
(* accepts: it was minted by the validator that verifySeal finds, although     *)
(* that counts the slots from the parent, and a whole slot after the parent,   *)
(* and its transaction is accepted by every node that has its parent.          *)
THEOREM PeersAcceptAlways ==
    ASSUME Orderly
    PROVE  Spec => [](Started => PeersAccept)
<1>1. ASSUME IInv, CInv, KInv PROVE PeersAccept
  <2> SUFFICES ASSUME NEW b \in net, OnSlot(b)
               PROVE  /\ VerifySeal(b)
                      /\ HeaderOf(Parent(b)).time + ProducerInterval <= HeaderOf(b).time
                      /\ \A n \in Node : Parent(b) \in known[n] /\ b \notin known[n] =>
                             ProcessBlock(Number(head[n]), b)
    BY DEF PeersAccept
  <2>1. net \in SUBSET ExactBlocks /\ Chained(net) /\ Holders(net, head)
    BY <1>1 DEF IInv, CInv
  <2>2. b \in All(net)
    BY DEF All
  <2>3. Exact(b) /\ b \in Seq(Header) /\ Len(b) \in Nat /\ Len(b) >= 1
    BY <2>1, <2>2, AllExact, ZenonT(30)
  <2>4. Len(b) # 1 /\ Turn(Parent(b), HeaderOf(b).validator)
    BY <2>1 DEF Holders
  <2>5. PICK i \in Nat : i = Len(b) - 1 /\ i \in 1 .. Len(b) /\ Len(b) \in 1 .. Len(b)
                         /\ i < Len(b)
    <3>1. \A k \in Nat : k >= 1 /\ k # 1 =>
             \E i \in Nat : i = k - 1 /\ i \in 1 .. k /\ k \in 1 .. k /\ i < k
      <4>1. \A k \in Nat : k >= 1 /\ k # 1 =>
               k - 1 \in Nat /\ k - 1 \in 1 .. k /\ k \in 1 .. k /\ k - 1 < k
        OBVIOUS
      <4> QED BY <4>1, Zenon
    <3> QED BY <2>3, <2>4, <3>1, Zenon
  <2>6. Len(Parent(b)) = i /\ Parent(b)[i] = b[i]
    <3>1. \A k \in Nat : k >= 1 /\ k # 1 => k >= 2
      OBVIOUS
    <3>2. Len(b) >= 2
      BY <2>3, <2>4, <3>1, Zenon
    <3>3. Len(Parent(b)) = Len(b) - 1 /\ \A j \in 1 .. Len(b) - 1 : Parent(b)[j] = b[j]
      BY <2>3, <3>2, ParentFacts, Zenon
    <3>4. \A k \in Nat : \A j \in 1 .. k : j = k - 1 => j \in 1 .. k - 1
      OBVIOUS
    <3> QED BY <2>3, <2>5, <3>3, <3>4, Zenon
  <2>7. PICK s, t : s = b[i].time /\ t = b[Len(b)].time
    BY Zenon
  <2>8. HeaderOf(Parent(b)).time = s /\ HeaderOf(b).time = t
    BY <2>6, <2>7 DEF HeaderOf
  <2>9. s \in Nat /\ t \in Nat /\ Slot(s) /\ Slot(t)
    BY <2>1, <2>5, <2>7, SlotTimes, Zenon
  <2>10. s < t
    BY <2>3, <2>5, <2>7, ExactTimes, Zenon
  <2>11. s + ProducerInterval <= t
    BY <2>9, <2>10, SlotFacts
  <2>12. VerifySeal(b)
    <3>1. CASE i = 1
      BY <2>5, <3>1 DEF VerifySeal, Number
    <3>2. CASE i # 1
      <4>1. HeaderOf(Parent(b)).ctx.validators = <<HeaderOf(b).validator>>
        BY <2>4, <2>6, <3>2, Zenon DEF Turn
      <4>2. s <= t
        BY <2>9, <2>10
      <4>3. PICK d \in Nat : t - s = d * ProducerInterval
        BY <2>9, <4>2, SlotFacts
      <4>4. t - s \in Nat
        BY <2>9, <4>2
      <4>5. ((t - s) % EpochInterval) % ProducerInterval = 0
        BY <4>3, <4>4, EpochSlot
      <4>6. GetProducer(HeaderOf(Parent(b)).ctx, t, s) = HeaderOf(b).validator
        <5>1. PICK c, m : c = HeaderOf(Parent(b)).ctx /\ m = HeaderOf(b).validator
          BY Zenon
        <5>2. c.validators = <<m>>
          BY <4>1, <5>1, Zenon
        <5>3. GetProducer(c, t, s) = m
          BY <2>9, <4>2, <4>5, <5>2, SoleProducer
        <5> QED BY <5>1, <5>3, Zenon
      <4> QED BY <2>8, <4>6 DEF VerifySeal
    <3> QED BY <3>1, <3>2
  <2>13. HeaderOf(b).time \in Nat /\ GenesisTime <= HeaderOf(b).time
    BY <2>1, <2>5, SlotTimes, Zenon DEF HeaderOf
  <2>14. \A n \in Node : b \notin known[n] => ProcessBlock(Number(head[n]), b)
    BY <1>1, <2>13, ExecutesAnywhere, Zenon
  <2> QED BY <2>8, <2>11, <2>12, <2>14, Zenon
<1>2. IInv /\ KInv /\ (Started => CInv) => (Started => PeersAccept)
  BY <1>1
<1> QED BY <1>2, Inductive, KInvAlways, CInvAlways, PTL
=============================================================================
