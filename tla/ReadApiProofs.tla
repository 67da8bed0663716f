--------------------------- MODULE ReadApiProofs ----------------------------
(***************************************************************************)
(* What the proofs about the node and about check_chain share: facts about *)
(* blocks, about INSERT, and about the order in which the rows of a table  *)
(* come back.                                                              *)
(***************************************************************************)
EXTENDS ReadApi, FiniteSetTheorems, TLAPS

-----------------------------------------------------------------------------
(***************************************************************************)
(* Facts about the values of the chain library.                            *)
(***************************************************************************)

(* Two blocks with the same digest have the same header. *)
LEMMA DigestInjective ==
    ASSUME NEW a, NEW b, BlockDigest(a) = BlockDigest(b)
    PROVE  /\ a.blk_num = b.blk_num
           /\ a.prior_hash = b.prior_hash
           /\ a.time_point = b.time_point
           /\ a.merkle_root = b.merkle_root
  BY DEF BlockDigest, Sha256

(* A default-constructed block is not a valid block. *)
LEMMA BlankInvalid == ~ BlockValid(BlankBlock)
  BY DEF BlockValid, BlankBlock

(***************************************************************************)
(* What Buffer::build_block returns: a block signed by the producer over   *)
(* the header it carries, after the cached block.                          *)
(***************************************************************************)
LEMMA BuildBlockFacts ==
    ASSUME NEW last, NEW pool, NEW now
    PROVE  LET b == BuildBlock(last, pool, now)
           IN  /\ b = [blk_num |-> b.blk_num, prior_hash |-> b.prior_hash,
                       time_point |-> b.time_point, merkle_root |-> b.merkle_root,
                       sig |-> b.sig, trxs |-> b.trxs]
               /\ b.blk_num = NextNum(last)
               /\ b.prior_hash = PriorHash(last)
               /\ b.time_point = now
               /\ b.trxs = pool
               /\ b.merkle_root = MerkleRoot(pool)
               /\ b.sig = Sign(ProducerKey, BlockDigest(b))
               /\ BlockValid(b)
  <1> DEFINE b  == BuildBlock(last, pool, now)
             hd == [blk_num |-> NextNum(last), prior_hash |-> PriorHash(last),
                    time_point |-> now, merkle_root |-> MerkleRoot(pool),
                    sig |-> BlankSig, trxs |-> pool]
  <1>1. b = [blk_num |-> NextNum(last), prior_hash |-> PriorHash(last),
             time_point |-> now, merkle_root |-> MerkleRoot(pool),
             sig |-> Sign(ProducerKey, BlockDigest(hd)), trxs |-> pool]
    BY DEF BuildBlock
  <1>2. BlockDigest(b) = BlockDigest(hd)
    BY <1>1 DEF BlockDigest
  <1>3. b.sig = Sign(ProducerKey, BlockDigest(b))
    BY <1>1, <1>2
  <1>4. b.sig # BlankSig
    <2>1. DOMAIN b.sig = {"key", "digest"} /\ DOMAIN BlankSig = {"blank"}
      BY <1>3 DEF Sign, BlankSig
    <2> QED BY <2>1
  <1>5. BlockValid(b)
    <2>1. Recover(b.sig, BlockDigest(b)) = ProducerKey
      BY <1>3 DEF Recover, Sign
    <2> QED BY <1>4, <2>1 DEF BlockValid
  <1> HIDE DEF b, hd
  <1>6. /\ b = [blk_num |-> b.blk_num, prior_hash |-> b.prior_hash,
                time_point |-> b.time_point, merkle_root |-> b.merkle_root,
                sig |-> b.sig, trxs |-> b.trxs]
        /\ b.blk_num = NextNum(last) /\ b.prior_hash = PriorHash(last)
        /\ b.time_point = now /\ b.trxs = pool
        /\ b.merkle_root = MerkleRoot(pool)
    BY <1>1
  <1> QED BY <1>3, <1>5, <1>6 DEF b

(* INSERT adds one row and keeps the others. *)
LEMMA InsertFacts ==
    ASSUME NEW t, NEW b, KeyFree(t, b)
    PROVE  /\ DOMAIN Insert(t, b) = DOMAIN t \cup {b.blk_num}
           /\ Insert(t, b)[b.blk_num] = BlockRow(b)
           /\ \A id \in DOMAIN t : Insert(t, b)[id] = t[id]
  BY DEF Insert, KeyFree

-----------------------------------------------------------------------------
(***************************************************************************)
(* ORDER BY: the members of a finite set of numbers and their ranks.       *)
(***************************************************************************)
Smaller(S, n) == {m \in S : m < n}

(* The rank of a member is below the size of the set, and grows with it. *)
LEMMA RankFacts ==
    ASSUME NEW S \in SUBSET Nat, IsFiniteSet(S)
    PROVE  /\ Cardinality(S) \in Nat
           /\ \A n \in S : /\ Cardinality(Smaller(S, n)) \in Nat
                           /\ Cardinality(Smaller(S, n)) < Cardinality(S)
           /\ \A m, n \in S : m < n => Cardinality(Smaller(S, m)) < Cardinality(Smaller(S, n))
  <1>1. ASSUME NEW T, IsFiniteSet(T), NEW U \in SUBSET T, U # T
        PROVE  /\ IsFiniteSet(U) /\ Cardinality(U) \in Nat /\ Cardinality(T) \in Nat
               /\ Cardinality(U) < Cardinality(T)
    BY <1>1, FS_Subset, FS_CardinalityType
  <1>2. ASSUME NEW n \in S
        PROVE  /\ Smaller(S, n) \in SUBSET S /\ Smaller(S, n) # S
               /\ IsFiniteSet(Smaller(S, n))
    <2>1. Smaller(S, n) \in SUBSET S /\ n \notin Smaller(S, n)
      BY DEF Smaller
    <2> QED BY <2>1, FS_Subset
  <1>3. ASSUME NEW m \in S, NEW n \in S, m < n
        PROVE  Smaller(S, m) \in SUBSET Smaller(S, n) /\ Smaller(S, m) # Smaller(S, n)
    <2>1. m \in Smaller(S, n) /\ m \notin Smaller(S, m)
      BY <1>3 DEF Smaller
    <2>2. \A k \in Smaller(S, m) : k \in Smaller(S, n)
      BY <1>3 DEF Smaller
    <2> QED BY <2>1, <2>2
  <1>4. Cardinality(S) \in Nat
    BY FS_CardinalityType
  <1>5. ASSUME NEW n \in S
        PROVE  /\ Cardinality(Smaller(S, n)) \in Nat
               /\ Cardinality(Smaller(S, n)) < Cardinality(S)
    BY <1>1, <1>2
  <1>6. ASSUME NEW m \in S, NEW n \in S, m < n
        PROVE  Cardinality(Smaller(S, m)) < Cardinality(Smaller(S, n))
    BY <1>1, <1>2, <1>3, <1>6
  <1> QED BY <1>4, <1>5, <1>6

(* No two members have the same rank. *)
LEMMA RankInjective ==
    ASSUME NEW S \in SUBSET Nat, IsFiniteSet(S), NEW m \in S, NEW n \in S,
           Cardinality(Smaller(S, m)) = Cardinality(Smaller(S, n))
    PROVE  m = n
  <1>1. ~ (m < n) /\ ~ (n < m)
    BY RankFacts
  <1> QED BY <1>1

(* Every rank is taken: the ranks are as many as the members. *)
LEMMA RankTaken ==
    ASSUME NEW S \in SUBSET Nat, IsFiniteSet(S), NEW i \in 1 .. Cardinality(S)
    PROVE  \E n \in S : Cardinality(Smaller(S, n)) = i - 1
  <1> DEFINE N == Cardinality(S)
             R == 0 .. N - 1
             rank == [n \in S |-> Cardinality(Smaller(S, n))]
  <1>1. N \in Nat /\ i \in Nat /\ i - 1 \in R
    BY RankFacts
  <1>2. IsFiniteSet(R) /\ Cardinality(R) = N
    BY <1>1, FS_Interval
  <1>3. rank \in [S -> R]
    BY <1>1, RankFacts
  <1>4. rank \in Injection(S, R)
    BY <1>3, RankInjective DEF Injection, IsInjective
  <1>5. rank \in Surjection(S, R)
    BY <1>2, <1>4, FS_Injection
  <1>6. \E n \in S : rank[n] = i - 1
    BY <1>1, <1>5 DEF Surjection
  <1> QED BY <1>6

(* So the i-th member exists, is the only one of its rank, and is ordered. *)
LEMMA NthFacts ==
    ASSUME NEW S \in SUBSET Nat, IsFiniteSet(S), NEW i \in 1 .. Cardinality(S)
    PROVE  /\ Nth(S, i) \in S
           /\ Cardinality(Smaller(S, Nth(S, i))) = i - 1
  <1>1. \E n \in S : Cardinality({m \in S : m < n}) = i - 1
    BY RankTaken DEF Smaller
  <1> QED BY <1>1 DEF Nth, Smaller

(* The member of which i - 1 members are smaller is the i-th. *)
LEMMA NthOfRank ==
    ASSUME NEW S \in SUBSET Nat, IsFiniteSet(S), NEW n \in S
    PROVE  /\ Cardinality(Smaller(S, n)) + 1 \in 1 .. Cardinality(S)
           /\ Nth(S, Cardinality(Smaller(S, n)) + 1) = n
  <1> DEFINE i == Cardinality(Smaller(S, n)) + 1
  <1>1. i \in 1 .. Cardinality(S) /\ i - 1 = Cardinality(Smaller(S, n))
    BY RankFacts
  <1>2. Nth(S, i) \in S /\ Cardinality(Smaller(S, Nth(S, i))) = i - 1
    BY <1>1, NthFacts
  <1>3. Nth(S, i) = n
    <2>1. PICK k \in S : k = Nth(S, i)
      BY <1>2
    <2>2. Cardinality(Smaller(S, k)) = Cardinality(Smaller(S, n))
      BY <1>1, <1>2, <2>1
    <2>3. k = n
      BY <2>2, RankInjective
    <2> QED BY <2>1, <2>3
  <1> QED BY <1>1, <1>3

(* The member before the i-th one is the (i-1)-th, and the least is the first. *)
LEMMA NthBefore ==
    ASSUME NEW S \in SUBSET Nat, IsFiniteSet(S), NEW i \in 1 .. Cardinality(S),
           NEW m \in S, m < Nth(S, i), \A k \in S : k <= m \/ k >= Nth(S, i)
    PROVE  i > 1 /\ Nth(S, i - 1) = m
  <1>1. PICK n \in S : n = Nth(S, i) /\ Cardinality(Smaller(S, n)) = i - 1
    BY NthFacts
  <1>2. Smaller(S, n) = Smaller(S, m) \cup {m} /\ m \notin Smaller(S, m)
    <2>1. ASSUME NEW k \in S PROVE k < n <=> k < m \/ k = m
      <3>1. k <= m \/ k >= n
        BY <1>1
      <3>2. m < n /\ k \in Nat /\ m \in Nat /\ n \in Nat
        BY <1>1
      <3> QED BY <3>1, <3>2
    <2>2. ~ (m < m)
      OBVIOUS
    <2> QED BY <2>1, <2>2 DEF Smaller
  <1>3. IsFiniteSet(Smaller(S, m))
    <2>1. Smaller(S, m) \in SUBSET S
      BY DEF Smaller
    <2> QED BY <2>1, FS_Subset
  <1>4. Cardinality(Smaller(S, n)) = Cardinality(Smaller(S, m)) + 1
    BY <1>2, <1>3, FS_AddElement
  <1>5. Cardinality(Smaller(S, m)) \in Nat /\ Cardinality(S) \in Nat
    BY <1>3, FS_CardinalityType
  <1>6. i > 1 /\ i - 1 = Cardinality(Smaller(S, m)) + 1
    BY <1>1, <1>4, <1>5
  <1>7. Nth(S, Cardinality(Smaller(S, m)) + 1) = m
    BY NthOfRank
  <1> QED BY <1>6, <1>7

(* In particular for a member n whose n - 1 is a member too. *)
LEMMA NthAfter ==
    ASSUME NEW S \in SUBSET Nat, IsFiniteSet(S), NEW i \in 1 .. Cardinality(S),
           Nth(S, i) - 1 \in S
    PROVE  i > 1 /\ Nth(S, i - 1) = Nth(S, i) - 1
  <1>1. PICK n \in S : n = Nth(S, i)
    BY NthFacts
  <1>2. PICK m \in S : m = n - 1
    BY <1>1
  <1>3. m < n /\ \A k \in S : k <= m \/ k >= n
    BY <1>2
  <1> QED BY <1>1, <1>2, <1>3, NthBefore

(* A member below which there is none is the first. *)
LEMMA NthFirst ==
    ASSUME NEW S \in SUBSET Nat, IsFiniteSet(S), NEW i \in 1 .. Cardinality(S),
           \A k \in S : k >= Nth(S, i)
    PROVE  i = 1
  <1>1. PICK n \in S : n = Nth(S, i) /\ Cardinality(Smaller(S, n)) = i - 1
    BY NthFacts
  <1>2. ASSUME NEW k \in S PROVE ~ (k < n)
    BY <1>1
  <1>3. Smaller(S, n) = {}
    BY <1>2 DEF Smaller
  <1>4. Cardinality(S) \in Nat
    BY FS_CardinalityType
  <1> QED BY <1>1, <1>3, <1>4, FS_EmptySet

-----------------------------------------------------------------------------
(***************************************************************************)
(* get_all_blocks and check_chain on a table.                              *)
(***************************************************************************)
IsTable(t) == DOMAIN t \subseteq Nat /\ IsFiniteSet(DOMAIN t)

(* The blocks come back in the order of their IDs. *)
LEMMA AllBlocksFacts ==
    ASSUME NEW t, IsTable(t)
    PROVE  /\ GetBlockCount(t) \in Nat
           /\ DOMAIN GetAllBlocks(t) = 1 .. GetBlockCount(t)
           /\ \A i \in 1 .. GetBlockCount(t) :
                 /\ Nth(DOMAIN t, i) \in DOMAIN t
                 /\ GetAllBlocks(t)[i] = FromJson(t[Nth(DOMAIN t, i)].JSON)
           /\ \A id \in DOMAIN t : \E i \in 1 .. GetBlockCount(t) : Nth(DOMAIN t, i) = id
  <1> DEFINE D == DOMAIN t
  <1>1. D \in SUBSET Nat /\ IsFiniteSet(D)
    BY DEF IsTable
  <1>2. GetBlockCount(t) \in Nat
    BY <1>1, FS_CardinalityType DEF GetBlockCount
  <1>3. DOMAIN GetAllBlocks(t) = 1 .. GetBlockCount(t)
    BY DEF GetAllBlocks
  <1>4. \A i \in 1 .. GetBlockCount(t) :
           GetAllBlocks(t)[i] = FromJson(t[Nth(D, i)].JSON)
    BY DEF GetAllBlocks
  <1> HIDE DEF D
  <1>5. \A i \in 1 .. Cardinality(D) : Nth(D, i) \in D
    BY <1>1, NthFacts
  <1>6. \A id \in D : \E i \in 1 .. Cardinality(D) : Nth(D, i) = id
    BY <1>1, NthOfRank
  <1> QED BY <1>2, <1>3, <1>4, <1>5, <1>6 DEF D, GetBlockCount

(* check_chain answers 0 or -1, and 0 exactly if no block fails. *)
LEMMA CheckResult ==
    ASSUME NEW t
    PROVE  LET blocks == GetAllBlocks(t)
           IN  /\ check_chain(t).result = 0 <=> \A i \in DOMAIN blocks : ~ FailsAt(blocks, i)
               /\ check_chain(t).result \in {0, -1}
  BY DEF check_chain, CheckBlocks
=============================================================================
