----------------------------- MODULE AtaProofs -----------------------------
(***************************************************************************)
(* Proofs about the block cache and the ATA driver, for any number of       *)
(* blocks, processes, channels, drives and sectors.  The invariant of the   *)
(* driver follows one interrupt on its way from the controller over the     *)
(* handler and the deferred mutex to the process that has the lock; with    *)
(* it, and with what the block cache keeps by itself, the cache is coherent *)
(* with the disks.                                                          *)
(***************************************************************************)
EXTENDS Ata, TLAPS

-----------------------------------------------------------------------------
(* The block cache.                                                         *)

\* Every key has a bucket.
LEMMA BucketKnown ==
    ASSUME SomeBlock, NEW k \in Nat
    PROVE  Bucket(k) \in 0..blocks * 2 - 1
  BY DEF SomeBlock, Bucket

\* block_if_present finds the block of a key, if there is one.
LEMMA Lookup ==
    ASSUME SomeBlock, CacheInv, NEW k \in Nat \ {0}
    PROVE  /\ block_if_present(k) \in Blocks \cup {NoBlock}
           /\ \A b \in Blocks : key[b] = k <=> block_if_present(k) = b
  <1> DEFINE chain == hash_table[Bucket(k)]
             hits == {i \in DOMAIN chain : key[chain[i]] = k}
  <1>1. Bucket(k) \in DOMAIN hash_table /\ chain \in Seq(Blocks)
    BY BucketKnown, Zenon DEF CacheInv, CacheTypeOK
  <1>2. NoBlock \notin Blocks
    BY DEF NoBlock, Blocks
  <1>3. \A b \in Blocks : key[b] = k => \E i \in hits : chain[i] = b
    BY DEF CacheInv, ChainsFollowFreeList, ChainsExact
  <1>4. CASE hits = {}
    <2>1. block_if_present(k) = NoBlock
      BY <1>4 DEF block_if_present
    <2> QED BY <1>2, <1>3, <1>4, <2>1
  <1>5. CASE hits # {}
    <2>1. PICK i \in hits : TRUE
      BY <1>5
    <2>2. DOMAIN free_list = Blocks /\ blocks \in Nat /\ Blocks = 1..blocks
      BY DEF CacheInv, CacheTypeOK, SomeBlock, Blocks
    <2>3. \A a \in Blocks : ~Before(a, a)
      BY <2>2 DEF Before, CacheInv, FreeListExact
    <2>4. \A j \in hits : j = i
      <3> TAKE j \in hits
      <3>1. chain[i] = chain[j] /\ chain[i] \in Blocks /\ i \in Nat /\ j \in Nat
        BY <1>1, <2>1 DEF CacheInv, CacheIsMap
      <3>2. ~(i < j) /\ ~(j < i)
        BY <1>1, <2>1, <2>3, <3>1 DEF CacheInv, ChainsFollowFreeList
      <3> QED BY <3>1, <3>2
    <2>5. i \in Nat /\ hits = {i}
      BY <1>1, <2>1, <2>4
    <2>6. (CHOOSE j \in hits : \A m \in hits : j =< m) = i
      BY <2>5
    <2>7. block_if_present(k) = chain[i]
      BY <1>5, <2>6, Zenon DEF block_if_present
    <2>8. block_if_present(k) \in Blocks /\ key[block_if_present(k)] = k
      BY <1>1, <2>1, <2>7
    <2>9. \A b \in Blocks : key[b] = k => b = block_if_present(k)
      BY <2>8 DEF CacheInv, CacheIsMap
    <2> QED BY <1>2, <2>8, <2>9
  <1> QED BY <1>4, <1>5

\* The front of the free list is the first block of its chain, and only there.
LEMMA FrontIsFirst ==
    ASSUME SomeBlock, CacheInv, NEW b, b = Head(free_list)
    PROVE  /\ b \in Blocks /\ free_list[1] = b
           /\ \A h \in DOMAIN hash_table : \A i \in DOMAIN hash_table[h] :
                  hash_table[h][i] = b <=> (key[b] # 0 /\ h = Bucket(key[b]) /\ i = 1)
           /\ key[b] # 0 => /\ Bucket(key[b]) \in DOMAIN hash_table
                            /\ hash_table[Bucket(key[b])] # <<>> /\ Head(hash_table[Bucket(key[b])]) = b
  <1>1. b \in Blocks /\ free_list[1] = b /\ 1 \in Blocks
    BY DEF SomeBlock, CacheInv, CacheTypeOK, Blocks
  <1>2. \A a \in Blocks : ~Before(a, b)
    BY <1>1 DEF Before, CacheInv, CacheTypeOK, FreeListExact, Blocks
  <1>3. ASSUME NEW h \in DOMAIN hash_table, NEW i \in DOMAIN hash_table[h], hash_table[h][i] = b
        PROVE  key[b] # 0 /\ h = Bucket(key[b]) /\ i = 1
    <2>1. key[b] # 0 /\ h = Bucket(key[b])
      BY <1>3 DEF CacheInv, ChainsFollowFreeList, ChainsExact
    <2>2. hash_table[h] \in Seq(Blocks)
      BY Zenon DEF CacheInv, CacheTypeOK
    <2>3. i > 1 => Before(hash_table[h][1], b)
      BY <1>3, <2>2 DEF CacheInv, ChainsFollowFreeList
    <2> QED BY <1>2, <2>1, <2>2, <2>3
  <1>4. ASSUME key[b] # 0
        PROVE  /\ Bucket(key[b]) \in DOMAIN hash_table
               /\ hash_table[Bucket(key[b])] # <<>> /\ Head(hash_table[Bucket(key[b])]) = b
               /\ hash_table[Bucket(key[b])][1] = b
    <2>1. key[b] \in Nat
      BY <1>1 DEF CacheInv, CacheTypeOK
    <2>2. Bucket(key[b]) \in DOMAIN hash_table /\ hash_table[Bucket(key[b])] \in Seq(Blocks)
      BY <2>1, BucketKnown, Zenon DEF CacheInv, CacheTypeOK
    <2>3. PICK i \in DOMAIN hash_table[Bucket(key[b])] : hash_table[Bucket(key[b])][i] = b
      BY <1>1, <1>4 DEF CacheInv, ChainsFollowFreeList, ChainsExact
    <2>4. i = 1
      BY <1>3, <2>2, <2>3
    <2> QED BY <2>2, <2>3, <2>4
  <1> QED BY <1>1, <1>3, <1>4

\* The front block goes to the end of the free list: all the others keep their
\* order and are before it.
LEMMA FrontToRear ==
    ASSUME SomeBlock, CacheInv, NEW b, b = Head(free_list), free_list' = Append(Tail(free_list), b)
    PROVE  /\ free_list' \in Seq(Blocks) /\ Len(free_list') = blocks /\ FreeListExact'
           /\ \A a, c \in Blocks \ {b} : Before(a, c) => Before(a, c)'
           /\ \A a \in Blocks \ {b} : Before(a, b)'
  <1>1. free_list \in Seq(Blocks) /\ Len(free_list) = blocks /\ b \in Blocks /\ free_list[1] = b
    BY FrontIsFirst DEF CacheInv, CacheTypeOK
  <1>2. free_list' \in Seq(Blocks) /\ Len(free_list') = blocks
    BY <1>1 DEF SomeBlock
  <1>3. free_list'[blocks] = b /\ \A i \in 1..blocks - 1 : free_list'[i] = free_list[i + 1]
    BY <1>1 DEF SomeBlock
  <1>4. DOMAIN free_list = Blocks /\ DOMAIN free_list' = Blocks
    BY <1>1, <1>2 DEF Blocks
  <1>5. \A a \in Blocks \ {b} : \E i \in 1..blocks - 1 : free_list[i + 1] = a /\ free_list'[i] = a
    <2> SUFFICES ASSUME NEW a \in Blocks \ {b}
                 PROVE  \E i \in 1..blocks - 1 : free_list[i + 1] = a /\ free_list'[i] = a
      BY Zenon
    <2>1. PICK j \in Blocks : free_list[j] = a
      BY DEF CacheInv, FreeListExact
    <2>2. j - 1 \in 1..blocks - 1 /\ free_list[(j - 1) + 1] = a
      BY <1>1, <2>1 DEF Blocks, SomeBlock
    <2> QED BY <1>3, <2>2, Zenon
  <1>6. FreeListExact'
    <2>0. blocks \in Blocks /\ 1..blocks - 1 \subseteq Blocks
      BY DEF Blocks, SomeBlock
    <2>1. \A a \in Blocks : \E i \in Blocks : free_list'[i] = a
      BY <1>3, <1>5, <2>0, Zenon
    <2>2. \A i, j \in Blocks : free_list[i] = free_list[j] => i = j
      BY DEF CacheInv, FreeListExact
    <2>3. ASSUME NEW i \in Blocks, NEW j \in Blocks, free_list'[i] = free_list'[j] PROVE i = j
      <3>0. \A x \in Blocks : x # blocks => x \in 1..blocks - 1 /\ x + 1 \in Blocks /\ x + 1 # 1
        BY DEF Blocks, SomeBlock
      <3>1. \A x \in Blocks : x # blocks => x + 1 \in Blocks /\ free_list'[x] = free_list[x + 1] /\ x + 1 # 1
        BY <1>3, <3>0, Zenon
      <3>2. 1 \in Blocks
        BY DEF Blocks, SomeBlock
      <3>3. CASE i # blocks /\ j # blocks
        <4>0. free_list[i + 1] = free_list[j + 1] /\ i + 1 \in Blocks /\ j + 1 \in Blocks
          BY <2>3, <3>1, <3>3, Zenon
        <4>1. i + 1 = j + 1
          BY <2>2, <4>0, Zenon
        <4> QED BY <4>1 DEF Blocks
      <3>4. CASE i = blocks \/ j = blocks
        <4>1. \A x \in Blocks : x # blocks => free_list'[x] # b
          <5> SUFFICES ASSUME NEW x \in Blocks, x # blocks, free_list'[x] = b PROVE FALSE
            BY Zenon
          <5>1. free_list[x + 1] = free_list[1] /\ x + 1 \in Blocks /\ x + 1 # 1
            BY <1>1, <3>1, Zenon
          <5> QED BY <2>2, <3>2, <5>1, Zenon
        <4>2. free_list'[blocks] = b
          BY <1>3, Zenon
        <4> QED BY <2>3, <3>4, <4>1, <4>2, Zenon
      <3> QED BY <3>3, <3>4
    <2> QED BY <2>1, <2>3, Zenon DEF FreeListExact
  <1>7. ASSUME NEW a \in Blocks \ {b}, NEW c \in Blocks \ {b}, Before(a, c) PROVE Before(a, c)'
    <2>1. PICK i \in Blocks, j \in Blocks : i < j /\ free_list[i] = a /\ free_list[j] = c
      BY <1>4, <1>7 DEF Before
    <2>2. i - 1 \in 1..blocks - 1 /\ j - 1 \in 1..blocks - 1 /\ (i - 1) + 1 = i /\ (j - 1) + 1 = j
      BY <1>1, <2>1 DEF Blocks, SomeBlock
    <2>3. free_list'[i - 1] = a /\ free_list'[j - 1] = c
      BY <1>3, <2>1, <2>2, Zenon
    <2>4. i - 1 \in DOMAIN free_list' /\ j - 1 \in DOMAIN free_list' /\ i - 1 < j - 1
      BY <1>4, <2>1, <2>2 DEF Blocks, SomeBlock
    <2> QED BY <2>3, <2>4 DEF Before
  <1>8. ASSUME NEW a \in Blocks \ {b} PROVE Before(a, b)'
    <2>1. PICK i \in 1..blocks - 1 : free_list'[i] = a
      BY <1>5, Zenon
    <2>2. i \in DOMAIN free_list' /\ blocks \in DOMAIN free_list' /\ i < blocks
      BY <1>4, <2>1 DEF Blocks, SomeBlock
    <2> QED BY <1>3, <2>1, <2>2 DEF Before
  <1> QED BY <1>2, <1>6, <1>7, <1>8

\* The chains without the front block: nothing else is lost, and no order.
LEMMA ChainsWithoutFront ==
    ASSUME SomeBlock, CacheInv, NEW b, b = Head(free_list)
    PROVE  /\ Unchained(b) \in [0..blocks * 2 - 1 -> Seq(Blocks)]
           /\ key[b] # 0 => Head(hash_table[Bucket(key[b])]) = b
           /\ \A h \in 0..blocks * 2 - 1 :
                /\ \A i \in DOMAIN Unchained(b)[h] : Unchained(b)[h][i] # b
                /\ \A i \in DOMAIN Unchained(b)[h] :
                       key[Unchained(b)[h][i]] # 0 /\ Bucket(key[Unchained(b)[h][i]]) = h
                /\ \A i, j \in DOMAIN Unchained(b)[h] :
                       i < j => Before(Unchained(b)[h][i], Unchained(b)[h][j])
                /\ \A a \in Blocks \ {b} : (key[a] # 0 /\ Bucket(key[a]) = h) =>
                       \E i \in DOMAIN Unchained(b)[h] : Unchained(b)[h][i] = a
  <1> DEFINE U == Unchained(b)
             off(h) == IF key[b] # 0 /\ h = Bucket(key[b]) THEN 1 ELSE 0
  <1>1. hash_table \in [0..blocks * 2 - 1 -> Seq(Blocks)] /\ b \in Blocks
    BY FrontIsFirst DEF CacheInv, CacheTypeOK
  <1>2. key[b] # 0 => /\ Bucket(key[b]) \in DOMAIN hash_table
                      /\ hash_table[Bucket(key[b])] # <<>> /\ Head(hash_table[Bucket(key[b])]) = b
    BY FrontIsFirst
  <1>3. U = IF key[b] = 0 THEN hash_table
            ELSE [hash_table EXCEPT ![Bucket(key[b])] = Tail(hash_table[Bucket(key[b])])]
    BY <1>1, <1>2 DEF Unchained
  <1>4. U \in [0..blocks * 2 - 1 -> Seq(Blocks)]
    <2>1. CASE key[b] = 0
      BY <1>1, <1>3, <2>1
    <2>2. CASE key[b] # 0
      <3>1. hash_table[Bucket(key[b])] \in Seq(Blocks) /\ hash_table[Bucket(key[b])] # <<>>
        BY <1>1, <1>2, <2>2
      <3>2. Tail(hash_table[Bucket(key[b])]) \in Seq(Blocks)
        BY <3>1
      <3>3. U = [hash_table EXCEPT ![Bucket(key[b])] = Tail(hash_table[Bucket(key[b])])]
        BY <1>3, <2>2
      <3> QED BY <1>1, <3>2, <3>3, Zenon
    <2> QED BY <2>1, <2>2
  <1>5. ASSUME NEW h \in 0..blocks * 2 - 1
        PROVE  /\ \A i \in DOMAIN U[h] : i + off(h) \in DOMAIN hash_table[h] /\ U[h][i] = hash_table[h][i + off(h)]
               /\ \A i \in DOMAIN hash_table[h] : i # off(h) => i - off(h) \in DOMAIN U[h] /\ (i - off(h)) + off(h) = i
    <2>1. hash_table[h] \in Seq(Blocks)
      BY <1>1
    <2>2. CASE key[b] # 0 /\ h = Bucket(key[b])
      <3>1. U[h] = Tail(hash_table[h]) /\ off(h) = 1 /\ hash_table[h] # <<>>
        BY <1>1, <1>2, <1>3, <2>2, Zenon
      <3>2. /\ DOMAIN hash_table[h] = 1..Len(hash_table[h]) /\ DOMAIN U[h] = 1..Len(hash_table[h]) - 1
            /\ Len(hash_table[h]) \in Nat
            /\ \A i \in 1..Len(hash_table[h]) - 1 : U[h][i] = hash_table[h][i + 1]
        <4> HIDE DEF U, off
        <4> QED BY <2>1, <3>1
      <3> HIDE DEF U, off
      <3> QED BY <3>1, <3>2
    <2>3. CASE ~(key[b] # 0 /\ h = Bucket(key[b]))
      <3>1. U[h] = hash_table[h] /\ off(h) = 0
        BY <1>1, <1>3, <2>3, Zenon
      <3> QED BY <2>1, <3>1
    <2> QED BY <2>2, <2>3
  <1>6. \A h \in 0..blocks * 2 - 1 : off(h) \in {0, 1} /\ DOMAIN U[h] \subseteq Nat \ {0}
    <2>1. \A h \in 0..blocks * 2 - 1 : off(h) \in {0, 1}
      OBVIOUS
    <2> HIDE DEF U, off
    <2> QED BY <1>4, <2>1
  <1>7. \A h \in 0..blocks * 2 - 1 : \A i \in DOMAIN hash_table[h] :
            hash_table[h][i] = b <=> (off(h) = 1 /\ i = 1)
    BY <1>1, FrontIsFirst
  <1> HIDE DEF U, off
  <1>8. ASSUME NEW h \in 0..blocks * 2 - 1
        PROVE  /\ \A i \in DOMAIN U[h] : U[h][i] # b /\ key[U[h][i]] # 0 /\ Bucket(key[U[h][i]]) = h
               /\ \A i, j \in DOMAIN U[h] : i < j => Before(U[h][i], U[h][j])
               /\ \A a \in Blocks \ {b} : (key[a] # 0 /\ Bucket(key[a]) = h) => \E i \in DOMAIN U[h] : U[h][i] = a
    <2>1. \A i \in DOMAIN U[h] : U[h][i] # b
      BY <1>5, <1>6, <1>7
    <2>2. h \in DOMAIN hash_table
      BY <1>1
    <2>3. \A i \in DOMAIN U[h] : key[U[h][i]] # 0 /\ Bucket(key[U[h][i]]) = h
      BY <1>5, <2>2 DEF CacheInv, ChainsFollowFreeList, ChainsExact
    <2>4. ASSUME NEW i \in DOMAIN U[h], NEW j \in DOMAIN U[h], i < j
          PROVE  Before(U[h][i], U[h][j])
      <3>1. i + off(h) < j + off(h)
        BY <1>6, <2>4
      <3> QED BY <1>5, <2>2, <3>1 DEF CacheInv, ChainsFollowFreeList
    <2>5. ASSUME NEW a \in Blocks \ {b}, key[a] # 0, Bucket(key[a]) = h
          PROVE  \E i \in DOMAIN U[h] : U[h][i] = a
      <3>1. PICK i \in DOMAIN hash_table[h] : hash_table[h][i] = a
        BY <2>5 DEF CacheInv, ChainsFollowFreeList, ChainsExact
      <3>2. i # off(h)
        BY <1>1, <1>6, <1>7, <3>1
      <3> QED BY <1>5, <3>1, <3>2
    <2> QED BY <2>1, <2>3, <2>4, <2>5
  <1> QED BY <1>2, <1>4, <1>8 DEF U

\* A block that is filled with a new key.
LEMMA FillStep ==
    ASSUME SomeBlock, CacheInv, NEW k \in Nat \ {0}, \A b \in Blocks : key[b] # k, fill(k)
    PROVE  CacheInv' /\ Head(free_list) \in Blocks /\ key' = [key EXCEPT ![Head(free_list)] = k]
  <1>0. PICK b : b = Head(free_list)
    OBVIOUS
  <1> DEFINE U == Unchained(b)
             B == Bucket(k)
             H == 0..blocks * 2 - 1
  <1>1. /\ chain_assert' = (chain_assert \/ (key[b] # 0 /\ Head(hash_table[Bucket(key[b])]) # b))
        /\ hash_table' = [U EXCEPT ![B] = Append(U[B], b)]
        /\ key' = [key EXCEPT ![b] = k]
        /\ free_list' = Append(Tail(free_list), b)
    BY <1>0 DEF fill
  <1>2. b \in Blocks
    BY <1>0, FrontIsFirst
  <1>3. /\ free_list' \in Seq(Blocks) /\ Len(free_list') = blocks /\ FreeListExact'
        /\ \A a, c \in Blocks \ {b} : Before(a, c) => Before(a, c)'
        /\ \A a \in Blocks \ {b} : Before(a, b)'
    BY <1>0, <1>1, FrontToRear
  <1>4. /\ U \in [H -> Seq(Blocks)]
        /\ key[b] # 0 => Head(hash_table[Bucket(key[b])]) = b
        /\ \A h \in H :
             /\ \A i \in DOMAIN U[h] : U[h][i] # b
             /\ \A i \in DOMAIN U[h] : key[U[h][i]] # 0 /\ Bucket(key[U[h][i]]) = h
             /\ \A i, j \in DOMAIN U[h] : i < j => Before(U[h][i], U[h][j])
             /\ \A a \in Blocks \ {b} : (key[a] # 0 /\ Bucket(key[a]) = h) =>
                    \E i \in DOMAIN U[h] : U[h][i] = a
    BY <1>0, ChainsWithoutFront
  <1>5. B \in H
    BY BucketKnown
  <1>6. key \in [Blocks -> Nat] /\ chain_assert = FALSE
        /\ \A a, c \in Blocks : (key[a] = key[c] /\ key[a] # 0) => a = c
    BY DEF CacheInv, CacheTypeOK, CacheIsMap
  <1> HIDE DEF U
  <1>7. key' \in [Blocks -> Nat] /\ key'[b] = k /\ \A a \in Blocks \ {b} : key'[a] = key[a]
    BY <1>1, <1>2, <1>6
  <1>8. ASSUME NEW h \in H
        PROVE  /\ U[h] \in Seq(Blocks) /\ hash_table'[h] \in Seq(Blocks)
               /\ DOMAIN U[h] \subseteq DOMAIN hash_table'[h] /\ \A i \in DOMAIN U[h] : hash_table'[h][i] = U[h][i]
               /\ \A i \in DOMAIN hash_table'[h] : i \notin DOMAIN U[h] =>
                      h = B /\ i = Len(U[h]) + 1 /\ hash_table'[h][i] = b
               /\ h = B => Len(U[h]) + 1 \in DOMAIN hash_table'[h]
    <2>1. U[h] \in Seq(Blocks)
      BY <1>4
    <2>2. CASE h = B
      <3>1. hash_table'[h] = Append(U[h], b)
        BY <1>1, <1>4, <2>2
      <3> QED BY <1>2, <2>1, <2>2, <3>1
    <2>3. CASE h # B
      <3>1. hash_table'[h] = U[h]
        BY <1>1, <1>4, <2>3
      <3> QED BY <2>1, <2>3, <3>1
    <2> QED BY <2>2, <2>3
  <1>9. hash_table' \in [H -> Seq(Blocks)]
    <2>1. DOMAIN hash_table' = H /\ hash_table' = [h \in H |-> hash_table'[h]]
      BY <1>1, <1>4, Zenon
    <2> QED BY <1>8, <2>1
  <1> HIDE DEF B
  <1>10. CacheTypeOK'
    BY <1>1, <1>3, <1>6, <1>7, <1>9, <1>4 DEF CacheTypeOK
  <1>11. CacheIsMap'
    <2>1. chain_assert' = FALSE
      BY <1>1, <1>4, <1>6, Zenon
    <2>2. \A a, c \in Blocks : (key'[a] = key'[c] /\ key'[a] # 0) => a = c
      BY <1>6, <1>7
    <2> QED BY <2>1, <2>2 DEF CacheIsMap
  <1>12. ChainsExact'
    <2>1. ASSUME NEW h \in H, NEW i \in DOMAIN hash_table'[h]
          PROVE  key'[hash_table'[h][i]] # 0 /\ Bucket(key'[hash_table'[h][i]]) = h
      <3>1. CASE i \in DOMAIN U[h]
        <4>1. hash_table'[h][i] = U[h][i] /\ U[h][i] \in Blocks \ {b}
          BY <1>4, <1>8, <3>1
        <4> QED BY <1>4, <1>7, <3>1, <4>1
      <3>2. CASE i \notin DOMAIN U[h]
        BY <1>7, <1>8, <3>2 DEF B
      <3> QED BY <3>1, <3>2
    <2>2. ASSUME NEW a \in Blocks, key'[a] # 0
          PROVE  \E i \in DOMAIN hash_table'[Bucket(key'[a])] : hash_table'[Bucket(key'[a])][i] = a
      <3>1. CASE a = b
        <4>1. Bucket(key'[a]) = B
          BY <1>7, <3>1 DEF B
        <4>2. Len(U[B]) + 1 \notin DOMAIN U[B]
          BY <1>5, <1>8
        <4> QED BY <1>5, <1>8, <3>1, <4>1, <4>2
      <3>2. CASE a # b
        <4>1. key'[a] = key[a] /\ Bucket(key[a]) \in H
          BY <1>6, <1>7, <3>2, BucketKnown
        <4>2. PICK i \in DOMAIN U[Bucket(key[a])] : U[Bucket(key[a])][i] = a
          BY <1>4, <2>2, <3>2, <4>1
        <4> QED BY <1>8, <4>1, <4>2
      <3> QED BY <3>1, <3>2
    <2>3. DOMAIN hash_table' = H
      BY <1>9
    <2> QED BY <2>1, <2>2, <2>3 DEF ChainsExact
  <1>13. ASSUME NEW h \in H, NEW i \in DOMAIN hash_table'[h], NEW j \in DOMAIN hash_table'[h], i < j,
                NEW a, NEW c, a = hash_table'[h][i], c = hash_table'[h][j]
         PROVE  Before(a, c)'
    <2>1. i \in DOMAIN U[h]
      <3>1. i \in Nat /\ j \in Nat /\ DOMAIN U[h] = 1..Len(U[h]) /\ Len(U[h]) \in Nat /\ 1 <= i
        BY <1>8
      <3>2. j \in DOMAIN U[h] \/ j = Len(U[h]) + 1
        BY <1>8
      <3> QED BY <1>13, <3>1, <3>2
    <2>2. a = U[h][i] /\ U[h][i] \in Blocks \ {b}
      BY <1>4, <1>8, <1>13, <2>1
    <2>3. CASE j \in DOMAIN U[h]
      <3>1. c = U[h][j] /\ U[h][j] \in Blocks \ {b} /\ Before(U[h][i], U[h][j])
        BY <1>4, <1>8, <1>13, <2>1, <2>3
      <3>2. \A x, y \in Blocks \ {b} : Before(x, y) => Before(x, y)'
        BY <1>3
      <3> QED BY <2>2, <3>1, <3>2, Zenon
    <2>4. CASE j \notin DOMAIN U[h]
      <3>1. c = b
        BY <1>8, <1>13, <2>4
      <3> QED BY <1>3, <2>2, <3>1, Zenon
    <2> QED BY <2>3, <2>4
  <1>14. ChainsFollowFreeList'
    <2>1. DOMAIN hash_table' = H
      BY <1>9
    <2>2. \A h \in H : \A i, j \in DOMAIN hash_table'[h] : i < j =>
              \E x, y \in DOMAIN free_list' : x < y /\ free_list'[x] = hash_table'[h][i] /\ free_list'[y] = hash_table'[h][j]
      BY <1>13 DEF Before
    <2> QED BY <1>12, <2>1, <2>2 DEF ChainsFollowFreeList, Before
  <1>15. CacheInv'
    BY <1>3, <1>10, <1>11, <1>14 DEF CacheInv
  <1> QED BY <1>0, <1>1, <1>2, <1>15

\* The cache when it is made.
LEMMA CacheInitInv == ASSUME SomeBlock, CacheInit PROVE CacheInv
  <1>1. free_list = [i \in 1..blocks |-> i] /\ blocks \in Nat
    BY DEF CacheInit, Blocks, SomeBlock
  <1>2. free_list \in Seq(Blocks) /\ Len(free_list) = blocks
    BY <1>1 DEF Blocks
  <1>3. FreeListExact
    BY <1>1 DEF FreeListExact, Blocks
  <1>4. CacheTypeOK
    <2>1. <<>> \in Seq(Blocks) /\ hash_table = [h \in 0..blocks * 2 - 1 |-> <<>>]
      BY DEF CacheInit
    <2>2. hash_table \in [0..blocks * 2 - 1 -> Seq(Blocks)]
      BY <2>1
    <2>3. key \in [Blocks -> Nat] /\ chain_assert \in BOOLEAN
      BY Zenon DEF CacheInit
    <2> QED BY <1>2, <2>2, <2>3 DEF CacheTypeOK
  <1>5. ChainsFollowFreeList /\ CacheIsMap
    BY DEF CacheInit, ChainsFollowFreeList, ChainsExact, CacheIsMap
  <1> QED BY <1>3, <1>4, <1>5 DEF CacheInv

\* block(k) keeps the keys when it finds the block, and otherwise gives the key
\* to one block.
LEMMA BlockStep ==
    ASSUME SomeBlock, CacheInv, NEW k \in Nat \ {0}, block(k)
    PROVE  /\ CacheInv'
           /\ \/ block_if_present(k) # NoBlock /\ UNCHANGED key
              \/ /\ block_if_present(k) = NoBlock
                 /\ \E b \in Blocks : key' = [key EXCEPT ![b] = k]
  <1>1. CASE block_if_present(k) # NoBlock
    <2>1. UNCHANGED <<key, hash_table, free_list, chain_assert>>
      BY <1>1 DEF block, touch
    <2> QED BY <1>1, <2>1
         DEF CacheInv, CacheTypeOK, FreeListExact, ChainsFollowFreeList, ChainsExact, Before, CacheIsMap
  <1>2. CASE block_if_present(k) = NoBlock
    <2>1. fill(k)
      BY <1>2 DEF block
    <2>2. \A b \in Blocks : key[b] # k
      BY <1>2, Lookup DEF NoBlock, Blocks
    <2> QED BY <1>2, <2>1, <2>2, FillStep
  <1> QED BY <1>1, <1>2

\* A step of others.
LEMMA CacheQuiet == ASSUME CacheInv, UNCHANGED cacheVars PROVE CacheInv'
  BY DEF cacheVars, CacheInv, CacheTypeOK, FreeListExact, ChainsFollowFreeList, ChainsExact, Before, CacheIsMap

\* A step of the cache alone keeps its invariant: the keys are not zero.
THEOREM CacheStep ==
    ASSUME SomeBlock, Keys \subseteq Nat \ {0}
    PROVE  CacheInit /\ [][CacheNext]_cacheVars => [](CacheIsMap /\ ChainsFollowFreeList)
  <1>1. CacheInit => CacheInv
    BY CacheInitInv
  <1>2. ASSUME CacheInv, [CacheNext]_cacheVars PROVE CacheInv'
    BY <1>2, BlockStep, CacheQuiet DEF CacheNext
  <1>3. CacheInv => CacheIsMap /\ ChainsFollowFreeList
    BY DEF CacheInv
  <1> QED BY <1>1, <1>2, <1>3, PTL

-----------------------------------------------------------------------------
(* The holder of the lock.                                                  *)

\* A process that is not out works on a channel.
LEMMA MineKnown ==
    ASSUME Arguments, IInv, NEW p \in Proc, pc[p] # "out"
    PROVE  Mine(p) \in Channels
  BY DEF Arguments, IInv, LockHeld, Mine

\* Two processes are never at work at the same time: they would share the lock.
LEMMA AtWork ==
    ASSUME IInv, NEW p \in Proc, pc[p] \in Locked
    PROVE  lock = p /\ \A q \in Proc : pc[q] \in Locked => q = p
  BY DEF IInv, LockHeld

\* AtaInit establishes the invariant.
LEMMA InitInv == ASSUME Arguments, AtaInit PROVE IInv
  <1>1. NoRequest \in Requests /\ Idle \in Commands
    BY DEF NoRequest, Idle, Requests, Commands, Operations
  <1>2. TypeOK
    BY <1>1, Zenon DEF AtaInit, MutexInit, TypeOK
  <1>3. LockHeld /\ WaiterKnown /\ OwnCommand /\ DataComesWithIrq /\ IrqIsNotLost
    BY DEF AtaInit, MutexInit, LockHeld, WaiterKnown, OwnCommand, DataComesWithIrq, IrqIsNotLost, Arguments,
           Locked, Waiting
  <1>4. InStep
    BY DEF AtaInit, MutexInit, InStep, OneSignal, SignalOfOwner, BusyForOwner, Signal, Unblocked, Idle
  <1> QED BY <1>2, <1>3, <1>4 DEF IInv

-----------------------------------------------------------------------------
(* Steps of a process away from its command.                                *)

\* A process that takes the lock, gives it back, looks into the cache or fails
\* leaves the mutexes, the controllers and the interrupts alone.  When no
\* command has gone wrong it has none in progress.
LEMMA QuietStep ==
    ASSUME Arguments, IInv, TypeOK', LockHeld', NEW p \in Proc, NEW l,
           pc' = [pc EXCEPT ![p] = l],
           pc[p] # "reschedule", l \notin {"poll", "wait_irq", "reschedule", "status"},
           faults = 0 => pc[p] \notin {"poll", "wait_irq", "status"},
           \A q \in Proc \ {p} : req'[q] = req[q],
           UNCHANGED <<mutexVars, controller, irq, faults, started, invoked>>
    PROVE  IInv'
  <1> DEFINE Bound == {"poll", "wait_irq", "reschedule", "status"}
  <1>1. \A q \in Proc : pc'[q] \in Bound => q # p /\ pc'[q] = pc[q] /\ Mine(q)' = Mine(q) /\ req'[q] = req[q]
    BY DEF IInv, TypeOK, Mine
  <1>2. \A q \in Proc : pc[q] = "reschedule" => q # p /\ pc'[q] = pc[q] /\ Mine(q)' = Mine(q)
    BY DEF IInv, TypeOK, Mine
  <1>3. WaiterKnown'
    BY <1>1, <1>2 DEF IInv, WaiterKnown, mutexVars, Waiting
  <1>4. OwnCommand' /\ DataComesWithIrq'
    BY <1>1 DEF IInv, OwnCommand, DataComesWithIrq, mutexVars
  <1>5. IrqIsNotLost'
    BY <1>1 DEF IInv, IrqIsNotLost, mutexVars, Waiting
  <1>6. InStep'
    <2> SUFFICES ASSUME faults = 0, NEW c \in Channels
                 PROVE  (OneSignal(c) /\ SignalOfOwner(c) /\ BusyForOwner(c))'
      BY DEF InStep
    <2>1. OneSignal(c) /\ SignalOfOwner(c) /\ BusyForOwner(c)
      BY DEF IInv, InStep
    <2>2. lock \in Proc /\ pc[lock] \in Bound =>
            lock' = lock /\ pc'[lock] = pc[lock] /\ Mine(lock)' = Mine(lock) /\ req'[lock] = req[lock]
      BY Zenon DEF IInv, TypeOK, LockHeld, Locked, Mine
    <2>3. Unblocked(c)' = Unblocked(c)
      <3>1. CASE waiting[c]
        <4>1. PICK q \in Proc : pc[q] = "reschedule" /\ Mine(q) = c
          BY <3>1 DEF IInv, WaiterKnown
        <4>2. lock = q
          BY <4>1 DEF IInv, LockHeld, Locked
        <4> QED BY <2>2, <4>1, <4>2, Zenon DEF Unblocked, mutexVars
      <3>2. CASE ~waiting[c]
        BY <3>2 DEF Unblocked, mutexVars
      <3> QED BY <3>1, <3>2
    <2>4. Signal(c)' = Signal(c)
      BY <2>3 DEF Signal, mutexVars
    <2>5. OneSignal(c)'
      BY <2>1, <2>3 DEF OneSignal, mutexVars
    <2>6. SignalOfOwner(c)'
      BY <2>1, <2>2, <2>4, Zenon DEF SignalOfOwner, Waiting
    <2>7. BusyForOwner(c)'
      BY <2>1, <2>2 DEF BusyForOwner, Waiting
    <2> QED BY <2>5, <2>6, <2>7
  <1> QED BY <1>3, <1>4, <1>5, <1>6 DEF IInv

\* A request that is taken.
LEMMA RequestStep ==
    ASSUME Arguments, IInv, NEW p \in Proc, NEW d \in Drives, NEW start \in PartStart, NEW count \in Counts,
           NEW offset \in Offsets, ata_driver(p, d, start, count, offset)
    PROVE  IInv'
  <1>1. PICK op \in Operations, data \in Data \cup {"zero"} : request(p, op, d, start, count, offset, data)
    BY DEF ata_driver, Operations
  <1> DEFINE r == [op |-> op, drive |-> d, sector |-> offset \div BLOCK_SIZE + start,
                   left |-> (count \div BLOCK_SIZE) % CountValues, data |-> data]
  <1>2. r \in Requests
    <2>1. offset \div BLOCK_SIZE + start \in Nat /\ (count \div BLOCK_SIZE) % CountValues \in Int
      BY DEF Arguments
    <2> QED BY <2>1 DEF Requests
  <1>3. req' = [req EXCEPT ![p] = r] /\ pc' = [pc EXCEPT ![p] = "next"] /\ pc[p] = "out" /\ lock' = lock
        /\ UNCHANGED <<mutexVars, controller, irq, faults, started, invoked>>
    BY <1>1 DEF request, Goto, At, diskVars
  <1>4. r.drive \in Drives
    OBVIOUS
  <1> HIDE DEF r
  <1>5. TypeOK'
    BY <1>2, <1>3 DEF IInv, TypeOK, mutexVars
  <1>6. LockHeld'
    BY <1>3, <1>4 DEF IInv, TypeOK, LockHeld, Locked
  <1>7. \A q \in Proc \ {p} : req'[q] = req[q]
    BY <1>3 DEF IInv, TypeOK
  <1> QED BY <1>3, <1>5, <1>6, <1>7, QuietStep, Zenon

\* The lock is taken for the next sector, or there is none left.
LEMMA NextSectorStep ==
    ASSUME Arguments, IInv, NEW p \in Proc, next_sector(p)
    PROVE  IInv'
  <1>1. CASE lock = nobody /\ lock' = p /\ pc' = [pc EXCEPT ![p] = "cache"] /\ req' = req
    <2>1. pc[p] = "next" /\ UNCHANGED <<mutexVars, controller, irq, faults, started, invoked>>
      BY DEF next_sector, At, diskVars
    <2>2. TypeOK'
      BY <1>1, <2>1 DEF IInv, TypeOK, mutexVars, Locked
    <2>3. LockHeld'
      BY <1>1, <2>1 DEF IInv, TypeOK, LockHeld, Locked, Arguments
    <2> QED BY <1>1, <2>1, <2>2, <2>3, QuietStep, Zenon
  <1>2. CASE lock' = lock /\ pc' = [pc EXCEPT ![p] = "out"] /\ req' = [req EXCEPT ![p] = NoRequest]
    <2>1. pc[p] = "next" /\ UNCHANGED <<mutexVars, controller, irq, faults, started, invoked>>
      BY DEF next_sector, At, diskVars
    <2>2. NoRequest \in Requests
      BY DEF NoRequest, Requests, Operations
    <2>3. TypeOK'
      BY <1>2, <2>1, <2>2 DEF IInv, TypeOK, mutexVars
    <2>4. LockHeld'
      BY <1>2, <2>1 DEF IInv, TypeOK, LockHeld, Locked
    <2>5. \A q \in Proc \ {p} : req'[q] = req[q]
      BY <1>2 DEF IInv, TypeOK
    <2> QED BY <1>2, <2>1, <2>3, <2>4, <2>5, QuietStep, Zenon
  <1> QED BY <1>1, <1>2 DEF next_sector, Goto

\* The cache is looked into, and is changed.
LEMMA CachedStep ==
    ASSUME Arguments, IInv, NEW p \in Proc, cached(p)
    PROVE  IInv'
  <1>1. pc[p] = "cache" /\ lock' = lock /\ req' = req
        /\ UNCHANGED <<mutexVars, controller, irq, faults, started, invoked>>
    BY DEF cached, At, diskVars
  <1>2. PICK l \in {"done", "select"} : pc' = [pc EXCEPT ![p] = l]
    BY DEF cached, read_cache, write_cache, Goto
  <1>3. TypeOK'
    BY <1>1, <1>2 DEF IInv, TypeOK, mutexVars, Locked
  <1>4. LockHeld'
    BY <1>1, <1>2 DEF IInv, TypeOK, LockHeld, Locked
  <1> QED BY <1>1, <1>2, <1>3, <1>4, QuietStep, Zenon

\* The lock is given back between two sectors.
LEMMA AdvanceStep ==
    ASSUME Arguments, IInv, NEW p \in Proc, advance(p)
    PROVE  IInv'
  <1>1. /\ pc[p] = "done" /\ lock' = nobody /\ pc' = [pc EXCEPT ![p] = "next"]
        /\ req' = [req EXCEPT ![p].sector = @ + 1, ![p].left = @ - 1]
        /\ UNCHANGED <<mutexVars, controller, irq, faults, started, invoked>>
    BY DEF advance, give_back, Goto, At, diskVars
  <1>2. req' \in [Proc -> Requests] /\ req'[p].drive = req[p].drive
    BY <1>1 DEF IInv, TypeOK, Requests
  <1>3. \A q \in Proc \ {p} : req'[q] = req[q]
    BY <1>1 DEF IInv, TypeOK
  <1>4. TypeOK'
    BY <1>1, <1>2 DEF IInv, TypeOK, mutexVars
  <1>5. LockHeld'
    BY <1>1, <1>2, <1>3 DEF IInv, TypeOK, LockHeld, Locked, Arguments
  <1> QED BY <1>1, <1>3, <1>4, <1>5, QuietStep, Zenon

\* A command that has failed, which none has as long as none has gone wrong
\* unless the controller was not selected.
LEMMA FailStep ==
    ASSUME Arguments, IInv, NEW p \in Proc, pc[p] \in {"select", "poll", "status"}, fail(p),
           faults = 0 => pc[p] = "select"
    PROVE  IInv'
  <1>1. /\ lock' = nobody /\ pc' = [pc EXCEPT ![p] = "out"] /\ req' = [req EXCEPT ![p] = NoRequest]
        /\ UNCHANGED <<mutexVars, controller, irq, faults, started, invoked>>
    BY DEF fail, give_back, Goto, diskVars
  <1>2. NoRequest \in Requests
    BY DEF NoRequest, Requests, Operations
  <1>3. TypeOK'
    BY <1>1, <1>2 DEF IInv, TypeOK, mutexVars
  <1>4. LockHeld'
    BY <1>1 DEF IInv, TypeOK, LockHeld, Locked, Arguments
  <1>5. \A q \in Proc \ {p} : req'[q] = req[q]
    BY <1>1 DEF IInv, TypeOK
  <1> QED BY <1>1, <1>3, <1>4, <1>5, QuietStep, Zenon

-----------------------------------------------------------------------------
(* Steps of a process at its command.                                       *)

\* Nobody else is at work: what the invariant says of processes is to be shown
\* of the one that has the lock.
LEMMA HolderStep ==
    ASSUME IInv, NEW p \in Proc, pc[p] \in Locked, NEW l \in Locked, pc' = [pc EXCEPT ![p] = l],
           lock' = lock, req' = req, TypeOK',
           \A c \in Channels : waiting'[c] => l = "reschedule" /\ Mine(p) = c,
           l = "reschedule" => started' /\ waiting'[Mine(p)],
           started' /\ l \in Waiting => pid'[Mine(p)] = p,
           l = "poll" => /\ controller'[Mine(p)].status \in {"busy", "data", "stuck", "error"}
                         /\ controller'[Mine(p)].status # "error" => controller'[Mine(p)].op = req[p].op,
           (started' /\ l = "poll" /\ controller'[Mine(p)].status = "data" /\ req[p].op = "READ") =>
               irq'[Mine(p)] \/ value'[Mine(p)] = 1,
           (started' /\ l \in Waiting /\ (l = "reschedule" => p \in blocked')) =>
               controller'[Mine(p)].status = "writing" \/ irq'[Mine(p)] \/ value'[Mine(p)] = 1,
           InStep'
    PROVE  IInv'
  <1>1. pc'[p] = l /\ lock = p /\ \A q \in Proc : q # p => pc'[q] = pc[q] /\ pc[q] \notin Locked
    BY AtWork, Zenon DEF IInv, TypeOK
  <1>2. \A q \in Proc : Mine(q)' = Mine(q)
    BY DEF Mine
  <1>3. \A q \in Proc : pc'[q] \in Waiting \cup {"poll"} => q = p
    BY <1>1, Zenon DEF Locked, Waiting
  <1>4. LockHeld'
    BY <1>1, Zenon DEF IInv, LockHeld, Locked
  <1>5. WaiterKnown'
    BY <1>1, <1>2, <1>3 DEF WaiterKnown, Waiting
  <1>6. OwnCommand' /\ DataComesWithIrq'
    BY <1>1, <1>2, <1>3, ZenonT(30) DEF OwnCommand, DataComesWithIrq
  <1>7. IrqIsNotLost'
    BY <1>1, <1>2, <1>3, Zenon DEF IrqIsNotLost, Waiting
  <1> QED BY <1>4, <1>5, <1>6, <1>7, Zenon DEF IInv

\* While a process is at work, only its own place may be a reschedule().
LEMMA NobodyElseWaits ==
    ASSUME IInv, NEW p \in Proc, pc[p] \in Locked, NEW c \in Channels, waiting[c]
    PROVE  pc[p] = "reschedule" /\ Mine(p) = c
  BY DEF IInv, LockHeld, WaiterKnown, Locked

\* The command is given to a controller that is ready.
LEMMA SelectStep ==
    ASSUME Arguments, IInv, NEW p \in Proc, select_device(p)
    PROVE  IInv'
  <1>1. pc[p] = "select"
    BY DEF select_device, At
  <1>2. CASE fail(p)
    BY <1>1, <1>2, FailStep, Zenon
  <1>3. CASE ~fail(p)
    <2> DEFINE k == [status |-> "busy", op |-> req[p].op, drive |-> req[p].drive,
                     sector |-> req[p].sector, data |-> req[p].data]
    <2>1. /\ pc' = [pc EXCEPT ![p] = "poll"] /\ controller' = [controller EXCEPT ![Mine(p)] = k]
          /\ UNCHANGED <<mutexVars, ataVars, irq, faults, started, invoked>>
      BY <1>3 DEF select_device, Goto
    <2>2. Mine(p) \in Channels
      BY <1>1, MineKnown
    <2>3. k \in Commands /\ k.status = "busy" /\ k.op = req[p].op
      BY DEF IInv, TypeOK, Requests, Commands
    <2> HIDE DEF k
    <2>4. TypeOK'
      BY <2>1, <2>3, Zenon DEF IInv, TypeOK, mutexVars, ataVars, Locked
    <2>5. /\ controller'[Mine(p)] = k /\ \A c \in Channels : c # Mine(p) => controller'[c] = controller[c]
      BY <2>1, <2>2 DEF IInv, TypeOK
    <2>6. lock = p /\ \A c \in Channels : ~waiting[c]
      BY <1>1, AtWork, NobodyElseWaits DEF Locked
    <2>7. InStep'
      <3> SUFFICES ASSUME faults = 0, NEW c \in Channels
                   PROVE  (OneSignal(c) /\ SignalOfOwner(c) /\ BusyForOwner(c))'
        BY <2>1 DEF InStep
      <3>1. ~Signal(c) /\ controller[c].status = "idle"
        BY <1>1, <2>6 DEF IInv, InStep, SignalOfOwner, BusyForOwner, Waiting
      <3>2. ~Signal(c)'
        BY <3>1, <2>1, <2>6, Zenon DEF Signal, Unblocked, mutexVars
      <3>3. OneSignal(c)' /\ SignalOfOwner(c)'
        BY <3>2, Zenon DEF Signal, OneSignal, SignalOfOwner
      <3>4. lock' = p /\ pc'[p] = "poll" /\ Mine(p)' = Mine(p)
        BY <2>1, <2>6 DEF IInv, TypeOK, ataVars, Mine
      <3>5. BusyForOwner(c)'
        BY <3>1, <3>4, <2>3, <2>5 DEF BusyForOwner
      <3> QED BY <3>3, <3>5
    <2> QED
      BY <1>1, <2>1, <2>3, <2>4, <2>5, <2>6, <2>7, HolderStep, Zenon DEF Locked, Waiting, mutexVars, ataVars
  <1> QED BY <1>2, <1>3

\* BSY is clear: the data of a write is sent, and the process will wait.
LEMMA PollStep ==
    ASSUME Arguments, IInv, NEW p \in Proc, poll(p)
    PROVE  IInv'
  <1>1. pc[p] = "poll" /\ lock = p
    BY AtWork DEF poll, At, Locked
  <1>2. Mine(p) \in Channels
    BY <1>1, MineKnown
  <1>3. CASE controller[Mine(p)].status # "data"
    <2>1. controller[Mine(p)].status \in {"stuck", "error"} /\ fail(p)
      BY <1>3 DEF poll
    <2>2. faults # 0
      BY <1>1, <1>2, <2>1, Zenon DEF IInv, InStep, BusyForOwner, Waiting
    <2> QED BY <1>1, <2>1, <2>2, FailStep
  <1>4. CASE controller[Mine(p)].status = "data"
    <2>1. /\ pc' = [pc EXCEPT ![p] = "wait_irq"]
          /\ controller' = [controller EXCEPT ![Mine(p)].status = IF req[p].op = "READ" THEN @ ELSE "writing"]
          /\ pid' = IF started THEN [pid EXCEPT ![Mine(p)] = p] ELSE pid
          /\ UNCHANGED <<blocked, value, waiting, ataVars, irq, faults, started, invoked>>
      BY <1>4 DEF poll, claim, Goto
    <2>2. controller' \in [Channels -> Commands]
      <3>1. controller \in [Channels -> Commands]
        BY DEF IInv, TypeOK
      <3>2. \A k \in Commands : [k EXCEPT !.status = "writing"] \in Commands /\ [k EXCEPT !.status = @] = k
        BY DEF Commands
      <3>3. CASE req[p].op = "READ"
        BY <1>2, <2>1, <3>1, <3>2, <3>3, Zenon
      <3>4. CASE req[p].op # "READ"
        BY <1>2, <2>1, <3>1, <3>2, <3>4
      <3> QED BY <3>3, <3>4
    <2>3. TypeOK'
      BY <2>1, <2>2 DEF IInv, TypeOK, ataVars, Locked
    <2>4. /\ controller'[Mine(p)].status = IF req[p].op = "READ" THEN "data" ELSE "writing"
          /\ \A c \in Channels : c # Mine(p) => controller'[c] = controller[c]
      BY <1>2, <1>4, <2>1 DEF IInv, TypeOK, Commands
    <2>5. \A c \in Channels : ~waiting[c]
      BY <1>1, NobodyElseWaits DEF Locked
    <2>6. InStep'
      <3> SUFFICES ASSUME faults = 0, NEW c \in Channels
                   PROVE  (OneSignal(c) /\ SignalOfOwner(c) /\ BusyForOwner(c))'
        BY <2>1 DEF InStep
      <3>1. OneSignal(c) /\ SignalOfOwner(c) /\ BusyForOwner(c)
        BY DEF IInv, InStep
      <3>2. lock' = p /\ pc'[p] = "wait_irq" /\ Mine(p)' = Mine(p) /\ req' = req
        BY <1>1, <2>1 DEF IInv, TypeOK, ataVars, Mine
      <3>3. Signal(c)' = Signal(c) /\ (OneSignal(c)' <=> OneSignal(c))
        BY <2>1, <2>5, Zenon DEF Signal, Unblocked, OneSignal
      <3>4. SignalOfOwner(c)'
        BY <1>1, <2>4, <3>1, <3>2, <3>3 DEF SignalOfOwner, Waiting
      <3>5. BusyForOwner(c)'
        BY <1>1, <2>4, <3>1, <3>2 DEF BusyForOwner, Waiting
      <3> QED BY <3>1, <3>3, <3>4, <3>5
    <2>7. started' /\ "wait_irq" \in Waiting => pid'[Mine(p)] = p
      BY <1>2, <2>1 DEF IInv, TypeOK
    <2>8. started => controller'[Mine(p)].status = "writing" \/ irq[Mine(p)] \/ value[Mine(p)] = 1
      BY <1>1, <1>4, <2>4 DEF IInv, DataComesWithIrq
    <2> QED BY <1>1, <2>1, <2>3, <2>5, <2>6, <2>7, <2>8, HolderStep, Zenon DEF Locked, ataVars
  <1> QED BY <1>3, <1>4

\* A process that has its interrupt goes on with nothing more to come for it.
LEMMA IrqTaken ==
    ASSUME Arguments, IInv, NEW p \in Proc, pc[p] \in Waiting, faults = 0, Signal(Mine(p)),
           pc' = [pc EXCEPT ![p] = "status"],
           \A c \in Channels : Signal(c)' => c # Mine(p) /\ Signal(c),
           UNCHANGED <<ataVars, controller, faults>>
    PROVE  InStep'
  <1>1. lock = p /\ Mine(p) \in Channels
    BY AtWork, MineKnown DEF Locked, Waiting
  <1> SUFFICES ASSUME NEW c \in Channels
               PROVE  (OneSignal(c) /\ SignalOfOwner(c) /\ BusyForOwner(c))'
    BY DEF InStep
  <1>2. \A k \in Channels : OneSignal(k) /\ SignalOfOwner(k) /\ BusyForOwner(k)
    BY DEF IInv, InStep
  <1>3. c # Mine(p) => ~Signal(c)
    BY <1>1, <1>2 DEF SignalOfOwner
  <1>4. ~Signal(c)'
    BY <1>3, Zenon
  <1>5. OneSignal(c)' /\ SignalOfOwner(c)'
    BY <1>4, Zenon DEF Signal, OneSignal, SignalOfOwner
  <1>6. lock' = p /\ pc'[p] = "status" /\ Mine(p)' = Mine(p) /\ req' = req
    BY <1>1, Zenon DEF IInv, TypeOK, ataVars, Mine
  <1>7. controller[Mine(p)].status \in {"data", "idle"}
    BY <1>1, <1>2 DEF SignalOfOwner, Waiting
  <1>8. BusyForOwner(c)'
    BY <1>1, <1>2, <1>6, <1>7, Zenon DEF BusyForOwner, Waiting
  <1> QED BY <1>5, <1>8

\* The process takes the notification, blocks itself, or goes on after its
\* reschedule(); before the scheduler is started it takes the flag of the
\* handler.
LEMMA WaitIrqStep ==
    ASSUME Arguments, IInv, NEW p \in Proc, wait_irq(p)
    PROVE  IInv'
  <1>1. pc[p] \in Waiting /\ UNCHANGED <<ataVars, controller, irq, faults, started>>
    BY Zenon DEF wait_irq, wait, At, Waiting, diskVars
  <1>2. lock = p /\ Mine(p) \in Channels /\ pc[p] \in Locked
    BY <1>1, AtWork, MineKnown DEF Locked, Waiting
  <1>3. \A c \in Channels : waiting[c] => pc[p] = "reschedule" /\ c = Mine(p)
    BY <1>2, NobodyElseWaits, Zenon
  <1>4. CASE started /\ pc[p] = "wait_irq" /\ value[Mine(p)] > 0
    <2>1. /\ value' = [value EXCEPT ![Mine(p)] = 0] /\ pc' = [pc EXCEPT ![p] = "status"]
          /\ UNCHANGED <<blocked, waiting, pid, invoked>>
      BY <1>4 DEF wait_irq, wait, Consume, Goto, At, IInv, TypeOK
    <2>2. TypeOK'
      BY <1>1, <2>1, Zenon DEF IInv, TypeOK, ataVars, Locked
    <2>3. InStep'
      <3> SUFFICES ASSUME faults = 0 PROVE InStep'
        BY <1>1 DEF InStep
      <3>1. Signal(Mine(p)) /\ OneSignal(Mine(p)) /\ value[Mine(p)] = 1
        <4>1. value[Mine(p)] \in {0, 1}
          BY <1>2, Zenon DEF IInv, TypeOK
        <4>2. value[Mine(p)] = 1
          BY <1>4, <4>1
        <4> QED BY <1>2, <4>2, Zenon DEF IInv, InStep, Signal
      <3>2. \A c \in Channels : Signal(c)' => c # Mine(p) /\ Signal(c)
        BY <1>1, <1>2, <2>1, <3>1 DEF IInv, TypeOK, Signal, OneSignal, Unblocked, ataVars
      <3> QED BY <1>1, <2>1, <3>1, <3>2, IrqTaken, Zenon
    <2> QED BY <1>1, <1>2, <1>3, <1>4, <2>1, <2>2, <2>3, HolderStep, Zenon DEF Locked, Waiting, ataVars
  <1>5. CASE started /\ pc[p] = "wait_irq" /\ value[Mine(p)] = 0
    <2>1. /\ waiting' = [waiting EXCEPT ![Mine(p)] = TRUE] /\ blocked' = blocked \cup {p}
          /\ pc' = [pc EXCEPT ![p] = "reschedule"] /\ UNCHANGED <<value, pid, invoked>>
      BY <1>5 DEF wait_irq, wait, Goto, At, IInv, WaiterKnown, Waiting
    <2>2. TypeOK'
      BY <1>1, <2>1, Zenon DEF IInv, TypeOK, ataVars, Locked
    <2>3. InStep'
      <3> SUFFICES ASSUME faults = 0, NEW c \in Channels
                   PROVE  (OneSignal(c) /\ SignalOfOwner(c) /\ BusyForOwner(c))'
        BY <1>1 DEF InStep
      <3>1. OneSignal(c) /\ SignalOfOwner(c) /\ BusyForOwner(c)
        BY DEF IInv, InStep
      <3>2. lock' = p /\ pc'[p] = "reschedule" /\ Mine(p)' = Mine(p) /\ req' = req
        BY <1>1, <1>2, <2>1, Zenon DEF IInv, TypeOK, ataVars, Mine
      <3>3. ~Unblocked(c) /\ ~Unblocked(c)'
        BY <1>3, <1>5, <2>1, <3>2, Zenon DEF Unblocked
      <3>4. Signal(c)' = Signal(c) /\ OneSignal(c)'
        BY <1>1, <2>1, <3>1, <3>3, Zenon DEF Signal, OneSignal
      <3>5. SignalOfOwner(c)'
        BY <1>1, <1>2, <1>5, <3>1, <3>2, <3>4, Zenon DEF SignalOfOwner, Waiting
      <3>6. BusyForOwner(c)'
        BY <1>1, <1>2, <1>5, <3>1, <3>2, Zenon DEF BusyForOwner, Waiting
      <3> QED BY <3>4, <3>5, <3>6
    <2>4. /\ \A c \in Channels : waiting'[c] => c = Mine(p)
          /\ waiting'[Mine(p)]
      BY <1>2, <1>3, <1>5, <2>1 DEF IInv, TypeOK
    <2>5. pid[Mine(p)] = p /\ (controller[Mine(p)].status = "writing" \/ irq[Mine(p)] \/ value[Mine(p)] = 1)
      BY <1>5, Zenon DEF IInv, WaiterKnown, IrqIsNotLost, Waiting
    <2> QED BY <1>1, <1>2, <1>5, <2>1, <2>2, <2>3, <2>4, <2>5, HolderStep, Zenon DEF Locked, ataVars
  <1>6. CASE started /\ pc[p] = "reschedule"
    <2>1. /\ p \notin blocked /\ waiting' = [waiting EXCEPT ![Mine(p)] = FALSE]
          /\ pc' = [pc EXCEPT ![p] = "status"] /\ UNCHANGED <<blocked, value, pid, invoked>>
      BY <1>6 DEF wait_irq, wait, Goto, At
    <2>2. TypeOK'
      BY <1>1, <2>1, Zenon DEF IInv, TypeOK, ataVars, Locked
    <2>3. InStep'
      <3> SUFFICES ASSUME faults = 0 PROVE InStep'
        BY <1>1 DEF InStep
      <3>1. Unblocked(Mine(p)) /\ OneSignal(Mine(p))
        BY <1>2, <1>6, <2>1, Zenon DEF IInv, WaiterKnown, InStep, Unblocked
      <3>2. \A c \in Channels : Signal(c)' => c # Mine(p) /\ Signal(c)
        BY <1>1, <1>2, <2>1, <3>1 DEF IInv, TypeOK, Signal, OneSignal, Unblocked, ataVars
      <3> QED BY <1>1, <2>1, <3>1, <3>2, IrqTaken, Zenon DEF Signal
    <2>4. \A c \in Channels : ~waiting'[c]
      BY <1>2, <1>3, <2>1, Zenon DEF IInv, TypeOK
    <2> QED BY <1>1, <1>2, <2>1, <2>2, <2>3, <2>4, HolderStep, Zenon DEF Locked, Waiting, ataVars
  <1>7. CASE ~started
    <2>1. /\ invoked[Mine(p)] /\ invoked' = [invoked EXCEPT ![Mine(p)] = FALSE]
          /\ pc[p] = "wait_irq" /\ pc' = [pc EXCEPT ![p] = "status"] /\ UNCHANGED mutexVars
      BY <1>7 DEF wait_irq, Goto, At
    <2>2. TypeOK'
      BY <1>1, <2>1, Zenon DEF IInv, TypeOK, mutexVars, ataVars, Locked
    <2>3. InStep'
      <3> SUFFICES ASSUME faults = 0 PROVE InStep'
        BY <1>1 DEF InStep
      <3>1. Signal(Mine(p)) /\ OneSignal(Mine(p))
        BY <1>2, <2>1, Zenon DEF IInv, InStep, Signal
      <3>2. \A c \in Channels : Signal(c)' => c # Mine(p) /\ Signal(c)
        BY <1>1, <1>2, <2>1, <3>1 DEF IInv, TypeOK, Signal, OneSignal, Unblocked, ataVars, mutexVars
      <3> QED BY <1>1, <2>1, <3>1, <3>2, IrqTaken, Zenon
    <2> QED BY <1>1, <1>2, <1>3, <2>1, <2>2, <2>3, HolderStep, Zenon DEF Locked, Waiting, ataVars, mutexVars
  <1> QED
    <2>1. value[Mine(p)] > 0 \/ value[Mine(p)] = 0
      BY <1>2 DEF IInv, TypeOK
    <2> QED BY <1>1, <1>4, <1>5, <1>6, <1>7, <2>1 DEF Waiting, IInv, TypeOK

\* The result of the command is read, and the data of a read.
LEMMA StatusStep ==
    ASSUME Arguments, IInv, NEW p \in Proc, status(p)
    PROVE  IInv'
  <1>1. pc[p] = "status" /\ lock = p /\ Mine(p) \in Channels
    BY AtWork, MineKnown, Zenon DEF status, At, Locked
  <1>2. CASE controller[Mine(p)].status = "error"
    <2>1. fail(p) /\ faults # 0
      BY <1>1, <1>2, Zenon DEF status, IInv, InStep, BusyForOwner, Waiting
    <2> QED BY <1>1, <2>1, FailStep, Zenon
  <1>3. CASE controller[Mine(p)].status # "error"
    <2>1. /\ controller' = IF req[p].op = "READ" THEN [controller EXCEPT ![Mine(p)] = Idle] ELSE controller
          /\ pc' = [pc EXCEPT ![p] = "done"]
          /\ UNCHANGED <<mutexVars, lock, req, irq, faults, started, invoked>>
      BY <1>3, Zenon DEF status, Goto
    <2>2. Idle \in Commands /\ Idle.status = "idle"
      BY DEF Idle, Commands, Operations
    <2>3. TypeOK'
      BY <2>1, <2>2, Zenon DEF IInv, TypeOK, mutexVars, Locked
    <2>4. \A c \in Channels : ~waiting[c]
      BY <1>1, NobodyElseWaits DEF Locked
    <2>5. InStep'
      <3> SUFFICES ASSUME faults = 0, NEW c \in Channels
                   PROVE  (OneSignal(c) /\ SignalOfOwner(c) /\ BusyForOwner(c))'
        BY <2>1, Zenon DEF InStep
      <3>1. ~Signal(c) /\ BusyForOwner(c)
        BY <1>1 DEF IInv, InStep, SignalOfOwner, Waiting
      <3>2. ~Signal(c)'
        BY <2>1, <2>4, <3>1, Zenon DEF Signal, Unblocked, mutexVars
      <3>3. OneSignal(c)' /\ SignalOfOwner(c)'
        BY <3>2 DEF Signal, OneSignal, SignalOfOwner
      <3>4. controller'[c].status = "idle"
        BY <1>1, <2>1, <2>2, <3>1, Zenon DEF BusyForOwner, Waiting, IInv, TypeOK
      <3>5. BusyForOwner(c)'
        BY <3>4 DEF BusyForOwner
      <3> QED BY <3>3, <3>5
    <2> QED BY <1>1, <2>1, <2>3, <2>4, <2>5, HolderStep, Zenon DEF Locked, Waiting, mutexVars
  <1> QED BY <1>2, <1>3, Zenon

-----------------------------------------------------------------------------
(* Steps of the controllers, of the handlers and of the boot.               *)

\* What a controller shows after an answer, and when it raises its interrupt.
LEMMA Answers ==
    ASSUME IInv, NEW c \in Channels, NEW st \in {"data", "error", "stuck", "idle"}, respond(c, st)
    PROVE  /\ controller' \in [Channels -> Commands] /\ irq' \in [Channels -> BOOLEAN]
           /\ \A k \in Channels : k # c => controller'[k] = controller[k] /\ irq'[k] = irq[k]
           /\ controller'[c].status = st
           /\ st \in {"data", "stuck"} => controller'[c].op = controller[c].op
           /\ irq'[c] <=> irq[c] \/ st \in {"idle", "error"} \/ (st = "data" /\ controller[c].op = "READ")
  <1> DEFINE k == IF st \in {"idle", "error"} THEN Idle ELSE controller[c]
  <1>1. k \in Commands /\ (st \in {"data", "stuck"} => k = controller[c])
    BY DEF IInv, TypeOK, Idle, Commands, Operations
  <1>2. controller' = [controller EXCEPT ![c] = [k EXCEPT !.status = st]]
    BY DEF respond, IInv, TypeOK
  <1> HIDE DEF k
  <1>3. [k EXCEPT !.status = st] \in Commands /\ [k EXCEPT !.status = st].status = st
        /\ [k EXCEPT !.status = st].op = k.op
    BY <1>1 DEF Commands
  <1>4. irq' \in [Channels -> BOOLEAN] /\ \A j \in Channels : j # c => irq'[j] = irq[j]
    BY DEF respond, IInv, TypeOK
  <1>5. irq'[c] <=> irq[c] \/ st \in {"idle", "error"} \/ (st = "data" /\ controller[c].op = "READ")
    BY Zenon DEF respond, IInv, TypeOK
  <1> QED BY <1>1, <1>2, <1>3, <1>4, <1>5, Zenon DEF IInv, TypeOK

\* The controller goes on with its command, or goes wrong.
LEMMA DeviceStep ==
    ASSUME Arguments, IInv, NEW c \in Channels, device(c)
    PROVE  IInv'
  <1>1. UNCHANGED <<pc, mutexVars, ataVars, started, invoked>> /\ \A p \in Proc : Mine(p)' = Mine(p)
    BY DEF device, Mine, ataVars
  <1>2. PICK st \in {"data", "error", "stuck", "idle"} :
          /\ respond(c, st)
          /\ controller[c].status \in {"busy", "stuck", "writing"}
          /\ st \in {"data", "stuck"} => controller[c].status \in {"busy", "stuck"}
          /\ st = "idle" => controller[c].status = "writing"
          /\ \/ st \in {"data", "idle"} /\ faults' = faults
             \/ faults' = faults + 1
    BY Zenon DEF device, fault
  <1> DEFINE op == controller[c].op
  <1>3. /\ controller' \in [Channels -> Commands] /\ irq' \in [Channels -> BOOLEAN]
        /\ \A k \in Channels : k # c => controller'[k] = controller[k] /\ irq'[k] = irq[k]
        /\ controller'[c].status = st
        /\ st \in {"data", "stuck"} => controller'[c].op = op
        /\ irq'[c] <=> irq[c] \/ st \in {"idle", "error"} \/ (st = "data" /\ op = "READ")
    BY <1>2, Answers, Zenon
  <1>4. TypeOK'
    BY <1>1, <1>2, <1>3 DEF IInv, TypeOK, mutexVars, ataVars
  <1>5. LockHeld' /\ WaiterKnown'
    BY <1>1, Zenon DEF IInv, LockHeld, WaiterKnown, mutexVars, ataVars
  <1>6. OwnCommand'
    <2> SUFFICES ASSUME NEW p \in Proc, pc[p] = "poll"
                 PROVE  /\ controller'[Mine(p)].status \in {"busy", "data", "stuck", "error"}
                        /\ controller'[Mine(p)].status # "error" => controller'[Mine(p)].op = req[p].op
      BY <1>1, Zenon DEF OwnCommand, ataVars
    <2>1. Mine(p) \in Channels
      BY MineKnown
    <2>2. /\ controller[Mine(p)].status \in {"busy", "data", "stuck", "error"}
          /\ controller[Mine(p)].status # "error" => controller[Mine(p)].op = req[p].op
      BY Zenon DEF IInv, OwnCommand
    <2> QED BY <1>2, <1>3, <2>1, <2>2, Zenon
  <1>7. DataComesWithIrq'
    <2> SUFFICES ASSUME NEW p \in Proc, started, pc[p] = "poll", controller'[Mine(p)].status = "data",
                        req[p].op = "READ"
                 PROVE  irq'[Mine(p)] \/ value[Mine(p)] = 1
      BY <1>1, Zenon DEF DataComesWithIrq, mutexVars, ataVars
    <2>1. Mine(p) \in Channels
      BY MineKnown, Zenon
    <2>2. controller[Mine(p)].status # "error" => controller[Mine(p)].op = req[p].op
      BY Zenon DEF IInv, OwnCommand
    <2>3. controller[Mine(p)].status = "data" => irq[Mine(p)] \/ value[Mine(p)] = 1
      BY DEF IInv, DataComesWithIrq
    <2> QED BY <1>2, <1>3, <2>1, <2>2, <2>3, Zenon
  <1>8. IrqIsNotLost'
    <2> SUFFICES ASSUME NEW p \in Proc, started, pc[p] \in Waiting, pc[p] = "reschedule" => p \in blocked
                 PROVE  controller'[Mine(p)].status = "writing" \/ irq'[Mine(p)] \/ value[Mine(p)] = 1
      BY <1>1, Zenon DEF IrqIsNotLost, mutexVars, ataVars
    <2>1. Mine(p) \in Channels
      BY MineKnown, Zenon DEF Waiting
    <2>2. controller[Mine(p)].status = "writing" \/ irq[Mine(p)] \/ value[Mine(p)] = 1
      BY DEF IInv, IrqIsNotLost
    <2> QED BY <1>2, <1>3, <2>1, <2>2, Zenon
  <1>9. InStep'
    <2> SUFFICES ASSUME faults' = 0, NEW k \in Channels
                 PROVE  (OneSignal(k) /\ SignalOfOwner(k) /\ BusyForOwner(k))'
      BY DEF InStep
    <2>1. faults = 0 /\ st \in {"data", "idle"}
      BY <1>2 DEF IInv, TypeOK
    <2>2. \A j \in Channels : OneSignal(j) /\ SignalOfOwner(j) /\ BusyForOwner(j)
      BY <2>1 DEF IInv, InStep
    <2>3. Unblocked(k)' = Unblocked(k)
      BY <1>1 DEF Unblocked, mutexVars, ataVars
    <2>4. CASE k # c
      <3>1. OneSignal(k)' /\ Signal(k)' = Signal(k)
        BY <1>1, <1>3, <2>2, <2>3, <2>4, Zenon DEF OneSignal, Signal, mutexVars
      <3>2. SignalOfOwner(k)'
        BY <1>1, <1>3, <2>2, <2>4, <3>1, Zenon DEF SignalOfOwner, ataVars
      <3>3. BusyForOwner(k)'
        BY <1>1, <1>3, <2>2, <2>4, Zenon DEF BusyForOwner, ataVars
      <3> QED BY <3>1, <3>2, <3>3, Zenon
    <2>5. CASE k = c
      <3>1. lock \in Proc /\ Mine(lock) = c /\ controller[c].status \in {"busy", "writing"}
        BY <1>2, <2>2, Zenon DEF BusyForOwner
      <3>2. st = "data" => pc[lock] = "poll" /\ op = req[lock].op
        BY <1>2, <2>2, <3>1, Zenon DEF BusyForOwner, IInv, OwnCommand
      <3>3. st = "idle" => pc[lock] \in Waiting
        BY <1>2, <2>2, <3>1, Zenon DEF BusyForOwner
      <3>4. ~Signal(c)
        BY <2>2, <3>1 DEF SignalOfOwner
      <3>5. OneSignal(k)' /\ (Signal(k)' => st = "idle" \/ op = "READ")
        BY <1>1, <1>3, <2>1, <2>3, <2>5, <3>4, Zenon DEF OneSignal, Signal, IInv, TypeOK, mutexVars
      <3>6. SignalOfOwner(k)'
        BY <1>1, <1>3, <2>1, <2>5, <3>1, <3>2, <3>3, <3>5, Zenon DEF SignalOfOwner, ataVars
      <3>7. BusyForOwner(k)'
        BY <1>1, <1>3, <2>1, <2>5, <3>1, <3>2, Zenon DEF BusyForOwner, ataVars
      <3> QED BY <3>5, <3>6, <3>7, Zenon
    <2> QED BY <2>4, <2>5
  <1> QED BY <1>4, <1>5, <1>6, <1>7, <1>8, <1>9 DEF IInv

\* The handler passes the interrupt on: to the process that waits, to the one
\* that is going to wait, or, before the scheduler is started, to the flag.
LEMMA HandlerStep ==
    ASSUME Arguments, IInv, NEW c \in Channels, controller_handler(c)
    PROVE  IInv'
  <1>1. /\ irq[c] /\ irq' = [irq EXCEPT ![c] = FALSE]
        /\ UNCHANGED <<pc, ataVars, waiting, pid, controller, faults, started>>
        /\ \A p \in Proc : Mine(p)' = Mine(p)
    BY Zenon DEF controller_handler, notify, mutexVars, Mine, ataVars
  <1>2. /\ invoked' = IF started THEN invoked ELSE [invoked EXCEPT ![c] = TRUE]
        /\ value' = IF started /\ ~waiting[c] THEN [value EXCEPT ![c] = 1] ELSE value
        /\ blocked' = IF started /\ waiting[c] THEN blocked \ {pid[c]} ELSE blocked
    BY Zenon DEF controller_handler, notify, mutexVars
  <1>3. TypeOK'
    BY <1>1, <1>2, Zenon DEF IInv, TypeOK, ataVars
  <1>4. LockHeld' /\ WaiterKnown' /\ OwnCommand'
    BY <1>1, Zenon DEF IInv, LockHeld, WaiterKnown, OwnCommand, ataVars
  <1>5. ~irq'[c] /\ \A k \in Channels : k # c => irq'[k] = irq[k] /\ invoked'[k] = invoked[k] /\ value'[k] = value[k]
    BY <1>1, <1>2 DEF IInv, TypeOK
  <1>6. started /\ ~waiting[c] => value'[c] = 1
    BY <1>2, Zenon DEF IInv, TypeOK
  <1>7. started /\ waiting[c] => lock \in Proc /\ pid[c] = lock /\ pc[lock] = "reschedule" /\ Mine(lock) = c
    BY ZenonT(30) DEF IInv, LockHeld, WaiterKnown, Locked, Waiting
  <1>8. DataComesWithIrq'
    <2> SUFFICES ASSUME NEW p \in Proc, started, pc[p] = "poll", controller[Mine(p)].status = "data",
                        req[p].op = "READ"
                 PROVE  irq'[Mine(p)] \/ value'[Mine(p)] = 1
      BY <1>1, Zenon DEF DataComesWithIrq, ataVars
    <2>1. Mine(p) \in Channels /\ ~waiting[Mine(p)]
      BY MineKnown, NobodyElseWaits, Zenon DEF Locked
    <2>2. irq[Mine(p)] \/ value[Mine(p)] = 1
      BY Zenon DEF IInv, DataComesWithIrq
    <2> QED BY <1>5, <1>6, <2>1, <2>2, Zenon
  <1>9. IrqIsNotLost'
    <2> SUFFICES ASSUME NEW p \in Proc, started, pc[p] \in Waiting, pc[p] = "reschedule" => p \in blocked'
                 PROVE  controller[Mine(p)].status = "writing" \/ irq'[Mine(p)] \/ value'[Mine(p)] = 1
      BY <1>1, Zenon DEF IrqIsNotLost, ataVars
    <2>1. Mine(p) \in Channels /\ lock = p
      BY MineKnown, AtWork, Zenon DEF Waiting, Locked
    <2>2. controller[Mine(p)].status = "writing" \/ irq[Mine(p)] \/ value[Mine(p)] = 1
      BY <1>2, Zenon DEF IInv, IrqIsNotLost
    <2>3. Mine(p) = c => ~waiting[c]
      BY <1>2, <1>7, <2>1
    <2> QED BY <1>5, <1>6, <2>1, <2>2, <2>3, Zenon
  <1>10. InStep'
    <2> SUFFICES ASSUME faults = 0, NEW k \in Channels
                 PROVE  (OneSignal(k) /\ SignalOfOwner(k) /\ BusyForOwner(k))'
      BY <1>1 DEF InStep
    <2>1. \A j \in Channels : OneSignal(j) /\ SignalOfOwner(j) /\ BusyForOwner(j)
      BY Zenon DEF IInv, InStep
    <2>2. BusyForOwner(k)'
      BY <1>1, <2>1, Zenon DEF BusyForOwner, ataVars
    <2>3. CASE k # c
      <3>1. Unblocked(k)' = Unblocked(k)
        <4>1. CASE ~waiting[k]
          BY <1>1, <4>1, Zenon DEF Unblocked
        <4>2. CASE waiting[k]
          <5>1. ~waiting[c] \/ ~started
            BY <1>7, <2>3, <4>2, NobodyElseWaits, Zenon DEF Locked
          <5> QED BY <1>1, <1>2, <5>1 DEF Unblocked, ataVars
        <4> QED BY <4>1, <4>2
      <3>2. OneSignal(k)' /\ Signal(k)' = Signal(k)
        BY <1>5, <2>1, <2>3, <3>1, Zenon DEF OneSignal, Signal
      <3>3. SignalOfOwner(k)'
        BY <1>1, <2>1, <3>2, Zenon DEF SignalOfOwner, ataVars
      <3> QED BY <2>2, <3>2, <3>3
    <2>4. CASE k = c
      <3>1. value[c] = 0 /\ ~invoked[c] /\ ~Unblocked(c)
        BY <1>1, <2>1, Zenon DEF OneSignal
      <3>2. OneSignal(c)'
        <4>1. CASE ~started
          BY <1>1, <1>2, <1>5, <3>1, <4>1 DEF OneSignal, Unblocked, ataVars
        <4>2. CASE started /\ ~waiting[c]
          BY <1>1, <1>2, <1>5, <3>1, <4>2, Zenon DEF OneSignal, Unblocked
        <4>3. CASE started /\ waiting[c]
          BY <1>1, <1>2, <1>5, <3>1, <4>3 DEF OneSignal, Unblocked
        <4> QED BY <4>1, <4>2, <4>3, Zenon DEF IInv, TypeOK
      <3>3. SignalOfOwner(c)'
        BY <1>1, <2>1, Zenon DEF SignalOfOwner, Signal, ataVars
      <3> QED BY <2>2, <2>4, <3>2, <3>3, Zenon
    <2> QED BY <2>3, <2>4
  <1> QED BY <1>3, <1>4, <1>8, <1>9, <1>10 DEF IInv

\* The scheduler is started when nothing is in progress.
LEMMA StartStep ==
    ASSUME Arguments, IInv, start_scheduler
    PROVE  IInv'
  <1>1. /\ started' = TRUE /\ UNCHANGED <<pc, mutexVars, ataVars, controller, irq, faults, invoked>>
        /\ \A p \in Proc : pc[p] = "out" /\ Mine(p)' = Mine(p)
    BY Zenon DEF start_scheduler, diskVars, Mine, ataVars
  <1>2. TypeOK' /\ LockHeld'
    BY <1>1, Zenon DEF IInv, TypeOK, LockHeld, mutexVars, ataVars
  <1>3. WaiterKnown' /\ OwnCommand' /\ DataComesWithIrq' /\ IrqIsNotLost'
    BY <1>1, Zenon DEF IInv, WaiterKnown, OwnCommand, DataComesWithIrq, IrqIsNotLost, mutexVars, Waiting
  <1>4. InStep'
    BY <1>1, Zenon DEF IInv, InStep, OneSignal, SignalOfOwner, BusyForOwner, Signal, Unblocked, mutexVars, ataVars
  <1> QED BY <1>2, <1>3, <1>4, Zenon DEF IInv

-----------------------------------------------------------------------------
(* The theorems.                                                            *)

\* Every step keeps the invariant.
LEMMA NextInv == ASSUME Arguments, IInv, [AtaNext]_driverVars PROVE IInv'
  <1>1. CASE UNCHANGED driverVars
    <2>1. UNCHANGED <<pc, mutexVars, ataVars, controller, irq, faults, started, invoked>>
          /\ \A p \in Proc : Mine(p)' = Mine(p)
      BY <1>1, Zenon DEF driverVars, diskVars, Mine, ataVars
    <2>2. TypeOK' /\ LockHeld'
      BY <2>1, Zenon DEF IInv, TypeOK, LockHeld, mutexVars, ataVars
    <2>3. WaiterKnown' /\ OwnCommand' /\ DataComesWithIrq' /\ IrqIsNotLost'
      BY <2>1, Zenon DEF IInv, WaiterKnown, OwnCommand, DataComesWithIrq, IrqIsNotLost, mutexVars, ataVars
    <2>4. InStep'
      BY <2>1, Zenon DEF IInv, InStep, OneSignal, SignalOfOwner, BusyForOwner, Signal, Unblocked, mutexVars, ataVars
    <2> QED BY <2>2, <2>3, <2>4, Zenon DEF IInv
  <1>2. ASSUME NEW p \in Proc, Step(p) PROVE IInv'
    BY <1>2, RequestStep, NextSectorStep, CachedStep, AdvanceStep, SelectStep, PollStep, WaitIrqStep, StatusStep
       DEF Step, read_write_sector
  <1>3. ASSUME NEW c \in Channels, device(c) \/ controller_handler(c) PROVE IInv'
    BY <1>3, DeviceStep, HandlerStep
  <1>4. CASE start_scheduler
    BY <1>4, StartStep, Zenon
  <1> QED BY <1>1, <1>2, <1>3, <1>4 DEF AtaNext

\* The invariant gives the two properties of the interrupts.
LEMMA Safe == ASSUME Arguments, IInv PROVE InterruptsKept
  <1> SUFFICES ASSUME NEW p \in Proc, faults = 0, pc[p] = "status"
               PROVE  controller[Mine(p)].status # "writing"
    BY DEF IInv, InterruptsKept, IrqOfOwnCommand
  <1> QED BY AtWork, MineKnown, Zenon DEF IInv, InStep, BusyForOwner, Locked, Waiting

\* The invariant holds throughout.
THEOREM Invariant == AtaSpec => []IInv
  <1>1. AtaInit => IInv
    BY AtaAssumption, InitInv
  <1>2. IInv /\ [AtaNext]_driverVars => IInv'
    BY AtaAssumption, NextInv
  <1> QED BY <1>1, <1>2, PTL DEF AtaSpec

\* "Wait the IRQ to happen": as long as no command has gone wrong, a transfer
\* goes on only when its controller is done with this very command, however the
\* processes, the controllers and the handlers interleave; and even when
\* commands go wrong no interrupt is lost on its way from the controller to the
\* process: one that is going to wait for ever has a controller that is still
\* busy, or an interrupt or a notification to come.
THEOREM InterruptsReachTheirProcess == AtaSpec => []InterruptsKept
  <1>1. IInv => InterruptsKept
    BY AtaAssumption, Safe
  <1> QED BY <1>1, Invariant, PTL

-----------------------------------------------------------------------------
(* The coherence of the cache.                                              *)

\* AtaInit establishes the invariant.
LEMMA InitCoherence == ASSUME DiskArguments, AtaInit PROVE Coherence
  <1>1. CacheInv
    BY CacheInitInv DEF DiskArguments, AtaInit
  <1>2. DiskTypeOK
    BY DEF AtaInit, DiskTypeOK
  <1>3. RequestOnDisk
    BY DEF AtaInit, RequestOnDisk
  <1>4. OthersGood
    BY DEF AtaInit, CacheInit, OthersGood, SectorGood, DiskArguments
  <1>5. CacheFirst /\ CommandKept
    BY DEF AtaInit, CacheFirst, CommandKept, Kept, Commanding, Waiting
  <1>6. StrayWrites
    BY DEF AtaInit, StrayWrites, Idle
  <1> QED BY <1>1, <1>2, <1>3, <1>4, <1>5, <1>6 DEF Coherence

\* The sector of a process that is at work.
LEMMA ThisKnown ==
    ASSUME DiskArguments, IInv, Coherence, NEW p \in Proc, pc[p] \in Locked
    PROVE  /\ lock = p /\ req[p].drive \in Drives /\ req[p].sector \in Sectors
           /\ Mine(p) \in Channels /\ Key(req[p].drive, req[p].sector) \in Nat \ {0}
           /\ \A q \in Proc : q # p => pc[q] \notin Locked
           /\ req[p].left \in Nat \ {0} /\ req[p] \in Requests
  <1>1. lock = p /\ \A q \in Proc : q # p => pc[q] \notin Locked
    BY AtWork
  <1>2. pc[p] # "out"
    BY Zenon DEF Locked
  <1>3. req[p].drive \in Drives /\ Mine(p) \in Channels
    BY <1>2, MineKnown DEF IInv, LockHeld, DiskArguments
  <1>4. req[p] \in Requests /\ req[p].sector \in Nat
    BY DEF IInv, TypeOK, Requests
  <1>5. req[p].left \in Nat \ {0} /\ req[p].sector .. (req[p].sector + req[p].left - 1) \subseteq Sectors
    BY <1>2 DEF Coherence, RequestOnDisk
  <1>6. req[p].sector \in Sectors
    BY <1>4, <1>5
  <1> QED BY <1>1, <1>3, <1>4, <1>5, <1>6, Zenon DEF DiskArguments

\* The sectors that the requests have to go through, when none is changed.
LEMMA OnDiskQuiet ==
    ASSUME RequestOnDisk, UNCHANGED req,
           \A q \in Proc : \/ pc'[q] = "out" 
                           \/ pc[q] # "out" /\ (pc'[q] \in Locked => pc[q] \in Locked)
    PROVE  RequestOnDisk'
  BY DEF RequestOnDisk, Locked

\* The commands, when none is changed.
LEMMA CommandsQuiet ==
    ASSUME CommandKept, UNCHANGED <<controller, disk>>,
           \A q \in Proc : pc'[q] \in {"poll", "wait_irq", "reschedule", "status"} =>
               /\ req'[q] = req[q]
               /\ pc'[q] = pc[q] \/ (pc[q] \in Waiting /\ pc'[q] \in Waiting \cup {"status"})
    PROVE  CommandKept'
  <1> SUFFICES ASSUME NEW q \in Proc
               PROVE  Kept(pc'[q], req'[q], controller'[Channel[req'[q].drive]], disk'[req'[q].drive][req'[q].sector])
    BY Zenon DEF CommandKept, Mine
  <1>1. CASE pc'[q] \notin {"poll", "wait_irq", "reschedule", "status"}
    BY <1>1, Zenon DEF Kept, Waiting
  <1>2. CASE pc'[q] \in {"poll", "wait_irq", "reschedule", "status"}
    <2>1. req'[q] = req[q] /\ controller' = controller /\ disk' = disk
      BY <1>2, Zenon
    <2>2. Kept(pc[q], req[q], controller[Channel[req[q].drive]], disk[req[q].drive][req[q].sector])
      BY Zenon DEF CommandKept, Mine
    <2>3. Kept(pc[q], req'[q], controller'[Channel[req'[q].drive]], disk'[req'[q].drive][req'[q].sector])
      BY <2>1, <2>2
    <2>4. CASE pc'[q] = pc[q]
      BY <2>3, <2>4, Zenon
    <2>5. CASE pc[q] \in Waiting /\ pc'[q] \in Waiting \cup {"status"}
      BY <2>3, <2>5, Zenon DEF Kept, Waiting
    <2> QED BY <1>2, <2>4, <2>5, Zenon
  <1> QED BY <1>1, <1>2, Zenon

\* A sector is as good as before when neither its blocks nor the disk change.
LEMMA SectorQuiet ==
    ASSUME UNCHANGED <<cacheVars, payload, disk>>, NEW d, NEW s, SectorGood(d, s),
           <<d, s>> \in suspect => <<d, s>> \in suspect'
    PROVE  SectorGood(d, s)'
  <1>1. key' = key /\ payload' = payload /\ disk' = disk
    BY Zenon DEF cacheVars
  <1> QED BY <1>1, Zenon DEF SectorGood, Key

\* A process that gives no command leaves the blocks of the others as they are.
LEMMA FirstQuiet ==
    ASSUME CacheFirst, UNCHANGED <<cacheVars, payload>>, NEW p \in Proc, pc'[p] \notin Commanding,
           \A q \in Proc : q # p => pc'[q] = pc[q] /\ req'[q] = req[q]
    PROVE  CacheFirst'
  <1> SUFFICES ASSUME NEW q \in Proc, pc'[q] \in Commanding, req'[q].op # "READ",
                      NEW b \in Blocks, key'[b] = Key(req'[q].drive, req'[q].sector)
               PROVE  payload'[b] = req'[q].data
    BY Zenon DEF CacheFirst, Key
  <1>1. key' = key /\ payload' = payload
    BY Zenon DEF cacheVars
  <1>2. pc'[q] = pc[q] /\ req'[q] = req[q]
    BY Zenon
  <1> QED BY <1>1, <1>2, Zenon DEF CacheFirst

\* A request begins.
LEMMA RequestGood ==
    ASSUME DiskArguments, IInv, Coherence, NEW p \in Proc, NEW op, NEW d \in Drives, NEW start \in PartStart,
           NEW count \in Counts, NEW offset \in Offsets, NEW data, request(p, op, d, start, count, offset, data)
    PROVE  Coherence'
  <1> DEFINE first == offset \div BLOCK_SIZE + start
             n == (count \div BLOCK_SIZE) % CountValues
  <1>1. /\ pc[p] = "out" /\ pc' = [pc EXCEPT ![p] = "next"]
        /\ req' = [req EXCEPT ![p] = [op |-> op, drive |-> d, sector |-> first, left |-> n, data |-> data]]
        /\ UNCHANGED <<cacheVars, payload, lock, suspect, disk, controller>>
    BY DEF request, At, Goto, diskVars
  <1>2. pc'[p] = "next" /\ req'[p].sector = first /\ req'[p].left = n
        /\ \A q \in Proc : q # p => pc'[q] = pc[q] /\ req'[q] = req[q]
    BY <1>1, Zenon DEF IInv, TypeOK
  <1>3. lock # p /\ lock \in Proc \cup {nobody}
    BY <1>1 DEF IInv, TypeOK, LockHeld, Locked
  <1>4. DiskTypeOK' /\ CacheInv'
    BY <1>1, CacheQuiet, Zenon DEF Coherence, DiskTypeOK
  <1>5. RequestOnDisk'
    <2>1. n \in Nat /\ first .. (first + n - 1) \subseteq Sectors
      BY DEF DiskArguments, Arguments
    <2> HIDE DEF n, first
    <2> QED BY <1>2, <2>1, Zenon DEF Coherence, RequestOnDisk, Locked
  <1> HIDE DEF n, first
  <1>6. OthersGood'
    <2>1. ASSUME NEW e \in Drives, NEW s \in Sectors
          PROVE  (SectorGood(e, s) <=> SectorGood(e, s)')
      BY <1>1, Zenon DEF SectorGood, cacheVars, Key
    <2>2. lock \in Proc => pc'[lock] = pc[lock] /\ req'[lock] = req[lock]
      BY <1>2, <1>3, Zenon
    <2> QED BY <1>1, <2>1, <2>2, Zenon DEF Coherence, OthersGood, This
  <1>7. CacheFirst'
    BY <1>1, <1>2, FirstQuiet, Zenon DEF Coherence, Commanding
  <1>8. CommandKept'
    <2>1. \A q \in Proc : pc'[q] \in {"poll", "wait_irq", "reschedule", "status"} =>
              /\ req'[q] = req[q]
              /\ pc'[q] = pc[q] \/ (pc[q] \in Waiting /\ pc'[q] \in Waiting \cup {"status"})
      BY <1>2, Zenon
    <2>2. CommandKept /\ UNCHANGED <<controller, disk>>
      BY <1>1, Zenon DEF Coherence
    <2> QED BY <2>1, <2>2, CommandsQuiet, Zenon
  <1>9. StrayWrites'
    <2>1. lock \in Proc => pc'[lock] = pc[lock] /\ req'[lock] = req[lock]
      BY <1>2, <1>3, Zenon
    <2>2. lock' = lock /\ suspect' = suspect /\ controller' = controller
      BY <1>1, Zenon
    <2> QED BY <2>1, <2>2, Zenon DEF Coherence, StrayWrites, Mine
  <1> QED BY <1>4, <1>5, <1>6, <1>7, <1>8, <1>9, Zenon DEF Coherence

\* The lock is free, or its holder has no command in progress: every sector is good.
LEMMA AllGood ==
    ASSUME Coherence, lock \in Proc => pc[lock] \notin Commanding, NEW d \in Drives, NEW s \in Sectors
    PROVE  SectorGood(d, s)
  BY DEF Coherence, OthersGood

\* The next sector, or the end.
LEMMA NextSectorGood ==
    ASSUME DiskArguments, IInv, Coherence, NEW p \in Proc, next_sector(p)
    PROVE  Coherence'
  <1>1. /\ pc[p] = "next" /\ UNCHANGED <<cacheVars, payload, suspect, disk, controller>>
        /\ \/ /\ lock = nobody /\ lock' = p /\ pc' = [pc EXCEPT ![p] = "cache"] 
              /\ UNCHANGED req /\ req[p].left > 0
           \/ /\ pc' = [pc EXCEPT ![p] = "out"] /\ UNCHANGED lock
              /\ req' = [req EXCEPT ![p] = NoRequest]
    BY DEF next_sector, At, Goto, diskVars
  <1>2. pc'[p] \in {"cache", "out"} /\ \A q \in Proc : q # p => pc'[q] = pc[q] /\ req'[q] = req[q]
    BY <1>1 DEF IInv, TypeOK
  <1>3. lock # p /\ lock \in Proc \cup {nobody} /\ nobody \notin Proc
    BY <1>1, Zenon DEF IInv, TypeOK, LockHeld, Locked, DiskArguments, Arguments
  <1>4. DiskTypeOK' /\ CacheInv'
    BY <1>1, CacheQuiet DEF Coherence, DiskTypeOK
  <1>5. RequestOnDisk'
    <2>1. pc'[p] = "out" \/ (pc'[p] = "cache" /\ req'[p] = req[p] /\ req[p].left > 0)
      BY <1>1, Zenon DEF IInv, TypeOK
    <2> QED BY <1>1, <1>2, <2>1 DEF Coherence, RequestOnDisk
  <1>6. \A d \in Drives, s \in Sectors : (SectorGood(d, s) <=> SectorGood(d, s)')
    BY <1>1, Zenon DEF SectorGood, cacheVars, Key
  <1>7. \/ lock = nobody /\ lock' = p /\ pc'[p] = "cache"
        \/ lock' = lock /\ (lock \in Proc => pc'[lock] = pc[lock] /\ req'[lock] = req[lock])
    BY <1>1, <1>2, <1>3, Zenon DEF IInv, TypeOK
  <1>8. OthersGood'
    <2>1. CASE lock = nobody /\ lock' = p /\ pc'[p] = "cache"
      BY <1>3, <1>6, <2>1, AllGood, Zenon DEF OthersGood
    <2>2. CASE lock' = lock /\ (lock \in Proc => pc'[lock] = pc[lock] /\ req'[lock] = req[lock])
      BY <1>6, <2>2, Zenon DEF Coherence, OthersGood, This
    <2> QED BY <1>7, <2>1, <2>2, Zenon
  <1>9. CacheFirst'
    BY <1>1, <1>2, FirstQuiet, Zenon DEF Coherence, Commanding
  <1>10. CommandKept'
    <2>1. \A q \in Proc : pc'[q] \in {"poll", "wait_irq", "reschedule", "status"} =>
              /\ req'[q] = req[q]
              /\ pc'[q] = pc[q] \/ (pc[q] \in Waiting /\ pc'[q] \in Waiting \cup {"status"})
      BY <1>2
    <2>2. CommandKept /\ UNCHANGED <<controller, disk>>
      BY <1>1 DEF Coherence
    <2> QED BY <2>1, <2>2, CommandsQuiet, Zenon
  <1>11. StrayWrites'
    BY <1>1, <1>3, <1>7, ZenonT(30) DEF Coherence, StrayWrites, Mine
  <1> QED BY <1>4, <1>5, <1>8, <1>9, <1>10, <1>11 DEF Coherence

-----------------------------------------------------------------------------
(* The steps of the holder of the lock.                                     *)

\* Only the holder is at work, before the step and after it.
LEMMA HolderMoves ==
    ASSUME IInv, NEW p \in Proc, pc[p] \in Locked, NEW l, Goto(p, l)
    PROVE  pc'[p] = l /\ \A q \in Proc : q # p => pc'[q] = pc[q] /\ pc[q] \in {"out", "next"}
  BY AtWork, Zenon DEF IInv, TypeOK, Goto

\* Of its requests and commands, only those of the holder have to be looked at.
LEMMA HolderKept ==
    ASSUME IInv, NEW p \in Proc, pc[p] \in Locked, NEW l, Goto(p, l),
           Kept(l, req'[p], controller'[Channel[req'[p].drive]], disk'[req'[p].drive][req'[p].sector])
    PROVE  CommandKept'
  <1> SUFFICES ASSUME NEW q \in Proc
               PROVE  Kept(pc'[q], req'[q], controller'[Channel[req'[q].drive]], disk'[req'[q].drive][req'[q].sector])
    BY Zenon DEF CommandKept, Mine
  <1>1. CASE q = p
    BY <1>1, HolderMoves, Zenon
  <1>2. CASE q # p
    <2>1. pc'[q] \in {"out", "next"}
      BY <1>2, HolderMoves, Zenon
    <2> QED BY <2>1, Zenon DEF Kept, Waiting
  <1> QED BY <1>1, <1>2, Zenon

LEMMA HolderFirst ==
    ASSUME IInv, NEW p \in Proc, pc[p] \in Locked, NEW l, Goto(p, l), UNCHANGED req,
           (l \in Commanding /\ req[p].op # "READ") =>
               \A b \in Blocks : key'[b] = Key(req[p].drive, req[p].sector) => payload'[b] = req[p].data
    PROVE  CacheFirst'
  <1> SUFFICES ASSUME NEW q \in Proc, pc'[q] \in Commanding, req[q].op # "READ", NEW b \in Blocks,
                      key'[b] = Key(req[q].drive, req[q].sector)
               PROVE  payload'[b] = req[q].data
    BY Zenon DEF CacheFirst, Key
  <1>1. q = p /\ l \in Commanding
    BY HolderMoves, Zenon DEF Commanding
  <1> QED BY <1>1, Zenon

LEMMA HolderOnDisk ==
    ASSUME IInv, Coherence, NEW p \in Proc, pc[p] \in Locked, NEW l \in Locked \cup {"out"}, Goto(p, l), UNCHANGED req
    PROVE  RequestOnDisk'
  <1>1. \A q \in Proc : \/ pc'[q] = "out"
                        \/ pc[q] # "out" /\ (pc'[q] \in Locked => pc[q] \in Locked)
    <2> SUFFICES ASSUME NEW q \in Proc, pc'[q] # "out"
                 PROVE  pc[q] # "out" /\ (pc'[q] \in Locked => pc[q] \in Locked)
      OBVIOUS
    <2>1. CASE q = p
      BY <2>1 DEF Locked
    <2>2. CASE q # p
      BY <2>2, HolderMoves
    <2> QED BY <2>1, <2>2
  <1>2. RequestOnDisk
    BY Zenon DEF Coherence
  <1> QED BY <1>1, <1>2, OnDiskQuiet, Zenon

\* A command that fails.
LEMMA FailGood ==
    ASSUME DiskArguments, IInv, Coherence, NEW p \in Proc, pc[p] \in Locked, fail(p),
           \A c \in Channels : controller[c].status = "writing" =>
               <<controller[c].drive, controller[c].sector>> \in suspect
    PROVE  Coherence'
  <1>1. /\ Goto(p, "out") /\ lock' = nobody /\ suspect' = suspect \cup {This(p)}
        /\ req' = [req EXCEPT ![p] = NoRequest]
        /\ UNCHANGED <<cacheVars, payload, disk, controller>>
    BY Zenon DEF fail, give_back, diskVars
  <1>2. pc'[p] = "out" /\ \A q \in Proc : q # p => pc'[q] = pc[q] /\ pc[q] \in {"out", "next"}
    BY <1>1, HolderMoves, Zenon
  <1>3. lock = p /\ nobody \notin Proc
    BY ThisKnown, Zenon DEF DiskArguments, Arguments
  <1>4. DiskTypeOK' /\ CacheInv'
    BY <1>1, CacheQuiet, Zenon DEF Coherence, DiskTypeOK
  <1>5. RequestOnDisk'
    <2>1. \A q \in Proc : q # p => req'[q] = req[q]
      BY <1>1 DEF IInv, TypeOK
    <2> QED BY <1>2, <2>1, Zenon DEF Coherence, RequestOnDisk
  <1>6. OthersGood'
    <2> SUFFICES ASSUME NEW d \in Drives, NEW s \in Sectors PROVE SectorGood(d, s)'
      BY Zenon DEF OthersGood
    <2>1. CASE <<d, s>> = This(p)
      BY <1>1, <2>1, Zenon DEF SectorGood
    <2>2. CASE <<d, s>> # This(p)
      <3>1. SectorGood(d, s)
        BY <1>3, <2>2, Zenon DEF Coherence, OthersGood
      <3> QED BY <1>1, <3>1, SectorQuiet, Zenon
    <2> QED BY <2>1, <2>2, Zenon
  <1>7. CacheFirst'
    BY <1>2, Zenon DEF CacheFirst, Commanding
  <1>8. CommandKept'
    BY <1>2, Zenon DEF CommandKept, Kept, Waiting
  <1>9. StrayWrites'
    BY <1>1, Zenon DEF Coherence, StrayWrites
  <1> QED BY <1>4, <1>5, <1>6, <1>7, <1>8, <1>9, Zenon DEF Coherence

\* The sector is done.
LEMMA AdvanceGood ==
    ASSUME DiskArguments, IInv, Coherence, NEW p \in Proc, advance(p)
    PROVE  Coherence'
  <1>1. /\ pc[p] = "done" /\ Goto(p, "next") /\ lock' = nobody
        /\ req' = [req EXCEPT ![p].sector = @ + 1, ![p].left = @ - 1]
        /\ UNCHANGED <<cacheVars, payload, suspect, disk, controller>>
    BY DEF advance, At, give_back, diskVars
  <1>2. pc[p] \in Locked
    BY <1>1 DEF Locked
  <1>3. pc'[p] = "next" /\ \A q \in Proc : q # p => pc'[q] = pc[q] /\ pc[q] \in {"out", "next"}
    BY <1>1, <1>2, HolderMoves, Zenon
  <1>4. lock = p /\ req[p] \in Requests /\ req[p].left \in Nat \ {0}
    BY <1>2, ThisKnown, Zenon
  <1>5. DiskTypeOK' /\ CacheInv'
    BY <1>1, CacheQuiet DEF Coherence, DiskTypeOK
  <1>6. RequestOnDisk'
    <2>1. \A q \in Proc : q # p => req'[q] = req[q]
      BY <1>1 DEF IInv, TypeOK
    <2>2. req'[p].sector = req[p].sector + 1 /\ req'[p].left = req[p].left - 1 /\ req[p].sector \in Nat
      BY <1>1, <1>4 DEF IInv, TypeOK, Requests
    <2>3. req[p].sector .. (req[p].sector + req[p].left - 1) \subseteq Sectors
      BY <1>1, Zenon DEF Coherence, RequestOnDisk
    <2>4. req'[p].left \in Nat /\ req'[p].sector .. (req'[p].sector + req'[p].left - 1) \subseteq Sectors
      <3> SUFFICES ASSUME NEW x \in req'[p].sector .. (req'[p].sector + req'[p].left - 1)
                   PROVE  req'[p].left \in Nat /\ x \in Sectors
        BY <1>4, <2>2
      <3>1. x \in req[p].sector .. (req[p].sector + req[p].left - 1)
        BY <1>4, <2>2
      <3>2. x \in Sectors
        BY <2>3, <3>1, Zenon
      <3> QED BY <1>4, <2>2, <3>2
    <2> QED BY <1>3, <2>1, <2>4, Zenon DEF Coherence, RequestOnDisk, Locked
  <1>7. OthersGood'
    <2> SUFFICES ASSUME NEW d \in Drives, NEW s \in Sectors PROVE SectorGood(d, s)'
      BY DEF OthersGood
    <2>1. SectorGood(d, s)
      BY <1>1, <1>4, AllGood DEF Commanding
    <2> QED BY <1>1, <2>1, SectorQuiet, Zenon
  <1>8. CacheFirst'
    BY <1>3, Zenon DEF CacheFirst, Commanding
  <1>9. CommandKept'
    BY <1>3, Zenon DEF CommandKept, Kept, Waiting
  <1>10. StrayWrites'
    BY <1>1, <1>4 DEF Coherence, StrayWrites, Waiting
  <1> QED BY <1>5, <1>6, <1>7, <1>8, <1>9, <1>10 DEF Coherence

LEMMA KeyIsOwn ==
    ASSUME DiskArguments, NEW d \in Drives, NEW e \in Drives, NEW s \in Sectors, NEW t \in Sectors,
           Key(d, s) = Key(e, t)
    PROVE  d = e /\ s = t
  <1>1. \A a, b \in Drives, x, y \in Sectors : Key(a, x) = Key(b, y) => a = b /\ x = y
    BY DEF DiskArguments
  <1> QED BY <1>1

\* Another sector is as good as before: its blocks have another key than this one.
LEMMA OtherSector ==
    ASSUME DiskArguments, IInv, Coherence, NEW p \in Proc, pc[p] \in Locked,
           NEW d \in Drives, NEW s \in Sectors, <<d, s>> # This(p), SectorGood(d, s),
           <<d, s>> \in suspect => <<d, s>> \in suspect', UNCHANGED disk,
           \A b \in Blocks : \/ key'[b] = Key(req[p].drive, req[p].sector)
                             \/ key'[b] = key[b] /\ payload'[b] = payload[b]
    PROVE  SectorGood(d, s)'
  <1>1. Key(d, s) # Key(req[p].drive, req[p].sector)
    <2>1. req[p].drive \in Drives /\ req[p].sector \in Sectors
      BY ThisKnown, Zenon
    <2>2. ~(d = req[p].drive /\ s = req[p].sector)
      BY Zenon DEF This
    <2>3. \A e \in Drives, t \in Sectors : Key(d, s) = Key(e, t) => d = e /\ s = t
      BY KeyIsOwn, Zenon
    <2> QED BY <2>1, <2>2, <2>3, Zenon
  <1>2. CASE <<d, s>> \in suspect
    BY <1>2, Zenon DEF SectorGood
  <1>3. CASE \A b \in Blocks : key[b] = Key(d, s) => payload[b] = disk[d][s]
    <2>1. \A b \in Blocks : key'[b] = Key(d, s) => payload'[b] = disk'[d][s]
      BY <1>1, <1>3, Zenon
    <2> QED BY <2>1, Zenon DEF SectorGood, Key
  <1> QED BY <1>2, <1>3, Zenon DEF SectorGood

\* The cache is asked for the sector.
LEMMA CachedGood ==
    ASSUME DiskArguments, IInv, Coherence, NEW p \in Proc, cached(p)
    PROVE  Coherence'
  <1> DEFINE k == Key(req[p].drive, req[p].sector)
             b == block_if_present(k)
             l == IF req[p].op = "READ" /\ b # NoBlock THEN "done" ELSE "select"
  <1>1. pc[p] = "cache" /\ UNCHANGED <<lock, req, suspect, disk, controller>>
    BY Zenon DEF cached, At, diskVars
  <1>2. pc[p] \in Locked
    BY <1>1, Zenon DEF Locked
  <1>3. lock = p /\ k \in Nat \ {0} /\ req[p] \in Requests /\ SomeBlock /\ CacheInv
    BY <1>2, ThisKnown, Zenon DEF DiskArguments, Coherence
  <1>4. b \in Blocks \cup {NoBlock} /\ NoBlock \notin Blocks /\ \A a \in Blocks : key[a] = k <=> b = a
    BY <1>3, Lookup DEF NoBlock, Blocks
  <1>5. Goto(p, l)
    BY Zenon DEF cached, read_cache, write_cache
  <1>6. /\ CacheInv' /\ DiskTypeOK'
        /\ \A a \in Blocks : key'[a] = k \/ (key'[a] = key[a] /\ payload'[a] = payload[a])
        /\ req[p].op = "READ" /\ b # NoBlock => UNCHANGED <<key, payload>>
        /\ req[p].op # "READ" => \A a \in Blocks : key'[a] = k => payload'[a] = req[p].data
    <2>1. CASE read_cache(p, k)
      <3>1. req[p].op = "READ" /\ block(k) /\ UNCHANGED payload
        BY <2>1, Zenon DEF read_cache
      <3>2. CacheInv' /\ ((b # NoBlock /\ UNCHANGED key)
                          \/ (b = NoBlock /\ \E a \in Blocks : key' = [key EXCEPT ![a] = k]))
        BY <1>3, <3>1, BlockStep, Zenon
      <3>3. key \in [Blocks -> Nat]
        BY <1>3 DEF CacheInv, CacheTypeOK
      <3> HIDE DEF k, b
      <3>4. \A a \in Blocks : key'[a] = k \/ key'[a] = key[a]
        BY <3>2, <3>3, Zenon
      <3> QED BY <1>1, <3>1, <3>2, <3>4, Zenon DEF Coherence, DiskTypeOK
    <2>2. CASE write_cache(p, k)
      <3>1. /\ req[p].op # "READ" /\ UNCHANGED cacheVars
            /\ payload' = IF b # NoBlock THEN [payload EXCEPT ![b] = req[p].data] ELSE payload
        BY <2>2, Zenon DEF write_cache
      <3>2. CacheInv' /\ UNCHANGED key
        BY <1>3, <3>1, CacheQuiet, Zenon DEF cacheVars
      <3>3. payload \in [Blocks -> Data \cup {"zero", "garbage"}] /\ req[p].data \in Data \cup {"zero"}
        BY <1>3, Zenon DEF Coherence, DiskTypeOK, Requests
      <3> HIDE DEF k, b
      <3>4. payload' \in [Blocks -> Data \cup {"zero", "garbage"}]
        BY <1>4, <3>1, <3>3
      <3>5. \A a \in Blocks : payload'[a] = IF b = a THEN req[p].data ELSE payload[a]
        BY <1>4, <3>1, <3>3, Zenon
      <3> QED BY <1>1, <1>4, <3>1, <3>2, <3>4, <3>5, Zenon DEF Coherence, DiskTypeOK
    <2> QED BY <2>1, <2>2, Zenon DEF cached
  <1> HIDE DEF l, b
  <1>7. RequestOnDisk'
    BY <1>1, <1>2, <1>5, HolderOnDisk, Zenon DEF l, Locked
  <1>8. OthersGood'
    <2> SUFFICES ASSUME NEW d \in Drives, NEW s \in Sectors
                 PROVE  SectorGood(d, s)' \/ (pc'[p] \in Commanding /\ This(p) = <<d, s>>)
      BY <1>1, <1>3, Zenon DEF OthersGood, This
    <2>1. SectorGood(d, s)
      BY <1>1, <1>3, AllGood, Zenon DEF Commanding
    <2>2. CASE <<d, s>> # This(p)
      BY <1>1, <1>2, <1>6, <2>1, <2>2, OtherSector, Zenon
    <2>3. CASE <<d, s>> = This(p) /\ l = "select"
      BY <1>2, <1>5, <2>3, HolderMoves, Zenon DEF Commanding
    <2>4. CASE l # "select"
      <3>1. UNCHANGED <<key, payload>>
        BY <1>6, <2>4, Zenon DEF l
      <3> QED BY <1>1, <2>1, <3>1, Zenon DEF SectorGood, Key
    <2> QED BY <2>2, <2>3, <2>4, Zenon
  <1>9. CacheFirst'
    BY <1>1, <1>2, <1>5, <1>6, HolderFirst, Zenon
  <1>10. CommandKept'
    <2>1. Kept(l, req'[p], controller'[Channel[req'[p].drive]], disk'[req'[p].drive][req'[p].sector])
      BY Zenon DEF l, Kept, Waiting
    <2> QED BY <1>2, <1>5, <2>1, HolderKept, Zenon
  <1>11. StrayWrites'
    BY <1>1, <1>3, Zenon DEF Coherence, StrayWrites, Waiting
  <1> QED BY <1>6, <1>7, <1>8, <1>9, <1>10, <1>11, Zenon DEF Coherence

\* A step that changes neither the cache nor the sectors: what is good stays good.
LEMMA GoodQuiet ==
    ASSUME OthersGood, CacheFirst, UNCHANGED <<key, payload, disk, suspect, lock, req>>,
           \A q \in Proc : pc'[q] = pc[q] \/ (pc[q] \in Commanding /\ pc'[q] \in Commanding)
    PROVE  OthersGood' /\ CacheFirst'
  <1>1. OthersGood'
    <2> SUFFICES ASSUME NEW d \in Drives, NEW s \in Sectors
                 PROVE  SectorGood(d, s)' \/ (lock \in Proc /\ pc'[lock] \in Commanding /\ This(lock) = <<d, s>>)
      BY Zenon DEF OthersGood, This
    <2>1. CASE SectorGood(d, s)
      BY <2>1, Zenon DEF SectorGood, Key
    <2>2. CASE lock \in Proc /\ pc[lock] \in Commanding /\ This(lock) = <<d, s>>
      BY <2>2, Zenon
    <2> QED BY <2>1, <2>2, Zenon DEF OthersGood
  <1>2. CacheFirst'
    BY DEF CacheFirst, Key
  <1> QED BY <1>1, <1>2, Zenon

\* The command is given.
LEMMA SelectGood ==
    ASSUME DiskArguments, IInv, Coherence, NEW p \in Proc, select_device(p)
    PROVE  Coherence'
  <1>1. pc[p] = "select" /\ pc[p] \in Locked
    BY Zenon DEF select_device, At, Locked
  <1>2. lock = p /\ Mine(p) \in Channels /\ req[p] \in Requests
    BY <1>1, ThisKnown, Zenon
  <1>3. \A c \in Channels : controller[c].status = "writing" =>
            <<controller[c].drive, controller[c].sector>> \in suspect
    BY <1>1, <1>2 DEF Coherence, StrayWrites, Waiting
  <1>4. CASE fail(p)
    BY <1>1, <1>3, <1>4, FailGood, Zenon
  <1>5. CASE ~fail(p)
    <2> DEFINE k == [status |-> "busy", op |-> req[p].op, drive |-> req[p].drive,
                     sector |-> req[p].sector, data |-> req[p].data]
    <2>1. /\ Goto(p, "poll") /\ controller' = [controller EXCEPT ![Mine(p)] = k]
          /\ UNCHANGED <<cacheVars, payload, lock, req, suspect, disk>>
      BY <1>5, Zenon DEF select_device, ataVars
    <2>2. controller'[Mine(p)] = k /\ \A c \in Channels : c # Mine(p) => controller'[c] = controller[c]
      BY <1>2, <2>1, Zenon DEF IInv, TypeOK
    <2>3. DiskTypeOK' /\ CacheInv'
      BY <2>1, CacheQuiet, Zenon DEF Coherence, DiskTypeOK
    <2>4. RequestOnDisk'
      BY <1>1, <2>1, HolderOnDisk, Zenon DEF Locked
    <2>5. \A q \in Proc : pc'[q] = pc[q] \/ (pc[q] \in Commanding /\ pc'[q] \in Commanding)
      BY <1>1, <2>1, HolderMoves, Zenon DEF Commanding
    <2>6. OthersGood' /\ CacheFirst'
      BY <2>1, <2>5, GoodQuiet, Zenon DEF Coherence, cacheVars
    <2>7. CommandKept'
      <3>1. Same(req[p], k)
        BY Zenon DEF Same
      <3>2. Kept("poll", req[p], k, disk'[req[p].drive][req[p].sector])
        BY <3>1, Zenon DEF Kept, Waiting
      <3>3. controller'[Channel[req[p].drive]] = k
        BY <2>2, Zenon DEF Mine
      <3> QED BY <1>1, <2>1, <3>2, <3>3, HolderKept, Zenon
    <2>8. StrayWrites'
      <3> SUFFICES ASSUME NEW c \in Channels, controller'[c].status = "writing"
                   PROVE  /\ controller'[c].drive \in Drives /\ Channel[controller'[c].drive] = c
                          /\ controller'[c].sector \in Sectors
                          /\ <<controller'[c].drive, controller'[c].sector>> \in suspect'
        BY Zenon DEF StrayWrites
      <3>1. k.status # "writing"
        BY Zenon
      <3>2. controller'[c] = controller[c]
        BY <2>2, <3>1, Zenon
      <3>3. suspect' = suspect
        BY <2>1, Zenon
      <3> QED BY <1>3, <3>2, <3>3, Zenon DEF Coherence, StrayWrites
    <2> QED BY <2>3, <2>4, <2>6, <2>7, <2>8, Zenon DEF Coherence
  <1> QED BY <1>4, <1>5, Zenon

\* The data of a write is sent, or the data of a read is there.
LEMMA PollGood ==
    ASSUME DiskArguments, IInv, Coherence, NEW p \in Proc, poll(p)
    PROVE  Coherence'
  <1>1. pc[p] = "poll" /\ pc[p] \in Locked
    BY Zenon DEF poll, At, Locked
  <1>2. lock = p /\ Mine(p) \in Channels /\ req[p] \in Requests /\ req[p].drive \in Drives /\ req[p].sector \in Sectors
    BY <1>1, ThisKnown, Zenon
  <1>3. \A c \in Channels : controller[c].status = "writing" =>
            <<controller[c].drive, controller[c].sector>> \in suspect
    BY <1>1, <1>2, Zenon DEF Coherence, StrayWrites, Waiting
  <1>4. CASE fail(p)
    BY <1>1, <1>3, <1>4, FailGood, Zenon
  <1>5. CASE ~fail(p)
    <2> DEFINE k == controller[Mine(p)]
               st == IF req[p].op = "READ" THEN k.status ELSE "writing"
    <2>1. /\ Goto(p, "wait_irq") /\ controller' = [controller EXCEPT ![Mine(p)].status = st]
          /\ k.status = "data" /\ UNCHANGED <<cacheVars, payload, lock, req, suspect, disk>>
      BY <1>5 DEF poll, ataVars
    <2>2. /\ controller'[Mine(p)] = [k EXCEPT !.status = st] /\ k \in Commands
          /\ \A c \in Channels : c # Mine(p) => controller'[c] = controller[c]
      BY <1>2, <2>1 DEF IInv, TypeOK
    <2>3. controller'[Mine(p)].status = st /\ Same(req[p], controller'[Mine(p)])
      <3>1. Same(req[p], k)
        BY <1>1, <2>1 DEF Coherence, CommandKept, Kept
      <3> QED BY <2>2, <3>1 DEF Same, Commands
    <2>4. DiskTypeOK' /\ CacheInv'
      BY <2>1, CacheQuiet DEF Coherence, DiskTypeOK
    <2>5. RequestOnDisk'
      BY <1>1, <2>1, HolderOnDisk DEF Locked
    <2>6. \A q \in Proc : pc'[q] = pc[q] \/ (pc[q] \in Commanding /\ pc'[q] \in Commanding)
      BY <1>1, <2>1, HolderMoves DEF Commanding
    <2>7. OthersGood' /\ CacheFirst'
      BY <2>1, <2>6, GoodQuiet, Zenon DEF Coherence, cacheVars
    <2>8. CommandKept'
      <3>1. Kept("wait_irq", req[p], controller'[Mine(p)], disk'[req[p].drive][req[p].sector])
        BY <2>1, <2>3 DEF Kept, Waiting
      <3>2. req' = req
        BY <2>1, Zenon
      <3> QED BY <1>1, <2>1, <3>1, <3>2, HolderKept, Zenon DEF Mine
    <2>9. StrayWrites'
      <3> SUFFICES ASSUME NEW c \in Channels, controller'[c].status = "writing"
                   PROVE  /\ controller'[c].drive \in Drives /\ Channel[controller'[c].drive] = c
                          /\ controller'[c].sector \in Sectors
                          /\ \/ <<controller'[c].drive, controller'[c].sector>> \in suspect'
                             \/ c = Mine(p) /\ req[p].op # "READ"
        <4>1. pc'[p] \in Waiting \cup {"status"}
          BY <1>1, <2>1, HolderMoves, Zenon DEF Waiting
        <4>2. lock' = p /\ Mine(p)' = Mine(p) /\ req'[p].op = req[p].op
          BY <1>2, <2>1, Zenon DEF Mine
        <4> HIDE DEF st, k
        <4> QED BY <4>1, <4>2, Zenon DEF StrayWrites
      <3>1. CASE c = Mine(p)
        BY <1>2, <2>1, <2>3, <3>1, Zenon DEF Same, Mine
      <3>2. CASE c # Mine(p)
        <4>1. controller'[c] = controller[c]
          BY <2>2, <3>2
        <4>2. controller[c].status = "writing" /\ suspect' = suspect
          BY <2>1, <4>1, Zenon
        <4> HIDE DEF st, k
        <4> QED BY <1>3, <4>1, <4>2, Zenon DEF Coherence, StrayWrites
      <3> QED BY <3>1, <3>2, Zenon
    <2> QED BY <2>4, <2>5, <2>7, <2>8, <2>9 DEF Coherence
  <1> QED BY <1>4, <1>5

\* A step of the mutex, of the interrupt or of the start: a process may go on
\* with its wait.
LEMMA WaitGood ==
    ASSUME IInv, Coherence, UNCHANGED <<cacheVars, payload, lock, req, suspect, disk, controller>>,
           \A q \in Proc : pc'[q] = pc[q] \/ (pc[q] \in Waiting /\ pc'[q] \in Waiting \cup {"status"})
    PROVE  Coherence'
  <1>1. DiskTypeOK' /\ CacheInv'
    BY CacheQuiet, Zenon DEF Coherence, DiskTypeOK
  <1>2. RequestOnDisk'
    BY Zenon DEF Coherence, RequestOnDisk, Waiting, Locked
  <1>3. \A q \in Proc : pc'[q] = pc[q] \/ (pc[q] \in Commanding /\ pc'[q] \in Commanding)
    BY DEF Waiting, Commanding
  <1>4. OthersGood' /\ CacheFirst'
    BY <1>3, GoodQuiet DEF Coherence, cacheVars
  <1>5. CommandKept'
    BY CommandsQuiet, Zenon DEF Coherence
  <1>6. StrayWrites'
    BY DEF Coherence, StrayWrites, Waiting, Mine
  <1> QED BY <1>1, <1>2, <1>4, <1>5, <1>6, Zenon DEF Coherence

\* The command is over.
LEMMA StatusGood ==
    ASSUME DiskArguments, IInv, Coherence, NEW p \in Proc, status(p)
    PROVE  Coherence'
  <1> DEFINE k == controller[Mine(p)]
             key0 == Key(req[p].drive, req[p].sector)
             b == block_if_present(key0)
  <1>1. pc[p] = "status" /\ pc[p] \in Locked
    BY Zenon DEF status, At, Locked
  <1>2. /\ lock = p /\ Mine(p) \in Channels /\ req[p] \in Requests /\ req[p].drive \in Drives
        /\ req[p].sector \in Sectors /\ key0 \in Nat \ {0} /\ SomeBlock /\ CacheInv
    BY <1>1, ThisKnown, Zenon DEF DiskArguments, Coherence
  <1>3. Kept("status", req[p], k, disk[req[p].drive][req[p].sector])
    BY <1>1, Zenon DEF Coherence, CommandKept
  <1>4. CASE fail(p) /\ k.status = "error"
    <2>1. \A c \in Channels : controller[c].status = "writing" =>
              <<controller[c].drive, controller[c].sector>> \in suspect
      BY <1>2, <1>4, Zenon DEF Coherence, StrayWrites
    <2> QED BY <1>1, <1>4, <2>1, FailGood, Zenon
  <1>5. CASE ~(fail(p) /\ k.status = "error")
    <2>1. /\ Goto(p, "done") /\ k.status # "error"
          /\ IF req[p].op = "READ"
             THEN /\ payload' = [payload EXCEPT ![b] = disk[req[p].drive][req[p].sector]]
                  /\ controller' = [controller EXCEPT ![Mine(p)] = Idle]
             ELSE UNCHANGED <<payload, controller>>
          /\ suspect' = IF k.status = "writing" THEN suspect \cup {This(p)} ELSE suspect \ {This(p)}
          /\ UNCHANGED <<cacheVars, lock, req, disk>>
      BY <1>5, Zenon DEF status
    <2>2. b \in Blocks \cup {NoBlock} /\ NoBlock \notin Blocks /\ \A a \in Blocks : key[a] = key0 <=> b = a
      BY <1>2, Lookup DEF NoBlock, Blocks
    <2>3. payload \in [Blocks -> Data \cup {"zero", "garbage"}]
          /\ disk[req[p].drive][req[p].sector] \in Data \cup {"zero"}
      BY <1>2, Zenon DEF Coherence, DiskTypeOK
    <2> HIDE DEF key0, b, k
    <2>4. payload' \in [Blocks -> Data \cup {"zero", "garbage"}]
          /\ \A a \in Blocks : payload'[a] = IF req[p].op = "READ" /\ b = a
                                             THEN disk[req[p].drive][req[p].sector] ELSE payload[a]
      BY <2>1, <2>2, <2>3, Zenon
    <2>5. DiskTypeOK' /\ CacheInv' /\ UNCHANGED key
      BY <1>2, <2>1, <2>4, CacheQuiet, Zenon DEF Coherence, DiskTypeOK, cacheVars
    <2>6. RequestOnDisk'
      BY <1>1, <2>1, HolderOnDisk, Zenon DEF Locked
    <2>7. OthersGood'
      <3> SUFFICES ASSUME NEW d \in Drives, NEW s \in Sectors PROVE SectorGood(d, s)'
        BY DEF OthersGood
      <3>1. CASE <<d, s>> # This(p)
        <4>1. SectorGood(d, s)
          BY <1>2, <3>1, Zenon DEF Coherence, OthersGood
        <4>2. <<d, s>> \in suspect => <<d, s>> \in suspect'
          BY <2>1, <3>1, Zenon
        <4>3. \A a \in Blocks : key'[a] = key0 \/ (key'[a] = key[a] /\ payload'[a] = payload[a])
          BY <2>2, <2>4, <2>5, Zenon
        <4> QED BY <1>1, <2>1, <3>1, <4>1, <4>2, <4>3, OtherSector, Zenon DEF key0
      <3>2. CASE <<d, s>> = This(p)
        <4>1. d = req[p].drive /\ s = req[p].sector /\ key0 = Key(d, s)
          BY <3>2, Zenon DEF This, key0
        <4>2. CASE req[p].op = "READ"
          <5>1. \A a \in Blocks : key'[a] = Key(d, s) => payload'[a] = disk'[d][s]
            BY <2>1, <2>2, <2>4, <2>5, <4>1, <4>2, Zenon
          <5> QED BY <5>1, Zenon DEF SectorGood, Key
        <4>3. CASE req[p].op # "READ"
          <5>1. k.status = "writing" \/ (k.status = "idle" /\ disk[d][s] = req[p].data)
            BY <1>3, <2>1, <4>1, <4>3, Zenon DEF Kept, Waiting
          <5>2. CASE k.status = "writing"
            BY <2>1, <3>2, <5>2, Zenon DEF SectorGood
          <5>3. CASE disk[d][s] = req[p].data
            <6>1. \A a \in Blocks : key[a] = Key(d, s) => payload[a] = req[p].data
              BY <1>1, <4>1, <4>3, Zenon DEF Coherence, CacheFirst, Commanding
            <6>2. \A a \in Blocks : key'[a] = Key(d, s) => payload'[a] = disk'[d][s]
              BY <2>1, <2>5, <4>3, <5>3, <6>1, Zenon
            <6> QED BY <6>2, Zenon DEF SectorGood, Key
          <5> QED BY <5>1, <5>2, <5>3, Zenon
        <4> QED BY <4>2, <4>3, Zenon
      <3> QED BY <3>1, <3>2, Zenon
    <2>8. CacheFirst'
      BY <1>1, <2>1, HolderFirst, Zenon DEF Commanding
    <2>9. CommandKept'
      <3>1. Kept("done", req'[p], controller'[Channel[req'[p].drive]], disk'[req'[p].drive][req'[p].sector])
        BY Zenon DEF Kept, Waiting
      <3> QED BY <1>1, <2>1, <3>1, HolderKept, Zenon
    <2>10. StrayWrites'
      <3> SUFFICES ASSUME NEW c \in Channels, controller'[c].status = "writing"
                   PROVE  /\ controller'[c].drive \in Drives /\ Channel[controller'[c].drive] = c
                          /\ controller'[c].sector \in Sectors
                          /\ <<controller'[c].drive, controller'[c].sector>> \in suspect'
        BY Zenon DEF StrayWrites
      <3>1. controller'[c] = controller[c]
        <4>1. Idle.status # "writing"
          BY Zenon DEF Idle
        <4>2. controller' = controller \/ controller' = [controller EXCEPT ![Mine(p)] = Idle]
          BY <2>1, Zenon
        <4>3. controller \in [Channels -> Commands]
          BY Zenon DEF IInv, TypeOK
        <4> QED BY <4>1, <4>2, <4>3, Zenon
      <3>2. /\ controller[c].status = "writing"
            /\ controller[c].drive \in Drives /\ Channel[controller[c].drive] = c /\ controller[c].sector \in Sectors
            /\ \/ <<controller[c].drive, controller[c].sector>> \in suspect
               \/ c = Mine(p) /\ req[p].op # "READ"
        BY <1>2, <3>1, Zenon DEF Coherence, StrayWrites
      <3>3. CASE c = Mine(p) /\ req[p].op # "READ"
        <4>1. <<controller[c].drive, controller[c].sector>> = This(p)
          BY <1>3, <3>2, <3>3, Zenon DEF Kept, Waiting, Same, This, k
        <4> QED BY <2>1, <3>1, <3>2, <3>3, <4>1, Zenon DEF k
      <3>4. CASE c = Mine(p) /\ req[p].op = "READ"
        BY <1>3, <3>2, <3>4, Zenon DEF Kept, Waiting, k
      <3>5. CASE c # Mine(p)
        <4>1. <<controller[c].drive, controller[c].sector>> # This(p)
          BY <3>2, <3>5, Zenon DEF This, Mine
        <4> QED BY <2>1, <3>1, <3>2, <3>5, <4>1, Zenon
      <3> QED BY <3>3, <3>4, <3>5, Zenon
    <2> QED BY <2>5, <2>6, <2>7, <2>8, <2>9, <2>10, Zenon DEF Coherence
  <1> QED BY <1>4, <1>5, Zenon

-----------------------------------------------------------------------------
(* The steps of the controllers, and the theorems.                          *)

\* A command that is not over keeps its sector and its data.
LEMMA AnswerKeeps ==
    ASSUME IInv, NEW c \in Channels, NEW st \in {"data", "stuck"}, respond(c, st)
    PROVE  /\ controller'[c].drive = controller[c].drive /\ controller'[c].sector = controller[c].sector
           /\ controller'[c].data = controller[c].data
  <1>1. controller' = [controller EXCEPT ![c] = [controller[c] EXCEPT !.status = st]]
    BY Zenon DEF respond, IInv, TypeOK
  <1>2. controller'[c] = [controller[c] EXCEPT !.status = st] /\ controller[c] \in Commands
    BY <1>1 DEF IInv, TypeOK
  <1> QED BY <1>2 DEF Commands

\* A command in progress that is answered, or goes wrong, is still the process's own.
LEMMA AnswerKept ==
    ASSUME IInv, CommandKept, NEW c \in Channels, NEW st \in {"data", "stuck", "error"}, respond(c, st),
           controller[c].status \in {"busy", "stuck"} \/ (st = "error" /\ controller[c].status = "writing"),
           UNCHANGED <<pc, req, disk>>
    PROVE  CommandKept'
  <1> SUFFICES ASSUME NEW q \in Proc
               PROVE  Kept(pc[q], req[q], controller'[Mine(q)], disk[req[q].drive][req[q].sector])
    BY Zenon DEF CommandKept, Mine
  <1>1. Kept(pc[q], req[q], controller[Mine(q)], disk[req[q].drive][req[q].sector])
    BY Zenon DEF CommandKept
  <1>2. CASE Mine(q) # c
    <2>1. CASE Mine(q) \in Channels
      BY <1>1, <1>2, <2>1, Answers, Zenon
    <2>2. CASE Mine(q) \notin Channels
      <3>1. controller'[Mine(q)] = controller[Mine(q)]
        BY <1>2, <2>2 DEF respond, IInv, TypeOK
      <3> QED BY <1>1, <3>1, Zenon
    <2> QED BY <2>1, <2>2, Zenon
  <1>3. CASE Mine(q) = c
    <2>1. controller'[c].status = st
      BY Answers, Zenon
    <2>2. CASE st = "error"
      BY <1>1, <1>3, <2>1, <2>2, Zenon DEF Kept
    <2>3. CASE st # "error"
      <3>1. Same(req[q], controller[c]) <=> Same(req[q], controller'[c])
        BY <2>3, AnswerKeeps, Zenon DEF Same
      <3> QED BY <1>1, <1>3, <2>1, <2>3, <3>1, Zenon DEF Kept
    <2> QED BY <2>2, <2>3, Zenon
  <1> QED BY <1>2, <1>3, Zenon

\* The controller goes on with its command, goes wrong, or writes the sector.
LEMMA DeviceGood ==
    ASSUME DiskArguments, IInv, Coherence, NEW c \in Channels, device(c)
    PROVE  Coherence'
  <1>1. UNCHANGED <<pc, cacheVars, payload, lock, req, suspect, key>>
    BY Zenon DEF device, ataVars, cacheVars
  <1>2. CacheInv' /\ RequestOnDisk'
    BY <1>1, CacheQuiet, Zenon DEF Coherence, RequestOnDisk
  <1>3. CacheFirst'
    BY <1>1, Zenon DEF Coherence, CacheFirst, Key
  <1>4. CASE \E st \in {"data", "stuck", "error"} :
                 /\ respond(c, st) /\ UNCHANGED disk
                 /\ controller[c].status \in {"busy", "stuck"} \/ (st = "error" /\ controller[c].status = "writing")
    <2>1. PICK st \in {"data", "stuck", "error"} :
                 /\ respond(c, st) /\ UNCHANGED disk
                 /\ controller[c].status \in {"busy", "stuck"} \/ (st = "error" /\ controller[c].status = "writing")
      BY <1>4, Zenon
    <2>2. CommandKept'
      BY <1>1, <2>1, AnswerKept, Zenon DEF Coherence
    <2>3. OthersGood' /\ DiskTypeOK'
      BY <1>1, <2>1, GoodQuiet, Zenon DEF Coherence, DiskTypeOK
    <2>4. controller'[c].status = st /\ \A k \in Channels : k # c => controller'[k] = controller[k]
      BY <2>1, Answers, Zenon
    <2>5. StrayWrites'
      BY <1>1, <2>1, <2>4, Zenon DEF Coherence, StrayWrites, Mine
    <2> QED BY <1>2, <1>3, <2>2, <2>3, <2>5, Zenon DEF Coherence
  <1>5. CASE /\ controller[c].status = "writing" /\ respond(c, "idle")
             /\ disk' = [disk EXCEPT ![controller[c].drive][controller[c].sector] = controller[c].data]
    <2> DEFINE e == controller[c].drive
               t == controller[c].sector
               v == controller[c].data
    <2>1. /\ e \in Drives /\ Channel[e] = c /\ t \in Sectors /\ v \in Data \cup {"zero"}
          /\ \/ <<e, t>> \in suspect
             \/ /\ lock \in Proc /\ Mine(lock) = c /\ pc[lock] \in Waiting \cup {"status"}
                /\ req[lock].op # "READ"
      BY <1>5 DEF Coherence, StrayWrites, IInv, TypeOK, Commands
    <2>2. disk \in [Drives -> [Sectors -> Data \cup {"zero"}]]
      BY Zenon DEF Coherence, DiskTypeOK
    <2>3. disk' = [disk EXCEPT ![e] = [disk[e] EXCEPT ![t] = v]]
      BY <1>5, <2>1, <2>2, Zenon
    <2>4. controller'[c].status = "idle" /\ \A k \in Channels : k # c => controller'[k] = controller[k]
      BY <1>5, Answers, Zenon
    <2> HIDE DEF e, t, v
    <2>5. disk' \in [Drives -> [Sectors -> Data \cup {"zero"}]] /\ disk'[e][t] = v
          /\ \A d \in Drives, s \in Sectors : <<d, s>> # <<e, t>> => disk'[d][s] = disk[d][s]
      BY <2>1, <2>2, <2>3, Zenon
    <2>6. \A p \in Proc : (pc[p] \in Waiting \cup {"status"} /\ Mine(p) = c) =>
              req[p].op # "READ" /\ Same(req[p], controller[c])
      BY <1>5 DEF Coherence, CommandKept, Kept
    <2>7. DiskTypeOK'
      BY <1>1, <2>5, Zenon DEF Coherence, DiskTypeOK
    <2>8. OthersGood'
      <3> SUFFICES ASSUME NEW d \in Drives, NEW s \in Sectors
                   PROVE  SectorGood(d, s)' \/ (lock \in Proc /\ pc[lock] \in Commanding /\ This(lock) = <<d, s>>)
        BY <1>1 DEF OthersGood, This
      <3>1. CASE <<d, s>> # <<e, t>>
        <4>1. disk'[d][s] = disk[d][s]
          BY <2>5, <3>1, Zenon
        <4>2. SectorGood(d, s) => SectorGood(d, s)'
          BY <1>1, <4>1, Zenon DEF SectorGood, Key
        <4> QED BY <4>2, Zenon DEF Coherence, OthersGood
      <3>2. CASE <<d, s>> = <<e, t>> /\ <<e, t>> \in suspect
        BY <1>1, <3>2, Zenon DEF SectorGood
      <3>3. CASE /\ <<d, s>> = <<e, t>> /\ lock \in Proc /\ Mine(lock) = c
                 /\ pc[lock] \in Waiting \cup {"status"}
        BY <2>6, <3>3, Zenon DEF Same, This, e, t, Waiting, Commanding
      <3> QED BY <2>1, <3>1, <3>2, <3>3, Zenon
    <2>9. CommandKept'
      <3> SUFFICES ASSUME NEW q \in Proc
                   PROVE  Kept(pc[q], req[q], controller'[Mine(q)], disk'[req[q].drive][req[q].sector])
        BY <1>1, Zenon DEF CommandKept, Mine
      <3>1. Kept(pc[q], req[q], controller[Mine(q)], disk[req[q].drive][req[q].sector])
        BY Zenon DEF Coherence, CommandKept
      <3>2. CASE pc[q] \notin Locked
        BY <3>2, Zenon DEF Kept, Locked, Waiting
      <3>3. CASE pc[q] \in Locked /\ Mine(q) # c
        <4>1. req[q].drive \in Drives /\ req[q].sector \in Sectors /\ Mine(q) \in Channels
          BY <3>3, ThisKnown, Zenon
        <4>2. req[q].drive # e
          BY <2>1, <3>3, Zenon DEF Mine
        <4>3. disk'[req[q].drive][req[q].sector] = disk[req[q].drive][req[q].sector]
          BY <2>5, <4>1, <4>2
        <4>4. controller'[Mine(q)] = controller[Mine(q)]
          BY <2>4, <3>3, <4>1, Zenon
        <4> QED BY <3>1, <4>3, <4>4, Zenon
      <3>4. CASE pc[q] \in Locked /\ Mine(q) = c
        <4>1. pc[q] # "poll"
          BY <1>5, <3>4, Zenon DEF IInv, OwnCommand
        <4>2. CASE pc[q] \in Waiting \cup {"status"}
          <5>1. req[q].op # "READ" /\ req[q].drive = e /\ req[q].sector = t /\ req[q].data = v
            BY <2>6, <3>4, <4>2, Zenon DEF Same, e, t, v
          <5>2. disk'[req[q].drive][req[q].sector] = req[q].data
            BY <2>5, <5>1, Zenon
          <5> QED BY <2>4, <3>4, <4>1, <5>1, <5>2, Zenon DEF Kept
        <4>3. CASE pc[q] \notin Waiting \cup {"status"}
          BY <4>1, <4>3, Zenon DEF Kept
        <4> QED BY <4>2, <4>3, Zenon
      <3> QED BY <3>2, <3>3, <3>4, Zenon
    <2>10. StrayWrites'
      BY <1>1, <2>4, Zenon DEF Coherence, StrayWrites, Mine
    <2> QED BY <1>2, <1>3, <2>7, <2>8, <2>9, <2>10, Zenon DEF Coherence
  <1> QED BY <1>4, <1>5, Zenon DEF device, fault

\* Every step keeps the cache coherent.
LEMMA NextCoherence == ASSUME DiskArguments, IInv, Coherence, [AtaNext]_driverVars PROVE Coherence'
  <1>1. CASE UNCHANGED driverVars
    BY <1>1, WaitGood, Zenon DEF driverVars, ataVars, diskVars
  <1>2. ASSUME NEW p \in Proc, wait_irq(p) PROVE Coherence'
    <2>1. UNCHANGED <<cacheVars, payload, lock, req, suspect, disk, controller>>
      BY <1>2, Zenon DEF wait_irq, ataVars, diskVars
    <2>2. pc[p] \in Waiting /\ \E l \in Waiting \cup {"status"} : pc' = [pc EXCEPT ![p] = l]
      BY <1>2, Zenon DEF wait_irq, wait, At, Goto, Waiting
    <2>3. \A q \in Proc : pc'[q] = pc[q] \/ (pc[q] \in Waiting /\ pc'[q] \in Waiting \cup {"status"})
      BY <2>2 DEF IInv, TypeOK
    <2> QED BY <2>1, <2>3, WaitGood, Zenon
  <1>3. ASSUME NEW p \in Proc, NEW d \in Drives, NEW start \in PartStart, NEW count \in Counts,
               NEW offset \in Offsets, ata_driver(p, d, start, count, offset)
        PROVE  Coherence'
    BY <1>3, RequestGood DEF ata_driver
  <1>4. ASSUME NEW p \in Proc, Step(p) PROVE Coherence'
    BY <1>2, <1>3, <1>4, NextSectorGood, CachedGood, AdvanceGood, SelectGood, PollGood, StatusGood, Zenon
       DEF Step, read_write_sector
  <1>5. ASSUME NEW c \in Channels, controller_handler(c) PROVE Coherence'
    BY <1>5, WaitGood DEF controller_handler, ataVars
  <1>6. CASE start_scheduler
    BY <1>6, WaitGood, Zenon DEF start_scheduler, ataVars, diskVars
  <1> QED BY <1>1, <1>4, <1>5, <1>6, DeviceGood DEF AtaNext

\* The invariant gives the coherence of the cache.
LEMMA Coherent == ASSUME DiskArguments, IInv, Coherence PROVE CacheCoherent
  <1> SUFFICES ASSUME NEW d \in Drives, NEW s \in Sectors, block_if_present(Key(d, s)) # NoBlock,
                      <<d, s>> \notin suspect, ~(lock # nobody /\ This(lock) = <<d, s>>)
               PROVE  payload[block_if_present(Key(d, s))] = disk[d][s]
    BY Zenon DEF CacheCoherent
  <1>1. nobody \notin Proc /\ SomeBlock /\ CacheInv /\ Key(d, s) \in Nat \ {0}
    BY DEF DiskArguments, Arguments, Coherence
  <1>2. SectorGood(d, s)
    BY <1>1 DEF Coherence, OthersGood
  <1>3. block_if_present(Key(d, s)) \in Blocks /\ key[block_if_present(Key(d, s))] = Key(d, s)
    BY <1>1, Lookup
  <1> QED BY <1>2, <1>3, Zenon DEF SectorGood

\* The cache shows what is on the disk: through every mix of reads, writes and
\* clears of any number of processes on any number of drives, of hits and
\* evictions, and of commands that go wrong, a cached sector differs from the
\* disk only while a command for it is in progress, or once one has failed or
\* was ended by the interrupt of another.  With it, the hash table and its
\* assertion "The hash table chain did not contain the used block".
THEOREM DiskCoherent == AtaSpec => [](CacheCoherent /\ CacheIsMap /\ ChainsFollowFreeList)
  <1>1. AtaInit => IInv /\ Coherence
    BY AtaAssumption, DiskAssumption, InitInv, InitCoherence
  <1>2. IInv /\ Coherence /\ [AtaNext]_driverVars => (IInv /\ Coherence)'
    BY AtaAssumption, DiskAssumption, NextInv, NextCoherence
  <1>3. IInv /\ Coherence => CacheCoherent /\ CacheIsMap /\ ChainsFollowFreeList
    BY DiskAssumption, Coherent DEF Coherence, CacheInv
  <1> QED BY <1>1, <1>2, <1>3, PTL DEF AtaSpec
=============================================================================
