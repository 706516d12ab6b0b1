----------------------------- MODULE BlockCache -----------------------------
(***************************************************************************)
(* The cache of disk sectors (block_cache.cpp): a hash table with chains,   *)
(* and a list of all the blocks in the order in which they were filled,     *)
(* whose front is filled next.  The lists are sequences; what the code does *)
(* with their links is what the operators below do with the sequences.      *)
(***************************************************************************)
EXTENDS Integers, Sequences

CONSTANTS
    blocks,   \* the number of blocks
    Keys      \* the keys that are asked for

VARIABLES
    key,          \* key[b]: 0 when the block was never used
    hash_table,   \* hash_table[h]: the chain of a bucket
    free_list,    \* front to rear
    chain_assert  \* "The hash table chain did not contain the used block"

cacheVars == <<key, hash_table, free_list, chain_assert>>

Blocks == 1..blocks
Bucket(k) == k % (blocks * 2)
NoBlock == 0

CacheInit ==
    /\ key = [b \in Blocks |-> 0]
    /\ hash_table = [h \in 0..blocks * 2 - 1 |-> <<>>]
    /\ free_list = [i \in Blocks |-> i]
    /\ chain_assert = FALSE

\* The first block of the bucket's chain that has the key.
block_if_present(k) ==
    LET hits == {i \in DOMAIN hash_table[Bucket(k)] : key[hash_table[Bucket(k)][i]] = k}
    IN IF hits = {} THEN NoBlock
       ELSE hash_table[Bucket(k)][CHOOSE i \in hits : \A j \in hits : i =< j]

\* Mutant: a block that is found goes to the end of the list, as in a cache
\* that keeps what was used last.
touch_MovesToRear(b) ==
    LET Other(c) == c # b IN free_list' = Append(SelectSeq(free_list, Other), b)

\* A block that is found keeps its place in the list.
touch(b) == UNCHANGED free_list

\* The chains without b.  Only the first block of a chain can be taken out: the
\* search for the link to any other starts behind it.
Unchained(b) ==
    IF key[b] = 0 \/ Head(hash_table[Bucket(key[b])]) # b THEN hash_table
    ELSE [hash_table EXCEPT ![Bucket(key[b])] = Tail(@)]

\* The front block is taken from its chain and put at the end of another one
\* and at the end of the list.
fill(k) ==
    LET b == Head(free_list)
    IN /\ chain_assert' = (chain_assert \/ (key[b] # 0 /\ Head(hash_table[Bucket(key[b])]) # b))
       /\ hash_table' = [Unchained(b) EXCEPT ![Bucket(k)] = Append(@, b)]
       /\ key' = [key EXCEPT ![b] = k]
       /\ free_list' = Append(Tail(free_list), b)

\* The block of a key: the one that has it, or else one that is filled with it.
block(k) ==
    LET b == block_if_present(k)
    IN \/ b # NoBlock /\ touch(b) /\ UNCHANGED <<key, hash_table, chain_assert>>
       \/ b = NoBlock /\ fill(k)

CacheNext == \E k \in Keys : block(k)

-----------------------------------------------------------------------------
(* Properties.                                                              *)

\* The chain of a bucket has the used blocks of the bucket, and no others.
ChainsExact ==
    /\ \A h \in DOMAIN hash_table : \A i \in DOMAIN hash_table[h] :
           key[hash_table[h][i]] # 0 /\ Bucket(key[hash_table[h][i]]) = h
    /\ \A b \in Blocks : key[b] # 0 =>
           \E i \in DOMAIN hash_table[Bucket(key[b])] : hash_table[Bucket(key[b])][i] = b

\* a is filled again before b.
Before(a, b) == \E i, j \in DOMAIN free_list : i < j /\ free_list[i] = a /\ free_list[j] = b

\* Every chain has its blocks in the order of the free list, whatever was
\* found, filled and filled again in between: so the block to be filled again
\* is the first one of its chain, which is the only one that block() can take
\* out.
ChainsFollowFreeList ==
    /\ ChainsExact
    /\ \A h \in DOMAIN hash_table : \A i, j \in DOMAIN hash_table[h] :
           i < j => Before(hash_table[h][i], hash_table[h][j])

\* The assertion "The hash table chain did not contain the used block" holds,
\* and no two blocks have the same key, so that a sector is cached once.
CacheIsMap ==
    /\ ~chain_assert
    /\ \A b, c \in Blocks : (key[b] = key[c] /\ key[b] # 0) => b = c

-----------------------------------------------------------------------------
(* The inductive invariant.                                                 *)

CacheTypeOK ==
    /\ key \in [Blocks -> Nat]
    /\ hash_table \in [0..blocks * 2 - 1 -> Seq(Blocks)]
    /\ free_list \in Seq(Blocks) /\ Len(free_list) = blocks
    /\ chain_assert \in BOOLEAN

\* Every block is in the list, once.
FreeListExact ==
    /\ \A b \in Blocks : \E i \in Blocks : free_list[i] = b
    /\ \A i, j \in Blocks : free_list[i] = free_list[j] => i = j

CacheInv == CacheTypeOK /\ FreeListExact /\ ChainsFollowFreeList /\ CacheIsMap
=============================================================================
