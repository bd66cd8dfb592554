--------------------------- MODULE KVBlocks_proofs ---------------------------
(***************************************************************************)
(* Reference counts of KVBlocks are exact, sequences do not disturb each   *)
(* other, tables and shared blocks are full and the summary balances, for  *)
(* every block size, set of requests and token counts: BlockInvariant and  *)
(* then FullInvariant are inductive.                                       *)
(***************************************************************************)
EXTENDS KVBlocks, ListsAndSums

-----------------------------------------------------------------------------
\* Arithmetic: the number of blocks is a natural, and all but the last are full.
LEMMA Monotone ==
  ASSUME NEW k \in Int, NEW m \in Int, k <= m
  PROVE  BlockSize * k <= BlockSize * m
<1>1. BlockSize \in Nat /\ m - k \in Nat
  BY BlockAssumption
<1>2. BlockSize * (m - k) \in Nat
  BY <1>1
<1>3. BlockSize * m = BlockSize * k + BlockSize * (m - k)
  BY <1>1
<1> QED BY <1>1, <1>2, <1>3

LEMMA BlocksForBound ==
  ASSUME NEW tokens \in Nat
  PROVE  /\ BlocksFor(tokens) \in Nat
         /\ tokens > 0 => BlockSize * (BlocksFor(tokens) - 1) < tokens
<1> DEFINE total == tokens + BlockSize - 1
           q == total \div BlockSize
<1>1. BlockSize \in Nat /\ BlockSize > 0 /\ total \in Nat
  BY BlockAssumption
<1>2. q \in Int /\ total = BlockSize * q + (total % BlockSize)
        /\ (total % BlockSize) \in 0 .. BlockSize - 1
  BY <1>1, Z3
<1>3. q \in Nat
  <2>1. ASSUME q <= -1 PROVE FALSE
    <3>1. BlockSize * q <= BlockSize * (-1)
      BY <1>2, <2>1, Monotone
    <3> QED BY <1>1, <1>2, <3>1
  <2> QED BY <1>2, <2>1
<1>4. BlockSize * (q - 1) = BlockSize * q - BlockSize
  BY <1>1, <1>3
<1>5. BlockSize * (q - 1) < tokens
  BY <1>1, <1>2, <1>3, <1>4
<1> QED BY <1>3, <1>5 DEF BlocksFor

LEMMA FloorBound ==
  ASSUME NEW tokens \in Nat
  PROVE  /\ tokens \div BlockSize \in Nat
         /\ (tokens \div BlockSize) * BlockSize \in Nat
         /\ (tokens \div BlockSize) * BlockSize <= tokens
<1> DEFINE q == tokens \div BlockSize
<1>1. BlockSize \in Nat /\ BlockSize > 0
  BY BlockAssumption
<1>2. q \in Int /\ tokens = BlockSize * q + (tokens % BlockSize)
        /\ (tokens % BlockSize) \in 0 .. BlockSize - 1
  BY <1>1, Z3
<1>3. q \in Nat
  <2>1. ASSUME q <= -1 PROVE FALSE
    <3>1. BlockSize * q <= BlockSize * (-1)
      BY <1>2, <2>1, Monotone
    <3> QED BY <1>1, <1>2, <3>1
  <2> QED BY <1>2, <2>1
<1>4. q * BlockSize = BlockSize * q /\ q * BlockSize \in Nat
  BY <1>1, <1>3
<1> QED BY <1>1, <1>2, <1>3, <1>4

\* The blocks _append_private_blocks makes are new, and of the right type.
LEMMA NewBlocksTyped ==
  ASSUME NEW tokens \in Nat, TypeOK
  PROVE  /\ NewBlocks(tokens) \cap DOMAIN blocks = {}
         /\ NewBlocks(tokens) \subseteq 0 .. nextBlockId + BlocksFor(tokens) - 1
         /\ \A b \in NewBlocks(tokens) :
              NewBlock(b, tokens) \in [used : 1 .. BlockSize, refcount : Nat \ {0}]
<1>1. BlocksFor(tokens) \in Nat /\ nextBlockId \in Nat /\ BlockSize \in Nat \ {0}
  BY BlocksForBound, BlockAssumption DEF TypeOK
<1>2. NewBlocks(tokens) \cap DOMAIN blocks = {}
  BY <1>1 DEF NewBlocks, TypeOK
<1>3. NewBlocks(tokens) \subseteq 0 .. nextBlockId + BlocksFor(tokens) - 1
  BY <1>1 DEF NewBlocks
<1>4. ASSUME NEW b \in NewBlocks(tokens)
      PROVE  NewBlock(b, tokens) \in [used : 1 .. BlockSize, refcount : Nat \ {0}]
  <2>1. b \in Int /\ b - nextBlockId \in Nat /\ b - nextBlockId <= BlocksFor(tokens) - 1
    BY <1>1 DEF NewBlocks
  <2>2. BlockSize * (b - nextBlockId) <= BlockSize * (BlocksFor(tokens) - 1)
    BY <1>1, <2>1, Monotone
  <2>3. tokens > 0
    <3>1. ASSUME tokens = 0 PROVE FALSE
      <4>1. BlocksFor(tokens) = (BlockSize - 1) \div BlockSize
        BY <3>1, <1>1 DEF BlocksFor
      <4>2. (BlockSize - 1) \div BlockSize = 0
        BY <1>1, Z3
      <4> QED BY <2>1, <4>1, <4>2
    <3> QED BY <3>1
  <2>4. BlockSize * (b - nextBlockId) < tokens /\ BlockSize * (b - nextBlockId) \in Nat
          /\ BlockSize * (BlocksFor(tokens) - 1) \in Int
    BY <1>1, <2>1, <2>2, <2>3, BlocksForBound
  <2>5. tokens - BlockSize * (b - nextBlockId) \in Nat \ {0}
    BY <2>4
  <2>6. Smaller(BlockSize, tokens - BlockSize * (b - nextBlockId)) \in 1 .. BlockSize
    BY <1>1, <2>5 DEF Smaller
  <2> QED BY <2>6 DEF NewBlock
<1> QED BY <1>2, <1>3, <1>4

-----------------------------------------------------------------------------
\* The table of new blocks lists each of them once.
LEMMA NewTableLists ==
  ASSUME NEW tokens \in Nat, TypeOK
  PROVE  /\ NewTable(tokens) \in Seq(NewBlocks(tokens))
         /\ Blocks(NewTable(tokens)) = NewBlocks(tokens)
         /\ Distinct(NewTable(tokens))
<1> DEFINE n == BlocksFor(tokens)
           table == NewTable(tokens)
<1>1. n \in Nat /\ nextBlockId \in Nat
  BY BlocksForBound DEF TypeOK
<1>2. table = [i \in 1 .. n |-> nextBlockId + i - 1]
  BY DEF NewTable
<1>3. \A i \in 1 .. n : table[i] \in NewBlocks(tokens)
  BY <1>1, <1>2 DEF NewBlocks
<1>4. table \in Seq(NewBlocks(tokens)) /\ Len(table) = n
  BY <1>1, <1>2, <1>3
<1>5. NewBlocks(tokens) \subseteq Blocks(table)
  <2>1. ASSUME NEW b \in NewBlocks(tokens) PROVE b \in Blocks(table)
    <3>1. b - nextBlockId + 1 \in 1 .. n /\ b \in Int
      BY <1>1 DEF NewBlocks
    <3>2. table[b - nextBlockId + 1] = b
      BY <1>1, <1>2, <3>1
    <3> QED BY <1>4, <3>1, <3>2 DEF Blocks
  <2> QED BY <2>1
<1>6. Blocks(table) \subseteq NewBlocks(tokens)
  BY <1>3, <1>4 DEF Blocks
<1>7. Distinct(table)
  BY <1>1, <1>2, <1>4 DEF Distinct
<1> QED BY <1>4, <1>5, <1>6, <1>7

\* A prefix followed by a table of other blocks.
LEMMA Concatenated ==
  ASSUME NEW A, NEW B, NEW s \in Seq(A), NEW t \in Seq(B),
         Distinct(s), Distinct(t), Blocks(s) \cap Blocks(t) = {}
  PROVE  /\ s \o t \in Seq(A \cup B)
         /\ Blocks(s \o t) = Blocks(s) \cup Blocks(t)
         /\ Distinct(s \o t)
<1>1. s \in Seq(A \cup B) /\ t \in Seq(A \cup B)
  OBVIOUS
<1>2. \A list \in Seq(A \cup B) : Blocks(list) = InList(list)
  BY ListTyped DEF Blocks
<1>3. /\ s \o t \in Seq(A \cup B) /\ InList(s \o t) = InList(s) \cup InList(t)
      /\ InList(s) \cap InList(t) = {} => Distinct(s \o t)
  BY <1>1, ConcatLists
<1> QED BY <1>1, <1>2, <1>3

\* A table that lists blocks once meets each block at most once.
LEMMA OccursOnce ==
  ASSUME NEW b, NEW A, NEW table \in Seq(A), Distinct(table)
  PROVE  Occurrences(b, table) = IF b \in Blocks(table) THEN 1 ELSE 0
<1> DEFINE I == {i \in 1 .. Len(table) : table[i] = b}
<1>1. CASE b \in Blocks(table)
  <2>1. PICK k \in 1 .. Len(table) : table[k] = b
    BY <1>1 DEF Blocks
  <2>2. I = {k}
    BY <2>1 DEF Distinct
  <2>3. Cardinality({k}) = 1
    BY FS_Singleton
  <2> QED BY <1>1, <2>2, <2>3 DEF Occurrences
<1>2. CASE b \notin Blocks(table)
  <2>1. I = {}
    BY <1>2 DEF Blocks
  <2>2. Cardinality({}) = 0
    BY FS_EmptySet
  <2> QED BY <1>2, <2>1, <2>2 DEF Occurrences
<1> QED BY <1>1, <1>2

\* The set of a block's holders is finite, so its count is a natural.
LEMMA HoldersFinite ==
  ASSUME TypeOK, NEW b
  PROVE  IsFiniteSet(Holders(b)) /\ Holders(b) \subseteq Live
<1>1. Holders(b) \subseteq Requests /\ Holders(b) \subseteq Live
  BY DEF Holders, TypeOK
<1> QED BY <1>1, BlockAssumption, FS_Subset

-----------------------------------------------------------------------------
\* What allocate, fork and append have in common: r gets the table base followed
\* by new blocks for n tokens, and the blocks there were become old.
Grows(r, n, k, base, old) ==
  /\ nextBlockId' = nextBlockId + BlocksFor(n)
  /\ blocks' = [b \in DOMAIN blocks \cup NewBlocks(n) |->
                  IF b \in NewBlocks(n) THEN NewBlock(b, n) ELSE old[b]]
  /\ sequences' = [s \in Live \cup {r} |->
                     IF s = r THEN [table |-> base \o NewTable(n), tokens |-> k]
                     ELSE sequences[s]]

LEMMA Grown ==
  ASSUME BlockInvariant,
         NEW r \in Requests, NEW n \in Nat, NEW k \in Nat,
         NEW base \in Seq(DOMAIN blocks), Distinct(base),
         NEW old \in [DOMAIN blocks -> [used : 1 .. BlockSize, refcount : Nat \ {0}]],
         \A b \in DOMAIN blocks :
           old[b].refcount =
             Cardinality((Holders(b) \ {r}) \cup (IF b \in Blocks(base) THEN {r} ELSE {})),
         r \in Live => Blocks(Table(r)) \subseteq Blocks(base),
         Grows(r, n, k, base, old)
  PROVE  BlockInvariant'
<1> DEFINE D == DOMAIN blocks
           N == NewBlocks(n)
           grown == base \o NewTable(n)
<1> USE DEF Grows
<1>1. TypeOK /\ RefcountsExact /\ TablesDistinct
  BY DEF BlockInvariant
<1>2. BlocksFor(n) \in Nat /\ nextBlockId \in Nat
  BY <1>1, BlocksForBound DEF TypeOK
<1>3. /\ N \cap D = {}
      /\ N \subseteq 0 .. nextBlockId' - 1
      /\ \A b \in N : NewBlock(b, n) \in [used : 1 .. BlockSize, refcount : Nat \ {0}]
  <2>1. /\ N \cap D = {}
        /\ N \subseteq 0 .. nextBlockId + BlocksFor(n) - 1
        /\ \A b \in N : NewBlock(b, n) \in [used : 1 .. BlockSize, refcount : Nat \ {0}]
    BY ONLY n \in Nat, <1>1, NewBlocksTyped
  <2>2. nextBlockId' - 1 = nextBlockId + BlocksFor(n) - 1
    BY <1>2
  <2> HIDE DEF N, D
  <2> QED BY <2>1, <2>2
<1>4. /\ NewTable(n) \in Seq(N) /\ Blocks(NewTable(n)) = N /\ Distinct(NewTable(n))
  BY <1>1, NewTableLists
<1>5. Blocks(base) \subseteq D
  BY DEF Blocks
<1>6. /\ grown \in Seq(D \cup N)
      /\ Blocks(grown) = Blocks(base) \cup N
      /\ Distinct(grown)
  <2>1. Blocks(base) \cap Blocks(NewTable(n)) = {}
    BY <1>3, <1>4, <1>5
  <2>2. base \in Seq(D) /\ Distinct(base)
    OBVIOUS
  <2> HIDE DEF N, D
  <2>3. /\ base \o NewTable(n) \in Seq(D \cup N)
        /\ Blocks(base \o NewTable(n)) = Blocks(base) \cup Blocks(NewTable(n))
        /\ Distinct(base \o NewTable(n))
    <3>1. ASSUME NEW t \in Seq(N), Distinct(t), Blocks(base) \cap Blocks(t) = {}
          PROVE  /\ base \o t \in Seq(D \cup N)
                 /\ Blocks(base \o t) = Blocks(base) \cup Blocks(t)
                 /\ Distinct(base \o t)
      BY <2>2, <3>1, Concatenated
    <3> QED BY <1>4, <2>1, <3>1
  <2> QED BY <1>4, <2>3
<1>7. /\ DOMAIN blocks' = D \cup N
      /\ DOMAIN sequences' = Live \cup {r}
      /\ sequences'[r].table = grown
      /\ \A s \in Live \ {r} : sequences'[s] = sequences[s]
  BY DEF Live
<1>8. \A s \in Live : /\ sequences[s] \in [table : Seq(D), tokens : Nat]
                      /\ Blocks(Table(s)) \subseteq D
  <2>1. ASSUME NEW s \in Live
        PROVE  sequences[s] \in [table : Seq(D), tokens : Nat] /\ Table(s) \in Seq(D)
    <3>1. sequences[s] \in [table : Seq(D), tokens : Nat]
      BY <1>1 DEF TypeOK
    <3> QED BY <3>1 DEF Table
  <2> QED BY <2>1 DEF Blocks
<1>9. TypeOK'
  <2>1. nextBlockId' \in Nat /\ DOMAIN blocks' \subseteq 0 .. nextBlockId' - 1
    BY <1>1, <1>3, <1>2, <1>7 DEF TypeOK
  <2>2. blocks' \in [DOMAIN blocks' -> [used : 1 .. BlockSize, refcount : Nat \ {0}]]
    BY <1>3, <1>7
  <2>3. Live' \subseteq Requests
    BY <1>1, <1>7 DEF TypeOK, Live
  <2>4. sequences' \in [Live' -> [table : Seq(DOMAIN blocks'), tokens : Nat]]
    <3>1. ASSUME NEW s \in Live' PROVE sequences'[s] \in [table : Seq(D \cup N), tokens : Nat]
      <4>1. CASE s = r
        BY <1>6, <4>1 DEF Live
      <4>2. CASE s # r
        <5>1. s \in Live /\ sequences'[s] = sequences[s]
          BY <1>7, <4>2 DEF Live
        <5>2. sequences[s] \in [table : Seq(D), tokens : Nat]
          BY <1>8, <5>1
        <5>3. Seq(D) \subseteq Seq(D \cup N)
          OBVIOUS
        <5> QED BY <5>1, <5>2, <5>3
      <4> QED BY <4>1, <4>2
    <3> QED BY <1>7, <3>1 DEF Live
  <2> QED BY <2>1, <2>2, <2>3, <2>4 DEF TypeOK
<1>10. TablesDistinct'
  <2>1. ASSUME NEW s \in Live' PROVE Distinct(sequences'[s].table)
    <3>1. CASE s = r
      BY <1>6, <1>7, <3>1
    <3>2. CASE s # r
      <4>1. s \in Live /\ sequences'[s] = sequences[s]
        BY <1>7, <3>2 DEF Live
      <4>2. Distinct(Table(s))
        BY <1>1, <4>1 DEF TablesDistinct, Distinct
      <4> QED BY <4>1, <4>2 DEF Table
    <3> QED BY <3>1, <3>2
  <2> QED BY <2>1 DEF TablesDistinct, Table, Distinct
<1>11. ASSUME NEW b
       PROVE  {s \in Live' : b \in Blocks(sequences'[s].table)} =
                (Holders(b) \ {r}) \cup (IF b \in Blocks(grown) THEN {r} ELSE {})
  <2>1. r \in Live'
    BY <1>7 DEF Live
  <2>2. ASSUME NEW s, s # r
        PROVE  s \in Live' /\ b \in Blocks(sequences'[s].table) <=> s \in Holders(b)
    BY <1>7, <2>2 DEF Live, Holders, Table
  <2> QED BY <1>7, <2>1, <2>2
<1>12. ASSUME NEW b \in D
       PROVE  blocks'[b].refcount =
                Cardinality({s \in Live' : b \in Blocks(sequences'[s].table)})
  <2>1. b \notin N /\ blocks'[b] = old[b]
    BY <1>3
  <2>2. b \in Blocks(grown) <=> b \in Blocks(base)
    BY <1>6, <2>1
  <2> QED BY <1>11, <2>1, <2>2
<1>13. ASSUME NEW b \in N
       PROVE  blocks'[b].refcount =
                Cardinality({s \in Live' : b \in Blocks(sequences'[s].table)})
  <2>1. blocks'[b].refcount = 1
    BY <1>3 DEF NewBlock
  <2>2. Holders(b) = {}
    BY <1>3, <1>8 DEF Holders
  <2>3. {s \in Live' : b \in Blocks(sequences'[s].table)} = {r}
    BY <1>6, <1>11, <2>2
  <2> QED BY <2>1, <2>3, FS_Singleton
<1>14. DOMAIN blocks' = UNION {Blocks(sequences'[s].table) : s \in Live'}
  <2>1. ASSUME NEW s \in Live' PROVE Blocks(sequences'[s].table) \subseteq D \cup N
    <3>1. CASE s = r
      BY <1>5, <1>6, <1>7, <3>1
    <3>2. CASE s # r
      BY <1>7, <1>8, <3>2 DEF Live, Table
    <3> QED BY <3>1, <3>2
  <2>2. ASSUME NEW b \in D PROVE \E s \in Live' : b \in Blocks(sequences'[s].table)
    <3>1. PICK s \in Live : b \in Blocks(Table(s))
      BY <1>1 DEF RefcountsExact
    <3>2. CASE s = r
      BY <1>6, <1>7, <3>1, <3>2 DEF Live
    <3>3. CASE s # r
      BY <1>7, <3>1, <3>3 DEF Live, Table
    <3> QED BY <3>2, <3>3
  <2>3. ASSUME NEW b \in N PROVE \E s \in Live' : b \in Blocks(sequences'[s].table)
    BY <1>6, <1>7 DEF Live
  <2>4. D \cup N \subseteq UNION {Blocks(sequences'[s].table) : s \in Live'}
    BY <2>2, <2>3
  <2>5. UNION {Blocks(sequences'[s].table) : s \in Live'} \subseteq D \cup N
    BY <2>1, Zenon
  <2> QED BY <1>7, <2>4, <2>5
<1>15. RefcountsExact'
  BY <1>7, <1>12, <1>13, <1>14 DEF RefcountsExact, Holders, Table
<1> QED BY <1>9, <1>10, <1>15 DEF BlockInvariant

LEMMA AllocateKeeps ==
  ASSUME BlockInvariant, NEW r \in Requests, NEW tokens \in Nat, Allocate(r, tokens)
  PROVE  BlockInvariant'
<1>1. TypeOK /\ RefcountsExact
  BY DEF BlockInvariant
<1>2. <<>> \in Seq(DOMAIN blocks) /\ Distinct(<<>>) /\ Blocks(<<>>) = {}
  BY DEF Distinct, Blocks
<1>3. blocks \in [DOMAIN blocks -> [used : 1 .. BlockSize, refcount : Nat \ {0}]]
  BY <1>1 DEF TypeOK
<1>4. \A b \in DOMAIN blocks :
        blocks[b].refcount =
          Cardinality((Holders(b) \ {r}) \cup (IF b \in Blocks(<<>>) THEN {r} ELSE {}))
  <2>1. ASSUME NEW b \in DOMAIN blocks
        PROVE  (Holders(b) \ {r}) \cup (IF b \in Blocks(<<>>) THEN {r} ELSE {}) = Holders(b)
    BY <1>2 DEF Allocate, Holders
  <2> QED BY <1>1, <2>1 DEF RefcountsExact
<1>5. <<>> \o NewTable(tokens) = NewTable(tokens)
  BY <1>1, NewTableLists
<1>6. r \notin Live /\ Grows(r, tokens, tokens, <<>>, blocks)
  BY <1>5 DEF Allocate, Create, Grows
<1> QED BY <1>2, <1>3, <1>4, <1>6, Grown

\* The blocks a fork shares are a prefix of the parent's table.
LEMMA PrefixShares ==
  ASSUME NEW A, NEW table \in Seq(A), Distinct(table), NEW n \in 0 .. Len(table)
  PROVE  /\ SubSeq(table, 1, n) \in Seq(A)
         /\ Distinct(SubSeq(table, 1, n))
         /\ Blocks(SubSeq(table, 1, n)) \subseteq Blocks(table)
         /\ Len(SubSeq(table, 1, n)) = n
         /\ \A i \in 1 .. n : SubSeq(table, 1, n)[i] = table[i] /\ i \in 1 .. Len(table)
<1>1. /\ SubSeq(table, 1, n) \in Seq(A)
      /\ Len(SubSeq(table, 1, n)) = n
      /\ \A i \in 1 .. n : SubSeq(table, 1, n)[i] = table[i] /\ i \in 1 .. Len(table)
  OBVIOUS
<1> QED BY <1>1 DEF Distinct, Blocks

\* A fork shares no more than the child's length, so the rest is a natural.
LEMMA RestIsNat ==
  ASSUME NEW prefix \in Nat, NEW held \in Nat, NEW total \in Nat
  PROVE  /\ FullBlocks(Agreed(prefix, held, total)) \in Nat
         /\ total - FullBlocks(Agreed(prefix, held, total)) * BlockSize \in Nat
<1> DEFINE agreed == Agreed(prefix, held, total)
           full == FullBlocks(agreed)
<1>1. agreed \in Nat /\ agreed <= total
  BY DEF Agreed, Smaller
<1> HIDE DEF agreed
<1>2. full \in Nat /\ full * BlockSize <= agreed /\ full * BlockSize \in Nat
  BY <1>1, FloorBound DEF FullBlocks
<1> HIDE DEF full
<1>3. full \in Nat /\ total - full * BlockSize \in Nat
  BY <1>1, <1>2
<1> QED BY <1>3 DEF full, agreed

LEMMA ForkKeeps ==
  ASSUME BlockInvariant,
         NEW parent \in Requests, NEW child \in Requests,
         NEW prefix \in Nat, NEW total \in Nat,
         Fork(parent, child, prefix, total)
  PROVE  BlockInvariant'
<1> DEFINE full == FullBlocks(Agreed(prefix, sequences[parent].tokens, total))
           shared == SubSeq(Table(parent), 1, Smaller(full, Len(Table(parent))))
           rest == total - full * BlockSize
           old == [b \in DOMAIN blocks |->
                     [blocks[b] EXCEPT !.refcount = @ + Occurrences(b, shared)]]
<1>1. TypeOK /\ RefcountsExact /\ TablesDistinct /\ parent \in Live /\ child \notin Live
  BY DEF BlockInvariant, Fork
<1>2. /\ sequences[parent] \in [table : Seq(DOMAIN blocks), tokens : Nat]
      /\ Table(parent) \in Seq(DOMAIN blocks) /\ Distinct(Table(parent))
  <2>1. sequences[parent] \in [table : Seq(DOMAIN blocks), tokens : Nat]
    BY <1>1 DEF TypeOK
  <2>2. Distinct(Table(parent))
    BY <1>1 DEF TablesDistinct, Distinct
  <2> QED BY <2>1, <2>2 DEF Table
<1>3. full \in Nat /\ rest \in Nat
  BY <1>2, RestIsNat
<1> HIDE DEF full, rest
<1>4. /\ shared \in Seq(DOMAIN blocks)
      /\ Distinct(shared)
      /\ Blocks(shared) \subseteq Blocks(Table(parent))
  <2>1. Smaller(full, Len(Table(parent))) \in 0 .. Len(Table(parent))
    BY <1>2, <1>3 DEF Smaller
  <2> QED BY <1>2, <2>1, PrefixShares
<1> HIDE DEF shared
<1>5. \A b \in DOMAIN blocks : Occurrences(b, shared) = IF b \in Blocks(shared) THEN 1 ELSE 0
  BY <1>4, OccursOnce
<1>6. \A b \in DOMAIN blocks :
        /\ blocks[b] \in [used : 1 .. BlockSize, refcount : Nat \ {0}]
        /\ blocks[b].refcount = Cardinality(Holders(b))
  BY <1>1 DEF TypeOK, RefcountsExact
<1>7. old \in [DOMAIN blocks -> [used : 1 .. BlockSize, refcount : Nat \ {0}]]
  <2>1. ASSUME NEW b \in DOMAIN blocks
        PROVE  old[b] \in [used : 1 .. BlockSize, refcount : Nat \ {0}]
    <3>1. blocks[b].refcount + Occurrences(b, shared) \in Nat \ {0}
      BY <1>5, <1>6
    <3> QED BY <1>6, <3>1
  <2> QED BY <2>1
<1>8. ASSUME NEW b \in DOMAIN blocks
      PROVE  old[b].refcount =
               Cardinality((Holders(b) \ {child}) \cup (IF b \in Blocks(shared) THEN {child} ELSE {}))
  <2>1. child \notin Holders(b) /\ IsFiniteSet(Holders(b))
    BY <1>1, HoldersFinite DEF Holders
  <2>2. old[b].refcount = blocks[b].refcount + Occurrences(b, shared)
    BY <1>6
  <2>3. CASE b \in Blocks(shared)
    <3>1. Cardinality(Holders(b) \cup {child}) = Cardinality(Holders(b)) + 1
      BY <2>1, FS_AddElement
    <3>2. (Holders(b) \ {child}) \cup (IF b \in Blocks(shared) THEN {child} ELSE {})
            = Holders(b) \cup {child}
      BY <2>1, <2>3
    <3>3. old[b].refcount = Cardinality(Holders(b)) + 1
      BY <1>5, <1>6, <2>2, <2>3
    <3> QED BY <3>1, <3>2, <3>3
  <2>4. CASE b \notin Blocks(shared)
    <3>1. (Holders(b) \ {child}) \cup (IF b \in Blocks(shared) THEN {child} ELSE {}) = Holders(b)
      BY <2>1, <2>4
    <3>2. old[b].refcount = Cardinality(Holders(b))
      <4>1. Occurrences(b, shared) = 0 /\ blocks[b].refcount \in Nat
        BY <1>5, <1>6, <2>4
      <4> QED BY <1>6, <2>2, <4>1
    <3> QED BY <3>1, <3>2
  <2> QED BY <2>3, <2>4
<1>9. Grows(child, rest, total, shared, old)
  <2>1. /\ nextBlockId' = nextBlockId + BlocksFor(rest)
        /\ blocks' = [b \in DOMAIN blocks \cup NewBlocks(rest) |->
             IF b \in NewBlocks(rest) THEN NewBlock(b, rest)
             ELSE [blocks[b] EXCEPT !.refcount = @ + Occurrences(b, shared)]]
        /\ sequences' = [s \in Live \cup {child} |->
             IF s = child THEN [table |-> shared \o NewTable(rest), tokens |-> total]
             ELSE sequences[s]]
    BY DEF Fork, Create, full, shared, rest
  <2> QED BY <2>1 DEF Grows
<1> HIDE DEF old
<1>10. \A b \in DOMAIN blocks :
         old[b].refcount =
           Cardinality((Holders(b) \ {child}) \cup (IF b \in Blocks(shared) THEN {child} ELSE {}))
  BY <1>8
<1> QED BY ONLY BlockInvariant, child \in Requests, total \in Nat,
            <1>1, <1>3, <1>4, <1>7, <1>9, <1>10, Grown

\* append fills the last block at most, and only where nobody else reads it.
LEMMA TailFilled ==
  ASSUME TypeOK, NEW r \in Live, NEW tokens \in Nat
  PROVE  LET table == Table(r)
             added == Smaller(TailRoom(table), tokens)
         IN  /\ table \in Seq(DOMAIN blocks)
             /\ added \in Nat /\ added <= tokens
             /\ table # <<>> =>
                  /\ table[Len(table)] \in DOMAIN blocks
                  /\ blocks[table[Len(table)]].used + added \in 1 .. BlockSize
                  /\ blocks[table[Len(table)]].refcount # 1 => added = 0
<1> DEFINE table == Table(r)
           tail == table[Len(table)]
           added == Smaller(TailRoom(table), tokens)
<1>1. table \in Seq(DOMAIN blocks)
  BY DEF TypeOK, Table
<1>2. BlockSize \in Nat
  BY BlockAssumption
<1>3. CASE table = <<>>
  <2>1. added = 0
    BY <1>3 DEF TailRoom, Smaller
  <2> QED BY <1>1, <1>3, <2>1
<1>4. CASE table # <<>>
  <2>1. Len(table) \in 1 .. Len(table)
    BY <1>1, <1>4
  <2>2. tail \in DOMAIN blocks
    BY <1>1, <2>1
  <2>3. blocks[tail].used \in 1 .. BlockSize
    BY <2>2 DEF TypeOK
  <2>4. TailRoom(table) = IF blocks[tail].refcount # 1 THEN 0 ELSE BlockSize - blocks[tail].used
    BY <1>4 DEF TailRoom
  <2> HIDE DEF tail, table
  <2>5. CASE blocks[tail].refcount # 1
    <3>1. TailRoom(table) = 0
      BY <2>4, <2>5
    <3>2. added = 0
      BY <3>1 DEF Smaller
    <3> QED BY <1>1, <1>2, <2>2, <2>3, <3>2 DEF tail, table
  <2>6. CASE blocks[tail].refcount = 1
    <3>1. TailRoom(table) = BlockSize - blocks[tail].used
      BY <2>4, <2>6
    <3>2. added \in Nat /\ added <= tokens /\ added <= BlockSize - blocks[tail].used
      BY <1>2, <2>3, <3>1 DEF Smaller
    <3>3. blocks[tail].used + added \in 1 .. BlockSize
      BY <1>2, <2>3, <3>2
    <3> QED BY <1>1, <2>2, <2>6, <3>2, <3>3 DEF tail, table
  <2> QED BY <2>5, <2>6
<1> QED BY <1>3, <1>4

LEMMA AppendKeeps ==
  ASSUME BlockInvariant, NEW r \in Requests, NEW tokens \in Nat, AppendTokens(r, tokens)
  PROVE  BlockInvariant'
<1> DEFINE table == Table(r)
           added == Smaller(TailRoom(table), tokens)
           rest == tokens - added
           total == sequences[r].tokens + tokens
           old == [b \in DOMAIN blocks |->
                     IF table # <<>> /\ b = table[Len(table)]
                     THEN [blocks[b] EXCEPT !.used = @ + added]
                     ELSE blocks[b]]
<1>1. TypeOK /\ RefcountsExact /\ TablesDistinct /\ r \in Live
  BY DEF BlockInvariant, AppendTokens
<1>2. /\ table \in Seq(DOMAIN blocks)
      /\ added \in Nat /\ added <= tokens
      /\ table # <<>> => blocks[table[Len(table)]].used + added \in 1 .. BlockSize
  BY <1>1, TailFilled
<1>3. Grows(r, rest, total, table, old)
  <2>1. /\ nextBlockId' = nextBlockId + BlocksFor(rest)
        /\ blocks' = [b \in DOMAIN blocks \cup NewBlocks(rest) |->
             IF b \in NewBlocks(rest) THEN NewBlock(b, rest)
             ELSE IF table # <<>> /\ b = table[Len(table)]
             THEN [blocks[b] EXCEPT !.used = @ + added]
             ELSE blocks[b]]
        /\ sequences' = [sequences EXCEPT
             ![r] = [table |-> table \o NewTable(rest), tokens |-> @.tokens + tokens]]
    BY DEF AppendTokens, Create
  <2>2. blocks' = [b \in DOMAIN blocks \cup NewBlocks(rest) |->
                     IF b \in NewBlocks(rest) THEN NewBlock(b, rest) ELSE old[b]]
    BY <2>1
  <2>3. sequences = [s \in Live |-> sequences[s]]
    BY <1>1 DEF TypeOK
  <2> HIDE DEF old, added, rest, table
  <2>4. sequences' = [s \in Live \cup {r} |->
                        IF s = r THEN [table |-> table \o NewTable(rest), tokens |-> total]
                        ELSE sequences[s]]
    BY <1>1, <2>1, <2>3 DEF Live
  <2> QED BY <2>1, <2>2, <2>4 DEF Grows
<1>4. total \in Nat /\ rest \in Nat
  <2>1. sequences[r].tokens \in Nat
    BY <1>1 DEF TypeOK
  <2> HIDE DEF added
  <2> QED BY <1>2, <2>1
<1>5. Distinct(table) /\ Blocks(Table(r)) \subseteq Blocks(table)
  BY <1>1 DEF TablesDistinct, Distinct
<1> HIDE DEF added
<1>6. ASSUME NEW b \in DOMAIN blocks
      PROVE  /\ old[b] \in [used : 1 .. BlockSize, refcount : Nat \ {0}]
             /\ old[b].refcount = blocks[b].refcount
  <2>1. blocks[b] \in [used : 1 .. BlockSize, refcount : Nat \ {0}]
    BY <1>1 DEF TypeOK
  <2> HIDE DEF table
  <2> QED BY <1>2, <2>1
<1>7. old \in [DOMAIN blocks -> [used : 1 .. BlockSize, refcount : Nat \ {0}]]
  BY <1>6
<1>8. \A b \in DOMAIN blocks :
        old[b].refcount =
          Cardinality((Holders(b) \ {r}) \cup (IF b \in Blocks(table) THEN {r} ELSE {}))
  <2>1. ASSUME NEW b \in DOMAIN blocks
        PROVE  (Holders(b) \ {r}) \cup (IF b \in Blocks(table) THEN {r} ELSE {}) = Holders(b)
    BY <1>1 DEF Holders
  <2> HIDE DEF old, table
  <2> QED BY <1>1, <1>6, <2>1 DEF RefcountsExact
<1> HIDE DEF old, table, rest, total
<1>9. r \in Live => Blocks(Table(r)) \subseteq Blocks(table)
  BY <1>5
<1> QED BY ONLY BlockInvariant, r \in Requests,
            <1>2, <1>3, <1>4, <1>5, <1>7, <1>8, <1>9, Grown

-----------------------------------------------------------------------------
\* What is left of a count when r goes is the number of the other holders.
LEMMA CountWithout ==
  ASSUME BlockInvariant, NEW r \in Live, NEW b \in DOMAIN blocks
  PROVE  /\ Occurrences(b, Table(r)) \in {0, 1}
         /\ blocks[b].refcount - Occurrences(b, Table(r)) = Cardinality(Holders(b) \ {r})
         /\ Cardinality(Holders(b) \ {r}) \in Nat
         /\ b \in Kept(Table(r)) <=> Holders(b) \ {r} # {}
<1>1. TypeOK /\ RefcountsExact /\ TablesDistinct
  BY DEF BlockInvariant
<1>2. Table(r) \in Seq(DOMAIN blocks) /\ Distinct(Table(r))
  BY <1>1 DEF TypeOK, Table, TablesDistinct, Distinct
<1>3. Occurrences(b, Table(r)) = IF r \in Holders(b) THEN 1 ELSE 0
  BY <1>2, OccursOnce DEF Holders
<1>4. IsFiniteSet(Holders(b)) /\ IsFiniteSet(Holders(b) \ {r})
  BY <1>1, HoldersFinite, FS_Subset
<1>5. Cardinality(Holders(b)) \in Nat /\ Cardinality(Holders(b) \ {r}) \in Nat
  BY <1>4, FS_CardinalityType
<1>6. Cardinality(Holders(b) \ {r}) =
        IF r \in Holders(b) THEN Cardinality(Holders(b)) - 1 ELSE Cardinality(Holders(b))
  BY <1>4, FS_RemoveElement
<1>7. blocks[b].refcount = Cardinality(Holders(b))
  BY <1>1 DEF RefcountsExact
<1>8. Cardinality(Holders(b) \ {r}) = 0 <=> Holders(b) \ {r} = {}
  BY <1>4, FS_EmptySet
<1>9. blocks[b].refcount - Occurrences(b, Table(r)) = Cardinality(Holders(b) \ {r})
  BY <1>3, <1>5, <1>6, <1>7
<1>10. blocks[b].refcount = Occurrences(b, Table(r)) <=> Cardinality(Holders(b) \ {r}) = 0
  BY <1>3, <1>5, <1>7, <1>9
<1> QED BY <1>3, <1>5, <1>8, <1>9, <1>10 DEF Kept

LEMMA ReleaseKeeps ==
  ASSUME BlockInvariant, NEW r \in Requests, Release(r)
  PROVE  BlockInvariant'
<1> DEFINE K == Kept(Table(r))
           reduced(b) == [blocks[b] EXCEPT !.refcount = @ - Occurrences(b, Table(r))]
<1>1. TypeOK /\ RefcountsExact /\ TablesDistinct /\ r \in Live
  BY DEF BlockInvariant, Release
<1>2. /\ DOMAIN sequences' = Live \ {r}
      /\ \A s \in Live \ {r} : sequences'[s] = sequences[s]
      /\ sequences' = [s \in Live \ {r} |-> sequences[s]]
      /\ blocks' = [b \in K |-> reduced(b)]
      /\ nextBlockId' = nextBlockId
  BY DEF Release
<1>3. K = {b \in DOMAIN blocks : Holders(b) \ {r} # {}}
  BY <1>1, CountWithout DEF Kept
<1>4. \A b \in K : /\ Cardinality(Holders(b) \ {r}) \in Nat \ {0}
                   /\ b \in DOMAIN blocks
                   /\ blocks[b].refcount - Occurrences(b, Table(r)) = Cardinality(Holders(b) \ {r})
  <2>1. ASSUME NEW b \in K PROVE Cardinality(Holders(b) \ {r}) # 0
    <3>1. IsFiniteSet(Holders(b) \ {r})
      BY <1>1, HoldersFinite, FS_Subset
    <3> QED BY <1>3, <3>1, FS_EmptySet
  <2> QED BY <1>1, <1>3, <2>1, CountWithout
<1> HIDE DEF K
<1>5. \A b \in K : /\ reduced(b) \in [used : 1 .. BlockSize, refcount : Nat \ {0}]
                   /\ reduced(b).refcount = Cardinality(Holders(b) \ {r})
  <2>1. \A b \in K : blocks[b] \in [used : 1 .. BlockSize, refcount : Nat \ {0}]
    BY <1>1, <1>4 DEF TypeOK
  <2> QED BY <1>4, <2>1
<1> HIDE DEF reduced
<1>6. ASSUME NEW s \in Live \ {r}
      PROVE  sequences[s] \in [table : Seq(K), tokens : Nat]
  <2>1. sequences[s] \in [table : Seq(DOMAIN blocks), tokens : Nat]
    BY <1>1 DEF TypeOK
  <2>2. ASSUME NEW i \in 1 .. Len(sequences[s].table) PROVE sequences[s].table[i] \in K
    <3>1. sequences[s].table[i] \in DOMAIN blocks
      BY <2>1
    <3>2. s \in Holders(sequences[s].table[i]) \ {r}
      BY DEF Holders, Table, Blocks
    <3> QED BY <1>3, <3>1, <3>2
  <2>3. sequences[s].table \in Seq(K)
    BY <2>1, <2>2
  <2> QED BY <2>1, <2>3
<1>7. TypeOK'
  <2>1. nextBlockId' \in Nat /\ DOMAIN blocks' \subseteq 0 .. nextBlockId' - 1
    BY <1>1, <1>2, <1>4 DEF TypeOK
  <2>2. blocks' \in [DOMAIN blocks' -> [used : 1 .. BlockSize, refcount : Nat \ {0}]]
    BY <1>2, <1>5
  <2>3. Live' \subseteq Requests
    BY <1>1, <1>2 DEF TypeOK, Live
  <2>4. sequences' \in [Live' -> [table : Seq(DOMAIN blocks'), tokens : Nat]]
    BY <1>2, <1>6 DEF Live
  <2> QED BY <2>1, <2>2, <2>3, <2>4 DEF TypeOK
<1>8. TablesDistinct'
  <2>1. ASSUME NEW s \in Live' PROVE Distinct(sequences'[s].table)
    <3>1. s \in Live \ {r} /\ sequences'[s] = sequences[s]
      BY <1>2 DEF Live
    <3>2. Distinct(Table(s))
      BY <1>1, <3>1 DEF TablesDistinct, Distinct
    <3> QED BY <3>1, <3>2 DEF Table
  <2> QED BY <2>1 DEF TablesDistinct, Table, Distinct
<1>9. RefcountsExact'
  <2>1. ASSUME NEW b
        PROVE  {s \in Live' : b \in Blocks(sequences'[s].table)} = Holders(b) \ {r}
    BY <1>2 DEF Live, Holders, Table
  <2>2. \A b \in K : blocks'[b].refcount =
          Cardinality({s \in Live' : b \in Blocks(sequences'[s].table)})
    BY <1>2, <1>5, <2>1
  <2>3. ASSUME NEW b
        PROVE  b \in K <=> \E s \in Live' : b \in Blocks(sequences'[s].table)
    <3>1. (\E s \in Live' : b \in Blocks(sequences'[s].table)) <=> Holders(b) \ {r} # {}
      BY <2>1
    <3>2. Holders(b) # {} => b \in DOMAIN blocks
      BY <1>1 DEF RefcountsExact, Holders
    <3> QED BY <1>3, <3>1, <3>2
  <2>4. DOMAIN blocks' = UNION {Blocks(sequences'[s].table) : s \in Live'}
    <3>1. DOMAIN blocks' = K
      BY <1>2
    <3>2. UNION {Blocks(sequences'[s].table) : s \in Live'} \subseteq K
      BY <2>3
    <3>3. K \subseteq UNION {Blocks(sequences'[s].table) : s \in Live'}
      BY <2>3
    <3> QED BY <3>1, <3>2, <3>3
  <2> QED BY <1>2, <2>2, <2>4 DEF RefcountsExact, Holders, Table
<1> QED BY <1>7, <1>8, <1>9 DEF BlockInvariant

-----------------------------------------------------------------------------
LEMMA BlocksStart == Init => BlockInvariant
<1> SUFFICES ASSUME Init PROVE BlockInvariant
  OBVIOUS
<1>1. DOMAIN blocks = {} /\ Live = {} /\ nextBlockId = 0
  BY DEF Init, Live
<1>2. TypeOK
  BY <1>1 DEF TypeOK, Init
<1>3. RefcountsExact /\ TablesDistinct
  BY <1>1 DEF RefcountsExact, TablesDistinct
<1> QED BY <1>2, <1>3 DEF BlockInvariant

LEMMA BlocksKept == BlockInvariant /\ [Next]_vars => BlockInvariant'
<1> SUFFICES ASSUME BlockInvariant, [Next]_vars PROVE BlockInvariant'
  OBVIOUS
<1>1. TokenCounts \subseteq Nat
  BY BlockAssumption
<1>2. ASSUME NEW r \in Requests, NEW tokens \in TokenCounts, Allocate(r, tokens)
      PROVE  BlockInvariant'
  BY <1>1, <1>2, AllocateKeeps
<1>3. ASSUME NEW r \in Requests, NEW tokens \in TokenCounts, AppendTokens(r, tokens)
      PROVE  BlockInvariant'
  BY <1>1, <1>3, AppendKeeps
<1>4. ASSUME NEW r \in Requests, NEW child \in Requests,
             NEW prefix \in TokenCounts, NEW total \in TokenCounts,
             Fork(r, child, prefix, total)
      PROVE  BlockInvariant'
  BY <1>1, <1>4, ForkKeeps
<1>5. ASSUME NEW r \in Requests, Release(r)
      PROVE  BlockInvariant'
  BY <1>5, ReleaseKeeps
<1>6. CASE UNCHANGED vars
  <2>1. blocks' = blocks /\ sequences' = sequences /\ nextBlockId' = nextBlockId
    BY <1>6 DEF vars
  <2>2. TypeOK'
    BY <2>1 DEF BlockInvariant, TypeOK, Live
  <2>3. RefcountsExact'
    BY <2>1 DEF BlockInvariant, RefcountsExact, Holders, Live, Table
  <2>4. TablesDistinct'
    BY <2>1 DEF BlockInvariant, TablesDistinct, Live, Table
  <2> QED BY <2>2, <2>3, <2>4 DEF BlockInvariant
<1> QED BY <1>2, <1>3, <1>4, <1>5, <1>6 DEF Next

LEMMA BlocksInvariant == Spec => []BlockInvariant
BY BlocksStart, BlocksKept, PTL DEF Spec

\* Every variable of the block manager keeps its type.
THEOREM TypeCorrect == Spec => []TypeOK
<1>1. BlockInvariant => TypeOK
  BY DEF BlockInvariant
<1> QED BY <1>1, BlocksInvariant, PTL

\* allocate, fork, append and release keep every reference count equal to the number
\* of tables that hold the block, and no other block exists.
THEOREM CountsCorrect == Spec => []RefcountsExact
<1>1. BlockInvariant => RefcountsExact
  BY DEF BlockInvariant
<1> QED BY <1>1, BlocksInvariant, PTL

-----------------------------------------------------------------------------
Untouched ==
  \A r \in Live \cap Live' :
    sequences'[r] = sequences[r] =>
      \A b \in Blocks(Table(r)) : b \in DOMAIN blocks' /\ blocks'[b].used = blocks[b].used

\* The blocks a table lists exist, and no new block is among them.
LEMMA TableExists ==
  ASSUME TypeOK, NEW s \in Live, NEW b \in Blocks(Table(s)), NEW tokens \in Nat
  PROVE  b \in DOMAIN blocks /\ b \notin NewBlocks(tokens)
<1>1. Table(s) \in Seq(DOMAIN blocks)
  BY DEF TypeOK, Table
<1>2. b \in DOMAIN blocks
  BY <1>1 DEF Blocks
<1> QED BY <1>2, NewBlocksTyped

LEMMA AppendLeavesOthers ==
  ASSUME BlockInvariant, NEW r \in Requests, NEW tokens \in Nat, AppendTokens(r, tokens)
  PROVE  Untouched
<1> DEFINE table == Table(r)
           added == Smaller(TailRoom(table), tokens)
           rest == tokens - added
<1>1. TypeOK /\ RefcountsExact /\ r \in Live /\ tokens > 0
  BY DEF BlockInvariant, AppendTokens
<1>2. /\ added \in Nat /\ added <= tokens
      /\ (table # <<>> /\ blocks[table[Len(table)]].refcount # 1) => added = 0
      /\ table \in Seq(DOMAIN blocks)
  BY <1>1, TailFilled
<1>3. /\ blocks' = [b \in DOMAIN blocks \cup NewBlocks(rest) |->
           IF b \in NewBlocks(rest) THEN NewBlock(b, rest)
           ELSE IF table # <<>> /\ b = table[Len(table)]
           THEN [blocks[b] EXCEPT !.used = @ + added]
           ELSE blocks[b]]
      /\ sequences'[r].tokens = sequences[r].tokens + tokens
  BY <1>1 DEF AppendTokens, TypeOK
<1>4. sequences'[r] # sequences[r]
  <2>1. sequences[r].tokens \in Nat
    BY <1>1 DEF TypeOK
  <2> QED BY <1>1, <1>3, <2>1
<1>5. rest \in Nat
  <2> HIDE DEF added
  <2> QED BY <1>2
<1> HIDE DEF added, rest
<1>6. ASSUME NEW s \in Live, s # r, NEW b \in Blocks(Table(s))
      PROVE  b \in DOMAIN blocks' /\ blocks'[b].used = blocks[b].used
  <2>1. b \in DOMAIN blocks /\ b \notin NewBlocks(rest)
    BY <1>1, <1>5, TableExists
  <2>2. blocks[b] \in [used : 1 .. BlockSize, refcount : Nat \ {0}]
    BY <1>1, <2>1 DEF TypeOK
  <2>3. CASE table # <<>> /\ b = table[Len(table)]
    <3>1. Len(table) \in 1 .. Len(table)
      BY <1>2, <2>3
    <3>2. r \in Holders(b) /\ s \in Holders(b)
      BY <1>1, <2>3, <3>1 DEF Holders, Blocks
    <3>3. blocks[b].refcount # 1
      <4>1. ASSUME Cardinality(Holders(b)) = 1 PROVE FALSE
        <5>1. PICK x : Holders(b) = {x}
          BY <1>1, <4>1, HoldersFinite, FS_Singleton
        <5> QED BY <1>6, <3>2, <5>1
      <4> QED BY <1>1, <2>1, <4>1 DEF RefcountsExact
    <3>4. added = 0
      BY <1>2, <2>3, <3>3
    <3>5. blocks'[b] = [blocks[b] EXCEPT !.used = @ + added]
      BY <1>3, <2>1, <2>3
    <3>6. blocks'[b].used = blocks[b].used + added
      BY <2>2, <3>5
    <3> QED BY <1>2, <1>3, <2>1, <2>2, <3>4, <3>6
  <2>4. CASE ~(table # <<>> /\ b = table[Len(table)])
    BY <1>3, <2>1, <2>4
  <2> QED BY <2>3, <2>4
<1> QED BY <1>4, <1>6 DEF Untouched

LEMMA ReleaseLeavesOthers ==
  ASSUME BlockInvariant, NEW r \in Requests, Release(r)
  PROVE  Untouched
<1>1. TypeOK /\ r \in Live
  BY DEF BlockInvariant, Release
<1>2. /\ Live' = Live \ {r}
      /\ blocks' = [b \in Kept(Table(r)) |->
           [blocks[b] EXCEPT !.refcount = @ - Occurrences(b, Table(r))]]
  BY DEF Release, Live
<1>3. ASSUME NEW s \in Live \ {r}, NEW b \in Blocks(Table(s))
      PROVE  b \in DOMAIN blocks' /\ blocks'[b].used = blocks[b].used
  <2>1. b \in DOMAIN blocks
    BY <1>1, TableExists
  <2>2. s \in Holders(b) \ {r}
    BY DEF Holders
  <2>3. b \in Kept(Table(r))
    BY <1>1, <2>1, <2>2, CountWithout
  <2>4. blocks[b] \in [used : 1 .. BlockSize, refcount : Nat \ {0}]
    BY <1>1, <2>1 DEF TypeOK
  <2> QED BY <1>2, <2>3, <2>4
<1> QED BY <1>2, <1>3 DEF Untouched

LEMMA OthersLeft == BlockInvariant /\ [Next]_vars => [Untouched]_vars
<1> SUFFICES ASSUME BlockInvariant, Next PROVE Untouched
  OBVIOUS
<1>1. TokenCounts \subseteq Nat /\ TypeOK
  BY BlockAssumption DEF BlockInvariant
<1>2. ASSUME NEW r \in Requests, NEW tokens \in TokenCounts, Allocate(r, tokens)
      PROVE  Untouched
  <2>1. blocks' = [b \in DOMAIN blocks \cup NewBlocks(tokens) |->
          IF b \in NewBlocks(tokens) THEN NewBlock(b, tokens) ELSE blocks[b]]
    BY <1>2 DEF Allocate
  <2>2. tokens \in Nat
    BY <1>1
  <2> QED BY <1>1, <2>1, <2>2, TableExists DEF Untouched
<1>3. ASSUME NEW r \in Requests, NEW tokens \in TokenCounts, AppendTokens(r, tokens)
      PROVE  Untouched
  BY <1>1, <1>3, AppendLeavesOthers
<1>4. ASSUME NEW r \in Requests, NEW child \in Requests,
             NEW prefix \in TokenCounts, NEW total \in TokenCounts,
             Fork(r, child, prefix, total)
      PROVE  Untouched
  <2> DEFINE full == FullBlocks(Agreed(prefix, sequences[r].tokens, total))
             shared == SubSeq(Table(r), 1, Smaller(full, Len(Table(r))))
             rest == total - full * BlockSize
  <2>1. blocks' = [b \in DOMAIN blocks \cup NewBlocks(rest) |->
          IF b \in NewBlocks(rest) THEN NewBlock(b, rest)
          ELSE [blocks[b] EXCEPT !.refcount = @ + Occurrences(b, shared)]]
    BY <1>4 DEF Fork
  <2>2. rest \in Nat
    <3>1. sequences[r].tokens \in Nat
      BY <1>1, <1>4 DEF Fork, TypeOK
    <3> QED BY <1>1, <3>1, RestIsNat
  <2> HIDE DEF rest, shared
  <2>3. ASSUME NEW s \in Live, NEW b \in Blocks(Table(s))
        PROVE  b \in DOMAIN blocks' /\ blocks'[b].used = blocks[b].used
    <3>1. b \in DOMAIN blocks /\ b \notin NewBlocks(rest)
      BY <1>1, <2>2, TableExists
    <3>2. blocks[b] \in [used : 1 .. BlockSize, refcount : Nat \ {0}]
      BY <1>1, <3>1 DEF TypeOK
    <3> QED BY <2>1, <3>1, <3>2
  <2> QED BY <2>3 DEF Untouched
<1>5. ASSUME NEW r \in Requests, Release(r)
      PROVE  Untouched
  BY <1>5, ReleaseLeavesOthers
<1> QED BY <1>2, <1>3, <1>4, <1>5 DEF Next

\* No operation on one sequence frees or changes a block another one holds, although
\* fork makes sequences share blocks and append writes into the last one.
THEOREM SequencesIsolated == Spec => Isolated
BY BlocksInvariant, OthersLeft, PTL DEF Spec, Isolated, Untouched
-----------------------------------------------------------------------------
(* Tables are full *)

\* The number of blocks is the one whose last block the tokens reach into.
LEMMA Ceiling ==
  ASSUME NEW tokens \in Nat
  PROVE  /\ BlocksFor(tokens) \in Nat
         /\ BlockSize * BlocksFor(tokens) - BlockSize < tokens
         /\ tokens <= BlockSize * BlocksFor(tokens)
<1> DEFINE total == tokens + BlockSize - 1
           q == total \div BlockSize
<1>1. BlockSize \in Nat /\ BlockSize > 0 /\ total \in Nat
  BY BlockAssumption
<1>2. q \in Int /\ total = BlockSize * q + (total % BlockSize)
        /\ (total % BlockSize) \in 0 .. BlockSize - 1
  BY <1>1, Z3
<1>3. BlockSize * q \in Int
  BY <1>1, <1>2
<1>4. BlockSize * q - BlockSize < tokens /\ tokens <= BlockSize * q
  <2>1. total = tokens + BlockSize - 1
    OBVIOUS
  <2> HIDE DEF q, total
  <2> QED BY <1>1, <1>2, <1>3, <2>1
<1> QED BY <1>4, BlocksForBound DEF BlocksFor

LEMMA CeilingUnique ==
  ASSUME NEW tokens \in Nat, NEW n \in Int,
         BlockSize * n - BlockSize < tokens, tokens <= BlockSize * n
  PROVE  BlocksFor(tokens) = n
<1> DEFINE m == BlocksFor(tokens)
<1>1. m \in Nat /\ BlockSize * m - BlockSize < tokens /\ tokens <= BlockSize * m
  BY Ceiling
<1>2. BlockSize \in Nat
  BY BlockAssumption
<1> HIDE DEF m
<1>3. BlockSize * m \in Int /\ BlockSize * n \in Int
  BY <1>1, <1>2
<1>4. ASSUME NEW k \in Int, NEW l \in Int, k <= l - 1
      PROVE  BlockSize * k <= BlockSize * l - BlockSize
  <2>1. BlockSize * k <= BlockSize * (l - 1)
    BY <1>4, Monotone
  <2>2. BlockSize * (l - 1) = BlockSize * l - BlockSize
    BY <1>2
  <2> QED BY <2>1, <2>2
<1>5. ~(m <= n - 1)
  BY <1>1, <1>2, <1>3, <1>4
<1>6. ~(n <= m - 1)
  BY <1>1, <1>2, <1>3, <1>4
<1> QED BY <1>1, <1>5, <1>6 DEF m

\* The table is as long as the tokens need, and its blocks hold them.
Filled(table, tokens, contents) ==
  /\ Len(table) = BlocksFor(tokens)
  /\ \A i \in 1 .. Len(table) :
       contents[table[i]].used = Smaller(BlockSize, tokens - BlockSize * (i - 1))

\* All blocks of a filled table but the last are full.
LEMMA FilledMeans ==
  ASSUME NEW A, NEW table \in Seq(A), NEW tokens \in Nat, NEW contents,
         Filled(table, tokens, contents), NEW i \in 1 .. Len(table)
  PROVE  /\ i < Len(table) \/ BlockSize * i <= tokens => contents[table[i]].used = BlockSize
         /\ i = Len(table) =>
              contents[table[i]].used = tokens - (BlockSize * i - BlockSize)
<1> DEFINE n == Len(table)
<1>1. n \in Nat /\ n = BlocksFor(tokens) /\ BlockSize \in Nat
  BY BlockAssumption DEF Filled
<1>2. BlockSize * n - BlockSize < tokens /\ tokens <= BlockSize * n
  BY <1>1, Ceiling
<1>3. contents[table[i]].used = Smaller(BlockSize, tokens - BlockSize * (i - 1))
  BY DEF Filled
<1> HIDE DEF n
<1>4. BlockSize * (i - 1) = BlockSize * i - BlockSize /\ BlockSize * i \in Int /\ BlockSize * n \in Int
  BY <1>1
<1>5. i < n => BlockSize * i <= tokens
  <2>1. ASSUME i < n PROVE BlockSize * i <= tokens
    <3>1. i \in Int /\ n - 1 \in Int /\ i <= n - 1
      BY <1>1, <2>1
    <3>2. BlockSize * i <= BlockSize * (n - 1)
      BY <3>1, Monotone
    <3>3. BlockSize * (n - 1) = BlockSize * n - BlockSize
      BY <1>1
    <3> QED BY <1>1, <1>2, <1>4, <3>2, <3>3
  <2> QED BY <2>1
<1>6. BlockSize * i <= tokens => contents[table[i]].used = BlockSize
  BY <1>1, <1>3, <1>4 DEF Smaller
<1>7. i = n => contents[table[i]].used = tokens - (BlockSize * i - BlockSize)
  <2>1. ASSUME i = n PROVE tokens - BlockSize * (i - 1) <= BlockSize
    BY <1>1, <1>2, <1>4, <2>1
  <2> QED BY <1>1, <1>2, <1>3, <1>4, <2>1 DEF Smaller
<1> QED BY <1>5, <1>6, <1>7 DEF n

\* The table of new blocks is filled.
LEMMA NewTableFilled ==
  ASSUME NEW tokens \in Nat, TypeOK, NEW contents,
         \A b \in NewBlocks(tokens) : contents[b] = NewBlock(b, tokens)
  PROVE  Filled(NewTable(tokens), tokens, contents)
<1>1. BlocksFor(tokens) \in Nat /\ nextBlockId \in Nat
  BY Ceiling DEF TypeOK
<1>2. Len(NewTable(tokens)) = BlocksFor(tokens)
  BY <1>1 DEF NewTable
<1>3. ASSUME NEW i \in 1 .. BlocksFor(tokens)
      PROVE  contents[NewTable(tokens)[i]].used =
               Smaller(BlockSize, tokens - BlockSize * (i - 1))
  <2>1. NewTable(tokens)[i] = nextBlockId + i - 1
    BY DEF NewTable
  <2>2. nextBlockId + i - 1 \in NewBlocks(tokens)
    BY <1>1 DEF NewBlocks
  <2>3. (nextBlockId + i - 1) - nextBlockId = i - 1
    BY <1>1
  <2>4. NewBlock(nextBlockId + i - 1, tokens).used =
          Smaller(BlockSize, tokens - BlockSize * (i - 1))
    BY <2>3 DEF NewBlock
  <2> QED BY <2>1, <2>2, <2>4
<1> QED BY <1>2, <1>3 DEF Filled

\* A filled table after full blocks is filled.
LEMMA FilledOnto ==
  ASSUME NEW A, NEW B, NEW base \in Seq(A), NEW table \in Seq(B), NEW tokens \in Nat, NEW contents,
         \A i \in 1 .. Len(base) : contents[base[i]].used = BlockSize,
         Filled(table, tokens, contents)
  PROVE  Filled(base \o table, BlockSize * Len(base) + tokens, contents)
<1> DEFINE m == Len(base)
           n == Len(table)
           total == BlockSize * m + tokens
<1>1. m \in Nat /\ n \in Nat /\ n = BlocksFor(tokens) /\ BlockSize \in Nat
  BY BlockAssumption DEF Filled
<1>2. BlockSize * m \in Nat /\ BlockSize * n \in Nat /\ total \in Nat
      /\ BlockSize * (m + n) = BlockSize * m + BlockSize * n
  BY <1>1
<1>3. BlockSize * n - BlockSize < tokens /\ tokens <= BlockSize * n
  BY <1>1, Ceiling
<1>4. /\ Len(base \o table) = m + n
      /\ \A i \in 1 .. m : (base \o table)[i] = base[i]
      /\ \A i \in m + 1 .. m + n : (base \o table)[i] = table[i - m]
  OBVIOUS
<1> HIDE DEF m, n
<1>5. total = BlockSize * m + tokens
  OBVIOUS
<1> HIDE DEF total
<1>6. BlocksFor(total) = m + n
  <2> DEFINE before == BlockSize * m
             own == BlockSize * n
             both == BlockSize * (m + n)
  <2>1. /\ before \in Nat /\ own \in Nat /\ both = before + own /\ total = before + tokens
        /\ own - BlockSize < tokens /\ tokens <= own
    BY <1>2, <1>3, <1>5
  <2>2. m + n \in Int
    BY <1>1
  <2> HIDE DEF before, own, both
  <2>3. both - BlockSize < total /\ total <= both
    BY <1>1, <2>1
  <2> QED BY <1>2, <2>2, <2>3, CeilingUnique DEF both
<1>7. ASSUME NEW i \in 1 .. m
      PROVE  contents[(base \o table)[i]].used = Smaller(BlockSize, total - BlockSize * (i - 1))
  <2>1. contents[(base \o table)[i]].used = BlockSize
    BY <1>4 DEF m
  <2>2. BlockSize * i <= BlockSize * m /\ BlockSize * i \in Int
    BY <1>1, Monotone
  <2>3. BlockSize * (i - 1) = BlockSize * i - BlockSize
    BY <1>1
  <2>4. BlockSize <= total - BlockSize * (i - 1)
    <3> DEFINE x == BlockSize * i
               y == BlockSize * m
    <3>1. x <= y /\ x \in Int /\ y \in Int /\ total = y + tokens
      BY <1>2, <1>5, <2>2
    <3>2. BlockSize * (i - 1) = x - BlockSize
      BY <2>3
    <3> HIDE DEF x, y
    <3> QED BY <1>1, <3>1, <3>2
  <2>5. Smaller(BlockSize, total - BlockSize * (i - 1)) = BlockSize
    <3>1. total - BlockSize * (i - 1) \in Int
      BY <1>1, <1>2, <2>2, <2>3
    <3> QED BY <1>1, <2>4, <3>1 DEF Smaller
  <2> QED BY <2>1, <2>5
<1>8. ASSUME NEW i \in m + 1 .. m + n
      PROVE  contents[(base \o table)[i]].used = Smaller(BlockSize, total - BlockSize * (i - 1))
  <2>1. i - m \in 1 .. n /\ (base \o table)[i] = table[i - m] /\ i \in Int
    BY <1>1, <1>4
  <2>2. contents[table[i - m]].used = Smaller(BlockSize, tokens - BlockSize * ((i - m) - 1))
    BY <2>1 DEF Filled, n
  <2>3. BlockSize * (i - 1) = BlockSize * m + BlockSize * ((i - m) - 1)
        /\ BlockSize * ((i - m) - 1) \in Int
    BY <1>1, <2>1
  <2>4. total - BlockSize * (i - 1) = tokens - BlockSize * ((i - m) - 1)
    BY <1>2, <1>5, <2>3
  <2> QED BY <2>1, <2>2, <2>4
<1>9. \A i \in 1 .. m + n :
        contents[(base \o table)[i]].used = Smaller(BlockSize, total - BlockSize * (i - 1))
  <2>1. \A i \in 1 .. m + n : i \in 1 .. m \/ i \in m + 1 .. m + n
    BY <1>1
  <2> QED BY <1>7, <1>8, <2>1
<1> QED BY <1>4, <1>6, <1>9 DEF Filled, m, n, total
FullInvariant == BlockInvariant /\ TablesFull /\ SharedBlocksFull

\* A sequence nobody operates on stays filled.
LEMMA OthersStayFilled ==
  ASSUME TypeOK, TablesFull, Untouched,
         NEW s \in Live, s \in Live', sequences'[s] = sequences[s]
  PROVE  Filled(sequences'[s].table, sequences'[s].tokens, blocks')
<1>1. \A b \in Blocks(Table(s)) : blocks'[b].used = blocks[b].used
  BY DEF Untouched
<1>2. \A i \in 1 .. Len(Table(s)) : Table(s)[i] \in Blocks(Table(s))
  BY DEF Blocks
<1>3. Filled(Table(s), sequences[s].tokens, blocks)
  BY DEF TablesFull, Filled
<1> QED BY <1>1, <1>2, <1>3 DEF Filled, Table

\* Only the sequence operated on has to be looked at.
LEMMA TablesStayFull ==
  ASSUME TypeOK, TablesFull, Untouched, NEW r, Live' \subseteq Live \cup {r},
         \A s \in Live' \ {r} : sequences'[s] = sequences[s],
         r \in Live' => Filled(sequences'[r].table, sequences'[r].tokens, blocks')
  PROVE  TablesFull'
<1>1. ASSUME NEW s \in Live' PROVE Filled(sequences'[s].table, sequences'[s].tokens, blocks')
  <2>1. CASE s = r
    BY <2>1
  <2>2. CASE s # r
    <3>1. s \in Live /\ sequences'[s] = sequences[s]
      BY <2>2
    <3> QED BY <3>1, OthersStayFilled
  <2> QED BY <2>1, <2>2
<1> QED BY <1>1 DEF TablesFull, Filled, Table

LEMMA AllocateFills ==
  ASSUME FullInvariant, Untouched, NEW r \in Requests, NEW tokens \in Nat, Allocate(r, tokens)
  PROVE  TablesFull' /\ SharedBlocksFull'
<1>1. TypeOK /\ TablesFull /\ SharedBlocksFull
  BY DEF FullInvariant, BlockInvariant
<1>2. /\ blocks' = [b \in DOMAIN blocks \cup NewBlocks(tokens) |->
           IF b \in NewBlocks(tokens) THEN NewBlock(b, tokens) ELSE blocks[b]]
      /\ sequences' = [s \in Live \cup {r} |->
           IF s = r THEN [table |-> NewTable(tokens), tokens |-> tokens] ELSE sequences[s]]
      /\ Live' = Live \cup {r}
  BY DEF Allocate, Live
<1>3. Filled(NewTable(tokens), tokens, blocks')
  <2>1. \A b \in NewBlocks(tokens) : blocks'[b] = NewBlock(b, tokens)
    BY <1>2
  <2> QED BY <1>1, <2>1, NewTableFilled
<1>4. TablesFull'
  <2>1. r \in Live' => Filled(sequences'[r].table, sequences'[r].tokens, blocks')
    BY <1>2, <1>3
  <2>2. \A s \in Live' \ {r} : sequences'[s] = sequences[s]
    BY <1>2
  <2> QED BY <1>1, <1>2, <2>1, <2>2, TablesStayFull
<1>5. SharedBlocksFull'
  BY <1>1, <1>2 DEF SharedBlocksFull, NewBlock
<1> QED BY <1>4, <1>5

LEMMA ForkFills ==
  ASSUME FullInvariant, Untouched,
         NEW parent \in Requests, NEW child \in Requests,
         NEW prefix \in Nat, NEW total \in Nat,
         Fork(parent, child, prefix, total)
  PROVE  TablesFull' /\ SharedBlocksFull'
<1> DEFINE held == sequences[parent].tokens
           agreed == Agreed(prefix, held, total)
           full == FullBlocks(agreed)
           table == Table(parent)
           shared == SubSeq(table, 1, Smaller(full, Len(table)))
           rest == total - full * BlockSize
<1>1. /\ TypeOK /\ RefcountsExact /\ TablesFull /\ SharedBlocksFull
      /\ parent \in Live /\ child \notin Live
  BY DEF FullInvariant, BlockInvariant, Fork
<1>2. table \in Seq(DOMAIN blocks) /\ held \in Nat /\ Filled(table, held, blocks)
  <2>1. sequences[parent] \in [table : Seq(DOMAIN blocks), tokens : Nat]
    BY <1>1 DEF TypeOK
  <2>2. Filled(table, held, blocks)
    BY <1>1 DEF TablesFull, Filled
  <2> QED BY <2>1, <2>2 DEF Table
<1>3. full \in Nat /\ rest \in Nat
  BY <1>2, RestIsNat
<1>4. full * BlockSize <= held
  <2>1. agreed \in Nat /\ agreed <= held
    BY <1>2 DEF Agreed, Smaller
  <2> HIDE DEF agreed
  <2>2. full * BlockSize <= agreed /\ full * BlockSize \in Nat
    BY <2>1, FloorBound DEF FullBlocks
  <2> HIDE DEF full
  <2> QED BY <1>2, <2>1, <2>2
<1>5. /\ blocks' = [b \in DOMAIN blocks \cup NewBlocks(rest) |->
           IF b \in NewBlocks(rest) THEN NewBlock(b, rest)
           ELSE [blocks[b] EXCEPT !.refcount = @ + Occurrences(b, shared)]]
      /\ sequences' = [s \in Live \cup {child} |->
           IF s = child THEN [table |-> shared \o NewTable(rest), tokens |-> total]
           ELSE sequences[s]]
      /\ Live' = Live \cup {child}
  BY DEF Fork, Live
<1>6. total = BlockSize * full + rest
  <2> HIDE DEF full
  <2>1. BlockSize * full = full * BlockSize /\ full * BlockSize \in Int
    BY <1>3, BlockAssumption
  <2> QED BY <2>1
<1> HIDE DEF held, full, rest, table
<1>7. full <= Len(table)
  <2>1. BlockSize * full <= held /\ BlockSize \in Nat \ {0}
    BY <1>3, <1>4, BlockAssumption
  <2>2. Len(table) = BlocksFor(held) /\ held <= BlockSize * BlocksFor(held) /\ Len(table) \in Nat
    BY <1>2, Ceiling DEF Filled
  <2>3. ASSUME Len(table) + 1 <= full PROVE FALSE
    <3>1. BlockSize * (Len(table) + 1) <= BlockSize * full
      BY <1>3, <2>2, <2>3, Monotone
    <3>2. BlockSize * (Len(table) + 1) = BlockSize * Len(table) + BlockSize
            /\ BlockSize * Len(table) \in Int /\ BlockSize * full \in Int
      BY <1>3, <2>1, <2>2
    <3> QED BY <1>2, <2>1, <2>2, <3>1, <3>2
  <2> QED BY <1>3, <2>2, <2>3
<1>8. shared = SubSeq(table, 1, full)
  <2>1. Smaller(full, Len(table)) = full
    BY <1>2, <1>3, <1>7 DEF Smaller
  <2> QED BY <2>1
<1>9. /\ shared \in Seq(DOMAIN blocks) /\ Len(shared) = full
      /\ \A i \in 1 .. full : shared[i] = table[i] /\ i \in 1 .. Len(table)
  <2>1. full \in 0 .. Len(table) /\ Distinct(table)
    BY <1>1, <1>2, <1>3, <1>7 DEF table, FullInvariant, BlockInvariant, TablesDistinct, Distinct
  <2> HIDE DEF shared
  <2> QED BY <1>2, <1>8, <2>1, PrefixShares
<1> HIDE DEF shared
<1>10. ASSUME NEW i \in 1 .. full PROVE blocks[shared[i]].used = BlockSize
  <2>1. BlockSize * i <= BlockSize * full /\ BlockSize * full <= held
          /\ BlockSize * i \in Int /\ BlockSize * full \in Int
    BY <1>3, <1>4, Monotone, BlockAssumption
  <2>2. BlockSize * i <= held /\ i \in 1 .. Len(table)
    BY <1>2, <1>9, <2>1
  <2> QED BY <1>2, <1>9, <2>2, FilledMeans
<1>11. ASSUME NEW b \in DOMAIN blocks
       PROVE  /\ blocks'[b].used = blocks[b].used
              /\ blocks'[b].refcount = blocks[b].refcount + Occurrences(b, shared)
              /\ b \in DOMAIN blocks'
  <2>1. b \notin NewBlocks(rest)
    BY <1>1, <1>3, NewBlocksTyped
  <2>2. blocks[b] \in [used : 1 .. BlockSize, refcount : Nat \ {0}]
    BY <1>1 DEF TypeOK
  <2> QED BY <1>5, <2>1, <2>2
<1>12. Filled(shared \o NewTable(rest), total, blocks')
  <2>1. \A b \in NewBlocks(rest) : blocks'[b] = NewBlock(b, rest)
    BY <1>5
  <2>2. Filled(NewTable(rest), rest, blocks')
    BY <1>1, <1>3, <2>1, NewTableFilled
  <2>3. \A i \in 1 .. Len(shared) : blocks'[shared[i]].used = BlockSize
    BY <1>9, <1>10, <1>11
  <2>4. NewTable(rest) \in Seq(NewBlocks(rest))
    BY <1>1, <1>3, NewTableLists
  <2>5. Filled(shared \o NewTable(rest), BlockSize * Len(shared) + rest, blocks')
    <3>1. ASSUME NEW t \in Seq(NewBlocks(rest)), Filled(t, rest, blocks')
          PROVE  Filled(shared \o t, BlockSize * Len(shared) + rest, blocks')
      BY <1>3, <1>9, <2>3, <3>1, FilledOnto
    <3> QED BY <2>2, <2>4, <3>1
  <2> QED BY <1>6, <1>9, <2>5
<1>13. TablesFull'
  <2>1. child \in Live' => Filled(sequences'[child].table, sequences'[child].tokens, blocks')
    BY <1>5, <1>12
  <2>2. \A s \in Live' \ {child} : sequences'[s] = sequences[s]
    BY <1>5
  <2> QED BY <1>1, <1>5, <2>1, <2>2, TablesStayFull
<1>14. SharedBlocksFull'
  <2>1. ASSUME NEW b \in DOMAIN blocks', blocks'[b].refcount > 1
        PROVE  blocks'[b].used = BlockSize
    <3>1. CASE b \in NewBlocks(rest)
      BY <1>5, <2>1, <3>1 DEF NewBlock
    <3>2. CASE b \in DOMAIN blocks /\ b \in Blocks(shared)
      BY <1>9, <1>10, <1>11, <3>2 DEF Blocks
    <3>3. CASE b \in DOMAIN blocks /\ b \notin Blocks(shared)
      <4>1. Occurrences(b, shared) = 0
        <5>1. {i \in 1 .. Len(shared) : shared[i] = b} = {}
          BY <3>3 DEF Blocks
        <5> QED BY <5>1, FS_EmptySet DEF Occurrences
      <4>2. blocks[b].refcount \in Nat
        BY <1>1, <3>3 DEF TypeOK
      <4>3. blocks[b].refcount > 1
        BY <1>11, <2>1, <3>3, <4>1, <4>2
      <4> QED BY <1>1, <1>11, <3>3, <4>3 DEF SharedBlocksFull
    <3> QED BY <1>5, <3>1, <3>2, <3>3
  <2> QED BY <2>1 DEF SharedBlocksFull
<1> QED BY <1>13, <1>14
\* append completes the last block before it takes new ones.
LEMMA TailCompleted ==
  ASSUME FullInvariant, NEW r \in Live, NEW tokens \in Nat
  PROVE  LET table == Table(r)
             added == Smaller(TailRoom(table), tokens)
         IN  tokens - added > 0 =>
               /\ sequences[r].tokens + added = BlockSize * Len(table)
               /\ table # <<>> => blocks[table[Len(table)]].used + added = BlockSize
<1> DEFINE table == Table(r)
           n == Len(table)
           tail == table[n]
           room == TailRoom(table)
           added == Smaller(room, tokens)
           held == sequences[r].tokens
<1>1. TypeOK /\ TablesFull /\ SharedBlocksFull
  BY DEF FullInvariant, BlockInvariant
<1>2. table \in Seq(DOMAIN blocks) /\ held \in Nat /\ Filled(table, held, blocks)
  <2>1. sequences[r] \in [table : Seq(DOMAIN blocks), tokens : Nat]
    BY <1>1 DEF TypeOK
  <2>2. Filled(table, held, blocks)
    BY <1>1 DEF TablesFull, Filled
  <2> QED BY <2>1, <2>2 DEF Table
<1>3. BlockSize \in Nat /\ n \in Nat /\ n = BlocksFor(held) /\ BlockSize * n \in Nat
  BY <1>2, BlockAssumption DEF Filled
<1>4. CASE table = <<>>
  <2>1. n = 0 /\ room = 0
    BY <1>4 DEF TailRoom
  <2>2. BlockSize * n = 0
    BY <1>3, <2>1
  <2>3. held <= BlockSize * n
    BY <1>2, <1>3, Ceiling
  <2>4. added = 0
    BY <2>1 DEF Smaller
  <2> HIDE DEF n, added, held, table
  <2>5. held + added = BlockSize * n
    BY <1>2, <2>2, <2>3, <2>4
  <2> QED BY <1>4, <2>5 DEF n, added, held, table
<1>5. CASE table # <<>>
  <2>1. n \in 1 .. n
    BY <1>2, <1>5
  <2>2. tail \in DOMAIN blocks
    BY <1>2, <2>1
  <2>3. blocks[tail] \in [used : 1 .. BlockSize, refcount : Nat \ {0}]
    BY <1>1, <2>2 DEF TypeOK
  <2>4. blocks[tail].used = held - (BlockSize * n - BlockSize)
    BY <1>2, <2>1, FilledMeans
  <2>5. room = IF blocks[tail].refcount # 1 THEN 0 ELSE BlockSize - blocks[tail].used
    BY <1>5 DEF TailRoom
  <2>6. blocks[tail].refcount # 1 => blocks[tail].used = BlockSize
    <3>1. ASSUME blocks[tail].refcount # 1 PROVE blocks[tail].refcount > 1
      BY <2>3, <3>1
    <3> QED BY <1>1, <2>2, <3>1 DEF SharedBlocksFull
  <2>7. room = BlockSize - blocks[tail].used /\ blocks[tail].used \in Int
    <3> DEFINE used == blocks[tail].used
               shared == blocks[tail].refcount # 1
    <3>1. BlockSize \in Nat /\ used \in Int
      BY <1>3, <2>3
    <3>2. /\ room = IF shared THEN 0 ELSE BlockSize - used
          /\ shared => used = BlockSize
      BY <2>5, <2>6
    <3> HIDE DEF used, shared, room
    <3>3. room = BlockSize - used
      BY <3>1, <3>2
    <3> QED BY <3>1, <3>3 DEF used
  <2> HIDE DEF n, tail, room, held, table
  <2>8. ASSUME tokens - added > 0 PROVE added = room
    BY <1>3, <2>7, <2>8 DEF Smaller
  <2> HIDE DEF added
  <2>9. ASSUME tokens - added > 0
        PROVE  held + added = BlockSize * n /\ blocks[tail].used + added = BlockSize
    <3> DEFINE used == blocks[tail].used
               x == BlockSize * n
    <3>1. /\ held \in Int /\ x \in Int /\ used \in Int /\ BlockSize \in Int
          /\ used = held - (x - BlockSize) /\ added = BlockSize - used
      BY <1>2, <1>3, <2>4, <2>7, <2>8, <2>9
    <3> HIDE DEF used, x
    <3>2. held + added = x /\ used + added = BlockSize
      BY <3>1
    <3> QED BY <3>2 DEF used, x
  <2> QED BY <2>9 DEF n, added, held, table, tail, room
<1> QED BY <1>4, <1>5

\* append without a new block: the last block takes what is added.
LEMMA FilledFurther ==
  ASSUME NEW A, NEW table \in Seq(A), NEW held \in Nat, NEW added \in Nat,
         NEW contents, NEW later,
         Filled(table, held, contents), table # <<>>,
         held + added <= BlockSize * Len(table),
         \A i \in 1 .. Len(table) - 1 : later[table[i]].used = contents[table[i]].used,
         later[table[Len(table)]].used = contents[table[Len(table)]].used + added
  PROVE  Filled(table, held + added, later)
<1> DEFINE n == Len(table)
           total == held + added
<1>1. n \in Nat /\ n \in 1 .. n /\ BlockSize \in Nat /\ BlockSize * n \in Int /\ total \in Nat
  BY BlockAssumption
<1>2. n = BlocksFor(held)
  BY DEF Filled
<1>3. BlockSize * n - BlockSize < held
  BY <1>2, Ceiling
<1>4. BlockSize * n - BlockSize < total /\ total <= BlockSize * n
  <2> HIDE DEF n
  <2> QED BY <1>1, <1>3 DEF n
<1>5. BlocksFor(total) = n
  <2> HIDE DEF n, total
  <2> QED BY <1>1, <1>4, CeilingUnique
<1>6. ASSUME NEW i \in 1 .. n, i < n
      PROVE  later[table[i]].used = Smaller(BlockSize, total - BlockSize * (i - 1))
  <2>1. later[table[i]].used = BlockSize
    <3>1. later[table[i]].used = contents[table[i]].used
      BY <1>1, <1>6
    <3>2. contents[table[i]].used = BlockSize
      BY <1>6, FilledMeans
    <3> QED BY <3>1, <3>2
  <2> HIDE DEF n, total
  <2>2. BlockSize * i <= BlockSize * (n - 1)
    BY <1>1, <1>6, Monotone
  <2>3. BlockSize * (n - 1) = BlockSize * n - BlockSize
          /\ BlockSize * (i - 1) = BlockSize * i - BlockSize /\ BlockSize * i \in Int
    BY <1>1
  <2>4. BlockSize <= total - BlockSize * (i - 1) /\ total - BlockSize * (i - 1) \in Int
    <3> DEFINE x == BlockSize * i
               y == BlockSize * n
    <3>1. x <= y - BlockSize /\ y - BlockSize < total /\ x \in Int /\ y \in Int
      BY <1>1, <1>4, <2>2, <2>3
    <3>2. BlockSize * (i - 1) = x - BlockSize
      BY <2>3
    <3> HIDE DEF x, y
    <3> QED BY <1>1, <3>1, <3>2
  <2> QED BY <1>1, <2>1, <2>4 DEF Smaller
<1>7. later[table[n]].used = Smaller(BlockSize, total - BlockSize * (n - 1))
  <2>1. contents[table[n]].used = held - (BlockSize * n - BlockSize)
    BY <1>1, FilledMeans
  <2>2. later[table[n]].used = contents[table[n]].used + added
    OBVIOUS
  <2>3. BlockSize * (n - 1) = BlockSize * n - BlockSize
    BY <1>1
  <2>4. total = held + added
    OBVIOUS
  <2> HIDE DEF n, total
  <2>5. later[table[n]].used = total - BlockSize * (n - 1)
    BY <1>1, <2>1, <2>2, <2>3, <2>4
  <2>6. total - BlockSize * (n - 1) <= BlockSize /\ total - BlockSize * (n - 1) \in Int
    BY <1>1, <1>4, <2>3
  <2> QED BY <1>1, <2>5, <2>6 DEF Smaller
<1>8. \A i \in 1 .. n : later[table[i]].used = Smaller(BlockSize, total - BlockSize * (i - 1))
  <2>1. \A i \in 1 .. n : i < n \/ i = n
    BY <1>1
  <2> HIDE DEF n, total
  <2> QED BY <1>6, <1>7, <2>1
<1> QED BY <1>5, <1>8 DEF Filled
LEMMA AppendFills ==
  ASSUME FullInvariant, Untouched,
         NEW r \in Requests, NEW tokens \in Nat, AppendTokens(r, tokens)
  PROVE  TablesFull' /\ SharedBlocksFull'
<1> DEFINE table == Table(r)
           n == Len(table)
           tail == table[n]
           held == sequences[r].tokens
           added == Smaller(TailRoom(table), tokens)
           rest == tokens - added
           total == held + tokens
<1>1. /\ TypeOK /\ TablesDistinct /\ TablesFull /\ SharedBlocksFull
      /\ r \in Live /\ tokens > 0
  BY DEF FullInvariant, BlockInvariant, AppendTokens
<1>2. /\ table \in Seq(DOMAIN blocks) /\ held \in Nat /\ Filled(table, held, blocks)
      /\ Distinct(table)
  <2>1. sequences[r] \in [table : Seq(DOMAIN blocks), tokens : Nat]
    BY <1>1 DEF TypeOK
  <2>2. Filled(table, held, blocks)
    BY <1>1 DEF TablesFull, Filled
  <2>3. Distinct(table)
    BY <1>1 DEF TablesDistinct, Distinct
  <2> QED BY <2>1, <2>2, <2>3 DEF Table
<1>3. /\ added \in Nat /\ added <= tokens
      /\ table # <<>> =>
           /\ tail \in DOMAIN blocks
           /\ blocks[tail].used + added \in 1 .. BlockSize
           /\ blocks[tail].refcount # 1 => added = 0
  BY <1>1, TailFilled
<1>4. rest > 0 =>
        /\ held + added = BlockSize * n
        /\ table # <<>> => blocks[tail].used + added = BlockSize
  BY <1>1, TailCompleted
<1>5. rest \in Nat /\ total = held + added + rest
  <2> HIDE DEF added, held
  <2> QED BY <1>2, <1>3
<1>6. /\ blocks' = [b \in DOMAIN blocks \cup NewBlocks(rest) |->
           IF b \in NewBlocks(rest) THEN NewBlock(b, rest)
           ELSE IF table # <<>> /\ b = tail
           THEN [blocks[b] EXCEPT !.used = @ + added]
           ELSE blocks[b]]
      /\ sequences' = [sequences EXCEPT
           ![r] = [table |-> table \o NewTable(rest), tokens |-> @.tokens + tokens]]
  BY DEF AppendTokens
<1>7. /\ Live' = Live
      /\ sequences'[r].table = table \o NewTable(rest)
      /\ sequences'[r].tokens = total
      /\ \A s \in Live \ {r} : sequences'[s] = sequences[s]
  <2>1. sequences = [s \in Live |-> sequences[s]]
    BY <1>1 DEF TypeOK
  <2> HIDE DEF table, rest
  <2> QED BY <1>1, <1>6, <2>1 DEF Live
<1> HIDE DEF added, rest
<1>8. ASSUME NEW b \in DOMAIN blocks
      PROVE  /\ b \in DOMAIN blocks' /\ b \notin NewBlocks(rest)
             /\ blocks'[b].refcount = blocks[b].refcount
             /\ table # <<>> /\ b = tail => blocks'[b].used = blocks[b].used + added
             /\ ~(table # <<>> /\ b = tail) => blocks'[b].used = blocks[b].used
  <2>1. b \notin NewBlocks(rest)
    BY <1>1, <1>5, NewBlocksTyped
  <2>2. blocks[b] \in [used : 1 .. BlockSize, refcount : Nat \ {0}]
    BY <1>1 DEF TypeOK
  <2> HIDE DEF table, tail
  <2> QED BY <1>6, <2>1, <2>2
<1>9. n \in Nat /\ (table # <<>> => n \in 1 .. n)
        /\ \A i \in 1 .. n : table[i] \in DOMAIN blocks /\ (i # n => table[i] # tail)
  <2>1. n \in Nat /\ (table # <<>> => n \in 1 .. n) /\ \A i \in 1 .. n : table[i] \in DOMAIN blocks
    BY <1>2
  <2> QED BY <1>2, <2>1 DEF Distinct
<1>10. Filled(NewTable(rest), rest, blocks') /\ NewTable(rest) \in Seq(NewBlocks(rest))
         /\ Len(NewTable(rest)) = BlocksFor(rest)
  <2>1. \A b \in NewBlocks(rest) : blocks'[b] = NewBlock(b, rest)
    BY <1>6
  <2>2. Filled(NewTable(rest), rest, blocks')
    BY <1>1, <1>5, <2>1, NewTableFilled
  <2>3. NewTable(rest) \in Seq(NewBlocks(rest))
    BY <1>1, <1>5, NewTableLists
  <2> QED BY <2>2, <2>3 DEF Filled
<1>11. ASSUME rest > 0
       PROVE  Filled(sequences'[r].table, sequences'[r].tokens, blocks')
  <2>1. ASSUME NEW i \in 1 .. n PROVE blocks'[table[i]].used = BlockSize
    <3>1. CASE i = n
      <4>1. table # <<>>
        BY <1>9, <3>1
      <4> HIDE DEF tail
      <4>2. blocks'[tail].used = blocks[tail].used + added
        BY <1>3, <1>8, <4>1
      <4> QED BY <1>4, <1>11, <3>1, <4>1, <4>2 DEF tail
    <3>2. CASE i # n
      <4>1. i < n /\ table[i] \in DOMAIN blocks /\ table[i] # tail
        BY <1>9, <3>2
      <4>2. blocks[table[i]].used = BlockSize
        BY <1>2, <4>1, FilledMeans
      <4>3. blocks'[table[i]].used = blocks[table[i]].used
        BY <1>8, <4>1
      <4> QED BY <4>2, <4>3
    <3> QED BY <3>1, <3>2
  <2> HIDE DEF table
  <2>2. ASSUME NEW t \in Seq(NewBlocks(rest)), Filled(t, rest, blocks')
        PROVE  Filled(table \o t, BlockSize * n + rest, blocks')
    BY <1>2, <1>5, <2>1, <2>2, FilledOnto
  <2>3. Filled(table \o NewTable(rest), BlockSize * n + rest, blocks')
    BY <1>10, <2>2
  <2>4. total = BlockSize * n + rest
    <3>1. held + added = BlockSize * n /\ held + added \in Int
      BY <1>2, <1>3, <1>4, <1>11
    <3>2. total = (held + added) + rest
      BY <1>5
    <3> DEFINE x == BlockSize * n
    <3>3. held + added = x
      BY <3>1
    <3> HIDE DEF total, n, held, x
    <3>4. total = x + rest
      BY <3>2, <3>3
    <3> QED BY <3>4 DEF x
  <2> QED BY <1>7, <2>3, <2>4
<1>12. ASSUME rest = 0
       PROVE  Filled(sequences'[r].table, sequences'[r].tokens, blocks')
  <2>1. BlocksFor(0) = 0
    <3>1. BlockSize \in Nat \ {0} /\ BlockSize * 0 = 0
      BY BlockAssumption
    <3> QED BY <3>1, CeilingUnique
  <2>2. table \o NewTable(rest) = table
    <3>1. Len(NewTable(rest)) = 0
      BY <1>10, <1>12, <2>1
    <3>2. NewTable(rest) = <<>>
      BY <1>10, <3>1
    <3> HIDE DEF table
    <3> QED BY <1>2, <3>2
  <2>3. added = tokens /\ total = held + added
    BY <1>3, <1>5, <1>12 DEF rest
  <2>4. table # <<>>
    <3>1. ASSUME table = <<>> PROVE FALSE
      <4>1. added = 0
        BY <3>1 DEF added, TailRoom, Smaller
      <4> QED BY <1>1, <2>3, <4>1
    <3> QED BY <3>1
  <2>5. held + added <= BlockSize * n
    <3>1. blocks[tail].used = held - (BlockSize * n - BlockSize)
      BY <1>2, <1>9, <2>4, FilledMeans
    <3>2. blocks[tail].used + added <= BlockSize
      BY <1>3, <2>4
    <3>3. BlockSize \in Nat /\ BlockSize * n \in Int /\ held \in Int /\ added \in Int
      BY <1>2, <1>3, <1>9, BlockAssumption
    <3> DEFINE used == blocks[tail].used
               x == BlockSize * n
    <3>4. used = held - (x - BlockSize) /\ used + added <= BlockSize /\ x \in Int
      BY <3>1, <3>2, <3>3
    <3> HIDE DEF used, x, held
    <3>5. held + added <= x
      BY <3>3, <3>4
    <3> QED BY <3>5 DEF x
  <2>6. \A i \in 1 .. n - 1 : blocks'[table[i]].used = blocks[table[i]].used
    <3>1. \A i \in 1 .. n - 1 : table[i] \in DOMAIN blocks /\ table[i] # tail
      BY <1>9
    <3> HIDE DEF n, tail
    <3> QED BY <1>8, <3>1
  <2>7. blocks'[tail].used = blocks[tail].used + added
    <3> HIDE DEF tail
    <3> QED BY <1>3, <1>8, <2>4
  <2>8. Filled(table, held + added, blocks')
    <3>1. table \in Seq(DOMAIN blocks) /\ held \in Nat /\ added \in Nat /\ Filled(table, held, blocks)
      BY <1>2, <1>3
    <3>2. /\ table # <<>> /\ held + added <= BlockSize * Len(table)
          /\ \A i \in 1 .. Len(table) - 1 : blocks'[table[i]].used = blocks[table[i]].used
          /\ blocks'[table[Len(table)]].used = blocks[table[Len(table)]].used + added
      BY <2>4, <2>5, <2>6, <2>7
    <3> HIDE DEF table, held
    <3> QED BY <3>1, <3>2, FilledFurther
  <2> QED BY <1>7, <2>2, <2>3, <2>8
<1>13. Filled(sequences'[r].table, sequences'[r].tokens, blocks')
  <2>1. rest > 0 \/ rest = 0
    BY <1>5
  <2> QED BY <1>11, <1>12, <2>1
<1>14. TablesFull'
  BY <1>1, <1>7, <1>13, TablesStayFull
<1>15. SharedBlocksFull'
  <2>1. ASSUME NEW b \in DOMAIN blocks', blocks'[b].refcount > 1
        PROVE  blocks'[b].used = BlockSize
    <3>1. CASE b \in NewBlocks(rest)
      BY <1>6, <2>1, <3>1 DEF NewBlock
    <3>2. CASE b \in DOMAIN blocks
      <4>1. blocks[b].used = BlockSize /\ blocks[b].used \in Int
        BY <1>1, <1>8, <2>1, <3>2, BlockAssumption DEF SharedBlocksFull
      <4>2. table # <<>> /\ b = tail => added = 0
        BY <1>3, <1>8, <2>1, <3>2
      <4> HIDE DEF table, tail
      <4> QED BY <1>8, <3>2, <4>1, <4>2
    <3> QED BY <1>6, <3>1, <3>2
  <2> QED BY <2>1 DEF SharedBlocksFull
<1> QED BY <1>14, <1>15

LEMMA ReleaseFills ==
  ASSUME FullInvariant, Untouched, NEW r \in Requests, Release(r)
  PROVE  TablesFull' /\ SharedBlocksFull'
<1>1. TypeOK /\ TablesFull /\ SharedBlocksFull /\ BlockInvariant /\ r \in Live
  BY DEF FullInvariant, BlockInvariant, Release
<1>2. /\ blocks' = [b \in Kept(Table(r)) |->
           [blocks[b] EXCEPT !.refcount = @ - Occurrences(b, Table(r))]]
      /\ Live' = Live \ {r}
      /\ \A s \in Live \ {r} : sequences'[s] = sequences[s]
  BY DEF Release, Live
<1>3. TablesFull'
  BY <1>1, <1>2, TablesStayFull
<1>4. SharedBlocksFull'
  <2>1. ASSUME NEW b \in DOMAIN blocks', blocks'[b].refcount > 1
        PROVE  blocks'[b].used = BlockSize
    <3>1. b \in Kept(Table(r)) /\ b \in DOMAIN blocks
      BY <1>2 DEF Kept
    <3>2. blocks[b] \in [used : 1 .. BlockSize, refcount : Nat \ {0}]
      BY <1>1, <3>1 DEF TypeOK
    <3>3. /\ blocks'[b].used = blocks[b].used
          /\ blocks'[b].refcount = blocks[b].refcount - Occurrences(b, Table(r))
      BY <1>2, <3>1, <3>2
    <3>4. Occurrences(b, Table(r)) \in {0, 1}
      BY <1>1, <3>1, CountWithout
    <3>5. blocks[b].refcount > 1
      BY <2>1, <3>2, <3>3, <3>4
    <3> QED BY <1>1, <3>1, <3>3, <3>5 DEF SharedBlocksFull
  <2> QED BY <2>1 DEF SharedBlocksFull
<1> QED BY <1>3, <1>4

LEMMA FullInvariantInductive ==
  /\ Init => FullInvariant
  /\ FullInvariant /\ [Next]_vars => FullInvariant'
<1>1. ASSUME Init PROVE FullInvariant
  <2>1. BlockInvariant
    BY <1>1, BlocksStart
  <2>2. DOMAIN blocks = {} /\ Live = {}
    BY <1>1 DEF Init, Live
  <2> QED BY <2>1, <2>2 DEF FullInvariant, TablesFull, SharedBlocksFull
<1>2. ASSUME FullInvariant, [Next]_vars PROVE FullInvariant'
  <2>1. BlockInvariant /\ BlockInvariant'
    BY <1>2, BlocksKept DEF FullInvariant
  <2>2. CASE UNCHANGED vars
    <3>1. blocks' = blocks /\ sequences' = sequences
      BY <2>2 DEF vars
    <3>2. TablesFull'
      BY <1>2, <3>1 DEF FullInvariant, TablesFull, Live, Table
    <3>3. SharedBlocksFull'
      BY <1>2, <3>1 DEF FullInvariant, SharedBlocksFull
    <3> QED BY <2>1, <3>2, <3>3 DEF FullInvariant
  <2>3. CASE Next
    <3>1. TokenCounts \subseteq Nat
      BY BlockAssumption
    <3>2. Untouched
      <4>1. [Untouched]_vars
        BY <2>1, <2>3, OthersLeft
      <4>2. ASSUME UNCHANGED vars PROVE Untouched
        <5>1. blocks' = blocks /\ sequences' = sequences /\ TypeOK
          BY <2>1, <4>2 DEF vars, BlockInvariant
        <5>2. \A s \in Live : \A b \in Blocks(Table(s)) : b \in DOMAIN blocks
          BY <5>1, TableExists
        <5> QED BY <5>1, <5>2 DEF Untouched
      <4> QED BY <4>1, <4>2
    <3>3. TablesFull' /\ SharedBlocksFull'
      <4>1. ASSUME NEW r \in Requests, NEW tokens \in TokenCounts, Allocate(r, tokens)
            PROVE  TablesFull' /\ SharedBlocksFull'
        BY <1>2, <3>1, <3>2, <4>1, AllocateFills
      <4>2. ASSUME NEW r \in Requests, NEW tokens \in TokenCounts, AppendTokens(r, tokens)
            PROVE  TablesFull' /\ SharedBlocksFull'
        BY <1>2, <3>1, <3>2, <4>2, AppendFills
      <4>3. ASSUME NEW r \in Requests, NEW child \in Requests,
                   NEW prefix \in TokenCounts, NEW total \in TokenCounts,
                   Fork(r, child, prefix, total)
            PROVE  TablesFull' /\ SharedBlocksFull'
        BY <1>2, <3>1, <3>2, <4>3, ForkFills
      <4>4. ASSUME NEW r \in Requests, Release(r)
            PROVE  TablesFull' /\ SharedBlocksFull'
        BY <1>2, <3>2, <4>4, ReleaseFills
      <4> QED BY <2>3, <4>1, <4>2, <4>3, <4>4 DEF Next
    <3> QED BY <2>1, <3>3 DEF FullInvariant
  <2> QED BY <1>2, <2>2, <2>3
<1> QED BY <1>1, <1>2

LEMMA FullAlways == Spec => []FullInvariant
BY FullInvariantInductive, PTL DEF Spec

\* Every table is as long as its sequence needs, and all its blocks but the last are
\* full: fork hands a child only whole blocks, and append completes a private block
\* before it takes new ones.
THEOREM TablesAreFull == Spec => []TablesFull
<1>1. FullInvariant => TablesFull
  BY DEF FullInvariant
<1> QED BY <1>1, FullAlways, PTL

\* A block that fork made shared is full and stays full while it is shared, so append
\* never writes where another sequence reads.
THEOREM SharedAreFull == Spec => []SharedBlocksFull
<1>1. FullInvariant => SharedBlocksFull
  BY DEF FullInvariant
<1> QED BY <1>1, FullAlways, PTL
-----------------------------------------------------------------------------
(* The summary's sums *)

\* What the sums of the summary add up, as weights.
BlocksNeeded == [r \in Live |-> BlocksFor(sequences[r].tokens)]
TokensHeld == [r \in Live |-> sequences[r].tokens]
TokensStored == [b \in DOMAIN blocks |-> blocks[b].used * blocks[b].refcount]

\* There are finitely many sequences, and finitely many blocks.
LEMMA FinitelyMany ==
  ASSUME TypeOK
  PROVE  /\ IsFiniteSet(Live) /\ IsFiniteSet(DOMAIN blocks)
         /\ BlocksNeeded \in [Live -> Nat] /\ TokensHeld \in [Live -> Nat]
         /\ TokensStored \in [DOMAIN blocks -> Nat]
<1>1. IsFiniteSet(Live)
  BY BlockAssumption, FS_Subset DEF TypeOK
<1>2. IsFiniteSet(DOMAIN blocks)
  <2>1. nextBlockId \in Nat /\ DOMAIN blocks \subseteq 0 .. nextBlockId - 1
    BY DEF TypeOK
  <2>2. IsFiniteSet(0 .. nextBlockId - 1)
    BY <2>1, FS_Interval
  <2> QED BY <2>1, <2>2, FS_Subset
<1>3. \A r \in Live : sequences[r].tokens \in Nat
  BY DEF TypeOK
<1>4. \A r \in Live : BlocksFor(sequences[r].tokens) \in Nat
  BY <1>3, Ceiling
<1>5. ASSUME NEW b \in DOMAIN blocks PROVE blocks[b].used * blocks[b].refcount \in Nat
  <2>1. blocks[b].used \in Nat /\ blocks[b].refcount \in Nat
    <3>1. blocks[b] \in [used : 1 .. BlockSize, refcount : Nat \ {0}] /\ BlockSize \in Nat
      BY BlockAssumption DEF TypeOK
    <3> QED BY <3>1
  <2> QED BY <2>1
<1> QED BY <1>1, <1>2, <1>3, <1>4, <1>5 DEF BlocksNeeded, TokensHeld, TokensStored

\* The sums count the units of these weights.
LEMMA NeededIsCount ==
  ASSUME TypeOK
  PROVE  MapThenSumSet(LAMBDA r : BlocksFor(sequences[r].tokens), Live) =
           Cardinality(Units(BlocksNeeded, Live))
<1> DEFINE w == BlocksNeeded
           f == CHOOSE g : g = [s \in SUBSET Live |->
                  IF s = {} THEN 0
                  ELSE BlocksFor(sequences[Chosen(s)].tokens) + g[s \ {Chosen(s)}]]
           count == [s \in SUBSET Live |-> Cardinality(Units(w, s))]
<1>1. MapThenSumSet(LAMBDA r : BlocksFor(sequences[r].tokens), Live) = f[Live]
  BY DEF MapThenSumSet, MapThenFoldSet, Chosen
<1>2. \A s \in SUBSET Live : s # {} =>
        Chosen(s) \in Live /\ w[Chosen(s)] = BlocksFor(sequences[Chosen(s)].tokens)
  BY DEF Chosen, BlocksNeeded
<1> HIDE DEF w
<1>3. SumsUp(count, w, Live)
  BY FinitelyMany, CountingSumsUp DEF w
<1>4. count = [s \in SUBSET Live |->
        IF s = {} THEN 0
        ELSE BlocksFor(sequences[Chosen(s)].tokens) + count[s \ {Chosen(s)}]]
  <2> HIDE DEF count
  <2> QED BY <1>2, <1>3 DEF SumsUp
<1>5. f = [s \in SUBSET Live |->
        IF s = {} THEN 0
        ELSE BlocksFor(sequences[Chosen(s)].tokens) + f[s \ {Chosen(s)}]]
  <2> HIDE DEF count
  <2> QED BY <1>4
<1> HIDE DEF f
<1>6. SumsUp(f, w, Live)
  BY <1>2, <1>5 DEF SumsUp
<1> QED BY <1>1, <1>6, FinitelyMany, SumsAreCounts DEF w

LEMMA HeldIsCount ==
  ASSUME TypeOK
  PROVE  MapThenSumSet(LAMBDA r : sequences[r].tokens, Live) =
           Cardinality(Units(TokensHeld, Live))
<1> DEFINE w == TokensHeld
           f == CHOOSE g : g = [s \in SUBSET Live |->
                  IF s = {} THEN 0 ELSE sequences[Chosen(s)].tokens + g[s \ {Chosen(s)}]]
           count == [s \in SUBSET Live |-> Cardinality(Units(w, s))]
<1>1. MapThenSumSet(LAMBDA r : sequences[r].tokens, Live) = f[Live]
  BY DEF MapThenSumSet, MapThenFoldSet, Chosen
<1>2. \A s \in SUBSET Live : s # {} =>
        Chosen(s) \in Live /\ w[Chosen(s)] = sequences[Chosen(s)].tokens
  BY DEF Chosen, TokensHeld
<1> HIDE DEF w
<1>3. SumsUp(count, w, Live)
  BY FinitelyMany, CountingSumsUp DEF w
<1>4. count = [s \in SUBSET Live |->
        IF s = {} THEN 0 ELSE sequences[Chosen(s)].tokens + count[s \ {Chosen(s)}]]
  <2> HIDE DEF count
  <2> QED BY <1>2, <1>3 DEF SumsUp
<1>5. f = [s \in SUBSET Live |->
        IF s = {} THEN 0 ELSE sequences[Chosen(s)].tokens + f[s \ {Chosen(s)}]]
  <2> HIDE DEF count
  <2> QED BY <1>4
<1> HIDE DEF f
<1>6. SumsUp(f, w, Live)
  BY <1>2, <1>5 DEF SumsUp
<1> QED BY <1>1, <1>6, FinitelyMany, SumsAreCounts DEF w

LEMMA StoredIsCount ==
  ASSUME TypeOK
  PROVE  MapThenSumSet(LAMBDA b : blocks[b].used * blocks[b].refcount, DOMAIN blocks) =
           Cardinality(Units(TokensStored, DOMAIN blocks))
<1> DEFINE w == TokensStored
           S == DOMAIN blocks
           f == CHOOSE g : g = [s \in SUBSET S |->
                  IF s = {} THEN 0
                  ELSE blocks[Chosen(s)].used * blocks[Chosen(s)].refcount + g[s \ {Chosen(s)}]]
           count == [s \in SUBSET S |-> Cardinality(Units(w, s))]
<1>1. MapThenSumSet(LAMBDA b : blocks[b].used * blocks[b].refcount, S) = f[S]
  BY DEF MapThenSumSet, MapThenFoldSet, Chosen
<1>2. \A s \in SUBSET S : s # {} =>
        Chosen(s) \in S /\ w[Chosen(s)] = blocks[Chosen(s)].used * blocks[Chosen(s)].refcount
  BY DEF Chosen, TokensStored
<1>3. IsFiniteSet(S) /\ w \in [S -> Nat]
  BY FinitelyMany
<1> HIDE DEF w
<1>4. SumsUp(count, w, S)
  BY <1>3, CountingSumsUp
<1> HIDE DEF S
<1>5. count = [s \in SUBSET S |->
        IF s = {} THEN 0
        ELSE blocks[Chosen(s)].used * blocks[Chosen(s)].refcount + count[s \ {Chosen(s)}]]
  <2> HIDE DEF count
  <2> QED BY <1>2, <1>4 DEF SumsUp
<1>6. f = [s \in SUBSET S |->
        IF s = {} THEN 0
        ELSE blocks[Chosen(s)].used * blocks[Chosen(s)].refcount + f[s \ {Chosen(s)}]]
  <2> HIDE DEF count
  <2> QED BY <1>5
<1> HIDE DEF f
<1>7. SumsUp(f, w, S)
  BY <1>2, <1>6 DEF SumsUp
<1>8. f[S] = Cardinality(Units(w, S))
  BY <1>3, <1>7, SumsAreCounts
<1> QED BY <1>1, <1>8 DEF w, S
\* The tokens of block b, once per holder; those of sequence r, block by block.
Copies(b) == {b} \X (Holders(b) \X (1 .. blocks[b].used))
AllCopies == UNION {Copies(b) : b \in DOMAIN blocks}
CopiesOf(r) == {p \in AllCopies : p[2][1] = r}

LEMMA CopiesCounted ==
  ASSUME TypeOK, RefcountsExact, NEW b \in DOMAIN blocks
  PROVE  IsFiniteSet(Copies(b)) /\ Cardinality(Copies(b)) = TokensStored[b]
<1> DEFINE used == blocks[b].used
           H == Holders(b)
<1>1. used \in Nat /\ blocks[b].refcount \in Nat
  <2>1. blocks[b] \in [used : 1 .. BlockSize, refcount : Nat \ {0}] /\ BlockSize \in Nat
    BY BlockAssumption DEF TypeOK
  <2> QED BY <2>1
<1>2. IsFiniteSet(H) /\ Cardinality(H) = blocks[b].refcount
  BY HoldersFinite DEF RefcountsExact
<1>3. IsFiniteSet(1 .. used) /\ Cardinality(1 .. used) = used
  <2> HIDE DEF used
  <2>1. IsFiniteSet(1 .. used) /\ Cardinality(1 .. used) = IF 1 > used THEN 0 ELSE used - 1 + 1
    BY <1>1, FS_Interval
  <2> QED BY <1>1, <2>1
<1>4. IsFiniteSet({b}) /\ Cardinality({b}) = 1
  BY FS_Singleton
<1>5. Copies(b) = {b} \X (H \X (1 .. used))
  BY DEF Copies
<1>6. TokensStored[b] = used * blocks[b].refcount
  BY DEF TokensStored
<1> HIDE DEF used, H
<1>7. IsFiniteSet(H \X (1 .. used)) /\ Cardinality(H \X (1 .. used)) = blocks[b].refcount * used
  <2> DEFINE B == 1 .. used
  <2> HIDE DEF B
  <2>1. IsFiniteSet(H \X B) /\ Cardinality(H \X B) = Cardinality(H) * Cardinality(B)
    BY <1>2, <1>3, FS_Product DEF B
  <2> QED BY <1>2, <1>3, <2>1 DEF B
<1>8. /\ IsFiniteSet({b} \X (H \X (1 .. used)))
      /\ Cardinality({b} \X (H \X (1 .. used))) = 1 * (blocks[b].refcount * used)
  <2> DEFINE A == {b}
             B == H \X (1 .. used)
  <2>1. IsFiniteSet(A) /\ IsFiniteSet(B)
    BY <1>4, <1>7
  <2> HIDE DEF A, B
  <2>2. IsFiniteSet(A \X B) /\ Cardinality(A \X B) = Cardinality(A) * Cardinality(B)
    BY <2>1, FS_Product
  <2> QED BY <1>4, <1>7, <2>2 DEF A, B
<1>9. 1 * (blocks[b].refcount * used) = used * blocks[b].refcount
  BY <1>1
<1> QED BY <1>5, <1>6, <1>8, <1>9

\* The tokens of a sequence, numbered from 1: token t is in block BlocksFor(t).
LEMMA SequenceCounted ==
  ASSUME FullInvariant, NEW r \in Live
  PROVE  IsFiniteSet(CopiesOf(r)) /\ Cardinality(CopiesOf(r)) = TokensHeld[r]
<1> DEFINE table == Table(r)
           n == Len(table)
           held == sequences[r].tokens
           offset(t) == t - (BlockSize * BlocksFor(t) - BlockSize)
           copy == [t \in 1 .. held |-> <<table[BlocksFor(t)], <<r, offset(t)>>>>]
<1>1. TypeOK /\ TablesFull /\ TablesDistinct /\ BlockSize \in Nat \ {0}
  BY BlockAssumption DEF FullInvariant, BlockInvariant
<1>2. /\ table \in Seq(DOMAIN blocks) /\ held \in Nat /\ Filled(table, held, blocks)
      /\ Distinct(table)
  <2>1. sequences[r] \in [table : Seq(DOMAIN blocks), tokens : Nat]
    BY <1>1 DEF TypeOK
  <2>2. Filled(table, held, blocks)
    BY <1>1 DEF TablesFull, Filled
  <2>3. Distinct(table)
    BY <1>1 DEF TablesDistinct, Distinct
  <2> QED BY <2>1, <2>2, <2>3 DEF Table
<1>3. ASSUME NEW b, NEW u
      PROVE  <<b, <<r, u>>>> \in CopiesOf(r) <=>
               b \in DOMAIN blocks /\ b \in Blocks(table) /\ u \in 1 .. blocks[b].used
  BY DEF CopiesOf, AllCopies, Copies, Holders
<1>4. ASSUME NEW p \in CopiesOf(r) PROVE \E b, u : p = <<b, <<r, u>>>>
  BY DEF CopiesOf, AllCopies, Copies
<1>5. n = BlocksFor(held) /\ n \in Nat
  BY <1>2 DEF Filled
<1>6. BlockSize * n - BlockSize < held /\ held <= BlockSize * n
  BY <1>2, <1>5, Ceiling
<1>7. ASSUME NEW i \in 1 .. n
      PROVE  /\ table[i] \in DOMAIN blocks /\ table[i] \in Blocks(table)
             /\ blocks[table[i]].used \in 1 .. BlockSize
             /\ BlockSize * i <= held => blocks[table[i]].used = BlockSize
             /\ ~(BlockSize * i <= held) =>
                  blocks[table[i]].used = held - (BlockSize * i - BlockSize)
  <2>1. table[i] \in DOMAIN blocks /\ table[i] \in Blocks(table)
    BY <1>2 DEF Blocks
  <2>2. blocks[table[i]].used \in 1 .. BlockSize
    BY <1>1, <2>1 DEF TypeOK
  <2>3. blocks[table[i]].used = Smaller(BlockSize, held - BlockSize * (i - 1))
    BY <1>2 DEF Filled
  <2>4. BlockSize * (i - 1) = BlockSize * i - BlockSize /\ BlockSize * i \in Int
    BY <1>1
  <2>5. BlockSize * i <= held => blocks[table[i]].used = BlockSize
    BY <1>2, FilledMeans
  <2>6. ~(BlockSize * i <= held) => blocks[table[i]].used = held - (BlockSize * i - BlockSize)
    <3> HIDE DEF held, table
    <3> QED BY <1>1, <1>2, <2>3, <2>4 DEF Smaller
  <2> QED BY <2>1, <2>2, <2>5, <2>6
<1> HIDE DEF held, n
<1>8. ASSUME NEW t \in 1 .. held
      PROVE  /\ BlocksFor(t) \in 1 .. n
             /\ BlockSize * BlocksFor(t) \in Int
             /\ offset(t) \in 1 .. BlockSize
             /\ offset(t) \in 1 .. blocks[table[BlocksFor(t)]].used
  <2> DEFINE i == BlocksFor(t)
  <2>1. t \in Nat /\ t <= held /\ 1 <= t
    BY <1>2
  <2>2. i \in Nat /\ BlockSize * i - BlockSize < t /\ t <= BlockSize * i
    BY <2>1, Ceiling
  <2>3. offset(t) = t - (BlockSize * i - BlockSize)
    OBVIOUS
  <2> HIDE DEF i, offset
  <2>4. BlockSize * i \in Int /\ BlockSize * n \in Int
    BY <1>1, <1>5, <2>2
  <2>5. i # 0
    <3>1. ASSUME i = 0 PROVE FALSE
      <4>1. BlockSize * i = 0
        BY <1>1, <3>1
      <4> QED BY <2>1, <2>2, <4>1
    <3> QED BY <3>1
  <2>6. ~(n <= i - 1)
    <3>1. ASSUME n <= i - 1 PROVE FALSE
      <4>1. BlockSize * n <= BlockSize * (i - 1)
        BY <1>5, <2>2, <3>1, Monotone
      <4>2. BlockSize * (i - 1) = BlockSize * i - BlockSize
        BY <1>1, <2>2
      <4>3. BlockSize * n <= BlockSize * i - BlockSize
        BY <4>1, <4>2
      <4> DEFINE x == BlockSize * n
                 y == BlockSize * i
      <4>4. x \in Int /\ y \in Int /\ x <= y - BlockSize /\ y - BlockSize < t /\ held <= x
        BY <1>6, <2>2, <2>4, <4>3
      <4> HIDE DEF x, y
      <4> QED BY <1>1, <1>2, <2>1, <4>4
    <3> QED BY <3>1
  <2>7. i \in 1 .. n
    BY <1>5, <2>2, <2>5, <2>6
  <2> DEFINE y == BlockSize * i
             used == blocks[table[i]].used
  <2>8. /\ y \in Int /\ y - BlockSize < t /\ t <= y /\ offset(t) = t - (y - BlockSize)
        /\ used \in Int
        /\ y <= held => used = BlockSize
        /\ ~(y <= held) => used = held - (y - BlockSize)
    BY <1>7, <2>2, <2>3, <2>4, <2>7
  <2> HIDE DEF y, used
  <2>9. offset(t) \in 1 .. BlockSize /\ offset(t) \in 1 .. used
    BY <1>1, <1>2, <2>1, <2>8
  <2> QED BY <2>4, <2>7, <2>9 DEF i, used
<1>9. copy \in [1 .. held -> CopiesOf(r)]
  <2>1. ASSUME NEW t \in 1 .. held PROVE <<table[BlocksFor(t)], <<r, offset(t)>>>> \in CopiesOf(r)
    <3> DEFINE b == table[BlocksFor(t)]
               u == offset(t)
    <3>1. b \in DOMAIN blocks /\ b \in Blocks(table) /\ u \in 1 .. blocks[b].used
      BY <1>7, <1>8
    <3> HIDE DEF b, u
    <3>2. <<b, <<r, u>>>> \in CopiesOf(r)
      BY <1>3, <3>1
    <3> QED BY <3>2 DEF b, u
  <2> QED BY <2>1
<1>10. ASSUME NEW s \in 1 .. held, NEW t \in 1 .. held, copy[s] = copy[t]
       PROVE  s = t
  <2>1. table[BlocksFor(s)] = table[BlocksFor(t)] /\ offset(s) = offset(t)
    BY <1>10
  <2>2. BlocksFor(s) = BlocksFor(t)
    BY <1>2, <1>8, <2>1 DEF Distinct, n
  <2>3. s - (BlockSize * BlocksFor(s) - BlockSize) = t - (BlockSize * BlocksFor(s) - BlockSize)
    BY <2>1, <2>2
  <2>4. BlockSize * BlocksFor(s) \in Int /\ s \in Int /\ t \in Int
    BY <1>2, <1>8
  <2> QED BY <1>1, <2>3, <2>4
<1>11. ASSUME NEW p \in CopiesOf(r) PROVE \E t \in 1 .. held : copy[t] = p
  <2>1. PICK b, u : p = <<b, <<r, u>>>>
    BY <1>4
  <2>2. b \in DOMAIN blocks /\ b \in Blocks(table) /\ u \in 1 .. blocks[b].used
    BY <1>3, <2>1
  <2>3. PICK i \in 1 .. n : table[i] = b
    BY <2>2 DEF Blocks, n
  <2> DEFINE t == BlockSize * i - BlockSize + u
             y == BlockSize * i
  <2>4. y \in Int /\ BlockSize <= y
    <3>1. BlockSize * 1 <= BlockSize * i /\ i \in Int
      BY <1>5, Monotone
    <3> QED BY <1>1, <3>1
  <2>5. /\ u \in Int /\ 1 <= u /\ u <= BlockSize
        /\ ~(y <= held) => u <= held - (y - BlockSize)
    <3>1. blocks[b].used \in 1 .. BlockSize
          /\ (~(y <= held) => blocks[b].used = held - (y - BlockSize))
      BY <1>7, <2>3
    <3> HIDE DEF y
    <3> QED BY <1>1, <2>2, <3>1
  <2>6. t = y - BlockSize + u
    OBVIOUS
  <2> HIDE DEF t, y
  <2>7. t \in 1 .. held /\ t \in Nat /\ y - BlockSize < t /\ t <= y
    BY <1>1, <1>2, <2>4, <2>5, <2>6
  <2>8. BlocksFor(t) = i
    BY <2>7, CeilingUnique DEF y
  <2>9. offset(t) = u
    <3>1. t - (y - BlockSize) = u
      BY <1>1, <2>4, <2>5, <2>6
    <3> QED BY <2>8, <3>1 DEF y
  <2>10. copy[t] = p
    BY <2>1, <2>3, <2>7, <2>8, <2>9
  <2> QED BY <2>7, <2>10
<1> HIDE DEF copy
<1>12. IsFiniteSet(CopiesOf(r)) /\ Cardinality(CopiesOf(r)) = held
  BY <1>2, <1>9, <1>10, <1>11, NumberedSet
<1> QED BY <1>12 DEF TokensHeld, held

\* Every block is needed at some place of some table.
LEMMA DenseAtLeast ==
  ASSUME FullInvariant
  PROVE  Cardinality(DOMAIN blocks) <= Cardinality(Units(BlocksNeeded, Live))
<1> DEFINE U == Units(BlocksNeeded, Live)
           place == [p \in U |-> Table(p[1])[p[2]]]
<1>1. TypeOK /\ TablesFull /\ RefcountsExact
  BY DEF FullInvariant, BlockInvariant
<1>2. ASSUME NEW r \in Live
      PROVE  /\ BlocksNeeded[r] = Len(Table(r)) /\ Len(Table(r)) \in Nat
             /\ \A i \in 1 .. Len(Table(r)) : Table(r)[i] \in DOMAIN blocks
  <2>1. Table(r) \in Seq(DOMAIN blocks)
    BY <1>1 DEF TypeOK, Table
  <2>2. Len(Table(r)) = BlocksFor(sequences[r].tokens)
    BY <1>1 DEF TablesFull
  <2> QED BY <2>1, <2>2 DEF BlocksNeeded
<1>3. \A r, i : <<r, i>> \in U <=> r \in Live /\ i \in 1 .. Len(Table(r))
  BY <1>2 DEF Units
<1>4. \A p \in U : p = <<p[1], p[2]>>
  BY DEF Units
<1> HIDE DEF U
<1>5. place \in [U -> DOMAIN blocks]
  BY <1>2, <1>3, <1>4
<1>6. ASSUME NEW b \in DOMAIN blocks PROVE \E p \in U : place[p] = b
  <2>1. PICK r \in Live : b \in Blocks(Table(r))
    BY <1>1 DEF RefcountsExact
  <2>2. PICK i \in 1 .. Len(Table(r)) : Table(r)[i] = b
    BY <2>1 DEF Blocks
  <2>3. <<r, i>> \in U /\ place[<<r, i>>] = b
    BY <1>3, <2>2
  <2> QED BY <2>3
<1>7. place \in Surjection(U, DOMAIN blocks)
  <2> HIDE DEF place
  <2> QED BY <1>5, <1>6, Fun_IsSurj
<1>8. IsFiniteSet(U)
  <2>1. IsFiniteSet(Live) /\ \A r \in Live : BlocksNeeded[r] \in Nat
    BY <1>1, <1>2, FinitelyMany
  <2> QED BY <2>1, UnitsFinite DEF U
<1> HIDE DEF place
<1>9. Cardinality(DOMAIN blocks) <= Cardinality(U)
  BY <1>7, <1>8, FS_Surjection
<1> QED BY <1>9 DEF U

\* Both sums count the same copies: block by block, and sequence by sequence.
LEMMA StoredAreHeld ==
  ASSUME FullInvariant
  PROVE  Cardinality(Units(TokensStored, DOMAIN blocks)) = Cardinality(Units(TokensHeld, Live))
<1> DEFINE D == DOMAIN blocks
           byBlock == [b \in D |-> Copies(b)]
           bySequence == [r \in Live |-> CopiesOf(r)]
<1>1. TypeOK /\ RefcountsExact
  BY DEF FullInvariant, BlockInvariant
<1>2. /\ IsFiniteSet(D) /\ TokensStored \in [D -> Nat]
      /\ IsFiniteSet(Live) /\ TokensHeld \in [Live -> Nat]
  BY <1>1, FinitelyMany
<1>3. \A b \in D : IsFiniteSet(byBlock[b]) /\ Cardinality(byBlock[b]) = TokensStored[b]
  BY <1>1, CopiesCounted
<1>4. \A a, b \in D : a # b => byBlock[a] \cap byBlock[b] = {}
  BY DEF Copies
<1>5. UNION {byBlock[b] : b \in D} = AllCopies
  BY DEF AllCopies
<1>6. \A r \in Live : IsFiniteSet(bySequence[r]) /\ Cardinality(bySequence[r]) = TokensHeld[r]
  BY SequenceCounted
<1>7. \A r, s \in Live : r # s => bySequence[r] \cap bySequence[s] = {}
  BY DEF CopiesOf
<1>8. UNION {bySequence[r] : r \in Live} = AllCopies
  <2>1. \A p \in AllCopies : p[2][1] \in Live
    BY DEF AllCopies, Copies, Holders
  <2>2. \A p \in AllCopies : \E r \in Live : p \in CopiesOf(r)
    BY <2>1 DEF CopiesOf
  <2>3. \A r \in Live : CopiesOf(r) \subseteq AllCopies
    BY DEF CopiesOf
  <2>4. \A r \in Live : bySequence[r] = CopiesOf(r)
    OBVIOUS
  <2> HIDE DEF bySequence
  <2> QED BY <2>2, <2>3, <2>4
<1> HIDE DEF D, byBlock, bySequence
<1>9. Cardinality(UNION {byBlock[b] : b \in D}) = Cardinality(Units(TokensStored, D))
  BY <1>2, <1>3, <1>4, PartsAddUp
<1>10. Cardinality(UNION {bySequence[r] : r \in Live}) = Cardinality(Units(TokensHeld, Live))
  BY <1>2, <1>6, <1>7, PartsAddUp
<1> QED BY <1>5, <1>8, <1>9, <1>10 DEF D

\* The blocks' tokens, each counted once per holder, are the tokens the sequences
\* count, and there are never more blocks than dense allocation would need: what
\* summary reports as logical tokens, physical capacity and memory saved adds up.
THEOREM SummariesBalance == Spec => []SummaryBalances
<1>1. ASSUME FullInvariant PROVE SummaryBalances
  <2>1. TypeOK
    BY <1>1 DEF FullInvariant, BlockInvariant
  <2> QED BY <1>1, <2>1, NeededIsCount, HeldIsCount, StoredIsCount,
             DenseAtLeast, StoredAreHeld DEF SummaryBalances
<1> QED BY <1>1, FullAlways, PTL
=============================================================================
