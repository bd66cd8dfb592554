------------------------------ MODULE KVBlocks ------------------------------
(***************************************************************************)
(* The paged KV-cache block manager (kv_blocks.py): every sequence has a   *)
(* table of blocks, and a fork shares the full blocks of its parent's      *)
(* prefix.  A block is named by its block_id; _blocks and _sequences are   *)
(* functions whose domains are the keys of the dictionaries.               *)
(***************************************************************************)
EXTENDS Integers, Sequences, FiniteSets, FiniteSetsExt

CONSTANTS
  Requests,           \* request ids
  BlockSize,          \* block_size_tokens
  TokenCounts,        \* the token counts callers pass
  MaxBlocks           \* bound on the blocks ever created

ASSUME BlockAssumption ==
  /\ IsFiniteSet(Requests)
  /\ BlockSize \in Nat \ {0}
  /\ TokenCounts \subseteq Nat
  /\ MaxBlocks \in Nat

VARIABLES
  blocks,             \* _blocks[b]: [used, refcount]
  sequences,          \* _sequences[r]: [table, tokens]
  nextBlockId         \* _next_block_id

vars == <<blocks, sequences, nextBlockId>>

-----------------------------------------------------------------------------
Smaller(a, b) == IF a < b THEN a ELSE b

\* Mutant of BlocksFor: rounds down.
WholeBlocksFor(tokens) == tokens \div BlockSize

BlocksFor(tokens) == (tokens + BlockSize - 1) \div BlockSize

\* The blocks _append_private_blocks creates for that many tokens: all full but
\* perhaps the last one, which holds the rest.
NewBlocks(tokens) == nextBlockId .. nextBlockId + BlocksFor(tokens) - 1
NewTable(tokens) == [i \in 1 .. BlocksFor(tokens) |-> nextBlockId + i - 1]
NewBlock(b, tokens) ==
  [used |-> Smaller(BlockSize, tokens - BlockSize * (b - nextBlockId)), refcount |-> 1]

Create(tokens) ==
  /\ nextBlockId + BlocksFor(tokens) <= MaxBlocks     \* bound
  /\ nextBlockId' = nextBlockId + BlocksFor(tokens)

Blocks(table) == {table[i] : i \in 1 .. Len(table)}
Occurrences(b, table) == Cardinality({i \in 1 .. Len(table) : table[i] = b})

Live == DOMAIN sequences
Table(r) == sequences[r].table

Init ==
  /\ blocks = [b \in {} |-> 0]
  /\ sequences = [r \in {} |-> 0]
  /\ nextBlockId = 0

\* allocate; an existing id and a negative count raise ValueError.
Allocate(r, tokens) ==
  /\ r \notin Live
  /\ Create(tokens)
  /\ blocks' = [b \in DOMAIN blocks \cup NewBlocks(tokens) |->
       IF b \in NewBlocks(tokens) THEN NewBlock(b, tokens) ELSE blocks[b]]
  /\ sequences' = [s \in Live \cup {r} |->
       IF s = r THEN [table |-> NewTable(tokens), tokens |-> tokens] ELSE sequences[s]]

\* Mutant of Agreed: the parent's length is not consulted.
AgreedByCaller(prefix, held, total) == Smaller(prefix, total)

\* The shared prefix is no longer than either sequence.
Agreed(prefix, held, total) == Smaller(prefix, Smaller(held, total))

\* The whole blocks in a prefix; the rest of the prefix is copied.
FullBlocks(tokens) == tokens \div BlockSize

\* fork; an existing child raises ValueError and a missing parent KeyError.
Fork(parent, child, prefix, total) ==
  LET full == FullBlocks(Agreed(prefix, sequences[parent].tokens, total))
      shared == SubSeq(Table(parent), 1, Smaller(full, Len(Table(parent))))
      rest == total - full * BlockSize
  IN  /\ child \notin Live /\ parent \in Live
      /\ Create(rest)
      /\ blocks' = [b \in DOMAIN blocks \cup NewBlocks(rest) |->
           IF b \in NewBlocks(rest) THEN NewBlock(b, rest)
           ELSE [blocks[b] EXCEPT !.refcount = @ + Occurrences(b, shared)]]
      /\ sequences' = [s \in Live \cup {child} |->
           IF s = child THEN [table |-> shared \o NewTable(rest), tokens |-> total]
           ELSE sequences[s]]

\* The room in the last block, unless it is shared.
TailRoom(table) ==
  IF table = <<>> \/ blocks[table[Len(table)]].refcount # 1 THEN 0
  ELSE BlockSize - blocks[table[Len(table)]].used

\* append; a count of 0 changes nothing.
AppendTokens(r, tokens) ==
  LET table == Table(r)
      added == Smaller(TailRoom(table), tokens)
      rest == tokens - added
  IN  /\ r \in Live /\ tokens > 0
      /\ Create(rest)
      /\ blocks' = [b \in DOMAIN blocks \cup NewBlocks(rest) |->
           IF b \in NewBlocks(rest) THEN NewBlock(b, rest)
           ELSE IF table # <<>> /\ b = table[Len(table)]
           THEN [blocks[b] EXCEPT !.used = @ + added]
           ELSE blocks[b]]
      /\ sequences' = [sequences EXCEPT
           ![r] = [table |-> table \o NewTable(rest), tokens |-> @.tokens + tokens]]

\* Mutant of Kept: a block goes with any sequence that held it.
KeptByNobody(table) == DOMAIN blocks \ Blocks(table)

\* The blocks whose count does not fall to zero when table is released.
Kept(table) == {b \in DOMAIN blocks : blocks[b].refcount # Occurrences(b, table)}

Release(r) ==
  /\ r \in Live
  /\ sequences' = [s \in Live \ {r} |-> sequences[s]]
  /\ blocks' = [b \in Kept(Table(r)) |->
       [blocks[b] EXCEPT !.refcount = @ - Occurrences(b, Table(r))]]
  /\ UNCHANGED nextBlockId

Next ==
  \E r \in Requests :
    \/ \E tokens \in TokenCounts : Allocate(r, tokens) \/ AppendTokens(r, tokens)
    \/ \E child \in Requests, prefix, total \in TokenCounts : Fork(r, child, prefix, total)
    \/ Release(r)

Spec == Init /\ [][Next]_vars

-----------------------------------------------------------------------------
\* Every variable has its type.
TypeOK ==
  /\ nextBlockId \in Nat
  /\ DOMAIN blocks \subseteq 0 .. nextBlockId - 1
  /\ blocks \in [DOMAIN blocks -> [used : 1 .. BlockSize, refcount : Nat \ {0}]]
  /\ Live \subseteq Requests
  /\ sequences \in [Live -> [table : Seq(DOMAIN blocks), tokens : Nat]]

Holders(b) == {r \in Live : b \in Blocks(Table(r))}

\* A block exists exactly while some table refers to it, and its count is the
\* number of tables that do: whatever the order of forks, appends and releases,
\* nothing is freed early and nothing is leaked.
RefcountsExact ==
  /\ DOMAIN blocks = UNION {Blocks(Table(r)) : r \in Live}
  /\ \A b \in DOMAIN blocks : blocks[b].refcount = Cardinality(Holders(b))

\* A table holds the tokens its sequence counts, in full blocks but for the last:
\* so the prefix a child takes over is really there.
TablesFull ==
  \A r \in Live :
    LET table == Table(r)
    IN  /\ Len(table) = BlocksFor(sequences[r].tokens)
        /\ \A i \in 1 .. Len(table) :
             blocks[table[i]].used =
               Smaller(BlockSize, sequences[r].tokens - BlockSize * (i - 1))

\* A shared block is full, so nobody ever has to write into one.
SharedBlocksFull ==
  \A b \in DOMAIN blocks : blocks[b].refcount > 1 => blocks[b].used = BlockSize

\* No table lists a block twice: what makes RefcountsExact inductive (for the proof).
TablesDistinct ==
  \A r \in Live : \A i, j \in 1 .. Len(Table(r)) : Table(r)[i] = Table(r)[j] => i = j

BlockInvariant == TypeOK /\ RefcountsExact /\ TablesDistinct

\* summary: the physical capacity never exceeds that of dense allocation, and the
\* blocks' tokens, each counted once per holder, are the logical tokens.
SummaryBalances ==
  /\ Cardinality(DOMAIN blocks) <=
       MapThenSumSet(LAMBDA r : BlocksFor(sequences[r].tokens), Live)
  /\ MapThenSumSet(LAMBDA b : blocks[b].used * blocks[b].refcount, DOMAIN blocks) =
       MapThenSumSet(LAMBDA r : sequences[r].tokens, Live)

\* A sequence nobody operates on keeps its blocks and their contents, although it
\* may share them with sequences that grow or are released.
Isolated ==
  [][\A r \in Live \cap Live' :
       sequences'[r] = sequences[r] =>
         \A b \in Blocks(Table(r)) :
           b \in DOMAIN blocks' /\ blocks'[b].used = blocks[b].used]_vars
=============================================================================
