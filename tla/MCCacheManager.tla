--------------------------- MODULE MCCacheManager ---------------------------
(* A small instance of PromptPreparation. *)
EXTENDS PromptPreparation, TLC

CONSTANTS a, b, c, big, s, t

\* Of two entries and 4 bytes, a, b and c exceed the number of entries and s and t
\* the bytes; big never fits.
MCSizeOf == [k \in {a, b, c, big, s, t} |->
  CASE k \in {a, b} -> 1 [] k \in {c, t} -> 2 [] k = s -> 3 [] k = big -> 5]

\* a, c and big share prefixes of every length up to the bound.
MCTokensOf == [k \in {a, b, c, big} |->
  CASE k = a -> <<1>> [] k = b -> <<2>> [] k = c -> <<1, 2>> [] k = big -> <<1, 2, 1, 1, 1>>]
MCInputs == {MCTokensOf[k] : k \in {a, b, c, big}}

\* The calls of tokenize are interchangeable.
MCSymmetry == Permutations(Calls)
=============================================================================
