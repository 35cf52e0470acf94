----------------------------- MODULE MC_HashTrie -----------------------------
(***************************************************************************)
(* Model-checking instance of HashTrie.  A head of 2 cells stands for the *)
(* 64 of HEAD_SIZE, and 3-bit hashes for the 64-bit ones: levels r = 0, 1 *)
(* then the final attempt.  Keys a, b and c share hash bit 0, so they all *)
(* route to head cell 1 and collide there; d routes to cell 0.            *)
(***************************************************************************)
EXTENDS HashTrie, TLC

CONSTANTS t1, t2, t3, a, b, c, d

MCThreads == {t1, t2, t3}
MCKeys == {a, b, c, d}
MCHash == [k \in MCKeys |-> CASE k = a -> 1 [] k = b -> 3 [] k = c -> 5 [] k = d -> 2]

\* Three threads racing on one cell: t1 and t3 insert the same key a, whose
\* second insert is Err once the first is published; b and c then collide
\* with a and both try to expand the cell.
MCOpsRace == [t \in MCThreads |-> CASE t = t1 -> <<a, d>>
                                    [] t = t2 -> <<b>>
                                    [] t = t3 -> <<a, c>>]

\* One thread: a, then a colliding b, then a again.
MCOpsSeq == [t \in MCThreads |-> IF t = t1 THEN <<a, b, a>> ELSE <<>>]

\* Two threads inserting into the same empty cell.
MCOpsPair == [t \in MCThreads |-> CASE t = t1 -> <<a>>
                                    [] t = t2 -> <<b>>
                                    [] t = t3 -> <<>>]
=============================================================================
