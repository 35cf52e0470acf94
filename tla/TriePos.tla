------------------------------ MODULE TriePos -------------------------------
(***************************************************************************)
(* The index arithmetic of HashMap in src/structures/hash_map/hash_map.rs: *)
(* the level step, the cell insert reads at each level, and the cell       *)
(* expand_map moves an old leaf to in the array that replaces it.          *)
(***************************************************************************)
EXTENDS Naturals, Bitwise

CONSTANTS
    HEAD_SIZE,      \* number of cells of the head and of every array node
    KEY_SIZE        \* number of hash bits (64 in the code)

ASSUME /\ \E s \in 1 .. HEAD_SIZE : 2^s = HEAD_SIZE
       /\ KEY_SIZE \in Nat

\* shift_step = floor(log2(HEAD_SIZE))
SHIFT_STEP == CHOOSE s \in 1 .. HEAD_SIZE : 2^s = HEAD_SIZE

Positions == 0 .. (HEAD_SIZE - 1)

\* `pos = hash as usize & (bucket.len() - 1)`, the same at every level.
Pos(h) == h & (HEAD_SIZE - 1)

\* `new_pos = (hash >> (shift_amount + shift_step)) & (head_size - 1)`
NewPos(h, shift) == shiftR(h, shift + SHIFT_STEP) & (HEAD_SIZE - 1)

=============================================================================
