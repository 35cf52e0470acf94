--------------------------- MODULE AtomicMarkable ---------------------------
(***************************************************************************)
(* The pointer-tagging helpers of src/structures/hash_map/atomic_markable.rs *)
(* and the value-level behaviour of an AtomicMarkablePtr cell.               *)
(*                                                                         *)
(* A word is a natural below 2^WORD_BITS.  Bit 0 is the mark flag, bit 1   *)
(* the array-node flag, and the node with identity n lives at the aligned  *)
(* address 4 * n, so that address 0 is the null pointer.  The helpers are  *)
(* written with the bit operations the Rust code uses (&, | and >>), and   *)
(* the masks !0x1 and !0x2 keep their width WORD_BITS.                     *)
(***************************************************************************)
EXTENDS Naturals, Bitwise

CONSTANTS
    WORD_BITS,      \* the width of a machine word
    SPURIOUS_CAS    \* may compare_exchange_weak fail spuriously (LL/SC targets)?

ASSUME /\ WORD_BITS \in Nat /\ WORD_BITS >= 3
       /\ SPURIOUS_CAS \in BOOLEAN

Word == 0 .. (2^WORD_BITS - 1)

\* `!(0x1)` and `!(0x2)` as WORD_BITS-wide masks.
NotBit0 == 2^WORD_BITS - 1 - 1
NotBit1 == 2^WORD_BITS - 1 - 2

\* The aligned address of node n, and the node a (flag-free) address names.
Addr(n) == 4 * n
NodeAt(w) == w \div 4

is_marked(ptr) == (ptr & 1) # 0

is_array_node(ptr) == shiftR(ptr & 2, 1) # 0

unmark(ptr) == ptr & NotBit0

unmark_array_node(ptr) == ptr & NotBit1

mark_array_node(ptr) == ptr | 2

mark(ptr) == ptr | 1

\* AtomicMarkablePtr::default: the cell holds the null word.
NullCell == 0

(***************************************************************************)
(* AtomicMarkablePtr::compare_exchange_weak(old, new) on a cell holding w: *)
(* the word becomes new and Ok(old) is returned when w = old; otherwise    *)
(* the cell is unchanged and Err(new) is returned, the caller's own new    *)
(* pointer rather than the word observed.  The weak exchange may also fail *)
(* when w = old.                                                           *)
(***************************************************************************)
CasWeakSucceeds(w, old) == w = old

CasWeakFails(w, old) == w # old \/ SPURIOUS_CAS

(***************************************************************************)
(* Drop of an AtomicMarkablePtr: the payload named by the cell, with both  *)
(* flags cleared, is freed (Box::from_raw), unless it is null.  The result *)
(* is the set of nodes the drop frees.                                     *)
(***************************************************************************)
DropFrees(cellWord) ==
    LET ptr == unmark(unmark_array_node(cellWord))
    IN  IF ptr = 0 THEN {} ELSE {NodeAt(ptr)}

=============================================================================
