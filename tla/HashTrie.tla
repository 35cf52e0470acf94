------------------------------ MODULE HashTrie ------------------------------
(***************************************************************************)
(* HashMap::insert, HashMap::expand_map and HashMap::try_insert of         *)
(* src/structures/hash_map/hash_map.rs, run concurrently by Threads.       *)
(*                                                                         *)
(* Memory is the function `node` from node identities to nodes.  Identity *)
(* 0 is the map's head vector (a Vec of HEAD_SIZE cells, modelled as an   *)
(* array node that is never pointed to); every other identity is a node   *)
(* that was published by a successful CAS.  A node that an operation       *)
(* allocates and frees again without publishing it is never given an       *)
(* identity.  Addresses are not reused.  `freed` holds the identities that *)
(* were handed back to the allocator.                                      *)
(*                                                                         *)
(* Each thread runs the inserts Ops[t] one after another.  One step is one *)
(* access to a shared cell; reads of a node's immutable fields happen in   *)
(* the step that follows the read of the pointer to it.                    *)
(***************************************************************************)
EXTENDS Naturals, Sequences, FiniteSets, AtomicMarkable, TriePos

CONSTANTS
    Threads,        \* the threads calling insert
    Keys,           \* the keys they insert
    Hash,           \* Hash[k]: the 64-bit hash of key k, shortened to KEY_SIZE bits
    Ops,            \* Ops[t]: the keys thread t inserts, in order
    MAX_FAILURES    \* contention threshold that forces an expansion

ASSUME /\ Hash \in [Keys -> 0 .. (2^KEY_SIZE - 1)]
       /\ Ops \in [Threads -> Seq(Keys)]
       /\ MAX_FAILURES \in Nat

VARIABLES
    node,    \* node[n] = [kind, hash, arr]: the published nodes, 0 the head
    freed,   \* identities of nodes that were freed
    hp,      \* hp[t]: the thread's hazard slot 0 (HPBRManager::protect)
    pc,      \* program counter of each thread
    loc,     \* the locals of insert and expand_map of each thread
    res      \* res[t]: the results of the inserts thread t has finished

vars == <<node, freed, hp, pc, loc, res>>

Cell(b, p) == node[b].arr[p]

EmptyArray == [p \in Positions |-> NullCell]

\* DataNode::new(key, value): a leaf holding the hash; the value is not modelled.
NewLeaf(h) == [kind |-> "data", hash |-> h, arr |-> EmptyArray]

\* The hash of the key of the insert thread t is running.
KeyHash(t) == Hash[Ops[t][Len(res[t]) + 1]]

NewId == Cardinality(DOMAIN node)

StartLocals == [bucket |-> 0, r |-> 0, pos |-> 0, fail |-> 0,
                nd |-> 0, enode |-> 0, ret |-> "loop"]

PCs == {"read", "match", "reread", "e_read", "e_protect", "e_reread",
        "e_cas", "e_reload", "done", "panic"}

-----------------------------------------------------------------------------
(* Control helpers shared by the steps.                                    *)

\* Return Ok or Err from insert and start the thread's next insert, if any.
Finish(t, result) ==
    /\ res' = [res EXCEPT ![t] = Append(@, result)]
    /\ IF Len(res[t]) + 1 < Len(Ops[t])
         THEN /\ pc' = [pc EXCEPT ![t] = "read"]
              /\ loc' = [loc EXCEPT ![t] = StartLocals]
         ELSE /\ pc' = [pc EXCEPT ![t] = "done"]
              /\ UNCHANGED loc

Panic(t) ==
    /\ pc' = [pc EXCEPT ![t] = "panic"]
    /\ UNCHANGED <<loc, res>>

\* The top of insert's inner loop with locals l: the forced expansion
\* `if fail_count > MAX_FAILURES`, or the `match node`.
LoopTop(t, l) ==
    /\ UNCHANGED res
    /\ IF l.fail > MAX_FAILURES
         THEN /\ pc' = [pc EXCEPT ![t] = "e_read"]
              /\ loc' = [loc EXCEPT ![t] = [l EXCEPT !.ret = "loop"]]
         ELSE /\ pc' = [pc EXCEPT ![t] = "match"]
              /\ loc' = [loc EXCEPT ![t] = l]

\* Descend into the array node named by w: `bucket = &array_node.array;
\* break;` and `r += self.shift_step`; a data node there is a panic.
Descend(t, l, w) ==
    IF node[NodeAt(w)].kind = "data"
      THEN Panic(t)
      ELSE /\ pc' = [pc EXCEPT ![t] = "read"]
           /\ loc' = [loc EXCEPT ![t] = [l EXCEPT !.bucket = NodeAt(w),
                                                   !.r = l.r + SHIFT_STEP]]
           /\ UNCHANGED res

\* expand_map returns w to its caller, which assigns it to `node`.
ExpandReturn(t, w) ==
    LET l == [loc[t] EXCEPT !.nd = w]
    IN  IF l.ret = "loop"
          THEN /\ pc' = [pc EXCEPT ![t] = "match"]
               /\ loc' = [loc EXCEPT ![t] = l]
               /\ UNCHANGED res
        \* after a hash-prefix collision
        ELSE IF is_array_node(w)
          THEN Descend(t, l, w)
          ELSE LoopTop(t, [l EXCEPT !.fail = @ + 1])

-----------------------------------------------------------------------------
(* The steps of insert.                                                    *)

\* `let mut node = bucket[pos].get_ptr()` at the top of a level; past the
\* last level the same read is the final attempt after the while loop.
Read(t) ==
    /\ pc[t] = "read"
    /\ LET l  == loc[t]
           p  == Pos(KeyHash(t))
       IN  /\ pc' = [pc EXCEPT ![t] = "match"]
           /\ loc' = [loc EXCEPT ![t] = [l EXCEPT !.pos = p, !.fail = 0,
                                                  !.nd = Cell(l.bucket, p)]]
    /\ UNCHANGED <<node, freed, hp, res>>

Bottom(t) == loc[t].r >= KEY_SIZE - SHIFT_STEP

\* try_insert: CAS the empty cell to a fresh data node; success is Ok.
TryInsertOk(t) ==
    /\ pc[t] = "match"
    /\ loc[t].nd = 0
    /\ CasWeakSucceeds(Cell(loc[t].bucket, loc[t].pos), 0)
    /\ node' = [n \in DOMAIN node \cup {NewId} |->
                  IF n = NewId
                    THEN NewLeaf(KeyHash(t))
                  ELSE IF n = loc[t].bucket
                    THEN [node[n] EXCEPT !.arr[loc[t].pos] = Addr(NewId)]
                  ELSE node[n]]
    /\ Finish(t, "ok")
    /\ UNCHANGED <<freed, hp>>

\* try_insert's CAS fails: the fresh node is freed and the value handed
\* back.  Inside the loop `node` is not reloaded: the loop goes round with
\* the same `node` and fail_count.  After the loop it is Err.
TryInsertFail(t) ==
    /\ pc[t] = "match"
    /\ loc[t].nd = 0
    /\ CasWeakFails(Cell(loc[t].bucket, loc[t].pos), 0)
    /\ IF Bottom(t) THEN Finish(t, "err") ELSE LoopTop(t, loc[t])
    /\ UNCHANGED <<node, freed, hp>>

\* `Some(node_ptr)`: an array node is descended into; a data node is
\* protected before it is re-read.  Past the last level it is Err.  No
\* code of the map sets the mark bit, so the is_marked branch is dead.
MatchSome(t) ==
    /\ pc[t] = "match"
    /\ loc[t].nd # 0
    /\ LET l == loc[t] IN
       IF Bottom(t) THEN Finish(t, "err") /\ UNCHANGED hp
       ELSE IF is_array_node(l.nd) THEN Descend(t, l, l.nd) /\ UNCHANGED hp
       ELSE /\ hp' = [hp EXCEPT ![t] = l.nd]
            /\ pc' = [pc EXCEPT ![t] = "reread"]
            /\ UNCHANGED <<loc, res>>
    /\ UNCHANGED <<node, freed>>

\* `let node2 = bucket[pos].get_ptr()`; if it is still node_ptr the node is
\* dereferenced: its hash equal to ours is Err, otherwise expand_map.
Reread(t) ==
    /\ pc[t] = "reread"
    /\ LET l  == loc[t]
           w2 == Cell(l.bucket, l.pos)
           n  == node[NodeAt(l.nd)]
       IN  \/ /\ w2 # l.nd
              /\ LoopTop(t, [l EXCEPT !.nd = w2, !.fail = @ + 1])
           \/ /\ w2 = l.nd
              /\ n.kind = "array"
              /\ Panic(t)
           \/ /\ w2 = l.nd
              /\ n.kind = "data"
              /\ n.hash = KeyHash(t)
              /\ Finish(t, "err")
           \/ /\ w2 = l.nd
              /\ n.kind = "data"
              /\ n.hash # KeyHash(t)
              /\ pc' = [pc EXCEPT ![t] = "e_read"]
              /\ loc' = [loc EXCEPT ![t] = [l EXCEPT !.ret = "after"]]
              /\ UNCHANGED res
    /\ UNCHANGED <<node, freed, hp>>

-----------------------------------------------------------------------------
(* The steps of expand_map(bucket, pos, r).                                *)

\* `let node = bucket[pos].get_ptr().unwrap()`
ERead(t) ==
    /\ pc[t] = "e_read"
    /\ LET w == Cell(loc[t].bucket, loc[t].pos)
       IN  IF w = 0
             THEN Panic(t)
             ELSE /\ pc' = [pc EXCEPT ![t] = "e_protect"]
                  /\ loc' = [loc EXCEPT ![t].enode = w]
                  /\ UNCHANGED res
    /\ UNCHANGED <<node, freed, hp>>

\* `self.manager.protect(node, 0)`, then an array node is returned as is.
EProtect(t) ==
    /\ pc[t] = "e_protect"
    /\ hp' = [hp EXCEPT ![t] = loc[t].enode]
    /\ IF is_array_node(loc[t].enode)
         THEN ExpandReturn(t, loc[t].enode)
         ELSE /\ pc' = [pc EXCEPT ![t] = "e_reread"]
              /\ UNCHANGED <<loc, res>>
    /\ UNCHANGED <<node, freed>>

\* `let node2 = bucket[pos].get_ptr().unwrap()`: a changed cell is returned;
\* otherwise the node is dereferenced for its hash.
EReread(t) ==
    /\ pc[t] = "e_reread"
    /\ LET w2 == Cell(loc[t].bucket, loc[t].pos)
           e  == loc[t].enode
       IN  CASE w2 = 0                          -> Panic(t)
             [] w2 # e                          -> ExpandReturn(t, w2)
             [] node[NodeAt(e)].kind = "array"  -> Panic(t)
             [] OTHER -> /\ pc' = [pc EXCEPT ![t] = "e_cas"]
                         /\ UNCHANGED <<loc, res>>
    /\ UNCHANGED <<node, freed, hp>>

\* Fault injection for ECasOk: the fresh array node is published without
\* the old data node stored in it (line 69 left out).
ECasOkUnfilled(t) ==
    /\ pc[t] = "e_cas"
    /\ LET l == loc[t]
           e == l.enode
       IN  /\ CasWeakSucceeds(Cell(l.bucket, l.pos), e)
           /\ node' = [n \in DOMAIN node \cup {NewId} |->
                         IF n = NewId
                           THEN [kind |-> "array", hash |-> 0, arr |-> EmptyArray]
                         ELSE IF n = l.bucket
                           THEN [node[n] EXCEPT !.arr[l.pos] = Addr(NewId)]
                         ELSE node[n]]
           /\ ExpandReturn(t, Addr(NewId))
    /\ UNCHANGED <<freed, hp>>

\* The fresh array node, holding the old data node at new_pos, is CASed
\* over it with compare_exchange_weak.  The published pointer is the
\* Box::into_raw address: mark_array_node is not applied to it.
ECasOk(t) ==
    /\ pc[t] = "e_cas"
    /\ LET l == loc[t]
           e == l.enode
           np == NewPos(node[NodeAt(e)].hash, l.r)
       IN  /\ CasWeakSucceeds(Cell(l.bucket, l.pos), e)
           /\ node' = [n \in DOMAIN node \cup {NewId} |->
                         IF n = NewId
                           THEN [kind |-> "array", hash |-> 0,
                                 arr |-> [EmptyArray EXCEPT ![np] = e]]
                         ELSE IF n = l.bucket
                           THEN [node[n] EXCEPT !.arr[l.pos] = Addr(NewId)]
                         ELSE node[n]]
           /\ ExpandReturn(t, Addr(NewId))
    /\ UNCHANGED <<freed, hp>>

\* Fault injection for ECasFail: the array node just freed is returned
\* instead of the reloaded cell.
ECasFailReturnsFreed(t) ==
    /\ pc[t] = "e_cas"
    /\ CasWeakFails(Cell(loc[t].bucket, loc[t].pos), loc[t].enode)
    /\ freed' = freed \cup DropFrees(loc[t].enode)
    /\ ExpandReturn(t, Addr(NewId))
    /\ UNCHANGED <<node, hp>>

\* The CAS fails: `Box::from_raw(array_node_ptr)` drops the array node, and
\* the Drop of its cells frees what they point to, the old data node.
ECasFail(t) ==
    /\ pc[t] = "e_cas"
    /\ CasWeakFails(Cell(loc[t].bucket, loc[t].pos), loc[t].enode)
    /\ freed' = freed \cup DropFrees(loc[t].enode)
    /\ pc' = [pc EXCEPT ![t] = "e_reload"]
    /\ UNCHANGED <<node, hp, loc, res>>

\* `bucket[pos].get_ptr().unwrap()` is returned after a failed CAS.
EReload(t) ==
    /\ pc[t] = "e_reload"
    /\ LET w == Cell(loc[t].bucket, loc[t].pos)
       IN  IF w = 0 THEN Panic(t) ELSE ExpandReturn(t, w)
    /\ UNCHANGED <<node, freed, hp>>

-----------------------------------------------------------------------------

Init ==
    /\ node = [n \in {0} |-> [kind |-> "array", hash |-> 0, arr |-> EmptyArray]]
    /\ freed = {}
    /\ hp = [t \in Threads |-> 0]
    /\ pc = [t \in Threads |-> IF Ops[t] = <<>> THEN "done" ELSE "read"]
    /\ loc = [t \in Threads |-> StartLocals]
    /\ res = [t \in Threads |-> <<>>]

Step(t) ==
    \/ Read(t)
    \/ TryInsertOk(t)
    \/ TryInsertFail(t)
    \/ MatchSome(t)
    \/ Reread(t)
    \/ ERead(t)
    \/ EProtect(t)
    \/ EReread(t)
    \/ ECasOk(t)
    \/ ECasFail(t)
    \/ EReload(t)

\* Every insert has returned or panicked: the program stops.
Terminated ==
    /\ \A t \in Threads : pc[t] \in {"done", "panic"}
    /\ UNCHANGED vars

Next == (\E t \in Threads : Step(t)) \/ Terminated

\* Threads are OS threads: each one that can take a step eventually does.
Fairness == \A t \in Threads : WF_vars(Step(t))

Spec == Init /\ [][Next]_vars /\ Fairness

-----------------------------------------------------------------------------
(* Reachability and properties.                                            *)

\* The nodes reachable from the array node b through non-empty cells,
\* following the node kinds in memory, whatever the flags say.
RECURSIVE ReachableFrom(_)
ReachableFrom(b) ==
    LET kids == {NodeAt(unmark(unmark_array_node(node[b].arr[p]))) :
                    p \in {q \in Positions : node[b].arr[q] # 0}}
    IN  kids \cup UNION {ReachableFrom(k) : k \in {c \in kids : node[c].kind = "array"}}

Reachable == ReachableFrom(0)

PresentHashes == {node[n].hash : n \in {m \in Reachable : node[m].kind = "data"}}

\* A pointer word names a published node.
Published(w) ==
    /\ w \in Word
    /\ NodeAt(unmark(unmark_array_node(w))) \in DOMAIN node \ {0}

\* Type invariant: cells, and the words a thread holds, are null or name a
\* published node.
TypeOK ==
    /\ DOMAIN node \subseteq Nat
    /\ \A n \in DOMAIN node :
         /\ node[n].kind \in {"data", "array"}
         /\ \A p \in Positions : node[n].arr[p] = 0 \/ Published(node[n].arr[p])
    /\ freed \subseteq DOMAIN node
    /\ hp \in [Threads -> Word]
    /\ pc \in [Threads -> PCs]
    /\ \A t \in Threads :
         /\ loc[t].nd = 0 \/ Published(loc[t].nd)
         /\ loc[t].enode = 0 \/ Published(loc[t].enode)
         /\ loc[t].pos \in Positions
    /\ res \in [Threads -> Seq({"ok", "err"})]

(* Spec section 3, invariant C.1: every non-empty cell that points to an   *)
(* array node carries the array-node flag, and only those do.  insert and  *)
(* expand_map decide whether to descend or to dereference a data node from *)
(* this flag alone.                                                        *)
ArrayCellsFlagged ==
    \A n \in DOMAIN node : \A p \in Positions :
        LET w == node[n].arr[p]
        IN  w # 0 => (is_array_node(w) <=>
                      node[NodeAt(unmark(unmark_array_node(w)))].kind = "array")

(* Memory safety of expand_map: no node that can be reached from the head  *)
(* has been freed.  The failure path of the expansion CAS drops a private  *)
(* array node whose cell still points at the data node being expanded.     *)
ReachableNotFreed == Reachable \cap freed = {}

(* insert is wait-free (spec 4.C): every call returns, or at worst panics, *)
(* whatever the other threads do, including the loser of the try_insert   *)
(* race for an empty cell.                                                 *)
InsertTerminates == \A t \in Threads : <>(pc[t] \in {"done", "panic"})

(* Linearizability of insert: the map, seen as the set of hashes of the    *)
(* data nodes reachable from the head, implements KeySet.  Every Ok adds   *)
(* its hash at the successful try_insert CAS, every Err is returned while  *)
(* its hash is present, and expansions never lose a data node.             *)
KS == INSTANCE KeySet WITH present <- PresentHashes, res <- res

KeySetRefined == KS!Spec

=============================================================================
