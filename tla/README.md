# TLA+ models of rustcurrent

This directory holds TLA+ models of the lock-free containers in `src/src/structures/`. TLC checks them. Each module is translated from the Rust source, one step per shared-memory access. The configurations are small enough that each run finishes in under two and a half minutes.

## The system

The repository has three relevant parts.

* **Tagged pointer cell**, in `hash_map/atomic_markable.rs`. An `AtomicMarkablePtr` holds a node pointer in one machine word. Bit 0 is the *mark* flag and bit 1 is the *array-node* flag. There are free functions to test, set and clear each flag. Its `Drop` frees the pointee.
* **Wait-free hash trie**, in `hash_map/hash_map.rs`. A head vector of `HEAD_SIZE` cells holds data leaves and array nodes. `insert` walks down by `shift_step` bits of the hash per level:
  * it CASes a new leaf into an empty cell (`try_insert`);
  * on a collision with another key it calls `expand_map`, which CASes an array node (seeded with the old leaf) over the leaf;
  * after `MAX_FAILURES` failed attempts it forces an expansion.

  Leaves are protected with the hazard manager before they are dereferenced. Only `new`, `hash`, `insert`, `try_insert` and `expand_map` exist in the code.
* **k-FIFO segmented queue**, `SegQueueOld` in `seg_queue_old.rs`. This is a linked list of segments with `k` slots each. Each slot points to a heap `Option<T>` box.
  * `enqueue` scans the tail segment in a random order for an empty box and CASes its data box in. It then runs `commit`, which rolls the insertion back if a dequeuer may have unlinked the segment meanwhile.
  * `dequeue` scans the head segment for a full box and CASes it back to empty.
  * `advance_tail` links a new segment and swings the tail.
  * `advance_head` unlinks an empty head segment, marks it `deleted` and retires it to the hazard manager.
* **HPBRManager**, the hazard-pointer manager. It comes from a crate that is not in this repository, so it is modelled from spec section 4.B:
  * `protect(p, slot)` publishes `p` in a per-thread slot;
  * `retire(p)` appends `p` to the thread's retired list;
  * when the list is longer than the scan threshold, `retire` frees every retired pointer that no hazard slot holds;
  * `unprotect(slot)` clears a slot;
  * dropping the manager with its container drains every retired list (spec section 6).

`structures/mod.rs` also names `stack`, `queue` and `seg_queue`, but those files are absent.

## Modules

| Module | Models | State | Actions |
|---|---|---|---|
| `AtomicMarkable` | flag helpers, `compare_exchange_weak`, `Default` and `Drop` of a cell (`atomic_markable.rs` 6-40, 71-78, 102-127) | none: operators on words | `is_marked`, `is_array_node`, `unmark`, `unmark_array_node`, `mark_array_node`, `mark`, `NullCell`, `CasWeakSucceeds`, `CasWeakFails`, `DropFrees` |
| `KeySet` | what `insert` promises: an atomic set of hashes | `present`, `res` | `Insert` |
| `KFifo` | what `SegQueueOld` promises: a k-relaxed FIFO queue, where a dequeue returns one of the `K` oldest values (spec invariant D.4 and the glossary) | `q` (the values in enqueue order), `out` (each thread's dequeue results) | `Enqueue`, `Dequeue`, `DequeueEmpty` |
| `TriePos` | the index arithmetic of the trie: `shift_step` (`new`), `pos` (`insert`, line 93) and `new_pos` (`expand_map`, line 68) | none: operators on naturals, with `Bitwise` | `Pos`, `NewPos` |
| `HashTrie` | `insert`, `try_insert`, `expand_map` | `node` (id → kind, hash, cell array; 0 is the head vector), `freed`, `hp` (hazard slot), `pc`, `loc` (locals), `res` | `Read`, `TryInsertOk`, `TryInsertFail`, `MatchSome`, `Reread`, `ERead`, `EProtect`, `EReread`, `ECasOk`, `ECasFail`, `EReload` |
| `SegQueue` | every method of `SegQueueOld` except `Debug`, `Drop` of the queue and of `Segment`, and the manager's protect, retire and teardown | `seg` (id → data, next, deleted), `head`, `tail`, `hazard`, `retired`, `freed`, `box` (box address → content), `boxFreed`, `pc`, `loc`, `res`, `dropped` | 8 enqueue steps, 6 commit steps, 9 dequeue steps, 5 `advance_tail` and 10 `advance_head` steps, and `Drop` |
| `MC_HashTrie`, `MC_SegQueue` | TLC instances | | |

Correspondence and abstractions:

* Words are naturals below `2^WORD_BITS`. Node `n` lives at `4 * n`, so the flag bits are free and the masks `!0x1` and `!0x2` keep their width.
* A key is a model value. `Hash` maps it to a small natural, and `HEAD_SIZE = 2`, `KEY_SIZE = 3` give a one-bit index per level with two levels. The trie is tested only through hash equality, exactly as the code compares `data_node.key == hash`.
* A queue slot holds a box address. `box[b]` is the box's content, a value or `NONE` for `None`. `boxFreed` holds the boxes given back to the allocator. Fresh addresses get canonical names, so equivalent interleavings reach the same state:
  * `<<0, 0, v>>` is the data box of value `v`;
  * `<<s, i, g>>` is the `g`-th empty box made for slot `i` of segment `s`.
* When `ADDRESS_REUSE` holds, an allocation may instead return the address of any freed box. This is how the ABA case on the slot CAS arises.
* Reading a freed box (`match *old_ptr`) is undefined behaviour, so it yields any content (`Deref`). The scans are split into a load step (`EnqFindSlot`, `DeqFindItem`) and a dereference step (`EnqInspect`, `DeqInspect`), so another thread can free the box in between.
* When the retire scan frees a segment, its `Segment::drop` also frees the boxes its slots point to. `Drop` runs once every thread is done. It models `SegQueueOld::drop` walking the list from `head`, and the manager draining the retired lists (spec section 6).
* `rng.shuffle` is every permutation of the slots (`Orders`).
* Boxes allocated and freed by the same step without being published are not modelled. Examples are the fresh leaf of a failed `try_insert`, the `new_none_ptr` of a `commit` whose CAS frees it again (lines 122, 129, 138 and 150), and the segment of a lost `advance_tail` link. Where `new_none_ptr` outlives `commit`, it is allocated in the step that decides this. That step is `CommitUndo` when the box is stored, or `CommitDeleted2` when line 145 returns true and leaks it. Segment and trie-node addresses are never reused.
* A thread runs a fixed list `Ops[t]` of operations. `res[t]` records the results.
* `SPURIOUS_CAS` lets `compare_exchange_weak` fail spuriously. In the trie it is a constant of `AtomicMarkable`, whose `CasWeakFails` is the failure outcome the trie's CAS steps use. Every shipped configuration sets it FALSE (see Fairness). Editing `expand_frees_leaf.cfg` to `Ops <- MCOpsSeq` and `SPURIOUS_CAS = TRUE` reaches the same violation with one thread, in 13 states. One insert of a colliding key is enough, because a spurious failure of the expansion CAS drops the array node that still holds the leaf.

## Runs

| Run | Expect | Checks | Shows |
|---|---|---|---|
| `insert_linearizable` | pass | `TypeOK`, `KeySetRefined` | Threads t1 and t3 both insert key `a`, and `b` and `c` collide with `a` on the first level. The trie refines `KeySet`: the refinement maps `present` to the hashes reachable from the head and compares the results. The second insert of `a` returns `Err` when it runs after the first is published. A colliding insert expands the cell and then panics at line 134 (the array is unflagged, `expand_flag`) or spins in `try_insert` (`insert_livelock`); a thread that panics stops. So no insert returns after an expansion, and the refinement covers the single-level inserts and the duplicate. `TypeOK` also checks that every cell and every local node pointer names a published node; it does not check that the node is live (that is `ReachableNotFreed`). |
| `expand_flag` | violation | `ArrayCellsFlagged` | `expand_map` publishes `Box::into_raw(array)` without `mark_array_node`. After one expansion the cell points to an array node but has no array flag (spec C.1). The next traversal panics at line 134. |
| `expand_frees_leaf` | violation | `ReachableNotFreed` | Two expanders race on one cell. The loser's `Box::from_raw(array_node_ptr)` drops its array node, whose cell's `Drop` frees the leaf that is still linked. |
| `insert_livelock` | violation | `InsertTerminates` | Two threads insert into one empty cell. The loser of `try_insert` keeps `node = None` and spins forever. |
| `queue_safety` | pass | `TypeOK`, `ListWellFormed`, `NoUseAfterFree`, `NoDoubleFree`, `NoSegmentLeak`, `OpsComplete` | Two producers race for slots and one of them then dequeues three times, over `K = 2`. Commit rollbacks, segment linking, tail and head advance, retire with a scan, and the teardown all occur. The run shows: the tail stays on the list; no linked segment is deleted or freed; no freed segment is touched; no live slot points to a freed box, and no retired segment is already freed (so nothing is freed twice); the teardown frees every segment; every operation returns. |
| `queue_lost_item` | violation | `NoLostItem` | With `K = 1`, a consumer's scan finds the slot empty. The producer then enqueues 1 and commits it through the self-CAS on an unchanged head. The second enqueue links segment 2. The consumer sees `head.next` and `advance_head` unlinks the segment holding 1. Once everything returns, 1 is neither dequeued nor in the queue. |
| `queue_tail_uaf` | violation | `NoUseAfterFree` | With a producer and two consumers, one consumer in `advance_head` loads `tail` (not protected). The others advance head past it, and the scan frees it. The first consumer then reads `(*tail).next`. To stay within the time bound, the search uses the state constraint `NoNoneLeaked`, which leaves out behaviours where a commit leaks at line 145. A constraint only narrows the search, so the trace is a behaviour of `Spec`. |
| `queue_box_uaf` | violation | `NoBoxUseAfterFree` | Two producers load the same empty box of the single slot. The first CASes its data in and commits, and then frees the empty box (`Box::from_raw(old)`, line 88). The second dereferences it at line 228. Boxes are never hazard-protected. |
| `queue_box_leak` | violation | `NoBoxLeak` | With `K = 2`, boxes are still allocated after `Drop`. In the trace TLC reports, an enqueue lands in a segment behind the head. Its `commit` returns true at line 145 and never frees the `new_none_ptr` it allocated at line 116. This happens even with one thread. When that branch is made to free the box, the same run reaches the second leak. There an enqueue lands in the head segment while the dequeuer unlinks it, and `commit` rolls it back. The empty box its CAS replaced is in no slot, and nobody frees it (line 91). |
| `queue_test_enqueue` | pass | `TestEnqueueResults` | The ignored unit test `test_enqueue` (spec scenario 4), for every shuffled scan order. One thread and `K = 4`: it enqueues 3, 4, 5, 6 and 7, and the fifth enqueue links a second segment. Then it dequeues six times. The first four dequeues return 3, 4, 5 and 6 in some order. The fifth finds the head segment empty with `next` set; it runs `advance_head`, which unlinks and retires the segment, and retries to return 7. The retire scan cannot free the segment yet, because the thread's own hazard slot still holds it; the sixth dequeue's protect replaces that hazard, and its scan frees the segment. The sixth returns `None`. |
| `queue_two_consumers` | pass | `DequeueOnce` | Two dequeuers, `K = 2`: t1 enqueues 1 and 2 and then dequeues, t2 dequeues twice. Both may find the same full box; only the winner of the slot `compare_exchange` against `item_ptr` returns its value, so no value is returned twice. |
| `queue_kfifo` | pass | `KFifoRefined` | One thread, `K = 2`: three enqueues, a dequeue, two more enqueues and five dequeues, for every scan order, so values span three segments and two head segments are retired. The queue refines `KFifo`: the abstract queue is the values in slots of linked segments, in enqueue order; the slot CASes are the linearization points, each dequeue returns one of the `K` oldest values, and `None` is returned only when no value is queued. |

The passing runs together fire every action and every disjunct of both next-state relations, except the spurious-failure outcome, which no shipped configuration enables. Each property of a passing run is broken by a mutant of one mapped action. Mutant operators are marked `Mutant:` in the modules: `ECasOkUnfilled`, `ECasFailReturnsFreed`, `EnqInspectNoAdvance`, `EnqInspectShortScan`, `DeqCasNoCompare`, `DeqInspectShortScan`, `AdvHeadRecheckNoTailMove`, `AdvHeadCasTailNext`, `AdvHeadRetireNoHazards`, `AdvHeadRetireKeepsFreed` and `AdvHeadRetireForgetsHeld`.

### Bounds

* **Hash trie:** 3 threads and 4 keys. Hashes 1, 3 and 5 share the first-level position and 2 does not. `HEAD_SIZE = 2` and `KEY_SIZE = 3` make collisions and expansions reachable within 2 inserts. The bottom level is not reached: the first expansion of a cell ends its insert in the line-134 panic. `MAX_FAILURES = 10` as in the code; the forced-expansion path is reached only through `Reread`'s retry count, so it stays in the model but is not exercised.
* **Queue:**
  * `queue_test_enqueue` uses the test's own `K = 4` and five values (399k states, about 5 s).
  * `K = 1` or `2` and three to four values. That is enough for a full segment, a second and third segment, and a retired segment.
  * `K = 2` is needed for the rollback leak: with `K = 1` this workload reaches no leaking rollback.
  * Two threads at most in the passing runs. With three threads (needed for a rollback racing a second dequeuer, `seg_queue_old.rs:147`, and for ABA on a slot with `ADDRESS_REUSE`), every retried rollback allocates a fresh empty box, and the search did not close: 38M states in 15 minutes for the ABA workload, 13M states at depth 1690 for one enqueuer and two dequeuers. Those hazards are left unchecked.
  * `SCAN_THRESHOLD = 0` replaces the code's 100 (`HPBRManager::new(100, _)`). The scan is the same, only earlier, so frees can happen in short runs. Any free reachable with threshold 100 is reachable here in a shorter run with the same interleaving.

### Fairness

Operations run on OS threads, and the code has no locks. Each thread that can take a step eventually does, so there is weak fairness on each thread's `Step(t)`. Spurious failures of `compare_exchange_weak` are disabled in every shipped run. An unbounded run of them is allowed by the Rust contract, but no real LL/SC implementation produces one forever.

## Not modelled

* Hash map `get`, `remove` and `update`: they are in the spec but not in the code.
* `stack.rs`, `queue.rs` and `seg_queue.rs`: absent from `src/`.
* `Drop` of the map: it is sequential teardown of a trie that the first array expansion already breaks (`expand_flag`).
* `Debug`/`to_string`: formatting only.
* `compare_exchange`, `compare_and_mark` and `AtomicMarkablePtr::mark`: they have no caller. `compare_exchange_weak` also returns `Err(new)` where spec 4.A has the observed word; no caller reads that value. The same holds for the second `AtomicMarkablePtr` in `seg_queue_old.rs` (lines 385-432, with its own `is_marked`, `mark` and `unmark`).
* The concurrent `test_with_contention`, with 20 producers and 20 consumers of 10,000 values each, is far beyond what TLC can explore. Its consumers call `dequeue` until it returns `Some` (lines 497-509), so the lost item of `queue_lost_item` would leave one of them spinning rather than failing an assertion.
* Thread registration with the manager. `unprotect` is modelled where the queue calls it (`EnqCheckTail` clears the slot).

## Plan for later work

1. The `KFifo` refinement under concurrency. It is checked in the one-thread `queue_kfifo` workload only. In every concurrent workload with two enqueues, the lost-item defect (`queue_lost_item`) removes a value without a dequeue, so the refinement fails for that known reason. A concurrent check also needs a linearization point for `None` earlier than the return, which takes a prophecy variable.
2. A HashTrie variant with `mark_array_node` applied (the intended code), to check concurrent inserts across levels and the per-level `pos` (`hash_map.rs:93`), which indexes every level by the unshifted hash.
3. A standalone `HazardManager` module (protect, unprotect, retire, scan) with its own safety property. The containers would instance it.
