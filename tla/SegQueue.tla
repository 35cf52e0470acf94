------------------------------ MODULE SegQueue ------------------------------
(***************************************************************************)
(* SegQueueOld of src/structures/seg_queue_old.rs: enqueue (try_enqueue,  *)
(* find_empty_slot, commit), dequeue (try_dequeue, find_item), advance_tail *)
(* and advance_head, run concurrently by Threads, with segments retired to *)
(* the hazard-pointer manager (HPBRManager, not in this repository: it is  *)
(* modelled from the spec, section 4.B).                                   *)
(*                                                                         *)
(* A segment is seg[s] = [data, next, deleted]; 0 is the null pointer.  A *)
(* slot holds the address of a heap box, box[b] is what the box holds (an *)
(* enqueued value, or NONE for `None`) and boxFreed the boxes handed back  *)
(* to the allocator.  A fresh address is named canonically: <<0, 0, v>>    *)
(* for the data box of value v, <<s, i, g>> for the g-th empty box made    *)
(* for slot i of segment s.  When ADDRESS_REUSE holds, a new box may       *)
(* instead get the address of any freed box.  Reading a freed box is       *)
(* undefined behaviour and yields any content.  Boxes an operation         *)
(* allocates and frees without publishing them are not modelled.  One step *)
(* is one access to shared memory.                                         *)
(***************************************************************************)
EXTENDS Naturals, Sequences, FiniteSets

CONSTANTS
    Threads,
    Ops,             \* Ops[t]: <<"enq", v>> and <<"deq">> operations, in order
    K,               \* slots per segment (SegQueueOld::new(k))
    NONE,            \* the content `None` of an empty box
    SCAN_THRESHOLD,  \* retired-list length above which retire scans
    SPURIOUS_CAS,    \* may compare_exchange_weak fail spuriously?
    ADDRESS_REUSE    \* may the allocator return the address of a freed box?

\* The positions of thread t's enqueues, and the values they enqueue.
EnqIndices(t) == {i \in 1 .. Len(Ops[t]) : Ops[t][i][1] = "enq"}

Values == UNION {{Ops[t][i][2] : i \in EnqIndices(t)} : t \in Threads}

ASSUME /\ K \in Nat \ {0}
       /\ NONE \notin Values
       /\ SCAN_THRESHOLD \in Nat
       /\ SPURIOUS_CAS \in BOOLEAN
       /\ ADDRESS_REUSE \in BOOLEAN

VARIABLES
    seg,      \* seg[s]: the allocated segments
    head,     \* SegQueueOld.head
    tail,     \* SegQueueOld.tail
    hazard,   \* hazard[t]: the thread's hazard slot 0
    retired,  \* retired[t]: the thread's retired list
    freed,    \* segments handed back to the allocator
    box,      \* box[b]: the content of the heap box at address b
    boxFreed, \* boxes handed back to the allocator
    pc,
    loc,      \* locals of the operation each thread runs
    res,      \* res[t]: results of the operations thread t has finished
    dropped   \* has the queue been dropped after the threads were joined?

vars == <<seg, head, tail, hazard, retired, freed, box, boxFreed, pc, loc, res, dropped>>

Slots == 0 .. (K - 1)

\* The boxes the slots of the segments S point to, which Segment::drop frees.
SegmentBoxes(S) == {seg[s].data[i] : s \in S, i \in Slots}

\* Segment::new(k) for segment s: k fresh empty boxes.
NewSegment(s) == [data |-> [i \in Slots |-> <<s, i, 1>>], next |-> 0, deleted |-> FALSE]

NewId == Cardinality(DOMAIN seg) + 1

\* Fresh addresses of the data box of v and of a new empty box for slot i
\* of segment s.
DataBox(v) == <<0, 0, v>>

FreshEmpty(s, i) ==
    <<s, i, Cardinality({x \in DOMAIN box : x[1] = s /\ x[2] = i /\ x[3] # 0}) + 1>>

\* The address of a new_none_ptr that commit leaks (line 145).  No slot
\* ever holds it, so it is named apart from FreshEmpty's addresses (index 0); the
\* boxes leaked by commits into one slot share one name, since nothing
\* reads them and NoBoxLeak only asks whether one is left.
LeakedBox(s, i) == <<s, i, 0>>

\* The addresses `Box::new` may return, given the fresh one.
AllocIds(fresh) == {fresh} \cup (IF ADDRESS_REUSE THEN boxFreed ELSE {})

\* `Box::new(v)` at address b.
Alloc(b, v) ==
    /\ box' = [x \in DOMAIN box \cup {b} |-> IF x = b THEN v ELSE box[x]]
    /\ boxFreed' = boxFreed \ {b}

\* What `*ptr` may read.
Deref(b) == IF b \in boxFreed THEN Values \cup {NONE} ELSE {box[b]}

\* The orders `rng.shuffle(vals)` can produce.
Orders == {f \in [1 .. K -> Slots] : \A i, j \in 1 .. K : i # j => f[i] # f[j]}

CurOp(t) == Ops[t][Len(res[t]) + 1]

\* The first step of the operation after the one that just finished.
StartPc(t, n) ==
    IF n > Len(Ops[t]) THEN "done"
    ELSE IF Ops[t][n][1] = "enq" THEN "e_load" ELSE "d_load"

\* b: the box address last loaded from a slot; d: the enqueue's data box.
Locals == [s |-> 0, order |-> <<>>, i |-> 1, idx |-> 0, b |-> <<>>, d |-> <<>>,
           h |-> 0, tl |-> 0, nx |-> 0, tn |-> 0, hn |-> 0, old |-> 0,
           ret |-> "done", found |-> FALSE]

-----------------------------------------------------------------------------
(* Control helpers.                                                        *)

Goto(t, p) == pc' = [pc EXCEPT ![t] = p]

SetLoc(t, l) == loc' = [loc EXCEPT ![t] = l]

\* The operation returns r; the thread starts its next operation.
Finish(t, r) ==
    /\ res' = [res EXCEPT ![t] = Append(@, r)]
    /\ Goto(t, StartPc(t, Len(res[t]) + 2))
    /\ SetLoc(t, Locals)

\* try_enqueue or try_dequeue returned Err: the loop calls it again.
Retry(t) ==
    /\ Goto(t, IF CurOp(t)[1] = "enq" THEN "e_load" ELSE "d_load")
    /\ UNCHANGED res

\* Call advance_tail(old) or advance_head(old), returning to ret.
Call(t, first, old, ret) ==
    /\ Goto(t, first)
    /\ SetLoc(t, [loc[t] EXCEPT !.old = old, !.ret = ret])
    /\ UNCHANGED res

Return(t) ==
    /\ Goto(t, loc[t].ret)
    /\ UNCHANGED <<loc, res>>

SetSlot(s, i, v) == seg' = [seg EXCEPT ![s].data[i] = v]

boxes == <<box, boxFreed>>

shared == <<seg, head, tail, hazard, retired, freed, box, boxFreed>>

-----------------------------------------------------------------------------
(* try_enqueue.                                                            *)

\* `let tail = self.tail.load()`; the first attempt of an enqueue also
\* allocates its data box, `Box::new(Some(data))`, kept across retries.
EnqLoadTail(t) ==
    /\ pc[t] = "e_load"
    /\ Goto(t, "e_protect")
    /\ IF loc[t].d = <<>>
         THEN \E b \in AllocIds(DataBox(CurOp(t)[2])) :
                /\ Alloc(b, CurOp(t)[2])
                /\ SetLoc(t, [Locals EXCEPT !.s = tail, !.d = b])
         ELSE /\ SetLoc(t, [Locals EXCEPT !.s = tail, !.d = loc[t].d])
              /\ UNCHANGED boxes
    /\ UNCHANGED <<seg, head, tail, hazard, retired, freed, res>>

\* `self.manager.protect(tail, 0)`
EnqProtect(t) ==
    /\ pc[t] = "e_protect"
    /\ hazard' = [hazard EXCEPT ![t] = loc[t].s]
    /\ Goto(t, "e_check")
    /\ UNCHANGED <<seg, head, tail, retired, freed, box, boxFreed, loc, res>>

\* The tail is re-read: if it moved, unprotect and return Err; otherwise
\* shuffle the slot order for find_empty_slot.
EnqCheckTail(t) ==
    /\ pc[t] = "e_check"
    /\ \/ /\ tail # loc[t].s
          /\ hazard' = [hazard EXCEPT ![t] = 0]
          /\ Retry(t)
          /\ UNCHANGED loc
       \/ /\ tail = loc[t].s
          /\ \E o \in Orders : SetLoc(t, [loc[t] EXCEPT !.order = o, !.i = 1])
          /\ Goto(t, "e_find")
          /\ UNCHANGED <<hazard, res>>
    /\ UNCHANGED <<seg, head, tail, retired, freed, box, boxFreed>>

\* find_empty_slot: `let old_ptr = node.data[*i].load()`
EnqFindSlot(t) ==
    /\ pc[t] = "e_find"
    /\ LET l == loc[t] IN SetLoc(t, [l EXCEPT !.b = seg[l.s].data[l.order[l.i]]])
    /\ Goto(t, "e_inspect")
    /\ UNCHANGED <<shared, res>>

\* Mutant: a full segment returns Err without calling advance_tail.
EnqInspectNoAdvance(t) ==
    /\ pc[t] = "e_inspect"
    /\ LET l == loc[t] IN
       \E c \in Deref(l.b) :
         CASE c = NONE -> /\ Goto(t, "e_recheck")
                          /\ SetLoc(t, [l EXCEPT !.idx = l.order[l.i]])
                          /\ UNCHANGED res
           [] l.i < K  -> /\ Goto(t, "e_find")
                          /\ SetLoc(t, [l EXCEPT !.i = @ + 1])
                          /\ UNCHANGED res
           [] OTHER    -> Retry(t) /\ UNCHANGED loc
    /\ UNCHANGED shared

\* Mutant: find_empty_slot stops one slot short of the end of its order.
EnqInspectShortScan(t) ==
    /\ pc[t] = "e_inspect"
    /\ LET l == loc[t] IN
       \E c \in Deref(l.b) :
         CASE c = NONE    -> /\ Goto(t, "e_recheck")
                             /\ SetLoc(t, [l EXCEPT !.idx = l.order[l.i]])
                             /\ UNCHANGED res
           [] l.i < K - 1 -> /\ Goto(t, "e_find")
                             /\ SetLoc(t, [l EXCEPT !.i = @ + 1])
                             /\ UNCHANGED res
           [] OTHER       -> Call(t, "a_load", l.s, "e_load")
    /\ UNCHANGED shared

\* `match *old_ptr`: an empty box is the slot found; when the scan ends
\* without one, advance_tail(tail) and return Err.
EnqInspect(t) ==
    /\ pc[t] = "e_inspect"
    /\ LET l == loc[t] IN
       \E c \in Deref(l.b) :
         CASE c = NONE -> /\ Goto(t, "e_recheck")
                          /\ SetLoc(t, [l EXCEPT !.idx = l.order[l.i]])
                          /\ UNCHANGED res
           [] l.i < K  -> /\ Goto(t, "e_find")
                          /\ SetLoc(t, [l EXCEPT !.i = @ + 1])
                          /\ UNCHANGED res
           [] OTHER    -> Call(t, "a_load", l.s, "e_load")
    /\ UNCHANGED shared

\* `if ptr::eq(tail, self.tail.load())`: else return Err.
EnqRecheckTail(t) ==
    /\ pc[t] = "e_recheck"
    /\ IF tail = loc[t].s THEN Goto(t, "e_cas") /\ UNCHANGED res ELSE Retry(t)
    /\ UNCHANGED <<shared, loc>>

\* compare_exchange_weak(old_ptr, data_ptr) on the slot, then commit.
EnqCasOk(t) ==
    /\ pc[t] = "e_cas"
    /\ seg[loc[t].s].data[loc[t].idx] = loc[t].b
    /\ SetSlot(loc[t].s, loc[t].idx, loc[t].d)
    /\ Goto(t, "c_load")
    /\ UNCHANGED <<head, tail, hazard, retired, freed, box, boxFreed, loc, res>>

EnqCasFail(t) ==
    /\ pc[t] = "e_cas"
    /\ seg[loc[t].s].data[loc[t].idx] # loc[t].b \/ SPURIOUS_CAS
    /\ Retry(t)
    /\ UNCHANGED <<shared, loc>>

-----------------------------------------------------------------------------
(* commit(tail_old, item_ptr, index).  true frees the old empty box        *)
(* (`Box::from_raw(old)`) and enqueue returns; false takes the data box    *)
(* back and try_enqueue returns Err, so enqueue retries with the same box; *)
(* the empty box the CAS replaced is then never freed.                     *)

\* commit returned true: the old empty box is freed.  commit's
\* new_none_ptr is left out where commit frees it again (lines 122, 129,
\* 138, 150): it is allocated where it is stored or leaked.
Committed(t) ==
    /\ boxFreed' = boxFreed \cup {loc[t].b}
    /\ UNCHANGED box
    /\ Finish(t, "ok")

\* `if !ptr::eq(data[index].load(), item_ptr)`: already dequeued, true.
CommitLoadSlot(t) ==
    /\ pc[t] = "c_load"
    /\ IF seg[loc[t].s].data[loc[t].idx] # loc[t].d
         THEN Committed(t)
         ELSE Goto(t, "c_head") /\ UNCHANGED <<boxes, loc, res>>
    /\ UNCHANGED <<seg, head, tail, hazard, retired, freed>>

\* `let head = self.head.load()`
CommitLoadHead(t) ==
    /\ pc[t] = "c_head"
    /\ Goto(t, "c_deleted")
    /\ SetLoc(t, [loc[t] EXCEPT !.h = head])
    /\ UNCHANGED <<shared, res>>

\* `if (*tail_old).deleted.load()` undo; `else if head == tail_old` the
\* self-CAS on head; otherwise deleted is loaded again.
CommitDeleted(t) ==
    /\ pc[t] = "c_deleted"
    /\ Goto(t, CASE seg[loc[t].s].deleted -> "c_undo"
                 [] loc[t].h = loc[t].s   -> "c_selfcas"
                 [] OTHER                 -> "c_deleted2")
    /\ UNCHANGED <<shared, loc, res>>

\* `self.head.compare_exchange(head, head)`: success is true, failure undoes.
CommitSelfCas(t) ==
    /\ pc[t] = "c_selfcas"
    /\ IF head = loc[t].h
         THEN Committed(t)
         ELSE Goto(t, "c_undo") /\ UNCHANGED <<boxes, loc, res>>
    /\ UNCHANGED <<seg, head, tail, hazard, retired, freed>>

\* `else if !(*tail_old).deleted.load()`: true, and the new_none_ptr of
\* line 116 is neither stored nor freed: it stays allocated.  Else undo.
CommitDeleted2(t) ==
    /\ pc[t] = "c_deleted2"
    /\ IF ~seg[loc[t].s].deleted
         THEN \E n \in AllocIds(LeakedBox(loc[t].s, loc[t].idx)) :
                /\ box' = [x \in DOMAIN box \cup {n} |->
                             IF x = n THEN NONE ELSE box[x]]
                /\ boxFreed' = (boxFreed \ {n}) \cup {loc[t].b}
                /\ Finish(t, "ok")
         ELSE Goto(t, "c_undo") /\ UNCHANGED <<boxes, loc, res>>
    /\ UNCHANGED <<seg, head, tail, hazard, retired, freed>>

\* CAS of the data box back to new_none_ptr: success is false (the enqueue
\* is retried), failure means it was dequeued: new_none_ptr is freed, true.
CommitUndo(t) ==
    /\ pc[t] = "c_undo"
    /\ IF seg[loc[t].s].data[loc[t].idx] = loc[t].d
         THEN /\ \E n \in AllocIds(FreshEmpty(loc[t].s, loc[t].idx)) :
                   Alloc(n, NONE) /\ SetSlot(loc[t].s, loc[t].idx, n)
              /\ Retry(t)
              /\ UNCHANGED loc
         ELSE Committed(t) /\ UNCHANGED seg
    /\ UNCHANGED <<head, tail, hazard, retired, freed>>

-----------------------------------------------------------------------------
(* try_dequeue.                                                            *)

\* `let head = self.head.load()`
DeqLoadHead(t) ==
    /\ pc[t] = "d_load"
    /\ Goto(t, "d_protect")
    /\ SetLoc(t, [Locals EXCEPT !.s = head])
    /\ UNCHANGED <<shared, res>>

\* `self.manager.protect(head, 0)`
DeqProtect(t) ==
    /\ pc[t] = "d_protect"
    /\ hazard' = [hazard EXCEPT ![t] = loc[t].s]
    /\ Goto(t, "d_check")
    /\ UNCHANGED <<seg, head, tail, retired, freed, box, boxFreed, loc, res>>

\* The head is re-read: if it moved, Err; otherwise shuffle for find_item.
DeqCheckHead(t) ==
    /\ pc[t] = "d_check"
    /\ \/ /\ head # loc[t].s
          /\ Retry(t)
          /\ UNCHANGED loc
       \/ /\ head = loc[t].s
          /\ \E o \in Orders : SetLoc(t, [loc[t] EXCEPT !.order = o, !.i = 1])
          /\ Goto(t, "d_find")
          /\ UNCHANGED res
    /\ UNCHANGED shared

\* find_item: `let old_ptr = node.data[*i].load()`
DeqFindItem(t) ==
    /\ pc[t] = "d_find"
    /\ LET l == loc[t] IN SetLoc(t, [l EXCEPT !.b = seg[l.s].data[l.order[l.i]]])
    /\ Goto(t, "d_inspect")
    /\ UNCHANGED <<shared, res>>

\* Mutant: find_item stops one slot short of the end of its order.
DeqInspectShortScan(t) ==
    /\ pc[t] = "d_inspect"
    /\ LET l == loc[t] IN
       \E c \in Deref(l.b) :
         CASE c # NONE    -> /\ Goto(t, "d_tail")
                             /\ SetLoc(t, [l EXCEPT !.idx = l.order[l.i], !.found = TRUE])
           [] l.i < K - 1 -> /\ Goto(t, "d_find")
                             /\ SetLoc(t, [l EXCEPT !.i = @ + 1])
           [] OTHER       -> Goto(t, "d_tail") /\ UNCHANGED loc
    /\ UNCHANGED <<shared, res>>

\* `match *old_ptr`: a full box is the item found; the scan may end without.
DeqInspect(t) ==
    /\ pc[t] = "d_inspect"
    /\ LET l == loc[t] IN
       \E c \in Deref(l.b) :
         CASE c # NONE -> /\ Goto(t, "d_tail")
                          /\ SetLoc(t, [l EXCEPT !.idx = l.order[l.i], !.found = TRUE])
           [] l.i < K  -> /\ Goto(t, "d_find")
                          /\ SetLoc(t, [l EXCEPT !.i = @ + 1])
           [] OTHER    -> Goto(t, "d_tail") /\ UNCHANGED loc
    /\ UNCHANGED <<shared, res>>

\* `let tail = self.tail.load()`
DeqLoadTail(t) ==
    /\ pc[t] = "d_tail"
    /\ Goto(t, "d_recheck")
    /\ SetLoc(t, [loc[t] EXCEPT !.tl = tail])
    /\ UNCHANGED <<shared, res>>

\* `if ptr::eq(head, self.head.load())`: with an item, advance_tail first
\* when head == tail; without one, look at head.next.  Else Err.
DeqRecheckHead(t) ==
    /\ pc[t] = "d_recheck"
    /\ LET l == loc[t] IN
       CASE head # l.s                 -> Retry(t) /\ UNCHANGED loc
         [] l.found /\ l.s = l.tl      -> Call(t, "a_load", l.tl, "d_cas")
         [] l.found                    -> Goto(t, "d_cas") /\ UNCHANGED <<loc, res>>
         [] OTHER                      -> Goto(t, "d_next") /\ UNCHANGED <<loc, res>>
    /\ UNCHANGED shared

\* Mutant: the item box is replaced by a new empty box with a store
\* instead of a compare_exchange against item_ptr.
DeqCasNoCompare(t) ==
    /\ pc[t] = "d_cas"
    /\ LET l == loc[t] IN
       \E n \in AllocIds(FreshEmpty(l.s, l.idx)) :
         /\ box' = [x \in DOMAIN box \cup {n} |-> IF x = n THEN NONE ELSE box[x]]
         /\ boxFreed' = (boxFreed \ {n}) \cup {l.b}
         /\ SetSlot(l.s, l.idx, n)
         /\ Finish(t, box[l.b])
    /\ UNCHANGED <<head, tail, hazard, retired, freed>>

\* CAS of the item box to a new empty box; on success the value is taken
\* out with ptr::replace, the item box freed and the value returned.
DeqCas(t) ==
    /\ pc[t] = "d_cas"
    /\ LET l == loc[t] IN
       IF seg[l.s].data[l.idx] = l.b
         THEN \E n \in AllocIds(FreshEmpty(l.s, l.idx)) :
                /\ box' = [x \in DOMAIN box \cup {n} |-> IF x = n THEN NONE ELSE box[x]]
                /\ boxFreed' = (boxFreed \ {n}) \cup {l.b}
                /\ SetSlot(l.s, l.idx, n)
                /\ Finish(t, box[l.b])
         ELSE Retry(t) /\ UNCHANGED <<seg, boxes, loc>>
    /\ UNCHANGED <<head, tail, hazard, retired, freed>>

\* `if (*head).next.load().is_null()`: empty, None; else advance_head, Err.
DeqNext(t) ==
    /\ pc[t] = "d_next"
    /\ IF seg[loc[t].s].next = 0
         THEN Finish(t, NONE)
         ELSE Call(t, "h_load", loc[t].s, "d_load")
    /\ UNCHANGED shared

-----------------------------------------------------------------------------
(* advance_tail(old_tail).                                                 *)

\* `let tail_current = self.tail.load()`: return unless it is old_tail.
AdvTailLoad(t) ==
    /\ pc[t] = "a_load"
    /\ IF tail = loc[t].old THEN Goto(t, "a_next") /\ UNCHANGED <<loc, res>>
                            ELSE Return(t)
    /\ UNCHANGED shared

\* `let next = (*old_tail).next.load()`
AdvTailNext(t) ==
    /\ pc[t] = "a_next"
    /\ Goto(t, "a_recheck")
    /\ SetLoc(t, [loc[t] EXCEPT !.nx = seg[loc[t].old].next])
    /\ UNCHANGED <<shared, res>>

\* `if ptr::eq(old_tail, self.tail.load())`: link a new segment when next
\* is null, else swing the tail to next.
AdvTailRecheck(t) ==
    /\ pc[t] = "a_recheck"
    /\ CASE tail # loc[t].old -> Return(t)
         [] loc[t].nx = 0     -> Goto(t, "a_link") /\ UNCHANGED <<loc, res>>
         [] OTHER             -> Goto(t, "a_swing") /\ UNCHANGED <<loc, res>>
    /\ UNCHANGED shared

\* CAS of old_tail.next from null to a new segment, whose K empty boxes
\* are fresh; on failure the new segment is freed before anyone saw it.
AdvTailLink(t) ==
    /\ pc[t] = "a_link"
    /\ LET o == loc[t].old
           fresh == {<<NewId, i, 1>> : i \in Slots}
       IN  IF seg[o].next = 0
             THEN /\ seg' = [s \in DOMAIN seg \cup {NewId} |->
                               IF s = NewId THEN NewSegment(NewId)
                               ELSE IF s = o THEN [seg[o] EXCEPT !.next = NewId]
                               ELSE seg[s]]
                  /\ box' = [b \in DOMAIN box \cup fresh |->
                               IF b \in DOMAIN box THEN box[b] ELSE NONE]
                  /\ Goto(t, "a_swing")
                  /\ SetLoc(t, [loc[t] EXCEPT !.nx = NewId])
                  /\ UNCHANGED res
             ELSE Return(t) /\ UNCHANGED <<seg, box>>
    /\ UNCHANGED <<head, tail, hazard, retired, freed, boxFreed>>

\* `self.tail.compare_exchange(old_tail, next)`, result ignored.
AdvTailSwing(t) ==
    /\ pc[t] = "a_swing"
    /\ tail' = IF tail = loc[t].old THEN loc[t].nx ELSE tail
    /\ Return(t)
    /\ UNCHANGED <<seg, head, hazard, retired, freed, box, boxFreed>>

-----------------------------------------------------------------------------
(* advance_head(old_head).                                                 *)

\* `let head = self.head.load()`: return unless it is old_head.
AdvHeadLoad(t) ==
    /\ pc[t] = "h_load"
    /\ IF head = loc[t].old THEN Goto(t, "h_tail") /\ UNCHANGED <<loc, res>>
                            ELSE Return(t)
    /\ UNCHANGED shared

\* `let tail = self.tail.load()`
AdvHeadTail(t) ==
    /\ pc[t] = "h_tail"
    /\ Goto(t, "h_tnext")
    /\ SetLoc(t, [loc[t] EXCEPT !.tl = tail])
    /\ UNCHANGED <<shared, res>>

\* `let tail_next = (*tail).next.load()`: tail is not protected.
AdvHeadTailNext(t) ==
    /\ pc[t] = "h_tnext"
    /\ Goto(t, "h_hnext")
    /\ SetLoc(t, [loc[t] EXCEPT !.tn = seg[loc[t].tl].next])
    /\ UNCHANGED <<shared, res>>

\* `let head_next = (*head).next.load()`
AdvHeadHeadNext(t) ==
    /\ pc[t] = "h_hnext"
    /\ Goto(t, "h_recheck")
    /\ SetLoc(t, [loc[t] EXCEPT !.hn = seg[loc[t].old].next])
    /\ UNCHANGED <<shared, res>>

\* Mutant: the head is swung without first moving a tail that equals it.
AdvHeadRecheckNoTailMove(t) ==
    /\ pc[t] = "h_recheck"
    /\ LET l == loc[t] IN
       CASE head # l.old               -> Return(t)
         [] l.tl = l.old /\ l.tn = 0   -> Return(t)
         [] OTHER                      -> Goto(t, "h_cas") /\ UNCHANGED <<loc, res>>
    /\ UNCHANGED shared

\* `if ptr::eq(head, self.head.load())`: when tail == head, a single
\* segment is kept, otherwise the tail is moved first.
AdvHeadRecheck(t) ==
    /\ pc[t] = "h_recheck"
    /\ LET l == loc[t] IN
       CASE head # l.old               -> Return(t)
         [] l.tl = l.old /\ l.tn = 0   -> Return(t)
         [] l.tl = l.old               -> Goto(t, "h_tcheck") /\ UNCHANGED <<loc, res>>
         [] OTHER                      -> Goto(t, "h_cas") /\ UNCHANGED <<loc, res>>
    /\ UNCHANGED shared

\* `if ptr::eq(tail, self.tail.load())` then CAS tail to tail_next.
AdvHeadTailCheck(t) ==
    /\ pc[t] = "h_tcheck"
    /\ Goto(t, IF tail = loc[t].tl THEN "h_tcas" ELSE "h_cas")
    /\ UNCHANGED <<shared, loc, res>>

AdvHeadTailCas(t) ==
    /\ pc[t] = "h_tcas"
    /\ tail' = IF tail = loc[t].tl THEN loc[t].tn ELSE tail
    /\ Goto(t, "h_cas")
    /\ UNCHANGED <<seg, head, hazard, retired, freed, box, boxFreed, loc, res>>

\* Mutant: head is swung to tail_next instead of head_next.
AdvHeadCasTailNext(t) ==
    /\ pc[t] = "h_cas"
    /\ IF head = loc[t].old
         THEN /\ head' = loc[t].tn
              /\ Goto(t, "h_delete")
              /\ UNCHANGED <<loc, res>>
         ELSE Return(t) /\ UNCHANGED head
    /\ UNCHANGED <<seg, tail, hazard, retired, freed, box, boxFreed>>

\* CAS head from old_head to head_next; on success mark and retire.
AdvHeadCas(t) ==
    /\ pc[t] = "h_cas"
    /\ IF head = loc[t].old
         THEN /\ head' = loc[t].hn
              /\ Goto(t, "h_delete")
              /\ UNCHANGED <<loc, res>>
         ELSE Return(t) /\ UNCHANGED head
    /\ UNCHANGED <<seg, tail, hazard, retired, freed, box, boxFreed>>

\* `(*head).deleted.store(true)`
AdvHeadDelete(t) ==
    /\ pc[t] = "h_delete"
    /\ seg' = [seg EXCEPT ![loc[t].old].deleted = TRUE]
    /\ Goto(t, "h_retire")
    /\ UNCHANGED <<head, tail, hazard, retired, freed, box, boxFreed, loc, res>>

\* Mutant: the scan frees the retired list without consulting the hazards.
AdvHeadRetireNoHazards(t) ==
    /\ pc[t] = "h_retire"
    /\ LET list == retired[t] \cup {loc[t].old}
       IN  IF Cardinality(list) > SCAN_THRESHOLD
             THEN /\ freed' = freed \cup list
                  /\ boxFreed' = boxFreed \cup SegmentBoxes(list)
                  /\ retired' = [retired EXCEPT ![t] = {}]
             ELSE /\ retired' = [retired EXCEPT ![t] = list]
                  /\ UNCHANGED <<freed, boxFreed>>
    /\ Return(t)
    /\ UNCHANGED <<seg, head, tail, hazard, box>>

\* Mutant: the scan frees the unheld segments but keeps them on the list.
AdvHeadRetireKeepsFreed(t) ==
    /\ pc[t] = "h_retire"
    /\ LET list == retired[t] \cup {loc[t].old}
           held == {hazard[u] : u \in Threads}
       IN  IF Cardinality(list) > SCAN_THRESHOLD
             THEN /\ freed' = freed \cup (list \ held)
                  /\ boxFreed' = boxFreed \cup SegmentBoxes(list \ held)
                  /\ retired' = [retired EXCEPT ![t] = list]
             ELSE /\ retired' = [retired EXCEPT ![t] = list]
                  /\ UNCHANGED <<freed, boxFreed>>
    /\ Return(t)
    /\ UNCHANGED <<seg, head, tail, hazard, box>>

\* Mutant: the scan clears the whole list, forgetting the held segments.
AdvHeadRetireForgetsHeld(t) ==
    /\ pc[t] = "h_retire"
    /\ LET list == retired[t] \cup {loc[t].old}
           held == {hazard[u] : u \in Threads}
       IN  IF Cardinality(list) > SCAN_THRESHOLD
             THEN /\ freed' = freed \cup (list \ held)
                  /\ boxFreed' = boxFreed \cup SegmentBoxes(list \ held)
                  /\ retired' = [retired EXCEPT ![t] = {}]
             ELSE /\ retired' = [retired EXCEPT ![t] = list]
                  /\ UNCHANGED <<freed, boxFreed>>
    /\ Return(t)
    /\ UNCHANGED <<seg, head, tail, hazard, box>>

\* `self.manager.retire(head, 0)`: the segment joins the retired list; a
\* list longer than the threshold is scanned, and every segment on it that
\* no hazard slot holds is freed; its Segment::drop frees the boxes its
\* slots point to.
AdvHeadRetire(t) ==
    /\ pc[t] = "h_retire"
    /\ LET list == retired[t] \cup {loc[t].old}
           held == {hazard[u] : u \in Threads}
       IN  IF Cardinality(list) > SCAN_THRESHOLD
             THEN /\ freed' = freed \cup (list \ held)
                  /\ boxFreed' = boxFreed \cup SegmentBoxes(list \ held)
                  /\ retired' = [retired EXCEPT ![t] = list \cap held]
             ELSE /\ retired' = [retired EXCEPT ![t] = list]
                  /\ UNCHANGED <<freed, boxFreed>>
    /\ Return(t)
    /\ UNCHANGED <<seg, head, tail, hazard, box>>

-----------------------------------------------------------------------------

Init ==
    /\ seg = [s \in {1} |-> NewSegment(1)]
    /\ head = 1
    /\ tail = 1
    /\ hazard = [t \in Threads |-> 0]
    /\ retired = [t \in Threads |-> {}]
    /\ freed = {}
    /\ box = [b \in {<<1, i, 1>> : i \in Slots} |-> NONE]
    /\ boxFreed = {}
    /\ pc = [t \in Threads |-> StartPc(t, 1)]
    /\ loc = [t \in Threads |-> Locals]
    /\ res = [t \in Threads |-> <<>>]
    /\ dropped = FALSE

Enqueue(t) ==
    \/ EnqLoadTail(t) \/ EnqProtect(t) \/ EnqCheckTail(t) \/ EnqFindSlot(t)
    \/ EnqInspect(t) \/ EnqRecheckTail(t) \/ EnqCasOk(t) \/ EnqCasFail(t)
    \/ CommitLoadSlot(t) \/ CommitLoadHead(t) \/ CommitDeleted(t)
    \/ CommitSelfCas(t) \/ CommitDeleted2(t) \/ CommitUndo(t)

Dequeue(t) ==
    \/ DeqLoadHead(t) \/ DeqProtect(t) \/ DeqCheckHead(t) \/ DeqFindItem(t)
    \/ DeqInspect(t) \/ DeqLoadTail(t) \/ DeqRecheckHead(t) \/ DeqCas(t)
    \/ DeqNext(t)

AdvanceTail(t) ==
    \/ AdvTailLoad(t) \/ AdvTailNext(t) \/ AdvTailRecheck(t)
    \/ AdvTailLink(t) \/ AdvTailSwing(t)

AdvanceHead(t) ==
    \/ AdvHeadLoad(t) \/ AdvHeadTail(t) \/ AdvHeadTailNext(t)
    \/ AdvHeadHeadNext(t) \/ AdvHeadRecheck(t) \/ AdvHeadTailCheck(t)
    \/ AdvHeadTailCas(t) \/ AdvHeadCas(t) \/ AdvHeadDelete(t) \/ AdvHeadRetire(t)

Step(t) ==
    /\ Enqueue(t) \/ Dequeue(t) \/ AdvanceTail(t) \/ AdvanceHead(t)
    /\ UNCHANGED dropped

\* The segments linked from s by next pointers, s included.
RECURSIVE ChainFrom(_)
ChainFrom(s) == IF s = 0 THEN {} ELSE {s} \cup ChainFrom(seg[s].next)

Linked == ChainFrom(head)

\* What the drops free once the threads are joined: SegQueueOld::drop walks
\* the list from head and drops each segment; the manager, dropped with the
\* queue, drains every retired list (spec section 6).
Owned == Linked \cup UNION {retired[t] : t \in Threads}

\* SegQueueOld::drop, with Segment::drop of each segment it frees and the
\* hazard manager's teardown.
Drop ==
    /\ \A t \in Threads : pc[t] = "done"
    /\ ~dropped
    /\ freed' = freed \cup Owned
    /\ boxFreed' = boxFreed \cup SegmentBoxes(Owned)
    /\ retired' = [t \in Threads |-> {}]
    /\ dropped' = TRUE
    /\ UNCHANGED <<seg, head, tail, hazard, box, pc, loc, res>>

\* The program has ended.
Terminated ==
    /\ dropped
    /\ UNCHANGED vars

Next == (\E t \in Threads : Step(t)) \/ Drop \/ Terminated

\* Threads are OS threads: each one that can take a step eventually does.
Fairness == \A t \in Threads : WF_vars(Step(t))

Spec == Init /\ [][Next]_vars /\ Fairness

-----------------------------------------------------------------------------
(* Properties.                                                             *)

\* Values whose enqueue has returned, and values some dequeue returned.
Enqueued == UNION {{Ops[t][i][2] : i \in {j \in EnqIndices(t) : j <= Len(res[t])}}
                     : t \in Threads}

Dequeued == UNION {{res[t][i] : i \in {j \in DOMAIN res[t] : Ops[t][j][1] = "deq"}}
                     : t \in Threads} \ {NONE}

InQueue == UNION {{box[seg[s].data[i]] : i \in Slots} : s \in Linked} \ {NONE}

\* The segment a thread's next step dereferences, or 0.
Accessed(t) ==
    CASE pc[t] \in {"e_find", "e_cas", "c_load", "c_deleted", "c_deleted2",
                    "c_undo", "d_find", "d_cas", "d_next"}    -> loc[t].s
      [] pc[t] \in {"a_next", "a_link", "h_hnext", "h_delete"} -> loc[t].old
      [] pc[t] = "h_tnext"                                     -> loc[t].tl
      [] OTHER                                                 -> 0

PCs == {"e_load", "e_protect", "e_check", "e_find", "e_inspect", "e_recheck", "e_cas",
        "c_load", "c_head", "c_deleted", "c_selfcas", "c_deleted2", "c_undo",
        "d_load", "d_protect", "d_check", "d_find", "d_inspect", "d_tail", "d_recheck",
        "d_cas", "d_next", "a_load", "a_next", "a_recheck", "a_link", "a_swing",
        "h_load", "h_tail", "h_tnext", "h_hnext", "h_recheck", "h_tcheck",
        "h_tcas", "h_cas", "h_delete", "h_retire", "done"}

\* Type invariant.
TypeOK ==
    /\ DOMAIN seg = 1 .. Cardinality(DOMAIN seg)
    /\ \A s \in DOMAIN seg :
         /\ seg[s].data \in [Slots -> DOMAIN box]
         /\ seg[s].next \in DOMAIN seg \cup {0}
         /\ seg[s].deleted \in BOOLEAN
    /\ box \in [DOMAIN box -> Values \cup {NONE}]
    /\ boxFreed \subseteq DOMAIN box
    /\ head \in DOMAIN seg /\ tail \in DOMAIN seg
    /\ hazard \in [Threads -> DOMAIN seg \cup {0}]
    /\ retired \in [Threads -> SUBSET DOMAIN seg]
    /\ freed \subseteq DOMAIN seg
    /\ pc \in [Threads -> PCs]
    /\ \A t \in Threads : Len(res[t]) <= Len(Ops[t])
    /\ dropped \in BOOLEAN

(* Conservation (spec section 8, checked after the threads are joined):   *)
(* once every operation has returned, a value whose enqueue returned Ok   *)
(* and that no dequeue returned is still in a slot of a segment linked     *)
(* from head.  commit is what keeps an enqueue into a segment that the     *)
(* dequeuers are unlinking from returning Ok.                              *)
NoLostItem ==
    (\A t \in Threads : pc[t] = "done") => Enqueued \ Dequeued \subseteq InQueue

(* No value is returned by two dequeues: the dequeue CAS and the commit    *)
(* rollback never let two threads take the same data box.                  *)
DequeueOnce ==
    LET returns == UNION {{<<t, i>> : i \in {j \in DOMAIN res[t] : Ops[t][j][1] = "deq"}}
                            : t \in Threads}
    IN  \A x, y \in returns :
            (x # y /\ res[x[1]][x[2]] \in Values) => res[x[1]][x[2]] # res[y[1]][y[2]]

(* Spec section 3, invariants D.1-D.3: the tail is linked from the head,   *)
(* and no segment on the list from the head is deleted or freed, as long  *)
(* as the queue has not been dropped.  advance_head moves the tail off a   *)
(* single-segment list before the head, and advance_tail only ever moves  *)
(* the tail forward.                                                       *)
ListWellFormed ==
    ~dropped =>
        /\ tail \in Linked
        /\ \A s \in Linked : ~seg[s].deleted /\ s \notin freed

(* Hazard safety (spec section 8): no thread dereferences a segment the    *)
(* hazard manager has freed, including advance_head's read of tail.next    *)
(* through a tail pointer it has not protected.                            *)
NoUseAfterFree == \A t \in Threads : Accessed(t) \notin freed

(* The slot scans of find_empty_slot and find_item dereference the box   *)
(* address they loaded (`match *old_ptr`) without protecting it, while a  *)
(* committing enqueuer frees the empty box its CAS replaced and a         *)
(* dequeuer frees the item box it took: no box is read after it was freed. *)
NoBoxUseAfterFree ==
    \A t \in Threads : pc[t] \in {"e_inspect", "d_inspect"} => loc[t].b \notin boxFreed

(* Single ownership of the heap: every slot of a segment that is not freed *)
(* points to a live box, and no segment on a retired list is freed yet.    *)
(* So the frees of commit, try_dequeue, the retire scan's Segment::drop    *)
(* and the teardown never free the same segment or box twice.             *)
NoDoubleFree ==
    /\ \A s \in DOMAIN seg \ freed : \A i \in Slots : seg[s].data[i] \notin boxFreed
    /\ \A t \in Threads : retired[t] \cap freed = {}

(* Spec section 6: tearing the queue down drains every retired list, so   *)
(* once SegQueueOld::drop has run every segment ever allocated is freed,  *)
(* including those the retire scans kept because a hazard slot held them. *)
NoSegmentLeak == dropped => freed = DOMAIN seg

(* Every heap box is freed by the time the queue is dropped: a box leaves *)
(* a slot only through an owner that frees it (commit's `Box::from_raw(old)`, *)
(* try_dequeue's result, or a rollback returning the data box to enqueue), *)
(* and commit frees the new_none_ptr it allocates unless it stores it.     *)
NoBoxLeak == dropped => boxFreed = DOMAIN box

(* Lock-freedom with finitely many operations: every thread eventually     *)
(* finishes all its enqueues and dequeues.                                 *)
OpsComplete == <>(\A t \in Threads : pc[t] = "done")

=============================================================================
