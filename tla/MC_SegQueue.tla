----------------------------- MODULE MC_SegQueue -----------------------------
(***************************************************************************)
(* Model-checking instances of SegQueue: threads are model values, values  *)
(* are small naturals, and each thread runs a fixed list of operations.    *)
(***************************************************************************)
EXTENDS SegQueue, TLC

CONSTANTS t1, t2, t3

MCThreads1 == {t1}

MCThreads2 == {t1, t2}

MCThreads3 == {t1, t2, t3}

\* A producer of two values and a consumer: with K = 1 the second enqueue
\* finds the segment full and links a second one while the consumer looks.
MCOpsLoss == [t \in MCThreads2 |-> IF t = t1 THEN <<<<"enq", 1>>, <<"enq", 2>>>>
                                             ELSE <<<<"deq">>>>]

\* Both threads enqueue, so their CASes race for one empty slot; the second
\* then dequeues twice while the first fills and extends the list.
MCOpsPair == [t \in MCThreads2 |-> IF t = t1 THEN <<<<"enq", 1>>, <<"enq", 2>>, <<"enq", 3>>>>
                                             ELSE <<<<"enq", 4>>, <<"deq">>, <<"deq">>, <<"deq">>>>]

\* Both threads dequeue: t1 enqueues two values and then dequeues, while t2
\* dequeues twice, so the two dequeuers can find the same item box and race
\* on its slot's compare_exchange.
MCOpsTwoDeq == [t \in MCThreads2 |-> IF t = t1 THEN <<<<"enq", 1>>, <<"enq", 2>>, <<"deq">>>>
                                               ELSE <<<<"deq">>, <<"deq">>>>]

\* One thread, enqueues and dequeues interleaved: with K = 2 the values
\* fill three segments, and the sixth dequeue finds the queue empty.
MCOpsKFifo == [t \in MCThreads1 |-> <<<<"enq", 1>>, <<"enq", 2>>, <<"enq", 3>>, <<"deq">>,
                                     <<"enq", 4>>, <<"enq", 5>>, <<"deq">>, <<"deq">>,
                                     <<"deq">>, <<"deq">>, <<"deq">>>>]

\* A producer keeps extending the list while two consumers advance the head.
MCOpsTwoConsumers == [t \in MCThreads3 |-> CASE t = t1 -> <<<<"enq", 1>>, <<"enq", 2>>, <<"enq", 3>>>>
                                             [] t = t2 -> <<<<"deq">>>>
                                             [] t = t3 -> <<<<"deq">>, <<"deq">>>>]

\* Two producers of one value each race for one slot.
MCOpsTwoProducers == [t \in MCThreads2 |-> IF t = t1 THEN <<<<"enq", 1>>>> ELSE <<<<"enq", 2>>>>]

\* test_enqueue: with K = 4, enqueue 3, 4, 5, 6 and 7, then dequeue six times.
MCOpsTestEnqueue == [t \in MCThreads1 |-> <<<<"enq", 3>>, <<"enq", 4>>, <<"enq", 5>>,
                                           <<"enq", 6>>, <<"enq", 7>>,
                                           <<"deq">>, <<"deq">>, <<"deq">>,
                                           <<"deq">>, <<"deq">>, <<"deq">>>>]

(* The assertions of test_enqueue (spec section 8, scenario 4): the first  *)
(* four dequeues return 3, 4, 5 and 6 in some order, since any of the K    *)
(* values of the first segment may come out first; the fifth dequeue      *)
(* advances head past the emptied segment and returns 7; the sixth finds   *)
(* the queue empty and returns None.                                        *)
TestEnqueueResults ==
    LET r == res[t1]
    IN  Len(r) = 11 =>
          /\ {r[i] : i \in 6 .. 9} = {3, 4, 5, 6}
          /\ r[10] = 7
          /\ r[11] = NONE

\* The refinement mapping for a workload with one thread, t1.  The abstract
\* queue lists the values that sit in a slot of a linked segment, in the
\* order t1 enqueues them; the abstract results of t1 are the results of
\* its dequeues.  An enqueue takes effect at its slot CAS (EnqCasOk) and a
\* dequeue at its slot CAS (DeqCas) or at its empty return (DeqNext).
EnqOrder ==
    LET e == SelectSeq(Ops[t1], LAMBDA o : o[1] = "enq")
    IN  [i \in 1 .. Len(e) |-> e[i][2]]

AbsQueue == SelectSeq(EnqOrder, LAMBDA v : v \in InQueue)

AbsOut ==
    [t \in Threads |->
        LET d == SelectSeq([j \in 1 .. Len(res[t]) |-> j], LAMBDA j : Ops[t][j][1] = "deq")
        IN  [i \in 1 .. Len(d) |-> res[t][d[i]]]]

KF == INSTANCE KFifo WITH q <- AbsQueue, out <- AbsOut

(* Spec section 8, k-relaxed FIFO: SegQueueOld implements KFifo.  Every    *)
(* step of enqueue, commit, dequeue and the advances either leaves the     *)
(* queue's contents and the dequeue results alone or is one abstract step: *)
(* the slot CAS of an enqueue appends its value, the slot CAS of a dequeue *)
(* removes a value with at most K values enqueued before it still queued,  *)
(* and a None is returned only when no value is queued.                    *)
KFifoRefined == KF!Spec

\* State constraint of queue_tail_uaf: the search leaves out behaviours in
\* which a commit leaks its new_none_ptr at line 145.  It only narrows the
\* search for a violation, so any trace found is a behaviour of Spec.
NoNoneLeaked == \A x \in DOMAIN box : x[3] # 0

=============================================================================
