------------------------------- MODULE KFifo --------------------------------
(***************************************************************************)
(* What SegQueueOld promises, as an atomic specification: a k-relaxed      *)
(* FIFO queue (spec section 8).  The queue is the sequence q of values in  *)
(* the order they were enqueued.  An enqueue appends its value at one      *)
(* instant.  A dequeue takes, at one instant, one of the K oldest values   *)
(* still in the queue (spec invariant D.4: it comes from the head segment *)
(* of K slots; the glossary: "any of the k oldest"), or returns NONE when  *)
(* the queue is empty.  out[t] lists the results of thread t's dequeues.  *)
(* Section 8 words the bound as "at most k elements enqueued before it",   *)
(* one more than a segment holds.                                          *)
(***************************************************************************)
EXTENDS Naturals, Sequences, SequencesExt

CONSTANTS Threads, Values, K, NONE

VARIABLES q, out

Enqueue ==
    /\ \E v \in Values : q' = Append(q, v)
    /\ UNCHANGED out

\* q[i] is the i-th oldest value still in the queue.
Dequeue(t) ==
    /\ \E i \in 1 .. Len(q) :
         /\ i <= K
         /\ out' = [out EXCEPT ![t] = Append(@, q[i])]
         /\ q' = RemoveAt(q, i)

DequeueEmpty(t) ==
    /\ q = <<>>
    /\ out' = [out EXCEPT ![t] = Append(@, NONE)]
    /\ UNCHANGED q

Init ==
    /\ q = <<>>
    /\ out = [t \in Threads |-> <<>>]

Next == Enqueue \/ \E t \in Threads : Dequeue(t) \/ DequeueEmpty(t)

Spec == Init /\ [][Next]_<<q, out>>

=============================================================================
