------------------------------- MODULE KeySet -------------------------------
(***************************************************************************)
(* What HashMap::insert promises, as an atomic specification: each insert *)
(* takes effect at one instant, adding its key when no key of the same    *)
(* hash is present (Ok) and changing nothing when one is (Err).  The map  *)
(* tells keys apart only by their 64-bit hash (DataNode.key is the hash),  *)
(* so the abstract state is the set of hashes present.  A thread runs the *)
(* inserts Ops[t] in order; res[t] lists the results it has received.     *)
(***************************************************************************)
EXTENDS Naturals, Sequences

CONSTANTS Threads, Keys, Hash, Ops

VARIABLES present, res

Insert(t) ==
    /\ Len(res[t]) < Len(Ops[t])
    /\ LET h == Hash[Ops[t][Len(res[t]) + 1]]
       IN  IF h \in present
             THEN /\ res' = [res EXCEPT ![t] = Append(@, "err")]
                  /\ UNCHANGED present
             ELSE /\ res' = [res EXCEPT ![t] = Append(@, "ok")]
                  /\ present' = present \cup {h}

Init ==
    /\ present = {}
    /\ res = [t \in Threads |-> <<>>]

Next == \E t \in Threads : Insert(t)

Spec == Init /\ [][Next]_<<present, res>>

=============================================================================
