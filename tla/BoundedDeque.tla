---------------------------- MODULE BoundedDeque ----------------------------
(***************************************************************************)
(* What a ring buffer of this project promises its callers: a double-ended *)
(* queue that holds at most Capacity items and, when it is full, makes     *)
(* room for a new item by forgetting the oldest one.  Reads that find      *)
(* nothing return Zero, which is also a legal item.                        *)
(***************************************************************************)
EXTENDS Integers, Sequences

CONSTANTS Capacity,  \* what an allocated buffer can hold
          Items,     \* the values that can be stored
          Zero       \* returned when there is nothing to return

VARIABLES q,     \* the contents, oldest first
          open,  \* whether the storage is allocated
          ret    \* what the last reading operation returned

vars == <<q, open, ret>>

-----------------------------------------------------------------------------
(* s with x appended, the oldest item dropped if s already holds c items.  *)
PushOver(c, s, x) == IF Len(s) < c THEN Append(s, x) ELSE Append(Tail(s), x)

Init ==
    /\ q = <<>>
    /\ open \in BOOLEAN
    /\ ret = Zero

Open ==
    /\ q' = <<>>
    /\ open' \in BOOLEAN
    /\ UNCHANGED ret

Close ==
    /\ q' = <<>>
    /\ open' = FALSE
    /\ UNCHANGED ret

Clear ==
    /\ q' = <<>>
    /\ UNCHANGED <<open, ret>>

PushBack(x) ==
    /\ q' = IF open THEN PushOver(Capacity, q, x) ELSE q
    /\ UNCHANGED <<open, ret>>

PopFront ==
    /\ \/ q = <<>> /\ q' = q /\ ret' = Zero
       \/ q # <<>> /\ q' = Tail(q) /\ ret' = Head(q)
    /\ UNCHANGED open

PopBack ==
    /\ \/ q = <<>> /\ q' = q /\ ret' = Zero
       \/ q # <<>> /\ q' = SubSeq(q, 1, Len(q) - 1) /\ ret' = q[Len(q)]
    /\ UNCHANGED open

At(i) ==
    /\ ret' = IF i < Len(q) THEN q[i + 1] ELSE Zero
    /\ UNCHANGED <<q, open>>

Next ==
    \/ Open \/ Close \/ Clear \/ PopFront \/ PopBack
    \/ \E x \in Items : PushBack(x)
    \/ \E i \in 0 .. 255 : At(i)

Spec == Init /\ [][Next]_vars
=============================================================================
