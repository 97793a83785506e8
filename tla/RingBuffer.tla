----------------------------- MODULE RingBuffer -----------------------------
(***************************************************************************)
(* The ring buffer both halves of the device are built on: class           *)
(* RingBuffer of the AVR firmware (ring_buffer.h) and struct ring_buf_data *)
(* of the router daemon (ring_buf.h), which is the same code in C.  Called *)
(* from one thread at a time; SerialRx.tla models the one buffer that is   *)
(* shared with an interrupt handler.                                       *)
(*                                                                         *)
(* Pointers into the storage are offsets from m_buff.  A buffer whose      *)
(* malloc failed, or that was freed, has cap = 0 and all pointers null.    *)
(***************************************************************************)
EXTENDS Integers, Sequences

CONSTANTS Capacity,  \* the p_capacity the owner asks for, a uint8_t
          Items,     \* byte values
          Zero       \* the byte 0, returned by reads that find nothing

ASSUME RingAssumption ==
    /\ Capacity \in 1 .. 255
    /\ Zero \in Items

VARIABLES ring,  \* the object
          ret    \* what the last reading operation returned

vars == <<ring, ret>>

Offsets == 0 .. Capacity - 1

RingType == [buff  : [Offsets -> Items], \* *m_buff, garbage after malloc
             cap   : {0, Capacity},      \* m_end - m_buff
             first : Offsets,            \* m_first
             last  : Offsets,            \* m_last, one behind the last item
             size  : 0 .. Capacity]      \* m_size

-----------------------------------------------------------------------------
(* The member functions, on the value of the object.                       *)

empty(r) == r.size = 0
full(r)  == r.cap = r.size

increment(r, p) == IF p + 1 = r.cap THEN 0 ELSE p + 1
decrement(r, p) == (IF p = 0 THEN r.cap ELSE p) - 1

at(r, i) ==
    IF i >= r.size THEN Zero
    ELSE IF i < r.cap - r.first THEN r.buff[r.first + i]
    ELSE r.buff[r.first + (i - r.cap)]

clear(r) == [r EXCEPT !.first = 0, !.last = 0, !.size = 0]

(* Faulty variant: overwriting the oldest item does not move m_first on.   *)
push_back_keeps_first(r, x) ==
    IF full(r) /\ empty(r) THEN r
    ELSE [r EXCEPT !.buff[r.last] = x, !.last = increment(r, @),
                   !.size = IF full(r) THEN @ ELSE @ + 1]

(* Writing to a full buffer overwrites the oldest item; a buffer without   *)
(* storage is both full and empty and ignores the write.                   *)
push_back(r, x) ==
    LET next == increment(r, r.last)
    IN  IF full(r)
        THEN IF empty(r)
             THEN r
             ELSE [r EXCEPT !.buff[r.last] = x, !.last = next, !.first = next]
        ELSE [r EXCEPT !.buff[r.last] = x, !.last = next, !.size = @ + 1]

pop_front(r) ==
    IF empty(r) THEN r
    ELSE [r EXCEPT !.first = increment(r, @), !.size = @ - 1]

pop_back(r) ==
    IF empty(r) THEN r
    ELSE [r EXCEPT !.last = decrement(r, @), !.size = @ - 1]

(* The bytes the two pops hand out.                                        *)
front_item(r) == IF empty(r) THEN Zero ELSE r.buff[r.first]
(* Faulty variant: the slot is read before m_last is moved back.           *)
back_item_early(r) == IF empty(r) THEN Zero ELSE r.buff[r.last]
back_item(r)  == IF empty(r) THEN Zero ELSE r.buff[decrement(r, r.last)]

(* A buffer fresh from malloc (b: whatever the heap held), and none.       *)
allocated(b) == [buff |-> b, cap |-> Capacity, first |-> 0, last |-> 0, size |-> 0]
none(b)      == [buff |-> b, cap |-> 0, first |-> 0, last |-> 0, size |-> 0]

-----------------------------------------------------------------------------
(* The object's life: any sequence of calls.                               *)

Init ==
    /\ ring \in {allocated(b) : b \in [Offsets -> Items]}
                \cup {none(b) : b \in [Offsets -> Items]}
    /\ ret = Zero

(* RingBuffer(p_capacity), rb_init: malloc may fail.                       *)
Construct ==
    /\ \/ \E b \in [Offsets -> Items] : ring' = allocated(b)
       \/ ring' = none(ring.buff)
    /\ UNCHANGED ret

(* ~RingBuffer, rb_free                                                    *)
Free ==
    /\ ring' = none(ring.buff)
    /\ UNCHANGED ret

Clear ==
    /\ ring' = clear(ring)
    /\ UNCHANGED ret

PushBack(x) ==
    /\ ring' = push_back(ring, x)
    /\ UNCHANGED ret

PopFront ==
    /\ ring' = pop_front(ring)
    /\ ret' = front_item(ring)

PopBack ==
    /\ ring' = pop_back(ring)
    /\ ret' = back_item(ring)

At(i) ==
    /\ ret' = at(ring, i)
    /\ UNCHANGED ring

Next ==
    \/ Construct \/ Free \/ Clear \/ PopFront \/ PopBack
    \/ \E x \in Items : PushBack(x)
    \/ \E i \in 0 .. 255 : At(i)

Spec == Init /\ [][Next]_vars

-----------------------------------------------------------------------------
(* The uint8_t size never leaves 0..capacity (so it cannot wrap), and no   *)
(* sequence of calls moves a pointer out of the storage.                   *)
TypeOK ==
    /\ ring \in RingType
    /\ ret \in Items

(* The three bookkeeping fields agree: m_last is m_size items after        *)
(* m_first, going round the end of the storage once at most.               *)
Wrap(n) == IF n >= Capacity THEN n - Capacity ELSE n

PointersAgree ==
    /\ ring.cap = 0 => ring.size = 0 /\ ring.first = 0 /\ ring.last = 0
    /\ ring.last = Wrap(ring.first + ring.size)

(* The contents, oldest first, as operator[] shows them.                   *)
View(r) == [i \in 1 .. r.size |-> at(r, i - 1)]

Deque == INSTANCE BoundedDeque
            WITH q <- View(ring), open <- ring.cap # 0, ret <- ret

(* Every call sequence is one of a bounded deque that forgets its oldest   *)
(* item when it overflows: nothing is lost below the capacity, nothing is  *)
(* read twice, and the garbage malloc returned is never handed out.        *)
ImplementsDeque == Deque!Spec
=============================================================================
