---------------------------- MODULE Bytes_proofs ----------------------------
(***************************************************************************)
(* The bytes on the serial line and the ring buffers they pass through.    *)
(* For every capacity a uint8_t can name, the bookkeeping of RingBuffer is *)
(* always consistent, and the ring buffer implements the bounded deque.    *)
(* For every message and whatever the inputs, the functions of Codings do  *)
(* what they are for.                                                      *)
(***************************************************************************)
EXTENDS RingBuffer, Codings, SequenceTheorems, FiniteSetTheorems, WellFoundedInduction,
        TLAPS

-----------------------------------------------------------------------------
(* Going round the storage.                                                *)

Succ(p) == IF p + 1 = Capacity THEN 0 ELSE p + 1
Pred(p) == (IF p = 0 THEN Capacity ELSE p) - 1

(* Arithmetic of offsets into the storage.                                 *)
LEMMA OffsetFacts ==
    /\ 0 \in Offsets
    /\ Capacity \in Nat \ {0}
    /\ \A p \in Offsets : /\ p \in Int /\ 0 <= p /\ p < Capacity
                          /\ Wrap(p) = p
                          /\ Wrap(p + Capacity) = p
                          /\ Succ(p) \in Offsets
                          /\ Pred(p) \in Offsets
  BY RingAssumption DEF RingAssumption, Offsets, Wrap, Succ, Pred

(* The slot n places after f, one further, and one further from f.         *)
LEMMA WrapFacts ==
    ASSUME NEW f \in Offsets, NEW n \in 0 .. Capacity
    PROVE  /\ Wrap(f + n) \in Offsets
           /\ n < Capacity => Succ(Wrap(f + n)) = Wrap(f + (n + 1))
           /\ n > 0 => Wrap(Succ(f) + (n - 1)) = Wrap(f + n)
           /\ n > 0 => Pred(Wrap(f + n)) = Wrap(f + (n - 1))
  BY RingAssumption DEF RingAssumption, Offsets, Wrap, Succ, Pred

(* Two different places fewer than Capacity apart are two different slots. *)
LEMMA WrapInjective ==
    ASSUME NEW f \in Offsets, NEW m \in 0 .. Capacity - 1, NEW n \in 0 .. Capacity - 1,
           Wrap(f + m) = Wrap(f + n)
    PROVE  m = n
  BY RingAssumption DEF RingAssumption, Offsets, Wrap

-----------------------------------------------------------------------------
(* The invariant, on the object alone.                                     *)

RingOK(r) ==
    /\ r \in RingType
    /\ r.cap = 0 => r.size = 0 /\ r.first = 0 /\ r.last = 0
    /\ r.last = Wrap(r.first + r.size)

IInv == RingOK(ring) /\ ret \in Items

(* What the invariant says of each member.                                 *)
LEMMA Fields ==
    ASSUME NEW r, RingOK(r)
    PROVE  /\ r.buff \in [Offsets -> Items]
           /\ r.cap \in {0, Capacity}
           /\ r.first \in Offsets
           /\ r.last \in Offsets
           /\ r.size \in 0 .. Capacity
           /\ r.size # 0 => r.cap = Capacity
           /\ r.last = Wrap(r.first + r.size)
  BY DEF RingOK, RingType

(* An object put together from a first offset and a size is well formed.   *)
LEMMA Rebuild ==
    ASSUME NEW b \in [Offsets -> Items], NEW f \in Offsets, NEW n \in 0 .. Capacity
    PROVE  RingOK([buff |-> b, cap |-> Capacity, first |-> f,
                   last |-> Wrap(f + n), size |-> n])
<1>1. Wrap(f + n) \in Offsets /\ Capacity # 0
  BY WrapFacts, OffsetFacts
<1> QED
  BY <1>1 DEF RingOK, RingType

(* What the mutators do to an allocated object.                            *)
LEMMA PushBackIs ==
    ASSUME NEW r, RingOK(r), r.cap = Capacity, NEW x \in Items
    PROVE  push_back(r, x) =
             [buff |-> [r.buff EXCEPT ![r.last] = x], cap |-> Capacity,
              first |-> IF r.size = Capacity THEN Succ(r.last) ELSE r.first,
              last  |-> Succ(r.last),
              size  |-> IF r.size = Capacity THEN r.size ELSE r.size + 1]
<1>1. Capacity # 0 /\ increment(r, r.last) = Succ(r.last)
  BY OffsetFacts DEF increment, Succ
<1> DEFINE next == increment(r, r.last)
<1>2. CASE r.size = Capacity
  <2>1. push_back(r, x) = [r EXCEPT !.buff[r.last] = x, !.last = next, !.first = next]
    BY <1>1, <1>2 DEF push_back, full, empty
  <2> QED
    BY <2>1, <1>1, <1>2 DEF RingOK, RingType
<1>3. CASE r.size # Capacity
  <2>1. push_back(r, x) = [r EXCEPT !.buff[r.last] = x, !.last = next, !.size = @ + 1]
    BY <1>3 DEF push_back, full
  <2> QED
    BY <2>1, <1>1, <1>3 DEF RingOK, RingType
<1> QED
  BY <1>2, <1>3

(* pop_front of a buffer that holds something, as a record.                *)
LEMMA PopFrontIs ==
    ASSUME NEW r, RingOK(r), r.size # 0
    PROVE  pop_front(r) = [buff |-> r.buff, cap |-> Capacity, first |-> Succ(r.first),
                           last |-> r.last, size |-> r.size - 1]
<1>1. r.cap = Capacity /\ increment(r, r.first) = Succ(r.first)
  BY Fields DEF increment, Succ
<1> QED
  BY <1>1 DEF pop_front, empty, RingOK, RingType

(* pop_back of a buffer that holds something, as a record.                 *)
LEMMA PopBackIs ==
    ASSUME NEW r, RingOK(r), r.size # 0
    PROVE  /\ pop_back(r) = [buff |-> r.buff, cap |-> Capacity, first |-> r.first,
                             last |-> Pred(r.last), size |-> r.size - 1]
           /\ back_item(r) = r.buff[Pred(r.last)]
<1>1. r.cap = Capacity /\ decrement(r, r.last) = Pred(r.last)
  BY Fields DEF decrement, Pred
<1> QED
  BY <1>1 DEF pop_back, back_item, empty, RingOK, RingType

-----------------------------------------------------------------------------
(* push_back keeps the pointers and the size of the object in agreement.   *)
LEMMA PushBackOK ==
    ASSUME NEW r, RingOK(r), NEW x \in Items
    PROVE  RingOK(push_back(r, x))
<1>1. CASE r.cap = 0
  BY <1>1 DEF RingOK, push_back, full, empty
<1>2. CASE r.cap = Capacity
  <2> DEFINE b == [r.buff EXCEPT ![r.last] = x]
  <2>1. b \in [Offsets -> Items] /\ r.first \in Offsets /\ r.last \in Offsets
    BY Fields
  <2>2. CASE r.size = Capacity
    <3>1. push_back(r, x) = [buff |-> b, cap |-> Capacity, first |-> Succ(r.last),
                             last |-> Succ(r.last), size |-> Capacity]
      BY <1>2, <2>2, PushBackIs
    <3>2. Succ(r.last) \in Offsets /\ Wrap(Succ(r.last) + Capacity) = Succ(r.last)
      BY <2>1, OffsetFacts
    <3>3. Capacity \in 0 .. Capacity
      BY OffsetFacts
    <3> HIDE DEF b
    <3> QED
      BY <2>1, <3>1, <3>2, <3>3, Rebuild
  <2>3. CASE r.size # Capacity
    <3>1. push_back(r, x) = [buff |-> b, cap |-> Capacity, first |-> r.first,
                             last |-> Succ(r.last), size |-> r.size + 1]
      BY <1>2, <2>3, PushBackIs
    <3>2. r.size \in 0 .. Capacity /\ r.size < Capacity /\ r.size + 1 \in 0 .. Capacity
      BY <2>3, Fields, OffsetFacts
    <3>3. Succ(r.last) = Wrap(r.first + (r.size + 1))
      BY <2>1, <3>2, Fields, WrapFacts
    <3> HIDE DEF b
    <3> QED
      BY <2>1, <3>1, <3>2, <3>3, Rebuild
  <2> QED
    BY <2>2, <2>3
<1> QED
  BY <1>1, <1>2, Fields

(* So do the two pops.                                                     *)
LEMMA PopFrontOK ==
    ASSUME NEW r, RingOK(r)
    PROVE  RingOK(pop_front(r))
<1>1. CASE r.size = 0
  BY <1>1 DEF pop_front, empty
<1>2. CASE r.size # 0
  <2>1. /\ r.buff \in [Offsets -> Items] /\ Succ(r.first) \in Offsets
        /\ r.size \in 0 .. Capacity /\ r.size - 1 \in 0 .. Capacity /\ r.size > 0
    BY <1>2, Fields, OffsetFacts
  <2>2. r.last = Wrap(Succ(r.first) + (r.size - 1))
    BY <2>1, Fields, WrapFacts
  <2> QED
    BY <1>2, <2>1, <2>2, PopFrontIs, Rebuild
<1> QED
  BY <1>1, <1>2

(* pop_back keeps the object well formed.                                  *)
LEMMA PopBackOK ==
    ASSUME NEW r, RingOK(r)
    PROVE  RingOK(pop_back(r))
<1>1. CASE r.size = 0
  BY <1>1 DEF pop_back, empty
<1>2. CASE r.size # 0
  <2>1. /\ r.buff \in [Offsets -> Items] /\ r.first \in Offsets
        /\ r.size \in 0 .. Capacity /\ r.size - 1 \in 0 .. Capacity /\ r.size > 0
    BY <1>2, Fields, OffsetFacts
  <2>2. Pred(r.last) = Wrap(r.first + (r.size - 1))
    BY <2>1, Fields, WrapFacts
  <2> QED
    BY <1>2, <2>1, <2>2, PopBackIs, Rebuild
<1> QED
  BY <1>1, <1>2

(* operator[] returns the item i places behind the oldest one.             *)
LEMMA AtIs ==
    ASSUME NEW r, RingOK(r), NEW i \in 0 .. r.size - 1
    PROVE  at(r, i) = r.buff[Wrap(r.first + i)] /\ at(r, i) \in Items
<1>1. /\ r.buff \in [Offsets -> Items] /\ r.first \in Offsets
      /\ r.size \in 0 .. Capacity /\ i \in 0 .. Capacity /\ i < r.size
      /\ Capacity \in Nat \ {0} /\ r.first \in Int /\ r.cap = Capacity
  BY Fields, OffsetFacts
<1>2. Wrap(r.first + i) = IF i < r.cap - r.first THEN r.first + i
                                                 ELSE r.first + (i - r.cap)
  BY <1>1 DEF Wrap
<1>3. at(r, i) = r.buff[Wrap(r.first + i)]
  BY <1>1, <1>2 DEF at
<1> QED
  BY <1>1, <1>3, WrapFacts

(* Every read hands out a byte: a stored one or Zero.                      *)
LEMMA ReadsItems ==
    ASSUME NEW r, RingOK(r)
    PROVE  /\ front_item(r) \in Items
           /\ back_item(r) \in Items
           /\ \A i \in Nat : at(r, i) \in Items
<1>1. Zero \in Items
  BY RingAssumption DEF RingAssumption
<1>2. front_item(r) \in Items
  BY <1>1, Fields DEF front_item
<1>3. back_item(r) \in Items
  BY <1>1, Fields, PopBackIs, OffsetFacts DEF back_item, empty
<1>4. ASSUME NEW i \in Nat PROVE at(r, i) \in Items
  <2>1. CASE i >= r.size
    BY <1>1, <2>1 DEF at
  <2>2. CASE ~(i >= r.size)
    <3>1. i \in 0 .. r.size - 1
      BY <2>2, Fields, OffsetFacts
    <3> QED
      BY <3>1, AtIs
  <2> QED
    BY <2>1, <2>2
<1> QED
  BY <1>2, <1>3, <1>4

-----------------------------------------------------------------------------
(* Construction, failed construction and destruction leave an empty        *)
(* buffer.                                                                 *)
LEMMA FreshOK ==
    ASSUME NEW b \in [Offsets -> Items]
    PROVE  /\ RingOK(allocated(b)) /\ allocated(b).size = 0
           /\ RingOK(none(b)) /\ none(b).size = 0 /\ none(b).cap = 0
<1>1. Wrap(0 + 0) = 0 /\ 0 \in Offsets /\ 0 \in 0 .. Capacity
  BY OffsetFacts
<1> QED
  BY <1>1 DEF RingOK, RingType, allocated, none

(* clear keeps the object well formed.                                     *)
LEMMA ClearOK ==
    ASSUME NEW r, RingOK(r)
    PROVE  RingOK(clear(r))
<1>1. Wrap(0 + 0) = 0 /\ 0 \in Offsets /\ 0 \in 0 .. Capacity
  BY OffsetFacts
<1> QED
  BY <1>1 DEF RingOK, RingType, clear

(* The invariant holds of a constructed buffer.                            *)
LEMMA InitOK == Init => IInv
  BY RingAssumption, FreshOK DEF RingAssumption, Init, IInv

(* Every operation preserves the invariant.                                *)
LEMMA NextOK == IInv /\ [Next]_vars => IInv'
<1> SUFFICES ASSUME IInv, [Next]_vars PROVE IInv'
  OBVIOUS
<1>0. RingOK(ring) /\ ret \in Items /\ ring.buff \in [Offsets -> Items]
  BY DEF IInv, RingOK, RingType
<1>1. CASE Construct
  BY <1>0, <1>1, FreshOK DEF Construct, IInv
<1>2. CASE Free
  BY <1>0, <1>2, FreshOK DEF Free, IInv
<1>3. CASE Clear
  BY <1>0, <1>3, ClearOK DEF Clear, IInv
<1>4. CASE PopFront
  BY <1>0, <1>4, PopFrontOK, ReadsItems DEF PopFront, IInv
<1>5. CASE PopBack
  BY <1>0, <1>5, PopBackOK, ReadsItems DEF PopBack, IInv
<1>6. ASSUME NEW x \in Items, PushBack(x) PROVE IInv'
  BY <1>0, <1>6, PushBackOK DEF PushBack, IInv
<1>7. ASSUME NEW i \in 0 .. 255, At(i) PROVE IInv'
  <2>1. at(ring, i) \in Items
    BY <1>0, ReadsItems
  <2> QED
    BY <1>0, <1>7, <2>1 DEF At, IInv
<1>8. CASE UNCHANGED vars
  BY <1>0, <1>8 DEF vars, IInv
<1> QED
  BY <1>1, <1>2, <1>3, <1>4, <1>5, <1>6, <1>7, <1>8 DEF Next

(* The object is well formed after every sequence of calls.                *)
THEOREM Invariant == Spec => []IInv
  BY InitOK, NextOK, PTL DEF Spec

(* No sequence of calls wraps the uint8_t size or moves a pointer out of   *)
(* the storage, whatever the capacity.                                     *)
THEOREM TypeCorrect == Spec => []TypeOK
<1>1. IInv => TypeOK
  BY DEF IInv, RingOK, TypeOK
<1> QED
  BY <1>1, Invariant, PTL

(* m_last is always m_size items after m_first.                            *)
THEOREM PointersAlwaysAgree == Spec => []PointersAgree
<1>1. IInv => PointersAgree
  BY DEF IInv, RingOK, PointersAgree
<1> QED
  BY <1>1, Invariant, PTL
-----------------------------------------------------------------------------
(* The refinement: each call does to the contents what the deque does.     *)

Slot(r, i) == r.buff[Wrap(r.first + (i - 1))]

(* The abstract contents, item by item, are the slots from m_first on.     *)
LEMMA ViewIs ==
    ASSUME NEW r, RingOK(r)
    PROVE  /\ View(r) \in Seq(Items)
           /\ Len(View(r)) = r.size
           /\ \A i \in 1 .. r.size : View(r)[i] = Slot(r, i)
<1>1. r.size \in Nat
  BY Fields, OffsetFacts
<1>2. ASSUME NEW i \in 1 .. r.size
      PROVE  at(r, i - 1) \in Items /\ at(r, i - 1) = Slot(r, i)
  <2>1. i - 1 \in 0 .. r.size - 1
    BY <1>1
  <2> QED
    BY <2>1, AtIs DEF Slot
<1>3. View(r) \in [1 .. r.size -> Items]
  BY <1>2 DEF View
<1> QED
  BY <1>1, <1>2, <1>3 DEF View

(* An object without items, allocated or not, shows the empty deque.       *)
(* The contents are empty exactly when m_size is 0.                        *)
LEMMA ViewEmpty ==
    ASSUME NEW r, RingOK(r)
    PROVE  View(r) = << >> <=> r.size = 0
  BY ViewIs, EmptySeq

(* push_back appends, and forgets the oldest item of a full buffer.        *)
LEMMA ViewPushBack ==
    ASSUME NEW r, RingOK(r), r.cap = Capacity, NEW x \in Items
    PROVE  View(push_back(r, x)) = Deque!PushOver(Capacity, View(r), x)
<1> DEFINE t == push_back(r, x)
           last == r.last
<1>0. /\ r.first \in Offsets /\ r.last \in Offsets /\ r.buff \in [Offsets -> Items]
      /\ r.size \in 0 .. Capacity /\ r.last = Wrap(r.first + r.size)
      /\ Capacity \in Nat \ {0}
  BY Fields, OffsetFacts
<1>1. /\ View(r) \in Seq(Items) /\ Len(View(r)) = r.size
      /\ \A i \in 1 .. r.size : View(r)[i] = Slot(r, i)
  BY ViewIs
<1>2. RingOK(t)
  BY PushBackOK
<1>3. /\ View(t) \in Seq(Items) /\ Len(View(t)) = t.size
      /\ \A i \in 1 .. t.size : View(t)[i] = Slot(t, i)
  BY <1>2, ViewIs
<1>4. CASE r.size # Capacity
  <2>1. /\ t.size = r.size + 1 /\ t.first = r.first
        /\ t.buff = [r.buff EXCEPT ![r.last] = x]
    BY <1>4, PushBackIs
  <2> DEFINE a == Append(View(r), x)
  <2>2. /\ a \in Seq(Items) /\ Len(a) = r.size + 1 /\ a[r.size + 1] = x
        /\ \A i \in 1 .. r.size : a[i] = View(r)[i]
    BY <1>1, <1>0
  <2> HIDE DEF t, a
  <2>3. ASSUME NEW i \in 1 .. r.size PROVE View(t)[i] = a[i]
    <3>1. i - 1 \in 0 .. Capacity - 1 /\ r.size \in 0 .. Capacity - 1 /\ i - 1 # r.size
      BY <1>0, <1>4
    <3>2. Wrap(r.first + (i - 1)) # r.last
      BY <1>0, <3>1, WrapInjective
    <3>3. i - 1 \in 0 .. Capacity
      BY <3>1, <1>0
    <3>4. Wrap(r.first + (i - 1)) \in Offsets
      BY <1>0, <3>3, WrapFacts
    <3>5. Slot(t, i) = Slot(r, i)
      BY <2>1, <1>0, <3>2, <3>4 DEF Slot
    <3>6. i \in 1 .. t.size
      BY <2>1, <1>0
    <3> QED
      BY <1>1, <1>3, <2>2, <3>5, <3>6
  <2>4. View(t)[r.size + 1] = x
    <3>1. r.size + 1 \in 1 .. t.size /\ (r.size + 1) - 1 = r.size
      BY <2>1, <1>0
    <3>2. Slot(t, r.size + 1) = x
      BY <2>1, <1>0, <3>1 DEF Slot
    <3> QED
      BY <1>3, <3>1, <3>2
  <2>5. ASSUME NEW i \in 1 .. Len(a) PROVE View(t)[i] = a[i]
    <3>1. i \in 1 .. r.size \/ i = r.size + 1
      BY <2>2, <1>0
    <3> QED
      BY <3>1, <2>2, <2>3, <2>4
  <2>6. View(t) = a
    BY <1>3, <2>1, <2>2, <2>5, SeqEqual
  <2>7. Len(View(r)) < Capacity
    BY <1>0, <1>1, <1>4
  <2> QED
    BY <2>6, <2>7 DEF t, a, Deque!PushOver
<1>5. CASE r.size = Capacity
  <2>0. r.last = r.first
    BY <1>0, <1>5, OffsetFacts
  <2>1. /\ t.size = r.size /\ t.first = Succ(r.first)
        /\ t.buff = [r.buff EXCEPT ![r.first] = x]
    BY <1>5, <2>0, PushBackIs
  <2> DEFINE a == Append(Tail(View(r)), x)
  <2>2. View(r) # << >>
    BY <1>0, <1>5, ViewEmpty
  <2>3. /\ Tail(View(r)) \in Seq(Items) /\ Len(Tail(View(r))) = r.size - 1
        /\ \A i \in 1 .. r.size - 1 : Tail(View(r))[i] = View(r)[i + 1]
    BY <1>1, <2>2, HeadTailProperties
  <2>4. /\ a \in Seq(Items) /\ Len(a) = r.size /\ a[r.size] = x
        /\ \A i \in 1 .. r.size - 1 : a[i] = View(r)[i + 1]
    BY <1>0, <2>3
  <2> HIDE DEF t, a
  <2>5. ASSUME NEW i \in 1 .. r.size
        PROVE  Wrap(t.first + (i - 1)) = Wrap(r.first + i)
    <3>1. i \in 0 .. Capacity /\ i > 0
      BY <1>0
    <3> QED
      BY <1>0, <2>1, <3>1, WrapFacts
  <2>6. ASSUME NEW i \in 1 .. r.size - 1 PROVE View(t)[i] = a[i]
    <3>1. i \in 1 .. r.size /\ i + 1 \in 1 .. r.size /\ (i + 1) - 1 = i
      BY <1>0
    <3>2. i \in 0 .. Capacity - 1 /\ 0 \in 0 .. Capacity - 1 /\ i # 0
          /\ i \in 0 .. Capacity /\ Wrap(r.first + 0) = r.first
      BY <1>0, OffsetFacts
    <3>3. Wrap(r.first + i) # r.first /\ Wrap(r.first + i) \in Offsets
      BY <1>0, <3>2, WrapInjective, WrapFacts
    <3>4. Slot(t, i) = Slot(r, i + 1)
      BY <1>0, <2>1, <2>5, <3>1, <3>3 DEF Slot
    <3> QED
      BY <1>1, <1>3, <2>1, <2>4, <3>1, <3>4
  <2>7. View(t)[r.size] = x
    <3>1. r.size \in 1 .. r.size /\ Wrap(r.first + r.size) = r.first
      BY <1>0, <1>5, <2>0
    <3>2. Slot(t, r.size) = x
      BY <1>0, <2>1, <2>5, <3>1 DEF Slot
    <3> QED
      BY <1>3, <2>1, <3>1, <3>2
  <2>8. ASSUME NEW i \in 1 .. Len(a) PROVE View(t)[i] = a[i]
    <3>1. i \in 1 .. r.size - 1 \/ i = r.size
      BY <2>4, <1>0
    <3> QED
      BY <3>1, <2>4, <2>6, <2>7
  <2>9. View(t) = a
    BY <1>3, <2>1, <2>4, <2>8, SeqEqual
  <2>10. ~(Len(View(r)) < Capacity)
    BY <1>0, <1>1, <1>5
  <2> QED
    BY <2>9, <2>10 DEF t, a, Deque!PushOver
<1> QED
  BY <1>4, <1>5

(* pop_front takes the head off and returns it.                            *)
LEMMA ViewPopFront ==
    ASSUME NEW r, RingOK(r), r.size # 0
    PROVE  /\ View(pop_front(r)) = Tail(View(r))
           /\ front_item(r) = Head(View(r))
<1> DEFINE t == pop_front(r)
<1>0. /\ r.first \in Offsets /\ r.size \in 1 .. Capacity
      /\ Capacity \in Nat \ {0} /\ Wrap(r.first + 0) = r.first
      /\ View(r) # << >>
  <2>1. r.first \in Offsets /\ r.size \in 1 .. Capacity /\ Capacity \in Nat \ {0}
    BY Fields, OffsetFacts
  <2>2. r.first + 0 = r.first
    BY <2>1, OffsetFacts
  <2> QED
    BY <2>1, <2>2, OffsetFacts, ViewEmpty
<1>1. /\ View(r) \in Seq(Items) /\ Len(View(r)) = r.size
      /\ \A i \in 1 .. r.size : View(r)[i] = Slot(r, i)
  BY ViewIs
<1>2. /\ View(t) \in Seq(Items) /\ Len(View(t)) = t.size
      /\ \A i \in 1 .. t.size : View(t)[i] = Slot(t, i)
  BY PopFrontOK, ViewIs
<1>3. t.size = r.size - 1 /\ t.first = Succ(r.first) /\ t.buff = r.buff
  BY PopFrontIs
<1>4. /\ Tail(View(r)) \in Seq(Items) /\ Len(Tail(View(r))) = r.size - 1
      /\ \A i \in 1 .. r.size - 1 : Tail(View(r))[i] = View(r)[i + 1]
  BY <1>0, <1>1, HeadTailProperties
<1> HIDE DEF t
<1>5. ASSUME NEW i \in 1 .. Len(View(t)) PROVE View(t)[i] = Tail(View(r))[i]
  <2>1. /\ i \in 1 .. t.size /\ i \in 1 .. r.size - 1 /\ i + 1 \in 1 .. r.size
        /\ (i + 1) - 1 = i /\ i \in 0 .. Capacity /\ i > 0
    BY <1>0, <1>2, <1>3
  <2>2. Wrap(t.first + (i - 1)) = Wrap(r.first + i)
    BY <1>0, <1>3, <2>1, WrapFacts
  <2>3. Slot(t, i) = Slot(r, i + 1)
    BY <1>3, <2>1, <2>2 DEF Slot
  <2> QED
    BY <1>1, <1>2, <1>4, <2>1, <2>3
<1>6. View(t) = Tail(View(r))
  BY <1>2, <1>3, <1>4, <1>5, SeqEqual
<1>7. front_item(r) = Head(View(r))
  <2>1. 1 \in 1 .. r.size /\ 1 - 1 = 0
    BY <1>0
  <2>2. Head(View(r)) = r.buff[r.first]
    BY <1>0, <1>1, <2>1 DEF Slot
  <2> QED
    BY <2>2 DEF front_item, empty
<1> QED
  BY <1>6, <1>7 DEF t

(* pop_back takes the last item off and returns it.                        *)
LEMMA ViewPopBack ==
    ASSUME NEW r, RingOK(r), r.size # 0
    PROVE  /\ View(pop_back(r)) = SubSeq(View(r), 1, Len(View(r)) - 1)
           /\ back_item(r) = View(r)[Len(View(r))]
<1> DEFINE t == pop_back(r)
           s == SubSeq(View(r), 1, Len(View(r)) - 1)
<1>0. r.first \in Offsets /\ r.size \in 1 .. Capacity /\ Capacity \in Nat \ {0}
  BY Fields, OffsetFacts
<1>1. /\ View(r) \in Seq(Items) /\ Len(View(r)) = r.size
      /\ \A i \in 1 .. r.size : View(r)[i] = Slot(r, i)
  BY ViewIs
<1>2. /\ View(t) \in Seq(Items) /\ Len(View(t)) = t.size
      /\ \A i \in 1 .. t.size : View(t)[i] = Slot(t, i)
  BY PopBackOK, ViewIs
<1>3. t.size = r.size - 1 /\ t.first = r.first /\ t.buff = r.buff
  BY PopBackIs
<1>4. s \in Seq(Items) /\ Len(s) = r.size - 1 /\ \A i \in 1 .. r.size - 1 : s[i] = View(r)[i]
  <2>1. \A i \in 1 .. r.size - 1 : View(r)[i] \in Items
    BY <1>0, <1>1, ElementOfSeq
  <2> QED
    BY <1>0, <1>1, <2>1, SubSeqProperties
<1> HIDE DEF t, s
<1>5. ASSUME NEW i \in 1 .. Len(View(t)) PROVE View(t)[i] = s[i]
  <2>1. i \in 1 .. t.size /\ i \in 1 .. r.size - 1 /\ i \in 1 .. r.size
    BY <1>0, <1>2, <1>3
  <2> QED
    BY <1>1, <1>2, <1>3, <1>4, <2>1 DEF Slot
<1>6. View(t) = s
  BY <1>2, <1>3, <1>4, <1>5, SeqEqual
<1>7. back_item(r) = View(r)[Len(View(r))]
  <2>1. r.size \in 1 .. r.size /\ r.size \in 0 .. Capacity /\ r.size > 0
    BY <1>0
  <2>2. Pred(r.last) = Wrap(r.first + (r.size - 1))
    BY <1>0, <2>1, Fields, WrapFacts
  <2> QED
    BY <1>1, <2>1, <2>2, PopBackIs DEF Slot
<1> QED
  BY <1>6, <1>7 DEF t, s

(* A constructed buffer is an empty deque, open or closed.                 *)
LEMMA RefinesInit == Init => Deque!Init
<1> SUFFICES ASSUME Init PROVE Deque!Init
  OBVIOUS
<1>1. PICK b \in [Offsets -> Items] : ring = allocated(b) \/ ring = none(b)
  BY DEF Init
<1>2. RingOK(ring) /\ ring.size = 0
  BY <1>1, FreshOK
<1> QED
  BY <1>2, ViewEmpty DEF Init, Deque!Init

(* Every operation is one of the deque, or changes nothing it shows.       *)
LEMMA RefinesNext == IInv /\ [Next]_vars => [Deque!Next]_(Deque!vars)
<1> SUFFICES ASSUME IInv, [Next]_vars PROVE [Deque!Next]_(Deque!vars)
  OBVIOUS
<1> USE DEF Deque!Next
<1>0. RingOK(ring) /\ ring.buff \in [Offsets -> Items] /\ ring.cap \in {0, Capacity}
      /\ ring.size \in Nat /\ Capacity # 0
  BY Fields, OffsetFacts DEF IInv
<1>1. CASE Construct
  <2>1. RingOK(ring') /\ ring'.size = 0
    BY <1>0, <1>1, FreshOK DEF Construct
  <2>2. View(ring') = << >>
    BY <2>1, ViewEmpty
  <2> QED
    BY <1>1, <2>2 DEF Construct, Deque!Open
<1>2. CASE Free
  <2>1. RingOK(ring') /\ ring'.size = 0 /\ ring'.cap = 0
    BY <1>0, <1>2, FreshOK DEF Free
  <2>2. View(ring') = << >>
    BY <2>1, ViewEmpty
  <2> QED
    BY <1>2, <2>1, <2>2 DEF Free, Deque!Close
<1>3. CASE Clear
  <2>1. RingOK(ring') /\ ring'.size = 0 /\ ring'.cap = ring.cap
    BY <1>0, <1>3, ClearOK DEF Clear, clear, RingOK, RingType
  <2>2. View(ring') = << >>
    BY <2>1, ViewEmpty
  <2> QED
    BY <1>3, <2>1, <2>2 DEF Clear, Deque!Clear
<1>4. CASE PopFront
  <2>1. CASE ring.size = 0
    <3>1. View(ring) = << >>
      BY <1>0, <2>1, ViewEmpty
    <3> QED
      BY <1>4, <2>1, <3>1 DEF PopFront, pop_front, front_item, empty, Deque!PopFront
  <2>2. CASE ring.size # 0
    <3>1. View(ring) # << >>
      BY <1>0, <2>2, ViewEmpty
    <3>2. ring'.cap = ring.cap
      BY <1>0, <1>4, <2>2, Fields, PopFrontIs DEF PopFront
    <3> QED
      BY <1>0, <1>4, <2>2, <3>1, <3>2, ViewPopFront DEF PopFront, Deque!PopFront
  <2> QED
    BY <2>1, <2>2
<1>5. CASE PopBack
  <2>1. CASE ring.size = 0
    <3>1. View(ring) = << >>
      BY <1>0, <2>1, ViewEmpty
    <3> QED
      BY <1>5, <2>1, <3>1 DEF PopBack, pop_back, back_item, empty, Deque!PopBack
  <2>2. CASE ring.size # 0
    <3>1. View(ring) # << >>
      BY <1>0, <2>2, ViewEmpty
    <3>2. ring'.cap = ring.cap
      BY <1>0, <1>5, <2>2, Fields, PopBackIs DEF PopBack
    <3> QED
      BY <1>0, <1>5, <2>2, <3>1, <3>2, ViewPopBack DEF PopBack, Deque!PopBack
  <2> QED
    BY <2>1, <2>2
<1>6. ASSUME NEW x \in Items, PushBack(x) PROVE [Deque!Next]_(Deque!vars)
  <2>1. CASE ring.cap = 0
    <3>1. ring' = ring
      BY <1>0, <1>6, <2>1 DEF PushBack, push_back, full, empty, RingOK
    <3> QED
      BY <1>6, <3>1 DEF PushBack, Deque!vars
  <2>2. CASE ring.cap = Capacity
    <3>1. View(ring') = Deque!PushOver(Capacity, View(ring), x)
      BY <1>0, <1>6, <2>2, ViewPushBack DEF PushBack
    <3>2. ring'.cap = ring.cap
      BY <1>0, <1>6, <2>2, PushBackIs DEF PushBack
    <3>3. Deque!PushBack(x)
      BY <1>0, <1>6, <2>2, <3>1, <3>2 DEF PushBack, Deque!PushBack
    <3> QED
      BY <3>3
  <2> QED
    BY <1>0, <2>1, <2>2
<1>7. ASSUME NEW i \in 0 .. 255, At(i) PROVE [Deque!Next]_(Deque!vars)
  <2>1. Len(View(ring)) = ring.size
    BY <1>0, ViewIs
  <2>2. CASE i < ring.size
    <3>1. i + 1 \in 1 .. ring.size /\ (i + 1) - 1 = i /\ i \in 0 .. ring.size - 1
      BY <1>0, <2>2
    <3>2. View(ring)[i + 1] = at(ring, i)
      BY <3>1 DEF View
    <3>3. Deque!At(i)
      BY <1>7, <2>1, <2>2, <3>2 DEF At, Deque!At
    <3> QED
      BY <3>3
  <2>3. CASE ~(i < ring.size)
    <3>1. at(ring, i) = Zero
      BY <1>0, <2>3 DEF at
    <3>2. Deque!At(i)
      BY <1>7, <2>1, <2>3, <3>1 DEF At, Deque!At
    <3> QED
      BY <3>2
  <2> QED
    BY <2>2, <2>3
<1>8. CASE UNCHANGED vars
  BY <1>8 DEF vars, Deque!vars
<1> QED
  BY <1>1, <1>2, <1>3, <1>4, <1>5, <1>6, <1>7, <1>8 DEF Next

(* Whatever the capacity, every sequence of calls is one of a bounded      *)
(* deque that forgets its oldest item when it overflows.                   *)
THEOREM RingImplementsDeque == Spec => ImplementsDeque
  BY RefinesInit, RefinesNext, Invariant, PTL DEF Spec, ImplementsDeque, Deque!Spec

-----------------------------------------------------------------------------
(* The register of the CRC as a set of bits, and one step of it.           *)

Word == SUBSET (0 .. 15)
Xor(a, b) == M!Xor(a, b)
Step(c) == M!CrcStep(c)
Step8(c) == Step(Step(Step(Step(Step(Step(Step(Step(c))))))))

(* Elements of an exclusive or, its type, and when it is empty.            *)
LEMMA XorFacts ==
    /\ \A a, b, i : i \in Xor(a, b) <=> (i \in a <=> i \notin b)
    /\ \A a, b \in Word : Xor(a, b) \in Word
    /\ \A a, b : Xor(a, b) = {} <=> a = b
<1>1. \A a, b, i : i \in Xor(a, b) <=> (i \in a <=> i \notin b)
  BY Zenon DEF Xor, M!Xor
<1>2. \A a, b \in Word : Xor(a, b) \in Word
  BY Zenon DEF Xor, M!Xor, Word
<1>3. ASSUME NEW a, NEW b
      PROVE  Xor(a, b) = {} <=> a = b
  <2>1. a = b => Xor(a, b) = {}
    BY SMT DEF Xor, M!Xor
  <2>2. ASSUME Xor(a, b) = {} PROVE a = b
    <3>1. \A i : i \in a <=> i \in b
      BY <1>1, <2>2, Zenon
    <3> QED
      BY <3>1, SMT
  <2> QED
    BY <2>1, <2>2
<1> QED
  BY <1>1, <1>2, <1>3, Zenon

(* One step of the register, bit by bit.                                   *)
LEMMA StepBits ==
    ASSUME NEW c \in Word
    PROVE  /\ Step(c) \in Word
           /\ \A i \in 0 .. 15 :
                 i \in Step(c) <=> (i + 1 \in c <=> ~ (0 \in c /\ i \in M!Polynomial))
<1>1. M!ShiftRight(c) \in Word
  BY DEF M!ShiftRight, Word
<1>2. \A i \in 0 .. 15 : i \in M!ShiftRight(c) <=> i + 1 \in c
  BY DEF M!ShiftRight, Word
<1>3. M!Polynomial \in Word
  BY DEF M!Polynomial, Word
<1>4. CASE 0 \in c
  <2>1. Step(c) = Xor(M!ShiftRight(c), M!Polynomial)
    BY <1>4, Zenon DEF Step, M!CrcStep, Xor
  <2>2. Step(c) \in Word
    <3>1. Xor(M!ShiftRight(c), M!Polynomial) \in Word
      <4>1. \A a, b \in Word : Xor(a, b) \in Word
        BY XorFacts
      <4> QED
        BY <1>1, <1>3, <4>1, Zenon
    <3> QED
      BY <2>1, <3>1, Zenon
  <2>3. ASSUME NEW i \in 0 .. 15
        PROVE  i \in Step(c) <=> (i + 1 \in c <=> i \notin M!Polynomial)
    <3>1. i \in Xor(M!ShiftRight(c), M!Polynomial)
            <=> (i \in M!ShiftRight(c) <=> i \notin M!Polynomial)
      BY XorFacts, Zenon
    <3> QED
      BY <1>2, <2>1, <3>1, Zenon
  <2> QED
    BY <1>4, <2>2, <2>3, Zenon
<1>5. CASE 0 \notin c
  <2>1. Step(c) = M!ShiftRight(c)
    BY <1>5, Zenon DEF Step, M!CrcStep
  <2> QED
    BY <1>1, <1>2, <1>5, <2>1, Zenon
<1> QED
  BY <1>4, <1>5

(* Registers with the same bits are the same.                              *)
LEMMA SameBits ==
    ASSUME NEW a \in Word, NEW b \in Word, \A i \in 0 .. 15 : i \in a <=> i \in b
    PROVE  a = b
  BY DEF Word

(* A step is linear and loses nothing.                                     *)
LEMMA StepXor ==
    ASSUME NEW a \in Word, NEW b \in Word
    PROVE  Step(Xor(a, b)) = Xor(Step(a), Step(b))
<1>1. /\ Xor(a, b) \in Word /\ Step(a) \in Word /\ Step(b) \in Word
      /\ Step(Xor(a, b)) \in Word /\ Xor(Step(a), Step(b)) \in Word
  BY XorFacts, StepBits, Zenon
<1>2. ASSUME NEW i \in 0 .. 15
      PROVE  i \in Step(Xor(a, b)) <=> i \in Xor(Step(a), Step(b))
  <2>1. i \in Step(Xor(a, b)) <=>
          (i + 1 \in Xor(a, b) <=> ~ (0 \in Xor(a, b) /\ i \in M!Polynomial))
    BY <1>1, StepBits, Zenon
  <2>2. /\ i \in Step(a) <=> (i + 1 \in a <=> ~ (0 \in a /\ i \in M!Polynomial))
        /\ i \in Step(b) <=> (i + 1 \in b <=> ~ (0 \in b /\ i \in M!Polynomial))
    BY StepBits, Zenon
  <2>3. i \in Xor(Step(a), Step(b)) <=> (i \in Step(a) <=> i \notin Step(b))
    BY SMT DEF Xor, M!Xor
  <2>4. i + 1 \in Xor(a, b) <=> (i + 1 \in a <=> i + 1 \notin b)
    BY SMT DEF Xor, M!Xor
  <2>5. 0 \in Xor(a, b) <=> (0 \in a <=> 0 \notin b)
    BY XorFacts, Zenon
  <2> QED
    BY <2>1, <2>2, <2>3, <2>4, <2>5, Zenon
<1> QED
  BY <1>1, <1>2, SameBits, Zenon

(* Two registers that one step makes equal were equal.                     *)
LEMMA StepInjective ==
    ASSUME NEW a \in Word, NEW b \in Word, Step(a) = Step(b)
    PROVE  a = b
<1>1. \A c \in Word : (15 \in Step(c) <=> 0 \in c)
  <2> TAKE c \in Word
  <2>1. 16 \notin c
    BY DEF Word
  <2>2. 15 \in Step(c) <=> (15 + 1 \in c <=> ~ (0 \in c /\ 15 \in M!Polynomial))
    BY StepBits
  <2> QED
    BY <2>1, <2>2 DEF M!Polynomial
<1>2. 0 \in a <=> 0 \in b
  BY <1>1, Zenon
<1>3. ASSUME NEW i \in 0 .. 14
      PROVE  i + 1 \in a <=> i + 1 \in b
  <2>1. i \in 0 .. 15
    OBVIOUS
  <2>2. /\ i \in Step(a) <=> (i + 1 \in a <=> ~ (0 \in a /\ i \in M!Polynomial))
        /\ i \in Step(b) <=> (i + 1 \in b <=> ~ (0 \in b /\ i \in M!Polynomial))
    BY <2>1, StepBits, Zenon
  <2> QED
    BY <1>2, <2>2, Zenon
<1>4. ASSUME NEW i \in 0 .. 15 
      PROVE i \in a <=> i \in b
  <2>1. CASE i = 0
    BY <2>1, <1>2, Zenon
  <2>2. CASE i # 0
    <3>1. i - 1 \in 0 .. 14 /\ (i - 1) + 1 = i
      BY <2>2
    <3> QED
      BY <3>1, <1>3, Zenon
  <2> QED
    BY <2>1, <2>2
<1> QED
  BY <1>4, SameBits, Zenon

(* Nor do the eight steps that follow a character.                         *)
LEMMA Step8Facts ==
    ASSUME NEW a \in Word, NEW b \in Word
    PROVE  /\ Step8(a) \in Word
           /\ Step8(Xor(a, b)) = Xor(Step8(a), Step8(b))
           /\ Step8(a) = Step8(b) => a = b
<1>1. /\ \A c \in Word : Step(c) \in Word
      /\ \A c, d \in Word : Step(Xor(c, d)) = Xor(Step(c), Step(d))
      /\ \A c, d \in Word : Step(c) = Step(d) => c = d
  BY StepBits, StepXor, StepInjective, Zenon
<1> DEFINE S2(c) == Step(Step(c))
           S4(c) == S2(S2(c))
           S8(c) == S4(S4(c))
<1>2. /\ \A c \in Word : S2(c) \in Word
      /\ \A c, d \in Word : S2(Xor(c, d)) = Xor(S2(c), S2(d))
      /\ \A c, d \in Word : S2(c) = S2(d) => c = d
  BY <1>1, Zenon
<1> HIDE DEF S2
<1>3. /\ \A c \in Word : S4(c) \in Word
      /\ \A c, d \in Word : S4(Xor(c, d)) = Xor(S4(c), S4(d))
      /\ \A c, d \in Word : S4(c) = S4(d) => c = d
  BY <1>2, Zenon
<1> HIDE DEF S4
<1>4. /\ \A c \in Word : S8(c) \in Word
      /\ \A c, d \in Word : S8(Xor(c, d)) = Xor(S8(c), S8(d))
      /\ \A c, d \in Word : S8(c) = S8(d) => c = d
  BY <1>3, Zenon
<1>5. \A c : S8(c) = Step8(c)
  BY Zenon DEF S4, S2, Step8
<1> HIDE DEF S8
<1> QED
  BY <1>4, <1>5, Zenon

-----------------------------------------------------------------------------
(* Bytes, characters and digits as bits.                                   *)

BitsOf8(n) == M!BitsOf(n, 8)
Flip(c, b) == IF M!Bit(c, b) = 1 THEN c - 2^b ELSE c + 2^b

(* The bits of a byte, one by one.                                         *)
LEMMA BitsOfByte ==
    ASSUME NEW n \in M!Byte
    PROVE  /\ BitsOf8(n) \in SUBSET (0 .. 7)
           /\ 0 \in BitsOf8(n) <=> n % 2 = 1
           /\ 1 \in BitsOf8(n) <=> (n \div 2) % 2 = 1
           /\ 2 \in BitsOf8(n) <=> (n \div 4) % 2 = 1
           /\ 3 \in BitsOf8(n) <=> (n \div 8) % 2 = 1
           /\ 4 \in BitsOf8(n) <=> (n \div 16) % 2 = 1
           /\ 5 \in BitsOf8(n) <=> (n \div 32) % 2 = 1
           /\ 6 \in BitsOf8(n) <=> (n \div 64) % 2 = 1
           /\ 7 \in BitsOf8(n) <=> (n \div 128) % 2 = 1
<1>1. 2^0 = 1 /\ 2^1 = 2 /\ 2^2 = 4 /\ 2^3 = 8 /\ 2^4 = 16 /\ 2^5 = 32
      /\ 2^6 = 64 /\ 2^7 = 128
  OBVIOUS
<1>2. \A i \in 0 .. 7 : i \in BitsOf8(n) <=> (n \div 2^i) % 2 = 1
  BY SMT DEF BitsOf8, M!BitsOf, M!Bit
<1>3. BitsOf8(n) \in SUBSET (0 .. 7)
  BY DEF BitsOf8, M!BitsOf
<1>4. n \div 1 = n
  BY DEF M!Byte
<1>5. 0 \in 0 .. 7 /\ 1 \in 0 .. 7 /\ 2 \in 0 .. 7 /\ 3 \in 0 .. 7 /\ 4 \in 0 .. 7
      /\ 5 \in 0 .. 7 /\ 6 \in 0 .. 7 /\ 7 \in 0 .. 7
  OBVIOUS
<1> QED
  BY <1>1, <1>2, <1>3, <1>4, <1>5, SMT

(* A byte is known by its bits.                                            *)
LEMMA SameByte ==
    ASSUME NEW m \in M!Byte, NEW n \in M!Byte, BitsOf8(m) = BitsOf8(n)
    PROVE  m = n
<1>1. \A k \in 0 .. 255 :
         k = (k % 2) + 2 * ((k \div 2) % 2) + 4 * ((k \div 4) % 2) + 8 * ((k \div 8) % 2)
             + 16 * ((k \div 16) % 2) + 32 * ((k \div 32) % 2) + 64 * ((k \div 64) % 2)
             + 128 * ((k \div 128) % 2)
  OBVIOUS
<1>2. /\ m % 2 = n % 2 /\ (m \div 2) % 2 = (n \div 2) % 2
      /\ (m \div 4) % 2 = (n \div 4) % 2 /\ (m \div 8) % 2 = (n \div 8) % 2
      /\ (m \div 16) % 2 = (n \div 16) % 2 /\ (m \div 32) % 2 = (n \div 32) % 2
      /\ (m \div 64) % 2 = (n \div 64) % 2 /\ (m \div 128) % 2 = (n \div 128) % 2
  <2>1. \A x, y \in Nat : (x % 2 = 1 <=> y % 2 = 1) => x % 2 = y % 2
    OBVIOUS
  <2>2. \A d \in {1, 2, 4, 8, 16, 32, 64, 128} : m \div d \in Nat /\ n \div d \in Nat
    BY DEF M!Byte
  <2>3. m \in Nat /\ n \in Nat
    BY DEF M!Byte
  <2>4. m % 2 = n % 2
    BY <2>1, <2>3, BitsOfByte, SMT
  <2>5. (m \div 2) % 2 = (n \div 2) % 2
    BY <2>1, <2>2, BitsOfByte, SMT
  <2>6. (m \div 4) % 2 = (n \div 4) % 2
    BY <2>1, <2>2, BitsOfByte, SMT
  <2>7. (m \div 8) % 2 = (n \div 8) % 2
    BY <2>1, <2>2, BitsOfByte, SMT
  <2>8. (m \div 16) % 2 = (n \div 16) % 2
    BY <2>1, <2>2, BitsOfByte, SMT
  <2>9. (m \div 32) % 2 = (n \div 32) % 2
    BY <2>1, <2>2, BitsOfByte, SMT
  <2>10. (m \div 64) % 2 = (n \div 64) % 2
    BY <2>1, <2>2, BitsOfByte, SMT
  <2>11. (m \div 128) % 2 = (n \div 128) % 2
    BY <2>1, <2>2, BitsOfByte, SMT
  <2> QED
    BY <2>4, <2>5, <2>6, <2>7, <2>8, <2>9, <2>10, <2>11
<1> DEFINE Sum(k) ==
         (k % 2) + 2 * ((k \div 2) % 2) + 4 * ((k \div 4) % 2) + 8 * ((k \div 8) % 2)
             + 16 * ((k \div 16) % 2) + 32 * ((k \div 32) % 2) + 64 * ((k \div 64) % 2)
             + 128 * ((k \div 128) % 2)
<1>3. m = Sum(m) /\ n = Sum(n)
  BY <1>1 DEF M!Byte
<1>4. Sum(m) = Sum(n)
  BY <1>2
<1> QED
  BY <1>3, <1>4, Zenon

(* When exactly bit b of two bytes differs.                                *)
LEMMA OneBit ==
    ASSUME NEW x \in SUBSET (0 .. 7), NEW y \in SUBSET (0 .. 7), NEW b \in 0 .. 7,
           \A i \in 0 .. 7 : i \in x <=> (i \in y <=> i # b)
    PROVE  x = Xor(y, {b})
<1>1. \A i : i \in Xor(y, {b}) <=> (i \in y <=> i # b)
  BY SMT DEF Xor, M!Xor
<1>2. \A i : i \in x <=> (i \in y <=> i # b)
  OBVIOUS
<1> QED
  BY <1>1, <1>2, SMT

(* A flipped character is another one, with one bit changed.               *)
LEMMA FlipBits ==
    ASSUME NEW c \in 0 .. 127, NEW b \in 0 .. 6
    PROVE  /\ Flip(c, b) \in 0 .. 127
           /\ BitsOf8(Flip(c, b)) = Xor(BitsOf8(c), {b})
<1>1. 2^0 = 1 /\ 2^1 = 2 /\ 2^2 = 4 /\ 2^3 = 8 /\ 2^4 = 16 /\ 2^5 = 32
      /\ 2^6 = 64
  OBVIOUS
<1> DEFINE f == Flip(c, b)
           One(n, d) == (n \div d) % 2 = 1
<1>2. c \in M!Byte /\ (f \in 0 .. 127 => f \in M!Byte)
  BY DEF M!Byte
<1>3. ASSUME f \in 0 .. 127,
             b = 0 <=> ~ (f % 2 = 1 <=> c % 2 = 1), b = 1 <=> ~ (One(f, 2) <=> One(c, 2)),
             b = 2 <=> ~ (One(f, 4) <=> One(c, 4)), b = 3 <=> ~ (One(f, 8) <=> One(c, 8)),
             b = 4 <=> ~ (One(f, 16) <=> One(c, 16)), b = 5 <=> ~ (One(f, 32) <=> One(c, 32)),
             b = 6 <=> ~ (One(f, 64) <=> One(c, 64)), ~ One(f, 128), ~ One(c, 128)
      PROVE  BitsOf8(f) = Xor(BitsOf8(c), {b})
  <2>1. \A i \in 0 .. 7 : i \in BitsOf8(f) <=> (i \in BitsOf8(c) <=> i # b)
    <3> HIDE DEF f
    <3> QED
      BY <1>2, <1>3, BitsOfByte, SMT
  <2>2. BitsOf8(f) \in SUBSET (0 .. 7) /\ BitsOf8(c) \in SUBSET (0 .. 7) /\ b \in 0 .. 7
    BY <1>2, <1>3, BitsOfByte
  <2> QED
    BY <2>1, <2>2, OneBit
<1>b0. CASE b = 0
  <2>1. f = IF (c \div 1) % 2 = 1 THEN c - 1 ELSE c + 1
    BY <1>1, <1>b0, SMT DEF Flip, M!Bit
  <2> HIDE DEF f
  <2>2. f \in 0 .. 127
    BY <2>1
  <2>3. ~ (f % 2 = 1 <=> c % 2 = 1)
    BY <2>1
  <2>4. One(f, 2) <=> One(c, 2)
    BY <2>1
  <2>5. One(f, 4) <=> One(c, 4)
    BY <2>1
  <2>6. One(f, 8) <=> One(c, 8)
    BY <2>1
  <2>7. One(f, 16) <=> One(c, 16)
    BY <2>1
  <2>8. One(f, 32) <=> One(c, 32)
    BY <2>1
  <2>9. One(f, 64) <=> One(c, 64)
    BY <2>1
  <2>10. ~ One(f, 128) /\ ~ One(c, 128)
    BY <2>1
  <2> HIDE DEF One
  <2> QED
    BY <1>3, <1>b0, <2>2, <2>3, <2>4, <2>5, <2>6, <2>7, <2>8, <2>9, <2>10 DEF f
<1>b1. CASE b = 1
  <2>1. f = IF (c \div 2) % 2 = 1 THEN c - 2 ELSE c + 2
    BY <1>1, <1>b1, SMT DEF Flip, M!Bit
  <2> HIDE DEF f
  <2>2. f \in 0 .. 127
    BY <2>1
  <2>3. f % 2 = 1 <=> c % 2 = 1
    BY <2>1
  <2>4. ~ (One(f, 2) <=> One(c, 2))
    BY <2>1
  <2>5. One(f, 4) <=> One(c, 4)
    BY <2>1
  <2>6. One(f, 8) <=> One(c, 8)
    BY <2>1
  <2>7. One(f, 16) <=> One(c, 16)
    BY <2>1
  <2>8. One(f, 32) <=> One(c, 32)
    BY <2>1
  <2>9. One(f, 64) <=> One(c, 64)
    BY <2>1
  <2>10. ~ One(f, 128) /\ ~ One(c, 128)
    BY <2>1
  <2> HIDE DEF One
  <2> QED
    BY <1>3, <1>b1, <2>2, <2>3, <2>4, <2>5, <2>6, <2>7, <2>8, <2>9, <2>10 DEF f
<1>b2. CASE b = 2
  <2>1. f = IF (c \div 4) % 2 = 1 THEN c - 4 ELSE c + 4
    BY <1>1, <1>b2, SMT DEF Flip, M!Bit
  <2> HIDE DEF f
  <2>2. f \in 0 .. 127
    BY <2>1
  <2>3. f % 2 = 1 <=> c % 2 = 1
    BY <2>1
  <2>4. One(f, 2) <=> One(c, 2)
    BY <2>1
  <2>5. ~ (One(f, 4) <=> One(c, 4))
    BY <2>1
  <2>6. One(f, 8) <=> One(c, 8)
    BY <2>1
  <2>7. One(f, 16) <=> One(c, 16)
    BY <2>1
  <2>8. One(f, 32) <=> One(c, 32)
    BY <2>1
  <2>9. One(f, 64) <=> One(c, 64)
    BY <2>1
  <2>10. ~ One(f, 128) /\ ~ One(c, 128)
    BY <2>1
  <2> HIDE DEF One
  <2> QED
    BY <1>3, <1>b2, <2>2, <2>3, <2>4, <2>5, <2>6, <2>7, <2>8, <2>9, <2>10 DEF f
<1>b3. CASE b = 3
  <2>1. f = IF (c \div 8) % 2 = 1 THEN c - 8 ELSE c + 8
    BY <1>1, <1>b3, SMT DEF Flip, M!Bit
  <2> HIDE DEF f
  <2>2. f \in 0 .. 127
    BY <2>1
  <2>3. f % 2 = 1 <=> c % 2 = 1
    BY <2>1
  <2>4. One(f, 2) <=> One(c, 2)
    BY <2>1
  <2>5. One(f, 4) <=> One(c, 4)
    BY <2>1
  <2>6. ~ (One(f, 8) <=> One(c, 8))
    BY <2>1
  <2>7. One(f, 16) <=> One(c, 16)
    BY <2>1
  <2>8. One(f, 32) <=> One(c, 32)
    BY <2>1
  <2>9. One(f, 64) <=> One(c, 64)
    BY <2>1
  <2>10. ~ One(f, 128) /\ ~ One(c, 128)
    BY <2>1
  <2> HIDE DEF One
  <2> QED
    BY <1>3, <1>b3, <2>2, <2>3, <2>4, <2>5, <2>6, <2>7, <2>8, <2>9, <2>10 DEF f
<1>b4. CASE b = 4
  <2>1. f = IF (c \div 16) % 2 = 1 THEN c - 16 ELSE c + 16
    BY <1>1, <1>b4, SMT DEF Flip, M!Bit
  <2> HIDE DEF f
  <2>2. f \in 0 .. 127
    BY <2>1
  <2>3. f % 2 = 1 <=> c % 2 = 1
    BY <2>1
  <2>4. One(f, 2) <=> One(c, 2)
    BY <2>1
  <2>5. One(f, 4) <=> One(c, 4)
    BY <2>1
  <2>6. One(f, 8) <=> One(c, 8)
    BY <2>1
  <2>7. ~ (One(f, 16) <=> One(c, 16))
    BY <2>1
  <2>8. One(f, 32) <=> One(c, 32)
    BY <2>1
  <2>9. One(f, 64) <=> One(c, 64)
    BY <2>1
  <2>10. ~ One(f, 128) /\ ~ One(c, 128)
    BY <2>1
  <2> HIDE DEF One
  <2> QED
    BY <1>3, <1>b4, <2>2, <2>3, <2>4, <2>5, <2>6, <2>7, <2>8, <2>9, <2>10 DEF f
<1>b5. CASE b = 5
  <2>1. f = IF (c \div 32) % 2 = 1 THEN c - 32 ELSE c + 32
    BY <1>1, <1>b5, SMT DEF Flip, M!Bit
  <2> HIDE DEF f
  <2>2. f \in 0 .. 127
    BY <2>1
  <2>3. f % 2 = 1 <=> c % 2 = 1
    BY <2>1
  <2>4. One(f, 2) <=> One(c, 2)
    BY <2>1
  <2>5. One(f, 4) <=> One(c, 4)
    BY <2>1
  <2>6. One(f, 8) <=> One(c, 8)
    BY <2>1
  <2>7. One(f, 16) <=> One(c, 16)
    BY <2>1
  <2>8. ~ (One(f, 32) <=> One(c, 32))
    BY <2>1
  <2>9. One(f, 64) <=> One(c, 64)
    BY <2>1
  <2>10. ~ One(f, 128) /\ ~ One(c, 128)
    BY <2>1
  <2> HIDE DEF One
  <2> QED
    BY <1>3, <1>b5, <2>2, <2>3, <2>4, <2>5, <2>6, <2>7, <2>8, <2>9, <2>10 DEF f
<1>b6. CASE b = 6
  <2>1. f = IF (c \div 64) % 2 = 1 THEN c - 64 ELSE c + 64
    BY <1>1, <1>b6, SMT DEF Flip, M!Bit
  <2> HIDE DEF f
  <2>2. f \in 0 .. 127
    BY <2>1
  <2>3. f % 2 = 1 <=> c % 2 = 1
    BY <2>1
  <2>4. One(f, 2) <=> One(c, 2)
    BY <2>1
  <2>5. One(f, 4) <=> One(c, 4)
    BY <2>1
  <2>6. One(f, 8) <=> One(c, 8)
    BY <2>1
  <2>7. One(f, 16) <=> One(c, 16)
    BY <2>1
  <2>8. One(f, 32) <=> One(c, 32)
    BY <2>1
  <2>9. ~ (One(f, 64) <=> One(c, 64))
    BY <2>1
  <2>10. ~ One(f, 128) /\ ~ One(c, 128)
    BY <2>1
  <2> HIDE DEF One
  <2> QED
    BY <1>3, <1>b6, <2>2, <2>3, <2>4, <2>5, <2>6, <2>7, <2>8, <2>9, <2>10 DEF f
<1> QED
  BY <1>b0, <1>b1, <1>b2, <1>b3, <1>b4, <1>b5, <1>b6

(* A hex digit is read back.                                               *)
LEMMA DigitBack ==
    ASSUME NEW d \in 0 .. 15
    PROVE  M!DEC2HEX(d) \in 0 .. 127 /\ M!HEX2DEC(M!DEC2HEX(d)) = d
<1> DEFINE c == M!DEC2HEX(d)
<1>1. CASE d \in 0 .. 9
  <2>1. c = d + 48
    BY <1>1 DEF M!DEC2HEX
  <2>2. c \in 48 .. 57
    BY <1>1, <2>1
  <2> HIDE DEF c
  <2>3. M!HEX2DEC(c) = c - 48
    BY <2>2 DEF M!HEX2DEC
  <2> QED
    BY <1>1, <2>1, <2>2, <2>3 DEF c
<1>2. CASE d \notin 0 .. 9
  <2>1. c = d - 10 + 97
    BY <1>2 DEF M!DEC2HEX
  <2>2. c \in 97 .. 102
    BY <1>2, <2>1
  <2> HIDE DEF c
  <2>3. M!HEX2DEC(c) = c - 97 + 10
    BY <2>2 DEF M!HEX2DEC
  <2> QED
    BY <1>2, <2>1, <2>2, <2>3 DEF c
<1> QED
  BY <1>1, <1>2

(* Whatever the character, HEX2DEC yields a digit.                         *)
LEMMA DigitRange ==
    ASSUME NEW c \in M!Byte
    PROVE  M!HEX2DEC(c) \in 0 .. 15
  BY DEF M!HEX2DEC, M!Byte

(* The four bits of a digit.                                               *)
LEMMA BitsOfDigit ==
    ASSUME NEW n \in 0 .. 15
    PROVE  /\ M!BitsOf(n, 4) \in SUBSET (0 .. 3)
           /\ 0 \in M!BitsOf(n, 4) <=> n % 2 = 1
           /\ 1 \in M!BitsOf(n, 4) <=> (n \div 2) % 2 = 1
           /\ 2 \in M!BitsOf(n, 4) <=> (n \div 4) % 2 = 1
           /\ 3 \in M!BitsOf(n, 4) <=> (n \div 8) % 2 = 1
<1>1. 2^0 = 1 /\ 2^1 = 2 /\ 2^2 = 4 /\ 2^3 = 8
  OBVIOUS
<1>2. \A i \in 0 .. 3 : i \in M!BitsOf(n, 4) <=> (n \div 2^i) % 2 = 1
  BY SMT DEF M!BitsOf, M!Bit
<1>3. M!BitsOf(n, 4) \in SUBSET (0 .. 3)
  BY DEF M!BitsOf
<1>4. n \div 1 = n
  OBVIOUS
<1>5. 0 \in 0 .. 3 /\ 1 \in 0 .. 3 /\ 2 \in 0 .. 3 /\ 3 \in 0 .. 3
  OBVIOUS
<1> QED
  BY <1>1, <1>2, <1>3, <1>4, <1>5, SMT

(* A nibble of the register, as a digit, has the register's four bits.     *)
LEMMA NibbleBits ==
    ASSUME NEW crc \in Word, NEW k \in 0 .. 3
    PROVE  /\ M!Nibble(crc, k) \in 0 .. 15
           /\ M!BitsOf(M!Nibble(crc, k), 4) = {i \in 0 .. 3 : 4 * k + i \in crc}
<1> DEFINE n == M!Nibble(crc, k)
           bit(i, w) == IF 4 * k + i \in crc THEN w ELSE 0
<1>1. 2^0 = 1 /\ 2^1 = 2 /\ 2^2 = 4 /\ 2^3 = 8
  OBVIOUS
<1>2. n = bit(0, 1) + bit(1, 2) + bit(2, 4) + bit(3, 8)
  BY <1>1, SMT DEF M!Nibble
<1>3. \A w0 \in {0, 1}, w1 \in {0, 2}, w2 \in {0, 4}, w3 \in {0, 8} :
         LET m == w0 + w1 + w2 + w3
         IN  /\ m \in 0 .. 15
             /\ m % 2 = 1 <=> w0 = 1
             /\ (m \div 2) % 2 = 1 <=> w1 = 2
             /\ (m \div 4) % 2 = 1 <=> w2 = 4
             /\ (m \div 8) % 2 = 1 <=> w3 = 8
  OBVIOUS
<1>4. /\ bit(0, 1) \in {0, 1} /\ bit(1, 2) \in {0, 2}
      /\ bit(2, 4) \in {0, 4} /\ bit(3, 8) \in {0, 8}
      /\ bit(0, 1) = 1 <=> 4 * k + 0 \in crc
      /\ bit(1, 2) = 2 <=> 4 * k + 1 \in crc
      /\ bit(2, 4) = 4 <=> 4 * k + 2 \in crc
      /\ bit(3, 8) = 8 <=> 4 * k + 3 \in crc
  BY SMT
<1> HIDE DEF n, bit
<1>5. /\ n \in 0 .. 15
      /\ n % 2 = 1 <=> 4 * k + 0 \in crc
      /\ (n \div 2) % 2 = 1 <=> 4 * k + 1 \in crc
      /\ (n \div 4) % 2 = 1 <=> 4 * k + 2 \in crc
      /\ (n \div 8) % 2 = 1 <=> 4 * k + 3 \in crc
  BY <1>2, <1>3, <1>4, SMT
<1>6. \A i \in 0 .. 3 : i \in M!BitsOf(n, 4) <=> 4 * k + i \in crc
  <2> TAKE i \in 0 .. 3
  <2>1. i = 0 \/ i = 1 \/ i = 2 \/ i = 3
    OBVIOUS
  <2> QED
    BY <1>5, <2>1, BitsOfDigit
<1>7. M!BitsOf(n, 4) \in SUBSET (0 .. 3)
  BY <1>5, BitsOfDigit
<1> QED
  BY <1>5, <1>6, <1>7, SMT DEF n

-----------------------------------------------------------------------------
(* The CRC a text carries, and the CRC of its body.                        *)

Text == [1 .. 14 -> M!Byte]

(* The characters by their place in the ring buffer.                       *)
LEMMA CharAt ==
    ASSUME NEW s \in Text, NEW i \in 0 .. 13
    PROVE  M!at(s, i) = s[i + 1] /\ s[i + 1] \in M!Byte
<1>1. Len(s) = 14
  BY DEF Text
<1> QED
  BY <1>1 DEF M!at, Text

(* A place of the register is one of four in one of four nibbles.          *)
LEMMA Nibbles ==
    \A x \in 0 .. 15 : /\ x \div 4 \in 0 .. 3
                       /\ x % 4 \in 0 .. 3
                       /\ x = 4 * (x \div 4) + (x % 4)
  OBVIOUS

(* The CRC a text carries, bit by bit.                                     *)
CrcDigit(s, k) == M!BitsOf(M!HEX2DEC(s[13 - k]), 4)

(* The CRC a text carries, digit by digit.                                 *)
LEMMA CrcField ==
    ASSUME NEW s \in Text
    PROVE  /\ M!get_crc(s) \in Word
           /\ \A x \in 0 .. 15 : x \in M!get_crc(s) <=> x % 4 \in CrcDigit(s, x \div 4)
<1>1. \A k \in 0 .. 3 : M!at(s, 12 - k) = s[13 - k] /\ s[13 - k] \in M!Byte
  <2> TAKE k \in 0 .. 3
  <2>1. 12 - k \in 0 .. 13 /\ (12 - k) + 1 = 13 - k
    OBVIOUS
  <2> QED
    BY <2>1, CharAt
<1>2. \A k \in 0 .. 3 : CrcDigit(s, k) \in SUBSET (0 .. 3)
  BY <1>1, DigitRange, BitsOfDigit DEF CrcDigit
<1>3. \A x : x \in M!get_crc(s) <=>
            \E k \in 0 .. 3 : \E i \in M!BitsOf(M!HEX2DEC(M!at(s, 12 - k)), 4) : x = 4 * k + i
  BY SMT DEF M!get_crc
<1> HIDE DEF CrcDigit
<1>4. \A x : x \in M!get_crc(s) <=> \E k \in 0 .. 3 : \E i \in CrcDigit(s, k) : x = 4 * k + i
  BY <1>1, <1>3, Zenon DEF CrcDigit
<1>5. \A k, i \in 0 .. 3 : 4 * k + i \in 0 .. 15 /\ (4 * k + i) \div 4 = k /\ (4 * k + i) % 4 = i
  OBVIOUS
<1>6. M!get_crc(s) \in Word
  BY <1>2, <1>4, <1>5 DEF Word
<1>7. ASSUME NEW x \in 0 .. 15
      PROVE  x \in M!get_crc(s) <=> x % 4 \in CrcDigit(s, x \div 4)
  <2>1. x \div 4 \in 0 .. 3 /\ x % 4 \in 0 .. 3 /\ x = 4 * (x \div 4) + (x % 4)
    BY Nibbles
  <2>2. ASSUME x \in M!get_crc(s)
        PROVE  x % 4 \in CrcDigit(s, x \div 4)
    <3>1. PICK k \in 0 .. 3 : \E i \in CrcDigit(s, k) : x = 4 * k + i
      BY <1>4, <2>2, Zenon
    <3>2. PICK i \in CrcDigit(s, k) : x = 4 * k + i
      BY <3>1
    <3>3. x \div 4 = k /\ x % 4 = i
      BY <1>2, <1>5, <3>2
    <3> QED
      BY <3>2, <3>3, Zenon
  <2>3. ASSUME x % 4 \in CrcDigit(s, x \div 4)
        PROVE  x \in M!get_crc(s)
    BY <1>4, <2>1, <2>3, SMT
  <2> QED
    BY <2>2, <2>3
<1> QED
  BY <1>6, <1>7

(* The digits of a register are read back as that register.                *)
LEMMA CrcBack ==
    ASSUME NEW s \in Text, NEW crc \in Word,
           \A k \in 0 .. 3 : s[13 - k] = M!DEC2HEX(M!Nibble(crc, k))
    PROVE  M!get_crc(s) = crc
<1>1. \A k \in 0 .. 3 : CrcDigit(s, k) = {i \in 0 .. 3 : 4 * k + i \in crc}
  <2> TAKE k \in 0 .. 3
  <2>1. M!Nibble(crc, k) \in 0 .. 15
    BY NibbleBits
  <2>2. M!HEX2DEC(s[13 - k]) = M!Nibble(crc, k)
    BY <2>1, DigitBack, Zenon
  <2> QED
    BY <2>2, NibbleBits, Zenon DEF CrcDigit
<1>2. ASSUME NEW x \in 0 .. 15
      PROVE  x \in M!get_crc(s) <=> x \in crc
  <2>1. x \div 4 \in 0 .. 3 /\ x % 4 \in 0 .. 3 /\ 4 * (x \div 4) + (x % 4) = x
    BY Nibbles
  <2>2. CrcDigit(s, x \div 4) = {i \in 0 .. 3 : 4 * (x \div 4) + i \in crc}
    BY <1>1, <2>1, Zenon
  <2>3. x % 4 \in CrcDigit(s, x \div 4) <=> x \in crc
    BY <2>1, <2>2, SMT
  <2> QED
    BY <2>3, CrcField, Zenon
<1> QED
  BY <1>2, CrcField, SameBits, Zenon

(* One of its characters is one nibble of the register.                    *)
LEMMA CrcNibble ==
    ASSUME NEW s \in Text, NEW t \in Text, NEW k \in 0 .. 3,
           \A j \in 0 .. 3 \ {k} : s[13 - j] = t[13 - j]
    PROVE  \A x \in Xor(M!get_crc(s), M!get_crc(t)) : x \div 4 = k
<1>1. \A x \in 0 .. 15 : x \div 4 # k => (x \in M!get_crc(s) <=> x \in M!get_crc(t))
  <2> TAKE x \in 0 .. 15
  <2> HAVE x \div 4 # k
  <2>1. x \div 4 \in 0 .. 3 \ {k}
    OBVIOUS
  <2>2. CrcDigit(s, x \div 4) = CrcDigit(t, x \div 4)
    BY <2>1, Zenon DEF CrcDigit
  <2> QED
    BY <2>2, CrcField, Zenon
<1>2. M!get_crc(s) \in Word /\ M!get_crc(t) \in Word
  BY CrcField
<1>3. TAKE x \in Xor(M!get_crc(s), M!get_crc(t))
<1>4. x \in M!get_crc(s) <=> x \notin M!get_crc(t)
  BY SMT DEF Xor, M!Xor
<1>5. x \in 0 .. 15
  BY <1>2, <1>4, Zenon DEF Word
<1> QED
  BY <1>1, <1>4, <1>5, Zenon

(* Characters outside it do not matter.                                    *)
LEMMA CrcSame ==
    ASSUME NEW s \in Text, NEW t \in Text, \A j \in 10 .. 13 : s[j] = t[j]
    PROVE  M!get_crc(s) = M!get_crc(t)
<1>1. ASSUME NEW x \in 0 .. 15
      PROVE  x \in M!get_crc(s) <=> x \in M!get_crc(t)
  <2>1. 13 - (x \div 4) \in 10 .. 13
    OBVIOUS
  <2>2. CrcDigit(s, x \div 4) = CrcDigit(t, x \div 4)
    BY <2>1, Zenon DEF CrcDigit
  <2> QED
    BY <2>2, CrcField, Zenon
<1> QED
  BY <1>1, CrcField, SameBits, Zenon

Update(c, ch) == Step8(Xor(c, BitsOf8(ch)))

(* The register before the first character of the body and after each.     *)
Registers(s) ==
    LET c0 == 0 .. 15
        c1 == Update(c0, s[2])
        c2 == Update(c1, s[3])
        c3 == Update(c2, s[4])
        c4 == Update(c3, s[5])
        c5 == Update(c4, s[6])
        c6 == Update(c5, s[7])
        c7 == Update(c6, s[8])
        c8 == Update(c7, s[9])
    IN  <<c0, c1, c2, c3, c4, c5, c6, c7, c8>>

(* update_crc16, with the steps named.                                     *)
LEMMA UpdateIs ==
    ASSUME NEW c, NEW ch
    PROVE  M!update_crc16(c, ch) = Update(c, ch)
  BY Zenon DEF M!update_crc16, Update, Step8, Step, Xor, BitsOf8

(* A character fits the register ...                                       *)
LEMMA BitsInWord ==
    ASSUME NEW ch \in M!Byte
    PROVE  BitsOf8(ch) \in Word
  BY BitsOfByte DEF Word

(* ... and update_crc16 keeps it a register.                               *)
LEMMA UpdateWord ==
    ASSUME NEW c \in Word, NEW ch \in M!Byte
    PROVE  Update(c, ch) \in Word
<1>1. Xor(c, BitsOf8(ch)) \in Word
  BY BitsInWord, XorFacts, Zenon
<1> QED
  BY <1>1, Step8Facts, Zenon DEF Update

(* Each character makes the next register.                                 *)
LEMMA RegisterSteps ==
    ASSUME NEW s \in Text
    PROVE  /\ Registers(s)[1] = 0 .. 15
           /\ \A k \in 1 .. 8 : Registers(s)[k + 1] = Update(Registers(s)[k], s[k + 1])
           /\ \A k \in 1 .. 9 : Registers(s)[k] \in Word
           /\ M!compute_crc(s) = Registers(s)[9]
<1> DEFINE R == Registers(s)
<1>1. R[1] = 0 .. 15
  BY DEF Registers
<1>2. /\ R[2] = Update(R[1], s[2]) /\ R[3] = Update(R[2], s[3]) /\ R[4] = Update(R[3], s[4])
      /\ R[5] = Update(R[4], s[5]) /\ R[6] = Update(R[5], s[6]) /\ R[7] = Update(R[6], s[7])
      /\ R[8] = Update(R[7], s[8]) /\ R[9] = Update(R[8], s[9])
  BY DEF Registers
<1> HIDE DEF R
<1>3. \A k \in 1 .. 8 : R[k + 1] = Update(R[k], s[k + 1])
  <2> TAKE k \in 1 .. 8
  <2>1. k = 1 \/ k = 2 \/ k = 3 \/ k = 4 \/ k = 5 \/ k = 6 \/ k = 7 \/ k = 8
    OBVIOUS
  <2> QED
    BY <1>2, <2>1
<1>4. /\ s[2] \in M!Byte /\ s[3] \in M!Byte /\ s[4] \in M!Byte /\ s[5] \in M!Byte
      /\ s[6] \in M!Byte /\ s[7] \in M!Byte /\ s[8] \in M!Byte /\ s[9] \in M!Byte
  BY DEF Text
<1>5. R[1] \in Word
  BY <1>1 DEF Word
<1>6. R[2] \in Word
  BY <1>2, <1>4, <1>5, UpdateWord, Zenon
<1>7. R[3] \in Word
  BY <1>2, <1>4, <1>6, UpdateWord, Zenon
<1>8. R[4] \in Word
  BY <1>2, <1>4, <1>7, UpdateWord, Zenon
<1>9. R[5] \in Word
  BY <1>2, <1>4, <1>8, UpdateWord, Zenon
<1>10. R[6] \in Word
  BY <1>2, <1>4, <1>9, UpdateWord, Zenon
<1>11. R[7] \in Word
  BY <1>2, <1>4, <1>10, UpdateWord, Zenon
<1>12. R[8] \in Word
  BY <1>2, <1>4, <1>11, UpdateWord, Zenon
<1>13. R[9] \in Word
  BY <1>2, <1>4, <1>12, UpdateWord, Zenon
<1>14. \A k \in 1 .. 9 : R[k] \in Word
  <2> TAKE k \in 1 .. 9
  <2>1. k = 1 \/ k = 2 \/ k = 3 \/ k = 4 \/ k = 5 \/ k = 6 \/ k = 7 \/ k = 8 \/ k = 9
    OBVIOUS
  <2> QED
    BY <1>5, <1>6, <1>7, <1>8, <1>9, <1>10, <1>11, <1>12, <1>13, <2>1
<1>15. M!compute_crc(s) = R[9]
  <2>1. /\ M!at(s, 1) = s[2] /\ M!at(s, 2) = s[3] /\ M!at(s, 3) = s[4] /\ M!at(s, 4) = s[5]
        /\ M!at(s, 5) = s[6] /\ M!at(s, 6) = s[7] /\ M!at(s, 7) = s[8] /\ M!at(s, 8) = s[9]
    BY CharAt
  <2> QED
    BY <1>1, <1>2, <2>1, UpdateIs, Zenon DEF M!compute_crc
<1> QED
  BY <1>1, <1>3, <1>14, <1>15, Zenon DEF R

(* What tells two registers apart before a character is spread by the      *)
(* steps after it, with what tells the two characters apart.               *)
LEMMA Spread ==
    ASSUME NEW a \in Word, NEW b \in Word, NEW c \in M!Byte, NEW d \in M!Byte
    PROVE  /\ Xor(Update(a, c), Update(b, d))
                = Step8(Xor(Xor(a, b), Xor(BitsOf8(c), BitsOf8(d))))
           /\ c = d => (Update(a, c) = Update(b, d) <=> a = b)
           /\ a = b => (Update(a, c) = Update(b, d) <=> c = d)
<1> DEFINE x == BitsOf8(c)
           y == BitsOf8(d)
<1>1. x \in Word /\ y \in Word
  BY BitsInWord
<1>2. x = y <=> c = d
  BY SameByte
<1> HIDE DEF x, y
<1>3. Xor(a, x) \in Word /\ Xor(b, y) \in Word
  BY <1>1, XorFacts, Zenon
<1>4. Xor(Step8(Xor(a, x)), Step8(Xor(b, y))) = Step8(Xor(Xor(a, x), Xor(b, y)))
  BY <1>3, Step8Facts, Zenon
<1>5. Xor(Xor(a, x), Xor(b, y)) = Xor(Xor(a, b), Xor(x, y))
  BY SMT DEF Xor, M!Xor
<1>6. Step8(Xor(a, x)) = Step8(Xor(b, y)) <=> Xor(a, x) = Xor(b, y)
  BY <1>3, Step8Facts, Zenon
<1>7. x = y => (Xor(a, x) = Xor(b, y) <=> a = b)
  <2>1. Xor(a, x) = Xor(b, x) => a = b
    BY SMT DEF Xor, M!Xor
  <2> QED
    BY <2>1, Zenon
<1>8. a = b => (Xor(a, x) = Xor(b, y) <=> x = y)
  <2>1. Xor(a, x) = Xor(a, y) => x = y
    BY SMT DEF Xor, M!Xor
  <2> QED
    BY <2>1, Zenon
<1> QED
  BY <1>2, <1>4, <1>5, <1>6, <1>7, <1>8, Zenon DEF Update, x, y

-----------------------------------------------------------------------------
(* The text of a message.                                                  *)

(* The two digits of a byte.                                               *)
LEMMA Halves ==
    \A b \in 0 .. 255 :
       b \div 16 \in 0 .. 15 /\ b % 16 \in 0 .. 15 /\ 16 * (b \div 16) + (b % 16) = b
  OBVIOUS

(* A function on 1 .. n is a sequence of length n.                         *)
LEMMA LenOf ==
    ASSUME NEW n \in Nat, NEW f \in [1 .. n -> 0 .. 127]
    PROVE  f \in Seq(0 .. 127) /\ Len(f) = n
  OBVIOUS

(* One text after the other.                                               *)
LEMMA Joined ==
    ASSUME NEW m \in Nat, NEW n \in Nat,
           NEW f \in [1 .. m -> 0 .. 127], NEW g \in [1 .. n -> 0 .. 127]
    PROVE  /\ f \o g \in [1 .. m + n -> 0 .. 127]
           /\ \A i \in 1 .. m : (f \o g)[i] = f[i]
           /\ \A i \in 1 .. n : (f \o g)[m + i] = g[i]
<1>1. f \in Seq(0 .. 127) /\ g \in Seq(0 .. 127) /\ Len(f) = m /\ Len(g) = n
  OBVIOUS
<1>2. /\ f \o g \in Seq(0 .. 127)
      /\ Len(f \o g) = m + n
      /\ \A i \in 1 .. m + n : (f \o g)[i] = IF i <= m THEN f[i] ELSE g[i - m]
  <2>1. /\ f \o g \in Seq(0 .. 127)
        /\ Len(f \o g) = Len(f) + Len(g)
        /\ \A i \in 1 .. Len(f) + Len(g) :
              (f \o g)[i] = IF i <= Len(f) THEN f[i] ELSE g[i - Len(f)]
    BY <1>1, ConcatProperties, Zenon
  <2> QED
    BY <1>1, <2>1, Zenon
<1> DEFINE h == f \o g
<1> HIDE DEF h
<1>3. h \in [1 .. m + n -> 0 .. 127]
  BY <1>2, LenProperties DEF h
<1>4. \A i \in 1 .. m : h[i] = f[i]
  BY <1>2 DEF h
<1>5. \A i \in 1 .. n : h[m + i] = g[i]
  <2> TAKE i \in 1 .. n
  <2>1. m + i \in 1 .. m + n /\ ~ (m + i <= m) /\ (m + i) - m = i
    OBVIOUS
  <2> QED
    BY <1>2, <2>1, Zenon DEF h
<1> QED
  BY <1>3, <1>4, <1>5 DEF h

(* The text of a message: its frame, two digits a byte, and the digits of  *)
(* the CRC of the body.                                                    *)
LEMMA TextOf ==
    ASSUME NEW v \in [1 .. 4 -> M!Byte]
    PROVE  LET s == M!set_bytes(v)
           IN  /\ s \in [1 .. 14 -> 0 .. 127]
               /\ s[1] = M!MSG_BEGIN_CHAR /\ s[14] = M!MSG_END_CHAR
               /\ \A k \in 1 .. 4 : /\ s[2 * k] = M!DEC2HEX(v[k] \div 16)
                                    /\ s[2 * k + 1] = M!DEC2HEX(v[k] % 16)
               /\ \A k \in 0 .. 3 : s[13 - k] = M!DEC2HEX(M!Nibble(M!compute_crc(s), k))
<1> DEFINE dig == [i \in 1 .. 8 |-> M!DEC2HEX(IF i % 2 = 1 THEN v[(i + 1) \div 2] \div 16
                                                       ELSE v[i \div 2] % 16)]
           body == <<M!MSG_BEGIN_CHAR>> \o dig
           crc  == M!compute_crc(body)
           four == [i \in 1 .. 4 |-> M!DEC2HEX(M!Nibble(crc, 4 - i))]
           s == M!set_bytes(v)
<1>1. s = body \o four \o <<M!MSG_END_CHAR>>
  BY Zenon DEF M!set_bytes
<1>2. \A b \in M!Byte : b \div 16 \in 0 .. 15 /\ b % 16 \in 0 .. 15
  BY Halves DEF M!Byte
<1>3. dig \in [1 .. 8 -> 0 .. 127]
  <2>1. ASSUME NEW i \in 1 .. 8
        PROVE  dig[i] \in 0 .. 127
    <3>1. CASE i % 2 = 1
      <4>1. (i + 1) \div 2 \in 1 .. 4
        BY <3>1
      <4>2. v[(i + 1) \div 2] \div 16 \in 0 .. 15
        BY <1>2, <4>1
      <4> QED
        BY <3>1, <4>2, DigitBack, Zenon
    <3>2. CASE i % 2 # 1
      <4>1. i \div 2 \in 1 .. 4
        BY <3>2
      <4>2. v[i \div 2] % 16 \in 0 .. 15
        BY <1>2, <4>1
      <4> QED
        BY <3>2, <4>2, DigitBack, Zenon
    <3> QED
      BY <3>1, <3>2, Zenon
  <2>2. dig = [i \in 1 .. 8 |-> dig[i]]
    BY Zenon
  <2> HIDE DEF dig
  <2> QED
    BY <2>1, <2>2, Zenon
<1>4. \A k \in 1 .. 4 : /\ dig[2 * k - 1] = M!DEC2HEX(v[k] \div 16)
                        /\ dig[2 * k] = M!DEC2HEX(v[k] % 16)
  <2> TAKE k \in 1 .. 4
  <2>1. /\ 2 * k - 1 \in 1 .. 8 /\ 2 * k \in 1 .. 8
        /\ (2 * k - 1) % 2 = 1 /\ (2 * k) % 2 # 1
        /\ ((2 * k - 1) + 1) \div 2 = k /\ (2 * k) \div 2 = k
    OBVIOUS
  <2> QED
    BY <2>1, Zenon
<1> HIDE DEF dig
<1> DEFINE open  == <<M!MSG_BEGIN_CHAR>>
           close == <<M!MSG_END_CHAR>>
<1>a. /\ open \in [1 .. 1 -> 0 .. 127] /\ open[1] = M!MSG_BEGIN_CHAR
      /\ close \in [1 .. 1 -> 0 .. 127] /\ close[1] = M!MSG_END_CHAR
  BY DEF M!MSG_BEGIN_CHAR, M!MSG_END_CHAR
<1> HIDE DEF open, close
<1>5. /\ body \in [1 .. 9 -> 0 .. 127]
      /\ body[1] = M!MSG_BEGIN_CHAR /\ \A i \in 1 .. 8 : body[1 + i] = dig[i]
  <2>1. body = open \o dig
    BY DEF open
  <2>2. 1 + 8 = 9 /\ 1 \in Nat /\ 8 \in Nat /\ 1 \in 1 .. 1
    OBVIOUS
  <2> HIDE DEF body
  <2>3. /\ open \o dig \in [1 .. 1 + 8 -> 0 .. 127]
        /\ \A i \in 1 .. 1 : (open \o dig)[i] = open[i]
        /\ \A i \in 1 .. 8 : (open \o dig)[1 + i] = dig[i]
    <3>1. 1 \in Nat /\ 8 \in Nat /\ open \in [1 .. 1 -> 0 .. 127] /\ dig \in [1 .. 8 -> 0 .. 127]
      BY <1>3, <1>a, <2>2, Zenon
    <3> QED
      BY ONLY <3>1, Joined, Zenon
  <2> QED
    BY <1>a, <2>1, <2>2, <2>3, Zenon
<1>b. Len(body) = 9
  <2>1. 9 \in Nat
    OBVIOUS
  <2> QED
    BY <1>5, <2>1, LenOf, Zenon
<1> HIDE DEF body
<1>6. /\ M!at(body, 1) = body[2] /\ M!at(body, 2) = body[3] /\ M!at(body, 3) = body[4]
      /\ M!at(body, 4) = body[5] /\ M!at(body, 5) = body[6] /\ M!at(body, 6) = body[7]
      /\ M!at(body, 7) = body[8] /\ M!at(body, 8) = body[9]
  BY <1>5, <1>b DEF M!at
<1>7. \A i \in 2 .. 9 : body[i] \in M!Byte
  BY <1>5 DEF M!Byte
<1>8. crc \in Word
  <2> DEFINE c1 == Update(0 .. 15, body[2])
             c2 == Update(c1, body[3])
             c3 == Update(c2, body[4])
             c4 == Update(c3, body[5])
             c5 == Update(c4, body[6])
             c6 == Update(c5, body[7])
             c7 == Update(c6, body[8])
             c8 == Update(c7, body[9])
  <2>1. 0 .. 15 \in Word
    BY DEF Word
  <2>2. /\ body[2] \in M!Byte /\ body[3] \in M!Byte /\ body[4] \in M!Byte /\ body[5] \in M!Byte
        /\ body[6] \in M!Byte /\ body[7] \in M!Byte /\ body[8] \in M!Byte /\ body[9] \in M!Byte
    BY <1>7
  <2>3. crc = c8
    BY <1>6, UpdateIs, Zenon DEF M!compute_crc
  <2> QED
    BY <2>1, <2>2, <2>3, UpdateWord, Zenon
<1> HIDE DEF crc
<1>9. four \in [1 .. 4 -> 0 .. 127]
  <2>1. ASSUME NEW i \in 1 .. 4
        PROVE  four[i] \in 0 .. 127
    <3>1. 4 - i \in 0 .. 3
      OBVIOUS
    <3> QED
      BY <1>8, <3>1, NibbleBits, DigitBack, Zenon
  <2> QED
    BY <2>1
<1>10. \A i \in 1 .. 4 : four[i] = M!DEC2HEX(M!Nibble(crc, 4 - i))
  OBVIOUS
<1> HIDE DEF four
<1>11. /\ s \in [1 .. 14 -> 0 .. 127]
       /\ \A i \in 1 .. 9 : s[i] = body[i]
       /\ \A i \in 1 .. 4 : s[9 + i] = four[i]
       /\ s[14] = M!MSG_END_CHAR
  <2> DEFINE p == body \o four
  <2>0. 9 + 4 = 13 /\ 13 + 1 = 14 /\ 9 \in Nat /\ 4 \in Nat /\ 13 \in Nat /\ 1 \in Nat
    OBVIOUS
  <2>1. /\ p \in [1 .. 13 -> 0 .. 127]
        /\ \A i \in 1 .. 9 : p[i] = body[i]
        /\ \A i \in 1 .. 4 : p[9 + i] = four[i]
    <3>1. /\ body \o four \in [1 .. 9 + 4 -> 0 .. 127]
          /\ \A i \in 1 .. 9 : (body \o four)[i] = body[i]
          /\ \A i \in 1 .. 4 : (body \o four)[9 + i] = four[i]
      <4>1. 9 \in Nat /\ 4 \in Nat /\ body \in [1 .. 9 -> 0 .. 127] /\ four \in [1 .. 4 -> 0 .. 127]
        BY <1>5, <1>9, <2>0, Zenon
      <4> QED
        BY ONLY <4>1, Joined, Zenon
    <3> QED
      BY <2>0, <3>1, Zenon
  <2> HIDE DEF p
  <2>2. s = p \o close
    BY <1>1, Zenon DEF p, close
  <2> HIDE DEF s
  <2>3. /\ p \o close \in [1 .. 13 + 1 -> 0 .. 127]
        /\ \A i \in 1 .. 13 : (p \o close)[i] = p[i]
        /\ \A i \in 1 .. 1 : (p \o close)[13 + i] = close[i]
    <3>1. 13 \in Nat /\ 1 \in Nat /\ p \in [1 .. 13 -> 0 .. 127] /\ close \in [1 .. 1 -> 0 .. 127]
      BY <1>a, <2>0, <2>1, Zenon
    <3> QED
      BY ONLY <3>1, Joined, Zenon
  <2>4. s \in [1 .. 14 -> 0 .. 127]
    BY <2>0, <2>2, <2>3, Zenon
  <2>5. \A i \in 1 .. 13 : s[i] = p[i]
    BY <2>2, <2>3, Zenon
  <2>6. s[14] = M!MSG_END_CHAR
    <3>1. 1 \in 1 .. 1
      OBVIOUS
    <3> QED
      BY <1>a, <2>0, <2>2, <2>3, <3>1, Zenon
  <2>7. \A i \in 1 .. 9 : s[i] = body[i]
    BY <2>1, <2>5
  <2>8. \A i \in 1 .. 4 : s[9 + i] = four[i]
    <3> TAKE i \in 1 .. 4
    <3>1. 9 + i \in 1 .. 13
      OBVIOUS
    <3> QED
      BY <2>1, <2>5, <3>1, Zenon
  <2> QED
    BY <2>4, <2>6, <2>7, <2>8
<1> HIDE DEF s
<1>12. M!compute_crc(s) = crc
  <2>1. Len(s) = 14
    BY <1>11
  <2>2. /\ M!at(s, 1) = body[2] /\ M!at(s, 2) = body[3] /\ M!at(s, 3) = body[4]
        /\ M!at(s, 4) = body[5] /\ M!at(s, 5) = body[6] /\ M!at(s, 6) = body[7]
        /\ M!at(s, 7) = body[8] /\ M!at(s, 8) = body[9]
    BY <1>11, <2>1 DEF M!at
  <2> QED
    BY <1>6, <2>2, Zenon DEF M!compute_crc, crc
<1>13. \A k \in 1 .. 4 : /\ s[2 * k] = M!DEC2HEX(v[k] \div 16)
                         /\ s[2 * k + 1] = M!DEC2HEX(v[k] % 16)
  <2> TAKE k \in 1 .. 4
  <2>1. /\ 2 * k \in 1 .. 9 /\ 2 * k + 1 \in 1 .. 9 /\ 2 * k - 1 \in 1 .. 8 /\ 2 * k \in 1 .. 8
        /\ 1 + (2 * k - 1) = 2 * k /\ 1 + 2 * k = 2 * k + 1
    OBVIOUS
  <2>2. body[1 + (2 * k - 1)] = dig[2 * k - 1] /\ body[1 + 2 * k] = dig[2 * k]
    BY <1>5, <2>1, Zenon
  <2>3. s[2 * k] = body[2 * k] /\ s[2 * k + 1] = body[2 * k + 1]
    BY <1>11, <2>1, Zenon
  <2>4. dig[2 * k - 1] = M!DEC2HEX(v[k] \div 16) /\ dig[2 * k] = M!DEC2HEX(v[k] % 16)
    BY <1>4, Zenon
  <2> QED
    BY <2>1, <2>2, <2>3, <2>4, Zenon
<1>14. \A k \in 0 .. 3 : s[13 - k] = M!DEC2HEX(M!Nibble(M!compute_crc(s), k))
  <2> TAKE k \in 0 .. 3
  <2>1. 4 - k \in 1 .. 4 /\ 9 + (4 - k) = 13 - k /\ 4 - (4 - k) = k
    OBVIOUS
  <2>2. s[9 + (4 - k)] = four[4 - k] /\ four[4 - k] = M!DEC2HEX(M!Nibble(crc, 4 - (4 - k)))
    BY <1>10, <1>11, <2>1, Zenon
  <2> QED
    BY <1>12, <2>1, <2>2, Zenon
<1>15. s[1] = M!MSG_BEGIN_CHAR
  BY <1>5, <1>11
<1> QED
  BY <1>11, <1>13, <1>14, <1>15, Zenon DEF s

-----------------------------------------------------------------------------
(* What a wrong bit makes of the register.                                 *)

(* A step as a set, for registers that are written out.                    *)
LEMMA StepIs ==
    ASSUME NEW c \in Word
    PROVE  Step(c) = {i \in 0 .. 15 : i + 1 \in c <=> ~ (0 \in c /\ i \in {0, 13, 15})}
<1>1. \A i \in 0 .. 15 : i \in Step(c) <=> (i + 1 \in c <=> ~ (0 \in c /\ i \in {0, 13, 15}))
  BY StepBits, Zenon DEF M!Polynomial
<1> QED
  BY <1>1, StepBits DEF Word
(* What one wrong bit has made of the register one step after it left the  *)
(* register's lowest place, two steps after, and so on.                    *)
Burst == <<
    {0, 13, 15}, {0, 12, 13, 14, 15}, {0, 11, 12, 14, 15}, {0, 10, 11, 14, 15},
    {0, 9, 10, 14, 15}, {0, 8, 9, 14, 15}, {0, 7, 8, 14, 15}, {0, 6, 7, 14, 15},
    {0, 5, 6, 14, 15}, {0, 4, 5, 14, 15}, {0, 3, 4, 14, 15}, {0, 2, 3, 14, 15},
    {0, 1, 2, 14, 15}, {1, 14, 15}, {0, 13, 14}, {0, 12, 15}, {0, 11, 13, 14, 15},
    {0, 10, 12, 14, 15}, {0, 9, 11, 14, 15}, {0, 8, 10, 14, 15}, {0, 7, 9, 14, 15},
    {0, 6, 8, 14, 15}, {0, 5, 7, 14, 15}, {0, 4, 6, 14, 15}, {0, 3, 5, 14, 15},
    {0, 2, 4, 14, 15}, {0, 1, 3, 14, 15}, {2, 14, 15}, {1, 13, 14}, {0, 12, 13},
    {0, 11, 12, 13, 15}, {0, 10, 11, 12, 13, 14, 15}, {0, 9, 10, 11, 12, 14, 15},
    {0, 8, 9, 10, 11, 14, 15}, {0, 7, 8, 9, 10, 14, 15}, {0, 6, 7, 8, 9, 14, 15},
    {0, 5, 6, 7, 8, 14, 15}, {0, 4, 5, 6, 7, 14, 15}, {0, 3, 4, 5, 6, 14, 15},
    {0, 2, 3, 4, 5, 14, 15}, {0, 1, 2, 3, 4, 14, 15}, {1, 2, 3, 14, 15},
    {0, 1, 2, 13, 14}, {1, 12, 15}, {0, 11, 14}, {0, 10, 15}, {0, 9, 13, 14, 15},
    {0, 8, 12, 14, 15}, {0, 7, 11, 14, 15}, {0, 6, 10, 14, 15}, {0, 5, 9, 14, 15},
    {0, 4, 8, 14, 15}, {0, 3, 7, 14, 15}, {0, 2, 6, 14, 15}, {0, 1, 5, 14, 15},
    {4, 14, 15}, {3, 13, 14}, {2, 12, 13}, {1, 11, 12}, {0, 10, 11},
    {0, 9, 10, 13, 15}, {0, 8, 9, 12, 13, 14, 15}, {0, 7, 8, 11, 12, 14, 15},
    {0, 6, 7, 10, 11, 14, 15} >>

(* It is never confined to one nibble.                                     *)
Wide(x) == (\E i \in x : i <= 4) /\ (\E i \in x : i >= 10)

(* The table is what the steps make, and no entry is within one nibble.    *)
LEMMA BurstTable ==
    /\ Burst \in [1 .. 64 -> Word]
    /\ Burst[1] = {0, 13, 15}
    /\ \A m \in 1 .. 63 : Burst[m + 1] = Step(Burst[m])
    /\ \A m \in 1 .. 64 : Wide(Burst[m])
<1> DEFINE Follows(m) == Burst[m + 1] = Step(Burst[m]) /\ Wide(Burst[m])
<1>0. Burst \in [1 .. 64 -> Word] /\ Burst[1] = {0, 13, 15}
  BY SMT DEF Burst, Word
<1>1. Burst[2] = Step(Burst[1]) /\ Wide(Burst[1])
  BY StepIs, SMT DEF Burst, Wide, Word
<1>2. Burst[3] = Step(Burst[2]) /\ Wide(Burst[2])
  BY StepIs, SMT DEF Burst, Wide, Word
<1>3. Burst[4] = Step(Burst[3]) /\ Wide(Burst[3])
  BY StepIs, SMT DEF Burst, Wide, Word
<1>4. Burst[5] = Step(Burst[4]) /\ Wide(Burst[4])
  BY StepIs, SMT DEF Burst, Wide, Word
<1>5. Burst[6] = Step(Burst[5]) /\ Wide(Burst[5])
  BY StepIs, SMT DEF Burst, Wide, Word
<1>6. Burst[7] = Step(Burst[6]) /\ Wide(Burst[6])
  BY StepIs, SMT DEF Burst, Wide, Word
<1>7. Burst[8] = Step(Burst[7]) /\ Wide(Burst[7])
  BY StepIs, SMT DEF Burst, Wide, Word
<1>8. Burst[9] = Step(Burst[8]) /\ Wide(Burst[8])
  BY StepIs, SMT DEF Burst, Wide, Word
<1>9. Burst[10] = Step(Burst[9]) /\ Wide(Burst[9])
  BY StepIs, SMT DEF Burst, Wide, Word
<1>10. Burst[11] = Step(Burst[10]) /\ Wide(Burst[10])
  BY StepIs, SMT DEF Burst, Wide, Word
<1>11. Burst[12] = Step(Burst[11]) /\ Wide(Burst[11])
  BY StepIs, SMT DEF Burst, Wide, Word
<1>12. Burst[13] = Step(Burst[12]) /\ Wide(Burst[12])
  BY StepIs, SMT DEF Burst, Wide, Word
<1>13. Burst[14] = Step(Burst[13]) /\ Wide(Burst[13])
  BY StepIs, SMT DEF Burst, Wide, Word
<1>14. Burst[15] = Step(Burst[14]) /\ Wide(Burst[14])
  BY StepIs, SMT DEF Burst, Wide, Word
<1>15. Burst[16] = Step(Burst[15]) /\ Wide(Burst[15])
  BY StepIs, SMT DEF Burst, Wide, Word
<1>16. Burst[17] = Step(Burst[16]) /\ Wide(Burst[16])
  BY StepIs, SMT DEF Burst, Wide, Word
<1>17. Burst[18] = Step(Burst[17]) /\ Wide(Burst[17])
  BY StepIs, SMT DEF Burst, Wide, Word
<1>18. Burst[19] = Step(Burst[18]) /\ Wide(Burst[18])
  BY StepIs, SMT DEF Burst, Wide, Word
<1>19. Burst[20] = Step(Burst[19]) /\ Wide(Burst[19])
  BY StepIs, SMT DEF Burst, Wide, Word
<1>20. Burst[21] = Step(Burst[20]) /\ Wide(Burst[20])
  BY StepIs, SMT DEF Burst, Wide, Word
<1>21. Burst[22] = Step(Burst[21]) /\ Wide(Burst[21])
  BY StepIs, SMT DEF Burst, Wide, Word
<1>22. Burst[23] = Step(Burst[22]) /\ Wide(Burst[22])
  BY StepIs, SMT DEF Burst, Wide, Word
<1>23. Burst[24] = Step(Burst[23]) /\ Wide(Burst[23])
  BY StepIs, SMT DEF Burst, Wide, Word
<1>24. Burst[25] = Step(Burst[24]) /\ Wide(Burst[24])
  BY StepIs, SMT DEF Burst, Wide, Word
<1>25. Burst[26] = Step(Burst[25]) /\ Wide(Burst[25])
  BY StepIs, SMT DEF Burst, Wide, Word
<1>26. Burst[27] = Step(Burst[26]) /\ Wide(Burst[26])
  <2>1. Burst[27] = Step(Burst[26])
    BY StepIs, SMT DEF Burst, Word
  <2>2. 0 \in Burst[26] /\ 15 \in Burst[26]
    BY SMT DEF Burst
  <2> QED
    BY <2>1, <2>2 DEF Wide
<1>27. Burst[28] = Step(Burst[27]) /\ Wide(Burst[27])
  BY StepIs, SMT DEF Burst, Wide, Word
<1>28. Burst[29] = Step(Burst[28]) /\ Wide(Burst[28])
  BY StepIs, SMT DEF Burst, Wide, Word
<1>29. Burst[30] = Step(Burst[29]) /\ Wide(Burst[29])
  BY StepIs, SMT DEF Burst, Wide, Word
<1>30. Burst[31] = Step(Burst[30]) /\ Wide(Burst[30])
  BY StepIs, SMT DEF Burst, Wide, Word
<1>31. Burst[32] = Step(Burst[31]) /\ Wide(Burst[31])
  BY StepIs, SMT DEF Burst, Wide, Word
<1>32. Burst[33] = Step(Burst[32]) /\ Wide(Burst[32])
  BY StepIs, SMT DEF Burst, Wide, Word
<1>33. Burst[34] = Step(Burst[33]) /\ Wide(Burst[33])
  BY StepIs, SMT DEF Burst, Wide, Word
<1>34. Burst[35] = Step(Burst[34]) /\ Wide(Burst[34])
  BY StepIs, SMT DEF Burst, Wide, Word
<1>35. Burst[36] = Step(Burst[35]) /\ Wide(Burst[35])
  BY StepIs, SMT DEF Burst, Wide, Word
<1>36. Burst[37] = Step(Burst[36]) /\ Wide(Burst[36])
  BY StepIs, SMT DEF Burst, Wide, Word
<1>37. Burst[38] = Step(Burst[37]) /\ Wide(Burst[37])
  BY StepIs, SMT DEF Burst, Wide, Word
<1>38. Burst[39] = Step(Burst[38]) /\ Wide(Burst[38])
  BY StepIs, SMT DEF Burst, Wide, Word
<1>39. Burst[40] = Step(Burst[39]) /\ Wide(Burst[39])
  BY StepIs, SMT DEF Burst, Wide, Word
<1>40. Burst[41] = Step(Burst[40]) /\ Wide(Burst[40])
  BY StepIs, SMT DEF Burst, Wide, Word
<1>41. Burst[42] = Step(Burst[41]) /\ Wide(Burst[41])
  BY StepIs, SMT DEF Burst, Wide, Word
<1>42. Burst[43] = Step(Burst[42]) /\ Wide(Burst[42])
  BY StepIs, SMT DEF Burst, Wide, Word
<1>43. Burst[44] = Step(Burst[43]) /\ Wide(Burst[43])
  BY StepIs, SMT DEF Burst, Wide, Word
<1>44. Burst[45] = Step(Burst[44]) /\ Wide(Burst[44])
  BY StepIs, SMT DEF Burst, Wide, Word
<1>45. Burst[46] = Step(Burst[45]) /\ Wide(Burst[45])
  BY StepIs, SMT DEF Burst, Wide, Word
<1>46. Burst[47] = Step(Burst[46]) /\ Wide(Burst[46])
  BY StepIs, SMT DEF Burst, Wide, Word
<1>47. Burst[48] = Step(Burst[47]) /\ Wide(Burst[47])
  BY StepIs, SMT DEF Burst, Wide, Word
<1>48. Burst[49] = Step(Burst[48]) /\ Wide(Burst[48])
  BY StepIs, SMT DEF Burst, Wide, Word
<1>49. Burst[50] = Step(Burst[49]) /\ Wide(Burst[49])
  BY StepIs, SMT DEF Burst, Wide, Word
<1>50. Burst[51] = Step(Burst[50]) /\ Wide(Burst[50])
  BY StepIs, SMT DEF Burst, Wide, Word
<1>51. Burst[52] = Step(Burst[51]) /\ Wide(Burst[51])
  <2>1. Burst[52] = Step(Burst[51])
    BY StepIs, SMT DEF Burst, Word
  <2>2. 0 \in Burst[51] /\ 15 \in Burst[51]
    BY SMT DEF Burst
  <2> QED
    BY <2>1, <2>2 DEF Wide
<1>52. Burst[53] = Step(Burst[52]) /\ Wide(Burst[52])
  BY StepIs, SMT DEF Burst, Wide, Word
<1>53. Burst[54] = Step(Burst[53]) /\ Wide(Burst[53])
  BY StepIs, SMT DEF Burst, Wide, Word
<1>54. Burst[55] = Step(Burst[54]) /\ Wide(Burst[54])
  BY StepIs, SMT DEF Burst, Wide, Word
<1>55. Burst[56] = Step(Burst[55]) /\ Wide(Burst[55])
  BY StepIs, SMT DEF Burst, Wide, Word
<1>56. Burst[57] = Step(Burst[56]) /\ Wide(Burst[56])
  BY StepIs, SMT DEF Burst, Wide, Word
<1>57. Burst[58] = Step(Burst[57]) /\ Wide(Burst[57])
  BY StepIs, SMT DEF Burst, Wide, Word
<1>58. Burst[59] = Step(Burst[58]) /\ Wide(Burst[58])
  BY StepIs, SMT DEF Burst, Wide, Word
<1>59. Burst[60] = Step(Burst[59]) /\ Wide(Burst[59])
  BY StepIs, SMT DEF Burst, Wide, Word
<1>60. Burst[61] = Step(Burst[60]) /\ Wide(Burst[60])
  BY StepIs, SMT DEF Burst, Wide, Word
<1>61. Burst[62] = Step(Burst[61]) /\ Wide(Burst[61])
  BY StepIs, SMT DEF Burst, Wide, Word
<1>62. Burst[63] = Step(Burst[62]) /\ Wide(Burst[62])
  BY StepIs, SMT DEF Burst, Wide, Word
<1>63. Burst[64] = Step(Burst[63]) /\ Wide(Burst[63])
  BY StepIs, SMT DEF Burst, Wide, Word
<1>64. Wide(Burst[64])
  BY SMTT(30) DEF Burst, Wide
<1>65. \A m \in 1 .. 63 : Follows(m)
  <2> TAKE m \in 1 .. 63
  <2>1. \/ m = 1 \/ m = 2 \/ m = 3 \/ m = 4 \/ m = 5 \/ m = 6 \/ m = 7 \/ m = 8
        \/ m = 9 \/ m = 10 \/ m = 11 \/ m = 12 \/ m = 13 \/ m = 14 \/ m = 15 \/ m = 16
        \/ m = 17 \/ m = 18 \/ m = 19 \/ m = 20 \/ m = 21 \/ m = 22 \/ m = 23 \/ m = 24
        \/ m = 25 \/ m = 26 \/ m = 27 \/ m = 28 \/ m = 29 \/ m = 30 \/ m = 31 \/ m = 32
        \/ m = 33 \/ m = 34 \/ m = 35 \/ m = 36 \/ m = 37 \/ m = 38 \/ m = 39 \/ m = 40
        \/ m = 41 \/ m = 42 \/ m = 43 \/ m = 44 \/ m = 45 \/ m = 46 \/ m = 47 \/ m = 48
        \/ m = 49 \/ m = 50 \/ m = 51 \/ m = 52 \/ m = 53 \/ m = 54 \/ m = 55 \/ m = 56
        \/ m = 57 \/ m = 58 \/ m = 59 \/ m = 60 \/ m = 61 \/ m = 62 \/ m = 63
    OBVIOUS
  <2> QED
    BY <2>1, <1>1, <1>2, <1>3, <1>4, <1>5, <1>6, <1>7, <1>8, <1>9, <1>10,
       <1>11, <1>12, <1>13, <1>14, <1>15, <1>16, <1>17, <1>18, <1>19, <1>20,
       <1>21, <1>22, <1>23, <1>24, <1>25, <1>26, <1>27, <1>28, <1>29, <1>30,
       <1>31, <1>32, <1>33, <1>34, <1>35, <1>36, <1>37, <1>38, <1>39, <1>40,
       <1>41, <1>42, <1>43, <1>44, <1>45, <1>46, <1>47, <1>48, <1>49, <1>50,
       <1>51, <1>52, <1>53, <1>54, <1>55, <1>56, <1>57, <1>58, <1>59, <1>60,
       <1>61, <1>62, <1>63
<1> QED
  BY <1>0, <1>64, <1>65

(* The steps after a character carry it on ...                             *)
LEMMA LaterBurst ==
    ASSUME NEW m \in 1 .. 56
    PROVE  Step8(Burst[m]) = Burst[m + 8]
<1>1. /\ m \in 1 .. 63 /\ m + 1 \in 1 .. 63 /\ m + 2 \in 1 .. 63 /\ m + 3 \in 1 .. 63
      /\ m + 4 \in 1 .. 63 /\ m + 5 \in 1 .. 63 /\ m + 6 \in 1 .. 63 /\ m + 7 \in 1 .. 63
      /\ (m + 1) + 1 = m + 2 /\ (m + 2) + 1 = m + 3 /\ (m + 3) + 1 = m + 4
      /\ (m + 4) + 1 = m + 5 /\ (m + 5) + 1 = m + 6 /\ (m + 6) + 1 = m + 7
      /\ (m + 7) + 1 = m + 8
  OBVIOUS
<1>2. \A k \in 1 .. 63 : Step(Burst[k]) = Burst[k + 1]
  BY BurstTable
<1>3. /\ Step(Burst[m]) = Burst[m + 1] /\ Step(Burst[m + 1]) = Burst[m + 2]
      /\ Step(Burst[m + 2]) = Burst[m + 3] /\ Step(Burst[m + 3]) = Burst[m + 4]
      /\ Step(Burst[m + 4]) = Burst[m + 5] /\ Step(Burst[m + 5]) = Burst[m + 6]
      /\ Step(Burst[m + 6]) = Burst[m + 7] /\ Step(Burst[m + 7]) = Burst[m + 8]
  BY <1>1, <1>2, Zenon
<1> QED
  BY <1>3, Zenon DEF Step8

(* ... and those after the character with the wrong bit begin it.          *)
LEMMA FirstBurst ==
    ASSUME NEW b \in 0 .. 6
    PROVE  Step8({b}) = Burst[8 - b]
<1>1. \A k \in 1 .. 63 : Step(Burst[k]) = Burst[k + 1]
  BY BurstTable
<1>2. /\ Step(Burst[1]) = Burst[2] /\ Step(Burst[2]) = Burst[3] /\ Step(Burst[3]) = Burst[4]
      /\ Step(Burst[4]) = Burst[5] /\ Step(Burst[5]) = Burst[6] /\ Step(Burst[6]) = Burst[7]
      /\ Step(Burst[7]) = Burst[8]
  BY <1>1
<1>3. Step({0}) = Burst[1]
  BY StepIs, BurstTable, SMT DEF Word
<1>4. Step({1}) = {0}
  BY StepIs, SMT DEF Word
<1>5. Step({2}) = {1}
  BY StepIs, SMT DEF Word
<1>6. Step({3}) = {2}
  BY StepIs, SMT DEF Word
<1>7. Step({4}) = {3}
  BY StepIs, SMT DEF Word
<1>8. Step({5}) = {4}
  BY StepIs, SMT DEF Word
<1>9. Step({6}) = {5}
  BY StepIs, SMT DEF Word
<1>b0. Step8({0}) = Burst[8]
  BY <1>2, <1>3, Zenon DEF Step8
<1>b1. Step8({1}) = Burst[7]
  BY <1>2, <1>3, <1>4, Zenon DEF Step8
<1>b2. Step8({2}) = Burst[6]
  BY <1>2, <1>3, <1>4, <1>5, Zenon DEF Step8
<1>b3. Step8({3}) = Burst[5]
  BY <1>2, <1>3, <1>4, <1>5, <1>6, SMT DEF Step8
<1>b4. Step8({4}) = Burst[4]
  BY <1>2, <1>3, <1>4, <1>5, <1>6, <1>7, SMT DEF Step8
<1>b5. Step8({5}) = Burst[3]
  BY <1>2, <1>3, <1>4, <1>5, <1>6, <1>7, <1>8, SMT DEF Step8
<1>b6. Step8({6}) = Burst[2]
  BY <1>2, <1>3, <1>4, <1>5, <1>6, <1>7, <1>8, <1>9, SMT DEF Step8
<1>10. /\ b = 0 => 8 - b = 8 
       /\ b = 1 => 8 - b = 7
       /\ b = 2 => 8 - b = 6
       /\ b = 3 => 8 - b = 5
       /\ b = 4 => 8 - b = 4
       /\ b = 5 => 8 - b = 3
       /\ b = 6 => 8 - b = 2
       /\ b = 0 \/ b = 1 \/ b = 2 \/ b = 3 \/ b = 4 \/ b = 5 \/ b = 6
  OBVIOUS
<1> QED
  BY <1>b0, <1>b1, <1>b2, <1>b3, <1>b4, <1>b5, <1>b6, <1>10, Zenon

-----------------------------------------------------------------------------
(* Two texts.                                                              *)
Apart(s, t, k) == Xor(Registers(s)[k], Registers(t)[k])

(* As long as the characters are the same, so are the registers.           *)
LEMMA SamePrefix ==
    ASSUME NEW s \in Text, NEW t \in Text, NEW p \in 1 .. 9, \A k \in 2 .. p : s[k] = t[k]
    PROVE  Registers(s)[p] = Registers(t)[p]
<1> DEFINE R == Registers(s)
           Q == Registers(t)
<1>1. R[1] = Q[1]
  BY RegisterSteps, Zenon
<1>2. \A k \in 1 .. 8 : k + 1 <= p /\ R[k] = Q[k] => R[k + 1] = Q[k + 1]
  <2> TAKE k \in 1 .. 8
  <2> HAVE k + 1 <= p /\ R[k] = Q[k]
  <2>1. k + 1 \in 2 .. p
    OBVIOUS
  <2>2. R[k + 1] = Update(R[k], s[k + 1]) /\ Q[k + 1] = Update(Q[k], t[k + 1])
    BY RegisterSteps, Zenon
  <2> QED
    BY <2>1, <2>2, Zenon
<1> HIDE DEF R, Q
<1>3. p >= 2 => R[2] = Q[2]
  BY <1>1, <1>2
<1>4. p >= 3 => R[3] = Q[3]
  BY <1>2, <1>3
<1>5. p >= 4 => R[4] = Q[4]
  BY <1>2, <1>4
<1>6. p >= 5 => R[5] = Q[5]
  BY <1>2, <1>5
<1>7. p >= 6 => R[6] = Q[6]
  BY <1>2, <1>6
<1>8. p >= 7 => R[7] = Q[7]
  BY <1>2, <1>7
<1>9. p >= 8 => R[8] = Q[8]
  BY <1>2, <1>8
<1>10. p >= 9 => R[9] = Q[9]
  BY <1>2, <1>9
<1>11. p = 1 \/ p = 2 \/ p = 3 \/ p = 4 \/ p = 5 \/ p = 6 \/ p = 7 \/ p = 8 \/ p = 9
  OBVIOUS
<1> QED
  BY <1>1, <1>3, <1>4, <1>5, <1>6, <1>7, <1>8, <1>9, <1>10, <1>11 DEF R, Q

(* Once they differ, the same characters do not make them equal again.     *)
LEMMA SameSuffix ==
    ASSUME NEW s \in Text, NEW t \in Text, NEW p \in 1 .. 9, \A k \in p + 1 .. 9 : s[k] = t[k],
           Registers(s)[p] # Registers(t)[p]
    PROVE  M!compute_crc(s) # M!compute_crc(t)
<1> DEFINE R == Registers(s)
           Q == Registers(t)
<1>1. \A k \in 1 .. 8 : k >= p /\ R[k] # Q[k] => R[k + 1] # Q[k + 1]
  <2> TAKE k \in 1 .. 8
  <2> HAVE k >= p /\ R[k] # Q[k]
  <2>1. k + 1 \in p + 1 .. 9 /\ k + 1 \in 1 .. 14 /\ k \in 1 .. 9
    OBVIOUS
  <2>2. R[k + 1] = Update(R[k], s[k + 1]) /\ Q[k + 1] = Update(Q[k], t[k + 1])
    BY RegisterSteps, Zenon
  <2>3. R[k] \in Word /\ Q[k] \in Word
    BY <2>1, RegisterSteps, Zenon
  <2>4. s[k + 1] = t[k + 1] /\ s[k + 1] \in M!Byte /\ t[k + 1] \in M!Byte
    BY <2>1, Zenon DEF Text
  <2> QED
    <3>1. \A a, b \in Word : \A c \in M!Byte : Update(a, c) = Update(b, c) => a = b
      BY Spread
    <3> QED
      BY <2>2, <2>3, <2>4, <3>1, Zenon
<1> HIDE DEF R, Q
<1>2. R[p] # Q[p]
  BY DEF R, Q
<1>3. p <= 1 => R[1] # Q[1]
  BY <1>2
<1>4. p <= 2 => R[2] # Q[2]
  BY <1>1, <1>2, <1>3
<1>5. p <= 3 => R[3] # Q[3]
  BY <1>1, <1>2, <1>4
<1>6. p <= 4 => R[4] # Q[4]
  BY <1>1, <1>2, <1>5
<1>7. p <= 5 => R[5] # Q[5]
  BY <1>1, <1>2, <1>6
<1>8. p <= 6 => R[6] # Q[6]
  BY <1>1, <1>2, <1>7
<1>9. p <= 7 => R[7] # Q[7]
  BY <1>1, <1>2, <1>8
<1>10. p <= 8 => R[8] # Q[8]
  BY <1>1, <1>2, <1>9
<1>11. R[9] # Q[9]
  BY <1>1, <1>2, <1>10
<1> QED
  BY <1>11, RegisterSteps, Zenon DEF R, Q

(* Nothing is apart when two sets are the same.                            *)
LEMMA XorEmpty ==
    ASSUME NEW a, NEW b
    PROVE  Xor(a, b) = {} <=> a = b
  BY XorFacts

(* The characters of a text are bytes, its registers words.                *)
LEMMA Typed ==
    ASSUME NEW s \in Text
    PROVE  /\ \A k \in 1 .. 14 : s[k] \in M!Byte
           /\ \A k \in 1 .. 9 : Registers(s)[k] \in Word
  BY RegisterSteps DEF Text

(* A wrong character of the body is noticed.                               *)
LEMMA OneInBody ==
    ASSUME NEW s \in Text, NEW t \in Text, NEW p \in 2 .. 9, s[p] # t[p],
           \A k \in 2 .. 9 : k # p => s[k] = t[k]
    PROVE  M!compute_crc(s) # M!compute_crc(t)
<1> DEFINE R == Registers(s)
           Q == Registers(t)
<1>1. p - 1 \in 1 .. 9 /\ p - 1 \in 1 .. 8 /\ (p - 1) + 1 = p /\ p \in 1 .. 9 /\ p \in 1 .. 14
  OBVIOUS
<1>2. R[p - 1] = Q[p - 1]
  <2>1. \A k \in 2 .. p - 1 : s[k] = t[k]
    OBVIOUS
  <2> QED
    BY <1>1, <2>1, SamePrefix
<1>3. R[p] = Update(R[p - 1], s[p]) /\ Q[p] = Update(Q[p - 1], t[p])
  BY <1>1, RegisterSteps
<1>4. R[p - 1] \in Word /\ s[p] \in M!Byte /\ t[p] \in M!Byte
  BY <1>1, Typed
<1>5. R[p] # Q[p]
  <2>1. \A a \in Word : \A c, d \in M!Byte : Update(a, c) = Update(a, d) => c = d
    BY Spread
  <2> QED
    BY <1>2, <1>3, <1>4, <2>1, Zenon
<1>6. \A k \in p + 1 .. 9 : s[k] = t[k]
  OBVIOUS
<1> QED
  BY <1>1, <1>5, <1>6, SameSuffix

(* How far apart a wrong bit brings the registers.                         *)
LEMMA BurstAfter ==
    ASSUME NEW s \in Text, NEW t \in Text, NEW p \in 2 .. 9, NEW q \in p .. 9, NEW b \in 0 .. 6,
           BitsOf8(t[p]) = Xor(BitsOf8(s[p]), {b}),
           \A k \in 2 .. q : k # p => s[k] = t[k]
    PROVE  Apart(s, t, q) = Burst[8 * (q - p) + (8 - b)]
<1> DEFINE R == Registers(s)
           Q == Registers(t)
<1>1. p - 1 \in 1 .. 9 /\ p - 1 \in 1 .. 8 /\ (p - 1) + 1 = p /\ p \in 1 .. 14
  OBVIOUS
<1>2. R[p - 1] = Q[p - 1]
  <2>1. \A k \in 2 .. p - 1 : s[k] = t[k]
    OBVIOUS
  <2> QED
    BY <1>1, <2>1, SamePrefix
<1>3. R[p] = Update(R[p - 1], s[p]) /\ Q[p] = Update(Q[p - 1], t[p])
  BY <1>1, RegisterSteps
<1>4. R[p - 1] \in Word /\ Q[p - 1] \in Word /\ s[p] \in M!Byte /\ t[p] \in M!Byte
  BY <1>1, Typed
<1>5. \A a, d \in Word : \A c, e \in M!Byte :
         Xor(Update(a, c), Update(d, e)) = Step8(Xor(Xor(a, d), Xor(BitsOf8(c), BitsOf8(e))))
  BY Spread
<1>6. Apart(s, t, p) = Burst[8 - b]
  <2>1. Apart(s, t, p) = Step8(Xor(Xor(R[p - 1], Q[p - 1]), Xor(BitsOf8(s[p]), BitsOf8(t[p]))))
    <3>1. Apart(s, t, p) = Xor(R[p], Q[p])
      BY Zenon DEF Apart
    <3> HIDE DEF R, Q
    <3> QED
      BY <1>3, <1>4, <1>5, <3>1
  <2>2. ASSUME NEW a, NEW x
        PROVE  Xor(Xor(a, a), Xor(x, Xor(x, {b}))) = {b}
    BY SMT DEF Xor, M!Xor
  <2>3. Apart(s, t, p) = Step8({b})
    BY <1>2, <2>1, <2>2, Zenon
  <2> QED
    BY <2>3, FirstBurst, Zenon
<1>7. \A k \in p .. q - 1 : Apart(s, t, k + 1) = Step8(Apart(s, t, k))
  <2> TAKE k \in p .. q - 1
  <2>1. k \in 1 .. 8 /\ k \in 1 .. 9 /\ k + 1 \in 1 .. 14 /\ k + 1 \in 2 .. q /\ k + 1 # p
    OBVIOUS
  <2>2. R[k + 1] = Update(R[k], s[k + 1]) /\ Q[k + 1] = Update(Q[k], s[k + 1])
    BY <2>1, RegisterSteps, Zenon
  <2>3. R[k] \in Word /\ Q[k] \in Word /\ s[k + 1] \in M!Byte
    BY <2>1, Typed, Zenon
  <2> DEFINE x == BitsOf8(s[k + 1])
  <2>4. Apart(s, t, k + 1) = Step8(Xor(Xor(R[k], Q[k]), Xor(x, x)))
    <3>1. Apart(s, t, k + 1) = Xor(R[k + 1], Q[k + 1])
      BY Zenon DEF Apart
    <3> HIDE DEF R, Q
    <3> QED
      BY <1>5, <2>2, <2>3, <3>1
  <2> HIDE DEF x
  <2>5. ASSUME NEW y
        PROVE  Xor(y, Xor(x, x)) = y
    BY SMT DEF Xor, M!Xor
  <2> QED
    BY <2>4, <2>5, Zenon DEF Apart
<1> DEFINE A(n) == Apart(s, t, p + n) = Burst[8 * n + (8 - b)]
<1>8. A(0)
  <2>1. p + 0 = p /\ 8 * 0 + (8 - b) = 8 - b
    OBVIOUS
  <2> QED
    BY <1>6, <2>1, Zenon
<1>9. \A n \in 0 .. 6 : n < q - p /\ A(n) => A(n + 1)
  <2> TAKE n \in 0 .. 6
  <2> HAVE n < q - p /\ A(n)
  <2>1. p + n \in p .. q - 1 /\ (p + n) + 1 = p + (n + 1)
    OBVIOUS
  <2>2. 8 * n + (8 - b) \in 1 .. 56 /\ (8 * n + (8 - b)) + 8 = 8 * (n + 1) + (8 - b)
    OBVIOUS
  <2>3. Apart(s, t, p + (n + 1)) = Step8(Apart(s, t, p + n))
    BY <1>7, <2>1
  <2>4. Step8(Burst[8 * n + (8 - b)]) = Burst[8 * (n + 1) + (8 - b)]
    BY <2>2, LaterBurst
  <2> QED
    BY <2>3, <2>4
<1> HIDE DEF A
<1>10. /\ q - p >= 1 => A(1)
       /\ q - p >= 2 => A(2)
       /\ q - p >= 3 => A(3)
       /\ q - p >= 4 => A(4)
       /\ q - p >= 5 => A(5)
       /\ q - p >= 6 => A(6)
       /\ q - p >= 7 => A(7)
  BY <1>8, <1>9
<1>11. A(q - p)
  <2>1. /\ q - p = 0 \/ q - p = 1 \/ q - p = 2 \/ q - p = 3 \/ q - p = 4 \/ q - p = 5
           \/ q - p = 6 \/ q - p = 7
    OBVIOUS
  <2> QED
    BY <1>8, <1>10, <2>1
<1>12. p + (q - p) = q
  OBVIOUS
<1> QED
  BY <1>11, <1>12, Zenon DEF A

(* Two wrong bits in two characters of the body are noticed: the second    *)
(* cannot undo what the first has spread.                                  *)
LEMMA TwoInBody ==
    ASSUME NEW s \in Text, NEW t \in Text, NEW p \in 2 .. 8, NEW q \in p + 1 .. 9,
           NEW b \in 0 .. 6, NEW d \in 0 .. 6,
           BitsOf8(t[p]) = Xor(BitsOf8(s[p]), {b}), BitsOf8(t[q]) = Xor(BitsOf8(s[q]), {d}),
           \A k \in 2 .. 9 : k # p /\ k # q => s[k] = t[k]
    PROVE  M!compute_crc(s) # M!compute_crc(t)
<1> DEFINE R == Registers(s)
           Q == Registers(t)
           m == 8 * ((q - 1) - p) + (8 - b)
<1>1. Apart(s, t, q - 1) = Burst[m]
  <2>1. p \in 2 .. 9 /\ q - 1 \in p .. 9
    OBVIOUS
  <2>2. \A k \in 2 .. q - 1 : k # p => s[k] = t[k]
    OBVIOUS
  <2> QED
    BY <2>1, <2>2, BurstAfter
<1>2. m \in 1 .. 64
  OBVIOUS
<1>3. Burst[m] \in Word /\ Wide(Burst[m])
  BY <1>2, BurstTable
<1> HIDE DEF m
<1>4. Burst[m] # {d}
  BY <1>3 DEF Wide
<1>5. /\ q - 1 \in 1 .. 8 /\ q - 1 \in 1 .. 9 /\ (q - 1) + 1 = q /\ q \in 1 .. 14 /\ q \in 1 .. 9
  OBVIOUS
<1>6. R[q] = Update(R[q - 1], s[q]) /\ Q[q] = Update(Q[q - 1], t[q])
  BY <1>5, RegisterSteps
<1>7. R[q - 1] \in Word /\ Q[q - 1] \in Word /\ s[q] \in M!Byte /\ t[q] \in M!Byte
  BY <1>5, Typed
<1>8. Xor(R[q], Q[q]) = Step8(Xor(Burst[m], {d}))
  <2>1. \A a, e \in Word : \A c, f \in M!Byte :
         Xor(Update(a, c), Update(e, f)) = Step8(Xor(Xor(a, e), Xor(BitsOf8(c), BitsOf8(f))))
    BY Spread
  <2>2. Xor(R[q], Q[q]) = Step8(Xor(Xor(R[q - 1], Q[q - 1]), Xor(BitsOf8(s[q]), BitsOf8(t[q]))))
    <3> HIDE DEF R, Q
    <3> QED
      BY <1>6, <1>7, <2>1
  <2>3. ASSUME NEW x
        PROVE  Xor(x, Xor(x, {d})) = {d}
    BY SMT DEF Xor, M!Xor
  <2> QED
    BY <1>1, <2>2, <2>3, Zenon DEF Apart
<1>9. R[q] # Q[q]
  <2>1. {d} \in Word /\ Xor({d}, {d}) = {}
    BY SMT DEF Word, Xor, M!Xor
  <2>2. {} \in Word
    BY DEF Word
  <2>3. SUFFICES ASSUME R[q] = Q[q] PROVE FALSE
    OBVIOUS
  <2>4. Step8(Xor(Burst[m], {d})) = {}
    <3>1. Xor(R[q], Q[q]) = {}
      BY <2>3, XorEmpty
    <3> QED
      BY <1>8, <3>1, Zenon
  <2>5. Step8({}) = {}
    <3>1. Step8(Xor({d}, {d})) = Xor(Step8({d}), Step8({d}))
      BY <2>1, Step8Facts, Zenon
    <3>2. Xor(Step8({d}), Step8({d})) = {}
      BY XorEmpty
    <3> QED
      BY <2>1, <3>1, <3>2, Zenon
  <2>6. Xor(Burst[m], {d}) \in Word
    <3>1. Burst[m] \in Word /\ {d} \in Word
      BY <1>3, <2>1, Zenon
    <3>2. \A a, x \in Word : Xor(a, x) \in Word
      BY XorFacts
    <3> QED
      BY <3>1, <3>2, Zenon
  <2>7. Xor(Burst[m], {d}) = {}
    BY <2>2, <2>4, <2>5, <2>6, Step8Facts, Zenon
  <2> QED
    BY <1>4, <2>7, XorEmpty
<1>10. \A k \in q + 1 .. 9 : s[k] = t[k]
  OBVIOUS
<1> QED
  BY <1>5, <1>9, <1>10, SameSuffix

(* A wrong bit in the body and a wrong character of the CRC are noticed:   *)
(* the bit changes more of the CRC than one of its digits.                 *)
LEMMA BodyAndCrc ==
    ASSUME NEW s \in Text, NEW t \in Text, NEW p \in 2 .. 9, NEW q \in 10 .. 13, NEW b \in 0 .. 6,
           BitsOf8(t[p]) = Xor(BitsOf8(s[p]), {b}),
           \A k \in 2 .. 13 : k # p /\ k # q => s[k] = t[k],
           M!get_crc(s) = M!compute_crc(s)
    PROVE  M!get_crc(t) # M!compute_crc(t)
<1> DEFINE m == 8 * (9 - p) + (8 - b)
<1>1. Apart(s, t, 9) = Burst[m]
  <2>1. 9 \in p .. 9
    OBVIOUS
  <2>2. \A k \in 2 .. 9 : k # p => s[k] = t[k]
    OBVIOUS
  <2> QED
    BY <2>1, <2>2, BurstAfter
<1>2. m \in 1 .. 64
  OBVIOUS
<1>3. Wide(Burst[m]) /\ Burst[m] \in Word
  BY <1>2, BurstTable
<1> HIDE DEF m
<1>4. Xor(M!compute_crc(s), M!compute_crc(t)) = Burst[m]
  BY <1>1, RegisterSteps, Zenon DEF Apart
<1>5. \A x \in Xor(M!get_crc(s), M!get_crc(t)) : x \div 4 = 13 - q
  <2>1. 13 - q \in 0 .. 3
    OBVIOUS
  <2>2. \A j \in 0 .. 3 \ {13 - q} : s[13 - j] = t[13 - j]
    OBVIOUS
  <2> QED
    BY <2>1, <2>2, CrcNibble
<1>6. SUFFICES ASSUME M!get_crc(t) = M!compute_crc(t) PROVE FALSE
  OBVIOUS
<1>7. \A x \in Burst[m] : x \div 4 = 13 - q
  BY <1>4, <1>5, <1>6, Zenon
<1>8. PICK i \in Burst[m] : i <= 4
  BY <1>3 DEF Wide
<1>9. PICK j \in Burst[m] : j >= 10
  BY <1>3 DEF Wide
<1>10. i \in 0 .. 4 /\ j \in 10 .. 15
  BY <1>3, <1>8, <1>9 DEF Word
<1>11. i \div 4 = j \div 4
  BY <1>7, <1>8, <1>9
<1>12. i \div 4 <= 1 /\ j \div 4 >= 2
  BY <1>10
<1> QED
  BY <1>10, <1>11, <1>12

-----------------------------------------------------------------------------
(* No message becomes another one.                                         *)

(* When a text is taken for a message.                                     *)
LEMMA Taken ==
    ASSUME NEW t \in Text
    PROVE  /\ M!get_bytes(t).ok
                <=> /\ t[1] = M!MSG_BEGIN_CHAR /\ t[14] = M!MSG_END_CHAR
                    /\ M!get_crc(t) = M!compute_crc(t)
           /\ M!get_bytes(t).ok =>
                M!get_bytes(t).vals = [k \in 1 .. 4 |-> 16 * M!HEX2DEC(t[2 * k]) + M!HEX2DEC(t[2 * k + 1])]
<1>1. Len(t) = 14
  BY DEF Text
<1>2. M!at(t, 0) = t[1] /\ M!at(t, 13) = t[14]
  BY CharAt
<1>3. \A k \in 1 .. 4 : M!at(t, 2 * k - 1) = t[2 * k] /\ M!at(t, 2 * k) = t[2 * k + 1]
  <2> TAKE k \in 1 .. 4
  <2>1. 2 * k - 1 \in 0 .. 13 /\ 2 * k \in 0 .. 13 /\ (2 * k - 1) + 1 = 2 * k
    OBVIOUS
  <2>2. \A i \in 0 .. 13 : M!at(t, i) = t[i + 1]
    BY CharAt
  <2> QED
    BY <2>1, <2>2, Zenon
<1> DEFINE Good == /\ t[1] = M!MSG_BEGIN_CHAR /\ t[14] = M!MSG_END_CHAR
                   /\ M!get_crc(t) = M!compute_crc(t)
<1>4. M!validate(t) = M!S_OK <=> Good
  BY <1>1, <1>2 DEF M!validate, M!MessageLen, M!S_OK, M!E_BAD_FRAME, M!E_BAD_CRC,
     M!S_INCOMPLETE_BUFFER
<1> HIDE DEF Good
<1>5. CASE Good
  <2>1. M!get_bytes(t) =
          [ok |-> TRUE,
           vals |-> [k \in 1 .. 4 |-> 16 * M!HEX2DEC(M!at(t, 2 * k - 1)) + M!HEX2DEC(M!at(t, 2 * k))]]
    BY <1>4, <1>5, Zenon DEF M!get_bytes
  <2>2. [k \in 1 .. 4 |-> 16 * M!HEX2DEC(M!at(t, 2 * k - 1)) + M!HEX2DEC(M!at(t, 2 * k))]
          = [k \in 1 .. 4 |-> 16 * M!HEX2DEC(t[2 * k]) + M!HEX2DEC(t[2 * k + 1])]
    BY <1>3, Zenon
  <2> DEFINE vals == [k \in 1 .. 4 |-> 16 * M!HEX2DEC(t[2 * k]) + M!HEX2DEC(t[2 * k + 1])]
  <2>3. M!get_bytes(t) = [ok |-> TRUE, vals |-> vals]
    BY <2>1, <2>2, Zenon
  <2> HIDE DEF vals
  <2>4. M!get_bytes(t).ok = TRUE /\ M!get_bytes(t).vals = vals
    BY <2>3
  <2> QED
    BY <1>5, <2>4, Zenon DEF Good, vals
<1>6. CASE ~ Good
  <2>1. M!get_bytes(t).ok = FALSE
    BY <1>4, <1>6, Zenon DEF M!get_bytes
  <2> QED
    BY <1>6, <2>1, Zenon DEF Good
<1> QED
  BY <1>5, <1>6

(* The text of a message carries the CRC of its body.                      *)
LEMMA Sent ==
    ASSUME NEW v \in [1 .. 4 -> M!Byte]
    PROVE  /\ M!set_bytes(v) \in Text
           /\ \A i \in 1 .. 14 : M!set_bytes(v)[i] \in 0 .. 127
           /\ M!get_crc(M!set_bytes(v)) = M!compute_crc(M!set_bytes(v))
<1> DEFINE s == M!set_bytes(v)
<1>1. /\ s \in [1 .. 14 -> 0 .. 127]
      /\ \A k \in 0 .. 3 : s[13 - k] = M!DEC2HEX(M!Nibble(M!compute_crc(s), k))
  BY TextOf, Zenon
<1> HIDE DEF s
<1>2. s \in Text
  BY <1>1 DEF Text, M!Byte
<1>3. M!compute_crc(s) \in Word
  BY <1>2, RegisterSteps
<1>4. M!get_crc(s) = M!compute_crc(s)
  BY <1>1, <1>2, <1>3, CrcBack
<1> QED
  BY <1>1, <1>2, <1>4 DEF s

(* A text that is taken and has the body of the message is taken for that  *)
(* message.                                                                *)
LEMMA SameBody ==
    ASSUME NEW v \in [1 .. 4 -> M!Byte], NEW t \in Text, M!get_bytes(t).ok,
           \A k \in 2 .. 9 : t[k] = M!set_bytes(v)[k]
    PROVE  M!get_bytes(t).vals = v
<1> DEFINE s == M!set_bytes(v)
<1>1. \A k \in 1 .. 4 : s[2 * k] = M!DEC2HEX(v[k] \div 16) /\ s[2 * k + 1] = M!DEC2HEX(v[k] % 16)
  BY TextOf, Zenon
<1> HIDE DEF s
<1>2. M!get_bytes(t).vals = [k \in 1 .. 4 |-> 16 * M!HEX2DEC(t[2 * k]) + M!HEX2DEC(t[2 * k + 1])]
  BY Taken, Zenon
<1>3. ASSUME NEW k \in 1 .. 4
      PROVE  16 * M!HEX2DEC(t[2 * k]) + M!HEX2DEC(t[2 * k + 1]) = v[k]
  <2>1. 2 * k \in 2 .. 9 /\ 2 * k + 1 \in 2 .. 9
    OBVIOUS
  <2>2. t[2 * k] = s[2 * k] /\ t[2 * k + 1] = s[2 * k + 1]
    BY <2>1, Zenon DEF s
  <2>3. v[k] \div 16 \in 0 .. 15 /\ v[k] % 16 \in 0 .. 15 /\ 16 * (v[k] \div 16) + (v[k] % 16) = v[k]
    <3>1. v[k] \in 0 .. 255
      BY DEF M!Byte
    <3> QED
      BY <3>1, Halves, Zenon
  <2>4. M!HEX2DEC(t[2 * k]) = v[k] \div 16 /\ M!HEX2DEC(t[2 * k + 1]) = v[k] % 16
    BY <1>1, <2>2, <2>3, DigitBack, Zenon
  <2> QED
    BY <2>3, <2>4, Zenon
<1>4. v = [k \in 1 .. 4 |-> v[k]]
  OBVIOUS
<1> QED
  BY <1>2, <1>3, <1>4, Zenon

-----------------------------------------------------------------------------
(* What the line may have made of a text, after no, one or two faults.     *)
OneFlip(s, t) == \E i \in 1 .. 14, b \in 0 .. 6 : t = [s EXCEPT ![i] = Flip(s[i], b)]
OneChar(s, t) == \E i \in 1 .. 14, c \in M!Byte : t = [s EXCEPT ![i] = c]
TwoFlips(s, t) ==
    \E i \in 1 .. 13 : \E j \in i + 1 .. 14 : \E b, d \in 0 .. 6 :
       t = [s EXCEPT ![i] = Flip(s[i], b), ![j] = Flip(s[j], d)]

(* One wrong character in a text is noticed or outside the body.           *)
LEMMA OneCharTaken ==
    ASSUME NEW v \in [1 .. 4 -> M!Byte], NEW t \in Text, OneChar(M!set_bytes(v), t),
           M!get_bytes(t).ok
    PROVE  \A k \in 2 .. 9 : t[k] = M!set_bytes(v)[k]
<1> DEFINE s == M!set_bytes(v)
<1>1. s \in Text /\ M!get_crc(s) = M!compute_crc(s)
  BY Sent
<1>2. PICK i \in 1 .. 14 : \E c \in M!Byte : t = [s EXCEPT ![i] = c]
  BY Zenon DEF OneChar
<1> HIDE DEF s
<1>3. \A k \in 1 .. 14 : k # i => s[k] = t[k]
  BY <1>1, <1>2 DEF Text
<1>4. CASE i \in 2 .. 9 /\ s[i] # t[i]
  <2>1. M!compute_crc(s) # M!compute_crc(t)
    <3>1. \A k \in 2 .. 9 : k # i => s[k] = t[k]
      BY <1>3
    <3> QED
      BY <1>1, <1>4, <3>1, OneInBody
  <2>2. M!get_crc(s) = M!get_crc(t)
    <3>1. \A k \in 10 .. 13 : s[k] = t[k]
      BY <1>3, <1>4
    <3> QED
      BY <1>1, <3>1, CrcSame
  <2> QED
    BY <1>1, <2>1, <2>2, Taken, Zenon
<1>5. CASE ~ (i \in 2 .. 9 /\ s[i] # t[i])
  BY <1>3, <1>5 DEF s
<1> QED
  BY <1>4, <1>5

(* Two wrong bits in two characters are noticed or both outside the body.  *)
LEMMA TwoFlipsTaken ==
    ASSUME NEW v \in [1 .. 4 -> M!Byte], NEW t \in Text, TwoFlips(M!set_bytes(v), t),
           M!get_bytes(t).ok
    PROVE  \A k \in 2 .. 9 : t[k] = M!set_bytes(v)[k]
<1> DEFINE s == M!set_bytes(v)
<1>1. /\ s \in Text /\ M!get_crc(s) = M!compute_crc(s)
      /\ \A k \in 1 .. 14 : s[k] \in 0 .. 127
  BY Sent
<1>2. PICK i \in 1 .. 13 : \E j \in i + 1 .. 14 : \E b, d \in 0 .. 6 :
               t = [s EXCEPT ![i] = Flip(s[i], b), ![j] = Flip(s[j], d)]
  BY Zenon DEF TwoFlips
<1>3. PICK j \in i + 1 .. 14 : \E b, d \in 0 .. 6 :
               t = [s EXCEPT ![i] = Flip(s[i], b), ![j] = Flip(s[j], d)]
  BY <1>2
<1>4. PICK b \in 0 .. 6, d \in 0 .. 6 :
               t = [s EXCEPT ![i] = Flip(s[i], b), ![j] = Flip(s[j], d)]
  BY <1>3
<1> HIDE DEF s
<1>5. /\ t[i] = Flip(s[i], b) /\ t[j] = Flip(s[j], d)
      /\ \A k \in 1 .. 14 : k # i /\ k # j => s[k] = t[k]
  BY <1>1, <1>4 DEF Text
<1>6. s[i] \in 0 .. 127 /\ s[j] \in 0 .. 127 /\ i \in 1 .. 14 /\ j \in 1 .. 14 /\ i < j
  BY <1>1
<1>7. BitsOf8(t[i]) = Xor(BitsOf8(s[i]), {b}) /\ BitsOf8(t[j]) = Xor(BitsOf8(s[j]), {d})
  BY <1>5, <1>6, FlipBits, Zenon
<1>8. t[i] # s[i] /\ t[j] # s[j]
  <2>1. ASSUME NEW x, NEW y PROVE x # Xor(x, {y})
    BY SMT DEF Xor, M!Xor
  <2> QED
    BY <1>7, <2>1, Zenon
<1>9. /\ t[1] = M!MSG_BEGIN_CHAR /\ t[14] = M!MSG_END_CHAR
      /\ M!get_crc(t) = M!compute_crc(t)
  BY Taken, Zenon
<1>10. s[1] = M!MSG_BEGIN_CHAR /\ s[14] = M!MSG_END_CHAR
  BY TextOf, Zenon DEF s
<1>11. i # 1 /\ j # 14
  BY <1>8, <1>9, <1>10, Zenon
<1>12. CASE i \in 10 .. 13
  BY <1>5, <1>6, <1>12 DEF s
<1>13. CASE i \in 2 .. 9 /\ j \in 10 .. 13
  <2>1. \A k \in 2 .. 13 : k # i /\ k # j => s[k] = t[k]
    BY <1>5
  <2>2. M!get_crc(t) # M!compute_crc(t)
    <3>1. /\ s \in Text /\ t \in Text /\ i \in 2 .. 9 /\ j \in 10 .. 13 /\ b \in 0 .. 6
          /\ BitsOf8(t[i]) = Xor(BitsOf8(s[i]), {b})
          /\ \A k \in 2 .. 13 : k # i /\ k # j => s[k] = t[k]
          /\ M!get_crc(s) = M!compute_crc(s)
      BY <1>1, <1>7, <1>13, <2>1, Zenon
    <3> QED
      BY ONLY <3>1, BodyAndCrc, Zenon
  <2> QED
    BY <1>9, <2>2
<1>14. CASE i \in 2 .. 9 /\ j \in 2 .. 9
  <2>1. \A k \in 2 .. 9 : k # i /\ k # j => s[k] = t[k]
    BY <1>5
  <2>2. i \in 2 .. 8 /\ j \in i + 1 .. 9
    BY <1>6, <1>14
  <2>3. M!compute_crc(s) # M!compute_crc(t)
    BY <1>1, <1>7, <2>1, <2>2, TwoInBody, Zenon
  <2>4. M!get_crc(s) = M!get_crc(t)
    <3>1. \A k \in 10 .. 13 : s[k] = t[k]
      BY <1>5, <1>14
    <3> QED
      BY <1>1, <3>1, CrcSame
  <2> QED
    BY <1>1, <1>9, <2>3, <2>4, Zenon
<1>15. i \in 2 .. 13 /\ j \in 2 .. 13
  BY <1>6, <1>11
<1>16. i \in 10 .. 13 \/ (i \in 2 .. 9 /\ j \in 10 .. 13) \/ (i \in 2 .. 9 /\ j \in 2 .. 9)
  BY <1>15
<1> QED
  BY <1>12, <1>13, <1>14, <1>16, Zenon

(* What the line may have made of s after n faults.                        *)
Noise(n, s, t) ==
    \/ n = 0 /\ t = s
    \/ n = 1 /\ OneFlip(s, t)
    \/ n = 2 /\ (OneChar(s, t) \/ TwoFlips(s, t))

MessageInv ==
    /\ faults \in 0 .. 2
    /\ call.fcn # "message" => faults = 0
    /\ call.fcn = "message" =>
          \E v \in [1 .. 4 -> M!Byte] : \E t \in Text :
             /\ call = [fcn |-> "message", vals |-> v, text |-> t]
             /\ Noise(faults, M!set_bytes(v), t)

(* A flipped character is a byte.                                          *)
LEMMA FlipRange ==
    ASSUME NEW s \in Text, \A k \in 1 .. 14 : s[k] \in 0 .. 127, NEW i \in 1 .. 14, NEW b \in 0 .. 6
    PROVE  Flip(s[i], b) \in 0 .. 127 /\ Flip(s[i], b) \in M!Byte
<1>1. Flip(s[i], b) \in 0 .. 127
  BY FlipBits, Zenon
<1> QED
  BY <1>1 DEF M!Byte

(* A second wrong bit.                                                     *)
LEMMA SecondFlip ==
    ASSUME NEW s \in Text, \A k \in 1 .. 14 : s[k] \in 0 .. 127, NEW t \in Text, OneFlip(s, t),
           NEW j \in 1 .. 14, NEW d \in 0 .. 6
    PROVE  LET u == [t EXCEPT ![j] = Flip(t[j], d)]
           IN  u \in Text /\ (OneChar(s, u) \/ TwoFlips(s, u))
<1> DEFINE u == [t EXCEPT ![j] = Flip(t[j], d)]
<1>1. PICK i \in 1 .. 14, b \in 0 .. 6 : t = [s EXCEPT ![i] = Flip(s[i], b)]
  BY Zenon DEF OneFlip
<1>2. Flip(s[i], b) \in 0 .. 127 /\ Flip(s[i], b) \in M!Byte
  BY FlipRange
<1>3. \A k \in 1 .. 14 : t[k] \in 0 .. 127
  BY <1>1, <1>2 DEF Text
<1>4. Flip(t[j], d) \in 0 .. 127 /\ Flip(t[j], d) \in M!Byte
  BY <1>3, FlipRange, Zenon
<1>5. u \in Text
  BY <1>4 DEF Text
<1>6. CASE j = i
  <2>1. u = [s EXCEPT ![i] = Flip(t[j], d)]
    BY <1>1, <1>6 DEF Text
  <2> HIDE DEF u
  <2>2. OneChar(s, u)
    BY <1>4, <2>1, Zenon DEF OneChar
  <2> QED
    BY <1>5, <2>2 DEF u
<1>7. CASE j # i
  <2>1. t[j] = s[j]
    BY <1>1, <1>7 DEF Text
  <2>2. u = [s EXCEPT ![i] = Flip(s[i], b), ![j] = Flip(s[j], d)]
    BY <1>1, <1>7, <2>1 DEF Text
  <2>3. u = [s EXCEPT ![j] = Flip(s[j], d), ![i] = Flip(s[i], b)]
    BY <1>1, <1>7, <2>1 DEF Text
  <2> HIDE DEF u
  <2>4. CASE i < j
    <3>1. i \in 1 .. 13 /\ j \in i + 1 .. 14
      BY <2>4
    <3>2. TwoFlips(s, u)
      <4>1. \E b1, d1 \in 0 .. 6 : u = [s EXCEPT ![i] = Flip(s[i], b1), ![j] = Flip(s[j], d1)]
        BY <2>2
      <4> QED
        BY <3>1, <4>1, Zenon DEF TwoFlips
    <3> QED
      BY <1>5, <3>2 DEF u
  <2>5. CASE j < i
    <3>1. j \in 1 .. 13 /\ i \in j + 1 .. 14
      BY <2>5
    <3>2. TwoFlips(s, u)
      <4>1. \E b1, d1 \in 0 .. 6 : u = [s EXCEPT ![j] = Flip(s[j], b1), ![i] = Flip(s[i], d1)]
        BY <2>3
      <4> QED
        BY <3>1, <4>1, Zenon DEF TwoFlips
    <3> QED
      BY <1>5, <3>2 DEF u
  <2> QED
    BY <1>7, <2>4, <2>5
<1> QED
  BY <1>6, <1>7

(* The inductive invariant of the messages holds at first ...              *)
LEMMA MessageInvInit == CodingsInit => MessageInv
  BY DEF CodingsInit, MessageInv, None

(* ... every step keeps it: a second fault makes of one flip one wrong     *)
(* character or two flips ...                                              *)
LEMMA MessageInvStep == MessageInv /\ [CodingsNext]_callVars => MessageInv'
<1> SUFFICES ASSUME MessageInv, [CodingsNext]_callVars PROVE MessageInv'
  OBVIOUS
<1> USE DEF MessageInv
<1>1. CASE SetBytes
  <2>1. PICK v \in Payloads : call' = [fcn |-> "message", vals |-> v, text |-> M!set_bytes(v)]
    BY <1>1, Zenon DEF SetBytes
  <2>2. v \in [1 .. 4 -> M!Byte]
    BY CodingsAssumption DEF CodingsAssumption
  <2>3. M!set_bytes(v) \in Text
    BY <2>2, Sent
  <2>4. faults' = 0
    BY <1>1 DEF SetBytes, None
  <2>5. Noise(0, M!set_bytes(v), M!set_bytes(v))
    BY DEF Noise
  <2>6. call'.fcn = "message"
    BY <2>1
  <2> QED
    BY <2>1, <2>2, <2>3, <2>4, <2>5, <2>6, SMT
<1>2. CASE ChangeChar
  <2>1. PICK v \in [1 .. 4 -> M!Byte], t \in Text :
           /\ call = [fcn |-> "message", vals |-> v, text |-> t]
           /\ Noise(faults, M!set_bytes(v), t)
    BY <1>2, Zenon DEF ChangeChar
  <2>2. t = M!set_bytes(v)
    BY <1>2, <2>1 DEF ChangeChar, Noise
  <2>3. PICK i \in 1 .. 14, c \in Chars : call' = [call EXCEPT !.text[i] = c]
    BY <1>2 DEF ChangeChar, M!MessageLen
  <2>4. c \in M!Byte
    BY CodingsAssumption DEF CodingsAssumption
  <2> DEFINE u == [t EXCEPT ![i] = c]
  <2>5. call' = [fcn |-> "message", vals |-> v, text |-> u]
    BY <2>1, <2>3
  <2>6. u \in Text
    BY <2>4 DEF Text
  <2>7. OneChar(M!set_bytes(v), u)
    BY <2>2, <2>4, Zenon DEF OneChar
  <2>8. faults' = 2
    BY <1>2 DEF ChangeChar
  <2> HIDE DEF u
  <2> QED
    BY <2>5, <2>6, <2>7, <2>8, SMT DEF Noise
<1>3. CASE FlipBit
  <2>1. PICK v \in [1 .. 4 -> M!Byte], t \in Text :
           /\ call = [fcn |-> "message", vals |-> v, text |-> t]
           /\ Noise(faults, M!set_bytes(v), t)
    BY <1>3, Zenon DEF FlipBit
  <2>2. PICK i \in 1 .. 14, b \in 0 .. 6 :
           call' = [call EXCEPT !.text[i] = IF M!Bit(@, b) = 1 THEN @ - 2^b ELSE @ + 2^b]
    BY <1>3 DEF FlipBit, M!MessageLen
  <2> DEFINE u == [t EXCEPT ![i] = Flip(t[i], b)]
  <2>3. call' = [fcn |-> "message", vals |-> v, text |-> u]
    BY <2>1, <2>2 DEF Flip
  <2>4. M!set_bytes(v) \in Text /\ \A k \in 1 .. 14 : M!set_bytes(v)[k] \in 0 .. 127
    BY Sent
  <2>5. CASE faults = 0
    <3>1. t = M!set_bytes(v) /\ faults' = 1
      BY <1>3, <2>1, <2>5 DEF FlipBit, Noise
    <3>2. u \in Text
      BY <2>4, <3>1, FlipRange, Zenon DEF Text
    <3>3. OneFlip(M!set_bytes(v), u)
      BY <3>1, Zenon DEF OneFlip
    <3> HIDE DEF u
    <3> QED
      BY <2>3, <3>1, <3>2, <3>3, SMT DEF Noise
  <2>6. CASE faults = 1
    <3>1. OneFlip(M!set_bytes(v), t) /\ faults' = 2
      BY <1>3, <2>1, <2>6 DEF FlipBit, Noise
    <3>2. u \in Text /\ (OneChar(M!set_bytes(v), u) \/ TwoFlips(M!set_bytes(v), u))
      BY <2>4, <3>1, SecondFlip
    <3> HIDE DEF u
    <3> QED
      BY <2>3, <3>1, <3>2, SMT DEF Noise
  <2>7. faults = 0 \/ faults = 1
    BY <1>3 DEF FlipBit
  <2> QED
    BY <2>5, <2>6, <2>7
<1>4. CASE SerialNum
  <2>1. call'.fcn # "message" /\ faults' = faults /\ call = None
    BY <1>4, SMT DEF SerialNum
  <2> QED
    BY <2>1, SMT DEF None
<1>5. CASE ReadConfig
  <2>1. call'.fcn # "message" /\ faults' = faults /\ call = None
    BY <1>5, SMT DEF ReadConfig
  <2> QED
    BY <2>1, SMT DEF None
<1>6. CASE ListAddresses
  <2>1. call'.fcn # "message" /\ faults' = faults /\ call = None
    BY <1>6, SMT DEF ListAddresses
  <2> QED
    BY <2>1, SMT DEF None
<1>7. CASE OpenLine
  <2>1. call'.fcn # "message" /\ faults' = faults /\ call = None
    BY <1>7, SMT DEF OpenLine
  <2> QED
    BY <2>1, SMT DEF None
<1>8. CASE UNCHANGED callVars
  BY <1>8, Zenon DEF callVars
<1> QED
  BY <1>1, <1>2, <1>3, <1>4, <1>5, <1>6, <1>7, <1>8 DEF CodingsNext

(* ... and it implies the property.                                        *)
LEMMA MessageInvImplies == MessageInv => NeverAnotherMessage
<1> SUFFICES ASSUME MessageInv, call.fcn = "message"
             PROVE  /\ M!get_bytes(call.text).ok => M!get_bytes(call.text).vals = call.vals
                    /\ faults = 0 => M!get_bytes(call.text).ok
  BY Zenon DEF NeverAnotherMessage
<1>1. PICK v \in [1 .. 4 -> M!Byte], t \in Text :
           /\ call = [fcn |-> "message", vals |-> v, text |-> t]
           /\ Noise(faults, M!set_bytes(v), t)
  BY Zenon DEF MessageInv
<1>2. call.vals = v /\ call.text = t
  BY <1>1
<1> DEFINE s == M!set_bytes(v)
<1>3. s \in Text /\ M!get_crc(s) = M!compute_crc(s) /\ \A k \in 1 .. 14 : s[k] \in 0 .. 127
  BY Sent
<1>4. faults = 0 => M!get_bytes(t).ok
  <2> HAVE faults = 0
  <2>1. t = s
    BY <1>1 DEF Noise
  <2>2. s[1] = M!MSG_BEGIN_CHAR /\ s[14] = M!MSG_END_CHAR
    BY TextOf, Zenon
  <2> QED
    BY <1>3, <2>1, <2>2, Taken
<1>5. ASSUME M!get_bytes(t).ok
      PROVE  M!get_bytes(t).vals = v
  <2>1. CASE t = s
    BY <1>5, <2>1, SameBody
  <2>2. CASE OneChar(s, t)
    BY <1>5, <2>2, OneCharTaken, SameBody
  <2>3. CASE TwoFlips(s, t)
    BY <1>5, <2>3, TwoFlipsTaken, SameBody
  <2>4. CASE OneFlip(s, t)
    <3>1. PICK i \in 1 .. 14, b \in 0 .. 6 : t = [s EXCEPT ![i] = Flip(s[i], b)]
      BY <2>4, Zenon DEF OneFlip
    <3>2. Flip(s[i], b) \in M!Byte
      BY <1>3, FlipRange, Zenon
    <3>3. OneChar(s, t)
      BY <3>1, <3>2, Zenon DEF OneChar
    <3> QED
      BY <2>2, <3>3
  <2> QED
    BY <1>1, <2>1, <2>2, <2>3, <2>4, Zenon DEF Noise
<1> QED
  BY <1>2, <1>4, <1>5, Zenon

(* For every message and every character on the line: what arrives is      *)
(* refused or is the message that was sent. Line noise of one character or *)
(* two bits is what msg_buf.h guards against with its frame and CRC.       *)
THEOREM NeverAnotherMessageHolds == CodingsSpec => []NeverAnotherMessage
  BY MessageInvInit, MessageInvStep, MessageInvImplies, PTL DEF CodingsSpec

-----------------------------------------------------------------------------
(* The CRC is the remainder of a division.                                 *)

BitsOf16(n) == M!BitsOf(n, 16)

(* The bits of a number of 16 bits, one by one.                            *)
LEMMA PlaceOf ==
    ASSUME NEW n \in Nat, n < 65536
    PROVE  /\ BitsOf16(n) \in Word
           /\ 0 \in BitsOf16(n) <=> n % 2 = 1
           /\ 1 \in BitsOf16(n) <=> (n \div 2) % 2 = 1
           /\ 2 \in BitsOf16(n) <=> (n \div 4) % 2 = 1
           /\ 3 \in BitsOf16(n) <=> (n \div 8) % 2 = 1
           /\ 4 \in BitsOf16(n) <=> (n \div 16) % 2 = 1
           /\ 5 \in BitsOf16(n) <=> (n \div 32) % 2 = 1
           /\ 6 \in BitsOf16(n) <=> (n \div 64) % 2 = 1
           /\ 7 \in BitsOf16(n) <=> (n \div 128) % 2 = 1
           /\ 8 \in BitsOf16(n) <=> (n \div 256) % 2 = 1
           /\ 9 \in BitsOf16(n) <=> (n \div 512) % 2 = 1
           /\ 10 \in BitsOf16(n) <=> (n \div 1024) % 2 = 1
           /\ 11 \in BitsOf16(n) <=> (n \div 2048) % 2 = 1
           /\ 12 \in BitsOf16(n) <=> (n \div 4096) % 2 = 1
           /\ 13 \in BitsOf16(n) <=> (n \div 8192) % 2 = 1
           /\ 14 \in BitsOf16(n) <=> (n \div 16384) % 2 = 1
           /\ 15 \in BitsOf16(n) <=> (n \div 32768) % 2 = 1
<1>1. /\ 2^0 = 1 /\ 2^1 = 2 /\ 2^2 = 4 /\ 2^3 = 8 /\ 2^4 = 16 /\ 2^5 = 32
      /\ 2^6 = 64 /\ 2^7 = 128
      /\ 2^8 = 256 /\ 2^9 = 512 /\ 2^10 = 1024 /\ 2^11 = 2048
      /\ 2^12 = 4096 /\ 2^13 = 8192 /\ 2^14 = 16384 /\ 2^15 = 32768
  BY SMT
<1>2. \A i \in 0 .. 15 : i \in BitsOf16(n) <=> (n \div 2^i) % 2 = 1
  BY SMT DEF BitsOf16, M!BitsOf, M!Bit
<1>3. BitsOf16(n) \in Word
  BY DEF BitsOf16, M!BitsOf, Word
<1>4. n \div 1 = n
  BY SMT
<1>5. 0 \in 0 .. 15 /\ 1 \in 0 .. 15 /\ 2 \in 0 .. 15 /\ 3 \in 0 .. 15 /\ 4 \in 0 .. 15 /\ 5 \in 0 .. 15
      /\ 6 \in 0 .. 15 /\ 7 \in 0 .. 15 /\ 8 \in 0 .. 15 /\ 9 \in 0 .. 15 /\ 10 \in 0 .. 15 /\ 11 \in 0 .. 15
      /\ 12 \in 0 .. 15 /\ 13 \in 0 .. 15 /\ 14 \in 0 .. 15 /\ 15 \in 0 .. 15
  BY SMT
<1> QED
  BY <1>1, <1>2, <1>3, <1>4, <1>5, SMT

(* The half of a number is its bits one place lower.                       *)
LEMMA HalfBits ==
    ASSUME NEW n \in Nat, n < 65536
    PROVE  /\ n \div 2 \in Nat /\ n \div 2 < 32768
           /\ BitsOf16(n \div 2) = M!ShiftRight(BitsOf16(n))
<1> DEFINE h == n \div 2
<1>1. h \in Nat /\ h < 32768 /\ h < 65536
  BY SMT
<1>h0. h % 2 = (n \div 2) % 2
  BY SMT
<1>h1. (h \div 2) % 2 = (n \div 4) % 2
  BY SMT
<1>h2. (h \div 4) % 2 = (n \div 8) % 2
  BY SMT
<1>h3. (h \div 8) % 2 = (n \div 16) % 2
  BY SMT
<1>h4. (h \div 16) % 2 = (n \div 32) % 2
  BY SMT
<1>h5. (h \div 32) % 2 = (n \div 64) % 2
  BY SMT
<1>h6. (h \div 64) % 2 = (n \div 128) % 2
  BY SMT
<1>h7. (h \div 128) % 2 = (n \div 256) % 2
  BY SMT
<1>h8. (h \div 256) % 2 = (n \div 512) % 2
  BY SMT
<1>h9. (h \div 512) % 2 = (n \div 1024) % 2
  BY SMT
<1>h10. (h \div 1024) % 2 = (n \div 2048) % 2
  BY SMT
<1>h11. (h \div 2048) % 2 = (n \div 4096) % 2
  BY SMT
<1>h12. (h \div 4096) % 2 = (n \div 8192) % 2
  BY SMT
<1>h13. (h \div 8192) % 2 = (n \div 16384) % 2
  BY SMT
<1>h14. (h \div 16384) % 2 = (n \div 32768) % 2
  BY SMT
<1>h15. h \div 32768 = 0
  BY SMT
<1> HIDE DEF h
<1> DEFINE x == BitsOf16(h)
           y == BitsOf16(n)
<1>x0. 0 \in x <=> 1 \in y
  BY <1>1, <1>h0, PlaceOf, SMT
<1>x1. 1 \in x <=> 2 \in y
  BY <1>1, <1>h1, PlaceOf, SMT
<1>x2. 2 \in x <=> 3 \in y
  BY <1>1, <1>h2, PlaceOf, SMT
<1>x3. 3 \in x <=> 4 \in y
  BY <1>1, <1>h3, PlaceOf, SMT
<1>x4. 4 \in x <=> 5 \in y
  BY <1>1, <1>h4, PlaceOf, SMT
<1>x5. 5 \in x <=> 6 \in y
  BY <1>1, <1>h5, PlaceOf, SMT
<1>x6. 6 \in x <=> 7 \in y
  BY <1>1, <1>h6, PlaceOf, SMT
<1>x7. 7 \in x <=> 8 \in y
  BY <1>1, <1>h7, PlaceOf, SMT
<1>x8. 8 \in x <=> 9 \in y
  BY <1>1, <1>h8, PlaceOf, SMT
<1>x9. 9 \in x <=> 10 \in y
  BY <1>1, <1>h9, PlaceOf, SMT
<1>x10. 10 \in x <=> 11 \in y
  BY <1>1, <1>h10, PlaceOf, SMT
<1>x11. 11 \in x <=> 12 \in y
  BY <1>1, <1>h11, PlaceOf, SMT
<1>x12. 12 \in x <=> 13 \in y
  BY <1>1, <1>h12, PlaceOf, SMT
<1>x13. 13 \in x <=> 14 \in y
  BY <1>1, <1>h13, PlaceOf, SMT
<1>x14. 14 \in x <=> 15 \in y
  BY <1>1, <1>h14, PlaceOf, SMT
<1>x15. 15 \notin x
  BY <1>1, <1>h15, PlaceOf, SMT
<1>2. x \in Word /\ y \in Word
  BY <1>1, PlaceOf
<1> HIDE DEF x, y
<1>3. ASSUME NEW i \in 0 .. 15
      PROVE  i \in x <=> i \in M!ShiftRight(y)
  <2>1. i \in M!ShiftRight(y) <=> i + 1 \in y
    BY <1>2 DEF M!ShiftRight, Word
  <2>2. \/ i = 0 \/ i = 1 \/ i = 2 \/ i = 3 \/ i = 4 \/ i = 5 \/ i = 6 \/ i = 7
        \/ i = 8 \/ i = 9 \/ i = 10 \/ i = 11 \/ i = 12 \/ i = 13 \/ i = 14 \/ i = 15
    BY SMT
  <2>3. 16 \notin y
    BY <1>2 DEF Word
  <2> QED
    BY <2>1, <2>2, <2>3, <1>x0, <1>x1, <1>x2, <1>x3, <1>x4, <1>x5, <1>x6, <1>x7,
       <1>x8, <1>x9, <1>x10, <1>x11, <1>x12, <1>x13, <1>x14, <1>x15, SMT
<1>4. M!ShiftRight(y) \in Word
  BY <1>2 DEF M!ShiftRight, Word
<1> QED
  BY <1>1, <1>2, <1>3, <1>4, SameBits DEF h, x, y

(* The exclusive or with 0xa001.                                           *)
LEMMA XorBits ==
    ASSUME NEW h \in Nat, h < 32768
    PROVE  /\ Xor0xa001(h) \in Nat /\ Xor0xa001(h) < 65536
           /\ BitsOf16(Xor0xa001(h)) = Xor(BitsOf16(h), M!Polynomial)
<1> DEFINE n == Xor0xa001(h)
<1>1. n = h + (IF (h \div 8192) % 2 = 0 THEN 8192 ELSE -8192) + (IF h % 2 = 0 THEN 1 ELSE -1) + 32768
  BY SMT DEF Xor0xa001
<1> HIDE DEF n
<1>2. n \in Nat /\ n < 65536
  BY <1>1
<1>n0. n % 2 = 1 <=> ~ (h % 2 = 1)
  BY <1>1, SMT
<1>n1. (n \div 2) % 2 = 1 <=> (h \div 2) % 2 = 1
  BY <1>1, SMT
<1>n2. (n \div 4) % 2 = 1 <=> (h \div 4) % 2 = 1
  BY <1>1, SMT
<1>n3. (n \div 8) % 2 = 1 <=> (h \div 8) % 2 = 1
  BY <1>1, SMT
<1>n4. (n \div 16) % 2 = 1 <=> (h \div 16) % 2 = 1
  BY <1>1, SMT
<1>n5. (n \div 32) % 2 = 1 <=> (h \div 32) % 2 = 1
  BY <1>1, SMT
<1>n6. (n \div 64) % 2 = 1 <=> (h \div 64) % 2 = 1
  BY <1>1, SMT
<1>n7. (n \div 128) % 2 = 1 <=> (h \div 128) % 2 = 1
  BY <1>1, SMT
<1>n8. (n \div 256) % 2 = 1 <=> (h \div 256) % 2 = 1
  BY <1>1, SMT
<1>n9. (n \div 512) % 2 = 1 <=> (h \div 512) % 2 = 1
  BY <1>1, SMT
<1>n10. (n \div 1024) % 2 = 1 <=> (h \div 1024) % 2 = 1
  BY <1>1, SMT
<1>n11. (n \div 2048) % 2 = 1 <=> (h \div 2048) % 2 = 1
  BY <1>1, SMT
<1>n12. (n \div 4096) % 2 = 1 <=> (h \div 4096) % 2 = 1
  BY <1>1, SMT
<1>n13. (n \div 8192) % 2 = 1 <=> ~ ((h \div 8192) % 2 = 1)
  BY <1>1, SMT
<1>n14. (n \div 16384) % 2 = 1 <=> (h \div 16384) % 2 = 1
  BY <1>1, SMT
<1>n15. (n \div 32768) % 2 = 1 /\ ~ ((h \div 32768) % 2 = 1)
  BY <1>1, SMT
<1> DEFINE x == BitsOf16(n)
           y == BitsOf16(h)
<1>3. h < 65536
  BY SMT
<1>x0. 0 \in x <=> 0 \notin y
  BY <1>2, <1>3, <1>n0, PlaceOf, SMT
<1>x1. 1 \in x <=> 1 \in y
  BY <1>2, <1>3, <1>n1, PlaceOf, SMT
<1>x2. 2 \in x <=> 2 \in y
  BY <1>2, <1>3, <1>n2, PlaceOf, SMT
<1>x3. 3 \in x <=> 3 \in y
  BY <1>2, <1>3, <1>n3, PlaceOf, SMT
<1>x4. 4 \in x <=> 4 \in y
  BY <1>2, <1>3, <1>n4, PlaceOf, SMT
<1>x5. 5 \in x <=> 5 \in y
  BY <1>2, <1>3, <1>n5, PlaceOf, SMT
<1>x6. 6 \in x <=> 6 \in y
  BY <1>2, <1>3, <1>n6, PlaceOf, SMT
<1>x7. 7 \in x <=> 7 \in y
  BY <1>2, <1>3, <1>n7, PlaceOf, SMT
<1>x8. 8 \in x <=> 8 \in y
  BY <1>2, <1>3, <1>n8, PlaceOf, SMT
<1>x9. 9 \in x <=> 9 \in y
  BY <1>2, <1>3, <1>n9, PlaceOf, SMT
<1>x10. 10 \in x <=> 10 \in y
  BY <1>2, <1>3, <1>n10, PlaceOf, SMT
<1>x11. 11 \in x <=> 11 \in y
  BY <1>2, <1>3, <1>n11, PlaceOf, SMT
<1>x12. 12 \in x <=> 12 \in y
  BY <1>2, <1>3, <1>n12, PlaceOf, SMT
<1>x13. 13 \in x <=> 13 \notin y
  BY <1>2, <1>3, <1>n13, PlaceOf, SMT
<1>x14. 14 \in x <=> 14 \in y
  BY <1>2, <1>3, <1>n14, PlaceOf, SMT
<1>x15. 15 \in x <=> 15 \notin y
  BY <1>2, <1>3, <1>n15, PlaceOf, SMT
<1>4. x \in Word /\ y \in Word
  BY <1>2, <1>3, PlaceOf
<1> HIDE DEF x, y
<1>5. ASSUME NEW i \in 0 .. 15
      PROVE  i \in x <=> i \in Xor(y, M!Polynomial)
  <2>1. i \in Xor(y, M!Polynomial) <=> (i \in y <=> i \notin {0, 13, 15})
    BY SMT DEF Xor, M!Xor, M!Polynomial
  <2>2. \/ i = 0 \/ i = 1 \/ i = 2 \/ i = 3 \/ i = 4 \/ i = 5 \/ i = 6 \/ i = 7
        \/ i = 8 \/ i = 9 \/ i = 10 \/ i = 11 \/ i = 12 \/ i = 13 \/ i = 14 \/ i = 15
    BY SMT
  <2> QED
    BY <2>1, <2>2, <1>x0, <1>x1, <1>x2, <1>x3, <1>x4, <1>x5, <1>x6, <1>x7, <1>x8,
       <1>x9, <1>x10, <1>x11, <1>x12, <1>x13, <1>x14, <1>x15, SMT
<1>6. Xor(y, M!Polynomial) \in Word
  BY <1>4 DEF M!Polynomial, Word, Xor, M!Xor
<1> QED
  BY <1>2, <1>4, <1>5, <1>6, SameBits DEF n, x, y

Low1(bit) == IF bit = 1 THEN {0} ELSE {}
Reg16 == {n \in Nat : n < 65536}

(* Dividing by one bit more is a step after an exclusive or with that bit. *)
LEMMA DivideStep ==
    ASSUME NEW n \in Reg16, NEW bit \in {0, 1}
    PROVE  /\ DivideBit(n, bit) \in Reg16
           /\ BitsOf16(DivideBit(n, bit)) = Step(Xor(BitsOf16(n), Low1(bit)))
<1>1. n \in Nat /\ n < 65536
  BY DEF Reg16
<1> DEFINE h == n \div 2
           c == BitsOf16(n)
           d == Xor(c, Low1(bit))
<1>2. /\ h \in Nat /\ h < 32768
      /\ BitsOf16(h) = M!ShiftRight(c)
  BY <1>1, HalfBits
<1>3. c \in Word /\ (0 \in c <=> n % 2 = 1)
  BY <1>1, PlaceOf
<1>4. n % 2 = 0 \/ n % 2 = 1
  BY <1>1, SMT
<1>5. 0 \in d <=> n % 2 # bit
  <2>1. 0 \in d <=> (0 \in c <=> bit # 1)
    BY SMT DEF Xor, M!Xor, Low1
  <2> HIDE DEF d, c
  <2> QED
    BY <1>3, <1>4, <2>1, SMT
<1>6. M!ShiftRight(d) = M!ShiftRight(c)
  <2>1. d \ {0} = c \ {0}
    BY SMT DEF Xor, M!Xor, Low1
  <2> QED
    BY <2>1, Zenon DEF M!ShiftRight
<1>7. h < 65536
  BY <1>2, SMT
<1>8. CASE n % 2 = bit
  <2>1. DivideBit(n, bit) = h
    BY <1>8, Zenon DEF DivideBit
  <2>2. Step(d) = M!ShiftRight(d)
    BY <1>5, <1>8, Zenon DEF Step, M!CrcStep
  <2> QED
    BY <1>2, <1>6, <1>7, <2>1, <2>2, SMT DEF Reg16
<1>9. CASE n % 2 # bit
  <2>1. DivideBit(n, bit) = Xor0xa001(h)
    BY <1>9, Zenon DEF DivideBit
  <2>2. Step(d) = Xor(M!ShiftRight(d), M!Polynomial)
    BY <1>5, <1>9, Zenon DEF Step, M!CrcStep, Xor
  <2> HIDE DEF h, d, c
  <2>3. /\ Xor0xa001(h) \in Nat /\ Xor0xa001(h) < 65536
        /\ BitsOf16(Xor0xa001(h)) = Xor(BitsOf16(h), M!Polynomial)
    BY <1>2, XorBits
  <2>4. BitsOf16(DivideBit(n, bit)) = Step(d)
    BY <1>2, <1>6, <2>1, <2>2, <2>3, SMT
  <2>5. DivideBit(n, bit) \in Reg16
    BY <2>1, <2>3, SMT DEF Reg16
  <2> QED
    BY <2>4, <2>5 DEF d, c
<1> QED
  BY <1>8, <1>9

(* f lets k steps pass: it is linear, and brings each bit k places down.   *)
Passes(f, k) ==
    /\ f \in [Word -> Word]
    /\ \A a, b \in Word : f[Xor(a, b)] = Xor(f[a], f[b])
    /\ f[{}] = {}
    /\ \A j \in k .. 15 : f[{j}] = {j - k}

Upto(x, k) == {i \in x : i < k}

(* Bit k, which waits k steps for its turn, could have been added at once. *)
LEMMA OneMoreBit ==
    ASSUME NEW k \in 0 .. 7, NEW f, Passes(f, k), NEW c \in Word, NEW x \in SUBSET (0 .. 7),
           NEW g, g = [a \in Word |-> Step(f[a])]
    PROVE  /\ Passes(g, k + 1)
           /\ Step(Xor(f[Xor(c, Upto(x, k))], Low1(IF k \in x THEN 1 ELSE 0)))
                = g[Xor(c, Upto(x, k + 1))]
<1>1. /\ \A a \in Word : Step(a) \in Word
      /\ \A a, b \in Word : Xor(a, b) \in Word
      /\ \A a, b \in Word : Step(Xor(a, b)) = Xor(Step(a), Step(b))
  BY StepBits, StepXor, XorFacts
<1>2. f \in [Word -> Word] /\ \A a, b \in Word : f[Xor(a, b)] = Xor(f[a], f[b])
  BY DEF Passes
<1>3. \A j \in 0 .. 15 : {j} \in Word
  BY DEF Word
<1>4. {} \in Word
  BY DEF Word
<1>5. Step({}) = {}
  BY StepIs, SMT DEF Word
<1>6. \A j \in 1 .. 15 : Step({j}) = {j - 1}
  BY StepIs, SMT DEF Word
<1>7. g \in [Word -> Word] /\ \A a \in Word : g[a] = Step(f[a])
  BY <1>1, <1>2
<1>8. \A a, b \in Word : g[Xor(a, b)] = Xor(g[a], g[b])
  <2> TAKE a, b \in Word
  <2>1. Xor(a, b) \in Word /\ f[a] \in Word /\ f[b] \in Word
    BY <1>1, <1>2
  <2>2. g[Xor(a, b)] = Step(Xor(f[a], f[b]))
    BY <1>2, <1>7, <2>1, Zenon
  <2>3. g[a] = Step(f[a]) /\ g[b] = Step(f[b])
    BY <1>7, Zenon
  <2> QED
    BY <1>1, <2>1, <2>2, <2>3, Zenon
<1>9. g[{}] = {}
  BY <1>4, <1>5, <1>7, Zenon DEF Passes
<1>10. \A j \in k + 1 .. 15 : g[{j}] = {j - (k + 1)}
  <2> TAKE j \in k + 1 .. 15
  <2>1. j \in k .. 15 /\ j \in 0 .. 15 /\ j - k \in 1 .. 15 /\ (j - k) - 1 = j - (k + 1)
    BY SMT
  <2>2. f[{j}] = {j - k}
    BY <2>1, Zenon DEF Passes
  <2>3. g[{j}] = Step({j - k})
    BY <1>3, <1>7, <2>1, <2>2, Zenon
  <2> QED
    BY <1>6, <2>1, <2>3, Zenon
<1>11. Passes(g, k + 1)
  BY <1>7, <1>8, <1>9, <1>10, Zenon DEF Passes
<1> DEFINE bit == Low1(IF k \in x THEN 1 ELSE 0)
           e   == IF k \in x THEN {k} ELSE {}
           u   == Upto(x, k)
           w   == Xor(c, u)
<1>12. f[e] = bit /\ e \in Word
  <2>1. k \in k .. 15 /\ k - k = 0 /\ k \in 0 .. 15
    BY SMT
  <2>2. f[{k}] = {0}
    BY <2>1, SMT DEF Passes
  <2>3. CASE k \in x
    <3>1. bit = {0} /\ e = {k}
      BY <2>3, SMT DEF Low1
    <3> HIDE DEF bit, e
    <3> QED
      BY <1>3, <2>1, <2>2, <3>1, Zenon
  <2>4. CASE k \notin x
    BY <1>4, <2>4, SMT DEF Low1, Passes
  <2> QED
    BY <2>3, <2>4
<1>13. u \in Word /\ w \in Word
  <2>1. u \in Word
    <3>1. \A i \in u : i \in 0 .. 15
      BY SMT DEF Upto
    <3> QED
      BY <3>1, Zenon DEF Word
  <2> QED
    BY <1>1, <2>1, Zenon
<1>14. Upto(x, k + 1) = Xor(u, e)
  <2>0. \A i \in x : i < k + 1 <=> i < k \/ i = k
    BY SMT
  <2>1. CASE k \in x
    <3>1. Upto(x, k + 1) = u \cup {k}
      <4>1. \A i : i \in Upto(x, k + 1) <=> i \in u \cup {k}
        BY <2>0, <2>1, Zenon DEF Upto
      <4> QED
        BY <4>1, Zenon
    <3>2. k \notin u
      BY SMT DEF Upto
    <3> HIDE DEF u
    <3> QED
      BY <2>1, <3>1, <3>2, SMT DEF Xor, M!Xor
  <2>2. CASE k \notin x
    <3>1. Upto(x, k + 1) = u
      <4>1. \A i : i \in Upto(x, k + 1) <=> i \in u
        BY <2>0, <2>2, Zenon DEF Upto
      <4> QED
        BY <4>1, Zenon
    <3> HIDE DEF u
    <3> QED
      BY <2>2, <3>1, SMT DEF Xor, M!Xor
  <2> QED
    BY <2>1, <2>2
<1> HIDE DEF u, e
<1>15. Xor(c, Xor(u, e)) = Xor(w, e)
  BY SMT DEF Xor, M!Xor
<1> HIDE DEF w, bit
<1>16. Step(Xor(f[w], bit)) = g[Xor(w, e)]
  <2>1. f[Xor(w, e)] = Xor(f[w], bit)
    BY <1>2, <1>12, <1>13, Zenon
  <2>2. Xor(w, e) \in Word
    BY <1>1, <1>12, <1>13, Zenon
  <2> QED
    BY <1>7, <2>1, <2>2, Zenon
<1> QED
  BY <1>11, <1>14, <1>15, <1>16, Zenon DEF w, u, bit

(* Eight bits one by one make the register that update_crc16 makes.        *)
LEMMA DivideByte ==
    ASSUME NEW n \in Reg16, NEW ch \in M!Byte
    PROVE  /\ DivideChar(n, ch) \in Reg16
           /\ BitsOf16(DivideChar(n, ch)) = Update(BitsOf16(n), ch)
<1> DEFINE x == BitsOf8(ch)
           c == BitsOf16(n)
           bit(k) == M!Bit(ch, k)
           r0 == n
           r1 == DivideBit(r0, bit(0))
           r2 == DivideBit(r1, bit(1))
           r3 == DivideBit(r2, bit(2))
           r4 == DivideBit(r3, bit(3))
           r5 == DivideBit(r4, bit(4))
           r6 == DivideBit(r5, bit(5))
           r7 == DivideBit(r6, bit(6))
           r8 == DivideBit(r7, bit(7))
           f0 == [a \in Word |-> a]
           f1 == [a \in Word |-> Step(f0[a])]
           f2 == [a \in Word |-> Step(f1[a])]
           f3 == [a \in Word |-> Step(f2[a])]
           f4 == [a \in Word |-> Step(f3[a])]
           f5 == [a \in Word |-> Step(f4[a])]
           f6 == [a \in Word |-> Step(f5[a])]
           f7 == [a \in Word |-> Step(f6[a])]
           f8 == [a \in Word |-> Step(f7[a])]
           Level(k, r, f) == r \in Reg16 /\ Passes(f, k) /\ BitsOf16(r) = f[Xor(c, Upto(x, k))]
<1>1. x \in SUBSET (0 .. 7) /\ c \in Word
  BY BitsOfByte, PlaceOf DEF Reg16
<1>2. \A k \in 0 .. 7 : bit(k) \in {0, 1} /\ bit(k) = IF k \in x THEN 1 ELSE 0
  <2> TAKE k \in 0 .. 7
  <2>1. k \in x <=> bit(k) = 1
    BY SMT DEF BitsOf8, M!BitsOf
  <2>2. bit(k) \in {0, 1}
    <3>1. ch \div 2^k \in Nat
      <4> DEFINE S == {1, 2, 4, 8, 16, 32, 64, 128}
      <4>1. /\ 2^0 \in S /\ 2^1 \in S /\ 2^2 \in S /\ 2^3 \in S
            /\ 2^4 \in S /\ 2^5 \in S /\ 2^6 \in S /\ 2^7 \in S
        OBVIOUS
      <4>2. k = 0 \/ k = 1 \/ k = 2 \/ k = 3 \/ k = 4 \/ k = 5 \/ k = 6 \/ k = 7
        OBVIOUS
      <4> HIDE DEF S
      <4>3. 2^k \in S
        BY <4>1, <4>2, Zenon
      <4> QED
        BY <4>3, SMT DEF M!Byte, S
    <3> DEFINE q == ch \div 2^k
    <3> HIDE DEF q
    <3>2. q % 2 \in {0, 1}
      BY <3>1, SMT DEF q
    <3> QED
      BY <3>2, Zenon DEF M!Bit, q
  <2> QED
    BY <2>1, <2>2
<1> HIDE DEF x, c, bit
<1>3. ASSUME NEW k \in 0 .. 7, NEW r, NEW f, Level(k, r, f)
      PROVE  Level(k + 1, DivideBit(r, bit(k)), [a \in Word |-> Step(f[a])])
  <2>1. /\ DivideBit(r, bit(k)) \in Reg16
        /\ BitsOf16(DivideBit(r, bit(k))) = Step(Xor(BitsOf16(r), Low1(bit(k))))
    BY <1>2, <1>3, DivideStep
  <2> DEFINE g == [a \in Word |-> Step(f[a])]
  <2> HIDE DEF g
  <2>2. /\ Passes(g, k + 1)
        /\ Step(Xor(f[Xor(c, Upto(x, k))], Low1(IF k \in x THEN 1 ELSE 0)))
             = g[Xor(c, Upto(x, k + 1))]
    <3>1. g = [a \in Word |-> Step(f[a])]
      BY DEF g
    <3> QED
      BY <1>1, <1>3, <3>1, OneMoreBit
  <2> QED
    BY <1>2, <1>3, <2>1, <2>2, Zenon DEF g
<1>4. Level(0, r0, f0)
  <2>1. Upto(x, 0) = {}
    <3>1. \A i \in x : ~ (i < 0)
      BY <1>1, SMT
    <3> QED
      BY <3>1, Zenon DEF Upto
  <2>2. Xor(c, {}) = c
    BY SMT DEF Xor, M!Xor
  <2>3. f0[c] = c
    BY <1>1
  <2>4. Passes(f0, 0)
    <3>1. \A a, b \in Word : Xor(a, b) \in Word
      BY XorFacts
    <3>2. {} \in Word /\ \A j \in 0 .. 15 : {j} \in Word /\ j - 0 = j
      BY SMT DEF Word
    <3> QED
      BY <3>1, <3>2, SMT DEF Passes
  <2> QED
    BY <2>1, <2>2, <2>3, <2>4, Zenon DEF c
<1> HIDE DEF Level
<1>l1. Level(1, r1, f1)
  <2>1. 0 \in 0 .. 7 /\ 0 + 1 = 1
    OBVIOUS
  <2> HIDE DEF r0, f0
  <2> QED
    BY <1>4, <1>3, <2>1, Zenon
<1>l2. Level(2, r2, f2)
  <2>1. 1 \in 0 .. 7 /\ 1 + 1 = 2
    OBVIOUS
  <2> HIDE DEF r1, f1
  <2> QED
    BY <1>l1, <1>3, <2>1, Zenon
<1>l3. Level(3, r3, f3)
  <2>1. 2 \in 0 .. 7 /\ 2 + 1 = 3
    OBVIOUS
  <2> HIDE DEF r2, f2
  <2> QED
    BY <1>l2, <1>3, <2>1, Zenon
<1>l4. Level(4, r4, f4)
  <2>1. 3 \in 0 .. 7 /\ 3 + 1 = 4
    OBVIOUS
  <2> HIDE DEF r3, f3
  <2> QED
    BY <1>l3, <1>3, <2>1, Zenon
<1>l5. Level(5, r5, f5)
  <2>1. 4 \in 0 .. 7 /\ 4 + 1 = 5
    OBVIOUS
  <2> HIDE DEF r4, f4
  <2> QED
    BY <1>l4, <1>3, <2>1, Zenon
<1>l6. Level(6, r6, f6)
  <2>1. 5 \in 0 .. 7 /\ 5 + 1 = 6
    OBVIOUS
  <2> HIDE DEF r5, f5
  <2> QED
    BY <1>l5, <1>3, <2>1, Zenon
<1>l7. Level(7, r7, f7)
  <2>1. 6 \in 0 .. 7 /\ 6 + 1 = 7
    OBVIOUS
  <2> HIDE DEF r6, f6
  <2> QED
    BY <1>l6, <1>3, <2>1, Zenon
<1>l8. Level(8, r8, f8)
  <2>1. 7 \in 0 .. 7 /\ 7 + 1 = 8
    OBVIOUS
  <2> HIDE DEF r7, f7
  <2> QED
    BY <1>l7, <1>3, <2>1, Zenon
<1>5. f8 = [a \in Word |-> Step8(a)]
  <2>1. \A a \in Word : Step(a) \in Word
    BY StepBits
  <2> QED
    BY <2>1, Zenon DEF Step8
<1>6. DivideChar(n, ch) = r8
  BY Zenon DEF DivideChar, bit
<1>7. Upto(x, 8) = x
  <2>1. \A i \in x : i < 8
    BY <1>1, SMT
  <2>2. \A i : i \in Upto(x, 8) <=> i \in x
    BY <2>1, Zenon DEF Upto
  <2> QED
    BY <2>2, Zenon
<1>8. Xor(c, x) \in Word
  BY <1>1, XorFacts, BitsInWord, Zenon DEF x
<1> HIDE DEF r8, f8
<1>9. r8 \in Reg16 /\ BitsOf16(r8) = f8[Xor(c, Upto(x, 8))]
  BY <1>l8, Zenon DEF Level
<1> QED
  BY <1>5, <1>6, <1>7, <1>8, <1>9, Zenon DEF Update, c, x

(* Character by character, compute_crc divides bit by bit.                 *)
LEMMA SerialCrc ==
    ASSUME NEW t \in Text
    PROVE  BitsOf16(BitSerialCrc(t)) = M!compute_crc(t)
<1> DEFINE R == Registers(t)
           r1 == DivideChar(2^16 - 1, t[2])
           r2 == DivideChar(r1, t[3])
           r3 == DivideChar(r2, t[4])
           r4 == DivideChar(r3, t[5])
           r5 == DivideChar(r4, t[6])
           r6 == DivideChar(r5, t[7])
           r7 == DivideChar(r6, t[8])
           r8 == DivideChar(r7, t[9])
<1>0. /\ t[2] \in M!Byte /\ t[3] \in M!Byte /\ t[4] \in M!Byte /\ t[5] \in M!Byte
      /\ t[6] \in M!Byte /\ t[7] \in M!Byte /\ t[8] \in M!Byte /\ t[9] \in M!Byte
  BY DEF Text
<1>1. /\ R[1] = 0 .. 15
      /\ R[2] = Update(R[1], t[2]) /\ R[3] = Update(R[2], t[3]) /\ R[4] = Update(R[3], t[4])
      /\ R[5] = Update(R[4], t[5]) /\ R[6] = Update(R[5], t[6]) /\ R[7] = Update(R[6], t[7])
      /\ R[8] = Update(R[7], t[8]) /\ R[9] = Update(R[8], t[9])
  BY DEF Registers
<1>2. 2^16 - 1 \in Reg16 /\ BitsOf16(2^16 - 1) = 0 .. 15
  <2>1. 2^16 - 1 = 65535
    OBVIOUS
  <2> DEFINE n == 65535
  <2>2. n \in Nat /\ n < 65536
    BY SMT
  <2>3. \A i \in 0 .. 15 : i \in BitsOf16(n)
    <3> TAKE i \in 0 .. 15
    <3>1. \/ i = 0 \/ i = 1 \/ i = 2 \/ i = 3 \/ i = 4 \/ i = 5 \/ i = 6 \/ i = 7
          \/ i = 8 \/ i = 9 \/ i = 10 \/ i = 11 \/ i = 12 \/ i = 13 \/ i = 14 \/ i = 15
      BY SMT
    <3> QED
      BY <2>2, <3>1, PlaceOf, SMT
  <2>4. BitsOf16(n) \in Word
    BY <2>2, PlaceOf
  <2> HIDE DEF n
  <2>5. BitsOf16(n) = 0 .. 15
    BY <2>3, <2>4, SMT DEF Word
  <2> QED
    BY <2>1, <2>2, <2>5, SMT DEF Reg16, n
<1> DEFINE r0 == 2^16 - 1
<1> HIDE DEF R
<1>a. r0 \in Reg16 /\ BitsOf16(r0) = R[1] /\ r1 = DivideChar(r0, t[2])
  BY <1>1, <1>2, Zenon
<1>r1. r1 \in Reg16 /\ BitsOf16(r1) = R[2]
  <2> HIDE DEF r0, r1
  <2> QED
    BY <1>0, <1>1, <1>a, DivideByte, Zenon
<1>r2. r2 \in Reg16 /\ BitsOf16(r2) = R[3]
  <2> HIDE DEF r1
  <2> QED
    BY <1>0, <1>1, <1>r1, DivideByte, Zenon
<1>r3. r3 \in Reg16 /\ BitsOf16(r3) = R[4]
  <2> HIDE DEF r2
  <2> QED
    BY <1>0, <1>1, <1>r2, DivideByte, Zenon
<1>r4. r4 \in Reg16 /\ BitsOf16(r4) = R[5]
  <2> HIDE DEF r3
  <2> QED
    BY <1>0, <1>1, <1>r3, DivideByte, Zenon
<1>r5. r5 \in Reg16 /\ BitsOf16(r5) = R[6]
  <2> HIDE DEF r4
  <2> QED
    BY <1>0, <1>1, <1>r4, DivideByte, Zenon
<1>r6. r6 \in Reg16 /\ BitsOf16(r6) = R[7]
  <2> HIDE DEF r5
  <2> QED
    BY <1>0, <1>1, <1>r5, DivideByte, Zenon
<1>r7. r7 \in Reg16 /\ BitsOf16(r7) = R[8]
  <2> HIDE DEF r6
  <2> QED
    BY <1>0, <1>1, <1>r6, DivideByte, Zenon
<1>r8. r8 \in Reg16 /\ BitsOf16(r8) = R[9]
  <2> HIDE DEF r7
  <2> QED
    BY <1>0, <1>1, <1>r7, DivideByte, Zenon
<1>3. BitSerialCrc(t) = r8
  BY Zenon DEF BitSerialCrc
<1>4. M!compute_crc(t) = R[9]
  BY RegisterSteps DEF R
<1> HIDE DEF r8
<1> QED
  BY <1>r8, <1>3, <1>4, Zenon

(* The texts of the messages are texts in the sense of SerialCrc.          *)
LEMMA MessageInvRemainder == MessageInv => CrcIsRemainder
<1> SUFFICES ASSUME MessageInv, call.fcn = "message"
             PROVE  M!compute_crc(call.text) = M!BitsOf(BitSerialCrc(call.text), 16)
  BY Zenon DEF CrcIsRemainder
<1>1. PICK v \in [1 .. 4 -> M!Byte], t \in Text : call = [fcn |-> "message", vals |-> v, text |-> t]
  BY Zenon DEF MessageInv
<1>2. call.text = t
  BY <1>1
<1> QED
  BY <1>2, SerialCrc, Zenon DEF BitsOf16

(* For every text on the line, compute_crc of msg_buf.h yields the         *)
(* remainder of the division by the polynomial.                            *)
THEOREM CrcIsRemainderHolds == CodingsSpec => []CrcIsRemainder
  BY MessageInvInit, MessageInvStep, MessageInvRemainder, PTL DEF CodingsSpec

-----------------------------------------------------------------------------
(* The two ends of the line.                                               *)

LineCall(baud, e71) ==
    [fcn |-> "line", baud |-> baud,
     router |-> L!sp_init(baud, e71), avr |-> L!init(L!uint16(baud), e71)]

(* The router takes the rates of its table that fit a uint16_t.            *)
LEMMA RouterRates ==
    ASSUME NEW baud \in Nat, NEW e71 \in BOOLEAN
    PROVE  /\ L!sp_init(baud, e71).ok /\ L!sp_init(baud, e71).rate = baud
                <=> baud \in L!Rates /\ baud < 65536
           /\ L!sp_init(baud, e71).format = L!Format(e71)
<1> DEFINE u == L!uint16(baud)
<1>1. u = baud <=> baud < 65536
  <2>1. u = baud % 65536
    BY SMT DEF L!uint16
  <2> QED
    BY <2>1
<1>2. /\ L!sp_init(baud, e71).ok <=> u \in L!Rates
      /\ L!sp_init(baud, e71).rate = u
  <2>1. L!sp_init(baud, e71).ok <=> u \in L!Rates
    BY Zenon DEF L!sp_init
  <2>2. L!sp_init(baud, e71).rate = u
    BY SMT DEF L!sp_init
  <2> QED
    BY <2>1, <2>2
<1>3. L!sp_init(baud, e71).format = L!Format(e71)
  BY SMT DEF L!sp_init, L!Format
<1> HIDE DEF u
<1>4. L!sp_init(baud, e71).ok /\ L!sp_init(baud, e71).rate = baud
                <=> baud \in L!Rates /\ baud < 65536
  BY <1>1, <1>2, SMT
<1> QED
  BY <1>3, <1>4

(* What the AVR makes of a rate whose divisor is n.                        *)
LEMMA AvrRate ==
    ASSUME NEW baud \in Nat, baud > 0, baud < 65536, NEW e71 \in BOOLEAN
    PROVE  L!init(L!uint16(baud), e71).rate =
             L!F_CPU \div (8 * (L!Ubrr(baud) + 1))
<1>0. 2^16 = 65536
  OBVIOUS
<1>1. L!uint16(baud) = baud
  <2>1. baud % 65536 = baud
    OBVIOUS
  <2> QED
    BY <2>1, <1>0, SMT DEF L!uint16
<1> QED
  BY <1>1, SMT DEF L!init

(* The rates that fit, one by one.                                         *)
LEMMA RatesBelow ==
    L!Rates \cap 0 .. 65535 =
        {50, 75, 110, 134, 150, 200, 300, 600, 1200, 1800, 2400, 4800, 9600,
         19200, 38400, 57600}
  BY DEF L!Rates

(* The AVR is within one percent from 600 to 57600.                        *)
LEMMA AvrRates ==
    ASSUME NEW baud \in L!Rates, baud < 65536, NEW e71 \in BOOLEAN
    PROVE  Close(L!init(L!uint16(baud), e71).rate, baud) <=> (600 <= baud /\ baud <= 57600)
<1> DEFINE r == L!init(L!uint16(baud), e71).rate
           Within == Close(r, baud) <=> (600 <= baud /\ baud <= 57600)
<1>1. ASSUME baud = 50 PROVE Within
  <2>1. L!Ubrr(baud) = 63
    BY <1>1, SMT DEF L!Ubrr, L!Divisor, L!F_CPU
  <2>2. r = L!F_CPU \div (8 * (L!Ubrr(baud) + 1))
    BY <1>1, AvrRate
  <2>3. r = 31250
    BY <2>1, <2>2, SMT DEF L!F_CPU
  <2> QED
    BY <1>1, <2>3, SMT DEF Close
<1>2. ASSUME baud = 75 PROVE Within
  <2>1. L!Ubrr(baud) = 2090
    BY <1>2, SMT DEF L!Ubrr, L!Divisor, L!F_CPU
  <2>2. r = L!F_CPU \div (8 * (L!Ubrr(baud) + 1))
    BY <1>2, AvrRate
  <2>3. r = 956
    BY <2>1, <2>2, SMT DEF L!F_CPU
  <2> QED
    BY <1>2, <2>3, SMT DEF Close
<1>3. ASSUME baud = 110 PROVE Within
  <2>1. L!Ubrr(baud) = 1797
    BY <1>3, SMT DEF L!Ubrr, L!Divisor, L!F_CPU
  <2>2. r = L!F_CPU \div (8 * (L!Ubrr(baud) + 1))
    BY <1>3, AvrRate
  <2>3. r = 1112
    BY <2>1, <2>2, SMT DEF L!F_CPU
  <2> QED
    BY <1>3, <2>3, SMT DEF Close
<1>4. ASSUME baud = 134 PROVE Within
  <2>1. L!Ubrr(baud) = 2636
    BY <1>4, SMT DEF L!Ubrr, L!Divisor, L!F_CPU
  <2>2. r = L!F_CPU \div (8 * (L!Ubrr(baud) + 1))
    BY <1>4, AvrRate
  <2>3. r = 758
    BY <2>1, <2>2, SMT DEF L!F_CPU
  <2> QED
    BY <1>4, <2>3, SMT DEF Close
<1>5. ASSUME baud = 150 PROVE Within
  <2>1. L!Ubrr(baud) = 1044
    BY <1>5, SMT DEF L!Ubrr, L!Divisor, L!F_CPU
  <2>2. r = L!F_CPU \div (8 * (L!Ubrr(baud) + 1))
    BY <1>5, AvrRate
  <2>3. r = 1913
    BY <2>1, <2>2, SMT DEF L!F_CPU
  <2> QED
    BY <1>5, <2>3, SMT DEF Close
<1>6. ASSUME baud = 200 PROVE Within
  <2>1. L!Ubrr(baud) = 1807
    BY <1>6, SMT DEF L!Ubrr, L!Divisor, L!F_CPU
  <2>2. r = L!F_CPU \div (8 * (L!Ubrr(baud) + 1))
    BY <1>6, AvrRate
  <2>3. r = 1106
    BY <2>1, <2>2, SMT DEF L!F_CPU
  <2> QED
    BY <1>6, <2>3, SMT DEF Close
<1>7. ASSUME baud = 300 PROVE Within
  <2>1. L!Ubrr(baud) = 2570
    BY <1>7, SMT DEF L!Ubrr, L!Divisor, L!F_CPU
  <2>2. r = L!F_CPU \div (8 * (L!Ubrr(baud) + 1))
    BY <1>7, AvrRate
  <2>3. r = 777
    BY <2>1, <2>2, SMT DEF L!F_CPU
  <2> QED
    BY <1>7, <2>3, SMT DEF Close
<1>8. ASSUME baud = 600 PROVE Within
  <2>1. L!Ubrr(baud) = 3332
    BY <1>8, SMT DEF L!Ubrr, L!Divisor, L!F_CPU
  <2>2. r = L!F_CPU \div (8 * (L!Ubrr(baud) + 1))
    BY <1>8, AvrRate
  <2>3. r = 600
    BY <2>1, <2>2, SMT DEF L!F_CPU
  <2> QED
    BY <1>8, <2>3, SMT DEF Close
<1>9. ASSUME baud = 1200 PROVE Within
  <2>1. L!Ubrr(baud) = 1666
    BY <1>9, SMT DEF L!Ubrr, L!Divisor, L!F_CPU
  <2>2. r = L!F_CPU \div (8 * (L!Ubrr(baud) + 1))
    BY <1>9, AvrRate
  <2>3. r = 1199
    BY <2>1, <2>2, SMT DEF L!F_CPU
  <2> QED
    BY <1>9, <2>3, SMT DEF Close
<1>10. ASSUME baud = 1800 PROVE Within
  <2>1. L!Ubrr(baud) = 1110
    BY <1>10, SMT DEF L!Ubrr, L!Divisor, L!F_CPU
  <2>2. r = L!F_CPU \div (8 * (L!Ubrr(baud) + 1))
    BY <1>10, AvrRate
  <2>3. r = 1800
    BY <2>1, <2>2, SMT DEF L!F_CPU
  <2> QED
    BY <1>10, <2>3, SMT DEF Close
<1>11. ASSUME baud = 2400 PROVE Within
  <2>1. L!Ubrr(baud) = 832
    BY <1>11, SMT DEF L!Ubrr, L!Divisor, L!F_CPU
  <2>2. r = L!F_CPU \div (8 * (L!Ubrr(baud) + 1))
    BY <1>11, AvrRate
  <2>3. r = 2400
    BY <2>1, <2>2, SMT DEF L!F_CPU
  <2> QED
    BY <1>11, <2>3, SMT DEF Close
<1>12. ASSUME baud = 4800 PROVE Within
  <2>1. L!Ubrr(baud) = 416
    BY <1>12, SMT DEF L!Ubrr, L!Divisor, L!F_CPU
  <2>2. r = L!F_CPU \div (8 * (L!Ubrr(baud) + 1))
    BY <1>12, AvrRate
  <2>3. r = 4796
    BY <2>1, <2>2, SMT DEF L!F_CPU
  <2> QED
    BY <1>12, <2>3, SMT DEF Close
<1>13. ASSUME baud = 9600 PROVE Within
  <2>1. L!Ubrr(baud) = 207
    BY <1>13, SMT DEF L!Ubrr, L!Divisor, L!F_CPU
  <2>2. r = L!F_CPU \div (8 * (L!Ubrr(baud) + 1))
    BY <1>13, AvrRate
  <2>3. r = 9615
    BY <2>1, <2>2, SMT DEF L!F_CPU
  <2> QED
    BY <1>13, <2>3, SMT DEF Close
<1>14. ASSUME baud = 19200 PROVE Within
  <2>1. L!Ubrr(baud) = 103
    BY <1>14, SMT DEF L!Ubrr, L!Divisor, L!F_CPU
  <2>2. r = L!F_CPU \div (8 * (L!Ubrr(baud) + 1))
    BY <1>14, AvrRate
  <2>3. r = 19230
    BY <2>1, <2>2, SMT DEF L!F_CPU
  <2> QED
    BY <1>14, <2>3, SMT DEF Close
<1>15. ASSUME baud = 38400 PROVE Within
  <2>1. L!Ubrr(baud) = 51
    BY <1>15, SMT DEF L!Ubrr, L!Divisor, L!F_CPU
  <2>2. r = L!F_CPU \div (8 * (L!Ubrr(baud) + 1))
    BY <1>15, AvrRate
  <2>3. r = 38461
    BY <2>1, <2>2, SMT DEF L!F_CPU
  <2> QED
    BY <1>15, <2>3, SMT DEF Close
<1>16. ASSUME baud = 57600 PROVE Within
  <2>1. L!Ubrr(baud) = 34
    BY <1>16, SMT DEF L!Ubrr, L!Divisor, L!F_CPU
  <2>2. r = L!F_CPU \div (8 * (L!Ubrr(baud) + 1))
    BY <1>16, AvrRate
  <2>3. r = 57142
    BY <2>1, <2>2, SMT DEF L!F_CPU
  <2> QED
    BY <1>16, <2>3, SMT DEF Close
<1>18. \/ baud = 50 \/ baud = 75 \/ baud = 110 \/ baud = 134 \/ baud = 150 \/ baud = 200
       \/ baud = 300 \/ baud = 600 \/ baud = 1200 \/ baud = 1800 \/ baud = 2400 \/ baud = 4800
       \/ baud = 9600 \/ baud = 19200 \/ baud = 38400 \/ baud = 57600
  BY SMT DEF L!Rates
<1> HIDE DEF Within
<1>19. Within
  BY <1>18, <1>1, <1>2, <1>3, <1>4, <1>5, <1>6, <1>7, <1>8, <1>9, <1>10, <1>11, <1>12,
     <1>13, <1>14, <1>15, <1>16, SMT
<1> QED
  BY <1>19, SMT DEF Within

LineInv ==
    call.fcn = "line" =>
       \E baud \in Bauds : \E e71 \in BOOLEAN : call = LineCall(baud, e71)

(* Whatever is called, the settings are those the two ends make.           *)
LEMMA LineInvInit == CodingsInit => LineInv
  BY DEF CodingsInit, LineInv, None

(* No call changes them.                                                   *)
LEMMA LineInvStep == LineInv /\ [CodingsNext]_callVars => LineInv'
<1> SUFFICES ASSUME LineInv, [CodingsNext]_callVars PROVE LineInv'
  OBVIOUS
<1>1. CASE OpenLine
  <2>1. \E baud \in Bauds : \E e71 \in BOOLEAN : call' = LineCall(baud, e71)
    BY <1>1, Zenon DEF OpenLine, LineCall
  <2> QED
    BY <2>1, Zenon DEF LineInv
<1>2. CASE SetBytes
  <2>1. call'.fcn = "message"
    BY <1>2, SMT DEF SetBytes
  <2> QED
    BY <2>1 DEF LineInv
<1>3. CASE ChangeChar
  <2>1. call.fcn = "message" /\ \E u : call' = [call EXCEPT !.text = u]
    BY <1>3, Zenon DEF ChangeChar
  <2>2. call'.fcn # "line"
    BY <2>1
  <2> QED
    BY <2>2 DEF LineInv
<1>4. CASE FlipBit
  <2>1. call.fcn = "message" /\ \E u : call' = [call EXCEPT !.text = u]
    BY <1>4, Zenon DEF FlipBit
  <2>2. call'.fcn # "line"
    BY <2>1
  <2> QED
    BY <2>2 DEF LineInv
<1>5. CASE SerialNum
  <2>1. call'.fcn = "serialnum"
    BY <1>5, SMT DEF SerialNum
  <2> QED
    BY <2>1 DEF LineInv
<1>6. CASE ReadConfig
  <2>1. call'.fcn = "config"
    BY <1>6, SMT DEF ReadConfig
  <2> QED
    BY <2>1 DEF LineInv
<1>7. CASE ListAddresses
  <2>1. call'.fcn = "addresses"
    BY <1>7, SMT DEF ListAddresses
  <2> QED
    BY <2>1 DEF LineInv
<1>8. CASE UNCHANGED callVars
  BY <1>8, Zenon DEF callVars, LineInv
<1> QED
  BY <1>1, <1>2, <1>3, <1>4, <1>5, <1>6, <1>7, <1>8 DEF CodingsNext

(* They agree at the rates of the property.                                *)
LEMMA LineInvImplies == LineInv => EndsAgree
<1> SUFFICES ASSUME LineInv, call.fcn = "line"
             PROVE  (  /\ call.router.ok
                       /\ Close(call.avr.rate, call.baud) /\ call.router.rate = call.baud
                       /\ call.avr.format = call.router.format
                     <=> call.baud \in L!Rates /\ 600 <= call.baud /\ call.baud <= 57600 )
  BY SMT DEF EndsAgree
<1>1. PICK baud \in Bauds, e71 \in BOOLEAN : call = LineCall(baud, e71)
  BY Zenon DEF LineInv
<1> DEFINE r == L!sp_init(baud, e71)
           a == L!init(L!uint16(baud), e71)
<1>2. /\ call.baud = baud /\ call.router = r /\ call.avr = a
  BY <1>1 DEF LineCall
<1>3. baud \in Nat
  BY CodingsAssumption DEF CodingsAssumption
<1>4. r.ok /\ r.rate = baud <=> (baud \in L!Rates /\ baud < 65536)
  BY <1>3, RouterRates
<1>5. r.format = a.format
  <2>1. r.format = L!Format(e71)
    BY <1>3, RouterRates
  <2>2. a.format = L!Format(e71)
    BY SMT DEF L!init
  <2> QED
    BY <2>1, <2>2
<1>6. baud \in L!Rates /\ baud < 65536 => (Close(a.rate, baud) <=> (600 <= baud /\ baud <= 57600))
  BY AvrRates
<1>8. baud <= 57600 => baud < 65536
  BY <1>3
<1> HIDE DEF r, a
<1>7. /\ r.ok /\ Close(a.rate, baud) /\ r.rate = baud /\ a.format = r.format
        <=> baud \in L!Rates /\ 600 <= baud /\ baud <= 57600
  BY <1>4, <1>5, <1>6, <1>8, SMT
<1> QED
  BY <1>2, <1>7, SMT

(* For every rate asked for, sp_init and SerialPort::init agree exactly at *)
(* the rates of the table from 600 to 57600.                               *)
THEOREM EndsAgreeHolds == CodingsSpec => []EndsAgree
  BY LineInvInit, LineInvStep, LineInvImplies, PTL DEF CodingsSpec
-----------------------------------------------------------------------------
(* The digits of a time.                                                   *)

(* The bits a digit of the time stands for, and that digit.                *)
Five(t, d) == {j \in 0 .. 4 : 5 * d + j \in t}
Char32(t, d) == B!enc32[B!Number(Five(t, d)) + 1]

(* Five bits are the number they make.                                     *)
LEMMA NumberFacts ==
    ASSUME NEW bits \in SUBSET (0 .. 4)
    PROVE  /\ B!Number(bits) \in 0 .. 31
           /\ B!Number(bits) = 0 <=> bits = {}
           /\ B!BitsIn(B!Number(bits), 8) = bits
<1> DEFINE a == IF 0 \in bits THEN 1 ELSE 0
           b == IF 1 \in bits THEN 2 ELSE 0
           c == IF 2 \in bits THEN 4 ELSE 0
           d == IF 3 \in bits THEN 8 ELSE 0
           e == IF 4 \in bits THEN 16 ELSE 0
           n == a + b + c + d + e
<1>1. /\ 2^0 = 1 /\ 2^1 = 2 /\ 2^2 = 4 /\ 2^3 = 8 /\ 2^4 = 16
      /\ 2^5 = 32 /\ 2^6 = 64 /\ 2^7 = 128
  BY SMT
<1>2. B!Number(bits) = n
  BY <1>1, SMT DEF B!Number
<1>3. n \in 0 .. 31 /\ (n = 0 <=> bits = {})
  OBVIOUS
<1>4. /\ (n % 2 = 1 <=> 0 \in bits)
      /\ ((n \div 2) % 2 = 1 <=> 1 \in bits)
      /\ ((n \div 4) % 2 = 1 <=> 2 \in bits)
      /\ ((n \div 8) % 2 = 1 <=> 3 \in bits)
      /\ ((n \div 16) % 2 = 1 <=> 4 \in bits)
  BY SMT
<1>5. n \div 1 = n /\ n \div 32 = 0 /\ n \div 64 = 0 /\ n \div 128 = 0
  BY SMT
<1> HIDE DEF n
<1>6. ASSUME NEW i \in 0 .. 7
      PROVE  (n \div 2^i) % 2 = 1 <=> i \in bits
  <2>1. i = 0 \/ i = 1 \/ i = 2 \/ i = 3 \/ i = 4 \/ i = 5 \/ i = 6 \/ i = 7
    OBVIOUS
  <2>2. /\ ((n \div 1) % 2 = 1 <=> 0 \in bits)
        /\ ((n \div 32) % 2 = 1 <=> 5 \in bits)
        /\ ((n \div 64) % 2 = 1 <=> 6 \in bits)
        /\ ((n \div 128) % 2 = 1 <=> 7 \in bits)
    BY <1>4, <1>5, SMT
  <2>10. CASE i = 0
    BY <1>1, <2>2, <2>10, Zenon
  <2>11. CASE i = 1
    BY <1>1, <1>4, <2>11, Zenon
  <2>12. CASE i = 2
    BY <1>1, <1>4, <2>12, Zenon
  <2>13. CASE i = 3
    BY <1>1, <1>4, <2>13, Zenon
  <2>14. CASE i = 4
    BY <1>1, <1>4, <2>14, Zenon
  <2>15. CASE i = 5
    BY <1>1, <2>2, <2>15, Zenon
  <2>16. CASE i = 6
    BY <1>1, <2>2, <2>16, Zenon
  <2>17. CASE i = 7
    BY <1>1, <2>2, <2>17, Zenon
  <2> QED
    BY <2>1, <2>10, <2>11, <2>12, <2>13, <2>14, <2>15, <2>16, <2>17, Zenon
<1>7. B!BitsIn(n, 8) = {i \in 0 .. 7 : (n \div 2^i) % 2 = 1}
  BY DEF B!BitsIn, B!Low
<1> HIDE DEF n
<1>8. B!BitsIn(n, 8) = bits
  <2>1. \A i \in bits : i \in 0 .. 7
    OBVIOUS
  <2> QED
    BY <1>6, <1>7, <2>1, Zenon
<1> QED
  BY <1>2, <1>3, <1>8

(* What reads a digit.                                                     *)
Reads(c, n) == B!decode_char(c) = n /\ B!decode_char(Mistaken(c)) = n

(* Each of the 32 digits is read as itself, also as people write it.       *)
LEMMA DigitRead ==
    ASSUME NEW n \in 0 .. 31
    PROVE  /\ B!enc32[n + 1] \in Nat
           /\ B!enc32[n + 1] = 48 <=> n = 0
           /\ B!decode_char(B!enc32[n + 1]) = n
           /\ B!decode_char(Mistaken(B!enc32[n + 1])) = n
<1>0. B!enc32[1] = 48 /\ Reads(48, 0)
  BY SMT DEF B!enc32, Reads, B!decode_char, Mistaken, Capital
<1>1. B!enc32[2] = 97 /\ Reads(97, 1)
  BY SMT DEF B!enc32, Reads, B!decode_char, Mistaken, Capital
<1>2. B!enc32[3] = 98 /\ Reads(98, 2)
  BY SMT DEF B!enc32, Reads, B!decode_char, Mistaken, Capital
<1>3. B!enc32[4] = 99 /\ Reads(99, 3)
  BY SMT DEF B!enc32, Reads, B!decode_char, Mistaken, Capital
<1>4. B!enc32[5] = 100 /\ Reads(100, 4)
  BY SMT DEF B!enc32, Reads, B!decode_char, Mistaken, Capital
<1>5. B!enc32[6] = 101 /\ Reads(101, 5)
  BY SMT DEF B!enc32, Reads, B!decode_char, Mistaken, Capital
<1>6. B!enc32[7] = 102 /\ Reads(102, 6)
  BY SMT DEF B!enc32, Reads, B!decode_char, Mistaken, Capital
<1>7. B!enc32[8] = 103 /\ Reads(103, 7)
  BY SMT DEF B!enc32, Reads, B!decode_char, Mistaken, Capital
<1>8. B!enc32[9] = 104 /\ Reads(104, 8)
  BY SMT DEF B!enc32, Reads, B!decode_char, Mistaken, Capital
<1>9. B!enc32[10] = 106 /\ Reads(106, 9)
  BY SMT DEF B!enc32, Reads, B!decode_char, Mistaken, Capital
<1>10. B!enc32[11] = 107 /\ Reads(107, 10)
  BY SMT DEF B!enc32, Reads, B!decode_char, Mistaken, Capital
<1>11. B!enc32[12] = 109 /\ Reads(109, 11)
  BY SMT DEF B!enc32, Reads, B!decode_char, Mistaken, Capital
<1>12. B!enc32[13] = 110 /\ Reads(110, 12)
  BY SMT DEF B!enc32, Reads, B!decode_char, Mistaken, Capital
<1>13. B!enc32[14] = 112 /\ Reads(112, 13)
  BY SMT DEF B!enc32, Reads, B!decode_char, Mistaken, Capital
<1>14. B!enc32[15] = 113 /\ Reads(113, 14)
  BY SMT DEF B!enc32, Reads, B!decode_char, Mistaken, Capital
<1>15. B!enc32[16] = 114 /\ Reads(114, 15)
  BY SMT DEF B!enc32, Reads, B!decode_char, Mistaken, Capital
<1>16. B!enc32[17] = 115 /\ Reads(115, 16)
  BY SMT DEF B!enc32, Reads, B!decode_char, Mistaken, Capital
<1>17. B!enc32[18] = 116 /\ Reads(116, 17)
  BY SMT DEF B!enc32, Reads, B!decode_char, Mistaken, Capital
<1>18. B!enc32[19] = 117 /\ Reads(117, 18)
  BY SMT DEF B!enc32, Reads, B!decode_char, Mistaken, Capital
<1>19. B!enc32[20] = 118 /\ Reads(118, 19)
  BY SMT DEF B!enc32, Reads, B!decode_char, Mistaken, Capital
<1>20. B!enc32[21] = 119 /\ Reads(119, 20)
  BY SMT DEF B!enc32, Reads, B!decode_char, Mistaken, Capital
<1>21. B!enc32[22] = 120 /\ Reads(120, 21)
  BY SMT DEF B!enc32, Reads, B!decode_char, Mistaken, Capital
<1>22. B!enc32[23] = 121 /\ Reads(121, 22)
  BY SMT DEF B!enc32, Reads, B!decode_char, Mistaken, Capital
<1>23. B!enc32[24] = 122 /\ Reads(122, 23)
  BY SMT DEF B!enc32, Reads, B!decode_char, Mistaken, Capital
<1>24. B!enc32[25] = 49 /\ Reads(49, 24)
  BY SMT DEF B!enc32, Reads, B!decode_char, Mistaken, Capital
<1>25. B!enc32[26] = 50 /\ Reads(50, 25)
  BY SMT DEF B!enc32, Reads, B!decode_char, Mistaken, Capital
<1>26. B!enc32[27] = 51 /\ Reads(51, 26)
  BY SMT DEF B!enc32, Reads, B!decode_char, Mistaken, Capital
<1>27. B!enc32[28] = 52 /\ Reads(52, 27)
  BY SMT DEF B!enc32, Reads, B!decode_char, Mistaken, Capital
<1>28. B!enc32[29] = 54 /\ Reads(54, 28)
  BY SMT DEF B!enc32, Reads, B!decode_char, Mistaken, Capital
<1>29. B!enc32[30] = 55 /\ Reads(55, 29)
  BY SMT DEF B!enc32, Reads, B!decode_char, Mistaken, Capital
<1>30. B!enc32[31] = 56 /\ Reads(56, 30)
  BY SMT DEF B!enc32, Reads, B!decode_char, Mistaken, Capital
<1>31. B!enc32[32] = 57 /\ Reads(57, 31)
  BY SMT DEF B!enc32, Reads, B!decode_char, Mistaken, Capital
<1>40. \/ n = 0 \/ n = 1 \/ n = 2 \/ n = 3 \/ n = 4 \/ n = 5 \/ n = 6 \/ n = 7
       \/ n = 8 \/ n = 9 \/ n = 10 \/ n = 11 \/ n = 12 \/ n = 13 \/ n = 14 \/ n = 15
       \/ n = 16 \/ n = 17 \/ n = 18 \/ n = 19 \/ n = 20 \/ n = 21 \/ n = 22 \/ n = 23
       \/ n = 24 \/ n = 25 \/ n = 26 \/ n = 27 \/ n = 28 \/ n = 29 \/ n = 30 \/ n = 31
  OBVIOUS
<1> DEFINE Fine(k) == /\ B!enc32[k + 1] \in Nat
                      /\ B!enc32[k + 1] = 48 <=> k = 0
                      /\ Reads(B!enc32[k + 1], k)
<1>50. Fine(0)
  BY <1>0, SMT
<1>51. Fine(1)
  BY <1>1, SMT
<1>52. Fine(2)
  BY <1>2, SMT
<1>53. Fine(3)
  BY <1>3, SMT
<1>54. Fine(4)
  BY <1>4, SMT
<1>55. Fine(5)
  BY <1>5, SMT
<1>56. Fine(6)
  BY <1>6, SMT
<1>57. Fine(7)
  BY <1>7, SMT
<1>58. Fine(8)
  BY <1>8, SMT
<1>59. Fine(9)
  BY <1>9, SMT
<1>60. Fine(10)
  BY <1>10, SMT
<1>61. Fine(11)
  BY <1>11, SMT
<1>62. Fine(12)
  BY <1>12, SMT
<1>63. Fine(13)
  BY <1>13, SMT
<1>64. Fine(14)
  BY <1>14, SMT
<1>65. Fine(15)
  BY <1>15, SMT
<1>66. Fine(16)
  BY <1>16, SMT
<1>67. Fine(17)
  BY <1>17, SMT
<1>68. Fine(18)
  BY <1>18, SMT
<1>69. Fine(19)
  BY <1>19, SMT
<1>70. Fine(20)
  BY <1>20, SMT
<1>71. Fine(21)
  BY <1>21, SMT
<1>72. Fine(22)
  BY <1>22, SMT
<1>73. Fine(23)
  BY <1>23, SMT
<1>74. Fine(24)
  BY <1>24, SMT
<1>75. Fine(25)
  BY <1>25, SMT
<1>76. Fine(26)
  BY <1>26, SMT
<1>77. Fine(27)
  BY <1>27, SMT
<1>78. Fine(28)
  BY <1>28, SMT
<1>79. Fine(29)
  BY <1>29, SMT
<1>80. Fine(30)
  BY <1>30, SMT
<1>81. Fine(31)
  BY <1>31, SMT
<1> HIDE DEF Fine
<1>90. Fine(n)
  BY <1>40, <1>50, <1>51, <1>52, <1>53, <1>54, <1>55, <1>56, <1>57, <1>58,
     <1>59, <1>60, <1>61, <1>62, <1>63, <1>64, <1>65, <1>66, <1>67, <1>68,
     <1>69, <1>70, <1>71, <1>72, <1>73, <1>74, <1>75, <1>76, <1>77, <1>78,
     <1>79, <1>80, <1>81, SMT
<1> QED
  BY <1>90 DEF Fine, Reads

(* A byte of the time.                                                     *)
Byte8(t, c) == {j \in 0 .. 7 : 8 * (c - 1) + j \in t}

(* A shift moves the bits and drops those that fall off the end.           *)
LEMMA ShiftIs ==
    ASSUME NEW x \in SUBSET Int, NEW n \in Int
    PROVE  \A m : m \in B!Shift(x, n) <=> m \in Nat /\ m - n \in x
<1>1. \A m : m \in B!Shift(x, n) <=> \E i \in x : i + n >= 0 /\ m = i + n
  BY SMT DEF B!Shift
<1>2. \A m : m \in Nat /\ m - n \in x => (m - n) + n >= 0 /\ m = (m - n) + n
  OBVIOUS
<1>3. \A i \in x : i + n >= 0 => i + n \in Nat /\ (i + n) - n = i
  OBVIOUS
<1>4. ASSUME NEW m, m \in B!Shift(x, n)
      PROVE  m \in Nat /\ m - n \in x
  <2>1. PICK i \in x : i + n >= 0 /\ m = i + n
    BY <1>1, <1>4, Zenon
  <2> QED
    BY <1>3, <2>1, Zenon
<1>5. ASSUME NEW m, m \in Nat, m - n \in x
      PROVE  m \in B!Shift(x, n)
  BY <1>1, <1>2, <1>5, Zenon
<1> QED
  BY <1>4, <1>5, Zenon

(* The time as a long has the bytes one expects.                           *)
LEMMA BytesAre ==
    ASSUME NEW t \in SUBSET (0 .. 63)
    PROVE  B!BytesOf(t, 8) = [c \in 1 .. 8 |-> Byte8(t, c)]
<1>1. ASSUME NEW c \in 1 .. 8
      PROVE  B!Shift(t, -8 * (c - 1)) \cap B!Low(8) = Byte8(t, c)
  <2>1. -8 * (c - 1) \in Int /\ t \in SUBSET Int
    OBVIOUS
  <2>2. \A m : m \in B!Shift(t, -8 * (c - 1)) <=> m \in Nat /\ m - (-8 * (c - 1)) \in t
    BY <2>1, ShiftIs, Zenon
  <2>3. \A m \in 0 .. 7 : m - (-8 * (c - 1)) = 8 * (c - 1) + m /\ m \in Nat
    OBVIOUS
  <2>4. B!Low(8) = 0 .. 7
    BY DEF B!Low
  <2> QED
    BY <2>2, <2>3, <2>4, Zenon DEF Byte8
<1> QED
  BY <1>1, Zenon DEF B!BytesOf

(* What a byte contributes to the number at bit d.                         *)
LEMMA Field ==
    ASSUME NEW t \in SUBSET (0 .. 63), NEW c \in Int, NEW d \in Int
    PROVE  \A m : m \in B!Shift(Byte8(t, c), 8 * (c - 1) - d) <=>
                     m \in Nat /\ d + m \in t /\ 8 * (c - 1) <= d + m /\ d + m < 8 * c
<1>1. Byte8(t, c) \in SUBSET Int /\ 8 * (c - 1) - d \in Int
  BY DEF Byte8
<1>2. \A m : m \in B!Shift(Byte8(t, c), 8 * (c - 1) - d)
               <=> m \in Nat /\ m - (8 * (c - 1) - d) \in Byte8(t, c)
  BY <1>1, ShiftIs, Zenon
<1>3. \A m \in Nat : m - (8 * (c - 1) - d) \in Byte8(t, c) <=>
                        d + m \in t /\ 8 * (c - 1) <= d + m /\ d + m < 8 * c
  BY SMT DEF Byte8
<1> QED
  BY <1>2, <1>3, Zenon

(* One more digit before the others.                                       *)
LEMMA Prepended ==
    ASSUME NEW k \in Nat, NEW f \in [0 .. k -> Nat]
    PROVE  <<f[k]>> \o [j \in 1 .. k |-> f[k - j]] = [j \in 1 .. k + 1 |-> f[(k + 1) - j]]
<1> DEFINE s == [j \in 1 .. k |-> f[k - j]]
           x == <<f[k]>>
<1>1. s \in Seq(Nat) /\ Len(s) = k /\ \A j \in 1 .. k : s[j] = f[k - j]
  <2>1. s \in [1 .. k -> Nat]
    OBVIOUS
  <2> QED
    BY <2>1
<1>2. x \in Seq(Nat) /\ Len(x) = 1 /\ x[1] = f[k]
  OBVIOUS
<1> HIDE DEF s, x
<1>3. /\ x \o s \in Seq(Nat)
      /\ Len(x \o s) = 1 + k
      /\ \A i \in 1 .. 1 + k : (x \o s)[i] = IF i <= 1 THEN x[i] ELSE s[i - 1]
  BY <1>1, <1>2, ConcatProperties
<1>4. x \o s = [i \in 1 .. k + 1 |-> (x \o s)[i]]
  <2>1. x \o s \in [1 .. Len(x \o s) -> Nat]
    BY <1>3, LenProperties, Zenon
  <2>2. Len(x \o s) = k + 1
    BY <1>3
  <2> QED
    BY <2>1, <2>2, Zenon
<1>5. ASSUME NEW i \in 1 .. k + 1
      PROVE  (x \o s)[i] = f[(k + 1) - i]
  <2>1. CASE i = 1
    BY <1>2, <1>3, <2>1
  <2>2. CASE i # 1
    <3>1. i - 1 \in 1 .. k /\ i \in 1 .. 1 + k /\ ~ (i <= 1) /\ k - (i - 1) = (k + 1) - i
      BY <2>2
    <3>2. (x \o s)[i] = s[i - 1]
      BY <1>3, <3>1, Zenon
    <3>3. s[i - 1] = f[k - (i - 1)]
      BY <1>1, <3>1, Zenon
    <3> QED
      BY <3>1, <3>2, <3>3, Zenon
  <2> QED
    BY <2>1, <2>2
<1> QED
  BY <1>4, <1>5, Zenon DEF s, x

(* Where encode is after k digits, with i bytes fetched.                   *)
AfterDigits(t, k, i) ==
    [sft |-> 8 * (i - 1) - 5 * k, src |-> Byte8(t, i), i |-> i,
     out |-> [j \in 1 .. k |-> Char32(t, k - j)]]

(* The digits are characters.                                              *)
LEMMA CharFacts ==
    ASSUME NEW t, NEW d \in Int
    PROVE  /\ Five(t, d) \in SUBSET (0 .. 4)
           /\ Char32(t, d) \in Nat
           /\ Char32(t, d) = 48 <=> Five(t, d) = {}
<1>1. Five(t, d) \in SUBSET (0 .. 4)
  BY DEF Five
<1>2. /\ B!Number(Five(t, d)) \in 0 .. 31
      /\ B!Number(Five(t, d)) = 0 <=> Five(t, d) = {}
  BY <1>1, NumberFacts, Zenon
<1> QED
  BY <1>1, <1>2, DigitRead, Zenon DEF Char32

(* What a digit's bits come from: byte i, or bytes i and i + 1.            *)
LEMMA FiveFrom ==
    ASSUME NEW t \in SUBSET (0 .. 63), NEW k \in 0 .. 12, NEW i \in 0 .. 8,
           8 * (i - 1) <= 5 * k
    PROVE  /\ 5 * k + 4 < 8 * i \/ i = 8 =>
                 (B!Shift(Byte8(t, i), 8 * (i - 1) - 5 * k)
                    \cup B!Shift(Byte8(t, i), 8 * (i - 1) - 5 * k)) \cap B!Low(5) = Five(t, k)
           /\ 5 * k + 4 < 8 * (i + 1) \/ i = 7 =>
                 (B!Shift(Byte8(t, i), 8 * (i - 1) - 5 * k)
                    \cup B!Shift(Byte8(t, i + 1), 8 * ((i + 1) - 1) - 5 * k)) \cap B!Low(5)
                 = Five(t, k)
<1> DEFINE a == B!Shift(Byte8(t, i), 8 * (i - 1) - 5 * k)
           b == B!Shift(Byte8(t, i + 1), 8 * ((i + 1) - 1) - 5 * k)
<1>1. i \in Int /\ i + 1 \in Int /\ 5 * k \in Int
  OBVIOUS
<1>2. \A m : m \in a <=> m \in Nat /\ 5 * k + m \in t
                             /\ 8 * (i - 1) <= 5 * k + m /\ 5 * k + m < 8 * i
  BY <1>1, Field, Zenon
<1>3. \A m : m \in b <=> m \in Nat /\ 5 * k + m \in t
                             /\ 8 * ((i + 1) - 1) <= 5 * k + m /\ 5 * k + m < 8 * (i + 1)
  BY <1>1, Field, Zenon
<1>4. B!Low(5) = 0 .. 4
  BY DEF B!Low
<1> HIDE DEF a, b
<1>5. ASSUME 5 * k + 4 < 8 * i \/ i = 8
      PROVE  (a \cup a) \cap B!Low(5) = Five(t, k)
  <2>1. \A m \in 0 .. 4 : m \in a <=> 5 * k + m \in t
    BY <1>2, <1>5
  <2> QED
    BY <1>4, <2>1, Zenon DEF Five
<1>6. ASSUME 5 * k + 4 < 8 * (i + 1) \/ i = 7
      PROVE  (a \cup b) \cap B!Low(5) = Five(t, k)
  <2>1. \A m \in 0 .. 4 : m \in a \/ m \in b <=> 5 * k + m \in t
    BY <1>2, <1>3, <1>6
  <2> QED
    BY <1>4, <2>1, Zenon DEF Five
<1> QED
  BY <1>5, <1>6, Zenon DEF a, b

(* One more digit of the time before those there are.                      *)
LEMMA DigitsPrepended ==
    ASSUME NEW t, NEW k \in Nat
    PROVE  <<Char32(t, k)>> \o [j \in 1 .. k |-> Char32(t, k - j)]
           = [j \in 1 .. k + 1 |-> Char32(t, (k + 1) - j)]
<1> DEFINE f == [d \in 0 .. k |-> Char32(t, d)]
<1>1. f \in [0 .. k -> Nat]
  BY CharFacts
<1>2. f[k] = Char32(t, k) /\ \A j \in 1 .. k : f[k - j] = Char32(t, k - j)
  OBVIOUS
<1>3. \A j \in 1 .. k + 1 : f[(k + 1) - j] = Char32(t, (k + 1) - j)
  OBVIOUS
<1> HIDE DEF f
<1>4. <<f[k]>> \o [j \in 1 .. k |-> f[k - j]] = [j \in 1 .. k + 1 |-> f[(k + 1) - j]]
  BY <1>1, Prepended
<1>5. [j \in 1 .. k |-> f[k - j]] = [j \in 1 .. k |-> Char32(t, k - j)]
  BY <1>2, Zenon
<1>6. [j \in 1 .. k + 1 |-> f[(k + 1) - j]] = [j \in 1 .. k + 1 |-> Char32(t, (k + 1) - j)]
  BY <1>3, Zenon
<1> QED
  BY <1>2, <1>4, <1>5, <1>6, Zenon

(* One digit more, with the byte at hand ...                               *)
LEMMA DigitStays ==
    ASSUME NEW t \in SUBSET (0 .. 63), NEW k \in 0 .. 12, NEW i \in 0 .. 8,
           8 * (i - 1) <= 5 * k, 5 * k + 4 < 8 * i \/ i = 8,
           ~ (8 * (i - 1) - 5 * k < -3 /\ i < 8)
    PROVE  B!NextDigit(AfterDigits(t, k, i), B!BytesOf(t, 8)) = AfterDigits(t, k + 1, i)
<1> DEFINE in == B!BytesOf(t, 8)
           s == AfterDigits(t, k, i)
           out == <<Char32(t, k)>> \o [j \in 1 .. k |-> Char32(t, k - j)]
<1>1. Len(in) = 8
  BY BytesAre
<1>2. /\ s.sft = 8 * (i - 1) - 5 * k /\ s.src = Byte8(t, i) /\ s.i = i
      /\ s.out = [j \in 1 .. k |-> Char32(t, k - j)]
  BY DEF AfterDigits
<1>3. ~ (B!Refill(s.sft) /\ s.i < Len(in))
  BY <1>1, <1>2, Zenon DEF B!Refill
<1>4. (B!Shift(s.src, s.sft) \cup B!Shift(s.src, s.sft)) \cap B!Low(5) = Five(t, k)
  <2>1. (B!Shift(Byte8(t, i), 8 * (i - 1) - 5 * k)
            \cup B!Shift(Byte8(t, i), 8 * (i - 1) - 5 * k)) \cap B!Low(5) = Five(t, k)
    BY FiveFrom
  <2> HIDE DEF s
  <2> QED
    BY <1>2, <2>1, Zenon
<1> HIDE DEF in, s
<1>5. B!NextDigit(s, in) = [sft |-> s.sft - 5, src |-> s.src, i |-> s.i,
                            out |-> <<B!enc32[B!Number(Five(t, k)) + 1]>> \o s.out]
  BY <1>3, <1>4, Zenon DEF B!NextDigit
<1>6. out = [j \in 1 .. k + 1 |-> Char32(t, (k + 1) - j)]
  BY DigitsPrepended
<1>7. s.sft - 5 = 8 * (i - 1) - 5 * (k + 1)
  <2>1. (8 * (i - 1) - 5 * k) - 5 = 8 * (i - 1) - 5 * (k + 1)
    OBVIOUS
  <2> QED
    BY <1>2, <2>1, Zenon
<1> QED
  BY <1>2, <1>5, <1>6, <1>7, Zenon DEF in, s, AfterDigits, Char32

(* ... and with the next one.                                              *)
LEMMA DigitFetches ==
    ASSUME NEW t \in SUBSET (0 .. 63), NEW k \in 0 .. 12, NEW i \in 0 .. 7,
           8 * (i - 1) <= 5 * k, 5 * k + 4 < 8 * (i + 1) \/ i = 7,
           8 * (i - 1) - 5 * k < -3
    PROVE  B!NextDigit(AfterDigits(t, k, i), B!BytesOf(t, 8)) = AfterDigits(t, k + 1, i + 1)
<1> DEFINE in == B!BytesOf(t, 8)
           s == AfterDigits(t, k, i)
           out == <<Char32(t, k)>> \o [j \in 1 .. k |-> Char32(t, k - j)]
           n == 8 * ((i + 1) - 1) - 5 * k
<1>1. Len(in) = 8 /\ in[i + 1] = Byte8(t, i + 1)
  <2>1. i + 1 \in 1 .. 8
    OBVIOUS
  <2>2. in = [c \in 1 .. 8 |-> Byte8(t, c)]
    BY BytesAre
  <2> HIDE DEF in
  <2> QED
    BY <2>1, <2>2
<1>2. /\ s.sft = 8 * (i - 1) - 5 * k /\ s.src = Byte8(t, i) /\ s.i = i
      /\ s.out = [j \in 1 .. k |-> Char32(t, k - j)]
  BY DEF AfterDigits
<1>3. B!Refill(s.sft) /\ s.i < Len(in)
  BY <1>1, <1>2 DEF B!Refill
<1>8. s.sft + 8 = n
  <2>1. (8 * (i - 1) - 5 * k) + 8 = n
    OBVIOUS
  <2> HIDE DEF n, s
  <2> QED
    BY <1>2, <2>1, Zenon
<1>4. (B!Shift(s.src, s.sft) \cup B!Shift(in[s.i + 1], s.sft + 8)) \cap B!Low(5) = Five(t, k)
  <2>1. (B!Shift(Byte8(t, i), 8 * (i - 1) - 5 * k) \cup B!Shift(Byte8(t, i + 1), n))
           \cap B!Low(5) = Five(t, k)
    BY FiveFrom
  <2> HIDE DEF in, s, n
  <2> QED
    BY <1>1, <1>2, <1>8, <2>1, Zenon
<1> HIDE DEF in, s
<1>5. B!NextDigit(s, in) = [sft |-> (s.sft + 8) - 5, src |-> in[s.i + 1], i |-> s.i + 1,
                            out |-> <<B!enc32[B!Number(Five(t, k)) + 1]>> \o s.out]
  BY <1>3, <1>4, Zenon DEF B!NextDigit
<1>6. out = [j \in 1 .. k + 1 |-> Char32(t, (k + 1) - j)]
  BY DigitsPrepended
<1>7. (s.sft + 8) - 5 = 8 * ((i + 1) - 1) - 5 * (k + 1)
  <2>1. ((8 * (i - 1) - 5 * k) + 8) - 5 = 8 * ((i + 1) - 1) - 5 * (k + 1)
    OBVIOUS
  <2> QED
    BY <1>2, <2>1, Zenon
<1> QED
  BY <1>1, <1>2, <1>5, <1>6, <1>7, Zenon DEF in, s, AfterDigits, Char32

(* The bytes encode has fetched after k digits.                            *)
Fetched == <<0, 1, 2, 2, 3, 4, 4, 5, 5, 6, 7, 7, 8, 8>>

(* Its thirteen steps.                                                     *)
LEMMA DigitByDigit ==
    ASSUME NEW t \in SUBSET (0 .. 63), NEW k \in 0 .. 12
    PROVE  B!NextDigit(AfterDigits(t, k, Fetched[k + 1]), B!BytesOf(t, 8))
           = AfterDigits(t, k + 1, Fetched[k + 2])
<1> DEFINE Goes(j) == B!NextDigit(AfterDigits(t, j, Fetched[j + 1]), B!BytesOf(t, 8))
                      = AfterDigits(t, j + 1, Fetched[j + 2])
<1>0. Goes(0)
  <2>1. Fetched[0 + 1] = 0 /\ Fetched[0 + 2] = 1
    BY SMT DEF Fetched
  <2>2. B!NextDigit(AfterDigits(t, 0, 0), B!BytesOf(t, 8)) = AfterDigits(t, 0 + 1, 0 + 1)
    BY DigitFetches
  <2>3. 0 + 1 = 1
    OBVIOUS
  <2> QED
    BY <2>1, <2>2, <2>3, Zenon
<1>1. Goes(1)
  <2>1. Fetched[1 + 1] = 1 /\ Fetched[1 + 2] = 2
    BY SMT DEF Fetched
  <2>2. B!NextDigit(AfterDigits(t, 1, 1), B!BytesOf(t, 8)) = AfterDigits(t, 1 + 1, 1 + 1)
    BY DigitFetches
  <2>3. 1 + 1 = 2
    OBVIOUS
  <2> QED
    BY <2>1, <2>2, <2>3, Zenon
<1>2. Goes(2)
  <2>1. Fetched[2 + 1] = 2 /\ Fetched[2 + 2] = 2
    BY SMT DEF Fetched
  <2>2. B!NextDigit(AfterDigits(t, 2, 2), B!BytesOf(t, 8)) = AfterDigits(t, 2 + 1, 2)
    BY DigitStays
  <2> QED
    BY <2>1, <2>2, Zenon
<1>3. Goes(3)
  <2>1. Fetched[3 + 1] = 2 /\ Fetched[3 + 2] = 3
    BY SMT DEF Fetched
  <2>2. B!NextDigit(AfterDigits(t, 3, 2), B!BytesOf(t, 8)) = AfterDigits(t, 3 + 1, 2 + 1)
    BY DigitFetches
  <2>3. 2 + 1 = 3
    OBVIOUS
  <2> QED
    BY <2>1, <2>2, <2>3, Zenon
<1>4. Goes(4)
  <2>1. Fetched[4 + 1] = 3 /\ Fetched[4 + 2] = 4
    BY SMT DEF Fetched
  <2>2. B!NextDigit(AfterDigits(t, 4, 3), B!BytesOf(t, 8)) = AfterDigits(t, 4 + 1, 3 + 1)
    BY DigitFetches
  <2>3. 3 + 1 = 4
    OBVIOUS
  <2> QED
    BY <2>1, <2>2, <2>3, Zenon
<1>5. Goes(5)
  <2>1. Fetched[5 + 1] = 4 /\ Fetched[5 + 2] = 4
    BY SMT DEF Fetched
  <2>2. B!NextDigit(AfterDigits(t, 5, 4), B!BytesOf(t, 8)) = AfterDigits(t, 5 + 1, 4)
    BY DigitStays
  <2> QED
    BY <2>1, <2>2, Zenon
<1>6. Goes(6)
  <2>1. Fetched[6 + 1] = 4 /\ Fetched[6 + 2] = 5
    BY SMT DEF Fetched
  <2>2. B!NextDigit(AfterDigits(t, 6, 4), B!BytesOf(t, 8)) = AfterDigits(t, 6 + 1, 4 + 1)
    BY DigitFetches
  <2>3. 4 + 1 = 5
    OBVIOUS
  <2> QED
    BY <2>1, <2>2, <2>3, Zenon
<1>7. Goes(7)
  <2>1. Fetched[7 + 1] = 5 /\ Fetched[7 + 2] = 5
    BY SMT DEF Fetched
  <2>2. B!NextDigit(AfterDigits(t, 7, 5), B!BytesOf(t, 8)) = AfterDigits(t, 7 + 1, 5)
    BY DigitStays
  <2> QED
    BY <2>1, <2>2, Zenon
<1>8. Goes(8)
  <2>1. Fetched[8 + 1] = 5 /\ Fetched[8 + 2] = 6
    BY SMT DEF Fetched
  <2>2. B!NextDigit(AfterDigits(t, 8, 5), B!BytesOf(t, 8)) = AfterDigits(t, 8 + 1, 5 + 1)
    BY DigitFetches
  <2>3. 5 + 1 = 6
    OBVIOUS
  <2> QED
    BY <2>1, <2>2, <2>3, Zenon
<1>9. Goes(9)
  <2>1. Fetched[9 + 1] = 6 /\ Fetched[9 + 2] = 7
    BY SMT DEF Fetched
  <2>2. B!NextDigit(AfterDigits(t, 9, 6), B!BytesOf(t, 8)) = AfterDigits(t, 9 + 1, 6 + 1)
    BY DigitFetches
  <2>3. 6 + 1 = 7
    OBVIOUS
  <2> QED
    BY <2>1, <2>2, <2>3, Zenon
<1>10. Goes(10)
  <2>1. Fetched[10 + 1] = 7 /\ Fetched[10 + 2] = 7
    BY SMT DEF Fetched
  <2>2. B!NextDigit(AfterDigits(t, 10, 7), B!BytesOf(t, 8)) = AfterDigits(t, 10 + 1, 7)
    BY DigitStays
  <2> QED
    BY <2>1, <2>2, Zenon
<1>11. Goes(11)
  <2>1. Fetched[11 + 1] = 7 /\ Fetched[11 + 2] = 8
    BY SMT DEF Fetched
  <2>2. B!NextDigit(AfterDigits(t, 11, 7), B!BytesOf(t, 8)) = AfterDigits(t, 11 + 1, 7 + 1)
    BY DigitFetches
  <2>3. 7 + 1 = 8
    OBVIOUS
  <2> QED
    BY <2>1, <2>2, <2>3, Zenon
<1>12. Goes(12)
  <2>1. Fetched[12 + 1] = 8 /\ Fetched[12 + 2] = 8
    BY SMT DEF Fetched
  <2>2. B!NextDigit(AfterDigits(t, 12, 8), B!BytesOf(t, 8)) = AfterDigits(t, 12 + 1, 8)
    BY DigitStays
  <2> QED
    BY <2>1, <2>2, Zenon
<1>20. \/ k = 0 \/ k = 1 \/ k = 2 \/ k = 3 \/ k = 4 \/ k = 5 \/ k = 6
       \/ k = 7 \/ k = 8 \/ k = 9 \/ k = 10 \/ k = 11 \/ k = 12
  OBVIOUS
<1> HIDE DEF Goes
<1>21. Goes(k)
  BY <1>20, <1>0, <1>1, <1>2, <1>3, <1>4, <1>5, <1>6, <1>7, <1>8, <1>9, <1>10, <1>11, <1>12, Zenon
<1> QED
  BY <1>21 DEF Goes

(* Thirteen digits, the last one first.                                    *)
LEMMA Encoded ==
    ASSUME NEW t \in SUBSET (0 .. 63)
    PROVE  B!encode(B!BytesOf(t, 8)) = [j \in 1 .. 13 |-> Char32(t, 13 - j)]
<1> DEFINE in == B!BytesOf(t, 8)
           otot == (8 * Len(in)) \div 5 + (IF (8 * Len(in)) % 5 = 0 THEN 0 ELSE 1)
           start == [sft |-> -8, src |-> {}, i |-> 0, out |-> << >>]
           Loop(f) == [k \in 0 .. otot |-> IF k = 0 THEN start ELSE B!NextDigit(f[k - 1], in)]
           loop == CHOOSE f : f = Loop(f)
           walk == [k \in 0 .. otot |-> AfterDigits(t, k, Fetched[k + 1])]
<1>1. otot = 13
  <2>1. Len(in) = 8
    BY BytesAre
  <2> HIDE DEF in
  <2> QED
    BY <2>1
<1>2. B!encode(in) = loop[otot].out
  BY Zenon DEF B!encode
<1> HIDE DEF in, otot
<1>3. start = AfterDigits(t, 0, Fetched[0 + 1])
  <2>1. Fetched[0 + 1] = 0 /\ 8 * (0 - 1) - 5 * 0 = -8
    BY SMT DEF Fetched
  <2>2. Byte8(t, 0) = {}
    BY SMT DEF Byte8
  <2>3. [j \in 1 .. 0 |-> Char32(t, 0 - j)] = << >>
    OBVIOUS
  <2> QED
    BY <2>1, <2>2, <2>3, Zenon DEF AfterDigits
<1> HIDE DEF start
<1>4. \A k \in 1 .. 13 : B!NextDigit(AfterDigits(t, k - 1, Fetched[(k - 1) + 1]), in)
                         = AfterDigits(t, k, Fetched[k + 1])
  <2> TAKE k \in 1 .. 13
  <2>1. k - 1 \in 0 .. 12 /\ (k - 1) + 1 = k /\ (k - 1) + 2 = k + 1
    OBVIOUS
  <2> QED
    BY <2>1, DigitByDigit, Zenon DEF in
<1>5. walk = Loop(walk)
  <2>1. ASSUME NEW k \in 0 .. 13
        PROVE  walk[k] = IF k = 0 THEN start ELSE B!NextDigit(walk[k - 1], in)
    <3>1. CASE k = 0
      BY <1>1, <1>3, <3>1
    <3>2. CASE k # 0
      <4>1. k \in 1 .. 13 /\ k - 1 \in 0 .. 13
        BY <3>2
      <4> QED
        BY <1>1, <1>4, <3>2, <4>1, Zenon
    <3> QED
      BY <3>1, <3>2
  <2>2. walk = [k \in 0 .. 13 |-> walk[k]]
    BY <1>1
  <2> QED
    BY <1>1, <2>1, <2>2, Zenon
<1>6. loop = Loop(loop)
  BY <1>5, Zenon
<1> HIDE DEF loop
<1> DEFINE Same(k) == loop[k] = AfterDigits(t, k, Fetched[k + 1])
<1>7. Same(0)
  BY <1>1, <1>3, <1>6
<1>8. \A k \in 1 .. 13 : Same(k - 1) => Same(k)
  <2> TAKE k \in 1 .. 13
  <2> HAVE Same(k - 1)
  <2>1. k \in 0 .. 13 /\ k # 0
    OBVIOUS
  <2>2. loop[k] = B!NextDigit(loop[k - 1], in)
    BY <1>1, <1>6, <2>1, Zenon
  <2> QED
    BY <1>4, <2>2, Zenon
<1> HIDE DEF Same
<1>9. Same(13)
  BY <1>7, <1>8, SMT
<1> QED
  <2>1. loop[13].out = [j \in 1 .. 13 |-> Char32(t, 13 - j)]
    <3>1. AfterDigits(t, 13, Fetched[13 + 1]).out = [j \in 1 .. 13 |-> Char32(t, 13 - j)]
      BY Zenon DEF AfterDigits
    <3>2. loop[13] = AfterDigits(t, 13, Fetched[13 + 1])
      BY <1>9 DEF Same
    <3> QED
      BY <3>1, <3>2, Zenon
  <2> QED
    BY <1>1, <1>2, <2>1, Zenon DEF in

(* A function on 1 .. n is a text of length n.                             *)
LEMMA TextOfDigits ==
    ASSUME NEW n \in Nat, NEW f \in [1 .. n -> Nat]
    PROVE  f \in Seq(Nat) /\ Len(f) = n
  OBVIOUS

(* How many digits a time has without leading zeros.                       *)
Places(t, n) ==
    /\ n \in 0 .. 13
    /\ n > 0 => Five(t, n - 1) # {}
    /\ \A j \in n .. 12 : Five(t, j) = {}

(* There is such a number.                                                 *)
LEMMA PlacesExist ==
    ASSUME NEW t
    PROVE  \E n : Places(t, n)
<1> DEFINE Empty(j) == Five(t, j) = {}
           Some(m) == \E n \in 0 .. 13 : /\ n <= m /\ (n > 0 => ~ Empty(n - 1))
                                        /\ \A j \in n .. m - 1 : Empty(j)
<1> HIDE DEF Empty
<1>1. Some(0)
  OBVIOUS
<1>2. ASSUME NEW m \in 0 .. 12, Some(m)
      PROVE  Some(m + 1)
  <2>1. CASE ~ Empty(m)
    <3>1. /\ m + 1 \in 0 .. 13 /\ m + 1 <= m + 1 /\ (m + 1) - 1 = m
          /\ \A j \in m + 1 .. (m + 1) - 1 : Empty(j)
      OBVIOUS
    <3> QED
      BY <2>1, <3>1, Zenon
  <2>2. CASE Empty(m)
    <3>1. PICK n \in 0 .. 13 : n <= m /\ (n > 0 => ~ Empty(n - 1)) /\ \A j \in n .. m - 1 : Empty(j)
      BY <1>2
    <3>2. \A j \in n .. (m + 1) - 1 : j = m \/ j \in n .. m - 1
      OBVIOUS
    <3>3. n <= m + 1
      BY <3>1
    <3> QED
      BY <2>2, <3>1, <3>2, <3>3, Zenon
  <2> QED
    BY <2>1, <2>2
<1> HIDE DEF Some
<1>3. Some(13)
  BY <1>1, <1>2, SMT
<1> QED
  <2>1. PICK n \in 0 .. 13 : (n > 0 => ~ Empty(n - 1)) /\ \A j \in n .. 13 - 1 : Empty(j)
    BY <1>3, Zenon DEF Some
  <2>2. 13 - 1 = 12
    OBVIOUS
  <2> QED
    BY <2>1, <2>2, Zenon DEF Places, Empty

(* Two such numbers are the same.                                           *)
LEMMA PlacesUnique ==
    ASSUME NEW t, NEW m, NEW n, Places(t, m), Places(t, n)
    PROVE  m = n
<1>1. m \in 0 .. 13 /\ n \in 0 .. 13
  BY DEF Places
<1>2. ASSUME NEW a \in 0 .. 13, NEW b \in 0 .. 13, a < b, Places(t, a), Places(t, b)
      PROVE  FALSE
  <2>1. b - 1 \in a .. 12 /\ b > 0
    BY <1>2
  <2> QED
    BY <1>2, <2>1, Zenon DEF Places
<1>3. m < n \/ n < m \/ m = n
  BY <1>1
<1> QED
  BY <1>1, <1>2, <1>3

(* The number of places as InBase32 has it.                                *)
LEMMA Digit32Is ==
    ASSUME NEW t, NEW k \in Int
    PROVE  Digit32(t, k) = B!Number(Five(t, k))
<1>1. \A i \in 0 .. 4 : i \in Five(t, k) <=> 5 * k + i \in t
  BY DEF Five
<1>2. 0 \in 0 .. 4 /\ 1 \in 0 .. 4 /\ 2 \in 0 .. 4 /\ 3 \in 0 .. 4 /\ 4 \in 0 .. 4
  OBVIOUS
<1> QED
  BY <1>1, <1>2, Zenon DEF Digit32, B!Number

(* The digits to the base 32, from the first of them.                       *)
LEMMA InBase32Is ==
    ASSUME NEW t, NEW n, Places(t, n)
    PROVE  InBase32(t) = [i \in 1 .. n |-> Char32(t, n - i)]
<1> DEFINE P(k) == /\ k > 0 => Digit32(t, k - 1) # 0
                   /\ \A j \in k .. 12 : Digit32(t, j) = 0
           m == CHOOSE k \in 0 .. 13 : P(k)
<1>1. \A j \in Int : Digit32(t, j) = 0 <=> Five(t, j) = {}
  <2> TAKE j \in Int
  <2>1. Five(t, j) \in SUBSET (0 .. 4)
    BY DEF Five
  <2>2. B!Number(Five(t, j)) = 0 <=> Five(t, j) = {}
    BY <2>1, NumberFacts, Zenon
  <2>3. Digit32(t, j) = B!Number(Five(t, j))
    BY Digit32Is
  <2> QED
    BY <2>2, <2>3, Zenon
<1>2. ASSUME NEW k \in 0 .. 13
      PROVE  P(k) <=> Places(t, k)
  <2>1. k - 1 \in Int /\ \A j \in k .. 12 : j \in Int
    OBVIOUS
  <2> QED
    BY <1>1, <2>1, Zenon DEF Places
<1>3. n \in 0 .. 13
  BY DEF Places
<1> HIDE DEF P
<1>4. m \in 0 .. 13 /\ P(m)
  BY <1>2, <1>3, Zenon
<1>5. m = n
  BY <1>2, <1>4, PlacesUnique, Zenon
<1>6. InBase32(t) = [i \in 1 .. m |-> B!enc32[Digit32(t, m - i) + 1]]
  BY Zenon DEF InBase32, P
<1> HIDE DEF m
<1>7. \A i \in 1 .. n : Digit32(t, n - i) = B!Number(Five(t, n - i))
  <2> TAKE i \in 1 .. n
  <2>1. n - i \in Int
    BY <1>3
  <2> QED
    BY <2>1, Digit32Is, Zenon
<1> QED
  BY <1>5, <1>6, <1>7, Zenon DEF Char32

(* The leading zeros are taken away.                                       *)
LEMMA TimeEncoded ==
    ASSUME NEW t \in SUBSET (0 .. 63), NEW n, Places(t, n)
    PROVE  B!encode_datetime(t) = [i \in 1 .. n |-> Char32(t, n - i)]
<1> DEFINE out == B!encode(B!BytesOf(t, 8))
           P(i) == /\ i <= Len(out) => out[i] # 48
                   /\ \A j \in 1 .. i - 1 : out[j] = 48
           first == CHOOSE i \in 1 .. Len(out) + 1 : P(i)
<1>1. out = [j \in 1 .. 13 |-> Char32(t, 13 - j)]
  BY Encoded
<1>2. B!encode_datetime(t) = SubSeq(out, first, Len(out))
  BY Zenon DEF B!encode_datetime
<1> HIDE DEF out
<1>3. /\ Len(out) = 13
      /\ out \in Seq(Nat)
      /\ \A j \in 1 .. 13 : out[j] = Char32(t, 13 - j)
  <2>1. out \in [1 .. 13 -> Nat]
    BY <1>1, CharFacts
  <2>2. Len(out) = 13 /\ out \in Seq(Nat)
    <3>1. 13 \in Nat
      OBVIOUS
    <3> QED
      BY <2>1, <3>1, TextOfDigits, Zenon
  <2> QED
    BY <1>1, <2>2, Zenon
<1>4. n \in 0 .. 13
  BY DEF Places
<1>5. \A j \in 1 .. 13 : out[j] = 48 <=> Five(t, 13 - j) = {}
  <2> TAKE j \in 1 .. 13
  <2>1. 13 - j \in Int
    OBVIOUS
  <2>2. Char32(t, 13 - j) = 48 <=> Five(t, 13 - j) = {}
    BY <2>1, CharFacts, Zenon
  <2> QED
    BY <1>3, <2>2, Zenon
<1>6. ASSUME NEW i \in 1 .. 14
      PROVE  P(i) <=> Places(t, 14 - i)
  <2>1. /\ 14 - i \in 0 .. 13 /\ (14 - i) - 1 = 13 - i /\ (i <= 13 <=> 14 - i > 0)
        /\ (i <= 13 => i \in 1 .. 13)
    OBVIOUS
  <2>2. ASSUME NEW j \in 1 .. i - 1
        PROVE  13 - j \in 14 - i .. 12 /\ j \in 1 .. 13
    OBVIOUS
  <2>3. ASSUME NEW j \in 14 - i .. 12
        PROVE  13 - j \in 1 .. i - 1 /\ 13 - (13 - j) = j
    OBVIOUS
  <2>4. (\A j \in 1 .. i - 1 : out[j] = 48) <=> \A j \in 14 - i .. 12 : Five(t, j) = {}
    <3>1. ASSUME \A j \in 1 .. i - 1 : out[j] = 48, NEW j \in 14 - i .. 12
          PROVE  Five(t, j) = {}
      BY <1>5, <2>2, <2>3, <3>1, Zenon
    <3>2. ASSUME \A j \in 14 - i .. 12 : Five(t, j) = {}, NEW j \in 1 .. i - 1
          PROVE  out[j] = 48
      BY <1>5, <2>2, <3>2, Zenon
    <3> QED
      BY <3>1, <3>2, Zenon
  <2> QED
    BY <1>3, <1>5, <2>1, <2>4, Zenon DEF Places
<1> HIDE DEF P
<1>7. 14 - n \in 1 .. 14 /\ 14 - (14 - n) = n /\ 13 + 1 = 14
  BY <1>4
<1>8. first \in 1 .. 14 /\ P(first)
  <2>1. P(14 - n)
    BY <1>6, <1>7, Zenon
  <2> QED
    BY <1>3, <1>7, <2>1, Zenon
<1> HIDE DEF first
<1>9. first = 14 - n
  <2>1. 14 - first = n
    BY <1>6, <1>8, PlacesUnique, Zenon
  <2> QED
    BY <1>4, <1>8, <2>1
<1>10. SubSeq(out, 14 - n, 13) = [i \in 1 .. n |-> out[(14 - n) + i - 1]]
  BY <1>3, <1>4 DEF SubSeq
<1>11. \A i \in 1 .. n : out[(14 - n) + i - 1] = Char32(t, n - i)
  <2> TAKE i \in 1 .. n
  <2>1. (14 - n) + i - 1 \in 1 .. 13 /\ 13 - ((14 - n) + i - 1) = n - i
    BY <1>4
  <2> QED
    BY <1>3, <2>1, Zenon
<1> QED
  BY <1>2, <1>3, <1>9, <1>10, <1>11, Zenon

(* Where decode is after k bytes, with i digits left.                      *)
AfterBytes(t, k, i) ==
    [sft |-> 5 * (11 - i) - 8 * k, src |-> Five(t, 11 - i), i |-> i,
     out |-> [o \in 1 .. k |-> Byte8(t, o)]]

(* A text of twelve characters that is read as the digits of a time.       *)
ReadAs(in, t) ==
    /\ Len(in) = 12
    /\ \A d \in 1 .. 12 : B!BitsIn(B!decode_char(in[d]), 8) = Five(t, 12 - d)

(* What a digit contributes to the byte at bit b.                          *)
LEMMA FiveField ==
    ASSUME NEW t \in SUBSET (0 .. 63), NEW e \in Int, NEW b \in Int
    PROVE  \A m : m \in B!Shift(Five(t, e), 5 * e - b) <=>
                     m \in Nat /\ b + m \in t /\ 5 * e <= b + m /\ b + m < 5 * e + 5
<1>1. Five(t, e) \in SUBSET Int /\ 5 * e - b \in Int
  BY DEF Five
<1>2. \A m : m \in B!Shift(Five(t, e), 5 * e - b) <=> m \in Nat /\ m - (5 * e - b) \in Five(t, e)
  BY <1>1, ShiftIs, Zenon
<1>3. \A m \in Nat : m - (5 * e - b) \in Five(t, e) <=>
                        b + m \in t /\ 5 * e <= b + m /\ b + m < 5 * e + 5
  BY SMT DEF Five
<1> QED
  BY <1>2, <1>3, Zenon

(* One byte more after the others.                                         *)
LEMMA ByteAppended ==
    ASSUME NEW t, NEW k \in Nat
    PROVE  Append([o \in 1 .. k |-> Byte8(t, o)], Byte8(t, k + 1))
           = [o \in 1 .. k + 1 |-> Byte8(t, o)]
<1> DEFINE s == [o \in 1 .. k |-> Byte8(t, o)]
           x == Byte8(t, k + 1)
           S == SUBSET (0 .. 7)
<1>1. \A o : Byte8(t, o) \in S
  BY DEF Byte8
<1>2. s \in Seq(S) /\ Len(s) = k /\ \A o \in 1 .. k : s[o] = Byte8(t, o)
  <2>1. s \in [1 .. k -> S]
    BY <1>1, Zenon
  <2> HIDE DEF S
  <2> QED
    BY <2>1
<1>3. x \in S
  BY <1>1, Zenon
<1> HIDE DEF s, S
<1>4. /\ Append(s, x) \in Seq(S)
      /\ Len(Append(s, x)) = k + 1
      /\ \A o \in 1 .. k : Append(s, x)[o] = s[o]
      /\ Append(s, x)[k + 1] = x
  BY <1>2, <1>3, AppendProperties
<1>5. Append(s, x) = [o \in 1 .. k + 1 |-> Append(s, x)[o]]
  <2>1. Append(s, x) \in [1 .. Len(Append(s, x)) -> S]
    BY <1>4, LenProperties, Zenon
  <2> QED
    BY <1>4, <2>1, Zenon
<1>6. \A o \in 1 .. k + 1 : o \in 1 .. k \/ o = k + 1
  OBVIOUS
<1>7. \A o \in 1 .. k + 1 : Append(s, x)[o] = Byte8(t, o)
  BY <1>2, <1>4, <1>6, Zenon
<1> QED
  BY <1>5, <1>7, Zenon DEF s

(* One byte more, from n more digits.                                      *)
LEMMA ByteGoes ==
    ASSUME NEW t \in SUBSET (0 .. 63), NEW in, ReadAs(in, t),
           NEW k \in 0 .. 6, NEW i \in 0 .. 12, NEW n \in 0 .. 2, n <= i,
           5 * (11 - i) - 8 * k < 3, (7 - (5 * (11 - i) - 8 * k)) \div 5 = n,
           5 * (11 - i) <= 8 * k, 8 * k + 8 <= 5 * (11 - i + n) + 5
    PROVE  B!NextByte(AfterBytes(t, k, i), in) = AfterBytes(t, k + 1, i - n)
<1> DEFINE s == AfterBytes(t, k, i)
           src(j) == IF j = 0 THEN s.src ELSE B!BitsIn(B!decode_char(in[s.i - j + 1]), 8)
           bits == UNION {B!Shift(src(j), s.sft + 5 * j) : j \in 0 .. n}
           wish == IF s.sft < 3 THEN (7 - s.sft) \div 5 ELSE 0
           least == IF wish < s.i THEN wish ELSE s.i
<1>1. /\ s.sft = 5 * (11 - i) - 8 * k /\ s.src = Five(t, 11 - i) /\ s.i = i
      /\ s.out = [o \in 1 .. k |-> Byte8(t, o)]
  BY DEF AfterBytes
<1> HIDE DEF s
<1>2. wish = n
  BY <1>1, SMT
<1>3. least = n
  <2>1. (IF n < i THEN n ELSE i) = n
    OBVIOUS
  <2> HIDE DEF wish
  <2> QED
    BY <1>1, <1>2, <2>1, Zenon
<1>4. ASSUME NEW j \in 0 .. n
      PROVE  /\ src(j) = Five(t, 11 - (i - j))
             /\ s.sft + 5 * j = 5 * (11 - (i - j)) - 8 * k
  <2>1. s.sft + 5 * j = 5 * (11 - (i - j)) - 8 * k
    <3>1. (5 * (11 - i) - 8 * k) + 5 * j = 5 * (11 - (i - j)) - 8 * k
      OBVIOUS
    <3> QED
      BY <1>1, <3>1, Zenon
  <2>2. CASE j = 0
    <3>1. 11 - (i - 0) = 11 - i
      OBVIOUS
    <3> QED
      BY <1>1, <2>1, <2>2, <3>1, Zenon
  <2>3. CASE j # 0
    <3>1. i - j + 1 \in 1 .. 12 /\ 12 - (i - j + 1) = 11 - (i - j)
      BY <2>3
    <3>2. B!BitsIn(B!decode_char(in[i - j + 1]), 8) = Five(t, 12 - (i - j + 1))
      BY <3>1, Zenon DEF ReadAs
    <3> QED
      BY <1>1, <2>1, <2>3, <3>1, <3>2, Zenon
  <2> QED
    BY <2>2, <2>3
<1>5. B!NextByte(s, in) = [sft |-> s.sft + 5 * n - 8, src |-> src(n), i |-> s.i - n,
                           out |-> Append(s.out, bits \cap B!Low(8))]
  <2>1. B!NextByte(s, in) = [sft |-> s.sft + 5 * least - 8, src |-> src(least), i |-> s.i - least,
                out |-> Append(s.out, (UNION {B!Shift(src(j), s.sft + 5 * j) : j \in 0 .. least})
                                         \cap B!Low(8))]
    BY Zenon DEF B!NextByte
  <2> HIDE DEF src, least
  <2> QED
    BY <1>3, <2>1, Zenon
<1>6. bits \cap B!Low(8) = Byte8(t, k + 1)
  <2>1. \A x : x \in bits <=> \E j \in 0 .. n : x \in B!Shift(src(j), s.sft + 5 * j)
    <3> HIDE DEF src
    <3> QED
      BY SMT
  <2>2. \A j \in 0 .. n : \A x : x \in B!Shift(src(j), s.sft + 5 * j) <=>
           x \in Nat /\ 8 * k + x \in t /\ 5 * (11 - (i - j)) <= 8 * k + x
                    /\ 8 * k + x < 5 * (11 - (i - j)) + 5
    <3> TAKE j \in 0 .. n
    <3>1. 11 - (i - j) \in Int /\ 8 * k \in Int
      OBVIOUS
    <3> HIDE DEF src
    <3> QED
      BY <1>4, <3>1, FiveField, Zenon
  <2>3. ASSUME NEW x \in 0 .. 7
        PROVE  \E j \in 0 .. n : 5 * (11 - (i - j)) <= 8 * k + x /\ 8 * k + x < 5 * (11 - (i - j)) + 5
    <3>1. CASE 8 * k + x < 5 * (11 - (i - 0)) + 5
      BY <3>1
    <3>2. CASE 8 * k + x >= 5 * (11 - (i - 0)) + 5 /\ 8 * k + x < 5 * (11 - (i - 1)) + 5
      BY <3>2
    <3>3. CASE 8 * k + x >= 5 * (11 - (i - 1)) + 5
      <4>1. n = 2 /\ 5 * (11 - (i - 2)) <= 8 * k + x /\ 8 * k + x < 5 * (11 - (i - 2)) + 5
        BY <3>3
      <4> QED
        BY <4>1
    <3> QED
      BY <3>1, <3>2, <3>3
  <2>4. \A x \in 0 .. 7 : x \in Nat /\ (x \in bits <=> 8 * k + x \in t)
    <3>1. \A x \in 0 .. 7 : x \in Nat
      OBVIOUS
    <3> HIDE DEF bits
    <3> QED
      BY <2>1, <2>2, <2>3, <3>1, Zenon
  <2>5. B!Low(8) = 0 .. 7 /\ 8 * ((k + 1) - 1) = 8 * k
    BY DEF B!Low
  <2> HIDE DEF bits
  <2> QED
    BY <2>4, <2>5, Zenon DEF Byte8
<1>7. Append(s.out, Byte8(t, k + 1)) = [o \in 1 .. k + 1 |-> Byte8(t, o)]
  <2>1. Append([o \in 1 .. k |-> Byte8(t, o)], Byte8(t, k + 1)) = [o \in 1 .. k + 1 |-> Byte8(t, o)]
    BY ByteAppended
  <2> QED
    BY <1>1, <2>1, Zenon
<1>8. s.sft + 5 * n - 8 = 5 * (11 - (i - n)) - 8 * (k + 1)
  BY <1>1
<1>9. src(n) = Five(t, 11 - (i - n))
  <2>1. n \in 0 .. n
    OBVIOUS
  <2> HIDE DEF src
  <2> QED
    BY <1>4, <2>1, Zenon
<1> HIDE DEF src, bits
<1> QED
  BY <1>1, <1>5, <1>6, <1>7, <1>8, <1>9, Zenon DEF s, AfterBytes

(* The digits decode has left after k bytes.                               *)
Unread == <<12, 10, 8, 7, 5, 4, 2, 0>>

(* Its seven steps.                                                        *)
LEMMA ByteByByte ==
    ASSUME NEW t \in SUBSET (0 .. 63), NEW in, ReadAs(in, t), NEW k \in 0 .. 6
    PROVE  B!NextByte(AfterBytes(t, k, Unread[k + 1]), in) = AfterBytes(t, k + 1, Unread[k + 2])
<1> DEFINE Goes(j) == B!NextByte(AfterBytes(t, j, Unread[j + 1]), in)
                      = AfterBytes(t, j + 1, Unread[j + 2])
<1>0. Goes(0)
  <2>1. Unread[0 + 1] = 12 /\ Unread[0 + 2] = 10 /\ 12 - 2 = 10
    BY SMT DEF Unread
  <2>2. B!NextByte(AfterBytes(t, 0, 12), in) = AfterBytes(t, 0 + 1, 12 - 2)
    BY ByteGoes
  <2> QED
    BY <2>1, <2>2, Zenon
<1>1. Goes(1)
  <2>1. Unread[1 + 1] = 10 /\ Unread[1 + 2] = 8 /\ 10 - 2 = 8
    BY SMT DEF Unread
  <2>2. B!NextByte(AfterBytes(t, 1, 10), in) = AfterBytes(t, 1 + 1, 10 - 2)
    BY ByteGoes
  <2> QED
    BY <2>1, <2>2, Zenon
<1>2. Goes(2)
  <2>1. Unread[2 + 1] = 8 /\ Unread[2 + 2] = 7 /\ 8 - 1 = 7
    BY SMT DEF Unread
  <2>2. B!NextByte(AfterBytes(t, 2, 8), in) = AfterBytes(t, 2 + 1, 8 - 1)
    BY ByteGoes
  <2> QED
    BY <2>1, <2>2, Zenon
<1>3. Goes(3)
  <2>1. Unread[3 + 1] = 7 /\ Unread[3 + 2] = 5 /\ 7 - 2 = 5
    BY SMT DEF Unread
  <2>2. B!NextByte(AfterBytes(t, 3, 7), in) = AfterBytes(t, 3 + 1, 7 - 2)
    BY ByteGoes
  <2> QED
    BY <2>1, <2>2, Zenon
<1>4. Goes(4)
  <2>1. Unread[4 + 1] = 5 /\ Unread[4 + 2] = 4 /\ 5 - 1 = 4
    BY SMT DEF Unread
  <2>2. B!NextByte(AfterBytes(t, 4, 5), in) = AfterBytes(t, 4 + 1, 5 - 1)
    BY ByteGoes
  <2> QED
    BY <2>1, <2>2, Zenon
<1>5. Goes(5)
  <2>1. Unread[5 + 1] = 4 /\ Unread[5 + 2] = 2 /\ 4 - 2 = 2
    BY SMT DEF Unread
  <2>2. B!NextByte(AfterBytes(t, 5, 4), in) = AfterBytes(t, 5 + 1, 4 - 2)
    BY ByteGoes
  <2> QED
    BY <2>1, <2>2, Zenon
<1>6. Goes(6)
  <2>1. Unread[6 + 1] = 2 /\ Unread[6 + 2] = 0 /\ 2 - 2 = 0
    BY SMT DEF Unread
  <2>2. B!NextByte(AfterBytes(t, 6, 2), in) = AfterBytes(t, 6 + 1, 2 - 2)
    BY ByteGoes
  <2> QED
    BY <2>1, <2>2, Zenon
<1>20. k = 0 \/ k = 1 \/ k = 2 \/ k = 3 \/ k = 4 \/ k = 5 \/ k = 6
  OBVIOUS
<1> HIDE DEF Goes
<1>21. Goes(k)
  BY <1>20, <1>0, <1>1, <1>2, <1>3, <1>4, <1>5, <1>6, Zenon
<1> QED
  BY <1>21 DEF Goes

(* Seven bytes, the first one first.                                       *)
LEMMA Decoded ==
    ASSUME NEW t \in SUBSET (0 .. 63), NEW in, ReadAs(in, t)
    PROVE  B!decode(in) = [o \in 1 .. 7 |-> Byte8(t, o)]
<1> DEFINE otot == (5 * Len(in)) \div 8
           start == [sft |-> -5, src |-> {}, i |-> Len(in), out |-> << >>]
           Loop(f) == [o \in 0 .. otot |-> IF o = 0 THEN start ELSE B!NextByte(f[o - 1], in)]
           loop == CHOOSE f : f = Loop(f)
           walk == [k \in 0 .. otot |-> AfterBytes(t, k, Unread[k + 1])]
<1>1. otot = 7
  BY DEF ReadAs
<1>2. B!decode(in) = loop[otot].out
  BY Zenon DEF B!decode
<1> HIDE DEF otot
<1>3. start = AfterBytes(t, 0, Unread[0 + 1])
  <2>1. Unread[0 + 1] = 12 /\ 5 * (11 - 12) - 8 * 0 = -5 /\ Len(in) = 12
    BY SMT DEF Unread, ReadAs
  <2>2. Five(t, 11 - 12) = {}
    BY SMT DEF Five
  <2>3. [o \in 1 .. 0 |-> Byte8(t, o)] = << >>
    OBVIOUS
  <2> QED
    BY <2>1, <2>2, <2>3, Zenon DEF AfterBytes
<1> HIDE DEF start
<1>4. \A k \in 1 .. 7 : B!NextByte(AfterBytes(t, k - 1, Unread[(k - 1) + 1]), in)
                        = AfterBytes(t, k, Unread[k + 1])
  <2> TAKE k \in 1 .. 7
  <2>1. k - 1 \in 0 .. 6 /\ (k - 1) + 1 = k /\ (k - 1) + 2 = k + 1
    OBVIOUS
  <2> QED
    BY <2>1, ByteByByte, Zenon
<1>5. walk = Loop(walk)
  <2>1. ASSUME NEW k \in 0 .. 7
        PROVE  walk[k] = IF k = 0 THEN start ELSE B!NextByte(walk[k - 1], in)
    <3>1. CASE k = 0
      BY <1>1, <1>3, <3>1
    <3>2. CASE k # 0
      <4>1. k \in 1 .. 7 /\ k - 1 \in 0 .. 7
        BY <3>2
      <4> QED
        BY <1>1, <1>4, <3>2, <4>1, Zenon
    <3> QED
      BY <3>1, <3>2
  <2>2. walk = [k \in 0 .. 7 |-> walk[k]]
    BY <1>1
  <2> QED
    BY <1>1, <2>1, <2>2, Zenon
<1>6. loop = Loop(loop)
  BY <1>5, Zenon
<1> HIDE DEF loop
<1> DEFINE Same(k) == loop[k] = AfterBytes(t, k, Unread[k + 1])
<1>7. Same(0)
  BY <1>1, <1>3, <1>6
<1>8. \A k \in 1 .. 7 : Same(k - 1) => Same(k)
  <2> TAKE k \in 1 .. 7
  <2> HAVE Same(k - 1)
  <2>1. k \in 0 .. 7 /\ k # 0
    OBVIOUS
  <2>2. loop[k] = B!NextByte(loop[k - 1], in)
    BY <1>1, <1>6, <2>1, Zenon
  <2> QED
    BY <1>4, <2>2, Zenon
<1> HIDE DEF Same
<1>9. Same(7)
  BY <1>7, <1>8, SMT
<1> QED
  <2>1. loop[7].out = [o \in 1 .. 7 |-> Byte8(t, o)]
    <3>1. AfterBytes(t, 7, Unread[7 + 1]).out = [o \in 1 .. 7 |-> Byte8(t, o)]
      BY Zenon DEF AfterBytes
    <3>2. loop[7] = AfterBytes(t, 7, Unread[7 + 1])
      BY <1>9 DEF Same
    <3> QED
      BY <3>1, <3>2, Zenon
  <2> QED
    BY <1>1, <1>2, <2>1, Zenon

(* They make up the time again when it has no more.                        *)
LEMMA BytesBack ==
    ASSUME NEW t \in SUBSET (0 .. 55)
    PROVE  B!FromBytes([o \in 1 .. 7 |-> Byte8(t, o)]) = t
<1> DEFINE s == [o \in 1 .. 7 |-> Byte8(t, o)]
<1>1. DOMAIN s = 1 .. 7 /\ \A k \in 1 .. 7 : s[k] = Byte8(t, k)
  OBVIOUS
<1> HIDE DEF s
<1>2. ASSUME NEW k \in 1 .. 7
      PROVE  \A m : m \in B!Shift(s[k], 8 * (k - 1)) <=> m \in t /\ 8 * (k - 1) <= m /\ m < 8 * k
  <2>1. t \in SUBSET (0 .. 63) /\ k \in Int /\ 0 \in Int /\ 8 * (k - 1) - 0 = 8 * (k - 1)
    OBVIOUS
  <2>2. \A m : m \in B!Shift(Byte8(t, k), 8 * (k - 1)) <=>
                  m \in Nat /\ 0 + m \in t /\ 8 * (k - 1) <= 0 + m /\ 0 + m < 8 * k
    BY <2>1, Field, Zenon
  <2>3. \A m \in Nat : 0 + m = m
    OBVIOUS
  <2>4. \A m \in t : m \in Nat
    OBVIOUS
  <2> QED
    BY <1>1, <2>2, <2>3, <2>4, Zenon
<1>3. \A m : m \in B!FromBytes(s) <=> \E k \in 1 .. 7 : m \in B!Shift(s[k], 8 * (k - 1))
  BY <1>1, SMT DEF B!FromBytes
<1>4. \A m \in t : \E k \in 1 .. 7 : 8 * (k - 1) <= m /\ m < 8 * k
  <2> TAKE m \in t
  <2>1. m \div 8 + 1 \in 1 .. 7 /\ 8 * ((m \div 8 + 1) - 1) <= m /\ m < 8 * (m \div 8 + 1)
    OBVIOUS
  <2> QED
    BY <2>1, Zenon
<1>5. \A m : m \in B!FromBytes(s) <=> m \in t
  BY <1>2, <1>3, <1>4, Zenon
<1>6. B!FromBytes(s) = t
  BY <1>5, SMT
<1> QED
  BY <1>6 DEF s

(* Up to twelve characters that are read as the last digits of a time,     *)
(* whose other digits are zero, are read as that time.                     *)
LEMMA TimeDecoded ==
    ASSUME NEW t \in SUBSET (0 .. 55), NEW n \in 0 .. 12, NEW s \in [1 .. n -> Nat],
           \A j \in n .. 11 : Five(t, j) = {},
           \A i \in 1 .. n : B!BitsIn(B!decode_char(s[i]), 8) = Five(t, n - i)
    PROVE  B!decode_datetime(s) = t
<1> DEFINE pad == [i \in 1 .. 12 - Len(s) |-> 48]
           zeros == [i \in 1 .. 12 - n |-> 48]
           in == zeros \o s
<1>1. s \in Seq(Nat) /\ Len(s) = n
  <2>1. n \in Nat
    OBVIOUS
  <2> QED
    BY <2>1, TextOfDigits, Zenon
<1>2. zeros \in Seq(Nat) /\ Len(zeros) = 12 - n /\ \A i \in 1 .. 12 - n : zeros[i] = 48
  <2>1. zeros \in [1 .. 12 - n -> Nat] /\ 12 - n \in Nat
    OBVIOUS
  <2>2. \A i \in 1 .. 12 - n : zeros[i] = 48
    OBVIOUS
  <2> QED
    BY <2>1, <2>2, TextOfDigits, Zenon
<1>3. B!decode_datetime(s) = B!FromBytes(B!decode(in))
  <2>1. ~ (Len(s) > 12)
    BY <1>1
  <2>2. B!decode_datetime(s) = B!FromBytes(B!decode(pad \o s))
    BY <2>1, Zenon DEF B!decode_datetime
  <2> QED
    BY <1>1, <2>2, Zenon
<1> HIDE DEF zeros
<1>4. /\ Len(zeros \o s) = (12 - n) + n
      /\ \A d \in 1 .. (12 - n) + n :
            (zeros \o s)[d] = IF d <= 12 - n THEN zeros[d] ELSE s[d - (12 - n)]
  <2>1. /\ Len(zeros \o s) = Len(zeros) + Len(s)
        /\ \A d \in 1 .. Len(zeros) + Len(s) :
              (zeros \o s)[d] = IF d <= Len(zeros) THEN zeros[d] ELSE s[d - Len(zeros)]
    <3>1. zeros \in Seq(Nat) /\ s \in Seq(Nat)
      BY <1>1, <1>2, Zenon
    <3> QED
      BY ONLY <3>1, ConcatProperties, Zenon
  <2>2. Len(zeros) = 12 - n /\ Len(s) = n
    BY <1>1, <1>2, Zenon
  <2> QED
    BY ONLY <2>1, <2>2, Zenon
<1>5. (12 - n) + n = 12
  OBVIOUS
<1> HIDE DEF in
<1>6. B!BitsIn(B!decode_char(48), 8) = {}
  <2>1. B!decode_char(48) = 0
    BY SMT DEF B!decode_char
  <2>2. B!Number({}) = 0 /\ {} \in SUBSET (0 .. 4)
    BY Zenon, NumberFacts
  <2> QED
    BY <2>1, <2>2, NumberFacts, Zenon
<1>7. ASSUME NEW d \in 1 .. 12
      PROVE  B!BitsIn(B!decode_char(in[d]), 8) = Five(t, 12 - d)
  <2>1. CASE d <= 12 - n
    <3>1. d \in 1 .. 12 - n /\ 12 - d \in n .. 11
      BY <2>1
    <3>2. in[d] = 48
      BY <1>2, <1>4, <1>5, <2>1, <3>1, Zenon DEF in
    <3> QED
      BY <1>6, <3>1, <3>2, Zenon
  <2>2. CASE ~ (d <= 12 - n)
    <3>1. d - (12 - n) \in 1 .. n /\ n - (d - (12 - n)) = 12 - d
      BY <2>2
    <3>2. in[d] = s[d - (12 - n)]
      BY <1>4, <1>5, <2>2, Zenon DEF in
    <3> QED
      BY <3>1, <3>2, Zenon
  <2> QED
    BY <2>1, <2>2
<1>8. ReadAs(in, t)
  BY <1>4, <1>5, <1>7, Zenon DEF ReadAs, in
<1>9. t \in SUBSET (0 .. 63)
  OBVIOUS
<1>10. B!decode(in) = [o \in 1 .. 7 |-> Byte8(t, o)]
  BY <1>8, <1>9, Decoded, Zenon
<1> QED
  BY <1>3, <1>10, BytesBack, Zenon

(* A short time has at most twelve digits, and one of nine is short.       *)
LEMMA PlacesOfShort ==
    ASSUME NEW t \in SUBSET (0 .. 63), NEW n, Places(t, n)
    PROVE  /\ t \subseteq 0 .. 55 => n \in 0 .. 12
           /\ n = 9 => t \in SUBSET (0 .. 55) /\ t # {}
<1>1. n \in 0 .. 13
  BY DEF Places
<1>2. ASSUME t \subseteq 0 .. 55
      PROVE  n \in 0 .. 12
  <2>1. Five(t, 12) = {}
    BY <1>2 DEF Five
  <2>2. n = 13 => n > 0 /\ n - 1 = 12
    OBVIOUS
  <2>3. n # 13
    BY <2>1, <2>2, Zenon DEF Places
  <2> QED
    BY <1>1, <2>3
<1>3. ASSUME n = 9
      PROVE  t \in SUBSET (0 .. 55) /\ t # {}
  <2>1. \A m \in t : m <= 55
    <3> SUFFICES ASSUME NEW m \in t, ~ (m <= 55)
                 PROVE  FALSE
      OBVIOUS
    <3>1. m \div 5 \in n .. 12 /\ m % 5 \in 0 .. 4 /\ 5 * (m \div 5) + (m % 5) = m
      <4>1. m \in 56 .. 63
        OBVIOUS
      <4> QED
        BY <1>3, <4>1
    <3>2. m % 5 \in Five(t, m \div 5)
      BY <3>1, Zenon DEF Five
    <3> QED
      BY <3>1, <3>2 DEF Places
  <2>2. t # {}
    <3>1. n > 0 /\ Five({}, n - 1) = {}
      BY <1>3 DEF Five
    <3> QED
      BY <3>1, Zenon DEF Places
  <2> QED
    BY <2>1, <2>2
<1> QED
  BY <1>2, <1>3

(* A text of its digits, some of them mistaken, is read as a time.         *)
LEMMA ReadBack ==
    ASSUME NEW t \in SUBSET (0 .. 55), NEW n \in 0 .. 12, Places(t, n),
           NEW s \in [1 .. n -> Nat],
           \A i \in 1 .. n : s[i] = Char32(t, n - i) \/ s[i] = Mistaken(Char32(t, n - i))
    PROVE  B!decode_datetime(s) = t
<1>1. \A j \in n .. 11 : Five(t, j) = {}
  BY DEF Places
<1>2. ASSUME NEW i \in 1 .. n
      PROVE  B!BitsIn(B!decode_char(s[i]), 8) = Five(t, n - i)
  <2> DEFINE d == B!Number(Five(t, n - i))
  <2>1. Five(t, n - i) \in SUBSET (0 .. 4)
    BY DEF Five
  <2>2. d \in 0 .. 31 /\ B!BitsIn(d, 8) = Five(t, n - i)
    BY <2>1, NumberFacts, Zenon
  <2>3. Char32(t, n - i) = B!enc32[d + 1]
    BY Zenon DEF Char32
  <2> HIDE DEF d
  <2>4. B!decode_char(s[i]) = d
    BY <2>2, <2>3, DigitRead, Zenon
  <2> QED
    BY <2>2, <2>4, Zenon
<1> QED
  BY <1>1, <1>2, TimeDecoded, Zenon

(* What the tool prints for a time it is given.                             *)
LEMMA Made ==
    ASSUME NEW t, NEW format \in BOOLEAN
    PROVE  LET code == B!encode_datetime(t)
               made == B!serialnum([kind |-> "hex", time |-> t], format, {})
           IN  /\ made.rc = 0 => Len(code) = 9 /\ made.text = code
               /\ Len(code) = 9 /\ B!decode_datetime(code) # {} => made.rc = 0
<1> DEFINE arg  == [kind |-> "hex", time |-> t]
           code == B!encode_datetime(t)
           res  == B!decode_datetime(code)
           made == B!serialnum(arg, format, {})
<1>1. arg.kind = "hex" /\ arg.time = t
  OBVIOUS
<1> HIDE DEF arg, code, res
<1>2. made = IF Len(code) # 9 THEN B!Fails(1)
             ELSE IF format /\ res = {} THEN B!Fails(3)
             ELSE [rc |-> 0, text |-> code, time |-> IF format THEN res ELSE {}]
  BY <1>1, SMT DEF B!serialnum, code, res
<1> HIDE DEF made
<1>3. B!Fails(1).rc = 1 /\ B!Fails(3).rc = 3
  BY DEF B!Fails
<1>4. CASE Len(code) # 9
  <2>1. made.rc # 0
    BY <1>2, <1>3, <1>4
  <2> QED
    BY <1>4, <2>1, Zenon DEF made, arg, code, res
<1>5. CASE Len(code) = 9 /\ format /\ res = {}
  <2>1. made.rc # 0
    BY <1>2, <1>3, <1>5
  <2> QED
    BY <1>5, <2>1, Zenon DEF made, arg, code, res
<1>6. CASE Len(code) = 9 /\ ~ (format /\ res = {})
  <2>1. made.rc = 0 /\ made.text = code
    BY <1>2, <1>6
  <2> QED
    BY <1>6, <2>1, Zenon DEF made, arg, code, res
<1> QED
  BY <1>4, <1>5, <1>6, Zenon

(* The text is decoded, whatever else the tool checks.                      *)
LEMMA ReadAgain ==
    ASSUME NEW s
    PROVE  B!serialnum([kind |-> "digits", text |-> s], FALSE, {}).time = B!decode_datetime(s)
<1> DEFINE arg  == [kind |-> "digits", text |-> s]
           res  == B!decode_datetime(s)
           made == B!serialnum(arg, FALSE, {})
<1>1. arg.kind = "digits" /\ arg.text = s
  OBVIOUS
<1> HIDE DEF arg, res
<1>2. made = IF res = {} THEN B!Fails(3)
             ELSE [rc |-> 0, text |-> << >>, time |-> res]
  BY <1>1, SMT DEF B!serialnum, res
<1>3. B!Fails(3).time = {}
  BY DEF B!Fails
<1> HIDE DEF made
<1>4. made.time = res
  BY <1>2, <1>3
<1> QED
  BY <1>4 DEF made, arg, res

(* Everything TimesReadBack says of one time.                              *)
LEMMA OneTime ==
    ASSUME NEW t \in SUBSET (0 .. 63), NEW format \in BOOLEAN
    PROVE  LET code     == B!encode_datetime(t)
               made     == B!serialnum([kind |-> "hex", time |-> t], format, {})
               mistaken == [i \in DOMAIN code |-> Mistaken(code[i])]
           IN  /\ code = InBase32(t)
               /\ t \subseteq 0 .. 55 =>
                     B!decode_datetime(code) = t /\ B!decode_datetime(mistaken) = t
               /\ made.rc = 0 <=> Len(code) = 9
               /\ made.rc = 0 => /\ made.text = code
                                 /\ B!decode_datetime(code) = t
                                 /\ B!decode_datetime(mistaken) = t
<1> DEFINE code     == B!encode_datetime(t)
           made     == B!serialnum([kind |-> "hex", time |-> t], format, {})
           mistaken == [i \in DOMAIN code |-> Mistaken(code[i])]
<1>1. PICK n : Places(t, n)
  BY PlacesExist, Zenon
<1>2. n \in 0 .. 13
  BY <1>1, Zenon DEF Places
<1>3. code = [i \in 1 .. n |-> Char32(t, n - i)]
  BY <1>1, TimeEncoded
<1>4. code = InBase32(t)
  BY <1>1, <1>3, InBase32Is, Zenon
<1>5. (made.rc = 0 => Len(code) = 9 /\ made.text = code)
      /\ (Len(code) = 9 /\ B!decode_datetime(code) # {} => made.rc = 0)
  BY Made
<1> HIDE DEF code, made
<1>6. \A i \in 1 .. n : Char32(t, n - i) \in Nat /\ Mistaken(Char32(t, n - i)) \in Nat
  <2> TAKE i \in 1 .. n
  <2>1. n - i \in Int
    BY <1>2
  <2>2. Char32(t, n - i) \in Nat
    BY <2>1, CharFacts, Zenon
  <2> HIDE DEF Char32
  <2>3. \A c \in Nat : Mistaken(c) \in Nat
    BY DEF Mistaken, Capital
  <2> QED
    BY <2>2, <2>3, Zenon
<1>7. code \in [1 .. n -> Nat] /\ Len(code) = n
  <2>1. code \in [1 .. n -> Nat]
    BY <1>3, <1>6, Zenon
  <2>2. n \in Nat
    BY <1>2
  <2> QED
    BY <2>1, <2>2, TextOfDigits, Zenon
<1>8. /\ DOMAIN code = 1 .. n
      /\ \A i \in 1 .. n : code[i] = Char32(t, n - i)
  BY <1>3, Zenon
<1>9. /\ mistaken \in [1 .. n -> Nat]
      /\ \A i \in 1 .. n : mistaken[i] = Mistaken(Char32(t, n - i))
  <2>1. mistaken = [i \in 1 .. n |-> Mistaken(Char32(t, n - i))]
    BY <1>8, Zenon
  <2> HIDE DEF mistaken
  <2> QED
    BY <1>6, <2>1, Zenon
<1> HIDE DEF mistaken
<1>10. ASSUME t \in SUBSET (0 .. 55)
       PROVE  B!decode_datetime(code) = t /\ B!decode_datetime(mistaken) = t
  <2>1. n \in 0 .. 12
    BY <1>1, <1>10, PlacesOfShort
  <2>2. B!decode_datetime(code) = t
    BY <1>1, <1>7, <1>8, <1>10, <2>1, ReadBack, Zenon
  <2>3. B!decode_datetime(mistaken) = t
    BY <1>1, <1>9, <1>10, <2>1, ReadBack, Zenon
  <2> QED
    BY <2>2, <2>3
<1>11. n = 9 => t \in SUBSET (0 .. 55) /\ t # {}
  BY <1>1, PlacesOfShort
<1>12. t \subseteq 0 .. 55 => t \in SUBSET (0 .. 55)
  OBVIOUS
<1>13. /\ t \subseteq 0 .. 55 =>
             B!decode_datetime(code) = t /\ B!decode_datetime(mistaken) = t
       /\ made.rc = 0 <=> Len(code) = 9
       /\ made.rc = 0 => /\ made.text = code
                         /\ B!decode_datetime(code) = t
                         /\ B!decode_datetime(mistaken) = t
  BY <1>5, <1>7, <1>10, <1>11, <1>12, Zenon
<1> QED
  BY <1>4, <1>13, Zenon DEF code, made, mistaken

-----------------------------------------------------------------------------
(* A call of the tool.                                                     *)
SerialCall(t, format) ==
    [fcn |-> "serialnum", time |-> t,
     made |-> B!serialnum([kind |-> "hex", time |-> t], format, {}),
     code |-> B!encode_datetime(t)]

SerialInv ==
    call.fcn = "serialnum" =>
       \E t \in Times : \E format \in BOOLEAN : call = SerialCall(t, format)

(* What is known of a serial number is what the tool makes of its time.    *)
LEMMA SerialInvInit == CodingsInit => SerialInv
  BY DEF CodingsInit, SerialInv, None

(* No call changes it.                                                     *)
LEMMA SerialInvStep == SerialInv /\ [CodingsNext]_callVars => SerialInv'
<1> SUFFICES ASSUME SerialInv, [CodingsNext]_callVars PROVE SerialInv'
  OBVIOUS
<1>1. CASE SerialNum
  <2>1. \E t \in Times : \E format \in BOOLEAN : call' = SerialCall(t, format)
    BY <1>1, Zenon DEF SerialNum, SerialCall
  <2> QED
    BY <2>1, Zenon DEF SerialInv
<1>2. CASE SetBytes
  <2>1. call'.fcn = "message"
    BY <1>2, SMT DEF SetBytes
  <2> QED
    BY <2>1 DEF SerialInv
<1>3. CASE ChangeChar
  <2>1. call.fcn = "message" /\ \E u : call' = [call EXCEPT !.text = u]
    BY <1>3, Zenon DEF ChangeChar
  <2>2. call'.fcn # "serialnum"
    BY <2>1
  <2> QED
    BY <2>2 DEF SerialInv
<1>4. CASE FlipBit
  <2>1. call.fcn = "message" /\ \E u : call' = [call EXCEPT !.text = u]
    BY <1>4, Zenon DEF FlipBit
  <2>2. call'.fcn # "serialnum"
    BY <2>1
  <2> QED
    BY <2>2 DEF SerialInv
<1>5. CASE OpenLine
  <2>1. call'.fcn = "line"
    BY <1>5, SMT DEF OpenLine
  <2> QED
    BY <2>1 DEF SerialInv
<1>6. CASE ReadConfig
  <2>1. call'.fcn = "config"
    BY <1>6, SMT DEF ReadConfig
  <2> QED
    BY <2>1 DEF SerialInv
<1>7. CASE ListAddresses
  <2>1. call'.fcn = "addresses"
    BY <1>7, SMT DEF ListAddresses
  <2> QED
    BY <2>1 DEF SerialInv
<1>8. CASE UNCHANGED callVars
  BY <1>8, Zenon DEF callVars, SerialInv
<1> QED
  BY <1>1, <1>2, <1>3, <1>4, <1>5, <1>6, <1>7, <1>8 DEF CodingsNext

(* The call is one for a time of 64 bits.                                  *)
LEMMA SerialIs ==
    ASSUME SerialInv, call.fcn = "serialnum"
    PROVE  \E t \in SUBSET (0 .. 63) : \E format \in BOOLEAN :
              /\ call.time = t
              /\ call.code = B!encode_datetime(t)
              /\ call.made = B!serialnum([kind |-> "hex", time |-> t], format, {})
<1>1. PICK t \in Times, format \in BOOLEAN : call = SerialCall(t, format)
  BY Zenon DEF SerialInv
<1>2. t \in SUBSET (0 .. 63)
  BY CodingsAssumption, Zenon DEF CodingsAssumption
<1>3. /\ call.time = t
      /\ call.code = B!encode_datetime(t)
      /\ call.made = B!serialnum([kind |-> "hex", time |-> t], format, {})
  BY <1>1 DEF SerialCall
<1> QED
  BY <1>2, <1>3, Zenon

(* Its digits are those to the base 32.                                    *)
LEMMA SerialInvDigits == SerialInv => DigitsAreBase32
<1> SUFFICES ASSUME SerialInv, call.fcn = "serialnum"
             PROVE  call.code = InBase32(call.time)
  BY Zenon DEF DigitsAreBase32
<1>1. PICK t \in SUBSET (0 .. 63) : call.time = t /\ call.code = B!encode_datetime(t)
  BY SerialIs, Zenon
<1>2. TRUE \in BOOLEAN
  OBVIOUS
<1>3. B!encode_datetime(t) = InBase32(t)
  BY <1>2, OneTime, Zenon
<1> QED
  BY <1>1, <1>3, Zenon

(* And they are read back.                                                 *)
LEMMA SerialInvBack == SerialInv => TimesReadBack
<1> DEFINE mistaken == [i \in DOMAIN call.code |-> Mistaken(call.code[i])]
           again(s) == B!serialnum([kind |-> "digits", text |-> s], FALSE, {}).time
           Back == /\ call.time \subseteq 0 .. 55 =>
                         /\ B!decode_datetime(call.code) = call.time
                         /\ B!decode_datetime(mistaken) = call.time
                   /\ call.made.rc = 0 => again(call.made.text) = call.time
                                          /\ again(mistaken) = call.time
                   /\ call.made.rc = 0 <=> Len(call.code) = 9
<1> SUFFICES ASSUME SerialInv, call.fcn = "serialnum" PROVE Back
  BY Zenon DEF TimesReadBack
<1>1. PICK t \in SUBSET (0 .. 63), format \in BOOLEAN :
              /\ call.time = t
              /\ call.code = B!encode_datetime(t)
              /\ call.made = B!serialnum([kind |-> "hex", time |-> t], format, {})
  BY SerialIs
<1>2. /\ t \subseteq 0 .. 55 =>
            B!decode_datetime(call.code) = t /\ B!decode_datetime(mistaken) = t
      /\ call.made.rc = 0 <=> Len(call.code) = 9
      /\ call.made.rc = 0 => /\ call.made.text = call.code
                             /\ B!decode_datetime(call.code) = t
                             /\ B!decode_datetime(mistaken) = t
  <2> DEFINE code == B!encode_datetime(t)
             made == B!serialnum([kind |-> "hex", time |-> t], format, {})
             wrong == [i \in DOMAIN code |-> Mistaken(code[i])]
  <2>1. /\ t \subseteq 0 .. 55 =>
              B!decode_datetime(code) = t /\ B!decode_datetime(wrong) = t
        /\ made.rc = 0 <=> Len(code) = 9
        /\ made.rc = 0 => /\ made.text = code
                          /\ B!decode_datetime(code) = t
                          /\ B!decode_datetime(wrong) = t
    BY OneTime, Zenon
  <2>2. call.code = code /\ call.made = made
    BY <1>1, Zenon
  <2> HIDE DEF code, made
  <2> QED
    BY <2>1, <2>2, Zenon
<1>3. \A s : again(s) = B!decode_datetime(s)
  BY ReadAgain
<1> HIDE DEF again, mistaken
<1> QED
  BY <1>1, <1>2, <1>3, Zenon

(* For every time of 64 bits, encode's walk over byte borders makes the    *)
(* digits of the number, without leading zeros.                            *)
THEOREM DigitsAreBase32Holds == CodingsSpec => []DigitsAreBase32
  BY SerialInvInit, SerialInvStep, SerialInvDigits, PTL DEF CodingsSpec

(* Every time below 2^56 is read back from its digits, as the tool writes  *)
(* them and as people do, and every serial number is read as its time.     *)
THEOREM TimesReadBackHolds == CodingsSpec => []TimesReadBack
  BY SerialInvInit, SerialInvStep, SerialInvBack, PTL DEF CodingsSpec

-----------------------------------------------------------------------------
(* Induction over a set of numbers.                                        *)

(* Induction, in the form the provers can apply: over a set.               *)
LEMMA LeastOf ==
    ASSUME NEW T \in SUBSET Nat, T # {}
    PROVE  \E x \in T : \A y \in T : x <= y
<1> DEFINE R == OpToRel(<, Nat)
<1>1. IsWellFoundedOn(R, Nat)
  BY NatLessThanWellFounded
<1>2. \A x, y \in Nat : <<y, x>> \in R <=> y < x
  BY DEF OpToRel
<1> HIDE DEF R
<1>3. PICK x \in T : \A y \in T : ~ (<<y, x>> \in R)
  BY <1>1, WFMin, Zenon
<1>4. ASSUME NEW y \in T
      PROVE  x <= y
  <2>1. x \in Nat /\ y \in Nat
    OBVIOUS
  <2>2. ~ (y < x)
    BY <1>2, <1>3, <2>1, Zenon
  <2> QED
    BY <2>1, <2>2, SMT
<1> QED
  BY <1>4, Zenon

(* What holds of 0 and is handed on holds up to n.                         *)
LEMMA UpTo ==
    ASSUME NEW n \in Nat, NEW T, 0 \in T, \A k \in 1 .. n : k - 1 \in T => k \in T
    PROVE  \A k \in 0 .. n : k \in T
<1> SUFFICES ASSUME NEW k \in 0 .. n, k \notin T
             PROVE  FALSE
  OBVIOUS
<1> DEFINE U == {m \in 0 .. n : m \notin T}
<1>1. U \in SUBSET Nat /\ U # {}
  <2>1. k \in U
    BY Zenon
  <2>2. \A m \in 0 .. n : m \in Nat
    OBVIOUS
  <2> QED
    BY <2>1, <2>2, Zenon
<1>2. PICK x \in U : \A y \in U : x <= y
  BY <1>1, LeastOf, Zenon
<1>3. x \in 1 .. n /\ x - 1 \in 0 .. n /\ ~ (x <= x - 1)
  BY SMT
<1>4. x - 1 \notin U
  BY <1>2, <1>3, Zenon
<1> QED
  BY <1>3, <1>4, Zenon

-----------------------------------------------------------------------------
(* A function that is defined step by step exists.                         *)
IsWalk(n, base, step, g) == g[0] = base /\ \A k \in 1 .. n : g[k] = step[k][g[k - 1]]

(* Each step takes a member of S to one.                                   *)
LEMMA WalkExists ==
    ASSUME NEW n \in Nat, NEW S, NEW base \in S, NEW step \in [1 .. n -> [S -> S]]
    PROVE  \E g \in [0 .. n -> S] : IsWalk(n, base, step, g)
<1> DEFINE Steps(m, g) == g[0] = base /\ \A k \in 1 .. m : g[k] = step[k][g[k - 1]]
           T == {m \in 0 .. n : \E g \in [0 .. m -> S] : Steps(m, g)}
<1>1. 0 \in T
  <2> DEFINE g == [k \in 0 .. 0 |-> base]
  <2>1. g \in [0 .. 0 -> S] /\ Steps(0, g)
    OBVIOUS
  <2>2. 0 \in 0 .. n
    OBVIOUS
  <2> QED
    BY <2>1, <2>2, Zenon
<1>2. ASSUME NEW m \in 1 .. n, m - 1 \in T
      PROVE  m \in T
  <2>1. PICK g \in [0 .. m - 1 -> S] : Steps(m - 1, g)
    BY <1>2, Zenon
  <2> DEFINE h == [k \in 0 .. m |-> IF k = m THEN step[m][g[m - 1]] ELSE g[k]]
  <2>2. m - 1 \in 0 .. m - 1 /\ m \in 0 .. m /\ m \in 0 .. n /\ 0 \in 0 .. m /\ 0 # m
    OBVIOUS
  <2>3. step[m][g[m - 1]] \in S
    BY <2>2, Zenon
  <2>4. \A k \in 0 .. m : k # m => k \in 0 .. m - 1
    OBVIOUS
  <2>5. h \in [0 .. m -> S]
    BY <2>3, <2>4, Zenon
  <2>6. \A k \in 0 .. m : h[k] = IF k = m THEN step[m][g[m - 1]] ELSE g[k]
    BY Zenon
  <2> HIDE DEF h
  <2>7. h[0] = base
    BY <2>1, <2>2, <2>6, Zenon
  <2>8. ASSUME NEW k \in 1 .. m
        PROVE  h[k] = step[k][h[k - 1]]
    <3>1. /\ k \in 0 .. m /\ k - 1 \in 0 .. m /\ k - 1 # m
          /\ (k # m => k \in 1 .. m - 1)
      OBVIOUS
    <3>2. h[k - 1] = g[k - 1]
      BY <2>6, <3>1, Zenon
    <3>3. CASE k = m
      BY <2>6, <3>1, <3>2, <3>3, Zenon
    <3>4. CASE k # m
      BY <2>1, <2>6, <3>1, <3>2, <3>4, Zenon
    <3> QED
      BY <3>3, <3>4, Zenon
  <2> QED
    BY <2>2, <2>5, <2>7, <2>8, Zenon
<1> HIDE DEF T
<1>3. n \in T
  <2>1. n \in 0 .. n
    OBVIOUS
  <2>2. \A k \in 0 .. n : k \in T
    BY <1>1, <1>2, UpTo, Zenon
  <2> QED
    BY <2>1, <2>2, Zenon
<1> QED
  BY <1>3, Zenon DEF T, IsWalk

-----------------------------------------------------------------------------
(* The first c of a text, or the place behind its end.                     *)
IsPosition(c, s, i) ==
    /\ i \in 1 .. Len(s) + 1
    /\ i <= Len(s) => s[i] = c
    /\ \A j \in 1 .. i - 1 : s[j] # c

(* It has a first c, or the place behind its end, and only one.            *)
LEMMA PositionIs ==
    ASSUME NEW c, NEW s, Len(s) \in Nat
    PROVE  IsPosition(c, s, D!Position(c, s))
<1> DEFINE P(i) == (i <= Len(s) => s[i] = c) /\ \A j \in 1 .. i - 1 : s[j] # c
           n == Len(s)
           U == {i \in 1 .. n + 1 : i <= n => s[i] = c}
<1>1. \E i \in 1 .. n + 1 : P(i)
  <2>1. U \in SUBSET Nat /\ n + 1 \in U
    BY SMT
  <2>2. PICK x \in U : \A y \in U : x <= y
    BY <2>1, LeastOf, Zenon
  <2>3. ASSUME NEW j \in 1 .. x - 1
        PROVE  s[j] # c
    <3>1. j \in 1 .. n + 1 /\ ~ (x <= j)
      BY SMT
    <3> QED
      BY <2>2, <3>1, Zenon
  <2> QED
    BY <2>3, Zenon
<1>2. D!Position(c, s) = CHOOSE i \in 1 .. n + 1 : P(i)
  BY Zenon DEF D!Position
<1> QED
  BY <1>1, <1>2, Zenon DEF IsPosition

(* There is only one.                                                      *)
LEMMA PositionOne ==
    ASSUME NEW c, NEW s, Len(s) \in Nat, NEW i, NEW k, IsPosition(c, s, i), IsPosition(c, s, k)
    PROVE  i = k
<1>1. i \in 1 .. Len(s) + 1 /\ k \in 1 .. Len(s) + 1
  BY DEF IsPosition
<1>2. ASSUME NEW a \in 1 .. Len(s) + 1, NEW b \in 1 .. Len(s) + 1, a < b,
             IsPosition(c, s, a), IsPosition(c, s, b)
      PROVE  FALSE
  <2>1. a <= Len(s) /\ a \in 1 .. b - 1
    BY <1>2
  <2> QED
    BY <1>2, <2>1, Zenon DEF IsPosition
<1>3. i < k \/ k < i \/ i = k
  BY <1>1
<1> QED
  BY <1>1, <1>2, <1>3, Zenon

(* The first m characters of a text, and those from p + 1 to m.            *)
LEMMA CutIs ==
    ASSUME NEW s \in Seq(STRING), NEW m \in 0 .. Len(s)
    PROVE  /\ SubSeq(s, 1, m) \in Seq(STRING)
           /\ Len(SubSeq(s, 1, m)) = m
           /\ \A i \in 1 .. m : SubSeq(s, 1, m)[i] = s[i]
<1>1. 1 \in Int /\ m \in Int /\ \A i \in 1 .. m : s[i] \in STRING
  OBVIOUS
<1>2. /\ SubSeq(s, 1, m) \in Seq(STRING)
      /\ Len(SubSeq(s, 1, m)) = IF 1 <= m THEN (m - 1) + 1 ELSE 0
      /\ \A i \in 1 .. (m - 1) + 1 : SubSeq(s, 1, m)[i] = s[(1 + i) - 1]
  BY ONLY <1>1, SubSeqProperties
<1>3. /\ (IF 1 <= m THEN (m - 1) + 1 ELSE 0) = m
      /\ \A i \in 1 .. m : i \in 1 .. (m - 1) + 1 /\ (1 + i) - 1 = i
  OBVIOUS
<1>4. ASSUME NEW i \in 1 .. m
      PROVE  SubSeq(s, 1, m)[i] = s[i]
  BY <1>2, <1>3, Zenon
<1>5. Len(SubSeq(s, 1, m)) = m
  BY <1>2, <1>3
<1> QED
  BY <1>2, <1>4, <1>5, Zenon

(* The characters behind the first p.                                      *)
LEMMA RestIs ==
    ASSUME NEW s \in Seq(STRING), NEW m \in 0 .. Len(s), NEW p \in 0 .. m
    PROVE  /\ SubSeq(s, p + 1, m) \in Seq(STRING)
           /\ Len(SubSeq(s, p + 1, m)) = m - p
           /\ \A i \in 1 .. m - p : SubSeq(s, p + 1, m)[i] = s[p + i]
<1>1. p + 1 \in Int /\ m \in Int /\ \A i \in p + 1 .. m : s[i] \in STRING
  OBVIOUS
<1>2. /\ SubSeq(s, p + 1, m) \in Seq(STRING)
      /\ Len(SubSeq(s, p + 1, m)) = IF p + 1 <= m THEN m - (p + 1) + 1 ELSE 0
      /\ \A i \in 1 .. m - (p + 1) + 1 : SubSeq(s, p + 1, m)[i] = s[(p + 1) + i - 1]
  BY ONLY <1>1, SubSeqProperties
<1>3. /\ (IF p + 1 <= m THEN m - (p + 1) + 1 ELSE 0) = m - p
      /\ \A i \in 1 .. m - p : i \in 1 .. m - (p + 1) + 1 /\ (p + 1) + i - 1 = p + i
  OBVIOUS
<1> QED
  BY <1>2, <1>3, Zenon

(* Texts with the same characters are the same.                            *)
LEMMA SameTexts ==
    ASSUME NEW s \in Seq(STRING), NEW t \in Seq(STRING), Len(s) = Len(t),
           \A i \in 1 .. Len(s) : s[i] = t[i]
    PROVE  s = t
  BY SeqEqual

-----------------------------------------------------------------------------
(* The digits a text begins with are the first n.                          *)
IsRun(s, n) ==
    /\ n \in 0 .. Len(s)
    /\ \A j \in 1 .. n : s[j] \in DOMAIN D!Digits
    /\ n < Len(s) => s[n + 1] \notin DOMAIN D!Digits

(* There are such digits ...                                               *)
LEMMA RunIs ==
    ASSUME NEW s \in Seq(STRING)
    PROVE  \E n : IsRun(s, n) /\ D!LeadingDigits(s) = SubSeq(s, 1, n)
<1> DEFINE P(i) == /\ \A j \in 1 .. i : s[j] \in DOMAIN D!Digits
                   /\ i < Len(s) => s[i + 1] \notin DOMAIN D!Digits
           U == {i \in 0 .. Len(s) : i < Len(s) => s[i + 1] \notin DOMAIN D!Digits}
           n == CHOOSE i \in 0 .. Len(s) : P(i)
<1>0. Len(s) \in Nat
  OBVIOUS
<1>1. \E i \in 0 .. Len(s) : P(i)
  <2>1. U \in SUBSET Nat /\ Len(s) \in U
    <3>1. Len(s) \in 0 .. Len(s) /\ ~ (Len(s) < Len(s)) /\ \A i \in 0 .. Len(s) : i \in Nat
      BY <1>0
    <3> QED
      BY <3>1, Zenon
  <2>2. PICK x \in U : \A y \in U : x <= y
    BY <2>1, LeastOf, Zenon
  <2>3. ASSUME NEW j \in 1 .. x
        PROVE  s[j] \in DOMAIN D!Digits
    <3>1. x \in 0 .. Len(s)
      BY Zenon
    <3>2. j - 1 \in 0 .. Len(s) /\ ~ (x <= j - 1) /\ j - 1 < Len(s) /\ (j - 1) + 1 = j
      BY <1>0, <3>1
    <3>3. j - 1 \notin U
      BY <2>2, <3>2, Zenon
    <3> QED
      BY <3>2, <3>3, Zenon
  <2>4. x \in 0 .. Len(s) /\ (x < Len(s) => s[x + 1] \notin DOMAIN D!Digits)
    BY Zenon
  <2> QED
    BY <2>3, <2>4, Zenon
<1>2. D!LeadingDigits(s) = SubSeq(s, 1, n)
  BY Zenon DEF D!LeadingDigits
<1> HIDE DEF P
<1>3. n \in 0 .. Len(s) /\ P(n)
  BY <1>1, Zenon
<1> QED
  BY <1>2, <1>3, Zenon DEF P, IsRun

(* ... and no other number of them.                                        *)
LEMMA RunOne ==
    ASSUME NEW s \in Seq(STRING), NEW m, NEW n, IsRun(s, m), IsRun(s, n)
    PROVE  m = n
<1>0. Len(s) \in Nat
  OBVIOUS
<1>1. m \in 0 .. Len(s) /\ n \in 0 .. Len(s)
  BY DEF IsRun
<1>2. ASSUME NEW a \in 0 .. Len(s), NEW b \in 0 .. Len(s), a < b, IsRun(s, a), IsRun(s, b)
      PROVE  FALSE
  <2>1. a < Len(s) /\ a + 1 \in 1 .. b
    BY <1>0, <1>2
  <2> QED
    BY <1>2, <2>1, Zenon DEF IsRun
<1>3. m < n \/ n < m \/ m = n
  BY <1>0, <1>1
<1> QED
  BY <1>1, <1>2, <1>3, Zenon

(* A newline behind a text adds no digit.                                  *)
LEMMA NewlineNoDigit ==
    ASSUME NEW s \in Seq(STRING), NEW t \in Seq(STRING), Len(t) = Len(s) + 1,
           \A i \in 1 .. Len(s) : t[i] = s[i], t[Len(s) + 1] = "\n"
    PROVE  D!atoi(t) = D!atoi(s)
<1>0. Len(s) \in Nat
  OBVIOUS
<1>1. PICK n : IsRun(s, n) /\ D!LeadingDigits(s) = SubSeq(s, 1, n)
  BY RunIs, Zenon
<1>2. PICK m : IsRun(t, m) /\ D!LeadingDigits(t) = SubSeq(t, 1, m)
  BY RunIs, Zenon
<1>3. n \in 0 .. Len(s) /\ n \in 0 .. Len(t)
  BY <1>0, <1>1 DEF IsRun
<1>4. "\n" \notin DOMAIN D!Digits
  BY DEF D!Digits
<1>5. IsRun(t, n)
  <2>1. \A j \in 1 .. n : j \in 1 .. Len(s)
    BY <1>0, <1>3
  <2>2. CASE n < Len(s)
    <3>1. n + 1 \in 1 .. Len(s)
      BY <1>0, <1>3, <2>2
    <3> QED
      BY <1>1, <1>3, <2>1, <2>2, <3>1, Zenon DEF IsRun
  <2>3. CASE ~ (n < Len(s))
    <3>1. n = Len(s)
      BY <1>0, <1>3, <2>3
    <3> QED
      BY <1>1, <1>3, <1>4, <2>1, <3>1, Zenon DEF IsRun
  <2> QED
    BY <2>2, <2>3
<1>6. m = n
  BY <1>2, <1>5, RunOne, Zenon
<1>7. SubSeq(t, 1, n) = SubSeq(s, 1, n)
  <2>1. /\ SubSeq(t, 1, n) \in Seq(STRING) /\ Len(SubSeq(t, 1, n)) = n
        /\ \A i \in 1 .. n : SubSeq(t, 1, n)[i] = t[i]
    BY <1>3, CutIs, Zenon
  <2>2. /\ SubSeq(s, 1, n) \in Seq(STRING) /\ Len(SubSeq(s, 1, n)) = n
        /\ \A i \in 1 .. n : SubSeq(s, 1, n)[i] = s[i]
    BY <1>3, CutIs, Zenon
  <2>3. \A i \in 1 .. n : i \in 1 .. Len(s)
    BY <1>0, <1>3
  <2> QED
    BY <2>1, <2>2, <2>3, SameTexts, Zenon
<1>8. D!LeadingDigits(t) = D!LeadingDigits(s)
  BY <1>1, <1>2, <1>6, <1>7, Zenon
<1> QED
  BY <1>8, Zenon DEF D!atoi

(* No digits are the number 0.                                             *)
LEMMA NoDigits == D!atoi(<< >>) = 0
<1> DEFINE Value(f) == [k \in 0 .. Len(<< >>) |->
                          IF k = 0 THEN 0 ELSE 10 * f[k - 1] + D!Digits[<< >>[k]]]
           value == CHOOSE f : f = Value(f)
           zero == [k \in 0 .. Len(<< >>) |-> 0]
<1>0. << >> \in Seq(STRING) /\ Len(<< >>) = 0
  OBVIOUS
<1>1. D!LeadingDigits(<< >>) = << >>
  <2>1. PICK n : IsRun(<< >>, n) /\ D!LeadingDigits(<< >>) = SubSeq(<< >>, 1, n)
    BY <1>0, RunIs, Zenon
  <2>2. n = 0
    BY <1>0, <2>1 DEF IsRun
  <2>3. SubSeq(<< >>, 1, 0) = << >>
    BY SubSeqEmpty
  <2> QED
    BY <2>1, <2>2, <2>3, Zenon
<1>2. zero = Value(zero)
  BY <1>0
<1>3. D!atoi(<< >>) = value[Len(<< >>)]
  BY <1>1, Zenon DEF D!atoi
<1>4. value = Value(value)
  BY <1>2, Zenon
<1> HIDE DEF value
<1>5. value[0] = 0
  BY <1>0, <1>4
<1> QED
  BY <1>0, <1>3, <1>5

(* The beginning of a beginning, and its end.                              *)
LEMMA CutOfCut ==
    ASSUME NEW s \in Seq(STRING), NEW m \in 0 .. Len(s), NEW k \in 0 .. m
    PROVE  /\ SubSeq(SubSeq(s, 1, m), 1, k) = SubSeq(s, 1, k)
           /\ SubSeq(SubSeq(s, 1, m), k + 1, m) = SubSeq(s, k + 1, m)
<1> DEFINE u == SubSeq(s, 1, m)
           v == SubSeq(u, 1, k)
           w == SubSeq(u, k + 1, m)
           a == SubSeq(s, 1, k)
           b == SubSeq(s, k + 1, m)
<1>0. Len(s) \in Nat
  OBVIOUS
<1>1. u \in Seq(STRING) /\ Len(u) = m /\ \A i \in 1 .. m : u[i] = s[i]
  BY CutIs, Zenon
<1>2. k \in 0 .. Len(s) /\ k \in 0 .. m /\ m \in 0 .. m
  BY <1>0
<1>3. a \in Seq(STRING) /\ Len(a) = k /\ \A i \in 1 .. k : a[i] = s[i]
  BY <1>2, CutIs, Zenon
<1>4. b \in Seq(STRING) /\ Len(b) = m - k /\ \A i \in 1 .. m - k : b[i] = s[k + i]
  BY <1>2, RestIs, Zenon
<1> HIDE DEF u, a, b
<1>5. v \in Seq(STRING) /\ Len(v) = k /\ \A i \in 1 .. k : v[i] = u[i]
  BY <1>1, <1>2, CutIs, Zenon
<1>6. w \in Seq(STRING) /\ Len(w) = m - k /\ \A i \in 1 .. m - k : w[i] = u[k + i]
  BY <1>1, <1>2, RestIs, Zenon
<1> HIDE DEF v, w
<1>7. \A i \in 1 .. k : i \in 1 .. m
  OBVIOUS
<1>8. \A i \in 1 .. m - k : k + i \in 1 .. m
  OBVIOUS
<1>9. v = a
  BY <1>1, <1>3, <1>5, <1>7, SameTexts, Zenon
<1>10. w = b
  BY <1>1, <1>4, <1>6, <1>8, SameTexts, Zenon
<1> QED
  BY <1>9, <1>10, Zenon DEF u, v, w, a, b

(* The first c of the beginning.                                           *)
LEMMA PositionInCut ==
    ASSUME NEW c, NEW s \in Seq(STRING), NEW m \in 0 .. Len(s), NEW i, IsPosition(c, s, i)
    PROVE  D!Position(c, SubSeq(s, 1, m)) = IF i <= m THEN i ELSE m + 1
<1> DEFINE u == SubSeq(s, 1, m)
           k == IF i <= m THEN i ELSE m + 1
<1>0. Len(s) \in Nat /\ m \in Nat
  OBVIOUS
<1>1. Len(u) = m /\ \A j \in 1 .. m : u[j] = s[j]
  BY CutIs, Zenon
<1> HIDE DEF u
<1>2. /\ i \in 1 .. Len(s) + 1
      /\ i <= Len(s) => s[i] = c
      /\ \A j \in 1 .. i - 1 : s[j] # c
  BY DEF IsPosition
<1>3. CASE i <= m
  <2>1. i \in 1 .. m + 1 /\ i <= Len(s) /\ i \in 1 .. m /\ \A j \in 1 .. i - 1 : j \in 1 .. m
    BY <1>0, <1>2, <1>3
  <2>2. IsPosition(c, u, i)
    BY <1>1, <1>2, <2>1, Zenon DEF IsPosition
  <2> QED
    BY <1>0, <1>1, <1>3, <2>2, PositionIs, PositionOne, Zenon DEF u
<1>4. CASE ~ (i <= m)
  <2>1. /\ m + 1 \in 1 .. m + 1 /\ ~ (m + 1 <= m)
        /\ \A j \in 1 .. (m + 1) - 1 : j \in 1 .. m /\ j \in 1 .. i - 1
    BY <1>0, <1>2, <1>4
  <2>2. IsPosition(c, u, m + 1)
    BY <1>1, <1>2, <2>1, Zenon DEF IsPosition
  <2>3. IsPosition(c, u, D!Position(c, u))
    BY <1>0, <1>1, PositionIs, Zenon
  <2>4. D!Position(c, u) = m + 1
    BY <1>0, <1>1, <2>2, <2>3, PositionOne, Zenon
  <2> QED
    BY <1>4, <2>4, Zenon DEF u
<1> QED
  BY <1>3, <1>4, Zenon

(* What a text has before its first c.                                     *)
LEMMA BeforeIs ==
    ASSUME NEW c, NEW s \in Seq(STRING), NEW i, IsPosition(c, s, i)
    PROVE  /\ i \in 1 .. Len(s) + 1
           /\ D!Position(c, s) = i
           /\ D!Before(c, s) = SubSeq(s, 1, i - 1)
           /\ Len(D!Before(c, s)) = i - 1
<1>0. Len(s) \in Nat
  OBVIOUS
<1>1. D!Position(c, s) = i
  BY <1>0, PositionIs, PositionOne, Zenon
<1>2. i \in 1 .. Len(s) + 1
  BY DEF IsPosition
<1>3. i - 1 \in 0 .. Len(s)
  BY <1>0, <1>2
<1>4. Len(SubSeq(s, 1, i - 1)) = i - 1
  BY <1>3, CutIs, Zenon
<1> QED
  BY <1>1, <1>2, <1>4, Zenon DEF D!Before

-----------------------------------------------------------------------------
(* The host and the port that get_cloudcfg finds in a line that has a      *)
(* newline at its end, or a colon.                                         *)
LEMMA LineRead ==
    ASSUME NEW line \in Seq(STRING), Len(line) > 0,
           \A i \in 1 .. Len(line) - 1 : line[i] # "\n",
           D!Before("\n", line) # line
             \/ D!Before(":", D!Before("\n", line)) # D!Before("\n", line)
    PROVE  LET text == D!Before("\n", line)
               host == D!Before(":", text)
           IN  /\ D!HostOf(line) = host
               /\ D!PortOf(line) = D!atoi(SubSeq(text, Len(host) + 2, Len(text)))
<1> DEFINE n == Len(line)
           text == D!Before("\n", line)
           host == D!Before(":", text)
           port == SubSeq(text, Len(host) + 2, Len(text))
           u == SubSeq(line, 1, n - 1)
           i == D!Position(":", line)
<1>0. n \in Nat /\ n > 0 /\ n - 1 \in 0 .. n /\ n \in 0 .. n
  OBVIOUS
<1>1. IsPosition(":", line, i)
  BY <1>0, PositionIs, Zenon
<1>2. i \in 1 .. n + 1
  BY <1>1 DEF IsPosition
<1>3. D!Colon(line) = IF i <= n - 1 THEN i ELSE n
  <2>1. (n - 1) + 1 = n
    BY <1>0
  <2>2. D!Position(":", u) = IF i <= n - 1 THEN i ELSE (n - 1) + 1
    BY <1>0, <1>1, PositionInCut, Zenon
  <2> QED
    BY <2>1, <2>2, Zenon DEF D!Colon
<1> HIDE DEF i
<1>4. CASE line[n] = "\n"
  <2>1. IsPosition("\n", line, n)
    <3>1. n \in 1 .. n + 1
      BY <1>0
    <3> QED
      BY <1>4, <3>1, Zenon DEF IsPosition
  <2>2. text = u
    BY <2>1, BeforeIs, Zenon
  <2>3. u \in Seq(STRING) /\ Len(u) = n - 1
    BY <1>0, CutIs, Zenon
  <2> DEFINE k == IF i <= n - 1 THEN i ELSE n
  <2>4. IsPosition(":", u, k)
    <3>1. Len(u) \in Nat /\ (n - 1) + 1 = n
      BY <1>0, <2>3
    <3>2. D!Position(":", u) = k
      BY <1>0, <1>1, <3>1, PositionInCut, Zenon
    <3> HIDE DEF u, k
    <3> QED
      BY <3>1, <3>2, PositionIs, Zenon
  <2>5. k \in 1 .. n /\ k - 1 \in 0 .. n - 1
    BY <1>0, <1>2
  <2>6. D!Before(":", u) = SubSeq(u, 1, k - 1) /\ Len(D!Before(":", u)) = k - 1
    <3> HIDE DEF k, u
    <3> QED
      BY <2>3, <2>4, BeforeIs, Zenon
  <2> HIDE DEF k
  <2>7. SubSeq(u, 1, k - 1) = SubSeq(line, 1, k - 1)
    BY <1>0, <2>5, CutOfCut, Zenon
  <2>8. D!HostOf(line) = SubSeq(line, 1, k - 1)
    BY <1>3, Zenon DEF D!HostOf, k
  <2>9. port = SubSeq(u, k + 1, n - 1)
    <3>1. (k - 1) + 2 = k + 1
      BY <2>5
    <3> HIDE DEF u
    <3> QED
      BY <2>2, <2>3, <2>6, <3>1, Zenon
  <2>10. CASE k = n
    <3>1. SubSeq(u, k + 1, n - 1) = << >>
      BY <1>0, <2>10, SubSeqEmpty
    <3>2. D!PortOf(line) = 0
      <4>1. ~ (D!Colon(line) < n)
        BY <1>0, <1>3, <2>10 DEF k
      <4> QED
        BY <4>1, Zenon DEF D!PortOf
    <3> QED
      BY <2>2, <2>6, <2>7, <2>8, <2>9, <3>1, <3>2, NoDigits, Zenon
  <2>11. CASE k # n
    <3> DEFINE rest == SubSeq(line, k + 1, n)
               short == SubSeq(line, k + 1, n - 1)
    <3>1. /\ k \in 0 .. n - 1 /\ k \in 0 .. n /\ k < n
          /\ n - k = ((n - 1) - k) + 1 /\ k + (((n - 1) - k) + 1) = n
          /\ \A j \in 1 .. (n - 1) - k : j \in 1 .. n - k
          /\ ((n - 1) - k) + 1 \in 1 .. n - k
      BY <1>0, <2>5, <2>11
    <3>2. SubSeq(u, k + 1, n - 1) = short
      BY <1>0, <3>1, CutOfCut, Zenon
    <3>3. /\ rest \in Seq(STRING) /\ Len(rest) = n - k
          /\ \A j \in 1 .. n - k : rest[j] = line[k + j]
      BY <1>0, <3>1, RestIs, Zenon
    <3>4. /\ short \in Seq(STRING) /\ Len(short) = (n - 1) - k
          /\ \A j \in 1 .. (n - 1) - k : short[j] = line[k + j]
      BY <1>0, <3>1, RestIs, Zenon
    <3>5. D!PortOf(line) = D!atoi(rest)
      <4>1. D!Colon(line) = k
        BY <1>3, Zenon DEF k
      <4> QED
        BY <3>1, <4>1, Zenon DEF D!PortOf
    <3> HIDE DEF rest, short
    <3>6. D!atoi(rest) = D!atoi(short)
      <4>1. Len(rest) = Len(short) + 1
        BY <3>1, <3>3, <3>4, Zenon
      <4>2. \A j \in 1 .. Len(short) : rest[j] = short[j]
        BY <3>1, <3>3, <3>4, Zenon
      <4>3. rest[Len(short) + 1] = "\n"
        BY <1>4, <3>1, <3>3, <3>4, Zenon
      <4> QED
        BY <3>3, <3>4, <4>1, <4>2, <4>3, NewlineNoDigit, Zenon
    <3> QED
      BY <2>2, <2>6, <2>7, <2>8, <2>9, <3>2, <3>5, <3>6, Zenon
  <2> QED
    BY <2>10, <2>11, Zenon
<1>5. CASE line[n] # "\n"
  <2>1. IsPosition("\n", line, n + 1)
    <3>1. /\ n + 1 \in 1 .. n + 1 /\ ~ (n + 1 <= n)
          /\ \A j \in 1 .. (n + 1) - 1 : j = n \/ j \in 1 .. n - 1
      BY <1>0
    <3> QED
      BY <1>5, <3>1, Zenon DEF IsPosition
  <2>2. text = line
    <3>1. (n + 1) - 1 = n
      BY <1>0
    <3>2. text = SubSeq(line, 1, (n + 1) - 1)
      BY <2>1, BeforeIs, Zenon
    <3>3. SubSeq(line, 1, n) = line
      BY SubSeqFull
    <3> QED
      BY <3>1, <3>2, <3>3, Zenon
  <2>3. D!Before(":", line) = SubSeq(line, 1, i - 1) /\ Len(D!Before(":", line)) = i - 1
    BY <1>1, BeforeIs, Zenon
  <2>4. i # n + 1
    <3>1. i = n + 1 => i - 1 = n
      BY <1>0
    <3> QED
      BY <2>2, <2>3, <3>1, SubSeqFull, Zenon
  <2>5. i \in 1 .. n /\ D!Colon(line) = i
    BY <1>0, <1>2, <1>3, <2>4
  <2>6. D!HostOf(line) = host
    BY <2>2, <2>3, <2>5, Zenon DEF D!HostOf
  <2>7. port = SubSeq(line, i + 1, n)
    <3>1. (i - 1) + 2 = i + 1
      BY <2>5
    <3> QED
      BY <2>2, <2>3, <3>1, Zenon
  <2>8. CASE i = n
    <3>1. SubSeq(line, i + 1, n) = << >>
      BY <1>0, <2>8, SubSeqEmpty
    <3>2. ~ (D!Colon(line) < n)
      BY <1>0, <2>5, <2>8
    <3>3. D!PortOf(line) = 0
      BY <3>2, Zenon DEF D!PortOf
    <3> QED
      BY <2>6, <2>7, <3>1, <3>3, NoDigits, Zenon
  <2>9. CASE i # n
    <3>1. D!Colon(line) < n
      BY <1>0, <2>5, <2>9
    <3>2. D!PortOf(line) = D!atoi(SubSeq(line, i + 1, n))
      BY <2>5, <3>1, Zenon DEF D!PortOf
    <3> QED
      BY <2>6, <2>7, <3>2, Zenon
  <2> QED
    BY <2>8, <2>9, Zenon
<1> QED
  BY <1>4, <1>5, Zenon

(* The server for every line.                                              *)
LEMMA ServerIs ==
    ASSUME NEW line
    PROVE  D!Server(line) =
             IF line = D!Missing \/ Len(line) = 0 \/ Len(line) > D!HostSize
             THEN [host |-> D!WEB_HOST, port |-> 443]
             ELSE [host |-> D!HostOf(line),
                   port |-> IF D!PortOf(line) = 0 THEN 443 ELSE D!PortOf(line)]
<1> DEFINE cfg == D!get_cloudcfg(line, D!HostSize)
           fails == line = D!Missing \/ Len(line) = 0 \/ Len(line) > D!HostSize
<1>1. ~ (D!HostSize < 16)
  BY DEF D!HostSize
<1>2. cfg = IF fails THEN [rc |-> -1, host |-> << >>, port |-> 0]
                     ELSE [rc |-> 0, host |-> D!HostOf(line), port |-> D!PortOf(line)]
  BY <1>1, Zenon DEF D!get_cloudcfg
<1>3. D!Server(line) = [host |-> IF cfg.rc # 0 THEN D!WEB_HOST ELSE cfg.host,
                        port |-> IF cfg.port = 0 THEN 443 ELSE cfg.port]
  BY Zenon DEF D!Server
<1> HIDE DEF cfg, fails
<1>4. CASE fails
  <2>1. cfg.rc # 0 /\ cfg.port = 0
    BY <1>2, <1>4
  <2> QED
    BY <1>3, <1>4, <2>1, Zenon DEF fails
<1>5. CASE ~ fails
  <2>1. cfg.rc = 0 /\ cfg.host = D!HostOf(line) /\ cfg.port = D!PortOf(line)
    BY <1>2, <1>5
  <2>2. (IF cfg.rc # 0 THEN D!WEB_HOST ELSE cfg.host) = D!HostOf(line)
    BY <2>1, Zenon
  <2>3. D!Server(line) = [host |-> D!HostOf(line),
                         port |-> IF D!PortOf(line) = 0 THEN 443 ELSE D!PortOf(line)]
    <3>1. (IF cfg.port = 0 THEN 443 ELSE cfg.port)
          = IF D!PortOf(line) = 0 THEN 443 ELSE D!PortOf(line)
      BY <2>1, Zenon
    <3> QED
      BY <1>3, <2>2, <3>1
  <2> QED
    BY <1>5, <2>3, Zenon DEF fails
<1> QED
  BY <1>4, <1>5, Zenon

ConfigCall(line) == [fcn |-> "config", line |-> line, server |-> D!Server(line)]

ConfigInv ==
    call.fcn = "config" => \E line \in Lines : call = ConfigCall(line)

(* What is known of a server is what main finds in the line.               *)
LEMMA ConfigInvInit == CodingsInit => ConfigInv
  BY DEF CodingsInit, ConfigInv, None

(* No call changes it.                                                     *)
LEMMA ConfigInvStep == ConfigInv /\ [CodingsNext]_callVars => ConfigInv'
<1> SUFFICES ASSUME ConfigInv, [CodingsNext]_callVars PROVE ConfigInv'
  OBVIOUS
<1>1. CASE ReadConfig
  <2>1. \E line \in Lines : call' = ConfigCall(line)
    BY <1>1, Zenon DEF ReadConfig, ConfigCall
  <2> QED
    BY <2>1, Zenon DEF ConfigInv
<1>2. CASE SetBytes
  <2>1. call'.fcn = "message"
    BY <1>2, SMT DEF SetBytes
  <2> QED
    BY <2>1 DEF ConfigInv
<1>3. CASE ChangeChar
  <2>1. call.fcn = "message" /\ \E u : call' = [call EXCEPT !.text = u]
    BY <1>3, Zenon DEF ChangeChar
  <2>2. call'.fcn # "config"
    BY <2>1
  <2> QED
    BY <2>2 DEF ConfigInv
<1>4. CASE FlipBit
  <2>1. call.fcn = "message" /\ \E u : call' = [call EXCEPT !.text = u]
    BY <1>4, Zenon DEF FlipBit
  <2>2. call'.fcn # "config"
    BY <2>1
  <2> QED
    BY <2>2 DEF ConfigInv
<1>5. CASE SerialNum
  <2>1. call'.fcn = "serialnum"
    BY <1>5, SMT DEF SerialNum
  <2> QED
    BY <2>1 DEF ConfigInv
<1>6. CASE ListAddresses
  <2>1. call'.fcn = "addresses"
    BY <1>6, SMT DEF ListAddresses
  <2> QED
    BY <2>1 DEF ConfigInv
<1>7. CASE OpenLine
  <2>1. call'.fcn = "line"
    BY <1>7, SMT DEF OpenLine
  <2> QED
    BY <2>1 DEF ConfigInv
<1>8. CASE UNCHANGED callVars
  BY <1>8, Zenon DEF callVars, ConfigInv
<1> QED
  BY <1>1, <1>2, <1>3, <1>4, <1>5, <1>6, <1>7, <1>8 DEF CodingsNext

(* It is the server the line names.                                        *)
LEMMA ConfigInvImplies == ConfigInv => ServerAsConfigured
<1> DEFINE Fails(line) == line = D!Missing \/ Len(line) = 0 \/ Len(line) > D!HostSize
           text(line) == D!Before("\n", line)
           host(line) == D!Before(":", text(line))
           port(line) == SubSeq(text(line), Len(host(line)) + 2, Len(text(line)))
           Named(line, server) ==
             IF Fails(line) THEN server = [host |-> D!WEB_HOST, port |-> 443]
             ELSE text(line) # line \/ host(line) # text(line) =>
                    /\ server.host = host(line)
                    /\ server.port = IF D!atoi(port(line)) = 0 THEN 443 ELSE D!atoi(port(line))
<1>1. ASSUME NEW line \in Lines
      PROVE  Named(line, D!Server(line))
  <2>1. /\ line \in Seq(STRING)
        /\ \A i \in 1 .. Len(line) - 1 : line[i] # "\n"
    BY CodingsAssumption, Zenon DEF CodingsAssumption
  <2>2. CASE Fails(line)
    BY <2>2, ServerIs, Zenon
  <2>3. CASE ~ Fails(line) /\ (text(line) # line \/ host(line) # text(line))
    <3>1. Len(line) > 0
      <4>1. Len(line) \in Nat
        BY <2>1
      <4>2. Len(line) # 0
        BY <2>3, Zenon
      <4> QED
        BY <4>1, <4>2
    <3>2. D!HostOf(line) = host(line) /\ D!PortOf(line) = D!atoi(port(line))
      BY <2>1, <2>3, <3>1, LineRead, Zenon
    <3> DEFINE p == IF D!PortOf(line) = 0 THEN 443 ELSE D!PortOf(line)
    <3>3. D!Server(line) = [host |-> D!HostOf(line), port |-> p]
      BY <2>3, ServerIs, Zenon
    <3> HIDE DEF p
    <3>4. D!Server(line).host = D!HostOf(line) /\ D!Server(line).port = p
      BY ONLY <3>3
    <3> QED
      BY <2>3, <3>2, <3>4, Zenon DEF p
  <2> QED
    BY <2>2, <2>3, Zenon
<1>2. ASSUME ConfigInv, call.fcn = "config"
      PROVE  Named(call.line, call.server)
  <2>1. PICK line \in Lines : call = ConfigCall(line)
    BY <1>2, Zenon DEF ConfigInv
  <2>2. call.line = line /\ call.server = D!Server(line)
    BY <2>1 DEF ConfigCall
  <2> HIDE DEF Named
  <2> QED
    BY <1>1, <2>2, Zenon
<1> QED
  BY <1>2, Zenon DEF ServerAsConfigured

(* For every first line with a newline nowhere but at its end, main finds  *)
(* the server it names, or the built-in one.                               *)
THEOREM ServerAsConfiguredHolds == CodingsSpec => []ServerAsConfigured
  BY ConfigInvInit, ConfigInvStep, ConfigInvImplies, PTL DEF CodingsSpec

(* An interface that getifaddrs lists, and the state of the loop over them. *)
Ifa == [len : 7 .. 15, inet : BOOLEAN, loopback : BOOLEAN, up : BOOLEAN, running : BOOLEAN]
LoopState == [ips : Seq(Ifa), len : Nat, full : BOOLEAN]
LoopStart == [ips |-> << >>, len |-> 0, full |-> FALSE]

(* The length of a list of addresses, step by step.                        *)
Delim(k) == IF k > 1 THEN D!DelimLen ELSE 0
LengthsOf(ips, u) ==
    u[0] = 0 /\ \A k \in 1 .. Len(ips) : u[k] = u[k - 1] + ips[k].len + Delim(k)

(* They end in the length of the list.                                     *)
LEMMA TextLenIs ==
    ASSUME NEW ips \in Seq(Ifa)
    PROVE  \E u : LengthsOf(ips, u) /\ TextLen(ips) = u[Len(ips)]
<1> DEFINE n == Len(ips)
           step == [k \in 1 .. n |-> [x \in Nat |-> x + ips[k].len + Delim(k)]]
           Body(f) == [k \in 0 .. n |-> IF k = 0 THEN 0 ELSE f[k - 1] + ips[k].len + Delim(k)]
           u == CHOOSE f : f = Body(f)
<1>0. n \in Nat
  OBVIOUS
<1>1. \A k \in 1 .. n : ips[k].len \in Nat
  <2> TAKE k \in 1 .. n
  <2>1. ips[k] \in Ifa
    OBVIOUS
  <2> QED
    BY <2>1 DEF Ifa
<1>2. \A k \in 1 .. n : Delim(k) \in Nat
  BY DEF Delim, D!DelimLen
<1> HIDE DEF n
<1>3. step \in [1 .. n -> [Nat -> Nat]]
  <2>1. \A k \in 1 .. n : \A x \in Nat : x + ips[k].len + Delim(k) \in Nat
    BY <1>1, <1>2
  <2> QED
    BY <2>1, Zenon
<1>4. PICK g \in [0 .. n -> Nat] : g[0] = 0 /\ \A k \in 1 .. n : g[k] = step[k][g[k - 1]]
  <2>1. 0 \in Nat
    OBVIOUS
  <2> HIDE DEF step
  <2>2. \E g \in [0 .. n -> Nat] : IsWalk(n, 0, step, g)
    BY <1>0, <1>3, <2>1, WalkExists, Zenon
  <2> QED
    BY <2>2, Zenon DEF IsWalk
<1>5. g = Body(g)
  <2>1. ASSUME NEW k \in 0 .. n
        PROVE  g[k] = IF k = 0 THEN 0 ELSE g[k - 1] + ips[k].len + Delim(k)
    <3>1. CASE k = 0
      BY <1>4, <3>1, Zenon
    <3>2. CASE k # 0
      <4>1. k \in 1 .. n /\ k - 1 \in 0 .. n
        BY <1>0, <3>2
      <4>2. g[k - 1] \in Nat
        BY <4>1, Zenon
      <4>3. g[k] = step[k][g[k - 1]]
        BY <1>4, <4>1, Zenon
      <4> QED
        BY <3>2, <4>1, <4>2, <4>3, Zenon
    <3> QED
      BY <3>1, <3>2, Zenon
  <2>2. g = [k \in 0 .. n |-> g[k]]
    OBVIOUS
  <2> QED
    BY <2>1, <2>2, Zenon
<1>6. u = Body(u)
  BY <1>5, Zenon
<1>7. TextLen(ips) = u[n]
  BY Zenon DEF TextLen, Delim, n
<1> HIDE DEF u
<1>8. u[0] = 0
  <2>1. 0 \in 0 .. n
    BY <1>0
  <2> QED
    BY <1>6, <2>1, Zenon
<1>9. ASSUME NEW k \in 1 .. n
      PROVE  u[k] = u[k - 1] + ips[k].len + Delim(k)
  <2>1. k \in 0 .. n /\ k # 0
    BY <1>0
  <2> QED
    BY <1>6, <2>1, Zenon
<1> QED
  BY <1>7, <1>8, <1>9, Zenon DEF LengthsOf, n

(* A list without addresses has no characters.                             *)
LEMMA TextLenEmpty == TextLen(<< >>) = 0
<1>1. << >> \in Seq(Ifa) /\ Len(<< >>) = 0
  OBVIOUS
<1> QED
  BY <1>1, TextLenIs, Zenon DEF LengthsOf

(* One address more.                                                       *)
LEMMA TextLenAppend ==
    ASSUME NEW ips \in Seq(Ifa), NEW ifa \in Ifa
    PROVE  TextLen(Append(ips, ifa)) = TextLen(ips) + ifa.len + Delim(Len(ips) + 1)
<1> DEFINE n == Len(ips)
           h == Append(ips, ifa)
<1>1. /\ n \in Nat /\ h \in Seq(Ifa) /\ Len(h) = n + 1 /\ h[n + 1] = ifa
      /\ \A k \in 1 .. n : h[k] = ips[k]
  OBVIOUS
<1> HIDE DEF h
<1>2. PICK u : LengthsOf(ips, u) /\ TextLen(ips) = u[n]
  BY TextLenIs, Zenon
<1>3. PICK v : LengthsOf(h, v) /\ TextLen(h) = v[n + 1]
  BY <1>1, TextLenIs, Zenon
<1> HIDE DEF n
<1>4. \A k \in 1 .. n : k \in 1 .. n + 1
  BY <1>1
<1> DEFINE T == {k \in 0 .. n : v[k] = u[k]}
<1>5. 0 \in T
  <2>1. 0 \in 0 .. n
    BY <1>1
  <2> QED
    BY <1>2, <1>3, <2>1, Zenon DEF LengthsOf
<1>6. ASSUME NEW k \in 1 .. n, k - 1 \in T
      PROVE  k \in T
  <2>1. k \in 0 .. n
    BY <1>1
  <2>2. u[k] = u[k - 1] + ips[k].len + Delim(k)
    BY <1>2, Zenon DEF LengthsOf, n
  <2>3. v[k] = v[k - 1] + h[k].len + Delim(k)
    BY <1>1, <1>3, <1>4, Zenon DEF LengthsOf
  <2>4. v[k - 1] = u[k - 1]
    BY <1>6, Zenon
  <2> QED
    BY <1>1, <2>1, <2>2, <2>3, <2>4, Zenon
<1> HIDE DEF T
<1>7. \A k \in 0 .. n : k \in T
  BY <1>1, <1>5, <1>6, UpTo, Zenon
<1>8. n \in 0 .. n /\ n + 1 \in 1 .. n + 1 /\ (n + 1) - 1 = n
  BY <1>1
<1>9. v[n] = u[n]
  BY <1>7, <1>8, Zenon DEF T
<1>10. v[n + 1] = v[n] + ifa.len + Delim(n + 1)
  BY <1>1, <1>3, <1>8, Zenon DEF LengthsOf
<1> QED
  BY <1>2, <1>3, <1>9, <1>10, Zenon DEF h, n

-----------------------------------------------------------------------------
(* One interface more.                                                     *)
LEMMA ReachableNext ==
    ASSUME NEW ifs, NEW k \in Nat \ {0}
    PROVE  Reachable(ifs, k) = IF D!Counts(ifs[k]) THEN Reachable(ifs, k - 1) \cup {k}
                                                   ELSE Reachable(ifs, k - 1)
<1>1. \A i : i \in 1 .. k <=> (i \in 1 .. k - 1 \/ i = k)
  OBVIOUS
<1> QED
  BY <1>1, Zenon DEF Reachable

(* The interfaces the router can be reached at can be counted ...          *)
LEMMA ReachableFinite ==
    ASSUME NEW ifs, NEW k \in Nat
    PROVE  /\ IsFiniteSet(Reachable(ifs, k))
           /\ Cardinality(Reachable(ifs, k)) \in Nat
           /\ Cardinality(Reachable(ifs, k)) = 0 <=> Reachable(ifs, k) = {}
<1>1. IsFiniteSet(1 .. k)
  BY FS_Interval
<1>2. Reachable(ifs, k) \subseteq 1 .. k
  BY DEF Reachable
<1>3. IsFiniteSet(Reachable(ifs, k))
  BY <1>1, <1>2, FS_Subset
<1> QED
  BY <1>3, FS_CardinalityType, FS_EmptySet

(* ... and one more adds one.                                              *)
LEMMA ReachableCount ==
    ASSUME NEW ifs, NEW k \in Nat \ {0}, D!Counts(ifs[k])
    PROVE  Cardinality(Reachable(ifs, k)) = Cardinality(Reachable(ifs, k - 1)) + 1
<1>1. k - 1 \in Nat
  OBVIOUS
<1>2. IsFiniteSet(Reachable(ifs, k - 1))
  BY <1>1, ReachableFinite, Zenon
<1>3. k \notin Reachable(ifs, k - 1)
  BY DEF Reachable
<1>4. Reachable(ifs, k) = Reachable(ifs, k - 1) \cup {k}
  BY ReachableNext, Zenon
<1> QED
  BY <1>2, <1>3, <1>4, FS_AddElement

(* A state with another field, or two.                                     *)
LEMMA OtherField ==
    ASSUME NEW x \in LoopState, NEW d
    PROVE  /\ [x EXCEPT !.ips = d] = [ips |-> d, len |-> x.len, full |-> x.full]
           /\ [x EXCEPT !.len = d] = [ips |-> x.ips, len |-> d, full |-> x.full]
           /\ [x EXCEPT !.full = d] = [ips |-> x.ips, len |-> x.len, full |-> d]
  BY DEF LoopState

(* Two fields at once.                                                     *)
LEMMA OtherFields ==
    ASSUME NEW x \in LoopState, NEW d \in Seq(Ifa), NEW e
    PROVE  [x EXCEPT !.ips = d, !.len = e] = [ips |-> d, len |-> e, full |-> x.full]
<1>1. [x EXCEPT !.ips = d, !.len = e] = [[x EXCEPT !.ips = d] EXCEPT !.len = e]
  BY DEF LoopState
<1> DEFINE y == [ips |-> d, len |-> x.len, full |-> x.full]
<1>2. [x EXCEPT !.ips = d] = y
  BY OtherField
<1>3. y \in LoopState /\ y.ips = d /\ y.full = x.full
  BY DEF LoopState
<1> HIDE DEF y
<1>4. [y EXCEPT !.len = e] = [ips |-> y.ips, len |-> e, full |-> y.full]
  BY <1>3, OtherField
<1> QED
  BY <1>1, <1>2, <1>3, <1>4, Zenon

(* What an interface does to the loop.                                     *)
LEMMA AddIs ==
    ASSUME NEW x \in LoopState, NEW ifa \in Ifa, NEW room \in Nat
    PROVE  /\ D!AddAddress(x, ifa, room) \in LoopState
           /\ ~ D!Counts(ifa) \/ x.full => D!AddAddress(x, ifa, room) = x
           /\ D!Counts(ifa) /\ ~ x.full /\ ~ D!Fits(x.len, ifa.len, room) =>
                 D!AddAddress(x, ifa, room) = [ips |-> x.ips, len |-> x.len, full |-> TRUE]
           /\ D!Counts(ifa) /\ ~ x.full /\ D!Fits(x.len, ifa.len, room) =>
                 D!AddAddress(x, ifa, room)
                 = [ips |-> Append(x.ips, ifa),
                    len |-> x.len + ifa.len + (IF x.len > 0 THEN D!DelimLen ELSE 0),
                    full |-> x.full]
<1>1. /\ x.ips \in Seq(Ifa) /\ x.len \in Nat /\ x.full \in BOOLEAN
      /\ x = [ips |-> x.ips, len |-> x.len, full |-> x.full]
  BY DEF LoopState
<1>2. ifa.len \in Nat
  BY DEF Ifa
<1> DEFINE y == D!AddAddress(x, ifa, room)
           more == x.len + ifa.len + (IF x.len > 0 THEN D!DelimLen ELSE 0)
           counts == D!Counts(ifa)
           fits == D!Fits(x.len, ifa.len, room)
<1>3. y = CASE ~ counts \/ x.full -> x
            [] counts /\ ~ x.full /\ ~ fits -> [x EXCEPT !.full = TRUE]
            [] OTHER -> [x EXCEPT !.ips = Append(x.ips, ifa), !.len = more]
  BY Zenon DEF D!AddAddress
<1>4. more \in Nat /\ Append(x.ips, ifa) \in Seq(Ifa)
  <2>1. D!DelimLen \in Nat
    BY DEF D!DelimLen
  <2> QED
    BY <1>1, <1>2, <2>1
<1> HIDE DEF y, more, counts, fits
<1>5. [x EXCEPT !.full = TRUE] = [ips |-> x.ips, len |-> x.len, full |-> TRUE]
  BY OtherField, Zenon
<1>6. [x EXCEPT !.ips = Append(x.ips, ifa), !.len = more]
      = [ips |-> Append(x.ips, ifa), len |-> more, full |-> x.full]
  BY <1>4, OtherFields, Zenon
<1>7. CASE ~ counts \/ x.full
  <2>1. y = x
    BY <1>3, <1>7, Zenon
  <2> QED
    BY <1>7, <2>1, Zenon DEF y, counts
<1>8. CASE counts /\ ~ x.full /\ ~ fits
  <2>1. y = [ips |-> x.ips, len |-> x.len, full |-> TRUE]
    BY <1>3, <1>5, <1>8, Zenon
  <2>2. y \in LoopState
    BY <1>1, <2>1 DEF LoopState
  <2> QED
    BY <1>8, <2>1, <2>2, Zenon DEF y, counts, fits
<1>9. CASE counts /\ ~ x.full /\ fits
  <2>1. y = [ips |-> Append(x.ips, ifa), len |-> more, full |-> x.full]
    BY <1>3, <1>6, <1>9, Zenon
  <2>2. y \in LoopState
    BY <1>1, <1>4, <2>1 DEF LoopState
  <2> QED
    BY <1>9, <2>1, <2>2, Zenon DEF y, counts, fits, more
<1> QED
  BY <1>7, <1>8, <1>9, Zenon

(* The states of the loop, one for each interface.                         *)
Loop(ifs, room, f) ==
    /\ f \in [0 .. Len(ifs) -> LoopState]
    /\ f[0] = LoopStart
    /\ \A k \in 1 .. Len(ifs) : f[k] = D!AddAddress(f[k - 1], ifs[k], room)

(* get_ipv4_addresses returns what the last of them holds.                 *)
LEMMA LoopIs ==
    ASSUME NEW ifs \in Seq(Ifa), NEW room \in Nat
    PROVE  \E f : /\ Loop(ifs, room, f)
                  /\ D!get_ipv4_addresses(ifs, room)
                     = [rc  |-> IF f[Len(ifs)].len < 7 THEN -1 ELSE 0,
                        ips |-> f[Len(ifs)].ips, len |-> f[Len(ifs)].len]
<1> DEFINE n == Len(ifs)
           step == [k \in 1 .. n |-> [x \in LoopState |-> D!AddAddress(x, ifs[k], room)]]
           Body(h) == [k \in 0 .. n |-> IF k = 0 THEN [ips |-> << >>, len |-> 0, full |-> FALSE]
                                                 ELSE D!AddAddress(h[k - 1], ifs[k], room)]
           f == CHOOSE h : h = Body(h)
<1>0. n \in Nat /\ \A k \in 1 .. n : ifs[k] \in Ifa
  OBVIOUS
<1>1. LoopStart \in LoopState
  BY DEF LoopStart, LoopState
<1>2. D!get_ipv4_addresses(ifs, room)
      = [rc |-> IF f[n].len < 7 THEN -1 ELSE 0, ips |-> f[n].ips, len |-> f[n].len]
  BY Zenon DEF D!get_ipv4_addresses
<1> HIDE DEF n
<1>3. step \in [1 .. n -> [LoopState -> LoopState]]
  <2>1. \A k \in 1 .. n : \A x \in LoopState : D!AddAddress(x, ifs[k], room) \in LoopState
    BY <1>0, AddIs, Zenon
  <2> QED
    BY <2>1, Zenon
<1>4. PICK g \in [0 .. n -> LoopState] : IsWalk(n, LoopStart, step, g)
  <2> HIDE DEF step
  <2> QED
    BY <1>0, <1>1, <1>3, WalkExists, Zenon
<1>5. g = Body(g)
  <2>1. ASSUME NEW k \in 0 .. n
        PROVE  g[k] = IF k = 0 THEN LoopStart ELSE D!AddAddress(g[k - 1], ifs[k], room)
    <3>1. CASE k = 0
      BY <1>4, <3>1, Zenon DEF IsWalk
    <3>2. CASE k # 0
      <4>1. k \in 1 .. n /\ k - 1 \in 0 .. n
        BY <1>0, <3>2
      <4>2. g[k - 1] \in LoopState
        BY <4>1, Zenon
      <4>3. g[k] = step[k][g[k - 1]]
        BY <1>4, <4>1, Zenon DEF IsWalk
      <4> QED
        BY <3>2, <4>1, <4>2, <4>3, Zenon
    <3> QED
      BY <3>1, <3>2, Zenon
  <2>2. g = [k \in 0 .. n |-> g[k]]
    OBVIOUS
  <2> QED
    BY <2>1, <2>2, Zenon DEF LoopStart
<1>6. f = Body(f)
  BY <1>5, Zenon
<1> HIDE DEF f
<1>7. f[0] = LoopStart
  <2>1. 0 \in 0 .. n
    BY <1>0
  <2> QED
    BY <1>6, <2>1, Zenon DEF LoopStart
<1>8. ASSUME NEW k \in 1 .. n
      PROVE  f[k] = D!AddAddress(f[k - 1], ifs[k], room)
  <2>1. k \in 0 .. n /\ k # 0
    BY <1>0
  <2> QED
    BY <1>6, <2>1, Zenon
<1> DEFINE T == {k \in 0 .. n : f[k] \in LoopState}
<1>9. 0 \in T
  <2>1. 0 \in 0 .. n
    BY <1>0
  <2> QED
    BY <1>1, <1>7, <2>1, Zenon
<1>10. ASSUME NEW k \in 1 .. n, k - 1 \in T
       PROVE  k \in T
  <2>1. k \in 0 .. n
    BY <1>0
  <2>2. D!AddAddress(f[k - 1], ifs[k], room) \in LoopState
    BY <1>0, <1>10, AddIs, Zenon
  <2> QED
    BY <1>8, <2>1, <2>2, Zenon
<1> HIDE DEF T
<1>11. \A k \in 0 .. n : k \in T
  BY <1>0, <1>9, <1>10, UpTo, Zenon
<1>12. f \in [0 .. n -> LoopState]
  <2>1. \A k \in 0 .. n : f[k] \in LoopState
    BY <1>11, Zenon DEF T
  <2>2. f = [k \in 0 .. n |-> f[k]]
    <3> HIDE DEF Body
    <3>1. DOMAIN Body(f) = 0 .. n
      BY Zenon DEF Body
    <3>2. Body(f) = [k \in DOMAIN Body(f) |-> Body(f)[k]]
      BY Zenon DEF Body
    <3> QED
      BY <1>6, <3>1, <3>2, Zenon
  <2> QED
    BY <2>1, <2>2, Zenon
<1> QED
  BY <1>2, <1>7, <1>8, <1>12, Zenon DEF Loop, n

(* An address that does not fit is not the first.                          *)
LEMMA FirstFits ==
    ASSUME NEW a \in Nat, NEW b \in 7 .. 15, NEW room \in Nat, room >= 25,
           ~ (a + 9 + b + 1 <= room)
    PROVE  a > 0
  OBVIOUS

(* An address that passes the test leaves room for the NUL behind it.      *)
LEMMA LeavesRoom ==
    ASSUME NEW a \in Nat, NEW b \in 7 .. 15, NEW room \in Nat, a + 9 + b + 1 <= room
    PROVE  LET more == a + b + (IF a > 0 THEN 9 ELSE 0)
           IN  more \in Nat /\ 7 <= more /\ more < room
  OBVIOUS

(* What the loop has done with the interfaces seen: the addresses are      *)
(* those of the first m, and another one is only missing from a list that  *)
(* is full.                                                                *)
FirstOf(ifs, ips, m) ==
    /\ Len(ips) = Cardinality(Reachable(ifs, m))
    /\ \A i \in Reachable(ifs, m) : ips[Cardinality(Reachable(ifs, i))] = ifs[i]

Sized(x, room) ==
    /\ x.len = TextLen(x.ips)
    /\ x.len = 0 <=> Len(x.ips) = 0
    /\ x.len > 0 => 7 <= x.len /\ x.len < room
    /\ x.full => x.len > 0

Listed(ifs, room, k, x) ==
    /\ Sized(x, room)
    /\ \E m \in 0 .. k : (m = k \/ x.full) /\ FirstOf(ifs, x.ips, m)

(* It begins with nothing seen ...                                         *)
LEMMA ListedStart ==
    ASSUME NEW ifs, NEW room
    PROVE  Listed(ifs, room, 0, LoopStart)
<1>1. LoopStart.ips = << >> /\ LoopStart.len = 0 /\ LoopStart.full = FALSE /\ Len(<< >>) = 0
  BY DEF LoopStart
<1>2. Reachable(ifs, 0) = {}
  BY DEF Reachable
<1>3. Cardinality({}) = 0 /\ 0 \in 0 .. 0 /\ ~ (0 > 0)
  BY FS_EmptySet
<1>4. Sized(LoopStart, room)
  BY <1>1, <1>3, TextLenEmpty, Zenon DEF Sized
<1>5. FirstOf(ifs, << >>, 0)
  BY <1>1, <1>2, <1>3, Zenon DEF FirstOf
<1> QED
  BY <1>1, <1>3, <1>4, <1>5, Zenon DEF Listed

(* ... and each interface keeps it.                                        *)
LEMMA ListedStep ==
    ASSUME NEW ifs \in Seq(Ifa), NEW room \in Nat, room >= 25, NEW k \in 1 .. Len(ifs),
           NEW x \in LoopState, Listed(ifs, room, k - 1, x)
    PROVE  Listed(ifs, room, k, D!AddAddress(x, ifs[k], room))
<1> DEFINE y == D!AddAddress(x, ifs[k], room)
<1>0. /\ k \in Nat \ {0} /\ k - 1 \in Nat /\ ifs[k] \in Ifa
      /\ k \in 0 .. k /\ (\A m \in 0 .. k - 1 : m \in 0 .. k)
  OBVIOUS
<1>1. x.ips \in Seq(Ifa) /\ x.len \in Nat /\ Len(x.ips) \in Nat
  BY DEF LoopState
<1>2. ifs[k].len \in 7 .. 15
  BY <1>0 DEF Ifa
<1>3. PICK m \in 0 .. k - 1 : (m = k - 1 \/ x.full) /\ FirstOf(ifs, x.ips, m)
  BY Zenon DEF Listed
<1>4. Sized(x, room)
  BY Zenon DEF Listed
<1>9. D!Fits(x.len, ifs[k].len, room) <=> x.len + 9 + ifs[k].len + 1 <= room
  BY Zenon DEF D!Fits, D!DelimLen
<1>5. CASE x.full
  <2>1. y = x
    BY <1>0, <1>5, AddIs, Zenon
  <2> QED
    BY <1>0, <1>3, <1>4, <1>5, <2>1, Zenon DEF Listed
<1>6. CASE ~ x.full /\ ~ D!Counts(ifs[k])
  <2>1. y = x
    BY <1>0, <1>6, AddIs, Zenon
  <2>2. Reachable(ifs, k) = Reachable(ifs, k - 1)
    BY <1>0, <1>6, ReachableNext, Zenon
  <2>3. FirstOf(ifs, x.ips, k)
    BY <1>3, <1>6, <2>2, Zenon DEF FirstOf
  <2> QED
    BY <1>0, <1>4, <2>1, <2>3, Zenon DEF Listed
<1>7. CASE ~ x.full /\ D!Counts(ifs[k]) /\ ~ D!Fits(x.len, ifs[k].len, room)
  <2>1. y = [ips |-> x.ips, len |-> x.len, full |-> TRUE]
    BY <1>0, <1>7, AddIs, Zenon
  <2>2. y.ips = x.ips /\ y.len = x.len /\ y.full
    BY <2>1
  <2>3. x.len > 0
    <3>1. ~ (x.len + 9 + ifs[k].len + 1 <= room)
      BY <1>7, <1>9, Zenon
    <3> QED
      BY <1>1, <1>2, <3>1, FirstFits, Zenon
  <2> HIDE DEF y
  <2>4. Sized(y, room)
    BY <1>4, <2>2, <2>3, Zenon DEF Sized
  <2>5. m \in 0 .. k
    BY <1>0
  <2> QED
    BY <1>3, <2>2, <2>4, <2>5, Zenon DEF Listed, y
<1>8. CASE ~ x.full /\ D!Counts(ifs[k]) /\ D!Fits(x.len, ifs[k].len, room)
  <2> DEFINE h == Append(x.ips, ifs[k])
             more == x.len + ifs[k].len + (IF x.len > 0 THEN D!DelimLen ELSE 0)
             n == Len(x.ips)
  <2>1. y = [ips |-> h, len |-> more, full |-> x.full]
    BY <1>0, <1>8, AddIs, Zenon
  <2>2. /\ Len(h) = n + 1 /\ h[n + 1] = ifs[k] /\ \A i \in 1 .. n : h[i] = x.ips[i]
    BY <1>0, <1>1
  <2> HIDE DEF h
  <2>3. m = k - 1
    BY <1>3, <1>8, Zenon
  <2>4. n = Cardinality(Reachable(ifs, k - 1))
    BY <1>3, <2>3, Zenon DEF FirstOf
  <2>5. Cardinality(Reachable(ifs, k)) = n + 1
    BY <1>0, <1>8, <2>4, ReachableCount, Zenon
  <2>6. ASSUME NEW i \in Reachable(ifs, k)
        PROVE  h[Cardinality(Reachable(ifs, i))] = ifs[i]
    <3>1. i \in Reachable(ifs, k - 1) \/ i = k
      BY <1>0, <1>8, ReachableNext, Zenon
    <3>2. CASE i = k
      BY <2>2, <2>5, <3>2, Zenon
    <3>3. CASE i \in Reachable(ifs, k - 1)
      <4>1. x.ips[Cardinality(Reachable(ifs, i))] = ifs[i]
        BY <1>3, <2>3, <3>3, Zenon DEF FirstOf
      <4>2. i \in Nat \ {0} /\ i <= k - 1 /\ D!Counts(ifs[i])
        BY <1>0, <3>3 DEF Reachable
      <4>3. Cardinality(Reachable(ifs, i)) \in 1 .. n
        <5>1. Cardinality(Reachable(ifs, i)) \in Nat
          BY <4>2, ReachableFinite, Zenon
        <5>2. i \in Reachable(ifs, i)
          BY <4>2 DEF Reachable
        <5>3. Cardinality(Reachable(ifs, i)) # 0
          BY <4>2, <5>2, ReachableFinite, Zenon
        <5>4. Reachable(ifs, i) \in SUBSET Reachable(ifs, k - 1)
          BY <1>0, <4>2 DEF Reachable
        <5>5. IsFiniteSet(Reachable(ifs, k - 1))
          BY <1>0, ReachableFinite, Zenon
        <5>6. Cardinality(Reachable(ifs, i)) <= n
          BY <2>4, <5>4, <5>5, FS_Subset, Zenon
        <5> QED
          BY <1>1, <5>1, <5>3, <5>6
      <4> QED
        BY <2>2, <4>1, <4>3, Zenon
    <3> QED
      BY <3>1, <3>2, <3>3, Zenon
  <2>7. FirstOf(ifs, h, k)
    BY <2>2, <2>5, <2>6, Zenon DEF FirstOf
  <2>8. /\ x.len = TextLen(x.ips)
        /\ x.len = 0 <=> n = 0
        /\ x.len > 0 => 7 <= x.len /\ x.len < room
    BY <1>4, Zenon DEF Sized
  <2>9. x.len > 0 <=> n + 1 > 1
    BY <1>1, <2>8
  <2>10. TextLen(h) = more
    <3>1. TextLen(h) = TextLen(x.ips) + ifs[k].len + Delim(n + 1)
      BY <1>0, <1>1, TextLenAppend, Zenon DEF h
    <3> QED
      BY <2>8, <2>9, <3>1, Zenon DEF Delim
  <2>11. more \in Nat /\ 7 <= more /\ more < room
    <3>1. x.len + 9 + ifs[k].len + 1 <= room
      BY <1>8, <1>9, Zenon
    <3> QED
      BY <1>1, <1>2, <3>1, LeavesRoom, Zenon DEF D!DelimLen
  <2> HIDE DEF more
  <2>12. y.ips = h /\ y.len = more /\ ~ y.full
    BY <1>8, <2>1
  <2>13. more > 0 /\ ~ (more = 0) /\ ~ (n + 1 = 0)
    BY <1>1, <2>11
  <2> HIDE DEF y, n
  <2>14. Sized(y, room)
    BY <2>2, <2>10, <2>11, <2>12, <2>13, Zenon DEF Sized
  <2> QED
    BY <1>0, <2>7, <2>12, <2>14, Zenon DEF Listed, y
<1> QED
  BY <1>5, <1>6, <1>7, <1>8, Zenon

(* So it is when all interfaces have been seen.                            *)
LEMMA ListIs ==
    ASSUME NEW ifs \in Seq(Ifa), NEW room \in Nat, room >= 25
    PROVE  \E x \in LoopState :
              /\ Listed(ifs, room, Len(ifs), x)
              /\ D!get_ipv4_addresses(ifs, room)
                 = [rc |-> IF x.len < 7 THEN -1 ELSE 0, ips |-> x.ips, len |-> x.len]
<1> DEFINE n == Len(ifs)
<1>0. n \in Nat /\ n \in 0 .. n /\ 0 \in 0 .. n
  OBVIOUS
<1>1. PICK f : /\ Loop(ifs, room, f)
               /\ D!get_ipv4_addresses(ifs, room)
                  = [rc |-> IF f[n].len < 7 THEN -1 ELSE 0, ips |-> f[n].ips, len |-> f[n].len]
  BY LoopIs, Zenon
<1>2. /\ f \in [0 .. n -> LoopState]
      /\ f[0] = LoopStart
      /\ \A k \in 1 .. n : f[k] = D!AddAddress(f[k - 1], ifs[k], room)
  BY <1>1, Zenon DEF Loop
<1> DEFINE T == {k \in 0 .. n : Listed(ifs, room, k, f[k])}
<1>3. 0 \in T
  BY <1>0, <1>2, ListedStart, Zenon
<1>4. ASSUME NEW k \in 1 .. n, k - 1 \in T
      PROVE  k \in T
  <2>1. k \in 0 .. n /\ k - 1 \in 0 .. n
    BY <1>0
  <2>2. f[k - 1] \in LoopState /\ Listed(ifs, room, k - 1, f[k - 1])
    BY <1>2, <1>4, <2>1, Zenon
  <2> QED
    BY <1>2, <2>1, <2>2, ListedStep, Zenon
<1> HIDE DEF T, n
<1>5. \A k \in 0 .. n : k \in T
  BY <1>0, <1>3, <1>4, UpTo, Zenon
<1>6. f[n] \in LoopState /\ Listed(ifs, room, n, f[n])
  BY <1>0, <1>2, <1>5, Zenon DEF T
<1> QED
  BY <1>1, <1>6, Zenon DEF n

(* A list that is none has no interface to show.                           *)
LEMMA ListFits ==
    ASSUME NEW ifs \in Seq(Ifa), NEW room \in Nat, NEW x \in LoopState,
           Listed(ifs, room, Len(ifs), x)
    PROVE  /\ \E m \in 0 .. Len(ifs) : FirstOf(ifs, x.ips, m)
           /\ x.len = TextLen(x.ips)
           /\ Len(x.ips) > 0 => x.len < room
           /\ ~ (x.len < 7) <=> Reachable(ifs, Len(ifs)) # {}
<1> DEFINE n == Len(ifs)
           h == Len(x.ips)
<1>0. n \in Nat /\ h \in Nat /\ x.len \in Nat
  BY DEF LoopState
<1>1. PICK m \in 0 .. n : (m = n \/ x.full) /\ FirstOf(ifs, x.ips, m)
  BY Zenon DEF Listed
<1>2. /\ x.len = TextLen(x.ips)
      /\ x.len = 0 <=> h = 0
      /\ x.len > 0 => 7 <= x.len /\ x.len < room
      /\ x.full => x.len > 0
  BY Zenon DEF Listed, Sized
<1>3. h = Cardinality(Reachable(ifs, m))
  BY <1>1, Zenon DEF FirstOf
<1> HIDE DEF n, h
<1>4. m \in Nat
  BY <1>0
<1>5. h = 0 <=> Reachable(ifs, m) = {}
  BY <1>3, <1>4, ReachableFinite, Zenon
<1>6. Reachable(ifs, m) \subseteq Reachable(ifs, n)
  <2>1. \A i \in 1 .. m : i \in 1 .. n
    BY <1>0
  <2> QED
    BY <2>1, Zenon DEF Reachable
<1>7. h > 0 => x.len < room
  BY <1>0, <1>2
<1>8. CASE h = 0
  <2>1. x.len = 0 /\ ~ (x.len > 0) /\ x.len < 7
    BY <1>0, <1>2, <1>8
  <2>2. m = n
    BY <1>1, <1>2, <2>1, Zenon
  <2> QED
    BY <1>1, <1>2, <1>5, <1>7, <1>8, <2>1, <2>2, Zenon DEF n, h
<1>9. CASE h # 0
  <2>1. ~ (x.len < 7)
    BY <1>0, <1>2, <1>9
  <2>2. Reachable(ifs, n) # {}
    BY <1>5, <1>6, <1>9, Zenon
  <2> QED
    BY <1>1, <1>2, <1>7, <2>1, <2>2, Zenon DEF n, h
<1> QED
  BY <1>8, <1>9, Zenon

(* The serial number is nine characters long, unless the flash has a NUL.  *)
LEMMA SernoIs ==
    ASSUME NEW flash \in Seq(STRING)
    PROVE  /\ Len(D!SerialNumber(flash)) \in 0 .. 9
           /\ \/ Len(D!SerialNumber(flash)) = 9
              \/ \E i \in DOMAIN flash : flash[i] = "NUL"
<1>0. Len(flash) \in Nat /\ DOMAIN flash = 1 .. Len(flash)
  OBVIOUS
<1>1. CASE flash = D!Missing \/ Len(flash) < 9
  <2>1. D!SerialNumber(flash) = D!DEFAULT_SERNO
    BY <1>1, Zenon DEF D!SerialNumber
  <2>2. Len(D!DEFAULT_SERNO) = 9
    BY DEF D!DEFAULT_SERNO
  <2>3. 9 \in 0 .. 9
    OBVIOUS
  <2> QED
    BY <2>1, <2>2, <2>3, Zenon
<1>2. CASE ~ (flash = D!Missing \/ Len(flash) < 9)
  <2> DEFINE s == SubSeq(flash, 1, 9)
  <2>1. D!SerialNumber(flash) = D!Before("NUL", s)
    BY <1>2, Zenon DEF D!SerialNumber
  <2>2. 9 \in 0 .. Len(flash) /\ \A j \in 1 .. 9 : j \in 1 .. Len(flash)
    BY <1>0, <1>2
  <2>3. s \in Seq(STRING) /\ Len(s) = 9 /\ \A j \in 1 .. 9 : s[j] = flash[j]
    BY <2>2, CutIs, Zenon
  <2> HIDE DEF s
  <2> DEFINE i == D!Position("NUL", s)
  <2> HIDE DEF i
  <2>4. IsPosition("NUL", s, i)
    <3>1. Len(s) \in Nat
      BY <2>3
    <3> QED
      BY <3>1, PositionIs, Zenon DEF i
  <2>5. i \in 1 .. 9 + 1 /\ Len(D!Before("NUL", s)) = i - 1
    BY <2>3, <2>4, BeforeIs, Zenon
  <2>6. i - 1 \in 0 .. 9 /\ (i - 1 = 9 \/ (i \in 1 .. 9 /\ i <= 9))
    BY <2>5
  <2>7. CASE i - 1 = 9
    BY <2>1, <2>5, <2>6, <2>7, Zenon
  <2>8. CASE i \in 1 .. 9 /\ i <= 9
    <3>1. s[i] = "NUL"
      BY <2>3, <2>4, <2>8, Zenon DEF IsPosition
    <3> QED
      BY <1>0, <2>1, <2>2, <2>3, <2>5, <2>6, <2>8, <3>1, Zenon
  <2> QED
    BY <2>6, <2>7, <2>8, Zenon
<1> QED
  BY <1>1, <1>2, Zenon

-----------------------------------------------------------------------------
AddressCall(flash, ifs) ==
    [fcn |-> "addresses", flash |-> flash, serno |-> D!SerialNumber(flash), ifs |-> ifs,
     list |-> D!UrlAddresses(D!SerialNumber(flash), ifs)]

AddressInv ==
    call.fcn = "addresses" =>
       \E flash \in Flashes, ifs \in Interfaces : call = AddressCall(flash, ifs)

(* What is known of a list is what main asks for.                          *)
LEMMA AddressInvInit == CodingsInit => AddressInv
  BY DEF CodingsInit, AddressInv, None

(* No call changes it.                                                     *)
LEMMA AddressInvStep == AddressInv /\ [CodingsNext]_callVars => AddressInv'
<1> SUFFICES ASSUME AddressInv, [CodingsNext]_callVars PROVE AddressInv'
  OBVIOUS
<1>1. CASE ListAddresses
  <2>1. \E flash \in Flashes, ifs \in Interfaces : call' = AddressCall(flash, ifs)
    BY <1>1, Zenon DEF ListAddresses, AddressCall
  <2> QED
    BY <2>1, Zenon DEF AddressInv
<1>2. CASE SetBytes
  <2>1. call'.fcn = "message"
    BY <1>2, SMT DEF SetBytes
  <2> QED
    BY <2>1 DEF AddressInv
<1>3. CASE ChangeChar
  <2>1. call.fcn = "message" /\ \E u : call' = [call EXCEPT !.text = u]
    BY <1>3, Zenon DEF ChangeChar
  <2>2. call'.fcn # "addresses"
    BY <2>1
  <2> QED
    BY <2>2 DEF AddressInv
<1>4. CASE FlipBit
  <2>1. call.fcn = "message" /\ \E u : call' = [call EXCEPT !.text = u]
    BY <1>4, Zenon DEF FlipBit
  <2>2. call'.fcn # "addresses"
    BY <2>1
  <2> QED
    BY <2>2 DEF AddressInv
<1>5. CASE SerialNum
  <2>1. call'.fcn = "serialnum"
    BY <1>5, SMT DEF SerialNum
  <2> QED
    BY <2>1 DEF AddressInv
<1>6. CASE ReadConfig
  <2>1. call'.fcn = "config"
    BY <1>6, SMT DEF ReadConfig
  <2> QED
    BY <2>1 DEF AddressInv
<1>7. CASE OpenLine
  <2>1. call'.fcn = "line"
    BY <1>7, SMT DEF OpenLine
  <2> QED
    BY <2>1 DEF AddressInv
<1>8. CASE UNCHANGED callVars
  BY <1>8, Zenon DEF callVars, AddressInv
<1> QED
  BY <1>1, <1>2, <1>3, <1>4, <1>5, <1>6, <1>7, <1>8 DEF CodingsNext

(* It fits the URL and leaves out no address that it has room for.         *)
LEMMA AddressInvImplies == AddressInv => AddressesFit
<1> DEFINE Fit(flash, serno, ifs, list) ==
             /\ \E m \in 0 .. Len(ifs) :
                   /\ Len(list.ips) = Cardinality(Reachable(ifs, m))
                   /\ \A i \in Reachable(ifs, m) :
                         list.ips[Cardinality(Reachable(ifs, i))] = ifs[i]
             /\ list.len = TextLen(list.ips)
             /\ Len(list.ips) > 0 => D!UrlPrefixLen(serno) + TextLen(list.ips) < D!UrlSize
             /\ list.rc = 0 <=> Reachable(ifs, Len(ifs)) # {}
             /\ Len(serno) = 9 \/ \E i \in DOMAIN flash : flash[i] = "NUL"
<1>1. ASSUME NEW flash \in Flashes, NEW ifs \in Interfaces
      PROVE  Fit(flash, D!SerialNumber(flash), ifs, D!UrlAddresses(D!SerialNumber(flash), ifs))
  <2> DEFINE serno == D!SerialNumber(flash)
             list == D!UrlAddresses(serno, ifs)
             room == 64 - (4 + Len(serno) + 1) - 1
  <2>1. flash \in Seq(STRING) /\ ifs \in Seq(Ifa)
    BY CodingsAssumption, Zenon DEF CodingsAssumption, Ifa
  <2>2. Len(serno) \in 0 .. 9 /\ (Len(serno) = 9 \/ \E i \in DOMAIN flash : flash[i] = "NUL")
    BY <2>1, SernoIs, Zenon
  <2>3. list = D!get_ipv4_addresses(ifs, room)
    BY Zenon DEF D!UrlAddresses, D!UrlSize, D!UrlPrefixLen
  <2>4. D!UrlPrefixLen(serno) = 4 + Len(serno) + 1 /\ D!UrlSize = 64
    BY Zenon DEF D!UrlPrefixLen, D!UrlSize
  <2> HIDE DEF serno, list
  <2>5. room \in Nat /\ room >= 25
    <3>1. \A l \in 0 .. 9 : 64 - (4 + l + 1) - 1 \in Nat /\ 64 - (4 + l + 1) - 1 >= 25
      OBVIOUS
    <3> QED
      BY <2>2, <3>1, Zenon
  <2>6. \A t \in Nat : t < room => (4 + Len(serno) + 1) + t < 64
    <3>1. \A l \in 0 .. 9 : \A t \in Nat : t < 64 - (4 + l + 1) - 1 => (4 + l + 1) + t < 64
      OBVIOUS
    <3> QED
      BY <2>2, <3>1, Zenon
  <2> HIDE DEF room
  <2>7. PICK x \in LoopState :
           /\ Listed(ifs, room, Len(ifs), x)
           /\ list = [rc |-> IF x.len < 7 THEN -1 ELSE 0, ips |-> x.ips, len |-> x.len]
    BY <2>1, <2>3, <2>5, ListIs, Zenon
  <2>8. /\ \E m \in 0 .. Len(ifs) : FirstOf(ifs, x.ips, m)
        /\ x.len = TextLen(x.ips)
        /\ Len(x.ips) > 0 => x.len < room
        /\ ~ (x.len < 7) <=> Reachable(ifs, Len(ifs)) # {}
    BY <2>1, <2>5, <2>7, ListFits, Zenon
  <2>9. list.ips = x.ips /\ list.len = x.len /\ (list.rc = 0 <=> ~ (x.len < 7))
    BY <2>7
  <2>10. x.len \in Nat
    BY DEF LoopState
  <2>11. Len(x.ips) > 0 => D!UrlPrefixLen(serno) + TextLen(x.ips) < D!UrlSize
    BY <2>4, <2>6, <2>8, <2>10, Zenon
  <2>12. Fit(flash, serno, ifs, list)
    BY <2>2, <2>8, <2>9, <2>11, Zenon DEF FirstOf
  <2> HIDE DEF Fit
  <2> QED
    BY <2>12, Zenon DEF serno, list
<1>2. ASSUME AddressInv, call.fcn = "addresses"
      PROVE  Fit(call.flash, call.serno, call.ifs, call.list)
  <2>1. PICK flash \in Flashes, ifs \in Interfaces : call = AddressCall(flash, ifs)
    BY <1>2, Zenon DEF AddressInv
  <2>2. /\ call.flash = flash /\ call.serno = D!SerialNumber(flash) /\ call.ifs = ifs
        /\ call.list = D!UrlAddresses(D!SerialNumber(flash), ifs)
    BY <2>1 DEF AddressCall
  <2> HIDE DEF Fit
  <2> QED
    BY <1>1, <2>2, Zenon
<1> QED
  BY <1>2, Zenon DEF AddressesFit

(* Whatever the flash holds and whatever interfaces getifaddrs lists, the  *)
(* addresses in the URL are the first of those the router can be reached   *)
(* at, and fit.                                                            *)
THEOREM AddressesFitHolds == CodingsSpec => []AddressesFit
  BY AddressInvInit, AddressInvStep, AddressInvImplies, PTL DEF CodingsSpec
=============================================================================
