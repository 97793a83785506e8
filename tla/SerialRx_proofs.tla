-------------------------- MODULE SerialRx_proofs --------------------------
(***************************************************************************)
(* The receive buffer shared with the interrupt handler, for every         *)
(* capacity, every number of bytes and every interleaving.                 *)
(***************************************************************************)
EXTENDS SerialRx, TLAPS

-----------------------------------------------------------------------------
(* The inductive invariant, part by part.                                  *)

Wrap(n) == IF n >= Capacity THEN n - Capacity ELSE n
held    == pushed - taken
Pred(p) == IF p = 0 THEN Capacity - 1 ELSE p - 1

(* m_first, or what it was before its first half was stored anew.          *)
Front == IF pc \in HalfStored THEN Pred(rfirst) ELSE first

(* The copy of m_size is behind the field, never ahead of it.              *)
SizeBehind == pc \in PopWindow => 1 <= rsize /\ rsize <= size

(* m_size never counts a byte that is not there.                           *)
NoneInvented == Missed >= 0

(* The slots below m_last were written before m_last went round once.      *)
Written ==
    /\ \A p \in Offsets : /\ p < pushed => buff[p] # None
                          /\ buff[p] <= pushed
    /\ pushed < Capacity => last = pushed
    /\ overrun => pushed >= Capacity

(* The unread bytes sit in order between m_first and m_last.               *)
Contents ==
    /\ held <= Capacity
    /\ last = Wrap(Front + held)
    /\ \A i \in Offsets : i < held => buff[Wrap(Front + i)] = taken + 1 + i

(* The item in hand is the one m_first points at, then the one last taken; *)
(* the copy of m_first is the field, or what it becomes half by half.      *)
ItemInHand ==
    /\ pc \in {"deref", "advance"} => rfirst = first
    /\ pc = "put" => rfirst = Successor(first)
    /\ pc = "put_high" => first = Mix(rfirst, Pred(rfirst))
    /\ pc = "put_low" => first = Mix(Pred(rfirst), rfirst)
    /\ pc \in {"advance", "put"} \cup HalfStored => val = taken + 1
    /\ pc \in {"dec", "store", "deliver"} => val = taken

ItemReal ==
    pc \in {"advance", "put", "dec", "store", "deliver"} \cup HalfStored
       => (Sound => val \in 1 .. pushed)

(* Every byte m_size misses, or is about to miss, has its interrupt.       *)
MissedSoon == Missed + (IF pc \in PopWindow THEN size - rsize ELSE 0)

IInv ==
    /\ TypeOK
    /\ SizeBehind
    /\ NoneInvented
    /\ Written
    /\ ItemReal
    /\ ~overrun => Contents /\ ItemInHand /\ MissedSoon <= hits

-----------------------------------------------------------------------------
(* Arithmetic of offsets into the storage.                                 *)
LEMMA OffsetFacts ==
    /\ 0 \in Offsets
    /\ Capacity \in Nat /\ 2 <= Capacity /\ Capacity <= 255
    /\ \A p \in Offsets : /\ p \in Int /\ 0 <= p /\ p < Capacity
                          /\ Wrap(p) = p
                          /\ Successor(p) \in Offsets
  BY SerialAssumption DEF SerialAssumption, Offsets, Wrap, Successor

(* One place further is the next slot.                                     *)
LEMMA WrapFacts ==
    ASSUME NEW f \in Offsets, NEW n \in 0 .. Capacity
    PROVE  /\ Wrap(f + n) \in Offsets
           /\ n < Capacity => Successor(Wrap(f + n)) = Wrap(f + (n + 1))
           /\ n > 0 => Wrap(Successor(f) + (n - 1)) = Wrap(f + n)
  BY SerialAssumption DEF SerialAssumption, Offsets, Wrap, Successor

(* Two places fewer than Capacity apart are different slots.               *)
LEMMA WrapInjective ==
    ASSUME NEW f \in Offsets, NEW m \in Offsets, NEW n \in Offsets,
           Wrap(f + m) = Wrap(f + n)
    PROVE  m = n
  BY SerialAssumption DEF SerialAssumption, Offsets, Wrap

(* The next of the last of Capacity places is where one started.           *)
LEMMA WrapRound ==
    ASSUME NEW f \in Offsets
    PROVE  Successor(Wrap(f + (Capacity - 1))) = f /\ Wrap(f + 0) = f
  BY SerialAssumption DEF SerialAssumption, Offsets, Wrap, Successor

(* One step back from the next slot.                                       *)
LEMMA PredFacts ==
    ASSUME NEW f \in Offsets
    PROVE  Pred(Successor(f)) = f /\ Pred(f) \in Offsets /\ Successor(Pred(f)) = f
  BY SerialAssumption DEF SerialAssumption, Offsets, Pred, Successor

(* The two halves of a pointer make the pointer, also one after the other; *)
(* where all addresses have the same high byte, a low byte says it all.    *)
LEMMA MixFacts ==
    ASSUME base \in Nat, NEW a \in Int, NEW b \in Int
    PROVE  /\ Mix(a, b) \in Int /\ Mix(a, a) = a
           /\ Mix(Mix(a, b), a) = a /\ Mix(a, Mix(b, a)) = a
<1>1. \A x, y \in Int : /\ x = 256 * (x \div 256) + (x % 256)
                       /\ (256 * (y \div 256) + (x % 256)) % 256 = x % 256
                       /\ (256 * (x \div 256) + (y % 256)) \div 256 = x \div 256
                       /\ 256 * (y \div 256) + (x % 256) \in Int
  OBVIOUS
<1> DEFINE x == base + a
           y == base + b
<1>2. x \in Int /\ y \in Int
  OBVIOUS
<1>3. base + Mix(a, b) = 256 * (y \div 256) + (x % 256)
  BY <1>1, <1>2 DEF Mix
<1>4. base + Mix(b, a) = 256 * (x \div 256) + (y % 256)
  BY <1>1, <1>2 DEF Mix
<1>5. Mix(a, b) \in Int /\ Mix(a, a) = a
  BY <1>1, <1>2 DEF Mix
<1>6. (base + Mix(a, b)) % 256 = x % 256 /\ (base + Mix(b, a)) \div 256 = x \div 256
  BY <1>1, <1>2, <1>3, <1>4
<1>7. 256 * (x \div 256) + (x % 256) - base = a
  BY <1>1, <1>2
<1> QED
  BY <1>5, <1>6, <1>7 DEF Mix

LEMMA MixOnePage ==
    ASSUME base \in Nat, OnePage, NEW a \in Offsets, NEW b \in Offsets
    PROVE  Mix(a, b) = a
<1>1. \A m \in Nat, c \in 2 .. 255 : m \div 256 = (m + c - 1) \div 256
        => \A x \in 0 .. c - 1 : (m + x) \div 256 = m \div 256
  OBVIOUS
<1>2. \A m \in Nat : m = 256 * (m \div 256) + (m % 256)
  OBVIOUS
<1>3. (base + a) \div 256 = base \div 256 /\ (base + b) \div 256 = base \div 256
      /\ base + a \in Nat
  BY <1>1, SerialAssumption DEF SerialAssumption, OnePage, Offsets
<1>4. base + a = 256 * ((base + a) \div 256) + ((base + a) % 256)
  BY <1>2, <1>3
<1>5. Mix(a, b) = (base + a) - base
  BY <1>3, <1>4 DEF Mix
<1> QED
  BY <1>5 DEF Offsets

(* The numbers of the type invariant, as the arithmetic steps use them.    *)
LEMMA Numbers ==
    ASSUME TypeOK
    PROVE  /\ base \in Nat /\ buff \in [Offsets -> 0 .. MaxBytes]
           /\ first \in Int /\ last \in Offsets /\ rfirst \in Int
           /\ size \in Nat /\ size <= Capacity /\ rsize \in Nat /\ rsize <= Capacity
           /\ pushed \in Nat /\ pushed <= MaxBytes /\ taken \in Nat /\ taken <= MaxBytes
           /\ val \in Foreign .. MaxBytes /\ overrun \in BOOLEAN
           /\ hits \in Nat /\ hits <= pushed /\ struck \in Nat /\ struck <= Burst
           /\ held \in Int /\ MaxBytes \in Nat /\ Burst \in Nat
           /\ pc \in {"idle", "loop", "deliver"} \cup PopWindow
  BY OffsetFacts, SerialAssumption DEF SerialAssumption, TypeOK, held

LEMMA FrontFacts ==
    ASSUME TypeOK, ~overrun
    PROVE  Front \in Offsets /\ rfirst \in Offsets /\ (pc \notin HalfStored => first \in Offsets)
<1>1. rfirst \in Offsets /\ (pc \notin HalfStored => first \in Offsets)
  BY DEF TypeOK, Sound
<1> QED
  BY <1>1, PredFacts DEF Front

-----------------------------------------------------------------------------
(* The invariant holds at power-on.                                        *)
LEMMA InitOK == Init => IInv
<1> SUFFICES ASSUME Init PROVE IInv
  OBVIOUS
<1>1. TypeOK
  <2>1. buff \in [Offsets -> 0 .. MaxBytes]
    BY SerialAssumption DEF SerialAssumption, Init, None
  <2>2. 0 \in Offsets /\ 0 \in 0 .. Capacity /\ 0 \in 0 .. MaxBytes /\ 0 \in 0 .. Burst
        /\ 0 \in 0 .. 0 /\ 0 \in -1 .. MaxBytes /\ 0 \in Int
    BY OffsetFacts, SerialAssumption DEF SerialAssumption
  <2> QED
    BY <2>1, <2>2 DEF Init, TypeOK, None, Foreign
<1>2. held = 0 /\ Missed = 0 /\ MissedSoon = 0 /\ pc = "idle" /\ Front = first
  BY DEF Init, held, Missed, MissedSoon, Front, PopWindow, HalfStored
<1>3. Contents
  <2>1. last = Wrap(Front + held)
    BY <1>2, WrapRound, OffsetFacts DEF Init
  <2> QED
    BY <1>2, <2>1, OffsetFacts DEF Contents
<1>4. Written
  BY OffsetFacts DEF Init, Written, None
<1> QED
  BY <1>1, <1>2, <1>3, <1>4, OffsetFacts
     DEF Init, IInv, SizeBehind, NoneInvented, ItemReal, ItemInHand, PopWindow, HalfStored

(* What the interrupt handler does to the bytes that wait.                 *)
LEMMA UsartRxContents ==
    ASSUME IInv, UsartRx, ~overrun'
    PROVE  Contents' /\ first' = first /\ held' = held + 1 /\ ~overrun /\ held < Capacity
<1>0. ~overrun /\ held < Capacity
  <2>1. overrun \in BOOLEAN /\ held \in Int /\ Capacity \in Nat
    BY Numbers, OffsetFacts DEF IInv
  <2>2. overrun' = (overrun \/ held >= Capacity)
    BY DEF UsartRx, held
  <2>3. ~overrun /\ ~(held >= Capacity)
    BY <2>1, <2>2
  <2> QED
    BY <2>1, <2>3
<1>1. /\ Contents /\ NoneInvented /\ SizeBehind
      /\ held \in Int /\ held >= 0 /\ size \in Nat /\ pushed \in Nat /\ taken \in Nat
      /\ Front \in Offsets /\ last \in Offsets /\ Capacity \in Nat /\ 2 <= Capacity
  <2>1. held >= 0
    BY Numbers DEF IInv, NoneInvented, Missed, held, SizeBehind, PopWindow
  <2> QED
    BY <1>0, <2>1, Numbers, FrontFacts, OffsetFacts DEF IInv
<1>2. last = Wrap(Front + held) /\ held \in 0 .. Capacity /\ held \in Offsets
  BY <1>0, <1>1 DEF Contents, Offsets
<1>3. held' = held + 1 /\ taken' = taken
  BY Numbers DEF UsartRx, held, IInv
<1>4. first' = first
  <2>1. CASE size # Capacity
    BY <2>1 DEF UsartRx
  <2>2. CASE size = Capacity
    <3>1. held = Capacity - 1 /\ pc \in {"dec", "store"}
      BY <1>0, <1>1, <2>2 DEF NoneInvented, Missed, held
    <3>2. Front = first
      BY <3>1 DEF Front, HalfStored
    <3> QED
      BY <1>1, <1>2, <2>2, <3>1, <3>2, WrapRound DEF UsartRx
  <2> QED
    BY <2>1, <2>2
<1>8. Front' = Front
  BY <1>4 DEF UsartRx, regs, Front, Pred
<1>5. last' = Wrap(Front' + held')
  BY <1>0, <1>1, <1>2, <1>3, <1>8, WrapFacts DEF UsartRx
<1>6. ASSUME NEW i \in Offsets, i < held'
      PROVE  buff'[Wrap(Front' + i)] = taken' + 1 + i
  <2>1. i \in 0 .. Capacity /\ i \in Int
    BY OffsetFacts
  <2>2. Wrap(Front + i) \in Offsets
    BY <1>1, <2>1, WrapFacts
  <2>3. buff' = [buff EXCEPT ![last] = pushed + 1] /\ buff \in [Offsets -> 0 .. MaxBytes]
    BY Numbers DEF UsartRx, IInv
  <2>4. CASE i = held
    <3>1. buff'[last] = pushed + 1
      BY <1>1, <2>3
    <3>2. pushed + 1 = taken + 1 + held
      BY <1>1 DEF held
    <3> QED
      BY <1>2, <1>3, <1>8, <2>4, <3>1, <3>2
  <2>5. CASE i # held
    <3>1. i < held
      BY <1>1, <1>3, <1>6, <2>1, <2>5
    <3>2. Wrap(Front + i) # last
      BY <1>1, <1>2, <2>5, WrapInjective
    <3>3. buff'[Wrap(Front + i)] = buff[Wrap(Front + i)]
      BY <2>2, <2>3, <3>2
    <3> QED
      BY <1>1, <1>3, <1>8, <3>1, <3>3 DEF Contents
  <2> QED
    BY <2>4, <2>5
<1>7. held' <= Capacity
  BY <1>0, <1>1, <1>3, OffsetFacts
<1> QED
  BY <1>0, <1>3, <1>4, <1>5, <1>6, <1>7, <1>8 DEF Contents

(* The interrupt handler preserves the invariant wherever it strikes.      *)
LEMMA UsartRxOK == IInv /\ UsartRx => IInv'
<1> SUFFICES ASSUME IInv, UsartRx PROVE IInv'
  OBVIOUS
<1> USE DEF PopWindow
<1>0. /\ base' = base /\ buff' = [buff EXCEPT ![last] = pushed + 1]
      /\ last' = Successor(last) /\ pushed' = pushed + 1 /\ pushed < MaxBytes
      /\ taken' = taken /\ rsize' = rsize /\ rfirst' = rfirst /\ val' = val /\ pc' = pc
      /\ overrun' \in BOOLEAN
      /\ pc \in PopWindow => struck < Burst /\ hits' = hits + 1 /\ struck' = struck + 1
      /\ pc \notin PopWindow => hits' = hits /\ struck' = struck
      /\ \/ size = Capacity /\ first' = last' /\ size' = size
         \/ size # Capacity /\ first' = first /\ size' = size + 1
  BY DEF UsartRx, regs
<1>1. /\ TypeOK /\ SizeBehind /\ NoneInvented /\ Written /\ ItemReal
      /\ ~overrun => Contents /\ ItemInHand /\ MissedSoon <= hits
  BY DEF IInv
<1>2. TypeOK'
  <2>1. buff' \in [Offsets -> 0 .. MaxBytes]
    BY <1>0, <1>1, Numbers
  <2>2. last' \in Offsets
    BY <1>0, <1>1, Numbers, OffsetFacts
  <2>4. first' = first \/ first' = last'
    BY <1>0
  <2>5. Sound' => Sound /\ OnePage' = OnePage
    BY <1>0 DEF Sound, OnePage, UsartRx
  <2>6. /\ first' \in Int /\ rfirst' \in Int
        /\ Sound' => rfirst' \in Offsets
        /\ Sound' /\ (pc' \in HalfStored => OnePage') => first' \in Offsets
    BY <1>0, <1>1, <2>2, <2>4, <2>5, OffsetFacts DEF TypeOK
  <2>3. /\ size' \in 0 .. Capacity /\ rsize' \in 0 .. Capacity
        /\ pushed' \in 0 .. MaxBytes /\ taken' \in 0 .. MaxBytes
        /\ hits' \in 0 .. pushed' /\ struck' \in 0 .. Burst
    BY <1>0, <1>1, Numbers, OffsetFacts
  <2> QED
    BY <1>0, <1>1, <2>1, <2>2, <2>3, <2>6, Numbers DEF TypeOK
<1>3. SizeBehind'
  BY <1>0, <1>1, Numbers, OffsetFacts DEF SizeBehind
<1>4. Missed' >= Missed /\ NoneInvented'
  BY <1>0, <1>1, Numbers, OffsetFacts DEF Missed, NoneInvented
<1>5. Written'
  <2>0. /\ buff \in [Offsets -> 0 .. MaxBytes] /\ last \in Offsets
        /\ pushed \in Nat /\ taken \in Nat /\ Capacity \in Nat /\ 2 <= Capacity
        /\ overrun \in BOOLEAN
    BY <1>1, Numbers, OffsetFacts
  <2>4. ASSUME NEW p \in Offsets PROVE buff'[p] <= pushed'
    <3>1. buff'[p] = pushed + 1 \/ buff'[p] = buff[p]
      BY <1>0, <2>0
    <3>2. buff[p] <= pushed /\ buff[p] \in 0 .. MaxBytes
      BY <1>1, <2>0 DEF Written
    <3> QED
      BY <1>0, <2>0, <3>1, <3>2
  <2>1. ASSUME NEW p \in Offsets, p < pushed' PROVE buff'[p] # None
    <3>1. CASE p = last
      <4>1. buff'[p] = pushed + 1
        BY <1>0, <2>0, <3>1
      <4> QED
        BY <2>0, <4>1 DEF None
    <3>2. CASE p # last
      <4>1. buff'[p] = buff[p]
        BY <1>0, <2>0, <3>2
      <4>2. p < pushed
        <5>1. p \in Int /\ p < Capacity /\ p < pushed + 1
          BY <1>0, <2>1, OffsetFacts
        <5>2. pushed < Capacity => p # pushed
          BY <1>1, <3>2 DEF Written
        <5> QED
          BY <2>0, <5>1, <5>2
      <4> QED
        BY <1>1, <4>1, <4>2 DEF Written
    <3> QED
      BY <3>1, <3>2
  <2>2. ASSUME pushed' < Capacity PROVE last' = pushed'
    <3>1. last = pushed /\ pushed + 1 < Capacity
      BY <1>0, <1>1, <2>0, <2>2 DEF Written
    <3> QED
      BY <1>0, <2>0, <3>1 DEF Successor
  <2>3. ASSUME overrun' PROVE pushed' >= Capacity
    <3>1. overrun \/ pushed - taken >= Capacity
      BY <2>3 DEF UsartRx
    <3>2. CASE overrun
      BY <1>0, <1>1, <2>0, <3>2 DEF Written
    <3>3. CASE pushed - taken >= Capacity
      BY <1>0, <2>0, <3>3
    <3> QED
      BY <3>1, <3>2, <3>3
  <2> QED
    BY <2>1, <2>2, <2>3, <2>4 DEF Written
<1>6. ItemReal'
  <2>1. Sound' => Sound
    BY <1>0 DEF Sound, OnePage, UsartRx
  <2>2. \A v : v \in 1 .. pushed => v \in 1 .. pushed'
    BY <1>0, <1>1, Numbers
  <2> QED
    BY <1>0, <1>1, <2>1, <2>2 DEF ItemReal
<1>7. ASSUME ~overrun' PROVE Contents' /\ ItemInHand' /\ MissedSoon' <= hits'
  <2>1. Contents' /\ first' = first /\ held' = held + 1 /\ ~overrun /\ held < Capacity
    BY <1>7, UsartRxContents
  <2>2. ItemInHand'
    BY <1>0, <1>1, <2>1 DEF ItemInHand, Mix, Pred, Successor
  <2>3. /\ size \in Nat /\ size <= Capacity /\ rsize \in Nat /\ hits \in Nat
        /\ pushed \in Nat /\ taken \in Nat /\ Capacity \in Nat
    BY <1>1, Numbers, OffsetFacts
  <2>4. MissedSoon <= hits /\ pushed' - taken' = (pushed - taken) + 1
    BY <1>0, <1>1, <2>1, <2>3
  <2>5. ASSUME pc \in PopWindow PROVE MissedSoon' <= hits'
    <3>1. hits' = hits + 1
      BY <1>0, <2>5
    <3>2. CASE size = Capacity
      BY <1>0, <2>3, <2>4, <2>5, <3>1, <3>2 DEF MissedSoon, Missed
    <3>3. CASE size # Capacity
      BY <1>0, <2>3, <2>4, <2>5, <3>1, <3>3 DEF MissedSoon, Missed
    <3> QED
      BY <3>2, <3>3
  <2>6. ASSUME pc \notin PopWindow PROVE MissedSoon' <= hits'
    <3>1. size # Capacity
      BY <1>1, <2>1, <2>3, <2>6 DEF NoneInvented, Missed, held
    <3>2. hits' = hits
      BY <1>0, <2>6
    <3> QED
      BY <1>0, <2>3, <2>4, <2>6, <3>1, <3>2 DEF MissedSoon, Missed
  <2> QED
    BY <2>1, <2>2, <2>5, <2>6
<1> QED
  BY <1>2, <1>3, <1>4, <1>5, <1>6, <1>7 DEF IInv

-----------------------------------------------------------------------------
(* Steps of the main loop that leave the ring and the ghosts alone.        *)

(* What they all leave as it is.                                           *)
LEMMA Steady ==
    ASSUME UNCHANGED <<base, buff, first, last, pushed, taken, overrun>>,
           pc \notin HalfStored, pc' \notin HalfStored
    PROVE  /\ Sound' <=> Sound
           /\ Written => Written'
           /\ Contents => Contents'
           /\ TypeOK => /\ base' \in Bases /\ buff' \in [Offsets -> 0 .. MaxBytes]
                        /\ first' \in Int /\ last' \in Offsets
                        /\ Sound' => first' \in Offsets
                        /\ rfirst' = rfirst => /\ rfirst' \in Int
                                               /\ Sound' => rfirst' \in Offsets
<1>1. Front' = Front /\ held' = held
  BY DEF Front, held
<1>2. OnePage' <=> OnePage
  BY DEF OnePage
<1>3. Sound' <=> Sound
  BY <1>2 DEF Sound
<1>4. Written => Written'
  BY DEF Written
<1>5. Contents => Contents'
  BY <1>1 DEF Contents
<1>6. TypeOK => /\ base' \in Bases /\ buff' \in [Offsets -> 0 .. MaxBytes]
                /\ first' \in Int /\ last' \in Offsets
                /\ Sound' => first' \in Offsets
                /\ rfirst' = rfirst => /\ rfirst' \in Int
                                       /\ Sound' => rfirst' \in Offsets
  BY <1>3 DEF TypeOK
<1> QED
  BY <1>3, <1>4, <1>5, <1>6

(* Entering SerialPort::read preserves the invariant.                      *)
LEMMA CallOK == IInv /\ Call => IInv'
<1> SUFFICES ASSUME IInv, Call PROVE IInv'
  OBVIOUS
<1> USE DEF PopWindow, HalfStored
<1>0. /\ UNCHANGED <<base, buff, first, last, size, rsize, rfirst, val, pushed, taken,
                     overrun, hits, struck>>
      /\ pc = "idle" /\ pc' = "loop"
  BY DEF Call, ring, regs, ghosts
<1>1. TypeOK /\ TypeOK'
  BY <1>0, Steady DEF IInv, TypeOK
<1>2. SizeBehind' /\ Missed' = Missed /\ NoneInvented' /\ Written' /\ ItemReal'
  BY <1>0, Steady DEF IInv, SizeBehind, Missed, NoneInvented, ItemReal
<1>3. ASSUME ~overrun' PROVE Contents' /\ ItemInHand' /\ MissedSoon' <= hits'
  BY <1>0, <1>2, <1>3, Steady DEF IInv, ItemInHand, MissedSoon
<1> QED
  BY <1>1, <1>2, <1>3 DEF IInv

(* The loop's test preserves the invariant.                                *)
LEMMA LoadSizeOK == IInv /\ LoadSize => IInv'
<1> SUFFICES ASSUME IInv, LoadSize PROVE IInv'
  OBVIOUS
<1> USE DEF PopWindow, HalfStored
<1>0. /\ UNCHANGED <<base, buff, first, last, size, rfirst, val, pushed, taken,
                     overrun, hits, struck>>
      /\ pc = "loop" /\ rsize' = size
      /\ pc' = IF size = 0 THEN "idle" ELSE "pop"
  BY DEF LoadSize, ring, ghosts
<1>1. TypeOK' /\ TypeOK
  BY <1>0, Steady DEF IInv, TypeOK
<1>2. SizeBehind'
  BY <1>0, <1>1, Numbers DEF SizeBehind
<1>3. Missed' = Missed /\ NoneInvented'
  BY <1>0 DEF Missed, NoneInvented, IInv
<1>4. Written' /\ ItemReal'
  BY <1>0, Steady DEF IInv, ItemReal
<1>5. ASSUME ~overrun' PROVE Contents' /\ ItemInHand' /\ MissedSoon' <= hits'
  <2>1. Contents' /\ ItemInHand'
    BY <1>0, <1>5, Steady DEF IInv, ItemInHand
  <2>2. MissedSoon' <= hits'
    BY <1>0, <1>1, <1>3, <1>5, Numbers DEF IInv, MissedSoon
  <2> QED
    BY <2>1, <2>2
<1> QED
  BY <1>1, <1>2, <1>3, <1>4, <1>5 DEF IInv

(* pop_front's own test preserves the invariant, and never fails.          *)
LEMMA TestEmptyOK == IInv /\ TestEmpty => IInv' /\ pc' = "item"
<1> SUFFICES ASSUME IInv, TestEmpty PROVE IInv' /\ pc' = "item"
  OBVIOUS
<1> USE DEF PopWindow, HalfStored
<1>0. /\ UNCHANGED <<base, buff, first, last, size, rfirst, pushed, taken, overrun, hits>>
      /\ pc = "pop" /\ rsize' \in {rsize, size}
      /\ rsize' # 0 => pc' = "item" /\ val' = val /\ struck' = struck
  BY DEF TestEmpty, ring
<1>1. TypeOK /\ 1 <= rsize /\ rsize <= size
  BY <1>0 DEF IInv, SizeBehind
<1>2. 1 <= rsize' /\ rsize' <= size /\ rsize <= rsize'
      /\ pc' = "item" /\ val' = val /\ struck' = struck
  BY <1>0, <1>1, Numbers
<1>3. TypeOK'
  BY <1>0, <1>1, <1>2, Steady DEF TypeOK
<1>4. SizeBehind'
  BY <1>0, <1>2 DEF SizeBehind
<1>5. Missed' = Missed /\ NoneInvented'
  BY <1>0, <1>2 DEF Missed, NoneInvented, IInv
<1>6. Written' /\ ItemReal'
  BY <1>0, <1>2, Steady DEF IInv, ItemReal
<1>7. ASSUME ~overrun' PROVE Contents' /\ ItemInHand' /\ MissedSoon' <= hits'
  <2>1. Contents' /\ ItemInHand'
    BY <1>0, <1>2, <1>7, Steady DEF IInv, ItemInHand
  <2>2. MissedSoon <= hits /\ MissedSoon = Missed + (size - rsize)
        /\ MissedSoon' = Missed + (size - rsize')
    BY <1>0, <1>2, <1>5, <1>7 DEF IInv, MissedSoon
  <2>3. Missed \in Int
    BY <1>1, Numbers DEF Missed
  <2> QED
    BY <1>0, <1>1, <1>2, <2>1, <2>2, <2>3, Numbers
<1> QED
  BY <1>2, <1>3, <1>4, <1>5, <1>6, <1>7 DEF IInv

(* Steps on the copy of m_first, up to its increment.                      *)
LEMMA CopyOK ==
    ASSUME IInv, UNCHANGED <<ring, rsize, ghosts>>,
           pc \in {"item", "deref", "advance"}, pc' \in {"deref", "advance", "put"},
           rfirst' \in Int, Sound => rfirst' \in Offsets,
           val' \in Foreign .. MaxBytes,
           pc' \in {"advance", "put"} => (Sound => val' \in 1 .. pushed),
           ~overrun => /\ pc' \in {"deref", "advance"} => rfirst' = first
                       /\ pc' = "put" => rfirst' = Successor(first)
                       /\ pc' \in {"advance", "put"} => val' = taken + 1
    PROVE  IInv'
<1> USE DEF PopWindow, HalfStored
<1>0. UNCHANGED <<base, buff, first, last, size, rsize, pushed, taken, overrun, hits, struck>>
  BY DEF ring, ghosts
<1>1. TypeOK'
  BY <1>0, Steady DEF IInv, TypeOK
<1>2. SizeBehind' /\ Missed' = Missed /\ NoneInvented' /\ Written' /\ ItemReal'
  BY <1>0, Steady DEF IInv, SizeBehind, Missed, NoneInvented, ItemReal
<1>3. ASSUME ~overrun' PROVE Contents' /\ ItemInHand' /\ MissedSoon' <= hits'
  <2>1. Contents' /\ MissedSoon' <= hits'
    BY <1>0, <1>2, <1>3, Steady DEF IInv, MissedSoon
  <2>2. ItemInHand'
    BY <1>0, <1>3 DEF ItemInHand, Successor
  <2> QED
    BY <2>1, <2>2
<1> QED
  BY <1>1, <1>2, <1>3 DEF IInv

(* What holds before each of them.                                         *)
LEMMA CopyFacts ==
    ASSUME IInv, pc \in {"item", "deref", "advance", "put"}
    PROVE  /\ Sound => first \in Offsets /\ rfirst \in Offsets
           /\ first \in Int /\ rfirst \in Int /\ base \in Nat
           /\ held >= 1 /\ val \in Foreign .. MaxBytes
           /\ ~overrun => Sound
           /\ Successor(rfirst) \in Int /\ (Sound => Successor(rfirst) \in Offsets)
<1>1. Sound => first \in Offsets /\ rfirst \in Offsets
  BY DEF IInv, TypeOK, HalfStored
<1>2. first \in Int /\ rfirst \in Int /\ base \in Nat /\ val \in Foreign .. MaxBytes
      /\ (~overrun => Sound)
  BY Numbers DEF IInv, Sound
<1>3. held >= 1
  BY Numbers DEF IInv, SizeBehind, NoneInvented, Missed, held, PopWindow
<1>4. Successor(rfirst) \in Int /\ (Sound => Successor(rfirst) \in Offsets)
  BY <1>1, <1>2, OffsetFacts DEF Successor
<1> QED
  BY <1>1, <1>2, <1>3, <1>4

(* Loading m_first preserves the invariant ...                             *)
LEMMA LoadFirstOK == IInv /\ LoadFirst => IInv'
<1> SUFFICES ASSUME IInv, LoadFirst PROVE IInv'
  OBVIOUS
<1>1. /\ UNCHANGED <<ring, rsize, ghosts>> /\ val' = val /\ rfirst' = first
      /\ pc = "item" /\ pc' = "deref"
  BY DEF LoadFirst
<1> QED
  BY <1>1, CopyFacts, CopyOK

(* ... and so does loading a half of it again: the interrupt has moved it  *)
(* only if it overwrote an unread byte.                                    *)
LEMMA LoadHalfOK == IInv /\ LoadHalf => IInv'
<1> SUFFICES ASSUME IInv, LoadHalf PROVE IInv'
  OBVIOUS
<1>1. /\ UNCHANGED <<ring, rsize, ghosts>> /\ val' = val /\ pc' = pc
      /\ pc \in {"deref", "advance"}
      /\ rfirst' = Mix(rfirst, first) \/ rfirst' = Mix(first, rfirst)
  BY DEF LoadHalf
<1>2. /\ Sound => first \in Offsets /\ rfirst \in Offsets
      /\ first \in Int /\ rfirst \in Int /\ base \in Nat
  BY <1>1, CopyFacts
<1>3. ~overrun => rfirst = first
  BY <1>1 DEF IInv, ItemInHand
<1>4. ~overrun => rfirst' = first
  BY <1>1, <1>2, <1>3, MixFacts
<1>5. Sound => rfirst' \in Offsets
  <2>1. CASE overrun /\ Sound
    <3>1. OnePage
      BY <2>1 DEF Sound
    <3> QED
      BY <1>1, <1>2, <2>1, <3>1, MixOnePage
  <2>2. CASE ~overrun
    BY <1>2, <1>4, <2>2
  <2> QED
    BY <2>1, <2>2
<1>6. rfirst' \in Int
  BY <1>1, <1>2, MixFacts
<1>7. /\ val \in Foreign .. MaxBytes
      /\ pc = "advance" => (Sound => val \in 1 .. pushed)
      /\ ~overrun /\ pc = "advance" => val = taken + 1
  BY <1>1, CopyFacts DEF IInv, ItemReal, ItemInHand
<1> QED
  BY <1>1, <1>4, <1>5, <1>6, <1>7, CopyOK

(* Reading the item preserves the invariant: the storage was written       *)
(* before.                                                                 *)
LEMMA ReadItemOK == IInv /\ ReadItem => IInv'
<1> SUFFICES ASSUME IInv, ReadItem PROVE IInv'
  OBVIOUS
<1>1. /\ UNCHANGED <<ring, rsize, ghosts>> /\ rfirst' = rfirst
      /\ pc = "deref" /\ pc' = "advance" /\ val' = At(rfirst)
  BY DEF ReadItem
<1>2. /\ Sound => first \in Offsets /\ rfirst \in Offsets
      /\ rfirst \in Int /\ held >= 1 /\ (~overrun => Sound)
  BY <1>1, CopyFacts
<1>3. buff \in [Offsets -> 0 .. MaxBytes] /\ pushed \in Nat /\ taken \in Nat
      /\ MaxBytes \in Nat /\ held = pushed - taken
  BY Numbers DEF IInv, held
<1>4. val' \in Foreign .. MaxBytes
  BY <1>1, <1>3 DEF At, Foreign
<1>5. ASSUME ~overrun PROVE rfirst = first /\ val' = taken + 1
  <2>1. Contents /\ rfirst = first /\ Front = first
    BY <1>1, <1>5 DEF IInv, ItemInHand, Front, HalfStored
  <2>2. first \in Offsets /\ Wrap(first + 0) = first /\ 0 \in Offsets /\ 0 < held
    BY <1>2, <1>3, <1>5, WrapRound, OffsetFacts
  <2>3. buff[Wrap(first + 0)] = taken + 1 + 0
    BY <2>1, <2>2 DEF Contents
  <2> QED
    BY <1>1, <1>3, <2>1, <2>2, <2>3 DEF At
<1>6. ASSUME Sound PROVE val' \in 1 .. pushed
  <2>1. rfirst \in Offsets /\ val' = buff[rfirst] /\ buff[rfirst] <= pushed
        /\ buff[rfirst] \in Nat
    BY <1>1, <1>2, <1>3, <1>6 DEF At, IInv, Written
  <2>2. CASE overrun
    <3>1. pushed >= Capacity /\ rfirst < Capacity /\ rfirst \in Int /\ Capacity \in Nat
      BY <2>1, <2>2, OffsetFacts DEF IInv, Written
    <3>2. rfirst < pushed
      BY <1>3, <3>1
    <3>3. buff[rfirst] # None
      BY <2>1, <3>2 DEF IInv, Written
    <3> QED
      BY <1>3, <2>1, <3>3 DEF None
  <2>3. CASE ~overrun
    BY <1>2, <1>3, <1>5, <2>1, <2>3
  <2> QED
    BY <2>2, <2>3
<1> QED
  BY <1>1, <1>2, <1>4, <1>5, <1>6, CopyOK

(* Computing the incremented pointer preserves the invariant.              *)
LEMMA IncrementOK == IInv /\ Increment => IInv'
<1> SUFFICES ASSUME IInv, Increment PROVE IInv'
  OBVIOUS
<1>1. /\ UNCHANGED <<ring, rsize, ghosts>> /\ val' = val /\ rfirst' = Successor(rfirst)
      /\ pc = "advance" /\ pc' = "put"
  BY DEF Increment
<1>2. /\ val \in Foreign .. MaxBytes
      /\ Successor(rfirst) \in Int /\ (Sound => Successor(rfirst) \in Offsets)
  BY <1>1, CopyFacts
<1>3. /\ Sound => val \in 1 .. pushed
      /\ ~overrun => rfirst = first /\ val = taken + 1
  BY <1>1 DEF IInv, ItemReal, ItemInHand, HalfStored
<1> QED
  BY <1>1, <1>2, <1>3, CopyOK

(* Storing the first half preserves the invariant: the old pointer can     *)
(* still be told from the new one.                                         *)
LEMMA StoreHalfOK == IInv /\ StoreHalf => IInv'
<1> SUFFICES ASSUME IInv, StoreHalf PROVE IInv'
  OBVIOUS
<1> USE DEF PopWindow, HalfStored
<1>0. /\ UNCHANGED <<base, buff, last, size, rsize, rfirst, val, pushed, taken,
                     overrun, hits, struck>>
      /\ pc = "put"
      /\ \/ first' = Mix(rfirst, first) /\ pc' = "put_high"
         \/ first' = Mix(first, rfirst) /\ pc' = "put_low"
  BY DEF StoreHalf, regs, ghosts
<1>1. /\ Sound => first \in Offsets /\ rfirst \in Offsets
      /\ first \in Int /\ rfirst \in Int /\ base \in Nat /\ (~overrun => Sound)
  BY <1>0, CopyFacts
<1>2. (Sound' <=> Sound) /\ (OnePage' <=> OnePage)
  BY <1>0 DEF Sound, OnePage
<1>3. TypeOK'
  <2>1. first' \in Int
    BY <1>0, <1>1, MixFacts
  <2>2. Sound /\ OnePage => first' \in Offsets
    BY <1>0, <1>1, MixOnePage
  <2> QED
    BY <1>0, <1>2, <2>1, <2>2 DEF IInv, TypeOK
<1>4. SizeBehind' /\ Missed' = Missed /\ NoneInvented' /\ Written' /\ ItemReal'
  BY <1>0, <1>2 DEF IInv, SizeBehind, Missed, NoneInvented, Written, ItemReal
<1>5. ASSUME ~overrun' PROVE Contents' /\ ItemInHand' /\ MissedSoon' <= hits'
  <2>1. Contents /\ MissedSoon <= hits /\ rfirst = Successor(first) /\ val = taken + 1
    BY <1>0, <1>5 DEF IInv, ItemInHand
  <2>2. first \in Offsets /\ Pred(rfirst) = first
    BY <1>0, <1>1, <1>5, <2>1, PredFacts
  <2>3. Front' = Front
    BY <1>0, <2>2 DEF Front, Pred
  <2>4. Contents'
    BY <1>0, <2>1, <2>3 DEF Contents, held
  <2>5. ItemInHand'
    BY <1>0, <2>1, <2>2 DEF ItemInHand, Mix, Pred
  <2>6. MissedSoon' <= hits'
    BY <1>0, <1>4, <2>1 DEF MissedSoon
  <2> QED
    BY <2>4, <2>5, <2>6
<1> QED
  BY <1>3, <1>4, <1>5 DEF IInv

(* Moving m_first on preserves the invariant, and what m_size misses.      *)
LEMMA AdvanceOK == IInv /\ Advance => IInv' /\ Missed' = Missed
<1> SUFFICES ASSUME IInv, Advance PROVE IInv' /\ Missed' = Missed
  OBVIOUS
<1> USE DEF PopWindow, HalfStored
<1>0. /\ UNCHANGED <<base, buff, last, size, rsize, val, pushed, overrun, hits, struck>>
      /\ pc' = "dec" /\ rfirst' = 0 /\ taken' = taken + 1
      /\ \/ pc = "put_high" /\ first' = Mix(first, rfirst)
         \/ pc = "put_low" /\ first' = Mix(rfirst, first)
  BY DEF Advance
<1>1. TypeOK /\ 1 <= rsize /\ rsize <= size /\ NoneInvented
  BY <1>0 DEF IInv, SizeBehind
<1>2. held >= 1 /\ taken + 1 <= pushed
  BY <1>0, <1>1, Numbers DEF NoneInvented, Missed, held
<1>3. Missed' = Missed /\ held' = held - 1
  BY <1>0, <1>1, Numbers DEF Missed, held
<1>4. first \in Int /\ rfirst \in Int /\ base \in Nat /\ 0 \in Offsets
  BY <1>1, Numbers, OffsetFacts
<1>5. ASSUME ~overrun
      PROVE  rfirst \in Offsets /\ Front \in Offsets /\ rfirst = Successor(Front)
             /\ first' = rfirst
  <2>1. rfirst \in Offsets /\ Front = Pred(rfirst) /\ Front \in Offsets
    BY <1>0, <1>1, <1>5, FrontFacts DEF Front
  <2>2. Pred(rfirst) \in Int /\ Successor(Pred(rfirst)) = rfirst
    BY <2>1, PredFacts, OffsetFacts
  <2>3. CASE pc = "put_high"
    <3>1. first = Mix(rfirst, Pred(rfirst)) /\ first' = Mix(first, rfirst)
      BY <1>0, <1>5, <2>3 DEF IInv, ItemInHand
    <3> QED
      BY <1>4, <2>1, <2>2, <3>1, MixFacts
  <2>4. CASE pc = "put_low"
    <3>1. first = Mix(Pred(rfirst), rfirst) /\ first' = Mix(rfirst, first)
      BY <1>0, <1>5, <2>4 DEF IInv, ItemInHand
    <3> QED
      BY <1>4, <2>1, <2>2, <3>1, MixFacts
  <2> QED
    BY <1>0, <2>3, <2>4
<1>6. (Sound' <=> Sound) /\ (OnePage' <=> OnePage)
  BY <1>0 DEF Sound, OnePage
<1>7. TypeOK'
  <2>1. first' \in Int
    BY <1>0, <1>4, MixFacts
  <2>2. Sound => first' \in Offsets
    <3>1. CASE ~overrun
      BY <1>5, <3>1
    <3>2. CASE Sound /\ overrun
      <4>1. OnePage /\ first \in Offsets /\ rfirst \in Offsets
        BY <1>0, <1>1, <3>2 DEF Sound, TypeOK
      <4> QED
        BY <1>0, <1>4, <4>1, MixOnePage
    <3> QED
      BY <3>1, <3>2
  <2>3. taken' \in 0 .. MaxBytes
    BY <1>0, <1>1, <1>2, Numbers
  <2> QED
    BY <1>0, <1>1, <1>4, <1>6, <2>1, <2>2, <2>3 DEF TypeOK
<1>8. SizeBehind' /\ NoneInvented' /\ Written' /\ ItemReal'
  BY <1>0, <1>3, <1>6 DEF IInv, SizeBehind, NoneInvented, Written, ItemReal
<1>9. ASSUME ~overrun' PROVE Contents' /\ ItemInHand' /\ MissedSoon' <= hits'
  <2>1. Contents /\ ItemInHand /\ MissedSoon <= hits
    BY <1>0, <1>9 DEF IInv
  <2>2. first' = Successor(Front) /\ Front' = first' /\ val = taken + 1
    BY <1>0, <1>5, <1>9, <2>1 DEF ItemInHand, Front
  <2>3. Front \in Offsets /\ held \in 0 .. Capacity /\ held > 0 /\ taken \in Nat
    BY <1>0, <1>1, <1>2, <1>5, <1>9, <2>1, Numbers, OffsetFacts DEF Contents
  <2>4. last' = Wrap(Front' + held')
    BY <1>0, <1>3, <2>1, <2>2, <2>3, WrapFacts DEF Contents
  <2>5. ASSUME NEW i \in Offsets, i < held'
        PROVE  buff'[Wrap(Front' + i)] = taken' + 1 + i
    <3>1. /\ i \in Int /\ 0 <= i /\ i + 1 < Capacity + 1 /\ i + 1 < held + 1
          /\ Capacity \in Nat /\ held <= Capacity
      BY <1>3, <2>3, <2>5, OffsetFacts
    <3>2. i + 1 \in 0 .. Capacity /\ i + 1 > 0 /\ (i + 1) - 1 = i /\ i + 1 < held
      BY <1>3, <2>3, <2>5, <3>1
    <3>3. i + 1 \in Offsets
      BY <2>3, <3>1, <3>2 DEF Offsets
    <3>4. Wrap(Successor(Front) + i) = Wrap(Front + (i + 1))
      BY <2>3, <3>2, WrapFacts
    <3>5. buff[Wrap(Front + (i + 1))] = taken + 1 + (i + 1)
      BY <2>1, <3>2, <3>3 DEF Contents
    <3>6. taken + 1 + (i + 1) = taken' + 1 + i
      BY <1>0, <2>3, <3>1
    <3> QED
      BY <1>0, <2>2, <3>4, <3>5, <3>6
  <2>6. held' <= Capacity
    BY <1>3, <2>3, OffsetFacts
  <2>7. ItemInHand' /\ MissedSoon' <= hits'
    BY <1>0, <1>3, <2>1, <2>2 DEF ItemInHand, MissedSoon
  <2> QED
    BY <2>4, <2>5, <2>6, <2>7 DEF Contents
<1> QED
  BY <1>3, <1>7, <1>8, <1>9 DEF IInv

(* The load of --m_size preserves the invariant.                           *)
LEMMA LoadAgainOK == IInv /\ LoadAgain => IInv'
<1> SUFFICES ASSUME IInv, LoadAgain PROVE IInv'
  OBVIOUS
<1> USE DEF PopWindow, HalfStored
<1>0. /\ UNCHANGED <<base, buff, first, last, size, rfirst, val, pushed, taken,
                     overrun, hits, struck>>
      /\ pc = "dec" /\ pc' = "store" /\ rsize' \in {rsize, size}
  BY DEF LoadAgain, ring, ghosts
<1>1. TypeOK /\ 1 <= rsize /\ rsize <= size
  BY <1>0 DEF IInv, SizeBehind
<1>2. 1 <= rsize' /\ rsize' <= size /\ rsize <= rsize'
  BY <1>0, <1>1, Numbers
<1>3. TypeOK'
  BY <1>0, <1>1, <1>2, Steady DEF TypeOK
<1>4. SizeBehind' /\ Missed' = Missed /\ NoneInvented' /\ Written' /\ ItemReal'
  BY <1>0, <1>2, Steady DEF IInv, SizeBehind, Missed, NoneInvented, ItemReal
<1>5. ASSUME ~overrun' PROVE Contents' /\ ItemInHand' /\ MissedSoon' <= hits'
  <2>1. Contents' /\ ItemInHand'
    BY <1>0, <1>5, Steady DEF IInv, ItemInHand
  <2>2. MissedSoon <= hits /\ MissedSoon = Missed + (size - rsize)
        /\ MissedSoon' = Missed + (size - rsize')
    BY <1>0, <1>4, <1>5 DEF IInv, MissedSoon
  <2>3. Missed \in Int
    BY <1>1, Numbers DEF Missed
  <2> QED
    BY <1>0, <1>1, <1>2, <2>1, <2>2, <2>3, Numbers
<1> QED
  BY <1>3, <1>4, <1>5 DEF IInv

(* The store of --m_size preserves the invariant; what m_size misses can   *)
(* only grow.                                                              *)
LEMMA StoreSizeOK == IInv /\ StoreSize => IInv' /\ Missed' >= Missed
<1> SUFFICES ASSUME IInv, StoreSize PROVE IInv' /\ Missed' >= Missed
  OBVIOUS
<1> USE DEF PopWindow, HalfStored
<1>0. /\ UNCHANGED <<base, buff, first, last, rfirst, val, pushed, taken, overrun, hits>>
      /\ pc = "store" /\ pc' = "deliver" /\ size' = (rsize - 1) % 256
      /\ rsize' = 0 /\ struck' = 0
  BY DEF StoreSize
<1>1. TypeOK /\ 1 <= rsize /\ rsize <= size
  BY <1>0 DEF IInv, SizeBehind
<1>2. size' = rsize - 1
  BY <1>0, <1>1, Numbers, OffsetFacts
<1>3. Missed' = Missed + (size - rsize)
  BY <1>0, <1>1, <1>2, Numbers DEF Missed
<1>4. Missed \in Int /\ size \in Int /\ rsize \in Int
  BY <1>1, Numbers DEF Missed
<1>5. TypeOK'
  <2>1. size' \in 0 .. Capacity /\ 0 \in 0 .. Capacity /\ 0 \in 0 .. Burst
    BY <1>1, <1>2, Numbers, OffsetFacts
  <2> QED
    BY <1>0, <1>1, <2>1, Steady DEF TypeOK
<1>6. Missed' >= Missed
  BY <1>1, <1>3, <1>4
<1>7. NoneInvented'
  BY <1>4, <1>6, <1>3 DEF IInv, NoneInvented
<1>8. SizeBehind' /\ Written' /\ ItemReal'
  BY <1>0, Steady DEF IInv, SizeBehind, ItemReal
<1>9. ASSUME ~overrun' PROVE Contents' /\ ItemInHand' /\ MissedSoon' <= hits'
  <2>1. Contents' /\ ItemInHand'
    BY <1>0, <1>9, Steady DEF IInv, ItemInHand
  <2>2. MissedSoon <= hits /\ MissedSoon = Missed + (size - rsize)
        /\ MissedSoon' = Missed' + 0
    BY <1>0, <1>9 DEF IInv, MissedSoon
  <2> QED
    BY <1>0, <1>3, <1>4, <2>1, <2>2
<1> QED
  BY <1>5, <1>6, <1>7, <1>8, <1>9 DEF IInv

(* Handing the byte on preserves the invariant.                            *)
LEMMA DeliverOK == IInv /\ Deliver => IInv'
<1> SUFFICES ASSUME IInv, Deliver PROVE IInv'
  OBVIOUS
<1> USE DEF PopWindow, HalfStored
<1>0. /\ UNCHANGED <<base, buff, first, last, size, rsize, rfirst, pushed, taken,
                     overrun, hits, struck>>
      /\ pc = "deliver" /\ pc' \in {"idle", "loop"} /\ val' = None
  BY DEF Deliver, ring, ghosts
<1>1. TypeOK'
  BY <1>0, Steady, Numbers DEF IInv, TypeOK, None, Foreign
<1>2. SizeBehind' /\ Missed' = Missed /\ NoneInvented' /\ Written' /\ ItemReal'
  BY <1>0, Steady DEF IInv, SizeBehind, Missed, NoneInvented, ItemReal
<1>3. ASSUME ~overrun' PROVE Contents' /\ ItemInHand' /\ MissedSoon' <= hits'
  BY <1>0, <1>2, <1>3, Steady DEF IInv, ItemInHand, MissedSoon
<1> QED
  BY <1>1, <1>2, <1>3 DEF IInv

-----------------------------------------------------------------------------
(* Every step preserves the invariant, and what m_size misses never        *)
(* shrinks.                                                                *)
LEMMA NextOK == IInv /\ [Next]_vars => IInv' /\ Missed' >= Missed
<1> SUFFICES ASSUME IInv, [Next]_vars PROVE IInv' /\ Missed' >= Missed
  OBVIOUS
<1>0. Missed \in Int
  BY Numbers DEF IInv, Missed
<1>1. CASE UsartRx
  <2>1. IInv'
    BY <1>1, UsartRxOK
  <2>2. Missed' >= Missed
    BY <1>1, Numbers DEF IInv, UsartRx, Missed
  <2> QED
    BY <2>1, <2>2
<1>2. CASE Call
  <2>1. Missed' = Missed
    BY <1>2 DEF Call, ring, ghosts, Missed
  <2> QED
    BY <1>0, <1>2, <2>1, CallOK
<1>3. CASE LoadSize
  <2>1. Missed' = Missed
    BY <1>3 DEF LoadSize, ring, ghosts, Missed
  <2> QED
    BY <1>0, <1>3, <2>1, LoadSizeOK
<1>4. CASE TestEmpty
  <2>1. IInv' /\ pc = "pop" /\ pc' = "item"
    BY <1>4, TestEmptyOK DEF TestEmpty
  <2>2. Missed' = Missed
    BY <1>4, <2>1 DEF TestEmpty, ring, Missed
  <2> QED
    BY <1>0, <2>1, <2>2
<1>5. CASE LoadFirst \/ LoadHalf \/ ReadItem \/ Increment \/ StoreHalf
  <2>1. Missed' = Missed
    BY <1>5 DEF LoadFirst, LoadHalf, ReadItem, Increment, StoreHalf, ring, ghosts, Missed
  <2> QED
    BY <1>0, <1>5, <2>1, LoadFirstOK, LoadHalfOK, ReadItemOK, IncrementOK, StoreHalfOK
<1>6. CASE Advance
  BY <1>0, <1>6, AdvanceOK
<1>7. CASE LoadAgain
  <2>1. Missed' = Missed
    BY <1>7 DEF LoadAgain, ring, ghosts, Missed
  <2> QED
    BY <1>0, <1>7, <2>1, LoadAgainOK
<1>8. CASE StoreSize
  BY <1>8, StoreSizeOK
<1>9. CASE Deliver
  <2>1. Missed' = Missed
    BY <1>9 DEF Deliver, ring, ghosts, Missed
  <2> QED
    BY <1>0, <1>9, <2>1, DeliverOK
<1>10. CASE UNCHANGED vars
  <2>1. /\ UNCHANGED <<base, buff, first, last, size, rsize, rfirst, val, pc, pushed, taken,
                       overrun, hits, struck>>
    BY <1>10 DEF vars, ring, regs, ghosts
  <2>2. (Sound' <=> Sound) /\ (OnePage' <=> OnePage) /\ Front' = Front /\ held' = held
    BY <2>1 DEF Sound, OnePage, Front, Pred, held
  <2>3. TypeOK' /\ Written' /\ ItemReal' /\ SizeBehind'
    BY <2>1, <2>2 DEF IInv, TypeOK, Written, ItemReal, SizeBehind
  <2>4. Missed' = Missed /\ MissedSoon' = MissedSoon /\ NoneInvented'
    BY <2>1 DEF IInv, Missed, MissedSoon, NoneInvented
  <2>5. ~overrun' => Contents' /\ ItemInHand'
    BY <2>1, <2>2 DEF IInv, Contents, ItemInHand, Mix, Pred, Successor
  <2> QED
    BY <1>0, <2>1, <2>3, <2>4, <2>5 DEF IInv
<1> QED
  BY <1>1, <1>2, <1>3, <1>4, <1>5, <1>6, <1>7, <1>8, <1>9, <1>10 DEF Next

(* The invariant holds in every interleaving.                              *)
THEOREM Invariant == Spec => []IInv
  BY InitOK, NextOK, PTL DEF Spec

(* m_size stays within 0..capacity wherever the interrupts fall, and the   *)
(* pointers within the storage, but for an m_first that is half written,   *)
(* or whose halves are of two pointers after an overrun.                   *)
THEOREM TypeCorrect == Spec => []TypeOK
  BY Invariant, PTL DEF IInv

(* As long as no unread byte is overwritten, SerialPort::read sees the     *)
(* bytes in their order, none skipped and none twice.                      *)
THEOREM ReadsInOrder == Spec => []InOrder
<1>1. IInv => InOrder
  BY DEF IInv, ItemInHand, InOrder
<1> QED
  BY <1>1, Invariant, PTL

(* pop_front never fails after the loop's test succeeded, and hands out    *)
(* bytes that came and nothing else; after an overrun only where m_first   *)
(* cannot be torn between two high bytes.                                  *)
THEOREM NeverPhantom == Spec => []NoPhantomByte
<1>1. IInv => NoPhantomByte
  BY DEF IInv, ItemReal, NoPhantomByte, HalfStored
<1> QED
  BY <1>1, Invariant, PTL

(* Each interrupt inside a pop_front costs m_size at most one byte.        *)
THEOREM StuckBytesBounded == Spec => []StuckAtMostHits
<1>1. IInv => StuckAtMostHits
  <2> SUFFICES ASSUME IInv, ~overrun PROVE Missed <= hits
    BY DEF StuckAtMostHits
  <2>1. MissedSoon <= hits /\ SizeBehind /\ TypeOK
    BY DEF IInv
  <2>2. /\ pushed \in Nat /\ taken \in Nat /\ size \in Nat /\ rsize \in Nat /\ hits \in Nat
        /\ Missed \in Int
    BY <2>1, Numbers DEF Missed
  <2>3. CASE pc \in PopWindow
    BY <2>1, <2>2, <2>3 DEF SizeBehind, MissedSoon
  <2>4. CASE pc \notin PopWindow
    BY <2>1, <2>2, <2>4 DEF MissedSoon
  <2> QED
    BY <2>3, <2>4
<1> QED
  BY <1>1, Invariant, PTL

(* What m_size has lost it does not get back, unless an unread byte is     *)
(* overwritten.                                                            *)
THEOREM OnlyOverrunHeals == Spec => OnlyOverrunHealsDrift
<1>1. IInv /\ [Next]_vars => [~overrun' => Missed' >= Missed]_vars
  BY NextOK
<1> QED
  BY <1>1, Invariant, PTL DEF Spec, OnlyOverrunHealsDrift

(* One extra byte after a frame makes up for one interrupt: the frame's    *)
(* own bytes all reach the message buffer.                                 *)
THEOREM OneByteCoversOneHit == Spec => []OneExtraByteCoversOneHit
<1>1. IInv => OneExtraByteCoversOneHit
  <2> SUFFICES ASSUME IInv, pc = "idle", size = 0, ~overrun, hits <= 1
               PROVE  Delivered
    BY DEF OneExtraByteCoversOneHit
  <2>1. MissedSoon <= hits /\ TypeOK
    BY DEF IInv
  <2>2. pushed \in Nat /\ taken \in Nat /\ hits \in Nat /\ Frame \in Nat /\ Frame # 0
    BY <2>1, Numbers, SerialAssumption DEF SerialAssumption
  <2>3. taken >= pushed - 1
    BY <2>1, <2>2 DEF MissedSoon, Missed, PopWindow, HalfStored
  <2>4. Frame * (pushed \div Frame) <= pushed /\ Frame * (pushed \div Frame) \in Int
    BY <2>2, Z3
  <2> QED
    BY <2>2, <2>3, <2>4 DEF Delivered
<1> QED
  BY <1>1, Invariant, PTL
=============================================================================
