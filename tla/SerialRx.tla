------------------------------ MODULE SerialRx ------------------------------
(***************************************************************************)
(* The one ring buffer of the firmware that two contexts share:            *)
(* s_rx_buffer (serial.cpp) is filled by the receive interrupt and emptied *)
(* by SerialPort::read in the main loop, with no lock, no disabled         *)
(* interrupts and no volatile field.  The interrupt handler runs to its    *)
(* end between any two memory accesses of the main loop; the main loop     *)
(* works on copies of m_size and m_first that may be stale by then.        *)
(*                                                                         *)
(* Where the build may either reuse a copy it holds in a register or load  *)
(* the field again, both happen.  m_first has two bytes on the eight bit   *)
(* AVR and is loaded and stored one half after the other, in either order. *)
(* A pointer is counted from m_buff here; with halves of two pointers in   *)
(* it, it points anywhere.  The accepted bytes are numbered 1, 2, .. so    *)
(* that what the main loop gets can be compared with what arrived.         *)
(***************************************************************************)
EXTENDS Integers

CONSTANTS Capacity,  \* of s_rx_buffer, 128 in the firmware
          Bases,     \* where malloc may put the storage
          Frame,     \* bytes the router sends per command, its '\n' included
          Burst,     \* bytes that can arrive while one pop_front runs: 1 at
                     \* 57600 baud and 16 MHz, 2778 cycles to a byte
          MaxBytes   \* bound: bytes that arrive in a behaviour

ASSUME SerialAssumption ==
    /\ Capacity \in 2 .. 255
    /\ Bases \subseteq Nat
    /\ Frame \in Nat \ {0}
    /\ Burst \in Nat
    /\ MaxBytes \in Nat

VARIABLES base,                     \* m_buff
          buff, first, last, size,  \* what is stored there, and the fields
          pc,                       \* where SerialPort::read is
          rsize, rfirst, val,       \* its copies of m_size, m_first; the item
          pushed, taken,            \* ghosts: bytes accepted and bytes popped
          overrun,                  \* ghost: an unread byte was overwritten
          hits, struck              \* ghosts: interrupts inside any pop_front,
                                    \* and inside the one that runs

ring == <<base, buff, first, last, size>>
regs == <<rsize, rfirst, val>>
ghosts == <<pushed, taken, overrun, hits, struck>>
vars == <<ring, regs, pc, ghosts>>

Offsets == 0 .. Capacity - 1
None    == 0   \* what malloc left in the storage, and the value of a failed pop
Foreign == -1  \* what is in the memory around the storage

Successor(p) == IF p + 1 = Capacity THEN 0 ELSE p + 1

(* The pointer that has its low byte from lo and its high byte from hi.    *)
Mix(lo, hi) == 256 * ((base + hi) \div 256) + ((base + lo) % 256) - base

(* All addresses of the storage have the same high byte.                   *)
OnePage == base \div 256 = (base + Capacity - 1) \div 256

(* Between the last look at m_size and the write of the decremented value, *)
(* and in that time, with one half of m_first written.                     *)
HalfStored == {"put_low", "put_high"}
PopWindow  == {"pop", "item", "deref", "advance", "put", "dec", "store"} \cup HalfStored

-----------------------------------------------------------------------------
Init ==
    /\ base \in Bases
    /\ buff = [p \in Offsets |-> None]
    /\ first = 0 /\ last = 0 /\ size = 0
    /\ pc = "idle"
    /\ rsize = 0 /\ rfirst = 0 /\ val = None
    /\ pushed = 0 /\ taken = 0
    /\ overrun = FALSE
    /\ hits = 0 /\ struck = 0

(* Faulty variants of the handler: the full buffer is noticed one byte     *)
(* late; the byte is stored but not counted.                               *)
UsartRxWith(newsize) ==
    /\ pushed < MaxBytes
    /\ buff' = [buff EXCEPT ![last] = pushed + 1]
    /\ last' = Successor(last)
    /\ size' = newsize
    /\ pushed' = pushed + 1
    /\ overrun' = (overrun \/ pushed - taken >= Capacity)
    /\ \/ pc \in PopWindow /\ struck < Burst /\ hits' = hits + 1 /\ struck' = struck + 1
       \/ pc \notin PopWindow /\ UNCHANGED <<hits, struck>>
    /\ UNCHANGED <<base, first, regs, pc, taken>>

UsartRxLate == UsartRxWith(IF size > Capacity THEN size ELSE size + 1)
UsartRxUncounted == UsartRxWith(size)

(* ISR(USART_RXC_vect) on a byte without parity error: push_back, atomic   *)
(* because interrupts are off in a handler.                                *)
UsartRx ==
    /\ pushed < MaxBytes
    /\ buff' = [buff EXCEPT ![last] = pushed + 1]
    /\ last' = Successor(last)
    /\ \/ size = Capacity /\ first' = last' /\ size' = size
       \/ size # Capacity /\ first' = first /\ size' = size + 1
    /\ pushed' = pushed + 1
    /\ overrun' = (overrun \/ pushed - taken >= Capacity)
    /\ \/ pc \in PopWindow /\ struck < Burst /\ hits' = hits + 1 /\ struck' = struck + 1
       \/ pc \notin PopWindow /\ UNCHANGED <<hits, struck>>
    /\ UNCHANGED <<base, regs, pc, taken>>

-----------------------------------------------------------------------------
(* SerialPort::read, one memory access at a time.                          *)

Call ==
    /\ pc = "idle"
    /\ pc' = "loop"
    /\ UNCHANGED <<ring, regs, ghosts>>

(* Faulty variant: the loop pops without looking.                          *)
LoadSizeUnguarded ==
    /\ pc = "loop"
    /\ rsize' = size
    /\ pc' = "pop"
    /\ UNCHANGED <<ring, rfirst, val, ghosts>>

(* while(!s_rx_buffer.empty()): loads m_size; an empty buffer ends the     *)
(* call with false.                                                        *)
LoadSize ==
    /\ pc = "loop"
    /\ rsize' = size
    /\ pc' = IF size = 0 THEN "idle" ELSE "pop"
    /\ UNCHANGED <<ring, rfirst, val, ghosts>>

(* pop_front's own test, on the copy of the loop or on a second load.      *)
TestEmpty ==
    /\ pc = "pop"
    /\ \E s \in {rsize, size} :
          /\ rsize' = s
          /\ IF s = 0 THEN pc' = "deliver" /\ val' = None
                      ELSE pc' = "item" /\ val' = val
          /\ struck' = IF s = 0 THEN 0 ELSE struck
    /\ UNCHANGED <<ring, rfirst, pushed, taken, overrun, hits>>

(* item = *m_first: the pointer is loaded ...                              *)
LoadFirst ==
    /\ pc = "item"
    /\ rfirst' = first
    /\ pc' = "deref"
    /\ UNCHANGED <<ring, rsize, val, ghosts>>

(* ... one half after the other, and perhaps again for increment(m_first): *)
(* an interrupt in between makes one half newer than the other.            *)
LoadHalf ==
    /\ pc \in {"deref", "advance"}
    /\ rfirst' \in {Mix(rfirst, first), Mix(first, rfirst)}
    /\ UNCHANGED <<ring, rsize, val, pc, ghosts>>

At(p) == IF p \in Offsets THEN buff[p] ELSE Foreign

(* Faulty variant: m_first is moved on before the item is read.            *)
ReadItemLate ==
    /\ pc = "deref"
    /\ val' = At(Successor(rfirst))
    /\ pc' = "advance"
    /\ UNCHANGED <<ring, rsize, rfirst, ghosts>>

ReadItem ==
    /\ pc = "deref"
    /\ val' = At(rfirst)
    /\ pc' = "advance"
    /\ UNCHANGED <<ring, rsize, rfirst, ghosts>>

(* increment(m_first), in registers, ...                                   *)
Increment ==
    /\ pc = "advance"
    /\ rfirst' = Successor(rfirst)
    /\ pc' = "put"
    /\ UNCHANGED <<ring, rsize, val, ghosts>>

(* ... and stored, one half ...                                            *)
StoreHalf ==
    /\ pc = "put"
    /\ \/ first' = Mix(rfirst, first) /\ pc' = "put_high"
       \/ first' = Mix(first, rfirst) /\ pc' = "put_low"
    /\ UNCHANGED <<base, buff, last, size, regs, ghosts>>

(* ... after the other.  Until then a byte that comes to a full buffer     *)
(* counts as one that overwrites the item.                                 *)
Advance ==
    /\ \/ pc = "put_high" /\ first' = Mix(first, rfirst)
       \/ pc = "put_low" /\ first' = Mix(rfirst, first)
    /\ rfirst' = 0
    /\ taken' = taken + 1
    /\ pc' = "dec"
    /\ UNCHANGED <<base, buff, last, size, rsize, val, pushed, overrun, hits, struck>>

(* --m_size is a load, unless the copy is reused ...                       *)
LoadAgain ==
    /\ pc = "dec"
    /\ rsize' \in {rsize, size}
    /\ pc' = "store"
    /\ UNCHANGED <<ring, rfirst, val, ghosts>>

(* Faulty variant: the item is taken but m_size stays.                     *)
StoreSizeKept ==
    /\ pc = "store"
    /\ size' = rsize
    /\ rsize' = 0
    /\ struck' = 0
    /\ pc' = "deliver"
    /\ UNCHANGED <<base, buff, first, last, rfirst, val, pushed, taken, overrun, hits>>

(* ... and a store of a uint8_t.                                           *)
StoreSize ==
    /\ pc = "store"
    /\ size' = (rsize - 1) % 256
    /\ rsize' = 0
    /\ struck' = 0
    /\ pc' = "deliver"
    /\ UNCHANGED <<base, buff, first, last, rfirst, val, pushed, taken, overrun, hits>>

(* p_msgBuf.push_back(val), validate(): the call returns true when the     *)
(* byte completes a message, else the loop goes on.                        *)
Deliver ==
    /\ pc = "deliver"
    /\ pc' \in {"idle", "loop"}
    /\ val' = None
    /\ UNCHANGED <<ring, rsize, rfirst, ghosts>>

Next ==
    \/ UsartRx
    \/ Call \/ LoadSize \/ TestEmpty
    \/ LoadFirst \/ LoadHalf \/ ReadItem \/ Increment \/ StoreHalf \/ Advance
    \/ LoadAgain \/ StoreSize \/ Deliver

Spec == Init /\ [][Next]_vars

-----------------------------------------------------------------------------
(* The interrupt moves m_first only when it overwrites an unread byte; if  *)
(* it then strikes between two halves, those may make a third pointer, but *)
(* not where all addresses of the storage share their high byte.           *)
Sound == overrun => OnePage

(* Wherever the interrupts fall, the uint8_t m_size never wraps below zero *)
(* and never passes the capacity.  The pointers stay in the storage, but   *)
(* for an m_first whose two halves are of two pointers: between its two    *)
(* stores, and after an overrun, if the storage crosses a 256 byte border. *)
TypeOK ==
    /\ base \in Bases
    /\ buff \in [Offsets -> 0 .. MaxBytes]
    /\ first \in Int /\ last \in Offsets /\ rfirst \in Int
    /\ Sound => rfirst \in Offsets
    /\ Sound /\ (pc \in HalfStored => OnePage) => first \in Offsets
    /\ size \in 0 .. Capacity /\ rsize \in 0 .. Capacity
    /\ pc \in {"idle", "loop", "deliver"} \cup PopWindow
    /\ val \in Foreign .. MaxBytes
    /\ pushed \in 0 .. MaxBytes /\ taken \in 0 .. MaxBytes
    /\ overrun \in BOOLEAN
    /\ hits \in 0 .. pushed /\ struck \in 0 .. Burst

(* While no unread byte was overwritten, read hands the bytes to the       *)
(* message buffer in the order they arrived, none skipped and none twice,  *)
(* even when the handler strikes inside pop_front.                         *)
InOrder == pc = "deliver" /\ ~overrun => val = taken

(* pop_front never reports the error value 0, and hands out no storage     *)
(* that was not written and no memory around it; after an overrun only if  *)
(* the storage crosses no 256 byte border.                                 *)
NoPhantomByte == pc = "deliver" /\ Sound => val \in 1 .. pushed

(* Bytes accepted that m_size does not account for: lost, or behind the    *)
(* reader's back until later bytes push them out.                          *)
Missed ==
    (pushed - taken) + (IF pc \in {"dec", "store"} THEN 1 ELSE 0) - size

(* m_size, once behind, does not catch up while no unread byte is          *)
(* overwritten.  What brings it in step again is a reset, or a byte that   *)
(* comes when it says full, which sets m_first = m_last over all the rest. *)
OnlyOverrunHealsDrift == [][~overrun' => Missed' >= Missed]_vars

(* Each interrupt inside a pop_front costs m_size at most one byte, and    *)
(* interrupts outside of it cost nothing.                                  *)
StuckAtMostHits == ~overrun => Missed <= hits

(* What the router's extra '\n' buys: when read finds nothing more and at  *)
(* most one interrupt ever struck a pop_front, every byte of every         *)
(* complete frame was delivered, but perhaps the last '\n'.                *)
Delivered == taken >= Frame * (pushed \div Frame) - 1

OneExtraByteCoversOneHit ==
    pc = "idle" /\ size = 0 /\ ~overrun /\ hits <= 1 => Delivered
=============================================================================
