------------------------- MODULE RouterPort_proofs -------------------------
(***************************************************************************)
(* The router's end of the serial line, for every frame length, every set  *)
(* of requests and answers, and any number of them and of faults.          *)
(***************************************************************************)
EXTENDS RouterPort, Frames_proofs

-----------------------------------------------------------------------------
(* Types.                                                                  *)

(* A byte of the AVR as the router gets it, and one in the message buffer. *)
Received == BytesOf(Answers) \cup {Damaged}
Buffered == BytesOf(Frame) \cup {Damaged}

TtyTypes ==
    /\ open \in BOOLEAN /\ alloc \in BOOLEAN /\ lossy \in BOOLEAN
    /\ faults \in 0 .. MaxFault /\ damage \in 0 .. MaxDamage /\ clobbers \in Nat

BufferTypes ==
    /\ mb \in Seq(Buffered) /\ Len(mb) <= FrameLen
    /\ ~alloc => mb = << >>
    /\ in \in Seq(Received)
    /\ pc \in {"idle", "read", "process"}

(* mp_process_message has a frame of the AVR, an open tty and storage.     *)
InHand == pc = "process" => Message \in Answers /\ open /\ alloc

FrameTypes ==
    /\ accepted \in Seq(Frame) /\ Len(accepted) <= MaxRequest + Len(heard)
    /\ said \in Seq(Answers) /\ Len(said) <= MaxAnswer
    /\ heard \in Seq(Answers)

Types == TtyTypes /\ BufferTypes /\ InHand /\ FrameTypes

LEMMA PortFacts ==
    /\ Requests \subseteq Frame /\ Answers \subseteq Frame
    /\ \A f \in Requests : f.type # "PONG"
    /\ MaxRequest \in Nat /\ MaxAnswer \in Nat /\ MaxFault \in Nat /\ MaxDamage \in Nat
    /\ FrameLen \in Nat \ {0} /\ FrameLen \in 0 .. FrameLen
    /\ Received \subseteq Buffered
  BY PortAssumption, FrameAssumption
     DEF PortAssumption, FrameAssumption, Received, Buffered, BytesOf

(* A damaged byte ends no frame.                                           *)
LEMMA DamagedFacts ==
    /\ Damaged \in Received /\ ~Final(Damaged)
    /\ \A b \in Received : Final(b) => b[1] \in Answers
  BY FrameAssumption
     DEF FrameAssumption, Received, Damaged, BytesOf, Final, Newline, Byte

LEMMA PongFacts ==
    ASSUME NEW f \in Frame, f.type = "PING"
    PROVE  Pong(f.arg) \in Frame /\ Pong(f.arg) = [f EXCEPT !.type = "PONG"]
<1>1. f \in [type : {"PING", "PONG"}, arg : Nat]
  BY DEF Frame
<1> QED
  BY <1>1 DEF Pong, Frame

LEMMA FrameBuffered ==
    ASSUME NEW f \in Frame
    PROVE  FrameBytes(f) \in Seq(Buffered) /\ Len(FrameBytes(f)) = FrameLen
<1>1. FrameBytes(f) \in Seq(BytesOf(Frame)) /\ Len(FrameBytes(f)) = FrameLen
  BY FrameBytesFacts
<1> QED
  BY <1>1 DEF Buffered

LEMMA TypesInit == Init => Types
<1> SUFFICES ASSUME Init PROVE Types
  OBVIOUS
<1>1. open \in BOOLEAN /\ alloc \in BOOLEAN /\ lossy \in BOOLEAN
  BY Zenon DEF Init
<1>2. TtyTypes
  BY <1>1, PortFacts DEF Init, TtyTypes
<1>3. BufferTypes /\ InHand /\ FrameTypes
  BY PortFacts DEF Init, BufferTypes, InHand, FrameTypes
<1> QED
  BY <1>2, <1>3 DEF Types

(* What mp_dispatch_message leaves behind.                                 *)
LEMMA DispatchTypes ==
    ASSUME Types, NEW f \in Frame, mp_dispatch_message(f)
    PROVE  /\ mb' \in Seq(Buffered) /\ Len(mb') <= FrameLen /\ (~alloc => mb' = << >>)
           /\ accepted' \in Seq(Frame)
           /\ Len(accepted') \in {Len(accepted), Len(accepted) + 1}
           /\ faults' \in 0 .. MaxFault
<1>1. mb' \in Seq(Buffered) /\ Len(mb') <= FrameLen /\ (~alloc => mb' = << >>)
  BY FrameBuffered, PortFacts DEF mp_dispatch_message
<1>2. accepted' \in {accepted, Append(accepted, f)}
  BY DEF mp_dispatch_message, sp_write, outgoing
<1>3. faults' \in 0 .. MaxFault
  BY PortFacts DEF mp_dispatch_message, sp_write, outgoing, Types, TtyTypes
<1>4. accepted \in Seq(Frame)
  BY DEF Types, FrameTypes
<1> QED
  BY <1>1, <1>2, <1>3, <1>4

(* sp_read gives mp_process_message a frame of the AVR.                    *)
LEMMA ReadFacts ==
    ASSUME Types, sp_read
    PROVE  /\ in # << >> /\ in' = Tail(in) /\ Head(in) \in Received /\ in' \in Seq(Received)
           /\ mb' \in Seq(Buffered) /\ Len(mb') <= FrameLen /\ (~alloc => mb' = << >>)
           /\ pc' \in {"process", "read"}
           /\ pc' = "process" => /\ Message' = Head(in)[1] /\ Final(Head(in))
                                 /\ Message' \in Answers /\ open /\ alloc
<1>1. /\ in # << >> /\ in' = Tail(in) /\ in \in Seq(Received)
      /\ mb \in Seq(Buffered) /\ Len(mb) <= FrameLen /\ (~alloc => mb = << >>)
      /\ mb' = mb_push(mb, Head(in)) /\ open
      /\ pc' = IF Valid(mb') THEN "process" ELSE "read"
  BY DEF sp_read, Types, BufferTypes
<1>2. Head(in) \in Received /\ Head(in) \in Buffered /\ in' \in Seq(Received)
  BY <1>1, PortFacts
<1>3. alloc => /\ mb' \in Seq(Buffered) /\ Len(mb') <= FrameLen /\ mb'[Len(mb')] = Head(in)
  BY <1>1, <1>2, PushFacts, PortFacts DEF mb_push, PushByte
<1>4. ~alloc => mb' = << >>
  BY <1>1 DEF mb_push
<1>5. ASSUME pc' = "process"
      PROVE  /\ Message' = Head(in)[1] /\ Final(Head(in)) /\ Message' \in Answers
             /\ open /\ alloc
  <2>1. Valid(mb')
    BY <1>1, <1>5
  <2>2. /\ Len(mb') = FrameLen /\ mb' # << >>
        /\ mb'[FrameLen] = <<mb'[1][1], FrameLen>> /\ Final(mb'[FrameLen])
    BY <2>1, ValidFacts
  <2>3. Head(in) = <<mb'[1][1], FrameLen>> /\ alloc
    BY <1>3, <1>4, <2>2
  <2> QED
    BY <1>1, <1>2, <2>2, <2>3, DamagedFacts DEF Message, Final
<1>6. mb' \in Seq(Buffered) /\ Len(mb') <= FrameLen
  <2>1. CASE alloc
    BY <1>3, <2>1
  <2>2. CASE ~alloc
    <3>1. mb' = << >> /\ 0 <= FrameLen
      BY <1>4, <2>2, PortFacts
    <3> QED
      BY <3>1
  <2> QED
    BY <2>1, <2>2
<1> QED
  BY <1>1, <1>2, <1>4, <1>5, <1>6

LEMMA TypesNext == Types /\ [Next]_vars => Types'
<1> SUFFICES ASSUME Types, [Next]_vars PROVE Types'
  OBVIOUS
<1>1. CASE UNCHANGED vars
  BY <1>1 DEF vars, tty, outgoing, incoming, Types, TtyTypes, BufferTypes, InHand,
              FrameTypes, Message
<1>2. CASE InitNoMemory \/ InitNoTty \/ mp_close
  <2>1. lossy' \in BOOLEAN /\ open' \in BOOLEAN /\ alloc' \in BOOLEAN
    BY <1>2, Zenon DEF InitNoMemory, InitNoTty, mp_close, Forgets, Types, TtyTypes
  <2>2. TtyTypes'
    BY <1>2, <2>1 DEF InitNoMemory, InitNoTty, mp_close, outgoing, Types, TtyTypes
  <2>3. /\ mb' = << >> /\ pc' = "idle"
        /\ UNCHANGED <<in, accepted, said, heard>>
    BY <1>2 DEF InitNoMemory, InitNoTty, mp_close, outgoing
  <2> QED
    BY <2>2, <2>3, PortFacts DEF Types, BufferTypes, InHand, FrameTypes
<1>3. CASE mp_init
  <2>1. lossy' \in BOOLEAN /\ open' \in BOOLEAN /\ alloc' \in BOOLEAN
    BY <1>3, Zenon DEF mp_init, Forgets
  <2>2. faults' \in 0 .. MaxFault
    BY <1>3, PortFacts DEF mp_init, Types, TtyTypes
  <2>3. TtyTypes'
    BY <1>3, <2>1, <2>2 DEF mp_init, Types, TtyTypes
  <2>4. /\ mb' = << >> /\ pc' = "idle" /\ UNCHANGED <<accepted, said, heard>>
    BY <1>3 DEF mp_init
  <2>5. in' \in Seq(Received)
    BY <1>3 DEF mp_init, Types, BufferTypes
  <2> QED
    BY <2>3, <2>4, <2>5, PortFacts DEF Types, BufferTypes, InHand, FrameTypes
<1>4. CASE Request
  <2>1. PICK f \in Requests :
           \/ /\ ~Refused(f)
              /\ mp_dispatch_message(f)
              /\ clobbers' = clobbers + (IF Partial(mb) THEN 1 ELSE 0)
           \/ /\ Refused(f)
              /\ UNCHANGED <<mb, outgoing, clobbers>>
    BY <1>4 DEF Request
  <2>2. /\ pc = "idle" /\ pc' = pc /\ Len(accepted) < MaxRequest
        /\ UNCHANGED <<open, alloc, in, said, heard, damage, lossy>>
    BY <1>4 DEF Request, tty
  <2>3. clobbers' \in Nat
    BY <2>1 DEF Types, TtyTypes
  <2>4. CASE mp_dispatch_message(f)
    <3>1. /\ mb' \in Seq(Buffered) /\ Len(mb') <= FrameLen /\ (~alloc => mb' = << >>)
          /\ accepted' \in Seq(Frame)
          /\ Len(accepted') \in {Len(accepted), Len(accepted) + 1}
          /\ faults' \in 0 .. MaxFault
      BY <2>4, DispatchTypes, PortFacts
    <3>2. Len(accepted) \in Nat /\ Len(heard) \in Nat
      BY DEF Types, FrameTypes
    <3>3. Len(accepted') <= MaxRequest + Len(heard)
      BY <2>2, <3>1, <3>2, PortFacts
    <3> QED
      BY <2>2, <2>3, <3>1, <3>3 DEF Types, TtyTypes, BufferTypes, InHand, FrameTypes
  <2>5. CASE UNCHANGED <<mb, outgoing, clobbers>>
    BY <2>2, <2>5 DEF outgoing, Types, TtyTypes, BufferTypes, InHand, FrameTypes
  <2> QED
    BY <2>1, <2>4, <2>5
<1>5. CASE Poll \/ ReadEnds
  BY <1>5 DEF Poll, ReadEnds, tty, outgoing, incoming, Types, TtyTypes, BufferTypes, InHand,
              FrameTypes
<1>6. CASE sp_read
  <2>1. lossy' \in BOOLEAN
    BY <1>6, Zenon DEF sp_read
  <2>2. TtyTypes'
    BY <1>6, <2>1 DEF sp_read, tty, outgoing, Types, TtyTypes
  <2>3. UNCHANGED <<open, alloc, accepted, said, heard>>
    BY <1>6 DEF sp_read, tty, outgoing
  <2>4. BufferTypes' /\ InHand'
    BY <1>6, <2>3, ReadFacts DEF BufferTypes, InHand
  <2> QED
    BY <2>2, <2>3, <2>4 DEF Types, FrameTypes
<1>7. ASSUME Processed PROVE /\ Message \in Answers /\ Message \in Frame /\ heard' \in Seq(Answers)
                             /\ Len(heard') = Len(heard) + 1 /\ Len(heard) \in Nat
                             /\ pc' = "idle"
                             /\ UNCHANGED <<open, alloc, in, said, clobbers, damage, lossy>>
  BY <1>7, PortFacts DEF Processed, Types, InHand, FrameTypes, tty
<1>8. CASE OnPing
  <2>1. Processed /\ mp_dispatch_message(Pong(Message.arg)) /\ Message.type = "PING"
    BY <1>8 DEF OnPing
  <2>2. Pong(Message.arg) \in Frame
    BY <1>7, <2>1, PongFacts
  <2>3. /\ mb' \in Seq(Buffered) /\ Len(mb') <= FrameLen /\ (~alloc => mb' = << >>)
        /\ accepted' \in Seq(Frame)
        /\ Len(accepted') \in {Len(accepted), Len(accepted) + 1}
        /\ faults' \in 0 .. MaxFault
    BY <2>1, <2>2, DispatchTypes
  <2>4. Len(accepted') <= MaxRequest + Len(heard')
    <3>1. Len(accepted) \in Nat /\ Len(accepted) <= MaxRequest + Len(heard)
      BY DEF Types, FrameTypes
    <3> QED
      BY <1>7, <2>1, <2>3, <3>1, PortFacts
  <2> QED
    BY <1>7, <2>1, <2>3, <2>4 DEF Types, TtyTypes, BufferTypes, InHand, FrameTypes
<1>9. CASE OnOther
  <2>1. Processed /\ UNCHANGED <<mb, out, accepted, faults>>
    BY <1>9 DEF OnOther, outgoing
  <2>2. Len(accepted) <= MaxRequest + Len(heard')
    <3>1. Len(accepted) \in Nat /\ Len(accepted) <= MaxRequest + Len(heard)
      BY DEF Types, FrameTypes
    <3> QED
      BY <1>7, <2>1, <3>1, PortFacts
  <2> QED
    BY <1>7, <2>1, <2>2 DEF Types, TtyTypes, BufferTypes, InHand, FrameTypes
<1>10. CASE Transmit
  BY <1>10 DEF Transmit, tty, incoming, Types, TtyTypes, BufferTypes, InHand, FrameTypes, Message
<1>11. CASE AvrWrites
  <2>1. PICK f \in Answers : in' = in \o FrameBytes(f) /\ said' = Append(said, f)
    BY <1>11 DEF AvrWrites
  <2>2. FrameBytes(f) \in Seq(BytesOf(Answers))
    BY FrameBytesFacts
  <2>3. in' \in Seq(Received)
    BY <2>1, <2>2 DEF Received, Types, BufferTypes
  <2>4. said' \in Seq(Answers) /\ Len(said') <= MaxAnswer
    BY <1>11, <2>1, PortFacts DEF AvrWrites, Types, FrameTypes
  <2> QED
    BY <1>11, <2>3, <2>4
       DEF AvrWrites, tty, outgoing, Types, TtyTypes, BufferTypes, InHand, FrameTypes, Message
<1>12. CASE ParityError
  <2>1. PICK i \in 1 .. Len(in) : in' \in {Seqs!RemoveAt(in, i), Seqs!ReplaceAt(in, i, Damaged)}
    BY <1>12 DEF ParityError
  <2>2. in \in Seq(Received)
    BY DEF Types, BufferTypes
  <2>3. in' \in Seq(Received)
    <3>1. SubSeq(in, 1, i - 1) \in Seq(Received) /\ SubSeq(in, i + 1, Len(in)) \in Seq(Received)
      BY <2>2
    <3>2. Seqs!RemoveAt(in, i) \in Seq(Received)
      BY <3>1 DEF Seqs!RemoveAt
    <3>3. Seqs!ReplaceAt(in, i, Damaged) \in Seq(Received)
      BY <2>2, DamagedFacts DEF Seqs!ReplaceAt
    <3> QED
      BY <2>1, <3>2, <3>3
  <2>4. damage' \in 0 .. MaxDamage
    BY <1>12, PortFacts DEF ParityError, Types, TtyTypes
  <2>5. lossy' \in BOOLEAN
    BY <1>12 DEF ParityError
  <2> QED
    BY <1>12, <2>3, <2>4, <2>5
       DEF ParityError, tty, outgoing, Types, TtyTypes, BufferTypes, InHand, FrameTypes, Message
<1> QED
  BY <1>1, <1>2, <1>3, <1>4, <1>5, <1>6, <1>8, <1>9, <1>10, <1>11, <1>12 DEF Next

(* Whatever order the calls, the failures and the line's bytes come in:    *)
(* the message buffer keeps to its storage, and mp_process_message sees    *)
(* nothing but frames of the AVR.                                          *)
THEOREM TypeCorrect == Spec => []Types
<1> QED
  BY TypesInit, TypesNext, PTL DEF Spec

-----------------------------------------------------------------------------
(* Frames are processed in the order in which the AVR wrote them.          *)

(* The message in hand counts as processed.                                *)
Taken == IF pc = "process" THEN Append(heard, Message) ELSE heard

(* Up to frame p of said the frames are processed, or lost; the last bytes *)
(* of the others may be on the line.                                       *)
OrderAt(p) ==
    /\ p \in Nat /\ p <= Len(said)
    /\ TakenFrom(Taken, p, said)
    /\ Within(in, p, Len(said), said)

Order == \E p \in Nat : OrderAt(p)

LEMMA OrderTypes ==
    ASSUME Types
    PROVE  /\ in \in Seq(Received) /\ said \in Seq(Answers) /\ heard \in Seq(Answers)
           /\ Taken \in Seq(Answers) /\ Len(said) \in Nat /\ Len(in) \in Nat
           /\ Len(Taken) \in Nat
           /\ pc = "process" => Message \in Answers /\ Taken = Append(heard, Message)
           /\ pc # "process" => Taken = heard
  BY DEF Types, BufferTypes, FrameTypes, InHand, Taken

LEMMA OrderInit == Init => Order
<1> SUFFICES ASSUME Init PROVE Order
  OBVIOUS
<1>1. Taken = << >> /\ in = << >> /\ said = << >>
  BY DEF Init, Taken
<1>2. OrderAt(0)
  BY <1>1, TakenFromEmpty, WithinEmpty DEF OrderAt
<1> QED
  BY <1>2 DEF Order

(* Bytes of the line are lost or damaged; h says where the others were.    *)
LEMMA OrderLost ==
    ASSUME Types, Order, UNCHANGED <<Taken, said>>, in' \in Seq(Received),
           NEW h \in [1 .. Len(in') -> 1 .. Len(in)],
           \A i, j \in 1 .. Len(in') : i < j => h[i] < h[j],
           \A i \in 1 .. Len(in') : Final(in'[i]) => in'[i] = in[h[i]]
    PROVE  Order'
<1>1. PICK p \in Nat : OrderAt(p)
  BY DEF Order
<1>2. Within(in, p, Len(said), said) /\ Len(in) \in Nat /\ Len(in') \in Nat
  BY <1>1, OrderTypes DEF OrderAt
<1>3. Within(in', p, Len(said), said)
  BY <1>2, WithinSelected
<1>4. OrderAt(p)'
  BY <1>1, <1>3 DEF OrderAt
<1> QED
  BY <1>4 DEF Order

LEMMA OrderStays == Types /\ Order /\ UNCHANGED <<Taken, said, in>> => Order'
<1> SUFFICES ASSUME Types, Order, UNCHANGED <<Taken, said, in>> PROVE Order'
  OBVIOUS
<1>1. PICK p \in Nat : OrderAt(p)
  BY DEF Order
<1>2. OrderAt(p)'
  BY <1>1 DEF OrderAt
<1> QED
  BY <1>2 DEF Order

LEMMA OrderRead == Types /\ Order /\ sp_read => Order'
<1> SUFFICES ASSUME Types, Order, sp_read PROVE Order'
  OBVIOUS
<1>1. PICK p \in Nat : OrderAt(p)
  BY DEF Order
<1>2. /\ in # << >> /\ in' = Tail(in) /\ UNCHANGED <<said, heard>> /\ Taken = heard
  BY DEF sp_read, Taken
<1>3. PICK r \in p .. Len(said) :
         /\ Within(Tail(in), r, Len(said), said)
         /\ Final(Head(in)) => p < r /\ said[r] = Head(in)[1]
  <2>1. /\ p \in Int /\ Len(said) \in Int /\ p <= Len(said) /\ Within(in, p, Len(said), said)
        /\ in \in Seq(Received)
    BY <1>1, OrderTypes DEF OrderAt
  <2> QED
    BY <1>2, <2>1, WithinPop
<1>4. /\ r \in Nat /\ p <= r /\ r <= Len(said) /\ TakenFrom(heard, p, said)
      /\ heard \in Seq(Answers) /\ said \in Seq(Answers)
  BY <1>1, <1>2, OrderTypes DEF OrderAt
<1>5. TakenFrom(Taken', r, said)
  <2>1. CASE pc' = "process"
    <3>1. Message' = said[r] /\ p < r
      BY <1>3, <2>1, ReadFacts
    <3>2. TakenFrom(Append(heard, said[r]), r, said)
      BY <1>4, <3>1, TakeOne
    <3> QED
      BY <1>2, <2>1, <3>1, <3>2 DEF Taken
  <2>2. CASE pc' # "process"
    <3>1. Taken' = heard
      BY <1>2, <2>2 DEF Taken
    <3>2. Len(heard) \in Nat /\ \A i \in 1 .. p : said[i] = said[i]
      BY <1>4
    <3> QED
      BY <1>4, <3>1, <3>2, TakenFromMore
  <2> QED
    BY <2>1, <2>2
<1>6. OrderAt(r)'
  BY <1>2, <1>3, <1>4, <1>5 DEF OrderAt
<1> QED
  BY <1>4, <1>6 DEF Order

LEMMA OrderAvrWrites == Types /\ Order /\ AvrWrites => Order'
<1> SUFFICES ASSUME Types, Order, AvrWrites PROVE Order'
  OBVIOUS
<1>1. PICK p \in Nat : OrderAt(p)
  BY DEF Order
<1>2. PICK f \in Answers : in' = in \o FrameBytes(f) /\ said' = Append(said, f)
  BY DEF AvrWrites
<1>3. UNCHANGED Taken
  BY DEF AvrWrites, Taken, Message
<1>4. /\ p <= Len(said) /\ Len(said) \in Nat /\ Len(said') = Len(said) + 1
      /\ said'[Len(said) + 1] = f /\ \A i \in 1 .. Len(said) : said'[i] = said[i]
  BY <1>1, <1>2, OrderTypes DEF OrderAt
<1>5. Within(in', p, Len(said'), said')
  <2> DEFINE n == Len(said)
             u == FrameBytes(f)
             o == [i \in 1 .. FrameLen |-> n + 1]
  <2>1. u \in Seq(BytesOf(Answers)) /\ Len(u) = FrameLen /\ \A i \in 1 .. FrameLen : u[i] = <<f, i>>
    BY FrameBytesFacts
  <2>2. u \in Seq(Received) /\ in \in Seq(Received)
    BY <2>1, OrderTypes DEF Received
  <2>3. o \in [1 .. FrameLen -> Int] /\ \A i \in 1 .. FrameLen : o[i] = n + 1
    BY <1>4
  <2> HIDE DEF n, u, o
  <2>4. \A i \in 1 .. FrameLen : Final(u[i]) => i = FrameLen /\ u[i][1] = f
    BY <2>1 DEF Final
  <2>5. \A i \in 1 .. FrameLen :
           Final(u[i]) => o[i] \in n + 1 .. n + 1 /\ said'[o[i]] = u[i][1]
    BY <1>4, <2>3, <2>4 DEF n
  <2>6. \A i, j \in 1 .. FrameLen : i < j /\ Final(u[i]) /\ Final(u[j]) => o[i] < o[j]
    BY <2>4
  <2>7. Within(u, n, n + 1, said')
    BY <2>1, <2>3, <2>5, <2>6 DEF Within
  <2>8. Within(in, p, n, said')
    <3>1. Within(in, p, n, said) /\ Len(in) \in Nat /\ p \in Int /\ n \in Int /\ p <= p /\ n <= n
          /\ \A i \in p + 1 .. n : said'[i] = said[i]
      BY <1>1, <1>4, OrderTypes DEF OrderAt, n
    <3> QED
      BY <3>1, WithinWider
  <2>9. p \in Int /\ n \in Int /\ n + 1 \in Int /\ p <= n /\ n <= n + 1
    BY <1>4 DEF n
  <2>10. Within(in \o u, p, n + 1, said')
    BY <2>2, <2>7, <2>8, <2>9, WithinConcat
  <2> QED
    BY <1>2, <1>4, <2>10 DEF n, u
<1>6. TakenFrom(Taken', p, said')
  <2>1. \A i \in 1 .. p : said'[i] = said[i]
    BY <1>4
  <2>2. Len(Taken) \in Nat /\ TakenFrom(Taken, p, said) /\ p <= p
    BY <1>1, OrderTypes DEF OrderAt
  <2> QED
    BY <1>3, <2>1, <2>2, TakenFromMore
<1>7. p <= Len(said')
  BY <1>4
<1> QED
  BY <1>5, <1>6, <1>7 DEF Order, OrderAt

LEMMA OrderParityError == Types /\ Order /\ ParityError => Order'
<1> SUFFICES ASSUME Types, Order, ParityError PROVE Order'
  OBVIOUS
<1>1. PICK k \in 1 .. Len(in) : in' \in {Seqs!RemoveAt(in, k), Seqs!ReplaceAt(in, k, Damaged)}
  BY DEF ParityError
<1>2. UNCHANGED <<Taken, said>>
  BY DEF ParityError, Taken, Message
<1>3. in \in Seq(Received) /\ Types'
  BY TypesNext, OrderTypes DEF Next
<1>4. in' \in Seq(Received)
  BY <1>3 DEF Types, BufferTypes
<1>5. CASE in' = Seqs!RemoveAt(in, k)
  <2> DEFINE h == [i \in 1 .. Len(in') |-> IF i < k THEN i ELSE i + 1]
  <2>1. /\ Len(in') = Len(in) - 1
        /\ \A i \in 1 .. Len(in') : in'[i] = IF i < k THEN in[i] ELSE in[i + 1]
    <3>1. /\ SubSeq(in, 1, k - 1) \in Seq(Received) /\ Len(SubSeq(in, 1, k - 1)) = k - 1
          /\ \A i \in 1 .. k - 1 : SubSeq(in, 1, k - 1)[i] = in[i]
      BY <1>3
    <3>2. /\ SubSeq(in, k + 1, Len(in)) \in Seq(Received)
          /\ Len(SubSeq(in, k + 1, Len(in))) = Len(in) - k
          /\ \A i \in 1 .. Len(in) - k : SubSeq(in, k + 1, Len(in))[i] = in[i + k]
      BY <1>3
    <3> DEFINE u == SubSeq(in, 1, k - 1)
               v == SubSeq(in, k + 1, Len(in))
    <3>3. in' = u \o v
      BY <1>5 DEF Seqs!RemoveAt
    <3>4. /\ u \in Seq(Received) /\ v \in Seq(Received)
          /\ Len(u) = k - 1 /\ Len(v) = Len(in) - k
          /\ \A i \in 1 .. k - 1 : u[i] = in[i]
          /\ \A i \in 1 .. Len(in) - k : v[i] = in[i + k]
      BY <3>1, <3>2, Zenon
    <3> HIDE DEF u, v
    <3>5. Len(in') = Len(in) - 1
      <4>1. Len(in) \in Nat /\ k \in Nat
        BY <1>3
      <4>2. u \in Seq(Received) /\ v \in Seq(Received)
        BY <3>4
      <4>3. Len(u \o v) = Len(u) + Len(v)
        BY <4>2
      <4> QED
        BY <3>3, <3>4, <4>1, <4>3
    <3>6. \A i \in 1 .. Len(in') : i < k => i \in 1 .. k - 1 /\ in'[i] = in[i]
      BY <3>3, <3>4, <3>5
    <3>7. \A i \in 1 .. Len(in') :
             ~(i < k) => /\ i - (k - 1) \in 1 .. Len(in) - k
                         /\ in'[i] = v[i - (k - 1)] /\ (i - (k - 1)) + k = i + 1
      BY <3>3, <3>4, <3>5
    <3>8. \A i \in 1 .. Len(in') : ~(i < k) => in'[i] = in[i + 1]
      BY <3>4, <3>7
    <3> QED
      BY <3>5, <3>6, <3>8
  <2>2. Len(in) \in Nat
    BY <1>3
  <2>3. h \in [1 .. Len(in') -> 1 .. Len(in)]
    BY <2>1, <2>2
  <2>4. \A i, j \in 1 .. Len(in') : i < j => h[i] < h[j]
    BY <2>1, <2>2
  <2>5. \A i \in 1 .. Len(in') : Final(in'[i]) => in'[i] = in[h[i]]
    BY <2>1
  <2> HIDE DEF h
  <2> QED
    BY <1>2, <1>4, <2>3, <2>4, <2>5, OrderLost
<1>6. CASE in' = Seqs!ReplaceAt(in, k, Damaged)
  <2> DEFINE h == [i \in 1 .. Len(in') |-> i]
  <2>1. Len(in') = Len(in) /\ Len(in) \in Nat
        /\ \A i \in 1 .. Len(in) : in'[i] = IF i = k THEN Damaged ELSE in[i]
    BY <1>3, <1>6 DEF Seqs!ReplaceAt
  <2>2. h \in [1 .. Len(in') -> 1 .. Len(in)]
    BY <2>1
  <2>3. \A i, j \in 1 .. Len(in') : i < j => h[i] < h[j]
    OBVIOUS
  <2>4. \A i \in 1 .. Len(in') : Final(in'[i]) => in'[i] = in[h[i]]
    BY <2>1, DamagedFacts
  <2> HIDE DEF h
  <2> QED
    BY <1>2, <1>4, <2>2, <2>3, <2>4, OrderLost
<1> QED
  BY <1>1, <1>5, <1>6

LEMMA OrderNext == Types /\ Order /\ [Next]_vars => Order'
<1> SUFFICES ASSUME Types, Order, [Next]_vars PROVE Order'
  OBVIOUS
<1>1. CASE UNCHANGED vars \/ Request \/ Poll \/ ReadEnds \/ Transmit
           \/ InitNoMemory \/ InitNoTty \/ mp_close
  <2>1. UNCHANGED <<said, in>>
    BY <1>1 DEF vars, Request, Poll, ReadEnds, Transmit, InitNoMemory, InitNoTty, mp_close,
                incoming
  <2>2. UNCHANGED Taken
    BY <1>1 DEF vars, Request, Poll, ReadEnds, Transmit, InitNoMemory, InitNoTty, mp_close,
                incoming, Taken, Message
  <2> QED
    BY <2>1, <2>2, OrderStays
<1>2. CASE mp_init
  <2>1. PICK k \in 0 .. Len(in) : in' = SubSeq(in, k + 1, Len(in))
    BY <1>2 DEF mp_init
  <2>2. in \in Seq(Received) /\ Len(in) \in Nat
    BY DEF Types, BufferTypes
  <2> DEFINE h == [i \in 1 .. Len(in') |-> i + k]
  <2>3. /\ in' \in Seq(Received) /\ Len(in') = Len(in) - k
        /\ \A i \in 1 .. Len(in') : in'[i] = in[i + k]
    BY <2>1, <2>2
  <2>4. h \in [1 .. Len(in') -> 1 .. Len(in)]
    BY <2>2, <2>3
  <2>5. \A i, j \in 1 .. Len(in') : i < j => h[i] < h[j]
    BY <2>3
  <2>6. \A i \in 1 .. Len(in') : Final(in'[i]) => in'[i] = in[h[i]]
    BY <2>3
  <2>7. UNCHANGED <<said, Taken>>
    BY <1>2 DEF mp_init, Taken
  <2> HIDE DEF h
  <2> QED
    BY <2>3, <2>4, <2>5, <2>6, <2>7, OrderLost
<1>3. CASE sp_read
  BY <1>3, OrderRead
<1>4. CASE OnPing \/ OnOther
  <2>1. UNCHANGED <<said, in, Taken>>
    BY <1>4 DEF OnPing, OnOther, Processed, Taken
  <2> QED
    BY <2>1, OrderStays
<1>5. CASE AvrWrites
  BY <1>5, OrderAvrWrites
<1>6. CASE ParityError
  BY <1>6, OrderParityError
<1> QED
  BY <1>1, <1>2, <1>3, <1>4, <1>5, <1>6 DEF Next

(* The frames that are processed, with the one in hand.                    *)
LEMMA OrderTaken ==
    ASSUME Types, Order
    PROVE  TakenFrom(Taken, Len(said), said)
<1>1. PICK p \in Nat : OrderAt(p)
  BY DEF Order
<1>2. p <= Len(said) /\ TakenFrom(Taken, p, said) /\ Len(said) \in Nat /\ Len(Taken) \in Nat
      /\ \A i \in 1 .. p : said[i] = said[i]
  BY <1>1, OrderTypes DEF OrderAt
<1> QED
  BY <1>2, TakenFromMore

LEMMA OrderHolds == Spec => []Order
<1>1. Types /\ Order /\ [Next]_vars => Order'
  BY OrderNext
<1> QED
  BY <1>1, OrderInit, TypeCorrect, PTL DEF Spec

(* The router processes only frames the AVR wrote, none twice and in their *)
(* order, whatever is lost, damaged or flushed.                            *)
THEOREM OnlySaidIsHeard == Spec => []HeardWasSaid
<1>1. Types /\ Order => HeardWasSaid
  <2> SUFFICES ASSUME Types, Order PROVE HeardWasSaid
    OBVIOUS
  <2>1. TakenFrom(heard, Len(said), said)
    <3>1. TakenFrom(Taken, Len(said), said) /\ Len(said) \in Nat
      BY OrderTaken, OrderTypes
    <3>2. CASE pc = "process"
      BY <3>1, <3>2, OrderTypes, TakenFromPrefix
    <3>3. CASE pc # "process"
      BY <3>1, <3>3, OrderTypes
    <3> QED
      BY <3>2, <3>3
  <2> QED
    BY <2>1 DEF HeardWasSaid, TakenFrom
<1> QED
  BY <1>1, OrderHolds, TypeCorrect, PTL

-----------------------------------------------------------------------------
(* PINGs and PONGs.                                                        *)

LEMMA PongsStay ==
    ASSUME PongsAnswerPings, UNCHANGED <<accepted, heard>>, faults' = 0 => faults = 0
    PROVE  PongsAnswerPings'
<1>1. /\ Positions(accepted, "PONG")' = Positions(accepted, "PONG")
      /\ Positions(heard, "PING")' = Positions(heard, "PING")
  BY DEF Positions
<1> QED
  BY <1>1 DEF PongsAnswerPings

(* What sp_write adds to accepted.                                         *)
LEMMA DispatchAccepts ==
    ASSUME Types, NEW f \in Frame, mp_dispatch_message(f)
    PROVE  /\ accepted' \in {accepted, Append(accepted, f)}
           /\ faults' = 0 => faults = 0
           /\ faults' = 0 /\ alloc /\ open => accepted' = Append(accepted, f)
<1>1. faults \in Nat
  BY PortFacts DEF Types, TtyTypes
<1> QED
  BY <1>1 DEF mp_dispatch_message, sp_write, outgoing

LEMMA PositionsAppended ==
    ASSUME NEW T, NEW s \in Seq(T), NEW x \in T, NEW t
    PROVE  /\ Positions(Append(s, x), t) = IF x.type = t THEN Positions(s, t) \cup {Len(s) + 1}
                                                         ELSE Positions(s, t)
           /\ Positions(s, t) \subseteq 1 .. Len(s)
           /\ Len(s) \in Nat
           /\ Append(s, x)[Len(s) + 1] = x
           /\ \A i \in 1 .. Len(s) : Append(s, x)[i] = s[i]
<1> DEFINE e == Append(s, x)
<1>1. /\ Len(s) \in Nat /\ DOMAIN s = 1 .. Len(s) /\ DOMAIN e = 1 .. Len(s) + 1
      /\ e[Len(s) + 1] = x /\ \A i \in 1 .. Len(s) : e[i] = s[i]
  OBVIOUS
<1> HIDE DEF e
<1>2. Positions(e, t) = IF x.type = t THEN Positions(s, t) \cup {Len(s) + 1} ELSE Positions(s, t)
  BY <1>1 DEF Positions
<1> QED
  BY <1>1, <1>2 DEF e, Positions

(* A frame that is no PONG is written.                                     *)
LEMMA PongsWritten ==
    ASSUME Types, PongsAnswerPings, NEW f \in Frame, f.type # "PONG", mp_dispatch_message(f),
           UNCHANGED heard
    PROVE  PongsAnswerPings'
<1>1. accepted' \in {accepted, Append(accepted, f)} /\ (faults' = 0 => faults = 0)
  BY DispatchAccepts
<1>2. accepted \in Seq(Frame)
  BY DEF Types, FrameTypes
<1>3. CASE accepted' = Append(accepted, f)
  <2>1. PICK at \in [Positions(accepted, "PONG") -> Positions(heard, "PING")] :
          /\ \A i \in DOMAIN at : accepted[i].arg = heard[at[i]].arg
          /\ \A i, j \in DOMAIN at : i < j => at[i] < at[j]
          /\ faults = 0 => \A k \in Positions(heard, "PING") : \E i \in DOMAIN at : at[i] = k
    BY DEF PongsAnswerPings
  <2>2. /\ Positions(accepted', "PONG") = Positions(accepted, "PONG")
        /\ \A i \in Positions(accepted, "PONG") : accepted'[i] = accepted[i]
    BY <1>2, <1>3, PositionsAppended
  <2> QED
    BY <1>1, <2>1, <2>2 DEF PongsAnswerPings
<1> QED
  BY <1>1, <1>3, PongsStay

LEMMA PongsOnPing ==
    ASSUME Types, PongsAnswerPings, OnPing
    PROVE  PongsAnswerPings'
<1>1. /\ Message.type = "PING" /\ mp_dispatch_message(Pong(Message.arg)) /\ pc = "process"
      /\ heard' = Append(heard, Message)
  BY DEF OnPing, Processed
<1>2. /\ Message \in Answers /\ Message \in Frame /\ open /\ alloc
      /\ heard \in Seq(Answers) /\ accepted \in Seq(Frame)
  BY <1>1, PortFacts DEF Types, InHand, FrameTypes
<1> DEFINE g == Pong(Message.arg)
           m == Len(heard) + 1
           n == Len(accepted) + 1
           A == Positions(accepted, "PONG")
           H == Positions(heard, "PING")
<1>3. g \in Frame /\ g.type = "PONG" /\ g.arg = Message.arg
  BY <1>1, <1>2, PongFacts DEF Pong
<1>4. /\ accepted' \in {accepted, Append(accepted, g)} /\ (faults' = 0 => faults = 0)
      /\ faults' = 0 => accepted' = Append(accepted, g)
  BY <1>1, <1>2, <1>3, DispatchAccepts
<1> HIDE DEF g
<1>5. PICK at \in [A -> H] :
          /\ \A i \in A : accepted[i].arg = heard[at[i]].arg
          /\ \A i, j \in A : i < j => at[i] < at[j]
          /\ faults = 0 => \A k \in H : \E i \in A : at[i] = k
  BY DEF PongsAnswerPings
<1>6. /\ Positions(heard', "PING") = H \cup {m} /\ H \subseteq 1 .. m - 1 /\ m \in Nat
      /\ heard'[m] = Message /\ \A i \in H : heard'[i] = heard[i]
  BY <1>1, <1>2, PositionsAppended
<1>7. /\ Positions(Append(accepted, g), "PONG") = A \cup {n} /\ A \subseteq 1 .. n - 1 /\ n \in Nat
      /\ Append(accepted, g)[n] = g /\ \A i \in A : Append(accepted, g)[i] = accepted[i]
  BY <1>2, <1>3, PositionsAppended
<1> HIDE DEF m, n, A, H
<1>8. CASE accepted' = Append(accepted, g)
  <2> DEFINE to == [i \in A \cup {n} |-> IF i = n THEN m ELSE at[i]]
  <2>1. n \notin A /\ m \notin H
    BY <1>6, <1>7
  <2>2. /\ to \in [A \cup {n} -> H \cup {m}] /\ DOMAIN to = A \cup {n}
        /\ to[n] = m /\ \A i \in A : to[i] = at[i] /\ at[i] \in H
    BY <2>1
  <2> HIDE DEF to
  <2>3. \A i \in A \cup {n} : accepted'[i].arg = heard'[to[i]].arg
    <3>1. ASSUME NEW i \in A PROVE accepted'[i].arg = heard'[to[i]].arg
      <4>1. to[i] = at[i] /\ at[i] \in H
        BY <2>2
      <4>2. accepted'[i] = accepted[i] /\ heard'[at[i]] = heard[at[i]]
        BY <1>6, <1>7, <1>8, <4>1
      <4> QED
        BY <1>5, <4>1, <4>2
    <3>2. accepted'[n] = g /\ heard'[to[n]] = Message
      BY <1>6, <1>7, <1>8, <2>2
    <3> QED
      BY <1>3, <3>1, <3>2
  <2>4. \A i, j \in A \cup {n} : i < j => to[i] < to[j]
    <3>1. \A i \in A : i < n /\ ~(n < i) /\ at[i] < m
      <4> TAKE i \in A
      <4>1. i \in 1 .. n - 1 /\ at[i] \in 1 .. m - 1
        BY <1>6, <1>7, <2>2
      <4> QED
        BY <1>6, <1>7, <4>1
    <3>2. ~(n < n)
      BY <1>7
    <3> QED
      BY <1>5, <2>2, <3>1, <3>2
  <2>5. faults' = 0 => \A k \in H \cup {m} : \E i \in A \cup {n} : to[i] = k
    BY <1>4, <1>5, <2>2
  <2>6. Positions(accepted', "PONG") = A \cup {n} /\ Positions(heard', "PING") = H \cup {m}
    BY <1>6, <1>7, <1>8
  <2>7. \E r \in [Positions(accepted', "PONG") -> Positions(heard', "PING")] :
          /\ \A i \in DOMAIN r : accepted'[i].arg = heard'[r[i]].arg
          /\ \A i, j \in DOMAIN r : i < j => r[i] < r[j]
          /\ faults' = 0 => \A k \in Positions(heard', "PING") : \E i \in DOMAIN r : r[i] = k
    BY <2>2, <2>3, <2>4, <2>5, <2>6
  <2> QED
    BY <2>7 DEF PongsAnswerPings
<1>9. CASE accepted' = accepted /\ faults' # 0
  <2>1. at \in [A -> H \cup {m}] /\ DOMAIN at = A
    OBVIOUS
  <2>2. \A i \in A : accepted'[i].arg = heard'[at[i]].arg
    BY <1>5, <1>6, <1>9
  <2>3. Positions(accepted', "PONG") = A
    BY <1>9 DEF A
  <2> QED
    BY <1>5, <1>6, <1>9, <2>1, <2>2, <2>3 DEF PongsAnswerPings
<1> QED
  BY <1>4, <1>8, <1>9

LEMMA PongsNext == Types /\ PongsAnswerPings /\ [Next]_vars => PongsAnswerPings'
<1> SUFFICES ASSUME Types, PongsAnswerPings, [Next]_vars PROVE PongsAnswerPings'
  OBVIOUS
<1>1. CASE UNCHANGED vars \/ Poll \/ ReadEnds \/ sp_read \/ Transmit \/ AvrWrites \/ ParityError
           \/ InitNoMemory \/ InitNoTty \/ mp_close
  <2>1. UNCHANGED <<accepted, heard, faults>>
    BY <1>1 DEF vars, Poll, ReadEnds, sp_read, Transmit, AvrWrites, ParityError, InitNoMemory,
                InitNoTty, mp_close, incoming, outgoing
  <2> QED
    BY <2>1, PongsStay
<1>2. CASE mp_init
  <2>1. UNCHANGED <<accepted, heard>> /\ (faults' = 0 => faults = 0)
    BY <1>2, PortFacts DEF mp_init, Types, TtyTypes
  <2> QED
    BY <2>1, PongsStay
<1>3. CASE Request
  <2>1. PICK f \in Requests : mp_dispatch_message(f) \/ UNCHANGED <<accepted, faults>>
    BY <1>3 DEF Request, outgoing
  <2>2. UNCHANGED heard
    BY <1>3 DEF Request
  <2> QED
    BY <2>1, <2>2, PortFacts, PongsStay, PongsWritten
<1>4. CASE OnPing
  BY <1>4, PongsOnPing
<1>5. CASE OnOther
  <2>1. /\ heard' = Append(heard, Message) /\ Message.type # "PING" /\ Message \in Answers
        /\ heard \in Seq(Answers) /\ UNCHANGED <<accepted, faults>>
    BY <1>5 DEF OnOther, Processed, outgoing, Types, InHand, FrameTypes
  <2>2. PICK at \in [Positions(accepted, "PONG") -> Positions(heard, "PING")] :
          /\ \A i \in DOMAIN at : accepted[i].arg = heard[at[i]].arg
          /\ \A i, j \in DOMAIN at : i < j => at[i] < at[j]
          /\ faults = 0 => \A k \in Positions(heard, "PING") : \E i \in DOMAIN at : at[i] = k
    BY DEF PongsAnswerPings
  <2>3. /\ Positions(heard', "PING") = Positions(heard, "PING")
        /\ \A i \in Positions(heard, "PING") : heard'[i] = heard[i]
    BY <2>1, PositionsAppended
  <2>4. Positions(accepted', "PONG") = Positions(accepted, "PONG")
    BY <2>1
  <2>5. \A i \in DOMAIN at : accepted'[i].arg = heard'[at[i]].arg
    BY <2>1, <2>2, <2>3
  <2>6. /\ at \in [Positions(accepted', "PONG") -> Positions(heard', "PING")]
        /\ \A i, j \in DOMAIN at : i < j => at[i] < at[j]
        /\ faults' = 0 => \A k \in Positions(heard', "PING") : \E i \in DOMAIN at : at[i] = k
    BY <2>1, <2>2, <2>3, <2>4
  <2> QED
    BY <2>5, <2>6 DEF PongsAnswerPings
<1> QED
  BY <1>1, <1>2, <1>3, <1>4, <1>5 DEF Next

(* Each PONG that leaves whole answers a PING, in their order, and until a *)
(* write fails each PING has one: mp_poll ends on no closed tty and on no  *)
(* buffer without storage before it has answered.                          *)
THEOREM PongsAlwaysAnswer == Spec => []PongsAnswerPings
<1>1. Init => PongsAnswerPings
  <2> SUFFICES ASSUME Init PROVE PongsAnswerPings
    OBVIOUS
  <2> DEFINE at == [i \in {} |-> 1]
  <2>1. accepted = << >> /\ heard = << >> /\ DOMAIN << >> = {}
    BY DEF Init
  <2>2. Positions(accepted, "PONG") = {} /\ Positions(heard, "PING") = {}
    BY <2>1 DEF Positions
  <2>3. at \in [{} -> {}] /\ DOMAIN at = {}
    OBVIOUS
  <2> HIDE DEF at
  <2>4. /\ \A i \in DOMAIN at : accepted[i].arg = heard[at[i]].arg
        /\ \A i, j \in DOMAIN at : i < j => at[i] < at[j]
        /\ faults = 0 => \A k \in Positions(heard, "PING") : \E i \in DOMAIN at : at[i] = k
    BY <2>2, <2>3
  <2>5. at \in [Positions(accepted, "PONG") -> Positions(heard, "PING")]
    BY <2>2, <2>3
  <2> QED
    BY <2>4, <2>5 DEF PongsAnswerPings
<1>2. Types /\ PongsAnswerPings /\ [Next]_vars => PongsAnswerPings'
  BY PongsNext
<1> QED
  BY <1>1, <1>2, TypeCorrect, PTL DEF Spec

-----------------------------------------------------------------------------
(* The router AvrNode knows.                                               *)

LEMMA AvrFacts ==
    /\ \A f : Avr!FrameBytes(f) = FrameBytes(f)
    /\ Avr!Newline = Newline
  BY DEF Avr!FrameBytes, FrameBytes, Avr!Byte, Byte, Avr!Newline, Newline

AvrCommands == Requests \cup {[f EXCEPT !.type = "PONG"] : f \in Answers}

(* sp_write of a frame that AvrNode may get, when not too many were sent.  *)
LEMMA WriteImplements ==
    ASSUME NEW f \in AvrCommands, Len(accepted) < MaxRequest + MaxAnswer, mp_dispatch_message(f)
    PROVE  [Avr!RouterNext]_outgoing
<1>1. CASE /\ out' = Append(out \o FrameBytes(f), Newline)
           /\ accepted' = Append(accepted, f)
           /\ UNCHANGED faults
  <2>1. Avr!RouterSend
    BY <1>1, AvrFacts DEF Avr!RouterSend, Avr!subs, Avr!history, AvrCommands
  <2> QED
    BY <2>1 DEF Avr!RouterNext
<1>2. ASSUME faults < MaxFault, faults' = faults + 1, NEW k \in 0 .. FrameLen,
             out' = out \o SubSeq(FrameBytes(f), 1, k),
             accepted' = IF k = FrameLen THEN Append(accepted, f) ELSE accepted
      PROVE  Avr!RouterNext
  <2>1. Avr!RouterWriteFails
    BY <1>2, AvrFacts DEF Avr!RouterWriteFails, Avr!subs, Avr!history, AvrCommands
  <2> QED
    BY <2>1 DEF Avr!RouterNext
<1>3. CASE UNCHANGED outgoing
  BY <1>3
<1> QED
  BY <1>1, <1>2, <1>3 DEF mp_dispatch_message, sp_write

LEMMA RouterNextOK == Types /\ Order /\ [Next]_vars => [Avr!RouterNext \/ Delivered]_outgoing
<1> SUFFICES ASSUME Types, Order, [Next]_vars PROVE [Avr!RouterNext \/ Delivered]_outgoing
  OBVIOUS
<1>1. CASE UNCHANGED vars \/ Poll \/ ReadEnds \/ sp_read \/ AvrWrites \/ ParityError
           \/ InitNoMemory \/ InitNoTty \/ mp_close \/ OnOther
  BY <1>1 DEF vars, Poll, ReadEnds, sp_read, AvrWrites, ParityError, InitNoMemory,
              InitNoTty, mp_close, OnOther, outgoing
<1>2. CASE Transmit
  BY <1>2 DEF Transmit, Delivered
<1>3. CASE mp_init
  <2>1. CASE UNCHANGED <<out, faults>>
    BY <1>3, <2>1 DEF mp_init, outgoing
  <2>2. ASSUME faults < MaxFault, faults' = faults + 1,
               NEW k \in 0 .. Len(out) - 1, out' = SubSeq(out, 1, k)
        PROVE  Avr!RouterNext
    <3>1. Avr!RouterStarts
      BY <1>3, <2>2 DEF mp_init, Avr!RouterStarts, Avr!subs
    <3> QED
      BY <3>1 DEF Avr!RouterNext
  <2> QED
    BY <1>3, <2>1, <2>2 DEF mp_init
<1>4. Len(accepted) \in Nat /\ Len(accepted) <= MaxRequest + Len(heard) /\ Len(said) <= MaxAnswer
      /\ Len(heard) \in Nat /\ Len(said) \in Nat
  BY DEF Types, FrameTypes
<1>5. CASE Request
  <2>1. PICK f \in Requests : mp_dispatch_message(f) \/ UNCHANGED outgoing
    BY <1>5 DEF Request
  <2>2. Len(accepted) < MaxRequest + MaxAnswer
    BY <1>4, <1>5, PortFacts DEF Request
  <2> QED
    BY <2>1, <2>2, WriteImplements DEF AvrCommands
<1>6. CASE OnPing
  <2>1. /\ pc = "process" /\ Message \in Answers /\ Message \in Frame /\ Message.type = "PING"
        /\ mp_dispatch_message(Pong(Message.arg))
    BY <1>6, PortFacts DEF OnPing, Processed, Types, InHand
  <2>2. Pong(Message.arg) \in AvrCommands
    BY <2>1, PongFacts DEF AvrCommands
  <2>3. Len(heard) + 1 <= Len(said)
    <3>1. TakenFrom(Taken, Len(said), said) /\ Taken = Append(heard, Message)
          /\ heard \in Seq(Answers)
      BY <2>1, OrderTaken, OrderTypes
    <3> QED
      BY <3>1 DEF TakenFrom
  <2>4. Len(accepted) < MaxRequest + MaxAnswer
    BY <1>4, <2>3, PortFacts
  <2> QED
    BY <2>1, <2>2, <2>4, WriteImplements
<1> QED
  BY <1>1, <1>2, <1>3, <1>5, <1>6 DEF Next

(* What AvrNode assumes of the router's writes is so: the refinement that  *)
(* joins the two ends of the line.                                         *)
THEOREM RouterImplementsRouter == Spec => ImplementsRouter
<1>1. Types /\ Order /\ [Next]_vars => [Avr!RouterNext \/ Delivered]_outgoing
  BY RouterNextOK
<1> QED
  BY <1>1, OrderHolds, TypeCorrect, PTL DEF Spec, ImplementsRouter

-----------------------------------------------------------------------------
(* While all bytes come through each answer is accounted for.              *)

(* Answers processed, in hand, or cut in two.                              *)
Accounted == Len(heard) + (IF pc = "process" THEN 1 ELSE 0) + clobbers

(* The next byte is byte k of answer i, and while a message is in hand no  *)
(* other one has begun to come.                                            *)
AccountAt(i, k) ==
    /\ At(in, said, FrameLen, mb, Accounted, i, k)
    /\ pc = "process" => k \notin 2 .. FrameLen

Account == ~lossy => \E i, k : AccountAt(i, k)

LEMMA AccountTypes ==
    ASSUME Types
    PROVE  /\ in \in Seq(Buffered) /\ mb \in Seq(Buffered) /\ Len(mb) <= FrameLen
           /\ said \in Seq(Answers) /\ Len(said) \in Nat /\ Len(heard) \in Nat
           /\ clobbers \in Nat /\ Accounted \in Int
           /\ FrameLen \in Nat \ {0} /\ FrameLen >= 2 /\ FrameLen \in {FrameLen, FrameLen + 1}
<1>1. in \in Seq(Buffered) /\ mb \in Seq(Buffered) /\ Len(mb) <= FrameLen
  BY PortFacts DEF Types, BufferTypes
<1>2. /\ said \in Seq(Answers) /\ Len(said) \in Nat /\ Len(heard) \in Nat
      /\ clobbers \in Nat
  BY DEF Types, FrameTypes, TtyTypes
<1>3. Accounted \in Int
  BY <1>2 DEF Accounted
<1> QED
  BY <1>1, <1>2, <1>3, PortFacts, FrameAssumption DEF FrameAssumption

LEMMA AccountStays ==
    ASSUME Account, UNCHANGED <<in, said, mb, heard, clobbers, lossy>>,
           (pc # "process" /\ pc' # "process") \/ pc' = pc
    PROVE  Account'
<1>1. Accounted' = Accounted
  BY DEF Accounted
<1>2. \A i, k : AccountAt(i, k) => AccountAt(i, k)'
  BY <1>1 DEF AccountAt
<1> QED
  BY <1>2 DEF Account

(* An empty buffer before an empty line.                                   *)
LEMMA AccountFresh ==
    ASSUME Types, said' = said, in' = << >>, mb' = << >>, pc' # "process",
           Accounted' = Len(said)
    PROVE  Account'
<1>1. At(<< >>, said, FrameLen, << >>, Len(said), Len(said) + 1, 1)
  BY AccountTypes, AtStart
<1>2. AccountAt(Len(said) + 1, 1)'
  BY <1>1 DEF AccountAt
<1> QED
  BY <1>2 DEF Account

LEMMA AccountInit == Init => Account
<1> SUFFICES ASSUME Init PROVE Account
  OBVIOUS
<1>1. /\ in = << >> /\ mb = << >> /\ pc = "idle" /\ said = << >> /\ heard = << >> /\ clobbers = 0
  BY DEF Init
<1>2. Accounted = 0 /\ Len(said) = 0
  BY <1>1 DEF Accounted
<1>3. At(<< >>, said, FrameLen, << >>, Len(said), Len(said) + 1, 1)
  BY <1>2, PortFacts, AtStart
<1>4. AccountAt(Len(said) + 1, 1)
  BY <1>1, <1>2, <1>3 DEF AccountAt
<1> QED
  BY <1>4 DEF Account

(* A new life of the buffer that loses nothing finds all answers accounted *)
(* for.                                                                    *)
LEMMA AccountForgets ==
    ASSUME Types, Account, mp_init \/ InitNoMemory \/ InitNoTty \/ mp_close
    PROVE  Account'
<1> SUFFICES ASSUME ~lossy' PROVE Account'
  BY DEF Account
<1>1. /\ mb' = << >> /\ pc = "idle" /\ pc' = "idle" /\ UNCHANGED <<said, heard, clobbers>>
      /\ Forgets /\ (in = << >> => in' = << >>)
  BY DEF mp_init, InitNoMemory, InitNoTty, mp_close
<1>2. ~lossy /\ in = << >> /\ ~Partial(mb)
  BY <1>1, Zenon DEF Forgets
<1>3. PICK i, k : At(<< >>, said, FrameLen, mb, Accounted, i, k)
  BY <1>2 DEF Account, AccountAt
<1>4. Accounted = Len(said)
  BY <1>3, AccountTypes, AtEnd
<1>5. Accounted' = Len(said)
  BY <1>1, <1>4 DEF Accounted
<1> QED
  BY <1>1, <1>2, <1>5, AccountFresh

(* Another frame is made in the buffer, or, without storage, none.         *)
LEMMA AccountFilled ==
    ASSUME Types, NEW f, mp_dispatch_message(f), NEW i, NEW k,
           At(in, said, FrameLen, mb, Accounted, i, k)
    PROVE  At(in, said, FrameLen, mb', Accounted + (IF Partial(mb) THEN 1 ELSE 0), i, k)
<1>1. CASE alloc
  <2>1. mb' = FrameBytes(f)
    BY <1>1 DEF mp_dispatch_message
  <2>2. At(in, said, FrameLen, FrameBytes(f), Accounted + (IF Partial(mb) THEN 1 ELSE 0), i, k)
    BY AccountTypes, AtFilled
  <2> QED
    BY <2>1, <2>2
<1>2. CASE ~alloc
  <2>1. mb' = << >> /\ mb = << >>
    BY <1>2 DEF mp_dispatch_message, Types, BufferTypes
  <2>2. ~Partial(mb)
    BY <2>1 DEF Partial
  <2>3. Accounted + (IF Partial(mb) THEN 1 ELSE 0) = Accounted
    BY <2>2, AccountTypes
  <2> QED
    BY <2>1, <2>3
<1> QED
  BY <1>1, <1>2

LEMMA AccountRequest == Types /\ Account /\ Request => Account'
<1> SUFFICES ASSUME Types, Account, Request, ~lossy' PROVE Account'
  BY DEF Account
<1>1. pc = "idle" /\ UNCHANGED <<pc, in, said, heard, lossy>>
  BY DEF Request
<1>2. CASE UNCHANGED <<mb, clobbers>>
  BY <1>1, <1>2, AccountStays
<1>3. ASSUME NEW f \in Requests, mp_dispatch_message(f),
             clobbers' = clobbers + (IF Partial(mb) THEN 1 ELSE 0)
      PROVE  Account'
  <2> DEFINE one == IF Partial(mb) THEN 1 ELSE 0
  <2>1. PICK i, k : At(in, said, FrameLen, mb, Accounted, i, k)
    BY <1>1 DEF Account, AccountAt
  <2>2. At(in, said, FrameLen, mb', Accounted + one, i, k)
    BY <1>3, <2>1, AccountFilled
  <2>3. one \in Int /\ clobbers' = clobbers + one
    BY <1>3
  <2> HIDE DEF one
  <2> DEFINE h == Len(heard)
  <2>4. Accounted = h + clobbers /\ Accounted' = h + (clobbers + one)
    BY <1>1, <2>3, AccountTypes DEF Accounted
  <2>5. h \in Int /\ clobbers \in Int
    BY AccountTypes
  <2> HIDE DEF h
  <2>6. Accounted' = Accounted + one
    BY <2>3, <2>4, <2>5
  <2>7. AccountAt(i, k)'
    BY <1>1, <2>2, <2>6 DEF AccountAt
  <2> QED
    BY <2>7 DEF Account
<1> QED
  BY <1>2, <1>3 DEF Request

LEMMA AccountRead == Types /\ Account /\ sp_read => Account'
<1> SUFFICES ASSUME Types, Account, sp_read, ~lossy' PROVE Account'
  BY DEF Account
<1>1. ~lossy /\ alloc
  BY Zenon DEF sp_read
<1>2. /\ pc = "read" /\ in # << >> /\ in' = Tail(in) /\ mb' = PushByte(mb, Head(in))
      /\ pc' = IF Valid(mb') THEN "process" ELSE "read"
      /\ UNCHANGED <<said, heard, clobbers>>
  BY <1>1 DEF sp_read, mb_push
<1> DEFINE one == IF Valid(mb') THEN 1 ELSE 0
<1>3. Accounted' = Accounted + one
  <2> DEFINE h == Len(heard)
  <2>1. pc # "process" /\ (pc' = "process" <=> Valid(mb')) /\ UNCHANGED <<heard, clobbers>>
    BY <1>2
  <2>2. Accounted = h + clobbers /\ Accounted' = h + one + clobbers
    BY <2>1, AccountTypes DEF Accounted
  <2>3. h \in Int /\ clobbers \in Int /\ one \in Int
    BY AccountTypes
  <2> HIDE DEF h, one
  <2> QED
    BY <2>2, <2>3
<1>4. PICK i, k : At(in, said, FrameLen, mb, Accounted, i, k)
  BY <1>1 DEF Account, AccountAt
<1>5. PICK a, b : /\ At(Tail(in), said, FrameLen, mb', Accounted + one, a, b)
                  /\ Valid(mb') => b \notin 2 .. FrameLen
  <2>1. \E a, b :
           /\ At(Tail(in), said, FrameLen, PushByte(mb, Head(in)),
                 Accounted + (IF Valid(PushByte(mb, Head(in))) THEN 1 ELSE 0), a, b)
           /\ Valid(PushByte(mb, Head(in))) => b \notin 2 .. FrameLen
    BY <1>2, <1>4, AccountTypes, AtPop
  <2> QED
    BY <1>2, <2>1
<1>6. pc' = "process" => Valid(mb')
  BY <1>2
<1>7. AccountAt(a, b)'
  BY <1>2, <1>3, <1>5, <1>6 DEF AccountAt
<1> QED
  BY <1>7 DEF Account

(* A message that is processed has left the buffer: the answer to a PING   *)
(* is made where nothing else has begun to come.                           *)
LEMMA AccountProcessed ==
    ASSUME Types, Account, Processed, UNCHANGED mb \/ \E f : mp_dispatch_message(f)
    PROVE  Account'
<1> SUFFICES ASSUME ~lossy' PROVE Account'
  BY DEF Account
<1>1. /\ pc = "process" /\ pc' = "idle" /\ heard' = Append(heard, Message)
      /\ UNCHANGED <<in, said, clobbers, lossy>>
  BY DEF Processed
<1>2. PICK i, k : AccountAt(i, k)
  BY <1>1 DEF Account
<1>3. At(in, said, FrameLen, mb, Accounted, i, k) /\ k \notin 2 .. FrameLen
  BY <1>1, <1>2 DEF AccountAt
<1>4. ~Partial(mb)
  BY <1>3 DEF At
<1>5. Accounted' = Accounted
  <2>1. Len(heard') = Len(heard) + 1 /\ Len(heard) \in Nat /\ clobbers \in Nat
    BY <1>1 DEF Types, FrameTypes, TtyTypes
  <2> QED
    BY <1>1, <2>1 DEF Accounted
<1>6. At(in, said, FrameLen, mb', Accounted, i, k)
  <2>1. ASSUME NEW f, mp_dispatch_message(f)
        PROVE  At(in, said, FrameLen, mb', Accounted, i, k)
    <3>1. At(in, said, FrameLen, mb', Accounted + (IF Partial(mb) THEN 1 ELSE 0), i, k)
      BY <1>3, <2>1, AccountFilled
    <3>2. Accounted + (IF Partial(mb) THEN 1 ELSE 0) = Accounted
      BY <1>4, AccountTypes
    <3> QED
      BY <3>1, <3>2
  <2> QED
    BY <1>3, <2>1
<1>7. AccountAt(i, k)'
  BY <1>1, <1>5, <1>6 DEF AccountAt
<1> QED
  BY <1>7 DEF Account

LEMMA AccountAvrWrites == Types /\ Account /\ AvrWrites => Account'
<1> SUFFICES ASSUME Types, Account, AvrWrites, ~lossy' PROVE Account'
  BY DEF Account
<1>1. PICK f \in Answers : in' = in \o FrameBytes(f) /\ said' = Append(said, f)
  BY DEF AvrWrites
<1>2. UNCHANGED <<mb, pc, heard, clobbers, lossy>>
  BY DEF AvrWrites
<1>3. PICK i, k : AccountAt(i, k)
  BY <1>2 DEF Account
<1> DEFINE u == FrameBytes(f)
<1>4. u \in Seq(Buffered) /\ Len(u) = FrameLen /\ \A b \in 1 .. FrameLen : u[b] = Byte(f, b)
  <2>1. f \in Frame
    BY PortFacts
  <2> QED
    BY <2>1, FrameBuffered DEF FrameBytes
<1> HIDE DEF u
<1>5. \A b \in 1 .. FrameLen : u[b] = ByteOf(Append(said, f), Len(said) + 1, b)
  <2>1. Append(said, f)[Len(said) + 1] = f
    BY AccountTypes
  <2> QED
    BY <1>4, <2>1, AccountTypes DEF ByteOf
<1>6. At(in \o u, Append(said, f), FrameLen, mb, Accounted, i, k)
  <2>1. At(in, said, FrameLen, mb, Accounted, i, k)
    BY <1>3 DEF AccountAt
  <2> QED
    BY <1>4, <1>5, <2>1, AccountTypes, AtSent
<1>7. Accounted' = Accounted
  BY <1>2 DEF Accounted
<1>8. AccountAt(i, k)'
  BY <1>1, <1>2, <1>3, <1>6, <1>7 DEF AccountAt, u
<1> QED
  BY <1>8 DEF Account

LEMMA AccountNext == Types /\ Account /\ [Next]_vars => Account'
<1> SUFFICES ASSUME Types, Account, [Next]_vars PROVE Account'
  OBVIOUS
<1>1. CASE mp_init \/ InitNoMemory \/ InitNoTty \/ mp_close
  BY <1>1, AccountForgets
<1>2. CASE Request \/ sp_read \/ AvrWrites
  BY <1>2, AccountRequest, AccountRead, AccountAvrWrites
<1>3. CASE OnPing \/ OnOther
  BY <1>3, AccountProcessed DEF OnPing, OnOther
<1>4. CASE ParityError
  BY <1>4 DEF ParityError, Account
<1>5. CASE Poll \/ ReadEnds \/ Transmit \/ UNCHANGED vars
  BY <1>5, AccountStays DEF Poll, ReadEnds, Transmit, incoming, vars
<1> QED
  BY <1>1, <1>2, <1>3, <1>4, <1>5 DEF Next

LEMMA AccountEnd == Types /\ Account => OnlyRequestsLoseAnswers
<1> SUFFICES ASSUME Types, Account, pc = "idle", in = << >>, ~lossy
             PROVE  Len(said) = Len(heard) + clobbers
  BY DEF OnlyRequestsLoseAnswers
<1>1. PICK i, k : At(<< >>, said, FrameLen, mb, Accounted, i, k)
  BY DEF Account, AccountAt
<1>2. Accounted = Len(said)
  BY <1>1, AccountTypes, AtEnd
<1> QED
  BY <1>2, AccountTypes DEF Accounted

(* While all bytes come through, each answer of the AVR is processed or    *)
(* was cut in two by a request: at each moment those processed, in hand    *)
(* and cut in two are those that have been read, whatever the requests,    *)
(* and however often the port is opened and closed in between.             *)
THEOREM OnlyRequestsLose == Spec => []OnlyRequestsLoseAnswers
<1>1. Account /\ Types /\ [Next]_vars => Account'
  BY AccountNext
<1>2. Account /\ Types => OnlyRequestsLoseAnswers
  BY AccountEnd
<1> QED
  BY <1>1, <1>2, AccountInit, TypeCorrect, PTL DEF Spec
=============================================================================
