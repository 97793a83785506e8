--------------------------- MODULE AvrNode_proofs ---------------------------
(***************************************************************************)
(* The firmware behind its serial line, for every frame length, capacity   *)
(* of the receive buffer and set of commands, and for any number of them,  *)
(* of lost bytes, of changing inputs and of resets.                        *)
(***************************************************************************)
EXTENDS AvrNode, Frames_proofs

(* The lemmas about the register macros; the cloud's side has no part.     *)
RP == INSTANCE Relays_proofs WITH Values <- {}, Messages <- {}, MaxSaid <- 0,
                                  frames <- << >>, pulse <- {}, said <- << >>, done <- << >>

-----------------------------------------------------------------------------
(* Frames and registers.                                                   *)

Types == {"PING", "PONG", "UNKNOWN", "READ", "WRITE", "WRITE_BIT", "PULSE_BIT", "SUBSCRIBE"}

LEMMA FrameFields ==
    ASSUME NEW f \in Frame
    PROVE  /\ f.type \in Types
           /\ f.type = "PING" => f.arg \in Nat
           /\ f.type = "WRITE" => f.value \in Values8 /\ f.mask \in Values8
           /\ f.type \in {"WRITE_BIT", "PULSE_BIT"} => f.bit \in 0 .. 255
           /\ f.type = "WRITE_BIT" => f.on \in BOOLEAN
           /\ f.type = "SUBSCRIBE" => f.value \in Values8 /\ f.cancel \in BOOLEAN
           /\ f # Nothing
  BY DEF Frame, Types, Nothing

LEMMA CommandFacts ==
    /\ Commands \subseteq Frame /\ Nothing \notin Commands
    /\ MaxSend \in Nat /\ MaxDrop \in Nat /\ MaxInputs \in Nat /\ MaxReset \in Nat
    /\ MaxBehind \in Nat /\ Strays \subseteq BytesOf(Commands)
    /\ RxCapacity \in Nat \ {0} /\ FrameLen \in Nat \ {0}
<1>1. Commands \subseteq Frame
  BY NodeAssumption DEF NodeAssumption
<1>2. Nothing \notin Frame
  BY FrameFields
<1> QED
  BY <1>1, <1>2, NodeAssumption, FrameAssumption DEF NodeAssumption, FrameAssumption

LEMMA WrittenFacts ==
    /\ \A x \in Nat : Pong(x) \in Written
    /\ \A r \in Registers, v \in Values8, m \in Values8 : WriteRegister(r, v, m) \in Written
    /\ \A r \in Registers, v \in Values8, c \in BOOLEAN : SubscribeRegister(r, v, c) \in Written
<1>1. \A x \in Nat : Pong(x) \in Frame
  BY DEF Pong, Frame
<1>2. \A r \in Registers, v \in Values8, m \in Values8 : WriteRegister(r, v, m) \in Frame
  BY DEF WriteRegister, Frame
<1>3. \A r \in Registers, v \in Values8, c \in BOOLEAN : SubscribeRegister(r, v, c) \in Frame
  BY DEF SubscribeRegister, Frame
<1> QED
  BY <1>1, <1>2, <1>3 DEF Written, Pong, WriteRegister, SubscribeRegister

LEMMA RegisterFacts ==
    /\ Relays!Bits \in Values8 /\ {} \in Values8
    /\ Inputs \in Values8 /\ Outputs \in Values8
    /\ "IN" \in Registers /\ "OUT" \in Registers /\ "ERR" \in Registers
<1>1. Inputs \in Values8
  BY DEF Inputs, Relays!READ_DIGITAL_INPUTS, Values8, Pinc, Pind
<1>2. Outputs \in Values8
  BY DEF Outputs, Relays!READ_DIGITAL_OUTPUTS, Relays!Bits, Values8
<1> QED
  BY <1>1, <1>2 DEF Values8, Relays!Bits, Registers

(* A byte at the end of a frame is no newline.                             *)
LEMMA FinalFacts ==
    ASSUME NEW F, NEW b \in BytesOf(F), Final(b)
    PROVE  b[1] \in F
  BY FrameAssumption DEF FrameAssumption, BytesOf, Final, Newline, Byte

LEMMA NewlineFacts == Newline \in BytesOf(Commands) /\ ~Final(Newline)
  BY FrameAssumption DEF FrameAssumption, BytesOf, Final, Newline, Byte

(* What a frame of the AVR does to the message buffer and to tx.           *)
LEMMA DispatchFacts ==
    ASSUME NEW f \in Written, Dispatch(f), TypeOK
    PROVE  /\ mb' \in Seq(BytesOf(Commands \cup Written)) /\ Len(mb') <= FrameLen
           /\ tx' \in Seq(Written) /\ Len(tx') = Len(tx) + 1
           /\ tx'[Len(tx) + 1] = f /\ \A k \in 1 .. Len(tx) : tx'[k] = tx[k]
<1>1. mb' = FrameBytes(f) /\ tx' = Append(tx, f) /\ tx \in Seq(Written)
  BY DEF Dispatch, TypeOK
<1>2. f \in Commands \cup Written
  OBVIOUS
<1>3. FrameBytes(f) \in Seq(BytesOf(Commands \cup Written)) /\ Len(FrameBytes(f)) = FrameLen
  BY <1>2, FrameBytesFacts, Zenon
<1> QED
  BY <1>1, <1>3, CommandFacts

-----------------------------------------------------------------------------
(* Types.                                                                  *)

LEMMA TypesInit == Init => TypeOK
<1> SUFFICES ASSUME Init PROVE TypeOK
  OBVIOUS
<1>1. /\ wire = << >> /\ rx = << >> /\ mb = << >> /\ pc = "idle" /\ port = Relays!Bits
      /\ opto = {} /\ sIn = Unsubscribed /\ sOut = Unsubscribed /\ cmd = Nothing
      /\ tx = << >> /\ sent = << >> /\ done = << >> /\ boot = [n |-> 0, tx |-> 0]
      /\ drops = 0 /\ clobbers = 0 /\ changes = 0 /\ behind = 0
  BY DEF Init, Relays!Init
<1>2. /\ overflow \in BOOLEAN /\ mixed \in BOOLEAN /\ garbled \in BOOLEAN
      /\ ~mixed /\ ~garbled
  BY Zenon DEF Init
<1>3. Unsubscribed \in [on : BOOLEAN, value : Values8]
  BY RegisterFacts DEF Unsubscribed
<1>4. boot \in [n : 0 .. MaxReset, tx : 0 .. Len(tx)]
  BY <1>1, CommandFacts
<1> QED
  BY <1>1, <1>2, <1>3, <1>4, CommandFacts DEF TypeOK, Relays!TypeOK

LEMMA TypesRouterSend == TypeOK /\ RouterSend => TypeOK'
<1> SUFFICES ASSUME TypeOK, RouterSend PROVE TypeOK'
  OBVIOUS
<1>1. PICK f \in Commands : /\ wire' = Append(wire \o FrameBytes(f), Newline)
                            /\ sent' = Append(sent, f)
  BY DEF RouterSend
<1>2. wire' \in Seq(BytesOf(Commands)) /\ sent' \in Seq(Commands)
  <2>1. FrameBytes(f) \in Seq(BytesOf(Commands)) /\ Newline \in BytesOf(Commands)
    BY FrameBytesFacts, NewlineFacts, Zenon
  <2>2. wire \in Seq(BytesOf(Commands)) /\ sent \in Seq(Commands)
    BY DEF TypeOK
  <2> QED
    BY <1>1, <2>1, <2>2
<1> QED
  BY <1>2 DEF TypeOK, RouterSend, subs, drift, history, Relays!TypeOK

LEMMA TypesRouterWriteFails == TypeOK /\ RouterWriteFails => TypeOK'
<1> SUFFICES ASSUME TypeOK, RouterWriteFails PROVE TypeOK'
  OBVIOUS
<1>1. PICK f \in Commands, k \in 0 .. FrameLen :
         /\ wire' = wire \o SubSeq(FrameBytes(f), 1, k)
         /\ sent' = IF k = FrameLen THEN Append(sent, f) ELSE sent
  BY DEF RouterWriteFails
<1>2. wire' \in Seq(BytesOf(Commands)) /\ sent' \in Seq(Commands)
  <2>1. SubSeq(FrameBytes(f), 1, k) \in Seq(BytesOf(Commands))
    BY BeginningFacts
  <2>2. wire \in Seq(BytesOf(Commands)) /\ sent \in Seq(Commands)
    BY DEF TypeOK
  <2>3. wire' \in Seq(BytesOf(Commands))
    BY <1>1, <2>1, <2>2
  <2>4. sent' \in Seq(Commands)
    BY <1>1, <2>2
  <2> QED
    BY <2>3, <2>4
<1>3. drops' \in 0 .. MaxDrop
  BY CommandFacts DEF RouterWriteFails, TypeOK
<1> QED
  BY <1>2, <1>3 DEF TypeOK, RouterWriteFails, subs, drift, Relays!TypeOK

LEMMA TypesRouterStarts == TypeOK /\ RouterStarts => TypeOK'
<1> SUFFICES ASSUME TypeOK, RouterStarts PROVE TypeOK'
  OBVIOUS
<1>1. wire' \in Seq(BytesOf(Commands))
  BY DEF RouterStarts, TypeOK
<1>2. drops' \in 0 .. MaxDrop
  BY CommandFacts DEF RouterStarts, TypeOK
<1> QED
  BY <1>1, <1>2 DEF TypeOK, RouterStarts, subs, drift, Relays!TypeOK

LEMMA TypesReset == TypeOK /\ Reset => TypeOK'
<1> SUFFICES ASSUME TypeOK, Reset PROVE TypeOK'
  OBVIOUS
<1>1. wire' \in Seq(BytesOf(Commands))
  BY DEF Reset, Restart, TypeOK
<1>2. boot' \in [n : 0 .. MaxReset, tx : 0 .. Len(tx')]
  <2>1. boot.n \in 0 .. MaxReset /\ boot.n < MaxReset /\ Len(tx) \in Nat
    BY DEF Reset, Restart, TypeOK
  <2>2. boot' = [n |-> boot.n + 1, tx |-> Len(tx)] /\ tx' = tx
    BY DEF Reset, Restart
  <2> QED
    BY <2>1, <2>2, CommandFacts
<1>3. Unsubscribed \in [on : BOOLEAN, value : Values8]
  BY RegisterFacts DEF Unsubscribed
<1>4. rx' = << >> /\ mb' = << >> /\ pc' = "idle" /\ cmd' = Nothing /\ port' = Relays!Bits
      /\ sIn' = Unsubscribed /\ sOut' = Unsubscribed
      /\ UNCHANGED <<opto, tx, sent, done, garbled, drops, overflow, clobbers, changes>>
      /\ behind' = 0
  BY DEF Reset, Restart
<1>5. ~mixed' /\ mixed' \in BOOLEAN
  BY Zenon DEF Reset, Restart
<1> QED
  BY <1>1, <1>2, <1>3, <1>4, <1>5, CommandFacts DEF TypeOK, Relays!TypeOK

(* What the interrupt does to the ring buffer.                             *)
StorageOK ==
    /\ rx \in Seq(BytesOf(Commands)) /\ Len(rx) <= RxCapacity
    /\ behind \in 0 .. MaxBehind /\ behind <= Len(rx)
    /\ mixed \in BOOLEAN /\ garbled \in BOOLEAN /\ overflow \in BOOLEAN
    /\ (mixed => garbled) /\ (garbled => overflow)

LEMMA StoreFacts ==
    ASSUME TypeOK, NEW b \in BytesOf(Commands), Store(b)
    PROVE  /\ StorageOK'
           /\ rx' = Deque!PushOver(RxCapacity, rx, b)
           /\ garbled => garbled'
           /\ overflow \/ Len(rx) = RxCapacity => overflow'
<1> DEFINE full == Len(rx) = RxCapacity
           lost == full /\ behind > 0
<1>1. /\ rx' = Deque!PushOver(RxCapacity, rx, b)
      /\ overflow' = (overflow \/ full)
      /\ behind' = IF lost THEN behind - 1 ELSE behind
      /\ mixed' = (mixed \/ lost) /\ garbled' = (garbled \/ lost)
  BY Zenon DEF Store
<1>2. /\ rx \in Seq(BytesOf(Commands)) /\ Len(rx) \in Nat /\ Len(rx) <= RxCapacity
      /\ behind \in 0 .. MaxBehind /\ behind <= Len(rx)
      /\ RxCapacity \in Nat \ {0} /\ MaxBehind \in Nat
  BY CommandFacts DEF TypeOK
<1>3. /\ mixed \in BOOLEAN /\ garbled \in BOOLEAN /\ overflow \in BOOLEAN
      /\ (mixed => garbled) /\ (garbled => overflow)
  BY Zenon DEF TypeOK
<1>4. /\ rx' \in Seq(BytesOf(Commands))
      /\ Len(rx') = IF Len(rx) < RxCapacity THEN Len(rx) + 1 ELSE RxCapacity
  <2>1. rx' = Deque!PushOver(RxCapacity, rx, b)
    BY <1>1, Zenon
  <2> HIDE DEF full, lost
  <2>2. CASE Len(rx) < RxCapacity
    BY <1>2, <2>1, <2>2 DEF Deque!PushOver
  <2>3. CASE Len(rx) = RxCapacity
    <3>1. Tail(rx) \in Seq(BytesOf(Commands)) /\ Len(Tail(rx)) = RxCapacity - 1
      BY <1>2, <2>3
    <3> QED
      BY <1>2, <2>1, <2>3, <3>1 DEF Deque!PushOver
  <2> QED
    BY <1>2, <2>2, <2>3
<1>5. behind' \in 0 .. MaxBehind /\ behind' <= Len(rx') /\ Len(rx') <= RxCapacity
  BY <1>1, <1>2, <1>4
<1> HIDE DEF full, lost
<1>6. lost => full
  BY DEF lost
<1>7. /\ mixed' \in BOOLEAN /\ garbled' \in BOOLEAN /\ overflow' \in BOOLEAN
      /\ (mixed' => garbled') /\ (garbled' => overflow') /\ (garbled => garbled')
      /\ (overflow \/ full => overflow')
  BY <1>1, <1>3, <1>6, Zenon
<1> QED
  BY <1>1, <1>4, <1>5, <1>7, Zenon DEF StorageOK, full

LEMMA TypesUsartRx == TypeOK /\ UsartRx => TypeOK'
<1> SUFFICES ASSUME TypeOK, UsartRx PROVE TypeOK'
  OBVIOUS
<1>1. wire' \in Seq(BytesOf(Commands)) /\ Head(wire) \in BytesOf(Commands)
  BY DEF UsartRx, TypeOK
<1>2. StorageOK'
  BY <1>1, StoreFacts DEF UsartRx
<1> QED
  BY <1>1, <1>2 DEF TypeOK, StorageOK, UsartRx, subs, Relays!TypeOK

LEMMA TypesUsartParityError == TypeOK /\ UsartParityError => TypeOK'
<1> SUFFICES ASSUME TypeOK, UsartParityError PROVE TypeOK'
  OBVIOUS
<1>1. wire' \in Seq(BytesOf(Commands))
  BY DEF UsartParityError, TypeOK
<1>2. drops' \in 0 .. MaxDrop
  BY CommandFacts DEF UsartParityError, TypeOK
<1>3. StorageOK'
  <2>1. CASE UNCHANGED <<rx, overflow, drift>>
    BY <2>1 DEF TypeOK, StorageOK, drift
  <2>2. CASE Store(Newline)
    BY <2>2, NewlineFacts, StoreFacts
  <2> QED
    BY <2>1, <2>2 DEF UsartParityError
<1> QED
  BY <1>1, <1>2, <1>3 DEF TypeOK, StorageOK, UsartParityError, subs, Relays!TypeOK

LEMMA TypesInputChange == TypeOK /\ InputChange => TypeOK'
<1> SUFFICES ASSUME TypeOK, InputChange PROVE TypeOK'
  OBVIOUS
<1>1. opto' \subseteq Optos /\ changes' \in 0 .. MaxInputs
  BY CommandFacts DEF InputChange, TypeOK
<1> QED
  BY <1>1 DEF TypeOK, InputChange, line, subs, drift, Relays!TypeOK

LEMMA TypesPoll == TypeOK /\ (Poll \/ ReadNothing) => TypeOK'
  BY DEF TypeOK, Poll, ReadNothing, quiet, others, drift, subs, Relays!TypeOK

(* What get_bytes returns was sent: its last byte came over the line.      *)
LEMMA TakeFacts ==
    ASSUME TypeOK, pc = "read", NEW b \in BytesOf(Commands), Take(b)
    PROVE  /\ mb' \in Seq(BytesOf(Commands \cup Written)) /\ Len(mb') <= FrameLen
           /\ mb' = PushByte(mb, b)
           /\ Valid(mb') => /\ cmd' = b[1] /\ Final(b) /\ cmd' \in Commands
                            /\ pc' = "process"
           /\ ~Valid(mb') => cmd' = Nothing /\ pc' = "read"
<1>1. /\ mb' = PushByte(mb, b) /\ mb \in Seq(BytesOf(Commands \cup Written))
      /\ Len(mb) <= FrameLen
  BY DEF Take, TypeOK
<1>2. b \in BytesOf(Commands \cup Written)
  BY DEF BytesOf
<1>3. /\ mb' \in Seq(BytesOf(Commands \cup Written)) /\ Len(mb') <= FrameLen
      /\ mb'[Len(mb')] = b
  BY <1>1, <1>2, PushFacts, CommandFacts DEF PushByte
<1>4. Valid(mb') => /\ cmd' = b[1] /\ Final(b) /\ cmd' \in Commands
                    /\ pc' = "process"
  <2> SUFFICES ASSUME Valid(mb')
               PROVE  /\ cmd' = b[1] /\ Final(b) /\ cmd' \in Commands
                      /\ pc' = "process"
    OBVIOUS
  <2>1. mb'[FrameLen] = <<mb'[1][1], FrameLen>> /\ Final(mb'[FrameLen]) /\ Len(mb') = FrameLen
    BY ValidFacts
  <2>2. cmd' = mb'[1][1] /\ pc' = "process"
    BY DEF Take
  <2> QED
    BY <1>3, <2>1, <2>2, FinalFacts
<1>5. ~Valid(mb') => cmd' = Nothing /\ pc' = "read"
  BY DEF Take, TypeOK
<1> QED
  BY <1>1, <1>3, <1>4, <1>5

(* A pop_front, struck or not.                                             *)
Read == ReadByte \/ ReadByteStruck

LEMMA ReadFacts ==
    ASSUME TypeOK, Read
    PROVE  /\ pc = "read" /\ cmd = Nothing
           /\ \E b \in BytesOf(Commands) : Take(b)
           /\ UNCHANGED <<sent, opto, boot, drops, changes, port, subs, tx, done, clobbers>>
           /\ wire' \in Seq(BytesOf(Commands)) /\ StorageOK'
           /\ rx # << >> /\ Head(rx) \in BytesOf(Commands)
<1>1. pc = "read" /\ cmd = Nothing /\ Len(rx) > behind
  BY DEF Read, ReadByte, ReadByteStruck, TypeOK
<1>2. /\ rx \in Seq(BytesOf(Commands)) /\ wire \in Seq(BytesOf(Commands))
      /\ Len(rx) \in Nat /\ Len(rx) <= RxCapacity
      /\ behind \in 0 .. MaxBehind /\ behind <= Len(rx)
      /\ RxCapacity \in Nat \ {0} /\ MaxBehind \in Nat
  BY CommandFacts DEF TypeOK
<1>3. /\ mixed \in BOOLEAN /\ garbled \in BOOLEAN /\ overflow \in BOOLEAN
      /\ (mixed => garbled) /\ (garbled => overflow)
  BY Zenon DEF TypeOK
<1>4. /\ rx # << >> /\ Head(rx) \in BytesOf(Commands) /\ Tail(rx) \in Seq(BytesOf(Commands))
      /\ Len(Tail(rx)) = Len(rx) - 1
  BY <1>1, <1>2
<1>5. Oldest \subseteq BytesOf(Commands) /\ Strays \subseteq BytesOf(Commands)
  BY <1>4, CommandFacts DEF Oldest
<1>6. CASE ReadByte
  <2>1. rx' = Tail(rx) /\ UNCHANGED <<wire, behind>>
    BY <1>6 DEF ReadByte, quiet, drift
  <2>2. /\ mixed' \in BOOLEAN /\ garbled' \in BOOLEAN /\ overflow' \in BOOLEAN
        /\ (mixed' => garbled') /\ (garbled' => overflow')
    BY <1>3, <1>6 DEF ReadByte, quiet, drift
  <2>3. StorageOK'
    BY <1>1, <1>2, <1>4, <2>1, <2>2 DEF StorageOK
  <2>4. PICK b \in Oldest : Take(b)
    BY <1>6 DEF ReadByte
  <2>5. UNCHANGED <<sent, opto, boot, drops, changes, port, subs, tx, done, clobbers>>
    BY <1>6, <2>4 DEF ReadByte, quiet, others, Take
  <2> QED
    BY <1>1, <1>2, <1>4, <1>5, <2>1, <2>3, <2>4, <2>5
<1>7. CASE ReadByteStruck
  <2>1. wire # << >> /\ wire' = Tail(wire)
    BY <1>7 DEF ReadByteStruck
  <2>2. Head(wire) \in BytesOf(Commands) /\ wire' \in Seq(BytesOf(Commands))
    BY <1>2, <2>1
  <2>3. ASSUME Len(rx) < RxCapacity, behind < MaxBehind,
               rx' = Append(Tail(rx), Head(wire)), behind' = behind + 1,
               UNCHANGED <<mixed, garbled, overflow>>
        PROVE  StorageOK'
    <3>1. rx' \in Seq(BytesOf(Commands)) /\ Len(rx') = Len(rx)
      BY <1>2, <1>4, <2>2, <2>3
    <3>2. behind' \in 0 .. MaxBehind /\ behind' <= Len(rx')
      BY <1>1, <1>2, <2>3, <3>1
    <3>3. /\ mixed' \in BOOLEAN /\ garbled' \in BOOLEAN /\ overflow' \in BOOLEAN
          /\ (mixed' => garbled') /\ (garbled' => overflow')
      BY <1>3, <2>3
    <3> QED
      BY <1>2, <3>1, <3>2, <3>3 DEF StorageOK
  <2>4. ASSUME Len(rx) = RxCapacity, rx' = Tail(rx), UNCHANGED behind,
               mixed' = TRUE, garbled' = TRUE, overflow' = TRUE
        PROVE  StorageOK'
    <3>1. behind' <= Len(rx') /\ Len(rx') <= RxCapacity
      BY <1>1, <1>2, <1>4, <2>4
    <3> QED
      BY <1>2, <1>4, <2>4, <3>1 DEF StorageOK
  <2>5. StorageOK' /\ \E b \in BytesOf(Commands) : Take(b)
    <3>1. CASE /\ Len(rx) < RxCapacity /\ behind < MaxBehind
               /\ \E b \in Oldest : Take(b)
               /\ rx' = Append(Tail(rx), Head(wire)) /\ behind' = behind + 1
               /\ UNCHANGED <<mixed, garbled, overflow>>
      BY <1>5, <2>3, <3>1
    <3>2. CASE /\ Len(rx) = RxCapacity
               /\ \E b \in Strays : Take(b)
               /\ rx' = Tail(rx)
               /\ mixed' = TRUE /\ garbled' = TRUE /\ overflow' = TRUE
               /\ UNCHANGED behind
      BY <1>5, <2>4, <3>2
    <3> QED
      BY <1>7, <3>1, <3>2, Zenon DEF ReadByteStruck
  <2>6. UNCHANGED <<sent, opto, boot, drops, changes, port, subs, tx, done, clobbers>>
    <3>1. PICK b \in BytesOf(Commands) : Take(b)
      BY <2>5
    <3> QED
      BY <1>7, <3>1 DEF ReadByteStruck, others, Take
  <2> QED
    BY <1>1, <1>4, <2>2, <2>5, <2>6
<1> QED
  BY <1>6, <1>7 DEF Read

LEMMA TypesRead == TypeOK /\ Read => TypeOK'
<1> SUFFICES ASSUME TypeOK, Read PROVE TypeOK'
  OBVIOUS
<1>1. PICK b \in BytesOf(Commands) : Take(b)
  BY ReadFacts
<1>2. /\ mb' \in Seq(BytesOf(Commands \cup Written)) /\ Len(mb') <= FrameLen
      /\ cmd' \in Commands \cup {Nothing} /\ (cmd' = Nothing <=> pc' \notin {"process", "pulse"})
      /\ pc' \in {"read", "process"}
  BY <1>1, TakeFacts, ReadFacts, CommandFacts
<1>3. /\ UNCHANGED <<sent, opto, boot, drops, changes, port, subs, tx, done, clobbers>>
      /\ wire' \in Seq(BytesOf(Commands)) /\ StorageOK'
  BY ReadFacts
<1> QED
  BY <1>2, <1>3 DEF TypeOK, StorageOK, subs, Relays!TypeOK

(* What all handlers leave behind.                                         *)
Handled ==
    /\ pc' = "poll_in" /\ cmd' = Nothing /\ done' = Append(done, cmd)
    /\ UNCHANGED <<wire, sent, rx, drift, opto, boot, drops, overflow, clobbers, changes>>

(* ... and what they do besides: an answer or none, the relays, the        *)
(* subscriptions.                                                          *)
Answered == \/ UNCHANGED <<mb, tx>>
            \/ \E f \in Written : Dispatch(f)

LEMMA TypesHandled ==
    ASSUME TypeOK, Handled, Answered, cmd \in Commands, port' \in SUBSET Relays!Bits,
           sIn' \in [on : BOOLEAN, value : Values8], sOut' \in [on : BOOLEAN, value : Values8]
    PROVE  TypeOK'
<1>1. /\ mb' \in Seq(BytesOf(Commands \cup Written)) /\ Len(mb') <= FrameLen
      /\ tx' \in Seq(Written) /\ Len(tx') >= Len(tx)
  <2>1. CASE UNCHANGED <<mb, tx>>
    BY <2>1 DEF TypeOK
  <2>2. ASSUME NEW f \in Written, Dispatch(f)
        PROVE  /\ mb' \in Seq(BytesOf(Commands \cup Written)) /\ Len(mb') <= FrameLen
               /\ tx' \in Seq(Written) /\ Len(tx') >= Len(tx)
    <3>1. Len(tx) \in Nat
      BY DEF TypeOK
    <3>2. /\ mb' \in Seq(BytesOf(Commands \cup Written)) /\ Len(mb') <= FrameLen
          /\ tx' \in Seq(Written) /\ Len(tx') = Len(tx) + 1
      BY <2>2, DispatchFacts
    <3> QED
      BY <3>1, <3>2
  <2> QED
    BY <2>1, <2>2 DEF Answered
<1>2. boot' \in [n : 0 .. MaxReset, tx : 0 .. Len(tx')]
  <2>1. boot' = boot /\ boot \in [n : 0 .. MaxReset, tx : 0 .. Len(tx)] /\ Len(tx) \in Nat
    BY DEF Handled, TypeOK
  <2> QED
    BY <1>1, <2>1
<1>3. done' \in Seq(Commands)
  BY DEF Handled, TypeOK
<1> QED
  BY <1>1, <1>2, <1>3 DEF TypeOK, Handled, drift, Relays!TypeOK

(* The relays stay a set of the eight bits.                                *)
LEMMA RelayTypes ==
    ASSUME TypeOK
    PROVE  /\ port \in SUBSET Relays!Bits
           /\ \A v, m : Relays!WriteRegister(v, m) => port' \in SUBSET Relays!Bits
           /\ \A on : \A b \in 0 .. 255 : b < 8 /\ Relays!WriteRegisterBit(b, on)
                                           => port' \in SUBSET Relays!Bits
           /\ \A b \in 0 .. 255 : b < 8 /\ Relays!ToggleBit(b) => port' \in SUBSET Relays!Bits
<1>1. port \in SUBSET Relays!Bits
  BY DEF TypeOK, Relays!TypeOK
<1>2. \A p : Relays!WRITE_DIGITAL_OUTPUTS(p) \in SUBSET (0 .. 7)
  BY DEF Relays!WRITE_DIGITAL_OUTPUTS, Relays!Bits
<1>3. ASSUME NEW v, NEW m, Relays!WriteRegister(v, m) PROVE port' \in SUBSET Relays!Bits
  BY <1>2, <1>3 DEF Relays!WriteRegister, Relays!WRITE_DIGITAL_OUTPUTS_MASKED, Relays!Bits
<1>4. \A b \in 0 .. 255 : b < 8 => Relays!Decode(b) \in 0 .. 7
  BY DEF Relays!Decode
<1>5. ASSUME NEW b \in 0 .. 255, b < 8, NEW on, Relays!WriteRegisterBit(b, on)
      PROVE  port' \in SUBSET Relays!Bits
  BY <1>1, <1>4, <1>5 DEF Relays!WriteRegisterBit, Relays!SET_DIGITAL_OUTPUT_BIT,
                     Relays!CLEAR_DIGITAL_OUTPUT_BIT, Relays!Bits
<1>6. ASSUME NEW b \in 0 .. 255, b < 8, Relays!ToggleBit(b)
      PROVE  port' \in SUBSET Relays!Bits
  BY <1>1, <1>4, <1>6 DEF Relays!ToggleBit, Relays!TOGGLE_DIGITAL_OUTPUT_BIT, Relays!Bits
<1> QED
  BY <1>1, <1>3, <1>5, <1>6

LEMMA SubscriptionTypes ==
    ASSUME NEW v \in Values8
    PROVE  Subscription(v) \in [on : BOOLEAN, value : Values8]
  BY RegisterFacts DEF Subscription, Unsubscribed

(* The handlers of process_message.                                        *)
Handler ==
    \/ OnPing \/ OnPong \/ OnReadRegister \/ OnWriteRegister \/ OnWriteRegisterBit
    \/ OnSubscribeRegister \/ OnUnknown

LEMMA HandlerFacts ==
    ASSUME TypeOK, Handler
    PROVE  /\ Handled /\ Answered /\ cmd \in Commands /\ pc = "process"
           /\ port' \in SUBSET Relays!Bits
           /\ sIn' \in [on : BOOLEAN, value : Values8]
           /\ sOut' \in [on : BOOLEAN, value : Values8]
<1>1. \A t : Handle(t) => /\ cmd \in Commands /\ cmd \in Frame /\ cmd.type = t
                          /\ pc = "process" /\ (pc' = "poll_in" => Handled)
  BY CommandFacts DEF Handle, Handled, TypeOK, quiet, others
<1>2. NoAnswer => pc' = "poll_in" /\ Answered
  BY DEF NoAnswer, Answered
<1>3. \A f \in Written : Answer(f) => pc' = "poll_in" /\ Answered
  BY DEF Answer, Answered
<1>4. UNCHANGED port => port' \in SUBSET Relays!Bits
  BY DEF TypeOK, Relays!TypeOK
<1>5. UNCHANGED subs => /\ sIn' \in [on : BOOLEAN, value : Values8]
                        /\ sOut' \in [on : BOOLEAN, value : Values8]
  BY DEF TypeOK, subs
<1>6. CASE OnPing
  <2>1. cmd.arg \in Nat
    BY <1>1, <1>6, FrameFields DEF OnPing
  <2> QED
    BY <1>1, <1>3, <1>4, <1>5, <1>6, <2>1, WrittenFacts DEF OnPing
<1>7. CASE OnPong
  BY <1>1, <1>2, <1>4, <1>5, <1>7 DEF OnPong
<1>8. CASE OnReadRegister
  BY <1>1, <1>3, <1>4, <1>5, <1>8, WrittenFacts, RegisterFacts DEF OnReadRegister
<1>9. CASE OnWriteRegister
  BY <1>1, <1>2, <1>4, <1>5, <1>9, RelayTypes DEF OnWriteRegister
<1>10. CASE OnWriteRegisterBit
  <2>1. cmd.bit \in 0 .. 255
    BY <1>1, <1>10, FrameFields DEF OnWriteRegisterBit
  <2> QED
    BY <1>1, <1>2, <1>4, <1>5, <1>10, <2>1, RelayTypes DEF OnWriteRegisterBit
<1>11. CASE OnSubscribeRegister
  <2>1. cmd.cancel \in BOOLEAN
    BY <1>1, <1>11, FrameFields DEF OnSubscribeRegister
  <2>2. \E f \in Written : Answer(f)
    BY <1>11, <2>1, WrittenFacts, RegisterFacts DEF OnSubscribeRegister
  <2>3. /\ sIn' \in [on : BOOLEAN, value : Values8]
        /\ sOut' \in [on : BOOLEAN, value : Values8]
    <3>1. /\ sIn \in [on : BOOLEAN, value : Values8]
          /\ sOut \in [on : BOOLEAN, value : Values8]
      BY DEF TypeOK
    <3>2. /\ Subscription(Inputs) \in [on : BOOLEAN, value : Values8]
          /\ Subscription(Outputs) \in [on : BOOLEAN, value : Values8]
      BY SubscriptionTypes, RegisterFacts, Zenon
    <3>3. /\ sIn' = Subscription(Inputs) \/ sIn' = sIn
          /\ sOut' = Subscription(Outputs) \/ sOut' = sOut
      BY <1>11, Zenon DEF OnSubscribeRegister, subs
    <3> QED
      BY <3>1, <3>2, <3>3, Zenon
  <2> QED
    BY <1>1, <1>3, <1>4, <1>11, <2>2, <2>3 DEF OnSubscribeRegister
<1>12. CASE OnUnknown
  BY <1>1, <1>2, <1>4, <1>5, <1>12 DEF OnUnknown
<1> QED
  BY <1>6, <1>7, <1>8, <1>9, <1>10, <1>11, <1>12 DEF Handler

LEMMA TypesHandler == TypeOK /\ Handler => TypeOK'
  BY HandlerFacts, TypesHandled

(* A pulse.                                                                *)
LEMMA PulseFacts ==
    ASSUME TypeOK, OnPulseRegisterBit
    PROVE  /\ cmd \in Commands /\ cmd \in Frame /\ cmd.type = "PULSE_BIT" /\ pc = "process"
           /\ cmd.bit \in 0 .. 255
           /\ UNCHANGED <<quiet, rx, mb, subs, tx, clobbers>>
           /\ \/ /\ cmd.bit < 8 /\ cmd.reg = "OUT" /\ Relays!ToggleBit(cmd.bit)
                 /\ pc' = "pulse" /\ UNCHANGED <<cmd, done>>
              \/ /\ cmd.bit >= 8 \/ cmd.reg # "OUT"
                 /\ UNCHANGED port
                 /\ Handled
<1>1. cmd \in Commands /\ cmd \in Frame /\ cmd.type = "PULSE_BIT" /\ pc = "process"
  BY CommandFacts DEF OnPulseRegisterBit, TypeOK
<1>2. cmd.bit \in 0 .. 255
  BY <1>1, FrameFields
<1> QED
  BY <1>1, <1>2 DEF OnPulseRegisterBit, Handled, quiet, others, subs

LEMMA TypesPulse == TypeOK /\ OnPulseRegisterBit => TypeOK'
<1> SUFFICES ASSUME TypeOK, OnPulseRegisterBit PROVE TypeOK'
  OBVIOUS
<1>1. CASE /\ cmd.bit < 8 /\ cmd.reg = "OUT" /\ Relays!ToggleBit(cmd.bit)
           /\ pc' = "pulse" /\ UNCHANGED <<cmd, done>>
  <2>1. port' \in SUBSET Relays!Bits /\ cmd # Nothing
    BY <1>1, PulseFacts, RelayTypes, CommandFacts
  <2>2. UNCHANGED <<quiet, rx, mb, subs, tx, clobbers>>
    BY PulseFacts
  <2> QED
    BY <1>1, <2>1, <2>2 DEF TypeOK, quiet, others, drift, subs, Relays!TypeOK
<1>2. CASE UNCHANGED port /\ Handled
  <2>1. Answered /\ cmd \in Commands /\ UNCHANGED subs
    BY PulseFacts DEF Answered
  <2> QED
    BY <1>2, <2>1, TypesHandled DEF TypeOK, subs, Relays!TypeOK
<1> QED
  BY <1>1, <1>2, PulseFacts

LEMMA PulseEndFacts ==
    ASSUME TypeOK, PulseEnd, cmd.type = "PULSE_BIT", cmd.bit < 8
    PROVE  /\ cmd \in Commands /\ cmd \in Frame /\ cmd.bit \in 0 .. 7
           /\ Handled /\ UNCHANGED <<mb, subs, tx>> /\ port' \in SUBSET Relays!Bits
<1>1. cmd \in Commands /\ cmd \in Frame
  BY CommandFacts DEF PulseEnd, TypeOK
<1>2. cmd.bit \in 0 .. 255
  BY <1>1, FrameFields
<1>3. port' \in SUBSET Relays!Bits
  BY <1>2, RelayTypes DEF PulseEnd
<1>4. cmd.bit \in 0 .. 7
  BY <1>2
<1>5. Handled /\ UNCHANGED <<mb, subs, tx>>
  BY DEF PulseEnd, Handled, quiet, others, subs
<1> QED
  BY <1>1, <1>3, <1>4, <1>5

(* What is being pulsed.                                                   *)
PulseInv == pc = "pulse" => cmd.type = "PULSE_BIT" /\ cmd.bit < 8 /\ cmd.reg = "OUT"

LEMMA TypesPulseEnd == TypeOK /\ PulseInv /\ PulseEnd => TypeOK'
<1> SUFFICES ASSUME TypeOK, PulseInv, PulseEnd PROVE TypeOK'
  OBVIOUS
<1>1. /\ cmd \in Commands /\ Handled /\ UNCHANGED <<mb, subs, tx>>
      /\ port' \in SUBSET Relays!Bits
  BY PulseEndFacts DEF PulseInv, PulseEnd
<1> QED
  BY <1>1, TypesHandled DEF TypeOK, subs, Answered

LEMMA TypesNotify ==
    ASSUME TypeOK, NEW r \in {"IN", "OUT"}, NEW v \in Values8, Notify(r, v)
    PROVE  /\ mb' \in Seq(BytesOf(Commands \cup Written)) /\ Len(mb') <= FrameLen
           /\ tx' \in Seq(Written) /\ clobbers' \in Nat
           /\ boot' = boot => boot' \in [n : 0 .. MaxReset, tx : 0 .. Len(tx')]
<1>1. SubscribeRegister(r, v, FALSE) \in Written /\ Dispatch(SubscribeRegister(r, v, FALSE))
  BY WrittenFacts, RegisterFacts DEF Notify
<1>2. /\ mb' \in Seq(BytesOf(Commands \cup Written)) /\ Len(mb') <= FrameLen
      /\ tx' \in Seq(Written) /\ Len(tx') = Len(tx) + 1
  BY <1>1, DispatchFacts
<1>3. clobbers' \in Nat
  BY DEF Notify, TypeOK
<1>4. boot \in [n : 0 .. MaxReset, tx : 0 .. Len(tx)] /\ Len(tx) \in Nat
  BY DEF TypeOK
<1> QED
  BY <1>2, <1>3, <1>4

LEMMA TypesPollInputs == TypeOK /\ PollInputs => TypeOK'
<1> SUFFICES ASSUME TypeOK, PollInputs PROVE TypeOK'
  OBVIOUS
<1>1. CASE sIn' = [sIn EXCEPT !.value = Inputs] /\ Notify("IN", Inputs)
  <2>1. /\ mb' \in Seq(BytesOf(Commands \cup Written)) /\ Len(mb') <= FrameLen
        /\ tx' \in Seq(Written) /\ clobbers' \in Nat
        /\ boot' \in [n : 0 .. MaxReset, tx : 0 .. Len(tx')]
    BY <1>1, TypesNotify, RegisterFacts DEF PollInputs, quiet, others
  <2>2. sIn' \in [on : BOOLEAN, value : Values8]
    BY <1>1, RegisterFacts DEF TypeOK
  <2> QED
    BY <2>1, <2>2 DEF TypeOK, PollInputs, quiet, others, drift, Relays!TypeOK
<1>2. CASE UNCHANGED <<sIn, mb, tx, clobbers>>
  BY <1>2 DEF TypeOK, PollInputs, quiet, others, drift, Relays!TypeOK
<1> QED
  BY <1>1, <1>2 DEF PollInputs

LEMMA TypesPollOutputs == TypeOK /\ PollOutputs => TypeOK'
<1> SUFFICES ASSUME TypeOK, PollOutputs PROVE TypeOK'
  OBVIOUS
<1>1. CASE sOut' = [sOut EXCEPT !.value = Outputs] /\ Notify("OUT", Outputs)
  <2>1. /\ mb' \in Seq(BytesOf(Commands \cup Written)) /\ Len(mb') <= FrameLen
        /\ tx' \in Seq(Written) /\ clobbers' \in Nat
        /\ boot' \in [n : 0 .. MaxReset, tx : 0 .. Len(tx')]
    BY <1>1, TypesNotify, RegisterFacts DEF PollOutputs, quiet, others
  <2>2. sOut' \in [on : BOOLEAN, value : Values8]
    BY <1>1, RegisterFacts DEF TypeOK
  <2> QED
    BY <2>1, <2>2 DEF TypeOK, PollOutputs, quiet, others, drift, Relays!TypeOK
<1>2. CASE UNCHANGED <<sOut, mb, tx, clobbers>>
  BY <1>2 DEF TypeOK, PollOutputs, quiet, others, drift, Relays!TypeOK
<1> QED
  BY <1>1, <1>2 DEF PollOutputs

LEMMA PulseNext == TypeOK /\ PulseInv /\ [Next]_vars => PulseInv'
<1> SUFFICES ASSUME TypeOK, PulseInv, [Next]_vars PROVE PulseInv'
  OBVIOUS
<1>1. CASE Handler
  BY <1>1, HandlerFacts DEF Handled, PulseInv
<1>2. CASE OnPulseRegisterBit
  BY <1>2, PulseFacts DEF PulseInv, Handled
<1>3. CASE RouterNext \/ UsartRx \/ UsartParityError \/ InputChange \/ UNCHANGED vars
  BY <1>3 DEF PulseInv, RouterNext, RouterSend, RouterWriteFails, RouterStarts, UsartRx,
              UsartParityError, InputChange, vars
<1>4. CASE Reset \/ Poll \/ ReadNothing \/ PulseEnd \/ PollInputs \/ PollOutputs
  BY <1>4 DEF PulseInv, Reset, Restart, Poll, ReadNothing, PulseEnd, PollInputs, PollOutputs
<1>5. CASE Read
  BY <1>5, ReadFacts DEF PulseInv, Take
<1> QED
  BY <1>1, <1>2, <1>3, <1>4, <1>5 DEF Next, MainLoop, Handler, Read

LEMMA TypesNext == TypeOK /\ PulseInv /\ [Next]_vars => TypeOK'
<1> SUFFICES ASSUME TypeOK, PulseInv, [Next]_vars PROVE TypeOK'
  OBVIOUS
<1>1. CASE UNCHANGED vars
  BY <1>1 DEF TypeOK, vars, subs, drift, history, Relays!TypeOK
<1>2. CASE RouterNext \/ Reset \/ UsartRx \/ UsartParityError \/ InputChange
  BY <1>2, TypesRouterSend, TypesRouterWriteFails, TypesRouterStarts, TypesReset,
     TypesUsartRx, TypesUsartParityError, TypesInputChange DEF RouterNext
<1>3. CASE MainLoop
  BY <1>3, TypesPoll, TypesRead, TypesHandler, TypesPulse, TypesPulseEnd,
     TypesPollInputs, TypesPollOutputs DEF MainLoop, Handler, Read
<1> QED
  BY <1>1, <1>2, <1>3 DEF Next

(* Nothing but bytes of sent frames ever reaches the buffers, which stay   *)
(* within their storage, and what get_bytes takes out of the message       *)
(* buffer, where the AVR's own frames are made too, is a command.          *)
THEOREM TypeCorrect == Spec => [](TypeOK /\ PulseInv)
<1>1. Init => TypeOK /\ PulseInv
  BY TypesInit DEF Init, PulseInv
<1>2. (TypeOK /\ PulseInv) /\ [Next]_vars => (TypeOK /\ PulseInv)'
  BY TypesNext, PulseNext
<1> QED
  BY <1>1, <1>2, PTL DEF Spec

-----------------------------------------------------------------------------
(* Commands are carried out in the order in which they were sent.          *)

(* The command in hand counts as done.                                     *)
Taken == IF cmd = Nothing THEN done ELSE Append(done, cmd)

(* Up to frame p of sent the commands are done, or lost; the last bytes of *)
(* those up to q may be in the receive buffer, and of the others on the    *)
(* line.                                                                   *)
OrderAt(p, q) ==
    /\ p \in Nat /\ q \in Nat /\ p <= q /\ q <= Len(sent)
    /\ TakenFrom(Taken, p, sent)
    /\ Within(rx, p, q, sent)
    /\ Within(wire, q, Len(sent), sent)

(* As long as the storage has kept its order.                              *)
Order == ~garbled => \E p, q \in Nat : OrderAt(p, q)

LEMMA OrderTypes ==
    ASSUME TypeOK
    PROVE  /\ wire \in Seq(BytesOf(Commands)) /\ rx \in Seq(BytesOf(Commands))
           /\ sent \in Seq(Commands) /\ done \in Seq(Commands) /\ Taken \in Seq(Commands)
           /\ Len(sent) \in Nat /\ Len(rx) \in Nat /\ Len(wire) \in Nat
           /\ Len(Taken) \in Nat /\ Len(rx) <= RxCapacity
  BY DEF TypeOK, Taken

LEMMA OrderInit == Init => Order
<1> SUFFICES ASSUME Init PROVE \E p, q \in Nat : OrderAt(p, q)
  BY DEF Order
<1>1. Taken = << >> /\ rx = << >> /\ wire = << >> /\ sent = << >>
  BY DEF Init, Taken
<1>2. TakenFrom(<< >>, 0, << >>)
  BY TakenFromEmpty
<1>3. OrderAt(0, 0)
  BY <1>1, <1>2, WithinEmpty DEF OrderAt
<1> QED
  BY <1>3

(* Steps that leave the buffers, and what is taken, alone.                 *)
LEMMA OrderStays == Order /\ UNCHANGED <<Taken, rx, wire, sent, garbled>> => Order'
<1> SUFFICES ASSUME Order, ~garbled, UNCHANGED <<Taken, rx, wire, sent>>
             PROVE  \E p, q \in Nat : OrderAt(p, q)'
  BY DEF Order
<1>1. PICK p \in Nat, q \in Nat : OrderAt(p, q)
  BY DEF Order
<1>2. OrderAt(p, q)'
  BY <1>1 DEF OrderAt
<1> QED
  BY <1>2

(* Some frame, or the beginning of one, or nothing, goes to the line.      *)
LEMMA OrderWritten ==
    ASSUME TypeOK, Order, NEW f \in Commands, NEW k \in 0 .. FrameLen,
           UNCHANGED <<Taken, rx, garbled>>,
           sent' = IF k = FrameLen THEN Append(sent, f) ELSE sent,
           NEW w, w = wire \o SubSeq(FrameBytes(f), 1, k),
           wire' \in {w, Append(w, Newline)}
    PROVE  Order'
<1> SUFFICES ASSUME ~garbled PROVE \E p, q \in Nat : OrderAt(p, q)'
  BY DEF Order
<1>1. PICK p \in Nat, q \in Nat : OrderAt(p, q)
  BY DEF Order
<1>2. /\ wire \in Seq(BytesOf(Commands)) /\ sent \in Seq(Commands) /\ sent' \in Seq(Commands)
      /\ p <= q /\ q <= Len(sent) /\ Within(wire, q, Len(sent), sent)
  BY <1>1, OrderTypes DEF OrderAt
<1>3. Within(w, q, Len(sent'), sent') /\ w \in Seq(BytesOf(Commands))
  BY <1>2, WithinWritten
<1>4. Len(sent) \in Nat /\ Len(sent') \in Nat /\ Len(sent) <= Len(sent')
      /\ \A i \in 1 .. Len(sent) : sent'[i] = sent[i]
  BY <1>2
<1>5. Within(wire', q, Len(sent'), sent')
  <2>1. q \in Int /\ Len(sent') \in Int /\ q <= Len(sent') /\ Len(sent') <= Len(sent')
    BY <1>2, <1>4
  <2>2. Within(Append(w, Newline), q, Len(sent'), sent')
    BY <1>3, <2>1, NewlineFacts, WithinAppend
  <2> QED
    BY <1>3, <2>2
<1>6. Within(rx', p, q, sent')
  <2>1. \A i \in p + 1 .. q : sent'[i] = sent[i]
    BY <1>2, <1>4
  <2>2. Len(rx) \in Nat /\ p \in Int /\ q \in Int /\ p <= p /\ q <= q /\ Within(rx, p, q, sent)
    BY <1>1, OrderTypes DEF OrderAt
  <2> QED
    BY <2>1, <2>2, WithinWider
<1>7. TakenFrom(Taken', p, sent')
  <2>1. \A i \in 1 .. p : sent'[i] = sent[i]
    BY <1>2, <1>4
  <2>2. Len(Taken) \in Nat /\ TakenFrom(Taken, p, sent) /\ p <= p
    BY <1>1, OrderTypes DEF OrderAt
  <2> QED
    BY <2>1, <2>2, TakenFromMore
<1>8. p <= q /\ q <= Len(sent')
  BY <1>2, <1>4
<1> QED
  BY <1>5, <1>6, <1>7, <1>8 DEF OrderAt

(* What is done without the command in hand.                               *)
LEMMA DoneTaken ==
    ASSUME TypeOK, NEW p \in Nat, TakenFrom(Taken, p, sent)
    PROVE  TakenFrom(done, p, sent)
<1>1. CASE cmd = Nothing
  BY <1>1 DEF Taken
<1>2. CASE cmd # Nothing
  <2>1. Taken = Append(done, cmd) /\ done \in Seq(Commands) /\ cmd \in Commands
    BY <1>2 DEF Taken, TypeOK
  <2> QED
    BY <2>1, TakenFromPrefix
<1> QED
  BY <1>1, <1>2

(* Bytes of the line, or of the line and the buffer, are lost.             *)
LEMMA OrderLost ==
    ASSUME TypeOK, Order, UNCHANGED <<sent, garbled>>, rx' \in {rx, << >>},
           Taken' \in {Taken, done},
           NEW m \in 1 .. Len(wire) + 1, NEW n \in 0 .. Len(wire), wire' = SubSeq(wire, m, n)
    PROVE  Order'
<1> SUFFICES ASSUME ~garbled PROVE \E p, q \in Nat : OrderAt(p, q)'
  BY DEF Order
<1>1. PICK p \in Nat, q \in Nat : OrderAt(p, q)
  BY DEF Order
<1>2. Within(wire', q, Len(sent'), sent')
  BY <1>1, OrderTypes, WithinPart DEF OrderAt
<1>3. Within(rx', p, q, sent')
  BY <1>1, WithinEmpty DEF OrderAt
<1>4. TakenFrom(done, p, sent)
  BY <1>1, OrderTypes, DoneTaken DEF OrderAt
<1>5. TakenFrom(Taken', p, sent')
  BY <1>1, <1>4 DEF OrderAt
<1>6. p <= q /\ q <= Len(sent')
  BY <1>1 DEF OrderAt
<1> QED
  BY <1>2, <1>3, <1>5, <1>6 DEF OrderAt

(* A byte moves from the line to the end of the buffer ...                 *)
LEMMA OrderMoved ==
    ASSUME TypeOK, NEW p \in Nat, NEW q \in Nat, OrderAt(p, q), wire # << >>,
           NEW s \in Seq(BytesOf(Commands)), Len(s) <= RxCapacity,
           NEW a \in Nat, p <= a, a <= q, Within(s, a, q, sent)
    PROVE  \E r \in Nat : /\ q <= r /\ r <= Len(sent)
                          /\ Within(Deque!PushOver(RxCapacity, s, Head(wire)), a, r, sent)
                          /\ Within(Tail(wire), r, Len(sent), sent)
<1>1. Head(wire) \in BytesOf(Commands)
  BY OrderTypes
<1>2. PICK r \in q .. Len(sent) :
         /\ Within(Tail(wire), r, Len(sent), sent)
         /\ Final(Head(wire)) => q < r /\ sent[r] = Head(wire)[1]
  <2>1. q \in Int /\ Len(sent) \in Int /\ q <= Len(sent)
        /\ Within(wire, q, Len(sent), sent) /\ wire \in Seq(BytesOf(Commands))
    BY OrderTypes DEF OrderAt
  <2> QED
    BY <2>1, WithinPop
<1>3. r \in Nat /\ q <= r /\ r <= Len(sent)
  BY OrderTypes
<1>4. Within(Deque!PushOver(RxCapacity, s, Head(wire)), a, r, sent)
  <2>1. a \in Int /\ q \in Int /\ r \in Int /\ a <= q /\ q <= r /\ RxCapacity \in Nat \ {0}
    BY <1>3, CommandFacts
  <2> QED
    BY <1>1, <1>2, <2>1, WithinPushed
<1> QED
  BY <1>2, <1>3, <1>4

LEMMA OrderUsartRx == TypeOK /\ Order /\ UsartRx => Order'
<1> SUFFICES ASSUME TypeOK, Order, UsartRx, ~garbled' PROVE \E p, q \in Nat : OrderAt(p, q)'
  BY DEF Order
<1>1. wire # << >> /\ wire' = Tail(wire) /\ UNCHANGED <<sent, Taken>>
  BY DEF UsartRx, Taken
<1>2. rx' = Deque!PushOver(RxCapacity, rx, Head(wire)) /\ ~garbled
  <2>1. Head(wire) \in BytesOf(Commands) /\ Store(Head(wire))
    BY <1>1, OrderTypes DEF UsartRx
  <2> QED
    BY <2>1, StoreFacts
<1>3. PICK p \in Nat, q \in Nat : OrderAt(p, q)
  BY <1>2 DEF Order
<1>4. /\ p <= p /\ p <= q /\ Within(rx, p, q, sent) /\ TakenFrom(Taken, p, sent)
      /\ rx \in Seq(BytesOf(Commands)) /\ Len(rx) <= RxCapacity
  BY <1>3, OrderTypes DEF OrderAt
<1>5. PICK r \in Nat : /\ q <= r /\ r <= Len(sent)
                       /\ Within(rx', p, r, sent)
                       /\ Within(Tail(wire), r, Len(sent), sent)
  BY <1>1, <1>2, <1>3, <1>4, OrderMoved
<1>6. OrderAt(p, r)'
  BY <1>1, <1>4, <1>5 DEF OrderAt
<1> QED
  BY <1>6

(* ... or one that is none of a frame is stored in its place.              *)
LEMMA OrderParity == TypeOK /\ Order /\ UsartParityError => Order'
<1> SUFFICES ASSUME TypeOK, Order, UsartParityError, ~garbled'
             PROVE  \E p, q \in Nat : OrderAt(p, q)'
  BY DEF Order
<1>1. wire' = SubSeq(wire, 2, Len(wire)) /\ 2 \in 1 .. Len(wire) + 1
      /\ Len(wire) \in 0 .. Len(wire) /\ UNCHANGED <<sent, Taken>>
  BY OrderTypes DEF UsartParityError, Taken
<1>2. ~garbled /\ rx' \in {rx, Deque!PushOver(RxCapacity, rx, Newline)}
  <2>1. CASE UNCHANGED <<rx, overflow, drift>>
    BY <2>1 DEF drift
  <2>2. CASE Store(Newline)
    BY <2>2, NewlineFacts, StoreFacts
  <2> QED
    BY <2>1, <2>2 DEF UsartParityError
<1>3. PICK p \in Nat, q \in Nat : OrderAt(p, q)
  BY <1>2 DEF Order
<1>4. /\ p <= q /\ q <= q /\ q <= Len(sent) /\ Within(rx, p, q, sent)
      /\ TakenFrom(Taken, p, sent)
      /\ rx \in Seq(BytesOf(Commands)) /\ Len(rx) <= RxCapacity
  BY <1>3, OrderTypes DEF OrderAt
<1>5. Within(rx', p, q, sent)
  <2>1. Within(Deque!PushOver(RxCapacity, rx, Newline), p, q, sent)
    <3>1. p \in Int /\ q \in Int /\ RxCapacity \in Nat \ {0}
      BY CommandFacts
    <3> QED
      BY <1>4, <3>1, NewlineFacts, WithinPushed
  <2> QED
    BY <1>2, <1>4, <2>1
<1>6. Within(wire', q, Len(sent), sent)
  BY <1>1, <1>3, OrderTypes, WithinPart DEF OrderAt
<1>7. OrderAt(p, q)'
  BY <1>1, <1>4, <1>5, <1>6 DEF OrderAt
<1> QED
  BY <1>7

(* A pop that returns the oldest byte.                                     *)
LEMMA OrderTaken ==
    ASSUME TypeOK, NEW p \in Nat, NEW q \in Nat, OrderAt(p, q), pc = "read", cmd = Nothing,
           rx # << >>, Head(rx) \in BytesOf(Commands), Take(Head(rx)), UNCHANGED done
    PROVE  \E r \in Nat : /\ p <= r /\ r <= q
                          /\ Within(Tail(rx), r, q, sent)
                          /\ TakenFrom(Taken', r, sent)
<1>1. PICK r \in p .. q :
         /\ Within(Tail(rx), r, q, sent)
         /\ Final(Head(rx)) => p < r /\ sent[r] = Head(rx)[1]
  <2>1. p \in Int /\ q \in Int /\ p <= q /\ Within(rx, p, q, sent)
        /\ rx \in Seq(BytesOf(Commands))
    BY OrderTypes DEF OrderAt
  <2> QED
    BY <2>1, WithinPop
<1>2. Taken = done
  BY DEF Taken
<1>3. /\ r \in Nat /\ p <= r /\ r <= q /\ q <= Len(sent) /\ Len(sent) \in Nat
      /\ done \in Seq(Commands) /\ sent \in Seq(Commands)
      /\ TakenFrom(done, p, sent)
  BY <1>2, OrderTypes DEF OrderAt
<1>4. TakenFrom(Taken', r, sent)
  <2>1. CASE Valid(mb')
    <3>1. cmd' = sent[r] /\ p < r /\ cmd' # Nothing
      BY <1>1, <2>1, TakeFacts, CommandFacts
    <3>2. TakenFrom(Append(done, sent[r]), r, sent)
      BY <1>3, <3>1, TakeOne
    <3> QED
      BY <3>1, <3>2 DEF Taken
  <2>2. CASE ~Valid(mb')
    <3>1. Taken' = done
      BY <2>2, TakeFacts DEF Taken
    <3>2. Len(done) \in Nat /\ \A i \in 1 .. p : sent[i] = sent[i]
      BY <1>3
    <3> QED
      BY <1>3, <3>1, <3>2, TakenFromMore
  <2> QED
    BY <2>1, <2>2
<1> QED
  BY <1>1, <1>3, <1>4

LEMMA OrderRead == TypeOK /\ Order /\ Read => Order'
<1> SUFFICES ASSUME TypeOK, Order, Read, ~garbled' PROVE \E p, q \in Nat : OrderAt(p, q)'
  BY DEF Order
<1>1. /\ pc = "read" /\ cmd = Nothing /\ rx # << >> /\ Head(rx) \in BytesOf(Commands)
      /\ UNCHANGED <<sent, done>>
  BY ReadFacts
<1>2. ~garbled /\ ~mixed
  <2>1. ~garbled
    BY DEF Read, ReadByte, ReadByteStruck, quiet, drift
  <2> QED
    BY <2>1, Zenon DEF TypeOK
<1>3. Take(Head(rx))
  BY <1>2 DEF Read, ReadByte, ReadByteStruck, Oldest
<1>4. PICK p \in Nat, q \in Nat : OrderAt(p, q)
  BY <1>2 DEF Order
<1>5. PICK a \in Nat : /\ p <= a /\ a <= q
                       /\ Within(Tail(rx), a, q, sent)
                       /\ TakenFrom(Taken', a, sent)
  BY <1>1, <1>3, <1>4, OrderTaken
<1>6. q <= Len(sent) /\ Within(wire, q, Len(sent), sent)
  BY <1>4 DEF OrderAt
<1>7. CASE ReadByte
  <2>1. rx' = Tail(rx) /\ UNCHANGED wire
    BY <1>7 DEF ReadByte, quiet
  <2>2. OrderAt(a, q)'
    BY <1>1, <1>5, <1>6, <2>1 DEF OrderAt
  <2> QED
    BY <2>2
<1>8. CASE ReadByteStruck
  <2>1. wire # << >> /\ wire' = Tail(wire) /\ rx' = Append(Tail(rx), Head(wire))
        /\ Len(rx) < RxCapacity
    BY <1>8 DEF ReadByteStruck
  <2>2. /\ Tail(rx) \in Seq(BytesOf(Commands)) /\ Len(Tail(rx)) < RxCapacity
        /\ Len(Tail(rx)) <= RxCapacity
    BY <1>1, <2>1, OrderTypes, CommandFacts
  <2>3. rx' = Deque!PushOver(RxCapacity, Tail(rx), Head(wire))
    BY <2>1, <2>2 DEF Deque!PushOver
  <2>4. PICK r \in Nat : /\ q <= r /\ r <= Len(sent)
                         /\ Within(rx', a, r, sent)
                         /\ Within(Tail(wire), r, Len(sent), sent)
    BY <1>4, <1>5, <2>1, <2>2, <2>3, OrderMoved
  <2>5. OrderAt(a, r)'
    BY <1>1, <1>5, <2>1, <2>4 DEF OrderAt
  <2> QED
    BY <2>5
<1> QED
  BY <1>7, <1>8 DEF Read

LEMMA OrderNext == TypeOK /\ PulseInv /\ Order /\ [Next]_vars => Order'
<1> SUFFICES ASSUME TypeOK, PulseInv, Order, [Next]_vars PROVE Order'
  OBVIOUS
<1>1. CASE RouterSend
  <2>1. PICK f \in Commands : /\ wire' = Append(wire \o FrameBytes(f), Newline)
                              /\ sent' = Append(sent, f)
    BY <1>1 DEF RouterSend
  <2>2. FrameLen \in 0 .. FrameLen
    BY CommandFacts
  <2>3. SubSeq(FrameBytes(f), 1, FrameLen) = FrameBytes(f)
    BY <2>2, BeginningFacts
  <2>4. UNCHANGED <<Taken, rx, garbled>>
    BY <1>1 DEF RouterSend, Taken, drift
  <2> QED
    BY <2>1, <2>2, <2>3, <2>4, OrderWritten
<1>2. CASE RouterWriteFails
  <2>1. PICK f \in Commands, k \in 0 .. FrameLen :
           /\ wire' = wire \o SubSeq(FrameBytes(f), 1, k)
           /\ sent' = IF k = FrameLen THEN Append(sent, f) ELSE sent
    BY <1>2 DEF RouterWriteFails
  <2>2. UNCHANGED <<Taken, rx, garbled>>
    BY <1>2 DEF RouterWriteFails, Taken, drift
  <2> QED
    BY <2>1, <2>2, OrderWritten
<1>3. CASE RouterStarts
  <2>1. PICK k \in 0 .. Len(wire) - 1 : wire' = SubSeq(wire, 1, k)
    BY <1>3 DEF RouterStarts
  <2>2. 1 \in 1 .. Len(wire) + 1 /\ k \in 0 .. Len(wire)
    BY OrderTypes
  <2>3. UNCHANGED <<sent, rx, Taken, garbled>>
    BY <1>3 DEF RouterStarts, Taken, drift
  <2> QED
    BY <2>1, <2>2, <2>3, OrderLost
<1>4. CASE Reset
  <2>1. PICK k \in 0 .. Len(wire) : wire' = SubSeq(wire, k + 1, Len(wire))
    BY <1>4 DEF Reset, Restart
  <2>2. k + 1 \in 1 .. Len(wire) + 1 /\ Len(wire) \in 0 .. Len(wire)
    BY OrderTypes
  <2>3. UNCHANGED <<sent, garbled>> /\ rx' = << >> /\ Taken' = done
    BY <1>4 DEF Reset, Restart, Taken
  <2> QED
    BY <2>1, <2>2, <2>3, OrderLost
<1>5. CASE UsartRx
  BY <1>5, OrderUsartRx
<1>6. CASE UsartParityError
  BY <1>6, OrderParity
<1>7. CASE InputChange \/ Poll \/ ReadNothing \/ PollInputs \/ PollOutputs \/ UNCHANGED vars
  <2>1. UNCHANGED <<cmd, done, rx, wire, sent, garbled>>
    BY <1>7 DEF InputChange, Poll, ReadNothing, PollInputs, PollOutputs, vars, quiet, others,
                line, drift
  <2>2. UNCHANGED Taken
    BY <2>1 DEF Taken
  <2> QED
    BY <2>1, <2>2, OrderStays
<1>8. CASE Read
  BY <1>8, OrderRead
<1>9. ASSUME Handled, cmd \in Commands PROVE Order'
  <2>1. UNCHANGED <<Taken, rx, wire, sent, garbled>>
    BY <1>9, CommandFacts DEF Handled, Taken, drift
  <2> QED
    BY <2>1, OrderStays
<1>10. CASE Handler
  BY <1>9, <1>10, HandlerFacts
<1>11. CASE OnPulseRegisterBit
  <2>1. CASE UNCHANGED <<cmd, done>>
    <3>1. UNCHANGED <<Taken, rx, wire, sent, garbled>>
      BY <1>11, <2>1, PulseFacts DEF Taken, quiet, others, drift
    <3> QED
      BY <3>1, OrderStays
  <2> QED
    BY <1>9, <1>11, <2>1, PulseFacts
<1>12. CASE PulseEnd
  BY <1>9, <1>12, PulseEndFacts DEF PulseInv, PulseEnd
<1> QED
  BY <1>1, <1>2, <1>3, <1>4, <1>5, <1>6, <1>7, <1>8, <1>10, <1>11, <1>12
     DEF Next, RouterNext, MainLoop, Handler, Read

(* So what was carried out is what was sent, in its order, but for what    *)
(* was lost.                                                               *)
LEMMA OrderDone ==
    ASSUME TypeOK, Order, ~garbled
    PROVE  TakenFrom(Taken, Len(sent), sent) /\ TakenFrom(done, Len(sent), sent)
<1>1. PICK p \in Nat, q \in Nat : OrderAt(p, q)
  BY DEF Order
<1>2. TakenFrom(Taken, Len(sent), sent)
  <2>1. p <= Len(sent) /\ TakenFrom(Taken, p, sent) /\ Len(sent) \in Nat /\ Len(Taken) \in Nat
        /\ \A i \in 1 .. p : sent[i] = sent[i]
    BY <1>1, OrderTypes DEF OrderAt
  <2> QED
    BY <2>1, TakenFromMore
<1> QED
  BY <1>2, OrderTypes, DoneTaken

(* The order of the commands is inductive together with the types.         *)
LEMMA OrderHolds == Spec => []Order
<1>1. TypeOK /\ PulseInv /\ Order /\ [Next]_vars => Order'
  BY OrderNext
<1> QED
  BY <1>1, OrderInit, TypeCorrect, PTL DEF Spec

(* Commands are carried out each at most once and in their order, whatever *)
(* is lost, whatever m_size does not count and whatever the message buffer *)
(* held when the rest arrived, until the storage has lost its order.       *)
THEOREM OnlySentAreDone == Spec => []OnlySentCommandsDone
<1>1. TypeOK /\ Order => OnlySentCommandsDone
  <2> SUFFICES ASSUME TypeOK, Order, ~garbled PROVE Service!InOrder(done, sent)
    BY DEF OnlySentCommandsDone
  <2>1. TakenFrom(done, Len(sent), sent)
    BY OrderDone
  <2> QED
    BY <2>1 DEF TakenFrom, Service!InOrder
<1> QED
  BY <1>1, OrderHolds, TypeCorrect, PTL

-----------------------------------------------------------------------------
(* Who follows a register.                                                 *)

LEMMA GreatestOf ==
    ASSUME NEW S, S \subseteq Int, NEW k \in S, \A j \in S : j <= k
    PROVE  (CHOOSE x \in S : \A j \in S : j <= x) = k
<1>1. \A x \in S : (\A j \in S : j <= x) => x = k
  OBVIOUS
<1> QED
  BY <1>1

(* There is a last report where there is one.                              *)
HasLast(r) == Reports(r) # {} => \E k \in Reports(r) : \A j \in Reports(r) : j <= k

(* The subscription s to register r is what the last report on r says.     *)
Agrees(s, r) == /\ HasLast(r)
                /\ s.on <=> Following(r)
                /\ s.on => LastValue(r) = s.value

FollowInv == /\ Agrees(sIn, "IN") /\ Agrees(sOut, "OUT")
             /\ pc = "idle" /\ sOut.on => sOut.value = Outputs

LEMMA ReportTypes ==
    ASSUME TypeOK
    PROVE  /\ Len(tx) \in Nat /\ boot.tx \in 0 .. Len(tx)
           /\ \A r : Reports(r) \subseteq boot.tx + 1 .. Len(tx)
  BY DEF TypeOK, Reports

LEMMA ReportsStay ==
    ASSUME UNCHANGED <<tx, boot>>, NEW r
    PROVE  Reports(r)' = Reports(r) /\ LastReport(r)' = LastReport(r)
  BY DEF Reports, LastReport

(* A frame that reports on r is the last one that does ...                 *)
LEMMA ReportAdded ==
    ASSUME TypeOK, NEW r, NEW f \in Written, tx' = Append(tx, f), boot' = boot,
           f.type = "SUBSCRIBE", f.reg = r
    PROVE  Reports(r)' # {} /\ HasLast(r)' /\ LastReport(r)' = f
<1> DEFINE n == Len(tx) + 1
           R == Reports(r)'
<1>1. /\ Len(tx) \in Nat /\ boot.tx \in 0 .. Len(tx) /\ Len(tx') = n /\ tx'[n] = f
  BY DEF TypeOK
<1>2. n \in R /\ R \subseteq Int /\ \A j \in R : j <= n
  BY <1>1 DEF Reports
<1> HIDE DEF n, R
<1>3. (CHOOSE x \in R : \A j \in R : j <= x) = n
  BY <1>2, GreatestOf
<1>4. LastReport(r)' = tx'[n]
  BY <1>3 DEF LastReport, R
<1>5. HasLast(r)' /\ Reports(r)' # {}
  BY <1>2 DEF HasLast, R
<1> QED
  BY <1>1, <1>4, <1>5

(* ... and any other frame leaves the reports on r as they were.           *)
LEMMA ReportElse ==
    ASSUME TypeOK, NEW r, NEW f \in Written, tx' = Append(tx, f), boot' = boot,
           ~(f.type = "SUBSCRIBE" /\ f.reg = r), HasLast(r)
    PROVE  Reports(r)' = Reports(r) /\ (Reports(r) # {} => LastReport(r)' = LastReport(r))
<1>1. /\ Len(tx) \in Nat /\ boot.tx \in 0 .. Len(tx) /\ Len(tx') = Len(tx) + 1
      /\ tx'[Len(tx) + 1] = f /\ \A k \in 1 .. Len(tx) : tx'[k] = tx[k]
  BY DEF TypeOK
<1>2. Reports(r)' = Reports(r)
  <2>1. \A k : k \in Reports(r)' <=> k \in Reports(r)
    BY <1>1 DEF Reports
  <2> QED
    BY <2>1
<1>3. ASSUME Reports(r) # {} PROVE LastReport(r)' = LastReport(r)
  <2>1. PICK k \in Reports(r) : \A j \in Reports(r) : j <= k
    BY <1>3 DEF HasLast
  <2>2. Reports(r) \subseteq Int /\ k \in 1 .. Len(tx)
    BY <1>1 DEF Reports
  <2>3. (CHOOSE x \in Reports(r) : \A j \in Reports(r) : j <= x) = k
    BY <2>1, <2>2, GreatestOf
  <2>4. tx'[k] = tx[k]
    BY <1>1, <2>2
  <2> QED
    BY <1>2, <2>3, <2>4 DEF LastReport
<1> QED
  BY <1>2, <1>3

LEMMA AgreesStill ==
    ASSUME NEW r, Reports(r)' = Reports(r), Reports(r) # {} => LastReport(r)' = LastReport(r)
    PROVE  /\ sIn' = sIn /\ Agrees(sIn, r) => Agrees(sIn, r)'
           /\ sOut' = sOut /\ Agrees(sOut, r) => Agrees(sOut, r)'
<1>1. /\ HasLast(r)' = HasLast(r) /\ Following(r)' = Following(r)
      /\ Following(r) => LastValue(r)' = LastValue(r)
  BY DEF HasLast, Following, LastValue
<1> QED
  BY <1>1 DEF Agrees

LEMMA FollowInit == Init => FollowInv
<1> SUFFICES ASSUME Init PROVE FollowInv
  OBVIOUS
<1>1. tx = << >> /\ boot.tx = 0 /\ ~sIn.on /\ ~sOut.on
  BY DEF Init, Unsubscribed
<1>2. \A r : Reports(r) = {}
  BY <1>1 DEF Reports
<1> QED
  BY <1>1, <1>2 DEF FollowInv, Agrees, HasLast, Following

(* Steps that report nothing.                                              *)
LEMMA FollowStays ==
    ASSUME FollowInv, UNCHANGED <<tx, boot, sIn, sOut>>,
           pc' = "idle" => pc = "idle" /\ UNCHANGED port
    PROVE  FollowInv'
<1>1. \A r : Reports(r)' = Reports(r) /\ LastReport(r)' = LastReport(r)
  BY ReportsStay
<1>2. Agrees(sIn, "IN")' /\ Agrees(sOut, "OUT")'
  BY <1>1, AgreesStill DEF FollowInv
<1> QED
  BY <1>2 DEF FollowInv, Outputs

(* Answers and notifications.                                              *)
LEMMA FollowOther ==
    ASSUME TypeOK, FollowInv, NEW f \in Written, f.type # "SUBSCRIBE", Dispatch(f),
           UNCHANGED <<boot, sIn, sOut>>, pc' # "idle"
    PROVE  FollowInv'
<1>1. tx' = Append(tx, f)
  BY DEF Dispatch
<1>2. Agrees(sIn, "IN")' /\ Agrees(sOut, "OUT")'
  BY <1>1, ReportElse, AgreesStill DEF FollowInv, Agrees
<1> QED
  BY <1>2 DEF FollowInv

(* A report on a register makes or ends the subscription to it.            *)
LEMMA FollowReported ==
    ASSUME TypeOK, NEW r \in Registers, NEW v \in Values8, NEW c \in BOOLEAN,
           Dispatch(SubscribeRegister(r, v, c)), UNCHANGED boot
    PROVE  /\ HasLast(r)' /\ (Following(r)' <=> ~c) /\ LastValue(r)' = v
           /\ \A q : q # r /\ HasLast(q)
                     => /\ Reports(q)' = Reports(q)
                        /\ Reports(q) # {} => LastReport(q)' = LastReport(q)
<1> DEFINE f == SubscribeRegister(r, v, c)
<1>1. /\ f \in Written /\ tx' = Append(tx, f) /\ f.type = "SUBSCRIBE" /\ f.reg = r
      /\ f.cancel = c /\ f.value = v
  BY WrittenFacts DEF Dispatch, SubscribeRegister
<1> HIDE DEF f
<1>2. Reports(r)' # {} /\ HasLast(r)' /\ LastReport(r)' = f
  BY <1>1, ReportAdded
<1>3. \A q : q # r /\ HasLast(q)
             => /\ Reports(q)' = Reports(q)
                /\ Reports(q) # {} => LastReport(q)' = LastReport(q)
  BY <1>1, ReportElse
<1> QED
  BY <1>1, <1>2, <1>3 DEF Following, LastValue

LEMMA FollowSubscribe == TypeOK /\ FollowInv /\ OnSubscribeRegister => FollowInv'
<1> SUFFICES ASSUME TypeOK, FollowInv, OnSubscribeRegister PROVE FollowInv'
  OBVIOUS
<1>1. /\ UNCHANGED boot /\ pc' = "poll_in" /\ cmd.cancel \in BOOLEAN
      /\ HasLast("IN") /\ HasLast("OUT")
  <2>1. cmd \in Frame /\ cmd.type = "SUBSCRIBE"
    BY CommandFacts DEF OnSubscribeRegister, Handle, TypeOK
  <2> QED
    BY <2>1, FrameFields
       DEF OnSubscribeRegister, Handle, quiet, others, Answer, FollowInv, Agrees
<1>2. \A v : LET s == Subscription(v)
             IN  (s.on <=> ~cmd.cancel) /\ (s.on => s.value = v)
  BY <1>1 DEF Subscription, Unsubscribed
<1>3. CASE cmd.reg = "IN"
  <2>1. /\ Dispatch(SubscribeRegister("IN", Inputs, cmd.cancel))
        /\ sIn' = Subscription(Inputs) /\ sOut' = sOut
    BY <1>3 DEF OnSubscribeRegister, Answer
  <2>2. /\ HasLast("IN")' /\ (Following("IN")' <=> ~cmd.cancel) /\ LastValue("IN")' = Inputs
        /\ Reports("OUT")' = Reports("OUT")
        /\ Reports("OUT") # {} => LastReport("OUT")' = LastReport("OUT")
    BY <1>1, <2>1, FollowReported, RegisterFacts
  <2>3. Agrees(sIn, "IN")' /\ Agrees(sOut, "OUT")'
    BY <1>2, <2>1, <2>2, AgreesStill DEF Agrees, FollowInv
  <2> QED
    BY <1>1, <2>3 DEF FollowInv
<1>4. CASE cmd.reg = "OUT"
  <2>1. /\ Dispatch(SubscribeRegister("OUT", Outputs, cmd.cancel))
        /\ sOut' = Subscription(Outputs) /\ sIn' = sIn
    BY <1>4 DEF OnSubscribeRegister, Answer
  <2>2. /\ HasLast("OUT")' /\ (Following("OUT")' <=> ~cmd.cancel) /\ LastValue("OUT")' = Outputs
        /\ Reports("IN")' = Reports("IN")
        /\ Reports("IN") # {} => LastReport("IN")' = LastReport("IN")
    BY <1>1, <2>1, FollowReported, RegisterFacts
  <2>3. Agrees(sIn, "IN")' /\ Agrees(sOut, "OUT")'
    BY <1>2, <2>1, <2>2, AgreesStill DEF Agrees, FollowInv
  <2> QED
    BY <1>1, <2>3 DEF FollowInv
<1>5. CASE cmd.reg \notin {"IN", "OUT"}
  <2>1. Dispatch(SubscribeRegister("ERR", {}, TRUE)) /\ sIn' = sIn /\ sOut' = sOut
    BY <1>5 DEF OnSubscribeRegister, Answer, subs
  <2>2. \A q \in {"IN", "OUT"} :
           /\ Reports(q)' = Reports(q)
           /\ Reports(q) # {} => LastReport(q)' = LastReport(q)
    BY <1>1, <2>1, FollowReported, RegisterFacts
  <2>3. Agrees(sIn, "IN")' /\ Agrees(sOut, "OUT")'
    BY <2>1, <2>2, AgreesStill DEF FollowInv
  <2> QED
    BY <1>1, <2>3 DEF FollowInv
<1> QED
  BY <1>3, <1>4, <1>5

LEMMA FollowPollInputs == TypeOK /\ FollowInv /\ PollInputs => FollowInv'
<1> SUFFICES ASSUME TypeOK, FollowInv, PollInputs PROVE FollowInv'
  OBVIOUS
<1>1. UNCHANGED <<boot, sOut>> /\ pc' = "poll_out" /\ HasLast("IN") /\ HasLast("OUT")
  BY DEF PollInputs, quiet, others, FollowInv, Agrees
<1>2. CASE sIn.on /\ sIn' = [sIn EXCEPT !.value = Inputs] /\ Notify("IN", Inputs)
  <2>1. /\ Dispatch(SubscribeRegister("IN", Inputs, FALSE))
        /\ sIn'.on = TRUE /\ sIn'.value = Inputs
    BY <1>2 DEF Notify, TypeOK
  <2>2. /\ HasLast("IN")' /\ Following("IN")' /\ LastValue("IN")' = Inputs
        /\ Reports("OUT")' = Reports("OUT")
        /\ Reports("OUT") # {} => LastReport("OUT")' = LastReport("OUT")
    BY <1>1, <2>1, FollowReported, RegisterFacts
  <2>3. Agrees(sIn, "IN")' /\ Agrees(sOut, "OUT")'
    BY <1>1, <2>1, <2>2, AgreesStill DEF Agrees, FollowInv
  <2> QED
    BY <1>1, <2>3 DEF FollowInv
<1>3. CASE UNCHANGED <<sIn, mb, tx, clobbers>>
  BY <1>1, <1>3, FollowStays
<1> QED
  BY <1>2, <1>3 DEF PollInputs

LEMMA FollowPollOutputs == TypeOK /\ FollowInv /\ PollOutputs => FollowInv'
<1> SUFFICES ASSUME TypeOK, FollowInv, PollOutputs PROVE FollowInv'
  OBVIOUS
<1>1. UNCHANGED <<boot, sIn, port>> /\ HasLast("IN") /\ HasLast("OUT") /\ Outputs' = Outputs
  BY DEF PollOutputs, quiet, others, FollowInv, Agrees, Outputs
<1>2. CASE sOut.on /\ sOut' = [sOut EXCEPT !.value = Outputs] /\ Notify("OUT", Outputs)
  <2>1. /\ Dispatch(SubscribeRegister("OUT", Outputs, FALSE))
        /\ sOut'.on = TRUE /\ sOut'.value = Outputs
    BY <1>2 DEF Notify, TypeOK
  <2>2. /\ HasLast("OUT")' /\ Following("OUT")' /\ LastValue("OUT")' = Outputs
        /\ Reports("IN")' = Reports("IN")
        /\ Reports("IN") # {} => LastReport("IN")' = LastReport("IN")
    BY <1>1, <2>1, FollowReported, RegisterFacts
  <2>3. Agrees(sIn, "IN")' /\ Agrees(sOut, "OUT")'
    BY <1>1, <2>1, <2>2, AgreesStill DEF Agrees, FollowInv
  <2> QED
    BY <1>1, <2>1, <2>3 DEF FollowInv
<1>3. CASE (~sOut.on \/ Outputs = sOut.value) /\ UNCHANGED <<sOut, mb, tx, clobbers>>
  <2>1. \A r : Reports(r)' = Reports(r) /\ LastReport(r)' = LastReport(r)
    BY <1>1, <1>3, ReportsStay
  <2>2. Agrees(sIn, "IN")' /\ Agrees(sOut, "OUT")'
    BY <1>1, <1>3, <2>1, AgreesStill DEF FollowInv
  <2> QED
    BY <1>1, <1>3, <2>2 DEF FollowInv
<1> QED
  BY <1>2, <1>3 DEF PollOutputs

LEMMA FollowReset == TypeOK /\ Reset => FollowInv'
<1> SUFFICES ASSUME TypeOK, Reset PROVE FollowInv'
  OBVIOUS
<1>1. boot'.tx = Len(tx) /\ tx' = tx /\ ~sIn'.on /\ ~sOut'.on /\ Len(tx) \in Nat
  BY DEF Reset, Restart, Unsubscribed, TypeOK
<1>2. \A r : Reports(r)' = {}
  BY <1>1 DEF Reports
<1> QED
  BY <1>1, <1>2 DEF FollowInv, Agrees, HasLast, Following

LEMMA FollowNext == TypeOK /\ PulseInv /\ FollowInv /\ [Next]_vars => FollowInv'
<1> SUFFICES ASSUME TypeOK, PulseInv, FollowInv, [Next]_vars PROVE FollowInv'
  OBVIOUS
<1>1. CASE RouterNext \/ UsartRx \/ UsartParityError \/ InputChange \/ UNCHANGED vars
  <2>1. UNCHANGED <<tx, boot, sIn, sOut, pc, port>>
    BY <1>1 DEF RouterNext, RouterSend, RouterWriteFails, RouterStarts, UsartRx,
                UsartParityError, InputChange, vars, subs, history
  <2> QED
    BY <2>1, FollowStays
<1>2. CASE Poll \/ ReadNothing \/ OnPulseRegisterBit \/ PulseEnd \/ OnPong \/ OnUnknown
           \/ OnWriteRegister \/ OnWriteRegisterBit
  <2>1. UNCHANGED <<tx, boot, sIn, sOut>> /\ pc' # "idle"
    BY <1>2 DEF Poll, ReadNothing, OnPulseRegisterBit, PulseEnd, OnPong, OnUnknown,
                OnWriteRegister, OnWriteRegisterBit, Handle, NoAnswer, quiet, others, subs
  <2> QED
    BY <2>1, FollowStays
<1>3. CASE Read
  <2>1. UNCHANGED <<tx, boot, sIn, sOut>> /\ pc' # "idle"
    BY <1>3, ReadFacts DEF Take, subs
  <2> QED
    BY <2>1, FollowStays
<1>4. CASE OnPing
  <2>1. cmd \in Frame /\ cmd.type = "PING"
    BY <1>4, CommandFacts DEF OnPing, Handle, TypeOK
  <2>2. Pong(cmd.arg) \in Written /\ Pong(cmd.arg).type # "SUBSCRIBE"
    BY <2>1, FrameFields, WrittenFacts DEF Pong
  <2>3. Dispatch(Pong(cmd.arg)) /\ UNCHANGED <<boot, sIn, sOut>> /\ pc' # "idle"
    BY <1>4 DEF OnPing, Handle, Answer, quiet, others, subs
  <2> QED
    BY <2>2, <2>3, FollowOther
<1>5. CASE OnReadRegister
  <2>1. PICK r \in Registers, v \in Values8 : Answer(WriteRegister(r, v, Relays!Bits))
    BY <1>5, RegisterFacts DEF OnReadRegister
  <2> DEFINE f == WriteRegister(r, v, Relays!Bits)
  <2>2. f \in Written /\ f.type # "SUBSCRIBE"
    BY RegisterFacts, WrittenFacts DEF WriteRegister
  <2>3. Dispatch(f) /\ UNCHANGED <<boot, sIn, sOut>> /\ pc' # "idle"
    BY <1>5, <2>1 DEF OnReadRegister, Handle, Answer, quiet, others, subs
  <2> HIDE DEF f
  <2> QED
    BY <2>2, <2>3, FollowOther
<1> QED
  BY <1>1, <1>2, <1>3, <1>4, <1>5, FollowSubscribe, FollowPollInputs, FollowPollOutputs,
     FollowReset DEF Next, MainLoop, Read

(* Whoever follows a register is told exactly while the firmware thinks    *)
(* so, and between two polls has what the relays are now: each report      *)
(* makes the subscription it speaks of, and on_poll compares with it.      *)
THEOREM FollowersAlwaysUpToDate == Spec => []FollowersUpToDate
<1>1. (TypeOK /\ PulseInv) /\ FollowInv /\ [Next]_vars => FollowInv'
  BY FollowNext
<1>2. FollowInv => FollowersUpToDate
  BY DEF FollowInv, Agrees, FollowersUpToDate
<1> QED
  BY <1>1, <1>2, FollowInit, TypeCorrect, PTL DEF Spec

-----------------------------------------------------------------------------
(* The firmware does what RelayService says.                               *)

(* The register macros, as lemmas of Relays_proofs.                        *)
LEMMA RelayFacts ==
    /\ Relays!READ_DIGITAL_OUTPUTS(Relays!Bits) = {}
    /\ \A p \in SUBSET Relays!Bits, v \in Values8, m \in Values8 :
          Relays!READ_DIGITAL_OUTPUTS(Relays!WRITE_DIGITAL_OUTPUTS_MASKED(p, v, m))
             = (Relays!READ_DIGITAL_OUTPUTS(p) \ m) \cup (v \cap m)
    /\ \A p \in SUBSET Relays!Bits, b \in 0 .. 7 :
          /\ Relays!READ_DIGITAL_OUTPUTS(Relays!SET_DIGITAL_OUTPUT_BIT(p, b))
                = Relays!READ_DIGITAL_OUTPUTS(p) \cup {Relays!RelayOf(b) - 1}
          /\ Relays!READ_DIGITAL_OUTPUTS(Relays!CLEAR_DIGITAL_OUTPUT_BIT(p, b))
                = Relays!READ_DIGITAL_OUTPUTS(p) \ {Relays!RelayOf(b) - 1}
<1>1. /\ Relays!Bits = RP!Bits /\ Values8 = SUBSET RP!Bits /\ 0 .. 7 = RP!Bits
      /\ \A p : Relays!READ_DIGITAL_OUTPUTS(p) = RP!READ_DIGITAL_OUTPUTS(p)
      /\ \A p, v, m : Relays!WRITE_DIGITAL_OUTPUTS_MASKED(p, v, m)
                        = RP!WRITE_DIGITAL_OUTPUTS_MASKED(p, v, m)
      /\ \A p, b : /\ Relays!SET_DIGITAL_OUTPUT_BIT(p, b) = RP!SET_DIGITAL_OUTPUT_BIT(p, b)
                   /\ Relays!CLEAR_DIGITAL_OUTPUT_BIT(p, b) = RP!CLEAR_DIGITAL_OUTPUT_BIT(p, b)
                   /\ Relays!RelayOf(b) = RP!RelayOf(b)
  BY DEF Relays!Bits, RP!Bits, Values8, Relays!READ_DIGITAL_OUTPUTS, RP!READ_DIGITAL_OUTPUTS,
         Relays!WRITE_DIGITAL_OUTPUTS_MASKED, RP!WRITE_DIGITAL_OUTPUTS_MASKED,
         Relays!WRITE_DIGITAL_OUTPUTS, RP!WRITE_DIGITAL_OUTPUTS, Relays!Mirror, RP!Mirror,
         Relays!SET_DIGITAL_OUTPUT_BIT, RP!SET_DIGITAL_OUTPUT_BIT, Relays!Decode, RP!Decode,
         Relays!CLEAR_DIGITAL_OUTPUT_BIT, RP!CLEAR_DIGITAL_OUTPUT_BIT,
         Relays!RelayOf, RP!RelayOf
<1>2. RP!READ_DIGITAL_OUTPUTS(RP!Bits) = {}
  BY RP!MirrorFacts DEF RP!READ_DIGITAL_OUTPUTS
<1>3. \A p, v, m \in SUBSET RP!Bits :
         RP!READ_DIGITAL_OUTPUTS(RP!WRITE_DIGITAL_OUTPUTS_MASKED(p, v, m))
            = (RP!READ_DIGITAL_OUTPUTS(p) \ m) \cup (v \cap m)
  BY RP!ReadMasked
<1>4. \A p \in SUBSET RP!Bits, b \in RP!Bits :
         /\ RP!READ_DIGITAL_OUTPUTS(RP!SET_DIGITAL_OUTPUT_BIT(p, b))
               = RP!READ_DIGITAL_OUTPUTS(p) \cup {RP!RelayOf(b) - 1}
         /\ RP!READ_DIGITAL_OUTPUTS(RP!CLEAR_DIGITAL_OUTPUT_BIT(p, b))
               = RP!READ_DIGITAL_OUTPUTS(p) \ {RP!RelayOf(b) - 1}
  BY RP!ReadBit
<1>5. \A p \in SUBSET Relays!Bits, v \in Values8, m \in Values8 :
         Relays!READ_DIGITAL_OUTPUTS(Relays!WRITE_DIGITAL_OUTPUTS_MASKED(p, v, m))
            = (Relays!READ_DIGITAL_OUTPUTS(p) \ m) \cup (v \cap m)
  BY <1>1, <1>3
<1>6. \A p \in SUBSET Relays!Bits, b \in 0 .. 7 :
         /\ Relays!READ_DIGITAL_OUTPUTS(Relays!SET_DIGITAL_OUTPUT_BIT(p, b))
               = Relays!READ_DIGITAL_OUTPUTS(p) \cup {Relays!RelayOf(b) - 1}
         /\ Relays!READ_DIGITAL_OUTPUTS(Relays!CLEAR_DIGITAL_OUTPUT_BIT(p, b))
               = Relays!READ_DIGITAL_OUTPUTS(p) \ {Relays!RelayOf(b) - 1}
  <2> TAKE p \in SUBSET Relays!Bits, b \in 0 .. 7
  <2>1. p \in SUBSET RP!Bits /\ b \in RP!Bits /\ Relays!RelayOf(b) = RP!RelayOf(b)
    BY <1>1
  <2>2. {Relays!RelayOf(b) - 1} = {RP!RelayOf(b) - 1}
    BY <2>1
  <2>3. /\ RP!READ_DIGITAL_OUTPUTS(RP!SET_DIGITAL_OUTPUT_BIT(p, b))
              = RP!READ_DIGITAL_OUTPUTS(p) \cup {RP!RelayOf(b) - 1}
        /\ RP!READ_DIGITAL_OUTPUTS(RP!CLEAR_DIGITAL_OUTPUT_BIT(p, b))
              = RP!READ_DIGITAL_OUTPUTS(p) \ {RP!RelayOf(b) - 1}
    BY <1>4, <2>1
  <2>4. /\ Relays!SET_DIGITAL_OUTPUT_BIT(p, b) = RP!SET_DIGITAL_OUTPUT_BIT(p, b)
        /\ Relays!CLEAR_DIGITAL_OUTPUT_BIT(p, b) = RP!CLEAR_DIGITAL_OUTPUT_BIT(p, b)
        /\ \A r : Relays!READ_DIGITAL_OUTPUTS(r) = RP!READ_DIGITAL_OUTPUTS(r)
    BY <1>1
  <2> QED
    BY <2>2, <2>3, <2>4
<1> QED
  BY <1>1, <1>2, <1>5, <1>6

(* What toggling one relay does to the register.                           *)
LEMMA ToggleFacts ==
    ASSUME TypeOK, NEW b \in 0 .. 7, Relays!ToggleBit(b)
    PROVE  Outputs' = Service!Toggled(Outputs, {Relays!RelayOf(b) - 1})
<1> DEFINE d == Relays!Decode(b)
           i == Relays!RelayOf(b) - 1
<1>1. port \in SUBSET Relays!Bits
  BY DEF TypeOK, Relays!TypeOK
<1>2. d \in port <=> i \notin Outputs
  BY <1>1 DEF Outputs, Relays!READ_DIGITAL_OUTPUTS, Relays!Mirror, Relays!Decode, Relays!RelayOf,
              Relays!Bits
<1>3. CASE d \in port
  <2>1. port' = Relays!SET_DIGITAL_OUTPUT_BIT(port, b)
    BY <1>3 DEF Relays!ToggleBit, Relays!TOGGLE_DIGITAL_OUTPUT_BIT,
                Relays!SET_DIGITAL_OUTPUT_BIT
  <2>2. Outputs' = Outputs \cup {i}
    BY <1>1, <2>1, RelayFacts DEF Outputs
  <2> QED
    BY <1>2, <1>3, <2>2 DEF Service!Toggled
<1>4. CASE d \notin port
  <2>1. port' = Relays!CLEAR_DIGITAL_OUTPUT_BIT(port, b)
    BY <1>4 DEF Relays!ToggleBit, Relays!TOGGLE_DIGITAL_OUTPUT_BIT,
                Relays!CLEAR_DIGITAL_OUTPUT_BIT
  <2>2. Outputs' = Outputs \ {i}
    BY <1>1, <2>1, RelayFacts DEF Outputs
  <2> QED
    BY <1>2, <1>4, <2>2 DEF Service!Toggled
<1> QED
  BY <1>3, <1>4

LEMMA NamedFacts ==
    /\ \A c : c.bit \in 0 .. 7 => Service!Named(c) = Relays!RelayOf(c.bit) - 1
  BY DEF Service!Named, Relays!RelayOf

(* What is being pulsed, as RelayService sees it.                          *)
Pulsed == IF pc = "pulse" THEN {Relays!RelayOf(cmd.bit) - 1} ELSE {}

(* What a frame tells of the relays.                                       *)
Tells(f) == f.type \in {"WRITE", "SUBSCRIBE"} /\ f.reg = "OUT"

LEMMA ToldFacts ==
    ASSUME TypeOK, NEW f \in Written, tx' = Append(tx, f)
    PROVE  /\ ~Tells(f) => Told' = Told
           /\ Tells(f) /\ f.value = Outputs' => Service!Tells
<1> DEFINE n == Len(tx) + 1
<1>1. /\ Len(tx) \in Nat /\ DOMAIN tx = 1 .. Len(tx) /\ DOMAIN tx' = 1 .. n
      /\ tx'[n] = f /\ \A k \in 1 .. Len(tx) : tx'[k] = tx[k]
  BY DEF TypeOK
<1>2. /\ AboutOutputs \subseteq 1 .. Len(tx) /\ n \notin AboutOutputs
      /\ \A k \in AboutOutputs : k < n /\ tx'[k] = tx[k]
  BY <1>1 DEF AboutOutputs
<1>3. AboutOutputs' = IF Tells(f) THEN AboutOutputs \cup {n} ELSE AboutOutputs
  BY <1>1 DEF AboutOutputs, Tells
<1> HIDE DEF n
<1>4. ~Tells(f) => Told' = Told
  BY <1>2, <1>3 DEF Told
<1>5. ASSUME Tells(f), f.value = Outputs' PROVE Service!Tells
  <2>1. /\ DOMAIN Told = AboutOutputs /\ DOMAIN Told' = AboutOutputs \cup {n}
        /\ \A k \in AboutOutputs : Told[k] = tx[k].value
    BY <1>3, <1>5 DEF Told
  <2>2. Told' = [k \in AboutOutputs \cup {n} |-> IF k = n THEN Outputs' ELSE Told[k]]
    BY <1>1, <1>2, <1>3, <1>5, <2>1 DEF Told
  <2> QED
    BY <1>2, <2>1, <2>2 DEF Service!Tells
<1> QED
  BY <1>4, <1>5

LEMMA ToldStays == UNCHANGED tx => UNCHANGED Told
  BY DEF Told, AboutOutputs

(* The relays after a handler are those after its command.                 *)
LEMMA HandlerApplies ==
    ASSUME TypeOK, Handler
    PROVE  Outputs' = Service!Apply(Outputs, cmd) /\ ~Service!Pulses(cmd)
<1>1. cmd \in Frame /\ port \in SUBSET Relays!Bits
  BY CommandFacts DEF Handler, OnPing, OnPong, OnReadRegister, OnWriteRegister,
     OnWriteRegisterBit, OnSubscribeRegister, OnUnknown, Handle, TypeOK, Relays!TypeOK
<1>2. CASE OnWriteRegister
  <2>1. cmd.type = "WRITE" /\ cmd.value \in Values8 /\ cmd.mask \in Values8
    BY <1>1, <1>2, FrameFields DEF OnWriteRegister, Handle
  <2>2. CASE cmd.reg = "OUT" /\ Relays!WriteRegister(cmd.value, cmd.mask)
    <3>1. Outputs' = (Outputs \ cmd.mask) \cup (cmd.value \cap cmd.mask)
      <4> DEFINE v == cmd.value
                 m == cmd.mask
      <4>1. port' = Relays!WRITE_DIGITAL_OUTPUTS_MASKED(port, v, m)
        BY <2>2 DEF Relays!WriteRegister
      <4>2. port \in SUBSET Relays!Bits /\ v \in Values8 /\ m \in Values8
        BY <1>1, <2>1
      <4> HIDE DEF v, m
      <4>3. Relays!READ_DIGITAL_OUTPUTS(Relays!WRITE_DIGITAL_OUTPUTS_MASKED(port, v, m))
               = (Relays!READ_DIGITAL_OUTPUTS(port) \ m) \cup (v \cap m)
        BY <4>2, RelayFacts
      <4>4. Outputs' = (Outputs \ m) \cup (v \cap m)
        BY <4>1, <4>3 DEF Outputs
      <4> QED
        BY <4>4 DEF v, m
    <3> QED
      BY <2>1, <2>2, <3>1 DEF Service!Apply, Service!Pulses
  <2>3. CASE cmd.reg # "OUT" /\ UNCHANGED port
    BY <2>1, <2>3 DEF Service!Apply, Service!Pulses, Outputs
  <2> QED
    BY <1>2, <2>2, <2>3 DEF OnWriteRegister
<1>3. CASE OnWriteRegisterBit
  <2>1. cmd.type = "WRITE_BIT" /\ cmd.bit \in 0 .. 255 /\ cmd.on \in BOOLEAN
    BY <1>1, <1>3, FrameFields DEF OnWriteRegisterBit, Handle
  <2>2. CASE cmd.bit < 8 /\ cmd.reg = "OUT" /\ Relays!WriteRegisterBit(cmd.bit, cmd.on)
    <3>1. cmd.bit \in 0 .. 7
      BY <2>1, <2>2
    <3>2. Service!Named(cmd) = Relays!RelayOf(cmd.bit) - 1
      BY <3>1, NamedFacts
    <3>3. CASE cmd.on
      <4>1. port' = Relays!SET_DIGITAL_OUTPUT_BIT(port, cmd.bit)
        BY <2>2, <3>3 DEF Relays!WriteRegisterBit
      <4>2. Outputs' = Outputs \cup {Service!Named(cmd)}
        BY <1>1, <3>1, <3>2, <4>1, RelayFacts DEF Outputs
      <4> QED
        BY <2>1, <2>2, <3>3, <4>2 DEF Service!Apply, Service!Pulses
    <3>4. CASE ~cmd.on
      <4>1. port' = Relays!CLEAR_DIGITAL_OUTPUT_BIT(port, cmd.bit)
        BY <2>2, <3>4 DEF Relays!WriteRegisterBit
      <4>2. Outputs' = Outputs \ {Service!Named(cmd)}
        BY <1>1, <3>1, <3>2, <4>1, RelayFacts DEF Outputs
      <4> QED
        BY <2>1, <2>2, <3>4, <4>2 DEF Service!Apply, Service!Pulses
    <3> QED
      BY <3>3, <3>4
  <2>3. CASE (cmd.bit >= 8 \/ cmd.reg # "OUT") /\ UNCHANGED port
    <3>1. ~(cmd.reg = "OUT" /\ cmd.bit < 8)
      BY <2>1, <2>3
    <3> QED
      BY <2>1, <2>3, <3>1 DEF Service!Apply, Service!Pulses, Outputs
  <2> QED
    BY <1>3, <2>2, <2>3 DEF OnWriteRegisterBit
<1>4. CASE OnPing \/ OnPong \/ OnReadRegister \/ OnSubscribeRegister \/ OnUnknown
  <2>1. cmd.type \notin {"WRITE", "WRITE_BIT", "PULSE_BIT"} /\ UNCHANGED port
    BY <1>4 DEF OnPing, OnPong, OnReadRegister, OnSubscribeRegister, OnUnknown, Handle
  <2> QED
    BY <2>1 DEF Service!Apply, Service!Pulses, Outputs
<1> QED
  BY <1>2, <1>3, <1>4 DEF Handler

(* What a handler answers of the relays is so.                             *)
LEMMA HandlerTells ==
    ASSUME TypeOK, Handler
    PROVE  UNCHANGED Told \/ Service!Tells
<1>1. CASE OnPong \/ OnWriteRegister \/ OnWriteRegisterBit \/ OnUnknown
  BY <1>1, ToldStays DEF OnPong, OnWriteRegister, OnWriteRegisterBit, OnUnknown, NoAnswer
<1>2. ASSUME NEW f \in Written, Answer(f), Tells(f) => f.value = Outputs, UNCHANGED port
      PROVE  UNCHANGED Told \/ Service!Tells
  <2>1. tx' = Append(tx, f) /\ Outputs' = Outputs
    BY <1>2 DEF Answer, Dispatch, Outputs
  <2> QED
    BY <1>2, <2>1, ToldFacts
<1>3. CASE OnPing
  <2>1. cmd \in Frame /\ cmd.type = "PING"
    BY <1>3, CommandFacts DEF OnPing, Handle, TypeOK
  <2>2. Pong(cmd.arg) \in Written /\ ~Tells(Pong(cmd.arg))
    BY <2>1, FrameFields, WrittenFacts DEF Pong, Tells
  <2> QED
    BY <1>2, <1>3, <2>2 DEF OnPing
<1>4. CASE OnReadRegister
  <2>1. PICK r \in Registers, v \in Values8 :
           Answer(WriteRegister(r, v, Relays!Bits)) /\ (r = "OUT" => v = Outputs)
    BY <1>4, RegisterFacts DEF OnReadRegister
  <2> DEFINE f == WriteRegister(r, v, Relays!Bits)
  <2>2. f \in Written /\ (Tells(f) => f.value = Outputs)
    BY <2>1, RegisterFacts, WrittenFacts DEF WriteRegister, Tells
  <2> HIDE DEF f
  <2> QED
    BY <1>2, <1>4, <2>1, <2>2 DEF OnReadRegister, f
<1>5. CASE OnSubscribeRegister
  <2>1. cmd.cancel \in BOOLEAN
    <3>1. cmd \in Frame /\ cmd.type = "SUBSCRIBE"
      BY <1>5, CommandFacts DEF OnSubscribeRegister, Handle, TypeOK
    <3> QED
      BY <3>1, FrameFields
  <2>2. PICK r \in Registers, v \in Values8, c \in BOOLEAN :
           Answer(SubscribeRegister(r, v, c)) /\ (r = "OUT" => v = Outputs)
    BY <1>5, <2>1, RegisterFacts DEF OnSubscribeRegister
  <2> DEFINE f == SubscribeRegister(r, v, c)
  <2>3. f \in Written /\ (Tells(f) => f.value = Outputs)
    BY <2>2, WrittenFacts DEF SubscribeRegister, Tells
  <2> HIDE DEF f
  <2> QED
    BY <1>2, <1>5, <2>2, <2>3 DEF OnSubscribeRegister, f
<1> QED
  BY <1>1, <1>3, <1>4, <1>5 DEF Handler

LEMMA ServiceHandler ==
    ASSUME TypeOK, OnlySentCommandsDone', Handler
    PROVE  Service!Serve
<1>1. Handled /\ cmd \in Commands /\ pc = "process"
  BY HandlerFacts
<1>2. Outputs' = Service!Apply(Outputs, cmd) /\ ~Service!Pulses(cmd)
  BY HandlerApplies
<1>3. UNCHANGED Told \/ Service!Tells
  BY HandlerTells
<1>4. Service!Does(cmd)
  BY <1>1 DEF Service!Does, Handled, drift, OnlySentCommandsDone
<1>5. Pulsed = {} /\ Pulsed' = {}
  BY <1>1 DEF Handled, Pulsed
<1> QED
  BY <1>1, <1>2, <1>3, <1>4, <1>5 DEF Service!Serve, Pulsed

LEMMA ServicePulse ==
    ASSUME TypeOK, OnlySentCommandsDone', OnPulseRegisterBit
    PROVE  Service!Serve \/ Service!PulseStarts
<1>1. /\ cmd \in Commands /\ cmd.type = "PULSE_BIT" /\ pc = "process" /\ cmd.bit \in 0 .. 255
      /\ UNCHANGED <<tx, sent, garbled>>
  BY PulseFacts DEF quiet, others, drift
<1>2. UNCHANGED Told
  BY <1>1, ToldStays
<1>3. CASE /\ cmd.bit < 8 /\ cmd.reg = "OUT" /\ Relays!ToggleBit(cmd.bit)
           /\ pc' = "pulse" /\ UNCHANGED <<cmd, done>>
  <2>1. Service!Pulses(cmd)
    BY <1>1, <1>3 DEF Service!Pulses
  <2>2. cmd.bit \in 0 .. 7
    BY <1>1, <1>3
  <2>3. /\ Outputs' = Service!Toggled(Outputs, {Service!Named(cmd)})
        /\ Pulsed = {} /\ Pulsed' = {Service!Named(cmd)}
    BY <1>1, <1>3, <2>2, ToggleFacts, NamedFacts DEF Pulsed
  <2> QED
    BY <1>1, <1>2, <1>3, <2>1, <2>3 DEF Service!PulseStarts, Pulsed
<1>4. CASE (cmd.bit >= 8 \/ cmd.reg # "OUT") /\ UNCHANGED port /\ Handled
  <2>1. ~Service!Pulses(cmd) /\ Outputs' = Service!Apply(Outputs, cmd)
    BY <1>1, <1>4 DEF Service!Pulses, Service!Apply, Outputs
  <2>2. Service!Does(cmd)
    BY <1>4 DEF Service!Does, Handled, drift, OnlySentCommandsDone
  <2>3. Pulsed = {} /\ Pulsed' = {}
    BY <1>1, <1>4 DEF Handled, Pulsed
  <2> QED
    BY <1>1, <1>2, <2>1, <2>2, <2>3 DEF Service!Serve, Pulsed
<1> QED
  BY <1>3, <1>4, PulseFacts

LEMMA ServicePulseEnd ==
    ASSUME TypeOK, PulseInv, OnlySentCommandsDone', PulseEnd
    PROVE  Service!PulseEnds
<1>1. pc = "pulse" /\ cmd.type = "PULSE_BIT" /\ cmd.bit < 8 /\ cmd.reg = "OUT"
      /\ Relays!ToggleBit(cmd.bit)
  BY DEF PulseEnd, PulseInv
<1>2. /\ cmd \in Commands /\ cmd.bit \in 0 .. 7 /\ Handled /\ UNCHANGED tx
  BY <1>1, PulseEndFacts
<1>3. UNCHANGED Told
  BY <1>2, ToldStays
<1>4. Service!Pulses(cmd) /\ Service!Does(cmd)
  BY <1>1, <1>2 DEF Service!Pulses, Service!Does, Handled, drift, OnlySentCommandsDone
<1>5. Pulsed = {Service!Named(cmd)} /\ Pulsed' = {}
  BY <1>1, <1>2, NamedFacts DEF Pulsed, Handled
<1>6. Outputs' = Service!Toggled(Outputs, Pulsed)
  BY <1>1, <1>2, <1>5, ToggleFacts, NamedFacts
<1> QED
  BY <1>2, <1>3, <1>4, <1>5, <1>6 DEF Service!PulseEnds, Pulsed

LEMMA ServicePolls ==
    ASSUME TypeOK, PollInputs \/ PollOutputs
    PROVE  Service!Tell \/ UNCHANGED Service!vars
<1>1. UNCHANGED <<port, sent, done, garbled>> /\ pc # "pulse" /\ pc' # "pulse"
  BY DEF PollInputs, PollOutputs, quiet, others, drift
<1>2. Outputs' = Outputs /\ Pulsed = {} /\ Pulsed' = {}
  BY <1>1 DEF Outputs, Pulsed
<1>3. ASSUME NEW r \in {"IN", "OUT"}, NEW v \in Values8, Notify(r, v), r = "OUT" => v = Outputs
      PROVE  UNCHANGED Told \/ Service!Tells
  <2> DEFINE f == SubscribeRegister(r, v, FALSE)
  <2>1. f \in Written /\ (Tells(f) => f.value = Outputs)
    BY <1>3, WrittenFacts, RegisterFacts DEF SubscribeRegister, Tells
  <2>2. tx' = Append(tx, f)
    BY <1>3 DEF Notify, Dispatch
  <2> HIDE DEF f
  <2> QED
    BY <1>2, <2>1, <2>2, ToldFacts
<1>4. UNCHANGED Told \/ Service!Tells
  <2>1. CASE UNCHANGED tx
    BY <2>1, ToldStays
  <2>2. CASE Notify("IN", Inputs)
    BY <1>3, <2>2, RegisterFacts
  <2>3. CASE Notify("OUT", Outputs)
    BY <1>3, <2>3, RegisterFacts
  <2> QED
    BY <2>1, <2>2, <2>3 DEF PollInputs, PollOutputs
<1> QED
  BY <1>1, <1>2, <1>4 DEF Service!Tell, Service!vars, Pulsed

LEMMA ServiceStays ==
    ASSUME UNCHANGED <<port, sent, done, tx>>,
           garbled' = garbled \/ garbled' = TRUE,
           \/ UNCHANGED <<pc, cmd>>
           \/ pc # "pulse" /\ pc' # "pulse"
    PROVE  [Service!Next]_(Service!vars)
<1>1. UNCHANGED <<Outputs, Told, Pulsed, sent, done>>
  BY ToldStays DEF Outputs, Pulsed
<1>2. CASE garbled' = garbled
  BY <1>1, <1>2 DEF Service!vars, Pulsed
<1>3. CASE garbled' = TRUE
  BY <1>1, <1>3 DEF Service!Next, Service!LoseOrder, Pulsed
<1> QED
  BY <1>2, <1>3, Zenon

(* Bytes that come can only spoil the order in the storage.                *)
LEMMA GarbledStays ==
    ASSUME TypeOK, UsartRx \/ UsartParityError \/ Read
    PROVE  garbled' = garbled \/ garbled' = TRUE
<1>1. garbled \in BOOLEAN
  BY DEF TypeOK
<1>2. ASSUME NEW b \in BytesOf(Commands), Store(b) PROVE garbled' = garbled \/ garbled' = TRUE
  <2>1. garbled' \in BOOLEAN /\ (garbled => garbled')
    BY <1>2, StoreFacts, Zenon DEF StorageOK
  <2> QED
    BY <1>1, <2>1
<1>3. CASE UsartRx
  <2>1. Head(wire) \in BytesOf(Commands)
    BY <1>3 DEF UsartRx, TypeOK
  <2> QED
    BY <1>2, <1>3, <2>1 DEF UsartRx
<1>4. CASE UsartParityError
  BY <1>2, <1>4, NewlineFacts DEF UsartParityError, drift
<1>5. CASE Read
  BY <1>5 DEF Read, ReadByte, ReadByteStruck, quiet, drift
<1> QED
  BY <1>3, <1>4, <1>5, Zenon

LEMMA ServiceNext ==
    TypeOK /\ PulseInv /\ OnlySentCommandsDone' /\ [Next]_vars => [Service!Next]_(Service!vars)
<1> SUFFICES ASSUME TypeOK, PulseInv, OnlySentCommandsDone', [Next]_vars
             PROVE  [Service!Next]_(Service!vars)
  OBVIOUS
<1>1. CASE RouterSend \/ RouterWriteFails
  <2>1. /\ UNCHANGED sent \/ \E c \in Commands : sent' = Append(sent, c)
        /\ UNCHANGED <<port, pc, cmd, tx, done, garbled>>
    BY <1>1 DEF RouterSend, RouterWriteFails, drift
  <2>2. UNCHANGED <<Outputs, Told, Pulsed>>
    BY <2>1, ToldStays DEF Outputs, Pulsed
  <2> QED
    BY <2>1, <2>2 DEF Service!Next, Service!Send, Service!vars, Pulsed
<1>2. CASE Reset
  <2>1. pc' = "idle" /\ port' = Relays!Bits /\ UNCHANGED <<tx, sent, done, garbled>>
    BY <1>2 DEF Reset, Restart
  <2>2. Outputs' = {} /\ Pulsed' = {} /\ UNCHANGED Told
    BY <2>1, RelayFacts, ToldStays DEF Outputs, Pulsed
  <2> QED
    BY <2>1, <2>2 DEF Service!Next, Service!StartAnew, Pulsed
<1>3. CASE RouterStarts \/ UsartRx \/ UsartParityError \/ InputChange \/ UNCHANGED vars
  <2>1. UNCHANGED <<port, sent, done, tx, pc, cmd>>
    BY <1>3 DEF RouterStarts, UsartRx, UsartParityError, InputChange, vars, line
  <2>2. garbled' = garbled \/ garbled' = TRUE
    BY <1>3, GarbledStays DEF RouterStarts, InputChange, vars, drift
  <2> QED
    BY <2>1, <2>2, ServiceStays, Zenon
<1>4. CASE Poll \/ Read \/ ReadNothing
  <2>1. UNCHANGED <<port, sent, done, tx>> /\ pc # "pulse" /\ pc' # "pulse"
    BY <1>4, ReadFacts DEF Poll, ReadNothing, Take, quiet, others
  <2>2. garbled' = garbled \/ garbled' = TRUE
    BY <1>4, GarbledStays DEF Poll, ReadNothing, quiet, drift
  <2> QED
    BY <2>1, <2>2, ServiceStays, Zenon
<1>5. CASE Handler
  BY <1>5, ServiceHandler DEF Service!Next
<1>6. CASE OnPulseRegisterBit
  BY <1>6, ServicePulse DEF Service!Next
<1>7. CASE PulseEnd
  BY <1>7, ServicePulseEnd DEF Service!Next
<1>8. CASE PollInputs \/ PollOutputs
  BY <1>8, ServicePolls DEF Service!Next
<1> QED
  BY <1>1, <1>2, <1>3, <1>4, <1>5, <1>6, <1>7, <1>8 DEF Next, RouterNext, MainLoop, Handler, Read

LEMMA ServiceInit == Init => Service!Init
<1> SUFFICES ASSUME Init PROVE Service!Init
  OBVIOUS
<1>1. port = Relays!Bits /\ pc = "idle" /\ sent = << >> /\ done = << >> /\ tx = << >>
  BY DEF Init, Relays!Init
<1>2. Outputs = {} /\ Pulsed = {}
  BY <1>1, RelayFacts DEF Outputs, Pulsed
<1>3. AboutOutputs = {}
  BY <1>1 DEF AboutOutputs
<1>4. Told = [n \in {} |-> {}]
  BY <1>3 DEF Told
<1> QED
  BY <1>1, <1>2, <1>4 DEF Service!Init, Pulsed, Init

(* Step by step the firmware does what RelayService allows: its handlers   *)
(* serve or pulse, on_poll tells, a reset starts anew, and what happens on *)
(* the line, in the receive buffer and in m_msgBuf does not show.          *)
THEOREM FirmwareImplementsService == Spec => ImplementsService
<1>1. (TypeOK /\ PulseInv) /\ OnlySentCommandsDone' /\ [Next]_vars
      => [Service!Next]_(Service!vars)
  BY ServiceNext
<1> QED
  BY <1>1, ServiceInit, TypeCorrect, OnlySentAreDone, PTL
     DEF Spec, ImplementsService, Service!Spec

-----------------------------------------------------------------------------
(* On a clean line each command is accounted for.                          *)

Coming == rx \o wire

(* Commands done, in hand, or cut in two.                                  *)
Accounted == Len(done) + (IF cmd = Nothing THEN 0 ELSE 1) + clobbers

(* The next byte is byte k of frame i, and while a command is in hand no   *)
(* other one has begun to come.                                            *)
AccountAt(i, k) ==
    /\ At(Coming, sent, FrameLen + 1, mb, Accounted, i, k)
    /\ cmd # Nothing => k \notin 2 .. FrameLen

Account == CleanLine => \E i, k : AccountAt(i, k)

Stored == BytesOf(Commands \cup Written)

Joined(s, u, v, x) == s \o Append(u \o v, x) = (s \o u) \o Append(v, x)

LEMMA ConcatMore ==
    ASSUME NEW T, NEW s \in Seq(T), NEW u \in Seq(T), NEW v \in Seq(T), NEW x \in T
    PROVE  Joined(s, u, v, x)
<1>1. Append(u \o v, x) = u \o Append(v, x)
  OBVIOUS
<1>2. Append(v, x) \in Seq(T)
  OBVIOUS
<1>3. \A w \in Seq(T) : s \o (u \o w) = (s \o u) \o w
  OBVIOUS
<1> QED
  BY <1>1, <1>2, <1>3 DEF Joined

LEMMA ConcatMove ==
    ASSUME NEW T, NEW s \in Seq(T), NEW u \in Seq(T), u # << >>
    PROVE  Append(s, Head(u)) \o Tail(u) = s \o u
  OBVIOUS

LEMMA ConcatShift ==
    ASSUME NEW T, NEW s \in Seq(T), NEW u \in Seq(T), s # << >>, u # << >>
    PROVE  Append(Tail(s), Head(u)) \o Tail(u) = Tail(s) \o u
<1>1. Tail(s) \in Seq(T)
  OBVIOUS
<1> QED
  BY <1>1, ConcatMove

LEMMA ConcatPop ==
    ASSUME NEW T, NEW s \in Seq(T), NEW u \in Seq(T), s # << >>
    PROVE  Tail(s) \o u = Tail(s \o u) /\ Head(s \o u) = Head(s) /\ s \o u # << >>
  OBVIOUS

LEMMA AccountTypes ==
    ASSUME TypeOK
    PROVE  /\ wire \in Seq(Stored) /\ rx \in Seq(Stored) /\ Coming \in Seq(Stored)
           /\ mb \in Seq(Stored) /\ Len(mb) <= FrameLen
           /\ sent \in Seq(Commands) /\ Len(sent) \in Nat /\ Len(done) \in Nat
           /\ clobbers \in Nat /\ Accounted \in Int
           /\ FrameLen \in Nat /\ FrameLen + 1 \in Nat \ {0}
           /\ FrameLen + 1 \in {FrameLen, FrameLen + 1}
<1>1. BytesOf(Commands) \subseteq Stored
  BY DEF BytesOf, Stored
<1>2. wire \in Seq(Stored) /\ rx \in Seq(Stored)
  BY <1>1 DEF TypeOK
<1>3. Coming \in Seq(Stored)
  BY <1>2 DEF Coming
<1>4. Len(done) \in Nat /\ clobbers \in Nat /\ Accounted \in Int
  BY DEF TypeOK, Accounted
<1> QED
  BY <1>2, <1>3, <1>4, CommandFacts DEF TypeOK, Stored

(* Steps that lose something.                                              *)
LEMMA AccountLost ==
    ASSUME TypeOK, RouterWriteFails \/ RouterStarts \/ UsartParityError \/ Reset
    PROVE  ~CleanLine'
<1>1. drops \in Nat /\ boot.n \in Nat
  BY CommandFacts DEF TypeOK
<1>2. CASE RouterWriteFails \/ RouterStarts \/ UsartParityError
  BY <1>1, <1>2 DEF RouterWriteFails, RouterStarts, UsartParityError, CleanLine
<1>3. CASE Reset
  <2>1. boot'.n = boot.n + 1
    BY <1>3 DEF Reset, Restart
  <2> QED
    BY <1>1, <2>1 DEF CleanLine
<1> QED
  BY <1>2, <1>3

LEMMA CleanStays == UNCHANGED <<drops, overflow, boot>> => (CleanLine' <=> CleanLine)
  BY DEF CleanLine

(* Steps that are not seen on the line and in the buffer.                  *)
LEMMA AccountStays ==
    ASSUME Account, UNCHANGED <<Coming, sent, mb, cmd, done, clobbers, drops, overflow, boot>>
    PROVE  Account'
<1>1. \A i, k : AccountAt(i, k) => AccountAt(i, k)'
  BY DEF AccountAt, Accounted
<1> QED
  BY <1>1, CleanStays DEF Account

LEMMA AccountInit == Init => Account
<1> SUFFICES ASSUME Init PROVE Account
  OBVIOUS
<1>1. /\ wire = << >> /\ rx = << >> /\ mb = << >> /\ cmd = Nothing /\ sent = << >> /\ done = << >>
      /\ clobbers = 0
  BY DEF Init
<1>2. Coming = << >> /\ Len(sent) = 0 /\ Accounted = 0
  BY <1>1 DEF Coming, Accounted
<1>3. At(<< >>, sent, FrameLen + 1, << >>, Len(sent), Len(sent) + 1, 1)
  BY <1>2, CommandFacts, AtStart
<1>4. AccountAt(Len(sent) + 1, 1)
  BY <1>1, <1>2, <1>3 DEF AccountAt
<1> QED
  BY <1>4 DEF Account

LEMMA AccountSend == TypeOK /\ Account /\ RouterSend => Account'
<1> SUFFICES ASSUME TypeOK, Account, RouterSend, CleanLine' PROVE \E i, k : AccountAt(i, k)'
  BY DEF Account
<1>1. PICK f \in Commands : /\ wire' = Append(wire \o FrameBytes(f), Newline)
                            /\ sent' = Append(sent, f)
  BY DEF RouterSend
<1>2. UNCHANGED <<rx, mb, cmd, done, clobbers, drops, overflow, boot>>
  BY DEF RouterSend, history
<1>3. PICK i, k : AccountAt(i, k)
  BY <1>2, CleanStays DEF Account
<1> DEFINE u == Append(FrameBytes(f), Newline)
<1>4. FrameBytes(f) \in Seq(Stored) /\ Newline \in Stored /\ Len(FrameBytes(f)) = FrameLen
      /\ \A b \in 1 .. FrameLen : FrameBytes(f)[b] = <<f, b>>
  <2>1. f \in Commands \cup Written
    OBVIOUS
  <2> QED
    BY <2>1, FrameBytesFacts DEF Stored, BytesOf
<1>5. u \in Seq(Stored) /\ Len(u) = FrameLen + 1 /\ u[FrameLen + 1] = Newline
      /\ \A b \in 1 .. FrameLen : u[b] = <<f, b>>
  BY <1>4, AccountTypes
<1>6. Coming' = Coming \o u
  <2> DEFINE g == FrameBytes(f)
  <2>1. rx \in Seq(Stored) /\ wire \in Seq(Stored) /\ g \in Seq(Stored) /\ Newline \in Stored
    BY <1>4, AccountTypes
  <2> HIDE DEF g
  <2>2. Joined(rx, wire, g, Newline)
    BY <2>1, ConcatMore
  <2>3. rx \o Append(wire \o g, Newline) = (rx \o wire) \o Append(g, Newline)
    BY <2>2 DEF Joined
  <2> QED
    BY <1>1, <1>2, <2>3 DEF Coming, g
<1> HIDE DEF u
<1>7. \A b \in 1 .. FrameLen + 1 : u[b] = ByteOf(Append(sent, f), Len(sent) + 1, b)
  <2> TAKE b \in 1 .. FrameLen + 1
  <2>1. Append(sent, f)[Len(sent) + 1] = f
    BY AccountTypes
  <2>2. CASE b <= FrameLen
    BY <1>5, <2>1, <2>2, AccountTypes DEF ByteOf, Byte
  <2>3. CASE b = FrameLen + 1
    BY <1>5, <2>3, AccountTypes DEF ByteOf
  <2> QED
    BY <2>2, <2>3, AccountTypes
<1>8. At(Coming \o u, Append(sent, f), FrameLen + 1, mb, Accounted, i, k)
  <2>1. At(Coming, sent, FrameLen + 1, mb, Accounted, i, k)
    BY <1>3 DEF AccountAt
  <2> QED
    BY <1>5, <1>7, <2>1, AccountTypes, AtSent
<1>9. Accounted' = Accounted
  BY <1>2 DEF Accounted
<1>10. AccountAt(i, k)'
  BY <1>1, <1>2, <1>3, <1>6, <1>8, <1>9 DEF AccountAt
<1> QED
  BY <1>10

LEMMA AccountUsartRx == TypeOK /\ Account /\ UsartRx => Account'
<1> SUFFICES ASSUME TypeOK, Account, UsartRx, CleanLine' PROVE \E i, k : AccountAt(i, k)'
  BY DEF Account
<1>1. /\ wire # << >> /\ wire' = Tail(wire)
      /\ UNCHANGED <<mb, cmd, sent, done, boot, drops, clobbers>>
  BY DEF UsartRx
<1>2. /\ rx' = Deque!PushOver(RxCapacity, rx, Head(wire))
      /\ ~overflow /\ Len(rx) # RxCapacity
  <2>1. Head(wire) \in BytesOf(Commands) /\ Store(Head(wire))
    BY <1>1 DEF UsartRx, TypeOK
  <2> QED
    BY <2>1, StoreFacts, Zenon DEF CleanLine
<1>3. rx' = Append(rx, Head(wire))
  BY <1>1, <1>2, CommandFacts DEF Deque!PushOver, TypeOK
<1>4. Coming' = Coming
  <2>1. Append(rx, Head(wire)) \o Tail(wire) = rx \o wire
    BY <1>1, AccountTypes, ConcatMove
  <2> QED
    BY <1>1, <1>3, <2>1 DEF Coming
<1>5. CleanLine
  BY <1>1, <1>2 DEF CleanLine
<1>6. PICK i, k : AccountAt(i, k)
  BY <1>5 DEF Account
<1>7. AccountAt(i, k)'
  BY <1>1, <1>4, <1>6 DEF AccountAt, Accounted
<1> QED
  BY <1>7

LEMMA AccountRead == TypeOK /\ Account /\ Read => Account'
<1> SUFFICES ASSUME TypeOK, Account, Read, CleanLine' PROVE \E i, k : AccountAt(i, k)'
  BY DEF Account
<1>1. /\ rx # << >> /\ cmd = Nothing /\ Head(rx) \in BytesOf(Commands) /\ pc = "read"
      /\ UNCHANGED <<sent, done, clobbers, drops, boot>>
  BY ReadFacts
<1>2. ~overflow' /\ ~overflow /\ ~mixed
  <2>1. ~overflow'
    BY Zenon DEF CleanLine
  <2>2. ~overflow
    BY <2>1 DEF Read, ReadByte, ReadByteStruck, quiet
  <2> QED
    BY <2>1, <2>2, Zenon DEF TypeOK
<1>3. Take(Head(rx))
  BY <1>2 DEF Read, ReadByte, ReadByteStruck, Oldest
<1>4. /\ mb' = PushByte(mb, Head(rx))
      /\ Valid(mb') => cmd' \in Commands
      /\ ~Valid(mb') => cmd' = cmd
  BY <1>1, <1>3, TakeFacts
<1>5. CleanLine
  BY <1>1, <1>2 DEF CleanLine
<1>6. PICK i, k : AccountAt(i, k)
  BY <1>5 DEF Account
<1>7. Coming' = Tail(Coming) /\ Head(Coming) = Head(rx) /\ Coming # << >>
  <2>1. CASE ReadByte
    <3>1. rx' = Tail(rx) /\ wire' = wire
      BY <2>1 DEF ReadByte, quiet
    <3> QED
      BY <1>1, <3>1, AccountTypes, ConcatPop DEF Coming
  <2>2. CASE ReadByteStruck
    <3>1. wire # << >> /\ wire' = Tail(wire) /\ rx' = Append(Tail(rx), Head(wire))
      BY <1>2, <2>2 DEF ReadByteStruck
    <3>2. Coming' = Tail(rx) \o wire
      <4>1. Append(Tail(rx), Head(wire)) \o Tail(wire) = Tail(rx) \o wire
        BY <1>1, <3>1, AccountTypes, ConcatShift
      <4> QED
        BY <3>1, <4>1 DEF Coming
    <3> QED
      BY <1>1, <3>2, AccountTypes, ConcatPop DEF Coming
  <2> QED
    BY <2>1, <2>2 DEF Read
<1> DEFINE one == IF Valid(mb') THEN 1 ELSE 0
<1>8. Accounted' = Accounted + one
  <2>1. Valid(mb') => cmd' # Nothing
    BY <1>4, CommandFacts
  <2>2. Len(done) \in Nat /\ clobbers \in Nat
    BY AccountTypes
  <2> QED
    BY <1>1, <1>4, <2>1, <2>2 DEF Accounted
<1>9. PICK a, b : /\ At(Tail(Coming), sent, FrameLen + 1, mb', Accounted + one, a, b)
                  /\ Valid(mb') => b \notin 2 .. FrameLen
  <2>1. At(Coming, sent, FrameLen + 1, mb, Accounted, i, k)
    BY <1>6 DEF AccountAt
  <2>2. mb' = PushByte(mb, Head(Coming))
    BY <1>4, <1>7
  <2>3. \E a, b :
           /\ At(Tail(Coming), sent, FrameLen + 1, PushByte(mb, Head(Coming)),
                 Accounted + (IF Valid(PushByte(mb, Head(Coming))) THEN 1 ELSE 0), a, b)
           /\ Valid(PushByte(mb, Head(Coming))) => b \notin 2 .. FrameLen
    BY <1>7, <2>1, AccountTypes, AtPop
  <2> QED
    BY <2>2, <2>3
<1>10. cmd' # Nothing => Valid(mb')
  BY <1>1, <1>4
<1>11. AccountAt(a, b)'
  BY <1>1, <1>7, <1>8, <1>9, <1>10 DEF AccountAt
<1> QED
  BY <1>11

(* A command that is done has left the buffer: the answer, if any, is made *)
(* where nothing else has begun to come.                                   *)
LEMMA AccountHandled ==
    ASSUME TypeOK, Account, Handled, Answered, cmd \in Commands
    PROVE  Account'
<1> SUFFICES ASSUME CleanLine' PROVE \E i, k : AccountAt(i, k)'
  BY DEF Account
<1>1. /\ cmd # Nothing /\ cmd' = Nothing /\ done' = Append(done, cmd)
      /\ UNCHANGED <<Coming, sent, clobbers, drops, overflow, boot>>
  BY CommandFacts DEF Handled, Coming
<1>2. PICK i, k : AccountAt(i, k)
  BY <1>1, CleanStays DEF Account
<1>3. At(Coming, sent, FrameLen + 1, mb, Accounted, i, k) /\ k \notin 2 .. FrameLen
  BY <1>1, <1>2 DEF AccountAt
<1>4. ~Partial(mb)
  BY <1>3 DEF At
<1>5. Accounted' = Accounted
  <2>1. Len(done') = Len(done) + 1 /\ Len(done) \in Nat /\ clobbers \in Nat
    BY <1>1 DEF TypeOK
  <2> QED
    BY <1>1, <2>1 DEF Accounted
<1>6. At(Coming, sent, FrameLen + 1, mb', Accounted, i, k)
  <2>1. ASSUME NEW f, mb' = FrameBytes(f)
        PROVE  At(Coming, sent, FrameLen + 1, mb', Accounted, i, k)
    <3>1. At(Coming, sent, FrameLen + 1, FrameBytes(f),
             Accounted + (IF Partial(mb) THEN 1 ELSE 0), i, k)
      BY <1>3, AccountTypes, AtFilled
    <3>2. Accounted + (IF Partial(mb) THEN 1 ELSE 0) = Accounted
      BY <1>4, AccountTypes
    <3> QED
      BY <2>1, <3>1, <3>2
  <2>2. mb' = mb \/ \E f : mb' = FrameBytes(f)
    BY DEF Answered, Dispatch
  <2> QED
    BY <1>3, <2>1, <2>2
<1>7. AccountAt(i, k)'
  BY <1>1, <1>5, <1>6 DEF AccountAt
<1> QED
  BY <1>7

(* A notification is made in a buffer where a command may have begun.      *)
LEMMA AccountNotify ==
    ASSUME TypeOK, Account, NEW r, NEW v, Notify(r, v),
           UNCHANGED <<Coming, sent, cmd, done, drops, overflow, boot>>
    PROVE  Account'
<1> SUFFICES ASSUME CleanLine' PROVE \E i, k : AccountAt(i, k)'
  BY DEF Account
<1> DEFINE f == SubscribeRegister(r, v, FALSE)
           one == IF Partial(mb) THEN 1 ELSE 0
<1>1. mb' = FrameBytes(f) /\ clobbers' = clobbers + one
  BY DEF Notify, Dispatch
<1>2. PICK i, k : AccountAt(i, k)
  BY CleanStays DEF Account
<1>3. At(Coming, sent, FrameLen + 1, mb, Accounted, i, k)
  BY <1>2 DEF AccountAt
<1> HIDE DEF f
<1>4. At(Coming, sent, FrameLen + 1, FrameBytes(f), Accounted + one, i, k)
  BY <1>3, AccountTypes, AtFilled
<1>5. Accounted' = Accounted + one
  <2>1. Len(done) \in Nat /\ clobbers \in Nat /\ one \in Int
    BY AccountTypes
  <2>2. clobbers' = clobbers + one /\ UNCHANGED <<done, cmd>>
    BY <1>1
  <2> HIDE DEF one
  <2>3. Accounted' = Len(done) + (IF cmd = Nothing THEN 0 ELSE 1) + (clobbers + one)
    BY <2>2 DEF Accounted
  <2> DEFINE d == Len(done)
             c == IF cmd = Nothing THEN 0 ELSE 1
  <2>4. c \in Int /\ d \in Int /\ Accounted = d + c + clobbers
    BY <2>1 DEF Accounted
  <2>5. Accounted' = d + c + (clobbers + one)
    BY <2>3
  <2> HIDE DEF d, c
  <2> QED
    BY <2>1, <2>4, <2>5
<1>6. AccountAt(i, k)'
  BY <1>1, <1>2, <1>4, <1>5 DEF AccountAt
<1> QED
  BY <1>6

LEMMA AccountPolls == TypeOK /\ Account /\ (PollInputs \/ PollOutputs) => Account'
<1> SUFFICES ASSUME TypeOK, Account, PollInputs \/ PollOutputs PROVE Account'
  OBVIOUS
<1>1. UNCHANGED <<Coming, sent, cmd, done, drops, overflow, boot>>
  BY DEF PollInputs, PollOutputs, quiet, others, Coming
<1>2. CASE UNCHANGED <<mb, clobbers>>
  BY <1>1, <1>2, AccountStays
<1>3. CASE \E r, v : Notify(r, v)
  BY <1>1, <1>3, AccountNotify
<1> QED
  BY <1>2, <1>3 DEF PollInputs, PollOutputs

LEMMA AccountNext == TypeOK /\ PulseInv /\ Account /\ [Next]_vars => Account'
<1> SUFFICES ASSUME TypeOK, PulseInv, Account, [Next]_vars PROVE Account'
  OBVIOUS
<1>1. CASE RouterSend \/ UsartRx \/ Read \/ PollInputs \/ PollOutputs
  BY <1>1, AccountSend, AccountUsartRx, AccountRead, AccountPolls
<1>2. CASE RouterWriteFails \/ RouterStarts \/ UsartParityError \/ Reset
  BY <1>2, AccountLost DEF Account
<1>3. CASE InputChange \/ Poll \/ ReadNothing \/ UNCHANGED vars
  <2>1. UNCHANGED <<Coming, sent, mb, cmd, done, clobbers, drops, overflow, boot>>
    BY <1>3 DEF InputChange, Poll, ReadNothing, vars, history, quiet, others, line,
              Coming
  <2> QED
    BY <2>1, AccountStays
<1>4. CASE Handler
  BY <1>4, HandlerFacts, AccountHandled
<1>5. CASE OnPulseRegisterBit
  <2>1. CASE UNCHANGED <<cmd, done>>
    <3>1. UNCHANGED <<Coming, sent, mb, clobbers, drops, overflow, boot>>
      BY <1>5, PulseFacts DEF quiet, others, Coming
    <3> QED
      BY <2>1, <3>1, AccountStays
  <2>2. CASE Handled
    BY <1>5, <2>2, PulseFacts, AccountHandled DEF Answered
  <2> QED
    BY <1>5, <2>1, <2>2, PulseFacts
<1>6. CASE PulseEnd
  <2>1. cmd \in Commands /\ Handled /\ UNCHANGED <<mb, tx>>
    BY <1>6, PulseEndFacts DEF PulseInv, PulseEnd
  <2> QED
    BY <2>1, AccountHandled DEF Answered
<1> QED
  BY <1>1, <1>2, <1>3, <1>4, <1>5, <1>6 DEF Next, RouterNext, MainLoop, Handler, Read

(* What is still to come of the frames, whole and begun.                   *)
LEMMA AccountEnd == TypeOK /\ Account => OnlyNotificationsLoseCommands
<1> SUFFICES ASSUME TypeOK, Account, Quiescent, CleanLine
             PROVE  Len(done) + clobbers \in (Len(sent) - Waiting) .. Len(sent)
  BY DEF OnlyNotificationsLoseCommands
<1>1. Coming = rx /\ cmd = Nothing /\ Len(rx) = behind /\ behind \in Nat
  <2>1. wire = << >> /\ cmd = Nothing /\ Len(rx) = behind /\ rx \in Seq(Stored)
    BY AccountTypes DEF Quiescent, TypeOK
  <2>2. rx \o << >> = rx /\ Len(rx) \in Nat
    BY <2>1
  <2> QED
    BY <2>1, <2>2 DEF Coming
<1>2. PICK i, k : AccountAt(i, k)
  BY DEF Account
<1>3. At(rx, sent, FrameLen + 1, mb, Accounted, i, k)
  BY <1>1, <1>2 DEF AccountAt
<1>4. Accounted = Len(done) + clobbers /\ Len(sent) \in Nat /\ Len(done) \in Nat /\ clobbers \in Nat
  BY <1>1, AccountTypes DEF Accounted
<1>5. Accounted <= Len(sent) /\ Len(sent) - Accounted <= Waiting
  BY <1>1, <1>3, AccountTypes, AtWaiting DEF Waiting
<1>6. Waiting \in Int
  BY <1>1, FrameAssumption DEF FrameAssumption, Waiting
<1> QED
  BY <1>4, <1>5, <1>6

(* On a line that loses nothing every command is done, was cut in two by a *)
(* notification, or waits behind an m_size that lost an increment, for any *)
(* number of commands, of changing registers and of interrupts inside a    *)
(* pop_front: at each moment the commands done, in hand and cut in two are *)
(* those that have come out of the receive buffer.                         *)
THEOREM OnlyNotificationsLose == Spec => []OnlyNotificationsLoseCommands
<1>1. Account /\ (TypeOK /\ PulseInv) /\ [Next]_vars => Account'
  BY AccountNext
<1>2. Account /\ (TypeOK /\ PulseInv) => OnlyNotificationsLoseCommands
  BY AccountEnd
<1> QED
  BY <1>1, <1>2, AccountInit, TypeCorrect, PTL DEF Spec
=============================================================================
