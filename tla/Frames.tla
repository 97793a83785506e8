------------------------------- MODULE Frames -------------------------------
(***************************************************************************)
(* What is on the serial line, and the message buffer both ends put it in. *)
(*                                                                         *)
(* A byte of a frame is a token <<frame, position>>, so that only the      *)
(* bytes of one frame, all and in order, make a valid message: the CRC is  *)
(* taken to be perfect.  A byte at position 0 is part of no frame.         *)
(***************************************************************************)
EXTENDS Integers, Sequences

CONSTANT FrameLen  \* bytes of a frame, 14 in the code

ASSUME FrameAssumption == FrameLen \in Nat /\ FrameLen >= 2

Deque == INSTANCE BoundedDeque
           WITH Capacity <- FrameLen, Items <- {}, Zero <- {},
                q <- << >>, open <- TRUE, ret <- {}

-----------------------------------------------------------------------------
(* The messages; a register's value and a mask are sets of bits.           *)
Ping(x)  == [type |-> "PING", arg |-> x]
Pong(x)  == [type |-> "PONG", arg |-> x]
ReadRegister(r)            == [type |-> "READ", reg |-> r]
WriteRegister(r, v, m)     == [type |-> "WRITE", reg |-> r, value |-> v, mask |-> m]
WriteRegisterBit(r, b, on) == [type |-> "WRITE_BIT", reg |-> r, bit |-> b, on |-> on]
PulseRegisterBit(r, b)     == [type |-> "PULSE_BIT", reg |-> r, bit |-> b]
SubscribeRegister(r, v, c) == [type |-> "SUBSCRIBE", reg |-> r, value |-> v, cancel |-> c]

(* The two registers, the answer to a wrong one, and all others.           *)
Registers == {"IN", "OUT", "ERR", "?"}
Values8   == SUBSET (0 .. 7)

Frame ==
    [type : {"UNKNOWN"}]
    \cup [type : {"PING", "PONG"}, arg : Nat]
    \cup [type : {"READ"}, reg : Registers]
    \cup [type : {"WRITE"}, reg : Registers, value : Values8, mask : Values8]
    \cup [type : {"WRITE_BIT"}, reg : Registers, bit : 0 .. 255, on : BOOLEAN]
    \cup [type : {"PULSE_BIT"}, reg : Registers, bit : 0 .. 255]
    \cup [type : {"SUBSCRIBE"}, reg : Registers, value : Values8, cancel : BOOLEAN]

-----------------------------------------------------------------------------
Byte(f, i) == <<f, i>>
FrameBytes(f) == [i \in 1 .. FrameLen |-> Byte(f, i)]

Newline == Byte([type |-> "NEWLINE"], 0)
BytesOf(F) == (F \X (1 .. FrameLen)) \cup {Newline}

(* Faulty variants: the message buffer grows beyond a frame; it holds one  *)
(* byte less, as a ring buffer that keeps a slot free would.               *)
PushByteUnbounded(s, b) == Append(s, b)
PushByteShort(s, b) == Deque!PushOver(FrameLen - 1, s, b)

(* A message buffer holds the last FrameLen bytes, and they are a message  *)
(* when they are one frame.                                                *)
PushByte(s, b) == Deque!PushOver(FrameLen, s, b)
Valid(s) == Len(s) = FrameLen /\ s = FrameBytes(s[1][1])

(* A frame has begun to arrive, without a gap, and its end has not come.   *)
Partial(s) ==
    /\ s # << >>
    /\ LET f == s[Len(s)][1]  k == s[Len(s)][2]
       IN  /\ k \in 1 .. FrameLen - 1 /\ k <= Len(s)
           /\ \A i \in 1 .. k : s[Len(s) - k + i] = Byte(f, i)
=============================================================================
