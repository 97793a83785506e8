------------------------------ MODULE MsgCodec ------------------------------
(***************************************************************************)
(* The text of a message on the serial line, as class MsgBuf (A/msg_buf.h) *)
(* and the mb_ functions (H/msg_buf.h) write and read it: a '[', eight hex *)
(* digits for four bytes, four hex digits of a CRC-16 over the eight, and  *)
(* a ']'.  The buffer is the sequence of its characters, a character is    *)
(* its code, and a register of the CRC is the set of its 1 bits.           *)
(***************************************************************************)
EXTENDS Integers, Sequences

S_OK == 0
S_INCOMPLETE_BUFFER == 1
E_BAD_FRAME == 255   \* -1 and -2 as the uint8_t that validate returns
E_BAD_CRC == 254

MSG_BEGIN_CHAR == 91
MSG_END_CHAR == 93
MessageLen == 14

Byte == 0 .. 255
Bit(n, i) == (n \div 2^i) % 2
BitsOf(n, w) == {i \in 0 .. w - 1 : Bit(n, i) = 1}

DEC2HEX(d) == CASE d \in 0 .. 9   -> d + 48
                [] d \in 10 .. 15 -> d - 10 + 97
                [] OTHER          -> 122

(* What is no hex digit counts as 0.                                       *)
HEX2DEC(c) == CASE c \in 48 .. 57  -> c - 48
                [] c \in 65 .. 70  -> c - 65 + 10
                [] c \in 97 .. 102 -> c - 97 + 10
                [] OTHER           -> 0

(* RingBuffer::at.                                                         *)
at(s, i) == IF i >= Len(s) THEN 0 ELSE s[i + 1]

-----------------------------------------------------------------------------
(* The CRC.                                                                *)

Xor(a, b) == (a \ b) \cup (b \ a)
Polynomial == {0, 13, 15}   \* 0xa001
ShiftRight(c) == {i - 1 : i \in c \ {0}}

(* Faulty variant: the polynomial is added when the bit is 0.              *)
CrcStepInverted(c) == IF 0 \in c THEN ShiftRight(c) ELSE Xor(ShiftRight(c), Polynomial)

CrcStep(c) == IF 0 \in c THEN Xor(ShiftRight(c), Polynomial) ELSE ShiftRight(c)

update_crc16(crc, ch) ==
    LET c0 == Xor(crc, BitsOf(ch, 8))
        c2 == CrcStep(CrcStep(c0))
        c4 == CrcStep(CrcStep(c2))
        c6 == CrcStep(CrcStep(c4))
    IN  CrcStep(CrcStep(c6))

(* Faulty variant: the last character is left out.                         *)
compute_crc_short(s) ==
    LET c1 == update_crc16(0 .. 15, at(s, 1))
        c2 == update_crc16(c1, at(s, 2))
        c3 == update_crc16(c2, at(s, 3))
        c4 == update_crc16(c3, at(s, 4))
        c5 == update_crc16(c4, at(s, 5))
        c6 == update_crc16(c5, at(s, 6))
    IN  update_crc16(c6, at(s, 7))

compute_crc(s) ==
    LET c1 == update_crc16(0 .. 15, at(s, 1))
        c2 == update_crc16(c1, at(s, 2))
        c3 == update_crc16(c2, at(s, 3))
        c4 == update_crc16(c3, at(s, 4))
        c5 == update_crc16(c4, at(s, 5))
        c6 == update_crc16(c5, at(s, 6))
        c7 == update_crc16(c6, at(s, 7))
    IN  update_crc16(c7, at(s, 8))

get_crc(s) ==
    UNION { {4 * k + i : i \in BitsOf(HEX2DEC(at(s, 12 - k)), 4)} : k \in 0 .. 3 }

-----------------------------------------------------------------------------
Nibble(crc, k) ==
    LET bit(i) == IF 4 * k + i \in crc THEN 2^i ELSE 0
    IN  bit(0) + bit(1) + bit(2) + bit(3)

set_bytes(v) ==
    LET body == <<MSG_BEGIN_CHAR>> \o
                [i \in 1 .. 8 |-> DEC2HEX(IF i % 2 = 1 THEN v[(i + 1) \div 2] \div 16
                                                       ELSE v[i \div 2] % 16)]
        crc  == compute_crc(body)
    IN  body \o [i \in 1 .. 4 |-> DEC2HEX(Nibble(crc, 4 - i))] \o <<MSG_END_CHAR>>

validate(s) ==
    IF Len(s) < MessageLen THEN S_INCOMPLETE_BUFFER
    ELSE IF at(s, 0) # MSG_BEGIN_CHAR \/ at(s, 13) # MSG_END_CHAR THEN E_BAD_FRAME
    ELSE IF get_crc(s) # compute_crc(s) THEN E_BAD_CRC
    ELSE S_OK

(* Whether it is a message, and its four bytes.                            *)
get_bytes(s) ==
    IF validate(s) # S_OK THEN [ok |-> FALSE, vals |-> <<0, 0, 0, 0>>]
    ELSE [ok |-> TRUE,
          vals |-> [k \in 1 .. 4 |-> 16 * HEX2DEC(at(s, 2 * k - 1)) + HEX2DEC(at(s, 2 * k))]]
=============================================================================
