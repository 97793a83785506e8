------------------------------ MODULE B32Coder ------------------------------
(***************************************************************************)
(* The serial numbers of the devices (hlk-rm04/tools/serialnum): the time  *)
(* of their making in milliseconds, written with 32 digits that cannot be  *)
(* mistaken for each other.  A byte or a number is the set of its 1 bits,  *)
(* lowest byte first as the little-endian host stores it; a character is   *)
(* its code.  The shifts and masks are those of the code, on such sets.    *)
(***************************************************************************)
EXTENDS Integers, Sequences

enc32 == <<48, 97, 98, 99, 100, 101, 102, 103, 104, 106, 107, 109, 110, 112, 113, 114,
           115, 116, 117, 118, 119, 120, 121, 122, 49, 50, 51, 52, 54, 55, 56, 57>>

Low(w) == 0 .. w - 1
BitsIn(n, w) == {i \in Low(w) : (n \div 2^i) % 2 = 1}

(* The number of five bits.                                                *)
Number(bits) ==
    LET bit(i) == IF i \in bits THEN 2^i ELSE 0
    IN  bit(0) + bit(1) + bit(2) + bit(3) + bit(4)

(* x << n, or x >> -n for a negative n.                                    *)
Shift(x, n) == {i + n : i \in {j \in x : j + n >= 0}}

-----------------------------------------------------------------------------
(* Faulty variant: the next byte is fetched only when nothing is left.     *)
Refill_late(sft) == sft <= -8
Refill(sft) == sft < -3

(* Digits from the last to the first: what is left of the byte src, and    *)
(* when it has less than five bits, those of the next one.                 *)
NextDigit(s, in) ==
    LET digit(src, sft, i) ==
          LET bits == (Shift(s.src, s.sft) \cup Shift(src, sft)) \cap Low(5)
          IN  [sft |-> sft - 5, src |-> src, i |-> i,
               out |-> <<enc32[Number(bits) + 1]>> \o s.out]
    IN  IF Refill(s.sft) /\ s.i < Len(in)
        THEN digit(in[s.i + 1], s.sft + 8, s.i + 1)
        ELSE digit(s.src, s.sft, s.i)

encode(in) ==
    LET otot == (8 * Len(in)) \div 5 + (IF (8 * Len(in)) % 5 = 0 THEN 0 ELSE 1)
        loop[k \in 0 .. otot] ==
          IF k = 0 THEN [sft |-> -8, src |-> {}, i |-> 0, out |-> << >>]
                   ELSE NextDigit(loop[k - 1], in)
    IN  loop[otot].out

(* Faulty variant: 5 is taken for the digit of its value.                  *)
decode_char_five(c) ==
    CASE c \in 65 .. 72 -> c - 65 + 1    [] c \in 97 .. 104 -> c - 97 + 1
      [] c \in 74 .. 75 -> c - 74 + 9    [] c \in 106 .. 107 -> c - 106 + 9
      [] c \in 77 .. 78 -> c - 77 + 11   [] c \in 109 .. 110 -> c - 109 + 11
      [] c \in 80 .. 90 -> c - 80 + 13   [] c \in 112 .. 122 -> c - 112 + 13
      [] c \in {48, 79, 111} -> 0
      [] c \in {49, 73, 105, 76, 108} -> 24
      [] c \in 50 .. 53 -> c - 50 + 25
      [] c \in 54 .. 57 -> c - 54 + 28
      [] OTHER -> 255

decode_char(c) ==
    CASE c \in 65 .. 72 -> c - 65 + 1    [] c \in 97 .. 104 -> c - 97 + 1
      [] c \in 74 .. 75 -> c - 74 + 9    [] c \in 106 .. 107 -> c - 106 + 9
      [] c \in 77 .. 78 -> c - 77 + 11   [] c \in 109 .. 110 -> c - 109 + 11
      [] c \in 80 .. 90 -> c - 80 + 13   [] c \in 112 .. 122 -> c - 112 + 13
      [] c \in {48, 79, 111} -> 0                 \* 0 O o
      [] c \in {49, 73, 105, 76, 108} -> 24       \* 1 I i L l
      [] c \in 50 .. 52 -> c - 50 + 25
      [] c = 53 -> 16                             \* 5 is s
      [] c \in 54 .. 57 -> c - 54 + 28
      [] OTHER -> 255

(* Bytes from the first on, each of what is left of the digit src and the  *)
(* next one or two digits; a digit that is none is eight 1 bits.  Partial  *)
(* bytes are not made.                                                     *)
NextByte(s, in) ==
    LET wish == IF s.sft < 3 THEN (7 - s.sft) \div 5 ELSE 0
        n    == IF wish < s.i THEN wish ELSE s.i
        src(j) == IF j = 0 THEN s.src ELSE BitsIn(decode_char(in[s.i - j + 1]), 8)
        bits == UNION {Shift(src(j), s.sft + 5 * j) : j \in 0 .. n}
    IN  [sft |-> s.sft + 5 * n - 8, src |-> src(n), i |-> s.i - n,
         out |-> Append(s.out, bits \cap Low(8))]

decode(in) ==
    LET otot == (5 * Len(in)) \div 8
        loop[o \in 0 .. otot] ==
          IF o = 0 THEN [sft |-> -5, src |-> {}, i |-> Len(in), out |-> << >>]
                   ELSE NextByte(loop[o - 1], in)
    IN  loop[otot].out

-----------------------------------------------------------------------------
(* Times, of 64 bits.                                                      *)

BytesOf(t, n) == [k \in 1 .. n |-> Shift(t, -8 * (k - 1)) \cap Low(8)]
FromBytes(s) == UNION {Shift(s[k], 8 * (k - 1)) : k \in DOMAIN s}

(* Without the leading zeros; nothing at all for the time 0.               *)
encode_datetime(t) ==
    LET out   == encode(BytesOf(t, 8))
        first == CHOOSE i \in 1 .. Len(out) + 1 :
                    /\ i <= Len(out) => out[i] # 48
                    /\ \A j \in 1 .. i - 1 : out[j] = 48
    IN  SubSeq(out, first, Len(out))

(* Up to twelve digits, 60 bits, of which 56 make whole bytes; -2 for a    *)
(* longer text.                                                            *)
decode_datetime(s) ==
    IF Len(s) > 12 THEN Low(64) \ {0}
    ELSE FromBytes(decode([i \in 1 .. 12 - Len(s) |-> 48] \o s))

(* serialnum [now | <9 digits> | 0x<time> | format] [format]: what it      *)
(* returns and prints.                                                     *)
Usage == [rc |-> 0, text |-> << >>, time |-> {}]
Fails(rc) == [rc |-> rc, text |-> << >>, time |-> {}]

serialnum(arg, format, now) ==
    LET given == arg.kind = "digits"
        buf   == CASE given             -> arg.text
                   [] arg.kind = "hex"  -> encode_datetime(arg.time)
                   [] OTHER             -> encode_datetime(now)
        res   == decode_datetime(buf)
        shown == format \/ arg.kind = "format"
    IN  CASE arg.kind = "other" -> Usage
          [] arg.kind = "hex" /\ Len(buf) # 9 -> Fails(1)
          [] arg.kind \in {"none", "now", "format"} /\ Len(buf) # 9 -> Fails(2)
          [] OTHER ->
               IF (shown \/ given) /\ res = {} THEN Fails(3)
               ELSE [rc |-> 0,
                     text |-> IF shown \/ ~given THEN buf ELSE << >>,
                     time |-> IF shown \/ given THEN res ELSE {}]
=============================================================================
