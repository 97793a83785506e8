------------------------------ MODULE Codings -------------------------------
(***************************************************************************)
(* The system's pure functions, called one at a time with the inputs that  *)
(* matter: the text of a message on a noisy line (MsgCodec), the serial    *)
(* number tool (B32Coder), what the daemon reads before it connects        *)
(* (DeviceConfig) and the settings of the two ends of the line             *)
(* (LineSettings).  Each is compared with a definition of what it is for,  *)
(* which does not share its algorithm.                                     *)
(***************************************************************************)
EXTENDS Integers, Sequences, FiniteSets

CONSTANTS Payloads,    \* the four bytes of messages
          Chars,       \* codes a character on the line may turn into
          Times,       \* times, as sets of bits
          Lines,       \* first lines of the configuration file
          Flashes,     \* what the flash may hold as a serial number
          Interfaces,  \* what getifaddrs may list, as sequences
          Bauds        \* rates asked for

VARIABLES call,  \* the function called, its arguments and result
          faults \* bound: characters changed on the line

callVars == <<call, faults>>

M == INSTANCE MsgCodec
B == INSTANCE B32Coder
D == INSTANCE DeviceConfig
L == INSTANCE LineSettings

ASSUME CodingsAssumption ==
    /\ Payloads \subseteq [1 .. 4 -> M!Byte]
    /\ Chars \subseteq M!Byte
    /\ Times \subseteq SUBSET (0 .. 63)
    /\ Lines \subseteq Seq(STRING)      \* with a newline only at the end
    /\ \A line \in Lines : \A i \in 1 .. Len(line) - 1 : line[i] # "\n"
    /\ Flashes \subseteq Seq(STRING)
    /\ Interfaces \subseteq Seq([len : 7 .. 15, inet : BOOLEAN, loopback : BOOLEAN,
                                up : BOOLEAN, running : BOOLEAN])
    /\ Bauds \subseteq Nat

None == [fcn |-> "none"]

CodingsInit == call = None /\ faults = 0

(* A message is written ...                                                *)
SetBytes ==
    /\ call = None
    /\ \E v \in Payloads :
          call' = [fcn |-> "message", vals |-> v, text |-> M!set_bytes(v)]
    /\ UNCHANGED faults

(* ... and one of its characters becomes another one on the line, or two   *)
(* bits change.                                                            *)
ChangeChar ==
    /\ call.fcn = "message" /\ faults = 0
    /\ \E i \in 1 .. M!MessageLen, c \in Chars :
          call' = [call EXCEPT !.text[i] = c]
    /\ faults' = 2

FlipBit ==
    /\ call.fcn = "message" /\ faults < 2
    /\ \E i \in 1 .. M!MessageLen, b \in 0 .. 6 :
          call' = [call EXCEPT !.text[i] = IF M!Bit(@, b) = 1 THEN @ - 2^b ELSE @ + 2^b]
    /\ faults' = faults + 1

SerialNum ==
    /\ call = None
    /\ \E t \in Times, format \in BOOLEAN :
          call' = [fcn |-> "serialnum", time |-> t,
                   made |-> B!serialnum([kind |-> "hex", time |-> t], format, {}),
                   code |-> B!encode_datetime(t)]
    /\ UNCHANGED faults

ReadConfig ==
    /\ call = None
    /\ \E line \in Lines :
          call' = [fcn |-> "config", line |-> line, server |-> D!Server(line)]
    /\ UNCHANGED faults

ListAddresses ==
    /\ call = None
    /\ \E flash \in Flashes, ifs \in Interfaces :
          LET serno == D!SerialNumber(flash)
          IN  call' = [fcn |-> "addresses", flash |-> flash, serno |-> serno, ifs |-> ifs,
                       list |-> D!UrlAddresses(serno, ifs)]
    /\ UNCHANGED faults

OpenLine ==
    /\ call = None
    /\ \E baud \in Bauds, e71 \in BOOLEAN :
          call' = [fcn |-> "line", baud |-> baud,
                   router |-> L!sp_init(baud, e71), avr |-> L!init(L!uint16(baud), e71)]
    /\ UNCHANGED faults

CodingsNext ==
    \/ SetBytes \/ ChangeChar \/ FlipBit \/ SerialNum
    \/ ReadConfig \/ ListAddresses \/ OpenLine

CodingsSpec == CodingsInit /\ [][CodingsNext]_callVars

-----------------------------------------------------------------------------
(* What the functions are for.                                             *)

(* The CRC as it is taught: the bits of the text, lowest first, divide by  *)
(* the polynomial in a shift register, a number, one bit at a time.        *)
Xor0xa001(half) ==
    half + (IF (half \div 2^13) % 2 = 0 THEN 2^13 ELSE -(2^13))
         + (IF half % 2 = 0 THEN 1 ELSE -1)
         + 2^15
DivideBit(reg, bit) == IF reg % 2 = bit THEN reg \div 2 ELSE Xor0xa001(reg \div 2)
DivideChar(reg, ch) ==
    LET r1 == DivideBit(reg, M!Bit(ch, 0))
        r2 == DivideBit(r1, M!Bit(ch, 1))
        r3 == DivideBit(r2, M!Bit(ch, 2))
        r4 == DivideBit(r3, M!Bit(ch, 3))
        r5 == DivideBit(r4, M!Bit(ch, 4))
        r6 == DivideBit(r5, M!Bit(ch, 5))
        r7 == DivideBit(r6, M!Bit(ch, 6))
    IN  DivideBit(r7, M!Bit(ch, 7))
BitSerialCrc(text) ==
    LET r1 == DivideChar(2^16 - 1, text[2])
        r2 == DivideChar(r1, text[3])
        r3 == DivideChar(r2, text[4])
        r4 == DivideChar(r3, text[5])
        r5 == DivideChar(r4, text[6])
        r6 == DivideChar(r5, text[7])
        r7 == DivideChar(r6, text[8])
    IN  DivideChar(r7, text[9])

(* The digits of a time to the base 32, without leading zeros.             *)
Digit32(t, k) ==
    LET bit(i) == IF 5 * k + i \in t THEN 2^i ELSE 0
    IN  bit(0) + bit(1) + bit(2) + bit(3) + bit(4)
InBase32(t) ==
    LET n == CHOOSE k \in 0 .. 13 : /\ k > 0 => Digit32(t, k - 1) # 0
                                    /\ \A j \in k .. 12 : Digit32(t, j) = 0
    IN  [i \in 1 .. n |-> B!enc32[Digit32(t, n - i) + 1]]

(* How people write them: in capitals, O for 0, I or l for 1, 5 for s.     *)
Capital(c) == IF c \in 97 .. 122 THEN c - 32 ELSE c
Mistaken(c) == CASE c = 48 -> 79 [] c = 49 -> 73 [] c = 115 -> 53 [] OTHER -> Capital(c)

(* The places among the first m where an interface is listed that the      *)
(* router can be reached at, and the characters of the addresses ips with  *)
(* their separators.                                                       *)
Reachable(ifs, m) == {i \in 1 .. m : D!Counts(ifs[i])}
TextLen(ips) ==
    LET upto[k \in 0 .. Len(ips)] ==
          IF k = 0 THEN 0 ELSE upto[k - 1] + ips[k].len + (IF k > 1 THEN D!DelimLen ELSE 0)
    IN  upto[Len(ips)]

Close(rate, baud) == 100 * (IF rate > baud THEN rate - baud ELSE baud - rate) <= baud

-----------------------------------------------------------------------------
(* What leaves as a message arrives as that message; when one character of *)
(* it, or any two bits, have changed on the line, the receiver may refuse  *)
(* it but never takes it for another one, although HEX2DEC reads capitals  *)
(* and takes what is no digit for 0.                                       *)
NeverAnotherMessage ==
    call.fcn = "message" =>
       LET got == M!get_bytes(call.text)
       IN  /\ got.ok => got.vals = call.vals
           /\ faults = 0 => got.ok

(* The eight steps for each character with their right shifts compute the  *)
(* CRC that divides bit by bit, so that other programs can check it.       *)
CrcIsRemainder ==
    call.fcn = "message" =>
       M!compute_crc(call.text) = M!BitsOf(BitSerialCrc(call.text), 16)

(* encode's walk over byte borders yields the digits of the number.        *)
DigitsAreBase32 == call.fcn = "serialnum" => call.code = InBase32(call.time)

(* A time below 2^56 is read back from its digits, also as people write    *)
(* them; what the tool prints as a serial number it reads again as the     *)
(* time it was made from, and it prints none that has not nine digits.     *)
TimesReadBack ==
    call.fcn = "serialnum" =>
       LET mistaken == [i \in DOMAIN call.code |-> Mistaken(call.code[i])]
           again(s) == B!serialnum([kind |-> "digits", text |-> s], FALSE, {}).time
       IN  /\ call.time \subseteq 0 .. 55 =>
                 /\ B!decode_datetime(call.code) = call.time
                 /\ B!decode_datetime(mistaken) = call.time
           /\ call.made.rc = 0 => again(call.made.text) = call.time /\ again(mistaken) = call.time
           /\ call.made.rc = 0 <=> Len(call.code) = 9

(* main connects to the host and port the configuration file names, port   *)
(* 443 where it names none, and to the built-in host when there is no      *)
(* file or its first line is too long.  A last line without a newline and  *)
(* without a port is left out: its last character is cut off.              *)
ServerAsConfigured ==
    call.fcn = "config" =>
       LET line == call.line
           text == D!Before("\n", line)
           port == SubSeq(text, Len(D!Before(":", text)) + 2, Len(text))
       IN  IF line = D!Missing \/ Len(line) = 0 \/ Len(line) > D!HostSize
           THEN call.server = [host |-> D!WEB_HOST, port |-> 443]
           ELSE text # line \/ D!Before(":", text) # text =>
                  /\ call.server.host = D!Before(":", text)
                  /\ call.server.port = IF D!atoi(port) = 0 THEN 443 ELSE D!atoi(port)

(* The serial number and the addresses written into the URL with their     *)
(* separators never pass its 64 characters, the addresses are the first of *)
(* those the router can be reached at, main goes on waiting exactly while  *)
(* there is none, and the number is nine characters but for a NUL in the   *)
(* flash.                                                                  *)
AddressesFit ==
    call.fcn = "addresses" =>
       LET n    == Len(call.list.ips)
           text == TextLen(call.list.ips)
       IN  /\ \E m \in 0 .. Len(call.ifs) :
                 /\ n = Cardinality(Reachable(call.ifs, m))
                 /\ \A i \in Reachable(call.ifs, m) :
                       call.list.ips[Cardinality(Reachable(call.ifs, i))] = call.ifs[i]
           /\ call.list.len = text
           /\ n > 0 => D!UrlPrefixLen(call.serno) + text < D!UrlSize
           /\ call.list.rc = 0 <=> Reachable(call.ifs, Len(call.ifs)) # {}
           /\ Len(call.serno) = 9 \/ \E i \in DOMAIN call.flash : call.flash[i] = "NUL"

(* The rates at which both ends run within one percent of each other and   *)
(* with the same format are those from 600 to 57600, the one that main and *)
(* avr_main ask for among them: below, the UART's divisor does not fit its *)
(* register, above, the rate does not fit the uint16_t it is passed in.    *)
EndsAgree ==
    call.fcn = "line" =>
       (  /\ call.router.ok
          /\ Close(call.avr.rate, call.baud) /\ call.router.rate = call.baud
          /\ call.avr.format = call.router.format
        <=> call.baud \in L!Rates /\ 600 <= call.baud /\ call.baud <= 57600 )
=============================================================================
