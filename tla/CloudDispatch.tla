--------------------------- MODULE CloudDispatch ---------------------------
(***************************************************************************)
(* What a message of the cloud server does to the relays: dispatch_msg     *)
(* (a140808.c) takes a JSON array apart, mp_dispatch_* (msg_proc.c) makes  *)
(* a frame of it, and the AVR carries the frames out one after the other,  *)
(* by the macros of RelayPort.  The serial line is reliable here; AvrNode  *)
(* and SerialRx say when it is not.                                        *)
(*                                                                         *)
(* A JSON element is its type and what json-c makes of it as an int: 0     *)
(* for a string that is no number.                                         *)
(***************************************************************************)
EXTENDS RelayPort, Sequences

CONSTANTS Messages,  \* what the server may send
          MaxSaid    \* bound: messages of a behaviour

VARIABLES frames,  \* frames on their way to the AVR
          pulse,   \* the frame of the pulse the AVR is in, or none
          said,    \* ghost: the messages dispatched
          done     \* ghost: the messages whose frames were carried out

vars == <<port, frames, pulse, said, done>>

-----------------------------------------------------------------------------
(* Messages.                                                               *)

Num(n)    == [type |-> "int", name |-> "", n |-> n]
Str(s)    == [type |-> "string", name |-> s, n |-> 0]
NumStr(n) == [type |-> "string", name |-> "digits", n |-> n]
Other     == [type |-> "other", name |-> "", n |-> 0]

Element ==
    [type : {"int"}, name : {""}, n : Int] \cup [type : {"string"}, name : STRING, n : {0}]
    \cup [type : {"string"}, name : {"digits"}, n : Int] \cup {Other}

Array(elems) == [json |-> "array", elems |-> elems]
Object       == [json |-> "object", elems |-> << >>]
Garbage      == [json |-> "none", elems |-> << >>]

Message == [json : {"array"}, elems : Seq(Element)] \cup {Object, Garbage}

ASSUME CloudAssumption == Messages \subseteq Message /\ MaxSaid \in Nat

(* get_string_from_array, get_int_from_array: whether they succeed, and    *)
(* the int.                                                                *)
HasString(m, i) ==
    m.json = "array" /\ i < Len(m.elems) /\ m.elems[i + 1].type = "string"
(* Faulty variant: an element of another type passes for the int 0.        *)
HasAny(m, i) == m.json = "array" /\ i < Len(m.elems)
HasInt(m, i) ==
    m.json = "array" /\ i < Len(m.elems) /\ m.elems[i + 1].type \in {"string", "int"}
IntAt(m, i) == m.elems[i + 1].n

Calls(m, fcn) == HasString(m, 0) /\ m.elems[1].name = fcn

uint8(n) == n % 256
BitsOf(n) == {i \in Bits : (n \div 2^i) % 2 = 1}

InRange(n) == n \in 0 .. 255

-----------------------------------------------------------------------------
None == [type |-> "NONE"]

CloudInit ==
    /\ Init
    /\ frames = << >>
    /\ pulse = None
    /\ said = << >> /\ done = << >>

Says(m) ==
    /\ Len(said) < MaxSaid
    /\ said' = Append(said, m)
    /\ UNCHANGED <<port, pulse, done>>

(* mp_dispatch_pulse_register_bit refuses bit numbers above 7.             *)
PulseMs(m) == IF HasInt(m, 2) THEN IntAt(m, 2) ELSE 250

GoodPulse(m) ==
    /\ Calls(m, "pulseRelay")
    /\ HasInt(m, 1) /\ InRange(IntAt(m, 1)) /\ InRange(PulseMs(m))

PulseRelay(m) ==
    /\ GoodPulse(m)
    /\ Says(m)
    /\ LET bit == uint8(IntAt(m, 1))
       IN  frames' = IF bit > 7 THEN frames
                     ELSE Append(frames, [type |-> "PULSE", bit |-> bit, from |-> m])

GoodWrite(m) ==
    /\ Calls(m, "writeOutputRegister")
    /\ HasInt(m, 1) /\ InRange(IntAt(m, 1))
    /\ HasInt(m, 2) /\ InRange(IntAt(m, 2))

WriteOutputRegister(m) ==
    /\ GoodWrite(m)
    /\ Says(m)
    /\ frames' = Append(frames, [type |-> "WRITE", from |-> m,
                                 value |-> BitsOf(uint8(IntAt(m, 1))),
                                 mask  |-> BitsOf(uint8(IntAt(m, 2)))])

(* dialModem and hello, which are only logged, requestIpv4Addresses, which *)
(* WebSock answers, and all that is refused: what is no JSON array, has no *)
(* function name or an unknown one, or arguments that are missing, of the  *)
(* wrong type or out of range.                                             *)
NoFrame(m) ==
    /\ ~GoodPulse(m) /\ ~GoodWrite(m)
    /\ Says(m)
    /\ UNCHANGED frames

dispatch_msg == \E m \in Messages : PulseRelay(m) \/ WriteOutputRegister(m) \/ NoFrame(m)

-----------------------------------------------------------------------------
(* The AVR.                                                                *)

NextFrame(t) ==
    /\ pulse = None
    /\ frames # << >>
    /\ Head(frames).type = t
    /\ frames' = Tail(frames)

AvrWrite ==
    /\ NextFrame("WRITE")
    /\ WriteRegister(Head(frames).value, Head(frames).mask)
    /\ done' = Append(done, Head(frames).from)
    /\ UNCHANGED <<pulse, said>>

AvrPulse ==
    /\ NextFrame("PULSE")
    /\ ToggleBit(Head(frames).bit)
    /\ pulse' = Head(frames)
    /\ UNCHANGED <<said, done>>

AvrPulseEnd ==
    /\ pulse # None
    /\ ToggleBit(pulse.bit)
    /\ pulse' = None
    /\ done' = Append(done, pulse.from)
    /\ UNCHANGED <<frames, said>>

CloudNext == dispatch_msg \/ AvrWrite \/ AvrPulse \/ AvrPulseEnd

CloudSpec == CloudInit /\ [][CloudNext]_vars

-----------------------------------------------------------------------------
(* The meaning of a message by its form: ["writeOutputRegister", v, m]     *)
(* with two numbers of a byte, as ints or as strings.                      *)
IsByte(e) == e.type # "other" /\ e.n >= 0 /\ e.n < 256

Writes(m) ==
    /\ m.json = "array" /\ Len(m.elems) >= 3
    /\ m.elems[1] = Str("writeOutputRegister")
    /\ IsByte(m.elems[2]) /\ IsByte(m.elems[3])

(* The writes among the messages ms that have bit i in their mask, and the *)
(* output register as the last of these leaves each bit.                   *)
WritesTo(i, ms) == {k \in DOMAIN ms : Writes(ms[k]) /\ (ms[k].elems[3].n \div 2^i) % 2 = 1}

Effect(ms) ==
    {i \in 0 .. 7 : \E k \in WritesTo(i, ms) :
                       /\ \A j \in WritesTo(i, ms) : j <= k
                       /\ (ms[k].elems[2].n \div 2^i) % 2 = 1}

(* When everything the server said has reached the relays, they are as the *)
(* well formed writes among its messages make them, and a message that is  *)
(* malformed in any part, a pulse and a refused one leave no trace.  In a  *)
(* pulse the relay that its message names, counted from 1 (and the fifth   *)
(* for the number 0), is switched on top of that, and no other.            *)
OutputsAsSaid ==
    /\ frames = << >> /\ pulse = None => Outputs = Effect(said)
    /\ pulse # None =>
          LET num    == IntAt(pulse.from, 1)
              named  == IF num = 0 THEN 4 ELSE num - 1
              before == Effect(done)
          IN  Outputs = IF named \in before THEN before \ {named} ELSE before \cup {named}
=============================================================================
