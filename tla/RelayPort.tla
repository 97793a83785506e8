----------------------------- MODULE RelayPort -----------------------------
(***************************************************************************)
(* The digital lines of the board and the register macros of avr_impl.cpp  *)
(* through which every command reaches them.                               *)
(*                                                                         *)
(* A byte is the set of its bits that are 1.  The eight relays hang on     *)
(* PORTA with inverted logic (1 = off); the high nibble is in register     *)
(* order, the low nibble is reversed: relay 1 is PORTA.3 and register bit  *)
(* 0, relay 8 is PORTA.7 and register bit 7.                               *)
(***************************************************************************)
EXTENDS Integers

CONSTANT Values  \* bound: the values and masks of the write commands

Bits == 0 .. 7

ASSUME ValuesAssumption == Values \subseteq SUBSET Bits

VARIABLE port  \* PORTA

-----------------------------------------------------------------------------
(* The pin of register bit i, and the bit of pin i.                        *)
Mirror(i) == IF i > 3 THEN i ELSE 3 - i

READ_DIGITAL_OUTPUTS(p) == {i \in Bits : Mirror(i) \notin p}

WRITE_DIGITAL_OUTPUTS(v) == {i \in Bits : Mirror(i) \notin v}

(* Faulty variant: the masked bits are set but never cleared.              *)
WRITE_MASKED_OR(p, v, m) == WRITE_DIGITAL_OUTPUTS(READ_DIGITAL_OUTPUTS(p) \cup (v \cap m))

WRITE_DIGITAL_OUTPUTS_MASKED(p, v, m) ==
    WRITE_DIGITAL_OUTPUTS((READ_DIGITAL_OUTPUTS(p) \ m) \cup (v \cap m))

(* Faulty variant: relay 4 is taken for the first of the high nibble.      *)
DecodeSplitEarly(b) == IF b < 4 THEN 4 - b ELSE b - 1

(* The decoder of the bit commands counts relays from 1.                   *)
Decode(b) == IF b < 5 THEN 4 - b ELSE b - 1

SET_DIGITAL_OUTPUT_BIT(p, b)   == p \ {Decode(b)}
CLEAR_DIGITAL_OUTPUT_BIT(p, b) == p \cup {Decode(b)}
TOGGLE_DIGITAL_OUTPUT_BIT(p, b) ==
    IF Decode(b) \in p THEN p \ {Decode(b)} ELSE p \cup {Decode(b)}

(* The opto-inputs, inverted and gathered from two ports; read by the      *)
(* handlers of AvrNode.                                                    *)
READ_DIGITAL_INPUTS(pinc, pind) ==
    ((4 .. 7) \ pinc)
    \cup (IF 2 \in pinc THEN {} ELSE {3}) \cup (IF 3 \in pinc THEN {} ELSE {2})
    \cup (IF 7 \in pind THEN {} ELSE {1}) \cup (IF 5 \in pind THEN {} ELSE {0})

-----------------------------------------------------------------------------
(* The handlers of the commands, after their register and bit checks.      *)

(* avr_init: all relays off                                                *)
Init == port = Bits

WriteRegister(v, m) == port' = WRITE_DIGITAL_OUTPUTS_MASKED(port, v, m)

WriteRegisterBit(b, state) ==
    port' = IF state THEN SET_DIGITAL_OUTPUT_BIT(port, b)
                     ELSE CLEAR_DIGITAL_OUTPUT_BIT(port, b)

(* One half of a pulse.                                                    *)
ToggleBit(b) == port' = TOGGLE_DIGITAL_OUTPUT_BIT(port, b)

Next ==
    \/ \E v, m \in Values : WriteRegister(v, m)
    \/ \E b \in Bits, state \in BOOLEAN : WriteRegisterBit(b, state)
    \/ \E b \in Bits : ToggleBit(b)

Spec == Init /\ [][Next]_port

-----------------------------------------------------------------------------
Outputs == READ_DIGITAL_OUTPUTS(port)

(* The port is a set of its eight bits.                                    *)
TypeOK == port \in SUBSET Bits

(* A masked write gives the masked register bits their new value and       *)
(* leaves the state of every other relay alone, through both inversions    *)
(* and the reversed nibble.                                                *)
MaskRespected ==
    [][\A v, m \in Values :
         WriteRegister(v, m) => Outputs' = (Outputs \ m) \cup (v \cap m)]_port

(* Bit command b, from 1 to 7, switches relay b, register bit b - 1, and   *)
(* no other; 0 switches relay 5 as 5 does.                                 *)
RelayOf(b) == IF b = 0 THEN 5 ELSE b

BitSwitchesRelay ==
    \A b \in Bits :
       /\ READ_DIGITAL_OUTPUTS(SET_DIGITAL_OUTPUT_BIT(port, b))
             = Outputs \cup {RelayOf(b) - 1}
       /\ READ_DIGITAL_OUTPUTS(CLEAR_DIGITAL_OUTPUT_BIT(port, b))
             = Outputs \ {RelayOf(b) - 1}

(* The two toggles of a pulse cancel out, and the relay is switched in     *)
(* between.                                                                *)
PulseRestores ==
    \A b \in Bits :
       LET during == TOGGLE_DIGITAL_OUTPUT_BIT(port, b)
       IN  /\ TOGGLE_DIGITAL_OUTPUT_BIT(during, b) = port
           /\ RelayOf(b) - 1 \in Outputs <=> RelayOf(b) - 1 \notin READ_DIGITAL_OUTPUTS(during)

(* "param2: bit num (0-7)" in the message definitions: bit command b sets  *)
(* bit b of the register that READ and WRITE address.                      *)
BitNumberIsRegisterBit ==
    \A b \in Bits : b \in READ_DIGITAL_OUTPUTS(SET_DIGITAL_OUTPUT_BIT(port, b))
=============================================================================
