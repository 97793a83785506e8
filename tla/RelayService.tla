---------------------------- MODULE RelayService ----------------------------
(***************************************************************************)
(* What the board promises whoever switches its relays over a line that    *)
(* may lose things: it carries out commands that were sent, each at most   *)
(* once and in their order, until its receive storage has lost the order   *)
(* of what it holds; a relay changes by a command or a pulse, which ends   *)
(* as it began, or when the board starts anew, with all relays off; and    *)
(* what it tells of its relays is so.                                      *)
(***************************************************************************)
EXTENDS Integers, Sequences

CONSTANT Commands  \* records, as AvrNode names them

VARIABLES relays,  \* register bits of the relays that are switched on
          pulsed,  \* what a pulse has switched for now
          sent, done,
          garbled, \* the order of what came was lost
          told     \* what the board has reported, by the numbers of its frames

vars == <<relays, pulsed, sent, done, garbled, told>>

-----------------------------------------------------------------------------
(* The register bit that a bit command names: its number counts relays     *)
(* from 1, and 0 is relay 5.                                               *)
Named(c) == IF c.bit = 0 THEN 4 ELSE c.bit - 1

(* The relays r after the command c, and those a pulse switches.           *)
Apply(r, c) ==
    CASE c.type = "WRITE" /\ c.reg = "OUT" -> (r \ c.mask) \cup (c.value \cap c.mask)
      [] c.type = "WRITE_BIT" /\ c.reg = "OUT" /\ c.bit < 8 ->
            IF c.on THEN r \cup {Named(c)} ELSE r \ {Named(c)}
      [] OTHER -> r

Pulses(c) == c.type = "PULSE_BIT" /\ c.reg = "OUT" /\ c.bit < 8

Toggled(r, s) == (r \ s) \cup (s \ r)

(* d is what is left of s when some commands are struck out.               *)
InOrder(d, s) ==
    \E at \in [1 .. Len(d) -> 1 .. Len(s)] :
       /\ \A i \in 1 .. Len(d) : d[i] = s[at[i]]
       /\ \A i, j \in 1 .. Len(d) : i < j => at[i] < at[j]

-----------------------------------------------------------------------------
Init == /\ relays = {} /\ pulsed = {} /\ sent = << >> /\ done = << >> /\ garbled = FALSE
        /\ told = [n \in {} |-> {}]

Send ==
    /\ \E c \in Commands : sent' = Append(sent, c)
    /\ UNCHANGED <<relays, pulsed, done, garbled, told>>

Does(c) ==
    /\ done' = Append(done, c)
    /\ garbled \/ InOrder(done', sent)
    /\ UNCHANGED <<sent, garbled>>

(* A frame, later than all before, that tells how the relays are.          *)
Tells ==
    \E n \in DOMAIN told' \ DOMAIN told :
       /\ \A k \in DOMAIN told : k < n
       /\ told' = [k \in DOMAIN told \cup {n} |-> IF k = n THEN relays' ELSE told[k]]

(* A command other than a pulse; its answer may tell how the relays are.   *)
Serve ==
    /\ pulsed = {}
    /\ \E c \in Commands : ~Pulses(c) /\ Does(c) /\ relays' = Apply(relays, c)
    /\ UNCHANGED told \/ Tells
    /\ UNCHANGED pulsed

PulseStarts ==
    /\ pulsed = {}
    /\ \E c \in Commands : Pulses(c) /\ pulsed' = {Named(c)} /\ relays' = Toggled(relays, pulsed')
    /\ UNCHANGED <<sent, done, garbled, told>>

PulseEnds ==
    /\ \E c \in Commands : Pulses(c) /\ pulsed = {Named(c)} /\ Does(c)
    /\ relays' = Toggled(relays, pulsed)
    /\ pulsed' = {}
    /\ UNCHANGED told

(* Unasked, but never in a pulse.                                          *)
Tell ==
    /\ pulsed = {}
    /\ UNCHANGED <<relays, pulsed, sent, done, garbled>>
    /\ Tells

StartAnew ==
    /\ relays' = {} /\ pulsed' = {}
    /\ UNCHANGED <<sent, done, garbled, told>>

LoseOrder ==
    /\ garbled' = TRUE
    /\ UNCHANGED <<relays, pulsed, sent, done, told>>

Next == Send \/ Serve \/ PulseStarts \/ PulseEnds \/ Tell \/ StartAnew \/ LoseOrder

Spec == Init /\ [][Next]_vars
=============================================================================
