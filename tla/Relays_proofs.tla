--------------------------- MODULE Relays_proofs ---------------------------
(***************************************************************************)
(* What reaches the relays, for every state of the port, every value,      *)
(* mask and bit number (the macros of RelayPort), and for all messages of  *)
(* the server, in any number and order (CloudDispatch).                    *)
(***************************************************************************)
EXTENDS CloudDispatch, TLAPS

-----------------------------------------------------------------------------
(* The register macros.                                                    *)

(* The pin assignment is its own inverse, and the bit macros' decoder      *)
(* agrees with it on relay b = register bit b - 1.                         *)
LEMMA MirrorFacts ==
    /\ \A i \in Bits : Mirror(i) \in Bits /\ Mirror(Mirror(i)) = i
    /\ \A b \in Bits : Decode(b) \in Bits /\ Decode(b) = Mirror(RelayOf(b) - 1)
                       /\ RelayOf(b) - 1 \in Bits
  BY DEF Bits, Mirror, Decode, RelayOf

(* Reading gives back what was written.                                    *)
LEMMA ReadWritten ==
    ASSUME NEW v \in SUBSET Bits
    PROVE  /\ WRITE_DIGITAL_OUTPUTS(v) \in SUBSET Bits
           /\ READ_DIGITAL_OUTPUTS(WRITE_DIGITAL_OUTPUTS(v)) = v
  BY MirrorFacts DEF READ_DIGITAL_OUTPUTS, WRITE_DIGITAL_OUTPUTS

(* The register after a masked write, as READ_DIGITAL_OUTPUTS sees it.     *)
LEMMA ReadMasked ==
    ASSUME NEW p \in SUBSET Bits, NEW v \in SUBSET Bits, NEW m \in SUBSET Bits
    PROVE  /\ WRITE_DIGITAL_OUTPUTS_MASKED(p, v, m) \in SUBSET Bits
           /\ READ_DIGITAL_OUTPUTS(WRITE_DIGITAL_OUTPUTS_MASKED(p, v, m))
                = (READ_DIGITAL_OUTPUTS(p) \ m) \cup (v \cap m)
<1>1. (READ_DIGITAL_OUTPUTS(p) \ m) \cup (v \cap m) \in SUBSET Bits
  BY DEF READ_DIGITAL_OUTPUTS
<1> QED
  BY <1>1, ReadWritten DEF WRITE_DIGITAL_OUTPUTS_MASKED

(* The register after a set or clear of one bit.                           *)
LEMMA ReadBit ==
    ASSUME NEW p \in SUBSET Bits, NEW b \in Bits
    PROVE  /\ READ_DIGITAL_OUTPUTS(SET_DIGITAL_OUTPUT_BIT(p, b))
                = READ_DIGITAL_OUTPUTS(p) \cup {RelayOf(b) - 1}
           /\ READ_DIGITAL_OUTPUTS(CLEAR_DIGITAL_OUTPUT_BIT(p, b))
                = READ_DIGITAL_OUTPUTS(p) \ {RelayOf(b) - 1}
<1>1. \A i \in Bits : Mirror(i) = Decode(b) <=> i = RelayOf(b) - 1
  BY MirrorFacts
<1>2. RelayOf(b) - 1 \in Bits
  BY MirrorFacts
<1> QED
  BY <1>1, <1>2, Zenon
     DEF READ_DIGITAL_OUTPUTS, SET_DIGITAL_OUTPUT_BIT, CLEAR_DIGITAL_OUTPUT_BIT

(* The register after one half of a pulse.                                 *)
Toggled(r, i) == IF i \in r THEN r \ {i} ELSE r \cup {i}

LEMMA ReadToggled ==
    ASSUME NEW p \in SUBSET Bits, NEW b \in Bits
    PROVE  /\ TOGGLE_DIGITAL_OUTPUT_BIT(p, b) \in SUBSET Bits
           /\ READ_DIGITAL_OUTPUTS(TOGGLE_DIGITAL_OUTPUT_BIT(p, b))
                = Toggled(READ_DIGITAL_OUTPUTS(p), RelayOf(b) - 1)
<1>1. TOGGLE_DIGITAL_OUTPUT_BIT(p, b) = IF Decode(b) \in p THEN SET_DIGITAL_OUTPUT_BIT(p, b)
                                        ELSE CLEAR_DIGITAL_OUTPUT_BIT(p, b)
  BY DEF TOGGLE_DIGITAL_OUTPUT_BIT, SET_DIGITAL_OUTPUT_BIT, CLEAR_DIGITAL_OUTPUT_BIT
<1>2. Decode(b) \in p <=> RelayOf(b) - 1 \notin READ_DIGITAL_OUTPUTS(p)
  BY MirrorFacts DEF READ_DIGITAL_OUTPUTS
<1>3. TOGGLE_DIGITAL_OUTPUT_BIT(p, b) \in SUBSET Bits
  BY MirrorFacts DEF TOGGLE_DIGITAL_OUTPUT_BIT
<1> QED
  BY <1>1, <1>2, <1>3, ReadBit DEF Toggled

(* PORTA is a set of the eight bits after every command.                   *)
THEOREM TypeCorrect == Spec => []TypeOK
<1>1. Init => TypeOK
  BY DEF Init, TypeOK
<1>2. TypeOK /\ [Next]_port => TypeOK'
  <2> SUFFICES ASSUME TypeOK, [Next]_port PROVE TypeOK'
    OBVIOUS
  <2>1. ASSUME NEW v \in Values, NEW m \in Values, WriteRegister(v, m) PROVE TypeOK'
    BY <2>1, ReadMasked, ValuesAssumption DEF ValuesAssumption, WriteRegister, TypeOK
  <2>2. ASSUME NEW b \in Bits, NEW state \in BOOLEAN, WriteRegisterBit(b, state)
        PROVE  TypeOK'
    BY <2>2, MirrorFacts
       DEF WriteRegisterBit, TypeOK, SET_DIGITAL_OUTPUT_BIT, CLEAR_DIGITAL_OUTPUT_BIT
  <2>3. ASSUME NEW b \in Bits, ToggleBit(b) PROVE TypeOK'
    BY <2>3, MirrorFacts DEF ToggleBit, TypeOK, TOGGLE_DIGITAL_OUTPUT_BIT
  <2> QED
    BY <2>1, <2>2, <2>3 DEF Next, TypeOK
<1> QED
  BY <1>1, <1>2, PTL DEF Spec

(* A masked write changes the masked relays, to the value asked for, and   *)
(* no other.                                                               *)
THEOREM MaskAlwaysRespected == Spec => MaskRespected
<1>1. TypeOK /\ [Next]_port
      => [\A v, m \in Values :
            WriteRegister(v, m) => Outputs' = (Outputs \ m) \cup (v \cap m)]_port
  <2> SUFFICES ASSUME TypeOK, NEW v \in Values, NEW m \in Values, WriteRegister(v, m)
               PROVE  Outputs' = (Outputs \ m) \cup (v \cap m)
    OBVIOUS
  <2> QED
    BY ReadMasked, ValuesAssumption DEF ValuesAssumption, WriteRegister, TypeOK, Outputs
<1> QED
  BY <1>1, TypeCorrect, PTL DEF Spec, MaskRespected

(* Bit commands 1 to 7 switch the relay of that number and no other.       *)
THEOREM BitAlwaysSwitchesRelay == Spec => []BitSwitchesRelay
<1>1. TypeOK => BitSwitchesRelay
  BY ReadBit DEF TypeOK, BitSwitchesRelay, Outputs
<1> QED
  BY <1>1, TypeCorrect, PTL

(* A pulse leaves every relay as it found it.                              *)
THEOREM PulseAlwaysRestores == Spec => []PulseRestores
<1>1. TypeOK => PulseRestores
  <2> SUFFICES ASSUME TypeOK, NEW b \in Bits
               PROVE  LET during == TOGGLE_DIGITAL_OUTPUT_BIT(port, b)
                      IN  /\ TOGGLE_DIGITAL_OUTPUT_BIT(during, b) = port
                          /\ RelayOf(b) - 1 \in Outputs
                               <=> RelayOf(b) - 1 \notin READ_DIGITAL_OUTPUTS(during)
    BY DEF PulseRestores
  <2> DEFINE during == TOGGLE_DIGITAL_OUTPUT_BIT(port, b)
  <2>1. TOGGLE_DIGITAL_OUTPUT_BIT(during, b) = port
    BY DEF TOGGLE_DIGITAL_OUTPUT_BIT
  <2>2. Decode(b) \in port <=> Decode(b) \notin during
    BY DEF TOGGLE_DIGITAL_OUTPUT_BIT
  <2> HIDE DEF during
  <2>3. RelayOf(b) - 1 \in Outputs <=> RelayOf(b) - 1 \notin READ_DIGITAL_OUTPUTS(during)
    BY <2>2, MirrorFacts DEF Outputs, READ_DIGITAL_OUTPUTS
  <2> QED
    BY <2>1, <2>3 DEF during
<1> QED
  BY <1>1, TypeCorrect, PTL

-----------------------------------------------------------------------------
(* Messages and frames.                                                    *)

LEMMA MessageFacts ==
    ASSUME NEW m \in Message, m.json = "array"
    PROVE  /\ m.elems \in Seq(Element)
           /\ \A i \in 0 .. Len(m.elems) - 1 : m.elems[i + 1] \in Element
  BY DEF Message, Object, Garbage

LEMMA ElementFacts ==
    ASSUME NEW e \in Element
    PROVE  /\ e.type \in {"int", "string", "other"} /\ e.n \in Int
           /\ \A s \in {"writeOutputRegister", "pulseRelay"} :
                 e.type = "string" /\ e.name = s => e = Str(s)
<1>1. CASE e \in [type : {"int"}, name : {""}, n : Int]
  BY <1>1
<1>2. CASE e \in [type : {"string"}, name : STRING, n : {0}]
  BY <1>2 DEF Str
<1>3. CASE e \in [type : {"string"}, name : {"digits"}, n : Int]
  BY <1>3
<1>4. CASE e = Other
  <2>1. e.type = "other" /\ e.n = 0
    BY <1>4 DEF Other
  <2> QED
    BY <2>1
<1> QED
  BY <1>1, <1>2, <1>3, <1>4 DEF Element

(* The handler accepts as a write exactly the messages that have its form. *)
LEMMA GoodWriteFacts ==
    ASSUME NEW m \in Message
    PROVE  GoodWrite(m) <=> Writes(m)
<1>1. CASE m.json = "array" /\ Len(m.elems) >= 3
  <2> DEFINE e1 == m.elems[1]
             e2 == m.elems[2]
             e3 == m.elems[3]
  <2>1. e1 \in Element /\ e2 \in Element /\ e3 \in Element
    BY <1>1, MessageFacts DEF Message
  <2>2. GoodWrite(m) <=> /\ e1.type = "string" /\ e1.name = "writeOutputRegister"
                         /\ e2.type \in {"string", "int"} /\ e2.n \in 0 .. 255
                         /\ e3.type \in {"string", "int"} /\ e3.n \in 0 .. 255
    BY <1>1, MessageFacts DEF GoodWrite, Calls, HasString, HasInt, InRange, IntAt
  <2>3. Writes(m) <=> e1 = Str("writeOutputRegister") /\ IsByte(e2) /\ IsByte(e3)
    BY <1>1 DEF Writes
  <2> HIDE DEF e1, e2, e3
  <2>4. e1.type = "string" /\ e1.name = "writeOutputRegister"
           <=> e1 = Str("writeOutputRegister")
    BY <2>1, ElementFacts DEF Str
  <2>5. \A e \in Element : e.type \in {"string", "int"} /\ e.n \in 0 .. 255 <=> IsByte(e)
    BY ElementFacts DEF IsByte
  <2> QED
    BY <2>1, <2>2, <2>3, <2>4, <2>5
<1>2. CASE ~(m.json = "array" /\ Len(m.elems) >= 3)
  BY <1>2, MessageFacts DEF GoodWrite, HasInt, Writes
<1> QED
  BY <1>1, <1>2

(* One that it accepts as a pulse is no write, and names a bit of 0 .. 255.*)
LEMMA GoodPulseFacts ==
    ASSUME NEW m \in Message, GoodPulse(m)
    PROVE  ~Writes(m) /\ IntAt(m, 1) \in 0 .. 255
  BY DEF GoodPulse, Calls, Writes, Str, InRange

LEMMA ByteFacts == \A n \in 0 .. 255 : uint8(n) = n
  BY DEF uint8

(* What message m asks of register bit i: whether it writes the bit, and   *)
(* the value.                                                              *)
Hits(i, m) == Writes(m) /\ (m.elems[3].n \div 2^i) % 2 = 1
Value(i, m) == (m.elems[2].n \div 2^i) % 2 = 1

LEMMA EffectBits ==
    ASSUME NEW ms, NEW i \in Bits
    PROVE  i \in Effect(ms) <=> \E k \in DOMAIN ms :
                                   /\ Hits(i, ms[k]) /\ Value(i, ms[k])
                                   /\ \A j \in DOMAIN ms : Hits(i, ms[j]) => j <= k
  BY DEF Effect, WritesTo, Hits, Value, Bits

(* One more message decides the bits that it writes and leaves the others. *)
LEMMA EffectOfOneMore ==
    ASSUME NEW ms \in Seq(Message), NEW m \in Message, NEW i \in Bits
    PROVE  i \in Effect(Append(ms, m))
              <=> IF Hits(i, m) THEN Value(i, m) ELSE i \in Effect(ms)
<1> DEFINE all == Append(ms, m)
           n == Len(ms)
<1>1. /\ n \in Nat /\ DOMAIN ms = 1 .. n /\ DOMAIN all = 1 .. n + 1 /\ all[n + 1] = m
      /\ \A k \in 1 .. n : all[k] = ms[k]
  OBVIOUS
<1> HIDE DEF all, n
<1>2. \A k \in 1 .. n + 1 : k = n + 1 \/ k \in 1 .. n
  BY <1>1
<1>3. \A k \in 1 .. n : k \in 1 .. n + 1 /\ ~(n + 1 <= k)
  BY <1>1
<1>4. i \in Effect(all) <=> \E k \in 1 .. n + 1 :
                               /\ Hits(i, all[k]) /\ Value(i, all[k])
                               /\ \A j \in 1 .. n + 1 : Hits(i, all[j]) => j <= k
  BY <1>1, EffectBits
<1>5. i \in Effect(ms) <=> \E k \in 1 .. n :
                               /\ Hits(i, ms[k]) /\ Value(i, ms[k])
                               /\ \A j \in 1 .. n : Hits(i, ms[j]) => j <= k
  BY <1>1, EffectBits
<1>6. n + 1 \in 1 .. n + 1 /\ \A j \in 1 .. n + 1 : j <= n + 1
  BY <1>1
<1>7. CASE Hits(i, m)
  BY <1>1, <1>2, <1>3, <1>4, <1>6, <1>7 DEF all
<1>8. CASE ~Hits(i, m)
  BY <1>1, <1>2, <1>3, <1>4, <1>5, <1>8 DEF all
<1> QED
  BY <1>7, <1>8

LEMMA EffectType == \A ms : Effect(ms) \subseteq Bits
  BY DEF Effect, Bits

(* So the effect after one more message depends on what was said before    *)
(* only by its effect, and on a message that does not write not at all.    *)
LEMMA EffectAlike ==
    ASSUME NEW s \in Seq(Message), NEW t \in Seq(Message), NEW m \in Message,
           Effect(s) = Effect(t)
    PROVE  Effect(Append(s, m)) = Effect(Append(t, m))
  BY EffectOfOneMore, EffectType

LEMMA EffectOfOther ==
    ASSUME NEW s \in Seq(Message), NEW m \in Message, ~Writes(m)
    PROVE  Effect(Append(s, m)) = Effect(s)
<1>1. \A i \in Bits : ~Hits(i, m)
  BY DEF Hits
<1> QED
  BY <1>1, EffectOfOneMore, EffectType

LEMMA EffectOfWrite ==
    ASSUME NEW s \in Seq(Message), NEW m \in Message, Writes(m)
    PROVE  Effect(Append(s, m))
              = (Effect(s) \ BitsOf(IntAt(m, 2))) \cup (BitsOf(IntAt(m, 1)) \cap BitsOf(IntAt(m, 2)))
<1>1. \A i \in Bits : /\ Hits(i, m) <=> i \in BitsOf(IntAt(m, 2))
                      /\ Value(i, m) <=> i \in BitsOf(IntAt(m, 1))
  BY DEF Hits, Value, BitsOf, IntAt
<1>2. BitsOf(IntAt(m, 1)) \subseteq Bits /\ BitsOf(IntAt(m, 2)) \subseteq Bits
  BY DEF BitsOf
<1> QED
  BY <1>1, <1>2, EffectOfOneMore, EffectType

LEMMA EffectOfNone == Effect(<< >>) = {}
  BY DEF Effect, WritesTo

-----------------------------------------------------------------------------
(* The dispatcher and the AVR.                                             *)

(* A frame of the line and the message it was made of: a frame that writes *)
(* says what its message says, and only a message that is no write makes a *)
(* pulse.                                                                  *)
WriteFrames ==
    {[type |-> "WRITE", from |-> m, value |-> BitsOf(IntAt(m, 1)), mask |-> BitsOf(IntAt(m, 2))] :
        m \in {x \in Message : Writes(x)}}

PulseFrames ==
    {[type |-> "PULSE", bit |-> IntAt(m, 1), from |-> m] :
        m \in {x \in Message : ~Writes(x) /\ IntAt(x, 1) \in Bits}}

LineFrames == WriteFrames \cup PulseFrames

LEMMA FrameFacts ==
    ASSUME NEW f \in LineFrames
    PROVE  /\ f # None /\ f.from \in Message
           /\ f.type = "WRITE" => /\ Writes(f.from)
                                  /\ f.value = BitsOf(IntAt(f.from, 1))
                                  /\ f.mask = BitsOf(IntAt(f.from, 2))
                                  /\ f.value \in SUBSET Bits /\ f.mask \in SUBSET Bits
           /\ f.type = "PULSE" => /\ f \in PulseFrames /\ ~Writes(f.from)
                                  /\ f.bit = IntAt(f.from, 1) /\ f.bit \in Bits
<1>1. CASE f \in WriteFrames
  BY <1>1 DEF WriteFrames, None, BitsOf
<1>2. CASE f \in PulseFrames
  BY <1>2 DEF PulseFrames, None
<1> QED
  BY <1>1, <1>2 DEF LineFrames

(* The messages of the frames fs, and of what is not carried out yet.      *)
Origins(fs) == [k \in DOMAIN fs |-> fs[k].from]
Begun == IF pulse = None THEN << >> ELSE <<pulse.from>>
Pending == Begun \o Origins(frames)

CloudTypes ==
    /\ port \in SUBSET Bits
    /\ frames \in Seq(LineFrames)
    /\ pulse \in PulseFrames \cup {None}
    /\ said \in Seq(Message) /\ done \in Seq(Message)

(* What the messages carried out have made of the relays, with the pulse   *)
(* that the AVR is in on top of it.                                        *)
RelaysAsDone ==
    Outputs = IF pulse = None THEN Effect(done)
              ELSE Toggled(Effect(done), RelayOf(pulse.bit) - 1)

(* And what is pending will make of it what was said.                      *)
PendingAsSaid == Effect(done \o Pending) = Effect(said)

CloudInv == CloudTypes /\ RelaysAsDone /\ PendingAsSaid

LEMMA OriginsFacts ==
    ASSUME NEW fs \in Seq(LineFrames)
    PROVE  /\ Origins(fs) \in Seq(Message)
           /\ \A f \in LineFrames : Origins(Append(fs, f)) = Append(Origins(fs), f.from)
           /\ fs # << >> => /\ Head(fs) \in LineFrames /\ Tail(fs) \in Seq(LineFrames)
                            /\ Origins(fs) # << >>
                            /\ Head(Origins(fs)) = Head(fs).from
                            /\ Tail(Origins(fs)) = Origins(Tail(fs))
<1>1. Origins(fs) \in Seq(Message) /\ Len(Origins(fs)) = Len(fs)
      /\ \A k \in 1 .. Len(fs) : Origins(fs)[k] = fs[k].from
  BY FrameFacts DEF Origins
<1>2. ASSUME NEW f \in LineFrames PROVE Origins(Append(fs, f)) = Append(Origins(fs), f.from)
  BY <1>1 DEF Origins
<1>3. ASSUME fs # << >>
      PROVE  /\ Head(fs) \in LineFrames /\ Tail(fs) \in Seq(LineFrames)
             /\ Origins(fs) # << >>
             /\ Head(Origins(fs)) = Head(fs).from
             /\ Tail(Origins(fs)) = Origins(Tail(fs))
  BY <1>1, <1>3 DEF Origins
<1> QED
  BY <1>1, <1>2, <1>3

LEMMA AppendConcat ==
    ASSUME NEW T, NEW s \in Seq(T), NEW t \in Seq(T), NEW x \in T
    PROVE  /\ s \o t \in Seq(T)
           /\ s \o Append(t, x) = Append(s \o t, x)
           /\ Append(s, x) \o t = s \o (<<x>> \o t)
<1>1. s \o t \in Seq(T)
  OBVIOUS
<1>2. s \o Append(t, x) = Append(s \o t, x)
  OBVIOUS
<1>3. Append(s, x) \o t = s \o (<<x>> \o t)
  OBVIOUS
<1> QED
  BY <1>1, <1>2, <1>3

LEMMA MoveHead ==
    ASSUME NEW T, NEW s \in Seq(T), NEW t \in Seq(T), t # << >>
    PROVE  /\ Append(s, Head(t)) \o Tail(t) = s \o t
           /\ <<Head(t)>> \o Tail(t) = t
           /\ << >> \o t = t
<1>1. Append(s, Head(t)) \o Tail(t) = s \o t
  OBVIOUS
<1>2. <<Head(t)>> \o Tail(t) = t
  OBVIOUS
<1>3. << >> \o t = t
  OBVIOUS
<1> QED
  BY <1>1, <1>2, <1>3

LEMMA PendingTypes ==
    ASSUME CloudTypes
    PROVE  /\ Begun \in Seq(Message) /\ Origins(frames) \in Seq(Message)
           /\ Pending \in Seq(Message) /\ done \o Pending \in Seq(Message)
<1>1. Begun \in Seq(Message)
  BY FrameFacts DEF CloudTypes, Begun, LineFrames
<1>2. Origins(frames) \in Seq(Message)
  BY OriginsFacts DEF CloudTypes
<1>3. \A s, t \in Seq(Message) : s \o t \in Seq(Message)
  OBVIOUS
<1> QED
  BY <1>1, <1>2, <1>3 DEF CloudTypes, Pending

(* A message is dispatched.                                                *)
LEMMA DispatchKeeps ==
    ASSUME CloudInv, NEW m \in Message, Says(m),
           \/ frames' = frames /\ ~Writes(m)
           \/ \E f \in LineFrames : f.from = m /\ frames' = Append(frames, f)
    PROVE  CloudInv'
<1>1. /\ port' = port /\ pulse' = pulse /\ done' = done /\ said' = Append(said, m)
      /\ said \in Seq(Message) /\ done \in Seq(Message) /\ frames \in Seq(LineFrames)
      /\ Effect(done \o Pending) = Effect(said)
  BY DEF Says, CloudInv, CloudTypes, PendingAsSaid
<1>2. /\ Begun \in Seq(Message) /\ Origins(frames) \in Seq(Message)
      /\ Pending \in Seq(Message) /\ done \o Pending \in Seq(Message)
  BY PendingTypes DEF CloudInv
<1>3. frames' \in Seq(LineFrames)
  <2>1. \A f \in LineFrames : Append(frames, f) \in Seq(LineFrames)
    BY <1>1
  <2> QED
    BY <1>1, <2>1
<1>4. CloudTypes'
  BY <1>1, <1>3 DEF CloudInv, CloudTypes
<1>5. RelaysAsDone'
  BY <1>1 DEF CloudInv, RelaysAsDone, Outputs
<1>6. CASE frames' = frames /\ ~Writes(m)
  <2>1. Pending' = Pending
    BY <1>1, <1>6 DEF Pending, Begun
  <2>2. Effect(said') = Effect(said)
    BY <1>1, <1>6, EffectOfOther
  <2> QED
    BY <1>1, <1>4, <1>5, <2>1, <2>2 DEF CloudInv, PendingAsSaid
<1>7. CASE \E f \in LineFrames : f.from = m /\ frames' = Append(frames, f)
  <2>1. Origins(frames') = Append(Origins(frames), m)
    BY <1>1, <1>7, OriginsFacts
  <2>2. \A s, t \in Seq(Message) : s \o Append(t, m) = Append(s \o t, m)
    BY AppendConcat
  <2>3. Pending' = Append(Pending, m)
    <3>1. Begun \o Append(Origins(frames), m) = Append(Begun \o Origins(frames), m)
      BY <1>2, <2>2, Zenon
    <3>2. Begun' = Begun
      BY <1>1 DEF Begun
    <3> QED
      BY <2>1, <3>1, <3>2 DEF Pending
  <2>4. done \o Append(Pending, m) = Append(done \o Pending, m)
    BY <1>1, <1>2, <2>2, Zenon
  <2>5. Effect(Append(done \o Pending, m)) = Effect(Append(said, m))
    BY <1>1, <1>2, EffectAlike
  <2> QED
    BY <1>1, <1>4, <1>5, <2>3, <2>4, <2>5 DEF CloudInv, PendingAsSaid
<1> QED
  BY <1>6, <1>7

(* What dispatch_msg sends is a frame of the line that keeps its message.  *)
LEMMA DispatchSends ==
    ASSUME NEW m \in Message, PulseRelay(m) \/ WriteOutputRegister(m) \/ NoFrame(m)
    PROVE  /\ Says(m)
           /\ \/ frames' = frames /\ ~Writes(m)
              \/ \E f \in LineFrames : f.from = m /\ frames' = Append(frames, f)
<1>1. CASE PulseRelay(m)
  <2>1. ~Writes(m) /\ IntAt(m, 1) \in 0 .. 255 /\ uint8(IntAt(m, 1)) = IntAt(m, 1)
    BY <1>1, GoodPulseFacts, ByteFacts DEF PulseRelay
  <2>2. CASE IntAt(m, 1) > 7
    BY <1>1, <2>1, <2>2 DEF PulseRelay
  <2>3. CASE ~(IntAt(m, 1) > 7)
    <3> DEFINE f == [type |-> "PULSE", bit |-> IntAt(m, 1), from |-> m]
    <3>1. IntAt(m, 1) \in Bits
      BY <2>1, <2>3 DEF Bits
    <3>2. f \in LineFrames /\ f.from = m
      BY <2>1, <3>1 DEF LineFrames, PulseFrames
    <3>3. frames' = Append(frames, f)
      BY <1>1, <2>1, <2>3 DEF PulseRelay
    <3> QED
      BY <1>1, <3>2, <3>3 DEF PulseRelay
  <2> QED
    BY <2>2, <2>3
<1>2. CASE WriteOutputRegister(m)
  <2> DEFINE f == [type |-> "WRITE", from |-> m, value |-> BitsOf(IntAt(m, 1)),
                   mask |-> BitsOf(IntAt(m, 2))]
  <2>1. Writes(m)
    BY <1>2, GoodWriteFacts DEF WriteOutputRegister
  <2>2. uint8(IntAt(m, 1)) = IntAt(m, 1) /\ uint8(IntAt(m, 2)) = IntAt(m, 2)
    BY <1>2, ByteFacts DEF WriteOutputRegister, GoodWrite, InRange
  <2>3. f \in LineFrames /\ f.from = m
    BY <2>1 DEF LineFrames, WriteFrames
  <2>4. frames' = Append(frames, f)
    BY <1>2, <2>2 DEF WriteOutputRegister
  <2> QED
    BY <1>2, <2>3, <2>4 DEF WriteOutputRegister
<1>3. CASE NoFrame(m)
  BY <1>3, GoodWriteFacts DEF NoFrame
<1> QED
  BY <1>1, <1>2, <1>3

LEMMA Written ==
    ASSUME port \in SUBSET Bits, NEW v \in SUBSET Bits, NEW m \in SUBSET Bits,
           WriteRegister(v, m)
    PROVE  port' \in SUBSET Bits /\ Outputs' = (Outputs \ m) \cup (v \cap m)
<1>1. port' = WRITE_DIGITAL_OUTPUTS_MASKED(port, v, m)
  BY DEF WriteRegister
<1>2. port' \in SUBSET Bits
  BY <1>1, ReadMasked
<1>3. Outputs' = READ_DIGITAL_OUTPUTS(port') /\ Outputs = READ_DIGITAL_OUTPUTS(port)
  BY DEF Outputs
<1>4. READ_DIGITAL_OUTPUTS(port') = (READ_DIGITAL_OUTPUTS(port) \ m) \cup (v \cap m)
  BY <1>1, ReadMasked
<1> QED
  BY <1>2, <1>3, <1>4

(* A write is carried out: the relays follow its message.                  *)
LEMMA WriteKeeps ==
    ASSUME CloudInv, AvrWrite
    PROVE  CloudInv'
<1> DEFINE f == Head(frames)
<1>1. /\ pulse = None /\ pulse' = pulse /\ frames # << >> /\ f.type = "WRITE"
      /\ frames' = Tail(frames) /\ done' = Append(done, f.from) /\ said' = said
      /\ port' = WRITE_DIGITAL_OUTPUTS_MASKED(port, f.value, f.mask)
  BY DEF AvrWrite, NextFrame, WriteRegister
<1>2. /\ said \in Seq(Message) /\ done \in Seq(Message) /\ frames \in Seq(LineFrames)
      /\ port \in SUBSET Bits
  BY DEF CloudInv, CloudTypes
<1>3. f \in LineFrames /\ Tail(frames) \in Seq(LineFrames)
  BY <1>1, <1>2
<1> HIDE DEF f
<1>4. /\ f.from \in Message /\ Writes(f.from)
      /\ f.value = BitsOf(IntAt(f.from, 1)) /\ f.mask = BitsOf(IntAt(f.from, 2))
      /\ f.value \in SUBSET Bits /\ f.mask \in SUBSET Bits
  BY <1>1, <1>3, FrameFacts
<1>5. done' \in Seq(Message)
  BY <1>1, <1>2, <1>4
<1>6. port' \in SUBSET Bits /\ Outputs' = (Outputs \ f.mask) \cup (f.value \cap f.mask)
  <2>1. WriteRegister(f.value, f.mask)
    BY DEF AvrWrite, f
  <2>2. f.value \in SUBSET Bits /\ f.mask \in SUBSET Bits
    BY <1>4
  <2> QED
    BY <1>2, <2>1, <2>2, Written
<1>7. CloudTypes'
  BY <1>1, <1>2, <1>3, <1>5, <1>6 DEF CloudInv, CloudTypes
<1>8. Effect(done') = (Effect(done) \ f.mask) \cup (f.value \cap f.mask)
  BY <1>1, <1>2, <1>4, EffectOfWrite
<1>9. RelaysAsDone'
  BY <1>1, <1>6, <1>8 DEF CloudInv, RelaysAsDone
<1>10. /\ Origins(frames) \in Seq(Message) /\ Origins(frames) # << >>
       /\ Head(Origins(frames)) = f.from /\ Tail(Origins(frames)) = Origins(frames')
  BY <1>1, <1>2, OriginsFacts DEF f
<1>11. Append(done, f.from) \o Origins(frames') = done \o Origins(frames)
  <2>1. Append(done, Head(Origins(frames))) \o Tail(Origins(frames)) = done \o Origins(frames)
    BY <1>2, <1>10, MoveHead
  <2> QED
    BY <1>10, <2>1
<1>12. Pending = Origins(frames) /\ Pending' = Origins(frames')
  <2>1. Begun = << >> /\ Begun' = << >>
    BY <1>1 DEF Begun
  <2>2. Origins(frames') \in Seq(Message)
    BY <1>10
  <2>3. \A s \in Seq(Message) : << >> \o s = s
    OBVIOUS
  <2> QED
    BY <1>10, <2>1, <2>2, <2>3 DEF Pending
<1> QED
  BY <1>1, <1>7, <1>9, <1>11, <1>12 DEF CloudInv, PendingAsSaid

(* A pulse begins.                                                         *)
LEMMA PulseKeeps ==
    ASSUME CloudInv, AvrPulse
    PROVE  CloudInv'
<1> DEFINE f == Head(frames)
<1>1. /\ pulse = None /\ pulse' = f /\ frames # << >> /\ f.type = "PULSE"
      /\ frames' = Tail(frames) /\ done' = done /\ said' = said
      /\ port' = TOGGLE_DIGITAL_OUTPUT_BIT(port, f.bit)
  BY DEF AvrPulse, NextFrame, ToggleBit
<1>2. /\ said \in Seq(Message) /\ done \in Seq(Message) /\ frames \in Seq(LineFrames)
      /\ port \in SUBSET Bits
  BY DEF CloudInv, CloudTypes
<1>3. f \in LineFrames /\ Tail(frames) \in Seq(LineFrames)
  BY <1>1, <1>2
<1> HIDE DEF f
<1>4. f.from \in Message /\ f # None /\ f \in PulseFrames /\ f.bit \in Bits
  BY <1>1, <1>3, FrameFacts
<1>5. port' \in SUBSET Bits /\ Outputs' = Toggled(Outputs, RelayOf(f.bit) - 1)
  BY <1>1, <1>2, <1>4, ReadToggled DEF Outputs
<1>6. CloudTypes'
  BY <1>1, <1>2, <1>3, <1>4, <1>5 DEF CloudInv, CloudTypes
<1>7. RelaysAsDone'
  BY <1>1, <1>4, <1>5 DEF CloudInv, RelaysAsDone
<1>8. /\ Origins(frames) \in Seq(Message) /\ Origins(frames) # << >>
      /\ Head(Origins(frames)) = f.from /\ Tail(Origins(frames)) = Origins(frames')
  BY <1>1, <1>2, OriginsFacts DEF f
<1>9. /\ << >> \o Origins(frames) = Origins(frames)
      /\ <<f.from>> \o Origins(frames') = Origins(frames)
  BY <1>2, <1>8, MoveHead
<1>10. Begun = << >> /\ Begun' = <<f.from>>
  BY <1>1, <1>4 DEF Begun
<1>11. Pending' = Pending
  BY <1>9, <1>10 DEF Pending
<1> QED
  BY <1>1, <1>6, <1>7, <1>11 DEF CloudInv, PendingAsSaid

(* It ends, and leaves no trace.                                           *)
LEMMA PulseEndKeeps ==
    ASSUME CloudInv, AvrPulseEnd
    PROVE  CloudInv'
<1> DEFINE i == RelayOf(pulse.bit) - 1
<1>1. /\ pulse # None /\ pulse' = None /\ frames' = frames /\ said' = said
      /\ done' = Append(done, pulse.from)
      /\ port' = TOGGLE_DIGITAL_OUTPUT_BIT(port, pulse.bit)
  BY DEF AvrPulseEnd, ToggleBit
<1>2. /\ said \in Seq(Message) /\ done \in Seq(Message) /\ frames \in Seq(LineFrames)
      /\ port \in SUBSET Bits /\ pulse \in PulseFrames
  BY <1>1 DEF CloudInv, CloudTypes
<1>3. /\ pulse.from \in Message /\ ~Writes(pulse.from) /\ pulse.bit \in Bits
  BY <1>2 DEF PulseFrames
<1>4. port' \in SUBSET Bits /\ Outputs' = Toggled(Outputs, i)
  BY <1>1, <1>2, <1>3, ReadToggled DEF Outputs
<1>5. done' \in Seq(Message) /\ Effect(done') = Effect(done)
  BY <1>1, <1>2, <1>3, EffectOfOther
<1>6. CloudTypes'
  BY <1>1, <1>2, <1>4, <1>5 DEF CloudInv, CloudTypes
<1>7. RelaysAsDone'
  <2>1. Outputs = Toggled(Effect(done), i)
    BY <1>1 DEF CloudInv, RelaysAsDone
  <2>2. Toggled(Toggled(Effect(done), i), i) = Effect(done)
    BY DEF Toggled
  <2> HIDE DEF i
  <2> QED
    BY <1>1, <1>4, <1>5, <2>1, <2>2 DEF RelaysAsDone
<1>8. Origins(frames) \in Seq(Message)
  BY <1>2, OriginsFacts
<1>9. Append(done, pulse.from) \o Origins(frames) = done \o (<<pulse.from>> \o Origins(frames))
  <2>1. \A s, t \in Seq(Message), m \in Message : Append(s, m) \o t = s \o (<<m>> \o t)
    BY AppendConcat
  <2>2. done \in Seq(Message) /\ pulse.from \in Message
    BY <1>2, <1>3
  <2> QED
    BY <1>8, <2>1, <2>2, Zenon
<1>10. /\ Pending = <<pulse.from>> \o Origins(frames)
       /\ Pending' = Origins(frames)
  <2>1. << >> \o Origins(frames) = Origins(frames)
    BY <1>8
  <2>2. Begun = <<pulse.from>> /\ Begun' = << >>
    BY <1>1 DEF Begun
  <2> QED
    BY <1>1, <2>1, <2>2 DEF Pending
<1> QED
  BY <1>1, <1>6, <1>7, <1>9, <1>10 DEF CloudInv, PendingAsSaid

LEMMA CloudInvHolds == CloudSpec => []CloudInv
<1>1. CloudInit => CloudInv
  <2> SUFFICES ASSUME CloudInit PROVE CloudInv
    OBVIOUS
  <2>1. /\ port = Bits /\ frames = << >> /\ pulse = None /\ said = << >> /\ done = << >>
    BY DEF CloudInit, Init
  <2>2. Outputs = {}
    BY <2>1, MirrorFacts DEF Outputs, READ_DIGITAL_OUTPUTS
  <2>3. done \o Pending = said
    BY <2>1 DEF Pending, Begun, Origins
  <2> QED
    BY <2>1, <2>2, <2>3, EffectOfNone DEF CloudInv, CloudTypes, RelaysAsDone, PendingAsSaid
<1>2. CloudInv /\ [CloudNext]_vars => CloudInv'
  <2> SUFFICES ASSUME CloudInv, [CloudNext]_vars PROVE CloudInv'
    OBVIOUS
  <2>1. CASE dispatch_msg
    <3>1. PICK m \in Messages : PulseRelay(m) \/ WriteOutputRegister(m) \/ NoFrame(m)
      BY <2>1 DEF dispatch_msg
    <3>2. m \in Message
      BY CloudAssumption DEF CloudAssumption
    <3> QED
      BY <3>1, <3>2, DispatchSends, DispatchKeeps
  <2>2. CASE AvrWrite
    BY <2>2, WriteKeeps
  <2>3. CASE AvrPulse
    BY <2>3, PulseKeeps
  <2>4. CASE AvrPulseEnd
    BY <2>4, PulseEndKeeps
  <2>5. CASE UNCHANGED vars
    BY <2>5 DEF vars, CloudInv, CloudTypes, RelaysAsDone, PendingAsSaid, Pending, Begun,
                Origins, Outputs
  <2> QED
    BY <2>1, <2>2, <2>3, <2>4, <2>5 DEF CloudNext
<1> QED
  BY <1>1, <1>2, PTL DEF CloudSpec

(* When everything the server said has reached the relays, they are as the *)
(* well formed writes among its messages make them, whatever malformed     *)
(* messages, pulses and refused ones came in between; and in a pulse the   *)
(* relay it names, and no other, is switched on top of that.               *)
THEOREM OutputsAlwaysAsSaid == CloudSpec => []OutputsAsSaid
<1>1. CloudInv => OutputsAsSaid
  <2> SUFFICES ASSUME CloudInv PROVE OutputsAsSaid
    OBVIOUS
  <2>1. ASSUME frames = << >>, pulse = None PROVE Outputs = Effect(said)
    <3>1. done \in Seq(Message)
      BY DEF CloudInv, CloudTypes
    <3>2. Pending = << >>
      BY <2>1 DEF Pending, Begun, Origins
    <3>3. done \o Pending = done
      BY <3>1, <3>2
    <3> QED
      BY <2>1, <3>3 DEF CloudInv, RelaysAsDone, PendingAsSaid
  <2>2. ASSUME pulse # None
        PROVE  Outputs = Toggled(Effect(done), IF IntAt(pulse.from, 1) = 0 THEN 4
                                               ELSE IntAt(pulse.from, 1) - 1)
    <3>1. pulse.bit = IntAt(pulse.from, 1) /\ pulse.bit \in Bits
      BY <2>2 DEF CloudInv, CloudTypes, PulseFrames
    <3>2. RelayOf(pulse.bit) - 1 = IF IntAt(pulse.from, 1) = 0 THEN 4
                                   ELSE IntAt(pulse.from, 1) - 1
      BY <3>1 DEF RelayOf, Bits
    <3> QED
      BY <2>2, <3>2 DEF CloudInv, RelaysAsDone
  <2> QED
    BY <2>1, <2>2 DEF OutputsAsSaid, Toggled
<1> QED
  BY <1>1, CloudInvHolds, PTL
=============================================================================
