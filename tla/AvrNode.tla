------------------------------ MODULE AvrNode ------------------------------
(***************************************************************************)
(* The firmware as the router sees it: frames arrive byte by byte over the *)
(* serial line, the receive interrupt stores them in the ring buffer, and  *)
(* every 100 ms the main loop calls MsgProcessor::poll, which assembles at *)
(* most one command in m_msgBuf, carries it out, answers it, and then      *)
(* reports changed registers to their subscribers.  The answers are built  *)
(* in the same m_msgBuf the next command is being assembled in.            *)
(*                                                                         *)
(* The bytes on the line are those of Frames.  An interrupt inside a       *)
(* pop_front leaves m_size behind the stored bytes; SerialRx shows how,    *)
(* access by access, and here such a pop is one step, ReadByteStruck.      *)
(***************************************************************************)
EXTENDS Frames

CONSTANTS RxCapacity,  \* of s_rx_buffer, 128 in the firmware
          Commands,    \* the frames the router may send
          Optos,       \* bound: the opto-inputs that change
          MaxSend,     \* bound: commands sent
          MaxDrop,     \* bound: bytes lost to parity errors, failed writes
          MaxInputs,   \* bound: changes of an opto-input
          MaxReset,    \* bound: resets of the AVR
          MaxBehind,   \* bound: stored bytes that m_size does not count
          Strays       \* bound: bytes read out of a storage without order

ASSUME NodeAssumption ==
    /\ RxCapacity \in 1 .. 255
    /\ Commands \subseteq Frame
    /\ Optos \subseteq 1 .. 8
    /\ MaxSend \in Nat /\ MaxDrop \in Nat /\ MaxInputs \in Nat /\ MaxReset \in Nat
    /\ MaxBehind \in Nat /\ Strays \subseteq BytesOf(Commands)

VARIABLES wire,       \* bytes on their way to the AVR
          rx,         \* what is stored in s_rx_buffer and not read
          behind,     \* the last bytes of rx that its m_size does not count
          mixed,      \* the bytes in its storage are no longer in their order
          garbled,    \* ghost: they were not, at some time
          mb,         \* m_msgBuf
          pc,         \* where the main loop is
          port,       \* PORTA, the relays
          opto,       \* the opto-inputs 1..8 that carry current
          sIn, sOut,  \* s_input, s_output: the subscriptions
          cmd,        \* the command get_bytes returned
          tx,         \* frames written to the serial line
          sent, done, \* ghosts: commands sent by the router, carried out here
          boot,       \* ghost: resets of the AVR, and frames written before
          drops, overflow, clobbers, changes  \* ghosts: what went wrong, or on

line == <<wire, sent>>
subs == <<sIn, sOut>>
drift == <<behind, mixed, garbled>>
history == <<boot, drops, overflow, clobbers, changes>>
vars == <<wire, rx, drift, mb, pc, port, opto, sIn, sOut, cmd, tx, sent, done, history>>

Relays == INSTANCE RelayPort WITH Values <- {}

-----------------------------------------------------------------------------
Nothing == [type |-> "NONE"]

(* The optocouplers pull their pins low; the table in avr_init says where. *)
Pinc(on) == {p \in 2 .. 7 : CASE p = 3 -> 3 \notin on
                              [] p = 2 -> 4 \notin on
                              [] OTHER -> p + 1 \notin on}
Pind(on) == {p \in {5, 7} : IF p = 5 THEN 1 \notin on ELSE 2 \notin on}

Inputs  == Relays!READ_DIGITAL_INPUTS(Pinc(opto), Pind(opto))
Outputs == Relays!READ_DIGITAL_OUTPUTS(port)

Unsubscribed == [on |-> FALSE, value |-> {}]

(* What the router is told of the outputs, in answers and notifications,   *)
(* by the number of the frame that says so.                                *)
AboutOutputs == {k \in DOMAIN tx : tx[k].type \in {"WRITE", "SUBSCRIBE"} /\ tx[k].reg = "OUT"}
Told == [k \in AboutOutputs |-> tx[k].value]

Service == INSTANCE RelayService
             WITH relays <- Outputs, told <- Told,
                  pulsed <- IF pc = "pulse" THEN {Relays!RelayOf(cmd.bit) - 1} ELSE {}

-----------------------------------------------------------------------------
Init ==
    /\ wire = << >> /\ rx = << >> /\ mb = << >>
    /\ behind = 0 /\ mixed = FALSE /\ garbled = FALSE
    /\ pc = "idle"
    /\ Relays!Init
    /\ opto = {}
    /\ sIn = Unsubscribed /\ sOut = Unsubscribed
    /\ cmd = Nothing
    /\ tx = << >> /\ sent = << >> /\ done = << >>
    /\ boot = [n |-> 0, tx |-> 0]
    /\ drops = 0 /\ overflow = FALSE /\ clobbers = 0 /\ changes = 0

(* sp_write on the router: the frame and the extra '\n'.                   *)
RouterSend ==
    /\ Len(sent) < MaxSend
    /\ \E f \in Commands :
          /\ wire' = Append(wire \o FrameBytes(f), Newline)
          /\ sent' = Append(sent, f)
    /\ UNCHANGED <<rx, drift, mb, pc, port, opto, subs, cmd, tx, done, history>>

(* A write that fails ends sp_write after k bytes, with the command given   *)
(* up, or without the extra '\n', which sp_write does not look at.         *)
RouterWriteFails ==
    /\ Len(sent) < MaxSend
    /\ drops < MaxDrop
    /\ drops' = drops + 1
    /\ \E f \in Commands, k \in 0 .. FrameLen :
          /\ wire' = wire \o SubSeq(FrameBytes(f), 1, k)
          /\ sent' = IF k = FrameLen THEN Append(sent, f) ELSE sent
    /\ UNCHANGED <<rx, drift, mb, pc, port, opto, subs, cmd, tx, done,
                   boot, overflow, clobbers, changes>>

(* The daemon starts again: sp_init's tcflush throws away what is written  *)
(* and not yet on the line.                                                *)
RouterStarts ==
    /\ drops < MaxDrop
    /\ drops' = drops + 1
    /\ \E k \in 0 .. Len(wire) - 1 : wire' = SubSeq(wire, 1, k)
    /\ UNCHANGED <<rx, drift, mb, pc, port, opto, subs, cmd, tx, sent, done,
                   boot, overflow, clobbers, changes>>

RouterNext == RouterSend \/ RouterWriteFails \/ RouterStarts

(* The supply fails, or dips below what the brown-out fuse allows, and the *)
(* AVR starts anew: avr_init, empty buffers, no subscriptions.  What is on *)
(* the line by then is lost.  A frame that is being written is taken to    *)
(* be written first.                                                       *)
Restart(p) ==
    /\ boot.n < MaxReset
    /\ boot' = [n |-> boot.n + 1, tx |-> Len(tx)]
    /\ \E k \in 0 .. Len(wire) : wire' = SubSeq(wire, k + 1, Len(wire))
    /\ rx' = << >> /\ mb' = << >>
    /\ behind' = 0 /\ mixed' = FALSE
    /\ pc' = "idle" /\ cmd' = Nothing
    /\ port' = p
    /\ sIn' = Unsubscribed /\ sOut' = Unsubscribed
    /\ UNCHANGED <<opto, tx, sent, done, garbled, drops, overflow, clobbers, changes>>

(* Faulty variant: avr_init makes the pins outputs, and leaves PORTA 0.    *)
ResetAllOn == Restart({})

Reset == Restart(Relays!Bits)

(* push_back of the interrupt: the byte goes into the storage, over the    *)
(* oldest one when that is full.  If m_size is behind by then, m_first     *)
(* stays on the new byte, before all the older ones.                       *)
Store(b) ==
    LET full == Len(rx) = RxCapacity
        lost == full /\ behind > 0
    IN  /\ rx' = Deque!PushOver(RxCapacity, rx, b)
        /\ overflow' = (overflow \/ full)
        /\ behind' = IF lost THEN behind - 1 ELSE behind
        /\ mixed' = (mixed \/ lost)
        /\ garbled' = (garbled \/ lost)

(* USART_RXC_vect, not inside a pop_front.                                 *)
UsartRx ==
    /\ wire # << >>
    /\ wire' = Tail(wire)
    /\ Store(Head(wire))
    /\ UNCHANGED <<mb, pc, port, opto, subs, cmd, tx, sent, done, boot, drops, clobbers, changes>>

(* A parity error costs a byte, or, as PE is looked at after UDR was read  *)
(* and is then the next byte's, lets through what has become of it.        *)
UsartParityError ==
    /\ wire # << >>
    /\ drops < MaxDrop
    /\ wire' = Tail(wire)
    /\ drops' = drops + 1
    /\ UNCHANGED <<rx, overflow, drift>> \/ Store(Newline)
    /\ UNCHANGED <<mb, pc, port, opto, subs, cmd, tx, sent, done, boot, clobbers, changes>>

(* The plant: an input goes on or off, at any time.                        *)
InputChange ==
    /\ changes < MaxInputs
    /\ changes' = changes + 1
    /\ \E i \in Optos : opto' = IF i \in opto THEN opto \ {i} ELSE opto \cup {i}
    /\ UNCHANGED <<line, rx, drift, mb, pc, port, subs, cmd, tx, done,
                   boot, drops, overflow, clobbers>>

-----------------------------------------------------------------------------
(* MsgProcessor::poll.                                                     *)

others == <<sent, opto, boot, drops, changes>>
quiet == <<wire, drift, overflow, others>>

(* Faulty variant: every poll starts with an empty message buffer.         *)
PollClears ==
    /\ pc = "idle"
    /\ pc' = "read"
    /\ mb' = << >>
    /\ UNCHANGED <<quiet, rx, port, subs, cmd, tx, done, clobbers>>

Poll ==
    /\ pc = "idle"
    /\ pc' = "read"
    /\ UNCHANGED <<quiet, rx, mb, port, subs, cmd, tx, done, clobbers>>

(* get_bytes: one more byte in m_msgBuf, and the message it may complete.  *)
Take(b) ==
    /\ mb' = PushByte(mb, b)
    /\ \/ Valid(mb') /\ cmd' = mb'[1][1] /\ pc' = "process"
       \/ ~Valid(mb') /\ UNCHANGED <<cmd, pc>>
    /\ UNCHANGED <<port, subs, tx, done, clobbers>>

(* pop_front returns the oldest byte, or any, if the storage is mixed.     *)
Oldest == IF mixed THEN Strays ELSE {Head(rx)}

(* SerialPort::read, undisturbed.                                          *)
ReadByte ==
    /\ pc = "read"
    /\ Len(rx) > behind
    /\ \E b \in Oldest : Take(b)
    /\ rx' = Tail(rx)
    /\ UNCHANGED quiet

(* The receive interrupt strikes inside pop_front.  Between the load and   *)
(* the store of m_size its own increment is lost, and the byte it stores   *)
(* is not counted.  On a full storage it moves m_first under the pop,      *)
(* which may then return and leave anything.                               *)
ReadByteStruck ==
    /\ pc = "read"
    /\ Len(rx) > behind
    /\ wire # << >>
    /\ wire' = Tail(wire)
    /\ \/ /\ Len(rx) < RxCapacity
          /\ behind < MaxBehind
          /\ \E b \in Oldest : Take(b)
          /\ rx' = Append(Tail(rx), Head(wire))
          /\ behind' = behind + 1
          /\ UNCHANGED <<mixed, garbled, overflow>>
       \/ /\ Len(rx) = RxCapacity
          /\ \E b \in Strays : Take(b)
          /\ rx' = Tail(rx)
          /\ mixed' = TRUE /\ garbled' = TRUE /\ overflow' = TRUE
          /\ UNCHANGED behind
    /\ UNCHANGED others

(* Faulty variant: the message is looked at again when no byte came.       *)
ReadAgain ==
    /\ pc = "read"
    /\ Len(rx) = behind
    /\ \/ Valid(mb) /\ cmd' = mb[1][1] /\ pc' = "process"
       \/ ~Valid(mb) /\ pc' = "poll_in" /\ UNCHANGED cmd
    /\ UNCHANGED <<quiet, rx, mb, port, subs, tx, done, clobbers>>

(* m_size is 0, whatever may still be stored.                              *)
ReadNothing ==
    /\ pc = "read"
    /\ Len(rx) = behind
    /\ pc' = "poll_in"
    /\ UNCHANGED <<quiet, rx, mb, port, subs, cmd, tx, done, clobbers>>

(* dispatch_message: set_bytes on m_msgBuf, then write it out.             *)
Dispatch(f) ==
    /\ mb' = FrameBytes(f)
    /\ tx' = Append(tx, f)

(* process_message: one action per type, all in this frame.                *)
Handle(t) ==
    /\ pc = "process"
    /\ cmd.type = t
    /\ done' = Append(done, cmd)
    /\ cmd' = Nothing
    /\ UNCHANGED <<quiet, rx, clobbers>>

Answer(f) == pc' = "poll_in" /\ Dispatch(f)
NoAnswer  == pc' = "poll_in" /\ UNCHANGED <<mb, tx>>

OnPing ==
    /\ Handle("PING")
    /\ Answer(Pong(cmd.arg))
    /\ UNCHANGED <<port, subs>>

OnPong ==
    /\ Handle("PONG")
    /\ NoAnswer
    /\ UNCHANGED <<port, subs>>

OnReadRegister ==
    /\ Handle("READ")
    /\ Answer(CASE cmd.reg = "IN"  -> WriteRegister("IN", Inputs, Relays!Bits)
                [] cmd.reg = "OUT" -> WriteRegister("OUT", Outputs, Relays!Bits)
                [] OTHER           -> WriteRegister("ERR", {}, Relays!Bits))
    /\ UNCHANGED <<port, subs>>

OnWriteRegister ==
    /\ Handle("WRITE")
    /\ \/ cmd.reg = "OUT" /\ Relays!WriteRegister(cmd.value, cmd.mask)
       \/ cmd.reg # "OUT" /\ UNCHANGED port
    /\ NoAnswer
    /\ UNCHANGED subs

OnWriteRegisterBit ==
    /\ Handle("WRITE_BIT")
    /\ \/ cmd.bit < 8 /\ cmd.reg = "OUT" /\ Relays!WriteRegisterBit(cmd.bit, cmd.on)
       \/ (cmd.bit >= 8 \/ cmd.reg # "OUT") /\ UNCHANGED port
    /\ NoAnswer
    /\ UNCHANGED subs

(* on_pulse_register_bit toggles, waits up to 255 ms with the main loop    *)
(* standing still, and toggles back.                                       *)
OnPulseRegisterBit ==
    /\ pc = "process"
    /\ cmd.type = "PULSE_BIT"
    /\ \/ /\ cmd.bit < 8 /\ cmd.reg = "OUT"
          /\ Relays!ToggleBit(cmd.bit)
          /\ pc' = "pulse"
          /\ UNCHANGED <<cmd, done>>
       \/ /\ cmd.bit >= 8 \/ cmd.reg # "OUT"
          /\ UNCHANGED port
          /\ pc' = "poll_in"
          /\ cmd' = Nothing /\ done' = Append(done, cmd)
    /\ UNCHANGED <<quiet, rx, mb, subs, tx, clobbers>>

PulseEnd ==
    /\ pc = "pulse"
    /\ Relays!ToggleBit(cmd.bit)
    /\ pc' = "poll_in"
    /\ cmd' = Nothing /\ done' = Append(done, cmd)
    /\ UNCHANGED <<quiet, rx, mb, subs, tx, clobbers>>

(* Faulty variant: a cancellation is answered but not obeyed.              *)
SubscriptionKept(v) == [on |-> TRUE, value |-> v]

Subscription(v) ==
    IF cmd.cancel THEN Unsubscribed ELSE [on |-> TRUE, value |-> v]

OnSubscribeRegister ==
    /\ Handle("SUBSCRIBE")
    /\ \/ /\ cmd.reg = "IN"
          /\ sIn' = Subscription(Inputs)
          /\ UNCHANGED sOut
          /\ Answer(SubscribeRegister("IN", Inputs, cmd.cancel))
       \/ /\ cmd.reg = "OUT"
          /\ sOut' = Subscription(Outputs)
          /\ UNCHANGED sIn
          /\ Answer(SubscribeRegister("OUT", Outputs, cmd.cancel))
       \/ /\ cmd.reg \notin {"IN", "OUT"}
          /\ Answer(SubscribeRegister("ERR", {}, TRUE))
          /\ UNCHANGED subs
    /\ UNCHANGED port

OnUnknown ==
    /\ Handle("UNKNOWN")
    /\ NoAnswer
    /\ UNCHANGED <<port, subs>>

(* on_poll, first for the inputs, then for the outputs.                    *)
Notify(r, v) ==
    /\ Dispatch(SubscribeRegister(r, v, FALSE))
    /\ clobbers' = clobbers + (IF Partial(mb) THEN 1 ELSE 0)

(* Faulty variant: the change is noted and not reported.                   *)
PollInputsSilent ==
    /\ pc = "poll_in"
    /\ pc' = "poll_out"
    /\ sIn' = IF sIn.on THEN [sIn EXCEPT !.value = Inputs] ELSE sIn
    /\ UNCHANGED <<quiet, rx, mb, port, sOut, cmd, tx, done, clobbers>>

PollInputs ==
    /\ pc = "poll_in"
    /\ pc' = "poll_out"
    /\ \/ /\ sIn.on /\ Inputs # sIn.value
          /\ sIn' = [sIn EXCEPT !.value = Inputs]
          /\ Notify("IN", Inputs)
       \/ /\ ~sIn.on \/ Inputs = sIn.value
          /\ UNCHANGED <<sIn, mb, tx, clobbers>>
    /\ UNCHANGED <<quiet, rx, port, sOut, cmd, done>>

PollOutputs ==
    /\ pc = "poll_out"
    /\ pc' = "idle"
    /\ \/ /\ sOut.on /\ Outputs # sOut.value
          /\ sOut' = [sOut EXCEPT !.value = Outputs]
          /\ Notify("OUT", Outputs)
       \/ /\ ~sOut.on \/ Outputs = sOut.value
          /\ UNCHANGED <<sOut, mb, tx, clobbers>>
    /\ UNCHANGED <<quiet, rx, port, sIn, cmd, done>>

MainLoop ==
    \/ Poll \/ ReadByte \/ ReadByteStruck \/ ReadNothing
    \/ OnPing \/ OnPong \/ OnReadRegister \/ OnWriteRegister \/ OnWriteRegisterBit
    \/ OnPulseRegisterBit \/ PulseEnd \/ OnSubscribeRegister \/ OnUnknown
    \/ PollInputs \/ PollOutputs

Next ==
    \/ RouterNext \/ Reset \/ UsartRx \/ UsartParityError \/ InputChange
    \/ MainLoop

Spec == Init /\ [][Next]_vars

(* The main loop runs for ever and the line delivers what was sent.        *)
FairSpec == Spec /\ WF_vars(MainLoop) /\ WF_vars(UsartRx)
-----------------------------------------------------------------------------
(* What the properties compare with.                                       *)

(* The SUBSCRIBE frames the router got about register r since the AVR      *)
(* started, by their numbers, and the last of them.                        *)
Reports(r) == {k \in boot.tx + 1 .. Len(tx) : tx[k].type = "SUBSCRIBE" /\ tx[k].reg = r}
LastReport(r) == tx[CHOOSE k \in Reports(r) : \A j \in Reports(r) : j <= k]

Following(r) == Reports(r) # {} /\ ~LastReport(r).cancel
LastValue(r) == LastReport(r).value

(* Nothing more comes, and the buffer looks empty.                         *)
Quiescent == pc = "idle" /\ wire = << >> /\ Len(rx) = behind
CleanLine == drops = 0 /\ ~overflow /\ boot.n = 0

(* The commands that end in the last bytes received, the ones that are not *)
(* counted; after each comes the router's extra '\n', the very last.       *)
Waiting == (behind + FrameLen - 1) \div (FrameLen + 1)

-----------------------------------------------------------------------------
(* What the AVR writes itself.                                             *)
Written == {f \in Frame : f.type \in {"PONG", "WRITE", "SUBSCRIBE"}}

(* Nothing but bytes of sent frames, and of the AVR's own in its message   *)
(* buffer, is in the buffers, which never outgrow their storage; m_size    *)
(* does not wrap; the storage keeps its order until it overflows; and a    *)
(* command is in hand in process_message only.                             *)
TypeOK ==
    /\ wire \in Seq(BytesOf(Commands))
    /\ rx \in Seq(BytesOf(Commands)) /\ Len(rx) <= RxCapacity
    /\ behind \in 0 .. MaxBehind /\ behind <= Len(rx)
    /\ mixed \in BOOLEAN /\ garbled \in BOOLEAN
    /\ (mixed => garbled) /\ (garbled => overflow)
    /\ mb \in Seq(BytesOf(Commands \cup Written)) /\ Len(mb) <= FrameLen
    /\ pc \in {"idle", "read", "process", "pulse", "poll_in", "poll_out"}
    /\ Relays!TypeOK
    /\ opto \subseteq Optos
    /\ sIn \in [on : BOOLEAN, value : Values8]
    /\ sOut \in [on : BOOLEAN, value : Values8]
    /\ cmd \in Commands \cup {Nothing}
    /\ cmd = Nothing <=> pc \notin {"process", "pulse"}
    /\ tx \in Seq(Written) /\ sent \in Seq(Commands) /\ done \in Seq(Commands)
    /\ boot \in [n : 0 .. MaxReset, tx : 0 .. Len(tx)]
    /\ drops \in 0 .. MaxDrop /\ overflow \in BOOLEAN
    /\ clobbers \in Nat /\ changes \in 0 .. MaxInputs

(* No sequence of lost bytes, overwritten bytes, bytes that m_size does    *)
(* not count and answers built in m_msgBuf makes the AVR carry out a       *)
(* command that was not sent, or one twice, or two in the wrong order;     *)
(* until an overflow meets a pop_front, or an m_size that is behind.       *)
OnlySentCommandsDone == garbled \/ Service!InOrder(done, sent)

(* A register is reported on exactly while the last SUBSCRIBE frame the    *)
(* AVR sent about it says so, and between two polls a follower of the      *)
(* outputs has their present value.                                        *)
FollowersUpToDate ==
    /\ sIn.on <=> Following("IN")
    /\ sOut.on <=> Following("OUT")
    /\ pc = "idle" /\ sOut.on => LastValue("OUT") = Outputs

(* On a line that loses nothing, each command that is not carried out was  *)
(* cut in two by a notification, which on_poll builds in the message       *)
(* buffer that holds the command's first bytes, or waits in the ring       *)
(* buffer, behind the bytes that m_size counts: as many as end there, and  *)
(* none when a single byte is not counted.                                 *)
OnlyNotificationsLoseCommands ==
    Quiescent /\ CleanLine => Len(done) + clobbers \in (Len(sent) - Waiting) .. Len(sent)

(* A half received message is "not a big deal as the message may still be  *)
(* coming in": when the rest has come, it is carried out.                  *)
PartialMessagesComplete == Quiescent /\ CleanLine /\ behind = 0 => done = sent

(* Each command is carried out some day, although poll takes one at a time *)
(* from whatever has come: unless bytes were lost on the way, a            *)
(* notification was built over a half received command, or it is among the *)
(* last ones, which wait for bytes of the next to push them out.           *)
CommandsGetDone ==
    \A k \in 1 .. MaxSend :
       Len(sent) >= k
         ~> Len(done) >= k \/ k > Len(sent) - Waiting \/ ~CleanLine \/ clobbers > 0

(* Who follows the inputs learns of a change, unless it is undone or the   *)
(* subscription ends before.                                               *)
FollowersLearnInputs ==
    sIn.on /\ LastValue("IN") # {i - 1 : i \in opto}
      ~> ~sIn.on \/ LastValue("IN") = {i - 1 : i \in opto}

(* To whoever switches the relays, the firmware with its buffers, handlers *)
(* and subscriptions is the simple service of RelayService: no handler     *)
(* disturbs a relay it was not asked to switch, no report shows the middle *)
(* of a pulse or overtakes a command, and after a reset all are off.       *)
ImplementsService == Service!Spec
=============================================================================
