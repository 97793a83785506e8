----------------------------- MODULE RouterPort -----------------------------
(***************************************************************************)
(* The router's end of the serial line: the message processor              *)
(* (H/msg_proc.c) over the tty (H/serial.c).  As on the AVR, one buffer of *)
(* the length of a message, s_msg_buf, serves both for the messages that   *)
(* come in and for those that go out.  The program is a single thread, so  *)
(* a call is one step, but for mp_poll, which reads the tty byte by byte   *)
(* while the AVR goes on writing.                                          *)
(*                                                                         *)
(* AvrNode assumes something of what the router writes; ImplementsRouter   *)
(* shows that this module keeps to it.                                     *)
(***************************************************************************)
EXTENDS Frames

CONSTANTS Requests,   \* the frames the router's callers ask for
          Answers,    \* the frames the AVR writes
          MaxRequest, \* bound: requests carried out
          MaxAnswer,  \* bound: frames of the AVR
          MaxFault,   \* bound: failed writes, flushes of written bytes
          MaxDamage   \* bound: bytes of the AVR that come with an error

(* There is no mp_dispatch_pong.                                           *)
ASSUME PortAssumption ==
    /\ Requests \subseteq {f \in Frame : f.type # "PONG"} /\ Answers \subseteq Frame
    /\ MaxRequest \in Nat /\ MaxAnswer \in Nat /\ MaxFault \in Nat /\ MaxDamage \in Nat

VARIABLES open,    \* s_fd > -1
          alloc,   \* s_msg_buf has its storage
          mb,      \* s_msg_buf
          pc,      \* idle, or where mp_poll is
          in, out, \* bytes in the tty's queues and on the line
          accepted, faults,              \* ghosts: the frames for which sp_write returned true
          said, heard, clobbers, damage, \* ghosts: frames of the AVR, and those processed
          lossy                          \* ghost: not all its bytes came through

tty == <<open, alloc>>
outgoing == <<out, accepted, faults>>
incoming == <<said, heard, clobbers, damage, lossy>>
vars == <<tty, mb, pc, in, outgoing, incoming>>

Seqs == INSTANCE SequencesExt

Avr == INSTANCE AvrNode
         WITH RxCapacity <- 1, Optos <- {}, MaxInputs <- 0, MaxReset <- 0, MaxBehind <- 0, Strays <- {},
              MaxDrop <- MaxFault,
              Commands <- Requests \cup {[f EXCEPT !.type = "PONG"] : f \in Answers},
              MaxSend <- MaxRequest + MaxAnswer,
              wire <- out, sent <- accepted, drops <- faults,
              rx <- << >>, behind <- 0, mixed <- FALSE, garbled <- FALSE,
              mb <- << >>, pc <- "idle", port <- {}, opto <- {}, sIn <- {},
              sOut <- {}, cmd <- {}, tx <- << >>, done <- << >>,
              boot <- 0, overflow <- FALSE, clobbers <- 0, changes <- 0

(* A byte that a parity error has changed: IGNPAR without INPCK lets it    *)
(* through on some drivers, and takes it out of the stream on others.      *)
Damaged == Byte([type |-> "DAMAGED"], 0)

-----------------------------------------------------------------------------
Init ==
    /\ open = FALSE /\ alloc = FALSE
    /\ mb = << >> /\ pc = "idle"
    /\ in = << >> /\ out = << >>
    /\ accepted = << >> /\ faults = 0
    /\ said = << >> /\ heard = << >> /\ clobbers = 0 /\ damage = 0
    /\ lossy = FALSE

(* Faulty variant: a message buffer of a byte less.                        *)
mb_push_short(s, b) == IF alloc THEN PushByteShort(s, b) ELSE s

mb_push(s, b) == IF alloc THEN PushByte(s, b) ELSE s

Forgets == lossy' = (lossy \/ in # << >> \/ Partial(mb))

(* mp_init without memory for the buffer: the tty stays as it was.         *)
InitNoMemory ==
    /\ pc = "idle"
    /\ alloc' = FALSE /\ mb' = << >>
    /\ Forgets
    /\ UNCHANGED <<open, pc, in, outgoing, said, heard, clobbers, damage>>

(* mp_init with a rate or a device that sp_init cannot open.               *)
InitNoTty ==
    /\ pc = "idle"
    /\ alloc' = TRUE /\ mb' = << >>
    /\ open' = FALSE
    /\ Forgets
    /\ UNCHANGED <<pc, in, outgoing, said, heard, clobbers, damage>>

(* mp_init: TCIOFLUSH throws away what was received and not read, and of   *)
(* what was written all but the bytes that are already on the line.  What  *)
(* the AVR has on the line is yet to come, half a frame perhaps.           *)
mp_init ==
    /\ pc = "idle"
    /\ alloc' = TRUE /\ mb' = << >>
    /\ open' = TRUE
    /\ Forgets
    /\ \E k \in 0 .. Len(in) : in' = SubSeq(in, k + 1, Len(in))
    /\ \/ UNCHANGED <<out, faults>>
       \/ /\ faults < MaxFault
          /\ faults' = faults + 1
          /\ \E k \in 0 .. Len(out) - 1 : out' = SubSeq(out, 1, k)
    /\ UNCHANGED <<pc, accepted, said, heard, clobbers, damage>>

mp_close ==
    /\ pc = "idle"
    /\ alloc' = FALSE /\ mb' = << >>
    /\ open' = FALSE
    /\ Forgets
    /\ UNCHANGED <<pc, in, outgoing, said, heard, clobbers, damage>>

-----------------------------------------------------------------------------
(* Faulty variant: a byte that cannot be written is skipped.               *)
sp_write_goes_on(f) ==
    \/ /\ out' = Append(out \o FrameBytes(f), Newline)
       /\ accepted' = Append(accepted, f)
       /\ UNCHANGED faults
    \/ /\ faults < MaxFault
       /\ faults' = faults + 1
       /\ \E k \in 1 .. FrameLen :
             out' = Append(out \o Seqs!RemoveAt(FrameBytes(f), k), Newline)
       /\ accepted' = Append(accepted, f)

(* sp_write on an open tty: the frame and the extra '\n', or the k bytes   *)
(* that were written before one was not.  Nobody looks at the '\n'.        *)
sp_write(f) ==
    \/ /\ out' = Append(out \o FrameBytes(f), Newline)
       /\ accepted' = Append(accepted, f)
       /\ UNCHANGED faults
    \/ /\ faults < MaxFault
       /\ faults' = faults + 1
       /\ \E k \in 0 .. FrameLen :
             /\ out' = out \o SubSeq(FrameBytes(f), 1, k)
             /\ accepted' = IF k = FrameLen THEN Append(accepted, f) ELSE accepted

(* mp_dispatch_message: the message is made in the buffer; without storage *)
(* there it is not valid, without a tty no byte of it can be written.      *)
mp_dispatch_message(f) ==
    /\ mb' = IF alloc THEN FrameBytes(f) ELSE << >>
    /\ \/ alloc /\ open /\ sp_write(f)
       \/ ~(alloc /\ open) /\ UNCHANGED outgoing

(* The bit commands are refused for bits that no register has.             *)
Refused(f) == f.type \in {"WRITE_BIT", "PULSE_BIT"} /\ f.bit > 7

(* mp_dispatch_ping and its companions.                                    *)
Request ==
    /\ pc = "idle"
    /\ Len(accepted) < MaxRequest
    /\ \E f \in Requests :
          \/ /\ ~Refused(f)
             /\ mp_dispatch_message(f)
             /\ clobbers' = clobbers + (IF Partial(mb) THEN 1 ELSE 0)
          \/ /\ Refused(f)
             /\ UNCHANGED <<mb, outgoing, clobbers>>
    /\ UNCHANGED <<tty, pc, in, said, heard, damage, lossy>>

-----------------------------------------------------------------------------
(* mp_poll.                                                                *)

Poll ==
    /\ pc = "idle"
    /\ pc' = "read"
    /\ UNCHANGED <<tty, mb, in, outgoing, incoming>>

(* sp_read: a byte, and the message it may complete.                       *)
sp_read ==
    /\ pc = "read" /\ open
    /\ in # << >>
    /\ in' = Tail(in)
    /\ mb' = mb_push(mb, Head(in))
    /\ pc' = IF Valid(mb') THEN "process" ELSE "read"
    /\ lossy' = (lossy \/ ~alloc)
    /\ UNCHANGED <<tty, outgoing, said, heard, clobbers, damage>>

(* Faulty variant: the message is looked at when no byte came.             *)
ReadEndsAgain ==
    /\ pc = "read"
    /\ pc' = IF Valid(mb) THEN "process" ELSE "idle"
    /\ UNCHANGED <<tty, mb, in, outgoing, incoming>>

(* read returns 0 or, on a tty that is not open and whenever it likes, -1. *)
ReadEnds ==
    /\ pc = "read"
    /\ pc' = "idle"
    /\ UNCHANGED <<tty, mb, in, outgoing, incoming>>

Message == mb[1][1]

Processed ==
    /\ pc = "process"
    /\ pc' = "idle"
    /\ heard' = Append(heard, Message)
    /\ UNCHANGED <<tty, in, said, clobbers, damage, lossy>>

(* Faulty variant: the PING goes back as it came.                          *)
OnPingEchoes ==
    /\ Processed
    /\ Message.type = "PING"
    /\ mp_dispatch_message(Message)

(* mp_process_message: a PING is answered out of the same buffer.          *)
OnPing ==
    /\ Processed
    /\ Message.type = "PING"
    /\ mp_dispatch_message(Pong(Message.arg))

(* All other messages, those it passes over among them, leave no trace:    *)
(* the mp_on_ functions of a140808.c only log.                             *)
OnOther ==
    /\ Processed
    /\ Message.type # "PING"
    /\ UNCHANGED <<mb, outgoing>>

-----------------------------------------------------------------------------
(* The line and the AVR.                                                   *)

Transmit ==
    /\ out # << >>
    /\ out' = Tail(out)
    /\ UNCHANGED <<tty, mb, pc, in, accepted, faults, incoming>>

AvrWrites ==
    /\ Len(said) < MaxAnswer
    /\ \E f \in Answers :
          /\ in' = in \o FrameBytes(f)
          /\ said' = Append(said, f)
    /\ UNCHANGED <<tty, mb, pc, outgoing, heard, clobbers, damage, lossy>>

ParityError ==
    /\ damage < MaxDamage
    /\ damage' = damage + 1
    /\ \E i \in 1 .. Len(in) : in' \in {Seqs!RemoveAt(in, i), Seqs!ReplaceAt(in, i, Damaged)}
    /\ lossy' = TRUE
    /\ UNCHANGED <<tty, mb, pc, outgoing, said, heard, clobbers>>

Next ==
    \/ mp_init \/ InitNoMemory \/ InitNoTty \/ mp_close \/ Request
    \/ Poll \/ sp_read \/ ReadEnds \/ OnPing \/ OnOther
    \/ Transmit \/ AvrWrites \/ ParityError

Spec == Init /\ [][Next]_vars

-----------------------------------------------------------------------------
(* Whatever is lost, damaged or flushed, the router processes only frames  *)
(* the AVR wrote, none twice and in their order: never the frame that it   *)
(* made itself in the same buffer, nor one put together of two.            *)
HeardWasSaid ==
    \E at \in [1 .. Len(heard) -> 1 .. Len(said)] :
       /\ \A i \in 1 .. Len(heard) : heard[i] = said[at[i]]
       /\ \A i, j \in 1 .. Len(heard) : i < j => at[i] < at[j]

(* When all bytes came through and are read, a frame of the AVR that was   *)
(* not processed was cut in two by a request that a caller made between    *)
(* two polls.                                                              *)
OnlyRequestsLoseAnswers ==
    pc = "idle" /\ in = << >> /\ ~lossy => Len(said) = Len(heard) + clobbers

Positions(s, t) == {i \in DOMAIN s : s[i].type = t}

(* Each PONG that leaves whole answers a PING, in their order, and while   *)
(* no write fails and the buffer and the tty are there each PING has one.  *)
PongsAnswerPings ==
    \E at \in [Positions(accepted, "PONG") -> Positions(heard, "PING")] :
       /\ \A i \in DOMAIN at : accepted[i].arg = heard[at[i]].arg
       /\ \A i, j \in DOMAIN at : i < j => at[i] < at[j]
       /\ faults = 0 => \A k \in Positions(heard, "PING") : \E i \in DOMAIN at : at[i] = k

(* What the router writes is what AvrNode expects of a router: whole       *)
(* frames, each with its '\n', beginnings of frames that were given up,    *)
(* and the loss of written bytes when the daemon starts again.             *)
Delivered == out # << >> /\ out' = Tail(out) /\ UNCHANGED <<accepted, faults>>
ImplementsRouter == [][Avr!RouterNext \/ Delivered]_outgoing
=============================================================================
