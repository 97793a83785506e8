------------------------------ MODULE WebSock ------------------------------
(***************************************************************************)
(* The router daemon's connection to the cloud, websock.c, driven by the   *)
(* loop of daemon.c: one thread calls ws_connect, ws_poll and ws_close,    *)
(* and libwebsockets calls ws_onevent back from inside lws_service and     *)
(* lws_context_destroy.                                                    *)
(*                                                                         *)
(* A timer is the number of seconds since it was set, kept up to its       *)
(* interval: the code compares "now - timer" with the interval and nothing *)
(* else.  libwebsockets is taken to destroy a closed socket in the same    *)
(* service call, and to report an attempt that fails with                  *)
(* CONNECTION_ERROR, with WSI_DESTROY, or with both in this order.         *)
(***************************************************************************)
EXTENDS Integers, Sequences

CONSTANTS ReconnectInterval,  \* RECONNECT_INTERVAL_SEC
          HeartbeatInterval,  \* HEARTBEAT_INTERVAL_SEC
          WriteBufMax,        \* WRITE_BUF_MAX
          Lengths,            \* bound: the lengths of the texts to send
          MaxAsked,           \* bound: texts to send
          MaxFault            \* bound: failures of malloc, the library, writes

ASSUME WebSockAssumption ==
    /\ ReconnectInterval \in Nat \ {0}
    /\ HeartbeatInterval \in Nat \ {0}
    /\ WriteBufMax \in 1 .. 255
    /\ Lengths \subseteq Nat \ {0}
    /\ MaxAsked \in Nat /\ MaxFault \in Nat

VARIABLES ready,     \* s_ready_state
          rec, hb,   \* s_reconnect_timer, s_heartbeat_timer
          ctx,       \* s_pWsContext is not NULL; the buffers are allocated
          handle,    \* what s_pWs points to
          ping,      \* s_ping_buf holds something
          text,      \* s_text_buf
          pc, run,   \* where the thread is; s_run
          sock,      \* the library's socket
          writable,  \* its request for a WRITEABLE callback
          asked,     \* ghost: texts given to ws_send_text
          frames,    \* ghost: text frames handed to the library
          gap,       \* ghost: seconds since the last attempt to connect
          misuse,    \* ghost: the library was called as it must not be
          stepped, faults  \* ghosts: the clock was set; what failed

state == <<ready, rec, hb, ctx, handle, ping, text>>
vars == <<state, pc, run, sock, writable, asked, frames, gap, misuse, stepped, faults>>

Off == -1

Up(age, interval) == IF age \in {Off, interval} THEN age ELSE age + 1

-----------------------------------------------------------------------------
Init ==
    /\ ready = "CLOSED"
    /\ rec = Off /\ hb = Off
    /\ ctx = FALSE /\ handle = "null"
    /\ ping = FALSE /\ text = << >>
    /\ pc = "start" /\ run = TRUE
    /\ sock = "none" /\ writable = FALSE
    /\ asked = 0 /\ frames = << >>
    /\ gap = ReconnectInterval
    /\ misuse = FALSE /\ stepped = FALSE /\ faults = 0

(* A second goes by.                                                       *)
Tick ==
    /\ rec' = Up(rec, ReconnectInterval)
    /\ hb' = Up(hb, HeartbeatInterval)
    /\ gap' = Up(gap, ReconnectInterval)
    /\ <<rec, hb, gap>>' # <<rec, hb, gap>>
    /\ UNCHANGED <<ready, ctx, handle, ping, text, pc, run, sock, writable,
                   asked, frames, misuse, stepped, faults>>

(* The router's clock is set, forward or back; the unsigned difference     *)
(* with a timer set before can become anything.                            *)
ClockSet ==
    /\ ~stepped
    /\ stepped' = TRUE
    /\ rec' \in IF rec = Off THEN {Off} ELSE 0 .. ReconnectInterval
    /\ hb' \in IF hb = Off THEN {Off} ELSE 0 .. HeartbeatInterval
    /\ UNCHANGED <<ready, ctx, handle, ping, text, pc, run, sock, writable,
                   asked, frames, gap, misuse, faults>>

(* sig_term                                                                *)
SigTerm ==
    /\ run
    /\ run' = FALSE
    /\ UNCHANGED <<state, pc, sock, writable, asked, frames, gap, misuse, stepped, faults>>

Fault == faults < MaxFault /\ faults' = faults + 1

-----------------------------------------------------------------------------
(* ws_connect, entered with the reconnect timer at r.                      *)
ws_connect(r) ==
    /\ UNCHANGED <<hb, ping, text, run, writable, asked, frames, stepped>>
    /\ \/ \* no memory, no context
          /\ ~ctx /\ Fault
          /\ rec' = r
          /\ UNCHANGED <<ready, ctx, handle, sock, gap, misuse>>
       \/ \* lws_client_connect
          /\ ctx' = TRUE
          /\ gap' = 0
          /\ misuse' = (misuse \/ sock # "none")
          /\ \/ /\ ready' = "CONNECTING" /\ rec' = r
                /\ sock' = "connecting" /\ handle' = "live"
                /\ UNCHANGED faults
             \/ /\ Fault
                /\ ready' = "CLOSED" /\ rec' = 0
                /\ handle' = "null"
                /\ UNCHANGED sock

(* The daemon does not look at what ws_connect returns.                    *)
Start ==
    /\ pc = "start"
    /\ pc' = "loop"
    /\ ws_connect(rec)

-----------------------------------------------------------------------------
(* ws_poll without a context only sleeps.  With one it is up to a          *)
(* reconnect or a heartbeat, then lws_service.                             *)

Polls == pc = "loop" /\ run /\ ctx /\ pc' = "service"

ReconnectDue == ready = "CLOSED" /\ rec = ReconnectInterval
HeartbeatDue == ready = "OPEN" /\ hb = HeartbeatInterval

(* Faulty variant: every poll of a closed connection tries again.          *)
ReconnectAtOnce ==
    /\ Polls
    /\ ready = "CLOSED" /\ rec # Off
    /\ ws_connect(Off)

Reconnect ==
    /\ Polls
    /\ ReconnectDue
    /\ ws_connect(Off)

(* lws_callback_on_writable(s_pWs)                                         *)
Wake ==
    /\ writable' = (writable \/ handle = "live")
    /\ misuse' = (misuse \/ handle # "live")

(* Faulty variant: the heart beats without a connection, too.              *)
HeartbeatAlways ==
    /\ Polls
    /\ hb = HeartbeatInterval /\ ~ReconnectDue
    /\ hb' = 0
    /\ ping' = TRUE
    /\ Wake
    /\ UNCHANGED <<ready, rec, ctx, handle, text, run, sock, asked, frames, gap,
                   stepped, faults>>

(* ws_send_ping with the time of day                                       *)
Heartbeat ==
    /\ Polls
    /\ HeartbeatDue
    /\ hb' = 0
    /\ ping' = TRUE
    /\ Wake
    /\ UNCHANGED <<ready, rec, ctx, handle, text, run, sock, asked, frames, gap,
                   stepped, faults>>

JustPoll ==
    /\ Polls
    /\ ~ReconnectDue /\ ~HeartbeatDue
    /\ UNCHANGED <<state, run, sock, writable, asked, frames, gap, misuse, stepped, faults>>

-----------------------------------------------------------------------------
(* ws_onevent, in lws_service.                                             *)

(* Faulty variant: the heartbeat is not started.                           *)
EstablishedUnbeaten ==
    /\ pc = "service" /\ sock = "connecting"
    /\ sock' = "open"
    /\ ready' = "OPEN"
    /\ UNCHANGED <<rec, hb, ctx, handle, ping, text, pc, run, writable, asked, frames,
                   gap, misuse, stepped, faults>>

Established ==
    /\ pc = "service" /\ sock = "connecting"
    /\ sock' = "open"
    /\ ready' = "OPEN"
    /\ hb' = 0
    /\ UNCHANGED <<rec, ctx, handle, ping, text, pc, run, writable, asked, frames,
                   gap, misuse, stepped, faults>>

ConnectionError ==
    /\ pc \in {"service", "destroy"} /\ sock = "connecting"
    /\ sock' = "dying"
    /\ ready' = "CLOSED"
    /\ rec' = 0
    /\ UNCHANGED <<hb, ctx, handle, ping, text, pc, run, writable, asked, frames,
                   gap, misuse, stepped, faults>>

(* LWS_CALLBACK_CLOSED: the peer's doing, or that of ws_close.             *)
Closed ==
    /\ pc \in {"service", "destroy"} /\ sock = "open"
    /\ sock' = "dying"
    /\ rec' = IF ready = "CLOSING" THEN rec ELSE 0
    /\ ready' = "CLOSED"
    /\ UNCHANGED <<hb, ctx, handle, ping, text, pc, run, writable, asked, frames,
                   gap, misuse, stepped, faults>>

Destroyed ==
    /\ pc \in {"service", "destroy"} /\ sock \in {"connecting", "dying"}
    /\ sock' = "none"
    /\ handle' = "dangling"
    /\ writable' = FALSE

(* Faulty variants: the event changes nothing; it queues no reconnect.     *)
WsiDestroyIgnored ==
    /\ Destroyed
    /\ UNCHANGED <<ready, rec, hb, ctx, ping, text, pc, run, asked, frames,
                   gap, misuse, stepped, faults>>

WsiDestroyUnarmed ==
    /\ Destroyed
    /\ ready' = "CLOSED"
    /\ UNCHANGED <<rec, hb, ctx, ping, text, pc, run, asked, frames,
                   gap, misuse, stepped, faults>>

WsiDestroy ==
    /\ Destroyed
    /\ ready' = "CLOSED"
    /\ rec' = 0
    /\ UNCHANGED <<hb, ctx, ping, text, pc, run, asked, frames,
                   gap, misuse, stepped, faults>>

(* rb_set_data: overflow forgets the oldest bytes.                         *)
rb_set_data(buf, data) ==
    LET all == buf \o data
        over == IF Len(all) > WriteBufMax THEN Len(all) - WriteBufMax ELSE 0
    IN  SubSeq(all, over + 1, Len(all))

Text(n, len) == [i \in 1 .. len |-> <<n, i>>]

(* A message that asks for the router's addresses: ws_send_text from       *)
(* inside the callback.  Other messages go to the AVR or nowhere.          *)
Receive ==
    /\ pc = "service" /\ sock = "open"
    /\ asked < MaxAsked
    /\ asked' = asked + 1
    /\ \E len \in Lengths :
          text' = rb_set_data(text, Text(asked', IF len > WriteBufMax THEN WriteBufMax ELSE len))
    /\ Wake
    /\ UNCHANGED <<ready, rec, hb, ctx, handle, ping, pc, run, sock, frames,
                   gap, stepped, faults>>

(* Faulty variant: after a truncated write everything is sent again.       *)
ReloadAll(k) == text

(* What a write that took k bytes of s_text_buf leaves in it.              *)
Reload(k) == rb_set_data(<< >>, SubSeq(text, k + 1, Len(text)))

Framed(k) == IF k = 0 THEN frames ELSE Append(frames, SubSeq(text, 1, k))

(* WRITEABLE: ws_write_data for the ping, then for the text.  Either is    *)
(* written, truncated (and queued again) or, on an error, lost.            *)
Writeable ==
    /\ pc = "service" /\ sock = "open"
    /\ writable
    /\ \/ /\ ping' = FALSE /\ text' = << >>
          /\ frames' = Framed(Len(text))
          /\ writable' = FALSE
          /\ UNCHANGED faults
       \/ /\ Fault
          /\ ping' \in IF ping THEN BOOLEAN ELSE {FALSE}
          /\ \/ /\ ping
                /\ text' = << >> /\ frames' = Framed(Len(text)) /\ writable' = ping'
             \/ /\ text # << >>
                /\ text' = << >> /\ UNCHANGED frames /\ writable' = ping'
             \/ \E k \in 0 .. Len(text) - 1 :
                   text' = Reload(k) /\ frames' = Framed(k) /\ writable' = TRUE
    /\ UNCHANGED <<ready, rec, hb, ctx, handle, pc, run, sock, asked, gap, misuse, stepped>>

ServiceDone ==
    /\ pc = "service" /\ sock # "dying"
    /\ pc' = "loop"
    /\ UNCHANGED <<state, run, sock, writable, asked, frames, gap, misuse, stepped, faults>>

-----------------------------------------------------------------------------
(* ws_close: lws_context_destroy ends the socket, then the protocol.       *)
Close ==
    /\ pc = "loop" /\ ~run
    /\ \/ ctx /\ ready' = "CLOSING" /\ pc' = "destroy"
       \/ ~ctx /\ UNCHANGED ready /\ pc' = "done"
    /\ UNCHANGED <<rec, hb, ctx, handle, ping, text, run, sock, writable, asked, frames,
                   gap, misuse, stepped, faults>>

(* Faulty variant: a reconnect that was queued stays queued.               *)
ProtocolDestroyArmed ==
    /\ pc = "destroy" /\ sock = "none"
    /\ hb' = Off /\ rec' = rec
    /\ ready' = "CLOSED"
    /\ handle' = "null" /\ ctx' = FALSE
    /\ ping' = FALSE /\ text' = << >>
    /\ pc' = "done"
    /\ UNCHANGED <<run, sock, writable, asked, frames, gap, misuse, stepped, faults>>

ProtocolDestroy ==
    /\ pc = "destroy" /\ sock = "none"
    /\ rec' = Off /\ hb' = Off
    /\ ready' = "CLOSED"
    /\ handle' = "null" /\ ctx' = FALSE
    /\ ping' = FALSE /\ text' = << >>
    /\ pc' = "done"
    /\ UNCHANGED <<run, sock, writable, asked, frames, gap, misuse, stepped, faults>>

Thread ==
    \/ Start \/ Reconnect \/ Heartbeat \/ JustPoll
    \/ Established \/ ConnectionError \/ Closed \/ WsiDestroy \/ Receive \/ Writeable
    \/ ServiceDone \/ Close \/ ProtocolDestroy

Next == Tick \/ ClockSet \/ SigTerm \/ Thread

Spec == Init /\ [][Next]_vars

(* Time passes, the thread runs, and a socket that can be written for ever *)
(* is reported.                                                            *)
FairSpec == Spec /\ WF_vars(Tick) /\ WF_vars(Thread) /\ SF_vars(Writeable)

-----------------------------------------------------------------------------
Types ==
    /\ ready \in {"CONNECTING", "OPEN", "CLOSING", "CLOSED"}
    /\ rec \in {Off} \cup 0 .. ReconnectInterval
    /\ hb \in {Off} \cup 0 .. HeartbeatInterval
    /\ ctx \in BOOLEAN /\ run \in BOOLEAN /\ ping \in BOOLEAN
    /\ handle \in {"null", "live", "dangling"}
    /\ pc \in {"start", "loop", "service", "destroy", "done"}
    /\ sock \in {"none", "connecting", "open", "dying"}
    /\ writable \in BOOLEAN /\ misuse \in BOOLEAN /\ stepped \in BOOLEAN
    /\ asked \in 0 .. MaxAsked /\ faults \in 0 .. MaxFault
    /\ gap \in 0 .. ReconnectInterval

(* No timer is older than its interval, and the text that waits has not    *)
(* outgrown its buffer.                                                    *)
TypeOK == Types /\ Len(text) <= WriteBufMax

(* Between two polls s_ready_state says what the socket really is, so the  *)
(* daemon neither waits for a dead connection nor opens a second one.      *)
ReadyTracksSocket ==
    pc = "loop" =>
       /\ ready = "OPEN" <=> sock = "open"
       /\ ready = "CONNECTING" <=> sock = "connecting"
       /\ ready = "CLOSED" <=> sock = "none"

(* However a connection came to its end, a retry is queued, once there is  *)
(* a context.                                                              *)
RetryArmed == pc = "loop" /\ ctx /\ sock = "none" => rec # Off

(* The library is never asked for a second connection beside a living one  *)
(* nor for a callback on a socket that is gone.                            *)
LibraryUsedWell == ~misuse

(* However often writes are truncated or connections lost, the text goes   *)
(* out in the order it was queued and no byte goes out twice.              *)
Before(t, u) == t[1] < u[1] \/ (t[1] = u[1] /\ t[2] < u[2])

TextInOrder ==
    \A a, b \in DOMAIN frames :
       \A i \in DOMAIN frames[a], j \in DOMAIN frames[b] :
          Before(<<a, i>>, <<b, j>>) => Before(frames[a][i], frames[b][j])

(* "will stay down forever": after ws_close nothing is left that could     *)
(* bring the connection back.                                              *)
ClosedForGood ==
    pc = "done" =>
       /\ sock = "none" /\ ~ctx /\ ready = "CLOSED"
       /\ rec = Off /\ hb = Off

(* Unless the clock is set, attempts to connect are at least the reconnect *)
(* interval apart: a server that is down is not hammered.                  *)
RetriesAreSpaced ==
    [][(sock = "none" /\ sock' = "connecting") \/ gap' < gap
         => stepped \/ gap = ReconnectInterval]_vars

(* While the daemon runs with a context, a dead connection is followed by  *)
(* a new attempt.                                                          *)
KeepsTrying == run /\ ctx /\ sock = "none" ~> sock # "none" \/ ~run

(* Queued text leaves while the connection lasts; text left over from an   *)
(* earlier connection waits for the heartbeat to ask for a callback.       *)
TextLeaves == run /\ text # << >> /\ sock = "open" ~> text = << >> \/ sock # "open" \/ ~run
=============================================================================
