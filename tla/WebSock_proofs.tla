--------------------------- MODULE WebSock_proofs ---------------------------
(***************************************************************************)
(* The web socket client, for every interval, buffer size, number of texts *)
(* and number of failures.                                                 *)
(***************************************************************************)
EXTENDS WebSock, TLAPS

-----------------------------------------------------------------------------
(* The inductive invariant of the connection.                              *)

(* Without a context nothing is there and nothing is due.                  *)
NoContext ==
    /\ ~ctx => /\ sock = "none" /\ handle = "null"
               /\ ready = "CLOSED" /\ rec = Off /\ hb = Off
    /\ pc \in {"start", "done"} => ~ctx
    /\ pc \in {"service", "destroy"} => ctx

(* In the callbacks of a service call, too, and while the socket dies.     *)
ReadyTracks ==
    pc \in {"loop", "service"} =>
       /\ ready = "OPEN" <=> sock = "open"
       /\ ready = "CONNECTING" <=> sock = "connecting"
       /\ ready = "CLOSED" <=> sock \in {"none", "dying"}

HandleLives == sock # "none" => handle = "live"

DiesInService == pc = "loop" => sock # "dying"

Armed == pc \in {"loop", "service"} /\ ctx /\ sock \in {"none", "dying"} => rec # Off

(* The reconnect timer was set after the last attempt.                     *)
SetAfterAttempt ==
    ~stepped => /\ rec # Off => rec <= gap
                /\ pc = "start" => gap = ReconnectInterval

IInv ==
    /\ Types /\ NoContext /\ ReadyTracks /\ HandleLives /\ DiesInService
    /\ Armed /\ SetAfterAttempt /\ ~misuse

-----------------------------------------------------------------------------
(* A timer stays off, or counts up to its interval.                        *)
LEMMA UpFacts ==
    ASSUME NEW n \in Nat \ {0}, NEW age \in {Off} \cup 0 .. n
    PROVE  /\ Up(age, n) \in {Off} \cup 0 .. n
           /\ Up(age, n) = Off <=> age = Off
           /\ age # Off => Up(age, n) >= age /\ (age = n => Up(age, n) = n)
           /\ age # Off /\ age # n => Up(age, n) = age + 1
  BY DEF Up, Off

LEMMA InitOK == Init => IInv
<1> SUFFICES ASSUME Init PROVE IInv
  OBVIOUS
<1>0. ReconnectInterval \in Nat \ {0} /\ MaxAsked \in Nat /\ MaxFault \in Nat
  BY WebSockAssumption DEF WebSockAssumption
<1>1. ~ctx /\ ~misuse /\ ~stepped /\ ctx \in BOOLEAN /\ run \in BOOLEAN /\ ping \in BOOLEAN
      /\ writable \in BOOLEAN /\ misuse \in BOOLEAN /\ stepped \in BOOLEAN
  BY Zenon DEF Init
<1>2. /\ ready = "CLOSED" /\ handle = "null" /\ pc = "start" /\ sock = "none"
      /\ rec = Off /\ hb = Off /\ gap = ReconnectInterval /\ asked = 0 /\ faults = 0
  BY DEF Init
<1>3. Types
  BY <1>0, <1>1, <1>2 DEF Types
<1> QED
  BY <1>1, <1>2, <1>3
     DEF IInv, NoContext, ReadyTracks, HandleLives, DiesInService, Armed,
         SetAfterAttempt

LEMMA TickOK == IInv /\ Tick => IInv'
<1> SUFFICES ASSUME IInv, Tick PROVE IInv'
  OBVIOUS
<1>0. /\ ReconnectInterval \in Nat \ {0} /\ HeartbeatInterval \in Nat \ {0}
      /\ rec \in {Off} \cup 0 .. ReconnectInterval
      /\ hb \in {Off} \cup 0 .. HeartbeatInterval
      /\ gap \in 0 .. ReconnectInterval
  BY WebSockAssumption DEF IInv, Types, WebSockAssumption
<1>1. /\ rec' \in {Off} \cup 0 .. ReconnectInterval
      /\ rec' = Off <=> rec = Off
  BY <1>0, UpFacts DEF Tick
<1>2. /\ hb' \in {Off} \cup 0 .. HeartbeatInterval
      /\ hb' = Off <=> hb = Off
  BY <1>0, UpFacts DEF Tick
<1>3. gap' \in 0 .. ReconnectInterval
  BY <1>0 DEF Tick, Up, Off
<1>4. rec # Off /\ rec <= gap => rec' <= gap'
  BY <1>0 DEF Tick, Up, Off
<1>5. gap = ReconnectInterval => gap' = ReconnectInterval
  BY <1>0 DEF Tick, Up, Off
<1>6. UNCHANGED <<ready, ctx, handle, ping, text, pc, run, sock, writable,
                  asked, frames, misuse, stepped, faults>>
  BY DEF Tick
<1> QED
  BY <1>1, <1>2, <1>3, <1>4, <1>5, <1>6
     DEF IInv, Types, NoContext, ReadyTracks, HandleLives, DiesInService, Armed,
         SetAfterAttempt

LEMMA ClockSetOK == IInv /\ ClockSet => IInv'
<1> SUFFICES ASSUME IInv, ClockSet PROVE IInv'
  OBVIOUS
<1>0. ReconnectInterval \in Nat \ {0} /\ HeartbeatInterval \in Nat \ {0}
  BY WebSockAssumption DEF WebSockAssumption
<1>1. /\ stepped' = TRUE
      /\ rec' \in {Off} \cup 0 .. ReconnectInterval /\ (rec' = Off <=> rec = Off)
      /\ hb' \in {Off} \cup 0 .. HeartbeatInterval /\ (hb' = Off <=> hb = Off)
  BY <1>0 DEF ClockSet, Off
<1>2. UNCHANGED <<ready, ctx, handle, ping, pc, run, sock, writable, asked, gap,
                  misuse, faults>>
  BY DEF ClockSet
<1> QED
  BY <1>1, <1>2
     DEF IInv, Types, NoContext, ReadyTracks, HandleLives, DiesInService, Armed,
         SetAfterAttempt

LEMMA SigTermOK == IInv /\ SigTerm => IInv'
<1> SUFFICES ASSUME IInv, SigTerm PROVE IInv'
  OBVIOUS
<1>1. run' \in BOOLEAN
  BY Zenon DEF SigTerm
<1>2. UNCHANGED <<ready, rec, hb, ctx, handle, ping, pc, sock, writable, asked, gap,
                  misuse, stepped, faults>>
  BY DEF SigTerm, state
<1> QED
  BY <1>1, <1>2
     DEF IInv, Types, NoContext, ReadyTracks, HandleLives, DiesInService, Armed,
         SetAfterAttempt

LEMMA StartOK == IInv /\ Start => IInv'
<1> SUFFICES ASSUME IInv, Start PROVE IInv'
  OBVIOUS
<1>1. /\ pc' = "loop"
      /\ sock = "none" /\ handle = "null" /\ ready = "CLOSED" /\ rec = Off /\ hb = Off
      /\ UNCHANGED <<hb, ping, run, writable, asked, stepped>>
  BY DEF Start, ws_connect, IInv, NoContext
<1>2. ~ctx /\ ~misuse
  BY DEF Start, IInv, NoContext
<1>3. CASE UNCHANGED <<ready, ctx, handle, sock, gap, misuse>> /\ Fault /\ rec' = rec
  <2>1. faults' \in 0 .. MaxFault
    BY <1>3, WebSockAssumption DEF WebSockAssumption, IInv, Types, Fault
  <2> QED
    BY <1>1, <1>2, <1>3, <2>1
       DEF IInv, Types, NoContext, ReadyTracks, HandleLives, DiesInService,
           Armed, SetAfterAttempt, Start
<1>4. CASE /\ ctx' = TRUE /\ gap' = 0
           /\ misuse' = (misuse \/ sock # "none")
           /\ \/ /\ ready' = "CONNECTING" /\ rec' = rec
                 /\ sock' = "connecting" /\ handle' = "live" /\ UNCHANGED faults
              \/ /\ Fault /\ ready' = "CLOSED" /\ rec' = 0
                 /\ handle' = "null" /\ UNCHANGED sock
  <2>1. faults' \in 0 .. MaxFault
    BY <1>4, WebSockAssumption DEF WebSockAssumption, IInv, Types, Fault
  <2>2. ctx' \in BOOLEAN /\ ctx' /\ misuse' \in BOOLEAN /\ ~misuse'
    BY <1>1, <1>2, <1>4, Zenon
  <2>3. /\ gap' = 0
        /\ \/ /\ ready' = "CONNECTING" /\ rec' = Off
              /\ sock' = "connecting" /\ handle' = "live"
           \/ ready' = "CLOSED" /\ rec' = 0 /\ handle' = "null" /\ sock' = "none"
    BY <1>1, <1>4
  <2> QED
    BY <1>1, <2>1, <2>2, <2>3, WebSockAssumption
       DEF WebSockAssumption, Off, IInv, Types, NoContext, ReadyTracks,
           HandleLives, DiesInService, Armed, SetAfterAttempt
<1> QED
  BY <1>3, <1>4, Zenon DEF Start, ws_connect

LEMMA ReconnectOK == IInv /\ Reconnect => IInv'
  BY WebSockAssumption
     DEF WebSockAssumption, Reconnect, Polls, ReconnectDue, ws_connect, Fault,
         state, Off, IInv, Types, NoContext, ReadyTracks, HandleLives,
         DiesInService, Armed, SetAfterAttempt

LEMMA HeartbeatOK == IInv /\ Heartbeat => IInv'
  BY WebSockAssumption
     DEF WebSockAssumption, Heartbeat, Polls, ReconnectDue, HeartbeatDue, Wake,
         state, Off, IInv, Types, NoContext, ReadyTracks, HandleLives,
         DiesInService, Armed, SetAfterAttempt

LEMMA JustPollOK == IInv /\ JustPoll => IInv'
  BY WebSockAssumption
     DEF WebSockAssumption, JustPoll, Polls, ReconnectDue, HeartbeatDue, state, Off,
         IInv, Types, NoContext, ReadyTracks, HandleLives, DiesInService, Armed,
         SetAfterAttempt

LEMMA EstablishedOK == IInv /\ Established => IInv'
  BY WebSockAssumption
     DEF WebSockAssumption, Established, state, Off,
         IInv, Types, NoContext, ReadyTracks, HandleLives, DiesInService, Armed,
         SetAfterAttempt

LEMMA ConnectionErrorOK == IInv /\ ConnectionError => IInv'
  BY WebSockAssumption
     DEF WebSockAssumption, ConnectionError, state, Off,
         IInv, Types, NoContext, ReadyTracks, HandleLives, DiesInService, Armed,
         SetAfterAttempt

LEMMA ClosedOK == IInv /\ Closed => IInv'
  BY WebSockAssumption
     DEF WebSockAssumption, Closed, state, Off,
         IInv, Types, NoContext, ReadyTracks, HandleLives, DiesInService, Armed,
         SetAfterAttempt

LEMMA WsiDestroyOK == IInv /\ WsiDestroy => IInv'
<1> SUFFICES ASSUME IInv, WsiDestroy PROVE IInv'
  OBVIOUS
<1>1. /\ pc \in {"service", "destroy"} /\ sock' = "none" /\ handle' = "dangling"
      /\ ready' = "CLOSED" /\ rec' = 0
      /\ UNCHANGED <<hb, ctx, ping, pc, run, asked, gap, misuse, stepped, faults>>
  BY DEF WsiDestroy, Destroyed
<1>2. writable' \in BOOLEAN
  BY Zenon DEF WsiDestroy, Destroyed
<1>3. Types'
  BY <1>1, <1>2, WebSockAssumption DEF WebSockAssumption, IInv, Types
<1> QED
  BY <1>1, <1>3
     DEF IInv, Types, Off, NoContext, ReadyTracks, HandleLives, DiesInService, Armed,
         SetAfterAttempt

LEMMA ReceiveOK == IInv /\ Receive => IInv'
  BY WebSockAssumption
     DEF WebSockAssumption, Receive, Wake, state, Off,
         IInv, Types, NoContext, ReadyTracks, HandleLives, DiesInService, Armed,
         SetAfterAttempt

LEMMA WriteableOK == IInv /\ Writeable => IInv'
<1> SUFFICES ASSUME IInv, Writeable PROVE IInv'
  OBVIOUS
<1>1. UNCHANGED <<ready, rec, hb, ctx, handle, pc, run, sock, asked, gap, misuse, stepped>>
  BY DEF Writeable
<1>2. ping' \in BOOLEAN /\ writable' \in BOOLEAN
  BY Zenon DEF Writeable
<1>3. faults' \in 0 .. MaxFault
  <2>1. faults' = faults \/ Fault
    BY Zenon DEF Writeable
  <2> QED
    BY <2>1, WebSockAssumption DEF WebSockAssumption, IInv, Types, Fault
<1> QED
  BY <1>1, <1>2, <1>3
     DEF IInv, Types, NoContext, ReadyTracks, HandleLives, DiesInService, Armed,
         SetAfterAttempt

LEMMA ServiceDoneOK == IInv /\ ServiceDone => IInv'
  BY WebSockAssumption
     DEF WebSockAssumption, ServiceDone, state, Off,
         IInv, Types, NoContext, ReadyTracks, HandleLives, DiesInService, Armed,
         SetAfterAttempt

LEMMA CloseOK == IInv /\ Close => IInv'
  BY WebSockAssumption
     DEF WebSockAssumption, Close, state, Off,
         IInv, Types, NoContext, ReadyTracks, HandleLives, DiesInService, Armed,
         SetAfterAttempt

LEMMA ProtocolDestroyOK == IInv /\ ProtocolDestroy => IInv'
<1> SUFFICES ASSUME IInv, ProtocolDestroy PROVE IInv'
  OBVIOUS
<1>1. /\ sock = "none" /\ rec' = Off /\ hb' = Off /\ ready' = "CLOSED" /\ handle' = "null"
      /\ pc' = "done"
      /\ UNCHANGED <<run, sock, writable, asked, gap, misuse, stepped, faults>>
  BY DEF ProtocolDestroy
<1>2. ~ctx' /\ ctx' \in BOOLEAN /\ ping' \in BOOLEAN
  BY Zenon DEF ProtocolDestroy
<1> QED
  BY <1>1, <1>2
     DEF IInv, Types, NoContext, ReadyTracks, HandleLives, DiesInService, Armed,
         SetAfterAttempt


LEMMA NextOK == IInv /\ [Next]_vars => IInv'
<1> SUFFICES ASSUME IInv, [Next]_vars PROVE IInv'
  OBVIOUS
<1>1. CASE UNCHANGED vars
  BY <1>1 DEF vars, state, IInv, Types, NoContext, ReadyTracks, HandleLives,
              DiesInService, Armed, SetAfterAttempt
<1>2. CASE Next
  BY <1>2, TickOK, ClockSetOK, SigTermOK, StartOK, ReconnectOK, HeartbeatOK, JustPollOK,
     EstablishedOK, ConnectionErrorOK, ClosedOK, WsiDestroyOK, ReceiveOK, WriteableOK,
     ServiceDoneOK, CloseOK, ProtocolDestroyOK, Zenon DEF Next, Thread
<1> QED
  BY <1>1, <1>2

LEMMA Invariance == Spec => []IInv
  BY InitOK, NextOK, PTL DEF Spec

(* s_ready_state says what the socket is, whenever the loop looks at it.   *)
THEOREM ReadyStateIsTrue == Spec => []ReadyTracksSocket
<1>1. IInv => ReadyTracksSocket
  BY DEF IInv, Types, ReadyTracks, DiesInService, ReadyTracksSocket
<1> QED
  BY <1>1, Invariance, PTL

(* A connection that is gone has a retry queued: this needs ws_onevent to  *)
(* queue one at each of the library's three ways to report an end.         *)
THEOREM RetryIsQueued == Spec => []RetryArmed
<1>1. IInv => RetryArmed
  BY DEF IInv, Armed, RetryArmed
<1> QED
  BY <1>1, Invariance, PTL

(* No second connection, and no callback asked for on a socket that is     *)
(* gone: s_pWs dangles then, and only s_ready_state keeps it from use.     *)
THEOREM LibraryIsUsedWell == Spec => []LibraryUsedWell
<1>1. IInv => LibraryUsedWell
  BY DEF IInv, LibraryUsedWell
<1> QED
  BY <1>1, Invariance, PTL

(* After ws_close no timer runs that could bring the connection back.      *)
THEOREM CloseIsFinal == Spec => []ClosedForGood
<1>1. IInv => ClosedForGood
  BY DEF IInv, NoContext, ClosedForGood
<1> QED
  BY <1>1, Invariance, PTL

(* Two attempts to connect are RECONNECT_INTERVAL_SEC apart or more, as    *)
(* long as nobody sets the clock.                                          *)
THEOREM RetriesKeepTheirDistance == Spec => RetriesAreSpaced
<1>1. ASSUME IInv, [Next]_vars
      PROVE  [(sock = "none" /\ sock' = "connecting") \/ gap' < gap
                => stepped \/ gap = ReconnectInterval]_vars
  <2> SUFFICES ASSUME Next, ~stepped,
                      (sock = "none" /\ sock' = "connecting") \/ gap' < gap
               PROVE  gap = ReconnectInterval
    BY <1>1
  <2>0. /\ ReconnectInterval \in Nat \ {0} /\ gap \in 0 .. ReconnectInterval
        /\ rec # Off => rec <= gap
        /\ pc = "start" => gap = ReconnectInterval
    BY <1>1, WebSockAssumption DEF WebSockAssumption, IInv, Types, SetAfterAttempt
  <2>1. CASE Start
    BY <2>0, <2>1 DEF Start
  <2>2. CASE Reconnect
    BY <2>0, <2>2 DEF Reconnect, ReconnectDue, Off
  <2>3. CASE Tick
    BY <2>0, <2>3 DEF Tick, Up, Off
  <2>4. ASSUME ~Start, ~Reconnect, ~Tick
        PROVE  gap' = gap /\ (sock' = sock \/ sock' # "connecting")
    BY <2>4 DEF Next, Thread, ClockSet, SigTerm, Heartbeat, JustPoll, Established,
       ConnectionError, Closed, WsiDestroy, Destroyed, Receive, Writeable, ServiceDone,
       Close, ProtocolDestroy
  <2> QED
    BY <2>0, <2>1, <2>2, <2>3, <2>4
<1> QED
  BY <1>1, Invariance, PTL DEF Spec, RetriesAreSpaced

-----------------------------------------------------------------------------
(* The order of the text.  A byte <<n, i>> is byte i of text n.            *)

Bytes == Nat \X Nat

(* What is queued is in order and comes after all that was sent.           *)
Ordered ==
    /\ text \in Seq(Bytes) /\ frames \in Seq(Seq(Bytes)) /\ asked \in Nat
    /\ Len(text) <= WriteBufMax
    /\ \A i \in DOMAIN text : text[i][1] <= asked
    /\ \A i, j \in DOMAIN text : i < j => Before(text[i], text[j])
    /\ \A a \in DOMAIN frames : \A i \in DOMAIN frames[a] :
          /\ frames[a][i][1] <= asked
          /\ \A j \in DOMAIN text : Before(frames[a][i], text[j])
    /\ TextInOrder

(* The ring buffer keeps a tail of what it held and was given.             *)
LEMMA SetDataFacts ==
    ASSUME NEW buf \in Seq(Bytes), NEW data \in Seq(Bytes)
    PROVE  /\ rb_set_data(buf, data) \in Seq(Bytes)
           /\ Len(rb_set_data(buf, data)) <= WriteBufMax
           /\ \E o \in 0 .. Len(buf) + Len(data) :
                 /\ Len(rb_set_data(buf, data)) = Len(buf) + Len(data) - o
                 /\ \A i \in 1 .. Len(buf) + Len(data) - o :
                       rb_set_data(buf, data)[i] = (buf \o data)[i + o]
<1> DEFINE all  == buf \o data
           over == IF Len(all) > WriteBufMax THEN Len(all) - WriteBufMax ELSE 0
<1>1. all \in Seq(Bytes) /\ Len(all) = Len(buf) + Len(data)
  OBVIOUS
<1>2. over \in 0 .. Len(all) /\ Len(all) - over <= WriteBufMax
  BY <1>1, WebSockAssumption DEF WebSockAssumption
<1>3. rb_set_data(buf, data) = SubSeq(all, over + 1, Len(all))
  BY DEF rb_set_data
<1> HIDE DEF all, over
<1>4. /\ SubSeq(all, over + 1, Len(all)) \in Seq(Bytes)
      /\ Len(SubSeq(all, over + 1, Len(all))) = Len(all) - over
  BY <1>1, <1>2
<1>5. \A i \in 1 .. Len(all) - over : SubSeq(all, over + 1, Len(all))[i] = all[i + over]
  BY <1>1, <1>2
<1>6. /\ over \in 0 .. Len(buf) + Len(data)
      /\ Len(rb_set_data(buf, data)) = Len(buf) + Len(data) - over
      /\ Len(buf) + Len(data) - over <= WriteBufMax
      /\ \A i \in 1 .. Len(buf) + Len(data) - over :
            rb_set_data(buf, data)[i] = all[i + over]
  BY <1>1, <1>2, <1>3, <1>4, <1>5
<1>7. Len(rb_set_data(buf, data)) <= WriteBufMax
  BY <1>6
<1> QED
  BY <1>3, <1>4, <1>6, <1>7 DEF all

LEMMA ConcatFacts ==
    ASSUME NEW p \in Seq(Bytes), NEW r \in Seq(Bytes), NEW i \in 1 .. Len(p) + Len(r)
    PROVE  /\ i <= Len(p) => i \in DOMAIN p /\ (p \o r)[i] = p[i]
           /\ i > Len(p) => i - Len(p) \in 1 .. Len(r) /\ (p \o r)[i] = r[i - Len(p)]
<1>1. Len(p) \in Nat /\ Len(r) \in Nat /\ i \in Nat
  OBVIOUS
<1>2. CASE i <= Len(p)
  BY <1>1, <1>2
<1>3. CASE i > Len(p)
  BY <1>1, <1>3
<1> QED
  BY <1>1, <1>2, <1>3

LEMMA TextFacts ==
    ASSUME NEW n \in Nat, NEW len \in Nat
    PROVE  /\ Text(n, len) \in Seq(Bytes) /\ Len(Text(n, len)) = len
           /\ \A i \in 1 .. len : Text(n, len)[i] = <<n, i>>
<1>1. \A i \in 1 .. len : <<n, i>> \in Bytes
  BY DEF Bytes
<1> QED
  BY <1>1 DEF Text

(* A new text is queued behind the others; the oldest bytes may go.        *)
LEMMA QueuedInOrder ==
    ASSUME Ordered, asked' = asked + 1, frames' = frames, NEW len \in Nat,
           text' = rb_set_data(text, Text(asked', len))
    PROVE  Ordered'
<1> DEFINE new == Text(asked', len)
<1>1. /\ asked \in Nat /\ asked' \in Nat /\ text \in Seq(Bytes)
      /\ new \in Seq(Bytes) /\ Len(new) = len
      /\ \A i \in 1 .. len : new[i] = <<asked + 1, i>>
  <2>1. asked \in Nat /\ asked' \in Nat /\ text \in Seq(Bytes)
    BY DEF Ordered
  <2>2. /\ Text(asked', len) \in Seq(Bytes) /\ Len(Text(asked', len)) = len
        /\ \A i \in 1 .. len : Text(asked', len)[i] = <<asked', i>>
    BY <2>1, TextFacts
  <2> QED
    BY <2>1, <2>2
<1>2. text' = rb_set_data(text, new)
  OBVIOUS
<1> HIDE DEF new
<1>3. text' \in Seq(Bytes) /\ Len(text') <= WriteBufMax /\ Len(text) \in Nat
  BY <1>1, <1>2, SetDataFacts
<1>4. \E o \in 0 .. Len(text) + len :
         /\ Len(text') = Len(text) + len - o
         /\ \A i \in 1 .. Len(text) + len - o : text'[i] = (text \o new)[i + o]
  <2>1. \E o \in 0 .. Len(text) + Len(new) :
           /\ Len(rb_set_data(text, new)) = Len(text) + Len(new) - o
           /\ \A i \in 1 .. Len(text) + Len(new) - o :
                 rb_set_data(text, new)[i] = (text \o new)[i + o]
    BY <1>1, SetDataFacts
  <2> QED
    BY <1>1, <1>2, <2>1
<1>5. PICK o \in 0 .. Len(text) + len :
         /\ Len(text') = Len(text) + len - o
         /\ \A i \in 1 .. Len(text) + len - o : text'[i] = (text \o new)[i + o]
  BY <1>4
<1>6. ASSUME NEW i \in DOMAIN text'
      PROVE  /\ i \in Nat
             /\ \/ i + o \in DOMAIN text /\ text'[i] = text[i + o]
                \/ i + o > Len(text) /\ text'[i] = <<asked + 1, i + o - Len(text)>>
  <2>1. /\ i \in 1 .. Len(text) + len - o /\ i \in Nat
        /\ i + o \in 1 .. Len(text) + Len(new)
    BY <1>1, <1>3, <1>5
  <2>2. CASE i + o <= Len(text)
    BY <1>1, <1>5, <2>1, <2>2, ConcatFacts
  <2>3. CASE i + o > Len(text)
    <3>1. /\ i + o - Len(text) \in 1 .. len
          /\ (text \o new)[i + o] = new[i + o - Len(text)]
      BY <1>1, <2>1, <2>3, ConcatFacts
    <3> QED
      BY <1>1, <1>5, <2>1, <2>3, <3>1
  <2> QED
    BY <1>3, <2>1, <2>2, <2>3
<1>7. \A i \in DOMAIN text' : text'[i][1] <= asked'
  <2> SUFFICES ASSUME NEW i \in DOMAIN text' PROVE text'[i][1] <= asked'
    OBVIOUS
  <2>1. CASE i + o \in DOMAIN text /\ text'[i] = text[i + o]
    <3>1. text[i + o] \in Bytes /\ text[i + o][1] <= asked
      BY <1>1, <2>1 DEF Ordered
    <3> QED
      BY <1>1, <2>1, <3>1 DEF Bytes
  <2>2. CASE text'[i] = <<asked + 1, i + o - Len(text)>>
    BY <1>1, <2>2
  <2> QED
    BY <1>6, <2>1, <2>2
<1>8. \A i, j \in DOMAIN text' : i < j => Before(text'[i], text'[j])
  <2> SUFFICES ASSUME NEW i \in DOMAIN text', NEW j \in DOMAIN text', i < j
               PROVE  Before(text'[i], text'[j])
    OBVIOUS
  <2>1. i \in Nat /\ j \in Nat /\ o \in Nat /\ Len(text) \in Nat
    BY <1>3, <1>5, <1>6
  <2>2. CASE i + o \in DOMAIN text /\ j + o \in DOMAIN text
    <3>1. text'[i] = text[i + o] /\ text'[j] = text[j + o] /\ i + o < j + o
      <4>1. DOMAIN text = 1 .. Len(text)
        BY <1>1
      <4> QED
        BY <1>6, <2>1, <2>2, <4>1
    <3> QED
      BY <2>2, <3>1 DEF Ordered
  <2>3. CASE i + o \in DOMAIN text /\ j + o > Len(text)
    <3>1. text'[i] = text[i + o] /\ text'[j] = <<asked + 1, j + o - Len(text)>>
      <4>1. DOMAIN text = 1 .. Len(text)
        BY <1>1
      <4>2. ~(j + o \in DOMAIN text) /\ ~(i + o > Len(text))
        BY <2>1, <2>3, <4>1
      <4> QED
        BY <1>6, <2>3, <4>2
    <3> QED
      BY <1>1, <3>1, <2>3 DEF Ordered, Before, Bytes
  <2>4. CASE i + o > Len(text)
    <3>1. /\ text'[i] = <<asked + 1, i + o - Len(text)>>
          /\ text'[j] = <<asked + 1, j + o - Len(text)>>
      BY <1>1, <1>6, <2>1, <2>4
    <3> QED
      BY <1>1, <3>1, <2>1 DEF Before
  <2> QED
    BY <1>1, <1>6, <2>2, <2>3, <2>4
<1>9. ASSUME NEW a \in DOMAIN frames, NEW i \in DOMAIN frames[a]
      PROVE  /\ frames[a][i][1] <= asked'
             /\ \A j \in DOMAIN text' : Before(frames[a][i], text'[j])
  <2>1. frames[a][i] \in Bytes /\ frames[a][i][1] <= asked
    BY DEF Ordered
  <2>2. ASSUME NEW j \in DOMAIN text' PROVE Before(frames[a][i], text'[j])
    <3>1. CASE j + o \in DOMAIN text /\ text'[j] = text[j + o]
      BY <3>1 DEF Ordered
    <3>2. CASE text'[j] = <<asked + 1, j + o - Len(text)>>
      BY <1>1, <2>1, <3>2 DEF Before, Bytes
    <3> QED
      BY <1>6, <3>1, <3>2
  <2> QED
    BY <1>1, <2>1, <2>2 DEF Bytes
<1> QED
  BY <1>1, <1>3, <1>7, <1>8, <1>9 DEF Ordered, TextInOrder

(* A frame takes the first k bytes of the text, or none; what is left of   *)
(* the text is some of what followed them.                                 *)
LEMMA SentInOrder ==
    ASSUME Ordered, asked' = asked, NEW k \in 0 .. Len(text), frames' = Framed(k),
           text' \in Seq(Bytes), NEW o \in Nat, k <= o, Len(text') + o <= Len(text),
           \A i \in 1 .. Len(text') : text'[i] = text[i + o]
    PROVE  Ordered'
<1>1. text \in Seq(Bytes) /\ asked \in Nat /\ frames \in Seq(Seq(Bytes))
  BY DEF Ordered
<1>6. Len(text') <= WriteBufMax
  BY <1>1, WebSockAssumption DEF Ordered, WebSockAssumption
<1>2. ASSUME NEW i \in DOMAIN text'
      PROVE  i \in Nat /\ i + o \in DOMAIN text /\ text'[i] = text[i + o]
  <2>1. i \in 1 .. Len(text') /\ Len(text') \in Nat /\ Len(text) \in Nat /\ i \in Nat
    BY <1>1
  <2>2. i + o \in 1 .. Len(text)
    BY <2>1
  <2> QED
    BY <1>1, <2>1, <2>2
<1>3. /\ \A i \in DOMAIN text' : text'[i][1] <= asked'
      /\ \A i, j \in DOMAIN text' : i < j => Before(text'[i], text'[j])
  BY <1>1, <1>2 DEF Ordered
<1>4. CASE k = 0
  BY <1>1, <1>6, <1>2, <1>3, <1>4 DEF Ordered, TextInOrder, Framed
<1>5. CASE k # 0
  <2> DEFINE new == SubSeq(text, 1, k)
             last == Len(frames) + 1
  <2>1. /\ new \in Seq(Bytes) /\ Len(new) = k
        /\ \A i \in 1 .. k : new[i] = text[i] /\ i \in DOMAIN text
    BY <1>1
  <2>2. /\ frames' = Append(frames, new) /\ frames' \in Seq(Seq(Bytes))
    BY <1>1, <1>5, <2>1 DEF Framed
  <2> HIDE DEF new
  <2>3. /\ Len(frames') = last /\ last \in Nat /\ frames'[last] = new
        /\ DOMAIN frames' = 1 .. last /\ DOMAIN frames = 1 .. Len(frames)
        /\ \A a \in DOMAIN frames : a \in Nat /\ a < last /\ frames'[a] = frames[a]
    BY <1>1, <2>1, <2>2
  <2>4. DOMAIN new = 1 .. k
    BY <2>1
  <2> HIDE DEF last
  <2>5. \A a \in DOMAIN frames' : a \in DOMAIN frames \/ a = last
    BY <1>1, <2>3 DEF last
  <2>6. ASSUME NEW i \in DOMAIN new
        PROVE  /\ new[i][1] <= asked
               /\ \A j \in DOMAIN text' : Before(new[i], text'[j])
    BY <1>1, <1>2, <2>1, <2>4 DEF Ordered
  <2>7. \A a \in DOMAIN frames' : \A i \in DOMAIN frames'[a] :
           /\ frames'[a][i][1] <= asked'
           /\ \A j \in DOMAIN text' : Before(frames'[a][i], text'[j])
    BY <1>2, <2>3, <2>5, <2>6 DEF Ordered
  <2>8. ASSUME NEW a \in DOMAIN frames', NEW b \in DOMAIN frames',
               NEW i \in DOMAIN frames'[a], NEW j \in DOMAIN frames'[b],
               Before(<<a, i>>, <<b, j>>)
        PROVE  Before(frames'[a][i], frames'[b][j])
    <3>1. a < b \/ (a = b /\ i < j)
      BY <2>8 DEF Before
    <3>2. CASE a \in DOMAIN frames /\ b \in DOMAIN frames
      BY <2>3, <2>8, <3>2 DEF Ordered, TextInOrder
    <3>3. CASE a \in DOMAIN frames /\ b = last
      BY <2>1, <2>3, <2>4, <3>3 DEF Ordered
    <3>4. CASE a = last /\ b = last
      BY <1>1, <2>1, <2>3, <2>4, <3>1, <3>4 DEF Ordered
    <3>5. CASE a = last /\ b \in DOMAIN frames
      BY <2>3, <3>1, <3>5
    <3> QED
      BY <2>5, <3>2, <3>3, <3>4, <3>5
  <2> QED
    BY <1>1, <1>6, <1>3, <2>2, <2>7, <2>8 DEF Ordered, TextInOrder
<1> QED
  BY <1>4, <1>5

LEMMA OrderedInit == Init => Ordered
  BY WebSockAssumption DEF WebSockAssumption, Init, Ordered, TextInOrder

LEMMA OrderedNext == Ordered /\ [Next]_vars => Ordered'
<1> SUFFICES ASSUME Ordered, [Next]_vars PROVE Ordered'
  OBVIOUS
<1>0. text \in Seq(Bytes) /\ Len(text) \in Nat
  BY DEF Ordered
<1>1. CASE UNCHANGED <<text, frames, asked>>
  BY <1>1 DEF Ordered, TextInOrder
<1>2. CASE Receive
  <2>1. PICK len \in Lengths :
           text' = rb_set_data(text, Text(asked', IF len > WriteBufMax THEN WriteBufMax ELSE len))
    BY <1>2 DEF Receive
  <2>2. (IF len > WriteBufMax THEN WriteBufMax ELSE len) \in Nat
    BY WebSockAssumption DEF WebSockAssumption
  <2>3. asked' = asked + 1 /\ frames' = frames
    BY <1>2 DEF Receive
  <2> QED
    BY <2>1, <2>2, <2>3, QueuedInOrder
<1>3. ASSUME text' = << >>, asked' = asked, NEW k \in 0 .. Len(text), frames' = Framed(k)
      PROVE  Ordered'
  BY <1>0, <1>3, SentInOrder
<1>4. CASE Writeable
  <2>1. asked' = asked
    BY <1>4 DEF Writeable
  <2>2. CASE text' = << >> /\ frames' = Framed(Len(text))
    BY <1>0, <1>3, <2>1, <2>2
  <2>3. CASE text' = << >> /\ UNCHANGED frames
    BY <1>0, <1>3, <2>1, <2>3 DEF Framed
  <2>4. ASSUME NEW k \in 0 .. Len(text) - 1, text' = Reload(k), frames' = Framed(k)
        PROVE  Ordered'
    <3> DEFINE rest == SubSeq(text, k + 1, Len(text))
    <3>1. /\ rest \in Seq(Bytes) /\ Len(rest) = Len(text) - k
          /\ \A i \in 1 .. Len(text) - k : rest[i] = text[i + k]
      BY <1>0
    <3> HIDE DEF rest
    <3>2. << >> \in Seq(Bytes) /\ << >> \o rest = rest /\ text' = rb_set_data(<< >>, rest)
      BY <2>4, <3>1 DEF Reload, rest
    <3>3. PICK o \in 0 .. Len(rest) :
             /\ Len(text') = Len(rest) - o
             /\ \A i \in 1 .. Len(rest) - o : text'[i] = rest[i + o]
      <4>1. \E o \in 0 .. Len(<< >>) + Len(rest) :
               /\ Len(text') = Len(<< >>) + Len(rest) - o
               /\ \A i \in 1 .. Len(<< >>) + Len(rest) - o :
                     text'[i] = (<< >> \o rest)[i + o]
        BY <3>1, <3>2, SetDataFacts
      <4>2. Len(<< >>) = 0 /\ Len(rest) \in Nat
        BY <3>1
      <4> QED
        BY <3>2, <4>1, <4>2
    <3>4. text' \in Seq(Bytes)
      BY <3>1, <3>2, SetDataFacts
    <3>5. /\ o + k \in Nat /\ k <= o + k /\ Len(text') + (o + k) <= Len(text)
          /\ \A i \in 1 .. Len(text') : text'[i] = text[i + (o + k)]
      BY <1>0, <3>1, <3>3, <3>4
    <3> QED
      <4>1. k \in 0 .. Len(text)
        BY <1>0, <2>4
      <4>2. ASSUME NEW q \in Nat, k <= q, Len(text') + q <= Len(text),
                   \A i \in 1 .. Len(text') : text'[i] = text[i + q]
            PROVE  Ordered'
        BY <2>1, <2>4, <3>4, <4>1, <4>2, SentInOrder
      <4> QED
        BY <3>5, <4>2
  <2> QED
    BY <1>4, <2>2, <2>3, <2>4 DEF Writeable
<1>5. CASE ProtocolDestroy
  BY <1>0, <1>3, <1>5 DEF ProtocolDestroy, Framed
<1>6. ASSUME Next, ~Receive, ~Writeable, ~ProtocolDestroy
      PROVE  UNCHANGED <<text, frames, asked>>
  BY <1>6
     DEF Next, Thread, Tick, ClockSet, SigTerm, Start, Reconnect, ws_connect,
         Heartbeat, JustPoll, Established, ConnectionError, Closed, WsiDestroy,
         Destroyed, ServiceDone, Close, state
<1> QED
  BY <1>1, <1>2, <1>4, <1>5, <1>6 DEF vars, state

(* The text goes out in the order it was queued and no byte twice, however *)
(* the library truncates writes and however many texts overflow the buffer.*)
THEOREM TextStaysInOrder == Spec => []TextInOrder
<1>1. Ordered => TextInOrder
  BY DEF Ordered
<1> QED
  BY <1>1, OrderedInit, OrderedNext, PTL DEF Spec

(* Each timer is off or not older than its interval, and the text never    *)
(* outgrows WRITE_BUF_MAX.                                                 *)
THEOREM TypeCorrect == Spec => []TypeOK
<1>1. IInv /\ Ordered => TypeOK
  BY DEF IInv, Ordered, TypeOK
<1> QED
  BY <1>1, Invariance, OrderedInit, OrderedNext, PTL DEF Spec
=============================================================================
