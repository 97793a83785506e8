---------------------------- MODULE MCRouterPort ----------------------------
(***************************************************************************)
(* Frames for the model checker.                                           *)
(***************************************************************************)
EXTENDS RouterPort

(* What the daemon asks for, and what is refused.                          *)
MCRequests ==
    { [type |-> "WRITE", reg |-> "OUT", value |-> {0}, mask |-> {0}],
      [type |-> "PULSE_BIT", reg |-> "OUT", bit |-> 8] }

(* A notification, a PING as another program on the line might send it.    *)
MCAnswers ==
    { [type |-> "SUBSCRIBE", reg |-> "OUT", value |-> {0}, cancel |-> FALSE],
      [type |-> "PING", arg |-> 2] }
=============================================================================
