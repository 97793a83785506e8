----------------------------- MODULE MCAvrNode -----------------------------
(***************************************************************************)
(* Command sets for the model checker: one frame for each way through      *)
(* process_message that does something of its own, and the few that meet   *)
(* in the deeper runs.                                                     *)
(***************************************************************************)
EXTENDS AvrNode

EachWay ==
    { Ping(1), Pong(1), [type |-> "UNKNOWN"], ReadRegister("OUT"),
      WriteRegister("OUT", {0, 5}, {0, 1, 5}), WriteRegister("IN", {0}, {0}),
      WriteRegisterBit("OUT", 1, FALSE), WriteRegisterBit("OUT", 6, TRUE),
      WriteRegisterBit("OUT", 8, TRUE),
      PulseRegisterBit("OUT", 6), PulseRegisterBit("IN", 6),
      SubscribeRegister("IN", {}, FALSE), SubscribeRegister("IN", {}, TRUE),
      SubscribeRegister("OUT", {}, FALSE), SubscribeRegister("OUT", {}, TRUE),
      SubscribeRegister("?", {}, FALSE) }

Followed ==
    { SubscribeRegister("OUT", {}, FALSE), SubscribeRegister("IN", {}, FALSE),
      WriteRegisterBit("OUT", 1, TRUE) }

(* Bytes that belong to no command.                                        *)
MCStrays == {Newline}
=============================================================================
