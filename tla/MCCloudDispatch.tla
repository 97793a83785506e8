-------------------------- MODULE MCCloudDispatch --------------------------
(* One message for each way through dispatch_msg.                          *)
EXTENDS CloudDispatch

Pulse(args) == Array(<<Str("pulseRelay")>> \o args)
Write(args) == Array(<<Str("writeOutputRegister")>> \o args)

MCMessages ==
    { Garbage, Object, Array(<< >>), Array(<<Num(1), Num(2), Num(3)>>),
      Array(<<Str("hello"), Str("id")>>), Array(<<Str("requestIpv4Addresses")>>),
      Pulse(<< >>), Pulse(<<Num(3), Num(200)>>), Pulse(<<NumStr(6)>>),
      Pulse(<<Num(0), Other>>), Pulse(<<Num(8), Num(1)>>), Pulse(<<Num(257), Num(1)>>),
      Pulse(<<Num(3), Num(256)>>), Pulse(<<Num(-1), Num(9)>>),
      Write(<<Num(255), Num(36)>>), Write(<<Num(65), NumStr(129)>>), Write(<<Num(256), Num(1)>>),
      Write(<<Num(4)>>), Write(<<Num(1), Num(-1)>>), Write(<<Other, Num(4)>>),
      Write(<<Num(255), Num(511)>>) }
=============================================================================
