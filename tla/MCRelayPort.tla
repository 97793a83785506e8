---------------------------- MODULE MCRelayPort ----------------------------
EXTENDS RelayPort

(* No bit, one from each nibble, both nibbles asymmetric, all bits.        *)
MCValues == {{}, {0, 6}, {1, 2, 3, 4}, {0, 2, 5, 7}, Bits}
=============================================================================
