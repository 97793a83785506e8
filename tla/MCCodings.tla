----------------------------- MODULE MCCodings ------------------------------
(***************************************************************************)
(* Inputs for the model checker.                                           *)
(***************************************************************************)
EXTENDS Codings

MCPayloads == { <<0, 0, 0, 0>>, <<255, 255, 255, 255>>, <<4, 1, 250, 159>> }
MCChars == 0 .. 127

(* Single bits, pairs and runs of bits, and times of our days.             *)
MCTimes ==
    {{i, j} : i, j \in 0 .. 63} \cup {0 .. i : i \in 0 .. 63} \cup {{}} \cup
    {{40, 38, 35, 34} \cup s : s \in SUBSET {0, 4, 5, 9, 17, 31}}

(* All short lines, with and without a newline, and long ones.             *)
Text == {"h", ":", "8", "0"}
Short == UNION {[1 .. n -> Text] : n \in 0 .. 4}
Long == {[i \in 1 .. n |-> "h"] : n \in 60 .. 65}
MCLines == {D!Missing} \cup Short \cup {s \o <<"\n">> : s \in Short}
             \cup Long \cup {s \o <<"\n">> : s \in Long} \cup {s \o <<":", "8", "\n">> : s \in Long}

(* A serial number, a flash that is too short, or has a NUL.               *)
MCFlashes ==
    {D!Missing, [i \in 1 .. 12 |-> "a"], [i \in 1 .. 8 |-> "a"],
     [i \in 1 .. 9 |-> IF i = 1 THEN "NUL" ELSE "a"]}

(* Up to four of: the shortest and the longest address, one in between,   *)
(* and interfaces that do not count for one reason each.                   *)
If(n) == [len |-> n, inet |-> TRUE, loopback |-> FALSE, up |-> TRUE, running |-> TRUE]
MCInterface ==
    {If(7), If(11), If(12), If(15), [If(9) EXCEPT !.loopback = TRUE], [If(9) EXCEPT !.up = FALSE],
     [If(9) EXCEPT !.running = FALSE], [If(9) EXCEPT !.inet = FALSE]}
MCInterfaces == UNION {[1 .. n -> MCInterface] : n \in 0 .. 4}

MCBauds == L!Rates \cup {9601, 65536 + 57600}
=============================================================================
