---------------------------- MODULE DeviceConfig ----------------------------
(***************************************************************************)
(* What the daemon finds out before it connects (H/daemon.c, H/ipaddr.h):  *)
(* the serial number in the flash, the router's addresses, which with it   *)
(* make the path of the web socket's URL, and the host and port of the     *)
(* server from /etc/config/cloudcfg.                                       *)
(*                                                                         *)
(* A text is the sequence of its characters, but for an address only the   *)
(* length of its text counts.                                              *)
(***************************************************************************)
EXTENDS Integers, Sequences

Missing == <<"missing">>   \* a file that cannot be opened, or not be read

DEFAULT_SERNO == [i \in 1 .. 9 |-> "0"]
WEB_HOST == <<"p", "u", "b", "s", "u", "b", ".", "r", "e", "s", "t", "-",
              "s", "w", "i", "t", "c", "h", ".", "c", "o", "m">>
UrlSize == 64       \* main's url, webhost
HostSize == 64
DelimLen == 9       \* of "%20%7c%20"

(* The position of the first c in s, and what stands before it; behind the *)
(* end, and all of s, when there is none.                                  *)
Position(c, s) ==
    CHOOSE i \in 1 .. Len(s) + 1 : (i <= Len(s) => s[i] = c) /\ \A j \in 1 .. i - 1 : s[j] # c
Before(c, s) == SubSeq(s, 1, Position(c, s) - 1)

(* get_serial, or main's default when it fails: nine bytes of the flash,   *)
(* whatever they are, up to a NUL.                                         *)
SerialNumber(flash) ==
    IF flash = Missing \/ Len(flash) < 9 THEN DEFAULT_SERNO
    ELSE Before("NUL", SubSeq(flash, 1, 9))

(* Of "/ws/" serno "/".                                                    *)
UrlPrefixLen(serno) == 4 + Len(serno) + 1

-----------------------------------------------------------------------------
(* get_ipv4_addresses.                                                     *)

Counts(ifa) == ifa.inet /\ ~ifa.loopback /\ ifa.up /\ ifa.running

(* Faulty variant: the separator is forgotten in the test.                 *)
Fits_nodelim(len, ip_len, p_buflen) == len + ip_len + 1 <= p_buflen
Fits(len, ip_len, p_buflen) == len + DelimLen + ip_len + 1 <= p_buflen

(* The addresses written, the characters they take, and whether one did    *)
(* not fit, with which the loop ends.                                      *)
AddAddress(s, ifa, p_buflen) ==
    CASE ~Counts(ifa) \/ s.full -> s
      [] Counts(ifa) /\ ~s.full /\ ~Fits(s.len, ifa.len, p_buflen) -> [s EXCEPT !.full = TRUE]
      [] OTHER -> [s EXCEPT !.ips = Append(s.ips, ifa),
                            !.len = s.len + ifa.len + (IF s.len > 0 THEN DelimLen ELSE 0)]

get_ipv4_addresses(ifs, p_buflen) ==
    LET loop[k \in 0 .. Len(ifs)] ==
          IF k = 0 THEN [ips |-> << >>, len |-> 0, full |-> FALSE]
                   ELSE AddAddress(loop[k - 1], ifs[k], p_buflen)
        s == loop[Len(ifs)]
    IN  [rc |-> IF s.len < 7 THEN -1 ELSE 0, ips |-> s.ips, len |-> s.len]

(* As main calls it, until it returns 0.                                   *)
UrlAddresses(serno, ifs) == get_ipv4_addresses(ifs, UrlSize - UrlPrefixLen(serno) - 1)

-----------------------------------------------------------------------------
(* get_cloudcfg.                                                           *)

Digits == [d \in {"0", "1", "2", "3", "4", "5", "6", "7", "8", "9"} |->
             CASE d = "0" -> 0 [] d = "1" -> 1 [] d = "2" -> 2 [] d = "3" -> 3
               [] d = "4" -> 4 [] d = "5" -> 5 [] d = "6" -> 6 [] d = "7" -> 7
               [] d = "8" -> 8 [] d = "9" -> 9]

(* The number at the beginning of a text without blanks and signs.         *)
LeadingDigits(s) ==
    LET n == CHOOSE i \in 0 .. Len(s) : /\ \A j \in 1 .. i : s[j] \in DOMAIN Digits
                                        /\ i < Len(s) => s[i + 1] \notin DOMAIN Digits
    IN  SubSeq(s, 1, n)
atoi(s) ==
    LET digits == LeadingDigits(s)
        value[k \in 0 .. Len(digits)] ==
          IF k = 0 THEN 0 ELSE 10 * value[k - 1] + Digits[digits[k]]
    IN  value[Len(digits)]

(* Position of the first ':' before the line's last character, or that of  *)
(* the last character.                                                     *)
Colon(line) == Position(":", SubSeq(line, 1, Len(line) - 1))

(* Faulty variant: the last character, the newline, is kept.               *)
HostOf_newline(line) ==
    IF Colon(line) < Len(line) THEN SubSeq(line, 1, Colon(line) - 1) ELSE line

HostOf(line) == SubSeq(line, 1, Colon(line) - 1)

PortOf(line) ==
    IF Colon(line) < Len(line) THEN atoi(SubSeq(line, Colon(line) + 1, Len(line))) ELSE 0

(* line is the file's first line, its newline included if it has one.      *)
get_cloudcfg(line, p_len) ==
    IF p_len < 16 \/ line = Missing THEN [rc |-> -1, host |-> << >>, port |-> 0]
    ELSE IF Len(line) = 0 \/ Len(line) > p_len THEN [rc |-> -1, host |-> << >>, port |-> 0]
    ELSE [rc |-> 0, host |-> HostOf(line), port |-> PortOf(line)]

(* The server main connects to.                                            *)
Server(line) ==
    LET cfg == get_cloudcfg(line, HostSize)
    IN  [host |-> IF cfg.rc # 0 THEN WEB_HOST ELSE cfg.host,
         port |-> IF cfg.port = 0 THEN 443 ELSE cfg.port]
=============================================================================
