---------------------------- MODULE LineSettings ----------------------------
(***************************************************************************)
(* The settings of the serial line, which its two ends make separately:    *)
(* sp_init and its table of rates on the router (H/serial.c), and the      *)
(* registers of the UART on the AVR (A/serial.cpp).  Both take the rate as *)
(* a uint16_t.                                                             *)
(***************************************************************************)
EXTENDS Integers

F_CPU == 16000000   \* MCU_HZ of avr/Makefile

(* Faulty variant: the rate is not rounded.                                *)
Divisor_down(p_baud) == (F_CPU \div 8) \div p_baud
Divisor(p_baud) == (((F_CPU \div 4) \div p_baud) - 1) \div 2

(* UBRRH has four bits; written with its highest bit set, the byte goes to *)
(* UCSRC instead, and UBRRH stays 0.  U2X is on: eight samples to a bit.   *)
Ubrr(p_baud) ==
    LET ubrr == Divisor(p_baud) % 2^16
    IN  IF ubrr >= 2^15 THEN ubrr % 256 ELSE ubrr % 4096

Format(p_parity) ==
    IF p_parity THEN [data |-> 7, parity |-> "even", stop |-> 1]
                ELSE [data |-> 8, parity |-> "none", stop |-> 1]

(* SerialPort::init: the bits per second and the format.                   *)
init(p_baud, p_parity) ==
    [rate |-> F_CPU \div (8 * (Ubrr(p_baud) + 1)), format |-> Format(p_parity)]

(* sp_parse_baudrate.                                                      *)
Rates == {50, 75, 110, 134, 150, 200, 300, 600, 1200, 1800, 2400, 4800, 9600,
          19200, 38400, 57600, 115200, 230400, 460800, 500000, 576000, 921600,
          1000000, 1152000, 1500000, 2000000, 2500000, 3000000, 3500000, 4000000}

uint16(n) == n % 2^16

(* sp_init: whether it takes the rate, and what it asks of the tty.        *)
sp_init(p_baud, p_parity) ==
    LET baud == uint16(p_baud)
    IN  [ok |-> baud \in Rates, rate |-> baud,
         format |-> IF p_parity THEN [data |-> 7, parity |-> "even", stop |-> 1]
                                ELSE [data |-> 8, parity |-> "none", stop |-> 1]]
=============================================================================
