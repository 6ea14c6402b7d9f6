------------------------------- MODULE Serial -------------------------------
(***************************************************************************)
(* The speeds of the two serial ports.  The host asks its operating system *)
(* for a speed and gets just that; the target divides a clock of 50 MHz by *)
(* 32 (SCBRR2 + 1), or is clocked by the cable.                            *)
(***************************************************************************)
EXTENDS Integers

CONSTANTS Known,     \* the speeds the host's termios has constants for
          AnySpeed   \* the host can be set to any speed (BOTHER, IOSSIOSPEED)

Initial == 57600      \* INITIAL_SPEED, on both ends
External == 0         \* what scif_init takes for "use the external clock"
Clock == 50000000
Tolerance == 5        \* per cent by which the two ends of a line may differ

ASSUME SerialAssumption ==
    /\ Known \subseteq Nat \ {0}
    /\ {38400, 19200, 9600} \subseteq Known
    /\ AnySpeed \in BOOLEAN

(* get_supported_speed: a speed termios does not know is replaced by the   *)
(* initial one, and that by 38400.                                         *)
FallBack(speed) == IF speed = Initial THEN 38400 ELSE Initial
SupportedSpeed(speed) ==
    IF AnySpeed \/ speed \in Known THEN speed
    ELSE IF FallBack(speed) \in Known THEN FallBack(speed)
    ELSE 38400

(* The divisor that scif_init writes to SCBRR2, an 8-bit register, and the *)
(* speed it makes.                                                         *)
Divisor(bps) == ((Clock \div (32 * bps)) - 1) % 256
Rate(bps) == Clock \div (32 * (Divisor(bps) + 1))

(* Bytes sent at one speed can be read at the other.                       *)
Meets(a, b) == 100 * (IF a < b THEN b - a ELSE a - b) <= Tolerance * a

(* The speed that the target is told of, for the host's own.  With -e it   *)
(* is told another one, for which it takes the next divisor.               *)
ToldSpeed(speed, hack, external) ==
    IF hack /\ speed = 115200 THEN 111607
    ELSE IF hack /\ speed = 230400 THEN 223214
    ELSE IF external THEN External
    ELSE speed
=============================================================================
