----------------------------- MODULE PacketHead ------------------------------
(***************************************************************************)
(* The head of a packet (packet.h, packet.cpp): where its fields lie, and  *)
(* what the accessors do on a packet of a given length.  Offsets are those *)
(* of the code in units of INT = sizeof(int); sizeof(time_t) = 2 * INT.    *)
(***************************************************************************)
EXTENDS Integers

CONSTANT INT

ASSUME IntAssumption == INT \in Nat \ {0}

PACKET_ID_OFFSET          == 0
PACKET_VERSION_OFFSET     == INT
PACKET_TIMESTAMP_OFFSET   == 2 * INT
PACKET_BODY_LENGTH_OFFSET == 4 * INT
PACKET_EXTRA_OFFSET       == 5 * INT
PACKET_BODY_OFFSET        == 6 * INT
PACKET_HEAD_LENGTH        == 6 * INT

Fields == {"id", "version", "time", "bodylength", "extra"}

Offset(f) ==
    CASE f = "id"         -> PACKET_ID_OFFSET
      [] f = "version"    -> PACKET_VERSION_OFFSET
      [] f = "time"       -> PACKET_TIMESTAMP_OFFSET
      [] f = "bodylength" -> PACKET_BODY_LENGTH_OFFSET
      [] f = "extra"      -> PACKET_EXTRA_OFFSET

SizeOf(f) == IF f = "time" THEN 2 * INT ELSE INT

(* Faulty: a packet that reaches its last field is taken to be valid. *)
ValidIfExtra(length) == length > PACKET_EXTRA_OFFSET - INT

is_valid(length) == length >= PACKET_HEAD_LENGTH

(* An accessor returns 0 without reading if its field does not begin ... *)
Absent(f, length) == length <= Offset(f)

(* ... and read<T> asserts that the field does not end behind the packet. *)
Truncated(f, length) == ~Absent(f, length) /\ SizeOf(f) > length - Offset(f)

(* Faulty: a body that ends with the packet is taken to be too long. *)
BodyResultTooStrict(length, bodylength) ==
    IF length <= PACKET_BODY_OFFSET \/ PACKET_BODY_OFFSET + bodylength >= length
    THEN 0 ELSE bodylength

(***************************************************************************)
(* body(data) gives nothing: the packet's length does not reach the body,  *)
(* or the value of the field bodylength exceeds it.  Otherwise data        *)
(* becomes bodylength bytes from PACKET_BODY_OFFSET on, and the one after  *)
(* them.                                                                   *)
(***************************************************************************)
NoBody(length, bodylength) ==
    \/ length <= PACKET_BODY_OFFSET
    \/ length < bodylength
    \/ PACKET_BODY_OFFSET + bodylength > length

(* What body(data) returns *)
BodyResult(length, bodylength) == IF NoBody(length, bodylength) THEN 0 ELSE bodylength

=============================================================================
