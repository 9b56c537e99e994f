------------------------------- MODULE NetAddr -------------------------------
(***************************************************************************)
(* The address columns of HW_1/main.c: hexadecimal fields of /proc/net made *)
(* readable.  A field is the sequence of its hexadecimal digits, without    *)
(* the colon before the port; digit 1 is the character at offset 0.         *)
(***************************************************************************)
EXTENDS Naturals, Sequences

Byte == 0 .. 255
Port == 0 .. 65535

(* One byte and two bytes, most significant digit first.                    *)
TWOchar2dec(field, at) == 16 * field[at + 1] + field[at + 2]
FOURchar2dec(field, at) == 256 * TWOchar2dec(field, at) + TWOchar2dec(field, at + 2)

\* Seeded fault: the bytes in the order in which they are printed.
addr_hex2dec_v4_straight(field) ==
  [addr |-> [k \in 1 .. 4 |-> TWOchar2dec(field, 2 * (k - 1))],
   port |-> FOURchar2dec(field, 8)]

(* Four decimal numbers, from the last byte to the first, and the port.     *)
addr_hex2dec_v4(field) ==
  [addr |-> [k \in 1 .. 4 |-> TWOchar2dec(field, 8 - 2 * k)],
   port |-> FOURchar2dec(field, 8)]

(* Eight numbers, from the last two bytes to the first two, and the port.   *)
addr_hex2dec_v6(field) ==
  [addr |-> [k \in 1 .. 8 |-> FOURchar2dec(field, 32 - 4 * k)],
   port |-> FOURchar2dec(field, 32)]

-----------------------------------------------------------------------------
(* What the kernel (little-endian) prints: the address as 32-bit words in   *)
(* host order, so that the bytes of each word come last to first, and the   *)
(* port as a number.                                                        *)
HexByte(b) == <<b \div 16, b % 16>>

Field(address) ==
  LET bytes == address.addr
      printed(k) == bytes[4 * ((k - 1) \div 4) + 4 - ((k - 1) % 4)]
      digits == [d \in 1 .. 2 * Len(bytes) |-> HexByte(printed((d + 1) \div 2))[2 - (d % 2)]]
  IN digits \o HexByte(address.port \div 256) \o HexByte(address.port % 256)
=============================================================================
