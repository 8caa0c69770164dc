------------------------------- MODULE Hash32 -------------------------------
(***************************************************************************)
(* The 32-bit arithmetic of the hash fingerprints (utility.hpp hash_fmix32 *)
(* and refine/naive.hpp).  A word is the pair <<high, low>> of its 16-bit  *)
(* halves, since the checker's integers are narrower than uint32_t.        *)
(***************************************************************************)
EXTENDS Integers

\* The number of values of a half.
H == 65536

Words == (0 .. H-1) \X (0 .. H-1)

Word(i) == <<i \div H, i % H>>                    \* an integer below 2^31

Below(x, y) == \/ x[1] < y[1]
               \/ x[1] = y[1] /\ x[2] < y[2]

\* x += y
Add32(x, y) == LET low == x[2] + y[2]
               IN  <<(x[1] + y[1] + low \div H) % H, low % H>>

\* The low half of a product of two halves.
MulLow(a, b) == ((a % 256) * b + (((a \div 256) * b) % 256) * 256) % H

\* The high half of a product of two halves.
MulHigh(a, b) ==
    LET upper == (a \div 256) * b
    IN  upper \div 256 + ((a % 256) * b + (upper % 256) * 256) \div H

\* x *= y
Mul32(x, y) ==
    <<(MulHigh(x[2], y[2]) + MulLow(x[1], y[2]) + MulLow(x[2], y[1])) % H,
      MulLow(x[2], y[2])>>

\* Exclusive or of two 4-bit digits, tabulated once.
XorDigit == [a \in 0 .. 15 |-> [b \in 0 .. 15 |->
    LET differ(power) == IF (a \div power) % 2 = (b \div power) % 2 THEN 0 ELSE power
    IN  differ(1) + differ(2) + differ(4) + differ(8)]]

XorHalf(a, b) ==
    LET digit(power) == XorDigit[(a \div power) % 16][(b \div power) % 16] * power
    IN  digit(1) + digit(16) + digit(256) + digit(4096)

Xor32(x, y) == <<XorHalf(x[1], y[1]), XorHalf(x[2], y[2])>>

\* x >> k, given 2^k for k < 16, and x >> 16.
Shr(x, power) ==
    <<x[1] \div power, (x[1] % power) * (H \div power) + x[2] \div power>>
Shr16(x) == <<0, x[1]>>

\* 0x85ebca6b and 0xc2b2ae35
Factor1 == <<34283, 51819>>
Factor2 == <<49842, 44597>>

\* hash_fmix32, the 32-bit finalizer.
HashFmix32(x) ==
    LET h1 == Xor32(x, Shr16(x))
        h2 == Mul32(h1, Factor1)
        h3 == Xor32(h2, Shr(h2, 8192))
        h4 == Mul32(h3, Factor2)
    IN  Xor32(h4, Shr16(h4))

\* (h >> 4) | (color << 28): the shift drops all but four bits of the color.
ColorKey(h, color) ==
    LET low == Shr(h, 16) IN <<low[1] + (color % 16) * 4096, low[2]>>
=============================================================================
