---------------------------- MODULE MCFrameParser ----------------------------
(* FrameParser with bytes of two bits: 2 and 1 in place of 0xaa and 0x55.    *)
EXTENDS FrameParser

\* Bitwise exclusive or of two numbers below 4.
MCXor(a, b) == 2 * ((a \div 2 + b \div 2) % 2) + ((a + b) % 2)
=============================================================================
