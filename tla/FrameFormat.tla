----------------------------- MODULE FrameFormat -----------------------------
(***************************************************************************)
(* The frames exchanged by the framer (framer/main.c) and the collector    *)
(* (collector/IoHandler.cpp): 0xaa 0x55 <length> <data> <xor of the data>. *)
(* The number of values of a byte is a parameter, and what is counted in a *)
(* byte scales with it.                                                    *)
(***************************************************************************)
EXTENDS Integers, Sequences

CONSTANTS
    ByteSize,      \* number of values of a byte, 256 in the code
    Sync1, Sync2,  \* the bytes 0xaa and 0x55
    Xor(_, _)      \* exclusive or of two bytes

Byte == 0 .. ByteSize - 1

ASSUME ByteAssumption ==
    /\ ByteSize \in Nat \ {0}
    /\ Sync1 \in Byte /\ Sync2 \in Byte /\ Sync1 # Sync2
    /\ \A a, b \in Byte : Xor(a, b) \in Byte

\* The running exclusive or of data d.
XorAll(d) ==
    LET x[i \in 0 .. Len(d)] == IF i = 0 THEN 0 ELSE Xor(x[i - 1], d[i]) IN x[Len(d)]

\* Mutant: the length is part of the checksum.
frameSumsLength(d) == <<Sync1, Sync2, Len(d)>> \o d \o <<Xor(Len(d), XorAll(d))>>

\* start_tx_frame() and add_tx_data()
frame(d) == <<Sync1, Sync2, Len(d)>> \o d \o <<XorAll(d)>>
=============================================================================
