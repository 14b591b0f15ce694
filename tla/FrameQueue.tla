----------------------------- MODULE FrameQueue ------------------------------
(***************************************************************************)
(* What the framer promises: the frames it accepts leave on the wire byte  *)
(* by byte, complete and in order.                                         *)
(***************************************************************************)
EXTENDS FrameFormat

CONSTANTS
    MaxPayload,   \* longest payload of a frame
    Capacity      \* most bytes queued

VARIABLES
    queue,        \* the bytes still to be sent
    wire          \* the byte sent last, or -1

qvars == <<queue, wire>>

Payloads == UNION {[1 .. n -> Byte] : n \in 1 .. MaxPayload}

QInit == queue = << >> /\ wire = -1

Accept(d) ==
    /\ Len(queue \o frame(d)) <= Capacity
    /\ queue' = queue \o frame(d)
    /\ UNCHANGED wire

Emit ==
    /\ queue # << >>
    /\ wire' = Head(queue)
    /\ queue' = Tail(queue)

QNext == (\E d \in Payloads : Accept(d)) \/ Emit

QSpec == QInit /\ [][QNext]_qvars /\ WF_qvars(Emit)
=============================================================================
