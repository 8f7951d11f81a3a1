------------------------------ MODULE Protocol ------------------------------
(***************************************************************************)
(* The packet format of the live socket (src/livecore/protocol.py).  A     *)
(* frame is a sequence of cells: a packet is a header cell, the rest of    *)
(* the header and the cells of its body; a compressed body is one cell     *)
(* that holds the frame inside it.  Lengths count cells.                   *)
(***************************************************************************)
EXTENDS Naturals, Sequences

HEADER_SIZE == 2     \* in cells

\* Operations and body encodings the decoder distinguishes.
OP_HEARTBEAT_REPLY == 3
OP_NOTIFY == 5
OP_AUTH_REPLY == 8
PROTO_RAW == 0
PROTO_INT == 1
PROTO_ZLIB == 2
PROTO_BROTLI == 3

Pad == [kind |-> "pad"]

EncodePacket(op, body, protover) ==
    <<[kind |-> "header", packet_len |-> HEADER_SIZE + Len(body), header_len |-> HEADER_SIZE,
       protover |-> protover, op |-> op], Pad>> \o body

\* A result, or the exception (ValueError or RuntimeError) in its place.
Ok(packets) == [ok |-> TRUE, packets |-> packets]
Raises == [ok |-> FALSE, packets |-> <<>>]

\* The loop goes on at `at` only with a header there, whose lengths the buffer
\* has.  A cell that is no header gives lengths no buffer has.
HeaderFits(buf, at) ==
    /\ at + HEADER_SIZE <= Len(buf) /\ buf[at + 1].kind = "header"
    /\ buf[at + 1].header_len >= HEADER_SIZE
    /\ buf[at + 1].packet_len >= buf[at + 1].header_len
    /\ at + buf[at + 1].packet_len <= Len(buf)

Packet(buf, at) ==
    [op |-> buf[at + 1].op, protover |-> buf[at + 1].protover,
     body |-> SubSeq(buf, at + buf[at + 1].header_len + 1, at + buf[at + 1].packet_len)]

\* What the packets from here on add to the one before them.
Then(packet, rest) == IF rest.ok THEN Ok(<<packet>> \o rest.packets) ELSE Raises

\* Bug: the packets that can be decoded are kept, and of the last one what has come.
DecodeWhatCame(buf) ==
    LET End(at) == at + buf[at + 1].packet_len
        from[at \in 0..Len(buf)] ==
            IF at + HEADER_SIZE > Len(buf) \/ buf[at + 1].kind # "header" THEN Ok(<<>>)
            ELSE IF End(at) > Len(buf)
                 THEN Ok(<<[op |-> buf[at + 1].op, protover |-> buf[at + 1].protover,
                            body |-> SubSeq(buf, at + buf[at + 1].header_len + 1, Len(buf))]>>)
            ELSE Then(Packet(buf, at), from[End(at)])
    IN  from[0]

\* The loop of decode_packets from every offset on: all of the buffer, or nothing.
DecodeFrom(buf) ==
    LET from[at \in 0..Len(buf)] ==
            IF at = Len(buf) THEN Ok(<<>>)
            ELSE IF ~HeaderFits(buf, at) THEN Raises
            ELSE Then(Packet(buf, at), from[at + buf[at + 1].packet_len])
    IN  from

DecodePackets(buf) == DecodeFrom(buf)[0]

ReadPopularity(body) ==
    IF body # <<>> /\ body[1].kind = "number" THEN body[1].value ELSE 0
=============================================================================
