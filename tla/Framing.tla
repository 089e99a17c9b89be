------------------------------ MODULE Framing ------------------------------
(***************************************************************************)
(* The framing of messages on a connection (crates/proto/src/codec.rs):    *)
(* encode_message writes a four-byte length and the encoded packet;        *)
(* GsbMessageDecoder keeps the length it has read in msg_header between    *)
(* calls, because a frame arrives in pieces of any size.                   *)
(*                                                                         *)
(* A byte is its position in the stream.  Offset[k] is the position at     *)
(* which frame k starts and Size[k] the encoded length of its packet.  The *)
(* four bytes at a frame's start read as the low 32 bits of its size       *)
(* (`len as u32`); protobuf decoding (external) succeeds on exactly the    *)
(* bytes of a packet of a type the receiver knows.  Anywhere else the      *)
(* bytes are garbage.                                                      *)
(***************************************************************************)
EXTENDS Naturals, Sequences

CONSTANTS
    N,        \* number of messages sent over the connection
    Size,     \* Size[k]: packet.encoded_len() of message k
    Offset,   \* Offset[k]: where the frame of message k starts
    Unknown,  \* messages of a type the receiver does not know
    Limit,    \* 2^32: the header holds lengths below it
    Garbage   \* what four bytes that are no header read as

HeaderLen == 4

\* An encoded packet is never empty: its oneof field is set.  It fits the
\* header; no message of 4 GiB is ever built.
ASSUME SizeAssumption ==
    /\ N \in Nat
    /\ Unknown \subseteq 1 .. N
    /\ Limit \in Nat
    /\ Garbage \in Nat
    /\ Size \in [1 .. N -> Nat \ {0}]
    /\ \A k \in 1 .. N : Size[k] < Limit

\* Frames lie one behind the other.
ASSUME OffsetAssumption ==
    /\ Offset \in [1 .. N + 1 -> Nat]
    /\ Offset[1] = 0
    /\ \A k \in 1 .. N : Offset[k + 1] = Offset[k] + HeaderLen + Size[k]
    /\ \A j, k \in 1 .. N + 1 : j < k => Offset[j] + HeaderLen < Offset[k]

\* None is no length.
NoHeader == Limit

VARIABLES
    sent,        \* messages encoded so far
    arrived,     \* bytes the receiver has read from the socket
    taken,       \* bytes the decoder has split off
    msg_header,  \* GsbMessageDecoder.msg_header
    decoded,     \* messages returned by decode
    failed       \* decode returned an error

vars == <<sent, arrived, taken, msg_header, decoded, failed>>

Init ==
    /\ sent = 0
    /\ arrived = 0
    /\ taken = 0
    /\ msg_header = NoHeader
    /\ decoded = <<>>
    /\ failed = FALSE

-----------------------------------------------------------------------------

\* encode_message: the next frame is appended to the stream.
Encode ==
    /\ sent < N
    /\ sent' = sent + 1
    /\ UNCHANGED <<arrived, taken, msg_header, decoded, failed>>

\* The socket delivers the stream up to some position.
Arrive(upto) ==
    /\ arrived < upto
    /\ upto <= Offset[sent + 1]
    /\ arrived' = upto
    /\ UNCHANGED <<sent, taken, msg_header, decoded, failed>>

\* get_u32 on the four bytes at position p.
HeaderAt(p) ==
    IF \E k \in 1 .. N : Offset[k] = p
    THEN Size[CHOOSE k \in 1 .. N : Offset[k] = p] % Limit
    ELSE Garbage % Limit

\* The message, if any, that the len bytes at position p decode to.
PacketAt(p, len) ==
    {k \in (1 .. N) \ Unknown : p = Offset[k] + HeaderLen /\ len = Size[k]}

HeaderReady_Again == arrived - taken >= HeaderLen

\* decode_header, called only while no header is pending.
HeaderReady == msg_header = NoHeader /\ arrived - taken >= HeaderLen

\* decode: the header is split off; the rest of the same call is DecodeBody.
DecodeHeader ==
    /\ ~failed
    /\ HeaderReady
    /\ msg_header' = HeaderAt(taken)
    /\ taken' = taken + HeaderLen
    /\ UNCHANGED <<sent, arrived, decoded, failed>>

BodyReady_Longer == msg_header # NoHeader /\ arrived > taken + msg_header

\* decode_message has all the bytes; with fewer, decode returns None and
\* keeps the header.
BodyReady == msg_header # NoHeader /\ arrived >= taken + msg_header

\* The header is dropped for the next message, but not after an error.
DecodeBody ==
    /\ ~failed
    /\ BodyReady
    /\ taken' = taken + msg_header
    /\ \/ \E k \in PacketAt(taken, msg_header) :
             /\ decoded' = Append(decoded, k)
             /\ msg_header' = NoHeader
             /\ UNCHANGED failed
       \/ /\ PacketAt(taken, msg_header) = {}
          /\ failed' = TRUE
          /\ UNCHANGED <<decoded, msg_header>>
    /\ UNCHANGED <<sent, arrived>>

Next ==
    \/ Encode
    \/ \E upto \in 1 .. Offset[N + 1] : Arrive(upto)
    \/ DecodeHeader
    \/ DecodeBody

Spec == Init /\ [][Next]_vars

-----------------------------------------------------------------------------
(* Properties.                                                             *)

\* Every variable keeps its type, and the decoder never splits off bytes
\* that have not arrived.
TypeOK ==
    /\ sent \in 0 .. N
    /\ arrived \in Nat
    /\ taken \in 0 .. arrived
    /\ msg_header \in 0 .. Limit
    /\ decoded \in Seq(1 .. N)
    /\ failed \in BOOLEAN

\* Whatever pieces the stream arrives in, decode returns the messages that
\* were encoded, in order, each once, and an error only at a message it
\* does not know (decode_header, decode_message, GsbMessageDecoder::decode).
DecodedIsSent ==
    /\ Len(decoded) <= sent
    /\ \A i \in 1 .. Len(decoded) : decoded[i] = i
    /\ failed => Len(decoded) < sent /\ Len(decoded) + 1 \in Unknown

\* Between two calls the decoder is at the start of a frame or just behind
\* a header whose length it remembers.  DecodedIsSent rests on this.
DecoderInStep ==
    /\ TypeOK
    /\ DecodedIsSent
    /\ arrived <= Offset[sent + 1]
    /\ ~failed /\ msg_header = NoHeader => taken = Offset[Len(decoded) + 1]
    /\ ~failed /\ msg_header # NoHeader =>
          /\ Len(decoded) < sent
          /\ taken = Offset[Len(decoded) + 1] + HeaderLen
          /\ msg_header = Size[Len(decoded) + 1]

=============================================================================
