-------------------------- MODULE ContainerFraming --------------------------
(***************************************************************************)
(* read_full_container_ (src/ptp/ptp.cpp) over USBTransport::read_some:    *)
(* how containers are put together from the packets of a bulk pipe.  The   *)
(* pipe has no container boundaries.  A bulk transfer ends at a packet     *)
(* that is not full, or when its buffer is; the reader learns from the     *)
(* length in the header how much there is to come, and what a transfer     *)
(* carried beyond that is gone.                                            *)
(*                                                                         *)
(* PtpTransaction takes the pipe for a queue of containers, the first of   *)
(* which may have been cut; this module says when it is one.  A byte is    *)
(* <<n, k>>, byte k of the nth container the camera sends; its first       *)
(* HeaderLen bytes are the header.                                         *)
(***************************************************************************)
EXTENDS Naturals, Sequences, SequencesExt

CONSTANTS
    HeaderLen,      \* sizeof(PtpContainerHeader): 12 in the code
    PacketSize,     \* of the endpoint: 512 at high speed
    BufSize,        \* of one read: 1 MiB in the code
    Lengths,        \* how long containers may be
    JunkLengths,    \* what may stand where a length is looked for, mid-container
    MaxSent,        \* bound: containers the camera sends
    MaxBytes        \* bound: bytes of these containers

ASSUME FramingAssumption ==
    /\ HeaderLen \in Nat \ {0} /\ PacketSize \in Nat \ {0} /\ BufSize \in Nat \ {0}
    /\ HeaderLen < PacketSize
    /\ BufSize % PacketSize = 0
    /\ \A n \in Lengths : n \in Nat /\ n >= HeaderLen
    /\ JunkLengths \subseteq Nat
    /\ MaxSent \in Nat /\ MaxBytes \in Nat

-----------------------------------------------------------------------------

VARIABLES
    sent,       \* history: lengths of the containers sent, in order
    wire,       \* packets of the bulk-IN pipe that were not transferred yet
    xfer,       \* bytes the running transfer has got
    pc,         \* where read_full_container_ is
    have, need, \* its locals: bytes read, and length of the container
    delivered,  \* history: containers it returned, in order
    outcome,    \* how the last call ended
    torn,       \* history: a read that failed took bytes with it
    unmarked    \* history: the camera ended a transfer with a full packet

vars == <<sent, wire, xfer, pc, have, need, delivered, outcome, torn, unmarked>>

\* The len bytes of the nth container that follow the first `from'.
Bytes(n, from, len) == [k \in 1..len |-> <<n, from + k>>]

Whole(n) == Bytes(n, 0, sent[n])

Byte == (1..MaxSent) \X Nat

\* Every variable has its type; a transfer never outgrows its buffer, and the
\* reader goes on only while bytes are missing.
TypeOK ==
    /\ sent \in Seq(Lengths)
    /\ wire \in Seq(Seq(Byte))
    /\ \A k \in DOMAIN wire : Len(wire[k]) <= PacketSize
    /\ xfer \in Seq(Byte) /\ Len(xfer) < BufSize
    /\ pc \in {"idle", "first", "more"}
    /\ have \in Seq(Byte)
    /\ need \in Nat
    /\ pc = "more" => Len(have) < need
    /\ delivered \in Seq(Seq(Byte))
    /\ outcome \in {"none", "ok", "short header", "threw"}
    /\ torn \in BOOLEAN
    /\ unmarked \in BOOLEAN

Init ==
    /\ sent = <<>> /\ wire = <<>> /\ xfer = <<>>
    /\ pc = "idle" /\ have = <<>> /\ need = 0
    /\ delivered = <<>> /\ outcome = "none"
    /\ torn = FALSE /\ unmarked = FALSE

-----------------------------------------------------------------------------
(***************************************************************************)
(* The camera, external.  It sends a container as one transfer, or its     *)
(* header as a transfer of its own.  A transfer whose last packet is full  *)
(* is to be ended by an empty packet; not every camera does.               *)
(***************************************************************************)

\* The full packets of a transfer, and what is left for the last.
Packets(bytes) ==
    [k \in 1..(Len(bytes) \div PacketSize) |->
        SubSeq(bytes, (k - 1) * PacketSize + 1, k * PacketSize)]

LastPacket(bytes) ==
    SubSeq(bytes, (Len(bytes) \div PacketSize) * PacketSize + 1, Len(bytes))

\* The transfer ends with a full packet.
Unended(bytes, marked) == LastPacket(bytes) = <<>> /\ ~marked

\* The packets of a transfer, its end marked or not.
Transfer(bytes, marked) ==
    IF Unended(bytes, marked)
    THEN Packets(bytes)
    ELSE Append(Packets(bytes), LastPacket(bytes))

TotalBytes(lens) == FoldLeft(+, 0, lens)

CamSend(len, split, marked) ==
    LET n    == Len(sent) + 1
        head == Bytes(n, 0, IF split THEN HeaderLen ELSE len)
        rest == Bytes(n, HeaderLen, len - HeaderLen)
    IN /\ n <= MaxSent
       /\ TotalBytes(Append(sent, len)) <= MaxBytes
       /\ split => len > HeaderLen
       /\ sent' = Append(sent, len)
       /\ wire' = wire \o Transfer(head, marked)
                       \o (IF split THEN Transfer(rest, marked) ELSE <<>>)
       /\ unmarked' = (unmarked \/ Unended(head, marked) \/ (split /\ Unended(rest, marked)))
       /\ UNCHANGED <<xfer, pc, have, need, delivered, outcome, torn>>

-----------------------------------------------------------------------------
(***************************************************************************)
(* read_full_container_.                                                   *)
(***************************************************************************)

Call ==
    /\ pc = "idle"
    /\ pc' = "first"
    /\ UNCHANGED <<sent, wire, xfer, have, need, delivered, outcome, torn, unmarked>>

\* The length that the first bytes of a transfer announce.  Bytes from the middle
\* of a container announce any; one shorter than a header makes the reader return
\* what it has, of which its callers look at the header in any case.
LengthField(bytes) ==
    IF bytes[1][2] = 1
    THEN {sent[bytes[1][1]]}
    ELSE {IF len < HeaderLen THEN HeaderLen ELSE len : len \in JunkLengths}

\* The call ends, its locals go.
End(o) == pc' = "idle" /\ outcome' = o /\ have' = <<>> /\ need' = 0

Return(bytes, len) == End("ok") /\ delivered' = Append(delivered, SubSeq(bytes, 1, len))

ReadOn(bytes, len) ==
    /\ pc' = "more" /\ have' = bytes /\ need' = len
    /\ UNCHANGED <<delivered, outcome>>

\* Variant: the first read is taken for the whole container.
FirstIsAll(bytes) ==
    IF Len(bytes) < HeaderLen
    THEN End("short header") /\ UNCHANGED delivered
    ELSE Return(bytes, Len(bytes))

\* Variant: a header without a payload counts as short.
FirstWantsPayload(bytes) ==
    IF Len(bytes) <= HeaderLen
    THEN End("short header") /\ UNCHANGED delivered
    ELSE \E len \in LengthField(bytes) :
            IF len <= Len(bytes) THEN Return(bytes, len) ELSE ReadOn(bytes, len)

\* The first read: less than a header is an error.
First(bytes) ==
    IF Len(bytes) < HeaderLen
    THEN End("short header") /\ UNCHANGED delivered
    ELSE \E len \in LengthField(bytes) :
            IF len <= Len(bytes) THEN Return(bytes, len) ELSE ReadOn(bytes, len)

\* Variant: what is read goes in front of what there is.
MoreInFront(bytes) ==
    IF Len(have) + Len(bytes) >= need
    THEN Return(bytes \o have, need)
    ELSE ReadOn(bytes \o have, need)

\* Every further read, whatever it brings, is appended.
More(bytes) ==
    IF Len(have) + Len(bytes) >= need
    THEN Return(have \o bytes, need)
    ELSE ReadOn(have \o bytes, need)

TransferEnds(bytes) ==
    /\ xfer' = <<>>
    /\ \/ pc = "first" /\ First(bytes)
       \/ pc = "more" /\ More(bytes)

\* A packet is transferred; the transfer ends with one that is not full, or
\* with the buffer.
Packet ==
    /\ pc # "idle"
    /\ wire # <<>>
    /\ wire' = Tail(wire)
    /\ LET bytes == xfer \o Head(wire)
       IN IF Len(Head(wire)) < PacketSize \/ Len(bytes) = BufSize
          THEN TransferEnds(bytes)
          ELSE xfer' = bytes /\ UNCHANGED <<pc, have, need, delivered, outcome>>
    /\ UNCHANGED <<sent, torn, unmarked>>

\* Variant: a read that times out counts as a read of nothing.
TimeoutIsEmpty ==
    /\ pc # "idle"
    /\ xfer' = <<>>
    /\ (pc = "first" /\ First(<<>>)) \/ (pc = "more" /\ More(<<>>))
    /\ torn' = (torn \/ xfer # <<>>)
    /\ UNCHANGED <<sent, wire, unmarked>>

\* The camera pauses for the 3000 ms of a read, or the transfer fails:
\* read_some throws, and what it and the reads before it got is lost.
ReadThrows ==
    /\ pc # "idle"
    /\ End("threw")
    /\ xfer' = <<>>
    /\ torn' = (torn \/ xfer # <<>> \/ have # <<>>)
    /\ UNCHANGED <<sent, wire, delivered, unmarked>>

-----------------------------------------------------------------------------

Next ==
    \/ \E len \in Lengths, split, marked \in BOOLEAN : CamSend(len, split, marked)
    \/ Call \/ Packet \/ ReadThrows

Spec == Init /\ [][Next]_vars

\* The thread runs, and a read ends by its timeout when there are no packets;
\* while there are, nothing says that it fails.
Fairness == WF_vars(Packet \/ (wire = <<>> /\ ReadThrows))

-----------------------------------------------------------------------------
(***************************************************************************)
(* Properties.                                                             *)
(***************************************************************************)

\* As long as no read was cut off in a container and the camera marks the end
\* of its transfers, the pipe is a queue: the containers returned are those
\* sent, whole, in order, none passed over, whatever packets, reads and empty
\* packets they came in.
QueueOfContainers ==
    ~torn /\ ~unmarked =>
        /\ Len(delivered) <= Len(sent)
        /\ \A n \in DOMAIN delivered : delivered[n] = Whole(n)

\* Byte x was sent before byte y.
Before(x, y) == x[1] < y[1] \/ (x[1] = y[1] /\ x[2] < y[2])

\* Whatever is lost, nothing is delivered twice or out of its order, within a
\* container or between two.
NeverBackwards ==
    \A m, n \in DOMAIN delivered :
        \A j \in DOMAIN delivered[m], k \in DOMAIN delivered[n] :
            m < n \/ (m = n /\ j < k) => Before(delivered[m][j], delivered[n][k])

\* The sizes at which a container fills its last buffer, so that the empty
\* packet that ends it is left for the next read.
FillsBuffer(len) == len % BufSize = 0 \/ (len - HeaderLen) % BufSize = 0

\* "short PTP header", with the pipe in order, means just one thing: the empty
\* packet after a container that filled the buffers exactly.
ShortHeaderCause ==
    [][~torn /\ ~unmarked /\ pc = "first" /\ pc' = "idle" /\ outcome' = "short header" =>
         delivered # <<>> /\ FillsBuffer(sent[Len(delivered)])]_vars

\* A call ends, by a container or a throw: the loop that completes a container
\* has no end of its own, it depends on the timeout of its reads.
ReadEnds == pc # "idle" ~> pc = "idle"

=============================================================================
