--------------------------- MODULE FakeTransport ---------------------------
(***************************************************************************)
(* FakeTransport (src/ptp/fake_transport.cpp), the transport of the tests, *)
(* below read_full_container_ and transact() (src/ptp/ptp.cpp).            *)
(*                                                                         *)
(* A test queues bytes and makes calls.  The queue has no boundaries: one  *)
(* read takes all there is, up to its buffer.  When the queue is empty the *)
(* fake answers OK to the last command by itself, unless the id of that    *)
(* command is 0, which is also its mark for "no command yet".              *)
(*                                                                         *)
(* A byte is <<c, k>>, byte k of container c.                              *)
(***************************************************************************)
EXTENDS Naturals, Sequences

CONSTANTS
    HeaderLen,      \* sizeof(PtpContainerHeader): 12 in the code
    BufSize,        \* of one read: 1 MiB in the code
    Lengths,        \* how long containers may say they are
    JunkLengths,    \* what may stand where a length is looked for, mid-container
    StrayLimit,     \* events one call drops: 8 in the code
    TidMod,         \* values of a transaction id: 2^32 in the code
    MaxQueued,      \* bound: containers the test queues
    MaxCalls        \* bound: calls the test makes

FakeAssumption ==
    /\ HeaderLen \in Nat \ {0} /\ BufSize \in Nat /\ HeaderLen <= BufSize
    /\ \A n \in Lengths : n \in Nat /\ n >= HeaderLen
    /\ JunkLengths \subseteq Nat
    /\ StrayLimit \in Nat
    /\ TidMod \in Nat /\ TidMod > 1
    /\ MaxQueued \in Nat /\ MaxCalls \in Nat

-----------------------------------------------------------------------------

\* Container number id of the test, of which the first sent bytes are queued.
\* Number 0 is an OK of the fake's own, to transaction tid.
Container(id, type, len, sent, tid) ==
    [id |-> id, type |-> type, len |-> len, sent |-> sent, tid |-> tid]

OK(tid) == Container(0, "RESPONSE", HeaderLen, HeaderLen, tid)

Junk == MaxQueued + 1

Types == {"EVENT", "DATA", "RESPONSE", "other"}

Containers ==
    [id : 0..Junk, type : Types, len : Lengths \cup JunkLengths \cup {HeaderLen},
     sent : Nat, tid : 0..(TidMod - 1)]

Byte == Containers \X Nat

NoHeader == OK(0)

NoResult == [status |-> "none", tid |-> 0, resp |-> NoHeader, data |-> <<>>]

VARIABLES
    rx, last_txn,   \* members of the fake
    writes,         \* and what it recorded
    next_tid,       \* CameraPTP::next_tid_
    pc,             \* where the running call is in read_full_container_
    tid, phase,     \* id of the call, and what it is going to read
    guard, data,    \* events it dropped, and the data it holds
    have, header,   \* of the container it is reading: bytes, and header
    result,         \* how the last call ended
    queued,         \* history: containers that were queued
    calls,          \* history: how many calls were made
    small           \* history: the call met a queue that fits in one read

callVars == <<next_tid, tid, phase, guard, data, have, header, calls, small>>
vars == <<rx, last_txn, writes, pc, callVars, result, queued>>

\* Every variable has its type; the reader goes on only while bytes are missing,
\* and an OK of the fake's own never waits in the queue.
TypeOK ==
    /\ rx \in Seq(Byte) /\ \A k \in DOMAIN rx : rx[k][1].id # 0
    /\ last_txn \in 0..(TidMod - 1)
    /\ writes \in Seq({"COMMAND", "DATA"})
    /\ next_tid \in 0..(TidMod - 1)
    /\ pc \in {"idle", "first", "more"}
    /\ tid \in 0..(TidMod - 1)
    /\ phase \in {"any", "answer", "resp"}
    /\ guard \in 0..StrayLimit
    /\ data \in Seq(Byte)
    /\ have \in Seq(Byte) /\ (pc = "more" => Len(have) < header.len)
    /\ header \in Containers
    /\ result \in [status : {"none", "ok", "short", "threw"}, tid : 0..(TidMod - 1),
                   resp : Containers, data : Seq(Byte)]
    /\ queued \in Seq(Containers)
    /\ calls \in 0..MaxCalls
    /\ small \in BOOLEAN

Init ==
    /\ rx = <<>> /\ last_txn = 0 /\ writes = <<>>
    /\ next_tid = 1
    /\ pc = "idle" /\ tid = 0 /\ phase = "any" /\ guard = 0 /\ data = <<>>
    /\ have = <<>> /\ header = NoHeader
    /\ result = NoResult
    /\ queued = <<>> /\ calls = 0 /\ small = TRUE

-----------------------------------------------------------------------------
(***************************************************************************)
(* The test.                                                               *)
(***************************************************************************)

Bytes(c, n) == [k \in 1..n |-> <<c, k>>]

\* queue_read: a container, or the beginning of one.
QueueRead(type, len, sent) ==
    LET c == Container(Len(queued) + 1, type, len, sent, 0)
    IN /\ pc = "idle"
       /\ Len(queued) < MaxQueued
       /\ sent <= len
       /\ rx' = rx \o Bytes(c, sent)
       /\ queued' = Append(queued, c)
       /\ UNCHANGED <<last_txn, writes, pc, callVars, result>>

\* close() forgets the queue and the writes, not the last command.  open_ is left
\* out: neither writes nor reads look at it.
Close ==
    /\ pc = "idle"
    /\ writes' = <<>> /\ rx' = <<>>
    /\ UNCHANGED <<last_txn, pc, callVars, result, queued>>

Noticed(len) == len >= HeaderLen

\* write_exact of the command, with or without a parameter, and of the data
\* container if the call has one.  kind is "any" for open_session and
\* close_session, which take any container for their answer.
Begin(kind, params, data_out) ==
    /\ pc = "idle"
    /\ calls < MaxCalls
    /\ calls' = calls + 1
    /\ tid' = next_tid
    /\ next_tid' = (next_tid + 1) % TidMod
    /\ writes' = writes \o IF data_out THEN <<"COMMAND", "DATA">> ELSE <<"COMMAND">>
    /\ last_txn' = IF Noticed(HeaderLen + params) THEN next_tid ELSE last_txn
    /\ pc' = "first" /\ phase' = kind /\ guard' = 0 /\ data' = <<>>
    /\ result' = NoResult
    /\ small' = (Len(rx) <= BufSize)
    /\ UNCHANGED <<rx, have, header, queued>>

-----------------------------------------------------------------------------
(***************************************************************************)
(* The reads of a call.                                                    *)
(***************************************************************************)

End(status, resp) ==
    /\ pc' = "idle"
    /\ result' = [status |-> status, tid |-> tid, resp |-> resp,
                  data |-> IF status = "ok" THEN data ELSE <<>>]
    /\ have' = <<>> /\ header' = NoHeader /\ data' = <<>>
    /\ UNCHANGED <<phase, guard>>

NextContainer ==
    /\ pc' = "first"
    /\ have' = <<>> /\ header' = NoHeader
    /\ UNCHANGED result

\* What a call does with the container h, whose bytes are c.  Data that would end
\* before it begins makes assign() throw.
Take(h, c) ==
    \/ /\ phase = "any" \/ h.type = "RESPONSE"
       /\ End("ok", h)
    \/ /\ phase = "answer" /\ h.type = "EVENT" /\ guard < StrayLimit
       /\ NextContainer
       /\ guard' = guard + 1
       /\ UNCHANGED <<phase, data>>
    \/ /\ phase = "answer" /\ h.type = "DATA" /\ h.len >= HeaderLen
       /\ NextContainer
       /\ phase' = "resp" /\ data' = SubSeq(c, HeaderLen + 1, h.len)
       /\ UNCHANGED guard
    \/ /\ \/ phase = "answer" /\ h.type = "other"
          \/ phase = "answer" /\ h.type = "DATA" /\ h.len < HeaderLen
          \/ phase = "answer" /\ h.type = "EVENT" /\ guard = StrayLimit
          \/ phase = "resp" /\ h.type # "RESPONSE"
       /\ End("threw", NoHeader)

\* The header that the bytes from this first one on show: that of its container if
\* they begin with it and it was queued to its end.
HeaderOf(byte) ==
    IF byte[2] = 1 /\ byte[1].sent >= HeaderLen THEN {byte[1]}
    ELSE {Container(Junk, type, len, 0, 0) : type \in Types, len \in JunkLengths}

\* The loop of read_full_container_.
Collect(h, bytes) ==
    IF Len(bytes) >= h.len
    THEN Take(h, bytes)
    ELSE /\ pc' = "more" /\ have' = bytes /\ header' = h
         /\ UNCHANGED <<phase, guard, data, result>>

First(bytes) ==
    /\ pc = "first"
    /\ IF Len(bytes) < HeaderLen
       THEN End("short", NoHeader)
       ELSE \E h \in HeaderOf(bytes[1]) : Collect(h, bytes)

More(bytes) == pc = "more" /\ Collect(header, have \o bytes)

\* Variant: an OK is queued behind what there is.
AutoOkAlways == IF last_txn = 0 THEN <<>> ELSE Bytes(OK(last_txn), HeaderLen)

\* ensure_auto_ok
AutoOk == IF rx # <<>> \/ last_txn = 0 THEN <<>> ELSE Bytes(OK(last_txn), HeaderLen)

Upto(n, bytes) == IF n < Len(bytes) THEN n ELSE Len(bytes)

\* read_some, and what its caller does next.
ReadSome ==
    LET bytes == rx \o AutoOk
        n     == Upto(BufSize, bytes)
    IN /\ pc # "idle"
       /\ rx' = SubSeq(bytes, n + 1, Len(bytes))
       /\ First(SubSeq(bytes, 1, n)) \/ More(SubSeq(bytes, 1, n))
       /\ UNCHANGED <<last_txn, writes, next_tid, tid, queued, calls, small>>

Next ==
    \/ \E type \in {"EVENT", "DATA", "RESPONSE"}, len, sent \in Lengths \cup 1..HeaderLen :
          len \in Lengths /\ QueueRead(type, len, sent)
    \/ Close
    \/ \E kind \in {"any", "answer"}, params \in {0, 1}, data_out \in BOOLEAN :
          (data_out => kind = "answer") /\ Begin(kind, params, data_out)
    \/ ReadSome

Spec == Init /\ [][Next]_vars

\* The thread of the test runs.
Fairness == WF_vars(ReadSome)

-----------------------------------------------------------------------------
(***************************************************************************)
(* Properties.                                                             *)
(***************************************************************************)

Returned == result.status = "ok"

\* An OK of the fake's own goes to the call whose command it answers, whatever
\* was queued, left over or cut off before.
OwnOk == Returned /\ result.resp.id = 0 => result.resp.tid = result.tid

\* Data that a test queued whole is handed out whole, or not at all.
QueuedDataIsWhole ==
    Returned /\ result.data # <<>> =>
        LET c == result.data[1][1]
        IN c.sent = c.len /\ result.data[1][2] = HeaderLen + 1 =>
              result.data = SubSeq(Bytes(c, c.len), HeaderLen + 1, c.len)

\* A call sees only the first container of a queue that fits in one read, even
\* when it drops that container as an event: what else is queued is lost, and
\* the OK is the fake's own.  It does not wait for the next call either.
OnlyTheFirst ==
    [][pc # "idle" /\ pc' = "idle" /\ small =>
         /\ rx' = <<>>
         /\ result'.data # <<>> => result'.resp.id = 0]_vars

\* "short PTP header" has one of two causes: less than a header in the queue, or
\* a transaction id that has come round to 0, which the fake does not answer.
UnansweredCause ==
    [][pc # "idle" /\ pc' = "idle" /\ result'.status = "short" =>
         Len(rx) \in 1..(HeaderLen - 1) \/ tid = 0]_vars

\* A call ends: also one that is short of bytes, since OKs fill it up.  Not one
\* whose transaction id is 0, which reads nothing, again and again.
CallEnds == pc # "idle" ~> pc = "idle" \/ tid = 0

=============================================================================
