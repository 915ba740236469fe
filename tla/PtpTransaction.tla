--------------------------- MODULE PtpTransaction ---------------------------
(***************************************************************************)
(* CameraPTP (src/ptp/ptp.cpp): one PTP transaction at a time over a pair  *)
(* of bulk pipes.  The client writes a COMMAND container and, for some     *)
(* operations, a DATA container; it then reads containers until it holds a *)
(* RESPONSE.  Every call of the transport is a step of its own, because    *)
(* the camera runs between any two of them.                                *)
(*                                                                         *)
(* A container is reduced to its type, its operation and its transaction   *)
(* id: the id says whose container it is, which is what the properties     *)
(* are about.  Reassembling a container from USB packets is below this     *)
(* level, but for one thing: a read that fails inside a DATA container     *)
(* leaves the rest of it in the pipe, REMAINS whose first bytes the next   *)
(* read takes for a header.  They may name any type and any length, and a  *)
(* length beyond the remains makes that read swallow the containers that   *)
(* follow.                                                                 *)
(***************************************************************************)
EXTENDS Naturals, Sequences

CONSTANTS
    Ops,         \* the operations the application calls
    StrayLimit,  \* events one call drops before it gives up: 8 in the code
    PipeCap,     \* containers the camera can have waiting on the bulk-IN pipe
    MaxNeed,     \* bound: containers that remains taken for a header swallow,
                 \* as many as 2^32 bytes hold in the code
    MaxCalls     \* bound: calls the application makes

(***************************************************************************)
(* The operations, by the shape of their transaction: which ones send a    *)
(* data phase, which ones the camera answers with data, which ones pass    *)
(* parameters in the command.                                              *)
(***************************************************************************)

\* open_session and close_session do not go through transact().
SessionOps == {"OpenSession", "CloseSession"}

\* transact(..., &payload, ...)
DataOutOps ==
    {"SendObjectInfo", "SendObject", "SetDevicePropValue",
     "SetCamDataGroup", "SetCamDataGroupFocus", "SnapCommand",
     "ClearImageDBSingle", "CloseApplication"}

\* transact(..., nullptr, true): the camera may answer with DATA.
DataInOps ==
    {"GetDeviceInfo", "GetStorageIDs", "GetStorageInfo", "GetObjectHandles",
     "GetObjectInfo", "GetObject", "GetPartialObject", "GetThumb",
     "GetDevicePropDesc", "GetDevicePropValue",
     "ConfigApi", "GetCamDataGroup", "GetCamDataGroupFocus",
     "GetCamCaptStatus", "GetPictFileInfo2", "GetBigPartialPictFile",
     "GetViewFrame"}

\* transact(..., nullptr, false)
PlainOps ==
    {"GetNumObjects", "DeleteObject", "MoveObject", "CopyObject",
     "InitiateCapture", "InitiateOpenCapture", "TerminateOpenCapture",
     "ResetDevice", "PowerDown", "ResetDevicePropValue"}

\* Of the operations with a data phase, those whose command has parameters.
ParamDataOutOps == {"SetDevicePropValue", "ClearImageDBSingle"}

AllOps == SessionOps \cup DataOutOps \cup DataInOps \cup PlainOps

ASSUME PtpAssumption ==
    /\ Ops \subseteq AllOps
    /\ StrayLimit \in Nat
    /\ PipeCap \in Nat \ {0}
    /\ MaxNeed \in Nat
    /\ MaxCalls \in Nat

-----------------------------------------------------------------------------

\* Transaction ids count from 1; 0 is the id of no transaction.
NoTid == 0

Container(type, o, t) == [type |-> type, op |-> o, tid |-> t]

NoOp == "none"

\* What is left of a container when a read ended inside it.
Remains == Container("REMAINS", NoOp, NoTid)

IsRemains(c) == c.type = "REMAINS"

\* What remains are taken for: their bytes 4 and 5 name the type of container,
\* "COMMAND" standing for every type that no answer has.
JunkTypes == {"EVENT", "DATA", "RESPONSE", "COMMAND"}
Junk(type) == Container(type, NoOp, NoTid)

\* A pipe after a read that took its first container, or a part of it.  Only
\* DATA is long enough to be cut: the others fit a packet.
Cuttable(c) == c.type \in {"DATA", "REMAINS"}
Beyond(pipe) ==
    {Tail(pipe)} \cup
    (IF Cuttable(Head(pipe)) THEN {<<Remains>> \o Tail(pipe)} ELSE {})

VARIABLES
    next_tid,   \* CameraPTP::next_tid_
    pc,         \* where the running call is
    op, tid,    \* its operation and its transaction id
    guard,      \* events it has dropped
    got,        \* id of the DATA container it holds, NoTid when none or junk
    need,       \* containers its current read still waits for, beyond remains
    result,     \* what the last finished call gave its caller
    outPipe,    \* containers written to the camera and not yet taken by it
    inPipe,     \* containers sent by the camera and not yet read
    camPc,      \* what the camera is doing
    camOp, camTid,  \* the command it is doing it for
    failed,     \* history: some call threw
    swallowed,  \* history: the running call read on beyond remains
    desynced,   \* history: a call returned without its own response, and no
                \* read has gone on beyond remains since
    lastResp    \* history: newest response ever handed to a caller

hostVars == <<next_tid, pc, op, tid, guard, got, need, result>>
camVars == <<camPc, camOp, camTid>>
history == <<failed, swallowed, desynced, lastResp>>
vars == <<hostVars, outPipe, inPipe, camVars, history>>

Writing == {"write_cmd", "write_data"}
Reading == {"read", "read_resp", "read_any"}

Results ==
    [status : {"none", "ok", "garbled", "threw"},
     tid : Nat, resp : Nat, data : Nat]

OutContainers == [type : {"COMMAND", "DATA"}, op : AllOps, tid : Nat]

InContainers ==
    [type : {"EVENT", "DATA", "RESPONSE", "REMAINS"},
     op : AllOps \cup {NoOp}, tid : Nat]

\* Every variable has its type.
TypeOK ==
    /\ next_tid \in Nat \ {0}
    /\ pc \in {"idle"} \cup Writing \cup Reading
    /\ op \in AllOps \cup {NoOp}
    /\ tid \in Nat
    /\ guard \in 0..StrayLimit
    /\ got \in Nat
    /\ need \in 0..MaxNeed
    /\ result \in Results
    /\ outPipe \in Seq(OutContainers)
    /\ inPipe \in Seq(InContainers)
    /\ camPc \in {"wait", "want_data", "reply", "resp"}
    /\ camOp \in AllOps \cup {NoOp}
    /\ camTid \in Nat
    /\ failed \in BOOLEAN
    /\ swallowed \in BOOLEAN
    /\ desynced \in BOOLEAN
    /\ lastResp \in Nat

Init ==
    /\ next_tid = 1
    /\ pc = "idle"
    /\ op = NoOp /\ tid = NoTid /\ guard = 0 /\ got = NoTid
    /\ need = 0
    /\ result = [status |-> "none", tid |-> NoTid, resp |-> NoTid, data |-> NoTid]
    /\ outPipe = <<>> /\ inPipe = <<>>
    /\ camPc = "wait" /\ camOp = NoOp /\ camTid = NoTid
    /\ failed = FALSE /\ swallowed = FALSE /\ desynced = FALSE
    /\ lastResp = NoTid

-----------------------------------------------------------------------------
(***************************************************************************)
(* The client.                                                             *)
(***************************************************************************)

\* Reading on beyond remains may swallow what the client was out of step by.
OutOfStep == desynced /\ ~swallowed'

\* The answer is made of remains, at least in part: as its DATA (every other
\* DATA container has an id) or as its RESPONSE.
Garbled(resp) ==
    \/ pc = "read_resp" /\ got = NoTid
    \/ pc = "read" /\ resp = NoTid

\* Every way a call ends.  resp is the id of the RESPONSE it consumed (NoTid
\* when it returned on some other container, or on remains).
Return(resp) ==
    /\ pc' = "idle"
    /\ result' = [status |-> IF Garbled(resp) THEN "garbled" ELSE "ok",
                  tid |-> tid, resp |-> resp, data |-> got]
    /\ desynced' = \/ OutOfStep
                   \/ resp # tid /\ ~(swallowed' /\ resp = NoTid)
    /\ lastResp' = IF resp = NoTid THEN lastResp ELSE resp
    /\ UNCHANGED <<next_tid, op, tid, guard, got, failed>>

\* A std::runtime_error reaches the caller.
Throw ==
    /\ pc' = "idle"
    /\ result' = [status |-> "threw", tid |-> tid, resp |-> NoTid, data |-> NoTid]
    /\ need' = 0
    /\ failed' = TRUE
    /\ desynced' = OutOfStep
    /\ UNCHANGED <<next_tid, op, tid, guard, got, lastResp>>

\* Variant: a call starts with the data of the last one.
CallKeepsData(o) ==
    /\ pc = "idle"
    /\ next_tid <= MaxCalls
    /\ pc' = "write_cmd"
    /\ op' = o /\ tid' = next_tid /\ next_tid' = next_tid + 1
    /\ guard' = 0 /\ swallowed' = FALSE
    /\ UNCHANGED <<got, need, result, outPipe, inPipe, camVars,
                   failed, desynced, lastResp>>

\* transact(), open_session() or close_session() builds its command, which
\* takes the next transaction id whether or not the command can be written.
Call(o) ==
    /\ pc = "idle"
    /\ next_tid <= MaxCalls
    /\ pc' = "write_cmd"
    /\ op' = o /\ tid' = next_tid /\ next_tid' = next_tid + 1
    /\ guard' = 0 /\ got' = NoTid /\ swallowed' = FALSE
    /\ UNCHANGED <<need, result, outPipe, inPipe, camVars,
                   failed, desynced, lastResp>>

WriteCommand ==
    /\ pc = "write_cmd"
    /\ outPipe' = Append(outPipe, Container("COMMAND", op, tid))
    /\ pc' = CASE op \in SessionOps -> "read_any"
               [] op \in DataOutOps -> "write_data"
               [] OTHER -> "read"
    /\ UNCHANGED <<next_tid, op, tid, guard, got, need, result,
                   inPipe, camVars, history>>

\* The id of the data container is read through a pointer taken before the
\* parameters were appended to the command, an append that reallocates it:
\* with parameters the id is whatever the freed block holds, NoTid for short.
DataTids(o, t) == IF o \in ParamDataOutOps THEN {t, NoTid} ELSE {t}

WriteData ==
    /\ pc = "write_data"
    /\ \E t \in DataTids(op, tid) :
          outPipe' = Append(outPipe, Container("DATA", op, t))
    /\ pc' = "read"
    /\ UNCHANGED <<next_tid, op, tid, guard, got, need, result,
                   inPipe, camVars, history>>

\* write_exact() throws: a libusb error or a short bulk write, with or without
\* the container having reached the camera.
WriteError ==
    /\ pc \in Writing
    /\ UNCHANGED <<swallowed, inPipe, camVars>>
    /\ Throw
    /\ \/ UNCHANGED outPipe
       \/ pc = "write_cmd" /\ outPipe' = Append(outPipe, Container("COMMAND", op, tid))
       \/ /\ pc = "write_data"
          /\ \E t \in DataTids(op, tid) :
                outPipe' = Append(outPipe, Container("DATA", op, t))

\* The call goes on.
GoOn ==
    /\ desynced' = OutOfStep
    /\ UNCHANGED <<next_tid, op, tid, result, failed, lastResp>>

\* Variant: the loop that drops events does not count them.
DropUncounted(c) ==
    /\ c.type = "EVENT" /\ guard < StrayLimit
    /\ GoOn
    /\ UNCHANGED <<pc, guard, got>>

\* The loop that drops stray events.
DropEvent(c) ==
    /\ c.type = "EVENT" /\ guard < StrayLimit
    /\ guard' = guard + 1
    /\ GoOn
    /\ UNCHANGED <<pc, got>>

\* Variant: a call with data does not wait for its RESPONSE.
TakeDataOnly(c) == c.type = "DATA" /\ Return(c.tid)

TakeData(c) ==
    /\ c.type = "DATA"
    /\ got' = c.tid
    /\ pc' = "read_resp"
    /\ GoOn
    /\ UNCHANGED guard

\* Variant: the transaction id of a RESPONSE is compared and a foreign one
\* dropped.
TakeOwnResponse(c) ==
    /\ c.type = "RESPONSE"
    /\ IF c.tid = tid
       THEN Return(tid)
       ELSE GoOn /\ UNCHANGED <<pc, guard, got>>

TakeResponse(c) == c.type = "RESPONSE" /\ Return(c.tid)

\* "unexpected container type": one event too many, or what is no answer.
Unexpected(c) ==
    /\ \/ c.type = "EVENT" /\ guard = StrayLimit
       \/ c.type = "COMMAND"
    /\ Throw

\* The first container of the answer.
ReadFirst(c) ==
    /\ pc = "read"
    /\ DropEvent(c) \/ TakeData(c) \/ TakeResponse(c) \/ Unexpected(c)

\* "RESPONSE must follow" a DATA container.
ReadResponse(c) ==
    /\ pc = "read_resp"
    /\ IF c.type = "RESPONSE"
       THEN Return(c.tid)
       ELSE Throw                  \* expected response container after data

\* open_session and close_session discard the next container unseen.
ReadAny(c) ==
    /\ pc = "read_any"
    /\ Return(IF c.type = "RESPONSE" THEN c.tid ELSE NoTid)

\* read_full_container_() returns c.
Take(c) == ReadFirst(c) \/ ReadResponse(c) \/ ReadAny(c)

\* A read takes a container, whole.
ReadContainer ==
    /\ pc \in Reading
    /\ need = 0 /\ need' = 0
    /\ inPipe # <<>> /\ ~IsRemains(Head(inPipe))
    /\ inPipe' = Tail(inPipe)
    /\ UNCHANGED <<swallowed, outPipe, camVars>>
    /\ Take(Head(inPipe))

\* A read is done with the junk it took for a container, or waits for more.
TakeJunk ==
    IF need' = 0
    THEN \E type \in JunkTypes : Take(Junk(type))
    ELSE GoOn /\ UNCHANGED <<pc, guard, got>>

\* A read takes remains for a header: the length they name may be any.
ReadRemains ==
    /\ pc \in Reading
    /\ need = 0 /\ need' \in 0..MaxNeed
    /\ inPipe # <<>> /\ IsRemains(Head(inPipe))
    /\ inPipe' \in Beyond(inPipe)
    /\ UNCHANGED <<swallowed, outPipe, camVars>>
    /\ TakeJunk

\* The loop that reads until it has as many bytes as the header said: beyond
\* remains it swallows whatever comes.
ReadOn ==
    /\ pc \in Reading
    /\ need > 0 /\ need' = need - 1
    /\ inPipe # <<>>
    /\ inPipe' \in Beyond(inPipe)
    /\ swallowed' = TRUE
    /\ UNCHANGED <<outPipe, camVars>>
    /\ TakeJunk

\* Nothing arrives within the 3000 ms of a read: LIBUSB_ERROR_TIMEOUT.
ReadTimeout ==
    /\ pc \in Reading
    /\ inPipe = <<>>
    /\ UNCHANGED <<swallowed, outPipe, inPipe, camVars>>
    /\ Throw

\* A read fails for another reason, a timeout inside a container among them:
\* with nothing of what it was transferring, the whole of it or a part.  (And
\* remains of less than a header: "short PTP header".)
ReadError ==
    /\ pc \in Reading
    /\ UNCHANGED <<swallowed, outPipe, camVars>>
    /\ Throw
    /\ \/ UNCHANGED inPipe
       \/ inPipe # <<>> /\ inPipe' \in Beyond(inPipe)

Read == ReadContainer \/ ReadRemains \/ ReadOn

-----------------------------------------------------------------------------
(***************************************************************************)
(* The camera, as the client's code expects it: it answers commands in the *)
(* order they arrive, an optional DATA before the RESPONSE, both with the  *)
(* command's transaction id, and sends events whenever it likes.           *)
(***************************************************************************)

CamTakeCommand ==
    /\ camPc = "wait"
    /\ outPipe # <<>>
    /\ Head(outPipe).type = "COMMAND"
    /\ outPipe' = Tail(outPipe)
    /\ camOp' = Head(outPipe).op
    /\ camTid' = Head(outPipe).tid
    /\ camPc' = IF Head(outPipe).op \in DataOutOps THEN "want_data" ELSE "reply"
    /\ UNCHANGED <<hostVars, inPipe, history>>

CamTakeData ==
    /\ camPc = "want_data"
    /\ outPipe # <<>>
    /\ Head(outPipe).type = "DATA"
    /\ outPipe' = Tail(outPipe)
    /\ camPc' = "reply"
    /\ UNCHANGED <<hostVars, inPipe, camOp, camTid, history>>

Send(type) == /\ Len(inPipe) < PipeCap
              /\ inPipe' = Append(inPipe, Container(type, camOp, camTid))

\* The next command arrives where the data phase was expected: the camera
\* gives the old transaction up, with or without telling.
CamAbandon ==
    /\ camPc = "want_data"
    /\ outPipe # <<>>
    /\ Head(outPipe).type = "COMMAND"
    /\ Send("RESPONSE") \/ UNCHANGED inPipe
    /\ camPc' = "wait"
    /\ UNCHANGED <<hostVars, outPipe, camOp, camTid, history>>

CamSendData ==
    /\ camPc = "reply"
    /\ camOp \in DataInOps
    /\ Send("DATA")
    /\ camPc' = "resp"
    /\ UNCHANGED <<hostVars, outPipe, camOp, camTid, history>>

\* From "reply": some bodies skip DATA even when it is expected.
CamSendResponse ==
    /\ camPc \in {"reply", "resp"}
    /\ Send("RESPONSE")
    /\ camPc' = "wait"
    /\ UNCHANGED <<hostVars, outPipe, camOp, camTid, history>>

CamSendEvent ==
    /\ Len(inPipe) < PipeCap
    /\ inPipe' = Append(inPipe, Container("EVENT", NoOp, NoTid))
    /\ UNCHANGED <<hostVars, outPipe, camVars, history>>

Camera ==
    \/ CamTakeCommand \/ CamTakeData \/ CamAbandon
    \/ CamSendData \/ CamSendResponse \/ CamSendEvent

-----------------------------------------------------------------------------

Next ==
    \/ \E o \in Ops : Call(o)
    \/ WriteCommand \/ WriteData \/ WriteError
    \/ Read \/ ReadTimeout \/ ReadError
    \/ Camera

Spec == Init /\ [][Next]_vars

\* The client is a thread that keeps running and whose reads and writes
\* return; nothing is assumed of the camera.
FairSpec == Spec /\ WF_vars(WriteCommand) /\ WF_vars(WriteData)
                 /\ WF_vars(Read \/ ReadTimeout)

-----------------------------------------------------------------------------
(***************************************************************************)
(* Properties.                                                             *)
(***************************************************************************)

\* The first answer that goes to the wrong caller has a cause: a call threw
\* before, or open/close_session took an event for its answer.  Without either,
\* transact() gives every caller the response of its own transaction, although
\* it compares no transaction id.
OnlyFaultsDesync ==
    [][~failed /\ ~desynced /\ desynced' =>
         pc = "read_any" /\ result'.resp = NoTid]_vars

\* Whatever went wrong before, transact() never joins the data of one
\* transaction to the response of another: the RESPONSE it takes after a DATA
\* container is the one the camera sent with it.  Only an answer made of the
\* remains of a container ("garbled") is excepted.
AnswerIsWhole ==
    result.status = "ok" => result.data \in {NoTid, result.resp}

\* Once a call has returned without its own response, no later call returns
\* with its own: the surplus response stays in front of the pipe and each call
\* leaves its own behind.  Neither timeouts nor other errors heal it, but for
\* one way: a read that takes remains for a header and swallows what follows.
DesyncLastsUntilSwallowed == desynced => result.resp # result.tid

\* Until the first fault the client has one transaction in flight: when it
\* writes a command, every earlier one has been answered in full.
OneTransactionAtATime ==
    [][~failed /\ ~desynced /\ WriteCommand =>
         /\ outPipe = <<>> /\ camPc = "wait"
         /\ \A i \in 1..Len(inPipe) : inPipe[i].type = "EVENT"]_vars

\* Every call returns or throws, whatever the camera does: an event stream
\* without end is cut after StrayLimit events, silence by the read timeout.
CallTerminates == pc # "idle" ~> pc = "idle"

\* Remains, or what a read made of them, may enter the next answer.
RemainsAround ==
    \/ inPipe # <<>> /\ IsRemains(Head(inPipe))
    \/ need > 0
    \/ pc # "idle" /\ swallowed
    \/ pc = "read_resp" /\ got = NoTid

\* The calls of CameraPTP keep the contract of CallContract: answers are handed
\* out whole, at most once and in order, to their own callers until the first
\* fault and not any more after a mix-up; only the remains of a container make
\* an exception, and only a call that throws leaves remains.
Contract == INSTANCE CallContract WITH
    Limit <- MaxCalls,
    calls <- next_tid - 1,
    active <- pc # "idle",
    trust <- IF desynced THEN "lag" ELSE IF failed THEN "suspect" ELSE "sync",
    cut <- RemainsAround,
    last <- lastResp,
    outcome <- result

ImplementsContract == Contract!Spec

\* tests/integration/cam_tests.cpp: the data container of a transaction has
\* the "same transaction id" as its command.
DataCarriesCommandTid ==
    \A i \in 1..Len(outPipe) :
        outPipe[i].type = "DATA" => outPipe[i].tid # NoTid

=============================================================================
