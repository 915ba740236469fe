------------------------ MODULE PtpTransactionProofs ------------------------
(***************************************************************************)
(* Proofs about PtpTransaction, for every set of operations and every      *)
(* value of the bounds.                                                    *)
(*                                                                         *)
(* No property of PtpTransaction is inductive.  They follow from five      *)
(* invariants about the containers in flight:                              *)
(*   - Ordered: answers come out in the order of their commands;           *)
(*   - RemainsFirst: what a read left of a container is in front of the    *)
(*     pipe, and only a call that threw left it;                           *)
(*   - Joined: after a DATA container comes its own RESPONSE;              *)
(*   - Owed: a call that reads has an answer coming, unless it has         *)
(*     swallowed it beyond remains, and once the client is out of step an  *)
(*     older one comes before it;                                          *)
(*   - InStep: until the first fault only the running call has anything    *)
(*     in flight.                                                          *)
(***************************************************************************)
EXTENDS PtpTransaction, TLAPS

-----------------------------------------------------------------------------
(***************************************************************************)
(* Sequences.                                                              *)
(***************************************************************************)

\* What Head and Tail return, element by element.
LEMMA TailElements ==
    ASSUME NEW S, NEW s \in Seq(S), s # <<>>
    PROVE  /\ Len(s) \in Nat /\ Len(s) > 0
           /\ Head(s) = s[1] /\ s[1] \in S
           /\ Tail(s) \in Seq(S)
           /\ Len(Tail(s)) = Len(s) - 1
           /\ \A i \in 1..(Len(s) - 1) : Tail(s)[i] = s[i + 1]
  OBVIOUS

\* What Append returns, element by element.
LEMMA AppendElements ==
    ASSUME NEW S, NEW s \in Seq(S), NEW e \in S
    PROVE  /\ Append(s, e) \in Seq(S)
           /\ Append(s, e) # <<>>
           /\ Len(s) \in Nat
           /\ Len(Append(s, e)) = Len(s) + 1
           /\ \A i \in 1..Len(s) : Append(s, e)[i] = s[i]
           /\ Append(s, e)[Len(s) + 1] = e
  OBVIOUS

\* What an element put in front of a sequence makes of it.
LEMMA PrefixElements ==
    ASSUME NEW S, NEW s \in Seq(S), NEW e \in S
    PROVE  /\ <<e>> \o s \in Seq(S)
           /\ Len(s) \in Nat
           /\ Len(<<e>> \o s) = Len(s) + 1
           /\ (<<e>> \o s)[1] = e
           /\ \A i \in 1..Len(s) : (<<e>> \o s)[i + 1] = s[i]
  OBVIOUS

-----------------------------------------------------------------------------
(***************************************************************************)
(* What a read does.  Every read is one of six: it fails, takes a RESPONSE *)
(* for the answer, takes another container for the answer, takes remains   *)
(* for the answer, or goes on after a container or after remains.          *)
(***************************************************************************)

IsCommand(c) == c.type = "COMMAND"
IsData(c) == c.type = "DATA"
IsEvent(c) == c.type = "EVENT"
IsResponse(c) == c.type = "RESPONSE"

\* The first container is taken, or a part of it.
Pops == inPipe # <<>> /\ inPipe' \in Beyond(inPipe)

\* A container is taken whole,
Genuine ==
    /\ Pops /\ inPipe' = Tail(inPipe)
    /\ need = 0 /\ need' = 0 /\ UNCHANGED swallowed
    /\ ~IsRemains(Head(inPipe))

\* or remains are, or what follows them.
Strays ==
    /\ Pops
    /\ need > 0 \/ IsRemains(Head(inPipe))
    /\ need' \in 0..MaxNeed
    /\ swallowed' = (swallowed \/ need > 0)

Fails ==
    /\ Throw
    /\ \/ UNCHANGED <<inPipe, swallowed>>
       \/ Pops /\ UNCHANGED swallowed
       \/ Strays

Answers ==
    /\ Genuine /\ IsResponse(Head(inPipe))
    /\ Return(Head(inPipe).tid)

Discards ==
    /\ Genuine /\ ~IsResponse(Head(inPipe))
    /\ pc = "read_any"
    /\ Return(NoTid)

Garbles ==
    /\ Strays /\ need' = 0
    /\ Return(NoTid)

Skips ==
    /\ Genuine /\ ~IsResponse(Head(inPipe))
    /\ GoOn
    /\ pc = "read" /\ guard' \in 0..StrayLimit
    /\ \/ UNCHANGED <<pc, got>>
       \/ pc' = "read_resp" /\ IsData(Head(inPipe)) /\ got' = Head(inPipe).tid

Wanders ==
    /\ Strays
    /\ GoOn
    /\ guard' \in 0..StrayLimit
    /\ \/ UNCHANGED <<pc, got>>
       \/ pc = "read" /\ pc' = "read_resp" /\ got' = NoTid

\* What taking c does to the call.
LEMMA TakeOutcomes ==
    ASSUME NEW c, Take(c), guard \in 0..StrayLimit
    PROVE  \/ Throw
           \/ /\ Return(IF IsResponse(c) THEN c.tid ELSE NoTid)
              /\ IsResponse(c) \/ pc = "read_any"
           \/ /\ GoOn /\ ~IsResponse(c)
              /\ pc = "read" /\ guard' \in 0..StrayLimit
              /\ \/ UNCHANGED <<pc, got>>
                 \/ pc' = "read_resp" /\ IsData(c) /\ got' = c.tid
<1> USE DEF IsResponse, IsData
<1>1. CASE ReadAny(c) \/ ReadResponse(c)
  BY <1>1 DEF ReadAny, ReadResponse
<1>2. CASE ReadFirst(c)
  <2>1. CASE DropEvent(c)
    <3>1. guard' \in 0..StrayLimit
      BY <2>1, PtpAssumption DEF DropEvent
    <3>2. QED
      BY <1>2, <2>1, <3>1 DEF ReadFirst, DropEvent
  <2>2. CASE TakeData(c)
    BY <1>2, <2>2 DEF ReadFirst, TakeData
  <2>3. CASE TakeResponse(c) \/ Unexpected(c)
    BY <2>3 DEF TakeResponse, Unexpected
  <2>4. QED
    BY <1>2, <2>1, <2>2, <2>3 DEF ReadFirst
<1>3. QED
  BY <1>1, <1>2 DEF Take

LEMMA Reads ==
    ASSUME guard \in 0..StrayLimit, need \in 0..MaxNeed, swallowed \in BOOLEAN,
           Read \/ ReadTimeout \/ ReadError
    PROVE  /\ pc \in Reading
           /\ UNCHANGED <<outPipe, camVars, next_tid, op, tid>>
           /\ Fails \/ Answers \/ Discards \/ Garbles \/ Skips \/ Wanders
<1>f. /\ Throw => UNCHANGED <<next_tid, op, tid>>
      /\ GoOn => UNCHANGED <<next_tid, op, tid>>
      /\ \A r : Return(r) => UNCHANGED <<next_tid, op, tid>>
  BY DEF Throw, GoOn, Return
<1>o. Fails \/ Answers \/ Discards \/ Garbles \/ Skips \/ Wanders
        => UNCHANGED <<next_tid, op, tid>>
  BY <1>f DEF Fails, Answers, Discards, Garbles, Skips, Wanders
<1>1. CASE ReadTimeout \/ ReadError
  BY <1>1, <1>o DEF ReadTimeout, ReadError, Fails, Pops
<1>2. CASE ReadContainer
  <2>1. Genuine
    BY <1>2 DEF ReadContainer, Genuine, Pops, Beyond
  <2>2. Fails \/ Answers \/ Discards \/ Skips
    BY <1>2, <2>1, TakeOutcomes
    DEF ReadContainer, Genuine, Fails, Answers, Discards, Skips
  <2>3. QED
    BY <1>2, <1>o, <2>2 DEF ReadContainer
<1>3. ASSUME Strays, TakeJunk PROVE Fails \/ Garbles \/ Wanders
  <2>1. CASE need' = 0
    <3>1. PICK type \in JunkTypes : Take(Junk(type))
      BY <1>3, <2>1 DEF TakeJunk
    <3>2. Junk(type).tid = NoTid
      BY DEF Junk, Container
    <3>3. QED
      BY <1>3, <2>1, <3>1, <3>2, TakeOutcomes DEF Fails, Garbles, Wanders
  <2>2. CASE need' # 0
    BY <1>3, <2>2 DEF TakeJunk, Wanders
  <2>3. QED
    BY <2>1, <2>2
<1>4. CASE ReadRemains
  <2>1. Strays
    BY <1>4 DEF ReadRemains, Strays, Pops
  <2>2. QED
    BY <1>3, <1>4, <1>o, <2>1 DEF ReadRemains
<1>5. CASE ReadOn
  <2>1. need' \in 0..MaxNeed
    BY <1>5, PtpAssumption DEF ReadOn
  <2>2. Strays
    BY <1>5, <2>1 DEF ReadOn, Strays, Pops
  <2>3. QED
    BY <1>3, <1>5, <1>o, <2>2 DEF ReadOn
<1>6. QED
  BY <1>1, <1>2, <1>4, <1>5 DEF Read

-----------------------------------------------------------------------------
(***************************************************************************)
(* Type correctness.                                                       *)
(***************************************************************************)

\* The client only writes, and the camera only sends, containers of the types
\* the pipes carry.
LEMMA ContainerTypes ==
    ASSUME NEW o \in AllOps, NEW t \in Nat
    PROVE  /\ Container("COMMAND", o, t) \in OutContainers
           /\ Container("DATA", o, t) \in OutContainers
           /\ \A k \in {"DATA", "RESPONSE"} : Container(k, o, t) \in InContainers
           /\ Container("EVENT", NoOp, NoTid) \in InContainers
           /\ Remains \in InContainers
  BY DEF Container, Remains, OutContainers, InContainers, NoTid

LEMMA TypeInit == Init => TypeOK
<1> SUFFICES ASSUME Init PROVE TypeOK
  OBVIOUS
<1> USE DEF Init, NoTid
<1>1. guard \in 0..StrayLimit
  BY PtpAssumption
<1>2. result \in Results
  BY DEF Results
<1>3. outPipe \in Seq(OutContainers) /\ inPipe \in Seq(InContainers)
  OBVIOUS
<1>4. op \in AllOps \cup {NoOp} /\ camOp \in AllOps \cup {NoOp}
  OBVIOUS
<1>5. failed \in BOOLEAN /\ swallowed \in BOOLEAN /\ desynced \in BOOLEAN
  OBVIOUS
<1>9. need \in 0..MaxNeed
  BY PtpAssumption
<1>6. /\ next_tid \in Nat \ {0} /\ tid \in Nat /\ got \in Nat
      /\ camTid \in Nat /\ lastResp \in Nat
  OBVIOUS
<1>7. /\ pc \in {"idle"} \cup Writing \cup Reading
      /\ camPc \in {"wait", "want_data", "reply", "resp"}
  OBVIOUS
<1>8. QED
  BY <1>1, <1>2, <1>3, <1>4, <1>5, <1>6, <1>7, <1>9 DEF TypeOK

\* The type invariant by owner of the variables.
HostTypes ==
    /\ next_tid \in Nat \ {0}
    /\ pc \in {"idle"} \cup Writing \cup Reading
    /\ op \in AllOps \cup {NoOp}
    /\ tid \in Nat
    /\ guard \in 0..StrayLimit
    /\ got \in Nat
    /\ need \in 0..MaxNeed
    /\ result \in Results
    /\ failed \in BOOLEAN
    /\ swallowed \in BOOLEAN
    /\ desynced \in BOOLEAN
    /\ lastResp \in Nat

CamTypes ==
    /\ camPc \in {"wait", "want_data", "reply", "resp"}
    /\ camOp \in AllOps \cup {NoOp}
    /\ camTid \in Nat

PipeTypes == outPipe \in Seq(OutContainers) /\ inPipe \in Seq(InContainers)

LEMMA TypeParts == TypeOK <=> HostTypes /\ CamTypes /\ PipeTypes
  BY DEF TypeOK, HostTypes, CamTypes, PipeTypes

LEMMA TypePartsNext == TypeOK' <=> HostTypes' /\ CamTypes' /\ PipeTypes'
  BY DEF TypeOK, HostTypes, CamTypes, PipeTypes

\* A call is made only of an operation of Ops, so a call in progress has one.
OpTyped == pc # "idle" => op \in AllOps

LEMMA ReturnTypes ==
    ASSUME HostTypes, NEW r \in Nat, Return(r),
           need' \in 0..MaxNeed, swallowed' \in BOOLEAN
    PROVE  HostTypes'
<1>1. result' \in Results
  BY DEF Return, HostTypes, Results
<1>2. lastResp' \in Nat
  BY DEF Return, HostTypes
<1>3. desynced' \in BOOLEAN
  BY DEF Return, HostTypes
<1>4. QED
  BY <1>1, <1>2, <1>3 DEF Return, HostTypes

LEMMA ThrowTypes == HostTypes /\ Throw /\ swallowed' \in BOOLEAN => HostTypes'
<1> SUFFICES ASSUME HostTypes, Throw, swallowed' \in BOOLEAN PROVE HostTypes'
  OBVIOUS
<1>1. result' \in Results
  BY DEF Throw, HostTypes, Results, NoTid
<1>2. need' \in 0..MaxNeed /\ desynced' \in BOOLEAN
  BY PtpAssumption DEF Throw, OutOfStep, HostTypes
<1>3. QED
  BY <1>1, <1>2 DEF Throw, HostTypes

\* The head of a pipe has the type of its containers.
LEMMA HeadTypes ==
    ASSUME PipeTypes
    PROVE  /\ inPipe # <<>> => /\ Head(inPipe) \in InContainers
                               /\ Head(inPipe).tid \in Nat
                               /\ Tail(inPipe) \in Seq(InContainers)
           /\ outPipe # <<>> => /\ Head(outPipe) \in OutContainers
                                /\ Head(outPipe).tid \in Nat
                                /\ Head(outPipe).op \in AllOps
                                /\ Tail(outPipe) \in Seq(OutContainers)
<1>1. ASSUME inPipe # <<>>
      PROVE  /\ Head(inPipe) \in InContainers
             /\ Head(inPipe).tid \in Nat
             /\ Tail(inPipe) \in Seq(InContainers)
  <2>1. inPipe \in Seq(InContainers)
    BY DEF PipeTypes
  <2>2. Head(inPipe) \in InContainers /\ Tail(inPipe) \in Seq(InContainers)
    BY <1>1, <2>1, TailElements
  <2>3. QED
    BY <2>2 DEF InContainers
<1>2. ASSUME outPipe # <<>>
      PROVE  /\ Head(outPipe) \in OutContainers
             /\ Head(outPipe).tid \in Nat
             /\ Head(outPipe).op \in AllOps
             /\ Tail(outPipe) \in Seq(OutContainers)
  <2>1. outPipe \in Seq(OutContainers)
    BY DEF PipeTypes
  <2>2. Head(outPipe) \in OutContainers /\ Tail(outPipe) \in Seq(OutContainers)
    BY <1>2, <2>1, TailElements
  <2>3. QED
    BY <2>2 DEF OutContainers
<1>3. QED
  BY <1>1, <1>2

\* No step leaves the types.
LEMMA TypeStep == TypeOK /\ OpTyped /\ [Next]_vars => TypeOK' /\ OpTyped'
<1> SUFFICES ASSUME TypeOK, OpTyped, [Next]_vars
             PROVE  HostTypes' /\ CamTypes' /\ PipeTypes' /\ OpTyped'
  BY TypePartsNext
<1> HostTypes /\ CamTypes /\ PipeTypes
  BY TypeParts
<1> NoTid \in Nat
  BY DEF NoTid
<1>1. ASSUME NEW o \in Ops, Call(o)
      PROVE  HostTypes' /\ CamTypes' /\ PipeTypes' /\ OpTyped'
  <2>1. o \in AllOps /\ 0 \in 0..StrayLimit
    BY PtpAssumption
  <2>2. HostTypes'
    <3>1. swallowed' \in BOOLEAN
      BY <1>1 DEF Call
    <3>2. QED
      BY <1>1, <2>1, <3>1 DEF Call, HostTypes, Writing
  <2>3. QED
    BY <1>1, <2>1, <2>2 DEF Call, CamTypes, PipeTypes, OpTyped, camVars
<1>2. CASE WriteCommand
  <2>1. op \in AllOps
    BY <1>2 DEF WriteCommand, OpTyped
  <2>2. HostTypes'
    BY <1>2 DEF WriteCommand, HostTypes, Writing, Reading, history
  <2>3. Container("COMMAND", op, tid) \in OutContainers
    BY <2>1, ContainerTypes DEF HostTypes
  <2>4. PipeTypes'
    BY <1>2, <2>3, AppendElements DEF WriteCommand, PipeTypes
  <2>5. QED
    BY <1>2, <2>1, <2>2, <2>4 DEF WriteCommand, CamTypes, OpTyped, camVars
<1>3. ASSUME pc = "write_data",
             \E t \in DataTids(op, tid) :
                outPipe' = Append(outPipe, Container("DATA", op, t)),
             UNCHANGED inPipe
      PROVE  PipeTypes'
  <2>1. PICK t \in DataTids(op, tid) :
             outPipe' = Append(outPipe, Container("DATA", op, t))
    BY <1>3
  <2>2. t \in Nat /\ op \in AllOps
    BY <1>3 DEF DataTids, HostTypes, OpTyped
  <2>3. Container("DATA", op, t) \in OutContainers
    BY <2>2, ContainerTypes
  <2>4. QED
    BY <1>3, <2>1, <2>3, AppendElements DEF PipeTypes
<1>4. CASE WriteData
  <2>1. PipeTypes'
    BY <1>3, <1>4 DEF WriteData
  <2>2. HostTypes'
    BY <1>4 DEF WriteData, HostTypes, Reading, history
  <2>3. QED
    BY <1>4, <2>1, <2>2 DEF WriteData, CamTypes, OpTyped, camVars
<1>5. CASE WriteError
  <2>1. HostTypes'
    <3>1. swallowed' \in BOOLEAN
      BY <1>5 DEF WriteError, HostTypes
    <3>2. QED
      BY <1>5, <3>1, ThrowTypes DEF WriteError
  <2>2. CASE pc = "write_cmd" /\ outPipe' = Append(outPipe, Container("COMMAND", op, tid))
    <3>1. Container("COMMAND", op, tid) \in OutContainers
      BY <2>2, ContainerTypes DEF HostTypes, OpTyped
    <3>2. QED
      BY <1>5, <2>1, <2>2, <3>1, AppendElements
      DEF WriteError, Throw, CamTypes, PipeTypes, OpTyped, camVars
  <2>3. CASE pc = "write_data" /\ \E t \in DataTids(op, tid) :
                outPipe' = Append(outPipe, Container("DATA", op, t))
    <3>1. PipeTypes'
      BY <1>3, <1>5, <2>3 DEF WriteError
    <3>2. QED
      BY <1>5, <2>1, <3>1 DEF WriteError, Throw, CamTypes, OpTyped, camVars
  <2>4. CASE UNCHANGED outPipe
    BY <1>5, <2>1, <2>4 DEF WriteError, Throw, CamTypes, PipeTypes, OpTyped, camVars
  <2>5. QED
    BY <1>5, <2>2, <2>3, <2>4 DEF WriteError
<1>6. ASSUME Pops PROVE PipeTypes' \/ outPipe' # outPipe
  <2>1. Tail(inPipe) \in Seq(InContainers)
    BY <1>6, HeadTypes DEF Pops
  <2>2. Remains \in InContainers
    BY DEF Remains, Container, InContainers
  <2>3. <<Remains>> \o Tail(inPipe) \in Seq(InContainers)
    BY <2>1, <2>2, PrefixElements
  <2>4. QED
    BY <1>6, <2>1, <2>3 DEF Pops, Beyond, PipeTypes
<1>7. CASE Read \/ ReadTimeout \/ ReadError
  <2>1. /\ UNCHANGED <<outPipe, camVars, next_tid, op, tid>> /\ pc \in Reading
        /\ Fails \/ Answers \/ Discards \/ Garbles \/ Skips \/ Wanders
    BY <1>7, Reads DEF HostTypes
  <2>2. PipeTypes' /\ CamTypes'
    BY <1>6, <2>1
    DEF Fails, Answers, Discards, Garbles, Skips, Wanders, Genuine, Strays,
        PipeTypes, CamTypes, camVars
  <2>3. swallowed' \in BOOLEAN
    BY <2>1
    DEF Fails, Answers, Discards, Garbles, Skips, Wanders, Genuine, Strays, HostTypes
  <2>4. CASE Fails
    BY <2>2, <2>3, <2>4, ThrowTypes DEF Fails, Throw, OpTyped
  <2>5. CASE Answers
    <3>1. Head(inPipe).tid \in Nat /\ need' \in 0..MaxNeed
      BY <2>5, HeadTypes, PtpAssumption DEF Answers, Genuine, Pops
    <3>2. QED
      BY <2>2, <2>3, <2>5, <3>1, ReturnTypes DEF Answers, Return, OpTyped
  <2>6. CASE Discards \/ Garbles
    <3>1. Return(NoTid) /\ need' \in 0..MaxNeed
      BY <2>6, PtpAssumption DEF Discards, Garbles, Genuine
    <3>2. HostTypes'
      BY <2>3, <3>1, ReturnTypes
    <3>3. QED
      BY <2>2, <3>1, <3>2 DEF Return, OpTyped
  <2>7. CASE Skips \/ Wanders
    <3>1. GoOn /\ guard' \in 0..StrayLimit /\ need' \in 0..MaxNeed
      BY <2>7, PtpAssumption DEF Skips, Wanders, Genuine, Strays
    <3>2. pc' \in Reading /\ got' \in Nat
      BY <2>1, <2>7, HeadTypes
      DEF Skips, Wanders, Genuine, Strays, Pops, Reading, HostTypes
    <3>3. desynced' \in BOOLEAN
      BY <3>1 DEF GoOn, OutOfStep, HostTypes
    <3>4. HostTypes'
      BY <2>3, <3>1, <3>2, <3>3 DEF GoOn, HostTypes
    <3>5. QED
      BY <2>1, <2>2, <3>4 DEF OpTyped, Reading
  <2>8. QED
    BY <2>1, <2>4, <2>5, <2>6, <2>7
<1>11. CASE CamTakeCommand
  BY <1>11, HeadTypes
  DEF CamTakeCommand, HostTypes, CamTypes, PipeTypes, OpTyped, hostVars, history
<1>12. CASE CamTakeData
  BY <1>12, HeadTypes
  DEF CamTakeData, HostTypes, CamTypes, PipeTypes, OpTyped, hostVars, history
<1>13. ASSUME NEW k \in {"DATA", "RESPONSE"}, Send(k)
       PROVE  inPipe' \in Seq(InContainers)
  <2>1. Container(k, camOp, camTid) \in InContainers
    BY DEF Container, InContainers, CamTypes
  <2>2. QED
    BY <1>13, <2>1, AppendElements DEF Send, PipeTypes
<1>14. CASE CamAbandon
  <2>1. PipeTypes'
    BY <1>13, <1>14 DEF CamAbandon, PipeTypes
  <2>2. QED
    BY <1>14, <2>1 DEF CamAbandon, HostTypes, CamTypes, OpTyped, hostVars, history
<1>15. CASE CamSendData
  <2>1. PipeTypes'
    BY <1>13, <1>15 DEF CamSendData, PipeTypes
  <2>2. QED
    BY <1>15, <2>1 DEF CamSendData, HostTypes, CamTypes, OpTyped, hostVars, history
<1>16. CASE CamSendResponse
  <2>1. PipeTypes'
    BY <1>13, <1>16 DEF CamSendResponse, PipeTypes
  <2>2. QED
    BY <1>16, <2>1
    DEF CamSendResponse, HostTypes, CamTypes, OpTyped, hostVars, history
<1>17. CASE CamSendEvent
  <2>1. Container("EVENT", NoOp, NoTid) \in InContainers
    BY DEF Container, InContainers
  <2>2. PipeTypes'
    BY <1>17, <2>1, AppendElements DEF CamSendEvent, PipeTypes
  <2>3. QED
    BY <1>17, <2>2
    DEF CamSendEvent, HostTypes, CamTypes, OpTyped, hostVars, camVars, history
<1>18. CASE UNCHANGED vars
  BY <1>18
  DEF vars, hostVars, camVars, history, HostTypes, CamTypes, PipeTypes, OpTyped
<1>19. QED
  BY <1>1, <1>2, <1>4, <1>5, <1>7, <1>11, <1>12, <1>14, <1>15, <1>16, <1>17, <1>18
  DEF Next, Camera

\* PtpTransaction's variables keep their types.
THEOREM TypeCorrect == Spec => [](TypeOK /\ OpTyped)
<1>1. Init => TypeOK /\ OpTyped
  BY TypeInit DEF Init, OpTyped
<1>2. QED
  BY <1>1, TypeStep, PTL DEF Spec

-----------------------------------------------------------------------------

Busy == pc # "idle"

Host ==
    /\ tid < next_tid
    /\ Busy => tid = next_tid - 1 /\ tid > NoTid /\ op \in AllOps
    /\ pc = "write_data" => op \in DataOutOps
    /\ Busy /\ pc # "read_resp" => got = NoTid

-----------------------------------------------------------------------------

Ordered ==
    /\ \A i \in 1..Len(inPipe) : IsResponse(inPipe[i]) =>
          /\ lastResp < inPipe[i].tid
          /\ inPipe[i].tid < next_tid
          /\ \A j \in 1..Len(inPipe) :
                IsResponse(inPipe[j]) /\ i < j => inPipe[i].tid < inPipe[j].tid
          /\ camPc # "wait" => inPipe[i].tid < camTid
          /\ \A j \in 1..Len(outPipe) :
                IsCommand(outPipe[j]) => inPipe[i].tid < outPipe[j].tid
          /\ pc = "write_cmd" => inPipe[i].tid < tid
    /\ camPc # "wait" =>
          /\ lastResp < camTid
          /\ camTid < next_tid
          /\ \A j \in 1..Len(outPipe) :
                IsCommand(outPipe[j]) => camTid < outPipe[j].tid
          /\ pc = "write_cmd" => camTid < tid
    /\ \A i \in 1..Len(outPipe) : IsCommand(outPipe[i]) =>
          /\ lastResp < outPipe[i].tid
          /\ outPipe[i].tid < next_tid
          /\ \A j \in 1..Len(outPipe) :
                IsCommand(outPipe[j]) /\ i < j => outPipe[i].tid < outPipe[j].tid
          /\ pc = "write_cmd" => outPipe[i].tid < tid
    /\ lastResp < next_tid
    /\ pc = "write_cmd" => lastResp < tid

-----------------------------------------------------------------------------

\* Remains are in front of the pipe, and what a call makes of them is its own
\* affair: the DATA container it holds either is junk or was read after them.
RemainsFirst ==
    /\ \A i \in 1..Len(inPipe) :
          /\ IsRemains(inPipe[i]) => i = 1 /\ failed
          /\ IsData(inPipe[i]) => inPipe[i].tid # NoTid
    /\ need > 0 \/ swallowed => failed
    /\ need > 0 => pc \in Reading
    /\ pc \in Writing => ~swallowed
    /\ Busy /\ swallowed => ~desynced
    /\ pc = "read_resp" /\ got = NoTid => failed
    /\ pc = "read_resp" /\ got # NoTid =>
          /\ need = 0
          /\ \A i \in 1..Len(inPipe) : ~IsRemains(inPipe[i])

-----------------------------------------------------------------------------

Joined ==
    /\ \A i \in 1..Len(inPipe) : IsData(inPipe[i]) =>
          /\ i = Len(inPipe) => camPc = "resp" /\ camTid = inPipe[i].tid
          /\ i < Len(inPipe) /\ IsResponse(inPipe[i + 1]) =>
                inPipe[i + 1].tid = inPipe[i].tid
    /\ pc = "read_resp" /\ got # NoTid =>
          /\ inPipe = <<>> => camPc = "resp" /\ camTid = got
          /\ inPipe # <<>> /\ IsResponse(inPipe[1]) => inPipe[1].tid = got

-----------------------------------------------------------------------------

\* The answer to call t is on its way, in one of three places.
Arrived(t) ==
    \E i \in 1..Len(inPipe) : IsResponse(inPipe[i]) /\ inPipe[i].tid = t

InCamera(t) ==
    /\ camTid = t
    /\ \/ camPc \in {"reply", "resp"}
       \/ camPc = "want_data" /\ Len(outPipe) > 0 /\ IsData(outPipe[1])

Submitted(t) ==
    \E i \in 1..Len(outPipe) :
       /\ IsCommand(outPipe[i]) /\ outPipe[i].tid = t
       /\ \/ outPipe[i].op \notin DataOutOps
          \/ i < Len(outPipe) /\ IsData(outPipe[i + 1])

Coming(t) == Arrived(t) \/ InCamera(t) \/ Submitted(t)

\* A call that reads will find its own answer, unless it has swallowed that and
\* nothing newer can come,
NothingComes ==
    /\ camPc = "wait"
    /\ \A i \in 1..Len(inPipe) : ~IsResponse(inPipe[i])
    /\ \A i \in 1..Len(outPipe) : ~IsCommand(outPipe[i])

OwnAnswerComes == pc \in Reading => Coming(tid) \/ (swallowed /\ NothingComes)

\* which the data it is about to write will let the camera send.
DataIsWanted ==
    pc = "write_data" =>
       \/ Len(outPipe) = 0 /\ camPc = "want_data" /\ camTid = tid
       \/ /\ Len(outPipe) > 0
          /\ IsCommand(outPipe[Len(outPipe)]) /\ outPipe[Len(outPipe)].tid = tid
          /\ outPipe[Len(outPipe)].op \in DataOutOps

\* Out of step, an older call's answer comes as well.
OlderAnswerComes ==
    desynced => \E t \in Nat :
       /\ t < next_tid
       /\ Busy => t < tid
       /\ Coming(t)

Owed == OwnAnswerComes /\ DataIsWanted /\ OlderAnswerComes

-----------------------------------------------------------------------------

OnlyEvents == \A i \in 1..Len(inPipe) : IsEvent(inPipe[i])

Quiet == outPipe = <<>> /\ camPc = "wait" /\ OnlyEvents

\* Where the transaction of a reading call may be.
OnItsWay ==
    /\ camPc = "wait" /\ OnlyEvents
    /\ Len(outPipe) = IF op \in DataOutOps THEN 2 ELSE 1
    /\ IsCommand(outPipe[1]) /\ outPipe[1].op = op /\ outPipe[1].tid = tid
    /\ Len(outPipe) = 2 => IsData(outPipe[2])

HalfTaken ==
    /\ camPc = "want_data" /\ camTid = tid /\ OnlyEvents
    /\ Len(outPipe) = 1 /\ IsData(outPipe[1])

BeingDone ==
    /\ camPc \in {"reply", "resp"} /\ camTid = tid
    /\ outPipe = <<>>
    /\ \A i \in 1..Len(inPipe) : ~IsResponse(inPipe[i])

Answered ==
    /\ camPc = "wait" /\ outPipe = <<>>
    /\ \E k \in 1..Len(inPipe) :
          /\ IsResponse(inPipe[k]) /\ inPipe[k].tid = tid
          /\ \A j \in 1..Len(inPipe) :
                /\ j < k => ~IsResponse(inPipe[j])
                /\ j > k => IsEvent(inPipe[j])

InStep ==
    ~failed /\ ~desynced =>
       /\ pc \in {"idle", "write_cmd"} => Quiet
       /\ pc = "write_data" =>
             /\ OnlyEvents
             /\ \/ /\ camPc = "wait" /\ Len(outPipe) = 1 /\ IsCommand(outPipe[1])
                   /\ outPipe[1].op = op /\ outPipe[1].tid = tid
                \/ camPc = "want_data" /\ camTid = tid /\ outPipe = <<>>
       /\ pc \in Reading => OnItsWay \/ HalfTaken \/ BeingDone \/ Answered

-----------------------------------------------------------------------------
(***************************************************************************)
(* What a step does to a pipe, element by element.                         *)
(***************************************************************************)

\* A read takes the first container (d = 1) or leaves remains in its place.
LEMMA PopElements ==
    ASSUME TypeOK, Pops
    PROVE  /\ Len(inPipe) \in Nat /\ Len(inPipe) > 0
           /\ Head(inPipe) = inPipe[1] /\ inPipe[1] \in InContainers
           /\ \E d \in {0, 1} :
                 /\ Len(inPipe') = Len(inPipe) - d
                 /\ d = 1 => inPipe' = Tail(inPipe)
                 /\ d = 0 => ~IsResponse(inPipe[1]) /\ inPipe'[1] = Remains
                 /\ \A i \in 1..Len(inPipe') :
                       \/ i = 1 /\ inPipe'[i] = Remains
                       \/ i + d \in 2..Len(inPipe) /\ inPipe'[i] = inPipe[i + d]
                 /\ \A k \in 2..Len(inPipe) :
                       k - d \in 1..Len(inPipe') /\ inPipe'[k - d] = inPipe[k]
<1> DEFINE t == Tail(inPipe)
           n == Len(inPipe)
<1>1. inPipe \in Seq(InContainers) /\ inPipe # <<>>
  BY DEF TypeOK, Pops
<1>2. /\ n \in Nat /\ n > 0 /\ Head(inPipe) = inPipe[1] /\ inPipe[1] \in InContainers
      /\ t \in Seq(InContainers) /\ Len(t) = n - 1
      /\ \A i \in 1..(n - 1) : t[i] = inPipe[i + 1]
  BY <1>1, TailElements
<1>3. CASE inPipe' = t
  <2> HIDE DEF t, n
  <2>1. \A i \in 1..Len(inPipe') : i + 1 \in 2..n /\ inPipe'[i] = inPipe[i + 1]
    BY <1>2, <1>3
  <2>2. \A k \in 2..n : k - 1 \in 1..Len(inPipe') /\ inPipe'[k - 1] = inPipe[k]
    BY <1>2, <1>3
  <2>4. Len(inPipe') = n - 1 /\ (1 = 1 => inPipe' = t)
    BY <1>2, <1>3
  <2>5. \A i \in 1..Len(inPipe') :
           \/ i = 1 /\ inPipe'[i] = Remains
           \/ i + 1 \in 2..n /\ inPipe'[i] = inPipe[i + 1]
    BY <2>1
  <2>6. 1 = 0 => ~IsResponse(inPipe[1]) /\ inPipe'[1] = Remains
    OBVIOUS
  <2>7. QED
    BY <1>2, <2>2, <2>4, <2>5, <2>6 DEF n, t
<1>4. CASE inPipe' = <<Remains>> \o t /\ Cuttable(Head(inPipe))
  <2> HIDE DEF t, n
  <2>1. Remains \in InContainers
    BY DEF Remains, Container, InContainers, NoTid
  <2>2. /\ Len(inPipe') = Len(t) + 1 /\ inPipe'[1] = Remains
        /\ \A i \in 1..Len(t) : inPipe'[i + 1] = t[i]
    BY <1>2, <1>4, <2>1, PrefixElements
  <2>3. \A k \in 2..n : k \in 1..Len(inPipe') /\ inPipe'[k] = inPipe[k]
    <3>1. ASSUME NEW k \in 2..n PROVE inPipe'[k] = inPipe[k] /\ k \in 1..Len(inPipe')
      <4>1. k - 1 \in 1..Len(t) /\ (k - 1) + 1 = k
        BY <1>2
      <4>2. inPipe'[(k - 1) + 1] = t[k - 1] /\ t[k - 1] = inPipe[(k - 1) + 1]
        BY <1>2, <2>2, <4>1
      <4>3. QED
        BY <1>2, <2>2, <4>1, <4>2
    <3>2. QED
      BY <3>1
  <2>4. ~IsResponse(inPipe[1])
    BY <1>2, <1>4 DEF Cuttable, IsResponse
  <2>5. Len(inPipe') = n - 0 /\ (0 = 1 => inPipe' = Tail(inPipe))
    BY <1>2, <2>2
  <2>6. \A i \in 1..Len(inPipe') :
           \/ i = 1 /\ inPipe'[i] = Remains
           \/ i + 0 \in 2..n /\ inPipe'[i] = inPipe[i + 0]
    BY <1>2, <2>2, <2>3
  <2>7. \A k \in 2..n : k - 0 \in 1..Len(inPipe') /\ inPipe'[k - 0] = inPipe[k]
    BY <1>2, <2>3
  <2>8. QED
    BY <1>2, <2>2, <2>4, <2>5, <2>6, <2>7 DEF n
<1>5. QED
  BY <1>3, <1>4 DEF Pops, Beyond

\* The camera sends a container.
LEMMA SendElements ==
    ASSUME TypeOK, NEW c \in InContainers, inPipe' = Append(inPipe, c)
    PROVE  /\ Len(inPipe) \in Nat
           /\ inPipe' # <<>>
           /\ Len(inPipe') = Len(inPipe) + 1
           /\ \A i \in 1..Len(inPipe) : inPipe'[i] = inPipe[i]
           /\ inPipe'[Len(inPipe) + 1] = c
  BY AppendElements DEF TypeOK

\* The camera takes a container.
LEMMA TakeElements ==
    ASSUME TypeOK, outPipe # <<>>, outPipe' = Tail(outPipe)
    PROVE  /\ Len(outPipe) \in Nat /\ Len(outPipe) > 0
           /\ Head(outPipe) = outPipe[1]
           /\ Len(outPipe') = Len(outPipe) - 1
           /\ \A i \in 1..Len(outPipe') : i + 1 \in 1..Len(outPipe)
                                          /\ outPipe'[i] = outPipe[i + 1]
  BY TailElements DEF TypeOK

\* The client writes a container.
LEMMA WriteElements ==
    ASSUME TypeOK, NEW c \in OutContainers, outPipe' = Append(outPipe, c)
    PROVE  /\ Len(outPipe) \in Nat
           /\ outPipe' # <<>>
           /\ Len(outPipe') = Len(outPipe) + 1
           /\ \A i \in 1..Len(outPipe) : outPipe'[i] = outPipe[i]
           /\ outPipe'[Len(outPipe) + 1] = c
  BY AppendElements DEF TypeOK

\* The ids in the pipes are numbers.
LEMMA PipeTids ==
    ASSUME TypeOK
    PROVE  /\ Len(inPipe) \in Nat /\ Len(outPipe) \in Nat
           /\ \A i \in 1..Len(inPipe) :
                 /\ inPipe[i].tid \in Nat
                 /\ inPipe[i].type \in {"EVENT", "DATA", "RESPONSE", "REMAINS"}
           /\ \A i \in 1..Len(outPipe) :
                 /\ outPipe[i].tid \in Nat /\ outPipe[i].type \in {"COMMAND", "DATA"}
                 /\ outPipe[i].op \in AllOps
<1>1. /\ \A i \in 1..Len(inPipe) : inPipe[i] \in InContainers
      /\ \A i \in 1..Len(outPipe) : outPipe[i] \in OutContainers
      /\ Len(inPipe) \in Nat /\ Len(outPipe) \in Nat
  BY DEF TypeOK
<1>2. QED
  BY <1>1 DEF InContainers, OutContainers

-----------------------------------------------------------------------------

LEMMA HostInit == Init => Host
  BY DEF Init, Host, Busy, NoTid

LEMMA HostStep == TypeOK /\ Host /\ [Next]_vars => Host'
<1> SUFFICES ASSUME TypeOK, Host, [Next]_vars PROVE Host'
  OBVIOUS
<1> USE DEF TypeOK, Host, Busy, NoTid
<1>1. ASSUME NEW o \in Ops, Call(o) PROVE Host'
  BY <1>1, PtpAssumption DEF Call
<1>2. CASE WriteCommand
  BY <1>2 DEF WriteCommand, DataOutOps, SessionOps
<1>3. CASE WriteData
  BY <1>3 DEF WriteData
<1>4. CASE WriteError
  BY <1>4 DEF WriteError, Throw
<1>5. CASE Read \/ ReadTimeout \/ ReadError
  BY <1>5, Reads
  DEF Fails, Answers, Discards, Garbles, Skips, Wanders, Throw, Return, GoOn, Reading
<1>7. CASE Camera
  BY <1>7 DEF Camera, CamTakeCommand, CamTakeData, CamAbandon, CamSendData,
              CamSendResponse, CamSendEvent, hostVars
<1>8. CASE UNCHANGED vars
  BY <1>8 DEF vars, hostVars
<1>9. QED
  BY <1>1, <1>2, <1>3, <1>4, <1>5, <1>7, <1>8 DEF Next

-----------------------------------------------------------------------------

LEMMA OrderedInit == Init => Ordered
  BY DEF Init, Ordered, NoTid

LEMMA OrderedStep == TypeOK /\ OpTyped /\ Host /\ Ordered /\ [Next]_vars => Ordered'
<1> SUFFICES ASSUME TypeOK, OpTyped, Host, Ordered, [Next]_vars PROVE Ordered'
  OBVIOUS
<1> USE DEF IsCommand, IsData, IsEvent, IsResponse, Busy
<1>n. /\ next_tid \in Nat /\ tid \in Nat /\ camTid \in Nat /\ lastResp \in Nat
      /\ NoTid \in Nat
  BY DEF TypeOK, NoTid
<1>p. /\ Len(inPipe) \in Nat /\ Len(outPipe) \in Nat
      /\ \A i \in 1..Len(inPipe) : inPipe[i].tid \in Nat
      /\ \A i \in 1..Len(outPipe) : outPipe[i].tid \in Nat
  BY PipeTids
<1>1. ASSUME NEW o \in Ops, Call(o) PROVE Ordered'
  <2>1. /\ tid' = next_tid /\ next_tid' = next_tid + 1
        /\ UNCHANGED <<inPipe, outPipe, camPc, camTid, lastResp>>
    BY <1>1 DEF Call, camVars, history
  <2>2. \A t \in Nat : t < next_tid => t < tid' /\ t < next_tid'
    BY <1>n, <2>1
  <2>3. QED
    BY <1>n, <1>p, <2>1, <2>2 DEF Ordered
<1>2. ASSUME outPipe' = Append(outPipe, Container("COMMAND", op, tid)),
             pc = "write_cmd", pc' # "write_cmd",
             UNCHANGED <<inPipe, camVars, lastResp, next_tid, tid>>
      PROVE  Ordered'
  <2>1. Container("COMMAND", op, tid) \in OutContainers
    BY <1>2, ContainerTypes DEF TypeOK, OpTyped
  <2>2. tid < next_tid
    BY DEF Host
  <2>3. QED
    BY <1>2, <1>n, <1>p, <2>1, <2>2, WriteElements DEF Ordered, Container, camVars
<1>3. ASSUME NEW t \in DataTids(op, tid), pc = "write_data", pc' # "write_cmd",
             outPipe' = Append(outPipe, Container("DATA", op, t)),
             UNCHANGED <<inPipe, camVars, lastResp, next_tid, tid>>
      PROVE  Ordered'
  <2>1. Container("DATA", op, t) \in OutContainers
    BY <1>3, <1>n, ContainerTypes DEF OpTyped, DataTids
  <2>2. QED
    BY <1>3, <1>n, <1>p, <2>1, WriteElements DEF Ordered, Container, camVars
<1>4. ASSUME Pops, pc # "write_cmd", pc' # "write_cmd",
             \/ UNCHANGED lastResp
             \/ IsResponse(Head(inPipe)) /\ lastResp' = Head(inPipe).tid,
             UNCHANGED <<outPipe, camVars, next_tid, tid>>
      PROVE  Ordered'
  <2>1. /\ Len(inPipe) > 0 /\ Head(inPipe) = inPipe[1]
        /\ \E d \in {0, 1} :
              /\ Len(inPipe') = Len(inPipe) - d
              /\ \A i \in 1..Len(inPipe') :
                    \/ i = 1 /\ inPipe'[i] = Remains
                    \/ i + d \in 2..Len(inPipe) /\ inPipe'[i] = inPipe[i + d]
    BY <1>4, PopElements
  <2>2. ~IsResponse(Remains)
    BY DEF Remains, Container
  <2>3. PICK d \in {0, 1} :
           /\ Len(inPipe') = Len(inPipe) - d
           /\ \A i \in 1..Len(inPipe') : IsResponse(inPipe'[i]) =>
                 i + d \in 2..Len(inPipe) /\ inPipe'[i] = inPipe[i + d]
    BY <2>1, <2>2
  <2>4. UNCHANGED <<outPipe, camPc, camTid, next_tid, tid>>
    BY <1>4 DEF camVars
  <2> HIDE DEF IsCommand, IsResponse
  <2>5. ASSUME NEW i \in 1..Len(inPipe'), IsResponse(inPipe'[i])
        PROVE  /\ lastResp' < inPipe'[i].tid
               /\ inPipe'[i].tid < next_tid
               /\ \A j \in 1..Len(inPipe') :
                     IsResponse(inPipe'[j]) /\ i < j => inPipe'[i].tid < inPipe'[j].tid
               /\ camPc # "wait" => inPipe'[i].tid < camTid
               /\ \A j \in 1..Len(outPipe) :
                     IsCommand(outPipe[j]) => inPipe'[i].tid < outPipe[j].tid
    <3>1. i + d \in 2..Len(inPipe) /\ inPipe'[i] = inPipe[i + d]
      BY <2>3, <2>5
    <3>2. /\ lastResp < inPipe[i + d].tid
          /\ inPipe[i + d].tid < next_tid
          /\ \A j \in 1..Len(inPipe) :
                IsResponse(inPipe[j]) /\ i + d < j => inPipe[i + d].tid < inPipe[j].tid
          /\ camPc # "wait" => inPipe[i + d].tid < camTid
          /\ \A j \in 1..Len(outPipe) :
                IsCommand(outPipe[j]) => inPipe[i + d].tid < outPipe[j].tid
      BY <1>p, <2>5, <3>1 DEF Ordered
    <3>3. ASSUME NEW j \in 1..Len(inPipe'), IsResponse(inPipe'[j]), i < j
          PROVE  inPipe'[i].tid < inPipe'[j].tid
      <4>1. j + d \in 2..Len(inPipe) /\ inPipe'[j] = inPipe[j + d] /\ i + d < j + d
        BY <2>3, <3>3
      <4>2. IsResponse(inPipe[j + d]) /\ j + d \in 1..Len(inPipe)
        BY <1>p, <3>3, <4>1
      <4>3. inPipe[i + d].tid < inPipe[j + d].tid
        BY <3>2, <4>1, <4>2
      <4>4. QED
        BY <3>1, <4>1, <4>3
    <3>4. lastResp' < inPipe'[i].tid
      <4>1. CASE IsResponse(Head(inPipe)) /\ lastResp' = Head(inPipe).tid
        <5>1. 1 \in 1..Len(inPipe) /\ IsResponse(inPipe[1]) /\ lastResp' = inPipe[1].tid
          BY <1>p, <2>1, <4>1
        <5>2. \A j \in 1..Len(inPipe) :
                 IsResponse(inPipe[j]) /\ 1 < j => inPipe[1].tid < inPipe[j].tid
          BY <5>1 DEF Ordered
        <5>3. i + d \in 1..Len(inPipe) /\ 1 < i + d /\ IsResponse(inPipe[i + d])
          BY <1>p, <2>5, <3>1
        <5>4. QED
          BY <3>1, <5>1, <5>2, <5>3
      <4>2. QED
        BY <1>4, <3>1, <3>2, <4>1
    <3>5. QED
      BY <3>1, <3>2, <3>3, <3>4
  <2>6. ASSUME NEW t \in Nat, lastResp < t, IsResponse(Head(inPipe)) => Head(inPipe).tid < t
        PROVE  lastResp' < t
    BY <1>4, <2>6
  <2>7. camPc # "wait" => lastResp' < camTid
    BY <1>n, <1>p, <2>1, <2>6 DEF Ordered
  <2>8. ASSUME NEW i \in 1..Len(outPipe), IsCommand(outPipe[i])
        PROVE  lastResp' < outPipe[i].tid
    <3>1. outPipe[i].tid \in Nat /\ lastResp < outPipe[i].tid
      BY <1>p, <2>8 DEF Ordered
    <3>2. IsResponse(inPipe[1]) => inPipe[1].tid < outPipe[i].tid
      BY <1>p, <2>1, <2>8 DEF Ordered
    <3>3. QED
      BY <2>1, <2>6, <3>1, <3>2
  <2>9. lastResp' < next_tid
    BY <1>n, <1>p, <2>1, <2>6 DEF Ordered
  <2>10. QED
    BY <1>4, <2>4, <2>5, <2>7, <2>8, <2>9 DEF Ordered
<1>5. ASSUME pc' # "write_cmd",
             UNCHANGED <<inPipe, outPipe, camVars, lastResp, next_tid, tid>>
      PROVE  Ordered'
  BY <1>5, <1>n, <1>p DEF Ordered, camVars
<1>6. CASE WriteCommand
  BY <1>2, <1>6 DEF WriteCommand, history
<1>7. CASE WriteData
  BY <1>3, <1>7 DEF WriteData, history
<1>8. CASE WriteError
  BY <1>2, <1>3, <1>5, <1>8 DEF WriteError, Throw
<1>9. CASE Read \/ ReadTimeout \/ ReadError
  <2>1. /\ pc \in Reading
        /\ UNCHANGED <<outPipe, camVars, next_tid, op, tid>>
        /\ Fails \/ Answers \/ Discards \/ Garbles \/ Skips \/ Wanders
    BY <1>9, Reads DEF TypeOK
  <2>2. pc # "write_cmd" /\ pc' # "write_cmd"
    BY <2>1
    DEF Fails, Answers, Discards, Garbles, Skips, Wanders, Throw, Return, Reading
  <2>3. CASE Fails
    BY <1>4, <1>5, <2>1, <2>2, <2>3 DEF Fails, Strays, Throw
  <2>4. CASE Answers
    BY <1>4, <2>1, <2>2, <2>4 DEF Answers, Genuine, Return
  <2>5. CASE Discards \/ Garbles \/ Skips \/ Wanders
    BY <1>4, <2>1, <2>2, <2>5
    DEF Discards, Garbles, Skips, Wanders, Genuine, Strays, Return, GoOn
  <2>6. QED
    BY <2>1, <2>3, <2>4, <2>5
<1>14. CASE CamTakeCommand
  <2>1. /\ outPipe # <<>> /\ outPipe' = Tail(outPipe) /\ Head(outPipe).type = "COMMAND"
        /\ camTid' = Head(outPipe).tid
        /\ UNCHANGED <<inPipe, next_tid, tid, pc, lastResp>>
    BY <1>14 DEF CamTakeCommand, hostVars, history
  <2>2. /\ Head(outPipe) = outPipe[1] /\ 1 \in 1..Len(outPipe)
        /\ Len(outPipe') = Len(outPipe) - 1
        /\ \A i \in 1..Len(outPipe') : i + 1 \in 1..Len(outPipe)
                                       /\ outPipe'[i] = outPipe[i + 1]
    BY <1>p, <2>1, TakeElements
  <2>3. IsCommand(outPipe[1]) /\ camTid' = outPipe[1].tid
    BY <2>1, <2>2
  <2> HIDE DEF IsCommand, IsResponse
  <2>4. ASSUME NEW i \in 1..Len(inPipe), IsResponse(inPipe[i])
        PROVE  /\ inPipe[i].tid < camTid'
               /\ \A j \in 1..Len(outPipe') :
                     IsCommand(outPipe'[j]) => inPipe[i].tid < outPipe'[j].tid
    <3>1. \A j \in 1..Len(outPipe) : IsCommand(outPipe[j]) => inPipe[i].tid < outPipe[j].tid
      BY <2>4 DEF Ordered
    <3>2. QED
      BY <2>2, <2>3, <3>1
  <2>5. ASSUME NEW i \in 1..Len(outPipe), IsCommand(outPipe[i])
        PROVE  /\ lastResp < outPipe[i].tid /\ outPipe[i].tid < next_tid
               /\ \A j \in 1..Len(outPipe) :
                     IsCommand(outPipe[j]) /\ i < j => outPipe[i].tid < outPipe[j].tid
               /\ pc = "write_cmd" => outPipe[i].tid < tid
    BY <2>5 DEF Ordered
  <2>6. /\ lastResp < camTid' /\ camTid' < next_tid
        /\ \A j \in 1..Len(outPipe') : IsCommand(outPipe'[j]) => camTid' < outPipe'[j].tid
        /\ pc = "write_cmd" => camTid' < tid
    <3>1. \A j \in 1..Len(outPipe') : 1 < j + 1
      BY <1>p, <2>2
    <3>2. QED
      BY <2>2, <2>3, <2>5, <3>1
  <2>7. ASSUME NEW i \in 1..Len(outPipe'), IsCommand(outPipe'[i])
        PROVE  /\ lastResp < outPipe'[i].tid /\ outPipe'[i].tid < next_tid
               /\ \A j \in 1..Len(outPipe') :
                     IsCommand(outPipe'[j]) /\ i < j => outPipe'[i].tid < outPipe'[j].tid
               /\ pc = "write_cmd" => outPipe'[i].tid < tid
    <3>1. i + 1 \in 1..Len(outPipe) /\ outPipe'[i] = outPipe[i + 1]
      BY <2>2
    <3>2. \A j \in 1..Len(outPipe') : i < j => i + 1 < j + 1
      BY <1>p, <2>2
    <3>3. QED
      BY <2>2, <2>5, <2>7, <3>1, <3>2
  <2>8. QED
    BY <2>1, <2>4, <2>6, <2>7 DEF Ordered
<1>15. CASE CamTakeData
  BY <1>15, <1>n, <1>p, TakeElements DEF CamTakeData, Ordered, hostVars, history
<1>16. ASSUME NEW k \in {"DATA", "RESPONSE"}, Send(k), camPc # "wait",
              k = "RESPONSE" => camPc' = "wait",
              UNCHANGED <<outPipe, camTid, lastResp, next_tid, tid, pc>>
       PROVE  Ordered'
  <2>1. Container(k, camOp, camTid) \in InContainers
    BY DEF TypeOK, Container, InContainers
  <2>2. /\ Len(inPipe') = Len(inPipe) + 1
        /\ \A i \in 1..Len(inPipe) : inPipe'[i] = inPipe[i]
        /\ inPipe'[Len(inPipe) + 1] = Container(k, camOp, camTid)
    BY <1>16, <2>1, SendElements DEF Send
  <2>3. IsResponse(Container(k, camOp, camTid)) => camPc' = "wait"
    BY <1>16 DEF Container
  <2>4. Container(k, camOp, camTid).tid = camTid
    BY DEF Container
  <2> HIDE DEF IsResponse, IsCommand
  <2>5. ASSUME NEW i \in 1..Len(inPipe'), IsResponse(inPipe'[i])
        PROVE  /\ lastResp < inPipe'[i].tid
               /\ inPipe'[i].tid < next_tid
               /\ \A j \in 1..Len(inPipe') :
                     IsResponse(inPipe'[j]) /\ i < j => inPipe'[i].tid < inPipe'[j].tid
               /\ camPc' # "wait" => inPipe'[i].tid < camTid
               /\ \A j \in 1..Len(outPipe) :
                     IsCommand(outPipe[j]) => inPipe'[i].tid < outPipe[j].tid
               /\ pc = "write_cmd" => inPipe'[i].tid < tid
    <3>1. CASE i \in 1..Len(inPipe)
      <4>1. inPipe'[i] = inPipe[i] /\ IsResponse(inPipe[i])
        BY <2>2, <2>5, <3>1
      <4>2. /\ lastResp < inPipe[i].tid
            /\ inPipe[i].tid < next_tid
            /\ \A j \in 1..Len(inPipe) :
                  IsResponse(inPipe[j]) /\ i < j => inPipe[i].tid < inPipe[j].tid
            /\ inPipe[i].tid < camTid
            /\ \A j \in 1..Len(outPipe) :
                  IsCommand(outPipe[j]) => inPipe[i].tid < outPipe[j].tid
            /\ pc = "write_cmd" => inPipe[i].tid < tid
        BY <1>16, <3>1, <4>1 DEF Ordered
      <4>3. ASSUME NEW j \in 1..Len(inPipe'), IsResponse(inPipe'[j]), i < j
            PROVE  inPipe[i].tid < inPipe'[j].tid
        <5>1. CASE j \in 1..Len(inPipe)
          BY <2>2, <4>2, <4>3, <5>1
        <5>2. CASE j = Len(inPipe) + 1
          BY <2>2, <2>4, <4>2, <5>2
        <5>3. QED
          BY <1>p, <2>2, <5>1, <5>2
      <4>4. QED
        BY <4>1, <4>2, <4>3
    <3>2. CASE i = Len(inPipe) + 1
      BY <1>16, <1>n, <1>p, <2>2, <2>3, <2>4, <2>5, <3>2 DEF Ordered
    <3>3. QED
      BY <1>p, <2>2, <3>1, <3>2
  <2>6. QED
    BY <1>16, <2>5 DEF Ordered
<1>17. CASE CamAbandon
  BY <1>16, <1>17, <1>n, <1>p DEF CamAbandon, Ordered, hostVars, history
<1>18. CASE CamSendData
  BY <1>16, <1>18 DEF CamSendData, hostVars, history
<1>19. CASE CamSendResponse
  BY <1>16, <1>19 DEF CamSendResponse, hostVars, history
<1>20. CASE CamSendEvent
  <2>1. Container("EVENT", NoOp, NoTid) \in InContainers
    BY DEF Container, InContainers, NoTid
  <2>2. QED
    BY <1>20, <1>n, <1>p, <2>1, SendElements
    DEF CamSendEvent, Ordered, Container, hostVars, camVars, history
<1>21. CASE UNCHANGED vars
  BY <1>21 DEF vars, hostVars, camVars, history, Ordered
<1>22. QED
  BY <1>1, <1>6, <1>7, <1>8, <1>9, <1>14, <1>15, <1>17, <1>18, <1>19, <1>20, <1>21
  DEF Next, Camera

-----------------------------------------------------------------------------

LEMMA RemainsFirstInit == Init => RemainsFirst
  BY DEF Init, RemainsFirst, Reading, Writing, Busy

\* Behind the first container there are no remains, and no read makes any but
\* of that one.
LEMMA PopRemains ==
    ASSUME TypeOK, RemainsFirst, Pops
    PROVE  /\ IsRemains(Head(inPipe)) => failed
           /\ IsData(Head(inPipe)) => Head(inPipe).tid # NoTid
           /\ \A i \in 1..Len(inPipe') :
                 /\ IsRemains(inPipe'[i]) => i = 1 /\ inPipe' # Tail(inPipe)
                 /\ IsData(inPipe'[i]) => inPipe'[i].tid # NoTid
<1>1. /\ Len(inPipe) \in Nat /\ Len(inPipe) > 0 /\ Head(inPipe) = inPipe[1]
      /\ 1 \in 1..Len(inPipe)
      /\ \A i \in 1..(Len(inPipe) - 1) : Tail(inPipe)[i] = inPipe[i + 1]
      /\ Len(Tail(inPipe)) = Len(inPipe) - 1
  BY TailElements DEF TypeOK, Pops
<1>2. \A i \in 1..Len(inPipe) :
         /\ IsRemains(inPipe[i]) => i = 1 /\ failed
         /\ IsData(inPipe[i]) => inPipe[i].tid # NoTid
  BY DEF RemainsFirst
<1>3. CASE inPipe' = Tail(inPipe)
  <2>1. ASSUME NEW i \in 1..Len(inPipe')
        PROVE  /\ ~IsRemains(inPipe'[i])
               /\ IsData(inPipe'[i]) => inPipe'[i].tid # NoTid
    <3>1. i + 1 \in 1..Len(inPipe) /\ i + 1 # 1 /\ inPipe'[i] = inPipe[i + 1]
      BY <1>1, <1>3
    <3>2. QED
      BY <1>2, <3>1
  <2>2. QED
    BY <1>1, <1>2, <2>1
<1>4. CASE inPipe' # Tail(inPipe)
  <2>1. ~IsData(Remains)
    BY DEF Remains, Container, IsData
  <2>2. PICK d \in {0, 1} : \A i \in 1..Len(inPipe') :
           \/ i = 1 /\ inPipe'[i] = Remains
           \/ i + d \in 2..Len(inPipe) /\ inPipe'[i] = inPipe[i + d]
    BY PopElements
  <2>3. ASSUME NEW i \in 1..Len(inPipe')
        PROVE  /\ IsRemains(inPipe'[i]) => i = 1
               /\ IsData(inPipe'[i]) => inPipe'[i].tid # NoTid
    <3>1. CASE i = 1 /\ inPipe'[i] = Remains
      BY <2>1, <3>1
    <3>2. CASE i + d \in 2..Len(inPipe) /\ inPipe'[i] = inPipe[i + d]
      <4>1. i + d \in 1..Len(inPipe) /\ i + d # 1
        BY <3>2
      <4>2. QED
        BY <1>2, <3>2, <4>1
    <3>3. QED
      BY <2>2, <3>1, <3>2
  <2>4. QED
    BY <1>1, <1>2, <1>4, <2>3
<1>5. QED
  BY <1>3, <1>4

\* A call that holds a DATA container with an id reads no remains.
LEMMA NoStrays ==
    ASSUME TypeOK, RemainsFirst, Strays
    PROVE  failed /\ (pc = "read_resp" => got = NoTid)
<1>1. inPipe # <<>> /\ 1 \in 1..Len(inPipe) /\ Head(inPipe) = inPipe[1]
  BY TailElements DEF Strays, Pops, TypeOK
<1>2. QED
  BY <1>1 DEF Strays, RemainsFirst, TypeOK

LEMMA RemainsFirstStep ==
    TypeOK /\ OpTyped /\ Host /\ Ordered /\ RemainsFirst /\ [Next]_vars => RemainsFirst'
<1> SUFFICES ASSUME TypeOK, OpTyped, Host, Ordered, RemainsFirst, [Next]_vars
             PROVE  RemainsFirst'
  OBVIOUS
<1>t. /\ failed \in BOOLEAN /\ swallowed \in BOOLEAN /\ desynced \in BOOLEAN
      /\ need \in Nat /\ Len(inPipe) \in Nat
      /\ pc \in {"idle", "write_cmd", "write_data", "read", "read_resp", "read_any"}
  BY PtpAssumption DEF TypeOK, Writing, Reading
<1>1. ASSUME NEW o \in Ops, Call(o) PROVE RemainsFirst'
  BY <1>1 DEF Call, RemainsFirst, Reading, Writing, Busy
<1>2. CASE WriteCommand \/ WriteData
  <2>1. /\ UNCHANGED <<inPipe, failed, swallowed, desynced, need>>
        /\ pc \in Writing /\ pc' \in {"read", "read_any", "write_data"}
    BY <1>2 DEF WriteCommand, WriteData, Writing, history
  <2>2. QED
    BY <1>t, <2>1 DEF RemainsFirst, Reading, Writing, Busy
<1>3. CASE WriteError
  BY <1>3 DEF WriteError, Throw, RemainsFirst, Reading, Writing, Busy
<1>4. CASE Read \/ ReadTimeout \/ ReadError
  <2>1. /\ pc \in Reading
        /\ Fails \/ Answers \/ Discards \/ Garbles \/ Skips \/ Wanders
    BY <1>4, Reads DEF TypeOK
  <2>2. CASE Fails
    <3>1. /\ pc' = "idle" /\ need' = 0 /\ failed'
          /\ UNCHANGED inPipe \/ Pops
      BY <2>2 DEF Fails, Throw, Strays
    <3>2. \A i \in 1..Len(inPipe') :
             /\ IsRemains(inPipe'[i]) => i = 1
             /\ IsData(inPipe'[i]) => inPipe'[i].tid # NoTid
      <4>1. CASE Pops
        BY <4>1, PopRemains
      <4>2. CASE UNCHANGED inPipe
        BY <4>2 DEF RemainsFirst
      <4>3. QED
        BY <3>1, <4>1, <4>2
    <3>3. QED
      BY <3>1, <3>2 DEF RemainsFirst, Reading, Writing, Busy
  <2>3. CASE Answers \/ Discards
    <3>1. /\ Pops /\ inPipe' = Tail(inPipe) /\ need' = 0
          /\ pc' = "idle" /\ UNCHANGED <<failed, swallowed>>
      BY <2>3 DEF Answers, Discards, Genuine, Return
    <3>2. \A i \in 1..Len(inPipe') :
             /\ ~IsRemains(inPipe'[i])
             /\ IsData(inPipe'[i]) => inPipe'[i].tid # NoTid
      BY <3>1, PopRemains
    <3>3. QED
      BY <3>1, <3>2 DEF RemainsFirst, Reading, Writing, Busy
  <2>4. CASE Garbles
    <3>1. Pops /\ failed /\ need' = 0 /\ pc' = "idle" /\ UNCHANGED failed
      BY <2>4, NoStrays DEF Garbles, Strays, Return
    <3>2. QED
      BY <3>1, PopRemains DEF RemainsFirst, Reading, Writing, Busy
  <2>5. CASE Skips
    <3>1. /\ Pops /\ inPipe' = Tail(inPipe) /\ need' = 0
          /\ UNCHANGED <<failed, swallowed>> /\ desynced' = OutOfStep
          /\ pc = "read"
          /\ \/ pc' = "read"
             \/ pc' = "read_resp" /\ IsData(Head(inPipe)) /\ got' = Head(inPipe).tid
      BY <2>5 DEF Skips, Genuine, GoOn
    <3>2. \A i \in 1..Len(inPipe') :
             /\ ~IsRemains(inPipe'[i])
             /\ IsData(inPipe'[i]) => inPipe'[i].tid # NoTid
      BY <3>1, PopRemains
    <3>3. pc' = "read" \/ (pc' = "read_resp" /\ got' # NoTid)
      BY <3>1, PopRemains
    <3>4. swallowed' => failed' /\ ~desynced'
      BY <3>1 DEF RemainsFirst, OutOfStep
    <3>5. ~(need' > 0) /\ pc' \notin Writing
      BY <3>1, <3>3 DEF Writing
    <3>6. QED
      BY <3>1, <3>2, <3>3, <3>4, <3>5 DEF RemainsFirst
  <2>6. CASE Wanders
    <3>1. /\ Pops /\ failed /\ UNCHANGED failed /\ desynced' = OutOfStep
          /\ pc' \in Reading
          /\ pc' = "read_resp" => got' = NoTid
      BY <2>1, <2>6, NoStrays DEF Wanders, Strays, GoOn, Reading
    <3>2. \A i \in 1..Len(inPipe') :
             /\ IsRemains(inPipe'[i]) => i = 1
             /\ IsData(inPipe'[i]) => inPipe'[i].tid # NoTid
      BY <3>1, PopRemains
    <3>3. pc' \notin Writing
      BY <3>1 DEF Reading, Writing
    <3>4. QED
      BY <3>1, <3>2, <3>3 DEF RemainsFirst, OutOfStep
  <2>7. QED
    BY <2>1, <2>2, <2>3, <2>4, <2>5, <2>6
<1>5. ASSUME NEW c \in InContainers, inPipe' = Append(inPipe, c),
             ~IsRemains(c), IsData(c) => c.tid # NoTid,
             UNCHANGED <<pc, got, need, failed, swallowed, desynced>>
      PROVE  RemainsFirst'
  <2>1. /\ Len(inPipe') = Len(inPipe) + 1
        /\ \A i \in 1..Len(inPipe) : inPipe'[i] = inPipe[i]
        /\ inPipe'[Len(inPipe) + 1] = c
    BY <1>5, SendElements
  <2>2. ASSUME NEW i \in 1..Len(inPipe')
        PROVE  \/ i \in 1..Len(inPipe) /\ inPipe'[i] = inPipe[i]
               \/ inPipe'[i] = c
    BY <1>t, <2>1
  <2>3. \A i \in 1..Len(inPipe') :
           /\ IsRemains(inPipe'[i]) => i = 1 /\ failed
           /\ IsData(inPipe'[i]) => inPipe'[i].tid # NoTid
    BY <1>5, <2>2 DEF RemainsFirst
  <2>4. ASSUME pc = "read_resp" /\ got # NoTid
        PROVE  need = 0 /\ \A i \in 1..Len(inPipe') : ~IsRemains(inPipe'[i])
    BY <1>5, <2>2, <2>4 DEF RemainsFirst
  <2>5. QED
    BY <1>5, <2>3, <2>4 DEF RemainsFirst, Busy
<1>6. /\ \A k \in {"DATA", "RESPONSE"} :
            /\ Container(k, camOp, camTid) \in InContainers
            /\ ~IsRemains(Container(k, camOp, camTid))
            /\ Container(k, camOp, camTid).tid = camTid
      /\ Container("EVENT", NoOp, NoTid) \in InContainers
      /\ ~IsRemains(Container("EVENT", NoOp, NoTid))
      /\ ~IsData(Container("EVENT", NoOp, NoTid))
      /\ ~IsData(Container("RESPONSE", camOp, camTid))
  BY DEF TypeOK, Container, InContainers, NoTid, IsRemains, IsData
<1>7. ASSUME UNCHANGED <<hostVars, inPipe, history>> PROVE RemainsFirst'
  BY <1>7 DEF hostVars, history, RemainsFirst, Busy
<1>8. CASE CamTakeCommand \/ CamTakeData
  BY <1>7, <1>8 DEF CamTakeCommand, CamTakeData
<1>9. CASE CamAbandon \/ CamSendResponse
  <2>1. UNCHANGED <<hostVars, history>> /\ (Send("RESPONSE") \/ UNCHANGED inPipe)
    BY <1>9 DEF CamAbandon, CamSendResponse
  <2>2. CASE Send("RESPONSE")
    BY <1>5, <1>6, <2>1, <2>2 DEF Send, hostVars, history
  <2>3. QED
    BY <1>7, <2>1, <2>2
<1>10. CASE CamSendData
  <2>1. UNCHANGED <<hostVars, history>> /\ Send("DATA") /\ camPc = "reply"
    BY <1>10 DEF CamSendData
  <2>2. camTid # NoTid
    BY <2>1 DEF Ordered, TypeOK, NoTid
  <2>3. QED
    BY <1>5, <1>6, <2>1, <2>2 DEF Send, hostVars, history
<1>11. CASE CamSendEvent
  BY <1>5, <1>6, <1>11 DEF CamSendEvent, hostVars, history
<1>12. CASE UNCHANGED vars
  BY <1>7, <1>12 DEF vars
<1>13. QED
  BY <1>1, <1>2, <1>3, <1>4, <1>8, <1>9, <1>10, <1>11, <1>12 DEF Next, Camera

-----------------------------------------------------------------------------

LEMMA JoinedInit == Init => Joined
  BY DEF Init, Joined

LEMMA JoinedStep == TypeOK /\ RemainsFirst /\ Joined /\ [Next]_vars => Joined'
<1> SUFFICES ASSUME TypeOK, RemainsFirst, Joined, [Next]_vars PROVE Joined'
  OBVIOUS
<1> USE DEF IsCommand, IsData, IsEvent, IsResponse
<1>p. Len(inPipe) \in Nat /\ (Len(inPipe) = 0 <=> inPipe = <<>>)
  BY DEF TypeOK
<1>1. ASSUME UNCHANGED <<inPipe, camPc, camTid>>, pc' # "read_resp"
      PROVE  Joined'
  BY <1>1 DEF Joined
<1>2. ASSUME Pops, UNCHANGED <<camPc, camTid>>,
             \/ pc' # "read_resp"
             \/ got' = NoTid
             \/ /\ inPipe' = Tail(inPipe)
                /\ IsData(Head(inPipe)) /\ got' = Head(inPipe).tid
      PROVE  Joined'
  <2> DEFINE n == Len(inPipe)
  <2>1. /\ n \in Nat /\ n > 0 /\ Head(inPipe) = inPipe[1]
        /\ \E d \in {0, 1} :
              /\ Len(inPipe') = n - d
              /\ \A i \in 1..Len(inPipe') :
                    \/ i = 1 /\ inPipe'[i] = Remains
                    \/ i + d \in 2..n /\ inPipe'[i] = inPipe[i + d]
    BY <1>2, PopElements
  <2>2. ~IsData(Remains) /\ ~IsResponse(Remains)
    BY DEF Remains, Container
  <2>3. PICK d \in {0, 1} :
           /\ Len(inPipe') = n - d
           /\ \A i \in 1..Len(inPipe') :
                 IsData(inPipe'[i]) \/ IsResponse(inPipe'[i]) =>
                    i + d \in 2..n /\ inPipe'[i] = inPipe[i + d]
    BY <2>1, <2>2
  <2>4. \A i \in 1..n : IsData(inPipe[i]) =>
           /\ i = n => camPc = "resp" /\ camTid = inPipe[i].tid
           /\ i < n /\ IsResponse(inPipe[i + 1]) => inPipe[i + 1].tid = inPipe[i].tid
    BY DEF Joined
  <2> HIDE DEF n, IsData, IsResponse
  <2>5. ASSUME NEW i \in 1..Len(inPipe'), IsData(inPipe'[i])
        PROVE  /\ i = Len(inPipe') => camPc' = "resp" /\ camTid' = inPipe'[i].tid
               /\ i < Len(inPipe') /\ IsResponse(inPipe'[i + 1]) =>
                     inPipe'[i + 1].tid = inPipe'[i].tid
    <3>1. i + d \in 1..n /\ inPipe'[i] = inPipe[i + d]
      BY <2>3, <2>5
    <3>2. i = Len(inPipe') => i + d = n
      BY <2>1, <2>3
    <3>3. ASSUME i < Len(inPipe'), IsResponse(inPipe'[i + 1])
          PROVE  inPipe'[i + 1].tid = inPipe'[i].tid
      <4>1. i + 1 \in 1..Len(inPipe')
        BY <2>1, <2>3, <3>3
      <4>2. (i + 1) + d \in 2..n /\ inPipe'[i + 1] = inPipe[(i + 1) + d]
        BY <2>3, <3>3, <4>1
      <4>3. (i + 1) + d = (i + d) + 1 /\ i + d < n
        BY <2>1, <2>3, <4>2
      <4>4. QED
        BY <2>4, <2>5, <3>1, <3>3, <4>2, <4>3
    <3>4. QED
      BY <1>2, <2>4, <2>5, <3>1, <3>2, <3>3
  <2>6. ASSUME inPipe' = Tail(inPipe), IsData(Head(inPipe)), got' = Head(inPipe).tid
        PROVE  /\ inPipe' = <<>> => camPc' = "resp" /\ camTid' = got'
               /\ inPipe' # <<>> /\ IsResponse(inPipe'[1]) => inPipe'[1].tid = got'
    <3>1. /\ 1 = n => camPc = "resp" /\ camTid = inPipe[1].tid
          /\ 1 < n /\ IsResponse(inPipe[2]) => inPipe[2].tid = inPipe[1].tid
      BY <2>1, <2>4, <2>6
    <3>2. /\ n # 1 => inPipe'[1] = inPipe[2]
          /\ inPipe' = <<>> => n = 1
          /\ n = 1 => inPipe' = <<>>
      <4>1. inPipe \in Seq(InContainers) /\ inPipe # <<>>
        BY <1>2 DEF TypeOK, Pops
      <4>2. /\ \A i \in 1..(n - 1) : Tail(inPipe)[i] = inPipe[i + 1]
            /\ Len(Tail(inPipe)) = n - 1 /\ Tail(inPipe) \in Seq(InContainers)
        BY <4>1, TailElements DEF n
      <4>3. n # 1 => Tail(inPipe)[1] = inPipe[2]
        BY <2>1, <4>2
      <4>4. Tail(inPipe) = <<>> <=> n = 1
        BY <2>1, <4>2
      <4>5. QED
        BY <2>6, <4>3, <4>4
    <3>3. QED
      BY <1>2, <2>1, <2>6, <3>1, <3>2
  <2>7. QED
    BY <1>2, <2>5, <2>6 DEF Joined
<1>3. ASSUME NEW c \in InContainers, inPipe' = Append(inPipe, c),
             UNCHANGED <<pc, got>>,
             IsResponse(c) /\ camPc = "resp" => c.tid = camTid,
             IsData(c) => camPc # "resp" /\ camPc' = "resp" /\ camTid' = c.tid
      PROVE  Joined'
  <2> DEFINE n == Len(inPipe)
  <2>1. /\ n \in Nat /\ Len(inPipe') = n + 1 /\ inPipe' # <<>>
        /\ \A i \in 1..n : inPipe'[i] = inPipe[i]
        /\ inPipe'[n + 1] = c
        /\ inPipe = <<>> <=> n = 0
    BY <1>3, SendElements DEF TypeOK
  <2> HIDE DEF n
  <2>2. ASSUME NEW i \in 1..(n + 1), IsData(inPipe'[i])
        PROVE  /\ i = n + 1 => camPc' = "resp" /\ camTid' = inPipe'[i].tid
               /\ i < n + 1 /\ IsResponse(inPipe'[i + 1]) =>
                     inPipe'[i + 1].tid = inPipe'[i].tid
    <3>1. i \in 1..n => /\ i = n => camPc = "resp" /\ camTid = inPipe[i].tid
                        /\ i < n /\ IsResponse(inPipe[i + 1]) =>
                              inPipe[i + 1].tid = inPipe[i].tid
      BY <2>1, <2>2 DEF Joined, n
    <3>2. QED
      BY <1>3, <2>1, <2>2, <3>1
  <2>3. ASSUME pc' = "read_resp", got' # NoTid, IsResponse(inPipe'[1])
        PROVE  inPipe'[1].tid = got'
    BY <1>3, <2>1, <2>3 DEF Joined
  <2>4. QED
    BY <2>1, <2>2, <2>3 DEF Joined
<1>4. ASSUME NEW o \in Ops, Call(o) PROVE Joined'
  BY <1>1, <1>4 DEF Call, camVars
<1>5. CASE WriteCommand \/ WriteData \/ WriteError
  BY <1>1, <1>5 DEF WriteCommand, WriteData, WriteError, Throw, camVars
<1>6. CASE Read \/ ReadTimeout \/ ReadError
  <2>1. /\ pc \in Reading
        /\ UNCHANGED <<camPc, camTid>>
        /\ Fails \/ Answers \/ Discards \/ Garbles \/ Skips \/ Wanders
    BY <1>6, Reads DEF TypeOK, camVars
  <2>2. CASE Fails
    BY <1>1, <1>2, <2>1, <2>2 DEF Fails, Strays, Throw
  <2>3. CASE Answers \/ Discards \/ Garbles
    BY <1>2, <2>1, <2>3 DEF Answers, Discards, Garbles, Genuine, Strays, Return
  <2>4. CASE Skips
    BY <1>2, <2>1, <2>4 DEF Skips, Genuine
  <2>5. CASE Wanders
    <3>1. Pops /\ (pc' # "read_resp" \/ got' = NoTid)
      BY <2>5, NoStrays DEF Wanders, Strays
    <3>2. QED
      BY <1>2, <2>1, <3>1
  <2>6. QED
    BY <2>1, <2>2, <2>3, <2>4, <2>5
<1>9. CASE CamTakeCommand \/ CamTakeData
  BY <1>9 DEF CamTakeCommand, CamTakeData, hostVars, Joined
<1>10. /\ \A k \in {"DATA", "RESPONSE"} : Container(k, camOp, camTid) \in InContainers
       /\ Container("EVENT", NoOp, NoTid) \in InContainers
  BY DEF TypeOK, Container, InContainers, NoTid
<1>11. CASE CamAbandon
  <2>1. CASE Send("RESPONSE")
    BY <1>3, <1>10, <1>11, <2>1 DEF CamAbandon, Send, Container, hostVars
  <2>2. CASE UNCHANGED inPipe
    BY <1>11, <2>2 DEF CamAbandon, hostVars, Joined
  <2>3. QED
    BY <1>11, <2>1, <2>2 DEF CamAbandon
<1>12. CASE CamSendData
  BY <1>3, <1>10, <1>12 DEF CamSendData, Send, Container, hostVars
<1>13. CASE CamSendResponse
  BY <1>3, <1>10, <1>13 DEF CamSendResponse, Send, Container, hostVars
<1>14. CASE CamSendEvent
  BY <1>3, <1>10, <1>14 DEF CamSendEvent, Container, hostVars, camVars
<1>15. CASE UNCHANGED vars
  BY <1>15 DEF vars, hostVars, camVars, Joined
<1>16. QED
  BY <1>4, <1>5, <1>6, <1>9, <1>11, <1>12, <1>13, <1>14, <1>15
  DEF Next, Camera

-----------------------------------------------------------------------------

\* An answer that is coming keeps coming until the client takes it.
LEMMA ComingStep ==
    ASSUME TypeOK, OpTyped, [Next]_vars, NEW t \in Nat, Coming(t)
    PROVE  \/ Coming(t)'
           \/ /\ pc \in Reading
              /\ inPipe # <<>> /\ inPipe' = Tail(inPipe)
              /\ IsResponse(Head(inPipe)) /\ Head(inPipe).tid = t
<1> DEFINE Taken == /\ pc \in Reading
                    /\ inPipe # <<>> /\ inPipe' = Tail(inPipe)
                    /\ IsResponse(Head(inPipe)) /\ Head(inPipe).tid = t
<1> SUFFICES Coming(t)' \/ Taken
  OBVIOUS
<1> USE DEF IsCommand, IsData, IsEvent, IsResponse
<1>p. /\ Len(inPipe) \in Nat /\ Len(outPipe) \in Nat
      /\ \A i \in 1..Len(outPipe) : outPipe[i].type \in {"COMMAND", "DATA"}
  BY PipeTids
<1>1. ASSUME UNCHANGED <<inPipe, outPipe, camPc, camTid>> PROVE Coming(t)'
  BY <1>1 DEF Coming, Arrived, InCamera, Submitted
<1>2. ASSUME pc \in Reading, Pops, UNCHANGED <<outPipe, camPc, camTid>>
      PROVE  Coming(t)' \/ Taken
  <2>1. CASE Arrived(t)
    <3>1. PICK i \in 1..Len(inPipe) : IsResponse(inPipe[i]) /\ inPipe[i].tid = t
      BY <2>1 DEF Arrived
    <3>2. PICK d \in {0, 1} :
             /\ d = 1 => inPipe' = Tail(inPipe)
             /\ d = 0 => ~IsResponse(inPipe[1])
             /\ \A k \in 2..Len(inPipe) :
                   k - d \in 1..Len(inPipe') /\ inPipe'[k - d] = inPipe[k]
      BY <1>2, PopElements
    <3>3. CASE i = 1
      <4>1. d = 1 /\ inPipe' = Tail(inPipe)
        BY <3>1, <3>2, <3>3
      <4>2. Head(inPipe) = inPipe[1] /\ inPipe # <<>>
        BY <1>2, PopElements DEF Pops
      <4>3. QED
        BY <1>2, <3>1, <3>3, <4>1, <4>2
    <3>4. CASE i # 1
      <4>1. i - d \in 1..Len(inPipe') /\ inPipe'[i - d] = inPipe[i]
        BY <1>p, <3>2, <3>4
      <4>2. Arrived(t)'
        BY <3>1, <4>1 DEF Arrived
      <4>3. QED
        BY <4>2 DEF Coming
    <3>5. QED
      BY <3>3, <3>4
  <2>2. CASE InCamera(t) \/ Submitted(t)
    BY <1>2, <2>2 DEF Coming, InCamera, Submitted
  <2>3. QED
    BY <2>1, <2>2 DEF Coming
<1>3. ASSUME NEW c \in InContainers, inPipe' = Append(inPipe, c)
      PROVE  Arrived(t) => Arrived(t)'
  BY <1>3, <1>p, SendElements DEF Arrived
<1>4. ASSUME NEW c \in OutContainers, outPipe' = Append(outPipe, c),
             UNCHANGED <<inPipe, camPc, camTid>>
      PROVE  Coming(t)'
  <2>1. /\ Len(outPipe') = Len(outPipe) + 1
        /\ \A i \in 1..Len(outPipe) : outPipe'[i] = outPipe[i]
    BY <1>4, WriteElements
  <2>2. Arrived(t) => Arrived(t)'
    BY <1>4 DEF Arrived
  <2>3. InCamera(t) => InCamera(t)'
    BY <1>4, <1>p, <2>1 DEF InCamera
  <2>4. Submitted(t) => Submitted(t)'
    BY <1>p, <2>1 DEF Submitted
  <2>5. QED
    BY <2>2, <2>3, <2>4 DEF Coming
<1>5. ASSUME NEW o \in Ops, Call(o) PROVE Coming(t)'
  BY <1>1, <1>5 DEF Call, camVars
<1>6. Container("COMMAND", op, tid) \in OutContainers \/ pc = "idle"
  BY ContainerTypes DEF TypeOK, OpTyped
<1>7. CASE WriteCommand
  BY <1>4, <1>6, <1>7 DEF WriteCommand, camVars
<1>8. \A d \in DataTids(op, tid) : Container("DATA", op, d) \in OutContainers \/ pc = "idle"
  BY ContainerTypes DEF TypeOK, OpTyped, DataTids, NoTid
<1>9. CASE WriteData
  BY <1>4, <1>8, <1>9 DEF WriteData, camVars
<1>10. CASE WriteError
  BY <1>1, <1>4, <1>6, <1>8, <1>10 DEF WriteError, camVars
<1>11. CASE Read \/ ReadTimeout \/ ReadError
  <2>1. pc \in Reading /\ UNCHANGED <<outPipe, camPc, camTid>>
    BY <1>11, Reads DEF TypeOK, camVars
  <2>2. Pops \/ UNCHANGED inPipe
    BY <1>11, Reads
    DEF TypeOK, Fails, Answers, Discards, Garbles, Skips, Wanders, Genuine, Strays
  <2>3. QED
    BY <1>1, <1>2, <2>1, <2>2
<1>14. ASSUME outPipe # <<>>, outPipe' = Tail(outPipe), UNCHANGED inPipe,
              NEW i \in 1..Len(outPipe), i # 1,
              IsCommand(outPipe[i]), outPipe[i].tid = t,
              \/ outPipe[i].op \notin DataOutOps
              \/ i < Len(outPipe) /\ IsData(outPipe[i + 1])
       PROVE  Submitted(t)'
  <2>1. /\ i - 1 \in 1..Len(outPipe')
        /\ outPipe'[i - 1] = outPipe[i]
        /\ i < Len(outPipe) => i \in 1..Len(outPipe') /\ outPipe'[i] = outPipe[i + 1]
        /\ i < Len(outPipe) => i - 1 < Len(outPipe')
    BY <1>14, <1>p, TakeElements
  <2>2. i - 1 + 1 = i
    OBVIOUS
  <2>3. QED
    BY <1>14, <2>1, <2>2 DEF Submitted
<1>15. CASE CamTakeCommand
  <2>1. ~InCamera(t)
    BY <1>15 DEF CamTakeCommand, InCamera
  <2>2. CASE Arrived(t)
    BY <1>15, <2>2 DEF CamTakeCommand, Coming, Arrived
  <2>3. CASE Submitted(t)
    <3>1. PICK i \in 1..Len(outPipe) :
             /\ IsCommand(outPipe[i]) /\ outPipe[i].tid = t
             /\ \/ outPipe[i].op \notin DataOutOps
                \/ i < Len(outPipe) /\ IsData(outPipe[i + 1])
      BY <2>3 DEF Submitted
    <3>2. CASE i = 1
      <4>1. /\ Head(outPipe) = outPipe[1]
            /\ 1 < Len(outPipe) => Len(outPipe') > 0 /\ outPipe'[1] = outPipe[2]
        BY <1>15, <1>p, TakeElements DEF CamTakeCommand
      <4>2. InCamera(t)'
        BY <1>15, <3>1, <3>2, <4>1 DEF CamTakeCommand, InCamera
      <4>3. QED
        BY <4>2 DEF Coming
    <3>3. CASE i # 1
      BY <1>14, <1>15, <3>1, <3>3 DEF CamTakeCommand, Coming
    <3>4. QED
      BY <3>2, <3>3
  <2>4. QED
    BY <2>1, <2>2, <2>3 DEF Coming
<1>16. CASE CamTakeData
  <2>1. CASE Arrived(t) \/ InCamera(t)
    BY <1>16, <2>1 DEF CamTakeData, Coming, Arrived, InCamera
  <2>2. CASE Submitted(t)
    <3>1. PICK i \in 1..Len(outPipe) :
             /\ IsCommand(outPipe[i]) /\ outPipe[i].tid = t
             /\ \/ outPipe[i].op \notin DataOutOps
                \/ i < Len(outPipe) /\ IsData(outPipe[i + 1])
      BY <2>2 DEF Submitted
    <3>2. i # 1
      BY <1>16, <3>1, TakeElements DEF CamTakeData
    <3>3. QED
      BY <1>14, <1>16, <3>1, <3>2 DEF CamTakeData, Coming
  <2>3. QED
    BY <2>1, <2>2 DEF Coming
<1>17. \A k \in {"DATA", "RESPONSE"} : Container(k, camOp, camTid) \in InContainers
  BY DEF TypeOK, Container, InContainers
<1>18. CASE CamAbandon
  <2>1. ~InCamera(t)
    BY <1>18, TailElements DEF CamAbandon, InCamera, TypeOK
  <2>2. Submitted(t) => Submitted(t)'
    BY <1>18 DEF CamAbandon, Submitted
  <2>3. Arrived(t) => Arrived(t)'
    <3>1. CASE UNCHANGED inPipe
      BY <3>1 DEF Arrived
    <3>2. QED
      BY <1>3, <1>17, <1>18, <3>1 DEF CamAbandon, Send
  <2>4. QED
    BY <2>1, <2>2, <2>3 DEF Coming
<1>19. CASE CamSendData
  BY <1>3, <1>17, <1>19 DEF CamSendData, Send, Coming, InCamera, Submitted
<1>20. CASE CamSendResponse
  <2>1. inPipe' = Append(inPipe, Container("RESPONSE", camOp, camTid))
    BY <1>20 DEF CamSendResponse, Send
  <2>2. InCamera(t) => Arrived(t)'
    <3>1. ASSUME InCamera(t) PROVE Arrived(t)'
      <4>1. /\ Len(inPipe) + 1 \in 1..Len(inPipe')
            /\ inPipe'[Len(inPipe) + 1] = Container("RESPONSE", camOp, camTid)
        BY <1>17, <1>p, <2>1, SendElements
      <4>2. camTid = t
        BY <3>1 DEF InCamera
      <4>3. QED
        BY <4>1, <4>2 DEF Arrived, Container
    <3>2. QED
      BY <3>1
  <2>3. Submitted(t) => Submitted(t)'
    BY <1>20 DEF CamSendResponse, Submitted
  <2>4. QED
    BY <1>3, <1>17, <2>1, <2>2, <2>3 DEF Coming
<1>21. CASE CamSendEvent
  <2>1. Container("EVENT", NoOp, NoTid) \in InContainers
    BY DEF Container, InContainers, NoTid
  <2>2. QED
    BY <1>3, <1>21, <2>1 DEF CamSendEvent, Coming, InCamera, Submitted, camVars
<1>22. CASE UNCHANGED vars
  BY <1>1, <1>22 DEF vars, camVars
<1>23. QED
  BY <1>5, <1>7, <1>9, <1>10, <1>11, <1>15, <1>16, <1>18, <1>19, <1>20, <1>21, <1>22
  DEF Next, Camera

\* The answer the client takes is the oldest of those that are coming.
LEMMA OldestFirst ==
    ASSUME TypeOK, Ordered, NEW t \in Nat, Coming(t),
           inPipe # <<>>, IsResponse(Head(inPipe))
    PROVE  Head(inPipe).tid <= t
<1>1. /\ Len(inPipe) \in Nat /\ 1 \in 1..Len(inPipe) /\ Head(inPipe) = inPipe[1]
  BY TailElements DEF TypeOK
<1>2. inPipe[1].tid \in Nat
  BY <1>1, PipeTids
<1>3. CASE Arrived(t)
  <2>1. PICK i \in 1..Len(inPipe) : IsResponse(inPipe[i]) /\ inPipe[i].tid = t
    BY <1>3 DEF Arrived
  <2>2. i = 1 \/ 1 < i
    OBVIOUS
  <2>3. QED
    BY <1>1, <1>2, <2>1, <2>2 DEF Ordered
<1>4. CASE InCamera(t)
  BY <1>1, <1>2, <1>4 DEF InCamera, Ordered
<1>5. CASE Submitted(t)
  BY <1>1, <1>2, <1>5 DEF Submitted, Ordered
<1>6. QED
  BY <1>3, <1>4, <1>5 DEF Coming

-----------------------------------------------------------------------------

LEMMA OwedInit == Init => Owed
  BY DEF Init, Owed, OwnAnswerComes, DataIsWanted, OlderAnswerComes, Reading

LEMMA DataIsWantedStep ==
    TypeOK /\ OpTyped /\ DataIsWanted /\ [Next]_vars => DataIsWanted'
<1> SUFFICES ASSUME TypeOK, OpTyped, DataIsWanted, [Next]_vars, pc' = "write_data"
             PROVE  DataIsWanted'
  BY DEF DataIsWanted
<1> USE DEF IsCommand, IsData
<1>p. Len(outPipe) \in Nat /\ (Len(outPipe) = 0 <=> outPipe = <<>>)
  BY DEF TypeOK
<1>1. CASE WriteCommand
  <2>1. Container("COMMAND", op, tid) \in OutContainers
    BY <1>1, ContainerTypes DEF WriteCommand, TypeOK, OpTyped
  <2>2. /\ Len(outPipe') = Len(outPipe) + 1
        /\ outPipe'[Len(outPipe) + 1] = Container("COMMAND", op, tid)
    BY <1>1, <2>1, WriteElements DEF WriteCommand
  <2>3. QED
    BY <1>1, <1>p, <2>2 DEF WriteCommand, DataIsWanted, Container
<1>2. ASSUME pc = "write_data", UNCHANGED tid, outPipe # <<>>, outPipe' = Tail(outPipe),
             Len(outPipe) = 1 => camPc' = "want_data" /\ camTid' = tid
      PROVE  DataIsWanted'
  <2>1. /\ Len(outPipe') = Len(outPipe) - 1
        /\ \A i \in 1..Len(outPipe') : outPipe'[i] = outPipe[i + 1]
    BY <1>2, TakeElements
  <2>2. /\ IsCommand(outPipe[Len(outPipe)]) /\ outPipe[Len(outPipe)].tid = tid
        /\ outPipe[Len(outPipe)].op \in DataOutOps
    BY <1>2, <1>p DEF DataIsWanted
  <2>3. CASE Len(outPipe) = 1
    BY <1>2, <2>1, <2>3 DEF DataIsWanted
  <2>4. CASE Len(outPipe) # 1
    <3>1. /\ Len(outPipe') \in 1..Len(outPipe')
          /\ Len(outPipe') + 1 = Len(outPipe)
      BY <1>2, <1>p, <2>1, <2>4
    <3>2. outPipe'[Len(outPipe')] = outPipe[Len(outPipe)]
      BY <2>1, <3>1
    <3>3. QED
      BY <1>2, <2>2, <3>1, <3>2 DEF DataIsWanted
  <2>5. QED
    BY <2>3, <2>4
<1>3. CASE CamTakeCommand
  <2>1. pc = "write_data" /\ UNCHANGED tid
    BY <1>3 DEF CamTakeCommand, hostVars
  <2>2. Head(outPipe) = outPipe[1] /\ outPipe[1].op \in AllOps
    BY <1>3, TakeElements, HeadTypes, TypeParts DEF CamTakeCommand
  <2>3. ASSUME Len(outPipe) = 1 PROVE camPc' = "want_data" /\ camTid' = tid
    <3>1. outPipe[1].tid = tid /\ outPipe[1].op \in DataOutOps
      BY <2>1, <2>3 DEF DataIsWanted
    <3>2. QED
      BY <1>3, <2>2, <3>1 DEF CamTakeCommand
  <2>4. QED
    BY <1>2, <1>3, <2>1, <2>3 DEF CamTakeCommand
<1>4. CASE CamTakeData
  <2>1. Head(outPipe) = outPipe[1]
    BY <1>4, TakeElements DEF CamTakeData
  <2>2. pc = "write_data" /\ UNCHANGED tid /\ Len(outPipe) # 1
    BY <1>4, <2>1 DEF CamTakeData, hostVars, DataIsWanted
  <2>3. QED
    BY <1>2, <1>4, <2>2 DEF CamTakeData
<1>5. CASE CamAbandon \/ CamSendData \/ CamSendResponse
  BY <1>5, <1>p
  DEF CamAbandon, CamSendData, CamSendResponse, hostVars, DataIsWanted
<1>6. CASE CamSendEvent \/ UNCHANGED vars
  BY <1>6 DEF CamSendEvent, vars, hostVars, camVars, DataIsWanted
<1>7. CASE WriteData \/ WriteError
  BY <1>7 DEF WriteData, WriteError, Throw
<1>10. CASE Read \/ ReadTimeout \/ ReadError
  BY <1>10, Reads
  DEF TypeOK, Fails, Answers, Discards, Garbles, Skips, Wanders, Return, Throw, Reading
<1>8. ASSUME NEW o \in Ops, Call(o) PROVE FALSE
  BY <1>8 DEF Call
<1>9. QED
  BY <1>1, <1>3, <1>4, <1>5, <1>6, <1>7, <1>8, <1>10 DEF Next, Camera

\* Only the client takes containers from its pipe.
LEMMA CameraOnlySends ==
    ASSUME TypeOK, Camera \/ UNCHANGED vars
    PROVE  inPipe # <<>> => inPipe' # Tail(inPipe)
<1>1. Len(inPipe') >= Len(inPipe)
  <2>1. \A c : inPipe' = Append(inPipe, c) => Len(inPipe') >= Len(inPipe)
    BY DEF TypeOK
  <2>2. QED
    BY <2>1
    DEF Camera, CamTakeCommand, CamTakeData, CamAbandon, CamSendData,
        CamSendResponse, CamSendEvent, Send, vars, TypeOK
<1>2. inPipe # <<>> => Len(Tail(inPipe)) < Len(inPipe)
  BY TailElements DEF TypeOK
<1>3. QED
  BY <1>1, <1>2 DEF TypeOK

\* A read adds no RESPONSE to the pipe.
LEMMA PopResponses ==
    ASSUME TypeOK, Pops
    PROVE  \A i \in 1..Len(inPipe') : IsResponse(inPipe'[i]) =>
              \E k \in 2..Len(inPipe) : inPipe'[i] = inPipe[k]
<1>1. ~IsResponse(Remains)
  BY DEF Remains, Container, IsResponse
<1>2. PICK d \in {0, 1} :
         \A i \in 1..Len(inPipe') :
            \/ i = 1 /\ inPipe'[i] = Remains
            \/ i + d \in 2..Len(inPipe) /\ inPipe'[i] = inPipe[i + d]
  BY PopElements
<1>3. QED
  BY <1>1, <1>2

\* Where nothing comes, only a new call changes that.
LEMMA NothingComesStep ==
    ASSUME TypeOK, NothingComes,
           Camera \/ UNCHANGED vars \/ (Pops /\ UNCHANGED <<outPipe, camVars>>)
    PROVE  NothingComes'
<1>p. Len(outPipe) \in Nat /\ Len(inPipe) \in Nat
  BY PipeTids
<1>1. CASE Pops /\ UNCHANGED <<outPipe, camVars>>
  <2>1. \A i \in 1..Len(inPipe') : ~IsResponse(inPipe'[i])
    <3>1. \A k \in 2..Len(inPipe) : k \in 1..Len(inPipe)
      BY <1>p
    <3>2. QED
      BY <1>1, <3>1, PopResponses DEF NothingComes
  <2>2. QED
    BY <1>1, <2>1 DEF NothingComes, camVars
<1>2. CASE CamTakeCommand
  <2>1. outPipe # <<>> /\ IsCommand(Head(outPipe))
    BY <1>2 DEF CamTakeCommand, IsCommand
  <2>2. Head(outPipe) = outPipe[1] /\ 1 \in 1..Len(outPipe)
    BY <2>1, TailElements DEF TypeOK
  <2>3. QED
    BY <2>1, <2>2 DEF NothingComes
<1>3. CASE CamTakeData \/ CamAbandon \/ CamSendData \/ CamSendResponse
  BY <1>3 DEF NothingComes, CamTakeData, CamAbandon, CamSendData, CamSendResponse
<1>4. CASE CamSendEvent
  <2>1. Container("EVENT", NoOp, NoTid) \in InContainers
    BY DEF Container, InContainers, NoTid
  <2>2. ~IsResponse(Container("EVENT", NoOp, NoTid))
    BY DEF Container, IsResponse
  <2>3. \A i \in 1..Len(inPipe') : ~IsResponse(inPipe'[i])
    BY <1>4, <1>p, <2>1, <2>2, SendElements DEF CamSendEvent, NothingComes
  <2>4. QED
    BY <1>4, <2>3 DEF CamSendEvent, NothingComes, camVars
<1>5. CASE UNCHANGED vars
  BY <1>5 DEF vars, camVars, NothingComes
<1>6. QED
  BY <1>1, <1>2, <1>3, <1>4, <1>5 DEF Camera

\* Behind the running call's own answer there is none.
LEMMA OwnAnswerIsLast ==
    ASSUME TypeOK, Host, Ordered, Busy, Pops, UNCHANGED <<outPipe, camVars>>,
           IsResponse(Head(inPipe)), Head(inPipe).tid = tid
    PROVE  NothingComes'
<1>1. /\ Len(inPipe) \in Nat /\ 1 \in 1..Len(inPipe) /\ Head(inPipe) = inPipe[1]
      /\ \A k \in 2..Len(inPipe) : k \in 1..Len(inPipe) /\ 1 < k
  BY TailElements DEF TypeOK, Pops
<1>2. tid \in Nat /\ next_tid = tid + 1 /\ camTid \in Nat
  BY DEF Host, TypeOK
<1>3. \A n \in Nat : tid < n => ~(n < next_tid)
  BY <1>2
<1>4. \A k \in 2..Len(inPipe) : ~IsResponse(inPipe[k])
  <2>1. ASSUME NEW k \in 2..Len(inPipe), IsResponse(inPipe[k]) PROVE FALSE
    <3>1. tid < inPipe[k].tid /\ inPipe[k].tid < next_tid
      BY <1>1, <2>1 DEF Ordered
    <3>2. inPipe[k].tid \in Nat
      BY <1>1, PipeTids
    <3>3. QED
      BY <1>3, <3>1, <3>2
  <2>2. QED
    BY <2>1
<1>5. camPc = "wait"
  BY <1>1, <1>2, <1>3 DEF Ordered
<1>6. \A i \in 1..Len(outPipe) : ~IsCommand(outPipe[i])
  <2>1. ASSUME NEW i \in 1..Len(outPipe), IsCommand(outPipe[i]) PROVE FALSE
    <3>1. tid < outPipe[i].tid /\ outPipe[i].tid < next_tid
      BY <1>1, <2>1 DEF Ordered
    <3>2. outPipe[i].tid \in Nat
      BY PipeTids
    <3>3. QED
      BY <1>3, <3>1, <3>2
  <2>2. QED
    BY <2>1
<1>7. \A i \in 1..Len(inPipe') : ~IsResponse(inPipe'[i])
  BY <1>4, PopResponses
<1>8. QED
  BY <1>5, <1>6, <1>7 DEF NothingComes, camVars

LEMMA OwnAnswerComesStep ==
    TypeOK /\ OpTyped /\ Host /\ Ordered /\ Owed /\ [Next]_vars => OwnAnswerComes'
<1> SUFFICES ASSUME TypeOK, OpTyped, Host, Ordered, Owed, [Next]_vars, pc' \in Reading
             PROVE  Coming(tid)' \/ (swallowed' /\ NothingComes')
  BY DEF OwnAnswerComes
<1>t. tid \in Nat
  BY DEF TypeOK
<1>p. Len(outPipe) \in Nat /\ (Len(outPipe) = 0 <=> outPipe = <<>>)
  BY DEF TypeOK
\* Steps of a call that is reading already, and the camera's.
<1>1. ASSUME pc \in Reading, UNCHANGED tid, Coming(tid)
      PROVE  \/ Coming(tid)'
             \/ /\ inPipe # <<>> /\ inPipe' = Tail(inPipe)
                /\ IsResponse(Head(inPipe)) /\ Head(inPipe).tid = tid
  <2>1. PICK t \in Nat : t = tid /\ Coming(t)
    BY <1>t, <1>1
  <2>2. \/ Coming(t)'
        \/ /\ inPipe # <<>> /\ inPipe' = Tail(inPipe)
           /\ IsResponse(Head(inPipe)) /\ Head(inPipe).tid = t
    BY <2>1, ComingStep
  <2>3. Coming(t)' /\ tid' = t => Coming(tid)'
    BY DEF Coming, Arrived, InCamera, Submitted
  <2>4. QED
    BY <1>1, <2>1, <2>2, <2>3
<1>2. CASE WriteCommand
  <2>1. Container("COMMAND", op, tid) \in OutContainers
    BY <1>2, ContainerTypes DEF WriteCommand, TypeOK, OpTyped
  <2>2. /\ Len(outPipe') = Len(outPipe) + 1
        /\ outPipe'[Len(outPipe) + 1] = Container("COMMAND", op, tid)
    BY <1>2, <2>1, WriteElements DEF WriteCommand
  <2>3. op \notin DataOutOps
    BY <1>2 DEF WriteCommand, Reading, SessionOps, DataOutOps
  <2>4. Submitted(tid)'
    BY <1>2, <1>p, <2>2, <2>3 DEF WriteCommand, Submitted, Container, IsCommand
  <2>5. QED
    BY <2>4 DEF Coming
<1>3. CASE WriteData
  <2>1. PICK t \in DataTids(op, tid) :
           outPipe' = Append(outPipe, Container("DATA", op, t))
    BY <1>3 DEF WriteData
  <2>2. Container("DATA", op, t) \in OutContainers
    BY <1>3, <1>t, ContainerTypes DEF WriteData, OpTyped, DataTids, NoTid
  <2>3. /\ Len(outPipe') = Len(outPipe) + 1
        /\ \A i \in 1..Len(outPipe) : outPipe'[i] = outPipe[i]
        /\ outPipe'[Len(outPipe) + 1] = Container("DATA", op, t)
    BY <2>1, <2>2, WriteElements
  <2>4. CASE Len(outPipe) = 0 /\ camPc = "want_data" /\ camTid = tid
    <3>1. InCamera(tid)'
      BY <1>3, <2>3, <2>4 DEF WriteData, camVars, InCamera, Container, IsData
    <3>2. QED
      BY <3>1 DEF Coming
  <2>5. CASE /\ Len(outPipe) > 0
             /\ IsCommand(outPipe[Len(outPipe)]) /\ outPipe[Len(outPipe)].tid = tid
    <3>1. Submitted(tid)'
      BY <1>3, <1>p, <2>3, <2>5 DEF WriteData, Submitted, Container, IsData, IsCommand
    <3>2. QED
      BY <3>1 DEF Coming
  <2>6. QED
    BY <1>3, <2>4, <2>5 DEF WriteData, Owed, DataIsWanted
<1>4. CASE Read \/ ReadTimeout \/ ReadError
  <2>1. /\ pc \in Reading /\ UNCHANGED <<outPipe, camVars, tid>>
        /\ Skips \/ Wanders
    BY <1>4, Reads
    DEF TypeOK, Fails, Answers, Discards, Garbles, Throw, Return, Reading
  <2>2. Pops /\ (swallowed => swallowed')
    BY <2>1 DEF Skips, Wanders, Genuine, Strays, TypeOK
  <2>3. CASE swallowed /\ NothingComes
    BY <2>1, <2>2, <2>3, NothingComesStep
  <2>4. CASE Coming(tid)
    <3>1. CASE /\ inPipe # <<>> /\ inPipe' = Tail(inPipe)
               /\ IsResponse(Head(inPipe)) /\ Head(inPipe).tid = tid
      <4>1. Wanders /\ ~IsRemains(Head(inPipe))
        BY <2>1, <3>1 DEF Skips, IsResponse, IsRemains
      <4>2. swallowed'
        BY <4>1 DEF Wanders, Strays
      <4>3. Busy
        BY <2>1 DEF Busy, Reading
      <4>4. QED
        BY <2>1, <2>2, <3>1, <4>2, <4>3, OwnAnswerIsLast
    <3>2. QED
      BY <1>1, <2>1, <2>4, <3>1
  <2>5. QED
    BY <2>1, <2>3, <2>4 DEF Owed, OwnAnswerComes
<1>5. CASE WriteError
  BY <1>5 DEF WriteError, Throw, Reading
<1>6. CASE Camera \/ UNCHANGED vars
  <2>1. pc \in Reading /\ UNCHANGED <<tid, swallowed>>
    BY <1>6 DEF Camera, CamTakeCommand, CamTakeData, CamAbandon, CamSendData,
                CamSendResponse, CamSendEvent, vars, hostVars, history
  <2>2. inPipe # <<>> => inPipe' # Tail(inPipe)
    BY <1>6, CameraOnlySends
  <2>3. CASE swallowed /\ NothingComes
    BY <1>6, <2>1, <2>3, NothingComesStep
  <2>4. CASE Coming(tid)
    BY <1>1, <2>1, <2>2, <2>4
  <2>5. QED
    BY <2>1, <2>3, <2>4 DEF Owed, OwnAnswerComes
<1>8. ASSUME NEW o \in Ops, Call(o) PROVE FALSE
  BY <1>8 DEF Call, Reading
<1>9. QED
  BY <1>2, <1>3, <1>4, <1>5, <1>6, <1>8 DEF Next

\* Once out of step, the running call is never handed its own answer.
LEMMA NotItsOwn ==
    ASSUME TypeOK, Host, Ordered, Owed, desynced, Busy,
           inPipe # <<>>, IsResponse(Head(inPipe))
    PROVE  Head(inPipe).tid # tid
<1>1. PICK t \in Nat : t < tid /\ Coming(t)
  BY DEF Owed, OlderAnswerComes
<1>2. Head(inPipe).tid <= t
  BY <1>1, OldestFirst
<1>3. Head(inPipe).tid \in Nat /\ tid \in Nat
  BY HeadTypes, TypeParts DEF TypeOK
<1>4. QED
  BY <1>1, <1>2, <1>3

LEMMA OlderAnswerComesStep ==
    TypeOK /\ OpTyped /\ Host /\ Ordered /\ RemainsFirst /\ Owed /\ [Next]_vars
        => OlderAnswerComes'
<1> SUFFICES ASSUME TypeOK, OpTyped, Host, Ordered, RemainsFirst, Owed, [Next]_vars,
                    desynced'
             PROVE  \E t \in Nat : /\ t < next_tid' /\ (Busy' => t < tid')
                                  /\ Coming(t)'
  BY DEF OlderAnswerComes
<1>t. /\ tid \in Nat /\ next_tid \in Nat /\ tid < next_tid
      /\ swallowed \in BOOLEAN /\ desynced \in BOOLEAN
  BY DEF TypeOK, Host
\* The call goes on: the older answer is still there.
<1>1. ASSUME desynced, UNCHANGED <<tid, next_tid>>, Busy' => Busy,
             ~(/\ inPipe # <<>> /\ inPipe' = Tail(inPipe)
               /\ IsResponse(Head(inPipe)))
      PROVE  \E t \in Nat : t < next_tid' /\ (Busy' => t < tid') /\ Coming(t)'
  <2>1. PICK t \in Nat : t < next_tid /\ (Busy => t < tid) /\ Coming(t)
    BY <1>1 DEF Owed, OlderAnswerComes
  <2>2. Coming(t)'
    BY <1>1, <2>1, ComingStep
  <2>3. QED
    BY <1>1, <2>1, <2>2
\* The call ends without its own answer, which is still to come.
<1>2. ASSUME pc \in Reading, pc' = "idle", UNCHANGED <<tid, next_tid>>, Coming(tid),
             IsResponse(Head(inPipe)) => Head(inPipe).tid # tid
      PROVE  \E t \in Nat : t < next_tid' /\ (Busy' => t < tid') /\ Coming(t)'
  <2>1. ASSUME NEW t \in Nat, t = tid, Coming(t) PROVE Coming(t)'
    BY <1>2, <2>1, ComingStep
  <2>2. PICK t \in Nat : t = tid /\ Coming(t)
    BY <1>t, <1>2
  <2>3. Coming(t)'
    BY <2>1, <2>2
  <2>4. QED
    BY <1>2, <1>t, <2>2, <2>3 DEF Busy
<1>3. ASSUME NEW o \in Ops, Call(o)
      PROVE  \E t \in Nat : t < next_tid' /\ (Busy' => t < tid') /\ Coming(t)'
  <2>1. /\ desynced /\ UNCHANGED inPipe
        /\ next_tid' = next_tid + 1 /\ tid' = next_tid
    BY <1>3 DEF Call
  <2>2. PICK t \in Nat : t < next_tid /\ Coming(t)
    BY <2>1 DEF Owed, OlderAnswerComes
  <2>3. Coming(t)'
    BY <1>3, <2>2 DEF Call, camVars, Coming, Arrived, InCamera, Submitted
  <2>4. QED
    BY <1>t, <2>1, <2>2, <2>3
\* A pipe that is left alone loses nothing.
<1>4. UNCHANGED inPipe => inPipe' # Tail(inPipe) \/ inPipe = <<>>
  BY TailElements DEF TypeOK
<1>5. CASE WriteCommand \/ WriteData \/ WriteError
  <2>1. desynced /\ UNCHANGED <<tid, next_tid, inPipe>> /\ Busy
    BY <1>5
    DEF WriteCommand, WriteData, WriteError, Throw, OutOfStep, Busy, Writing, history
  <2>2. QED
    BY <1>1, <1>4, <2>1
<1>6. CASE Read \/ ReadTimeout \/ ReadError
  <2>1. /\ pc \in Reading /\ Busy
        /\ UNCHANGED <<tid, next_tid>>
        /\ Fails \/ Answers \/ Discards \/ Garbles \/ Skips \/ Wanders
    BY <1>6, Reads DEF TypeOK, Busy, Reading
  \* A call that has not read on beyond remains has its answer coming.
  <2>2. ~swallowed => Coming(tid)
    BY <2>1 DEF Owed, OwnAnswerComes
  <2>4. CASE Fails
    <3>1. desynced /\ pc' = "idle"
      BY <2>4 DEF Fails, Throw, OutOfStep
    <3>2. CASE UNCHANGED inPipe
      BY <1>1, <1>4, <2>1, <3>1, <3>2
    <3>3. CASE Pops
      <4>1. ~swallowed
        BY <2>1, <3>1 DEF RemainsFirst
      <4>2. IsResponse(Head(inPipe)) => Head(inPipe).tid # tid
        BY <2>1, <3>1, <3>3, NotItsOwn DEF Pops
      <4>3. QED
        BY <1>2, <2>1, <2>2, <3>1, <4>1, <4>2
    <3>4. QED
      BY <2>4, <3>2, <3>3 DEF Fails, Strays
  <2>5. CASE Answers
    <3>1. /\ IsResponse(Head(inPipe)) /\ pc' = "idle" /\ Pops
          /\ desynced' = \/ OutOfStep
                         \/ /\ Head(inPipe).tid # tid
                            /\ ~(swallowed' /\ Head(inPipe).tid = NoTid)
      BY <2>5 DEF Answers, Genuine, Return
    <3>2. Head(inPipe).tid # tid
      <4>1. CASE desynced
        BY <2>1, <3>1, <4>1, NotItsOwn DEF Pops
      <4>2. CASE ~desynced
        BY <3>1, <4>2 DEF OutOfStep
      <4>3. QED
        BY <4>1, <4>2
    <3>3. Coming(tid)
      <4>1. 1 \in 1..Len(inPipe) /\ Head(inPipe) = inPipe[1]
        BY <3>1, TailElements DEF TypeOK, Pops
      <4>2. ~NothingComes
        BY <3>1, <4>1 DEF NothingComes
      <4>3. QED
        BY <2>1, <4>2 DEF Owed, OwnAnswerComes
    <3>4. QED
      BY <1>2, <2>1, <3>1, <3>2, <3>3
  <2>6. CASE Discards
    <3>1. /\ ~IsResponse(Head(inPipe)) /\ pc' = "idle" /\ UNCHANGED swallowed
          /\ desynced' = (OutOfStep \/ (NoTid # tid /\ ~(swallowed' /\ NoTid = NoTid)))
      BY <2>6 DEF Discards, Genuine, Return
    <3>2. ~swallowed
      BY <3>1 DEF OutOfStep
    <3>3. QED
      BY <1>2, <2>1, <2>2, <3>1, <3>2
  <2>7. CASE Garbles
    <3>1. /\ Strays /\ pc' = "idle"
          /\ desynced' = (OutOfStep \/ (NoTid # tid /\ ~(swallowed' /\ NoTid = NoTid)))
      BY <2>7 DEF Garbles, Return
    <3>2. ~swallowed'
      BY <3>1 DEF OutOfStep
    <3>3. ~swallowed /\ IsRemains(Head(inPipe))
      BY <3>1, <3>2 DEF Strays
    <3>4. ~IsResponse(Head(inPipe))
      BY <3>3 DEF IsRemains, IsResponse
    <3>5. QED
      BY <1>2, <2>1, <2>2, <3>1, <3>3, <3>4
  <2>8. CASE Skips
    <3>1. desynced /\ ~IsResponse(Head(inPipe))
      BY <2>8 DEF Skips, GoOn, OutOfStep
    <3>2. QED
      BY <1>1, <2>1, <3>1
  <2>9. CASE Wanders
    <3>1. desynced /\ ~swallowed' /\ Strays
      BY <2>9 DEF Wanders, GoOn, OutOfStep
    <3>2. ~IsResponse(Head(inPipe))
      BY <3>1 DEF Strays, IsRemains, IsResponse
    <3>3. QED
      BY <1>1, <2>1, <3>1, <3>2
  <2>10. QED
    BY <2>1, <2>4, <2>5, <2>6, <2>7, <2>8, <2>9
<1>9. CASE Camera \/ UNCHANGED vars
  <2>1. desynced /\ UNCHANGED <<tid, next_tid, pc>>
    BY <1>9 DEF Camera, CamTakeCommand, CamTakeData, CamAbandon, CamSendData,
                CamSendResponse, CamSendEvent, vars, hostVars, history
  <2>2. inPipe # <<>> => inPipe' # Tail(inPipe)
    BY <1>9, CameraOnlySends
  <2>3. QED
    BY <1>1, <2>1, <2>2 DEF Busy
<1>10. QED
  BY <1>3, <1>5, <1>6, <1>9 DEF Next

LEMMA OwedStep ==
    TypeOK /\ OpTyped /\ Host /\ Ordered /\ RemainsFirst /\ Owed /\ [Next]_vars
        => Owed'
  BY DataIsWantedStep, OwnAnswerComesStep, OlderAnswerComesStep DEF Owed

-----------------------------------------------------------------------------

LEMMA InStepInit == Init => InStep
  BY DEF Init, InStep, Quiet, OnlyEvents, Reading

\* Reading a container that is no RESPONSE leaves the transaction where it is.
LEMMA SkipOne ==
    ASSUME TypeOK, OnItsWay \/ HalfTaken \/ BeingDone \/ Answered,
           inPipe # <<>>, inPipe' = Tail(inPipe), ~IsResponse(Head(inPipe)),
           UNCHANGED <<outPipe, camPc, camTid, tid, op>>
    PROVE  OnItsWay' \/ HalfTaken' \/ BeingDone' \/ Answered'
<1>1. /\ Len(inPipe) \in Nat /\ Len(inPipe') = Len(inPipe) - 1
      /\ Head(inPipe) = inPipe[1]
      /\ \A i \in 1..Len(inPipe') : i + 1 \in 1..Len(inPipe) /\ inPipe'[i] = inPipe[i + 1]
  BY TailElements DEF TypeOK
<1>2. OnlyEvents => OnlyEvents'
  BY <1>1 DEF OnlyEvents
<1>3. CASE OnItsWay \/ HalfTaken
  BY <1>2, <1>3 DEF OnItsWay, HalfTaken
<1>4. CASE BeingDone
  BY <1>1, <1>4 DEF BeingDone
<1>5. CASE Answered
  <2>1. PICK k \in 1..Len(inPipe) :
           /\ IsResponse(inPipe[k]) /\ inPipe[k].tid = tid
           /\ \A j \in 1..Len(inPipe) :
                 /\ j < k => ~IsResponse(inPipe[j])
                 /\ j > k => IsEvent(inPipe[j])
    BY <1>5 DEF Answered
  <2>2. k # 1
    BY <1>1, <2>1
  <2>3. k - 1 \in 1..Len(inPipe') /\ inPipe'[k - 1] = inPipe[k]
    BY <1>1, <2>2
  <2>4. \A j \in 1..Len(inPipe') :
           /\ j < k - 1 => ~IsResponse(inPipe'[j])
           /\ j > k - 1 => IsEvent(inPipe'[j])
    BY <1>1, <2>1
  <2>5. QED
    BY <1>5, <2>1, <2>3, <2>4 DEF Answered
<1>6. QED
  BY <1>3, <1>4, <1>5

\* Reading the RESPONSE leaves nothing behind.
LEMMA LastOne ==
    ASSUME TypeOK, OnItsWay \/ HalfTaken \/ BeingDone \/ Answered,
           inPipe # <<>>, inPipe' = Tail(inPipe), IsResponse(Head(inPipe)),
           UNCHANGED <<outPipe, camPc>>
    PROVE  Quiet'
<1>1. /\ Len(inPipe) \in Nat /\ Len(inPipe) > 0 /\ Len(inPipe') = Len(inPipe) - 1
      /\ Head(inPipe) = inPipe[1]
      /\ \A i \in 1..Len(inPipe') : i + 1 \in 1..Len(inPipe) /\ inPipe'[i] = inPipe[i + 1]
  BY TailElements DEF TypeOK
<1>2. Answered
  BY <1>1 DEF OnItsWay, HalfTaken, BeingDone, OnlyEvents, IsEvent, IsResponse
<1>3. PICK k \in 1..Len(inPipe) :
         \A j \in 1..Len(inPipe) :
            /\ j < k => ~IsResponse(inPipe[j])
            /\ j > k => IsEvent(inPipe[j])
  BY <1>2 DEF Answered
<1>4. k = 1
  BY <1>1, <1>3
<1>5. OnlyEvents'
  BY <1>1, <1>3, <1>4 DEF OnlyEvents
<1>6. QED
  BY <1>2, <1>5 DEF Answered, Quiet

LEMMA InStepStep ==
    TypeOK /\ OpTyped /\ Host /\ RemainsFirst /\ InStep /\ [Next]_vars => InStep'
<1> SUFFICES ASSUME TypeOK, OpTyped, Host, RemainsFirst, InStep, [Next]_vars,
                    ~failed', ~desynced'
             PROVE  InStep'
  BY DEF InStep
<1> DEFINE Phase == OnItsWay \/ HalfTaken \/ BeingDone \/ Answered
\* No step in step throws, or reads remains.
<1>r. ASSUME Read \/ ReadTimeout \/ ReadError
      PROVE  /\ pc \in Reading /\ UNCHANGED <<outPipe, camVars, op, tid, failed>>
             /\ ~desynced /\ inPipe # <<>> /\ inPipe' = Tail(inPipe)
             /\ Answers \/ Discards \/ Skips
  <2>1. /\ pc \in Reading /\ UNCHANGED <<outPipe, camVars, op, tid>>
        /\ Fails \/ Answers \/ Discards \/ Garbles \/ Skips \/ Wanders
    BY <1>r, Reads DEF TypeOK
  <2>2. ~Fails
    BY DEF Fails, Throw
  <2>3. ~Garbles /\ ~Wanders
    BY NoStrays DEF Garbles, Wanders, Return, GoOn
  <2>4. Answers \/ Discards \/ Skips
    BY <2>1, <2>2, <2>3
  <2>5. UNCHANGED <<failed, swallowed>> /\ ~OutOfStep
    <3>1. Genuine /\ (GoOn \/ \E r : Return(r))
      BY <2>4 DEF Answers, Discards, Skips
    <3>2. GoOn => UNCHANGED failed /\ ~OutOfStep
      BY DEF GoOn
    <3>3. ASSUME NEW r, Return(r) PROVE UNCHANGED failed /\ ~OutOfStep
      BY <3>3 DEF Return
    <3>4. QED
      BY <3>1, <3>2, <3>3 DEF Genuine
  <2>6. ~swallowed'
    BY <2>5 DEF RemainsFirst
  <2>7. ~desynced
    BY <2>5, <2>6 DEF OutOfStep
  <2>8. inPipe # <<>> /\ inPipe' = Tail(inPipe)
    BY <2>4 DEF Answers, Discards, Skips, Genuine, Pops
  <2>9. QED
    BY <2>1, <2>4, <2>5, <2>7, <2>8
<1>h. ~failed /\ ~desynced
  <2>1. ASSUME NEW o \in Ops, Call(o) PROVE UNCHANGED <<failed, desynced>>
    BY <2>1 DEF Call
  <2>2. CASE WriteCommand \/ WriteData \/ Camera \/ UNCHANGED vars
    BY <2>2
    DEF WriteCommand, WriteData, Camera, CamTakeCommand, CamTakeData, CamAbandon,
        CamSendData, CamSendResponse, CamSendEvent, vars, history
  <2>3. CASE WriteError
    BY <2>3 DEF WriteError, Throw
  <2>4. CASE Read \/ ReadTimeout \/ ReadError
    BY <1>r, <2>4
  <2>5. QED
    BY <2>1, <2>2, <2>3, <2>4 DEF Next
<1>p. /\ Len(inPipe) \in Nat /\ Len(outPipe) \in Nat
      /\ outPipe = <<>> <=> Len(outPipe) = 0
      /\ pc \in {"idle", "write_cmd", "write_data", "read", "read_resp", "read_any"}
  BY DEF TypeOK, Writing, Reading
<1>1. ASSUME NEW o \in Ops, Call(o) PROVE InStep'
  BY <1>h, <1>1 DEF Call, InStep, Quiet, OnlyEvents, Reading, camVars
<1>2. CASE WriteCommand
  <2>1. Container("COMMAND", op, tid) \in OutContainers
    BY <1>2, ContainerTypes DEF WriteCommand, TypeOK, OpTyped
  <2>2. Quiet
    BY <1>h, <1>2 DEF WriteCommand, InStep
  <2>3. Len(outPipe') = 1 /\ outPipe'[1] = Container("COMMAND", op, tid)
    BY <1>2, <1>p, <2>1, <2>2, WriteElements DEF WriteCommand, Quiet
  <2>4. /\ camPc' = "wait" /\ OnlyEvents' /\ UNCHANGED <<tid, op>>
        /\ outPipe'[1].type = "COMMAND" /\ outPipe'[1].op = op' /\ outPipe'[1].tid = tid'
    BY <1>2, <2>2, <2>3 DEF WriteCommand, Quiet, OnlyEvents, Container, camVars
  <2>5. /\ op \in SessionOps => op \notin DataOutOps /\ pc' = "read_any"
        /\ op \notin SessionOps /\ op \in DataOutOps => pc' = "write_data"
        /\ op \notin SessionOps /\ op \notin DataOutOps => pc' = "read"
    BY <1>2 DEF WriteCommand, SessionOps, DataOutOps
  <2>6. CASE op \in DataOutOps
    BY <2>3, <2>4, <2>5, <2>6 DEF InStep, IsCommand, Reading
  <2>7. CASE op \notin DataOutOps
    <3>1. OnItsWay'
      BY <2>3, <2>4, <2>7 DEF OnItsWay, IsCommand
    <3>2. QED
      BY <2>5, <2>7, <3>1 DEF InStep
  <2>8. QED
    BY <2>6, <2>7
<1>3. CASE WriteData
  <2>1. PICK t \in DataTids(op, tid) :
           outPipe' = Append(outPipe, Container("DATA", op, t))
    BY <1>3 DEF WriteData
  <2>2. Container("DATA", op, t) \in OutContainers
    BY <1>3, ContainerTypes DEF WriteData, TypeOK, OpTyped, DataTids, NoTid
  <2>3. /\ Len(outPipe') = Len(outPipe) + 1
        /\ \A i \in 1..Len(outPipe) : outPipe'[i] = outPipe[i]
        /\ outPipe'[Len(outPipe) + 1] = Container("DATA", op, t)
    BY <2>1, <2>2, WriteElements
  <2>4. /\ OnlyEvents'
        /\ UNCHANGED <<camPc, camTid, tid, op>> /\ op \in DataOutOps /\ pc' = "read"
    BY <1>h, <1>3 DEF WriteData, InStep, OnlyEvents, camVars, Host
  <2>5. CASE /\ camPc = "wait" /\ Len(outPipe) = 1 /\ IsCommand(outPipe[1])
             /\ outPipe[1].op = op /\ outPipe[1].tid = tid
    <3>1. OnItsWay'
      BY <2>3, <2>4, <2>5 DEF OnItsWay, IsCommand, IsData, Container
    <3>2. QED
      BY <2>4, <3>1 DEF InStep
  <2>6. CASE camPc = "want_data" /\ camTid = tid /\ outPipe = <<>>
    <3>1. HalfTaken'
      BY <1>p, <2>3, <2>4, <2>6 DEF HalfTaken, IsData, Container
    <3>2. QED
      BY <2>4, <3>1 DEF InStep
  <2>7. QED
    BY <1>h, <1>3, <2>5, <2>6 DEF WriteData, InStep
<1>4. CASE WriteError
  BY <1>4 DEF WriteError, Throw
<1>5. ASSUME pc \in Reading, inPipe # <<>>, inPipe' = Tail(inPipe),
             UNCHANGED <<outPipe, camPc, camTid, tid, op>>,
             \/ IsResponse(Head(inPipe)) /\ pc' = "idle"
             \/ ~IsResponse(Head(inPipe)) /\ pc' \in Reading
      PROVE  InStep'
  <2>1. Phase
    BY <1>h, <1>5 DEF InStep
  <2>2. CASE IsResponse(Head(inPipe)) /\ pc' = "idle"
    <3>1. Quiet'
      BY <1>5, <2>1, <2>2, LastOne
    <3>2. QED
      BY <2>2, <3>1 DEF InStep, Reading
  <2>3. CASE ~IsResponse(Head(inPipe)) /\ pc' \in Reading
    <3>1. Phase'
      BY <1>5, <2>1, <2>3, SkipOne
    <3>2. QED
      BY <2>3, <3>1 DEF InStep, Reading
  <2>4. QED
    BY <1>5, <2>2, <2>3
<1>6. CASE Read \/ ReadTimeout \/ ReadError
  <2>1. ~Discards
    <3>1. ASSUME Discards PROVE tid = NoTid
      BY <1>r, <1>6, <3>1 DEF Discards, Genuine, Return, RemainsFirst
    <3>2. tid # NoTid
      BY <1>r, <1>6 DEF Host, Busy, Reading, TypeOK, NoTid
    <3>3. QED
      BY <3>1, <3>2
  <2>2. \/ IsResponse(Head(inPipe)) /\ pc' = "idle"
        \/ ~IsResponse(Head(inPipe)) /\ pc' \in Reading
    BY <1>r, <1>6, <2>1 DEF Answers, Skips, Return, Reading
  <2>3. QED
    BY <1>5, <1>r, <1>6, <2>2 DEF camVars
<1>7. CASE CamTakeCommand
  <2>1. /\ outPipe # <<>> /\ outPipe' = Tail(outPipe) /\ camPc = "wait"
        /\ UNCHANGED <<pc, tid, op, inPipe>>
        /\ camTid' = Head(outPipe).tid
        /\ camPc' = IF Head(outPipe).op \in DataOutOps THEN "want_data" ELSE "reply"
    BY <1>7 DEF CamTakeCommand, hostVars
  <2>2. /\ Head(outPipe) = outPipe[1] /\ Len(outPipe') = Len(outPipe) - 1
        /\ Len(outPipe) = 2 => outPipe'[1] = outPipe[2]
        /\ Len(outPipe') = 0 => outPipe' = <<>>
    <3>1. outPipe \in Seq(OutContainers)
      BY DEF TypeOK
    <3>2. /\ Head(outPipe) = outPipe[1] /\ Len(outPipe') = Len(outPipe) - 1
          /\ outPipe' \in Seq(OutContainers)
          /\ \A i \in 1..(Len(outPipe) - 1) : outPipe'[i] = outPipe[i + 1]
      BY <2>1, <3>1, TailElements
    <3>3. QED
      BY <3>2
  <2>3. CASE pc \in {"idle", "write_cmd"}
    BY <1>h, <2>1, <2>3 DEF InStep, Quiet
  <2>4. CASE pc = "write_data"
    <3>1. /\ Len(outPipe) = 1 /\ outPipe[1].op = op /\ outPipe[1].tid = tid /\ OnlyEvents
          /\ op \in DataOutOps
      BY <1>h, <2>1, <2>4 DEF InStep, Host
    <3>2. QED
      BY <2>1, <2>2, <2>4, <3>1 DEF InStep, OnlyEvents, Reading
  <2>5. CASE pc \in Reading
    <3>1. OnItsWay
      BY <1>h, <2>1, <2>5 DEF InStep, HalfTaken, BeingDone, Answered
    <3>2. CASE op \in DataOutOps
      <4>1. /\ Len(outPipe) = 2 /\ IsData(outPipe[2]) /\ OnlyEvents
            /\ outPipe[1].tid = tid /\ outPipe[1].op = op
        BY <3>1, <3>2 DEF OnItsWay
      <4>2. HalfTaken'
        <5>1. camPc' = "want_data" /\ camTid' = tid'
          BY <2>1, <2>2, <3>2, <4>1
        <5>2. Len(outPipe') = 1 /\ IsData(outPipe'[1])
          BY <2>2, <4>1 DEF IsData
        <5>3. OnlyEvents'
          BY <2>1, <4>1 DEF OnlyEvents
        <5>4. QED
          BY <5>1, <5>2, <5>3 DEF HalfTaken
      <4>3. QED
        BY <2>1, <2>5, <4>2 DEF InStep, Reading
    <3>3. CASE op \notin DataOutOps
      <4>1. BeingDone'
        BY <2>1, <2>2, <3>1, <3>3
        DEF OnItsWay, BeingDone, OnlyEvents, IsEvent, IsResponse
      <4>2. QED
        BY <2>1, <2>5, <4>1 DEF InStep, Reading
    <3>4. QED
      BY <3>2, <3>3
  <2>6. QED
    BY <1>p, <2>3, <2>4, <2>5 DEF Reading
<1>8. CASE CamTakeData
  <2>1. /\ outPipe # <<>> /\ outPipe' = Tail(outPipe) /\ camPc = "want_data"
        /\ camPc' = "reply" /\ UNCHANGED <<pc, tid, op, camTid, inPipe>>
    BY <1>8 DEF CamTakeData, hostVars
  <2>2. pc \in Reading /\ HalfTaken
    BY <1>h, <1>p, <2>1 DEF InStep, Quiet, OnItsWay, BeingDone, Answered, Reading
  <2>3. outPipe' = <<>>
    BY <2>1, <2>2 DEF HalfTaken, TypeOK
  <2>4. BeingDone'
    BY <2>1, <2>2, <2>3 DEF HalfTaken, BeingDone, OnlyEvents, IsEvent, IsResponse
  <2>5. QED
    BY <2>1, <2>2, <2>4 DEF InStep, Reading
<1>9. CASE CamAbandon
  <2>1. outPipe # <<>> /\ camPc = "want_data" /\ IsCommand(Head(outPipe))
    BY <1>9 DEF CamAbandon, IsCommand
  <2>2. HalfTaken
    BY <1>h, <1>p, <2>1 DEF InStep, Quiet, OnItsWay, BeingDone, Answered, Reading
  <2>3. QED
    BY <2>1, <2>2, TailElements DEF HalfTaken, IsCommand, IsData, TypeOK
<1>10. ASSUME camPc \in {"reply", "resp"} PROVE pc \in Reading /\ BeingDone
  BY <1>h, <1>p, <1>10 DEF InStep, Quiet, OnItsWay, HalfTaken, Answered, Reading
<1>11. \A k \in {"DATA", "RESPONSE"} : Container(k, camOp, camTid) \in InContainers
  BY DEF TypeOK, Container, InContainers
<1>12. CASE CamSendData
  <2>1. BeingDone /\ pc \in Reading
    BY <1>10, <1>12 DEF CamSendData
  <2>2. /\ Len(inPipe') = Len(inPipe) + 1
        /\ \A i \in 1..Len(inPipe) : inPipe'[i] = inPipe[i]
        /\ inPipe'[Len(inPipe) + 1] = Container("DATA", camOp, camTid)
    BY <1>11, <1>12, SendElements DEF CamSendData, Send
  <2>3. BeingDone'
    BY <1>p, <1>12, <2>1, <2>2
    DEF CamSendData, BeingDone, IsResponse, Container, hostVars
  <2>4. QED
    BY <1>12, <2>1, <2>3 DEF CamSendData, InStep, Reading, hostVars
<1>13. CASE CamSendResponse
  <2>1. BeingDone /\ pc \in Reading
    BY <1>10, <1>13 DEF CamSendResponse
  <2>2. /\ Len(inPipe') = Len(inPipe) + 1
        /\ \A i \in 1..Len(inPipe) : inPipe'[i] = inPipe[i]
        /\ inPipe'[Len(inPipe) + 1] = Container("RESPONSE", camOp, camTid)
    BY <1>11, <1>13, SendElements DEF CamSendResponse, Send
  <2>3. Answered'
    BY <1>p, <1>13, <2>1, <2>2
    DEF CamSendResponse, BeingDone, Answered, IsResponse, Container, hostVars
  <2>4. QED
    BY <1>13, <2>1, <2>3 DEF CamSendResponse, InStep, Reading, hostVars
<1>14. CASE CamSendEvent
  <2>1. Container("EVENT", NoOp, NoTid) \in InContainers
    BY DEF Container, InContainers, NoTid
  <2>2. /\ Len(inPipe') = Len(inPipe) + 1
        /\ \A i \in 1..Len(inPipe) : inPipe'[i] = inPipe[i]
        /\ IsEvent(inPipe'[Len(inPipe) + 1])
        /\ ~IsResponse(inPipe'[Len(inPipe) + 1])
    BY <1>14, <2>1, SendElements DEF CamSendEvent, Container, IsEvent, IsResponse
  <2>3. UNCHANGED <<pc, tid, op, outPipe, camPc, camTid>>
    BY <1>14 DEF CamSendEvent, hostVars, camVars
  <2>4. OnlyEvents => OnlyEvents'
    BY <1>p, <2>2 DEF OnlyEvents
  <2>5. BeingDone => BeingDone'
    BY <1>p, <2>2, <2>3 DEF BeingDone
  <2>6. Answered => Answered'
    BY <1>p, <2>2, <2>3 DEF Answered
  <2>7. QED
    BY <1>h, <2>3, <2>4, <2>5, <2>6 DEF InStep, Quiet, OnItsWay, HalfTaken, Reading
<1>15. CASE UNCHANGED vars
  BY <1>15
  DEF vars, hostVars, camVars, history, InStep, Quiet, OnItsWay, HalfTaken,
      BeingDone, Answered, OnlyEvents
<1>16. QED
  BY <1>1, <1>2, <1>3, <1>4, <1>6, <1>7, <1>8, <1>9, <1>12, <1>13, <1>14, <1>15
  DEF Next, Camera

-----------------------------------------------------------------------------
(***************************************************************************)
(* The properties.                                                         *)
(***************************************************************************)

\* The inductive invariant.
IInv ==
    /\ TypeOK
    /\ OpTyped
    /\ Host
    /\ Ordered
    /\ RemainsFirst
    /\ Joined
    /\ Owed
    /\ InStep

LEMMA Inductive == IInv /\ [Next]_vars => IInv'
  BY TypeStep, HostStep, OrderedStep, RemainsFirstStep, JoinedStep, OwedStep,
     InStepStep
  DEF IInv

\* Whose the containers on their way are, and in which order they come.
THEOREM Invariance == Spec => []IInv
<1>1. Init => IInv
  BY TypeInit, HostInit, OrderedInit, RemainsFirstInit, JoinedInit, OwedInit,
     InStepInit
  DEF IInv, Init, OpTyped
<1>2. QED
  BY <1>1, Inductive, PTL DEF Spec

\* Until the first fault a command is written only when nothing of an earlier
\* call is left in the pipes or in the camera.
THEOREM OneAtATime == Spec => OneTransactionAtATime
<1>1. IInv /\ [Next]_vars =>
         [~failed /\ ~desynced /\ WriteCommand =>
            /\ outPipe = <<>> /\ camPc = "wait"
            /\ \A i \in 1..Len(inPipe) : inPipe[i].type = "EVENT"]_vars
  BY DEF IInv, InStep, Quiet, OnlyEvents, IsEvent, WriteCommand
<1>2. QED
  BY <1>1, Invariance, PTL DEF Spec, OneTransactionAtATime

\* A response taken in step is the call's own.
LEMMA OwnWhenInStep ==
    ASSUME TypeOK, InStep, ~failed, ~desynced, pc \in Reading,
           inPipe # <<>>, IsResponse(Head(inPipe))
    PROVE  Head(inPipe).tid = tid
<1>1. 1 \in 1..Len(inPipe) /\ Head(inPipe) = inPipe[1]
  BY TailElements DEF TypeOK
<1>2. Answered
  BY <1>1
  DEF InStep, OnItsWay, HalfTaken, BeingDone, OnlyEvents, IsEvent, IsResponse
<1>3. QED
  BY <1>1, <1>2 DEF Answered

\* What a call takes for its answer: the oldest RESPONSE coming, no newer than
\* the call's own and in step its own; or what is no RESPONSE, a container that
\* open_session or close_session discards or one made of remains.
TakesAnswer(r) ==
    /\ Return(r)
    /\ r \in Nat /\ Busy
    /\ got \in {NoTid, r}
    /\ r # NoTid => lastResp < r /\ r <= tid
    /\ desynced => r # tid
    /\ ~failed /\ ~desynced => r = tid \/ (r = NoTid /\ pc = "read_any")
    /\ Garbled(r) => got = NoTid
    /\ Garbled(r) \/ swallowed' \/ RemainsAround' => RemainsAround
    /\ swallowed' => failed

\* A call goes on after reading remains or what it takes to belong to them.
RunsIntoRemains ==
    /\ Busy /\ Busy' /\ RemainsAround /\ failed
    /\ desynced' = OutOfStep
    /\ UNCHANGED <<next_tid, result, failed, lastResp>>

\* A step that callers do not see.
Silent ==
    /\ Busy' = Busy /\ RemainsAround' = RemainsAround
    /\ UNCHANGED <<next_tid, result, failed, desynced, lastResp>>

\* With no remains in the pipe and no call running, none are around.
LEMMA NoneAround ==
    ASSUME TypeOK, RemainsFirst, Genuine, pc' = "idle"
    PROVE  ~RemainsAround'
<1>1. \A i \in 1..Len(inPipe') : ~IsRemains(inPipe'[i])
  BY PopRemains DEF Genuine
<1>2. inPipe' # <<>> => 1 \in 1..Len(inPipe') /\ Head(inPipe') = inPipe'[1]
  <2>1. Tail(inPipe) \in Seq(InContainers)
    BY TailElements DEF TypeOK, Genuine, Pops
  <2>2. inPipe' \in Seq(InContainers)
    BY <2>1 DEF Genuine
  <2>3. QED
    BY <2>2, TailElements
<1>3. QED
  BY <1>1, <1>2 DEF RemainsAround, Genuine

LEMMA AnswersAreTaken ==
    ASSUME IInv, pc \in Reading, Answers \/ Discards \/ Garbles
    PROVE  \E r \in Nat : TakesAnswer(r)
<1> USE DEF IInv
<1>1. /\ tid \in Nat /\ NoTid \in Nat /\ Busy /\ tid # NoTid
      /\ pc # "read_resp" => got = NoTid
      /\ swallowed => failed /\ RemainsAround
  BY DEF TypeOK, NoTid, Busy, Reading, Host, RemainsFirst, RemainsAround
<1>2. CASE Answers
  <2> DEFINE r == Head(inPipe).tid
  <2>1. /\ Genuine /\ Pops /\ UNCHANGED swallowed /\ IsResponse(Head(inPipe)) /\ Return(r)
        /\ pc' = "idle"
    BY <1>2 DEF Answers, Genuine, Return
  <2>2. inPipe # <<>> /\ Head(inPipe) = inPipe[1] /\ 1 \in 1..Len(inPipe) /\ r \in Nat
    BY <2>1, HeadTypes, TypeParts, TailElements DEF TypeOK, Pops
  <2>3. lastResp < r /\ r # NoTid
    BY <2>1, <2>2 DEF Ordered, TypeOK, NoTid
  <2>4. r <= tid
    <3>1. Coming(tid)
      BY <2>1, <2>2 DEF Owed, OwnAnswerComes, NothingComes
    <3>2. QED
      BY <1>1, <2>1, <2>2, <3>1, OldestFirst
  <2>5. got \in {NoTid, r}
    BY <1>1, <2>1, <2>2 DEF Joined
  <2>6. desynced => r # tid
    BY <1>1, <2>1, <2>2, NotItsOwn
  <2>7. ~failed /\ ~desynced => r = tid
    BY <2>1, <2>2, OwnWhenInStep
  <2> HIDE DEF r
  <2>8. Garbled(r) => got = NoTid /\ RemainsAround
    BY <2>3 DEF Garbled, RemainsAround
  <2>9. ~RemainsAround'
    BY <2>1, NoneAround
  <2>10. TakesAnswer(r)
    BY <1>1, <2>1, <2>2, <2>3, <2>4, <2>5, <2>6, <2>7, <2>8, <2>9 DEF TakesAnswer
  <2>11. QED
    BY <2>2, <2>10 DEF r
<1>3. CASE Discards
  <2>1. Genuine /\ UNCHANGED swallowed /\ pc = "read_any" /\ Return(NoTid) /\ pc' = "idle"
    BY <1>3 DEF Discards, Genuine, Return
  <2>2. ~Garbled(NoTid)
    BY <2>1 DEF Garbled
  <2>3. ~RemainsAround'
    BY <2>1, NoneAround
  <2>4. TakesAnswer(NoTid)
    BY <1>1, <2>1, <2>2, <2>3 DEF TakesAnswer
  <2>5. QED
    BY <1>1, <2>4
<1>4. CASE Garbles
  <2>1. Strays /\ Return(NoTid)
    BY <1>4 DEF Garbles
  <2>2. failed /\ got = NoTid
    BY <1>1, <2>1, NoStrays
  <2>3. RemainsAround
    BY <2>1 DEF Strays, Pops, RemainsAround
  <2>4. TakesAnswer(NoTid)
    BY <1>1, <2>1, <2>2, <2>3 DEF TakesAnswer
  <2>5. QED
    BY <1>1, <2>4
<1>5. QED
  BY <1>2, <1>3, <1>4

\* Every step is a call, an answer taken, a throw, or unseen by callers.
LEMMA Steps ==
    ASSUME IInv, [Next]_vars
    PROVE  \/ (\E o \in Ops : Call(o)) /\ RemainsAround' = RemainsAround
           \/ \E r \in Nat : TakesAnswer(r)
           \/ Throw /\ Busy /\ (swallowed' => RemainsAround)
           \/ RunsIntoRemains
           \/ Silent
<1> USE DEF IInv
<1>b. RemainsAround \in BOOLEAN /\ RemainsAround' \in BOOLEAN /\ Busy \in BOOLEAN
      /\ Busy' \in BOOLEAN
  BY DEF RemainsAround, Busy
<1>1. ASSUME NEW o \in Ops, Call(o) PROVE RemainsAround' = RemainsAround
  <2>1. /\ pc = "idle" /\ pc' = "write_cmd" /\ ~swallowed'
        /\ UNCHANGED <<inPipe, need>>
    BY <1>1 DEF Call
  <2>2. QED
    BY <1>b, <2>1 DEF RemainsAround
<1>2. CASE WriteCommand \/ WriteData
  <2>1. /\ pc \in Writing /\ pc' \in {"read", "read_any", "write_data"}
        /\ UNCHANGED <<inPipe, need, swallowed>>
        /\ UNCHANGED <<next_tid, result, failed, desynced, lastResp>>
    BY <1>2 DEF WriteCommand, WriteData, Writing, history
  <2>2. pc # "idle" /\ pc' # "idle" /\ pc # "read_resp" /\ pc' # "read_resp"
    BY <2>1 DEF Writing
  <2>3. QED
    BY <1>b, <2>1, <2>2 DEF Silent, RemainsAround, Busy
<1>3. CASE WriteError
  BY <1>3 DEF WriteError, RemainsFirst, Busy, Writing
<1>4. CASE Read \/ ReadTimeout \/ ReadError
  <2>1. /\ pc \in Reading /\ Busy /\ UNCHANGED <<next_tid, tid>>
        /\ Fails \/ Answers \/ Discards \/ Garbles \/ Skips \/ Wanders
    BY <1>4, Reads DEF TypeOK, Busy, Reading
  <2>2. Strays => RemainsAround
    BY DEF Strays, Pops, RemainsAround
  <2>3. swallowed => RemainsAround
    BY <2>1 DEF RemainsAround, Busy
  <2>4. CASE Fails
    BY <2>1, <2>2, <2>3, <2>4 DEF Fails
  <2>5. CASE Answers \/ Discards \/ Garbles
    BY <2>1, <2>5, AnswersAreTaken
  <2>6. CASE Skips
    <3>1. /\ Genuine /\ GoOn /\ pc = "read" /\ need = 0 /\ need' = 0
          /\ UNCHANGED swallowed
          /\ \/ pc' = "read"
             \/ pc' = "read_resp" /\ IsData(Head(inPipe)) /\ got' = Head(inPipe).tid
      BY <2>6 DEF Skips, Genuine
    <3>2. pc' = "read" \/ (pc' = "read_resp" /\ got' # NoTid)
      BY <3>1, PopRemains DEF Genuine
    <3>3. ~(inPipe # <<>> /\ IsRemains(Head(inPipe)))
      BY <3>1 DEF Genuine
    <3>4. ~(inPipe' # <<>> /\ IsRemains(Head(inPipe')))
      <4>1. Pops /\ inPipe' = Tail(inPipe)
        BY <3>1 DEF Genuine
      <4>2. inPipe' \in Seq(InContainers)
        BY <4>1, TailElements DEF TypeOK, Pops
      <4>3. inPipe' # <<>> => Head(inPipe') = inPipe'[1] /\ 1 \in 1..Len(inPipe')
        BY <4>2, TailElements
      <4>4. QED
        BY <4>1, <4>3, PopRemains
    <3>5. RemainsAround' = RemainsAround
      BY <1>b, <3>1, <3>2, <3>3, <3>4 DEF RemainsAround
    <3>6. Busy' = Busy
      BY <1>b, <2>1, <3>2 DEF Busy
    <3>7. UNCHANGED <<next_tid, result, failed, lastResp>> /\ desynced' = OutOfStep
      BY <3>1 DEF GoOn
    <3>8. desynced' = desynced
      <4>1. desynced => ~swallowed /\ desynced \in BOOLEAN
        BY <2>1 DEF RemainsFirst, TypeOK
      <4>2. QED
        BY <3>1, <3>7, <4>1 DEF OutOfStep, TypeOK
    <3>9. QED
      BY <3>5, <3>6, <3>7, <3>8 DEF Silent
  <2>7. CASE Wanders
    <3>1. Strays /\ GoOn /\ pc' \in Reading
      BY <2>1, <2>7 DEF Wanders, Reading
    <3>2. failed /\ RemainsAround /\ Busy'
      BY <2>2, <3>1, NoStrays DEF Busy, Reading
    <3>3. QED
      BY <2>1, <3>1, <3>2 DEF RunsIntoRemains, GoOn
  <2>8. QED
    BY <2>1, <2>4, <2>5, <2>6, <2>7
<1>5. CASE Camera \/ UNCHANGED vars
  <2>1. UNCHANGED <<pc, got, need, next_tid, result, failed, swallowed, desynced, lastResp>>
    BY <1>5 DEF Camera, CamTakeCommand, CamTakeData, CamAbandon, CamSendData,
                CamSendResponse, CamSendEvent, vars, hostVars, history
  <2>2. (inPipe' # <<>> /\ IsRemains(Head(inPipe')))
           <=> (inPipe # <<>> /\ IsRemains(Head(inPipe)))
    <3>1. ASSUME NEW c \in InContainers, ~IsRemains(c), inPipe' = Append(inPipe, c)
          PROVE  (inPipe' # <<>> /\ IsRemains(Head(inPipe')))
                    <=> (inPipe # <<>> /\ IsRemains(Head(inPipe)))
      <4>1. /\ inPipe' # <<>> /\ inPipe' \in Seq(InContainers)
            /\ \A i \in 1..Len(inPipe) : inPipe'[i] = inPipe[i]
            /\ inPipe'[Len(inPipe) + 1] = c
        BY <3>1, AppendElements DEF TypeOK
      <4>2. Head(inPipe') = inPipe'[1]
        BY <4>1, TailElements
      <4>3. CASE inPipe = <<>>
        BY <3>1, <4>1, <4>2, <4>3
      <4>4. CASE inPipe # <<>>
        <5>1. Head(inPipe) = inPipe[1] /\ 1 \in 1..Len(inPipe)
          BY <4>4, TailElements DEF TypeOK
        <5>2. QED
          BY <4>1, <4>2, <4>4, <5>1
      <4>5. QED
        BY <4>3, <4>4
    <3>2. /\ \A k \in {"DATA", "RESPONSE"} :
               /\ Container(k, camOp, camTid) \in InContainers
               /\ ~IsRemains(Container(k, camOp, camTid))
          /\ Container("EVENT", NoOp, NoTid) \in InContainers
          /\ ~IsRemains(Container("EVENT", NoOp, NoTid))
      BY DEF TypeOK, Container, InContainers, NoTid, IsRemains
    <3>3. \/ UNCHANGED inPipe
          \/ \E k \in {"DATA", "RESPONSE"} : Send(k)
          \/ inPipe' = Append(inPipe, Container("EVENT", NoOp, NoTid))
      BY <1>5 DEF Camera, CamTakeCommand, CamTakeData, CamAbandon, CamSendData,
                  CamSendResponse, CamSendEvent, vars
    <3>4. QED
      BY <3>1, <3>2, <3>3 DEF Send
  <2>3. QED
    BY <1>b, <2>1, <2>2 DEF Silent, RemainsAround, Busy
<1>6. QED
  BY <1>1, <1>2, <1>3, <1>4, <1>5 DEF Next

\* What callers are told is right: the two invariants about result.
Told == DesyncLastsUntilSwallowed /\ AnswerIsWhole

LEMMA ToldInit == Init => Told
  BY DEF Init, Told, DesyncLastsUntilSwallowed, AnswerIsWhole

LEMMA ToldStep == IInv /\ Told /\ [Next]_vars => Told'
<1> SUFFICES ASSUME IInv, Told, [Next]_vars PROVE Told'
  OBVIOUS
<1> USE DEF Told, DesyncLastsUntilSwallowed, AnswerIsWhole
<1>1. Busy => tid # NoTid
  BY DEF IInv, TypeOK, Host, NoTid
<1>2. CASE \E o \in Ops : Call(o)
  BY <1>2 DEF Call
<1>3. ASSUME NEW r \in Nat, TakesAnswer(r) PROVE Told'
  <2>1. /\ result'.tid = tid /\ result'.resp = r /\ result'.data = got
        /\ desynced' => OutOfStep \/ r # tid
    BY <1>3 DEF TakesAnswer, Return
  <2>2. OutOfStep => r # tid
    BY <1>3 DEF TakesAnswer, OutOfStep
  <2>3. got \in {NoTid, r}
    BY <1>3 DEF TakesAnswer
  <2>4. QED
    BY <2>1, <2>2, <2>3
<1>4. CASE Throw /\ Busy
  BY <1>1, <1>4 DEF Throw
<1>5. CASE RunsIntoRemains \/ Silent
  <2>1. UNCHANGED result /\ (desynced' => desynced)
    <3>1. CASE RunsIntoRemains
      BY <3>1 DEF RunsIntoRemains, OutOfStep
    <3>2. CASE Silent
      BY <3>2 DEF Silent
    <3>3. QED
      BY <1>5, <3>1, <3>2
  <2>2. QED
    BY <2>1
<1>6. QED
  BY <1>2, <1>3, <1>4, <1>5, Steps

\* The first answer given to the wrong caller has a cause the caller can see:
\* a throw, or an event taken for the answer of open_session or close_session.
THEOREM InSync == Spec => OnlyFaultsDesync
<1>1. IInv /\ [Next]_vars =>
         [~failed /\ ~desynced /\ desynced' =>
            pc = "read_any" /\ result'.resp = NoTid]_vars
  <2> SUFFICES ASSUME IInv, [Next]_vars, ~failed, ~desynced, desynced'
               PROVE  pc = "read_any" /\ result'.resp = NoTid
    OBVIOUS
  <2>1. PICK r \in Nat : TakesAnswer(r)
    BY Steps DEF Call, Throw, Silent, RunsIntoRemains, OutOfStep
  <2>2. r # tid /\ result'.resp = r
    BY <2>1 DEF TakesAnswer, Return, OutOfStep
  <2>3. QED
    BY <2>1, <2>2 DEF TakesAnswer
<1>2. QED
  BY <1>1, Invariance, PTL DEF Spec, OnlyFaultsDesync

\* After a mix-up no caller is given its own response, until a read takes
\* remains for a header and goes on beyond them.
THEOREM DesyncLasts == Spec => []DesyncLastsUntilSwallowed
  BY ToldInit, ToldStep, Invariance, PTL DEF Spec, Told

\* The data handed to a caller always belongs to the response it came with,
\* unless the answer was made of remains.
THEOREM WholeAnswers == Spec => []AnswerIsWhole
  BY ToldInit, ToldStep, Invariance, PTL DEF Spec, Told

-----------------------------------------------------------------------------
(***************************************************************************)
(* PtpTransaction implements CallContract.                                 *)
(***************************************************************************)

LEMMA ContractInit == Init => Contract!Init
  BY DEF Init, Contract!Init, RemainsAround, NoTid

LEMMA ContractStep == IInv /\ [Next]_vars => [Contract!Next]_(Contract!vars)
<1> SUFFICES ASSUME IInv, [Next]_vars
             PROVE  Contract!Next \/ UNCHANGED Contract!vars
  OBVIOUS
<1>1. /\ next_tid \in Nat /\ MaxCalls \in Nat /\ tid \in Nat
      /\ lastResp \in Nat /\ failed \in BOOLEAN /\ desynced \in BOOLEAN
      /\ RemainsAround \in BOOLEAN /\ RemainsAround' \in BOOLEAN
  BY PtpAssumption DEF IInv, TypeOK, RemainsAround
<1>2. pc # "idle" => tid = next_tid - 1 /\ tid > 0
  BY DEF IInv, Host, Busy, NoTid
<1>3. ASSUME NEW o \in Ops, Call(o), RemainsAround' = RemainsAround
      PROVE  Contract!Next
  <2>1. Contract!Begin
    BY <1>1, <1>3 DEF Call, Contract!Begin
  <2>2. QED
    BY <2>1 DEF Contract!Next
<1>4. ASSUME NEW r \in Nat, TakesAnswer(r) PROVE Contract!Next
  <2>1. /\ pc # "idle" /\ pc' = "idle" /\ UNCHANGED <<next_tid, failed>>
        /\ result' = [status |-> IF Garbled(r) THEN "garbled" ELSE "ok",
                      tid |-> tid, resp |-> r, data |-> got]
        /\ desynced' = (OutOfStep \/ (r # tid /\ ~(swallowed' /\ r = 0)))
        /\ lastResp' = IF r = 0 THEN lastResp ELSE r
    <3>1. Return(r) /\ Busy
      BY <1>4 DEF TakesAnswer
    <3>2. pc # "idle" /\ pc' = "idle" /\ UNCHANGED <<next_tid, failed>>
      BY <3>1 DEF Return, Busy
    <3>3. result' = [status |-> IF Garbled(r) THEN "garbled" ELSE "ok",
                     tid |-> tid, resp |-> r, data |-> got]
      BY <3>1 DEF Return
    <3>4. desynced' = (OutOfStep \/ (r # tid /\ ~(swallowed' /\ r = 0)))
      BY <3>1 DEF Return, NoTid
    <3>5. lastResp' = IF r = 0 THEN lastResp ELSE r
      BY <3>1 DEF Return, NoTid
    <3>6. QED
      BY <3>2, <3>3, <3>4, <3>5
  <2>2. /\ got \in {0, r} /\ (r # 0 => lastResp < r /\ r <= tid)
        /\ Garbled(r) => got = 0 /\ RemainsAround
        /\ swallowed' => RemainsAround /\ failed
        /\ RemainsAround' \in {RemainsAround, FALSE}
        /\ desynced => r # tid
    BY <1>1, <1>4 DEF TakesAnswer, NoTid
  <2>3. Contract!End(r)
    <3>1. CASE Garbled(r)
      BY <1>2, <2>1, <2>2, <3>1 DEF Contract!End, Contract!Clear
    <3>2. CASE ~Garbled(r)
      BY <1>2, <2>1, <2>2, <3>2 DEF Contract!End, Contract!Clear
    <3>3. QED
      BY <3>1, <3>2
  <2>4. CASE r = tid
    <3>1. ~desynced /\ ~desynced'
      BY <2>1, <2>2, <2>4 DEF OutOfStep
    <3>2. Contract!ReturnOwn
      BY <1>1, <1>2, <2>1, <2>2, <2>3, <2>4, <3>1 DEF Contract!ReturnOwn
    <3>3. QED
      BY <3>2 DEF Contract!Next
  <2>5. CASE r # tid /\ r = 0
    <3>1. ~RemainsAround => desynced'
      BY <2>1, <2>2, <2>5
    <3>2. ~desynced' => failed'
      BY <2>1, <2>2, <2>5
    <3>3. Contract!ReturnNothing
      BY <2>1, <2>3, <2>5, <3>1, <3>2 DEF Contract!ReturnNothing
    <3>4. QED
      BY <3>3 DEF Contract!Next
  <2>6. CASE r # tid /\ r # 0
    <3>1. failed \/ desynced
      BY <1>1, <1>4, <2>6 DEF TakesAnswer, NoTid
    <3>2. r \in (lastResp + 1)..(next_tid - 1 - 1)
      BY <1>1, <1>2, <2>1, <2>2, <2>6
    <3>3. desynced' /\ lastResp' = r
      BY <2>1, <2>6
    <3>4. Contract!ReturnLeftOver
      BY <2>3, <3>1, <3>2, <3>3 DEF Contract!ReturnLeftOver
    <3>5. QED
      BY <3>4 DEF Contract!Next
  <2>7. QED
    BY <2>4, <2>5, <2>6
<1>5. CASE Throw /\ Busy /\ (swallowed' => RemainsAround)
  <2>1. /\ pc # "idle" /\ pc' = "idle" /\ UNCHANGED <<next_tid, lastResp>> /\ failed'
        /\ result' = [status |-> "threw", tid |-> tid, resp |-> 0, data |-> 0]
        /\ desynced' = OutOfStep
    BY <1>5 DEF Throw, Busy, NoTid
  <2>2. /\ desynced' => desynced
        /\ desynced /\ ~desynced' => RemainsAround
    BY <1>5, <2>1 DEF OutOfStep
  <2>3. Contract!Throw
    BY <1>1, <1>2, <2>1, <2>2 DEF Contract!Throw
  <2>4. QED
    BY <2>3 DEF Contract!Next
<1>6. CASE RunsIntoRemains
  <2>1. /\ pc # "idle" /\ pc' # "idle" /\ RemainsAround /\ failed
        /\ desynced' => desynced
        /\ UNCHANGED <<next_tid, result, failed, lastResp>>
    BY <1>6 DEF RunsIntoRemains, Busy, OutOfStep
  <2>2. Contract!RunIntoRemains
    BY <1>1, <2>1 DEF Contract!RunIntoRemains
  <2>3. QED
    BY <2>2 DEF Contract!Next
<1>7. CASE Silent
  BY <1>7 DEF Silent, Busy, Contract!vars
<1>8. QED
  BY <1>3, <1>4, <1>5, <1>6, <1>7, Steps

\* Every behaviour of the client and the camera is one the contract allows.
THEOREM Refinement == Spec => ImplementsContract
<1>1. Spec => Contract!Init /\ [][Contract!Next]_(Contract!vars)
  BY ContractInit, ContractStep, Invariance, PTL DEF Spec
<1>2. QED
  BY <1>1 DEF ImplementsContract, Contract!Spec

=============================================================================
