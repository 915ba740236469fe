---------------------------- MODULE MCTransports ----------------------------
(***************************************************************************)
(* CameraPTP reads through a reference to a Transport: a USBTransport or,  *)
(* in the tests, a FakeTransport.  This instance checks both for TLC, one  *)
(* in each behaviour.                                                      *)
(***************************************************************************)
EXTENDS ContainerFraming

\* The fake is checked with sizes of its own.
CONSTANTS
    FakeHeaderLen, FakeBufSize, FakeLengths, FakeJunkLengths, FakeStrayLimit,
    FakeTidMod, FakeMaxQueued, FakeMaxCalls

VARIABLES
    transport,      \* which one CameraPTP was made with
    rx, last_txn, writes, next_tid, fake_pc, tid, phase, guard, data, fake_have,
    header, result, queued, calls, small

Fake == INSTANCE FakeTransport
            WITH HeaderLen <- FakeHeaderLen, BufSize <- FakeBufSize,
                 Lengths <- FakeLengths, JunkLengths <- FakeJunkLengths,
                 StrayLimit <- FakeStrayLimit, TidMod <- FakeTidMod,
                 MaxQueued <- FakeMaxQueued, MaxCalls <- FakeMaxCalls,
                 pc <- fake_pc, have <- fake_have

ASSUME TransportsAssumption == Fake!FakeAssumption

fakeVars ==
    <<rx, last_txn, writes, next_tid, fake_pc, tid, phase, guard, data, fake_have,
      header, result, queued, calls, small>>

UsbInit == transport = "usb" /\ Init /\ Fake!Init
FakeInit == transport = "fake" /\ Init /\ Fake!Init

UsbNext == transport = "usb" /\ Next /\ UNCHANGED <<transport, fakeVars>>
FakeNext == transport = "fake" /\ Fake!Next /\ UNCHANGED <<transport, vars>>

EitherSpec ==
    /\ UsbInit \/ FakeInit
    /\ [][UsbNext \/ FakeNext]_<<transport, vars, fakeVars>>
    /\ Fairness
    /\ Fake!Fairness

\* On the fake each call gets an answer that is its own: an OK to its own command,
\* or the first of what was queued, whole, and of a queue that fits in one read
\* nothing else; and neither the fake nor the reader ever holds more than is typed.
FakeAnswers ==
    /\ Fake!OnlyTheFirst
    /\ []Fake!OwnOk
    /\ []Fake!QueuedDataIsWhole
    /\ [](Fake!TypeOK /\ TypeOK)

\* Whatever the transport, "short PTP header" has the causes named in its module:
\* the empty packet of a container that filled the buffers exactly, less than a
\* header in the queue of a test, or a transaction id of 0.
ShortHeaderCauses == ShortHeaderCause /\ Fake!UnansweredCause

\* Whatever the transport, a call ends: read_full_container_ by the timeout of its
\* reads, a call on the fake by the OKs that fill it up, unless its id is 0.
CallsEnd == ReadEnds /\ Fake!CallEnds

=============================================================================
