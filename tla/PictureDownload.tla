--------------------------- MODULE PictureDownload ---------------------------
(***************************************************************************)
(* Getting a picture out of the camera (src/sigma/sigma_ptp.cpp):          *)
(* get_object_vendor, which fetches it part by part, and get_latest_image, *)
(* which either waits for the camera to announce a new object and fetches  *)
(* that, or calls get_object_vendor.  Each transaction with the camera is  *)
(* a step; between two of them pictures are taken and deleted.             *)
(*                                                                         *)
(* A byte of a picture is the pair of the picture and its position, so     *)
(* that a hole, a repetition or a mixture shows.                           *)
(***************************************************************************)
EXTENDS Integers, Sequences

CONSTANTS
    Handles,        \* object handles the camera may give to pictures
    Size,           \* of each of them, the size of its file
    WordSize,       \* how many values a uint32_t has
    Chunks,         \* chunk sizes callers of get_object_vendor pass
    DefaultChunk,   \* the chunk size if they pass none: 1 MiB in the code
    LatestArg,      \* what get_latest_image passes: 128 KiB in the code
    Tries,          \* polls of wait_object_added: timeout / poll interval
    Excess,         \* bound: bytes by which AcquiredSize may exceed a request
    EventCap,       \* events the camera can have waiting on the interrupt pipe
    MaxCalls        \* bound: calls the application makes

ASSUME DownloadAssumption ==
    /\ WordSize \in Nat \ {0}
    /\ Handles \subseteq Nat
    /\ Size \in [Handles -> 0..(WordSize - 1)]
    /\ Chunks \subseteq 0..(WordSize - 1)
    /\ DefaultChunk \in 0..(WordSize - 1)
    /\ LatestArg \in Nat
    /\ Tries \in Nat
    /\ Excess \in Nat
    /\ EventCap \in Nat
    /\ MaxCalls \in Nat

-----------------------------------------------------------------------------

\* uint32_t arithmetic.
Add32(a, b) == IF a + b < WordSize THEN a + b ELSE a + b - WordSize
Sub32(a, b) == IF b <= a THEN a - b ELSE a - b + WordSize

Least(a, b) == IF a <= b THEN a ELSE b

\* The bytes of picture h that start after the first `from'.
Bytes(h, from, n) == [k \in 1..n |-> <<h, from + k>>]

NoPicture == -1

VARIABLES
    stored,     \* pictures in the camera
    added,      \* history: pictures in the order they were announced
    events,     \* interrupt pipe: a handle for ObjectAdded, NoPicture otherwise
    pc,         \* where the running call is
    asked,      \* the object handle it was given
    latest,     \* whether it is get_latest_image
    subject,    \* the picture whose FileAddress it holds
    chunk, start, left, out,    \* locals of get_object_vendor
    turn,       \* flips with every turn of the loop, so that each one is a step
    tries,      \* polls that wait_object_added has left
    short,      \* history: the camera sent this call less than it asked for
    excess,     \* history: the camera claimed to have acquired more than that
    outcome,    \* how the last call ended
    taken,      \* history: handles returned by wait_object_added, in order
    calls       \* bound: calls made

camera == <<stored, added>>
locals == <<asked, latest, subject, chunk, start, left, out, turn, short,
            excess>>
vars == <<camera, events, pc, locals, tries, outcome, taken, calls>>

Words == 0..(WordSize - 1)

\* Every variable has its type.
TypeOK ==
    /\ stored \subseteq Handles
    /\ added \in Seq(Handles)
    /\ events \in Seq(Handles \cup {NoPicture})
    /\ pc \in {"idle", "info", "part", "wait", "object"}
    /\ asked \in Nat
    /\ latest \in BOOLEAN
    /\ subject \in Handles \cup {NoPicture}
    /\ chunk \in Words /\ start \in Words /\ left \in Words
    /\ out \in Seq(Handles \X Nat)
    /\ turn \in BOOLEAN
    /\ tries \in 0..Tries
    /\ short \in BOOLEAN /\ excess \in BOOLEAN
    /\ outcome \in {"none", "ok", "threw"}
    /\ taken \in Seq(Handles)
    /\ calls \in 0..MaxCalls

Init ==
    /\ stored = {} /\ added = <<>> /\ events = <<>>
    /\ pc = "idle"
    /\ asked = 0 /\ latest = FALSE /\ subject = NoPicture
    /\ chunk = 0 /\ start = 0 /\ left = 0 /\ out = <<>>
    /\ turn = FALSE /\ short = FALSE /\ excess = FALSE
    /\ tries = 0
    /\ outcome = "none" /\ taken = <<>> /\ calls = 0

-----------------------------------------------------------------------------
(***************************************************************************)
(* get_object_vendor.                                                      *)
(***************************************************************************)

Begin(next, h, c, isLatest) ==
    /\ pc = "idle"
    /\ calls < MaxCalls
    /\ calls' = calls + 1
    /\ pc' = next
    /\ asked' = h /\ chunk' = c /\ latest' = isLatest
    /\ subject' = NoPicture /\ start' = 0 /\ left' = 0 /\ out' = <<>>
    /\ turn' = FALSE /\ short' = FALSE /\ excess' = FALSE

End(o) == pc' = "idle" /\ outcome' = o

GetObjectVendor(h, c) ==
    /\ Begin("info", h, c, FALSE)
    /\ UNCHANGED <<camera, events, tries, outcome, taken>>

\* get_pict_file_info2(object_handle): the camera answers for that picture, or,
\* with a handle it does not know, for its newest, or sends no data, which
\* decode() refuses.
Described(h) ==
    IF h \in stored THEN {h} ELSE {p \in stored : added # <<>> /\ p = added[Len(added)]}

Info ==
    /\ pc = "info"
    /\ \/ \E p \in Described(asked) :
            /\ subject' = p
            /\ left' = Size[p]
            /\ IF Size[p] = 0 THEN End("ok") ELSE pc' = "part" /\ UNCHANGED outcome
       \/ End("threw") /\ UNCHANGED <<subject, left>>
    /\ UNCHANGED <<camera, events, asked, latest, chunk, start, out, turn, short,
                   excess, tries, taken, calls>>

Request == Least(chunk, left)

\* What the camera has to send: nothing once the picture is gone.
Available == IF subject \in stored /\ start < Size[subject] THEN Size[subject] - start ELSE 0

\* Variant: a short part does not end the loop.
PartKeepsGoing(a, n) ==
    IF a = 0 \/ n = 0
    THEN End("ok") /\ UNCHANGED <<out, start, left>>
    ELSE /\ out' = out \o Bytes(subject, start, n)
         /\ start' = Add32(start, a)
         /\ left' = Sub32(left, a)
         /\ IF left' = 0 THEN End("ok") ELSE UNCHANGED <<pc, outcome>>

\* Variant: what is left goes down by the bytes that came, not by AcquiredSize.
PartCountsBytes(a, n) ==
    IF a = 0 \/ n = 0
    THEN End("ok") /\ UNCHANGED <<out, start, left>>
    ELSE /\ out' = out \o Bytes(subject, start, n)
         /\ start' = Add32(start, a)
         /\ left' = Sub32(left, n)
         /\ IF n < Request \/ left' = 0 THEN End("ok") ELSE UNCHANGED <<pc, outcome>>

\* Variant: a part as long as the request ends the loop too.
PartStopsWhenFull(a, n) ==
    IF a = 0 \/ n = 0
    THEN End("ok") /\ UNCHANGED <<out, start, left>>
    ELSE /\ out' = out \o Bytes(subject, start, n)
         /\ start' = Add32(start, a)
         /\ left' = Sub32(left, a)
         /\ IF n <= Request \/ left' = 0 THEN End("ok") ELSE UNCHANGED <<pc, outcome>>

\* Variant: a part without bytes does not end the loop.
PartNeverEmpty(a, n) ==
    /\ out' = out \o Bytes(subject, start, n)
    /\ start' = Add32(start, a)
    /\ left' = Sub32(left, a)
    /\ IF left' = 0 THEN End("ok") ELSE UNCHANGED <<pc, outcome>>

\* One turn of the loop, given AcquiredSize a and n bytes of PartialData.
TakePart(a, n) ==
    IF a = 0 \/ n = 0
    THEN End("ok") /\ UNCHANGED <<out, start, left>>
    ELSE /\ out' = out \o Bytes(subject, start, n)
         /\ start' = Add32(start, a)
         /\ left' = Sub32(left, a)
         /\ IF n < Request \/ left' = 0 THEN End("ok") ELSE UNCHANGED <<pc, outcome>>

\* get_big_partial_pict_file(addr, start, req): the camera acquires less than it
\* was asked for, or more, and sends as much as that or less: decode() keeps
\* what is there, and no more than AcquiredSize.  Without data at all decode()
\* throws, as a failed transaction does.
Part ==
    /\ pc = "part"
    /\ \/ \E a \in 0..Least(Request + Excess, WordSize - 1), n \in 0..Available :
            /\ n <= a
            /\ TakePart(a, n)
            /\ turn' = ~turn
            /\ short' = (short \/ n < Request)
            /\ excess' = (excess \/ a > Request)
       \/ End("threw") /\ UNCHANGED <<out, start, left, turn, short, excess>>
    /\ UNCHANGED <<camera, events, asked, latest, subject, chunk, tries, taken, calls>>

-----------------------------------------------------------------------------
(***************************************************************************)
(* get_latest_image, and the wait_object_added it rests on.                *)
(***************************************************************************)

\* DestToSave other than InComputer: get_object_vendor(128 * 1024), which is
\* its object handle; the chunk size is the default.
LatestInCamera ==
    /\ Begin("info", LatestArg, DefaultChunk, TRUE)
    /\ UNCHANGED <<camera, events, tries, outcome, taken>>

LatestInComputer ==
    /\ Begin("wait", 0, 0, TRUE)
    /\ tries' = Tries
    /\ UNCHANGED <<camera, events, outcome, taken>>

\* Variant: the handle of an announced object is read off the next event.
WaitSkips ==
    /\ pc = "wait"
    /\ tries > 0
    /\ Len(events) > 1
    /\ events' = Tail(Tail(events))
    /\ IF events[2] # NoPicture
       THEN /\ pc' = "object" /\ subject' = events[2]
            /\ taken' = Append(taken, events[2])
            /\ UNCHANGED tries
       ELSE tries' = tries - 1 /\ UNCHANGED <<pc, subject, taken>>
    /\ UNCHANGED <<camera, asked, latest, chunk, start, left, out, turn, short,
                   excess, outcome, calls>>

\* One poll of the interrupt pipe: an event, or nothing within the interval.
\* Events other than ObjectAdded, short ones among them, are dropped.
WaitPoll ==
    /\ pc = "wait"
    /\ tries > 0
    /\ IF events # <<>> /\ Head(events) # NoPicture
       THEN /\ pc' = "object" /\ subject' = Head(events)
            /\ taken' = Append(taken, Head(events))
            /\ UNCHANGED tries
       ELSE tries' = tries - 1 /\ UNCHANGED <<pc, subject, taken>>
    /\ events' = IF events = <<>> THEN events ELSE Tail(events)
    /\ UNCHANGED <<camera, asked, latest, chunk, start, left, out, turn, short,
                   excess, outcome, calls>>

\* The polls are used up: an empty image is returned, no error.
WaitGivesUp ==
    /\ pc = "wait"
    /\ tries = 0
    /\ End("ok")
    /\ UNCHANGED <<camera, events, locals, tries, taken, calls>>

\* read_intr() fails otherwise than by a timeout.
WaitError ==
    /\ pc = "wait"
    /\ End("threw")
    /\ UNCHANGED <<camera, events, locals, tries, taken, calls>>

\* get_object(handle): the whole picture; or, its response code being ignored,
\* nothing when the picture is gone.
GetObject ==
    /\ pc = "object"
    /\ \/ /\ out' = IF subject \in stored THEN Bytes(subject, 0, Size[subject]) ELSE <<>>
          /\ short' = (subject \notin stored)
          /\ End("ok")
       \/ End("threw") /\ UNCHANGED <<out, short>>
    /\ UNCHANGED <<camera, events, asked, latest, subject, chunk, start, left,
                   turn, excess, tries, taken, calls>>

-----------------------------------------------------------------------------
(***************************************************************************)
(* The camera, external.                                                   *)
(***************************************************************************)

\* A picture is taken and announced; its handle is new.
TakePicture(h) ==
    /\ \A k \in DOMAIN added : added[k] # h
    /\ Len(events) < EventCap
    /\ stored' = stored \cup {h}
    /\ added' = Append(added, h)
    /\ events' = Append(events, h)
    /\ UNCHANGED <<pc, locals, tries, outcome, taken, calls>>

OtherEvent ==
    /\ Len(events) < EventCap
    /\ events' = Append(events, NoPicture)
    /\ UNCHANGED <<camera, pc, locals, tries, outcome, taken, calls>>

Delete(h) ==
    /\ h \in stored
    /\ stored' = stored \ {h}
    /\ UNCHANGED <<added, events, pc, locals, tries, outcome, taken, calls>>

-----------------------------------------------------------------------------

\* What the application asks for: a picture it knows of, deleted or not.
Asked == {added[k] : k \in DOMAIN added}

Step == Info \/ Part \/ WaitPoll \/ WaitGivesUp \/ WaitError \/ GetObject

Next ==
    \/ \E h \in Asked, c \in Chunks \cup {DefaultChunk} : GetObjectVendor(h, c)
    \/ LatestInCamera \/ LatestInComputer
    \/ Step
    \/ OtherEvent
    \/ \E h \in Handles : TakePicture(h) \/ Delete(h)

Spec == Init /\ [][Next]_vars

\* The calling thread runs; reads and sleeps end.
FairSpec == Spec /\ WF_vars(Step)

-----------------------------------------------------------------------------
(***************************************************************************)
(* Properties.                                                             *)
(***************************************************************************)

\* Whenever another part is asked for, the two counters add up to the size of
\* the file, and start is what was collected: neither has wrapped, however the
\* parts were cut.  A camera that claims more than was left makes left wrap: they
\* then add up to the size and one word more, which puts start past the end of the
\* file, where the camera has nothing to send (or start has wrapped as well, and
\* they add up to the size).
CountersAddUp ==
    pc = "part" =>
        /\ left > 0
        /\ start + left \in {Size[subject], Size[subject] + WordSize}
        /\ ~excess => start = Len(out) /\ start + left = Size[subject]

\* Whatever parts come short or are lost with the picture, the bytes collected
\* are the beginning of one picture, the one described at the start: no holes,
\* no repetitions, no mixture.  A camera that claims more than it was asked for
\* makes holes.
PrefixOfPicture ==
    ~excess =>
        /\ out = Bytes(subject, 0, Len(out))
        /\ out # <<>> => Len(out) <= Size[subject]

\* A call that returns normally with bytes missing from the picture it found has
\* been sent less than it asked for, or was told that it had been sent more: the
\* loop itself never stops early, although its caller is not told of any.  A
\* caller that asks for chunks of no bytes gets none.
WholeUnlessShort ==
    pc = "idle" /\ outcome = "ok" /\ subject # NoPicture /\ ~short /\ ~excess =>
        Len(out) = Size[subject] \/ (chunk = 0 /\ out = <<>>)

\* The waits hand out the announced pictures in the order of their announcement,
\* none twice and none passed over, over any number of timeouts between them.
AnnouncedInOrder ==
    taken = SubSeq(added, 1, Len(taken)) /\ Len(taken) <= Len(added)

\* Every call returns or throws, however the camera cuts the parts and also when
\* it claims so much that left wraps.
CallTerminates == pc # "idle" ~> pc = "idle"

=============================================================================
