----------------------- MODULE PictureDownloadProofs -----------------------
(***************************************************************************)
(* The download loop, for pictures, chunks and words of any size: what it  *)
(* collects is a prefix of the picture, and all of it unless the camera    *)
(* sent less than asked.  What makes it so is that the three locals agree: *)
(* start is the length of out, and start + left is the size of the file;   *)
(* with a camera that claims more than it was asked for, only the last,    *)
(* and modulo the word.                                                    *)
(* And the waits of get_latest_image, for a pipe of any length: they hand  *)
(* out what was announced, in order.                                       *)
(***************************************************************************)
EXTENDS PictureDownload, SequenceTheorems, TLAPS

\* What the locals say while the loop runs.
LoopAgrees ==
    pc = "part" =>
        /\ subject \in Handles
        /\ ~excess /\ chunk = 0 => out = <<>>

\* What they say before it, and in get_latest_image's other way.
NothingYet ==
    /\ pc \in {"info", "wait"} => subject = NoPicture /\ start = 0 /\ out = <<>>
    /\ pc = "object" => subject \in Handles /\ out = <<>>

IInv ==
    /\ TypeOK /\ CountersAddUp /\ LoopAgrees /\ NothingYet
    /\ PrefixOfPicture /\ WholeUnlessShort

-----------------------------------------------------------------------------

LEMMA NoPictureIsNone == NoPicture \notin Handles /\ NoPicture \notin Nat
  BY DownloadAssumption DEF DownloadAssumption, NoPicture

\* A file's size is a word, and zero is one.
LEMMA SizeIsWord ==
    /\ \A h \in Handles : Size[h] \in Words /\ Size[h] \in Nat
    /\ 0 \in Words
    /\ Words \subseteq Nat
  BY DownloadAssumption DEF DownloadAssumption, Words

\* The bytes of a picture are typed.
LEMMA BytesType ==
    ASSUME NEW h \in Handles, NEW from \in Nat, NEW n \in Nat
    PROVE  Bytes(h, from, n) \in Seq(Handles \X Nat) /\ Len(Bytes(h, from, n)) = n
  BY DEF Bytes

\* What follows a prefix makes a longer prefix.
LEMMA PrefixGrows ==
    ASSUME NEW h, NEW k \in Nat, NEW n \in Nat
    PROVE  Bytes(h, 0, k) \o Bytes(h, k, n) = Bytes(h, 0, k + n)
<1>1. Bytes(h, 0, k) \in Seq({h} \X Nat) /\ Len(Bytes(h, 0, k)) = k
  BY DEF Bytes
<1>2. Bytes(h, k, n) \in Seq({h} \X Nat) /\ Len(Bytes(h, k, n)) = n
  BY DEF Bytes
<1>3. Bytes(h, 0, k + n) \in Seq({h} \X Nat) /\ Len(Bytes(h, 0, k + n)) = k + n
  BY DEF Bytes
<1> DEFINE both == Bytes(h, 0, k) \o Bytes(h, k, n)
<1>4. /\ both \in Seq({h} \X Nat) /\ Len(both) = k + n
      /\ \A j \in 1..(k + n) :
            both[j] = IF j <= k THEN Bytes(h, 0, k)[j] ELSE Bytes(h, k, n)[j - k]
  <2>1. /\ both \in Seq({h} \X Nat)
        /\ Len(both) = Len(Bytes(h, 0, k)) + Len(Bytes(h, k, n))
        /\ \A j \in 1..Len(Bytes(h, 0, k)) + Len(Bytes(h, k, n)) :
              both[j] = IF j <= Len(Bytes(h, 0, k))
                        THEN Bytes(h, 0, k)[j]
                        ELSE Bytes(h, k, n)[j - Len(Bytes(h, 0, k))]
    <3> HIDE DEF both
    <3>1. both = Bytes(h, 0, k) \o Bytes(h, k, n)
      BY DEF both
    <3>2. QED
      BY <1>1, <1>2, <3>1, ConcatProperties, Zenon
  <2>2. QED
    BY <1>1, <1>2, <2>1
<1>5. ASSUME NEW j \in 1..(k + n)
      PROVE  both[j] = Bytes(h, 0, k + n)[j]
  <2>1. CASE j <= k
    <3>1. both[j] = Bytes(h, 0, k)[j]
      BY <1>4, <2>1
    <3>2. Bytes(h, 0, k)[j] = <<h, 0 + j>> /\ Bytes(h, 0, k + n)[j] = <<h, 0 + j>>
      BY <2>1 DEF Bytes
    <3>3. QED
      BY <3>1, <3>2
  <2>2. CASE ~(j <= k)
    <3>1. both[j] = Bytes(h, k, n)[j - k]
      BY <1>4, <2>2
    <3>2. j - k \in 1..n /\ k + (j - k) = 0 + j
      BY <2>2
    <3>3. Bytes(h, k, n)[j - k] = <<h, k + (j - k)>> /\ Bytes(h, 0, k + n)[j] = <<h, 0 + j>>
      BY <3>2 DEF Bytes
    <3>4. QED
      BY <3>1, <3>2, <3>3
  <2>3. QED
    BY <2>1, <2>2
<1> HIDE DEF both
<1>6. both = Bytes(h, 0, k + n)
  BY <1>3, <1>4, <1>5, SeqEqual
<1>7. QED
  BY <1>6 DEF both

\* The empty prefix.
LEMMA EmptyPrefix == \A h : Bytes(h, 0, 0) = <<>>
  BY DEF Bytes

\* A request is a word, no more than what is left; it is zero only if the chunk is.
LEMMA RequestBound ==
    ASSUME chunk \in Nat, left \in Nat, left > 0
    PROVE  /\ Request \in Nat
           /\ Request <= left
           /\ Request = 0 => chunk = 0
           /\ chunk = 0 => Request = 0
  BY DEF Request, Least

-----------------------------------------------------------------------------

LEMMA InitIInv == Init => IInv
<1> SUFFICES ASSUME Init
             PROVE  IInv
  OBVIOUS
<1>1. TypeOK
  <2>1. 0 \in Words /\ 0 \in 0..Tries /\ 0 \in 0..MaxCalls
    BY SizeIsWord, DownloadAssumption DEF DownloadAssumption
  <2>2. QED
    BY <2>1, EmptySeq DEF Init, TypeOK
<1>2. PrefixOfPicture
  BY EmptyPrefix DEF Init, PrefixOfPicture
<1>3. CountersAddUp /\ LoopAgrees /\ NothingYet /\ WholeUnlessShort
  BY DEF Init, CountersAddUp, LoopAgrees, NothingYet, WholeUnlessShort
<1>4. QED
  BY <1>1, <1>2, <1>3 DEF IInv

\* A call begins.
LEMMA BeginStep ==
    ASSUME IInv,
           NEW next \in {"info", "wait"}, NEW h \in Nat, NEW c \in Words,
           NEW l \in BOOLEAN,
           Begin(next, h, c, l), UNCHANGED <<camera, events, outcome, taken>>,
           tries' \in 0..Tries
    PROVE  IInv'
<1> USE DEF IInv
<1>1. TypeOK'
  <2>1. calls' \in 0..MaxCalls
    BY DownloadAssumption DEF TypeOK, Begin, DownloadAssumption
  <2>2. 0 \in Words /\ chunk' \in Words /\ asked' \in Nat /\ latest' \in BOOLEAN
    BY SizeIsWord DEF Begin
  <2>3. QED
    BY <2>1, <2>2, EmptySeq DEF TypeOK, Begin, camera
<1>2. /\ pc' \in {"info", "wait"}
      /\ subject' = NoPicture /\ start' = 0 /\ out' = <<>>
  BY DEF Begin
<1>3. CountersAddUp' /\ LoopAgrees' /\ NothingYet' /\ WholeUnlessShort'
  BY <1>2 DEF CountersAddUp, LoopAgrees, NothingYet, WholeUnlessShort
<1>4. PrefixOfPicture'
  BY <1>2, EmptyPrefix DEF PrefixOfPicture
<1>5. QED
  BY <1>1, <1>3, <1>4

LEMMA CallStep ==
    ASSUME IInv,
           \/ \E h \in Asked, c \in Chunks \cup {DefaultChunk} : GetObjectVendor(h, c)
           \/ LatestInCamera \/ LatestInComputer
    PROVE  IInv'
<1>1. tries \in 0..Tries /\ Tries \in 0..Tries /\ 0 \in Words /\ DefaultChunk \in Words
  BY DownloadAssumption DEF IInv, TypeOK, DownloadAssumption, Words
<1>2. Asked \subseteq Nat
  <2>1. \A k \in DOMAIN added : added[k] \in Handles
    BY DEF IInv, TypeOK
  <2>2. QED
    BY <2>1, DownloadAssumption DEF Asked, DownloadAssumption
<1>3. ASSUME NEW h \in Asked, NEW c \in Chunks \cup {DefaultChunk}, GetObjectVendor(h, c)
      PROVE  IInv'
  <2>1. h \in Nat /\ c \in Words
    BY <1>1, <1>2, DownloadAssumption DEF DownloadAssumption, Words
  <2>2. Begin("info", h, c, FALSE) /\ UNCHANGED <<camera, events, outcome, taken, tries>>
    BY <1>3 DEF GetObjectVendor
  <2>3. QED
    BY <1>1, <2>1, <2>2, BeginStep
<1>4. CASE LatestInCamera
  <2>1. LatestArg \in Nat
    BY DownloadAssumption DEF DownloadAssumption
  <2>2. /\ Begin("info", LatestArg, DefaultChunk, TRUE)
        /\ UNCHANGED <<camera, events, outcome, taken, tries>>
    BY <1>4 DEF LatestInCamera
  <2>3. QED
    BY <1>1, <2>1, <2>2, BeginStep
<1>5. CASE LatestInComputer
  BY <1>1, <1>5, BeginStep DEF LatestInComputer
<1>6. QED
  BY <1>3, <1>4, <1>5

LEMMA InfoStep ==
    ASSUME IInv, Info
    PROVE  IInv'
<1> USE DEF IInv
<1>1. /\ pc = "info" /\ subject = NoPicture /\ start = 0 /\ out = <<>>
      /\ start' = 0 /\ out' = <<>>
      /\ UNCHANGED <<camera, events, asked, latest, chunk, turn, short, excess, tries, taken,
                calls>>
  BY DEF Info, NothingYet
<1>2. CASE End("threw") /\ UNCHANGED <<subject, left>>
  <2>1. pc' = "idle" /\ outcome' = "threw"
    BY <1>2 DEF End
  <2>2. TypeOK'
    BY <1>1, <1>2, <2>1 DEF TypeOK, camera
  <2>3. QED
    BY <1>1, <1>2, <2>1, <2>2, EmptyPrefix
       DEF CountersAddUp, LoopAgrees, NothingYet, PrefixOfPicture, WholeUnlessShort
<1>3. ASSUME NEW p \in Described(asked),
             subject' = p, left' = Size[p],
             IF Size[p] = 0 THEN End("ok") ELSE pc' = "part" /\ UNCHANGED outcome
      PROVE  IInv'
  <2>1. p \in Handles
    BY DEF Described, TypeOK
  <2>2. Size[p] \in Words /\ Size[p] \in Nat
    BY <2>1, SizeIsWord
  <2>3. pc' \in {"idle", "part"} /\ outcome' \in {"none", "ok", "threw"}
    BY <1>3 DEF End, TypeOK
  <2>4. TypeOK'
    BY <1>1, <1>3, <2>1, <2>2, <2>3, SizeIsWord DEF TypeOK, camera
  <2>5. PrefixOfPicture' /\ NothingYet'
    BY <1>1, <2>3, EmptyPrefix DEF PrefixOfPicture, NothingYet
  <2>6. CountersAddUp' /\ LoopAgrees'
    BY <1>1, <1>3, <2>1, <2>2 DEF CountersAddUp, LoopAgrees, End
  <2>7. WholeUnlessShort'
    BY <1>1, <1>3, <2>2 DEF WholeUnlessShort, End
  <2>8. QED
    BY <2>4, <2>5, <2>6, <2>7
<1>4. QED
  BY <1>2, <1>3 DEF Info

-----------------------------------------------------------------------------
(***************************************************************************)
(* One turn of the loop.                                                   *)
(***************************************************************************)

\* Two words add up to less than two words' sizes.
LEMMA SumOfWords ==
    ASSUME NEW s \in Nat, NEW l \in Nat, NEW w \in Nat, s < w, l < w
    PROVE  s + l >= 0 /\ s + l < w + w
  OBVIOUS

LEMMA PartStep ==
    ASSUME IInv, Part
    PROVE  IInv'
<1> USE DEF IInv
<1>1. /\ pc = "part" /\ subject \in Handles /\ left > 0
      /\ start + left \in {Size[subject], Size[subject] + WordSize}
      /\ ~excess => /\ start = Len(out) /\ start + left = Size[subject]
                    /\ chunk = 0 => out = <<>>
                    /\ out = Bytes(subject, 0, start)
      /\ UNCHANGED <<camera, events, asked, latest, subject, chunk, tries, taken, calls>>
  BY DEF Part, CountersAddUp, LoopAgrees, PrefixOfPicture
<1>2. /\ start \in Nat /\ left \in Nat /\ chunk \in Nat /\ start < WordSize /\ left < WordSize
      /\ out \in Seq(Handles \X Nat) /\ Len(out) \in Nat
      /\ Size[subject] \in Nat /\ subject # NoPicture
      /\ Size[subject] < WordSize /\ WordSize \in Nat
  BY <1>1, SizeIsWord, NoPictureIsNone, DownloadAssumption
     DEF TypeOK, Words, DownloadAssumption
<1>3. Request \in Nat /\ Request <= left /\ (Request = 0 <=> chunk = 0)
  BY <1>1, <1>2, RequestBound
<1>4. CASE End("threw") /\ UNCHANGED <<out, start, left, turn, short, excess>>
  <2>1. pc' = "idle" /\ outcome' = "threw"
    BY <1>4 DEF End
  <2>2. TypeOK'
    BY <1>1, <1>4, <2>1 DEF TypeOK, camera
  <2>3. QED
    BY <1>1, <1>4, <2>1, <2>2
       DEF CountersAddUp, LoopAgrees, NothingYet, PrefixOfPicture, WholeUnlessShort
<1>5. ASSUME NEW a \in 0..Least(Request + Excess, WordSize - 1), NEW n \in 0..Available,
             n <= a, TakePart(a, n), turn' = ~turn, short' = (short \/ n < Request),
             excess' = (excess \/ a > Request)
      PROVE  IInv'
  <2>1. a \in Nat /\ n \in Nat /\ a < WordSize /\ n <= a
    <3>1. Excess \in Nat /\ a <= WordSize - 1
      BY <1>2, <1>3, <1>5, DownloadAssumption DEF Least, DownloadAssumption
    <3>2. Available \in Nat
      BY <1>2 DEF Available
    <3>3. QED
      BY <1>2, <1>5, <3>1, <3>2
  <2>2. turn' \in BOOLEAN /\ short' \in BOOLEAN /\ excess' \in BOOLEAN
    <3>1. /\ turn' = TRUE \/ turn' = FALSE
          /\ short' = TRUE \/ short' = FALSE
          /\ excess' = TRUE \/ excess' = FALSE
      BY <1>5, Zenon
    <3>2. QED
      BY <3>1
  <2>3. n < Request => short'
    BY <1>5, Zenon
  <2>4. ~excess' => ~excess /\ ~(a > Request)
    BY <1>5, Zenon
  <2>5. ~excess' => /\ a <= Request /\ start = Len(out) /\ start + left = Size[subject]
                    /\ chunk = 0 => out = <<>>
                    /\ out = Bytes(subject, 0, start)
    <3>1. ~(a > Request) => a <= Request
      BY <1>3, <2>1
    <3>2. QED
      BY <1>1, <2>4, <3>1, Zenon
  <2>6. CASE a = 0 \/ n = 0
    <3>1. pc' = "idle" /\ outcome' = "ok" /\ UNCHANGED <<out, start, left>>
      BY <1>5, <2>6 DEF TakePart, End
    <3>2. TypeOK'
      BY <1>1, <2>2, <3>1 DEF TypeOK, camera
    <3>3. CountersAddUp' /\ LoopAgrees' /\ NothingYet'
      BY <3>1 DEF CountersAddUp, LoopAgrees, NothingYet
    <3>4. PrefixOfPicture'
      <4>1. ~excess' => ~excess
        BY <2>4
      <4>2. QED
        BY <1>1, <3>1, <4>1, Zenon DEF PrefixOfPicture
    <3>5. n = 0
      BY <2>1, <2>6
    <3>6. ~short' /\ ~excess' => chunk' = 0 /\ out' = <<>>
      <4>1. n < Request \/ chunk' = 0
        BY <1>1, <1>3, <3>5
      <4>2. chunk' = 0 /\ ~excess' => out' = <<>>
        BY <1>1, <2>4, <3>1
      <4>3. QED
        BY <2>3, <4>1, <4>2, Zenon
    <3>7. WholeUnlessShort'
      BY <3>6, Zenon DEF WholeUnlessShort
    <3>8. QED
      BY <3>2, <3>3, <3>4, <3>7
  <2>7. CASE ~(a = 0 \/ n = 0)
    <3>1. /\ out' = out \o Bytes(subject, start, n)
          /\ start' = Add32(start, a)
          /\ left' = Sub32(left, a)
          /\ IF n < Request \/ left' = 0 THEN End("ok") ELSE UNCHANGED <<pc, outcome>>
      BY <1>5, <2>7 DEF TakePart
    <3>2. /\ start' \in Nat /\ left' \in Nat /\ start' < WordSize /\ left' < WordSize
          /\ start' + left' \in {Size[subject], Size[subject] + WordSize}
      <4>1. start' = start + a \/ (start + a >= WordSize /\ start' = start + a - WordSize)
        BY <1>2, <2>1, <3>1 DEF Add32
      <4>2. start' \in Nat /\ start' < WordSize
        BY <1>2, <2>1, <3>1 DEF Add32
      <4>3. (a <= left /\ left' = left - a) \/ (left < a /\ left' = left - a + WordSize)
        BY <1>2, <2>1, <3>1 DEF Sub32
      <4>4. left' \in Nat /\ left' < WordSize
        BY <1>2, <2>1, <4>3
      <4>5. start' + left' \in {start + left - WordSize, start + left, start + left + WordSize}
        BY <1>2, <2>1, <4>1, <4>3
      <4>6. start' + left' >= 0 /\ start' + left' < WordSize + WordSize
        BY <1>2, <4>2, <4>4, SumOfWords
      <4>7. start' + left' \in {Size[subject], Size[subject] + WordSize}
        BY <1>1, <1>2, <4>5, <4>6
      <4>8. QED
        BY <4>2, <4>4, <4>7
    <3>3. ~excess' => start' = start + a /\ left' = left - a
      BY <1>2, <1>3, <2>1, <2>5, <3>1 DEF Add32, Sub32
    <3>4. out' \in Seq(Handles \X Nat) /\ Len(out') = Len(out) + n
      <4>1. Bytes(subject, start, n) \in Seq(Handles \X Nat) /\ Len(Bytes(subject, start, n)) = n
        BY <1>1, <1>2, <2>1, BytesType
      <4>2. QED
        BY <1>2, <3>1, <4>1, ConcatProperties
    <3>5. ~excess' => out' = Bytes(subject, 0, start + n)
      <4>1. Bytes(subject, 0, start) \o Bytes(subject, start, n) = Bytes(subject, 0, start + n)
        BY <1>2, <2>1, PrefixGrows
      <4>2. QED
        BY <2>5, <3>1, <4>1, Zenon
    <3>6. pc' \in {"idle", "part"} /\ (pc' = "idle" => outcome' = "ok")
      BY <1>1, <3>1 DEF End
    <3>7. TypeOK'
      <4>1. start' \in Words /\ left' \in Words
        BY <1>2, <3>2 DEF Words
      <4>2. outcome' \in {"none", "ok", "threw"}
        BY <3>1 DEF End, TypeOK
      <4>3. QED
        BY <1>1, <2>2, <3>4, <3>6, <4>1, <4>2 DEF TypeOK, camera
    <3>8. PrefixOfPicture'
      <4>1. ASSUME ~excess'
            PROVE  out' = Bytes(subject, 0, Len(out')) /\ Len(out') <= Size[subject]
        <5>1. a <= Request /\ start = Len(out) /\ start + left = Size[subject]
          BY <2>5, <4>1, Zenon
        <5>2. Len(out') = start + n /\ start + n <= Size[subject]
          BY <1>2, <1>3, <2>1, <3>4, <5>1
        <5>3. QED
          BY <3>5, <4>1, <5>2
      <4>2. QED
        BY <1>1, <4>1 DEF PrefixOfPicture
    <3>9. NothingYet'
      BY <3>6 DEF NothingYet
    <3>10. CountersAddUp' /\ LoopAgrees'
      <4>1. pc' = "part" => ~(n < Request) /\ left' # 0
        BY <3>1 DEF End
      <4>2. ASSUME pc' = "part", ~excess'
            PROVE  start' = Len(out') /\ start' + left' = Size[subject] /\ chunk # 0
        <5>1. /\ a <= Request /\ start = Len(out) /\ start + left = Size[subject]
              /\ start' = start + a /\ left' = left - a
          BY <2>5, <3>3, <4>2, Zenon
        <5>2. n = a /\ Request # 0
          BY <1>3, <2>1, <2>7, <4>1, <4>2, <5>1
        <5>3. QED
          BY <1>2, <1>3, <2>1, <3>4, <5>1, <5>2
      <4>3. pc' = "part" => left' > 0
        BY <3>2, <4>1
      <4>4. QED
        BY <1>1, <3>2, <4>2, <4>3 DEF CountersAddUp, LoopAgrees
    <3>11. WholeUnlessShort'
      <4>1. ASSUME pc' = "idle", ~short', ~excess'
            PROVE  Len(out') = Size[subject]
        <5>1. /\ a <= Request /\ start = Len(out) /\ start + left = Size[subject]
              /\ start' = start + a /\ left' = left - a
          BY <2>5, <3>3, <4>1, Zenon
        <5>2. ~(n < Request) /\ n = a
          BY <1>3, <2>1, <2>3, <4>1, <5>1
        <5>3. left' = 0
          BY <1>1, <3>1, <4>1, <5>2 DEF End
        <5>4. QED
          BY <1>2, <2>1, <3>4, <5>1, <5>2, <5>3
      <4>2. QED
        BY <1>1, <4>1 DEF WholeUnlessShort
    <3>12. QED
      BY <3>7, <3>8, <3>9, <3>10, <3>11
  <2>8. QED
    BY <2>6, <2>7
<1>6. QED
  BY <1>4, <1>5 DEF Part

-----------------------------------------------------------------------------
(***************************************************************************)
(* get_latest_image's other way, and the camera.                           *)
(***************************************************************************)

LEMMA WaitStep ==
    ASSUME IInv, WaitPoll \/ WaitGivesUp \/ WaitError
    PROVE  IInv'
<1> USE DEF IInv
<1>1. /\ pc = "wait" /\ subject = NoPicture /\ out = <<>> /\ start = 0
      /\ UNCHANGED <<stored, added, asked, latest, chunk, start, left, out, turn, short, excess,
                     calls>>
  BY DEF WaitPoll, WaitGivesUp, WaitError, NothingYet, camera, locals
<1>2. CASE WaitPoll
  <2>1. events # <<>> => Head(events) \in Handles \cup {NoPicture}
    BY DEF TypeOK
  <2>2. events' \in Seq(Handles \cup {NoPicture})
    BY <1>2 DEF WaitPoll, TypeOK
  <2>3. tries \in 0..Tries /\ tries > 0 /\ Tries \in Nat /\ UNCHANGED outcome
    BY <1>2, DownloadAssumption DEF WaitPoll, TypeOK, DownloadAssumption
  <2>4. CASE events # <<>> /\ Head(events) # NoPicture
    <3>1. /\ pc' = "object" /\ subject' = Head(events) /\ subject' \in Handles
          /\ taken' = Append(taken, Head(events)) /\ UNCHANGED tries
      BY <1>2, <2>1, <2>4 DEF WaitPoll
    <3>2. taken' \in Seq(Handles)
      BY <3>1 DEF TypeOK
    <3>3. TypeOK'
      BY <1>1, <2>2, <2>3, <3>1, <3>2 DEF TypeOK
    <3>4. QED
      BY <1>1, <3>1, <3>3, EmptyPrefix
         DEF CountersAddUp, LoopAgrees, NothingYet, PrefixOfPicture, WholeUnlessShort
  <2>5. CASE ~(events # <<>> /\ Head(events) # NoPicture)
    <3>1. tries' = tries - 1 /\ UNCHANGED <<pc, subject, taken>>
      BY <1>2, <2>5 DEF WaitPoll
    <3>2. TypeOK'
      BY <1>1, <2>2, <2>3, <3>1 DEF TypeOK
    <3>3. QED
      BY <1>1, <3>1, <3>2, EmptyPrefix
         DEF CountersAddUp, LoopAgrees, NothingYet, PrefixOfPicture, WholeUnlessShort
  <2>6. QED
    BY <2>4, <2>5
<1>3. CASE WaitGivesUp \/ WaitError
  <2>1. pc' = "idle" /\ outcome' \in {"ok", "threw"} /\ UNCHANGED <<events, subject, tries, taken>>
    BY <1>3 DEF WaitGivesUp, WaitError, End, locals
  <2>2. TypeOK'
    BY <1>1, <2>1 DEF TypeOK
  <2>3. QED
    BY <1>1, <2>1, <2>2, EmptyPrefix
       DEF CountersAddUp, LoopAgrees, NothingYet, PrefixOfPicture, WholeUnlessShort
<1>4. QED
  BY <1>2, <1>3

LEMMA GetObjectStep ==
    ASSUME IInv, GetObject
    PROVE  IInv'
<1> USE DEF IInv
<1>1. /\ pc = "object" /\ subject \in Handles /\ out = <<>>
      /\ pc' = "idle" /\ outcome' \in {"ok", "threw"}
      /\ UNCHANGED <<camera, events, asked, latest, subject, chunk, start, left, turn,
                     excess, tries, taken, calls>>
  BY DEF GetObject, End, NothingYet
<1>2. Size[subject] \in Nat
  BY <1>1, SizeIsWord
<1>3. CASE outcome' = "threw" /\ UNCHANGED <<out, short>>
  <2>1. TypeOK'
    BY <1>1, <1>3 DEF TypeOK, camera
  <2>2. QED
    BY <1>1, <1>3, <2>1, EmptyPrefix
       DEF CountersAddUp, LoopAgrees, NothingYet, PrefixOfPicture, WholeUnlessShort
<1>4. CASE /\ out' = IF subject \in stored THEN Bytes(subject, 0, Size[subject]) ELSE <<>>
           /\ short' = (subject \notin stored)
  <2>1. /\ out' \in Seq(Handles \X Nat)
        /\ out' = Bytes(subject, 0, Len(out')) /\ Len(out') <= Size[subject]
        /\ subject \in stored => Len(out') = Size[subject]
    <3>1. CASE subject \in stored
      <4>1. out' = Bytes(subject, 0, Size[subject])
        BY <1>4, <3>1
      <4>2. out' \in Seq(Handles \X Nat) /\ Len(out') = Size[subject]
        BY <1>1, <1>2, <4>1, BytesType
      <4>3. QED
        BY <1>2, <4>1, <4>2
    <3>2. CASE subject \notin stored
      BY <1>2, <1>4, <3>2, EmptyPrefix
    <3>3. QED
      BY <3>1, <3>2
  <2>2. short' \in BOOLEAN
    BY <1>4
  <2>3. TypeOK'
    BY <1>1, <2>1, <2>2 DEF TypeOK, camera
  <2>4. QED
    BY <1>1, <1>4, <2>1, <2>3
       DEF CountersAddUp, LoopAgrees, NothingYet, PrefixOfPicture, WholeUnlessShort
<1>5. QED
  BY <1>3, <1>4 DEF GetObject, End

LEMMA CameraStep ==
    ASSUME IInv, OtherEvent \/ \E h \in Handles : TakePicture(h) \/ Delete(h)
    PROVE  IInv'
<1> USE DEF IInv
<1>1. UNCHANGED <<pc, locals, tries, outcome, taken, calls>>
  BY DEF OtherEvent, TakePicture, Delete
<1>2. /\ stored' \subseteq Handles /\ added' \in Seq(Handles)
      /\ events' \in Seq(Handles \cup {NoPicture})
  <2>1. /\ stored \subseteq Handles /\ added \in Seq(Handles)
        /\ events \in Seq(Handles \cup {NoPicture})
    BY DEF TypeOK
  <2>2. CASE OtherEvent
    BY <2>1, <2>2 DEF OtherEvent, camera
  <2>3. ASSUME NEW h \in Handles, TakePicture(h)
        PROVE  /\ stored' \subseteq Handles /\ added' \in Seq(Handles)
               /\ events' \in Seq(Handles \cup {NoPicture})
    BY <2>1, <2>3 DEF TakePicture
  <2>4. ASSUME NEW h \in Handles, Delete(h)
        PROVE  /\ stored' \subseteq Handles /\ added' \in Seq(Handles)
               /\ events' \in Seq(Handles \cup {NoPicture})
    BY <2>1, <2>4 DEF Delete
  <2>5. QED
    BY <2>2, <2>3, <2>4
<1>3. TypeOK'
  BY <1>1, <1>2 DEF TypeOK, locals
<1>4. QED
  BY <1>1, <1>3
     DEF CountersAddUp, LoopAgrees, NothingYet, PrefixOfPicture, WholeUnlessShort, locals

LEMMA NextIInv == IInv /\ [Next]_vars => IInv'
<1> SUFFICES ASSUME IInv, [Next]_vars
             PROVE  IInv'
  OBVIOUS
<1>1. CASE UNCHANGED vars
  <2>1. TypeOK'
    BY <1>1 DEF IInv, TypeOK, vars, camera, locals
  <2>2. QED
    BY <1>1, <2>1 DEF IInv, CountersAddUp, LoopAgrees, NothingYet, PrefixOfPicture,
                      WholeUnlessShort, vars, locals
<1>2. CASE Step
  BY <1>2, InfoStep, PartStep, WaitStep, GetObjectStep DEF Step
<1>3. CASE Next /\ ~Step
  BY <1>3, CallStep, CameraStep DEF Next
<1>4. QED
  BY <1>1, <1>2, <1>3

-----------------------------------------------------------------------------

\* The locals of the loop agree with each other and with the picture.
THEOREM Invariance == Spec => []IInv
<1>1. QED
  BY InitIInv, NextIInv, PTL DEF Spec

\* Whenever another part is asked for, neither counter of the loop has wrapped
\* and start is what was collected, unless the camera has claimed more than it
\* was asked for; then they add up to its size modulo the word.
THEOREM CountersAgree == Spec => []CountersAddUp
<1>1. IInv => CountersAddUp
  BY DEF IInv
<1>2. QED
  BY <1>1, Invariance, PTL

\* What a download has collected is the beginning of one picture.
THEOREM OnePrefix == Spec => []PrefixOfPicture
<1>1. IInv => PrefixOfPicture
  BY DEF IInv
<1>2. QED
  BY <1>1, Invariance, PTL

\* A download that ends normally has the whole picture, or was sent less than it
\* asked for.
THEOREM WholePicture == Spec => []WholeUnlessShort
<1>1. IInv => WholeUnlessShort
  BY DEF IInv
<1>2. QED
  BY <1>1, Invariance, PTL

-----------------------------------------------------------------------------
(***************************************************************************)
(* The order of announcement.  Between the camera and the waits is the     *)
(* pipe: what it holds, other events left out, is what was announced and   *)
(* not yet taken.  A function from the announcements that were not taken   *)
(* to their places in the pipe says so.                                    *)
(***************************************************************************)

\* e holds the elements of a after the first t, in order, and no other picture.
Holds(e, a, t) ==
    \E f \in [(t + 1)..Len(a) -> 1..Len(e)] :
        /\ \A k \in (t + 1)..Len(a) : e[f[k]] = a[k]
        /\ \A j, k \in (t + 1)..Len(a) : j < k => f[j] < f[k]
        /\ \A p \in 1..Len(e) :
              e[p] # NoPicture => \E k \in (t + 1)..Len(a) : f[k] = p

InPipe == AnnouncedInOrder /\ Holds(events, added, Len(taken))

LEMMA HoldsOther ==
    ASSUME NEW e \in Seq(Handles \cup {NoPicture}), NEW a \in Seq(Handles), NEW t \in 0..Len(a),
           Holds(e, a, t)
    PROVE  Holds(Append(e, NoPicture), a, t)
<1>1. PICK f \in [(t + 1)..Len(a) -> 1..Len(e)] :
        /\ \A k \in (t + 1)..Len(a) : e[f[k]] = a[k]
        /\ \A j, k \in (t + 1)..Len(a) : j < k => f[j] < f[k]
        /\ \A p \in 1..Len(e) : e[p] # NoPicture => \E k \in (t + 1)..Len(a) : f[k] = p
  BY DEF Holds
<1> DEFINE E == Append(e, NoPicture)
<1>2. /\ Len(E) = Len(e) + 1 /\ Len(e) \in Nat
      /\ \A p \in 1..Len(e) : E[p] = e[p]
      /\ E[Len(e) + 1] = NoPicture
  OBVIOUS
<1> HIDE DEF E
<1>3. f \in [(t + 1)..Len(a) -> 1..Len(E)]
  BY <1>1, <1>2
<1>4. \A k \in (t + 1)..Len(a) : E[f[k]] = a[k]
  BY <1>1, <1>2
<1>5. \A p \in 1..Len(E) : E[p] # NoPicture => \E k \in (t + 1)..Len(a) : f[k] = p
  BY <1>1, <1>2
<1>6. Holds(E, a, t)
  BY <1>1, <1>3, <1>4, <1>5 DEF Holds
<1>7. QED
  BY <1>6 DEF E

LEMMA HoldsAnnounced ==
    ASSUME NEW e \in Seq(Handles \cup {NoPicture}), NEW a \in Seq(Handles), NEW t \in 0..Len(a),
           NEW h \in Handles, Holds(e, a, t)
    PROVE  Holds(Append(e, h), Append(a, h), t)
<1>1. PICK f \in [(t + 1)..Len(a) -> 1..Len(e)] :
        /\ \A k \in (t + 1)..Len(a) : e[f[k]] = a[k]
        /\ \A j, k \in (t + 1)..Len(a) : j < k => f[j] < f[k]
        /\ \A p \in 1..Len(e) : e[p] # NoPicture => \E k \in (t + 1)..Len(a) : f[k] = p
  BY DEF Holds
<1> DEFINE E == Append(e, h)
           A == Append(a, h)
           g == [k \in (t + 1)..(Len(a) + 1) |-> IF k <= Len(a) THEN f[k] ELSE Len(e) + 1]
<1>2. /\ Len(E) = Len(e) + 1 /\ Len(e) \in Nat
      /\ \A p \in 1..Len(e) : E[p] = e[p]
      /\ E[Len(e) + 1] = h
  OBVIOUS
<1>3. /\ Len(A) = Len(a) + 1 /\ Len(a) \in Nat
      /\ \A k \in 1..Len(a) : A[k] = a[k]
      /\ A[Len(a) + 1] = h
  OBVIOUS
<1>4. t \in Nat /\ t + 1 <= Len(a) + 1
  BY <1>3
<1> HIDE DEF E, A
<1>5. /\ \A k \in (t + 1)..Len(a) : g[k] = f[k] /\ f[k] \in 1..Len(e)
      /\ g[Len(a) + 1] = Len(e) + 1
  BY <1>1, <1>3, <1>4
<1>6. g \in [(t + 1)..Len(A) -> 1..Len(E)]
  BY <1>1, <1>2, <1>3, <1>4
<1> HIDE DEF g
<1>7. \A k \in (t + 1)..Len(A) : k \in (t + 1)..Len(a) \/ k = Len(a) + 1
  BY <1>3, <1>4
<1>8. \A k \in (t + 1)..Len(A) : E[g[k]] = A[k]
  <2>1. \A k \in (t + 1)..Len(a) : k \in 1..Len(a)
    BY <1>3, <1>4
  <2>2. \A k \in (t + 1)..Len(a) : E[g[k]] = A[k]
    BY <1>1, <1>2, <1>3, <1>5, <2>1
  <2>3. E[g[Len(a) + 1]] = A[Len(a) + 1]
    BY <1>2, <1>3, <1>5
  <2>4. QED
    BY <1>7, <2>2, <2>3
<1>9. ASSUME NEW j \in (t + 1)..Len(A), NEW k \in (t + 1)..Len(A), j < k
      PROVE  g[j] < g[k]
  <2>1. j \in (t + 1)..Len(a)
    BY <1>3, <1>4, <1>9
  <2>2. CASE k \in (t + 1)..Len(a)
    BY <1>1, <1>5, <1>9, <2>1, <2>2
  <2>3. CASE k = Len(a) + 1
    <3>1. g[j] \in 1..Len(e) /\ g[k] = Len(e) + 1
      BY <1>5, <2>1, <2>3
    <3>2. QED
      BY <1>2, <3>1
  <2>4. QED
    BY <1>7, <2>2, <2>3
<1>10. ASSUME NEW p \in 1..Len(E), E[p] # NoPicture
       PROVE  \E k \in (t + 1)..Len(A) : g[k] = p
  <2>1. CASE p = Len(e) + 1
    <3>1. Len(a) + 1 \in (t + 1)..Len(A)
      BY <1>3, <1>4
    <3>2. QED
      BY <1>5, <2>1, <3>1
  <2>2. CASE p # Len(e) + 1
    <3>1. p \in 1..Len(e) /\ e[p] # NoPicture
      BY <1>2, <1>10, <2>2
    <3>2. PICK k \in (t + 1)..Len(a) : f[k] = p
      BY <1>1, <3>1
    <3>3. k \in (t + 1)..Len(A)
      BY <1>3, <1>4
    <3>4. QED
      BY <1>5, <3>2, <3>3
  <2>3. QED
    BY <2>1, <2>2
<1>11. Holds(E, A, t)
  BY <1>6, <1>8, <1>9, <1>10 DEF Holds
<1>12. QED
  BY <1>11 DEF E, A

\* A picture at the head is the first that was not taken.
LEMMA HoldsTaken ==
    ASSUME NEW e \in Seq(Handles \cup {NoPicture}), NEW a \in Seq(Handles), NEW t \in 0..Len(a),
           e # <<>>, Head(e) # NoPicture, Holds(e, a, t)
    PROVE  t + 1 <= Len(a) /\ Head(e) = a[t + 1] /\ Holds(Tail(e), a, t + 1)
<1>1. PICK f \in [(t + 1)..Len(a) -> 1..Len(e)] :
        /\ \A k \in (t + 1)..Len(a) : e[f[k]] = a[k]
        /\ \A j, k \in (t + 1)..Len(a) : j < k => f[j] < f[k]
        /\ \A p \in 1..Len(e) : e[p] # NoPicture => \E k \in (t + 1)..Len(a) : f[k] = p
  BY DEF Holds
<1>0. PICK u \in Nat : u = t + 1
  OBVIOUS
<1> DEFINE E == Tail(e)
           g == [k \in (u + 1)..Len(a) |-> f[k] - 1]
<1>2. /\ Len(e) \in Nat /\ Len(e) >= 1 /\ Len(E) = Len(e) - 1 /\ Head(e) = e[1]
      /\ \A p \in 1..(Len(e) - 1) : E[p] = e[p + 1]
  OBVIOUS
<1>3. t \in Nat /\ Len(a) \in Nat /\ u = t + 1
  BY <1>0
<1> HIDE DEF E
<1>4. PICK k1 \in (t + 1)..Len(a) : f[k1] = 1
  BY <1>1, <1>2
<1>5. t + 1 \in (t + 1)..Len(a) /\ t + 1 <= Len(a)
  BY <1>3, <1>4
<1>6. k1 = t + 1
  <2>1. f[t + 1] >= 1
    BY <1>1, <1>2, <1>5
  <2>2. ~(t + 1 < k1)
    BY <1>1, <1>4, <1>5, <2>1
  <2>3. QED
    BY <1>3, <1>4, <2>2
<1>7. Head(e) = a[t + 1]
  BY <1>1, <1>2, <1>4, <1>6
<1>8. \A k \in (u + 1)..Len(a) : k \in (t + 1)..Len(a) /\ k # k1 /\ k1 < k
  BY <1>3, <1>6
<1>9. \A k \in (u + 1)..Len(a) : /\ g[k] = f[k] - 1 /\ f[k] \in 1..Len(e) /\ f[k] > 1
                                 /\ g[k] \in 1..Len(E) /\ e[f[k]] = a[k]
  BY <1>1, <1>2, <1>4, <1>8
<1>10. g \in [(u + 1)..Len(a) -> 1..Len(E)]
  BY <1>9
<1> HIDE DEF g
<1>11. ASSUME NEW k \in (u + 1)..Len(a) PROVE E[g[k]] = a[k]
  <2>1. g[k] \in 1..(Len(e) - 1) /\ g[k] + 1 = f[k]
    BY <1>2, <1>9
  <2>2. E[g[k]] = e[f[k]]
    BY <1>2, <2>1
  <2>3. QED
    BY <1>9, <2>2
<1>12. \A j, k \in (u + 1)..Len(a) : j < k => g[j] < g[k]
  BY <1>1, <1>2, <1>8, <1>9
<1>13. ASSUME NEW p \in 1..Len(E), E[p] # NoPicture
       PROVE  \E k \in (u + 1)..Len(a) : g[k] = p
  <2>1. p + 1 \in 1..Len(e) /\ e[p + 1] # NoPicture /\ p >= 1 /\ p \in Nat
    BY <1>2, <1>13
  <2>2. PICK k \in (t + 1)..Len(a) : f[k] = p + 1
    BY <1>1, <2>1
  <2>3. k # k1
    BY <1>4, <2>1, <2>2
  <2>4. k \in (u + 1)..Len(a)
    BY <1>3, <1>6, <2>3
  <2>5. QED
    BY <1>9, <2>1, <2>2, <2>4
<1>14. Holds(E, a, u)
  BY <1>10, <1>11, <1>12, <1>13 DEF Holds
<1>15. QED
  BY <1>0, <1>5, <1>7, <1>14 DEF E

\* Another event at the head is dropped.
LEMMA HoldsDropped ==
    ASSUME NEW e \in Seq(Handles \cup {NoPicture}), NEW a \in Seq(Handles), NEW t \in 0..Len(a),
           e # <<>>, Head(e) = NoPicture, Holds(e, a, t)
    PROVE  Holds(Tail(e), a, t)
<1>1. PICK f \in [(t + 1)..Len(a) -> 1..Len(e)] :
        /\ \A k \in (t + 1)..Len(a) : e[f[k]] = a[k]
        /\ \A j, k \in (t + 1)..Len(a) : j < k => f[j] < f[k]
        /\ \A p \in 1..Len(e) : e[p] # NoPicture => \E k \in (t + 1)..Len(a) : f[k] = p
  BY DEF Holds
<1> DEFINE E == Tail(e)
           g == [k \in (t + 1)..Len(a) |-> f[k] - 1]
<1>2. /\ Len(e) \in Nat /\ Len(e) >= 1 /\ Len(E) = Len(e) - 1 /\ e[1] = NoPicture
      /\ \A p \in 1..(Len(e) - 1) : E[p] = e[p + 1]
  OBVIOUS
<1>3. \A k \in (t + 1)..Len(a) : a[k] \in Handles
  OBVIOUS
<1> HIDE DEF E
<1>4. \A k \in (t + 1)..Len(a) : f[k] # 1
  BY <1>1, <1>2, <1>3, NoPictureIsNone
<1>5. \A k \in (t + 1)..Len(a) : /\ g[k] = f[k] - 1 /\ f[k] \in 1..Len(e) /\ f[k] > 1
                                 /\ g[k] \in 1..Len(E) /\ e[f[k]] = a[k]
  BY <1>1, <1>2, <1>4
<1>6. g \in [(t + 1)..Len(a) -> 1..Len(E)]
  BY <1>5
<1> HIDE DEF g
<1>7. ASSUME NEW k \in (t + 1)..Len(a) PROVE E[g[k]] = a[k]
  <2>1. g[k] \in 1..(Len(e) - 1) /\ g[k] + 1 = f[k]
    <3>1. g[k] = f[k] - 1 /\ f[k] \in 1..Len(e) /\ f[k] > 1
      BY <1>5
    <3>2. QED
      BY <1>2, <3>1
  <2>2. E[g[k]] = e[f[k]]
    BY <1>2, <2>1
  <2>3. QED
    BY <1>5, <2>2
<1>8. \A j, k \in (t + 1)..Len(a) : j < k => g[j] < g[k]
  BY <1>1, <1>2, <1>5
<1>9. ASSUME NEW p \in 1..Len(E), E[p] # NoPicture
      PROVE  \E k \in (t + 1)..Len(a) : g[k] = p
  <2>1. p + 1 \in 1..Len(e) /\ e[p + 1] # NoPicture /\ p \in Nat
    BY <1>2, <1>9
  <2>2. PICK k \in (t + 1)..Len(a) : f[k] = p + 1
    BY <1>1, <2>1
  <2>3. QED
    BY <1>5, <2>1, <2>2
<1>10. Holds(E, a, t)
  BY <1>6, <1>7, <1>8, <1>9 DEF Holds
<1>11. QED
  BY <1>10 DEF E

-----------------------------------------------------------------------------

LEMMA InitInPipe == Init => InPipe
<1> SUFFICES ASSUME Init PROVE InPipe
  OBVIOUS
<1>1. taken = <<>> /\ added = <<>> /\ events = <<>>
  BY DEF Init
<1>2. AnnouncedInOrder
  BY <1>1 DEF AnnouncedInOrder
<1>3. Holds(<<>>, <<>>, 0)
  <2> DEFINE f == [k \in {} |-> 1]
  <2>1. (0 + 1)..Len(<<>>) = {} /\ 1..Len(<<>>) = {}
    OBVIOUS
  <2>2. f \in [{} -> {}]
    OBVIOUS
  <2>3. QED
    BY <2>1, <2>2, Zenon DEF Holds
<1>4. QED
  BY <1>1, <1>2, <1>3 DEF InPipe

LEMMA WaitInPipe ==
    ASSUME TypeOK, InPipe, WaitPoll
    PROVE  InPipe'
<1>1. /\ events \in Seq(Handles \cup {NoPicture}) /\ added \in Seq(Handles)
      /\ taken \in Seq(Handles) /\ Len(taken) \in 0..Len(added) /\ added' = added
  BY DEF TypeOK, InPipe, AnnouncedInOrder, WaitPoll, camera
<1>2. CASE events # <<>> /\ Head(events) # NoPicture
  <2>1. taken' = Append(taken, Head(events)) /\ events' = Tail(events)
    BY <1>2 DEF WaitPoll
  <2>2. /\ Len(taken) + 1 <= Len(added) /\ Head(events) = added[Len(taken) + 1]
        /\ Holds(Tail(events), added, Len(taken) + 1)
    BY <1>1, <1>2, HoldsTaken DEF InPipe
  <2>3. Len(taken') = Len(taken) + 1
    BY <1>1, <2>1
  <2>4. taken = SubSeq(added, 1, Len(taken))
    BY DEF InPipe, AnnouncedInOrder
  <2>5. taken' = SubSeq(added, 1, Len(taken) + 1)
    BY <1>1, <2>1, <2>2, <2>4
  <2>6. QED
    BY <1>1, <2>1, <2>2, <2>3, <2>5 DEF InPipe, AnnouncedInOrder
<1>3. CASE events # <<>> /\ Head(events) = NoPicture
  <2>1. taken' = taken /\ events' = Tail(events)
    BY <1>3 DEF WaitPoll
  <2>2. Holds(Tail(events), added, Len(taken))
    BY <1>1, <1>3, HoldsDropped DEF InPipe
  <2>3. QED
    BY <1>1, <2>1, <2>2 DEF InPipe, AnnouncedInOrder
<1>4. CASE events = <<>>
  <2>1. taken' = taken /\ events' = events
    BY <1>4 DEF WaitPoll
  <2>2. QED
    BY <1>1, <2>1 DEF InPipe, AnnouncedInOrder
<1>5. QED
  BY <1>2, <1>3, <1>4

LEMMA CameraInPipe ==
    ASSUME TypeOK, InPipe, OtherEvent \/ \E h \in Handles : TakePicture(h)
    PROVE  InPipe'
<1>1. /\ events \in Seq(Handles \cup {NoPicture}) /\ added \in Seq(Handles)
      /\ taken \in Seq(Handles) /\ Len(taken) \in 0..Len(added) /\ taken' = taken
  BY DEF TypeOK, InPipe, AnnouncedInOrder, OtherEvent, TakePicture
<1>2. CASE OtherEvent
  <2>1. events' = Append(events, NoPicture) /\ added' = added
    BY <1>2 DEF OtherEvent, camera
  <2>2. Holds(Append(events, NoPicture), added, Len(taken))
    BY <1>1, HoldsOther DEF InPipe
  <2>3. QED
    BY <1>1, <2>1, <2>2 DEF InPipe, AnnouncedInOrder
<1>3. ASSUME NEW h \in Handles, TakePicture(h)
      PROVE  InPipe'
  <2>1. events' = Append(events, h) /\ added' = Append(added, h)
    BY <1>3 DEF TakePicture
  <2>2. Holds(Append(events, h), Append(added, h), Len(taken))
    BY <1>1, HoldsAnnounced DEF InPipe
  <2>3. /\ SubSeq(Append(added, h), 1, Len(taken)) = SubSeq(added, 1, Len(taken))
        /\ Len(taken) <= Len(Append(added, h))
    BY <1>1
  <2>4. QED
    BY <1>1, <2>1, <2>2, <2>3 DEF InPipe, AnnouncedInOrder
<1>4. QED
  BY <1>2, <1>3

LEMMA NextInPipe == TypeOK /\ InPipe /\ [Next]_vars => InPipe'
<1> SUFFICES ASSUME TypeOK, InPipe, [Next]_vars
             PROVE  InPipe'
  OBVIOUS
<1>1. CASE UNCHANGED <<taken, added, events>>
  BY <1>1 DEF InPipe, AnnouncedInOrder
<1>2. CASE WaitPoll \/ OtherEvent \/ \E h \in Handles : TakePicture(h)
  BY <1>2, WaitInPipe, CameraInPipe
<1>3. CASE ~(WaitPoll \/ OtherEvent \/ \E h \in Handles : TakePicture(h))
  <2>1. UNCHANGED <<taken, added, events>>
    BY <1>3 DEF Next, Step, GetObjectVendor, LatestInCamera, LatestInComputer, Info, Part,
                WaitGivesUp, WaitError, GetObject, Delete, vars, camera
  <2>2. QED
    BY <1>1, <2>1
<1>4. QED
  BY <1>2, <1>3

\* The waits hand out the announced pictures in order, each once, however many
\* pictures, other events and timeouts there are.
THEOREM InOrder == Spec => []AnnouncedInOrder
<1>1. InPipe => AnnouncedInOrder
  BY DEF InPipe
<1>2. IInv => TypeOK
  BY DEF IInv
<1>3. QED
  BY <1>1, <1>2, Invariance, InitInPipe, NextInPipe, PTL DEF Spec

=============================================================================
