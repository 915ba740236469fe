------------------------ MODULE ObjectListingProofs ------------------------
(***************************************************************************)
(* Listings, for any cards and objects, any width of words, and whichever  *)
(* array the camera sends: what get_object_handles returns, and when it    *)
(* reads past the payload.                                                 *)
(***************************************************************************)
EXTENDS ObjectListing, FiniteSetTheorems, SequenceTheorems, TLAPS

IInv == TypeOK /\ CountedListIsExact /\ BareListIsExact /\ WildReadCause

LEMMA HandlesAreWords ==
    /\ Handles \subseteq Words /\ Storages \subseteq Words
    /\ Handles \subseteq Nat /\ Words \subseteq Nat
  BY ListingAssumption DEF ListingAssumption, Words

-----------------------------------------------------------------------------
(***************************************************************************)
(* The guess between counted arrays and bare lists.                        *)
(***************************************************************************)

\* A counted array is always taken for one, and read within its bounds.
LEMMA CountedIsTaken ==
    ASSUME NEW list \in Seq(Handles), NEW words, words = <<Len(list)>> \o list
    PROVE  TakenForCounted(words) /\ InPayload(words)
<1>1. /\ Len(list) \in Nat /\ Len(words) = Len(list) + 1
      /\ words[1] = Len(list)
  OBVIOUS
<1>2. \A x, w \in Nat : w > 0 => x % w <= x
  OBVIOUS
<1>3. WordSize \in Nat /\ WordSize > 0
  BY ListingAssumption DEF ListingAssumption
<1>4. (4 + Len(list) * 4) % WordSize <= 4 + Len(list) * 4
  <2> DEFINE size == 4 + Len(list) * 4
  <2>1. size \in Nat
    BY <1>1
  <2> HIDE DEF size
  <2>2. size % WordSize <= size
    BY <2>1, <1>2, <1>3
  <2>3. QED
    BY <2>2 DEF size
<1>5. QED
  BY <1>1, <1>4 DEF TakenForCounted, BytesOfCounted, InPayload

\* A counted array gives back what it counts.
LEMMA CountedIsExact ==
    ASSUME NEW list \in Seq(Handles), NEW words, words = <<Len(list)>> \o list
    PROVE  words # <<>> /\ ObjectHandles(words) = list
<1>1. /\ Len(list) \in Nat /\ Len(words) = Len(list) + 1
      /\ words[1] = Len(list) /\ words # <<>>
  OBVIOUS
<1>2. SubSeq(words, 2, words[1] + 1) = list
  <2> DEFINE rest == SubSeq(words, 2, words[1] + 1)
  <2>0. list \in Seq(Nat)
    BY HandlesAreWords, SeqMonotonic
  <2>1. words \in Seq(Nat)
    <3>1. <<Len(list)>> \in Seq(Nat)
      BY <1>1
    <3>2. QED
      BY <2>0, <3>1, ConcatProperties
  <2>2. rest \in Seq(Nat) /\ Len(rest) = Len(list)
    BY <1>1, <2>1
  <2>3. \A k \in 1..Len(list) : rest[k] = list[k]
    BY <1>1, <2>1
  <2> HIDE DEF rest
  <2>4. QED
    BY <2>0, <2>2, <2>3, SeqEqual
<1>3. QED
  BY <1>1, <1>2, CountedIsTaken DEF ObjectHandles

\* Where the sum does not wrap, a count that is taken for one has its items.
LEMMA WildOnlyByWrap ==
    ASSUME NEW words \in Seq(Handles), words # <<>>,
           TakenForCounted(words), ~InPayload(words)
    PROVE  words[1] >= WordSize \div 4 - 1
<1>1. WordSize \in Nat /\ WordSize > 0 /\ Handles \subseteq Nat
  BY ListingAssumption DEF ListingAssumption
<1>2. words[1] \in Nat /\ Len(words) \in Nat
  <2>1. Len(words) \in Nat /\ 1 \in 1..Len(words)
    OBVIOUS
  <2>2. QED
    BY <1>1, <2>1, ElementOfSeq
<1>3. words[1] + 1 > Len(words)
  BY <1>2 DEF InPayload
<1>4. (4 + words[1] * 4) % WordSize <= 4 * Len(words)
  BY DEF TakenForCounted, BytesOfCounted
<1>5. \A x, w \in Nat : w > 0 /\ x < w => x % w = x
  OBVIOUS
<1>6. 4 + words[1] * 4 >= WordSize
  BY <1>1, <1>2, <1>3, <1>4, <1>5
<1>7. WordSize \div 4 <= words[1] + 1
  BY <1>1, <1>2, <1>6
<1>8. QED
  BY <1>1, <1>2, <1>7

-----------------------------------------------------------------------------
(***************************************************************************)
(* Sequences of cards and of objects.                                      *)
(***************************************************************************)

\* Different cards have different ids: there are fewer than a word can count.
LEMMA CardsCount ==
    ASSUME cards \in Seq(Storages), IsInjective(cards)
    PROVE  Len(cards) \in Words
<1> DEFINE Ids == 1..(WordSize - 1)
<1>1. WordSize \in Nat /\ WordSize > 0 /\ Storages \subseteq Ids
  BY ListingAssumption DEF ListingAssumption
<1>2. /\ Len(cards) \in Nat /\ DOMAIN cards = 1..Len(cards)
      /\ cards \in [1..Len(cards) -> Ids]
  <2>1. cards \in Seq(Ids)
    BY <1>1, SeqMonotonic
  <2>2. QED
    BY <2>1, LenProperties
<1>3. cards \in Injection(1..Len(cards), Ids)
  BY <1>2 DEF Injection, IsInjective
<1>4. IsFiniteSet(Ids) /\ Cardinality(Ids) = WordSize - 1
  BY <1>1, FS_Interval
<1>5. Cardinality(1..Len(cards)) <= WordSize - 1
  BY <1>3, <1>4, FS_Injection
<1>6. Cardinality(1..Len(cards)) = Len(cards)
  <2>1. 1 \in Int /\ Len(cards) \in Int
    BY <1>2
  <2>2. Cardinality(1..Len(cards)) = IF 1 > Len(cards) THEN 0 ELSE Len(cards) - 1 + 1
    BY <2>1, FS_Interval
  <2>3. QED
    BY <1>2, <2>2
<1>7. QED
  BY <1>1, <1>2, <1>5, <1>6 DEF Words

\* What the camera lists is a sequence of objects.
LEMMA ListType ==
    ASSUME objects \subseteq Handles, NEW list \in SetToSeqs(ObjectsOf(sid))
    PROVE  /\ list \in Seq(Handles)
           /\ ObjectsOf(sid) = {} => list = <<>>
<1>1. WordSize \in Nat /\ Handles \subseteq 1..(WordSize - 1)
  BY ListingAssumption DEF ListingAssumption
<1>2. ObjectsOf(sid) \subseteq Handles
  BY DEF ObjectsOf
<1>3. IsFiniteSet(ObjectsOf(sid))
  <2>1. 1 \in Int /\ WordSize - 1 \in Int
    BY <1>1
  <2>2. IsFiniteSet(1..(WordSize - 1))
    BY <2>1, FS_Interval
  <2>3. ObjectsOf(sid) \in SUBSET (1..(WordSize - 1))
    BY <1>1, <1>2
  <2>4. QED
    BY <2>2, <2>3, FS_Subset
<1>4. Cardinality(ObjectsOf(sid)) \in Nat
  BY <1>3, FS_CardinalityType
<1>5. list \in [1..Cardinality(ObjectsOf(sid)) -> ObjectsOf(sid)]
  BY DEF SetToSeqs
<1>6. list \in Seq(Handles)
  BY <1>2, <1>4, <1>5
<1>7. ASSUME ObjectsOf(sid) = {} PROVE list = <<>>
  BY <1>4, <1>5, <1>6, <1>7, FS_EmptySet
<1>8. QED
  BY <1>6, <1>7

-----------------------------------------------------------------------------
(***************************************************************************)
(* The inductive invariant.                                                *)
(***************************************************************************)

LEMMA InitIInv == Init => IInv
<1> SUFFICES ASSUME Init PROVE IInv
  OBVIOUS
<1>1. MaxCalls \in Nat /\ WordSize \in Nat \ {0}
  BY ListingAssumption DEF ListingAssumption
<1>2. IsInjective(<<>>)
  BY DEF IsInjective
<1>3. <<>> \in Seq(Storages) /\ <<>> \in Seq(Handles) /\ <<>> \in Seq(Words)
  OBVIOUS
<1>4. TypeOK
  <2>1. AllStorages \in Words /\ 0 \in 0..MaxCalls
    BY <1>1 DEF Words, AllStorages
  <2>2. QED
    BY <1>2, <1>3, <2>1 DEF Init, TypeOK
<1>5. QED
  BY <1>4 DEF Init, IInv, CountedListIsExact, BareListIsExact, WildReadCause, Returned

LEMMA BeginStep ==
    ASSUME IInv, NEW s \in Words, NEW next \in {"storages", "handles"},
           NEW isDefault \in BOOLEAN, next = "storages" => s = AllStorages,
           Begin(next, isDefault, s)
    PROVE  IInv'
<1>1. TypeOK'
  <2>1. calls + 1 \in 0..MaxCalls
    BY ListingAssumption DEF ListingAssumption, IInv, TypeOK, Begin
  <2>2. <<>> \in Seq(Storages) /\ <<>> \in Seq(Handles)
    OBVIOUS
  <2>3. QED
    BY <2>1, <2>2 DEF IInv, TypeOK, Begin, camera, IsInjective, ToSet
<1>2. pc' # "idle" /\ outcome' # "undefined"
  BY DEF Begin
<1>3. QED
  BY <1>1, <1>2 DEF IInv, CountedListIsExact, BareListIsExact, WildReadCause, Returned

LEMMA ThrowStep == IInv /\ Throw => IInv'
<1> SUFFICES ASSUME IInv, Throw PROVE IInv'
  OBVIOUS
<1>1. TypeOK'
  BY DEF IInv, TypeOK, Throw, camera, IsInjective, ToSet
<1>2. QED
  BY <1>1
  DEF Throw, IInv, CountedListIsExact, BareListIsExact, WildReadCause, Returned

LEMMA GetStoragesStep == IInv /\ GetStorages => IInv'
<1> SUFFICES ASSUME IInv, GetStorages PROVE IInv'
  OBVIOUS
<1>1. sid' \in Words
  <2> DEFINE sids == StorageIds(Answer(cards))
  <2>1. sid' = IF sids = <<>> THEN AllStorages ELSE sids[1]
    BY DEF GetStorages
  <2>2. cards \in Seq(Storages) /\ Len(cards) \in Words
    BY CardsCount DEF IInv, TypeOK
  <2>3. CASE counted
    BY <2>1, <2>2, <2>3 DEF StorageIds, Answer, AllStorages
  <2>4. CASE ~counted /\ cards # <<>>
    <3>1. 1 \in 1..Len(cards)
      BY <2>2, <2>4
    <3>2. cards[1] \in Words
      BY <2>2, <3>1, ElementOfSeq, HandlesAreWords
    <3>3. QED
      BY <2>1, <2>4, <3>2 DEF StorageIds, Answer
  <2>5. CASE ~counted /\ cards = <<>>
    BY <2>1, <2>5, ListingAssumption DEF StorageIds, Answer, AllStorages, Words, ListingAssumption
  <2>6. QED
    BY <2>3, <2>4, <2>5
<1>2. TypeOK'
  BY <1>1 DEF IInv, TypeOK, GetStorages, camera, IsInjective, ToSet
<1>3. pc' # "idle" /\ UNCHANGED <<counted, there, outcome>>
  BY DEF GetStorages, camera
<1>4. QED
  BY <1>2, <1>3 DEF IInv, CountedListIsExact, BareListIsExact, WildReadCause, Returned

\* The listing: with a count, it is returned as it is; without, as it is or as
\* the count and items that its head announces.
LEMMA GetHandlesStep == IInv /\ GetHandles => IInv'
<1> SUFFICES ASSUME IInv, GetHandles PROVE IInv'
  OBVIOUS
<1>1. PICK list \in SetToSeqs(ObjectsOf(sid)) : there' = list /\ Receive(Payload(list))
  BY DEF GetHandles
<1> DEFINE words == Payload(list)
<1>2. UNCHANGED <<camera, default, sid, known, calls>> /\ pc' = "idle"
  BY DEF GetHandles
<1>3. /\ list \in Seq(Handles)
      /\ ObjectsOf(sid) = {} => list = <<>>
  BY ListType DEF IInv, TypeOK
<1>4. CASE ~(sid = AllStorages \/ sid \in ToSet(cards))
  <2>1. ObjectsOf(sid) = {}
    BY <1>4 DEF IInv, TypeOK, ObjectsOf
  <2>2. words = <<>> /\ list = <<>>
    BY <1>3, <1>4, <2>1 DEF Payload
  <2>3. outcome' = "ok" /\ out' = <<>> /\ there' = <<>>
    BY <1>1, <2>2 DEF Receive, ObjectHandles
  <2>4. TypeOK'
    BY <1>2, <2>3 DEF IInv, TypeOK, camera, IsInjective, ToSet
  <2>5. QED
    BY <2>3, <2>4 DEF IInv, CountedListIsExact, BareListIsExact, WildReadCause
<1>5. CASE (sid = AllStorages \/ sid \in ToSet(cards)) /\ counted
  <2>1. words = <<Len(list)>> \o list
    BY <1>5 DEF Payload, Answer
  <2>2. words # <<>> /\ TakenForCounted(words) /\ InPayload(words) /\ ObjectHandles(words) = list
    BY <1>3, <2>1, CountedIsTaken, CountedIsExact
  <2>3. outcome' = "ok" /\ out' = list /\ there' = list
    BY <1>1, <2>2 DEF Receive
  <2>4. list \in Seq(Words)
    BY <1>3, HandlesAreWords, SeqMonotonic
  <2>5. TypeOK'
    BY <1>2, <1>3, <2>3, <2>4 DEF IInv, TypeOK, camera, IsInjective, ToSet
  <2>6. counted'
    BY <1>2, <1>5 DEF camera
  <2>7. QED
    BY <2>3, <2>5, <2>6 DEF IInv, CountedListIsExact, BareListIsExact, WildReadCause
<1>6. CASE (sid = AllStorages \/ sid \in ToSet(cards)) /\ ~counted
  <2>1. words = list /\ list \in Seq(Words)
    BY <1>3, <1>6, HandlesAreWords, SeqMonotonic DEF Payload, Answer
  <2>2. ~counted'
    BY <1>2, <1>6 DEF camera
  <2>3. CASE list # <<>> /\ TakenForCounted(list) /\ ~InPayload(list)
    <3>1. outcome' = "undefined" /\ UNCHANGED out /\ there' = list
      BY <1>1, <2>1, <2>3 DEF Receive
    <3>2. TypeOK'
      BY <1>2, <1>3, <3>1 DEF IInv, TypeOK, camera, IsInjective, ToSet
    <3>3. there'[1] >= WordSize \div 4 - 1
      BY <1>3, <2>3, <3>1, WildOnlyByWrap
    <3>4. QED
      BY <2>2, <3>1, <3>2, <3>3
      DEF IInv, CountedListIsExact, BareListIsExact, WildReadCause, Returned
  <2>4. CASE ~(list # <<>> /\ TakenForCounted(list) /\ ~InPayload(list))
    <3>1. outcome' = "ok" /\ out' = ObjectHandles(list) /\ there' = list
      BY <1>1, <2>1, <2>4 DEF Receive
    <3>2. /\ out' \in Seq(Words)
          /\ list # <<>> => out' = list \/ list[1] + 1 <= Len(list)
      <4>1. CASE list = <<>> \/ ~TakenForCounted(list)
        BY <2>1, <3>1, <4>1 DEF ObjectHandles
      <4>2. CASE list # <<>> /\ TakenForCounted(list)
        <5>1. list[1] + 1 <= Len(list)
          BY <2>4, <4>2 DEF InPayload
        <5>2. out' = SubSeq(list, 2, list[1] + 1)
          BY <3>1, <4>2 DEF ObjectHandles
        <5>3. 1 \in 1..Len(list) /\ Len(list) \in Nat
          BY <1>3, <4>2
        <5>4. list[1] \in Nat
          BY <1>3, <5>3, ElementOfSeq, HandlesAreWords
        <5>5. \A k \in 2..(list[1] + 1) : k \in 1..Len(list)
          BY <5>1, <5>3, <5>4
        <5>6. out' \in Seq(Words)
          BY <2>1, <5>2, <5>4, <5>5, SubSeqProperties
        <5>7. QED
          BY <5>1, <5>6
      <4>3. QED
        BY <4>1, <4>2
    <3>3. TypeOK'
      BY <1>2, <1>3, <3>1, <3>2 DEF IInv, TypeOK, camera, IsInjective, ToSet
    <3>4. QED
      BY <2>2, <3>1, <3>2, <3>3
      DEF IInv, CountedListIsExact, BareListIsExact, WildReadCause, Returned
  <2>5. QED
    BY <2>3, <2>4
<1>7. QED
  BY <1>4, <1>5, <1>6

\* Whatever comes and goes in the camera, the call and its history stay.
LEMMA ContentsKeeps ==
    ASSUME IInv, UNCHANGED <<counted, pc, default, sid, known, there, out, outcome, calls>>,
           cards' \in Seq(Storages), IsInjective(cards'),
           objects' \subseteq {h \in Handles : StorageOf[h] \in ToSet(cards')}
    PROVE  IInv'
<1>1. TypeOK'
  BY DEF IInv, TypeOK
<1>2. QED
  BY <1>1 DEF IInv, CountedListIsExact, BareListIsExact, WildReadCause, Returned

LEMMA InsertStep ==
    ASSUME IInv, NEW s \in Storages, InsertCard(s)
    PROVE  /\ cards' \in Seq(Storages) /\ IsInjective(cards')
           /\ objects' \subseteq {h \in Handles : StorageOf[h] \in ToSet(cards')}
<1>1. /\ cards \in Seq(Storages) /\ IsInjective(cards) /\ s \notin ToSet(cards)
      /\ cards' = Append(cards, s) /\ objects' = objects
      /\ objects \subseteq {h \in Handles : StorageOf[h] \in ToSet(cards)}
  BY DEF IInv, TypeOK, InsertCard
<1>2. /\ cards' \in Seq(Storages) /\ DOMAIN cards' = 1..(Len(cards) + 1)
      /\ cards'[Len(cards) + 1] = s
      /\ \A i \in 1..Len(cards) : cards'[i] = cards[i]
      /\ DOMAIN cards = 1..Len(cards) /\ Len(cards) \in Nat
  BY <1>1
<1>3. IsInjective(cards')
  <2> SUFFICES ASSUME NEW i \in DOMAIN cards', NEW j \in DOMAIN cards', cards'[i] = cards'[j]
               PROVE  i = j
    BY DEF IsInjective
  <2>1. CASE i \in DOMAIN cards /\ j \in DOMAIN cards
    BY <1>1, <1>2, <2>1 DEF IsInjective
  <2>2. CASE i \notin DOMAIN cards /\ j \notin DOMAIN cards
    BY <1>2, <2>2
  <2>3. CASE i \in DOMAIN cards /\ j \notin DOMAIN cards
    <3>1. j = Len(cards) + 1 /\ cards[i] = s
      BY <1>2, <2>3
    <3>2. QED
      BY <1>1, <2>3, <3>1 DEF ToSet
  <2>4. CASE i \notin DOMAIN cards /\ j \in DOMAIN cards
    <3>1. i = Len(cards) + 1 /\ cards[j] = s
      BY <1>2, <2>4
    <3>2. QED
      BY <1>1, <2>4, <3>1 DEF ToSet
  <2>5. QED
    BY <2>1, <2>2, <2>3, <2>4
<1>4. ToSet(cards) \subseteq ToSet(cards')
  <2>1. \A i \in DOMAIN cards : i \in DOMAIN cards' /\ cards'[i] = cards[i]
    BY <1>2
  <2>2. QED
    BY <2>1 DEF ToSet
<1>5. QED
  BY <1>1, <1>2, <1>3, <1>4

\* A card that is taken out takes its objects along, and only those.
LEMMA RemoveStep ==
    ASSUME IInv, NEW n \in DOMAIN cards, RemoveCard(n)
    PROVE  /\ cards' \in Seq(Storages) /\ IsInjective(cards')
           /\ objects' \subseteq {h \in Handles : StorageOf[h] \in ToSet(cards')}
<1> DEFINE Old(k) == IF k < n THEN k ELSE k + 1
<1>1. /\ cards \in Seq(Storages) /\ IsInjective(cards)
      /\ objects \subseteq {h \in Handles : StorageOf[h] \in ToSet(cards)}
      /\ cards' = SubSeq(cards, 1, n - 1) \o SubSeq(cards, n + 1, Len(cards))
      /\ objects' = {h \in objects : StorageOf[h] # cards[n]}
  BY DEF IInv, TypeOK, RemoveCard, RemoveAt
<1>2. Len(cards) \in Nat /\ DOMAIN cards = 1..Len(cards) /\ n \in 1..Len(cards)
  BY <1>1
<1>3. /\ cards' \in Seq(Storages)
      /\ DOMAIN cards' = 1..(Len(cards) - 1)
      /\ \A k \in 1..(Len(cards) - 1) : cards'[k] = cards[Old(k)]
  <2> DEFINE front == SubSeq(cards, 1, n - 1)
             back == SubSeq(cards, n + 1, Len(cards))
  <2>1. /\ front \in Seq(Storages) /\ Len(front) = n - 1
        /\ \A k \in 1..(n - 1) : front[k] = cards[k]
    BY <1>1, <1>2
  <2>2. /\ back \in Seq(Storages) /\ Len(back) = Len(cards) - n
        /\ \A k \in 1..(Len(cards) - n) : back[k] = cards[n + k]
    <3>1. \A k \in (n + 1)..Len(cards) : cards[k] \in Storages
      BY <1>1, <1>2
    <3>2. n + 1 \in 1..(Len(cards) + 1) /\ Len(cards) \in n..Len(cards)
      BY <1>2
    <3>3. QED
      BY <1>1, <1>2, <3>1, <3>2, SubSeqProperties
  <2>3. cards' = front \o back
    BY <1>1
  <2> HIDE DEF front, back
  <2>4. /\ front \o back \in Seq(Storages)
        /\ Len(front \o back) = Len(front) + Len(back)
        /\ \A i \in 1..(Len(front) + Len(back)) :
              (front \o back)[i] = IF i <= Len(front) THEN front[i] ELSE back[i - Len(front)]
    <3>1. front \in Seq(Storages) /\ back \in Seq(Storages)
      BY <2>1, <2>2
    <3>2. QED
      BY <3>1, ConcatProperties
  <2>5. /\ cards' \in Seq(Storages) /\ Len(cards') = Len(cards) - 1
        /\ DOMAIN cards' = 1..(Len(cards) - 1)
    <3>1. cards' \in Seq(Storages) /\ Len(cards') = (n - 1) + (Len(cards) - n)
      <4>1. Len(front) = n - 1 /\ Len(back) = Len(cards) - n
        BY <2>1, <2>2
      <4>2. QED
        BY <2>3, <2>4, <4>1
    <3>2. (n - 1) + (Len(cards) - n) = Len(cards) - 1
      BY <1>2
    <3>3. DOMAIN cards' = 1..Len(cards')
      BY <3>1, LenProperties
    <3>4. QED
      BY <3>1, <3>2, <3>3
  <2>6. ASSUME NEW k \in 1..(Len(cards) - 1) PROVE cards'[k] = cards[Old(k)]
    <3>1. Len(front) = n - 1 /\ Len(back) = Len(cards) - n
      BY <2>1, <2>2
    <3>2. k \in 1..((n - 1) + (Len(cards) - n))
      BY <1>2
    <3>3. cards'[k] = IF k <= n - 1 THEN front[k] ELSE back[k - (n - 1)]
      BY <2>3, <2>4, <3>1, <3>2
    <3>4. CASE k < n
      <4>1. k \in 1..(n - 1) /\ k <= n - 1
        BY <1>2, <3>4
      <4>2. front[k] = cards[k]
        BY <2>1, <4>1
      <4>3. QED
        BY <3>3, <3>4, <4>1, <4>2
    <3>5. CASE ~(k < n)
      <4>1. /\ k - (n - 1) \in 1..(Len(cards) - n) /\ n + (k - (n - 1)) = k + 1
            /\ ~(k <= n - 1)
        BY <1>2, <3>5
      <4>2. back[k - (n - 1)] = cards[n + (k - (n - 1))]
        BY <2>2, <4>1
      <4>3. QED
        BY <3>3, <3>5, <4>1, <4>2
    <3>6. QED
      BY <3>4, <3>5
  <2>7. QED
    BY <2>5, <2>6
<1>4. \A k \in 1..(Len(cards) - 1) : Old(k) \in DOMAIN cards
  BY <1>2
<1>5. IsInjective(cards')
  <2> SUFFICES ASSUME NEW i \in DOMAIN cards', NEW j \in DOMAIN cards', cards'[i] = cards'[j]
               PROVE  i = j
    BY DEF IsInjective
  <2>1. Old(i) = Old(j)
    BY <1>1, <1>3, <1>4 DEF IsInjective
  <2>2. QED
    BY <1>2, <1>3, <2>1
<1>6. ASSUME NEW h \in objects' PROVE h \in Handles /\ StorageOf[h] \in ToSet(cards')
  <2>1. PICK i \in DOMAIN cards : StorageOf[h] = cards[i] /\ i # n
    BY <1>1, <1>6 DEF ToSet
  <2>2. \E k \in 1..(Len(cards) - 1) : Old(k) = i
    <3>1. CASE i < n
      BY <1>2, <2>1, <3>1
    <3>2. CASE i > n
      <4>1. i - 1 \in 1..(Len(cards) - 1) /\ Old(i - 1) = i
        BY <1>2, <2>1, <3>2
      <4>2. QED
        BY <4>1
    <3>3. QED
      BY <1>2, <2>1, <3>1, <3>2
  <2>3. StorageOf[h] \in ToSet(cards')
    BY <1>3, <2>1, <2>2 DEF ToSet
  <2>4. QED
    BY <1>1, <1>6, <2>3
<1>7. QED
  BY <1>3, <1>5, <1>6

LEMMA ContentsStep == IInv /\ Contents => IInv'
<1> SUFFICES ASSUME IInv, Contents PROVE IInv'
  OBVIOUS
<1>1. UNCHANGED <<counted, pc, default, sid, known, there, out, outcome, calls>>
  BY DEF Contents
<1>2. ASSUME NEW s \in Storages, InsertCard(s) PROVE IInv'
  BY <1>1, <1>2, InsertStep, ContentsKeeps
<1>3. ASSUME NEW n \in DOMAIN cards, RemoveCard(n) PROVE IInv'
  BY <1>1, <1>3, RemoveStep, ContentsKeeps
<1>4. ASSUME NEW h \in Handles, AddObject(h) PROVE IInv'
  <2>1. /\ cards' \in Seq(Storages) /\ IsInjective(cards')
        /\ objects' \subseteq {g \in Handles : StorageOf[g] \in ToSet(cards')}
    BY <1>4 DEF IInv, TypeOK, AddObject, IsInjective, ToSet
  <2>2. QED
    BY <1>1, <2>1, ContentsKeeps
<1>5. QED
  BY <1>2, <1>3, <1>4 DEF Contents

LEMMA NextIInv == IInv /\ [Next]_vars => IInv'
<1> SUFFICES ASSUME IInv, [Next]_vars PROVE IInv'
  OBVIOUS
<1>1. CASE UNCHANGED vars
  BY <1>1 DEF vars, camera, IInv, TypeOK, IsInjective, ToSet, CountedListIsExact,
              BareListIsExact, WildReadCause, Returned
<1>2. CASE ListAll
  <2>1. AllStorages \in Words
    BY ListingAssumption DEF ListingAssumption, AllStorages, Words
  <2>2. QED
    BY <1>2, <2>1, BeginStep DEF ListAll
<1>3. CASE \E s \in Storages : ListStorage(s)
  BY <1>3, BeginStep, HandlesAreWords DEF ListStorage
<1>4. QED
  BY <1>1, <1>2, <1>3, GetStoragesStep, GetHandlesStep, ThrowStep, ContentsStep DEF Next

-----------------------------------------------------------------------------

\* The state of a listing, and what its last two answers were.
THEOREM Invariance == Spec => []IInv
<1>1. QED
  BY InitIInv, NextIInv, PTL DEF Spec

\* Every variable has its type: a storage that is asked for is a word, even where
\* it is the count of the storages.
THEOREM TypeCorrect == Spec => []TypeOK
<1>1. IInv => TypeOK
  BY DEF IInv
<1>2. QED
  BY <1>1, Invariance, PTL

\* get_object_handles returns what the camera listed, unless the first handle of
\* a bare list passes for the count of a list that is no longer than itself.
THEOREM ExactListing == Spec => []ListIsExact
<1>1. IInv => ListIsExact
  BY DEF IInv, ListIsExact
<1>2. QED
  BY <1>1, Invariance, PTL

\* The loop over a counted array reads past the payload only for a bare list
\* whose first handle wraps the size.
THEOREM WildReadByWrap == Spec => []WildReadCause
<1>1. IInv => WildReadCause
  BY DEF IInv
<1>2. QED
  BY <1>1, Invariance, PTL

=============================================================================
