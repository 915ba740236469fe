-------------------------- MODULE EncodingsProofs --------------------------
(***************************************************************************)
(* Proofs about the three ways of coding that MCEncodings puts side by     *)
(* side: blobs (FocusGroup), tables of exposure values (Apex), and the     *)
(* settings groups (GroupSettings).                                        *)
(*                                                                         *)
(* Blobs.  A payload of the camera's is found where its entry says: in the *)
(* entry, or behind the payloads of the items before (DataGrows, LongIs),  *)
(* which later items only add to.  Whatever a blob was cut to, an entry is *)
(* either not read or read whole, and from inside the blob (ReadIsWhole).  *)
(* Since no two members share a tag, a member is then what its one entry   *)
(* makes of it (DecodeCut, ConfigCut).  The invariant says how long the    *)
(* camera's and the application's bytes can get (Camera, Application), so  *)
(* that no sum wraps in a blob that either of them makes; an entry that    *)
(* the camera points elsewhere is read outside of its blob only if the sum *)
(* of offset and size wraps (OddWildRead).                                 *)
(*                                                                         *)
(* Tables, without repetitions, and any values.  What the application      *)
(* holds is an entry that is nearest to the value it asked for, or has the *)
(* very value that its code was decoded to (Held); two values that are     *)
(* nearest to different entries are in the order of these (Crossing).      *)
(*                                                                         *)
(* Settings groups.  Items that a mask announces do not overlap, nor do    *)
(* the members of an item (PlacesDiffer), so each byte of a payload is     *)
(* found in its place (ByteFound), and decode(), which orders items in its *)
(* own ways, starts those of the camera's in the same places (SameStart).  *)
(* The rest is what is left of a value in its bytes (KeptIs, WrittenBack,  *)
(* Arrives), and that after get_group an object shows the camera           *)
(* (SettingsShown).                                                        *)
(***************************************************************************)
EXTENDS MCEncodings, SequenceTheorems, FiniteSetTheorems, WellFoundedInduction, TLAPS

-----------------------------------------------------------------------------
(***************************************************************************)
(* Members and their tags.                                                 *)
(***************************************************************************)

\* The eleven members.
LEMMA MembersAre ==
    Members = {"focusMode", "afLock", "faceEyeAF", "faceEyeAFStatus", "focusArea",
               "onePointSelection", "dmfSize", "dmfPos", "dmfDetection", "preConstAF",
               "focusLimit"}
  BY DEF Members, TagOf

\* No two members share a tag.
LEMMA TagsDiffer ==
    /\ \A m \in Members : TagOf[m] \in 1..82
    /\ \A m, x \in Members : TagOf[m] = TagOf[x] => m = x
  BY MembersAre DEF TagOf

\* There are so many members at most.
LEMMA MembersFinite == IsFiniteSet(Members) /\ Cardinality(Members) <= 11
<1> DEFINE f == [k \in 1..11 |->
                   CASE k = 1 -> "focusMode" [] k = 2 -> "afLock" [] k = 3 -> "faceEyeAF"
                     [] k = 4 -> "faceEyeAFStatus" [] k = 5 -> "focusArea"
                     [] k = 6 -> "onePointSelection" [] k = 7 -> "dmfSize"
                     [] k = 8 -> "dmfPos" [] k = 9 -> "dmfDetection"
                     [] k = 10 -> "preConstAF" [] OTHER -> "focusLimit"]
<1>2. f \in [1..11 -> Members]
  BY MembersAre
<1>3. \A m \in Members : \E k \in 1..11 : f[k] = m
  <2>1. /\ f[1] = "focusMode" /\ f[2] = "afLock" /\ f[3] = "faceEyeAF"
        /\ f[4] = "faceEyeAFStatus" /\ f[5] = "focusArea" /\ f[6] = "onePointSelection"
        /\ f[7] = "dmfSize" /\ f[8] = "dmfPos" /\ f[9] = "dmfDetection"
        /\ f[10] = "preConstAF" /\ f[11] = "focusLimit"
    OBVIOUS
  <2>2. \A k \in {1, 2, 3, 4, 5, 6, 7, 8, 9, 10, 11} : k \in 1..11
    OBVIOUS
  <2> HIDE DEF f
  <2>3. QED
    BY <2>1, <2>2, MembersAre
<1> HIDE DEF f
<1>4. f \in Surjection(1..11, Members)
  BY <1>2, <1>3 DEF Surjection
<1>5. IsFiniteSet(1..11) /\ Cardinality(1..11) = 11
  <2>1. /\ IsFiniteSet(1..11)
        /\ Cardinality(1..11) = IF 1 > 11 THEN 0 ELSE 11 - 1 + 1
    <3>1. 1 \in Int /\ 11 \in Int
      OBVIOUS
    <3>2. QED
      BY <3>1, FS_Interval, Zenon
  <2>2. QED
    BY <2>1
<1>6. QED
  BY <1>4, <1>5, FS_Surjection

-----------------------------------------------------------------------------
(***************************************************************************)
(* Members in the order of their tags.                                     *)
(***************************************************************************)

Place(S, m) == Cardinality({x \in S : TagOf[x] <= TagOf[m]})

\* So every set of members is finite.
LEMMA SubsetFinite ==
    ASSUME NEW S \in SUBSET Members
    PROVE  IsFiniteSet(S) /\ Cardinality(S) \in 0..11
<1>1. IsFiniteSet(S) /\ Cardinality(S) <= Cardinality(Members)
  BY MembersFinite, FS_Subset, Zenon
<1>2. Cardinality(S) \in Nat /\ Cardinality(Members) \in Nat
  BY <1>1, MembersFinite, FS_CardinalityType, Zenon
<1>3. QED
  BY <1>1, <1>2, MembersFinite

\* Every place is taken once.
LEMMA Places ==
    ASSUME NEW S \in SUBSET Members
    PROVE  /\ \A m \in S : Place(S, m) \in 1..Cardinality(S)
           /\ \A m, x \in S : Place(S, m) = Place(S, x) => m = x
           /\ \A k \in 1..Cardinality(S) : \E m \in S : Place(S, m) = k
<1> DEFINE Upto(m) == {x \in S : TagOf[x] <= TagOf[m]}
<1>1. ASSUME NEW m \in S
      PROVE  /\ Upto(m) \in SUBSET S /\ m \in Upto(m) /\ IsFiniteSet(Upto(m))
             /\ Cardinality(Upto(m)) \in 1..Cardinality(S)
  <2>1. Upto(m) \in SUBSET S /\ m \in Upto(m)
    BY TagsDiffer
  <2>2. IsFiniteSet(S) /\ Cardinality(S) \in Nat
    BY SubsetFinite
  <2>3. IsFiniteSet(Upto(m)) /\ Cardinality(Upto(m)) <= Cardinality(S)
    BY <2>1, <2>2, FS_Subset, Zenon
  <2>4. Cardinality(Upto(m)) \in Nat
    BY <2>3, FS_CardinalityType, Zenon
  <2>5. Cardinality(Upto(m)) # 0
    BY <2>1, <2>3, FS_EmptySet, Zenon
  <2>6. QED
    BY <2>1, <2>2, <2>3, <2>4, <2>5
<1>2. ASSUME NEW m \in S, NEW x \in S, TagOf[m] < TagOf[x]
      PROVE  Cardinality(Upto(m)) # Cardinality(Upto(x))
  <2>1. Upto(m) \in SUBSET Upto(x) /\ x \notin Upto(m) /\ x \in Upto(x)
    <3>1. \A y \in S : TagOf[y] \in Int
      BY TagsDiffer
    <3>2. QED
      BY <1>2, <3>1
  <2>2. IsFiniteSet(Upto(x))
    BY <1>1
  <2>3. Cardinality(Upto(x)) = Cardinality(Upto(m)) => Upto(x) = Upto(m)
    BY <2>1, <2>2, FS_Subset, Zenon
  <2>4. QED
    BY <2>1, <2>3, Zenon
<1>3. ASSUME NEW m \in S, NEW x \in S, Cardinality(Upto(m)) = Cardinality(Upto(x))
      PROVE  m = x
  <2>1. ~(TagOf[m] < TagOf[x]) /\ ~(TagOf[x] < TagOf[m])
    BY <1>2, <1>3
  <2>2. TagOf[m] = TagOf[x]
    <3>1. TagOf[m] \in Int /\ TagOf[x] \in Int
      BY TagsDiffer
    <3>2. QED
      BY <2>1, <3>1
  <2>3. QED
    BY <2>2, TagsDiffer
<1> DEFINE f == [m \in S |-> Cardinality(Upto(m))]
<1>4. f \in Injection(S, 1..Cardinality(S))
  <2>1. f \in [S -> 1..Cardinality(S)]
    BY <1>1
  <2>2. \A m, x \in S : f[m] = f[x] => m = x
    BY <1>3
  <2> HIDE DEF f
  <2>3. QED
    BY <2>1, <2>2 DEF Injection, IsInjective
<1>5. IsFiniteSet(1..Cardinality(S)) /\ Cardinality(1..Cardinality(S)) = Cardinality(S)
  <2>1. Cardinality(S) \in Nat
    BY SubsetFinite
  <2>2. /\ IsFiniteSet(1..Cardinality(S))
        /\ Cardinality(1..Cardinality(S)) = IF 1 > Cardinality(S) THEN 0 ELSE Cardinality(S) - 1 + 1
    <3>1. 1 \in Int /\ Cardinality(S) \in Int
      BY <2>1
    <3>2. QED
      BY <3>1, FS_Interval, Zenon
  <2>3. QED
    BY <2>1, <2>2
<1>6. f \in Surjection(S, 1..Cardinality(S))
  <2> HIDE DEF f
  <2>1. QED
    BY <1>4, <1>5, FS_Injection, Zenon
<1>7. \A k \in 1..Cardinality(S) : \E m \in S : f[m] = k
  <2> HIDE DEF f
  <2>1. QED
    BY <1>6 DEF Surjection
<1>8. QED
  BY <1>1, <1>3, <1>7 DEF Place

\* The members of a set, each once.
LEMMA InOrder ==
    ASSUME NEW S \in SUBSET Members
    PROVE  /\ InTagOrder(S) \in [1..Cardinality(S) -> S]
           /\ \A m \in S : \E k \in 1..Cardinality(S) : InTagOrder(S)[k] = m
           /\ \A j, k \in 1..Cardinality(S) :
                 InTagOrder(S)[j] = InTagOrder(S)[k] => j = k
<1> DEFINE s == InTagOrder(S)
<1>1. s = [k \in 1..Cardinality(S) |-> CHOOSE m \in S : Place(S, m) = k]
  BY DEF InTagOrder, Place
<1> HIDE DEF s
<1>2. ASSUME NEW k \in 1..Cardinality(S)
      PROVE  s[k] \in S /\ Place(S, s[k]) = k
  <2>1. \E m \in S : Place(S, m) = k
    BY Places
  <2>2. s[k] = CHOOSE m \in S : Place(S, m) = k
    BY <1>1
  <2>3. QED
    BY <2>1, <2>2, Zenon
<1>3. s \in [1..Cardinality(S) -> S]
  <2>1. s = [k \in 1..Cardinality(S) |-> s[k]]
    BY <1>1
  <2>2. QED
    BY <1>2, <2>1
<1>4. ASSUME NEW m \in S
      PROVE  \E k \in 1..Cardinality(S) : s[k] = m
  <2>1. Place(S, m) \in 1..Cardinality(S)
    BY Places
  <2>2. PICK k \in 1..Cardinality(S) : k = Place(S, m)
    BY <2>1
  <2>3. s[k] \in S /\ Place(S, s[k]) = Place(S, m)
    BY <1>2, <2>2
  <2>4. s[k] = m
    BY <2>3, Places
  <2>5. QED
    BY <2>4
<1>5. \A j, k \in 1..Cardinality(S) : s[j] = s[k] => j = k
  BY <1>2
<1>6. QED
  BY <1>3, <1>4, <1>5 DEF s

\* A member has one place in the order.
LEMMA PlacedOnce ==
    ASSUME NEW S \in SUBSET Members,
           NEW j \in 1..Cardinality(S), NEW k \in 1..Cardinality(S),
           InTagOrder(S)[j] = InTagOrder(S)[k]
    PROVE  j = k
  BY InOrder, Zenon

-----------------------------------------------------------------------------
(***************************************************************************)
(* The data of a camera's blob.                                            *)
(***************************************************************************)

\* The least of some numbers.
LEMMA Least ==
    ASSUME NEW S, S \subseteq Nat, S # {}
    PROVE  \E m \in S : \A k \in S : m <= k
<1> DEFINE R == {ss \in Nat \X Nat : ss[1] < ss[2]}
<1>1. IsWellFoundedOn(R, Nat)
  BY NatLessThanWellFounded, Zenon DEF OpToRel
<1>2. \A k, m \in Nat : k < m => <<k, m>> \in R
  OBVIOUS
<1> HIDE DEF R
<1>3. \E m \in S : \A k \in S : ~(<<k, m>> \in R)
  BY <1>1, WFMin, Zenon
<1>4. \E m \in S : \A k \in S : ~(k < m)
  BY <1>2, <1>3, Zenon
<1>5. QED
  BY <1>4

Joined(d, items, k) == d[k - 1] \o Outside(items[k])

IsData(items, n, d) ==
    d = [k \in 0..n |-> IF k = 0 THEN <<>> ELSE Joined(d, items, k)]

\* The recursion has an answer.
LEMMA DataExists ==
    ASSUME NEW items, NEW n \in Nat
    PROVE  \E d : IsData(items, n, d)
<1> DEFINE Bad == {k \in Nat : ~ \E d : IsData(items, k, d)}
<1>1. CASE Bad = {}
  BY <1>1
<1>2. CASE Bad # {}
  <2>1. PICK b \in Bad : \A k \in Bad : b <= k
    BY <1>2, Least
  <2>2. CASE b = 0
    <3>1. IsData(items, 0, [k \in 0..0 |-> <<>>])
      BY DEF IsData
    <3>2. QED
      BY <2>1, <2>2, <3>1
  <2>3. CASE b # 0
    <3>1. b - 1 \in Nat /\ b - 1 \notin Bad
      BY <2>1, <2>3
    <3>2. PICK d : IsData(items, b - 1, d)
      BY <3>1
    <3> DEFINE e == [k \in 0..b |-> IF k = 0 THEN <<>> ELSE Joined(d, items, k)]
    <3>3. \A k \in 0..(b - 1) : e[k] = d[k]
      BY <3>1, <3>2 DEF IsData
    <3>4. ASSUME NEW k \in 0..b, k # 0
          PROVE  Joined(d, items, k) = Joined(e, items, k)
      <4>1. k - 1 \in 0..(b - 1)
        BY <2>1, <3>4
      <4>2. e[k - 1] = d[k - 1]
        BY <3>3, <4>1
      <4> HIDE DEF e
      <4>3. QED
        BY <4>2 DEF Joined
    <3>5. e = [k \in 0..b |-> IF k = 0 THEN <<>> ELSE Joined(e, items, k)]
      <4>1. \A k \in 0..b : (IF k = 0 THEN <<>> ELSE Joined(d, items, k))
                              = (IF k = 0 THEN <<>> ELSE Joined(e, items, k))
        BY <3>4
      <4>2. e = [k \in 0..b |-> IF k = 0 THEN <<>> ELSE Joined(d, items, k)]
        OBVIOUS
      <4> HIDE DEF e
      <4>3. QED
        BY <4>1, <4>2, Zenon
    <3>6. IsData(items, b, e)
      <4> HIDE DEF e
      <4>1. QED
        BY <3>5 DEF IsData
    <3>7. QED
      BY <2>1, <3>6
  <2>4. QED
    BY <2>2, <2>3
<1>3. QED
  BY <1>1, <1>2

\* A payload as long as its entry says, and of a length that some member or some
\* field has.
Proper(it) ==
    /\ it.bytes \in Seq(Byte) /\ Len(it.bytes) <= 8
    /\ PayloadSize(it) = Len(it.bytes)

ProperItems(items) ==
    /\ Len(items) \in 0..11 /\ DOMAIN items = 1..Len(items)
    /\ \A k \in 1..Len(items) : Proper(items[k])

\* DataOf is that answer: the data after k items.
LEMMA DataIs ==
    ASSUME NEW items, ProperItems(items)
    PROVE  /\ DataOf(items)[0] = <<>>
           /\ \A k \in 1..Len(items) : DataOf(items)[k] = Joined(DataOf(items), items, k)
<1>1. Len(items) \in Nat
  BY DEF ProperItems
<1>2. \E d : IsData(items, Len(items), d)
  BY <1>1, DataExists
<1>3. IsData(items, Len(items), DataOf(items))
  BY <1>2 DEF DataOf, IsData, Joined
<1>4. QED
  BY <1>1, <1>3 DEF IsData

\* What an item has behind the index: its payload, or nothing.
LEMMA OutsideTyped ==
    ASSUME NEW it, Proper(it)
    PROVE  Outside(it) \in Seq(Byte) /\ Len(Outside(it)) \in 0..8
<1>1. <<>> \in Seq(Byte) /\ Len(<<>>) = 0
  OBVIOUS
<1>2. Len(it.bytes) \in Nat
  BY DEF Proper
<1>3. CASE Len(it.bytes) > 4
  <2>1. Outside(it) = it.bytes
    BY <1>3 DEF Outside
  <2>2. it.bytes \in Seq(Byte) /\ Len(it.bytes) <= 8
    BY DEF Proper
  <2>3. Len(Outside(it)) = Len(it.bytes) /\ Outside(it) \in Seq(Byte)
    BY <2>1, <2>2, Zenon
  <2>4. Len(it.bytes) \in 0..8
    <3>1. PICK n \in Nat : n = Len(it.bytes)
      BY <1>2
    <3>2. n <= 8
      BY <2>2, <3>1, Zenon
    <3>3. n \in 0..8
      BY ONLY <3>2, n \in Nat
    <3>4. QED
      BY <3>1, <3>3, Zenon
  <2>5. QED
    BY <2>3, <2>4, Zenon
<1>4. CASE ~(Len(it.bytes) > 4)
  <2>1. Outside(it) = <<>>
    BY <1>4 DEF Outside
  <2>2. QED
    BY <1>1, <2>1
<1>5. QED
  BY <1>3, <1>4

\* Two sequences of bytes, one behind the other.
LEMMA BytesJoined ==
    ASSUME NEW s \in Seq(Byte), NEW t \in Seq(Byte)
    PROVE  \E r \in Seq(Byte) :
              /\ r = s \o t /\ Len(r) = Len(s) + Len(t)
              /\ \A p \in 1..Len(s) : r[p] = s[p]
              /\ \A p \in 1..Len(t) : r[Len(s) + p] = t[p]
<1>1. s \o t \in Seq(Byte)
  BY ConcatProperties, Zenon
<1>2. Len(s \o t) = Len(s) + Len(t)
  BY ConcatProperties, Zenon
<1>3. \A p \in 1..(Len(s) + Len(t)) : (s \o t)[p] = IF p <= Len(s) THEN s[p] ELSE t[p - Len(s)]
  BY ConcatProperties, Zenon
<1>4. PICK r \in Seq(Byte) : r = s \o t
  BY <1>1
<1>5. Len(r) = Len(s) + Len(t)
  BY <1>2, <1>4
<1>6. \A p \in 1..(Len(s) + Len(t)) : r[p] = IF p <= Len(s) THEN s[p] ELSE t[p - Len(s)]
  BY <1>3, <1>4, Zenon
<1>7. Len(s) \in Nat /\ Len(t) \in Nat
  OBVIOUS
<1>8. ASSUME NEW p \in 1..Len(s) PROVE r[p] = s[p]
  <2>1. p \in 1..(Len(s) + Len(t)) /\ p <= Len(s)
    BY ONLY <1>7, p \in 1..Len(s)
  <2>2. QED
    BY <1>6, <2>1, Zenon
<1>9. ASSUME NEW p \in 1..Len(t) PROVE r[Len(s) + p] = t[p]
  <2>1. PICK q \in Nat : q = Len(s) + p
    BY <1>7
  <2>2. q \in 1..(Len(s) + Len(t)) /\ ~(q <= Len(s)) /\ q - Len(s) = p
    BY ONLY <1>7, <2>1, p \in 1..Len(t)
  <2>3. QED
    BY <1>6, <2>1, <2>2, Zenon
<1>10. QED
  BY <1>4, <1>5, <1>8, <1>9, Zenon

\* The data after k items is the data before the last of them, and then its own.
DataStep(items, k) ==
    /\ DataOf(items)[k] \in Seq(Byte)
    /\ Len(DataOf(items)[k]) = Len(DataOf(items)[k - 1]) + Len(Outside(items[k]))
    /\ \A p \in 1..Len(DataOf(items)[k - 1]) : DataOf(items)[k][p] = DataOf(items)[k - 1][p]
    /\ \A p \in 1..Len(Outside(items[k])) :
          DataOf(items)[k][Len(DataOf(items)[k - 1]) + p] = Outside(items[k])[p]

\* Each item adds its own bytes behind those of the items before it.
LEMMA DataSteps ==
    ASSUME NEW items, ProperItems(items), NEW k \in 1..Len(items),
           DataOf(items)[k - 1] \in Seq(Byte)
    PROVE  DataStep(items, k)
<1>1. PICK before \in Seq(Byte) : before = DataOf(items)[k - 1]
  OBVIOUS
<1>2. Proper(items[k])
  BY DEF ProperItems
<1>3. PICK own \in Seq(Byte) : own = Outside(items[k])
  BY <1>2, OutsideTyped
<1>4. DataOf(items)[k] = before \o own
  BY <1>1, <1>3, DataIs, Zenon DEF Joined
<1>5. PICK after \in Seq(Byte) :
          /\ after = before \o own /\ Len(after) = Len(before) + Len(own)
          /\ \A p \in 1..Len(before) : after[p] = before[p]
          /\ \A p \in 1..Len(own) : after[Len(before) + p] = own[p]
  BY BytesJoined, Zenon
<1>6. DataOf(items)[k] = after
  BY <1>4, <1>5, Zenon
<1>7. QED
  BY <1>1, <1>3, <1>5, <1>6, Zenon DEF DataStep

\* The data is bytes, eight for each item at most.
LEMMA DataTyped ==
    ASSUME NEW items, ProperItems(items)
    PROVE  \A k \in 0..Len(items) :
              DataOf(items)[k] \in Seq(Byte) /\ Len(DataOf(items)[k]) <= 8 * k
<1> DEFINE d == DataOf(items)
           Fine(k) == d[k] \in Seq(Byte) /\ Len(d[k]) <= 8 * k
           Bad == {k \in 0..Len(items) : ~Fine(k)}
<1>1. Len(items) \in Nat
  BY DEF ProperItems
<1>2. CASE Bad = {}
  BY <1>2
<1>3. CASE Bad # {}
  <2>1. Bad \subseteq Nat
    OBVIOUS
  <2>2. PICK b \in Bad : \A k \in Bad : b <= k
    BY <1>3, <2>1, Least
  <2>3. Fine(0)
    <3>1. d[0] = <<>>
      BY DataIs
    <3> HIDE DEF d
    <3>2. QED
      BY <3>1
  <2>4. b \in 1..Len(items) /\ b - 1 \in 0..Len(items)
    BY <1>1, <2>2, <2>3
  <2>5. Fine(b - 1)
    BY <2>2, <2>4
  <2>6. d[b] \in Seq(Byte) /\ Len(d[b]) = Len(d[b - 1]) + Len(Outside(items[b]))
    BY <2>4, <2>5, DataSteps DEF DataStep
  <2>7. Len(Outside(items[b])) \in 0..8
    BY <2>4, OutsideTyped DEF ProperItems
  <2> HIDE DEF d
  <2>8. Len(d[b - 1]) \in Nat
    BY <2>5
  <2>9. Len(d[b]) <= 8 * b
    <3>1. PICK x \in Nat, y \in 0..8, i \in Nat :
              /\ x = Len(d[b - 1]) /\ y = Len(Outside(items[b])) /\ i = b
      BY <2>1, <2>2, <2>7, <2>8
    <3>2. x <= 8 * (i - 1)
      BY <2>5, <3>1, Zenon
    <3>3. Len(d[b]) = x + y
      BY <2>6, <3>1, Zenon
    <3>4. x + y <= 8 * i
      BY ONLY x \in Nat, y \in 0..8, i \in Nat, <3>2
    <3>5. QED
      BY <3>1, <3>3, <3>4, Zenon
  <2>10. QED
    BY <2>2, <2>6, <2>9
<1>4. QED
  BY <1>2, <1>3

\* Data is only ever added to.
LEMMA DataGrows ==
    ASSUME NEW items, ProperItems(items), NEW j \in 0..Len(items)
    PROVE  \A k \in j..Len(items) :
              /\ Len(DataOf(items)[j]) <= Len(DataOf(items)[k])
              /\ \A p \in 1..Len(DataOf(items)[j]) : DataOf(items)[k][p] = DataOf(items)[j][p]
<1> DEFINE d == DataOf(items)
           Fine(k) == /\ Len(d[j]) <= Len(d[k])
                      /\ \A p \in 1..Len(d[j]) : d[k][p] = d[j][p]
           Bad == {k \in j..Len(items) : ~Fine(k)}
<1>1. Len(items) \in Nat
  BY DEF ProperItems
<1>2. CASE Bad = {}
  BY <1>2
<1>3. CASE Bad # {}
  <2>1. Bad \subseteq Nat
    BY <1>1
  <2>2. PICK b \in Bad : \A k \in Bad : b <= k
    BY <1>3, <2>1, Least
  <2>3. \A k \in 0..Len(items) : d[k] \in Seq(Byte) /\ Len(d[k]) \in Nat
    <3>1. \A k \in 0..Len(items) : d[k] \in Seq(Byte)
      BY DataTyped
    <3> HIDE DEF d
    <3>2. QED
      BY <3>1
  <2>4. Fine(j)
    BY <2>3
  <2>5. b \in 1..Len(items) /\ b - 1 \in j..Len(items) /\ b - 1 \in 0..Len(items)
    BY <1>1, <2>2, <2>4
  <2>6. Fine(b - 1)
    BY <2>2, <2>5
  <2>7. /\ Len(d[b]) = Len(d[b - 1]) + Len(Outside(items[b]))
        /\ \A p \in 1..Len(d[b - 1]) : d[b][p] = d[b - 1][p]
    <3>1. d[b - 1] \in Seq(Byte)
      BY <2>3, <2>5, Zenon
    <3>2. QED
      <4>1. DataStep(items, b)
        BY <2>5, <3>1, DataSteps, Zenon
      <4>2. QED
        BY <4>1, Zenon DEF DataStep
  <2>8. Len(Outside(items[b])) \in 0..8
    BY <2>5, OutsideTyped DEF ProperItems
  <2> HIDE DEF d
  <2>9. Len(d[b]) \in Nat /\ Len(d[b - 1]) \in Nat /\ Len(d[j]) \in Nat
    BY <2>3, <2>5
  <2>10. Fine(b)
    <3>1. Len(d[j]) <= Len(d[b])
      <4>1. PICK x \in Nat, y \in Nat, z \in 0..8 :
                x = Len(d[j]) /\ y = Len(d[b - 1]) /\ z = Len(Outside(items[b]))
        BY <2>8, <2>9
      <4>2. x <= y
        BY <2>6, <4>1, Zenon
      <4>3. Len(d[b]) = y + z
        BY <2>7, <4>1, Zenon
      <4>4. x <= y + z
        BY ONLY <4>2, x \in Nat, y \in Nat, z \in 0..8
      <4>5. QED
        BY <4>1, <4>3, <4>4, Zenon
    <3>2. ASSUME NEW p \in 1..Len(d[j]) PROVE d[b][p] = d[j][p]
      <4>1. p \in 1..Len(d[b - 1])
        BY <2>6, <2>9
      <4>2. QED
        BY <2>6, <2>7, <4>1
    <3>3. QED
      BY <3>1, <3>2
  <2>11. QED
    BY <2>2, <2>10
<1>4. QED
  BY <1>2, <1>3

-----------------------------------------------------------------------------
(***************************************************************************)
(* Payloads of up to four bytes.                                           *)
(***************************************************************************)

\* The beginning of two joined sequences is the first of them.
LEMMA Beginning ==
    ASSUME NEW s \in Seq(Byte), NEW n \in 0..Len(s)
    PROVE  /\ SubSeq(s, 1, n) \in Seq(Byte)
           /\ Len(SubSeq(s, 1, n)) = n
           /\ \A i \in 1..n : SubSeq(s, 1, n)[i] = s[i]
<1>1. Len(s) \in Nat /\ n \in Nat
  OBVIOUS
<1>2. SubSeq(s, 1, n) \in Seq(Byte)
  OBVIOUS
<1>3. Len(SubSeq(s, 1, n)) = n
  BY <1>1
<1>4. \A i \in 1..n : SubSeq(s, 1, n)[i] = s[i]
  BY <1>1
<1>5. QED
  BY <1>2, <1>3, <1>4

\* A payload of up to four bytes is found again in what it was filled up to.
LEMMA FilledUp ==
    ASSUME NEW p \in Seq(Byte), Len(p) <= 4
    PROVE  /\ FillUp(p) \in Seq(Byte) /\ Len(FillUp(p)) = 4
           /\ \A k \in 1..Len(p) : FillUp(p)[k] = p[k]
           /\ SubSeq(FillUp(p), 1, Len(p)) = p
<1>1. PICK z \in Seq(Byte) : z = <<0, 0, 0, 0>> /\ Len(z) = 4
  <2>1. <<0, 0, 0, 0>> \in Seq(Byte) /\ Len(<<0, 0, 0, 0>>) = 4
    BY DEF Byte
  <2>2. QED
    BY <2>1, Zenon
<1>2. PICK r \in Seq(Byte) :
          /\ r = p \o z /\ Len(r) = Len(p) + Len(z)
          /\ \A k \in 1..Len(p) : r[k] = p[k]
  BY BytesJoined, Zenon
<1>3. PICK n \in 0..4 : n = Len(p)
  <2>1. PICK n \in Nat : n = Len(p)
    BY LenProperties, Zenon
  <2>2. n \in 0..4
    BY <2>1
  <2>3. QED
    BY <2>1, <2>2, Zenon
<1>4. Len(r) = n + 4
  BY <1>1, <1>2, <1>3, Zenon
<1>5. 4 \in 0..Len(r)
  BY ONLY <1>4, n \in 0..4
<1>6. FillUp(p) = SubSeq(r, 1, 4)
  BY <1>1, <1>2, Zenon DEF FillUp
<1>7. PICK f \in Seq(Byte) : f = FillUp(p) /\ Len(f) = 4 /\ \A i \in 1..4 : f[i] = r[i]
  BY <1>5, <1>6, Beginning, Zenon
<1>8. \A k \in 1..n : k \in 1..4
  BY ONLY n \in 0..4
<1>9. \A k \in 1..n : f[k] = p[k]
  BY <1>2, <1>3, <1>7, <1>8, Zenon
<1>10. n \in 0..Len(f)
  BY ONLY <1>7, n \in 0..4
<1>11. PICK b \in Seq(Byte) :
           b = SubSeq(f, 1, n) /\ Len(b) = n /\ \A i \in 1..n : b[i] = f[i]
  BY <1>10, Beginning, Zenon
<1>12. b = p
  <2>1. Len(b) = Len(p) /\ \A i \in 1..Len(b) : b[i] = p[i]
    BY <1>3, <1>9, <1>11, Zenon
  <2>2. QED
    BY <2>1, SeqEqual, Zenon
<1>13. QED
  BY <1>3, <1>7, <1>9, <1>11, <1>12, Zenon

-----------------------------------------------------------------------------
(***************************************************************************)
(* A camera's blob.                                                        *)
(***************************************************************************)

CamValue(items, k) ==
    IF Len(items[k].bytes) <= 4 THEN FillUp(items[k].bytes)
    ELSE IndexSize(Len(items)) + Len(DataOf(items)[k - 1])

\* Entries, data and size of a blob that the camera makes.
LEMMA CamBlobIs ==
    ASSUME NEW items, ProperItems(items)
    PROVE  LET blob == CamBlob(items)  n == Len(items)
           IN /\ blob = [entries |-> blob.entries, data |-> blob.data, size |-> blob.size]
              /\ Len(blob.entries) = n /\ DOMAIN blob.entries = 1..n
              /\ blob.data = DataOf(items)[n]
              /\ blob.size = IndexSize(n) + Len(DataOf(items)[n])
              /\ \A k \in 1..n :
                    blob.entries[k] = [tag |-> items[k].tag, type |-> items[k].type,
                                       count |-> items[k].count, value |-> CamValue(items, k)]
<1> DEFINE n == Len(items)
           es == [k \in 1..n |-> [tag |-> items[k].tag, type |-> items[k].type,
                                  count |-> items[k].count, value |-> CamValue(items, k)]]
<1>1. n \in Nat /\ DOMAIN items = 1..n
  BY DEF ProperItems
<1>2. Len(es) = n
  BY <1>1
<1>3. CamBlob(items) = [entries |-> es, data |-> DataOf(items)[n],
                        size |-> IndexSize(Len(es)) + Len(DataOf(items)[n])]
  BY <1>1, Zenon DEF CamBlob, Blob, Entry, CamValue
<1>4. \A k \in 1..n : es[k] = [tag |-> items[k].tag, type |-> items[k].type,
                               count |-> items[k].count, value |-> CamValue(items, k)]
  BY Zenon
<1>5. DOMAIN es = 1..n
  BY Zenon
<1> HIDE DEF es
<1>6. QED
  BY <1>2, <1>3, <1>4, <1>5

-----------------------------------------------------------------------------
(***************************************************************************)
(* Reading it.                                                             *)
(***************************************************************************)

\* Sizes of an index and of such a blob, which are less than a word.
LEMMA Sizes ==
    ASSUME NEW items, ProperItems(items)
    PROVE  /\ IndexSize(Len(items)) \in Nat /\ IndexSize(Len(items)) >= 8
           /\ CamBlob(items).size \in Nat /\ CamBlob(items).size < WordSize
           /\ CamBlob(items).size >= IndexSize(Len(items))
<1>1. PICK n \in 0..11 : n = Len(items)
  BY DEF ProperItems
<1>2. IndexSize(Len(items)) = 8 + n * 12
  BY <1>1, Zenon DEF IndexSize
<1>3. n \in 0..Len(items)
  BY <1>1
<1>4. DataOf(items)[n] \in Seq(Byte) /\ Len(DataOf(items)[n]) <= 8 * n
  BY <1>3, DataTyped, Zenon
<1>5. PICK d \in Nat : d = Len(DataOf(items)[n])
  BY <1>4, LenProperties, Zenon
<1>6. d <= 8 * n
  BY <1>4, <1>5, Zenon
<1>7. CamBlob(items).size = 8 + n * 12 + d
  BY <1>1, <1>2, <1>5, CamBlobIs, Zenon
<1>8. /\ 8 + n * 12 \in Nat /\ 8 + n * 12 >= 8
      /\ 8 + n * 12 + d \in Nat /\ 8 + n * 12 + d < WordSize /\ 8 + n * 12 + d >= 8 + n * 12
  BY ONLY <1>6, n \in 0..11, d \in Nat, FocusAssumption
<1>9. QED
  BY <1>2, <1>7, <1>8, Zenon

\* Each entry has the size, the tag and the type of its item.
LEMMA EntrySized ==
    ASSUME NEW items, ProperItems(items), NEW k \in 1..Len(items)
    PROVE  /\ PayloadSize(CamBlob(items).entries[k]) = Len(items[k].bytes)
           /\ Inline(CamBlob(items).entries[k]) <=> Len(items[k].bytes) <= 4
           /\ CamBlob(items).entries[k].value = CamValue(items, k)
           /\ CamBlob(items).entries[k].tag = items[k].tag
           /\ CamBlob(items).entries[k].type = items[k].type
<1>1. Proper(items[k])
  BY DEF ProperItems
<1>2. PICK e : e = CamBlob(items).entries[k]
  OBVIOUS
<1>3. e = [tag |-> items[k].tag, type |-> items[k].type,
           count |-> items[k].count, value |-> CamValue(items, k)]
  BY <1>2, CamBlobIs, Zenon
<1>4. /\ e.tag = items[k].tag /\ e.type = items[k].type /\ e.count = items[k].count
      /\ e.value = CamValue(items, k)
  BY <1>3
<1>5. PayloadSize(e) = PayloadSize(items[k])
  BY <1>4, Zenon DEF PayloadSize
<1>6. PayloadSize(e) = Len(items[k].bytes)
  BY <1>1, <1>5, Zenon DEF Proper
<1>7. Inline(e) <=> Len(items[k].bytes) <= 4
  BY <1>6, Zenon DEF Inline
<1>8. QED
  BY <1>2, <1>4, <1>6, <1>7, Zenon

\* A blob with so many of its bytes.
LEMMA CutIs ==
    ASSUME NEW items, ProperItems(items), NEW s
    PROVE  /\ Cut(CamBlob(items), s).entries = CamBlob(items).entries
           /\ Cut(CamBlob(items), s).data = CamBlob(items).data
           /\ Cut(CamBlob(items), s).size = s
  BY CamBlobIs DEF Cut

\* Where a long payload is.
LEMMA LongIs ==
    ASSUME NEW items, ProperItems(items), NEW k \in 1..Len(items),
           ~(Len(items[k].bytes) <= 4)
    PROVE  \E v \in Nat :
              /\ v = CamValue(items, k) /\ v >= IndexSize(Len(items))
              /\ v + Len(items[k].bytes) <= CamBlob(items).size
              /\ \A p \in 1..Len(items[k].bytes) :
                    CamBlob(items).data[v + p - IndexSize(Len(items))] = items[k].bytes[p]
<1> DEFINE n == Len(items)
           d == DataOf(items)
           own == items[k].bytes
<1>1. n \in Nat /\ k \in 1..n /\ k - 1 \in 0..n /\ k \in 0..n /\ n \in k..n
  BY DEF ProperItems
<1>2. Outside(items[k]) = own
  BY DEF Outside, Proper, ProperItems
<1>3. d[k - 1] \in Seq(Byte) /\ d[k] \in Seq(Byte) /\ d[n] \in Seq(Byte)
  <2>1. n \in 0..n
    BY <1>1
  <2>2. QED
    BY <1>1, <2>1, DataTyped
<1>4. PICK x \in Nat, y \in Nat, z \in Nat, i \in Nat, l \in Nat :
          /\ x = Len(d[k - 1]) /\ y = Len(d[k]) /\ z = Len(d[n])
          /\ i = IndexSize(n) /\ l = Len(own)
  <2>1. own \in Seq(Byte)
    BY DEF Proper, ProperItems
  <2>2. /\ Len(d[k - 1]) \in Nat /\ Len(d[k]) \in Nat /\ Len(d[n]) \in Nat /\ Len(own) \in Nat
    BY <1>3, <2>1, LenProperties, Zenon
  <2>3. IndexSize(n) \in Nat
    BY Sizes
  <2>4. QED
    BY <2>2, <2>3, Zenon
<1>5. y = x + l /\ \A p \in 1..l : d[k][x + p] = own[p]
  <2>1. /\ Len(d[k]) = Len(d[k - 1]) + Len(Outside(items[k]))
        /\ \A p \in 1..Len(Outside(items[k])) : d[k][Len(d[k - 1]) + p] = Outside(items[k])[p]
    BY <1>1, <1>3, DataSteps, Zenon DEF DataStep
  <2>2. QED
    BY <1>2, <1>4, <2>1, Zenon
<1>6. y <= z /\ \A p \in 1..y : d[n][p] = d[k][p]
  BY <1>1, <1>4, DataGrows, Zenon
<1>7. CamValue(items, k) = i + x
  BY <1>4, Zenon DEF CamValue
<1>8. CamBlob(items).size = i + z /\ CamBlob(items).data = d[n]
  BY <1>4, CamBlobIs, Zenon
<1>9. PICK v \in Nat : v = i + x
  BY <1>4
<1>10. v >= i /\ v + l <= i + z
  BY ONLY <1>5, <1>6, <1>9, i \in Nat, x \in Nat, y \in Nat, z \in Nat, l \in Nat
<1>11. ASSUME NEW p \in 1..l PROVE CamBlob(items).data[v + p - i] = own[p]
  <2>1. PICK q \in Nat : q = x + p
    BY <1>4
  <2>2. v + p - i = q /\ q \in 1..y
    BY ONLY <1>5, <1>9, <2>1, i \in Nat, x \in Nat, y \in Nat, z \in Nat, l \in Nat, p \in 1..l
  <2>3. d[k][q] = own[p]
    BY <1>5, <2>1, Zenon
  <2>4. d[n][q] = d[k][q]
    BY <1>6, <2>2, Zenon
  <2>5. QED
    BY <1>8, <2>2, <2>3, <2>4, Zenon
<1>12. QED
  BY <1>4, <1>7, <1>8, <1>9, <1>10, <1>11, Zenon

\* What an entry of a cut blob is worth: if it is read at all, its payload is
\* whole.
LEMMA ReadIsWhole ==
    ASSUME NEW items, ProperItems(items), NEW s \in 0..CamBlob(items).size,
           NEW k \in ReadEntries(Cut(CamBlob(items), s))
    PROVE  LET blob == Cut(CamBlob(items), s)
           IN /\ k \in 1..Len(items)
              /\ Payload(blob, blob.entries[k]) = items[k].bytes
              /\ InBlob(blob, blob.entries[k])
<1>1. PICK blob : blob = Cut(CamBlob(items), s)
  OBVIOUS
<1>2. PICK n \in Nat : n = Len(items)
  <2>1. Len(items) \in Nat
    BY DEF ProperItems
  <2>2. QED
    BY <2>1, Zenon
<1>3. /\ blob.entries = CamBlob(items).entries /\ blob.data = CamBlob(items).data
      /\ blob.size = s
  BY <1>1, CutIs, Zenon
<1>4. Len(blob.entries) = n /\ DOMAIN blob.entries = 1..n
  BY <1>2, <1>3, CamBlobIs, Zenon
<1>5. k \in ReadEntries(blob)
  BY <1>1
<1>6. k \in 1..n /\ Accepted(blob, blob.entries[k])
  BY <1>4, <1>5 DEF ReadEntries
<1>7. PICK e : e = blob.entries[k] /\ e = CamBlob(items).entries[k]
  BY <1>3, Zenon
<1>8. PICK own \in Seq(Byte) : own = items[k].bytes
  BY <1>2, <1>6, Zenon DEF Proper, ProperItems
<1>9. PICK l \in Nat : l = Len(own)
  BY LenProperties, Zenon
<1>10. PayloadSize(e) = l /\ (Inline(e) <=> l <= 4) /\ e.value = CamValue(items, k)
  BY <1>2, <1>6, <1>7, <1>8, <1>9, EntrySized, Zenon
<1>11. CASE l <= 4
  <2>1. e.value = FillUp(own)
    BY <1>8, <1>9, <1>10, <1>11, Zenon DEF CamValue
  <2>2. SubSeq(e.value, 1, l) = own
    BY <1>9, <1>11, <2>1, FilledUp, Zenon
  <2>3. Payload(blob, e) = own
    BY <1>10, <1>11, <2>2, Zenon DEF Payload
  <2>4. InBlob(blob, e)
    BY <1>10, <1>11, Zenon DEF InBlob
  <2>5. QED
    BY <1>1, <1>2, <1>6, <1>7, <1>8, <2>3, <2>4, Zenon
<1>12. CASE ~(l <= 4)
  <2>1. PICK v \in Nat :
            /\ v = CamValue(items, k) /\ v >= IndexSize(n)
            /\ v + l <= CamBlob(items).size
            /\ \A p \in 1..l : CamBlob(items).data[v + p - IndexSize(n)] = own[p]
    BY <1>2, <1>6, <1>8, <1>9, <1>12, LongIs, Zenon
  <2>2. PICK i \in Nat, z \in Nat : i = IndexSize(n) /\ z = CamBlob(items).size /\ z < WordSize
    BY <1>2, Sizes
  <2>3. (v + l) % WordSize <= s
    BY <1>3, <1>6, <1>7, <1>10, <1>12, <2>1, Zenon DEF Accepted
  <2>4. v + l <= s
    <3>1. v + l <= z
      BY <2>1, <2>2, Zenon
    <3>2. v + l \in 0..(WordSize - 1)
      BY ONLY <2>2, <3>1, v \in Nat, l \in Nat, z \in Nat, FocusAssumption
    <3>3. (v + l) % WordSize = v + l
      BY ONLY <3>2, FocusAssumption
    <3>4. QED
      BY <2>3, <3>3, Zenon
  <2>5. InBlob(blob, e)
    BY <1>3, <1>10, <2>1, <2>4, Zenon DEF InBlob
  <2>6. ASSUME NEW p \in 1..l PROVE ByteAt(blob, e.value + p) = own[p]
    <3>1. PICK q \in Nat : q = v + p
      OBVIOUS
    <3>2. s \in Nat
      BY <2>2
    <3>3. ~(q > s) /\ ~(q <= i)
      BY ONLY <2>1, <2>2, <2>4, <3>1, <3>2, v \in Nat, l \in Nat, p \in 1..l, i \in Nat
    <3>4. ByteAt(blob, q) = blob.data[q - i]
      BY <1>3, <1>4, <2>2, <3>3, Zenon DEF ByteAt
    <3>5. blob.data[q - i] = own[p]
      <4>1. CamBlob(items).data[v + p - IndexSize(n)] = own[p]
        BY <2>1, Zenon
      <4>2. q - i = v + p - IndexSize(n)
        BY <2>2, <3>1
      <4>3. QED
        BY <1>3, <4>1, <4>2, Zenon
    <3>6. QED
      BY <1>10, <2>1, <3>1, <3>4, <3>5, Zenon
  <2>7. Payload(blob, e) = [p \in 1..l |-> ByteAt(blob, e.value + p)]
    BY <1>10, <1>12, Zenon DEF Payload
  <2>8. own = [p \in 1..l |-> own[p]]
    BY <1>9, LenProperties, Zenon
  <2>9. Payload(blob, e) = own
    BY <2>6, <2>7, <2>8, Zenon
  <2>10. QED
    BY <1>1, <1>2, <1>6, <1>7, <1>8, <2>5, <2>9, Zenon
<1>13. QED
  BY <1>11, <1>12

\* Of a whole blob all entries are read.
LEMMA AllAreRead ==
    ASSUME NEW items, ProperItems(items)
    PROVE  ReadEntries(CamBlob(items)) = 1..Len(items)
<1>1. PICK blob : blob = CamBlob(items)
  OBVIOUS
<1>2. PICK n \in Nat, i \in Nat, z \in Nat :
          /\ n = Len(items) /\ i = IndexSize(n) /\ z = blob.size
          /\ i >= 8 /\ z >= i /\ z < WordSize
  <2>1. Len(items) \in Nat
    BY DEF ProperItems
  <2>2. QED
    BY <1>1, <2>1, Sizes, Zenon
<1>3. Len(blob.entries) = n /\ DOMAIN blob.entries = 1..n
  BY <1>1, <1>2, CamBlobIs, Zenon
<1>4. ASSUME NEW k \in 1..n PROVE Accepted(blob, blob.entries[k])
  <2>1. PICK e : e = blob.entries[k]
    OBVIOUS
  <2>2. PICK own \in Seq(Byte) : own = items[k].bytes
    BY <1>2, Zenon DEF Proper, ProperItems
  <2>3. PICK l \in Nat : l = Len(own)
    BY LenProperties, Zenon
  <2>4. PayloadSize(e) = l /\ (Inline(e) <=> l <= 4) /\ e.value = CamValue(items, k)
    BY <1>1, <1>2, <2>1, <2>2, <2>3, EntrySized, Zenon
  <2>5. CASE l <= 4
    BY <2>1, <2>4, <2>5, Zenon DEF Accepted
  <2>6. CASE ~(l <= 4)
    <3>1. PICK v \in Nat : v = CamValue(items, k) /\ v + l <= z
      BY <1>1, <1>2, <2>2, <2>3, <2>6, LongIs, Zenon
    <3>2. v + l \in 0..(WordSize - 1)
      BY ONLY <1>2, <3>1, v \in Nat, l \in Nat, z \in Nat, FocusAssumption
    <3>3. (v + l) % WordSize = v + l
      BY ONLY <3>2, FocusAssumption
    <3>4. QED
      BY <1>2, <2>1, <2>4, <3>1, <3>3, Zenon DEF Accepted
  <2>7. QED
    BY <2>5, <2>6
<1>5. ~(blob.size < 8) /\ ~(blob.size < IndexSize(Len(blob.entries)))
  BY <1>2, <1>3
<1>6. ReadEntries(blob) = {k \in 1..n : Accepted(blob, blob.entries[k])}
  BY <1>3, <1>5, Zenon DEF ReadEntries
<1>7. QED
  BY <1>1, <1>2, <1>4, <1>6, Zenon

\* A blob with all of its bytes is the blob.
LEMMA Uncut ==
    ASSUME NEW items, ProperItems(items)
    PROVE  /\ Cut(CamBlob(items), CamBlob(items).size) = CamBlob(items)
           /\ CamBlob(items).size \in 0..CamBlob(items).size
<1>1. CamBlob(items).size \in Nat
  BY Sizes
<1>2. QED
  BY <1>1, CamBlobIs DEF Cut

-----------------------------------------------------------------------------
(***************************************************************************)
(* The focus settings in an answer.                                        *)
(***************************************************************************)

\* What a camera has: bytes for every member, one where one is due.
Camera(c) ==
    \A m \in Members :
        /\ c[m] \in Seq(Byte) /\ Len(c[m]) <= 8
        /\ m \notin Arrays => Len(c[m]) = 1

FocusItems(c, S) ==
    [k \in 1..Cardinality(S) |->
        Item(TagOf[InTagOrder(S)[k]], "UInt8", Len(c[InTagOrder(S)[k]]), c[InTagOrder(S)[k]])]

\* A payload counted in bytes is as long as its count.
LEMMA ByteSized ==
    ASSUME NEW e, e.type = "UInt8", e.count \in Nat, e.count < WordSize
    PROVE  PayloadSize(e) = e.count
<1>1. ElementSize(e.type) = 1
  BY DEF ElementSize
<1>2. PayloadSize(e) = (e.count * 1) % WordSize
  BY <1>1, Zenon DEF PayloadSize
<1>3. PICK n \in Nat : n = e.count /\ n < WordSize
  OBVIOUS
<1>4. (n * 1) % WordSize = n
  BY ONLY <1>3, n \in Nat, FocusAssumption
<1>5. QED
  BY <1>2, <1>3, <1>4, Zenon

\* The items of an answer are the members sent, in the order of their tags.
LEMMA FocusItemIs ==
    ASSUME NEW c, Camera(c), NEW S \in SUBSET Members, NEW k \in 1..Cardinality(S)
    PROVE  /\ InTagOrder(S)[k] \in S /\ InTagOrder(S)[k] \in Members
           /\ FocusItems(c, S)[k].tag = TagOf[InTagOrder(S)[k]]
           /\ FocusItems(c, S)[k].bytes = c[InTagOrder(S)[k]]
           /\ Proper(FocusItems(c, S)[k])
<1>1. PICK m \in S : m = InTagOrder(S)[k]
  BY InOrder
<1>2. PICK it : it = FocusItems(c, S)[k]
  OBVIOUS
<1>3. it = [tag |-> TagOf[m], type |-> "UInt8", count |-> Len(c[m]), bytes |-> c[m]]
  BY <1>1, <1>2, Zenon DEF FocusItems, Item
<1>4. it.tag = TagOf[m] /\ it.type = "UInt8" /\ it.count = Len(c[m]) /\ it.bytes = c[m]
  BY <1>3
<1>5. c[m] \in Seq(Byte) /\ Len(c[m]) <= 8
  BY DEF Camera
<1>6. Len(c[m]) \in Nat
  BY <1>5, LenProperties, Zenon
<1>7. Len(c[m]) < WordSize
  BY <1>5, <1>6, FocusAssumption
<1>8. PayloadSize(it) = Len(c[m])
  BY <1>4, <1>6, <1>7, ByteSized, Zenon
<1>9. Proper(it)
  BY <1>4, <1>5, <1>8, Zenon DEF Proper
<1>10. m \in Members
  OBVIOUS
<1>11. QED
  BY <1>1, <1>2, <1>4, <1>9, <1>10, Zenon

\* They are items that a blob can be made of.
LEMMA FocusItemsProper ==
    ASSUME NEW c, Camera(c), NEW S \in SUBSET Members
    PROVE  /\ ProperItems(FocusItems(c, S))
           /\ Len(FocusItems(c, S)) = Cardinality(S)
           /\ FocusReply(c, S) = CamBlob(FocusItems(c, S))
<1>1. PICK n \in 0..11 : n = Cardinality(S)
  BY SubsetFinite
<1>2. \A k \in 1..n : Proper(FocusItems(c, S)[k])
  BY <1>1, FocusItemIs, Zenon
<1>3. DOMAIN FocusItems(c, S) = 1..n /\ Len(FocusItems(c, S)) = n
  BY <1>1 DEF FocusItems
<1>4. DOMAIN InTagOrder(S) = 1..n
  BY <1>1, InOrder
<1>5. FocusReply(c, S) = CamBlob(FocusItems(c, S))
  BY <1>1, <1>4, Zenon DEF FocusReply, FocusItems
<1>6. QED
  BY <1>1, <1>2, <1>3, <1>5, Zenon DEF ProperItems

\* The last of one entry.
LEMMA MaxOfOne ==
    ASSUME NEW k \in Int
    PROVE  Max({k}) = k
  BY DEF Max

\* A member is one of the bytes that it takes from a payload of its own.
LEMMA TakesOwn ==
    ASSUME NEW c, Camera(c), NEW m \in Members
    PROVE  Taken(m, c[m]) = Holds(c[m])
<1>1. CASE m \in Arrays
  BY <1>1, Zenon DEF Taken
<1>2. CASE m \notin Arrays
  <2>1. c[m] \in Seq(Byte) /\ Len(c[m]) = 1
    BY <1>2 DEF Camera
  <2>2. c[m] = <<c[m][1]>>
    BY <2>1
  <2>3. QED
    BY <1>2, <2>2, Zenon DEF Taken
<1>3. QED
  BY <1>1, <1>2

\* Of an answer with the members S nothing is read from behind it, and each member
\* shows as it is or not at all.
ShownOrNot(c, S, blob) ==
    /\ ~WildRead(blob)
    /\ \A m \in Members :
          \/ /\ Decode(blob)[m] = Unset
             /\ \A k \in ReadEntries(blob) : InTagOrder(S)[k] = m => c[m] = <<>>
          \/ /\ Decode(blob)[m] = Holds(c[m])
             /\ m \in S /\ c[m] # <<>>

\* However much of the answer there is.
LEMMA DecodeCut ==
    ASSUME NEW c, Camera(c), NEW S \in SUBSET Members,
           NEW s \in 0..FocusReply(c, S).size
    PROVE  ShownOrNot(c, S, Cut(FocusReply(c, S), s))
<1> DEFINE items == FocusItems(c, S)
           ms == InTagOrder(S)
<1>1. PICK blob : blob = Cut(FocusReply(c, S), s)
  OBVIOUS
<1>2. /\ ProperItems(items) /\ Len(items) = Cardinality(S)
      /\ blob = Cut(CamBlob(items), s) /\ s \in 0..CamBlob(items).size
  BY <1>1, FocusItemsProper, Zenon
<1>3. ASSUME NEW k \in ReadEntries(blob)
      PROVE  /\ k \in 1..Cardinality(S) /\ k \in Int
             /\ ms[k] \in S
             /\ blob.entries[k].tag = TagOf[ms[k]]
             /\ Payload(blob, blob.entries[k]) = c[ms[k]]
             /\ InBlob(blob, blob.entries[k])
  <2>1. /\ k \in 1..Len(items)
        /\ Payload(blob, blob.entries[k]) = items[k].bytes
        /\ InBlob(blob, blob.entries[k])
    BY <1>2, <1>3, ReadIsWhole, Zenon
  <2>2. k \in 1..Cardinality(S)
    BY <1>2, <2>1, Zenon
  <2>3. items[k].tag = TagOf[ms[k]] /\ items[k].bytes = c[ms[k]] /\ ms[k] \in S
    BY <2>2, FocusItemIs, Zenon
  <2>4. blob.entries = CamBlob(items).entries
    BY <1>2, CutIs, Zenon
  <2>5. blob.entries[k].tag = items[k].tag
    <3>1. CamBlob(items).entries[k].tag = items[k].tag
      BY <1>2, <2>1, EntrySized, Zenon
    <3>2. QED
      BY <2>4, <3>1, Zenon
  <2>6. k \in Int
    BY <2>2
  <2>7. QED
    BY <2>1, <2>2, <2>3, <2>5, <2>6, Zenon
<1>4. ~WildRead(blob)
  BY <1>3, Zenon DEF WildRead
<1>5. ASSUME NEW m \in Members
      PROVE  \/ /\ Decode(blob)[m] = Unset
                /\ \A k \in ReadEntries(blob) : ms[k] = m => c[m] = <<>>
             \/ /\ Decode(blob)[m] = Holds(c[m])
                /\ m \in S /\ c[m] # <<>>
  <2> DEFINE mine == {k \in {k \in ReadEntries(blob) : Payload(blob, blob.entries[k]) # <<>>} :
                        blob.entries[k].tag = TagOf[m]}
  <2>1. Decode(blob)[m] =
           IF mine = {} THEN Unset ELSE Taken(m, Payload(blob, blob.entries[Max(mine)]))
    BY DEF Decode, Tagged, PayloadOfLast
  <2>2. ASSUME NEW k \in ReadEntries(blob)
        PROVE  k \in mine <=> ms[k] = m /\ c[m] # <<>>
    <3>1. ms[k] \in Members
      BY <1>3
    <3>2. TagOf[ms[k]] = TagOf[m] <=> ms[k] = m
      BY <3>1, TagsDiffer, Zenon
    <3>3. QED
      BY <1>3, <3>2, Zenon
  <2>3. CASE mine = {}
    <3>1. Decode(blob)[m] = Unset
      BY <2>1, <2>3, Zenon
    <3>2. ASSUME NEW k \in ReadEntries(blob), ms[k] = m PROVE c[m] = <<>>
      BY <2>2, <2>3, <3>2, Zenon
    <3>3. QED
      BY <3>1, <3>2, Zenon
  <2>4. CASE mine # {}
    <3>1. PICK k \in ReadEntries(blob) : k \in mine
      BY <2>4, Zenon
    <3>2. ms[k] = m /\ c[m] # <<>>
      BY <2>2, <3>1, Zenon
    <3>3. ASSUME NEW j \in mine PROVE j = k
      <4>1. j \in ReadEntries(blob)
        OBVIOUS
      <4>2. ms[j] = m
        BY <2>2, <4>1, Zenon
      <4>3. j \in 1..Cardinality(S) /\ k \in 1..Cardinality(S)
        BY <1>3, <3>1, <4>1, Zenon
      <4>4. InTagOrder(S)[j] = InTagOrder(S)[k]
        BY <3>2, <4>2, Zenon
      <4>5. QED
        BY <4>3, <4>4, PlacedOnce, Zenon
    <3>4. mine = {k}
      BY <3>1, <3>3, Zenon
    <3>5. k \in Int
      BY <1>3, <3>1, Zenon
    <3>6. Max(mine) = k
      BY <3>4, <3>5, MaxOfOne, Zenon
    <3>7. Payload(blob, blob.entries[k]) = c[m]
      BY <1>3, <3>1, <3>2, Zenon
    <3>8. Decode(blob)[m] = Holds(c[m])
      BY <2>1, <2>4, <3>6, <3>7, TakesOwn, Zenon
    <3>9. m \in S
      BY <1>3, <3>1, <3>2, Zenon
    <3>10. QED
      BY <3>2, <3>8, <3>9, Zenon
  <2>5. QED
    BY <2>3, <2>4
<1>6. QED
  BY <1>1, <1>4, <1>5, Zenon DEF ShownOrNot

\* A whole answer shows what was sent, as far as there is anything to it.
LEMMA DecodeWhole ==
    ASSUME NEW c, Camera(c), NEW S \in SUBSET Members
    PROVE  /\ ~WildRead(FocusReply(c, S))
           /\ \A m \in Members :
                 Decode(FocusReply(c, S))[m] =
                    IF m \in S /\ c[m] # <<>> THEN Holds(c[m]) ELSE Unset
<1> DEFINE items == FocusItems(c, S)
           blob == FocusReply(c, S)
<1>1. /\ ProperItems(items) /\ Len(items) = Cardinality(S) /\ blob = CamBlob(items)
  BY FocusItemsProper, Zenon
<1>2. Cut(blob, blob.size) = blob /\ blob.size \in 0..blob.size
  BY <1>1, Uncut, Zenon
<1>3. ReadEntries(blob) = 1..Cardinality(S)
  BY <1>1, AllAreRead, Zenon
<1>4. ShownOrNot(c, S, blob)
  BY <1>2, DecodeCut, Zenon
<1>5. ASSUME NEW m \in S PROVE \E k \in ReadEntries(blob) : InTagOrder(S)[k] = m
  BY <1>3, InOrder, Zenon
<1>6. QED
  BY <1>4, <1>5, Zenon DEF ShownOrNot

-----------------------------------------------------------------------------
(***************************************************************************)
(* Setting.                                                                *)
(***************************************************************************)

\* What an application has in an object.
Application(o) ==
    \A m \in Members :
        o[m] # Unset =>
            /\ o[m] = Holds(o[m][1])
            /\ o[m][1] \in Seq(Byte) /\ Len(o[m][1]) < WordSize
            /\ m \notin Arrays => Len(o[m][1]) = 1

SetMembers(o) == {m \in Written : o[m] # Unset}

EncodedEntry(o, m) ==
    [tag |-> TagOf[m], type |-> "UInt8", count |-> Len(o[m][1]),
     value |-> IF Len(o[m][1]) <= 4 THEN FillUp(o[m][1])
               ELSE IndexSize(Cardinality(SetMembers(o)))]

\* The blob that encode() makes: one entry for each member that is set and written.
LEMMA EncodeIs ==
    ASSUME NEW o
    PROVE  /\ SetMembers(o) \in SUBSET Members
           /\ ToSet(Encode(o).entries) = {EncodedEntry(o, m) : m \in SetMembers(o)}
           /\ Encode(o).size = IndexSize(Cardinality(SetMembers(o)))
           /\ IndexSize(Cardinality(SetMembers(o))) \in Nat
<1> DEFINE S == SetMembers(o)
           n == Cardinality(S)
           ms == InTagOrder(S)
           es == [k \in 1..n |-> EncodedEntry(o, ms[k])]
<1>1. S \in SUBSET Members
  BY DEF SetMembers, Written
<1>2. n \in Nat
  BY <1>1, SubsetFinite
<1>3. DOMAIN ms = 1..n /\ Len(ms) = n
  <2>1. ms \in [1..n -> S]
    BY <1>1, InOrder
  <2> HIDE DEF ms, S, n
  <2>2. QED
    BY <1>2, <2>1
<1>4. Encode(o) = [entries |-> es, data |-> <<>>, size |-> IndexSize(Len(es)) + Len(<<>>)]
  BY <1>3, Zenon DEF Encode, Blob, Entry, EncodedEntry, SetMembers
<1>5. Len(es) = n /\ DOMAIN es = 1..n
  <2> HIDE DEF n
  <2>1. QED
    BY <1>2
<1>6. Encode(o).entries = es /\ Encode(o).size = IndexSize(n) + Len(<<>>)
  <2> HIDE DEF es, n
  <2>1. Encode(o).entries = es /\ Encode(o).size = IndexSize(Len(es)) + Len(<<>>)
    BY <1>4
  <2>2. QED
    BY <1>5, <2>1, Zenon
<1>7. IndexSize(n) + Len(<<>>) = IndexSize(n) /\ IndexSize(n) \in Nat
  <2> HIDE DEF n
  <2>1. QED
    BY <1>2 DEF IndexSize
<1>8. ToSet(es) = {EncodedEntry(o, m) : m \in S}
  <2>1. ASSUME NEW k \in 1..n PROVE es[k] = EncodedEntry(o, ms[k]) /\ ms[k] \in S
    BY <1>1, <2>1, InOrder
  <2>2. ASSUME NEW m \in S PROVE \E k \in 1..n : es[k] = EncodedEntry(o, m)
    <3>1. PICK k \in 1..n : ms[k] = m
      BY <1>1, InOrder
    <3>2. QED
      BY <2>1, <3>1, Zenon
  <2>3. ToSet(es) = {es[k] : k \in 1..n}
    BY <1>5, Zenon DEF ToSet
  <2> HIDE DEF es, ms, n, S
  <2>4. QED
    BY <2>1, <2>2, <2>3
<1>9. QED
  BY <1>1, <1>6, <1>7, <1>8, Zenon

\* The camera takes what has one to four bytes, and leaves out what is longer.
LEMMA SetResult ==
    ASSUME NEW o, Application(o), NEW c, NEW m \in Members
    PROVE  CamApply(c, Encode(o))[m] =
              IF m \in Written /\ o[m] # Unset /\ Len(o[m][1]) \in 1..4 THEN o[m][1] ELSE c[m]
<1> DEFINE S == SetMembers(o)
           blob == Encode(o)
           mine == {e \in ToSet(blob.entries) :
                       e.tag = TagOf[m] /\ e.count > 0 /\ InBlob(blob, e)}
           places == {k \in DOMAIN blob.entries :
                         /\ blob.entries[k].tag = TagOf[m] /\ blob.entries[k].count > 0
                         /\ InBlob(blob, blob.entries[k])}
           took == blob.entries[CHOOSE k \in places : TRUE]
<1>1. S \in SUBSET Members /\ ToSet(blob.entries) = {EncodedEntry(o, x) : x \in S}
  BY EncodeIs
<1>2. CamApply(c, blob)[m] =
         IF mine = {} THEN c[m]
         ELSE [k \in 1..took.count |->
                 IF took.count <= 4 THEN took.value[k] ELSE ByteAt(blob, took.value + k)]
  <2>1. CamApply(c, blob)[m] =
           IF places = {} THEN c[m]
           ELSE [k \in 1..took.count |->
                   IF took.count <= 4 THEN took.value[k] ELSE ByteAt(blob, took.value + k)]
    BY Zenon DEF CamApply
  <2>2. places = {} <=> mine = {}
    BY Zenon DEF ToSet
  <2>3. QED
    BY <2>1, <2>2, Zenon
<1>9. mine # {} => took \in mine
  <2>1. places = {} <=> mine = {}
    BY Zenon DEF ToSet
  <2>2. mine # {} => (CHOOSE k \in places : TRUE) \in places
    BY <2>1, Zenon
  <2>3. QED
    BY <2>2, Zenon DEF ToSet
<1>3. ASSUME NEW e \in mine PROVE m \in S /\ e = EncodedEntry(o, m)
  <2>1. PICK x \in S : e = EncodedEntry(o, x)
    BY <1>1
  <2>2. e.tag = TagOf[x]
    BY <2>1 DEF EncodedEntry
  <2>3. x \in Members /\ TagOf[x] = TagOf[m]
    BY <1>1, <2>2
  <2>4. x = m
    BY <2>3, TagsDiffer
  <2>5. QED
    BY <2>1, <2>4
<1>4. CASE m \notin S
  <2>1. mine = {}
    BY <1>3, <1>4, Zenon
  <2>2. ~(m \in Written /\ o[m] # Unset)
    BY <1>4 DEF SetMembers
  <2>3. QED
    BY <1>2, <2>1, <2>2, Zenon
<1>5. CASE m \in S
  <2>1. m \in Written /\ o[m] # Unset
    BY <1>5 DEF SetMembers
  <2>2. PICK p \in Seq(Byte) : p = o[m][1] /\ Len(p) < WordSize
    BY <2>1 DEF Application
  <2>3. PICK l \in Nat : l = Len(p)
    BY LenProperties, Zenon
  <2>4. PICK e : e = EncodedEntry(o, m)
    OBVIOUS
  <2>5. PICK i \in Nat : i = IndexSize(Cardinality(SetMembers(o))) /\ blob.size = i
    BY EncodeIs
  <2>6. /\ e.tag = TagOf[m] /\ e.type = "UInt8" /\ e.count = l
        /\ e.value = IF l <= 4 THEN FillUp(p) ELSE i
    <3>1. e = [tag |-> TagOf[m], type |-> "UInt8", count |-> l,
               value |-> IF l <= 4 THEN FillUp(p) ELSE i]
      BY <2>2, <2>3, <2>4, <2>5, Zenon DEF EncodedEntry
    <3>2. QED
      BY <3>1
  <2>7. PayloadSize(e) = l
    BY <2>2, <2>3, <2>6, ByteSized, Zenon
  <2>8. InBlob(blob, e) <=> l <= 4
    <3>1. CASE l <= 4
      BY <2>7, <3>1, Zenon DEF InBlob, Inline
    <3>2. CASE ~(l <= 4)
      <4>1. InBlob(blob, e) <=> i + l <= i
        BY <2>5, <2>6, <2>7, <3>2, Zenon DEF InBlob, Inline
      <4>2. ~(i + l <= i)
        BY ONLY <3>2, i \in Nat, l \in Nat
      <4>3. QED
        BY <3>2, <4>1, <4>2
    <3>3. QED
      BY <3>1, <3>2
  <2>9. e \in mine <=> l \in 1..4
    <3>1. e \in ToSet(blob.entries)
      BY <1>1, <1>5, <2>4
    <3>2. e \in mine <=> l > 0 /\ l <= 4
      BY <2>6, <2>8, <3>1, Zenon
    <3>3. QED
      BY ONLY <3>2, l \in Nat
  <2>10. CASE l \in 1..4
    <3>1. mine = {e}
      BY <1>3, <2>4, <2>9, <2>10, Zenon
    <3>2. took = e /\ mine # {}
      BY <1>9, <3>1, Zenon
    <3>3. l <= 4
      BY <2>10
    <3>4. CamApply(c, blob)[m] = [k \in 1..l |-> FillUp(p)[k]]
      <4>1. CamApply(c, blob)[m] =
               [k \in 1..e.count |->
                   IF e.count <= 4 THEN e.value[k] ELSE ByteAt(blob, e.value + k)]
        BY <1>2, <3>2, Zenon
      <4>2. e.count = l /\ e.count <= 4 /\ e.value = FillUp(p)
        BY <2>6, <3>3, Zenon
      <4>3. QED
        BY <4>1, <4>2, Zenon
    <3>5. \A k \in 1..l : FillUp(p)[k] = p[k]
      BY <2>3, <3>3, FilledUp, Zenon
    <3>6. p = [k \in 1..l |-> p[k]]
      BY <2>3, LenProperties, Zenon
    <3>7. CamApply(c, blob)[m] = p
      BY <3>4, <3>5, <3>6, Zenon
    <3>8. QED
      BY <2>1, <2>2, <2>3, <2>10, <3>7, Zenon
  <2>11. CASE l \notin 1..4
    <3>1. mine = {}
      BY <1>3, <2>4, <2>9, <2>11, Zenon
    <3>2. QED
      BY <1>2, <2>2, <2>3, <2>11, <3>1, Zenon
  <2>12. QED
    BY <2>10, <2>11
<1>6. QED
  BY <1>4, <1>5

-----------------------------------------------------------------------------
(***************************************************************************)
(* The configuration.                                                      *)
(***************************************************************************)

\* The four fields, whose tags differ.
LEMMA FieldsAre ==
    /\ Fields = {"cameraModel", "serialNumber", "firmwareVersion", "communicationVersion"}
    /\ \A f, g \in Fields : ConfigTagOf[f] = ConfigTagOf[g] => f = g
  BY DEF Fields, ConfigTagOf

\* They stand in the answer once each.
LEMMA ConfigByTagIs ==
    /\ DOMAIN ConfigByTag = 1..4 /\ ConfigByTag \in [1..4 -> Fields]
    /\ \A f \in Fields : \E k \in 1..4 : ConfigByTag[k] = f
    /\ \A j, k \in 1..4 : ConfigByTag[j] = ConfigByTag[k] => j = k
<1>1. /\ ConfigByTag[1] = "cameraModel" /\ ConfigByTag[2] = "serialNumber"
      /\ ConfigByTag[3] = "firmwareVersion" /\ ConfigByTag[4] = "communicationVersion"
      /\ DOMAIN ConfigByTag = 1..4
      /\ ConfigByTag = [k \in 1..4 |-> ConfigByTag[k]]
  BY DEF ConfigByTag
<1>2. 1..4 = {1, 2, 3, 4}
  OBVIOUS
<1>3. QED
  BY <1>1, <1>2, FieldsAre

\* What a camera says that it is.
LEMMA ConfigIs ==
    ASSUME NEW c \in CamConfigs
    PROVE  /\ c = [f \in Fields |-> c[f]]
           /\ \A f \in Fields : c[f] \in Seq(Byte) /\ Len(c[f]) <= 8
           /\ \A f \in Fields \ {"communicationVersion"} : Len(c[f]) <= 7
           /\ Len(c["communicationVersion"]) \in {4, 8}
<1>1. PICK v \in {<<0, 0, 160, 63>>, <<0, 0, 0, 0, 0, 0, 244, 63>>} :
          c = [cameraModel |-> <<70, 80>>, serialNumber |-> <<57, 48, 49, 50, 51, 52>>,
               firmwareVersion |-> <<>>, communicationVersion |-> v]
  BY Zenon DEF CamConfigs
<1>2. v \in Seq(Byte) /\ Len(v) \in {4, 8}
  <2>1. /\ <<0, 0, 160, 63>> \in Seq(Byte) /\ Len(<<0, 0, 160, 63>>) = 4
        /\ <<0, 0, 0, 0, 0, 0, 244, 63>> \in Seq(Byte)
        /\ Len(<<0, 0, 0, 0, 0, 0, 244, 63>>) = 8
    BY DEF Byte
  <2>2. v = <<0, 0, 160, 63>> \/ v = <<0, 0, 0, 0, 0, 0, 244, 63>>
    OBVIOUS
  <2>3. v \in Seq(Byte) /\ (Len(v) = 4 \/ Len(v) = 8)
    BY <2>1, <2>2, Zenon
  <2>4. QED
    BY <2>3
<1>3. /\ <<70, 80>> \in Seq(Byte) /\ Len(<<70, 80>>) = 2
      /\ <<57, 48, 49, 50, 51, 52>> \in Seq(Byte) /\ Len(<<57, 48, 49, 50, 51, 52>>) = 6
      /\ <<>> \in Seq(Byte) /\ Len(<<>>) = 0
  BY DEF Byte
<1>4. /\ c["cameraModel"] = <<70, 80>> /\ c["serialNumber"] = <<57, 48, 49, 50, 51, 52>>
      /\ c["firmwareVersion"] = <<>> /\ c["communicationVersion"] = v
  BY <1>1
<1>5. c = [f \in Fields |-> c[f]]
  BY <1>1, FieldsAre
<1>6. QED
  <2>1. /\ c["cameraModel"] \in Seq(Byte) /\ Len(c["cameraModel"]) = 2
        /\ c["serialNumber"] \in Seq(Byte) /\ Len(c["serialNumber"]) = 6
        /\ c["firmwareVersion"] \in Seq(Byte) /\ Len(c["firmwareVersion"]) = 0
        /\ c["communicationVersion"] \in Seq(Byte) /\ Len(c["communicationVersion"]) \in {4, 8}
    BY <1>2, <1>3, <1>4, Zenon
  <2>2. 0 <= 8 /\ 2 <= 8 /\ 6 <= 8 /\ 4 <= 8 /\ 8 <= 8 /\ 0 <= 7 /\ 2 <= 7 /\ 6 <= 7
    OBVIOUS
  <2>3. Len(c["communicationVersion"]) <= 8
    BY <2>1, <2>2, Zenon
  <2>4. \A f \in Fields : c[f] \in Seq(Byte) /\ Len(c[f]) <= 8
    <3>1. \A f \in Fields :
             \/ f = "cameraModel" \/ f = "serialNumber" \/ f = "firmwareVersion"
             \/ f = "communicationVersion"
      BY FieldsAre
    <3>2. /\ Len(c["cameraModel"]) <= 8 /\ Len(c["serialNumber"]) <= 8
          /\ Len(c["firmwareVersion"]) <= 8
      BY <2>1, <2>2, Zenon
    <3>3. QED
      BY <2>1, <2>3, <3>1, <3>2, Zenon
  <2>5. \A f \in Fields \ {"communicationVersion"} : Len(c[f]) <= 7
    <3>1. \A f \in Fields \ {"communicationVersion"} :
             f = "cameraModel" \/ f = "serialNumber" \/ f = "firmwareVersion"
      BY FieldsAre
    <3>2. QED
      BY <2>1, <2>2, <3>1, Zenon
  <2>6. QED
    BY <1>5, <2>1, <2>4, <2>5, Zenon

\* A text is what is in front of its terminator.
LEMMA Terminated ==
    ASSUME NEW v \in Seq(Byte)
    PROVE  \E t \in Seq(Byte) : t = v \o <<0>> /\ Len(t) = Len(v) + 1 /\ Text(t) = v
<1>1. PICK z \in Seq(Byte) : z = <<0>> /\ Len(z) = 1 /\ z[1] = 0
  <2>1. <<0>> \in Seq(Byte) /\ Len(<<0>>) = 1 /\ <<0>>[1] = 0
    BY DEF Byte
  <2>2. QED
    BY <2>1, Zenon
<1>2. PICK t \in Seq(Byte) :
          /\ t = v \o z /\ Len(t) = Len(v) + Len(z)
          /\ \A p \in 1..Len(v) : t[p] = v[p]
          /\ \A p \in 1..Len(z) : t[Len(v) + p] = z[p]
  BY BytesJoined, Zenon
<1>3. PICK n \in Nat : n = Len(v)
  BY LenProperties, Zenon
<1>4. Len(t) = n + 1
  BY <1>1, <1>2, <1>3, Zenon
<1>5. t[n + 1] = 0
  <2>1. 1 \in 1..1
    OBVIOUS
  <2>2. QED
    BY <1>1, <1>2, <1>3, <2>1, Zenon
<1>6. t # <<>>
  BY <1>4
<1>7. Last(t) = 0
  BY <1>4, <1>5, Zenon DEF Last
<1>8. n + 1 - 1 = n /\ n \in 0..(n + 1)
  BY ONLY n \in Nat
<1>9. Front(t) = SubSeq(t, 1, n)
  <2>1. Len(t) - 1 = n
    BY <1>4
  <2>2. QED
    BY <2>1, Zenon DEF Front
<1>10. PICK b \in Seq(Byte) : b = SubSeq(t, 1, n) /\ Len(b) = n /\ \A i \in 1..n : b[i] = t[i]
  BY <1>4, <1>8, Beginning, Zenon
<1>11. b = v
  <2>1. Len(b) = Len(v) /\ \A i \in 1..Len(b) : b[i] = v[i]
    BY <1>2, <1>3, <1>10, Zenon
  <2>2. QED
    BY <2>1, SeqEqual, Zenon
<1>12. Text(t) = v
  BY <1>6, <1>7, <1>9, <1>10, <1>11, Zenon DEF Text
<1>13. QED
  BY <1>1, <1>2, <1>3, <1>4, <1>12, Zenon

\* A field is what is made of an item's payload.
LEMMA FieldReturns ==
    ASSUME NEW c \in CamConfigs, NEW f \in Fields, NEW it, it = ConfigItem(f, c[f])
    PROVE  /\ Proper(it) /\ it.tag = ConfigTagOf[f]
           /\ \A e : e.type = it.type =>
                 Fits(f, e, it.bytes) /\ FieldFrom(f, e, it.bytes) = c[f]
<1>1. PICK v \in Seq(Byte) : v = c[f] /\ Len(v) <= 8
  BY ConfigIs, Zenon
<1>2. PICK n \in 0..8 : n = Len(v)
  <2>1. PICK n \in Nat : n = Len(v)
    BY LenProperties, Zenon
  <2>2. n \in 0..8
    <3>1. n <= 8
      BY <1>1, <2>1, Zenon
    <3>2. QED
      BY <3>1
  <2>3. QED
    BY <2>1, <2>2, Zenon
<1>3. CASE f # "communicationVersion"
  <2>1. n <= 7
    BY <1>1, <1>2, <1>3, ConfigIs, Zenon
  <2>2. PICK t \in Seq(Byte) : t = v \o <<0>> /\ Len(t) = n + 1 /\ Text(t) = v
    BY <1>2, Terminated, Zenon
  <2>3. it = [tag |-> ConfigTagOf[f], type |-> "String", count |-> n + 1, bytes |-> t]
    BY <1>1, <1>2, <1>3, <2>2, Zenon DEF ConfigItem, Item
  <2>4. it.tag = ConfigTagOf[f] /\ it.type = "String" /\ it.count = n + 1 /\ it.bytes = t
    BY <2>3
  <2>5. PayloadSize(it) = ((n + 1) * ElementSize("String")) % WordSize
    BY <2>4, Zenon DEF PayloadSize
  <2>6. ElementSize("String") = 1
    BY DEF ElementSize
  <2>7. ((n + 1) * 1) % WordSize = n + 1
    BY ONLY n \in 0..8, FocusAssumption
  <2>8. PayloadSize(it) = Len(it.bytes)
    BY <2>2, <2>4, <2>5, <2>6, <2>7, Zenon
  <2>9. n + 1 <= 8
    BY ONLY <2>1, n \in 0..8
  <2>10. Proper(it)
    BY <2>2, <2>4, <2>8, <2>9, Zenon DEF Proper
  <2>11. \A e : Fits(f, e, it.bytes) /\ FieldFrom(f, e, it.bytes) = c[f]
    BY <1>1, <1>3, <2>2, <2>4, Zenon DEF FieldFrom, Fits
  <2>12. QED
    BY <2>4, <2>10, <2>11, Zenon
<1>4. CASE f = "communicationVersion"
  <2>1. n = 4 \/ n = 8
    BY <1>1, <1>2, <1>4, ConfigIs
  <2>2. PICK ty : ty = IF n = 4 THEN "Float32" ELSE "Float64"
    OBVIOUS
  <2>3. it = [tag |-> ConfigTagOf[f], type |-> ty, count |-> 1, bytes |-> v]
    BY <1>1, <1>2, <1>4, <2>2, Zenon DEF ConfigItem, Item
  <2>4. it.tag = ConfigTagOf[f] /\ it.type = ty /\ it.count = 1 /\ it.bytes = v
    BY <2>3
  <2>5. PayloadSize(it) = (1 * ElementSize(ty)) % WordSize
    BY <2>4, Zenon DEF PayloadSize
  <2>6. ElementSize(ty) = n
    BY <2>1, <2>2 DEF ElementSize
  <2>7. (1 * n) % WordSize = n
    BY ONLY n \in 0..8, FocusAssumption
  <2>8. Proper(it)
    BY <1>1, <1>2, <2>4, <2>5, <2>6, <2>7, Zenon DEF Proper
  <2>9. ASSUME NEW e, e.type = it.type
        PROVE  Fits(f, e, it.bytes) /\ FieldFrom(f, e, it.bytes) = c[f]
    <3>1. e.type = ty /\ ty \in {"Float32", "Float64"}
      BY <2>2, <2>4, <2>9
    <3>2. n >= n /\ SubSeq(v, 1, n) = v
      BY <1>1, <1>2
    <3>3. Len(v) >= ElementSize(ty) /\ SubSeq(v, 1, ElementSize(ty)) = v
      BY <1>2, <2>6, <3>2, Zenon
    <3>4. QED
      BY <1>1, <1>4, <2>4, <3>1, <3>3, Zenon DEF FieldFrom, Fits
  <2>10. QED
    BY <2>4, <2>8, <2>9, Zenon
<1>5. QED
  BY <1>3, <1>4

ConfigItems(c) == [k \in 1..4 |-> ConfigItem(ConfigByTag[k], c[ConfigByTag[k]])]

\* The items of a configuration are items that a blob can be made of.
LEMMA ConfigItemsProper ==
    ASSUME NEW c \in CamConfigs
    PROVE  /\ ProperItems(ConfigItems(c)) /\ Len(ConfigItems(c)) = 4
           /\ ConfigReply(c) = CamBlob(ConfigItems(c))
<1>1. ASSUME NEW k \in 1..4 PROVE Proper(ConfigItems(c)[k])
  <2>1. PICK f \in Fields : f = ConfigByTag[k]
    BY ConfigByTagIs
  <2>2. ConfigItems(c)[k] = ConfigItem(f, c[f])
    BY <2>1, Zenon DEF ConfigItems
  <2>3. QED
    BY <2>2, FieldReturns, Zenon
<1>2. DOMAIN ConfigItems(c) = 1..4 /\ Len(ConfigItems(c)) = 4 /\ 4 \in 0..11
  BY DEF ConfigItems
<1>3. ConfigReply(c) = CamBlob(ConfigItems(c))
  BY ConfigByTagIs, Zenon DEF ConfigReply, ConfigItems
<1>4. QED
  BY <1>1, <1>2, <1>3, Zenon DEF ProperItems

\* However much of the configuration there is, each field is right or empty.
FieldsOrNot(c, blob) ==
    \A f \in Fields :
        \/ /\ DecodeConfig(blob)[f] = <<>>
           /\ \A k \in ReadEntries(blob) : ConfigByTag[k] # f
        \/ DecodeConfig(blob)[f] = c[f]

\* However much of a configuration there is, a field is what the camera says or empty.
LEMMA ConfigCut ==
    ASSUME NEW c \in CamConfigs, NEW s \in 0..ConfigReply(c).size
    PROVE  FieldsOrNot(c, Cut(ConfigReply(c), s))
<1> DEFINE items == ConfigItems(c)
<1>1. PICK blob : blob = Cut(ConfigReply(c), s)
  OBVIOUS
<1>2. /\ ProperItems(items) /\ Len(items) = 4
      /\ blob = Cut(CamBlob(items), s) /\ s \in 0..CamBlob(items).size
  BY <1>1, ConfigItemsProper, Zenon
<1>3. ASSUME NEW k \in ReadEntries(blob)
      PROVE  /\ k \in 1..4 /\ k \in Int /\ ConfigByTag[k] \in Fields
             /\ blob.entries[k].tag = ConfigTagOf[ConfigByTag[k]]
             /\ Fits(ConfigByTag[k], blob.entries[k], Payload(blob, blob.entries[k]))
             /\ FieldFrom(ConfigByTag[k], blob.entries[k], Payload(blob, blob.entries[k]))
                  = c[ConfigByTag[k]]
  <2>1. /\ k \in 1..Len(items) /\ k \in 1..4
        /\ Payload(blob, blob.entries[k]) = items[k].bytes
    BY <1>2, <1>3, ReadIsWhole, Zenon
  <2>2. PICK f \in Fields : f = ConfigByTag[k]
    BY <2>1, ConfigByTagIs
  <2>3. items[k] = ConfigItem(f, c[f])
    BY <2>1, <2>2, Zenon DEF ConfigItems
  <2>4. /\ items[k].tag = ConfigTagOf[f]
        /\ \A e : e.type = items[k].type =>
              Fits(f, e, items[k].bytes) /\ FieldFrom(f, e, items[k].bytes) = c[f]
    BY <2>3, FieldReturns, Zenon
  <2>5. blob.entries = CamBlob(items).entries
    BY <1>2, CutIs, Zenon
  <2>6. blob.entries[k].tag = items[k].tag /\ blob.entries[k].type = items[k].type
    <3>1. /\ CamBlob(items).entries[k].tag = items[k].tag
          /\ CamBlob(items).entries[k].type = items[k].type
      BY <1>2, <2>1, EntrySized, Zenon
    <3>2. QED
      BY <2>5, <3>1, Zenon
  <2>7. k \in Int
    BY <2>1
  <2>8. /\ Fits(f, blob.entries[k], items[k].bytes)
        /\ FieldFrom(f, blob.entries[k], items[k].bytes) = c[f]
    BY <2>4, <2>6, Zenon
  <2>9. QED
    BY <2>1, <2>2, <2>4, <2>6, <2>7, <2>8, Zenon
<1>4. ASSUME NEW f \in Fields
      PROVE  \/ /\ DecodeConfig(blob)[f] = <<>>
                /\ \A k \in ReadEntries(blob) : ConfigByTag[k] # f
             \/ DecodeConfig(blob)[f] = c[f]
  <2> DEFINE fitting == {k \in ReadEntries(blob) :
                            Fits(f, blob.entries[k], Payload(blob, blob.entries[k]))}
             mine == {k \in fitting : blob.entries[k].tag = ConfigTagOf[f]}
  <2>1. DecodeConfig(blob)[f] =
           IF mine = {} THEN <<>>
           ELSE FieldFrom(f, blob.entries[Max(mine)], Payload(blob, blob.entries[Max(mine)]))
    BY DEF DecodeConfig, Tagged, PayloadOfLast, Nothing
  <2>2. ASSUME NEW k \in ReadEntries(blob)
        PROVE  k \in mine <=> ConfigByTag[k] = f
    <3>1. ConfigTagOf[ConfigByTag[k]] = ConfigTagOf[f] <=> ConfigByTag[k] = f
      BY <1>3, FieldsAre, Zenon
    <3>2. QED
      BY <1>3, <3>1, Zenon
  <2>3. CASE mine = {}
    BY <2>1, <2>2, <2>3, Zenon
  <2>4. CASE mine # {}
    <3>1. PICK k \in ReadEntries(blob) : k \in mine
      BY <2>4, Zenon
    <3>2. ConfigByTag[k] = f
      BY <2>2, <3>1, Zenon
    <3>3. ASSUME NEW j \in mine PROVE j = k
      <4>1. j \in ReadEntries(blob) /\ ConfigByTag[j] = f
        BY <2>2, <3>3, Zenon
      <4>2. j \in 1..4 /\ k \in 1..4
        BY <1>3, <3>1, <4>1, Zenon
      <4>3. QED
        BY <3>2, <4>1, <4>2, ConfigByTagIs, Zenon
    <3>4. mine = {k} /\ k \in Int
      BY <1>3, <3>1, <3>3, Zenon
    <3>5. Max(mine) = k
      BY <3>4, MaxOfOne, Zenon
    <3>6. DecodeConfig(blob)[f] = c[f]
      BY <1>3, <2>1, <2>4, <3>1, <3>2, <3>5, Zenon
    <3>7. QED
      BY <3>6, Zenon
  <2>5. QED
    BY <2>3, <2>4
<1>5. QED
  BY <1>1, <1>4, Zenon DEF FieldsOrNot

\* A whole answer says what the camera is.
LEMMA ConfigWhole ==
    ASSUME NEW c \in CamConfigs
    PROVE  DecodeConfig(ConfigReply(c)) = c
<1> DEFINE blob == ConfigReply(c)
<1>1. /\ ProperItems(ConfigItems(c)) /\ Len(ConfigItems(c)) = 4
      /\ blob = CamBlob(ConfigItems(c))
  BY ConfigItemsProper
<1>2. Cut(blob, blob.size) = blob /\ blob.size \in 0..blob.size
  BY <1>1, Uncut, Zenon
<1>3. ReadEntries(blob) = 1..4
  BY <1>1, AllAreRead, Zenon
<1>4. FieldsOrNot(c, blob)
  BY <1>2, ConfigCut, Zenon
<1>5. \A f \in Fields : DecodeConfig(blob)[f] = c[f]
  BY <1>3, <1>4, ConfigByTagIs, Zenon DEF FieldsOrNot
<1>6. DecodeConfig(blob) = [f \in Fields |-> DecodeConfig(blob)[f]]
  BY Zenon DEF DecodeConfig
<1>7. c = [f \in Fields |-> c[f]]
  BY ConfigIs
<1>8. QED
  BY <1>5, <1>6, <1>7, Zenon

-----------------------------------------------------------------------------
(***************************************************************************)
(* Answers that say otherwise where a payload is.                          *)
(***************************************************************************)

\* One entry, with a payload of more than four bytes somewhere.
Odd(blob) ==
    /\ Len(blob.entries) = 1 /\ DOMAIN blob.entries = {1}
    /\ blob.data \in Seq(Byte) /\ blob.size = IndexSize(1) + Len(blob.data)
    /\ blob.entries[1].value \in Nat
    /\ PayloadSize(blob.entries[1]) \in 5..(WordSize - 1)

\* Every blob of GetOdd is one.
LEMMA OddIsOdd ==
    ASSUME NEW entries \in OddEntries, NEW data \in {<<>>, <<1, 2, 3, 4, 5, 6, 7, 8>>}
    PROVE  Odd(Blob(entries, data))
<1>1. PICK m \in {"focusMode", "dmfPos"}, n \in {5, 8, WordSize - 1},
           ofs \in 11..29 \cup (WordSize - 10)..(WordSize - 1) :
          entries = <<Entry(TagOf[m], "UInt8", n, ofs)>>
  BY DEF OddEntries
<1>2. n \in 5..(WordSize - 1) /\ ofs \in Nat
  BY FocusAssumption
<1>3. PICK e : e = Entry(TagOf[m], "UInt8", n, ofs)
  OBVIOUS
<1>4. e.type = "UInt8" /\ e.count = n /\ e.value = ofs
  BY <1>3 DEF Entry
<1>5. PayloadSize(e) = n
  <2>1. e.count \in Nat /\ e.count < WordSize
    BY <1>2, <1>4, FocusAssumption
  <2>2. QED
    BY <1>4, <2>1, ByteSized, Zenon
<1>6. data \in Seq(Byte)
  <2>1. <<>> \in Seq(Byte) /\ <<1, 2, 3, 4, 5, 6, 7, 8>> \in Seq(Byte)
    BY DEF Byte
  <2>2. data = <<>> \/ data = <<1, 2, 3, 4, 5, 6, 7, 8>>
    OBVIOUS
  <2>3. QED
    BY <2>1, <2>2, Zenon
<1>7. entries = <<e>> /\ Len(entries) = 1 /\ DOMAIN entries = {1} /\ entries[1] = e
  BY <1>1, <1>3
<1>8. PICK blob : blob = Blob(entries, data)
  OBVIOUS
<1>9. /\ blob.entries = entries /\ blob.data = data
      /\ blob.size = IndexSize(Len(entries)) + Len(data)
  BY <1>8 DEF Blob
<1>10. QED
  BY <1>2, <1>4, <1>5, <1>6, <1>7, <1>8, <1>9, Zenon DEF Odd

\* A read from outside of it has its cause in the sum that wraps.
LEMMA OddWildRead ==
    ASSUME NEW blob, Odd(blob), WildRead(blob)
    PROVE  \E e \in ToSet(blob.entries) : e.value + PayloadSize(e) >= WordSize
<1>1. PICK k \in ReadEntries(blob) : ~InBlob(blob, blob.entries[k])
  BY DEF WildRead
<1>2. k \in DOMAIN blob.entries /\ Accepted(blob, blob.entries[k])
  <2>1. k \in {j \in DOMAIN blob.entries : Accepted(blob, blob.entries[j])}
    BY <1>1, Zenon DEF ReadEntries
  <2>2. QED
    BY <2>1, Zenon
<1>3. k = 1
  BY <1>2 DEF Odd
<1>4. PICK e : e = blob.entries[1]
  OBVIOUS
<1>5. PICK v \in Nat, n \in Nat, i \in Nat, l \in Nat :
          /\ v = e.value /\ n = PayloadSize(e) /\ n > 4 /\ n < WordSize
          /\ l = Len(blob.data) /\ i = IndexSize(1)
  <2>1. e.value \in Nat /\ PayloadSize(e) \in 5..(WordSize - 1)
    BY <1>4, Zenon DEF Odd
  <2>2. Len(blob.data) \in Nat
    BY LenProperties, Zenon DEF Odd
  <2>3. IndexSize(1) \in Nat
    BY DEF IndexSize
  <2>4. PayloadSize(e) \in Nat /\ PayloadSize(e) > 4 /\ PayloadSize(e) < WordSize
    BY <2>1, FocusAssumption
  <2>5. QED
    BY <2>1, <2>2, <2>3, <2>4, Zenon
<1>6. ~Inline(e)
  <2>1. ~(n <= 4)
    BY <1>5
  <2>2. QED
    BY <1>5, <2>1, Zenon DEF Inline
<1>7. blob.size = i + l
  BY <1>5, Zenon DEF Odd
<1>8. (v + n) % WordSize <= i + l /\ ~(v + n <= i + l)
  BY <1>1, <1>2, <1>3, <1>4, <1>5, <1>6, <1>7, Zenon DEF Accepted, InBlob
<1>9. v + n >= WordSize
  <2>1. CASE v + n < WordSize
    <3>1. v + n \in 0..(WordSize - 1)
      BY ONLY <2>1, v \in Nat, n \in Nat, FocusAssumption
    <3>2. (v + n) % WordSize = v + n
      BY ONLY <3>1, FocusAssumption
    <3>3. QED
      BY <1>8, <3>2, Zenon
  <2>2. CASE ~(v + n < WordSize)
    BY ONLY <2>2, v \in Nat, n \in Nat, FocusAssumption
  <2>3. QED
    BY <2>1, <2>2
<1>10. e \in ToSet(blob.entries)
  BY <1>2, <1>3, <1>4, Zenon DEF ToSet
<1>11. QED
  BY <1>5, <1>9, <1>10, Zenon

\* Its bytes are bytes, wherever they are taken from.
LEMMA OddBytes ==
    ASSUME NEW blob, Odd(blob), NEW p \in Nat
    PROVE  ByteAt(blob, p) \in Byte
<1>1. PICK l \in Nat : l = Len(blob.data)
  BY LenProperties, Zenon DEF Odd
<1>2. IndexSize(Len(blob.entries)) = 20 /\ blob.size = 20 + l
  <2>1. IndexSize(1) = 20
    BY DEF IndexSize
  <2>2. QED
    BY <1>1, <2>1, Zenon DEF Odd
<1>3. ByteAt(blob, p) =
         IF p > 20 + l THEN OutsideByte
         ELSE IF p <= 20 THEN IndexByte ELSE blob.data[p - 20]
  BY <1>2, Zenon DEF ByteAt
<1>4. OutsideByte \in Byte /\ IndexByte \in Byte
  BY DEF OutsideByte, IndexByte, Byte
<1>5. CASE ~(p > 20 + l) /\ ~(p <= 20)
  <2>1. PICK q \in 1..l : q = p - 20
    BY ONLY <1>5, p \in Nat, l \in Nat
  <2>2. blob.data[q] \in Byte
    BY <1>1, <2>1, ElementOfSeq, Zenon DEF Odd
  <2>3. QED
    BY <1>3, <1>5, <2>1, <2>2, Zenon
<1>6. QED
  BY <1>3, <1>4, <1>5, Zenon

\* Whatever it says, bytes are taken from it.
LEMMA OddDecoded ==
    ASSUME NEW blob, Odd(blob)
    PROVE  Application(Decode(blob))
<1> DEFINE o == Decode(blob)
<1>1. PICK e : e = blob.entries[1]
  OBVIOUS
<1>2. PICK v \in Nat, n \in 5..(WordSize - 1) : v = e.value /\ n = PayloadSize(e)
  BY <1>1, Zenon DEF Odd
<1>3. PICK p : p = Payload(blob, e)
  OBVIOUS
<1>4. p = [k \in 1..n |-> ByteAt(blob, v + k)]
  <2>1. ~(n <= 4)
    BY <1>2, FocusAssumption
  <2>2. QED
    BY <1>2, <1>3, <2>1, Zenon DEF Payload, Inline
<1>5. \A k \in 1..n : ByteAt(blob, v + k) \in Byte
  <2>1. TAKE k \in 1..n
  <2>2. v + k \in Nat
    BY <1>2
  <2>3. QED
    BY <2>2, OddBytes, Zenon
<1>6. p \in Seq(Byte) /\ Len(p) = n /\ p # <<>> /\ p[1] \in Byte
  <2>1. n \in Nat /\ n >= 1
    BY FocusAssumption
  <2>2. p \in [1..n -> Byte]
    BY <1>4, <1>5, Zenon
  <2>3. p \in Seq(Byte) /\ Len(p) = n
    BY <2>1, <2>2
  <2>4. 1 \in 1..n
    BY <2>1
  <2>5. QED
    BY <2>1, <2>2, <2>3, <2>4
<1>7. ASSUME NEW m \in Members, o[m] # Unset
      PROVE  o[m] = Taken(m, p)
  <2> DEFINE mine == {k \in {k \in ReadEntries(blob) : Payload(blob, blob.entries[k]) # <<>>} :
                        blob.entries[k].tag = TagOf[m]}
  <2>1. o[m] = IF mine = {} THEN Unset ELSE Taken(m, Payload(blob, blob.entries[Max(mine)]))
    BY DEF Decode, Tagged, PayloadOfLast
  <2>2. mine # {}
    BY <1>7, <2>1, Zenon
  <2>3. ReadEntries(blob) \subseteq {1}
    BY DEF ReadEntries, Odd
  <2>4. mine = {1}
    BY <2>2, <2>3, Zenon
  <2>5. Max(mine) = 1
    <3>1. 1 \in Int
      OBVIOUS
    <3>2. QED
      BY <2>4, <3>1, MaxOfOne, Zenon
  <2>6. QED
    BY <1>1, <1>3, <2>1, <2>2, <2>5, Zenon
<1>8. ASSUME NEW m \in Members, o[m] # Unset
      PROVE  \E q \in Seq(Byte) : /\ o[m] = Holds(q) /\ Len(q) < WordSize
                                  /\ m \notin Arrays => Len(q) = 1
  <2>1. CASE m \in Arrays
    <3>1. o[m] = Holds(p)
      BY <1>7, <1>8, <2>1, Zenon DEF Taken
    <3>2. n < WordSize
      BY FocusAssumption
    <3>3. QED
      BY <1>6, <2>1, <3>1, <3>2, Zenon
  <2>2. CASE m \notin Arrays
    <3>1. o[m] = Holds(<<p[1]>>)
      BY <1>7, <1>8, <2>2, Zenon DEF Taken
    <3>2. <<p[1]>> \in Seq(Byte) /\ Len(<<p[1]>>) = 1
      BY <1>6
    <3>3. 1 < WordSize
      BY FocusAssumption
    <3>4. QED
      BY <3>1, <3>2, <3>3, Zenon
  <2>3. QED
    BY <2>1, <2>2
<1>9. ASSUME NEW m \in Members, o[m] # Unset
      PROVE  /\ o[m] = Holds(o[m][1])
             /\ o[m][1] \in Seq(Byte) /\ Len(o[m][1]) < WordSize
             /\ m \notin Arrays => Len(o[m][1]) = 1
  <2>1. PICK q \in Seq(Byte) : /\ o[m] = Holds(q) /\ Len(q) < WordSize
                               /\ m \notin Arrays => Len(q) = 1
    BY <1>8, <1>9, Zenon
  <2>2. o[m][1] = q
    BY <2>1 DEF Holds
  <2>3. QED
    BY <2>1, <2>2, Zenon
<1>10. QED
  BY <1>9, Zenon DEF Application

-----------------------------------------------------------------------------
(***************************************************************************)
(* The inductive invariant.                                                *)
(***************************************************************************)

IInv == TypeOK /\ Camera(cam) /\ Application(obj) /\ WildReadCause

\* The types of the settings follow from what the camera and the application have.
LEMMA TypeFollows ==
    ASSUME Camera(cam), Application(obj), identity \in CamConfigs,
           \A f \in Fields : config[f] \in Seq(Byte), calls \in 0..MaxCalls
    PROVE  TypeOK
  BY Zenon DEF TypeOK, Camera, Application

\* The same of the next state.
LEMMA TypeFollowsNext ==
    ASSUME Camera(cam'), Application(obj'), identity' \in CamConfigs,
           \A f \in Fields : config'[f] \in Seq(Byte), calls' \in 0..MaxCalls
    PROVE  TypeOK'
  BY Zenon DEF TypeOK, Camera, Application

\* A new object has no member.
LEMMA BlankIs == Application(Blank)
  BY DEF Application, Blank

\* The camera's defaults are settings.
LEMMA DefaultIs ==
    ASSUME NEW m \in Members
    PROVE  /\ Default(m) \in Seq(Byte) /\ Len(Default(m)) <= 8
           /\ m \notin Arrays => Len(Default(m)) = 1
<1>1. TagOf[m] \in Byte /\ 1 \in Byte /\ 2 \in Byte
  BY TagsDiffer DEF Byte
<1>2. CASE m \in Arrays
  <2>1. Default(m) = <<TagOf[m], 1, 2>>
    BY <1>2 DEF Default
  <2>2. <<TagOf[m], 1, 2>> \in Seq(Byte) /\ Len(<<TagOf[m], 1, 2>>) <= 8
    BY <1>1
  <2>3. QED
    BY <1>2, <2>1, <2>2, Zenon
<1>3. CASE m \notin Arrays
  <2>1. Default(m) = <<TagOf[m]>>
    BY <1>3 DEF Default
  <2>2. <<TagOf[m]>> \in Seq(Byte) /\ Len(<<TagOf[m]>>) = 1 /\ Len(<<TagOf[m]>>) <= 8
    BY <1>1
  <2>3. QED
    BY <1>3, <2>1, <2>2, Zenon
<1>4. QED
  BY <1>2, <1>3

LEMMA DefaultsAreCamera == Camera([m \in Members |-> Default(m)])
  BY DefaultIs DEF Camera

\* The invariant holds at the start.
LEMMA InitHolds == Init => IInv
<1> SUFFICES ASSUME Init PROVE IInv
  OBVIOUS
<1>1. PICK p \in Faces : cam = [m \in Members |-> IF m = "dmfDetection" THEN p ELSE Default(m)]
  BY DEF Init
<1>2. p \in Seq(Byte) /\ Len(p) <= 8
  <2>1. /\ <<>> \in Seq(Byte) /\ Len(<<>>) <= 8
        /\ <<81, 82, 83, 84, 85, 86>> \in Seq(Byte) /\ Len(<<81, 82, 83, 84, 85, 86>>) <= 8
    BY DEF Byte
  <2>2. p = <<>> \/ p = <<81, 82, 83, 84, 85, 86>>
    BY DEF Faces
  <2>3. QED
    BY <2>1, <2>2, Zenon
<1>3. Camera(cam)
  <2>1. ASSUME NEW m \in Members
        PROVE  /\ cam[m] \in Seq(Byte) /\ Len(cam[m]) <= 8
               /\ m \notin Arrays => Len(cam[m]) = 1
    <3>1. cam[m] = IF m = "dmfDetection" THEN p ELSE Default(m)
      BY <1>1, Zenon
    <3>2. "dmfDetection" \in Arrays
      BY DEF Arrays
    <3>3. QED
      BY <1>2, <3>1, <3>2, DefaultIs, Zenon
  <2>2. QED
    BY <2>1, Zenon DEF Camera
<1>4. Application(obj)
  BY BlankIs DEF Init
<1>5. \A f \in Fields : config[f] \in Seq(Byte)
  BY DEF Init, Nothing
<1>6. identity \in CamConfigs /\ calls \in 0..MaxCalls /\ wild = {}
  BY FocusAssumption DEF Init
<1>7. WildReadCause
  BY <1>6 DEF WildReadCause
<1>8. QED
  BY <1>3, <1>4, <1>5, <1>6, <1>7, TypeFollows DEF IInv

-----------------------------------------------------------------------------
(***************************************************************************)
(* The steps.                                                              *)
(***************************************************************************)

\* A bounded choice of members is a set of members.
LEMMA FewOfSet ==
    ASSUME NEW X, NEW S \in NearlyAllOrNone(X)
    PROVE  S \in SUBSET X
  BY DEF NearlyAllOrNone, kSubset

\* The positions that a program sets are bytes.
LEMMA PositionsAre ==
    ASSUME NEW pos \in Positions
    PROVE  pos \in Seq(Byte) /\ Len(pos) <= 5
<1>1. /\ <<>> \in Seq(Byte) /\ Len(<<>>) <= 5
      /\ <<91, 92, 93, 94>> \in Seq(Byte) /\ Len(<<91, 92, 93, 94>>) <= 5
      /\ <<91, 92, 93, 94, 95>> \in Seq(Byte) /\ Len(<<91, 92, 93, 94, 95>>) <= 5
  BY DEF Byte
<1>2. pos = <<>> \/ pos = <<91, 92, 93, 94>> \/ pos = <<91, 92, 93, 94, 95>>
  BY DEF Positions
<1>3. QED
  BY <1>1, <1>2, Zenon

\* What a member holds is what it was given.
LEMMA HoldsIs ==
    ASSUME NEW v
    PROVE  Holds(v)[1] = v /\ Holds(v) # Unset
  BY DEF Holds, Unset

\* The application assigns members.
LEMMA AssignKeeps ==
    ASSUME IInv, Assign
    PROVE  IInv'
<1>1. PICK S \in NearlyAllOrNone(Written), pos \in Positions :
          obj' = [m \in Members |->
                    IF m \notin S THEN obj[m]
                    ELSE Holds(IF m = "dmfPos" THEN pos ELSE <<100 + TagOf[m]>>)]
  BY DEF Assign
<1>2. Application(obj')
  <2>1. ASSUME NEW m \in Members, obj'[m] # Unset
        PROVE  /\ obj'[m] = Holds(obj'[m][1])
               /\ obj'[m][1] \in Seq(Byte) /\ Len(obj'[m][1]) < WordSize
               /\ m \notin Arrays => Len(obj'[m][1]) = 1
    <3>1. CASE m \notin S
      <4>1. obj'[m] = obj[m]
        BY <1>1, <3>1, Zenon
      <4>2. QED
        BY <2>1, <4>1, Zenon DEF IInv, Application
    <3>2. CASE m \in S
      <4>1. PICK v : v = IF m = "dmfPos" THEN pos ELSE <<100 + TagOf[m]>>
        OBVIOUS
      <4>2. obj'[m] = Holds(v)
        BY <1>1, <3>2, <4>1, Zenon
      <4>3. /\ v \in Seq(Byte) /\ Len(v) < WordSize
            /\ m \notin Arrays => Len(v) = 1
        <5>1. CASE m = "dmfPos"
          <6>1. v = pos /\ m \in Arrays
            BY <4>1, <5>1 DEF Arrays
          <6>2. pos \in Seq(Byte) /\ Len(pos) < WordSize
            <7>1. pos \in Seq(Byte) /\ Len(pos) <= 5
              BY PositionsAre
            <7>2. Len(pos) \in Nat
              BY <7>1, LenProperties, Zenon
            <7>3. QED
              BY <7>1, <7>2, FocusAssumption
          <6>3. QED
            BY <6>1, <6>2, Zenon
        <5>2. CASE m # "dmfPos"
          <6>1. v = <<100 + TagOf[m]>>
            BY <4>1, <5>2, Zenon
          <6>2. 100 + TagOf[m] \in Byte
            BY TagsDiffer DEF Byte
          <6>3. v \in Seq(Byte) /\ Len(v) = 1
            BY <6>1, <6>2
          <6>4. QED
            BY <6>3, FocusAssumption
        <5>3. QED
          BY <5>1, <5>2
      <4>4. QED
        BY <4>2, <4>3, HoldsIs, Zenon
    <3>3. QED
      BY <3>1, <3>2
  <2>2. QED
    BY <2>1, Zenon DEF Application
<1>3. UNCHANGED <<cam, identity, config, wild, calls>>
  BY DEF Assign
<1>4. /\ Camera(cam') /\ identity' \in CamConfigs
      /\ \A f \in Fields : config'[f] \in Seq(Byte)
      /\ calls' \in 0..MaxCalls /\ WildReadCause'
  BY <1>3 DEF IInv, TypeOK, WildReadCause
<1>5. QED
  BY <1>2, <1>4, TypeFollowsNext DEF IInv

\* What every call does.
LEMMA CallIs ==
    ASSUME IInv, NEW step, NEW sent, Call(step, sent)
    PROVE  /\ calls' \in 0..MaxCalls /\ calls' > calls
           /\ last'.step = step /\ last'.sent = sent
           /\ identity' \in CamConfigs /\ identity' = identity
           /\ wild = {}
<1>1. calls \in 0..MaxCalls /\ identity \in CamConfigs
  BY DEF IInv, TypeOK
<1>2. calls < MaxCalls /\ calls' = calls + 1
  BY DEF Call
<1>3. calls' \in 0..MaxCalls /\ calls' > calls
  BY <1>1, <1>2, FocusAssumption
<1>4. last'.step = step /\ last'.sent = sent
  BY DEF Call
<1>5. QED
  BY <1>1, <1>3, <1>4 DEF Call

\* The camera has what set_cam_data_group_focus could tell it.
LEMMA SetGives ==
    ASSUME IInv, SetFocus, NEW m \in Members
    PROVE  cam'[m] = IF m \in Written /\ obj[m] # Unset /\ Len(obj[m][1]) \in 1..4
                     THEN obj[m][1] ELSE cam[m]
<1>1. cam' = CamApply(cam, Encode(obj))
  BY DEF SetFocus
<1>2. Application(obj)
  BY DEF IInv
<1>3. QED
  BY <1>1, <1>2, SetResult, Zenon

\* set_cam_data_group_focus
LEMMA SetKeeps ==
    ASSUME IInv, SetFocus
    PROVE  IInv'
<1>1. /\ calls' \in 0..MaxCalls /\ identity' \in CamConfigs
      /\ UNCHANGED <<obj, config, wild>>
  <2>1. Call("set", {})
    BY DEF SetFocus
  <2>2. calls' \in 0..MaxCalls /\ identity' \in CamConfigs
    BY <2>1, CallIs, Zenon
  <2>3. QED
    BY <2>2 DEF SetFocus
<1>2. Camera(cam) /\ Application(obj) /\ \A f \in Fields : config[f] \in Seq(Byte)
  BY DEF IInv, TypeOK
<1>3. ASSUME NEW m \in Members
      PROVE  /\ cam'[m] \in Seq(Byte) /\ Len(cam'[m]) <= 8
             /\ m \notin Arrays => Len(cam'[m]) = 1
  <2>1. CASE m \in Written /\ obj[m] # Unset /\ Len(obj[m][1]) \in 1..4
    <3>1. cam'[m] = obj[m][1]
      BY <2>1, SetGives, Zenon
    <3>2. obj[m][1] \in Seq(Byte) /\ (m \notin Arrays => Len(obj[m][1]) = 1)
      BY <1>2, <2>1, Zenon DEF Application
    <3>3. PICK l \in 1..4 : l = Len(obj[m][1])
      BY <2>1, Zenon
    <3>31. l <= 8
      OBVIOUS
    <3>4. QED
      BY <3>1, <3>2, <3>3, <3>31, Zenon
  <2>2. CASE ~(m \in Written /\ obj[m] # Unset /\ Len(obj[m][1]) \in 1..4)
    <3>1. cam'[m] = cam[m]
      BY <2>2, SetGives, Zenon
    <3>2. QED
      BY <1>2, <3>1, Zenon DEF Camera
  <2>3. QED
    BY <2>1, <2>2
<1>4. Camera(cam')
  BY <1>3, Zenon DEF Camera
<1>5. Application(obj') /\ (\A f \in Fields : config'[f] \in Seq(Byte)) /\ WildReadCause'
  BY <1>1, <1>2 DEF IInv, WildReadCause
<1>6. QED
  BY <1>1, <1>4, <1>5, TypeFollowsNext DEF IInv

\* Members that show as the camera has them, or not at all, are bytes.
LEMMA ShownTyped ==
    ASSUME NEW c, Camera(c), NEW o,
           \A m \in Members : o[m] = Unset \/ o[m] = Holds(c[m])
    PROVE  Application(o)
<1>1. ASSUME NEW m \in Members, o[m] # Unset
      PROVE  /\ o[m] = Holds(o[m][1])
             /\ o[m][1] \in Seq(Byte) /\ Len(o[m][1]) < WordSize
             /\ m \notin Arrays => Len(o[m][1]) = 1
  <2>1. o[m] = Holds(c[m])
    BY <1>1, Zenon
  <2>2. o[m][1] = c[m]
    BY <2>1, HoldsIs, Zenon
  <2>3. c[m] \in Seq(Byte) /\ Len(c[m]) <= 8 /\ (m \notin Arrays => Len(c[m]) = 1)
    BY DEF Camera
  <2>4. Len(c[m]) \in Nat
    BY <2>3, LenProperties, Zenon
  <2>5. Len(c[m]) < WordSize
    BY <2>3, <2>4, FocusAssumption
  <2>6. QED
    BY <2>1, <2>2, <2>3, <2>5, Zenon
<1>2. QED
  BY <1>1, Zenon DEF Application

\* A whole answer.
LEMMA GetWhole ==
    ASSUME IInv, NEW S \in SUBSET Members, Receive(FocusReply(cam, S))
    PROVE  /\ UNCHANGED wild /\ Application(obj')
           /\ \A m \in Members :
                 obj'[m] = IF m \in S /\ cam[m] # <<>> THEN Holds(cam[m]) ELSE Unset
<1>1. Camera(cam)
  BY DEF IInv
<1>2. /\ ~WildRead(FocusReply(cam, S))
      /\ \A m \in Members :
            Decode(FocusReply(cam, S))[m] =
               IF m \in S /\ cam[m] # <<>> THEN Holds(cam[m]) ELSE Unset
  BY <1>1, DecodeWhole, Zenon
<1>3. obj' = Decode(FocusReply(cam, S)) /\ UNCHANGED wild
  BY <1>2, Zenon DEF Receive
<1>4. \A m \in Members :
         obj'[m] = IF m \in S /\ cam[m] # <<>> THEN Holds(cam[m]) ELSE Unset
  BY <1>2, <1>3, Zenon
<1>5. \A m \in Members : obj'[m] = Unset \/ obj'[m] = Holds(cam[m])
  BY <1>4, Zenon
<1>6. Application(obj')
  BY <1>1, <1>5, ShownTyped, Zenon
<1>7. QED
  BY <1>3, <1>4, <1>6, Zenon

\* An answer that ends early.
LEMMA GetCut ==
    ASSUME IInv, NEW n \in 0..(FocusReply(cam, Members).size - 1),
           Receive(Cut(FocusReply(cam, Members), n))
    PROVE  /\ UNCHANGED wild /\ Application(obj')
           /\ \A m \in Members : obj'[m] \in {Unset, Holds(cam[m])}
<1>1. Camera(cam)
  BY DEF IInv
<1>2. Members \in SUBSET Members
  OBVIOUS
<1>3. FocusReply(cam, Members).size \in Nat
  BY <1>1, <1>2, FocusItemsProper, Sizes, Zenon
<1>4. n \in 0..FocusReply(cam, Members).size
  BY <1>3
<1>5. ShownOrNot(cam, Members, Cut(FocusReply(cam, Members), n))
  BY <1>1, <1>2, <1>4, DecodeCut, Zenon
<1>6. obj' = Decode(Cut(FocusReply(cam, Members), n)) /\ UNCHANGED wild
  BY <1>5, Zenon DEF Receive, ShownOrNot
<1>7. \A m \in Members : obj'[m] = Unset \/ obj'[m] = Holds(cam[m])
  BY <1>5, <1>6, Zenon DEF ShownOrNot
<1>8. Application(obj')
  BY <1>1, <1>7, ShownTyped, Zenon
<1>9. QED
  BY <1>6, <1>7, <1>8, Zenon

\* get_cam_data_group_focus in its two cases.
LEMMA GetIs ==
    ASSUME IInv, GetFocus
    PROVE  \/ \E S \in SUBSET Members : Call("get", S) /\ Receive(FocusReply(cam, S))
           \/ \E n \in 0..(FocusReply(cam, Members).size - 1) :
                 Call("get_cut", {}) /\ Receive(Cut(FocusReply(cam, Members), n))
<1>1. CASE \E S \in NearlyAllOrNone(Members) : Call("get", S) /\ Receive(FocusReply(cam, S))
  BY <1>1, FewOfSet, Zenon
<1>2. CASE \E n \in 0..(FocusReply(cam, Members).size - 1) :
              Misanswered("get_cut") /\ Receive(Cut(FocusReply(cam, Members), n))
  BY <1>2, Zenon DEF Misanswered
<1>3. QED
  BY <1>1, <1>2, Zenon DEF GetFocus

\* get_cam_data_group_focus
LEMMA GetKeeps ==
    ASSUME IInv, GetFocus
    PROVE  IInv'
<1>1. UNCHANGED <<cam, config>>
  BY DEF GetFocus
<1>2. /\ calls' \in 0..MaxCalls /\ identity' \in CamConfigs
      /\ UNCHANGED wild /\ Application(obj')
  <2>1. CASE \E S \in SUBSET Members : Call("get", S) /\ Receive(FocusReply(cam, S))
    BY <2>1, CallIs, GetWhole, Zenon
  <2>2. CASE \E n \in 0..(FocusReply(cam, Members).size - 1) :
                Call("get_cut", {}) /\ Receive(Cut(FocusReply(cam, Members), n))
    BY <2>2, CallIs, GetCut, Zenon
  <2>3. QED
    BY <2>1, <2>2, GetIs
<1>3. /\ Camera(cam') /\ WildReadCause'
      /\ \A f \in Fields : config'[f] \in Seq(Byte)
  BY <1>1, <1>2 DEF IInv, TypeOK, WildReadCause
<1>4. QED
  BY <1>2, <1>3, TypeFollowsNext DEF IInv

\* An answer that says otherwise where a payload is.
LEMMA OddKeeps ==
    ASSUME IInv, GetOdd
    PROVE  IInv'
<1>1. PICK entries \in OddEntries, data \in {<<>>, <<1, 2, 3, 4, 5, 6, 7, 8>>} :
          Misanswered("get_odd") /\ Receive(Blob(entries, data))
  BY DEF GetOdd
<1>2. PICK blob : blob = Blob(entries, data)
  OBVIOUS
<1>3. Odd(blob)
  BY <1>2, OddIsOdd, Zenon
<1>4. Call("get_odd", {})
  BY <1>1, Zenon DEF Misanswered
<1>5. calls' \in 0..MaxCalls /\ identity' \in CamConfigs
  BY <1>4, CallIs, Zenon
<1>6. UNCHANGED <<cam, config>>
  BY DEF GetOdd
<1>7. Application(obj) /\ WildReadCause
  BY DEF IInv
<1>8. Application(obj') /\ WildReadCause'
  <2>1. CASE WildRead(blob)
    <3>1. wild' = {blob} /\ obj' = obj
      BY <1>1, <1>2, <2>1, Zenon DEF Receive
    <3>2. \E e \in ToSet(blob.entries) : e.value + PayloadSize(e) >= WordSize
      BY <1>3, <2>1, OddWildRead
    <3>3. WildReadCause'
      BY <3>1, <3>2, Zenon DEF WildReadCause
    <3>4. QED
      BY <1>7, <3>1, <3>3, Zenon
  <2>2. CASE ~WildRead(blob)
    <3>1. obj' = Decode(blob) /\ wild' = wild
      BY <1>1, <1>2, <2>2, Zenon DEF Receive
    <3>2. Application(obj')
      BY <1>3, <3>1, OddDecoded, Zenon
    <3>3. QED
      BY <1>7, <3>1, <3>2, Zenon DEF WildReadCause
  <2>3. QED
    BY <2>1, <2>2
<1>9. Camera(cam') /\ \A f \in Fields : config'[f] \in Seq(Byte)
  BY <1>6 DEF IInv, TypeOK
<1>10. QED
  BY <1>5, <1>8, <1>9, TypeFollowsNext DEF IInv

\* A configuration that ends early.
LEMMA ConfigCutShows ==
    ASSUME IInv, NEW n \in 1..(ConfigReply(identity).size - 1),
           config' = DecodeConfig(Cut(ConfigReply(identity), n))
    PROVE  \A f \in Fields : config'[f] \in {<<>>, identity[f]}
<1>1. identity \in CamConfigs
  BY DEF IInv, TypeOK
<1>2. ConfigReply(identity).size \in Nat
  BY <1>1, ConfigItemsProper, Sizes, Zenon
<1>3. n \in 0..ConfigReply(identity).size
  BY <1>2
<1>4. FieldsOrNot(identity, Cut(ConfigReply(identity), n))
  BY <1>1, <1>3, ConfigCut, Zenon
<1>5. \A f \in Fields : config'[f] = <<>> \/ config'[f] = identity[f]
  BY <1>4, Zenon DEF FieldsOrNot
<1>6. QED
  BY <1>5, Zenon

\* config_api
LEMMA ConfigKeeps ==
    ASSUME IInv, ConfigApi
    PROVE  IInv'
<1>1. identity \in CamConfigs /\ \A f \in Fields : config[f] \in Seq(Byte)
  BY DEF IInv, TypeOK
<1>2. \A f \in Fields : identity[f] \in Seq(Byte) /\ <<>> \in Seq(Byte)
  BY <1>1, ConfigIs
<1>3. /\ calls' \in 0..MaxCalls /\ identity' \in CamConfigs
      /\ \A f \in Fields : config'[f] \in Seq(Byte)
  <2>1. CASE Call("config", Fields) /\ config' = DecodeConfig(ConfigReply(identity))
    <3>1. config' = identity
      BY <1>1, <2>1, ConfigWhole, Zenon
    <3>2. QED
      BY <1>2, <2>1, <3>1, CallIs, Zenon
  <2>2. ASSUME NEW n \in 1..(ConfigReply(identity).size - 1), Misanswered("config_cut"),
               config' = DecodeConfig(Cut(ConfigReply(identity), n))
        PROVE  /\ calls' \in 0..MaxCalls /\ identity' \in CamConfigs
               /\ \A f \in Fields : config'[f] \in Seq(Byte)
    <3>1. \A f \in Fields : config'[f] = <<>> \/ config'[f] = identity[f]
      BY <2>2, ConfigCutShows
    <3>2. \A f \in Fields : config'[f] \in Seq(Byte)
      BY <1>2, <3>1, Zenon
    <3>3. QED
      BY <2>2, <3>2, CallIs, Zenon DEF Misanswered
  <2>3. CASE Misanswered("config_threw") /\ UNCHANGED config
    BY <1>1, <2>3, CallIs, Zenon DEF Misanswered
  <2>4. QED
    BY <2>1, <2>2, <2>3, Zenon DEF ConfigApi
<1>4. Camera(cam') /\ Application(obj') /\ WildReadCause'
  <2>1. cam' = [m \in Members |-> Default(m)] /\ obj' = obj /\ wild' = wild
    BY DEF ConfigApi
  <2>2. QED
    BY <2>1, DefaultsAreCamera DEF IInv, WildReadCause
<1>5. QED
  BY <1>3, <1>4, TypeFollowsNext DEF IInv

\* Every step keeps the invariant.
LEMMA NextKeeps ==
    ASSUME IInv, [Next]_vars
    PROVE  IInv'
<1>1. CASE UNCHANGED vars
  BY <1>1 DEF IInv, TypeOK, WildReadCause, vars
<1>2. QED
  BY <1>1, AssignKeeps, SetKeeps, GetKeeps, OddKeeps, ConfigKeeps DEF Next

-----------------------------------------------------------------------------
(***************************************************************************)
(* What the calls show.                                                    *)
(***************************************************************************)

\* The types, and what holds of the blobs that were read.
THEOREM Invariance == Spec => []IInv
  BY InitHolds, NextKeeps, PTL DEF Spec

\* Every setting is bytes, one of them for a member that is not an array, with the
\* camera and in the application.
THEOREM FocusTypeCorrect == Spec => []TypeOK
<1>1. IInv => TypeOK
  BY DEF IInv
<1>2. QED
  BY <1>1, Invariance, PTL

\* decode() reads behind an answer only where offset and size of a payload exceed a
\* word together, however wide a word is and whatever was called before.
THEOREM WildReadByWrap == Spec => []WildReadCause
<1>1. IInv => WildReadCause
  BY DEF IInv
<1>2. QED
  BY <1>1, Invariance, PTL

\* A step that makes no call is none of those that the properties are about.
LEMMA NoCall ==
    ASSUME IInv, calls' = calls, NEW s
    PROVE  ~IsStep(s)
<1>1. calls \in Nat
  BY FocusAssumption DEF IInv, TypeOK
<1>2. ~(calls' > calls)
  BY <1>1
<1>3. QED
  BY <1>2, Zenon DEF IsStep

\* A step that says it set the focus group called set_cam_data_group_focus.
LEMMA SetIsSet ==
    ASSUME IInv, [Next]_vars, IsStep("set")
    PROVE  SetFocus
<1>1. last'.step = "set"
  BY Zenon DEF IsStep
<1>2. ~(calls' = calls)
  BY NoCall, Zenon
<1>3. ~GetFocus
  <2>1. ASSUME GetFocus PROVE last'.step \in {"get", "get_cut"}
    BY <2>1, GetIs, CallIs, Zenon
  <2>2. QED
    BY <1>1, <2>1
<1>4. ~GetOdd
  BY <1>1 DEF GetOdd, Misanswered, Call
<1>5. ~ConfigApi
  BY <1>1 DEF ConfigApi, Misanswered, Call
<1>6. QED
  BY <1>2, <1>3, <1>4, <1>5 DEF Next, Assign, vars

\* The same of the two outcomes of get_cam_data_group_focus,
LEMMA GetIsGet ==
    ASSUME IInv, [Next]_vars, NEW s \in {"get", "get_cut"}, IsStep(s)
    PROVE  GetFocus
<1>1. last'.step \in {"get", "get_cut"}
  BY Zenon DEF IsStep
<1>2. ~(calls' = calls)
  BY NoCall, Zenon
<1>3. ~SetFocus
  BY <1>1 DEF SetFocus, Call
<1>4. ~GetOdd
  BY <1>1 DEF GetOdd, Misanswered, Call
<1>5. ~ConfigApi
  BY <1>1 DEF ConfigApi, Misanswered, Call
<1>6. QED
  BY <1>2, <1>3, <1>4, <1>5 DEF Next, Assign, vars

\* and of two of config_api.
LEMMA ConfigIsConfig ==
    ASSUME IInv, [Next]_vars, NEW s \in {"config", "config_cut"}, IsStep(s)
    PROVE  ConfigApi
<1>1. last'.step \in {"config", "config_cut"}
  BY Zenon DEF IsStep
<1>2. ~(calls' = calls)
  BY NoCall, Zenon
<1>3. ~SetFocus
  BY <1>1 DEF SetFocus, Call
<1>4. ~GetOdd
  BY <1>1 DEF GetOdd, Misanswered, Call
<1>5. ~GetFocus
  <2>1. ASSUME GetFocus PROVE last'.step \in {"get", "get_cut"}
    BY <2>1, GetIs, CallIs, Zenon
  <2>2. QED
    BY <1>1, <2>1
<1>6. QED
  BY <1>2, <1>3, <1>4, <1>5 DEF Next, Assign, vars

\* set_cam_data_group_focus gives the camera every member that is set to one to four
\* bytes, and changes no other.
THEOREM SetReachesCamera == Spec => SetReaches
<1>1. ASSUME IInv, [Next]_vars, IsStep("set"), NEW m \in Members
      PROVE  cam'[m] = IF m \in Written /\ obj[m] # Unset /\ Len(obj[m][1]) \in 1..4
                       THEN obj[m][1] ELSE cam[m]
  BY <1>1, SetIsSet, SetGives, Zenon
<1>2. IInv /\ [Next]_vars =>
         [IsStep("set") =>
            \A m \in Members :
               cam'[m] = IF m \in Written /\ obj[m] # Unset /\ Len(obj[m][1]) \in 1..4
                         THEN obj[m][1] ELSE cam[m]]_vars
  BY <1>1, Zenon
<1>3. QED
  BY <1>2, Invariance, PTL DEF Spec, SetReaches

\* get_cam_data_group_focus shows every member that the camera sent, of whatever
\* length, and no other; config_api shows what the camera is.
THEOREM GetShowsCamera == Spec => GetReflectsCamera
<1>1. ASSUME IInv, [Next]_vars, IsStep("get"), NEW m \in Members
      PROVE  obj'[m] = IF m \in last'.sent /\ cam[m] # <<>> THEN Holds(cam[m]) ELSE Unset
  <2>1. last'.step = "get"
    BY <1>1, Zenon DEF IsStep
  <2>2. ~\E n \in 0..(FocusReply(cam, Members).size - 1) :
             Call("get_cut", {}) /\ Receive(Cut(FocusReply(cam, Members), n))
    BY <2>1 DEF Call
  <2>3. GetFocus
    BY <1>1, GetIsGet, Zenon
  <2>4. PICK S \in SUBSET Members : Call("get", S) /\ Receive(FocusReply(cam, S))
    BY <1>1, <2>2, <2>3, GetIs, Zenon
  <2>5. last'.sent = S
    BY <1>1, <2>4, CallIs, Zenon
  <2>6. obj'[m] = IF m \in S /\ cam[m] # <<>> THEN Holds(cam[m]) ELSE Unset
    BY <1>1, <2>4, GetWhole, Zenon
  <2>7. QED
    BY <2>5, <2>6, Zenon
<1>2. ASSUME IInv, [Next]_vars, IsStep("config")
      PROVE  config' = identity
  <2>1. last'.step = "config"
    BY <1>2, Zenon DEF IsStep
  <2>2. ConfigApi
    BY <1>2, ConfigIsConfig, Zenon
  <2>3. config' = DecodeConfig(ConfigReply(identity))
    BY <2>1, <2>2 DEF ConfigApi, Misanswered, Call
  <2>4. identity \in CamConfigs
    BY <1>2, Zenon DEF IInv, TypeOK
  <2>5. QED
    BY <2>3, <2>4, ConfigWhole, Zenon
<1>3. IInv /\ [Next]_vars =>
         [IsStep("get") =>
            \A m \in Members :
               obj'[m] = IF m \in last'.sent /\ cam[m] # <<>> THEN Holds(cam[m]) ELSE Unset]_vars
  BY <1>1, Zenon
<1>4. IInv /\ [Next]_vars => [IsStep("config") => config' = identity]_vars
  BY <1>2, Zenon
<1>5. QED
  BY <1>3, <1>4, Invariance, FocusTypeCorrect, PTL DEF Spec, GetReflectsCamera

\* However much of an answer arrives, a member shows as the camera has it or not at
\* all, and so does a field of the configuration.
THEOREM CutAnswersNeverMix == Spec => CutNeverMixes
<1>1. ASSUME IInv, [Next]_vars, IsStep("get_cut"), NEW m \in Members
      PROVE  obj'[m] \in {Unset, Holds(cam[m])}
  <2>1. last'.step = "get_cut"
    BY <1>1, Zenon DEF IsStep
  <2>2. ~\E S \in SUBSET Members : Call("get", S) /\ Receive(FocusReply(cam, S))
    BY <2>1 DEF Call
  <2>3. GetFocus
    BY <1>1, GetIsGet, Zenon
  <2>4. PICK n \in 0..(FocusReply(cam, Members).size - 1) :
           Call("get_cut", {}) /\ Receive(Cut(FocusReply(cam, Members), n))
    BY <1>1, <2>2, <2>3, GetIs, Zenon
  <2>5. QED
    BY <1>1, <2>4, GetCut, Zenon
<1>2. ASSUME IInv, [Next]_vars, IsStep("config_cut"), NEW f \in Fields
      PROVE  config'[f] \in {<<>>, identity[f]}
  <2>1. last'.step = "config_cut"
    BY <1>2, Zenon DEF IsStep
  <2>2. ConfigApi
    BY <1>2, ConfigIsConfig, Zenon
  <2>3. PICK n \in 1..(ConfigReply(identity).size - 1) :
           config' = DecodeConfig(Cut(ConfigReply(identity), n))
    BY <2>1, <2>2 DEF ConfigApi, Misanswered, Call
  <2>4. QED
    BY <1>2, <2>3, ConfigCutShows, Zenon
<1>3. IInv /\ [Next]_vars =>
         [/\ IsStep("get_cut") => \A m \in Members : obj'[m] \in {Unset, Holds(cam[m])}
          /\ IsStep("config_cut") => \A f \in Fields : config'[f] \in {<<>>, identity[f]}]_vars
  BY <1>1, <1>2, Zenon
<1>4. QED
  BY <1>3, Invariance, PTL DEF Spec, CutNeverMixes

-----------------------------------------------------------------------------
(***************************************************************************)
(* Tables of exposure values.                                              *)
(***************************************************************************)

TableEntry == [code : 0..255, value : Int]

\* What is held is an entry that is nearest, or the very value, of its code.
Held ==
    /\ did = "encoded" => \E e \in Entries[table] : e.code = code /\ Apex!Nearest(e, value)
    /\ did = "decoded" => \E e \in Entries[table] : e.code = code /\ e.value = value

TablesIInv == Apex!TypeOK /\ Held

LEMMA EntriesTyped ==
    ASSUME Apex!TypeOK
    PROVE  /\ Entries[table] \in SUBSET TableEntry
           /\ Asked[table] \in SUBSET Int
  BY EncodingsAssumption DEF Apex!ApexAssumption, Apex!TypeOK, TableEntry

\* A code or a value belongs to one entry.
LEMMA Unique ==
    ASSUME Apex!TypeOK, NEW e \in Entries[table], NEW f \in Entries[table],
           e.code = f.code \/ e.value = f.value
    PROVE  e = f
  BY EncodingsAssumption DEF Apex!ApexAssumption, Apex!TypeOK

LEMMA TablesBegin == Apex!Init => TablesIInv
  BY DEF Apex!Init, TablesIInv, Apex!TypeOK, Held

LEMMA EncodeKeepsHeld ==
    ASSUME TablesIInv, NEW v \in Int, Apex!Encode(v)
    PROVE  TablesIInv'
  <1>1. PICK e \in Entries[table] : Apex!Nearest(e, v) /\ code' = e.code
    BY DEF Apex!Encode
  <1>2. table' = table /\ value' = v /\ did' = "encoded"
    BY DEF Apex!Encode
  <1>3. e \in TableEntry
    BY EntriesTyped DEF TablesIInv
  <1>4. Apex!TypeOK'
    BY <1>1, <1>2, <1>3 DEF TablesIInv, Apex!TypeOK, TableEntry
  <1>5. Held'
    BY <1>1, <1>2 DEF Held, Apex!Nearest
  <1>6. QED
    BY <1>4, <1>5 DEF TablesIInv

LEMMA DecodeKeepsHeld ==
    ASSUME TablesIInv, NEW c \in 0..255, Apex!Decode(c)
    PROVE  TablesIInv'
  <1>1. table' = table
    BY DEF Apex!Decode
  <1>2. CASE did' = "unknown" /\ value' = 0 /\ code' = 0
    BY <1>1, <1>2 DEF TablesIInv, Apex!TypeOK, Held
  <1>3. CASE \E e \in Apex!WithCode(c) : did' = "decoded" /\ value' = e.value /\ code' = c
    <2>1. PICK e \in Entries[table] :
              e.code = c /\ did' = "decoded" /\ value' = e.value /\ code' = c
      BY <1>3 DEF Apex!WithCode
    <2>2. e \in TableEntry
      BY EntriesTyped DEF TablesIInv
    <2>3. Apex!TypeOK'
      BY <1>1, <2>1, <2>2 DEF TablesIInv, Apex!TypeOK, TableEntry
    <2>4. Held'
      BY <1>1, <2>1 DEF Held
    <2>5. QED
      BY <2>3, <2>4 DEF TablesIInv
  <1>4. QED
    BY <1>2, <1>3 DEF Apex!Decode

LEMMA TablesKeep ==
    ASSUME TablesIInv, [Apex!Next]_Apex!vars
    PROVE  TablesIInv'
  <1>1. ASSUME NEW v \in Asked[table], Apex!Encode(v)
        PROVE  TablesIInv'
    BY <1>1, EntriesTyped, EncodeKeepsHeld DEF TablesIInv
  <1>2. CASE did = "decoded" /\ Apex!Encode(value)
    BY <1>2, EncodeKeepsHeld DEF TablesIInv, Apex!TypeOK
  <1>3. ASSUME NEW c \in 0..255, Apex!Decode(c)
        PROVE  TablesIInv'
    BY <1>3, DecodeKeepsHeld
  <1>4. CASE UNCHANGED Apex!vars
    BY <1>4 DEF TablesIInv, Apex!TypeOK, Held, Apex!Nearest, Apex!vars
  <1>5. QED
    BY <1>1, <1>2, <1>3, <1>4 DEF Apex!Next

\* The types, and that what the application holds is nearest to what it asked for.
THEOREM TablesInvariance == Apex!Spec => []TablesIInv
  BY TablesBegin, TablesKeep, PTL DEF Apex!Spec

\* Every variable keeps its type, and what the application holds is in the table.
THEOREM ApexTypeCorrect == Apex!Spec => []Apex!TypeOK
  <1>1. TablesIInv => Apex!TypeOK
    BY DEF TablesIInv
  <1>2. QED
    BY <1>1, TablesInvariance, PTL

-----------------------------------------------------------------------------

\* The arithmetic of distances.
LEMMA DistanceToItself == ASSUME NEW a \in Int PROVE Apex!Distance(a, a) = 0
  BY DEF Apex!Distance, Apex!Magnitude

LEMMA DistanceIsZero ==
    ASSUME NEW a \in Int, NEW b \in Int, Apex!Distance(a, b) <= 0
    PROVE  a = b
  BY DEF Apex!Distance, Apex!Magnitude

\* Of two points that are not in the order of the values they are nearest to, one
\* is nearer to the other value.
LEMMA Crossing ==
    ASSUME NEW a \in Int, NEW b \in Int, NEW v \in Int, NEW w \in Int,
           v < w, b < a,
           Apex!Distance(a, v) <= Apex!Distance(b, v),
           Apex!Distance(b, w) <= Apex!Distance(a, w)
    PROVE  FALSE
  BY DEF Apex!Distance, Apex!Magnitude

LEMMA NearestIsNearest ==
    ASSUME Apex!TypeOK, NEW v \in Int, NEW e \in Entries[table], NEW f \in Entries[table],
           Apex!Nearest(e, v)
    PROVE  Apex!Distance(e.value, v) <= Apex!Distance(f.value, v)
  <1>1. e.value \in Int /\ f.value \in Int
    BY EntriesTyped DEF TableEntry
  <1>2. Apex!Distance(e.value, v) \in Int /\ Apex!Distance(f.value, v) \in Int
    BY <1>1 DEF Apex!Distance, Apex!Magnitude
  <1>3. \/ Apex!Distance(e.value, v) < Apex!Distance(f.value, v)
        \/ Apex!Distance(e.value, v) = Apex!Distance(f.value, v)
    BY DEF Apex!Nearest
  <1>4. QED
    BY <1>2, <1>3

\* Whatever the action, an encoded value goes with a nearest entry.
LEMMA EncodedIsNearest ==
    ASSUME TablesIInv, did = "encoded", NEW e \in Entries[table], e.code = code
    PROVE  Apex!Nearest(e, value)
  <1>1. PICK f \in Entries[table] : f.code = code /\ Apex!Nearest(f, value)
    BY DEF TablesIInv, Held
  <1>2. e = f
    BY <1>1, Unique DEF TablesIInv
  <1>3. QED
    BY <1>1, <1>2

\* A step that encodes leaves the table alone, and so does every other.
LEMMA SameTable == ASSUME [Apex!Next]_Apex!vars PROVE table' = table
  BY DEF Apex!Next, Apex!Encode, Apex!Decode, Apex!vars

\* A value that a code was decoded to is encoded as that code.
THEOREM Returns == Apex!Spec => RoundTrip
  <1>1. ASSUME TablesIInv, TablesIInv', [Apex!Next]_Apex!vars,
               did = "decoded", did' = "encoded", value' = value
        PROVE  code' = code
    <2>1. table' = table
      BY <1>1, SameTable
    <2>2. PICK e \in Entries[table] : e.code = code /\ e.value = value
      BY <1>1 DEF TablesIInv, Held
    <2>3. PICK f \in Entries[table] : f.code = code' /\ Apex!Nearest(f, value)
      BY <1>1, <2>1 DEF TablesIInv, Held, Apex!Nearest
    <2>4. e.value \in Int /\ f.value \in Int /\ value \in Int
      BY <1>1, EntriesTyped DEF TablesIInv, TableEntry, Apex!TypeOK
    <2>5. Apex!Distance(f.value, value) <= Apex!Distance(e.value, value)
      BY <1>1, <2>3, <2>4, NearestIsNearest DEF TablesIInv
    <2>6. f.value = e.value
      BY <2>2, <2>4, <2>5, DistanceToItself, DistanceIsZero
    <2>7. e = f
      BY <1>1, <2>6, Unique DEF TablesIInv
    <2>8. QED
      BY <2>2, <2>3, <2>7
  <1>2. TablesIInv /\ TablesIInv' /\ [Apex!Next]_Apex!vars =>
            [did = "decoded" /\ did' = "encoded" /\ value' = value => code' = code]_Apex!vars
    BY <1>1
  <1>3. QED
    BY <1>2, TablesInvariance, PTL DEF Apex!Spec, RoundTrip, Apex!RoundTrip

\* Of two values that are encoded, the higher one is never set lower.
THEOREM Ascends == Apex!Spec => Monotone
  <1>1. ASSUME TablesIInv, TablesIInv', [Apex!Next]_Apex!vars,
               did = "encoded", did' = "encoded", value < value',
               NEW e \in Entries[table], NEW f \in Entries[table],
               e.code = code, f.code = code'
        PROVE  e.value <= f.value
    <2>1. table' = table
      BY <1>1, SameTable
    <2>2. Apex!Nearest(e, value)
      BY <1>1, EncodedIsNearest
    <2>3. PICK g \in Entries[table] : g.code = code' /\ Apex!Nearest(g, value')
      BY <1>1, <2>1 DEF TablesIInv, Held, Apex!Nearest
    <2>4. g = f
      BY <1>1, <2>3, Unique DEF TablesIInv
    <2>5. e.value \in Int /\ f.value \in Int /\ value \in Int /\ value' \in Int
      BY <1>1, EntriesTyped DEF TablesIInv, TableEntry, Apex!TypeOK
    <2>6. Apex!Distance(e.value, value) <= Apex!Distance(f.value, value)
      BY <1>1, <2>2, <2>5, NearestIsNearest DEF TablesIInv
    <2>7. Apex!Distance(f.value, value') <= Apex!Distance(e.value, value')
      BY <1>1, <2>3, <2>4, <2>5, NearestIsNearest DEF TablesIInv
    <2>8. ~(f.value < e.value)
      BY <1>1, <2>5, <2>6, <2>7, Crossing
    <2>9. QED
      BY <2>5, <2>8
  <1>2. TablesIInv /\ TablesIInv' /\ [Apex!Next]_Apex!vars =>
            [did = "encoded" /\ did' = "encoded" /\ value < value' =>
               \A e \in Entries[table] : e.code = code =>
                  \A f \in Entries[table] : f.code = code' => e.value <= f.value]_Apex!vars
    BY <1>1
  <1>3. QED
    BY <1>2, TablesInvariance, PTL DEF Apex!Spec, Monotone, Apex!Monotone

\* An exposure that is set to BULB is at most half as long as any in the table.
THEOREM BulbIsTooShort == Apex!Spec => []BulbOnlyIfTooShort
  <1>1. ASSUME TablesIInv, did = "encoded", value > 0,
               NEW e \in Entries[table], NEW f \in Entries[table],
               e.code = code, e.value = 0, f.value > 0
        PROVE  2 * value <= f.value
    <2>1. f.value \in Int /\ value \in Int
      BY <1>1, EntriesTyped DEF TablesIInv, TableEntry, Apex!TypeOK
    <2>2. Apex!Nearest(e, value)
      BY <1>1, EncodedIsNearest
    <2>3. Apex!Distance(0, value) <= Apex!Distance(f.value, value)
      BY <1>1, <2>1, <2>2, NearestIsNearest DEF TablesIInv
    <2>4. QED
      BY <1>1, <2>1, <2>3 DEF Apex!Distance, Apex!Magnitude
  <1>2. TablesIInv => BulbOnlyIfTooShort
    BY <1>1 DEF BulbOnlyIfTooShort, Apex!BulbOnlyIfTooShort
  <1>3. QED
    BY <1>2, TablesInvariance, PTL

-----------------------------------------------------------------------------
(***************************************************************************)
(* Settings groups: the tables.                                            *)
(***************************************************************************)

\* The turn of a bit that comes once in an order.
LEMMA TurnIs ==
    ASSUME NEW order, NEW n \in 0..15, NEW k \in 1..16, order[k] = n,
           \A j \in 1..16 : order[j] = n => j = k
    PROVE  G!Turns(order)[n] = k
<1>1. G!Turns(order)[n] = CHOOSE j \in 1..16 : order[j] = n
  BY DEF G!Turns
<1>2. QED
  BY <1>1

\* Every group but 2 and 5 is read in ascending order.
LEMMA AscendingIs ==
    ASSUME NEW n \in 0..15
    PROVE  G!Ascending[n] = IF n < 8 THEN n + 9 ELSE n - 7
<1> DEFINE order == <<8, 9, 10, 11, 12, 13, 14, 15, 0, 1, 2, 3, 4, 5, 6, 7>>
<1>1. \A k \in 1..16 : order[k] = IF k < 9 THEN k + 7 ELSE k - 9
  OBVIOUS
<1>2. G!Ascending = G!Turns(order)
  BY DEF G!Ascending
<1> HIDE DEF order
<1>3. PICK k \in 1..16 : k = IF n < 8 THEN n + 9 ELSE n - 7
  OBVIOUS
<1>4. order[k] = n /\ \A j \in 1..16 : order[j] = n => j = k
  BY <1>1, <1>3
<1>5. QED
  BY <1>2, <1>3, <1>4, TurnIs

LEMMA ReadOrder2Is ==
    ASSUME NEW n \in 0..15
    PROVE  G!ReadOrder[2][n] = IF n < 8 THEN n + 9 ELSE IF n < 12 THEN n - 7 ELSE 20 - n
<1> DEFINE order == <<8, 9, 10, 11, 15, 14, 13, 12, 0, 1, 2, 3, 4, 5, 6, 7>>
<1>1. \A k \in 1..16 : order[k] = IF k < 5 THEN k + 7 ELSE IF k < 9 THEN 20 - k ELSE k - 9
  OBVIOUS
<1>2. G!ReadOrder[2] = G!Turns(order)
  BY DEF G!ReadOrder
<1> HIDE DEF order
<1>3. PICK k \in 1..16 : k = IF n < 8 THEN n + 9 ELSE IF n < 12 THEN n - 7 ELSE 20 - n
  OBVIOUS
<1>4. order[k] = n /\ \A j \in 1..16 : order[j] = n => j = k
  BY <1>1, <1>3
<1>5. QED
  BY <1>2, <1>3, <1>4, TurnIs

LEMMA ReadOrder5Is ==
    ASSUME NEW n \in 0..15
    PROVE  G!ReadOrder[5][n] = IF n < 7 THEN n + 10 ELSE IF n = 7 THEN 8
                             ELSE IF n = 15 THEN 9 ELSE n - 7
<1> DEFINE order == <<8, 9, 10, 11, 12, 13, 14, 7, 15, 0, 1, 2, 3, 4, 5, 6>>
<1>1. \A k \in 1..16 : order[k] = IF k < 8 THEN k + 7 ELSE IF k = 8 THEN 7
                                  ELSE IF k = 9 THEN 15 ELSE k - 10
  OBVIOUS
<1>2. G!ReadOrder[5] = G!Turns(order)
  BY DEF G!ReadOrder
<1> HIDE DEF order
<1>3. PICK k \in 1..16 : k = IF n < 7 THEN n + 10 ELSE IF n = 7 THEN 8
                             ELSE IF n = 15 THEN 9 ELSE n - 7
  OBVIOUS
<1>4. order[k] = n /\ \A j \in 1..16 : order[j] = n => j = k
  BY <1>1, <1>3
<1>5. QED
  BY <1>2, <1>3, <1>4, TurnIs

\* The members of the groups.
LEMMA SettingsAre ==
    /\ G!Members[1] = {"shutterSpeed", "aperture", "programShift", "isoAuto", "isoSpeed",
                     "expComp", "abValue", "abSetting", "frameBufferState",
                     "mediaFreeSpace", "mediaStatus", "currentLensFocalLength",
                     "batteryState", "abShotRemainNumber", "expCompExcludeAB"}
    /\ G!Members[2] = {"driveMode", "specialMode", "exposureMode", "aeMeteringMode",
                     "flashType", "flashMode", "flashSetting", "whiteBalance",
                     "resolution", "imageQuality"}
    /\ G!Members[3] = {"colorSpace", "colorMode", "batteryKind", "lensWideFocalLength",
                     "lensTeleFocalLength", "afAuxLight", "afBeep", "timerSound",
                     "destToSave"}
    /\ G!Members[4] =
           {"dcCropMode", "lvMagnifyRatio", "highISOExt", "contShootSpeed", "hdr",
                     "dngQuality", "fillLight", "locDistortion", "locChromaticAberration",
                     "locDiffraction", "locVignetting", "locColorShade",
                     "locColorShadeAcq", "eImageStab", "shutterSound"}
    /\ G!Members[5] = {"intervalTimerSecond", "intervalTimerFrame",
                     "intervalTimerSecondRemain", "intervalTimerFrameRemain", "colorTemp",
                     "aspectRatio", "toneEffect", "afAuxLightEF"}
<1>1. \A g \in 1..5 : G!Members[g] = DOMAIN G!BitOf[g]
  BY DEF G!Members
<1>2. /\ G!BitOf[1] = G!Group1 /\ G!BitOf[2] = G!Group2 /\ G!BitOf[3] =
             G!Group3 /\ G!BitOf[4] = G!Group4
      /\ G!BitOf[5] = G!Group5
  BY DEF G!BitOf
<1>3. QED
  BY <1>1, <1>2 DEF G!Group1, G!Group2, G!Group3, G!Group4, G!Group5

\* The tables of each group.
LEMMA BitOfIs ==
    /\ G!BitOf[1] = G!Group1 /\ G!BitOf[2] = G!Group2 /\ G!BitOf[3] =
           G!Group3 /\ G!BitOf[4] = G!Group4
    /\ G!BitOf[5] = G!Group5
  BY DEF G!BitOf

\* A member's bit is one of sixteen, no byte with its bit is skipped, and the camera
\* sends it.
LEMMA BitIs ==
    ASSUME NEW g \in 1..5, NEW m \in G!Members[g]
    PROVE  /\ G!BitOf[g][m] \in 0..15
           /\ G!BitOf[g][m] \notin G!Reserved[g]
           /\ G!BitOf[g][m] \in G!CamBits(g)
<1>1. /\ G!BitOf[g][m] \in 0..15
      /\ G!BitOf[g][m] \notin G!Reserved[g]
      /\ G!BitOf[g][m] \notin G!NeverSent(g)
  <2>1. CASE g = 1
    <3>1. m \in G!Members[1] /\ G!Reserved[1] = {7}
      BY <2>1 DEF G!Reserved
    <3>2. QED
      BY <2>1, <3>1, BitOfIs, SettingsAre DEF G!Group1, G!NeverSent
  <2>2. CASE g = 2
    <3>1. m \in G!Members[2] /\ G!Reserved[2] = {1, 4, 12, 13, 14, 15}
      BY <2>2 DEF G!Reserved
    <3>2. QED
      BY <2>2, <3>1, BitOfIs, SettingsAre DEF G!Group2, G!NeverSent
  <2>3. CASE g = 3
    <3>1. m \in G!Members[3] /\ G!Reserved[3] = {2, 3, 4, 6, 8, 9, 10}
      BY <2>3 DEF G!Reserved
    <3>2. QED
      BY <2>3, <3>1, BitOfIs, SettingsAre DEF G!Group3, G!NeverSent
  <2>4. CASE g = 4
    <3>1. m \in G!Members[4] /\ G!Reserved[4] = {8, 9, 10, 11}
      BY <2>4 DEF G!Reserved
    <3>2. QED
      BY <2>4, <3>1, BitOfIs, SettingsAre DEF G!Group4, G!NeverSent
  <2>5. CASE g = 5
    <3>1. m \in G!Members[5] /\ G!Reserved[5] = {0, 1, 2, 3, 4, 5, 6, 10, 12, 14, 15}
      BY <2>5 DEF G!Reserved
    <3>2. QED
      BY <2>5, <3>1, BitOfIs, SettingsAre DEF G!Group5, G!NeverSent
  <2>6. QED
    BY <2>1, <2>2, <2>3, <2>4, <2>5
<1>2. QED
  BY <1>1 DEF G!CamBits

\* Bits that announce a byte are among the sixteen.
LEMMA CamBitsAre ==
    ASSUME NEW g \in 1..5
    PROVE  G!CamBits(g) \subseteq 0..15 /\ G!Reserved[g] \subseteq 0..15
<1>1. G!Reserved[g] \subseteq 0..15
  <2>1. /\ G!Reserved[1] \subseteq 0..15 /\ G!Reserved[2] \subseteq 0..15
        /\ G!Reserved[3] \subseteq 0..15 /\ G!Reserved[4] \subseteq 0..15
        /\ G!Reserved[5] \subseteq 0..15
    BY DEF G!Reserved
  <2>2. QED
    BY <2>1
<1>2. QED
  BY <1>1, BitIs DEF G!CamBits

\* Which members share a bit: those of the two items of six bytes.
LEMMA Compounds ==
    ASSUME NEW g \in 1..5, NEW m \in G!Members[g]
    PROVE  /\ G!BitOf[g][m] \in G!Compound[g] <=> m \in DOMAIN G!Offsets
           /\ \A x \in G!Members[g] :
                G!BitOf[g][x] = G!BitOf[g][m] => m = x \/ G!BitOf[g][m] \in G!Compound[g]
<1> DEFINE Off == {"locDistortion", "locChromaticAberration", "locDiffraction",
                   "locVignetting", "locColorShade", "locColorShadeAcq",
                   "intervalTimerSecond", "intervalTimerFrame",
                   "intervalTimerSecondRemain", "intervalTimerFrameRemain"}
<1>1. DOMAIN G!Offsets = Off
  BY DEF G!Offsets
<1>2. CASE g = 1
  <2>1. m \in G!Members[1] /\ G!Compound[1] = {}
    BY <1>2 DEF G!Compound
  <2>2. QED
    BY <1>1, <1>2, <2>1, BitOfIs, SettingsAre DEF G!Group1
<1>3. CASE g = 2
  <2>1. m \in G!Members[2] /\ G!Compound[2] = {}
    BY <1>3 DEF G!Compound
  <2>2. QED
    BY <1>1, <1>3, <2>1, BitOfIs, SettingsAre DEF G!Group2
<1>4. CASE g = 3
  <2>1. m \in G!Members[3] /\ G!Compound[3] = {}
    BY <1>4 DEF G!Compound
  <2>2. QED
    BY <1>1, <1>4, <2>1, BitOfIs, SettingsAre DEF G!Group3
<1>5. CASE g = 4
  <2>1. m \in G!Members[4] /\ G!Compound[4] = {3}
    BY <1>5 DEF G!Compound, G!LOC
  <2>2. QED
    BY <1>1, <1>5, <2>1, BitOfIs, SettingsAre DEF G!Group4
<1>6. CASE g = 5
  <2>1. m \in G!Members[5] /\ G!Compound[5] = {8}
    BY <1>6 DEF G!Compound, G!Interval
  <2>2. QED
    BY <1>1, <1>6, <2>1, BitOfIs, SettingsAre DEF G!Group5
<1>7. QED
  BY <1>2, <1>3, <1>4, <1>5, <1>6

\* A member's bytes are bytes of its item.
LEMMA FitsItem ==
    ASSUME NEW g \in 1..5, NEW m \in G!Members[g]
    PROVE  /\ G!OffsetOf(m) \in Nat /\ G!WidthOf(m) \in 1..2
           /\ G!OffsetOf(m) + G!WidthOf(m) <= G!ItemWidth[g][G!BitOf[g][m]]
<1> DEFINE n == G!BitOf[g][m]
<1>1. n \in 0..15
  BY BitIs
<1>2. G!ItemWidth[g][n] = IF n \in G!Compound[g] THEN 6
                        ELSE IF \E x \in G!Members[g] : G!BitOf[g][x] = n THEN
                            IF \E x \in G!Wide \cap G!Members[g] : G!BitOf[g][x] = n
                                THEN 2 ELSE 1
                        ELSE IF n \in G!Reserved[g] THEN 1 ELSE 0
  BY <1>1 DEF G!ItemWidth
<1>3. CASE m \in DOMAIN G!Offsets
  <2>1. G!OffsetOf(m) = G!Offsets[m] /\ G!ItemWidth[g][n] = 6
    BY <1>2, <1>3, Compounds DEF G!OffsetOf
  <2>2. G!Offsets[m] \in Nat /\ G!Offsets[m] + G!WidthOf(m) <= 6
    BY <1>3 DEF G!Offsets, G!WidthOf, G!Wide
  <2>3. QED
    BY <2>1, <2>2 DEF G!WidthOf
<1>4. CASE m \notin DOMAIN G!Offsets
  <2>1. G!OffsetOf(m) = 0 /\ n \notin G!Compound[g]
    BY <1>4, Compounds DEF G!OffsetOf
  <2>2. G!ItemWidth[g][n] = IF \E x \in G!Wide \cap G!Members[g] : G!BitOf[g][x] = n
            THEN 2 ELSE 1
    BY <1>2, <2>1
  <2>3. G!ItemWidth[g][n] >= G!WidthOf(m)
    BY <2>2 DEF G!WidthOf
  <2>4. QED
    BY <2>1, <2>3 DEF G!WidthOf
<1>5. QED
  BY <1>3, <1>4

\* No two members of an item share a byte.
LEMMA Apart ==
    ASSUME NEW g \in 1..5, NEW m \in G!Members[g], NEW x \in G!Members[g], m # x,
           G!BitOf[g][m] = G!BitOf[g][x]
    PROVE  \/ G!OffsetOf(m) + G!WidthOf(m) <= G!OffsetOf(x)
           \/ G!OffsetOf(x) + G!WidthOf(x) <= G!OffsetOf(m)
<1>1. G!BitOf[g][m] \in G!Compound[g] /\ m \in DOMAIN G!Offsets /\ x \in DOMAIN G!Offsets
  BY Compounds
<1>2. g = 4 \/ g = 5
  BY <1>1 DEF G!Compound
<1>3. G!OffsetOf(m) = G!Offsets[m] /\ G!OffsetOf(x) = G!Offsets[x]
  BY <1>1 DEF G!OffsetOf
<1>4. CASE g = 4
  <2>1. DOMAIN G!Offsets \cap G!Members[4] =
            {"locDistortion", "locChromaticAberration", "locDiffraction",
             "locVignetting", "locColorShade", "locColorShadeAcq"}
    BY SettingsAre DEF G!Offsets
  <2>2. m \in DOMAIN G!Offsets \cap G!Members[4] /\ x \in DOMAIN G!Offsets \cap G!Members[4]
    BY <1>1, <1>4
  <2>3. QED
    BY <1>3, <2>1, <2>2 DEF G!Offsets, G!WidthOf, G!Wide
<1>5. CASE g = 5
  <2>1. DOMAIN G!Offsets \cap G!Members[5] =
            {"intervalTimerSecond", "intervalTimerFrame",
             "intervalTimerSecondRemain", "intervalTimerFrameRemain"}
    BY SettingsAre DEF G!Offsets
  <2>2. m \in DOMAIN G!Offsets \cap G!Members[5] /\ x \in DOMAIN G!Offsets \cap G!Members[5]
    BY <1>1, <1>5
  <2>3. QED
    BY <1>3, <2>1, <2>2 DEF G!Offsets, G!WidthOf, G!Wide
<1>6. QED
  BY <1>2, <1>4, <1>5

\* Every bit announces up to six bytes, a reserved one a byte.
LEMMA WidthIs ==
    ASSUME NEW g \in 1..5, NEW n \in 0..15
    PROVE  /\ G!ItemWidth[g][n] \in Nat /\ G!ItemWidth[g][n] \in 0..6
           /\ n \in G!Reserved[g] => G!ItemWidth[g][n] >= 1
<1>1. G!ItemWidth[g][n] = IF n \in G!Compound[g] THEN 6
                        ELSE IF \E x \in G!Members[g] : G!BitOf[g][x] = n THEN
                            IF \E x \in G!Wide \cap G!Members[g] : G!BitOf[g][x] = n
                                THEN 2 ELSE 1
                        ELSE IF n \in G!Reserved[g] THEN 1 ELSE 0
  BY DEF G!ItemWidth
<1>2. QED
  BY <1>1

\* decode() comes to a member when the camera does: after the same items.
LEMMA SameTurn ==
    ASSUME NEW g \in 1..5, NEW m \in G!Members[g], NEW n \in G!CamBits(g)
    PROVE  G!ReadOrder[g][n] < G!ReadOrder[g][G!BitOf[g][m]] <=>
               G!Ascending[n] < G!Ascending[G!BitOf[g][m]]
<1>0. PICK b : b = G!BitOf[g][m]
  OBVIOUS
<1>1. n \in 0..15 /\ b \in 0..15 /\ b \notin G!Reserved[g] /\ b \in G!CamBits(g)
  BY <1>0, CamBitsAre, BitIs
<1>2. CASE g \in {1, 3, 4}
  BY <1>2 DEF G!ReadOrder
<1>3. CASE g = 2
  <2>1. b \notin 12..15
    BY <1>1, <1>3 DEF G!Reserved
  <2>2. QED
    <3>1. /\ G!Ascending[n] = IF n < 8 THEN n + 9 ELSE n - 7
          /\ G!Ascending[b] = IF b < 8 THEN b + 9 ELSE b - 7
      BY <1>1, AscendingIs
    <3>2. /\ G!ReadOrder[2][n] = IF n < 8 THEN n + 9 ELSE IF n < 12 THEN n - 7 ELSE 20 - n
          /\ G!ReadOrder[2][b] = IF b < 8 THEN b + 9 ELSE IF b < 12 THEN b - 7 ELSE 20 - b
      BY <1>1, ReadOrder2Is
    <3>3. G!ReadOrder[2][n] < G!ReadOrder[2][b] <=> G!Ascending[n] < G!Ascending[b]
      BY <1>1, <2>1, <3>1, <3>2
    <3>4. QED
      BY <1>0, <1>3, <3>3
<1>4. CASE g = 5
  <2>1. b \in 7..14 /\ n \in 7..14
    BY <1>1, <1>4 DEF G!CamBits, G!NeverSent
  <2>2. QED
    <3>1. /\ G!Ascending[n] = IF n < 8 THEN n + 9 ELSE n - 7
          /\ G!Ascending[b] = IF b < 8 THEN b + 9 ELSE b - 7
      BY <1>1, AscendingIs
    <3>2. /\ G!ReadOrder[5][n] = IF n = 7 THEN 8 ELSE n - 7
          /\ G!ReadOrder[5][b] = IF b = 7 THEN 8 ELSE b - 7
      BY <1>1, <2>1, ReadOrder5Is
    <3>3. G!ReadOrder[5][n] < G!ReadOrder[5][b] <=> G!Ascending[n] < G!Ascending[b]
      BY <1>1, <2>1, <3>1, <3>2
    <3>4. QED
      BY <1>0, <1>4, <3>3
<1>5. QED
  BY <1>2, <1>3, <1>4

-----------------------------------------------------------------------------
(***************************************************************************)
(* Places.                                                                 *)
(***************************************************************************)

LEMMA Intervals ==
    ASSUME NEW n \in Nat
    PROVE  IsFiniteSet(1..n) /\ Cardinality(1..n) = n
<1>1. 1 \in Int /\ n \in Int
  OBVIOUS
<1>2. /\ IsFiniteSet(1..n)
      /\ Cardinality(1..n) = IF 1 > n THEN 0 ELSE n - 1 + 1
  BY <1>1, FS_Interval, Zenon
<1>3. QED
  BY <1>2

\* How the model counts.
LEMMA CountIs == \A S : G!Cardinality(S) = Cardinality(S)
  BY DEF G!Cardinality, Cardinality

\* A mask announces finitely many bytes.
LEMMA BytesFinite ==
    ASSUME NEW g \in 1..5, NEW bits \in SUBSET (0..15)
    PROVE  IsFiniteSet(G!Bytes(g, bits)) /\ Cardinality(G!Bytes(g, bits)) \in Nat
<1>1. G!Bytes(g, bits) \subseteq (0..15) \X (1..6)
  BY WidthIs DEF G!Bytes
<1>2. IsFiniteSet(0..15) /\ IsFiniteSet(1..6)
  <2>1. 0 \in Int /\ 15 \in Int
    OBVIOUS
  <2>2. IsFiniteSet(0..15)
    BY <2>1, FS_Interval, Zenon
  <2>3. QED
    BY <2>2, Intervals
<1>3. IsFiniteSet((0..15) \X (1..6))
  BY <1>2, FS_Product, Zenon
<1>4. IsFiniteSet(G!Bytes(g, bits))
  BY <1>1, <1>3, FS_Subset, Zenon
<1>5. QED
  BY <1>4, FS_CardinalityType, Zenon

\* Another item adds its bytes.
LEMMA MoreBytes ==
    ASSUME NEW g \in 1..5, NEW bits \in SUBSET (0..15), NEW few \in SUBSET bits,
           NEW n \in bits, n \notin few
    PROVE  Cardinality(G!Bytes(g, bits)) >= Cardinality(G!Bytes(g, few)) + G!ItemWidth[g][n]
<1> DEFINE own == {n} \X (1..G!ItemWidth[g][n])
           old == G!Bytes(g, few)
<1>1. n \in 0..15 /\ G!ItemWidth[g][n] \in Nat
  <2>1. n \in 0..15
    OBVIOUS
  <2>2. QED
    BY <2>1, WidthIs
<1>2. IsFiniteSet(own) /\ Cardinality(own) = G!ItemWidth[g][n]
  <2>1. IsFiniteSet({n}) /\ Cardinality({n}) = 1
    BY FS_Singleton, Zenon
  <2>2. IsFiniteSet(1..G!ItemWidth[g][n]) /\ Cardinality(1..G!ItemWidth[g][n]) =
            G!ItemWidth[g][n]
    BY <1>1, Intervals
  <2>3. IsFiniteSet(own) /\ Cardinality(own) =
            Cardinality({n}) * Cardinality(1..G!ItemWidth[g][n])
    BY <2>1, <2>2, FS_Product, Zenon
  <2>4. QED
    BY <1>1, <2>1, <2>2, <2>3
<1>3. IsFiniteSet(old) /\ Cardinality(old) \in Nat
  BY BytesFinite
<1>4. old \cap own = {}
  BY DEF G!Bytes
<1>5. old \cup own \subseteq G!Bytes(g, bits)
  BY DEF G!Bytes
<1> HIDE DEF own, old
<1>6. Cardinality(old \cup own) = Cardinality(old) + G!ItemWidth[g][n]
  <2>1. Cardinality(old \cup own) =
            Cardinality(old) + Cardinality(own) - Cardinality(old \cap own)
    BY <1>2, <1>3, FS_Union, Zenon
  <2>2. Cardinality({}) = 0
    BY FS_EmptySet, Zenon
  <2>3. Cardinality(old \cap own) = 0
    BY <1>4, <2>2
  <2>4. QED
    BY <1>1, <1>2, <1>3, <2>1, <2>3
<1>7. IsFiniteSet(G!Bytes(g, bits)) /\ Cardinality(G!Bytes(g, bits)) \in Nat
  BY BytesFinite
<1>8. Cardinality(old \cup own) <= Cardinality(G!Bytes(g, bits))
  BY <1>5, <1>7, FS_Subset, Zenon
<1>9. QED
  BY <1>1, <1>3, <1>6, <1>7, <1>8 DEF old

\* Items do not overlap.
LEMMA ItemsApart ==
    ASSUME NEW g \in 1..5, NEW bits \in SUBSET (0..15), NEW n \in bits, NEW k \in bits,
           G!Ascending[n] < G!Ascending[k]
    PROVE  G!Starts(G!Ascending, g, bits)[n] + G!ItemWidth[g][n] <=
               G!Starts(G!Ascending, g, bits)[k]
<1> DEFINE Before(i) == {x \in bits : G!Ascending[x] < G!Ascending[i]}
<1>1. \A i \in bits : G!Starts(G!Ascending, g, bits)[i] = Cardinality(G!Bytes(g, Before(i)))
  BY CountIs DEF G!Starts
<1>2. \A i \in 0..15 : G!Ascending[i] \in Int
  BY AscendingIs
<1>3. /\ Before(k) \in SUBSET (0..15) /\ Before(n) \in SUBSET Before(k)
      /\ n \in Before(k) /\ n \notin Before(n)
  <2>1. \A x \in bits : x \in 0..15
    OBVIOUS
  <2>2. \A x \in bits : G!Ascending[x] \in Int
    BY <1>2, <2>1
  <2>3. Before(n) \in SUBSET Before(k)
    <3>1. ASSUME NEW x \in bits, G!Ascending[x] < G!Ascending[n]
          PROVE  G!Ascending[x] < G!Ascending[k]
      <4>1. G!Ascending[x] \in Int /\ G!Ascending[n] \in Int /\ G!Ascending[k] \in Int
        BY <2>2
      <4>2. QED
        BY <3>1, <4>1
    <3>2. QED
      BY <3>1
  <2>4. n \in Before(k) /\ n \notin Before(n)
    BY <2>2
  <2>5. QED
    BY <2>1, <2>3, <2>4
<1> HIDE DEF Before
<1>4. Cardinality(G!Bytes(g, Before(k))) >=
          Cardinality(G!Bytes(g, Before(n))) + G!ItemWidth[g][n]
  BY <1>3, MoreBytes
<1>5. Cardinality(G!Bytes(g, Before(k))) \in Nat /\ Cardinality(G!Bytes(g, Before(n))) \in Nat
  BY <1>3, BytesFinite
<1>6. G!ItemWidth[g][n] \in Nat
  BY WidthIs
<1>7. QED
  BY <1>1, <1>4, <1>5, <1>6

LEMMA StartIs ==
    ASSUME NEW g \in 1..5, NEW bits \in SUBSET (0..15), NEW n \in bits
    PROVE  G!Starts(G!Ascending, g, bits)[n] \in Nat
<1>1. G!Starts(G!Ascending, g, bits)[n] =
          Cardinality(G!Bytes(g, {x \in bits : G!Ascending[x] < G!Ascending[n]}))
  BY CountIs DEF G!Starts
<1>2. {x \in bits : G!Ascending[x] < G!Ascending[n]} \in SUBSET (0..15)
  OBVIOUS
<1>3. QED
  BY <1>1, <1>2, BytesFinite

\* Two bytes of two items have two places.
LEMMA ItemsDiffer ==
    ASSUME NEW g \in 1..5, NEW bits \in SUBSET (0..15), NEW n \in bits,
           NEW k \in bits, n # k,
           NEW i \in 1..G!ItemWidth[g][n], NEW j \in 1..G!ItemWidth[g][k]
    PROVE  G!Starts(G!Ascending, g, bits)[n] + i # G!Starts(G!Ascending, g, bits)[k] + j
<1>0. n \in 0..15 /\ k \in 0..15
  OBVIOUS
<1>1. G!Ascending[n] < G!Ascending[k] \/ G!Ascending[k] < G!Ascending[n]
  <2>1. /\ G!Ascending[n] = IF n < 8 THEN n + 9 ELSE n - 7
        /\ G!Ascending[k] = IF k < 8 THEN k + 9 ELSE k - 7
    BY <1>0, AscendingIs
  <2>2. QED
    BY <1>0, <2>1
<1>2. G!Starts(G!Ascending, g, bits)[n] \in Nat /\ G!Starts(G!Ascending, g, bits)[k] \in Nat
  BY StartIs
<1>3. G!ItemWidth[g][n] \in Nat /\ G!ItemWidth[g][k] \in Nat
  BY <1>0, WidthIs
<1>4. CASE G!Ascending[n] < G!Ascending[k]
  <2>1. G!Starts(G!Ascending, g, bits)[n] + G!ItemWidth[g][n] <=
            G!Starts(G!Ascending, g, bits)[k]
    BY <1>4, ItemsApart
  <2>2. QED
    BY <1>2, <1>3, <2>1
<1>5. CASE G!Ascending[k] < G!Ascending[n]
  <2>1. G!Starts(G!Ascending, g, bits)[k] + G!ItemWidth[g][k] <=
            G!Starts(G!Ascending, g, bits)[n]
    BY <1>5, ItemsApart
  <2>2. QED
    BY <1>2, <1>3, <2>1
<1>6. QED
  BY <1>1, <1>4, <1>5

\* No two bytes of members have the same place.
LEMMA PlacesDiffer ==
    ASSUME NEW g \in 1..5, NEW bits \in SUBSET (0..15),
           NEW m \in G!Announced(g, bits), NEW x \in G!Announced(g, bits),
           NEW b \in 1..G!WidthOf(m), NEW c \in 1..G!WidthOf(x),
           G!Place(G!Starts(G!Ascending, g, bits), g, m, b) =
               G!Place(G!Starts(G!Ascending, g, bits), g, x, c)
    PROVE  m = x /\ b = c
<1> DEFINE n == G!BitOf[g][m]
           k == G!BitOf[g][x]
<1>1. m \in G!Members[g] /\ x \in G!Members[g] /\ n \in bits /\ k \in bits
      /\ n \in 0..15 /\ k \in 0..15
  BY DEF G!Announced
<1>2. /\ G!OffsetOf(m) \in Nat /\ G!WidthOf(m) \in 1..2
      /\ G!OffsetOf(m) + G!WidthOf(m) <= G!ItemWidth[g][n]
      /\ G!OffsetOf(x) \in Nat /\ G!WidthOf(x) \in 1..2
      /\ G!OffsetOf(x) + G!WidthOf(x) <= G!ItemWidth[g][k]
  BY <1>1, FitsItem
<1>3. G!ItemWidth[g][n] \in Nat /\ G!ItemWidth[g][k] \in Nat
  BY <1>1, WidthIs
<1>4. G!OffsetOf(m) + b \in 1..G!ItemWidth[g][n] /\ G!OffsetOf(x) + c \in 1..G!ItemWidth[g][k]
  BY <1>2, <1>3
<1>5. G!Starts(G!Ascending, g, bits)[n] \in Nat /\ G!Starts(G!Ascending, g, bits)[k] \in Nat
  BY <1>1, StartIs
<1>6. G!Starts(G!Ascending, g, bits)[n] + (G!OffsetOf(m) + b) =
          G!Starts(G!Ascending, g, bits)[k] + (G!OffsetOf(x) + c)
  BY <1>2, <1>5 DEF G!Place
<1>7. n = k
  BY <1>1, <1>4, <1>6, ItemsDiffer
<1>8. G!OffsetOf(m) + b = G!OffsetOf(x) + c
  BY <1>2, <1>5, <1>6, <1>7
<1>9. m = x
  BY <1>1, <1>2, <1>7, <1>8, Apart
<1>10. QED
  BY <1>2, <1>8, <1>9

\* Nor do a byte of a member and one that is skipped.
LEMMA FillersDiffer ==
    ASSUME NEW g \in 1..5, NEW bits \in SUBSET (0..15),
           NEW m \in G!Announced(g, bits), NEW b \in 1..G!WidthOf(m),
           NEW k \in bits \cap G!Reserved[g]
    PROVE  G!Place(G!Starts(G!Ascending, g, bits), g, m, b) #
               G!Starts(G!Ascending, g, bits)[k] + 1
<1> DEFINE n == G!BitOf[g][m]
<1>1. m \in G!Members[g] /\ n \in bits /\ n # k /\ n \in 0..15 /\ k \in 0..15
  BY BitIs DEF G!Announced
<1>2. G!OffsetOf(m) \in Nat /\ G!WidthOf(m) \in 1..2
      /\ G!OffsetOf(m) + G!WidthOf(m) <=
          G!ItemWidth[g][n]
  BY <1>1, FitsItem
<1>3. G!ItemWidth[g][n] \in Nat /\ G!ItemWidth[g][k] \in Nat /\ G!ItemWidth[g][k] >= 1
  BY <1>1, WidthIs
<1>4. G!OffsetOf(m) + b \in 1..G!ItemWidth[g][n] /\ 1 \in 1..G!ItemWidth[g][k]
  BY <1>2, <1>3
<1>5. G!Starts(G!Ascending, g, bits)[n] \in Nat
  BY <1>1, StartIs
<1>6. G!Starts(G!Ascending, g, bits)[n] + (G!OffsetOf(m) + b) #
          G!Starts(G!Ascending, g, bits)[k] + 1
  BY <1>1, <1>4, ItemsDiffer
<1>7. QED
  BY <1>2, <1>5, <1>6 DEF G!Place

-----------------------------------------------------------------------------
(***************************************************************************)
(* Payloads.                                                               *)
(***************************************************************************)

\* A mask is read as it was written.
LEMMA MaskIs ==
    ASSUME NEW bits \in SUBSET (0..15)
    PROVE  G!FromBigEndian16(G!BigEndian16(bits)) = bits
<1> DEFINE bytes == G!BigEndian16(bits)
<1>1. bytes[1] = {n - 8 : n \in bits \cap 8..15} /\ bytes[2] = bits \cap 0..7
  BY DEF G!BigEndian16
<1>2. G!FromBigEndian16(bytes) = {n + 8 : n \in bytes[1]} \cup bytes[2]
  BY DEF G!FromBigEndian16
<1>3. {n + 8 : n \in bytes[1]} = bits \cap 8..15
  <2> HIDE DEF bytes
  <2>1. ASSUME NEW n \in bytes[1]
        PROVE  n + 8 \in bits \cap 8..15
    <3>1. PICK k \in bits \cap 8..15 : n = k - 8
      BY <1>1
    <3>2. k \in Int
      OBVIOUS
    <3>3. n + 8 = k
      BY <3>1, <3>2
    <3>4. QED
      BY <3>3
  <2>2. ASSUME NEW k \in bits \cap 8..15
        PROVE  \E n \in bytes[1] : k = n + 8
    <3>1. k - 8 \in bytes[1]
      BY <1>1
    <3>2. k \in Int
      OBVIOUS
    <3>3. k = (k - 8) + 8
      BY <3>2
    <3>4. QED
      BY <3>1, <3>3
  <2>3. QED
    BY <2>1, <2>2
<1>4. bits = (bits \cap 8..15) \cup (bits \cap 0..7)
  <2>1. \A n \in bits : n \in 8..15 \/ n \in 0..7
    OBVIOUS
  <2>2. QED
    BY <2>1, Zenon
<1> HIDE DEF bytes
<1>5. G!FromBigEndian16(bytes) = bits
  BY <1>1, <1>2, <1>3, <1>4
<1>6. QED
  BY <1>5 DEF bytes

\* What the bytes of a payload are.
IsByte(e, g, bits, held) ==
    \/ \E m \in G!Announced(g, bits) :
          e = <<G!Place(G!Starts(G!Ascending, g, bits), g, m, 1), G!LittleEndian(held[m], 1)>>
    \/ \E m \in G!Announced(g, bits) \cap G!Wide :
          e = <<G!Place(G!Starts(G!Ascending, g, bits), g, m, 2), G!LittleEndian(held[m], 2)>>
    \/ \E n \in bits \cap G!Reserved[g] : e =
           <<G!Starts(G!Ascending, g, bits)[n] + 1, G!Filler>>

LEMMA PayloadIs ==
    ASSUME NEW g, NEW bits, NEW held
    PROVE  /\ G!Payload(g, bits, held).mask = G!BigEndian16(bits)
           /\ G!Payload(g, bits, held).size = 4 + Cardinality(G!Bytes(g, bits))
           /\ \A e : e \in G!Payload(g, bits, held).data <=> IsByte(e, g, bits, held)
  BY CountIs DEF G!Payload, IsByte

\* Each byte of a member is found in its place.
LEMMA ByteFound ==
    ASSUME NEW g \in 1..5, NEW bits \in SUBSET (0..15), NEW held,
           NEW m \in G!Announced(g, bits), NEW b \in 1..G!WidthOf(m)
    PROVE  G!ByteAt(G!Payload(g, bits, held),
                    G!Place(G!Starts(G!Ascending, g, bits), g, m, b)) =
               G!LittleEndian(held[m], b)
<1> DEFINE start == G!Starts(G!Ascending, g, bits)
           data == G!Payload(g, bits, held).data
           p == G!Place(start, g, m, b)
<1>1. b = 1 \/ (b = 2 /\ m \in G!Wide)
  <2>1. CASE m \in G!Wide
    <3>1. G!WidthOf(m) = 2
      BY <2>1 DEF G!WidthOf
    <3>2. QED
      BY <2>1, <3>1
  <2>2. CASE m \notin G!Wide
    <3>1. G!WidthOf(m) = 1
      BY <2>2 DEF G!WidthOf
    <3>2. b \in 1..1
      BY <3>1
    <3>3. QED
      BY <3>2
  <2>3. QED
    BY <2>1, <2>2
<1>2. <<p, G!LittleEndian(held[m], b)>> \in data
  <2>1. IsByte(<<p, G!LittleEndian(held[m], b)>>, g, bits, held)
    BY <1>1 DEF IsByte
  <2>2. QED
    BY <2>1, PayloadIs
<1>3. ASSUME NEW e \in data, e[1] = p
      PROVE  e[2] = G!LittleEndian(held[m], b)
  <2>1. CASE \E x \in G!Announced(g, bits) : e =
                 <<G!Place(start, g, x, 1), G!LittleEndian(held[x], 1)>>
    <3>1. PICK x \in G!Announced(g, bits) : e =
                   <<G!Place(start, g, x, 1), G!LittleEndian(held[x], 1)>>
      BY <2>1
    <3>2. 1 \in 1..G!WidthOf(x) /\ G!Place(start, g, m, b) = G!Place(start, g, x, 1)
      BY <1>3, <3>1 DEF G!WidthOf
    <3>3. m = x /\ b = 1
      BY <3>2, PlacesDiffer
    <3>4. QED
      BY <3>1, <3>3
  <2>2. CASE \E x \in G!Announced(g, bits) \cap G!Wide :
                e = <<G!Place(start, g, x, 2), G!LittleEndian(held[x], 2)>>
    <3>1. PICK x \in G!Announced(g, bits) \cap G!Wide :
              e = <<G!Place(start, g, x, 2), G!LittleEndian(held[x], 2)>>
      BY <2>2
    <3>2. 2 \in 1..G!WidthOf(x) /\ G!Place(start, g, m, b) = G!Place(start, g, x, 2)
      BY <1>3, <3>1 DEF G!WidthOf
    <3>3. m = x /\ b = 2
      BY <3>2, PlacesDiffer
    <3>4. QED
      BY <3>1, <3>3
  <2>3. CASE \E n \in bits \cap G!Reserved[g] : e = <<start[n] + 1, G!Filler>>
    BY <1>3, <2>3, FillersDiffer
  <2>4. IsByte(e, g, bits, held)
    BY PayloadIs
  <2>5. QED
    BY <2>1, <2>2, <2>3, <2>4 DEF IsByte
<1>4. G!ByteAt(G!Payload(g, bits, held), p) = (CHOOSE e \in data : e[1] = p)[2]
  BY DEF G!ByteAt
<1> HIDE DEF data, p
<1>5. \E e \in data : e[1] = p
  BY <1>2
<1>6. PICK e : e = CHOOSE x \in data : x[1] = p
  OBVIOUS
<1>7. e \in data /\ e[1] = p
  BY <1>5, <1>6
<1>8. QED
  BY <1>3, <1>4, <1>6, <1>7 DEF p

\* What is left of a value in the bytes of a member.
Kept(m, v) ==
    IF m \in G!Wide THEN G!LittleEndian(v, 1) + 256 * G!LittleEndian(v, 2)
        ELSE G!LittleEndian(v, 1)

\* A member is read from where its item starts.
LEMMA ValueFound ==
    ASSUME NEW g \in 1..5, NEW bits \in SUBSET (0..15), NEW held,
           NEW m \in G!Announced(g, bits), NEW start,
           start[G!BitOf[g][m]] = G!Starts(G!Ascending, g, bits)[G!BitOf[g][m]]
    PROVE  G!ValueIn(g, G!Payload(g, bits, held), start, m) = Kept(m, held[m])
<1> DEFINE payload == G!Payload(g, bits, held)
<1>1. \A b : G!Place(start, g, m, b) = G!Place(G!Starts(G!Ascending, g, bits), g, m, b)
  BY DEF G!Place
<1>2. ASSUME NEW b \in 1..G!WidthOf(m)
      PROVE  G!ByteAt(payload, G!Place(start, g, m, b)) = G!LittleEndian(held[m], b)
  BY <1>1, ByteFound
<1>3. G!ValueIn(g, payload, start, m) =
          IF G!WidthOf(m) = 1 THEN G!ByteAt(payload, G!Place(start, g, m, 1))
          ELSE G!ByteAt(payload, G!Place(start, g, m, 1))
                  + 256 * G!ByteAt(payload, G!Place(start, g, m, 2))
  BY DEF G!ValueIn
<1> HIDE DEF payload
<1>4. CASE m \in G!Wide
  <2>1. G!WidthOf(m) = 2 /\ 1 \in 1..G!WidthOf(m) /\ 2 \in 1..G!WidthOf(m)
    BY <1>4 DEF G!WidthOf
  <2>2. QED
    BY <1>2, <1>3, <1>4, <2>1 DEF Kept, payload
<1>5. CASE m \notin G!Wide
  <2>1. G!WidthOf(m) = 1 /\ 1 \in 1..G!WidthOf(m)
    BY <1>5 DEF G!WidthOf
  <2>2. QED
    BY <1>2, <1>3, <1>5, <2>1 DEF Kept, payload
<1>6. QED
  BY <1>4, <1>5

\* decode() finds the items of the camera where it put them.
LEMMA SameStart ==
    ASSUME NEW g \in 1..5, NEW bits \in SUBSET G!CamBits(g), NEW m \in G!Announced(g, bits)
    PROVE  G!Starts(G!ReadOrder[g], g, bits)[G!BitOf[g][m]] =
               G!Starts(G!Ascending, g, bits)[G!BitOf[g][m]]
<1>1. PICK n \in bits : n = G!BitOf[g][m]
  BY DEF G!Announced
<1>2. m \in G!Members[g]
  BY DEF G!Announced
<1>3. {x \in bits : G!ReadOrder[g][x] < G!ReadOrder[g][n]} = {x \in bits :
          G!Ascending[x] < G!Ascending[n]}
  BY <1>1, <1>2, SameTurn
<1>4. /\ G!Starts(G!ReadOrder[g], g, bits)[n] =
             Cardinality(G!Bytes(g, {x \in bits : G!ReadOrder[g][x] < G!ReadOrder[g][n]}))
      /\ G!Starts(G!Ascending, g, bits)[n] =
             Cardinality(G!Bytes(g, {x \in bits : G!Ascending[x] < G!Ascending[n]}))
  BY CountIs DEF G!Starts
<1>5. QED
  BY <1>1, <1>3, <1>4

-----------------------------------------------------------------------------
(***************************************************************************)
(* Values.                                                                 *)
(***************************************************************************)

\* The members that are not plain bytes.
LEMMA Special ==
    /\ \A m \in G!FocalLengths : m \in G!Wide /\ m \notin G!SignedMembers
    /\ \A m \in G!SignedMembers : m \notin G!Wide
  BY DEF G!FocalLengths, G!Wide, G!SignedMembers

\* Bytes and quotients, each fact by itself: the provers take no two at once.
LEMMA ModuloIs == ASSUME NEW v \in Int PROVE v % 256 \in 0..255
  OBVIOUS

LEMMA QuotientIs == ASSUME NEW v \in Int PROVE (v \div 256) \in Int
  OBVIOUS

LEMMA Divided ==
    ASSUME NEW v \in Int, NEW q, NEW r, q = v \div 256, r = v % 256
    PROVE  v = 256 * q + r
  OBVIOUS

LEMMA ByteIs == ASSUME NEW v \in 0..255 PROVE v % 256 = v
  OBVIOUS

LEMMA NegativeByte == ASSUME NEW v \in -128..(-1) PROVE v % 256 = v + 256
  OBVIOUS

\* Two bytes that are 255 each.  No other proof sees the number: Zenon counts up to it.
LEMMA MaxWordIs == G!MaxWord \in Int /\ G!MaxWord = 256 * 255 + 255
  BY SMT DEF G!MaxWord

LEMMA WordIs ==
    ASSUME NEW v \in G!Words
    PROVE  v \in Int /\ v >= 0 /\ v <= G!MaxWord
<1>1. PICK w \in Int : w = G!MaxWord
  BY MaxWordIs
<1>2. QED
  BY <1>1, SMT DEF G!Words

LEMMA IsWord ==
    ASSUME NEW v \in Int, v >= 0, v <= G!MaxWord
    PROVE  v \in G!Words
<1>1. PICK w \in Int : w = G!MaxWord
  BY MaxWordIs
<1>2. QED
  BY <1>1, SMT DEF G!Words

LEMMA LengthIs ==
    ASSUME NEW v \in G!Lengths
    PROVE  v \in Int /\ v >= 0 /\ v <= 2 * G!MaxWord
<1>1. PICK w \in Int : w = G!MaxWord
  BY MaxWordIs
<1>2. QED
  BY <1>1, SMT DEF G!Lengths

LEMMA IsLength ==
    ASSUME NEW v \in Int, v >= 0, v <= 2 * G!MaxWord
    PROVE  v \in G!Lengths
<1>1. PICK w \in Int : w = G!MaxWord
  BY MaxWordIs
<1>2. QED
  BY <1>1, SMT DEF G!Lengths

LEMMA HighByte ==
    ASSUME NEW v \in G!Words, NEW q \in Int, NEW r \in 0..255, v = 256 * q + r
    PROVE  q \in 0..255
<1>1. v \in Int /\ v >= 0 /\ v <= G!MaxWord
  BY WordIs
<1>2. r \in Int /\ r >= 0 /\ r <= 255
  OBVIOUS
<1>3. q >= 0
  BY <1>1, <1>2
<1>4. q <= 255
  BY <1>1, <1>2, MaxWordIs
<1>5. QED
  BY <1>3, <1>4

\* A number is made of its bytes.
LEMMA TwoBytes ==
    ASSUME NEW v \in Int
    PROVE  /\ G!LittleEndian(v, 1) \in 0..255
           /\ G!LittleEndian(v, 2) \in 0..255
           /\ v \in G!Words => G!LittleEndian(v, 1) + 256 * G!LittleEndian(v, 2) = v
           /\ v \in 0..255 => G!LittleEndian(v, 1) = v
<1>1. PICK q \in Int : q = v \div 256
  BY QuotientIs, Zenon
<1>2. PICK r \in 0..255 : r = v % 256
  BY ModuloIs, Zenon
<1>3. PICK t \in 0..255 : t = q % 256
  BY ModuloIs, Zenon
<1>4. v = 256 * q + r
  BY <1>1, <1>2, Divided, SMT
<1>5. G!LittleEndian(v, 1) = r
  BY <1>2, Zenon DEF G!LittleEndian
<1>6. G!LittleEndian(v, 2) = t
  <2>1. 2 # 1
    OBVIOUS
  <2>2. QED
    BY <1>1, <1>3, <2>1, Zenon DEF G!LittleEndian
<1>7. ASSUME v \in G!Words PROVE r + 256 * t = v
  <2>1. q \in 0..255
    BY <1>4, <1>7, HighByte, Zenon
  <2>2. t = q
    BY <1>3, <2>1, ByteIs, Zenon
  <2>3. QED
    BY <1>4, <2>2
<1>8. v \in 0..255 => r = v
  BY <1>2, ByteIs, Zenon
<1>9. QED
  BY <1>5, <1>6, <1>7, <1>8, Zenon

\* The values of the bytes of a member.
LEMMA WireIs ==
    ASSUME NEW m
    PROVE  /\ m \in G!Wide => G!WireValues(m) = G!Words
           /\ m \notin G!Wide => G!WireValues(m) = 0..255
           /\ G!WireValues(m) \subseteq G!Words /\ G!Words \subseteq Int
<1>1. G!Words \subseteq Int /\ 0..255 \subseteq G!Words
  <2>1. ASSUME NEW x \in 0..255
        PROVE  x \in G!Words
    <3>1. x \in Int /\ x >= 0 /\ x <= G!MaxWord
      BY MaxWordIs
    <3>2. QED
      BY <3>1, IsWord
  <2>2. \A x \in G!Words : x \in Int
    BY WordIs
  <2>3. QED
    BY <2>1, <2>2, Zenon
<1>2. G!WireValues(m) = IF m \in G!Wide THEN G!Words ELSE 0..255
  BY DEF G!WireValues, G!WidthOf
<1>3. QED
  BY <1>1, <1>2, Zenon

\* A value that the bytes of a member can have is kept.
LEMMA KeptIs ==
    ASSUME NEW m, NEW v \in G!WireValues(m)
    PROVE  Kept(m, v) = v
<1>1. v \in Int
  BY WireIs, Zenon
<1>2. CASE m \in G!Wide
  <2>1. Kept(m, v) = G!LittleEndian(v, 1) + 256 * G!LittleEndian(v, 2)
    BY <1>2, Zenon DEF Kept
  <2>2. v \in G!Words
    BY <1>2, WireIs, Zenon
  <2>3. QED
    BY <1>1, <2>1, <2>2, TwoBytes, Zenon
<1>3. CASE m \notin G!Wide
  <2>1. Kept(m, v) = G!LittleEndian(v, 1)
    BY <1>3, Zenon DEF Kept
  <2>2. v \in 0..255
    BY <1>3, WireIs, Zenon
  <2>3. QED
    BY <1>1, <2>1, <2>2, TwoBytes, Zenon
<1>4. QED
  BY <1>2, <1>3

\* Whatever is left of a value is one.
LEMMA KeptTyped ==
    ASSUME NEW m, NEW v \in Int
    PROVE  Kept(m, v) \in G!WireValues(m)
<1>1. PICK r \in 0..255, t \in 0..255 : r = G!LittleEndian(v, 1) /\ t = G!LittleEndian(v, 2)
  BY TwoBytes, Zenon
<1>2. CASE m \in G!Wide
  <2>1. r + 256 * t \in G!Words
    <3>1. PICK x \in Int : x = r + 256 * t
      OBVIOUS
    <3>2. x >= 0 /\ x <= G!MaxWord
      BY <3>1, MaxWordIs
    <3>3. QED
      BY <3>1, <3>2, IsWord
  <2>2. QED
    BY <1>1, <1>2, <2>1, WireIs, Zenon DEF Kept
<1>3. CASE m \notin G!Wide
  BY <1>1, <1>3, WireIs, Zenon DEF Kept
<1>4. QED
  BY <1>2, <1>3

\* What decode() makes of a value has the member's type.
LEMMA FromWireTyped ==
    ASSUME NEW m, NEW v \in G!WireValues(m)
    PROVE  G!FromWire(m, v) \in G!ObjectValues(m)
<1>1. CASE m \in G!FocalLengths
  <2>1. G!FromWire(m, v) = 2 * v /\ v \in G!Words /\ m \notin G!SignedMembers
    BY <1>1, WireIs, Special DEF G!FromWire, G!Fp12_4Decode
  <2>2. v \in Int /\ v >= 0 /\ v <= G!MaxWord
    BY <2>1, WordIs
  <2>3. 2 * v \in G!Lengths
    <3>1. PICK x \in Int : x = 2 * v
      BY <2>2
    <3>2. x >= 0 /\ x <= 2 * G!MaxWord
      BY <2>2, <3>1, MaxWordIs
    <3>3. QED
      BY <3>1, <3>2, IsLength
  <2>4. QED
    BY <1>1, <2>1, <2>3 DEF G!ObjectValues
<1>2. CASE m \in G!SignedMembers
  <2>1. v \in 0..255 /\ m \notin G!FocalLengths
    BY <1>2, Special, WireIs
  <2>2. QED
    BY <1>2, <2>1 DEF G!FromWire, G!ObjectValues
<1>3. CASE m \notin G!FocalLengths /\ m \notin G!SignedMembers
  BY <1>3 DEF G!FromWire, G!ObjectValues
<1>4. QED
  BY <1>1, <1>2, <1>3

\* fp12_4_encode rounds to the nearest sixteenth.
LEMMA NotAbove == ASSUME NEW w \in Int, NEW h \in Int, h = w \div 2 PROVE 2 * h <= w
  OBVIOUS

LEMMA NotBelow == ASSUME NEW w \in Int, NEW h \in Int, h = w \div 2 PROVE w <= 2 * h + 1
  OBVIOUS

LEMMA HalfIs == ASSUME NEW w \in Int PROVE (w \div 2) \in Int
  OBVIOUS

LEMMA Rounded ==
    ASSUME NEW v \in G!Lengths
    PROVE  /\ G!Fp12_4Encode(v) \in G!Words
           /\ 2 * G!Fp12_4Encode(v) <= v + 1
           /\ v <= 2 * G!Fp12_4Encode(v)
<1>1. PICK w \in Int : w = v + 1
  BY LengthIs
<1>2. PICK h \in Int : h = w \div 2
  BY HalfIs, Zenon
<1>3. 2 * h <= w
  BY <1>2, NotAbove, Zenon
<1>4. w <= 2 * h + 1
  BY <1>2, NotBelow, Zenon
<1>5. v \in Int
  BY LengthIs
<1>6. 2 * h <= v + 1 /\ v <= 2 * h
  BY <1>1, <1>3, <1>4, <1>5
<1>7. h \in G!Words
  <2>1. h >= 0 /\ h <= G!MaxWord
    BY <1>5, <1>6, LengthIs, MaxWordIs
  <2>2. QED
    BY <2>1, IsWord
<1>8. G!Fp12_4Encode(v) = h
  <2>1. ~(v < 0) /\ ~(v > 2 * G!MaxWord)
    BY LengthIs, MaxWordIs
  <2>2. G!Fp12_4Encode(v) = (v + 1) \div 2
    BY <2>1 DEF G!Fp12_4Encode
  <2>3. QED
    BY <1>1, <1>2, <2>2, Zenon
<1>9. QED
  BY <1>6, <1>7, <1>8, Zenon

\* What encode() writes is a number.
LEMMA ToWireTyped ==
    ASSUME NEW m, NEW v \in G!ObjectValues(m)
    PROVE  G!ToWire(m, v) \in Int
<1>1. CASE m \in G!FocalLengths
  <2>1. v \in G!Lengths
    BY <1>1, Special, Zenon DEF G!ObjectValues
  <2>2. G!Fp12_4Encode(v) \in Int
    BY <2>1, Rounded, WordIs
  <2>3. QED
    BY <1>1, <2>2 DEF G!ToWire
<1>2. CASE m \notin G!FocalLengths
  <2>1. v \in Int
    BY <1>2, WireIs DEF G!ObjectValues
  <2>2. QED
    BY <1>2, <2>1 DEF G!ToWire
<1>3. QED
  BY <1>1, <1>2

\* A value that was read is written as the camera had it.
LEMMA WrittenBack ==
    ASSUME NEW m, NEW v \in G!WireValues(m)
    PROVE  Kept(m, G!ToWire(m, G!FromWire(m, v))) = v
<1>1. CASE m \in G!FocalLengths
  <2>1. G!FromWire(m, v) = 2 * v /\ v \in G!Words
    BY <1>1, WireIs DEF G!FromWire, G!Fp12_4Decode
  <2>2. v \in Int /\ v >= 0 /\ v <= G!MaxWord
    BY <2>1, WordIs
  <2>3. PICK w \in G!Lengths : w = 2 * v
    <3>1. PICK x \in Int : x = 2 * v
      BY <2>2
    <3>2. x >= 0 /\ x <= 2 * G!MaxWord
      BY <2>2, <3>1, MaxWordIs
    <3>3. QED
      BY <3>1, <3>2, IsLength
  <2>4. G!Fp12_4Encode(w) \in Int /\ 2 * G!Fp12_4Encode(w) <= w + 1 /\ w <=
            2 * G!Fp12_4Encode(w)
    BY <2>3, Rounded, WordIs
  <2>5. G!Fp12_4Encode(w) = v
    BY <2>2, <2>3, <2>4, LengthIs
  <2>6. QED
    BY <1>1, <2>1, <2>3, <2>5, KeptIs DEF G!ToWire
<1>2. CASE m \in G!SignedMembers
  <2>1. v \in 0..255 /\ m \notin G!Wide /\ m \notin G!FocalLengths
    BY <1>2, Special, WireIs
  <2>2. G!FromWire(m, v) = IF v > 127 THEN v - 256 ELSE v
    BY <1>2, <2>1 DEF G!FromWire
  <2>3. Kept(m, G!ToWire(m, G!FromWire(m, v))) = G!FromWire(m, v) % 256
    BY <2>1, Zenon DEF Kept, G!ToWire, G!LittleEndian
  <2>4. CASE v > 127
    <3>1. PICK w \in -128..(-1) : w = v - 256
      BY <2>1, <2>4
    <3>2. w % 256 = w + 256
      BY NegativeByte
    <3>3. w + 256 = v
      BY <2>1, <3>1
    <3>4. G!FromWire(m, v) = w
      BY <2>2, <2>4, <3>1
    <3>5. QED
      BY <2>3, <3>2, <3>3, <3>4, Zenon
  <2>5. CASE ~(v > 127)
    <3>1. G!FromWire(m, v) = v
      BY <2>2, <2>5
    <3>2. QED
      BY <2>1, <2>3, <3>1, ByteIs, Zenon
  <2>6. QED
    BY <2>4, <2>5
<1>3. CASE m \notin G!FocalLengths /\ m \notin G!SignedMembers
  BY <1>3, KeptIs DEF G!FromWire, G!ToWire
<1>4. QED
  BY <1>1, <1>2, <1>3

\* A value that the application has set arrives, focal lengths rounded.
LEMMA Arrives ==
    ASSUME NEW m, NEW v \in G!ObjectValues(m)
    PROVE  G!FromWire(m, Kept(m, G!ToWire(m, v))) - v
               \in IF m \in G!FocalLengths THEN -1..1 ELSE {0}
<1>1. CASE m \in G!FocalLengths
  <2>1. v \in G!Lengths /\ m \in G!Wide
    BY <1>1, Special, Zenon DEF G!ObjectValues
  <2>2. PICK h \in G!Words : h = G!Fp12_4Encode(v)
    BY <2>1, Rounded
  <2>3. 2 * h <= v + 1 /\ v <= 2 * h
    BY <2>1, <2>2, Rounded
  <2>4. G!ToWire(m, v) = h
    BY <1>1, <2>2 DEF G!ToWire
  <2>5. Kept(m, h) = h
    BY <2>1, WireIs, KeptIs
  <2>6. G!FromWire(m, h) = 2 * h
    BY <1>1 DEF G!FromWire, G!Fp12_4Decode
  <2>7. h \in Int /\ v \in Int
    BY <2>1, WordIs, LengthIs
  <2>8. 2 * h - v \in -1..1
    BY <2>3, <2>7
  <2>9. QED
    BY <1>1, <2>4, <2>5, <2>6, <2>8
<1>2. CASE m \in G!SignedMembers
  <2>1. v \in -128..127 /\ m \notin G!Wide /\ m \notin G!FocalLengths
    BY <1>2, Special DEF G!ObjectValues
  <2>2. Kept(m, G!ToWire(m, v)) = v % 256
    BY <2>1, Zenon DEF Kept, G!ToWire, G!LittleEndian
  <2>3. PICK x \in 0..255 : x = v % 256 /\ x = IF v < 0 THEN v + 256 ELSE v
    <3>1. CASE v < 0
      <4>1. v \in -128..(-1)
        BY <2>1, <3>1
      <4>2. v % 256 = v + 256
        BY <4>1, NegativeByte, Zenon
      <4>3. v + 256 \in 0..255
        BY <4>1
      <4>4. QED
        BY <3>1, <4>2, <4>3, Zenon
    <3>2. CASE ~(v < 0)
      <4>1. v \in 0..255
        BY <2>1, <3>2
      <4>2. v % 256 = v
        BY <4>1, ByteIs, Zenon
      <4>3. QED
        BY <3>2, <4>1, <4>2, Zenon
    <3>3. QED
      BY <3>1, <3>2
  <2>4. G!FromWire(m, x) = v
    <3>1. x = IF v < 0 THEN v + 256 ELSE v
      BY <2>3
    <3>2. G!FromWire(m, x) = IF x > 127 THEN x - 256 ELSE x
      BY <1>2, <2>1 DEF G!FromWire
    <3>3. QED
      BY <2>1, <3>1, <3>2
  <2>5. Kept(m, G!ToWire(m, v)) = x
    BY <2>2, <2>3, Zenon
  <2>6. v - v = 0
    BY <2>1
  <2>7. QED
    BY <2>1, <2>4, <2>5, <2>6
<1>3. CASE m \notin G!FocalLengths /\ m \notin G!SignedMembers
  <2>1. v \in G!WireValues(m) /\ v \in Int
    BY <1>3, WireIs DEF G!ObjectValues
  <2>2. G!ToWire(m, v) = v
    BY <1>3 DEF G!ToWire
  <2>3. G!FromWire(m, Kept(m, v)) = v
    BY <1>3, <2>1, KeptIs DEF G!FromWire
  <2>4. v - v = 0
    BY <2>1
  <2>5. QED
    BY <1>3, <2>2, <2>3, <2>4
<1>4. QED
  BY <1>1, <1>2, <1>3

-----------------------------------------------------------------------------
(***************************************************************************)
(* The calls.                                                              *)
(***************************************************************************)

\* The bits that encode() sets, the camera knows.
LEMMA EncodedAre ==
    ASSUME NEW g \in 1..5
    PROVE  G!Encoded(g) \subseteq G!CamBits(g)
  BY BitIs DEF G!Encoded

\* What the camera has after set_group.
LEMMA Applied ==
    ASSUME NEW g \in 1..5, NEW c, NEW o, NEW m \in G!Members[g]
    PROVE  G!CamApply(g, c, G!Encode(g, o))[m] =
               IF G!BitOf[g][m] \in G!FieldPresent(g, o)
               THEN Kept(m, IF o[m] = G!Unset THEN G!DefaultOf(m) ELSE G!ToWire(m, o[m][1]))
               ELSE c[m]
<1> DEFINE bits == G!FieldPresent(g, o)
           held == [x \in G!Announced(g, bits) |->
                        IF o[x] = G!Unset THEN G!DefaultOf(x) ELSE G!ToWire(x, o[x][1])]
           payload == G!Payload(g, bits, held)
<1>1. G!Encode(g, o) = payload
  BY DEF G!Encode
<1>2. bits \in SUBSET (0..15) /\ bits \subseteq G!CamBits(g)
  BY EncodedAre, CamBitsAre DEF G!FieldPresent
<1>3. G!FromBigEndian16(payload.mask) = bits
  BY <1>2, MaskIs, PayloadIs
<1> HIDE DEF payload, held, bits
<1>4. G!FromBigEndian16(payload.mask) \cap G!CamBits(g) = bits
  BY <1>2, <1>3
<1>5. G!CamApply(g, c, payload)[m] =
          IF G!BitOf[g][m] \in bits
          THEN G!ValueIn(g, payload, G!Starts(G!Ascending, g, bits), m) ELSE c[m]
  BY <1>4 DEF G!CamApply
<1>6. CASE G!BitOf[g][m] \in bits
  <2>1. m \in G!Announced(g, bits)
    BY <1>6 DEF G!Announced
  <2>2. G!ValueIn(g, payload, G!Starts(G!Ascending, g, bits), m) = Kept(m, held[m])
    BY <1>2, <2>1, ValueFound DEF payload
  <2>3. held[m] = IF o[m] = G!Unset THEN G!DefaultOf(m) ELSE G!ToWire(m, o[m][1])
    BY <2>1 DEF held
  <2>4. QED
    BY <1>1, <1>5, <1>6, <2>2, <2>3 DEF bits
<1>7. CASE G!BitOf[g][m] \notin bits
  BY <1>1, <1>5, <1>7 DEF bits
<1>8. QED
  BY <1>6, <1>7

\* What an application is shown of an answer: it is whole, and every item in it.
LEMMA Answered ==
    ASSUME NEW g \in 1..5, NEW c, NEW bits \in SUBSET G!CamBits(g)
    PROVE  /\ ~G!DecodeThrows(g, G!CamReply(g, c, bits))
           /\ \A m \in G!Members[g] :
                G!Decode(g, G!CamReply(g, c, bits))[m] =
                    IF G!BitOf[g][m] \in bits
                        THEN G!Holds(G!FromWire(m, Kept(m, c[m]))) ELSE G!Unset
<1> DEFINE payload == G!CamReply(g, c, bits)
<1>1. bits \in SUBSET (0..15)
  BY CamBitsAre
<1>2. /\ G!FromBigEndian16(payload.mask) = bits
      /\ payload.size = 4 + Cardinality(G!Bytes(g, bits))
      /\ payload = G!Payload(g, bits, c)
  BY <1>1, MaskIs, PayloadIs DEF G!CamReply
<1> HIDE DEF payload
<1>3. ~G!DecodeThrows(g, payload)
  <2>1. Cardinality(G!Bytes(g, bits)) \in Nat
    BY <1>1, BytesFinite
  <2>2. QED
    BY <1>2, <2>1, CountIs DEF G!DecodeThrows
<1>4. ASSUME NEW m \in G!Members[g]
      PROVE  G!Decode(g, payload)[m] =
                 IF G!BitOf[g][m] \in bits THEN G!Holds(G!FromWire(m, Kept(m, c[m])))
                     ELSE G!Unset
  <2>1. G!Decode(g, payload)[m] =
            IF G!BitOf[g][m] \in bits
            THEN G!Holds(G!FromWire(m,
                     G!ValueIn(g, payload, G!Starts(G!ReadOrder[g], g, bits), m)))
            ELSE G!Unset
    BY <1>2 DEF G!Decode
  <2>2. CASE G!BitOf[g][m] \in bits
    <3>1. m \in G!Announced(g, bits)
      BY <2>2 DEF G!Announced
    <3>2. G!ValueIn(g, payload, G!Starts(G!ReadOrder[g], g, bits), m) = Kept(m, c[m])
      BY <1>1, <1>2, <3>1, SameStart, ValueFound
    <3>3. QED
      BY <2>1, <2>2, <3>2
  <2>3. QED
    BY <2>1, <2>2
<1>5. QED
  BY <1>3, <1>4 DEF payload

\* An answer that ends early is refused.
LEMMA Refused ==
    ASSUME NEW g \in 1..5, NEW c, NEW bits \in SUBSET G!CamBits(g),
           NEW n \in 0..(G!CamReply(g, c, bits).size - 1)
    PROVE  G!DecodeThrows(g, G!Cut(G!CamReply(g, c, bits), n))
<1> DEFINE payload == G!CamReply(g, c, bits)
<1>1. bits \in SUBSET (0..15)
  BY CamBitsAre
<1>2. /\ G!FromBigEndian16(payload.mask) = bits
      /\ payload.size = 4 + Cardinality(G!Bytes(g, bits))
  BY <1>1, MaskIs, PayloadIs DEF G!CamReply
<1>3. G!Cut(payload, n).mask = payload.mask /\ G!Cut(payload, n).size = n
  BY DEF G!Cut, G!CamReply, G!Payload
<1>4. Cardinality(G!Bytes(g, bits)) \in Nat
  BY <1>1, BytesFinite
<1>5. n < 4 + Cardinality(G!Bytes(g, bits))
  BY <1>2, <1>4
<1>6. QED
  BY <1>2, <1>3, <1>5, CountIs DEF G!DecodeThrows

-----------------------------------------------------------------------------
(***************************************************************************)
(* The invariant.                                                          *)
(***************************************************************************)

\* A member of the camera has a value its bytes can have, one of the object is empty
\* or has a value of its type.
SettingsTyped ==
    /\ group \in Groups
    /\ settings = [m \in G!Members[group] |-> settings[m]]
    /\ \A m \in G!Members[group] :
         /\ settings[m] \in G!WireValues(m)
         /\ object[m] = G!Unset \/ \E v \in G!ObjectValues(m) : object[m] = G!Holds(v)
    /\ called \in 0..MaxCalls

\* After get_group the object shows what the camera has.
SettingsShown ==
    lastCall.step = "get" =>
        \A m \in G!Members[group] :
            object[m] = IF G!BitOf[group][m] \in lastCall.bits
                        THEN G!Holds(G!FromWire(m, settings[m])) ELSE G!Unset

SettingsIInv == SettingsTyped /\ SettingsShown

\* The numbers that tell the members apart.
LEMMA NumberIs ==
    ASSUME NEW g \in 1..5, NEW m \in G!Members[g]
    PROVE  G!Number(g, m) \in 0..117
<1>1. PICK n \in 0..15 : n = G!BitOf[g][m]
  BY BitIs
<1>2. G!Ascending[n] \in 1..16
  BY AscendingIs
<1>3. G!OffsetOf(m) \in 0..5
  BY DEF G!OffsetOf, G!Offsets
<1>4. QED
  BY <1>1, <1>2, <1>3 DEF G!Number

LEMMA CamValueIs ==
    ASSUME NEW g \in 1..5, NEW m \in G!Members[g]
    PROVE  G!CamValue(g, m) \in G!WireValues(m)
<1>1. PICK k \in 0..117 : k = G!Number(g, m)
  BY NumberIs
<1>2. CASE m \in G!Wide
  <2>1. PICK x \in Int : x = 256 * (128 + k) + k
    OBVIOUS
  <2>2. x >= 0 /\ x <= G!MaxWord
    BY <2>1, MaxWordIs
  <2>3. x \in G!Words
    BY <2>2, IsWord
  <2>4. G!CamValue(g, m) = x
    BY <1>1, <1>2, <2>1 DEF G!CamValue, G!WidthOf
  <2>5. QED
    BY <1>2, <2>3, <2>4, WireIs
<1>3. CASE m \notin G!Wide
  <2>1. G!CamValue(g, m) = k
    BY <1>1, <1>3 DEF G!CamValue, G!WidthOf
  <2>2. k \in 0..255
    OBVIOUS
  <2>3. QED
    BY <1>3, <2>1, <2>2, WireIs
<1>4. QED
  BY <1>2, <1>3

LEMMA AppValueIs ==
    ASSUME NEW g \in 1..5, NEW m \in G!Members[g]
    PROVE  G!AppValue(g, m) \in G!ObjectValues(m)
<1>1. PICK k \in 0..117 : k = G!Number(g, m)
  BY NumberIs
<1>2. CASE m \in G!SignedMembers
  <2>1. m \notin G!FocalLengths
    BY <1>2, Special
  <2>2. G!AppValue(g, m) = -2
    BY <1>2, <2>1 DEF G!AppValue
  <2>3. G!ObjectValues(m) = -128..127
    BY <1>2, Zenon DEF G!ObjectValues
  <2>4. QED
    BY <2>2, <2>3
<1>3. CASE m \in G!FocalLengths
  <2>1. m \notin G!SignedMembers
    BY <1>3, Special
  <2>2. PICK x \in Int : x = 2 * (256 * k + 128) + 1
    OBVIOUS
  <2>3. x >= 0 /\ x <= 2 * G!MaxWord
    BY <2>2, MaxWordIs
  <2>4. x \in G!Lengths
    BY <2>3, IsLength
  <2>5. G!AppValue(g, m) = x
    BY <1>1, <1>3, <2>1, <2>2 DEF G!AppValue
  <2>6. QED
    BY <1>3, <2>1, <2>4, <2>5, Zenon DEF G!ObjectValues
<1>4. CASE m \notin G!SignedMembers \cup G!FocalLengths
  <2>1. G!ObjectValues(m) = G!WireValues(m)
    BY <1>4 DEF G!ObjectValues
  <2>2. G!AppValue(g, m) = (IF G!WidthOf(m) = 2 THEN 256 * k ELSE 0) + 128 + k
    BY <1>1, <1>4 DEF G!AppValue
  <2>3. CASE m \in G!Wide
    <3>1. PICK x \in Int : x = 256 * k + 128 + k
      OBVIOUS
    <3>2. x >= 0 /\ x <= G!MaxWord
      BY <3>1, MaxWordIs
    <3>3. x \in G!Words
      BY <3>2, IsWord
    <3>4. G!AppValue(g, m) = x
      BY <2>2, <2>3, <3>1 DEF G!WidthOf
    <3>5. QED
      BY <2>1, <2>3, <3>3, <3>4, WireIs
  <2>4. CASE m \notin G!Wide
    <3>1. G!AppValue(g, m) = 128 + k
      BY <2>2, <2>4 DEF G!WidthOf
    <3>2. 128 + k \in 0..255
      OBVIOUS
    <3>3. QED
      BY <2>1, <2>4, <3>1, <3>2, WireIs
  <2>5. QED
    BY <2>3, <2>4
<1>5. QED
  BY <1>2, <1>3, <1>4

\* What is written to the camera is a number.
LEMMA WrittenIs ==
    ASSUME NEW m, NEW o, o = G!Unset \/ \E v \in G!ObjectValues(m) : o = G!Holds(v)
    PROVE  (IF o = G!Unset THEN G!DefaultOf(m) ELSE G!ToWire(m, o[1])) \in Int
<1>1. G!DefaultOf(m) \in Int
  BY DEF G!DefaultOf
<1>2. CASE o = G!Unset
  BY <1>1, <1>2
<1>3. ASSUME NEW v \in G!ObjectValues(m), o = G!Holds(v)
      PROVE  G!ToWire(m, o[1]) \in Int
  BY <1>3, ToWireTyped DEF G!Holds
<1>4. QED
  BY <1>1, <1>3

\* Initially.
LEMMA SettingsBegin == G!Init => SettingsIInv
<1> SUFFICES ASSUME G!Init PROVE SettingsIInv
  OBVIOUS
<1>1. group \in Groups /\ group \in 1..5
  BY SettingsAssumption DEF G!GroupsAssumption, G!Init
<1>2. settings = [m \in G!Members[group] |-> G!CamValue(group, m)]
  BY DEF G!Init
<1>3. \A m \in G!Members[group] : settings[m] \in G!WireValues(m) /\ object[m] = G!Unset
  BY <1>1, <1>2, CamValueIs DEF G!Init, G!Blank
<1>4. settings = [m \in G!Members[group] |-> settings[m]]
  BY <1>2
<1>5. called \in 0..MaxCalls
  BY SettingsAssumption DEF G!GroupsAssumption, G!Init
<1>6. SettingsShown
  BY DEF G!Init, SettingsShown
<1>7. QED
  BY <1>1, <1>3, <1>4, <1>5, <1>6, Zenon DEF SettingsIInv, SettingsTyped

LEMMA GroupIs ==
    ASSUME SettingsIInv
    PROVE  group \in Groups /\ group \in 1..5
  BY SettingsAssumption DEF SettingsIInv, SettingsTyped, G!GroupsAssumption

\* Another call is within the bound.
LEMMA Counted ==
    ASSUME SettingsIInv, called < MaxCalls, called' = called + 1
    PROVE  called' \in 0..MaxCalls
<1>1. called \in Nat /\ MaxCalls \in Nat
  BY SettingsAssumption DEF SettingsIInv, SettingsTyped, G!GroupsAssumption
<1>2. QED
  BY <1>1

\* Assigning.
LEMMA AssignKeepsSettings ==
    ASSUME SettingsIInv, G!Assign
    PROVE  SettingsIInv'
<1>1. group \in Groups /\ group \in 1..5
  BY GroupIs
<1>2. group' = group /\ settings' = settings /\ called' = called
  BY DEF G!Assign
<1>3. PICK S : object' = [m \in G!Members[group] |->
                            IF m \in S THEN G!Holds(G!AppValue(group, m)) ELSE object[m]]
  BY DEF G!Assign
<1>4. ASSUME NEW m \in G!Members[group]
      PROVE  /\ settings'[m] \in G!WireValues(m)
             /\ object'[m] = G!Unset \/ \E v \in G!ObjectValues(m) : object'[m] = G!Holds(v)
  <2>1. settings[m] \in G!WireValues(m)
    BY DEF SettingsIInv, SettingsTyped
  <2>2. object[m] = G!Unset \/ \E v \in G!ObjectValues(m) : object[m] = G!Holds(v)
    BY Zenon DEF SettingsIInv, SettingsTyped
  <2>3. object'[m] = IF m \in S THEN G!Holds(G!AppValue(group, m)) ELSE object[m]
    BY <1>3, Zenon
  <2>4. G!AppValue(group, m) \in G!ObjectValues(m)
    BY <1>1, AppValueIs
  <2>5. QED
    BY <1>2, <2>1, <2>2, <2>3, <2>4, Zenon
<1>5. SettingsShown'
  BY DEF SettingsShown, G!Assign
<1>6. settings' = [m \in G!Members[group] |-> settings'[m]] /\ called' \in 0..MaxCalls
  BY <1>2, Zenon DEF SettingsIInv, SettingsTyped
<1>7. QED
  BY <1>1, <1>2, <1>4, <1>5, <1>6, Zenon DEF SettingsIInv, SettingsTyped

\* set_group.
LEMMA SetKeepsSettings ==
    ASSUME SettingsIInv, G!SetGroup
    PROVE  SettingsIInv'
<1>1. group \in Groups /\ group \in 1..5
  BY GroupIs
<1>2. group' = group /\ object' = object /\ lastCall'.step = "set"
  BY DEF G!SetGroup
<1>3. settings = [m \in G!Members[group] |-> settings[m]]
  BY Zenon DEF SettingsIInv, SettingsTyped
<1>4. settings' = IF G!EncodeThrows(group, object) THEN settings
                  ELSE G!CamApply(group, settings, G!Encode(group, object))
  BY Zenon DEF G!SetGroup
<1>5. settings' = [m \in G!Members[group] |-> settings'[m]]
  <2>1. CASE G!EncodeThrows(group, object)
    BY <1>3, <1>4, <2>1, Zenon
  <2>2. CASE ~G!EncodeThrows(group, object)
    BY <1>4, <2>2 DEF G!CamApply
  <2>3. QED
    BY <2>1, <2>2, Zenon
<1>6. ASSUME NEW m \in G!Members[group]
      PROVE  settings'[m] \in G!WireValues(m)
  <2>1. settings[m] \in G!WireValues(m)
    BY DEF SettingsIInv, SettingsTyped
  <2>2. object[m] = G!Unset \/ \E v \in G!ObjectValues(m) : object[m] = G!Holds(v)
    BY Zenon DEF SettingsIInv, SettingsTyped
  <2>3. CASE G!EncodeThrows(group, object)
    BY <1>4, <2>1, <2>3, Zenon
  <2>4. CASE ~G!EncodeThrows(group, object)
    <3>1. PICK x : x = IF object[m] = G!Unset THEN G!DefaultOf(m)
                   ELSE G!ToWire(m, object[m][1])
      OBVIOUS
    <3>2. x \in Int
      BY <2>2, <3>1, WrittenIs, Zenon
    <3>3. settings'[m] = IF G!BitOf[group][m] \in G!FieldPresent(group, object)
                         THEN Kept(m, x) ELSE settings[m]
      BY <1>1, <1>4, <2>4, <3>1, Applied, Zenon
    <3>4. QED
      BY <2>1, <3>2, <3>3, KeptTyped, Zenon
  <2>5. QED
    BY <2>3, <2>4, Zenon
<1>7. SettingsShown'
  BY <1>2 DEF SettingsShown
<1>8. called' \in 0..MaxCalls
  BY Counted DEF G!SetGroup
<1>9. \A m \in G!Members[group] :
         object'[m] = G!Unset \/ \E v \in G!ObjectValues(m) : object'[m] = G!Holds(v)
  BY <1>2, Zenon DEF SettingsIInv, SettingsTyped
<1>10. QED
  BY <1>1, <1>2, <1>5, <1>6, <1>7, <1>8, <1>9, Zenon DEF SettingsIInv, SettingsTyped

\* An answer that is whole.
LEMMA WholeAnswer ==
    ASSUME SettingsIInv, NEW bits \in SUBSET G!CamBits(group),
           G!Receive(G!CamReply(group, settings, bits), bits, "get")
    PROVE  /\ lastCall'.step = "get" /\ ~lastCall'.threw /\ lastCall'.bits = bits
           /\ \A m \in G!Members[group] :
                object'[m] = IF G!BitOf[group][m] \in bits
                             THEN G!Holds(G!FromWire(m, settings[m])) ELSE G!Unset
<1>1. group \in 1..5
  BY GroupIs
<1> DEFINE payload == G!CamReply(group, settings, bits)
<1>2. ~G!DecodeThrows(group, payload)
  BY <1>1, Answered, Zenon
<1>3. /\ object' = G!Decode(group, payload)
      /\ lastCall' = [step |-> "get", bits |-> bits, threw |-> G!DecodeThrows(group, payload)]
  BY <1>2, Zenon DEF G!Receive
<1>4. ASSUME NEW m \in G!Members[group]
      PROVE  object'[m] = IF G!BitOf[group][m] \in bits
                          THEN G!Holds(G!FromWire(m, settings[m])) ELSE G!Unset
  <2>1. settings[m] \in G!WireValues(m)
    BY Zenon DEF SettingsIInv, SettingsTyped
  <2>2. Kept(m, settings[m]) = settings[m]
    BY <2>1, KeptIs, Zenon
  <2>3. G!Decode(group, payload)[m] =
            IF G!BitOf[group][m] \in bits
            THEN G!Holds(G!FromWire(m, Kept(m, settings[m]))) ELSE G!Unset
    <3> HIDE DEF payload
    <3>1. \A x \in G!Members[group] : G!Decode(group, payload)[x] =
              IF G!BitOf[group][x] \in bits
              THEN G!Holds(G!FromWire(x, Kept(x, settings[x]))) ELSE G!Unset
      BY <1>1, Answered DEF payload
    <3>2. QED
      BY <3>1, Zenon
  <2>4. QED
    BY <1>3, <2>2, <2>3, Zenon
<1> HIDE DEF payload
<1>5. QED
  BY <1>2, <1>3, <1>4

\* Which answers get_group is given.
LEMMA NearlyAre ==
    ASSUME NEW S, NEW T \in G!NearlyAllOrNone(S)
    PROVE  T \subseteq S
  BY DEF G!NearlyAllOrNone, G!kSubset

LEMMA GetKeepsSettings ==
    ASSUME SettingsIInv, G!GetGroup
    PROVE  SettingsIInv'
<1>1. group \in Groups
  BY DEF SettingsIInv, SettingsTyped
<1>2. group' = group /\ settings' = settings
  BY DEF G!GetGroup
<1>3. PICK bits \in SUBSET G!CamBits(group) :
          G!Receive(G!CamReply(group, settings, bits), bits, "get")
  BY NearlyAre DEF G!GetGroup
<1>4. /\ lastCall'.step = "get" /\ lastCall'.bits = bits
      /\ \A m \in G!Members[group] :
           object'[m] = IF G!BitOf[group][m] \in bits
                        THEN G!Holds(G!FromWire(m, settings[m])) ELSE G!Unset
  BY <1>3, WholeAnswer, Zenon
<1>5. SettingsShown'
  BY <1>2, <1>4, Zenon DEF SettingsShown
<1>6. ASSUME NEW m \in G!Members[group]
      PROVE  object'[m] = G!Unset \/ \E v \in G!ObjectValues(m) : object'[m] = G!Holds(v)
  <2>1. settings[m] \in G!WireValues(m)
    BY Zenon DEF SettingsIInv, SettingsTyped
  <2>2. G!FromWire(m, settings[m]) \in G!ObjectValues(m)
    BY <2>1, FromWireTyped, Zenon
  <2>3. QED
    BY <1>4, <2>2, Zenon
<1>7. called' \in 0..MaxCalls
  BY Counted DEF G!GetGroup
<1>8. /\ settings' = [m \in G!Members[group] |-> settings'[m]]
      /\ \A m \in G!Members[group] : settings'[m] \in G!WireValues(m)
  BY <1>2, Zenon DEF SettingsIInv, SettingsTyped
<1>9. QED
  BY <1>1, <1>2, <1>5, <1>6, <1>7, <1>8, Zenon DEF SettingsIInv, SettingsTyped

\* An answer that ends early leaves the object alone.
LEMMA ShortIs ==
    ASSUME SettingsIInv, G!GetShort
    PROVE  /\ object' = object /\ group' = group /\ settings' = settings
           /\ called < MaxCalls /\ called' = called + 1
           /\ lastCall'.step = "get_short" /\ lastCall'.threw
<1>1. group \in 1..5
  BY GroupIs
<1> DEFINE reply == G!CamReply(group, settings, G!CamBits(group))
<1>2. PICK n \in 0..(reply.size - 1) :
               G!Receive(G!Cut(reply, n), G!CamBits(group), "get_short")
  BY DEF G!GetShort
<1>3. G!DecodeThrows(group, G!Cut(reply, n))
  <2>1. G!CamBits(group) \in SUBSET G!CamBits(group)
    OBVIOUS
  <2>2. QED
    BY <1>1, <2>1, Refused, Zenon
<1>4. /\ object' = object
      /\ lastCall' = [step |-> "get_short", bits |-> G!CamBits(group),
                      threw |-> G!DecodeThrows(group, G!Cut(reply, n))]
  BY <1>2, <1>3, Zenon DEF G!Receive
<1>5. /\ group' = group /\ settings' = settings
      /\ called < MaxCalls /\ called' = called + 1
  BY Zenon DEF G!GetShort
<1> HIDE DEF reply
<1>6. lastCall'.step = "get_short" /\ lastCall'.threw
  BY <1>3, <1>4
<1>7. QED
  BY <1>4, <1>5, <1>6, Zenon

LEMMA ShortKeeps ==
    ASSUME SettingsIInv, G!GetShort
    PROVE  SettingsIInv'
<1>1. /\ object' = object /\ group' = group /\ settings' = settings
      /\ called < MaxCalls /\ called' = called + 1
      /\ lastCall'.step = "get_short" /\ lastCall'.threw
  BY ShortIs, Zenon
<1>2. called' \in 0..MaxCalls
  BY <1>1, Counted, Zenon
<1>3. SettingsShown'
  BY <1>1 DEF SettingsShown
<1>4. QED
  BY <1>1, <1>2, <1>3, Zenon DEF SettingsIInv, SettingsTyped

LEMMA SettingsKept == SettingsIInv /\ [G!Next]_G!vars => SettingsIInv'
<1>1. ASSUME SettingsIInv, UNCHANGED G!vars PROVE SettingsIInv'
  BY <1>1, Zenon DEF SettingsIInv, SettingsTyped, SettingsShown, G!vars
<1>2. QED
  BY <1>1, AssignKeepsSettings, SetKeepsSettings, GetKeepsSettings, ShortKeeps, Zenon
     DEF G!Next

LEMMA SettingsInvariance == G!Spec => []SettingsIInv
  BY SettingsBegin, SettingsKept, PTL DEF G!Spec

-----------------------------------------------------------------------------
(***************************************************************************)
(* Theorems.                                                               *)
(***************************************************************************)

\* Every member of camera and object has a value of its C++ type.
THEOREM SettingsTypeCorrect == G!Spec => []G!TypeOK
<1>1. SettingsIInv => G!TypeOK
  <2> SUFFICES ASSUME SettingsIInv PROVE G!TypeOK
    OBVIOUS
  <2>1. ASSUME NEW m \in G!Members[group], object[m] # G!Unset
        PROVE  object[m][1] \in G!ObjectValues(m)
    <3>1. PICK v \in G!ObjectValues(m) : object[m] = G!Holds(v)
      BY <2>1, Zenon DEF SettingsIInv, SettingsTyped
    <3>2. QED
      BY <3>1 DEF G!Holds
  <2>2. QED
    BY <2>1, Zenon DEF SettingsIInv, SettingsTyped, G!TypeOK
<1>2. QED
  BY <1>1, SettingsInvariance, PTL

\* Which step each call is.
LEMMA SettingsCallIs ==
    ASSUME G!Next
    PROVE  /\ lastCall'.step = "set" => G!SetGroup
           /\ lastCall'.step = "get" => G!GetGroup
           /\ lastCall'.step = "get_short" => G!GetShort
<1>1. G!Assign => lastCall'.step = "assign"
  BY DEF G!Assign
<1>2. G!SetGroup => lastCall'.step = "set"
  BY DEF G!SetGroup
<1>3. G!GetGroup => lastCall'.step = "get"
  BY DEF G!GetGroup, G!Receive
<1>4. G!GetShort => lastCall'.step = "get_short"
  BY DEF G!GetShort, G!Receive
<1>5. /\ "set" # "get" /\ "set" # "get_short" /\ "set" # "assign"
      /\ "get" # "get_short" /\ "get" # "assign" /\ "get_short" # "assign"
  OBVIOUS
<1>6. QED
  BY <1>1, <1>2, <1>3, <1>4, <1>5, Zenon DEF G!Next

\* What set_group leaves in the camera.
LEMMA SetGivesSettings ==
    ASSUME SettingsIInv, G!SetGroup
    PROVE  /\ group' = group
           /\ lastCall'.threw = G!EncodeThrows(group, object)
           /\ lastCall'.threw => settings' = settings
           /\ ~lastCall'.threw =>
                \A m \in G!Members[group] :
                   settings'[m] =
                      IF G!BitOf[group][m] \in G!FieldPresent(group, object)
                      THEN Kept(m, IF object[m] = G!Unset THEN G!DefaultOf(m)
                                   ELSE G!ToWire(m, object[m][1]))
                      ELSE settings[m]
<1>1. group \in 1..5
  BY GroupIs
<1>2. /\ settings' = IF G!EncodeThrows(group, object) THEN settings
                     ELSE G!CamApply(group, settings, G!Encode(group, object))
      /\ lastCall' = [step |-> "set", bits |-> {}, threw |-> G!EncodeThrows(group, object)]
      /\ group' = group
  BY Zenon DEF G!SetGroup
<1>3. lastCall'.threw = G!EncodeThrows(group, object)
  BY <1>2
<1>4. ASSUME ~G!EncodeThrows(group, object), NEW m \in G!Members[group]
      PROVE  settings'[m] =
                IF G!BitOf[group][m] \in G!FieldPresent(group, object)
                THEN Kept(m, IF object[m] = G!Unset THEN G!DefaultOf(m)
                             ELSE G!ToWire(m, object[m][1]))
                ELSE settings[m]
  BY <1>1, <1>2, <1>4, Applied, Zenon
<1>5. QED
  BY <1>2, <1>3, <1>4, Zenon

\* set_group delivers what the application has set.
THEOREM SettingsArrive == G!Spec => SetDelivers
<1>1. ASSUME SettingsIInv, G!Next, lastCall'.step = "set", ~lastCall'.threw,
             NEW m \in G!Settable[group], object[m] # G!Unset, G!IntervalIsSet(m)
      PROVE  G!FromWire(m, settings'[m]) - object[m][1]
                \in IF m \in G!FocalLengths THEN -1..1 ELSE {0}
  <2>1. G!SetGroup /\ group \in 1..5
    BY <1>1, SettingsCallIs, GroupIs
  <2>2. m \in G!Members[group] /\ G!BitOf[group][m] \in G!Encoded(group)
    BY <2>1 DEF G!Settable
  <2>3. ~G!EncodeThrows(group, object)
    BY <1>1, <2>1, SetGivesSettings, Zenon
  <2>4. G!Present(group, object, G!BitOf[group][m])
    <3>1. CASE group = 5 /\ G!BitOf[group][m] = G!Interval
      <4>1. object["intervalTimerSecond"] # G!Unset
        BY <1>1, <3>1, Zenon DEF G!IntervalIsSet
      <4>2. object["intervalTimerFrame"] # G!Unset
        BY <2>3, <3>1, <4>1, Zenon DEF G!EncodeThrows
      <4>3. QED
        BY <3>1, <4>1, <4>2, Zenon DEF G!Present
    <3>2. CASE ~(group = 5 /\ G!BitOf[group][m] = G!Interval)
      BY <1>1, <2>2, <3>2, Zenon DEF G!Present
    <3>3. QED
      BY <3>1, <3>2, Zenon
  <2>5. G!BitOf[group][m] \in G!FieldPresent(group, object)
    BY <2>2, <2>4, Zenon DEF G!FieldPresent
  <2>6. settings'[m] = Kept(m, G!ToWire(m, object[m][1]))
    BY <1>1, <2>1, <2>2, <2>5, SetGivesSettings, Zenon
  <2>7. PICK v \in G!ObjectValues(m) : object[m] = G!Holds(v)
    BY <1>1, <2>2, Zenon DEF SettingsIInv, SettingsTyped
  <2>8. object[m][1] = v
    BY <2>7 DEF G!Holds
  <2>9. QED
    BY <2>6, <2>8, Arrives
<1>2. SettingsIInv /\ [G!Next]_G!vars =>
         [lastCall'.step = "set" /\ ~lastCall'.threw =>
            \A m \in G!Settable[group] :
               object[m] # G!Unset /\ G!IntervalIsSet(m) =>
                  G!FromWire(m, settings'[m]) - object[m][1]
                     \in IF m \in G!FocalLengths THEN -1..1 ELSE {0}]_G!vars
  BY <1>1, Zenon
<1>3. QED
  BY <1>2, SettingsInvariance, PTL DEF G!Spec, SetDelivers, G!SetDelivers

\* What an unset member is written as is kept as that.
LEMMA DefaultKept == \A m : Kept(m, G!DefaultOf(m)) = G!DefaultOf(m)
<1> SUFFICES ASSUME NEW m PROVE Kept(m, G!DefaultOf(m)) = G!DefaultOf(m)
  OBVIOUS
<1>1. G!DefaultOf(m) \in {0, 2, 254}
  BY DEF G!DefaultOf
<1>2. QED
  BY <1>1 DEF Kept, G!LittleEndian

\* set_group changes no setting that neither is set nor shares its item with one
\* that is, and none if it throws; one that only shares its item is turned off.
THEOREM OthersAreSpared == G!Spec => SetSparesOthers
<1>1. ASSUME SettingsIInv, G!Next, lastCall'.step = "set",
             NEW m \in G!Members[group], settings'[m] # settings[m]
      PROVE  /\ ~lastCall'.threw
             /\ m \in G!Settable[group]
             /\ \/ object[m] # G!Unset
                \/ /\ settings'[m] = G!DefaultOf(m)
                   /\ \E n \in G!Members[group] :
                         G!BitOf[group][n] = G!BitOf[group][m] /\ object[n] # G!Unset
  <2>1. G!SetGroup /\ group \in 1..5
    BY <1>1, SettingsCallIs, GroupIs
  <2>2. ~lastCall'.threw
    BY <1>1, <2>1, SetGivesSettings, Zenon
  <2>3. G!BitOf[group][m] \in G!FieldPresent(group, object)
    BY <1>1, <2>1, <2>2, SetGivesSettings, Zenon
  <2>4. G!BitOf[group][m] \in G!Encoded(group) /\ G!Present(group, object, G!BitOf[group][m])
    BY <2>3, Zenon DEF G!FieldPresent
  <2>5. m \in G!Settable[group]
    BY <2>1, <2>4 DEF G!Settable
  <2>6. \E n \in G!Members[group] : G!BitOf[group][n] =
            G!BitOf[group][m] /\ object[n] # G!Unset
    <3>1. CASE group = 5 /\ G!BitOf[group][m] = G!Interval
      <4>1. object["intervalTimerSecond"] # G!Unset
        BY <2>4, <3>1, Zenon DEF G!Present
      <4>2. /\ "intervalTimerSecond" \in G!Members[5]
           /\ G!BitOf[5]["intervalTimerSecond"] = G!Interval
        BY SettingsAre, BitOfIs DEF G!Group5, G!Interval
      <4>3. QED
        BY <3>1, <4>1, <4>2, Zenon
    <3>2. CASE ~(group = 5 /\ G!BitOf[group][m] = G!Interval)
      BY <2>4, <3>2, Zenon DEF G!Present
    <3>3. QED
      BY <3>1, <3>2, Zenon
  <2>7. object[m] = G!Unset => settings'[m] = G!DefaultOf(m)
    <3>1. settings'[m] = Kept(m, IF object[m] = G!Unset THEN G!DefaultOf(m)
                                 ELSE G!ToWire(m, object[m][1]))
      BY <1>1, <2>1, <2>2, <2>3, SetGivesSettings, Zenon
    <3>2. QED
      BY <3>1, DefaultKept
  <2>8. QED
    BY <2>2, <2>5, <2>6, <2>7, Zenon
<1>2. SettingsIInv /\ [G!Next]_G!vars =>
         [lastCall'.step = "set" =>
            \A m \in G!Members[group] :
               settings'[m] # settings[m] =>
                  /\ ~lastCall'.threw
                  /\ m \in G!Settable[group]
                  /\ \/ object[m] # G!Unset
                     \/ /\ settings'[m] = G!DefaultOf(m)
                        /\ \E n \in G!Members[group] :
                              G!BitOf[group][n] = G!BitOf[group][m] /\ object[n] # G!Unset]_G!vars
  BY <1>1, Zenon
<1>3. QED
  BY <1>2, SettingsInvariance, PTL DEF G!Spec, SetSparesOthers, G!SetSparesOthers

\* get_group shows what the camera has of the items in its answer, and nothing else;
\* it refuses an answer that ends early.
THEOREM SettingsAreShown == G!Spec => GetReflectsSettings
<1>1. ASSUME SettingsIInv, G!Next, lastCall'.step = "get"
      PROVE  /\ ~lastCall'.threw
             /\ \A m \in G!Members[group] :
                  object'[m] = IF G!BitOf[group][m] \in lastCall'.bits
                               THEN G!Holds(G!FromWire(m, settings[m])) ELSE G!Unset
  <2>1. G!GetGroup
    BY <1>1, SettingsCallIs, Zenon
  <2>2. PICK bits \in SUBSET G!CamBits(group) :
            G!Receive(G!CamReply(group, settings, bits), bits, "get")
    BY <2>1, NearlyAre DEF G!GetGroup
  <2>3. QED
    BY <1>1, <2>2, WholeAnswer, Zenon
<1>2. ASSUME SettingsIInv, G!Next, lastCall'.step = "get_short"
      PROVE  lastCall'.threw
  BY <1>2, SettingsCallIs, ShortIs, Zenon
<1>3. SettingsIInv /\ [G!Next]_G!vars =>
         [lastCall'.step = "get" =>
            /\ ~lastCall'.threw
            /\ \A m \in G!Members[group] :
                 object'[m] = IF G!BitOf[group][m] \in lastCall'.bits
                              THEN G!Holds(G!FromWire(m, settings[m])) ELSE G!Unset]_G!vars
  BY <1>1, Zenon
<1>4. SettingsIInv /\ [G!Next]_G!vars =>
          [lastCall'.step = "get_short" => lastCall'.threw]_G!vars
  BY <1>2, Zenon
<1>5. QED
  BY <1>3, <1>4, SettingsInvariance, SettingsTypeCorrect, PTL DEF G!Spec,
     GetReflectsSettings, G!GetReflectsCamera

\* An object that was just read is written back without changing the camera.
THEOREM EchoChangesNothing == G!Spec => EchoIsHarmless
<1>1. ASSUME SettingsIInv, G!Next, lastCall.step = "get", lastCall'.step = "set"
      PROVE  ~lastCall'.threw /\ settings' = settings
  <2>1. G!SetGroup /\ group \in 1..5
    BY <1>1, SettingsCallIs, GroupIs
  <2>2. \A m \in G!Members[group] :
           object[m] = IF G!BitOf[group][m] \in lastCall.bits
                       THEN G!Holds(G!FromWire(m, settings[m])) ELSE G!Unset
    BY <1>1, Zenon DEF SettingsIInv, SettingsShown
  <2>3. \A v : G!Holds(v) # G!Unset /\ G!Holds(v)[1] = v
    BY DEF G!Holds, G!Unset
  <2>4. ~G!EncodeThrows(group, object)
    <3>1. ASSUME group = 5
          PROVE  (object["intervalTimerSecond"] = G!Unset) <=>
                     (object["intervalTimerFrame"] = G!Unset)
      <4>1. /\ "intervalTimerSecond" \in G!Members[5] /\ G!BitOf[5]["intervalTimerSecond"] = 8
            /\ "intervalTimerFrame" \in G!Members[5] /\ G!BitOf[5]["intervalTimerFrame"] = 8
        BY SettingsAre, BitOfIs DEF G!Group5
      <4>2. ASSUME NEW x \in G!Members[5], G!BitOf[5][x] = 8
            PROVE  object[x] = G!Unset <=> 8 \notin lastCall.bits
        BY <2>2, <2>3, <3>1, <4>2, Zenon
      <4>3. QED
        BY <4>1, <4>2, Zenon
    <3>2. QED
      BY <3>1 DEF G!EncodeThrows
  <2>5. ~lastCall'.threw
    BY <1>1, <2>1, <2>4, SetGivesSettings, Zenon
  <2>6. ASSUME NEW m \in G!Members[group]
        PROVE  settings'[m] = settings[m]
    <3>1. CASE G!BitOf[group][m] \notin G!FieldPresent(group, object)
      BY <1>1, <2>1, <2>5, <3>1, SetGivesSettings, Zenon
    <3>2. CASE G!BitOf[group][m] \in G!FieldPresent(group, object)
      <4>1. G!BitOf[group][m] \in lastCall.bits
        <5>1. G!Present(group, object, G!BitOf[group][m])
          BY <3>2, Zenon DEF G!FieldPresent
        <5>2. CASE group = 5 /\ G!BitOf[group][m] = G!Interval
          <6>1. object["intervalTimerSecond"] # G!Unset
            BY <5>1, <5>2, Zenon DEF G!Present
          <6>2. /\ "intervalTimerSecond" \in G!Members[5]
               /\ G!BitOf[5]["intervalTimerSecond"] = G!Interval
            BY SettingsAre, BitOfIs DEF G!Group5, G!Interval
          <6>3. QED
            BY <2>2, <5>2, <6>1, <6>2, Zenon
        <5>3. CASE ~(group = 5 /\ G!BitOf[group][m] = G!Interval)
          <6>1. PICK n \in G!Members[group] : G!BitOf[group][n] =
                         G!BitOf[group][m] /\ object[n] # G!Unset
            BY <5>1, <5>3, Zenon DEF G!Present
          <6>2. QED
            BY <2>2, <6>1, Zenon
        <5>4. QED
          BY <5>2, <5>3, Zenon
      <4>2. object[m] = G!Holds(G!FromWire(m, settings[m]))
        BY <2>2, <4>1, Zenon
      <4>3. object[m] # G!Unset /\ object[m][1] = G!FromWire(m, settings[m])
        BY <2>3, <4>2, Zenon
      <4>4. settings'[m] = Kept(m, G!ToWire(m, G!FromWire(m, settings[m])))
        BY <1>1, <2>1, <2>5, <3>2, <4>3, SetGivesSettings, Zenon
      <4>5. settings[m] \in G!WireValues(m)
        BY <1>1, Zenon DEF SettingsIInv, SettingsTyped
      <4>6. QED
        BY <4>4, <4>5, WrittenBack, Zenon
    <3>3. QED
      BY <3>1, <3>2, Zenon
  <2>7. settings' = settings
    <3>1. SettingsIInv'
      BY <1>1, <2>1, SetKeepsSettings, Zenon
    <3>2. settings = [m \in G!Members[group] |-> settings[m]] /\ group' = group
      BY <1>1, <2>1, SetGivesSettings, Zenon DEF SettingsIInv, SettingsTyped
    <3>3. settings' = [m \in G!Members[group] |-> settings'[m]]
      BY <3>1, <3>2, Zenon DEF SettingsIInv, SettingsTyped
    <3>4. QED
      BY <2>6, <3>2, <3>3
  <2>8. QED
    BY <2>5, <2>7, Zenon
<1>2. SettingsIInv /\ [G!Next]_G!vars =>
         [lastCall.step = "get" /\ lastCall'.step = "set" =>
            ~lastCall'.threw /\ settings' = settings]_G!vars
  BY <1>1, Zenon
<1>3. QED
  BY <1>2, SettingsInvariance, PTL DEF G!Spec, EchoIsHarmless, G!EchoIsHarmless

-----------------------------------------------------------------------------
(***************************************************************************)
(* All three, side by side.                                                *)
(***************************************************************************)

LEMMA EachAlone == EitherSpec => Spec /\ Apex!Spec
<1>1. BlobsInit \/ TablesInit => Init /\ Apex!Init
  BY DEF BlobsInit, TablesInit, NoBlobs, NoTables
<1>2. [BlobsNext \/ TablesNext]_<<coding, vars, apexVars, groupVars>>
         => [Next]_vars /\ [Apex!Next]_Apex!vars
  BY DEF BlobsNext, TablesNext, apexVars, Apex!vars
<1>3. QED
  BY <1>1, <1>2, PTL DEF EitherSpec, Spec, Apex!Spec

LEMMA GroupsAlone == GroupsSpec => G!Spec
<1>1. GroupsInit => G!Init
  BY DEF GroupsInit
<1>2. [GroupsNext]_<<coding, vars, apexVars, groupVars>> => [G!Next]_G!vars
  BY DEF GroupsNext, groupVars, G!vars
<1>3. QED
  BY <1>1, <1>2, PTL DEF GroupsSpec, G!Spec

\* Whichever an application uses, nothing that the camera has or is told becomes
\* anything else: in blobs, but for positions that are too long, in tables, and in
\* the settings groups.
THEOREM NothingIsMistaken ==
    /\ EitherSpec => /\ SetReaches /\ GetReflectsCamera /\ CutNeverMixes /\ []WildReadCause
                     /\ RoundTrip /\ Monotone /\ []BulbOnlyIfTooShort
    /\ GroupsSpec => /\ SetDelivers /\ SetSparesOthers
                     /\ GetReflectsSettings /\ EchoIsHarmless
<1>1. EitherSpec => /\ SetReaches /\ GetReflectsCamera /\ CutNeverMixes /\ []WildReadCause
                    /\ RoundTrip /\ Monotone /\ []BulbOnlyIfTooShort
  BY EachAlone, SetReachesCamera, GetShowsCamera, CutAnswersNeverMix, WildReadByWrap,
     Returns, Ascends, BulbIsTooShort, PTL
<1>2. GroupsSpec => /\ SetDelivers /\ SetSparesOthers
                    /\ GetReflectsSettings /\ EchoIsHarmless
  BY GroupsAlone, SettingsArrive, OthersAreSpared, SettingsAreShown, EchoChangesNothing, PTL
<1>3. QED
  BY <1>1, <1>2

=============================================================================
