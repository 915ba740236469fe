-------------------------- MODULE TransportsProofs --------------------------
(***************************************************************************)
(* Proofs about what CameraPTP reads through: the framing of containers    *)
(* over a bulk pipe (ContainerFraming), and the fake of the tests          *)
(* (FakeTransport), which MCTransports puts side by side.                  *)
(*                                                                         *)
(* The pipe.  A packet is a piece of a container, from one place in the    *)
(* stream of bytes to a later one; the packets on the wire go from where   *)
(* the reader is to where the camera will send the next container (Runs).  *)
(* Around this stand three invariants.  Typed: the variables have their    *)
(* types, and a transfer has taken a whole number of full packets.         *)
(* Ordered, of any run: what was returned, then what is held, then what is *)
(* on the wire, is in the order it was sent in.  InQueue, of runs in which *)
(* no read tore a container and every transfer was ended: what was         *)
(* returned is the first containers, whole, and what is held is the        *)
(* beginning of the next; or nothing is held, and the empty packet behind  *)
(* a container that filled its buffer is next on the wire.                 *)
(*                                                                         *)
(* The fake.  Its queue has no boundaries, and a read may begin and end    *)
(* anywhere in a container; an OK of the fake's own appears only in a read *)
(* that found nothing else.  Four invariants, kept by every step together. *)
(* FakeTyped: types, and during a call the last command is the call's.     *)
(* Owned: an OK, returned or still held, is the call's own.  Few: in a     *)
(* queue that fits in one read, a call that holds data has nothing left to *)
(* read.                                                                   *)
(* Intact: the bytes held and queued stand as they stand in their          *)
(* containers, back to the first and on to the last byte queued (Woven,    *)
(* Clean), and the header is that of the container whose first byte is     *)
(* held; so what follows a header is that container's data.                *)
(***************************************************************************)
EXTENDS Integers, MCTransports, SequenceTheorems, TLAPS

-----------------------------------------------------------------------------
(***************************************************************************)
(* Numbers.                                                                *)
(***************************************************************************)

LEMMA Scaled == \A j, k, p \in Nat : j <= k => j * p \in Nat /\ j * p <= k * p
  OBVIOUS

LEMMA OneMore == \A j, p \in Nat : (j + 1) * p = j * p + p /\ (j - 1) * p = j * p - p
  OBVIOUS

LEMMA Quotient ==
    ASSUME NEW n \in Nat, NEW p \in Nat \ {0}
    PROVE  n \div p \in Nat /\ (n \div p) * p <= n /\ n < (n \div p) * p + p
  OBVIOUS

LEMMA NoRemainder ==
    ASSUME NEW n \in Nat, NEW p \in Nat \ {0}, n % p = 0
    PROVE  \E q \in Nat : n = q * p
  OBVIOUS

LEMMA Multiple ==
    ASSUME NEW q \in Nat, NEW p \in Nat \ {0}
    PROVE  (q * p) % p = 0
  OBVIOUS

-----------------------------------------------------------------------------
(***************************************************************************)
(* Sequences.                                                              *)
(***************************************************************************)

LEMMA JoinedIs ==
    ASSUME NEW S, NEW s \in Seq(S), NEW t \in Seq(S), NEW u, u = s \o t
    PROVE  /\ u \in Seq(S) /\ Len(u) = Len(s) + Len(t)
           /\ \A k \in 1..Len(s) : u[k] = s[k]
           /\ \A k \in 1..Len(t) : u[Len(s) + k] = t[k]
<1>1. /\ u \in Seq(S) /\ Len(u) = Len(s) + Len(t) /\ Len(s) \in Nat /\ Len(t) \in Nat
      /\ \A k \in 1..Len(s) + Len(t) :
            u[k] = IF k <= Len(s) THEN s[k] ELSE t[k - Len(s)]
  BY ConcatProperties, LenProperties, Zenon
<1>2. u \in Seq(S) /\ Len(u) = Len(s) + Len(t)
  BY <1>1
<1>3. \A k \in 1..Len(s) : u[k] = s[k]
  BY <1>1
<1>4. ASSUME NEW k \in 1..Len(t) PROVE u[Len(s) + k] = t[k]
  <2>1. /\ Len(s) + k \in 1..Len(s) + Len(t) /\ ~(Len(s) + k <= Len(s))
        /\ (Len(s) + k) - Len(s) = k
    BY <1>1
  <2>2. QED
    BY <1>1, <2>1
<1>5. QED
  BY <1>2, <1>3, <1>4, Zenon

LEMMA Joined ==
    ASSUME NEW S, NEW s \in Seq(S), NEW t \in Seq(S)
    PROVE  \E u : /\ u = s \o t
                  /\ u \in Seq(S) /\ Len(u) = Len(s) + Len(t)
                  /\ \A k \in 1..Len(s) : u[k] = s[k]
                  /\ \A k \in 1..Len(t) : u[Len(s) + k] = t[k]
<1>1. PICK u : u = s \o t
  OBVIOUS
<1>2. /\ u \in Seq(S) /\ Len(u) = Len(s) + Len(t)
      /\ \A k \in 1..Len(s) : u[k] = s[k]
      /\ \A k \in 1..Len(t) : u[Len(s) + k] = t[k]
  BY <1>1, JoinedIs
<1>3. QED
  BY <1>1, <1>2, Zenon

LEMMA Regrouped ==
    ASSUME NEW S, NEW h \in Seq(S), NEW x \in Seq(S), NEW p \in Seq(S),
           NEW u, NEW v, NEW b, u = h \o x, v = x \o p, b = u \o p
    PROVE  b = h \o v
  BY ConcatAssociative, SMT

LEMMA NotEmpty == \A s : Len(s) >= 1 => s # <<>>
  OBVIOUS

LEMMA Cut ==
    ASSUME NEW S, NEW s \in Seq(S), NEW i \in Nat, NEW j \in Nat, i <= j, j <= Len(s),
           NEW u, u = SubSeq(s, i + 1, j)
    PROVE  /\ u \in Seq(S) /\ Len(u) = j - i
           /\ \A k \in 1..(j - i) : u[k] = s[i + k]
  OBVIOUS

LEMMA Listed ==
    ASSUME NEW S, NEW n \in Nat, NEW s \in [1..n -> S]
    PROVE  s \in Seq(S) /\ Len(s) = n
  OBVIOUS

LEMMA Same ==
    ASSUME NEW S, NEW s \in Seq(S), NEW t \in Seq(S), Len(s) = Len(t),
           \A k \in 1..Len(s) : s[k] = t[k]
    PROVE  s = t
  BY SeqEqual, Zenon
-----------------------------------------------------------------------------
(***************************************************************************)
(* Containers and their pieces.                                            *)
(***************************************************************************)

Place == Nat \X Nat

LEMMA Sizes ==
    /\ HeaderLen \in Nat \ {0} /\ PacketSize \in Nat \ {0} /\ BufSize \in Nat \ {0}
    /\ HeaderLen < PacketSize
    /\ \A n \in Lengths : n \in Nat /\ n >= HeaderLen
    /\ \A n \in JunkLengths : n \in Nat
    /\ MaxSent \in Nat
    /\ \E b \in Nat : BufSize = b * PacketSize
<1>1. \E b \in Nat : BufSize = b * PacketSize
  BY FramingAssumption, NoRemainder DEF FramingAssumption
<1>2. QED
  BY <1>1, FramingAssumption DEF FramingAssumption

\* The d bytes of container n after the first a.
Piece(s, n, a, d) ==
    /\ s \in Seq(Place)
    /\ Len(s) = d
    /\ \A k \in 1..d : s[k] = <<n, a + k>>

LEMMA BytesArePiece ==
    ASSUME NEW n \in Nat, NEW a \in Nat, NEW d \in Nat
    PROVE  Piece(Bytes(n, a, d), n, a, d)
<1>1. Bytes(n, a, d) \in [1..d -> Place]
  BY DEF Bytes, Place
<1>2. \A k \in 1..d : Bytes(n, a, d)[k] = <<n, a + k>>
  BY DEF Bytes
<1>3. QED
  BY <1>1, <1>2, Listed DEF Piece

LEMMA PieceIsBytes ==
    ASSUME NEW n \in Nat, NEW a \in Nat, NEW d \in Nat, NEW s, Piece(s, n, a, d)
    PROVE  s = Bytes(n, a, d)
<1>1. PICK t : t = Bytes(n, a, d)
  OBVIOUS
<1>2. Piece(t, n, a, d)
  BY <1>1, BytesArePiece
<1>3. s = t
  BY <1>2, Same DEF Piece
<1>4. QED
  BY <1>1, <1>3

LEMMA PieceJoin ==
    ASSUME NEW n, NEW a \in Nat, NEW d \in Nat, NEW e \in Nat, NEW s, NEW t, NEW w,
           Piece(s, n, a, d), Piece(t, n, a + d, e), w = s \o t
    PROVE  Piece(w, n, a, d + e)
<1>1. s \in Seq(Place) /\ Len(s) = d /\ \A k \in 1..d : s[k] = <<n, a + k>>
  BY DEF Piece
<1>2. t \in Seq(Place) /\ Len(t) = e /\ \A k \in 1..e : t[k] = <<n, (a + d) + k>>
  BY DEF Piece
<1>3. /\ w \in Seq(Place) /\ Len(w) = Len(s) + Len(t)
      /\ \A k \in 1..Len(s) : w[k] = s[k]
      /\ \A k \in 1..Len(t) : w[Len(s) + k] = t[k]
  <2>1. s \in Seq(Place) /\ t \in Seq(Place)
    BY <1>1, <1>2
  <2>2. QED
    BY <2>1, Joined, SMT
<1>4. ASSUME NEW k \in 1..(d + e)
      PROVE  w[k] = <<n, a + k>>
  <2>1. CASE k <= d
    <3>1. k \in 1..d
      BY <2>1
    <3>2. w[k] = s[k]
      BY <1>1, <1>3, <3>1
    <3>3. QED
      BY <1>1, <3>1, <3>2
  <2>2. CASE k > d
    <3>1. PICK m \in 1..e : k = d + m
      <4>1. k - d \in 1..e /\ k = d + (k - d)
        BY <2>2
      <4>2. QED
        BY <4>1
    <3>2. w[d + m] = t[m]
      BY <1>1, <1>2, <1>3
    <3>3. (a + d) + m = a + k
      BY <3>1
    <3>4. QED
      BY <1>2, <3>1, <3>2, <3>3
  <2>3. k <= d \/ k > d
    BY <1>1
  <2>4. QED
    BY <2>1, <2>2, <2>3, Zenon
<1>5. QED
  BY <1>1, <1>2, <1>3, <1>4 DEF Piece

LEMMA PieceCut ==
    ASSUME NEW n, NEW a \in Nat, NEW d \in Nat, NEW i \in Nat, NEW j \in Nat, NEW s, NEW w,
           i <= j, j <= d, Piece(s, n, a, d), w = SubSeq(s, i + 1, j)
    PROVE  Piece(w, n, a + i, j - i)
<1>1. s \in Seq(Place) /\ Len(s) = d /\ \A k \in 1..d : s[k] = <<n, a + k>>
  BY DEF Piece
<1>2. w \in Seq(Place) /\ Len(w) = j - i /\ \A k \in 1..(j - i) : w[k] = s[i + k]
  BY <1>1, Cut
<1>3. ASSUME NEW k \in 1..(j - i) PROVE w[k] = <<n, (a + i) + k>>
  <2>1. i + k \in 1..d /\ a + (i + k) = (a + i) + k
    OBVIOUS
  <2>2. QED
    BY <1>1, <1>2, <2>1
<1>4. QED
  BY <1>2, <1>3 DEF Piece

LEMMA PacketsAre ==
    ASSUME NEW n \in Nat, NEW a \in Nat, NEW d \in Nat,
           NEW bytes, Piece(bytes, n, a, d), NEW q, q = d \div PacketSize
    PROVE  /\ q \in Nat /\ \A k \in 0..q : k * PacketSize \in Nat
           /\ q * PacketSize <= d /\ d < q * PacketSize + PacketSize
           /\ Packets(bytes) \in Seq(Seq(Place)) /\ Len(Packets(bytes)) = q
           /\ \A k \in 1..q : Piece(Packets(bytes)[k], n, a + (k - 1) * PacketSize, PacketSize)
           /\ Piece(LastPacket(bytes), n, a + q * PacketSize, d - q * PacketSize)
<1>1. PacketSize \in Nat \ {0} /\ PacketSize \in Nat
  BY Sizes
<1>2. bytes \in Seq(Place) /\ Len(bytes) = d
  BY DEF Piece
<1>3. /\ q \in Nat /\ q * PacketSize <= d /\ d < q * PacketSize + PacketSize
  BY <1>1, Quotient
<1>4. \A k \in 0..q : k * PacketSize \in Nat /\ k * PacketSize <= q * PacketSize
  BY <1>1, <1>3, Scaled
<1>5. q * PacketSize \in Nat
  BY <1>3, <1>4
<1>6. ASSUME NEW k \in 1..q
      PROVE  Piece(SubSeq(bytes, (k - 1) * PacketSize + 1, k * PacketSize),
                   n, a + (k - 1) * PacketSize, PacketSize)
  <2>1. PICK i \in Nat : i = (k - 1) * PacketSize
    <3>1. k - 1 \in 0..q
      BY <1>3
    <3>2. QED
      BY <1>4, <3>1
  <2>2. PICK j \in Nat : j = k * PacketSize /\ j <= d
    <3>1. k \in 0..q
      BY <1>3
    <3>2. QED
      BY <1>3, <1>4, <1>5, <3>1
  <2>3. j = i + PacketSize /\ i <= j /\ j - i = PacketSize
    <3>1. k \in Nat
      BY <1>3
    <3>2. (k - 1) * PacketSize = k * PacketSize - PacketSize
      BY <1>1, <3>1, OneMore
    <3>3. QED
      BY <1>1, <2>1, <2>2, <3>2
  <2>4. PICK w : w = SubSeq(bytes, i + 1, j)
    OBVIOUS
  <2>5. Piece(w, n, a + i, j - i)
    BY <2>2, <2>3, <2>4, PieceCut
  <2>6. QED
    BY <2>1, <2>2, <2>3, <2>4, <2>5
<1>7. Packets(bytes) = [k \in 1..q |-> SubSeq(bytes, (k - 1) * PacketSize + 1, k * PacketSize)]
  BY <1>2 DEF Packets
<1>8. /\ Packets(bytes) \in Seq(Seq(Place)) /\ Len(Packets(bytes)) = q
      /\ \A k \in 1..q : Piece(Packets(bytes)[k], n, a + (k - 1) * PacketSize, PacketSize)
  <2>1. \A k \in 1..q : Packets(bytes)[k] = SubSeq(bytes, (k - 1) * PacketSize + 1, k * PacketSize)
    BY <1>7, Zenon
  <2>2. \A k \in 1..q : Piece(Packets(bytes)[k], n, a + (k - 1) * PacketSize, PacketSize)
    BY <1>6, <2>1
  <2>3. \A k \in 1..q : Packets(bytes)[k] \in Seq(Place)
    BY <2>2 DEF Piece
  <2>4. Packets(bytes) \in [1..q -> Seq(Place)]
    BY <1>7, <2>3
  <2>5. Packets(bytes) \in Seq(Seq(Place)) /\ Len(Packets(bytes)) = q
    BY <1>3, <2>4, Listed
  <2>6. QED
    BY <2>2, <2>5
<1>9. PICK i \in Nat : i = q * PacketSize /\ i <= d
  BY <1>3, <1>5
<1>10. Piece(LastPacket(bytes), n, a + i, d - i)
  <2>1. PICK w : w = SubSeq(bytes, i + 1, d)
    OBVIOUS
  <2>2. Piece(w, n, a + i, d - i)
    <3>1. i \in Nat /\ i <= d /\ d \in Nat /\ d <= d
      BY <1>9
    <3>2. QED
      BY <2>1, <3>1, PieceCut, Zenon
  <2>3. LastPacket(bytes) = w
    BY <1>2, <1>9, <2>1 DEF LastPacket
  <2>4. QED
    BY <2>2, <2>3
<1>11. QED
  BY <1>3, <1>4, <1>8, <1>9, <1>10

-----------------------------------------------------------------------------
(***************************************************************************)
(* What is on the wire.  A place <<n, i>> in the stream of bytes is after  *)
(* the ith byte of container n; <<n, 0>> is where container n begins.      *)
(***************************************************************************)

\* With the lengths s sent, packet p goes from place x to place y.  A full packet
\* stays in its container, a shorter one ends the container or is its header
\* alone; if u, a full packet may also end its container.
Follows(s, p, x, y, u) ==
    \E n \in 1..Len(s), i \in Nat, e \in 0..PacketSize :
        /\ x = <<n, i>> /\ i + e <= s[n]
        /\ Piece(p, n, i, e)
        /\ \/ e = PacketSize /\ y = <<n, i + e>>
           \/ (e < PacketSize \/ u) /\ i + e = s[n] /\ y = <<n + 1, 0>>
           \/ e < PacketSize /\ i = 0 /\ e = HeaderLen /\ e < s[n] /\ y = <<n, e>>

\* The packets w go from place x to place y.
Runs(s, w, x, y, u) ==
    /\ w \in Seq(Seq(Place))
    /\ \E at \in [1..(Len(w) + 1) -> Place] :
          /\ at[1] = x /\ at[Len(w) + 1] = y
          /\ \A k \in 1..Len(w) : Follows(s, w[k], at[k], at[k + 1], u)

LEMMA RunsNone ==
    ASSUME NEW s, NEW x \in Place, NEW u
    PROVE  Runs(s, <<>>, x, x, u)
<1>1. <<>> \in Seq(Seq(Place)) /\ Len(<<>>) = 0
  OBVIOUS
<1>2. PICK at : at = [k \in 1..1 |-> x]
  OBVIOUS
<1>3. at \in [1..(0 + 1) -> Place] /\ at[1] = x /\ at[0 + 1] = x /\ 1..0 = {}
  BY <1>2
<1>4. QED
  BY <1>1, <1>3 DEF Runs

LEMMA RunsJoin ==
    ASSUME NEW s, NEW u, NEW v, NEW w, NEW t, NEW x, NEW y, NEW z,
           Runs(s, v, x, y, u), Runs(s, w, y, z, u), t = v \o w
    PROVE  Runs(s, t, x, z, u)
<1>1. v \in Seq(Seq(Place)) /\ w \in Seq(Seq(Place))
  BY DEF Runs
<1>2. /\ t \in Seq(Seq(Place)) /\ Len(t) = Len(v) + Len(w)
      /\ \A k \in 1..Len(v) : t[k] = v[k]
      /\ \A k \in 1..Len(w) : t[Len(v) + k] = w[k]
  BY <1>1, Joined, SMT
<1>3. Len(v) \in Nat /\ Len(w) \in Nat
  BY <1>1
<1>4. PICK f \in [1..(Len(v) + 1) -> Place] :
        /\ f[1] = x /\ f[Len(v) + 1] = y
        /\ \A k \in 1..Len(v) : Follows(s, v[k], f[k], f[k + 1], u)
  BY DEF Runs
<1>5. PICK g \in [1..(Len(w) + 1) -> Place] :
        /\ g[1] = y /\ g[Len(w) + 1] = z
        /\ \A k \in 1..Len(w) : Follows(s, w[k], g[k], g[k + 1], u)
  BY DEF Runs
<1>6. PICK c, d \in Nat : c = Len(v) /\ d = Len(w)
  BY <1>3
<1>7. PICK at : at = [k \in 1..(c + d + 1) |-> IF k <= c THEN f[k] ELSE g[k - c]]
  OBVIOUS
<1>8. /\ at \in [1..(c + d + 1) -> Place]
      /\ \A k \in 1..c : at[k] = f[k]
      /\ \A k \in 1..(d + 1) : at[c + k] = g[k]
  BY <1>4, <1>5, <1>6, <1>7
<1>9. at[1] = x /\ at[c + d + 1] = z /\ at[c + 1] = f[c + 1]
  <2>1. at[c + 1] = g[1] /\ at[c + (d + 1)] = g[d + 1]
    BY <1>6, <1>8
  <2>2. at[1] = x
    <3>1. CASE c = 0
      BY <2>1, <3>1, <1>4, <1>5, <1>6
    <3>2. CASE c # 0
      <4>1. 1 \in 1..c
        BY <3>2
      <4>2. QED
        BY <4>1, <1>4, <1>8
    <3>3. QED
      BY <3>1, <3>2
  <2>3. c + (d + 1) = c + d + 1
    BY <1>6
  <2>4. QED
    BY <2>1, <2>2, <2>3, <1>4, <1>5, <1>6
<1>10. ASSUME NEW k \in 1..c
       PROVE  Follows(s, t[k], at[k], at[k + 1], u)
  <2>1. t[k] = v[k] /\ at[k] = f[k]
    BY <1>2, <1>6, <1>8
  <2>2. at[k + 1] = f[k + 1]
    <3>1. k + 1 \in 1..c \/ k = c
      OBVIOUS
    <3>2. QED
      BY <3>1, <1>8, <1>9
  <2>3. QED
    BY <2>1, <2>2, <1>4, <1>6
<1>11. ASSUME NEW k \in 1..d
       PROVE  Follows(s, t[c + k], at[c + k], at[(c + k) + 1], u)
  <2>1. t[c + k] = w[k] /\ at[c + k] = g[k] /\ at[c + (k + 1)] = g[k + 1]
    BY <1>2, <1>6, <1>8
  <2>2. c + (k + 1) = (c + k) + 1
    BY <1>6
  <2>3. QED
    BY <2>1, <2>2, <1>5, <1>6
<1>12. \A k \in 1..(c + d) : k \in 1..c \/ \E j \in 1..d : k = c + j
  <2>1. ASSUME NEW k \in 1..(c + d), k \notin 1..c
        PROVE  k - c \in 1..d /\ k = c + (k - c)
    BY <2>1, <1>6
  <2>2. QED
    BY <2>1
<1>13. \A k \in 1..Len(t) : Follows(s, t[k], at[k], at[k + 1], u)
  BY <1>2, <1>6, <1>10, <1>11, <1>12
<1>14. Len(t) + 1 = c + d + 1
  BY <1>2, <1>6
<1>15. QED
  BY <1>2, <1>8, <1>9, <1>13, <1>14 DEF Runs

LEMMA RunsStep ==
    ASSUME NEW s, NEW u, NEW w, NEW x, NEW z, Runs(s, w, x, z, u), w # <<>>
    PROVE  \E y \in Place : Follows(s, Head(w), x, y, u) /\ Runs(s, Tail(w), y, z, u)
<1>1. w \in Seq(Seq(Place))
  BY DEF Runs
<1>2. PICK t : t = Tail(w)
  OBVIOUS
<1>3. PICK c \in Nat : Len(w) = c + 1
  BY <1>1
<1>4. /\ t \in Seq(Seq(Place)) /\ Len(t) = c
      /\ \A k \in 1..c : t[k] = w[k + 1]
      /\ Head(w) = w[1]
  BY <1>1, <1>2, <1>3
<1>5. PICK f \in [1..(c + 2) -> Place] :
        /\ f[1] = x /\ f[c + 2] = z
        /\ \A k \in 1..(c + 1) : Follows(s, w[k], f[k], f[k + 1], u)
  <2>1. (c + 1) + 1 = c + 2
    OBVIOUS
  <2>2. QED
    BY <1>3, <2>1 DEF Runs
<1>6. PICK at : at = [k \in 1..(c + 1) |-> f[k + 1]]
  OBVIOUS
<1>7. at \in [1..(c + 1) -> Place] /\ at[1] = f[2] /\ at[c + 1] = z
  <2>1. (c + 1) + 1 = c + 2 /\ 1 + 1 = 2 /\ c + 1 \in 1..(c + 1) /\ 1 \in 1..(c + 1)
    OBVIOUS
  <2>2. QED
    BY <1>5, <1>6, <2>1
<1>8. ASSUME NEW k \in 1..c PROVE Follows(s, t[k], at[k], at[k + 1], u)
  <2>1. t[k] = w[k + 1] /\ at[k] = f[k + 1] /\ at[k + 1] = f[(k + 1) + 1] /\ k + 1 \in 1..(c + 1)
    BY <1>4, <1>6
  <2>2. QED
    BY <2>1, <1>5
<1>9. Runs(s, t, f[2], z, u)
  BY <1>4, <1>7, <1>8 DEF Runs
<1>10. f[2] \in Place /\ Follows(s, Head(w), x, f[2], u)
  <2>1. 1 \in 1..(c + 1) /\ 2 \in 1..(c + 2) /\ 1 + 1 = 2
    OBVIOUS
  <2>2. QED
    BY <2>1, <1>4, <1>5
<1>11. QED
  BY <1>2, <1>9, <1>10

LEMMA RunsOn ==
    ASSUME NEW s \in Seq(Lengths), NEW len \in Lengths, NEW w, NEW x, NEW y,
           NEW u \in BOOLEAN, NEW v \in BOOLEAN, u => v, Runs(s, w, x, y, u)
    PROVE  Runs(Append(s, len), w, x, y, v)
<1>1. PICK r : r = Append(s, len)
  OBVIOUS
<1>2. Len(r) = Len(s) + 1 /\ Len(s) \in Nat /\ \A n \in 1..Len(s) : r[n] = s[n]
  BY <1>1
<1>3. ASSUME NEW p, NEW a, NEW b, Follows(s, p, a, b, u)
      PROVE  Follows(r, p, a, b, v)
  BY <1>2, <1>3 DEF Follows
<1>4. Runs(r, w, x, y, v)
  BY <1>3 DEF Runs
<1>5. QED
  BY <1>1, <1>4

LEMMA TransferRuns ==
    ASSUME NEW s \in Seq(Lengths), NEW n \in 1..Len(s), NEW a \in Nat, NEW d \in Nat \ {0},
           a + d = s[n], NEW bytes, Piece(bytes, n, a, d),
           NEW marked \in BOOLEAN, NEW u, Unended(bytes, marked) => u
    PROVE  Runs(s, Transfer(bytes, marked), <<n, a>>, <<n + 1, 0>>, u)
<1>1. PacketSize \in Nat \ {0} /\ n \in Nat
  BY Sizes
<1>2. PICK q : q = d \div PacketSize
  OBVIOUS
<1>3. PICK ps, p : ps = Packets(bytes) /\ p = LastPacket(bytes)
  OBVIOUS
<1>4. /\ q \in Nat /\ \A k \in 0..q : k * PacketSize \in Nat
      /\ q * PacketSize <= d /\ d < q * PacketSize + PacketSize
      /\ ps \in Seq(Seq(Place)) /\ Len(ps) = q
      /\ \A k \in 1..q : Piece(ps[k], n, a + (k - 1) * PacketSize, PacketSize)
      /\ Piece(p, n, a + q * PacketSize, d - q * PacketSize)
  BY <1>1, <1>2, <1>3, PacketsAre
<1>5. PICK m \in Nat : m = q * PacketSize
  <2>1. q \in 0..q
    BY <1>4
  <2>2. QED
    BY <1>4, <2>1
<1>6. m <= d /\ d < m + PacketSize /\ Piece(p, n, a + m, d - m)
  BY <1>4, <1>5
<1>7. PICK w : w = Transfer(bytes, marked)
  OBVIOUS
<1>8. \/ u /\ d = m /\ w = ps
      \/ w = Append(ps, p)
  <2>1. CASE Unended(bytes, marked)
    <3>1. w = ps /\ p = <<>> /\ u
      BY <1>3, <1>7, <2>1 DEF Transfer, Unended
    <3>2. d - m = 0
      BY <1>6, <3>1 DEF Piece
    <3>3. QED
      BY <1>1, <1>6, <3>1, <3>2
  <2>2. CASE ~Unended(bytes, marked)
    BY <1>3, <1>7, <2>2 DEF Transfer
  <2>3. QED
    BY <2>1, <2>2
<1>9. p \in Seq(Place)
  BY <1>6 DEF Piece
<1>10. PICK c \in Nat : /\ w \in Seq(Seq(Place)) /\ Len(w) = c /\ c >= 1 /\ c <= q + 1
                        /\ \A k \in 1..c : k <= q => w[k] = ps[k]
                        /\ \/ u /\ d = m /\ c = q
                           \/ c = q + 1 /\ w[c] = p
  <2>1. CASE u /\ d = m /\ w = ps
    <3>1. q # 0
      BY <1>1, <1>5, <2>1
    <3>2. QED
      BY <1>4, <2>1, <3>1
  <2>2. CASE w = Append(ps, p)
    <3>1. /\ w \in Seq(Seq(Place)) /\ Len(w) = q + 1 /\ w[q + 1] = p
          /\ \A k \in 1..q : w[k] = ps[k]
      BY <1>4, <1>9, <2>2
    <3>2. q + 1 \in Nat /\ q + 1 >= 1
      BY <1>4
    <3>3. \A k \in 1..(q + 1) : k <= q => w[k] = ps[k]
      BY <1>4, <3>1
    <3>4. QED
      BY <3>1, <3>2, <3>3
  <2>3. QED
    BY <1>8, <2>1, <2>2
<1>11. PICK at : at = [k \in 1..(c + 1) |->
                        IF k = c + 1 THEN <<n + 1, 0>> ELSE <<n, a + (k - 1) * PacketSize>>]
  OBVIOUS
<1>12. \A k \in 1..c : at[k] = <<n, a + (k - 1) * PacketSize>> /\ (k - 1) * PacketSize \in Nat
  <2> SUFFICES ASSUME NEW k \in 1..c
               PROVE  at[k] = <<n, a + (k - 1) * PacketSize>> /\ (k - 1) * PacketSize \in Nat
    OBVIOUS
  <2>1. q \in Nat /\ c \in Nat /\ c <= q + 1
    BY <1>4, <1>10
  <2>2. k \in 1..(c + 1) /\ k # c + 1 /\ k - 1 \in 0..q
    BY <2>1
  <2>3. QED
    BY <1>4, <1>11, <2>2
<1>13. at[c + 1] = <<n + 1, 0>>
  <2>1. c + 1 \in 1..(c + 1)
    BY <1>10
  <2>2. QED
    BY <1>11, <2>1
<1>14. at \in [1..(c + 1) -> Place]
  <2>1. ASSUME NEW k \in 1..(c + 1) PROVE at[k] \in Place
    <3>1. k \in 1..c \/ k = c + 1
      BY <1>10
    <3>2. CASE k \in 1..c
      <4>1. PICK i \in Nat : at[k] = <<n, a + i>>
        BY <1>12, <3>2
      <4>2. QED
        BY <1>1, <4>1 DEF Place
    <3>3. CASE k = c + 1
      <4>1. <<n + 1, 0>> \in Place
        BY <1>1 DEF Place
      <4>2. QED
        BY <1>13, <3>3, <4>1, Zenon
    <3>4. QED
      BY <3>1, <3>2, <3>3
  <2>2. QED
    BY <1>11, <2>1
<1>15. at[1] = <<n, a>>
  <2>1. 1 \in 1..c /\ (1 - 1) * PacketSize = 0
    BY <1>1, <1>10
  <2>2. QED
    BY <1>12, <2>1
<1>16. ASSUME NEW k \in 1..c
       PROVE  Follows(s, w[k], at[k], at[k + 1], u)
  <2>1. PICK i \in Nat : i = (k - 1) * PacketSize /\ at[k] = <<n, a + i>>
    BY <1>12
  <2>2. k \in Nat /\ a + i \in Nat /\ (k - 1) * PacketSize = k * PacketSize - PacketSize
    BY <1>1, <1>10, OneMore
  <2>3. k * PacketSize = i + PacketSize
    <3>1. k * PacketSize \in Nat
      BY <1>1, <2>2, Scaled
    <3>2. QED
      BY <1>1, <2>1, <2>2, <3>1
  <2>4. CASE k < c
    <3>1. k \in 1..q /\ k <= q /\ k + 1 \in 1..c /\ (k + 1) - 1 = k
      <4>1. q \in Nat /\ c \in Nat /\ c <= q + 1
        BY <1>4, <1>10
      <4>2. QED
        BY <2>4, <4>1
    <3>2. Piece(w[k], n, a + i, PacketSize)
      BY <1>4, <1>10, <2>1, <3>1
    <3>3. k * PacketSize <= m
      BY <1>1, <1>4, <1>5, <2>2, <3>1, Scaled
    <3>4. (a + i) + PacketSize <= s[n] /\ (a + i) + PacketSize = a + (i + PacketSize)
      <4>1. PICK l \in Nat : l = i + PacketSize
        BY <1>1
      <4>2. l <= m
        BY <2>3, <3>3, <4>1
      <4>3. QED
        BY <1>1, <1>6, <4>1, <4>2
    <3>5. at[k + 1] = <<n, (a + i) + PacketSize>>
      BY <1>12, <2>3, <3>1, <3>4
    <3>6. PacketSize \in 0..PacketSize
      BY <1>1
    <3>7. QED
      BY <2>1, <2>2, <3>2, <3>4, <3>5, <3>6 DEF Follows
  <2>5. CASE k = c /\ u /\ d = m /\ c = q
    <3>1. Piece(w[k], n, a + i, PacketSize)
      BY <1>4, <1>10, <2>1, <2>5
    <3>2. (a + i) + PacketSize = s[n]
      BY <1>1, <1>5, <2>3, <2>5
    <3>3. PacketSize \in 0..PacketSize /\ (a + i) + PacketSize <= s[n]
      BY <1>1, <3>2
    <3>4. QED
      BY <1>13, <2>1, <2>2, <2>5, <3>1, <3>2, <3>3 DEF Follows
  <2>6. CASE k = c /\ c = q + 1 /\ w[c] = p
    <3>1. i = m
      <4>1. k - 1 = q
        BY <1>4, <2>6
      <4>2. QED
        BY <1>5, <2>1, <4>1
    <3>2. PICK e \in 0..PacketSize : e = d - m /\ e < PacketSize
      BY <1>1, <1>6
    <3>3. Piece(w[k], n, a + i, e)
      BY <1>6, <2>6, <3>1, <3>2
    <3>4. (a + i) + e = s[n] /\ (a + i) + e <= s[n]
      BY <3>1, <3>2
    <3>5. QED
      BY <1>13, <2>1, <2>2, <2>6, <3>2, <3>3, <3>4 DEF Follows
  <2>7. QED
    BY <1>10, <2>4, <2>5, <2>6
<1>17. Runs(s, w, <<n, a>>, <<n + 1, 0>>, u)
  BY <1>10, <1>13, <1>14, <1>15, <1>16 DEF Runs
<1>18. QED
  BY <1>7, <1>17

\* A header that is a transfer of its own.
LEMMA HeaderRuns ==
    ASSUME NEW s \in Seq(Lengths), NEW n \in 1..Len(s), s[n] > HeaderLen,
           NEW bytes, Piece(bytes, n, 0, HeaderLen), NEW marked \in BOOLEAN, NEW u
    PROVE  /\ Runs(s, Transfer(bytes, marked), <<n, 0>>, <<n, HeaderLen>>, u)
           /\ ~Unended(bytes, marked)
<1>1. /\ PacketSize \in Nat \ {0} /\ HeaderLen \in Nat /\ HeaderLen # 0
      /\ HeaderLen < PacketSize
  BY Sizes
<1>2. PICK q : q = HeaderLen \div PacketSize
  OBVIOUS
<1>3. PICK ps, p : ps = Packets(bytes) /\ p = LastPacket(bytes)
  OBVIOUS
<1>4. q = 0 /\ q * PacketSize = 0
  BY <1>1, <1>2
<1>5. /\ ps \in Seq(Seq(Place)) /\ Len(ps) = q
      /\ Piece(p, n, 0 + q * PacketSize, HeaderLen - q * PacketSize)
  <2>1. n \in Nat /\ 0 \in Nat
    OBVIOUS
  <2>2. QED
    BY <1>1, <1>2, <1>3, <2>1, PacketsAre
<1>6. ps = <<>> /\ Piece(p, n, 0, HeaderLen)
  BY <1>1, <1>4, <1>5
<1>7. ~Unended(bytes, marked)
  BY <1>1, <1>3, <1>6 DEF Unended, Piece
<1>8. PICK w : w = Transfer(bytes, marked)
  OBVIOUS
<1>9. w = Append(<<>>, p) /\ p \in Seq(Place)
  BY <1>3, <1>6, <1>7, <1>8 DEF Transfer, Piece
<1>10. w \in Seq(Seq(Place)) /\ Len(w) = 1 /\ w[1] = p
  BY <1>9
<1>11. PICK at : at = [k \in 1..2 |-> IF k = 1 THEN <<n, 0>> ELSE <<n, HeaderLen>>]
  OBVIOUS
<1>12. at \in [1..2 -> Place] /\ at[1] = <<n, 0>> /\ at[2] = <<n, HeaderLen>>
  BY <1>1, <1>11 DEF Place
<1>13. Follows(s, p, <<n, 0>>, <<n, HeaderLen>>, u)
  <2>1. HeaderLen \in 0..PacketSize /\ 0 + HeaderLen <= s[n]
    <3>1. s[n] \in Nat
      BY Sizes
    <3>2. QED
      BY <1>1, <3>1
  <2>2. QED
    BY <1>1, <1>6, <2>1 DEF Follows
<1>14. Runs(s, w, <<n, 0>>, <<n, HeaderLen>>, u)
  <2>1. 1 + 1 = 2 /\ \A k \in 1..1 : k = 1
    OBVIOUS
  <2>2. QED
    BY <1>10, <1>12, <1>13, <2>1 DEF Runs
<1>15. QED
  BY <1>7, <1>8, <1>14

\* What the camera adds to the wire goes on where it ended.
LEMMA SendRuns ==
    ASSUME sent \in Seq(Lengths), unmarked \in BOOLEAN,
           NEW len \in Lengths, NEW split \in BOOLEAN, NEW marked \in BOOLEAN,
           CamSend(len, split, marked),
           NEW x, Runs(sent, wire, x, <<Len(sent) + 1, 0>>, unmarked)
    PROVE  /\ Runs(sent', wire', x, <<Len(sent') + 1, 0>>, unmarked')
           /\ unmarked' \in BOOLEAN /\ (unmarked => unmarked')
<1>1. PICK r, n : r = Append(sent, len) /\ n = Len(sent) + 1
  OBVIOUS
<1>2. r \in Seq(Lengths) /\ Len(r) = n /\ n \in 1..Len(r) /\ n \in Nat /\ r[n] = len
  BY <1>1
<1>3. HeaderLen \in Nat \ {0} /\ len \in Nat \ {0} /\ len >= HeaderLen
  BY Sizes
<1>4. PICK head, rest : /\ head = Bytes(n, 0, IF split THEN HeaderLen ELSE len)
                        /\ rest = Bytes(n, HeaderLen, len - HeaderLen)
  OBVIOUS
<1>5. PICK X, Y : /\ X = Transfer(head, marked)
                  /\ Y = IF split THEN Transfer(rest, marked) ELSE <<>>
  OBVIOUS
<1>6. PICK v \in BOOLEAN :
         v = (unmarked \/ Unended(head, marked) \/ (split /\ Unended(rest, marked)))
  OBVIOUS
<1>7. /\ split => len > HeaderLen
      /\ sent' = r /\ unmarked' = v
      /\ wire' = (wire \o X) \o Y
  BY <1>1, <1>4, <1>5, <1>6 DEF CamSend
<1>8. PICK y : Runs(r, X, <<n, 0>>, y, v) /\ Runs(r, Y, y, <<n + 1, 0>>, v)
  <2>1. CASE split
    <3>1. len > HeaderLen /\ len - HeaderLen \in Nat \ {0} /\ HeaderLen + (len - HeaderLen) = r[n]
      BY <1>2, <1>3, <1>7, <2>1
    <3>2. Piece(head, n, 0, HeaderLen)
      BY <1>2, <1>3, <1>4, <2>1, BytesArePiece
    <3>3. PICK d \in Nat \ {0} : d = len - HeaderLen
      BY <3>1
    <3>4. Piece(rest, n, HeaderLen, d)
      BY <1>2, <1>3, <1>4, <3>3, BytesArePiece
    <3>5. Runs(r, X, <<n, 0>>, <<n, HeaderLen>>, v)
      BY <1>2, <1>3, <1>5, <3>1, <3>2, HeaderRuns
    <3>6. Unended(rest, marked) => v
      BY <1>6, <2>1
    <3>7. HeaderLen + d = r[n] /\ HeaderLen \in Nat
      BY <1>3, <3>1, <3>3
    <3>8. Runs(r, Transfer(rest, marked), <<n, HeaderLen>>, <<n + 1, 0>>, v)
      BY <1>2, <3>4, <3>6, <3>7, TransferRuns
    <3>9. QED
      BY <1>5, <2>1, <3>5, <3>8
  <2>2. CASE ~split
    <3>1. Piece(head, n, 0, len)
      BY <1>2, <1>3, <1>4, <2>2, BytesArePiece
    <3>2. Unended(head, marked) => v
      BY <1>6
    <3>3. 0 + len = r[n]
      BY <1>2, <1>3
    <3>4. Runs(r, X, <<n, 0>>, <<n + 1, 0>>, v)
      BY <1>2, <1>3, <1>5, <3>1, <3>2, <3>3, TransferRuns
    <3>5. <<n + 1, 0>> \in Place
      BY <1>2 DEF Place
    <3>6. Runs(r, Y, <<n + 1, 0>>, <<n + 1, 0>>, v)
      BY <1>5, <2>2, <3>5, RunsNone
    <3>7. QED
      BY <3>4, <3>6
  <2>3. QED
    BY <2>1, <2>2
<1>9. Runs(r, wire, x, <<n, 0>>, v)
  <2>1. unmarked => v
    BY <1>6
  <2>2. QED
    BY <1>1, <2>1, RunsOn
<1>10. PICK W : W = wire \o X
  OBVIOUS
<1>11. Runs(r, W, x, y, v)
  BY <1>8, <1>9, <1>10, RunsJoin
<1>12. Runs(r, wire', x, <<n + 1, 0>>, v)
  <2>1. PICK t : t = wire'
    OBVIOUS
  <2>2. t = W \o Y
    BY <1>7, <1>10, <2>1, Zenon
  <2>3. PICK z : z = <<n + 1, 0>>
    OBVIOUS
  <2>4. Runs(r, Y, y, z, v)
    BY <1>8, <2>3, Zenon
  <2>5. Runs(r, t, x, z, v)
    BY <1>11, <2>2, <2>4, RunsJoin
  <2>6. QED
    BY <2>1, <2>3, <2>5, Zenon
<1>13. QED
  BY <1>2, <1>6, <1>7, <1>12

-----------------------------------------------------------------------------
(***************************************************************************)
(* The state of the reader.                                                *)
(***************************************************************************)

\* The bytes of the containers sent.
Known(s) == (1..Len(s)) \X Nat

\* What the reader has taken off the wire for its current call.
Held == have \o xfer

Typed ==
    /\ sent \in Seq(Lengths) /\ Len(sent) <= MaxSent
    /\ xfer \in Seq(Known(sent)) /\ Len(xfer) < BufSize
    /\ \E c \in Nat : Len(xfer) = c * PacketSize
    /\ pc \in {"idle", "first", "more"}
    /\ pc = "idle" => xfer = <<>>
    /\ have \in Seq(Known(sent))
    /\ need \in Nat
    /\ IF pc = "more" THEN have # <<>> /\ Len(have) < need ELSE have = <<>>
    /\ delivered \in Seq(Seq(Known(sent)))
    /\ outcome \in {"none", "ok", "short header", "threw"}
    /\ torn \in BOOLEAN
    /\ unmarked \in BOOLEAN

\* The four things a packet p can lead to, b being what is held with it: the
\* transfer goes on, or it ends and the call with it, by a short header or a
\* container, or another read follows.
GoesOn(p, b) ==
    /\ Len(p) = PacketSize /\ Len(xfer) + Len(p) # BufSize
    /\ xfer' = xfer \o p /\ Held' = b
    /\ UNCHANGED <<pc, have, need, delivered, outcome>>

ShortRead(b) ==
    /\ pc = "first" /\ Len(b) < HeaderLen
    /\ End("short header") /\ UNCHANGED delivered

Returned(b) ==
    \E len \in 0..Len(b) :
        /\ IF pc = "first" THEN Len(b) >= HeaderLen /\ len \in LengthField(b) ELSE len = need
        /\ Return(b, len)

WentOn(b) ==
    \E len \in Nat :
        /\ IF pc = "first" THEN Len(b) >= HeaderLen /\ len \in LengthField(b) ELSE len = need
        /\ len > Len(b) /\ ReadOn(b, len)

Ends(p, b) ==
    /\ Len(p) < PacketSize \/ Len(xfer) + Len(p) = BufSize
    /\ xfer' = <<>>
    /\ ShortRead(b) \/ Returned(b) \/ WentOn(b)

LEMMA LengthFieldIsNat ==
    ASSUME Typed, NEW b \in Seq(Known(sent)), Len(b) >= HeaderLen
    PROVE  LengthField(b) \subseteq Nat
<1>1. HeaderLen \in Nat \ {0} /\ \A n \in Lengths \cup JunkLengths : n \in Nat
  BY Sizes
<1>2. b[1] \in Known(sent)
  BY <1>1
<1>3. b[1][1] \in 1..Len(sent)
  BY <1>2 DEF Known
<1>4. sent[b[1][1]] \in Lengths
  <2>1. sent \in Seq(Lengths)
    BY DEF Typed
  <2>2. QED
    BY <1>3, <2>1
<1>5. QED
  BY <1>1, <1>4 DEF LengthField

LEMMA PacketOutcome ==
    ASSUME Typed, Packet, NEW p, p = Head(wire), p \in Seq(Known(sent)), Len(p) <= PacketSize,
           NEW b, b = Held \o p
    PROVE  /\ GoesOn(p, b) \/ Ends(p, b)
           /\ b \in Seq(Known(sent)) /\ Len(b) = Len(have) + (Len(xfer) + Len(p))
<1>1. /\ xfer \in Seq(Known(sent)) /\ have \in Seq(Known(sent)) /\ need \in Nat
      /\ Len(xfer) \in Nat /\ Len(have) \in Nat /\ Len(p) \in Nat
      /\ pc = "more" => Len(have) < need
      /\ pc # "more" => have = <<>>
  <2>1. /\ xfer \in Seq(Known(sent)) /\ have \in Seq(Known(sent)) /\ need \in Nat
        /\ pc = "more" => Len(have) < need
        /\ pc # "more" => have = <<>>
    BY DEF Typed
  <2>2. Len(xfer) \in Nat /\ Len(have) \in Nat /\ Len(p) \in Nat
    BY <2>1
  <2>3. QED
    BY <2>1, <2>2
<1>2. PacketSize \in Nat
  BY Sizes
<1>3. PICK r : r = xfer \o p
  OBVIOUS
<1>4. r \in Seq(Known(sent)) /\ Len(r) = Len(xfer) + Len(p)
  BY <1>1, <1>3, Joined, SMT
<1>5. b = have \o r /\ b \in Seq(Known(sent)) /\ Len(b) = Len(have) + Len(r)
  <2>1. PICK K, h, x : K = Known(sent) /\ h = have /\ x = xfer
    OBVIOUS
  <2>2. h \in Seq(K) /\ x \in Seq(K) /\ p \in Seq(K) /\ r \in Seq(K)
    BY <1>1, <1>4, <2>1
  <2>3. PICK u : u = h \o x
    OBVIOUS
  <2>4. b = u \o p /\ r = x \o p
    BY <1>3, <2>1, <2>3, Zenon DEF Held
  <2>5. b = h \o r
    BY ONLY <2>2, <2>3, <2>4, Regrouped, SMT
  <2>6. b \in Seq(K) /\ Len(b) = Len(h) + Len(r)
    BY <2>2, <2>5, ConcatProperties, Zenon
  <2>7. QED
    BY <2>1, <2>5, <2>6, Zenon
<1>6. Len(b) \in Nat
  BY <1>5
<1>7. \/ /\ ~(Len(p) < PacketSize \/ Len(r) = BufSize)
         /\ xfer' = r /\ UNCHANGED <<pc, have, need, delivered, outcome>>
      \/ /\ Len(p) < PacketSize \/ Len(r) = BufSize
         /\ TransferEnds(r)
  BY <1>3 DEF Packet
<1>8. ASSUME ~(Len(p) < PacketSize \/ Len(r) = BufSize),
             xfer' = r, UNCHANGED <<pc, have, need, delivered, outcome>>
      PROVE  GoesOn(p, b)
  <2>1. Held' = have \o r
    BY <1>8 DEF Held
  <2>2. Len(p) = PacketSize /\ Len(xfer) + Len(p) # BufSize
    BY <1>1, <1>2, <1>4, <1>8
  <2>3. QED
    BY <1>3, <1>4, <1>5, <1>6, <1>8, <2>1, <2>2 DEF GoesOn
<1>9. ASSUME Len(p) < PacketSize \/ Len(r) = BufSize, TransferEnds(r)
      PROVE  Ends(p, b)
  <2>1. CASE pc = "first" /\ First(r)
    <3>1. b = r
      <4>1. <<>> \o r = r
        BY <1>4, ConcatEmptySeq, Zenon
      <4>2. have = <<>>
        BY <1>1, <2>1
      <4>3. QED
        BY <1>5, <4>1, <4>2, Zenon
    <3>2. CASE Len(b) < HeaderLen
      <4>1. ShortRead(b)
        BY <2>1, <3>1, <3>2 DEF First, ShortRead
      <4>2. QED
        BY <1>4, <1>9, <4>1 DEF Ends, TransferEnds
    <3>3. CASE ~(Len(b) < HeaderLen)
      <4>1. Len(b) >= HeaderLen
        BY <1>5, <1>6, <3>3, Sizes
      <4>2. LengthField(b) \subseteq Nat
        BY <1>5, <4>1, LengthFieldIsNat
      <4>3. PICK len \in Nat :
               /\ len \in LengthField(b)
               /\ IF len <= Len(b) THEN Return(b, len) ELSE ReadOn(b, len)
        BY <2>1, <3>1, <3>3, <4>2 DEF First
      <4>4. CASE len <= Len(b)
        <5>1. Return(b, len) /\ len \in 0..Len(b)
          BY <1>6, <4>3, <4>4
        <5>2. Returned(b)
          BY <2>1, <4>1, <4>3, <5>1 DEF Returned
        <5>3. QED
          BY <1>4, <1>9, <5>2 DEF Ends, TransferEnds
      <4>5. CASE ~(len <= Len(b))
        <5>1. ReadOn(b, len) /\ len > Len(b)
          BY <1>6, <4>3, <4>5
        <5>2. WentOn(b)
          BY <2>1, <4>1, <4>3, <5>1 DEF WentOn
        <5>3. QED
          BY <1>4, <1>9, <5>2 DEF Ends, TransferEnds
      <4>6. QED
        BY <4>4, <4>5
    <3>4. QED
      BY <3>2, <3>3
  <2>2. CASE pc = "more" /\ More(r)
    <3>1. \/ Len(b) >= need /\ Return(b, need)
          \/ need > Len(b) /\ ReadOn(b, need)
      <4>1. Len(have) + Len(r) = Len(b)
        BY <1>5
      <4>2. IF Len(b) >= need THEN Return(b, need) ELSE ReadOn(b, need)
        BY <1>5, <2>2, <4>1, Zenon DEF More
      <4>3. Len(b) >= need \/ need > Len(b)
        BY <1>1, <1>6
      <4>4. QED
        BY <1>1, <1>6, <4>2, <4>3
    <3>2. Returned(b) \/ WentOn(b)
      BY <1>1, <1>6, <2>2, <3>1 DEF Returned, WentOn
    <3>3. QED
      BY <1>4, <1>9, <3>2 DEF Ends, TransferEnds
  <2>3. QED
    BY <1>9, <2>1, <2>2 DEF TransferEnds
<1>10. QED
  BY <1>4, <1>5, <1>7, <1>8, <1>9

LEMMA FollowsKnown ==
    ASSUME NEW s \in Seq(Lengths), NEW p, NEW x, NEW y, NEW u, Follows(s, p, x, y, u)
    PROVE  p \in Seq(Known(s)) /\ Len(p) <= PacketSize
<1>1. PICK n \in 1..Len(s), i \in Nat, e \in 0..PacketSize : Piece(p, n, i, e)
  BY DEF Follows
<1>2. PacketSize \in Nat /\ e \in Nat /\ e <= PacketSize
  BY Sizes
<1>3. /\ p \in Seq(Place) /\ Len(p) = e
      /\ \A k \in 1..e : p[k] = <<n, i + k>>
  BY <1>1 DEF Piece
<1>4. ASSUME NEW k \in 1..e PROVE p[k] \in Known(s)
  <2>1. p[k] = <<n, i + k>>
    BY <1>3
  <2>2. i + k \in Nat
    BY <1>2
  <2>3. QED
    BY <2>1, <2>2 DEF Known
<1>5. p \in [1..e -> Known(s)]
  BY <1>3, <1>4
<1>6. QED
  BY <1>2, <1>3, <1>5, Listed

LEMMA RunsTyped ==
    ASSUME NEW s \in Seq(Lengths), Len(s) <= MaxSent,
           NEW w, NEW x, NEW y, NEW u, Runs(s, w, x, y, u)
    PROVE  w \in Seq(Seq(Byte)) /\ \A k \in DOMAIN w : Len(w[k]) <= PacketSize
<1>1. w \in Seq(Seq(Place)) /\ Len(w) \in Nat /\ DOMAIN w = 1..Len(w)
  BY DEF Runs
<1>2. \A k \in 1..Len(w) : \E a, b : Follows(s, w[k], a, b, u)
  BY DEF Runs
<1>3. \A k \in 1..Len(w) : w[k] \in Seq(Known(s)) /\ Len(w[k]) <= PacketSize
  BY <1>2, FollowsKnown
<1>4. Known(s) \subseteq Byte
  BY Sizes DEF Known, Byte
<1>5. \A k \in 1..Len(w) : w[k] \in Seq(Byte)
  BY <1>3, <1>4
<1>6. w \in [1..Len(w) -> Seq(Byte)]
  BY <1>1, <1>5
<1>7. QED
  BY <1>1, <1>3, <1>6, Listed

LEMMA InitTyped == Init => Typed
<1> SUFFICES ASSUME Init PROVE Typed
  OBVIOUS
<1>1. MaxSent \in Nat /\ BufSize \in Nat \ {0} /\ PacketSize \in Nat
  BY Sizes
<1>2. \E c \in Nat : Len(<<>>) = c * PacketSize
  <2>1. Len(<<>>) = 0 * PacketSize /\ 0 \in Nat
    BY <1>1
  <2>2. QED
    BY <2>1
<1>3. Len(<<>>) < BufSize /\ Len(<<>>) <= MaxSent
  BY <1>1
<1>4. sent = <<>> /\ xfer = <<>> /\ have = <<>> /\ delivered = <<>>
  BY DEF Init
<1>5. sent \in Seq(Lengths) /\ Len(sent) <= MaxSent /\ Len(xfer) < BufSize
  BY <1>3, <1>4
<1>6. /\ xfer \in Seq(Known(sent)) /\ have \in Seq(Known(sent))
      /\ delivered \in Seq(Seq(Known(sent)))
  BY <1>4
<1>7. \E c \in Nat : Len(xfer) = c * PacketSize
  BY <1>2, <1>4, Zenon
<1>8. QED
  BY <1>5, <1>6, <1>7 DEF Init, Typed

LEMMA CamSendTyped ==
    ASSUME Typed, NEW len \in Lengths, NEW split \in BOOLEAN, NEW marked \in BOOLEAN,
           CamSend(len, split, marked)
    PROVE  /\ Typed' /\ Len(sent') = Len(sent) + 1 /\ Len(sent) \in Nat
           /\ \A n \in 1..Len(sent) : sent'[n] = sent[n]
<1>1. sent \in Seq(Lengths) /\ unmarked \in BOOLEAN
  BY DEF Typed
<1>2. sent' = Append(sent, len) /\ Len(sent) + 1 <= MaxSent
  BY DEF CamSend
<1>3. unmarked' \in BOOLEAN
  BY <1>1 DEF CamSend, Unended
<1>4. PICK t : t = sent'
  OBVIOUS
<1>5. /\ t \in Seq(Lengths) /\ Len(t) = Len(sent) + 1 /\ Len(sent) \in Nat /\ Len(t) <= MaxSent
      /\ \A n \in 1..Len(sent) : t[n] = sent[n]
  BY <1>1, <1>2, <1>4
<1>6. Seq(Known(sent)) \subseteq Seq(Known(t))
  BY <1>5 DEF Known
<1>7. Seq(Seq(Known(sent))) \subseteq Seq(Seq(Known(t)))
  BY <1>6
<1>8. UNCHANGED <<xfer, pc, have, need, delivered, outcome, torn>>
  BY DEF CamSend
<1>9. /\ xfer' \in Seq(Known(t)) /\ have' \in Seq(Known(t)) /\ delivered' \in Seq(Seq(Known(t)))
  BY <1>6, <1>7, <1>8 DEF Typed
<1>10. sent' \in Seq(Lengths) /\ Len(sent') <= MaxSent
  BY <1>4, <1>5
<1>11. QED
  BY <1>3, <1>4, <1>5, <1>8, <1>9, <1>10 DEF Typed

LEMMA CallTyped == Typed /\ Call => Typed'
  BY DEF Typed, Call

LEMMA ReadThrowsTyped == Typed /\ ReadThrows => Typed'
<1> SUFFICES ASSUME Typed, ReadThrows PROVE Typed'
  OBVIOUS
<1>1. BufSize \in Nat \ {0} /\ PacketSize \in Nat
  BY Sizes
<1>2. Len(<<>>) < BufSize /\ \E c \in Nat : Len(<<>>) = c * PacketSize
  <2>1. Len(<<>>) = 0 * PacketSize /\ 0 \in Nat /\ Len(<<>>) < BufSize
    BY <1>1
  <2>2. QED
    BY <2>1
<1>3. /\ pc' = "idle" /\ outcome' = "threw" /\ have' = <<>> /\ need' = 0 /\ xfer' = <<>>
      /\ torn' \in BOOLEAN /\ UNCHANGED <<sent, delivered, unmarked>>
  BY DEF ReadThrows, End, Typed
<1>4. \E c \in Nat : Len(xfer') = c * PacketSize
  BY <1>2, <1>3, Zenon
<1>5. Len(xfer') < BufSize /\ xfer' \in Seq(Known(sent')) /\ have' \in Seq(Known(sent'))
  BY <1>2, <1>3
<1>6. QED
  BY <1>3, <1>4, <1>5 DEF Typed

LEMMA UnchangedTyped == Typed /\ UNCHANGED vars => Typed'
  BY DEF Typed, vars

LEMMA PacketTyped ==
    ASSUME Typed, Packet, NEW p, p \in Seq(Known(sent)), Len(p) <= PacketSize,
           NEW b, b \in Seq(Known(sent)), Len(b) = Len(have) + (Len(xfer) + Len(p)),
           GoesOn(p, b) \/ Ends(p, b)
    PROVE  Typed'
<1>1. UNCHANGED <<sent, torn, unmarked>>
  BY DEF Packet
<1>2. BufSize \in Nat \ {0} /\ PacketSize \in Nat \ {0} /\ HeaderLen \in Nat \ {0}
  BY Sizes
<1>3. /\ xfer \in Seq(Known(sent)) /\ Len(xfer) < BufSize /\ delivered \in Seq(Seq(Known(sent)))
      /\ have \in Seq(Known(sent)) /\ need \in Nat /\ outcome \in {"none", "ok", "short header", "threw"}
  BY DEF Typed
<1>4. Len(xfer) \in Nat /\ Len(have) \in Nat /\ Len(p) \in Nat /\ Len(b) \in Nat
  <2>1. xfer \in Seq(Known(sent)) /\ have \in Seq(Known(sent))
    BY <1>3
  <2>2. QED
    BY <2>1
<1>5. CASE GoesOn(p, b)
  <2>1. /\ Len(p) = PacketSize /\ Len(xfer) + Len(p) # BufSize /\ xfer' = xfer \o p
        /\ UNCHANGED <<pc, have, need, delivered, outcome>>
    BY <1>5 DEF GoesOn
  <2>2. pc # "idle"
    BY DEF Packet
  <2>3. PICK r : r = xfer'
    OBVIOUS
  <2>4. r \in Seq(Known(sent)) /\ Len(r) = Len(xfer) + Len(p)
    <3>1. xfer \in Seq(Known(sent)) /\ p \in Seq(Known(sent)) /\ r = xfer \o p
      BY <1>3, <2>1, <2>3
    <3>2. QED
      BY ONLY <3>1, Joined, SMT
  <2>5. PICK c \in Nat : Len(xfer) = c * PacketSize
    BY DEF Typed
  <2>6. PICK d \in Nat : BufSize = d * PacketSize
    BY Sizes
  <2>7. Len(r) = (c + 1) * PacketSize /\ c + 1 \in Nat
    BY <1>2, <2>1, <2>4, <2>5, OneMore
  <2>8. c < d
    <3>1. d <= c => d * PacketSize <= c * PacketSize
      BY <1>2, Scaled
    <3>2. ~(d <= c)
      <4>1. c * PacketSize \in Nat /\ c * PacketSize < d * PacketSize /\ d * PacketSize \in Nat
        BY <1>2, <1>3, <1>4, <2>5, <2>6
      <4>2. QED
        BY <3>1, <4>1
    <3>3. QED
      BY <3>2
  <2>9. Len(r) < BufSize
    <3>1. c + 1 <= d /\ c + 1 \in Nat
      BY <2>8
    <3>2. (c + 1) * PacketSize <= d * PacketSize
      BY <1>2, <3>1, Scaled
    <3>3. Len(r) <= BufSize
      BY <2>6, <2>7, <3>2
    <3>4. Len(r) # BufSize /\ Len(r) \in Nat
      BY <1>4, <2>1, <2>4
    <3>5. QED
      BY <1>2, <3>3, <3>4
  <2>10. \E e \in Nat : Len(xfer') = e * PacketSize
    BY <2>3, <2>7
  <2>11. xfer' \in Seq(Known(sent)) /\ Len(xfer') < BufSize
    BY <2>3, <2>4, <2>9
  <2>12. QED
    BY <1>1, <2>1, <2>2, <2>10, <2>11 DEF Typed
<1>6. CASE Ends(p, b)
  <2>1. xfer' = <<>> /\ (ShortRead(b) \/ Returned(b) \/ WentOn(b))
    BY <1>6 DEF Ends
  <2>2. Len(<<>>) = 0 * PacketSize /\ 0 \in Nat /\ Len(<<>>) < BufSize
    BY <1>2
  <2>3. /\ xfer' \in Seq(Known(sent')) /\ Len(xfer') < BufSize
        /\ \E c \in Nat : Len(xfer') = c * PacketSize
    BY <2>1, <2>2
  <2>4. CASE ShortRead(b)
    <3>1. pc' = "idle" /\ outcome' = "short header" /\ have' = <<>> /\ need' = 0 /\ UNCHANGED delivered
      BY <2>4 DEF ShortRead, End
    <3>2. QED
      BY <1>1, <1>3, <2>1, <2>3, <3>1 DEF Typed
  <2>5. CASE Returned(b)
    <3>1. PICK len \in 0..Len(b) :
             /\ pc' = "idle" /\ outcome' = "ok" /\ have' = <<>> /\ need' = 0
             /\ delivered' = Append(delivered, SubSeq(b, 1, len))
      BY <2>5 DEF Returned, Return, End
    <3>2. PICK r : r = SubSeq(b, 1, len)
      OBVIOUS
    <3>3. r \in Seq(Known(sent))
      BY <3>2
    <3>4. delivered' \in Seq(Seq(Known(sent)))
      <4>1. delivered \in Seq(Seq(Known(sent))) /\ delivered' = Append(delivered, r)
        BY <1>3, <3>1, <3>2
      <4>2. QED
        BY <3>3, <4>1
    <3>5. QED
      BY <1>1, <1>3, <2>1, <2>3, <3>1, <3>4 DEF Typed
  <2>6. CASE WentOn(b)
    <3>1. PICK len \in Nat :
             /\ len > Len(b) /\ (pc = "first" => Len(b) >= HeaderLen)
             /\ pc' = "more" /\ have' = b /\ need' = len /\ UNCHANGED <<delivered, outcome>>
      BY <2>6 DEF WentOn, ReadOn
    <3>2. Len(b) # 0
      <4>1. CASE pc = "first"
        BY <1>2, <1>4, <3>1, <4>1
      <4>2. CASE pc = "more"
        <5>1. have # <<>>
          BY <4>2 DEF Typed
        <5>2. Len(have) # 0
          <6>1. have \in Seq(Known(sent))
            BY <1>3
          <6>2. QED
            BY <5>1, <6>1
        <5>3. QED
          BY <1>4, <5>2
      <4>3. pc \in {"first", "more"}
        BY DEF Typed, Packet
      <4>4. QED
        BY <4>1, <4>2, <4>3
    <3>3. have' # <<>> /\ Len(have') < need'
      BY <1>4, <3>1, <3>2
    <3>4. QED
      BY <1>1, <1>3, <2>1, <2>3, <3>1, <3>3 DEF Typed
  <2>7. QED
    BY <2>1, <2>4, <2>5, <2>6
<1>7. QED
  BY <1>5, <1>6

-----------------------------------------------------------------------------
(***************************************************************************)
(* NeverBackwards.                                                         *)
(***************************************************************************)

\* Place or byte a is not after b.
AtMost(a, b) == a = b \/ Before(a, b)

LEMMA Order ==
    \A a, b, c \in Place :
        /\ Before(a, b) /\ Before(b, c) => Before(a, c)
        /\ Before(a, b) /\ AtMost(b, c) => Before(a, c)
        /\ AtMost(a, b) /\ Before(b, c) => Before(a, c)
        /\ AtMost(a, b) /\ AtMost(b, c) => AtMost(a, c)
        /\ AtMost(a, a)
<1>1. \A a, b, c \in Place : Before(a, b) /\ Before(b, c) => Before(a, c)
  BY DEF Before, Place
<1>2. QED
  BY <1>1 DEF AtMost

\* The bytes of s are in their order, behind place z and not behind x.
Slice(s, z, x) ==
    /\ s \in Seq(Place) /\ z \in Place /\ x \in Place
    /\ AtMost(z, x)
    /\ \A k \in 1..Len(s) : Before(z, s[k]) /\ AtMost(s[k], x)
    /\ \A j, k \in 1..Len(s) : j < k => Before(s[j], s[k])

\* So are those of the sequences d, up to place z.
Past(d, z) ==
    /\ d \in Seq(Seq(Place)) /\ z \in Place
    /\ \A m \in 1..Len(d) : \A j \in 1..Len(d[m]) : AtMost(d[m][j], z)
    /\ \A m, n \in 1..Len(d) :
          \A j \in 1..Len(d[m]), k \in 1..Len(d[n]) :
              m < n \/ (m = n /\ j < k) => Before(d[m][j], d[n][k])

LEMMA SliceNone == \A x \in Place : Slice(<<>>, x, x)
  BY Order DEF Slice

LEMMA Near ==
    ASSUME NEW n \in Nat, NEW a \in Nat, NEW b \in Nat
    PROVE  /\ a <= b => AtMost(<<n, a>>, <<n, b>>)
           /\ AtMost(<<n, a>>, <<n + 1, b>>)
<1>1. a <= b => a = b \/ a < b
  OBVIOUS
<1>2. n < n + 1
  OBVIOUS
<1>3. QED
  BY <1>1, <1>2 DEF AtMost, Before

LEMMA SliceFollows ==
    ASSUME NEW s \in Seq(Lengths), NEW p, NEW x, NEW y, NEW u, Follows(s, p, x, y, u)
    PROVE  Slice(p, x, y)
<1>1. PICK n \in 1..Len(s), i \in Nat, e \in 0..PacketSize :
        /\ x = <<n, i>>
        /\ Piece(p, n, i, e)
        /\ \/ y = <<n, i + e>>
           \/ y = <<n + 1, 0>>
           \/ i = 0 /\ y = <<n, e>>
  BY DEF Follows
<1>2. n \in Nat /\ e \in Nat
  BY Sizes
<1>3. p \in Seq(Place) /\ Len(p) = e /\ \A k \in 1..e : p[k] = <<n, i + k>>
  BY <1>1 DEF Piece
<1>4. x \in Place /\ y \in Place /\ AtMost(x, y)
  BY <1>1, <1>2 DEF Place, AtMost, Before
<1>5. ASSUME NEW k \in 1..e
      PROVE  Before(x, p[k]) /\ AtMost(p[k], y)
  <2>1. p[k] = <<n, i + k>> /\ i < i + k /\ i + k <= i + e /\ i + k \in Nat /\ i + e \in Nat
    BY <1>2, <1>3
  <2>2. y = <<n, i + e>> \/ y = <<n + 1, 0>>
    BY <1>1, <1>2
  <2>3. Before(x, p[k])
    BY <1>1, <2>1 DEF Before
  <2>4. PICK c, d \in Nat : c = i + k /\ d = i + e /\ c <= d
    BY <2>1
  <2>5. p[k] = <<n, c>> /\ AtMost(<<n, c>>, <<n, d>>) /\ AtMost(<<n, c>>, <<n + 1, 0>>)
    BY <1>2, <2>4, <2>1, Near
  <2>6. CASE y = <<n, i + e>>
    BY <2>3, <2>4, <2>5, <2>6, Zenon
  <2>7. CASE y = <<n + 1, 0>>
    BY <2>3, <2>5, <2>7, Zenon
  <2>8. QED
    BY <2>2, <2>3, <2>6, <2>7
<1>6. ASSUME NEW j \in 1..e, NEW k \in 1..e, j < k
      PROVE  Before(p[j], p[k])
  BY <1>2, <1>3, <1>6 DEF Before
<1>7. QED
  BY <1>3, <1>4, <1>5, <1>6 DEF Slice

LEMMA SliceJoin ==
    ASSUME NEW s, NEW t, NEW z, NEW x, NEW y, NEW b,
           Slice(s, z, x), Slice(t, x, y), b = s \o t
    PROVE  Slice(b, z, y)
<1>1. PICK c, d \in Nat : c = Len(s) /\ d = Len(t)
  BY DEF Slice
<1>2. /\ s \in Seq(Place) /\ t \in Seq(Place)
      /\ z \in Place /\ x \in Place /\ y \in Place /\ AtMost(z, x) /\ AtMost(x, y)
      /\ \A k \in 1..c : s[k] \in Place /\ Before(z, s[k]) /\ AtMost(s[k], x)
      /\ \A j, k \in 1..c : j < k => Before(s[j], s[k])
      /\ \A k \in 1..d : t[k] \in Place /\ Before(x, t[k]) /\ AtMost(t[k], y)
      /\ \A j, k \in 1..d : j < k => Before(t[j], t[k])
  BY <1>1 DEF Slice
<1>3. /\ b \in Seq(Place) /\ Len(b) = c + d
      /\ \A k \in 1..c : b[k] = s[k]
      /\ \A k \in 1..d : b[c + k] = t[k]
  BY <1>1, <1>2, Joined, SMT
<1>4. \A k \in 1..(c + d) : k \in 1..c \/ \E j \in 1..d : k = c + j
  <2>1. ASSUME NEW k \in 1..(c + d), k \notin 1..c
        PROVE  k - c \in 1..d /\ k = c + (k - c)
    BY <2>1
  <2>2. QED
    BY <2>1
<1>5. AtMost(z, y)
  BY <1>2, Order
<1>6. ASSUME NEW k \in 1..(c + d)
      PROVE  Before(z, b[k]) /\ AtMost(b[k], y)
  <2>1. CASE k \in 1..c
    BY <1>2, <1>3, <2>1, Order
  <2>2. CASE k \notin 1..c
    <3>1. PICK j \in 1..d : k = c + j
      BY <1>4, <2>2
    <3>2. QED
      BY <1>2, <1>3, <3>1, Order
  <2>3. QED
    BY <2>1, <2>2
<1>7. ASSUME NEW j \in 1..(c + d), NEW k \in 1..(c + d), j < k
      PROVE  Before(b[j], b[k])
  <2>1. CASE k \in 1..c
    <3>1. j \in 1..c
      BY <1>7, <2>1
    <3>2. QED
      BY <1>2, <1>3, <1>7, <2>1, <3>1
  <2>2. CASE k \notin 1..c
    <3>1. PICK m \in 1..d : k = c + m
      BY <1>4, <2>2
    <3>2. b[k] = t[m]
      BY <1>3, <3>1
    <3>3. CASE j \in 1..c
      BY <1>2, <1>3, <3>2, <3>3, Order
    <3>4. CASE j \notin 1..c
      <4>1. PICK l \in 1..d : j = c + l
        BY <1>4, <3>4
      <4>2. b[j] = t[l] /\ l < m
        <5>1. b[j] = t[l]
          BY <1>3, <4>1
        <5>2. c + l < c + m
          BY <1>7, <3>1, <4>1
        <5>3. QED
          BY <5>1, <5>2
      <4>3. QED
        BY <1>2, <3>2, <4>2
    <3>5. QED
      BY <3>3, <3>4
  <2>3. QED
    BY <2>1, <2>2
<1>8. QED
  BY <1>2, <1>3, <1>5, <1>6, <1>7 DEF Slice

LEMMA SlicePrefix ==
    ASSUME NEW s, NEW z, NEW x, Slice(s, z, x), NEW len \in 0..Len(s)
    PROVE  Slice(SubSeq(s, 1, len), z, x)
<1>1. PICK t : t = SubSeq(s, 0 + 1, len)
  OBVIOUS
<1>2. s \in Seq(Place) /\ len \in Nat /\ 0 <= len /\ len <= Len(s) /\ 0 + 1 = 1 /\ len - 0 = len
  BY DEF Slice
<1>3. t \in Seq(Place) /\ Len(t) = len /\ \A k \in 1..len : t[k] = s[k]
  <2>1. t \in Seq(Place) /\ Len(t) = len - 0 /\ \A k \in 1..(len - 0) : t[k] = s[0 + k]
    BY <1>1, <1>2, Cut
  <2>2. QED
    BY <1>2, <2>1
<1>4. 1..len \subseteq 1..Len(s)
  BY <1>2
<1>5. Slice(t, z, x)
  BY <1>3, <1>4 DEF Slice
<1>6. QED
  BY <1>1, <1>2, <1>5

LEMMA PastLater ==
    ASSUME NEW d, NEW z, NEW x \in Place, Past(d, z), AtMost(z, x)
    PROVE  Past(d, x)
<1>1. d \in Seq(Seq(Place)) /\ z \in Place
  BY DEF Past
<1>2. ASSUME NEW m \in 1..Len(d), NEW j \in 1..Len(d[m])
      PROVE  AtMost(d[m][j], x)
  <2>1. d[m] \in Seq(Place)
    BY <1>1
  <2>2. d[m][j] \in Place
    BY <2>1
  <2>3. QED
    BY <1>1, <2>2, Order DEF Past
<1>3. QED
  BY <1>2 DEF Past

LEMMA PastMore ==
    ASSUME NEW d, NEW z, NEW x, NEW t, Past(d, z), Slice(t, z, x)
    PROVE  Past(Append(d, t), x)
<1>1. PICK r : r = Append(d, t)
  OBVIOUS
<1>2. PICK c \in Nat : c = Len(d)
  BY DEF Past
<1>3. /\ d \in Seq(Seq(Place)) /\ z \in Place /\ x \in Place /\ t \in Seq(Place) /\ AtMost(z, x)
      /\ \A m \in 1..c : \A j \in 1..Len(d[m]) : AtMost(d[m][j], z)
      /\ \A m, n \in 1..c :
            \A j \in 1..Len(d[m]), k \in 1..Len(d[n]) :
                m < n \/ (m = n /\ j < k) => Before(d[m][j], d[n][k])
      /\ \A k \in 1..Len(t) : Before(z, t[k]) /\ AtMost(t[k], x)
      /\ \A j, k \in 1..Len(t) : j < k => Before(t[j], t[k])
  BY <1>2 DEF Past, Slice
<1>4. /\ r \in Seq(Seq(Place)) /\ Len(r) = c + 1 /\ r[c + 1] = t
      /\ \A m \in 1..c : r[m] = d[m]
  BY <1>1, <1>2, <1>3
<1>5. \A m \in 1..(c + 1) : m \in 1..c \/ m = c + 1
  OBVIOUS
<1>6. \A m \in 1..c : \A j \in 1..Len(d[m]) : d[m][j] \in Place
  <2>1. \A m \in 1..c : d[m] \in Seq(Place)
    BY <1>2, <1>3
  <2>2. QED
    BY <2>1
<1>7. \A k \in 1..Len(t) : t[k] \in Place
  BY <1>3
<1>8. ASSUME NEW m \in 1..(c + 1), NEW j \in 1..Len(r[m])
      PROVE  AtMost(r[m][j], x)
  <2>1. CASE m \in 1..c
    BY <1>3, <1>4, <1>6, <2>1, Order
  <2>2. CASE m = c + 1
    BY <1>3, <1>4, <2>2
  <2>3. QED
    BY <1>5, <2>1, <2>2
<1>9. ASSUME NEW m \in 1..(c + 1), NEW n \in 1..(c + 1),
             NEW j \in 1..Len(r[m]), NEW k \in 1..Len(r[n]), m < n \/ (m = n /\ j < k)
      PROVE  Before(r[m][j], r[n][k])
  <2>1. CASE n \in 1..c
    <3>1. m \in 1..c
      BY <1>9, <2>1
    <3>2. QED
      BY <1>3, <1>4, <1>9, <2>1, <3>1
  <2>2. CASE n = c + 1 /\ m \in 1..c
    <3>1. AtMost(d[m][j], z) /\ d[m][j] \in Place /\ r[m][j] = d[m][j]
      BY <1>3, <1>4, <1>6, <2>2
    <3>2. Before(z, t[k]) /\ t[k] \in Place /\ r[n][k] = t[k]
      BY <1>3, <1>4, <1>7, <2>2
    <3>3. QED
      BY <1>3, <3>1, <3>2, Order
  <2>3. CASE n = c + 1 /\ m = c + 1
    <3>1. j < k
      BY <1>9, <2>3
    <3>2. QED
      BY <1>3, <1>4, <2>3, <3>1
  <2>4. QED
    BY <1>5, <2>1, <2>2, <2>3
<1>10. QED
  BY <1>1, <1>3, <1>4, <1>8, <1>9 DEF Past

\* What is held is in order, between what was returned and what is on the wire.
Ordered ==
    \E x, z \in Place :
        /\ Runs(sent, wire, x, <<Len(sent) + 1, 0>>, unmarked)
        /\ Slice(Held, z, x)
        /\ Past(delivered, z)

LEMMA InitOrdered == Init => Ordered
<1> SUFFICES ASSUME Init PROVE Ordered
  OBVIOUS
<1>1. <<1, 0>> \in Place /\ Len(<<>>) + 1 = 1
  BY DEF Place
<1>2. sent = <<>> /\ wire = <<>> /\ delivered = <<>> /\ Held = <<>>
  BY DEF Init, Held
<1>3. PICK x : x = <<1, 0>>
  OBVIOUS
<1>4. x = <<Len(sent) + 1, 0>>
  BY <1>1, <1>2, <1>3
<1>5. Runs(sent, wire, x, x, unmarked) /\ Slice(Held, x, x)
  BY <1>1, <1>2, <1>3, RunsNone, SliceNone
<1>6. Past(delivered, x)
  BY <1>1, <1>2, <1>3 DEF Past
<1>7. QED
  BY <1>1, <1>3, <1>4, <1>5, <1>6 DEF Ordered

LEMMA PacketOrdered ==
    ASSUME Typed, Ordered, Packet
    PROVE  Typed' /\ Ordered'
<1>1. PICK x \in Place, z \in Place :
        /\ Runs(sent, wire, x, <<Len(sent) + 1, 0>>, unmarked)
        /\ Slice(Held, z, x)
        /\ Past(delivered, z)
  BY DEF Ordered
<1>2. wire # <<>> /\ wire' = Tail(wire) /\ UNCHANGED <<sent, torn, unmarked>>
  BY DEF Packet
<1>3. PICK p, w, y : /\ p = Head(wire) /\ w = Tail(wire) /\ y \in Place
                     /\ Follows(sent, p, x, y, unmarked)
                     /\ Runs(sent, w, y, <<Len(sent) + 1, 0>>, unmarked)
  <2>1. PICK e : e = <<Len(sent) + 1, 0>>
    OBVIOUS
  <2>2. Runs(sent, wire, x, e, unmarked)
    BY <1>1, <2>1
  <2>3. \E y \in Place : /\ Follows(sent, Head(wire), x, y, unmarked)
                         /\ Runs(sent, Tail(wire), y, e, unmarked)
    BY <1>2, <2>2, RunsStep
  <2>4. QED
    BY <2>1, <2>3
<1>4. sent \in Seq(Lengths)
  BY DEF Typed
<1>5. p \in Seq(Known(sent)) /\ Len(p) <= PacketSize /\ Slice(p, x, y)
  BY <1>3, <1>4, FollowsKnown, SliceFollows
<1>6. PICK b : b = Held \o p
  OBVIOUS
<1>7. /\ GoesOn(p, b) \/ Ends(p, b)
      /\ b \in Seq(Known(sent)) /\ Len(b) = Len(have) + (Len(xfer) + Len(p))
  BY <1>3, <1>5, <1>6, PacketOutcome
<1>8. Typed'
  BY <1>5, <1>7, PacketTyped
<1>9. Slice(b, z, y)
  BY <1>1, <1>5, <1>6, SliceJoin
<1>10. Runs(sent', wire', y, <<Len(sent') + 1, 0>>, unmarked')
  BY <1>2, <1>3
<1>11. AtMost(z, y) /\ Past(delivered, y) /\ Slice(<<>>, y, y)
  BY <1>1, <1>3, <1>9, PastLater, SliceNone DEF Slice
<1>12. CASE GoesOn(p, b)
  <2>1. Held' = b /\ delivered' = delivered
    BY <1>12 DEF GoesOn
  <2>2. QED
    BY <1>1, <1>3, <1>8, <1>9, <1>10, <2>1 DEF Ordered
<1>13. CASE Ends(p, b)
  <2>1. xfer' = <<>>
    BY <1>13 DEF Ends
  <2>2. CASE ShortRead(b)
    <3>1. have' = <<>> /\ delivered' = delivered
      BY <2>2 DEF ShortRead, End
    <3>2. Held' = <<>>
      BY <2>1, <3>1 DEF Held
    <3>3. QED
      BY <1>3, <1>8, <1>10, <1>11, <3>1, <3>2 DEF Ordered
  <2>3. CASE Returned(b)
    <3>1. PICK len \in 0..Len(b) : Return(b, len)
      BY <2>3 DEF Returned
    <3>2. PICK t : t = SubSeq(b, 1, len)
      OBVIOUS
    <3>3. delivered' = Append(delivered, t) /\ have' = <<>>
      BY <3>1, <3>2 DEF Return, End
    <3>4. Held' = <<>>
      BY <2>1, <3>3 DEF Held
    <3>5. Slice(t, z, y)
      BY <1>9, <3>2, SlicePrefix
    <3>6. Past(delivered', y)
      BY <1>1, <3>3, <3>5, PastMore
    <3>7. QED
      BY <1>3, <1>8, <1>10, <1>11, <3>4, <3>6 DEF Ordered
  <2>4. CASE WentOn(b)
    <3>1. have' = b /\ delivered' = delivered
      BY <2>4 DEF WentOn, ReadOn
    <3>2. Held' = b
      BY <1>7, <2>1, <3>1, ConcatEmptySeq DEF Held
    <3>3. QED
      BY <1>1, <1>3, <1>8, <1>9, <1>10, <3>1, <3>2 DEF Ordered
  <2>5. QED
    BY <1>13, <2>2, <2>3, <2>4 DEF Ends
<1>14. QED
  BY <1>7, <1>12, <1>13

LEMMA NextOrdered == Typed /\ Ordered /\ [Next]_vars => Typed' /\ Ordered'
<1> SUFFICES ASSUME Typed, Ordered, [Next]_vars PROVE Typed' /\ Ordered'
  OBVIOUS
<1>1. PICK x \in Place, z \in Place :
        /\ Runs(sent, wire, x, <<Len(sent) + 1, 0>>, unmarked)
        /\ Slice(Held, z, x)
        /\ Past(delivered, z)
  BY DEF Ordered
<1>2. ASSUME NEW len \in Lengths, NEW split \in BOOLEAN, NEW marked \in BOOLEAN,
             CamSend(len, split, marked)
      PROVE  Typed' /\ Ordered'
  <2>1. sent \in Seq(Lengths) /\ unmarked \in BOOLEAN
    BY DEF Typed
  <2>2. Runs(sent', wire', x, <<Len(sent') + 1, 0>>, unmarked')
    BY <1>1, <1>2, <2>1, SendRuns
  <2>3. Held' = Held /\ delivered' = delivered
    BY <1>2 DEF CamSend, Held
  <2>4. Typed'
    BY <1>2, CamSendTyped
  <2>5. QED
    BY <1>1, <2>2, <2>3, <2>4 DEF Ordered
<1>3. CASE Call
  <2>1. Held' = Held /\ UNCHANGED <<sent, wire, unmarked, delivered>>
    BY <1>3 DEF Call, Held
  <2>2. QED
    BY <1>1, <1>3, <2>1, CallTyped DEF Ordered
<1>4. CASE Packet
  BY <1>4, PacketOrdered
<1>5. CASE ReadThrows
  <2>1. Held' = <<>> /\ UNCHANGED <<sent, wire, unmarked, delivered>>
    BY <1>5 DEF ReadThrows, End, Held
  <2>2. Past(delivered, x) /\ Slice(<<>>, x, x)
    BY <1>1, PastLater, SliceNone DEF Slice
  <2>3. QED
    BY <1>1, <1>5, <2>1, <2>2, ReadThrowsTyped DEF Ordered
<1>6. CASE UNCHANGED vars
  <2>1. Held' = Held /\ UNCHANGED <<sent, wire, unmarked, delivered>>
    BY <1>6 DEF vars, Held
  <2>2. QED
    BY <1>1, <1>6, <2>1, UnchangedTyped DEF Ordered
<1>7. QED
  BY <1>2, <1>3, <1>4, <1>5, <1>6 DEF Next

LEMMA AlwaysOrdered == Spec => [](Typed /\ Ordered)
<1>1. Init => Typed /\ Ordered
  BY InitTyped, InitOrdered
<1>2. QED
  BY <1>1, NextOrdered, PTL DEF Spec

LEMMA TypedIsTypeOK == Typed /\ Ordered => TypeOK
<1> SUFFICES ASSUME Typed, Ordered PROVE TypeOK
  OBVIOUS
<1>1. sent \in Seq(Lengths) /\ Len(sent) <= MaxSent /\ Len(sent) \in Nat
  <2>1. sent \in Seq(Lengths) /\ Len(sent) <= MaxSent
    BY DEF Typed
  <2>2. QED
    BY <2>1
<1>2. Seq(Known(sent)) \subseteq Seq(Byte) /\ Seq(Seq(Known(sent))) \subseteq Seq(Seq(Byte))
  <2>1. Known(sent) \subseteq Byte
    BY <1>1, Sizes DEF Known, Byte
  <2>2. QED
    BY <2>1
<1>3. wire \in Seq(Seq(Byte)) /\ \A k \in DOMAIN wire : Len(wire[k]) <= PacketSize
  BY <1>1, RunsTyped DEF Ordered
<1>4. QED
  BY <1>1, <1>2, <1>3 DEF Typed, TypeOK

\* TypeOK holds in every reachable state: read_full_container_ goes on only while
\* bytes are missing, and a transfer never outgrows its buffer.
THEOREM FramingTypeCorrect == Spec => []TypeOK
  BY AlwaysOrdered, TypedIsTypeOK, PTL

\* Whatever reads are cut off and whatever transfers are left unended, what
\* read_full_container_ returned is in the order it was sent in, and no byte of it
\* is returned twice.
THEOREM InSendingOrder == Spec => []NeverBackwards
<1>1. Typed /\ Ordered => NeverBackwards
  <2> SUFFICES ASSUME Typed, Ordered PROVE NeverBackwards
    OBVIOUS
  <2>1. PICK z : Past(delivered, z)
    BY DEF Ordered
  <2>2. DOMAIN delivered = 1..Len(delivered)
        /\ \A m \in DOMAIN delivered : DOMAIN delivered[m] = 1..Len(delivered[m])
    BY <2>1 DEF Past
  <2>3. QED
    BY <2>1, <2>2 DEF Past, NeverBackwards
<1>2. QED
  BY <1>1, AlwaysOrdered, PTL

-----------------------------------------------------------------------------
(***************************************************************************)
(* QueueOfContainers.                                                      *)
(***************************************************************************)

\* How many bytes a call can have got by reads that filled their buffer, after the
\* header alone or not.
Aligned(len) == \E q \in Nat : len = q * BufSize \/ len = q * BufSize + HeaderLen

LEMMA Alignment ==
    /\ Aligned(0) /\ Aligned(HeaderLen)
    /\ \A len \in Nat : Aligned(len) => Aligned(len + BufSize) /\ FillsBuffer(len)
<1>1. HeaderLen \in Nat /\ BufSize \in Nat \ {0}
  BY Sizes
<1>2. 0 * BufSize = 0 /\ 0 \in Nat /\ 0 = 0 * BufSize /\ HeaderLen = 0 * BufSize + HeaderLen
  BY <1>1
<1>3. Aligned(0) /\ Aligned(HeaderLen)
  BY <1>2 DEF Aligned
<1>4. ASSUME NEW len \in Nat, Aligned(len)
      PROVE  Aligned(len + BufSize) /\ FillsBuffer(len)
  <2>1. PICK q \in Nat : len = q * BufSize \/ len = q * BufSize + HeaderLen
    BY <1>4 DEF Aligned
  <2>2. q * BufSize \in Nat /\ (q + 1) * BufSize = q * BufSize + BufSize
    BY <1>1, Scaled, OneMore
  <2>3. q + 1 \in Nat /\ (\/ len + BufSize = (q + 1) * BufSize
                          \/ len + BufSize = (q + 1) * BufSize + HeaderLen)
    <3>1. PICK l \in Nat : l = q * BufSize
      BY <2>2
    <3>2. PICK m : m = (q + 1) * BufSize
      OBVIOUS
    <3>3. m = l + BufSize /\ (len = l \/ len = l + HeaderLen)
      BY <2>1, <2>2, <3>1, <3>2
    <3>4. len + BufSize = m \/ len + BufSize = m + HeaderLen
      BY <1>1, <3>1, <3>3
    <3>5. QED
      BY <3>2, <3>4
  <2>4. Aligned(len + BufSize)
    BY <2>3 DEF Aligned
  <2>5. len = q * BufSize \/ len - HeaderLen = q * BufSize
    BY <1>1, <2>1, <2>2
  <2>6. (q * BufSize) % BufSize = 0
    BY <1>1, Multiple
  <2>7. FillsBuffer(len)
    BY <2>5, <2>6, Zenon DEF FillsBuffer
  <2>8. QED
    BY <2>4, <2>7
<1>5. QED
  BY <1>3, <1>4

\* The sequences d are the first of the containers with the lengths s.
Returns(d, s) ==
    /\ d \in Seq(Seq(Place)) /\ Len(d) <= Len(s)
    /\ \A n \in 1..Len(d) : d[n] = Bytes(n, 0, s[n])

\* After D containers, i bytes of the next are in held, the rest is on the wire.
Inside(s, w, D, held, i) ==
    /\ Runs(s, w, <<D + 1, i>>, <<Len(s) + 1, 0>>, FALSE)
    /\ Piece(held, D + 1, 0, i)

InContainer ==
    \E i \in Nat :
        /\ Inside(sent, wire, Len(delivered), Held, i)
        /\ Aligned(Len(have))
        /\ pc = "more" => /\ Len(delivered) + 1 <= Len(sent)
                          /\ need = sent[Len(delivered) + 1]

\* The container that was just returned filled the buffer; the empty packet that
\* ends it is on the wire.
AtItsEnd ==
    /\ Held = <<>> /\ pc # "more" /\ Len(delivered) >= 1
    /\ FillsBuffer(sent[Len(delivered)])
    /\ Runs(sent, wire, <<Len(delivered), sent[Len(delivered)]>>, <<Len(sent) + 1, 0>>, FALSE)

Queue == Returns(delivered, sent) /\ (InContainer \/ AtItsEnd)

LEMMA ReturnsMore ==
    ASSUME NEW s \in Seq(Lengths), NEW d, Returns(d, s), NEW D \in Nat, D = Len(d),
           D + 1 <= Len(s), NEW t, Piece(t, D + 1, 0, s[D + 1])
    PROVE  Returns(Append(d, t), s) /\ Len(Append(d, t)) = D + 1
<1>1. PICK r : r = Append(d, t)
  OBVIOUS
<1>2. d \in Seq(Seq(Place)) /\ t \in Seq(Place)
  BY DEF Returns, Piece
<1>3. r \in Seq(Seq(Place)) /\ Len(r) = D + 1 /\ r[D + 1] = t /\ \A n \in 1..D : r[n] = d[n]
  BY <1>1, <1>2
<1>4. s[D + 1] \in Nat
  <2>1. D + 1 \in 1..Len(s)
    OBVIOUS
  <2>2. s[D + 1] \in Lengths
    BY <2>1
  <2>3. QED
    BY <2>2, Sizes
<1>5. t = Bytes(D + 1, 0, s[D + 1])
  BY <1>4, PieceIsBytes
<1>6. ASSUME NEW n \in 1..(D + 1) PROVE r[n] = Bytes(n, 0, s[n])
  <2>1. n \in 1..D \/ n = D + 1
    OBVIOUS
  <2>2. CASE n \in 1..D
    BY <1>3, <2>2 DEF Returns
  <2>3. CASE n = D + 1
    BY <1>3, <1>5, <2>3
  <2>4. QED
    BY <2>1, <2>2, <2>3
<1>7. QED
  BY <1>1, <1>3, <1>6 DEF Returns

LEMMA HeaderAtFront ==
    ASSUME NEW n, NEW d \in Nat, d >= 1, NEW b, Piece(b, n, 0, d)
    PROVE  LengthField(b) = {sent[n]}
<1>1. b[1] = <<n, 0 + 1>>
  BY DEF Piece
<1>2. b[1][1] = n /\ b[1][2] = 1
  BY <1>1
<1>3. QED
  BY <1>2 DEF LengthField

LEMMA InitQueue == Init => Queue
<1> SUFFICES ASSUME Init PROVE Queue
  OBVIOUS
<1>1. sent = <<>> /\ wire = <<>> /\ delivered = <<>> /\ have = <<>> /\ Held = <<>> /\ pc = "idle"
  BY DEF Init, Held
<1>2. Len(<<>>) = 0
  OBVIOUS
<1>3. PICK x : x = <<0 + 1, 0>> /\ x \in Place
  <2>1. 0 + 1 \in Nat /\ 0 \in Nat
    OBVIOUS
  <2>2. <<0 + 1, 0>> \in Place
    BY <2>1 DEF Place
  <2>3. QED
    BY <2>2
<1>4. Runs(sent, wire, <<0 + 1, 0>>, <<0 + 1, 0>>, FALSE)
  BY <1>1, <1>3, RunsNone
<1>5. Piece(Held, 0 + 1, 0, 0)
  BY <1>1 DEF Piece
<1>6. Inside(sent, wire, Len(delivered), Held, 0)
  BY <1>1, <1>2, <1>4, <1>5 DEF Inside
<1>7. Aligned(Len(have))
  BY <1>1, <1>2, Alignment
<1>8. InContainer
  BY <1>1, <1>6, <1>7 DEF InContainer
<1>9. Returns(delivered, sent)
  BY <1>1 DEF Returns
<1>10. QED
  BY <1>8, <1>9 DEF Queue

\* A packet inside a container: no header is short, and what is returned is the
\* container, whole.
LEMMA InsidePacket ==
    ASSUME Typed, Packet, Returns(delivered, sent), InContainer,
           NEW D \in Nat, D = Len(delivered), NEW i \in Nat,
           Inside(sent, wire, D, Held, i), Aligned(Len(have)),
           pc = "more" => D + 1 <= Len(sent) /\ need = sent[D + 1],
           NEW p, NEW y, Follows(sent, p, <<D + 1, i>>, y, FALSE),
           Runs(sent, wire', y, <<Len(sent) + 1, 0>>, FALSE),
           NEW b, b = Held \o p,
           Len(b) = Len(have) + (Len(xfer) + Len(p)),
           GoesOn(p, b) \/ Ends(p, b)
    PROVE  Queue' /\ ~(xfer' = <<>> /\ ShortRead(b))
<1>1. /\ HeaderLen \in Nat \ {0} /\ PacketSize \in Nat \ {0} /\ BufSize \in Nat \ {0}
      /\ HeaderLen < PacketSize
  BY Sizes
<1>2. sent \in Seq(Lengths) /\ sent' = sent /\ Len(sent) \in Nat
  <2>1. sent \in Seq(Lengths)
    BY DEF Typed
  <2>2. QED
    BY <2>1 DEF Packet
<1>3. PICK e \in 0..PacketSize :
        /\ D + 1 \in 1..Len(sent)
        /\ i + e <= sent[D + 1]
        /\ Piece(p, D + 1, i, e)
        /\ \/ e = PacketSize /\ y = <<D + 1, i + e>>
           \/ e < PacketSize /\ i + e = sent[D + 1] /\ y = <<(D + 1) + 1, 0>>
           \/ e < PacketSize /\ i = 0 /\ e = HeaderLen /\ e < sent[D + 1] /\ y = <<D + 1, e>>
  BY DEF Follows
<1>4. PICK n \in Nat, v \in Nat, l \in Nat :
        /\ n = D + 1 /\ n \in 1..Len(sent) /\ v = sent[n] /\ l = i + e /\ l <= v
        /\ v >= HeaderLen
        /\ \/ e = PacketSize /\ y = <<n, l>>
           \/ e < PacketSize /\ l = v /\ y = <<n + 1, 0>>
           \/ e < PacketSize /\ i = 0 /\ e = HeaderLen /\ e < v /\ y = <<n, l>>
  <2>1. sent[D + 1] \in Lengths
    BY <1>2, <1>3
  <2>2. sent[D + 1] \in Nat /\ sent[D + 1] >= HeaderLen
    BY <2>1, Sizes
  <2>3. i + e \in Nat /\ e \in Nat
    BY <1>1
  <2>4. PICK n, v, l : n = D + 1 /\ v = sent[n] /\ l = i + e
    OBVIOUS
  <2>5. n \in Nat /\ v \in Nat /\ l \in Nat /\ l <= v /\ v >= HeaderLen /\ n \in 1..Len(sent)
    BY <1>3, <2>2, <2>3, <2>4
  <2>6. i = 0 => e = l
    BY <2>3, <2>4
  <2>7. \/ e = PacketSize /\ y = <<n, l>>
        \/ e < PacketSize /\ l = v /\ y = <<n + 1, 0>>
        \/ e < PacketSize /\ i = 0 /\ e = HeaderLen /\ e < v /\ y = <<n, l>>
    <3>1. \/ e = PacketSize /\ y = <<n, l>>
          \/ e < PacketSize /\ l = v /\ y = <<n + 1, 0>>
          \/ e < PacketSize /\ i = 0 /\ e = HeaderLen /\ e < v /\ y = <<n, e>>
      BY <1>3, <2>4, Zenon
    <3>2. QED
      BY <2>6, <3>1
  <2>8. QED
    BY <2>4, <2>5, <2>7
<1>5. l <= v /\ (l # v => y = <<n, l>>)
  BY <1>4
<1>6. Piece(p, n, i, e) /\ Len(p) = e /\ e \in Nat
  <2>1. Piece(p, n, i, e)
    BY <1>3, <1>4
  <2>2. QED
    BY <1>1, <2>1 DEF Piece
<1>7. Piece(b, n, 0, l)
  <2>1. Piece(Held, n, 0, i) /\ 0 + i = i
    BY <1>4 DEF Inside
  <2>2. Piece(p, n, 0 + i, e)
    BY <1>6, <2>1
  <2>3. 0 \in Nat
    OBVIOUS
  <2>4. QED
    BY <1>4, <1>6, <2>1, <2>2, <2>3, PieceJoin
<1>8. b \in Seq(Place) /\ Len(b) = l
  BY <1>7 DEF Piece
<1>9. Runs(sent', wire', y, <<Len(sent') + 1, 0>>, FALSE) /\ Returns(delivered, sent')
  BY <1>2
<1>10. CASE GoesOn(p, b)
  <2>1. y = <<n, l>> /\ xfer' = xfer \o p
    BY <1>1, <1>4, <1>6, <1>10 DEF GoesOn
  <2>2. Held' = b /\ UNCHANGED <<pc, have, need, delivered>>
    BY <1>10 DEF GoesOn
  <2>3. Inside(sent', wire', Len(delivered'), Held', l)
    BY <1>4, <1>7, <1>9, <2>1, <2>2 DEF Inside
  <2>4. InContainer'
    BY <1>2, <1>4, <2>2, <2>3 DEF InContainer
  <2>5. Queue'
    BY <1>9, <2>2, <2>4 DEF Queue
  <2>6. ~ShortRead(b)
    <3>1. Len(b) >= Len(p) /\ Len(p) = PacketSize
      <4>1. l >= e
        BY <1>4, <1>6
      <4>2. QED
        BY <1>6, <1>8, <1>10, <4>1 DEF GoesOn
    <3>2. Len(b) \in Nat
      BY <1>8
    <3>3. ~(Len(b) < HeaderLen)
      BY <1>1, <3>1, <3>2
    <3>4. QED
      BY <3>3 DEF ShortRead
  <2>7. QED
    BY <2>5, <2>6
<1>11. CASE Ends(p, b)
  <2>1. /\ e = PacketSize => Len(xfer) + e = BufSize
        /\ xfer' = <<>>
        /\ ShortRead(b) \/ Returned(b) \/ WentOn(b)
    BY <1>1, <1>6, <1>11 DEF Ends
  <2>2. ~ShortRead(b)
    <3>1. l >= e /\ (l = v \/ e = HeaderLen \/ e = PacketSize)
      BY <1>4, <1>6
    <3>2. HeaderLen <= l
      BY <1>1, <1>4, <3>1
    <3>3. ~(Len(b) < HeaderLen)
      BY <1>1, <1>8, <3>2
    <3>4. QED
      BY <3>3 DEF ShortRead
  <2>3. l >= 1
    BY <1>1, <1>4
  <2>4. LengthField(b) = {v}
    BY <1>4, <1>7, <2>3, HeaderAtFront
  <2>5. pc = "more" => need = v
    BY <1>4
  <2>6. CASE Returned(b)
    <3>1. PICK len \in 0..l :
            /\ len = v /\ pc' = "idle" /\ have' = <<>>
            /\ delivered' = Append(delivered, SubSeq(b, 1, len))
      <4>1. pc \in {"first", "more"}
        BY DEF Typed, Packet
      <4>2. QED
        BY <1>8, <2>4, <2>5, <2>6, <4>1 DEF Returned, Return, End
    <3>2. l = v
      BY <1>5, <3>1
    <3>3. PICK t : t = SubSeq(b, 1, len)
      OBVIOUS
    <3>4. t = b
      <4>1. t = SubSeq(b, 1, Len(b))
        BY <1>8, <3>1, <3>2, <3>3
      <4>2. SubSeq(b, 1, Len(b)) = b
        BY <1>8, SubSeqFull, Zenon
      <4>3. QED
        BY <4>1, <4>2, Zenon
    <3>5. Returns(delivered', sent') /\ Len(delivered') = n
      <4>1. Piece(t, D + 1, 0, sent[D + 1]) /\ D + 1 <= Len(sent)
        BY <1>4, <1>7, <3>2, <3>4
      <4>2. Returns(Append(delivered, t), sent) /\ Len(Append(delivered, t)) = D + 1
        BY <1>2, <4>1, ReturnsMore
      <4>3. QED
        BY <1>2, <1>4, <3>1, <3>3, <4>2
    <3>6. Held' = <<>>
      BY <2>1, <3>1 DEF Held
    <3>7. CASE y = <<n + 1, 0>>
      <4>1. Piece(<<>>, n + 1, 0, 0)
        BY DEF Piece
      <4>2. Inside(sent', wire', Len(delivered'), Held', 0)
        BY <1>9, <3>5, <3>6, <3>7, <4>1 DEF Inside
      <4>3. Aligned(Len(have'))
        BY <3>1, Alignment
      <4>4. InContainer'
        BY <3>1, <4>2, <4>3 DEF InContainer
      <4>5. QED
        BY <2>2, <3>5, <4>4 DEF Queue
    <3>8. CASE y = <<n, l>> /\ e = PacketSize
      <4>1. FillsBuffer(v)
        <5>1. v = Len(have) + BufSize /\ Len(have) \in Nat
          <6>1. have \in Seq(Known(sent))
            BY DEF Typed
          <6>2. Len(have) \in Nat
            BY <6>1
          <6>3. Len(xfer) + Len(p) = BufSize
            BY <1>6, <2>1, <3>8
          <6>4. QED
            BY <1>8, <3>2, <6>2, <6>3
        <5>2. PICK h \in Nat : h = Len(have)
          BY <5>1
        <5>3. Aligned(h + BufSize) /\ h + BufSize \in Nat
          BY <1>1, <5>2, Alignment
        <5>4. QED
          BY <5>1, <5>2, <5>3, Alignment
      <4>2. FillsBuffer(sent'[Len(delivered')])
        BY <1>2, <1>4, <3>5, <4>1
      <4>3. Runs(sent', wire', <<Len(delivered'), sent'[Len(delivered')]>>, <<Len(sent') + 1, 0>>, FALSE)
        BY <1>2, <1>4, <1>9, <3>2, <3>5, <3>8
      <4>4. Len(delivered') >= 1
        BY <1>4, <3>5
      <4>5. AtItsEnd'
        BY <3>1, <3>6, <4>2, <4>3, <4>4 DEF AtItsEnd
      <4>6. QED
        BY <2>2, <3>5, <4>5 DEF Queue
    <3>9. y = <<n + 1, 0>> \/ (y = <<n, l>> /\ e = PacketSize) \/ (i = 0 /\ e < v)
      BY <1>4
    <3>10. ~(i = 0 /\ e < v)
      <4>1. i = 0 => l = e
        BY <1>4, <1>6
      <4>2. QED
        BY <1>6, <3>2, <4>1
    <3>11. QED
      BY <3>7, <3>8, <3>9, <3>10
  <2>7. CASE WentOn(b)
    <3>1. /\ v > l /\ pc' = "more" /\ have' = b /\ need' = v /\ delivered' = delivered
      <4>1. pc \in {"first", "more"}
        BY DEF Typed, Packet
      <4>2. QED
        BY <1>8, <2>4, <2>5, <2>7, <4>1 DEF WentOn, ReadOn
    <3>2. y = <<n, l>>
      BY <1>5, <3>1
    <3>3. Held' = b
      BY <1>8, <2>1, <3>1, ConcatEmptySeq DEF Held
    <3>4. Inside(sent', wire', Len(delivered'), Held', l)
      BY <1>4, <1>7, <1>9, <3>1, <3>2, <3>3 DEF Inside
    <3>5. Aligned(l)
      <4>1. CASE e = PacketSize
        <5>1. PICK h \in Nat : h = Len(have)
          <6>1. have \in Seq(Known(sent))
            BY DEF Typed
          <6>2. QED
            BY <6>1
        <5>2. Len(xfer) + Len(p) = BufSize
          BY <1>6, <2>1, <4>1
        <5>3. l = h + BufSize
          BY <1>8, <5>1, <5>2
        <5>4. QED
          BY <5>1, <5>3, Alignment
      <4>2. CASE i = 0 /\ e = HeaderLen
        <5>1. l = HeaderLen
          BY <1>1, <1>4, <4>2
        <5>2. QED
          BY <5>1, Alignment
      <4>3. QED
        BY <1>4, <3>1, <4>1, <4>2
    <3>6. Aligned(Len(have'))
      BY <1>8, <3>1, <3>5
    <3>7. Len(delivered') + 1 <= Len(sent') /\ need' = sent'[Len(delivered') + 1]
      BY <1>2, <1>4, <3>1
    <3>8. InContainer'
      BY <1>4, <3>4, <3>6, <3>7 DEF InContainer
    <3>9. QED
      BY <1>9, <2>2, <3>1, <3>8 DEF Queue
  <2>8. QED
    BY <2>1, <2>2, <2>6, <2>7
<1>12. QED
  BY <1>10, <1>11

\* The packet that ends a container which filled the buffer: a short header.
LEMMA EndingPacket ==
    ASSUME Typed, Packet, Returns(delivered, sent), AtItsEnd,
           NEW D \in Nat, D = Len(delivered),
           NEW p, NEW y, Follows(sent, p, <<D, sent[D]>>, y, FALSE),
           Runs(sent, wire', y, <<Len(sent) + 1, 0>>, FALSE),
           NEW b, b = Held \o p,
           Len(b) = Len(have) + (Len(xfer) + Len(p)),
           GoesOn(p, b) \/ Ends(p, b)
    PROVE  Queue'
<1>1. /\ HeaderLen \in Nat \ {0} /\ PacketSize \in Nat \ {0} /\ HeaderLen < PacketSize
  BY Sizes
<1>2. sent \in Seq(Lengths) /\ sent' = sent
  BY DEF Packet, Typed
<1>3. pc = "first" /\ Held = <<>> /\ D >= 1 /\ D <= Len(sent)
  BY DEF AtItsEnd, Returns, Packet, Typed
<1>4. PICK v \in Nat : v = sent[D] /\ v >= HeaderLen
  <2>1. Len(sent) \in Nat
    BY <1>2
  <2>2. D \in 1..Len(sent)
    BY <1>3, <2>1
  <2>3. sent[D] \in Lengths
    BY <1>2, <2>2
  <2>4. QED
    BY <2>3, Sizes
<1>5. PICK e \in 0..PacketSize :
        /\ v + e <= v
        /\ Piece(p, D, v, e)
        /\ \/ e = PacketSize
           \/ e < PacketSize /\ y = <<D + 1, 0>>
           \/ v = 0
  BY <1>4 DEF Follows
<1>6. e = 0 /\ y = <<D + 1, 0>>
  <2>1. e \in Nat /\ (v + e <= v => e = 0) /\ v # 0
    BY <1>1, <1>4
  <2>2. e = 0
    BY <1>5, <2>1
  <2>3. e # PacketSize
    BY <1>1, <2>2
  <2>4. QED
    BY <1>5, <2>1, <2>2, <2>3
<1>7. p = <<>>
  BY <1>5, <1>6 DEF Piece
<1>8. b = <<>>
  BY <1>3, <1>7
<1>9. Ends(p, b)
  BY <1>1, <1>7 DEF GoesOn
<1>10. ShortRead(b) /\ xfer' = <<>>
  <2>1. ~(Len(b) >= HeaderLen)
    BY <1>1, <1>8
  <2>2. QED
    BY <1>3, <1>9, <2>1 DEF Ends, Returned, WentOn
<1>11. have' = <<>> /\ pc' = "idle" /\ delivered' = delivered
  BY <1>10 DEF ShortRead, End
<1>12. Held' = <<>>
  BY <1>10, <1>11 DEF Held
<1>13. Inside(sent', wire', Len(delivered'), Held', 0)
  <2>1. Piece(<<>>, D + 1, 0, 0)
    BY DEF Piece
  <2>2. QED
    BY <1>2, <1>6, <1>11, <1>12, <2>1 DEF Inside
<1>14. Aligned(Len(have'))
  BY <1>11, Alignment
<1>15. InContainer'
  BY <1>11, <1>13, <1>14 DEF InContainer
<1>16. QED
  BY <1>2, <1>11, <1>15 DEF Queue

LEMMA PacketQueue ==
    ASSUME Typed, Packet, Queue
    PROVE  /\ Queue'
           /\ pc = "first" /\ pc' = "idle" /\ outcome' = "short header" => AtItsEnd
<1>1. PICK D \in Nat : D = Len(delivered)
  BY DEF Queue, Returns
<1>2. wire # <<>> /\ wire' = Tail(wire) /\ sent \in Seq(Lengths)
  BY DEF Packet, Typed
<1>3. PICK z : z = <<Len(sent) + 1, 0>>
  OBVIOUS
<1>4. PICK p, b : p = Head(wire) /\ b = Held \o p
  OBVIOUS
<1>5. ASSUME NEW x, NEW y, Follows(sent, p, x, y, FALSE)
      PROVE  /\ GoesOn(p, b) \/ Ends(p, b)
             /\ Len(b) = Len(have) + (Len(xfer) + Len(p))
  <2>1. p \in Seq(Known(sent)) /\ Len(p) <= PacketSize
    BY <1>2, <1>5, FollowsKnown
  <2>2. QED
    BY <1>4, <2>1, PacketOutcome
<1>6. ~ShortRead(b) \/ xfer' # <<>> => ~(Ends(p, b) /\ outcome' = "short header" /\ pc' = "idle")
  BY DEF Ends, Returned, Return, End, WentOn, ReadOn
<1>7. GoesOn(p, b) => pc' = pc
  BY DEF GoesOn
<1>8. CASE InContainer
  <2>1. PICK i \in Nat :
          /\ Inside(sent, wire, D, Held, i) /\ Aligned(Len(have))
          /\ pc = "more" => D + 1 <= Len(sent) /\ need = sent[D + 1]
    BY <1>1, <1>8 DEF InContainer
  <2>2. PICK x : x = <<D + 1, i>>
    OBVIOUS
  <2>3. Runs(sent, wire, x, z, FALSE)
    BY <1>3, <2>1, <2>2 DEF Inside
  <2>4. PICK y : Follows(sent, p, x, y, FALSE) /\ Runs(sent, wire', y, z, FALSE)
    BY <1>2, <1>4, <2>3, RunsStep
  <2>5. /\ GoesOn(p, b) \/ Ends(p, b)
        /\ Len(b) = Len(have) + (Len(xfer) + Len(p))
    BY <1>5, <2>4
  <2>6. Queue' /\ ~(xfer' = <<>> /\ ShortRead(b))
    <3>1. Returns(delivered, sent)
      BY DEF Queue
    <3>2. Follows(sent, p, <<D + 1, i>>, y, FALSE) /\ Runs(sent, wire', y, <<Len(sent) + 1, 0>>, FALSE)
      BY <1>3, <2>2, <2>4
    <3>3. QED
      BY <1>1, <1>4, <1>8, <2>1, <2>5, <3>1, <3>2, InsidePacket
  <2>7. QED
    BY <1>6, <1>7, <2>5, <2>6
<1>9. CASE AtItsEnd
  <2>1. PICK x : x = <<D, sent[D]>>
    OBVIOUS
  <2>2. Runs(sent, wire, x, z, FALSE)
    BY <1>1, <1>3, <1>9, <2>1 DEF AtItsEnd
  <2>3. PICK y : Follows(sent, p, x, y, FALSE) /\ Runs(sent, wire', y, z, FALSE)
    BY <1>2, <1>4, <2>2, RunsStep
  <2>4. /\ GoesOn(p, b) \/ Ends(p, b)
        /\ Len(b) = Len(have) + (Len(xfer) + Len(p))
    BY <1>5, <2>3
  <2>5. Queue'
    <3>1. Returns(delivered, sent)
      BY DEF Queue
    <3>2. Follows(sent, p, <<D, sent[D]>>, y, FALSE) /\ Runs(sent, wire', y, <<Len(sent) + 1, 0>>, FALSE)
      BY <1>3, <2>1, <2>3
    <3>3. QED
      BY <1>1, <1>4, <1>9, <2>4, <3>1, <3>2, EndingPacket
  <2>6. QED
    BY <1>9, <2>5
<1>10. QED
  BY <1>8, <1>9 DEF Queue

LEMMA CamSendQueue ==
    ASSUME Typed, Queue, unmarked = FALSE, unmarked' = FALSE,
           NEW len \in Lengths, NEW split \in BOOLEAN, NEW marked \in BOOLEAN,
           CamSend(len, split, marked)
    PROVE  Queue'
<1>1. sent \in Seq(Lengths) /\ unmarked \in BOOLEAN
  BY DEF Typed
<1>2. /\ Len(sent') = Len(sent) + 1 /\ Len(sent) \in Nat
      /\ \A n \in 1..Len(sent) : sent'[n] = sent[n]
  BY CamSendTyped
<1>3. UNCHANGED <<xfer, pc, have, need, delivered>> /\ Held' = Held
  BY DEF CamSend, Held
<1>4. ASSUME NEW x, Runs(sent, wire, x, <<Len(sent) + 1, 0>>, FALSE)
      PROVE  Runs(sent', wire', x, <<Len(sent') + 1, 0>>, FALSE)
  <2>1. Runs(sent, wire, x, <<Len(sent) + 1, 0>>, unmarked)
    BY <1>4
  <2>2. Runs(sent', wire', x, <<Len(sent') + 1, 0>>, unmarked')
    BY <1>1, <2>1, SendRuns
  <2>3. QED
    BY <2>2
<1>5. PICK D \in Nat : D = Len(delivered) /\ D <= Len(sent)
  BY DEF Queue, Returns
<1>6. Returns(delivered', sent')
  <2>1. D <= Len(sent')
    BY <1>2, <1>5
  <2>2. \A n \in 1..D : sent'[n] = sent[n]
    BY <1>2, <1>5
  <2>3. QED
    BY <1>3, <1>5, <2>1, <2>2 DEF Queue, Returns
<1>7. CASE InContainer
  <2>1. PICK i \in Nat :
          /\ Inside(sent, wire, D, Held, i) /\ Aligned(Len(have))
          /\ pc = "more" => D + 1 <= Len(sent) /\ need = sent[D + 1]
    BY <1>5, <1>7 DEF InContainer
  <2>2. Inside(sent', wire', D, Held', i)
    BY <1>3, <1>4, <2>1 DEF Inside
  <2>3. pc' = "more" => D + 1 <= Len(sent') /\ need' = sent'[D + 1]
    <3>1. D + 1 <= Len(sent) => D + 1 \in 1..Len(sent) /\ D + 1 <= Len(sent')
      BY <1>2
    <3>2. QED
      BY <1>2, <1>3, <2>1, <3>1
  <2>4. Len(delivered') = D /\ Aligned(Len(have'))
    BY <1>3, <1>5, <2>1
  <2>5. InContainer'
    BY <2>2, <2>3, <2>4 DEF InContainer
  <2>6. QED
    BY <1>6, <2>5 DEF Queue
<1>8. CASE AtItsEnd
  <2>1. D >= 1 /\ FillsBuffer(sent[D]) /\ Runs(sent, wire, <<D, sent[D]>>, <<Len(sent) + 1, 0>>, FALSE)
    BY <1>5, <1>8 DEF AtItsEnd
  <2>2. sent'[D] = sent[D]
    BY <1>2, <1>5, <2>1
  <2>3. Runs(sent', wire', <<D, sent'[D]>>, <<Len(sent') + 1, 0>>, FALSE)
    BY <1>4, <2>1, <2>2
  <2>4. Held' = <<>> /\ pc' # "more" /\ Len(delivered') = D
    BY <1>3, <1>5, <1>8 DEF AtItsEnd
  <2>5. AtItsEnd'
    BY <2>1, <2>2, <2>3, <2>4 DEF AtItsEnd
  <2>6. QED
    BY <1>6, <2>5 DEF Queue
<1>9. QED
  BY <1>7, <1>8 DEF Queue

\* Steps that neither read nor send.
LEMMA StillQueue ==
    ASSUME Queue, UNCHANGED <<sent, wire, delivered>>, Held' = Held,
           pc' # "more", have' = <<>>
    PROVE  Queue'
<1>1. Returns(delivered', sent')
  BY DEF Queue
<1>2. Aligned(Len(have'))
  BY Alignment
<1>3. CASE InContainer
  <2>1. PICK i \in Nat : Inside(sent, wire, Len(delivered), Held, i)
    BY <1>3 DEF InContainer
  <2>2. Inside(sent', wire', Len(delivered'), Held', i)
    BY <2>1
  <2>3. InContainer'
    BY <1>2, <2>2 DEF InContainer
  <2>4. QED
    BY <1>1, <2>3 DEF Queue
<1>4. CASE AtItsEnd
  <2>1. AtItsEnd'
    BY <1>4 DEF AtItsEnd
  <2>2. QED
    BY <1>1, <2>1 DEF Queue
<1>5. QED
  BY <1>3, <1>4 DEF Queue

InQueue == ~torn /\ ~unmarked => Queue

LEMMA NextInQueue ==
    Typed /\ Ordered /\ InQueue /\ [Next]_vars => Typed' /\ Ordered' /\ InQueue'
<1> SUFFICES ASSUME Typed, Ordered, InQueue, [Next]_vars, torn' = FALSE, unmarked' = FALSE
             PROVE  Queue'
  <2>1. Typed /\ Ordered /\ [Next]_vars => Typed' /\ Ordered'
    BY NextOrdered
  <2>2. Typed /\ Ordered /\ [Next]_vars => torn' \in BOOLEAN /\ unmarked' \in BOOLEAN
    BY <2>1 DEF Typed
  <2>3. QED
    BY <2>1, <2>2 DEF InQueue
<1>1. torn \in BOOLEAN /\ unmarked \in BOOLEAN
  BY DEF Typed
<1>2. ASSUME NEW len \in Lengths, NEW split \in BOOLEAN, NEW marked \in BOOLEAN,
             CamSend(len, split, marked)
      PROVE  Queue'
  <2>1. torn = FALSE /\ unmarked = FALSE
    BY <1>1, <1>2 DEF CamSend
  <2>2. Queue
    BY <2>1 DEF InQueue
  <2>3. QED
    BY <1>2, <2>1, <2>2, CamSendQueue
<1>3. CASE Call
  <2>1. Queue /\ UNCHANGED <<sent, wire, delivered>> /\ Held' = Held /\ pc' # "more" /\ have' = have
    BY <1>1, <1>3 DEF Call, InQueue, Held
  <2>2. have' = <<>>
    BY <1>3, <2>1 DEF Call, Typed
  <2>3. QED
    BY <2>1, <2>2, StillQueue
<1>4. CASE Packet
  <2>1. Queue
    BY <1>1, <1>4 DEF Packet, InQueue
  <2>2. QED
    BY <1>4, <2>1, PacketQueue
<1>5. CASE ReadThrows
  <2>1. torn = FALSE /\ unmarked = FALSE /\ xfer = <<>> /\ have = <<>>
    BY <1>1, <1>5 DEF ReadThrows
  <2>2. UNCHANGED <<sent, wire, delivered>> /\ pc' # "more" /\ xfer' = <<>> /\ have' = <<>>
    BY <1>5 DEF ReadThrows, End
  <2>3. Held' = Held
    BY <2>1, <2>2 DEF Held
  <2>4. Queue
    BY <2>1 DEF InQueue
  <2>5. QED
    BY <2>2, <2>3, <2>4, StillQueue
<1>6. CASE UNCHANGED vars
  <2>1. UNCHANGED <<sent, wire, pc, have, need, delivered, torn, unmarked>> /\ Held' = Held
    BY <1>6 DEF vars, Held
  <2>2. Queue /\ Returns(delivered', sent')
    BY <1>1, <2>1 DEF InQueue, Queue
  <2>3. InContainer => InContainer'
    BY <2>1 DEF InContainer
  <2>4. AtItsEnd => AtItsEnd'
    BY <2>1 DEF AtItsEnd
  <2>5. QED
    BY <2>2, <2>3, <2>4 DEF Queue
<1>7. QED
  BY <1>2, <1>3, <1>4, <1>5, <1>6 DEF Next

LEMMA AlwaysInQueue == Spec => [](Typed /\ Ordered /\ InQueue)
<1>1. Init => Typed /\ Ordered /\ InQueue
  BY InitTyped, InitOrdered, InitQueue DEF InQueue
<1>2. QED
  BY <1>1, NextInQueue, PTL DEF Spec

\* As long as no read was cut off in a container and the camera marks the end of
\* its transfers, read_full_container_ returns the containers sent, whole, in
\* order, none passed over.
THEOREM PipeIsQueue == Spec => []QueueOfContainers
<1>1. Typed /\ InQueue => QueueOfContainers
  <2> SUFFICES ASSUME Typed, InQueue, ~torn, ~unmarked
               PROVE  /\ Len(delivered) <= Len(sent)
                      /\ \A n \in DOMAIN delivered : delivered[n] = Whole(n)
    BY DEF QueueOfContainers
  <2>1. Returns(delivered, sent)
    BY DEF InQueue, Queue
  <2>2. DOMAIN delivered = 1..Len(delivered)
    BY <2>1 DEF Returns
  <2>3. QED
    BY <2>1, <2>2 DEF Returns, Whole
<1>2. QED
  BY <1>1, AlwaysInQueue, PTL

\* With the pipe in order, "short PTP header" comes of the empty packet after a
\* container that filled the buffers exactly, and of nothing else.
THEOREM ShortHeaderOfFullBuffer == Spec => ShortHeaderCause
<1> DEFINE Step == ~torn /\ ~unmarked /\ pc = "first" /\ pc' = "idle" /\ outcome' = "short header" =>
                       delivered # <<>> /\ FillsBuffer(sent[Len(delivered)])
<1>1. Typed /\ InQueue /\ [Next]_vars => [Step]_vars
  <2> SUFFICES ASSUME Typed, InQueue, Next, ~torn, ~unmarked, pc = "first", pc' = "idle",
                      outcome' = "short header"
               PROVE  delivered # <<>> /\ FillsBuffer(sent[Len(delivered)])
    BY DEF vars
  <2>1. Packet
    BY DEF Next, CamSend, Call, ReadThrows, End
  <2>2. Queue
    BY DEF InQueue
  <2>3. AtItsEnd
    BY <2>1, <2>2, PacketQueue
  <2>4. Len(delivered) >= 1 /\ FillsBuffer(sent[Len(delivered)])
    BY <2>3 DEF AtItsEnd
  <2>5. delivered # <<>>
    BY <2>4, NotEmpty, Zenon
  <2>6. QED
    BY <2>4, <2>5
<1>2. QED
  BY <1>1, AlwaysInQueue, PTL DEF Spec, ShortHeaderCause

-----------------------------------------------------------------------------
(***************************************************************************)
(* The fake: types.                                                        *)
(***************************************************************************)

LEMMA FakeSizes ==
    /\ FakeHeaderLen \in Nat \ {0} /\ FakeBufSize \in Nat /\ FakeHeaderLen <= FakeBufSize
    /\ \A n \in FakeLengths : n \in Nat /\ n >= FakeHeaderLen
    /\ \A n \in FakeJunkLengths : n \in Nat
    /\ FakeStrayLimit \in Nat
    /\ FakeTidMod \in Nat /\ FakeTidMod > 1
    /\ FakeMaxQueued \in Nat /\ FakeMaxCalls \in Nat
  BY TransportsAssumption DEF Fake!FakeAssumption

\* What a read finds, what it takes of that, and what the reader has then.
Stock == rx \o Fake!AutoOk

Got == SubSeq(Stock, 1, Fake!Upto(FakeBufSize, Stock))

SoFar == fake_have \o Got

\* TypeOK, and what ties the call to the last command.
FakeTyped ==
    /\ Fake!TypeOK
    /\ fake_pc # "more" => fake_have = <<>>
    /\ fake_pc # "idle" => last_txn = tid
    /\ Len(queued) <= FakeMaxQueued

LEMMA AContainer ==
    ASSUME NEW id \in 0..Fake!Junk, NEW type \in Fake!Types,
           NEW len \in FakeLengths \cup FakeJunkLengths \cup {FakeHeaderLen},
           NEW n \in Nat, NEW t \in 0..(FakeTidMod - 1)
    PROVE  Fake!Container(id, type, len, n, t) \in Fake!Containers
  BY DEF Fake!Container, Fake!Containers

LEMMA OwnContainer ==
    ASSUME NEW t \in 0..(FakeTidMod - 1)
    PROVE  /\ Fake!OK(t) \in Fake!Containers
           /\ Fake!OK(t).id = 0 /\ Fake!OK(t).tid = t /\ Fake!OK(t).type = "RESPONSE"
           /\ Fake!OK(t).len = FakeHeaderLen /\ Fake!OK(t).sent = FakeHeaderLen
<1>1. 0 \in 0..Fake!Junk /\ "RESPONSE" \in Fake!Types /\ FakeHeaderLen \in Nat
  BY FakeSizes DEF Fake!Junk, Fake!Types
<1>2. Fake!Container(0, "RESPONSE", FakeHeaderLen, FakeHeaderLen, t) \in Fake!Containers
  BY <1>1, AContainer
<1>3. QED
  BY <1>2 DEF Fake!OK, Fake!Container

LEMMA NoHeaderTyped == Fake!NoHeader \in Fake!Containers /\ 0 \in 0..(FakeTidMod - 1)
<1>1. 0 \in 0..(FakeTidMod - 1)
  BY FakeSizes
<1>2. QED
  BY <1>1, OwnContainer DEF Fake!NoHeader

LEMMA FakeBytes ==
    ASSUME NEW c, NEW n \in Nat
    PROVE  /\ Fake!Bytes(c, n) \in Seq({c} \X Nat) /\ Len(Fake!Bytes(c, n)) = n
           /\ \A k \in 1..n : Fake!Bytes(c, n)[k] = <<c, k>>
<1>1. Fake!Bytes(c, n) \in [1..n -> {c} \X Nat]
  BY DEF Fake!Bytes
<1>2. \A k \in 1..n : Fake!Bytes(c, n)[k] = <<c, k>>
  BY DEF Fake!Bytes
<1>3. QED
  BY <1>1, <1>2, Listed

LEMMA StockIs ==
    ASSUME FakeTyped
    PROVE  /\ Stock \in Seq(Fake!Byte)
           /\ \/ rx # <<>> /\ Stock = rx
              \/ rx = <<>> /\ last_txn = 0 /\ Stock = <<>>
              \/ rx = <<>> /\ last_txn # 0 /\ Stock = Fake!Bytes(Fake!OK(last_txn), FakeHeaderLen)
<1>1. rx \in Seq(Fake!Byte) /\ last_txn \in 0..(FakeTidMod - 1)
  BY DEF FakeTyped, Fake!TypeOK
<1>2. PICK w : w = Fake!Bytes(Fake!OK(last_txn), FakeHeaderLen)
  OBVIOUS
<1>3. w \in Seq(Fake!Byte)
  <2>1. w \in Seq({Fake!OK(last_txn)} \X Nat)
    BY <1>2, FakeBytes, FakeSizes
  <2>2. {Fake!OK(last_txn)} \X Nat \subseteq Fake!Byte
    BY <1>1, OwnContainer DEF Fake!Byte
  <2>3. QED
    BY <2>1, <2>2
<1>4. CASE rx # <<>> \/ last_txn = 0
  <2>1. Stock = rx \o <<>>
    BY <1>4 DEF Stock, Fake!AutoOk
  <2>2. rx \o <<>> = rx
    BY <1>1, ConcatEmptySeq, Zenon
  <2>3. QED
    BY <1>1, <1>4, <2>1, <2>2
<1>5. CASE ~(rx # <<>> \/ last_txn = 0)
  <2>1. Stock = <<>> \o w
    BY <1>2, <1>5 DEF Stock, Fake!AutoOk
  <2>2. <<>> \o w = w
    BY <1>3, ConcatEmptySeq, Zenon
  <2>3. QED
    BY <1>2, <1>3, <1>5, <2>1, <2>2
<1>6. QED
  BY <1>4, <1>5

LEMMA GotIs ==
    ASSUME FakeTyped
    PROVE  /\ Got \in Seq(Fake!Byte) /\ SoFar \in Seq(Fake!Byte)
           /\ Len(Got) \in Nat /\ Len(Stock) \in Nat /\ Len(fake_have) \in Nat
           /\ Len(Got) = Fake!Upto(FakeBufSize, Stock)
           /\ Len(Got) <= Len(Stock)
           /\ Len(Stock) <= FakeBufSize => Len(Got) = Len(Stock)
           /\ Len(Got) < FakeBufSize => Len(Got) = Len(Stock)
           /\ \A k \in 1..Len(Got) : Got[k] = Stock[k]
           /\ Len(SoFar) = Len(fake_have) + Len(Got)
           /\ fake_have = <<>> => SoFar = Got
<1>1. Stock \in Seq(Fake!Byte)
  BY StockIs
<1>2. fake_have \in Seq(Fake!Byte)
  BY DEF FakeTyped, Fake!TypeOK
<1>3. Len(Stock) \in Nat /\ Len(fake_have) \in Nat /\ FakeBufSize \in Nat
  BY <1>1, <1>2, FakeSizes
<1>4. PICK n : n = Fake!Upto(FakeBufSize, Stock)
  OBVIOUS
<1>5. /\ n \in Nat /\ n <= Len(Stock)
      /\ Len(Stock) <= FakeBufSize => n = Len(Stock)
      /\ n < FakeBufSize => n = Len(Stock)
  BY <1>3, <1>4 DEF Fake!Upto
<1>6. PICK g : g = SubSeq(Stock, 0 + 1, n)
  OBVIOUS
<1>7. g \in Seq(Fake!Byte) /\ Len(g) = n - 0 /\ \A k \in 1..(n - 0) : g[k] = Stock[0 + k]
  BY <1>1, <1>5, <1>6, Cut
<1>8. g \in Seq(Fake!Byte) /\ Len(g) = n /\ \A k \in 1..n : g[k] = Stock[k]
  BY <1>5, <1>7
<1>9. Got = g
  BY <1>4, <1>6 DEF Got
<1>10. PICK b : b = fake_have \o g
  OBVIOUS
<1>11. b \in Seq(Fake!Byte) /\ Len(b) = Len(fake_have) + Len(g)
  BY <1>2, <1>8, <1>10, ConcatProperties, Zenon
<1>12. SoFar = b
  BY <1>9, <1>10 DEF SoFar
<1>13. fake_have = <<>> => b = g
  BY <1>8, <1>10, ConcatEmptySeq
<1>14. QED
  BY <1>3, <1>4, <1>5, <1>8, <1>9, <1>11, <1>12, <1>13

\* What becomes of a container of which SoFar was read: the reader waits for
\* more of it, the call ends, drops it, or takes its data.
Waits(h) ==
    /\ Len(SoFar) < h.len
    /\ fake_pc' = "more" /\ fake_have' = SoFar /\ header' = h
    /\ UNCHANGED <<phase, guard, data, result>>

Drops == Fake!NextContainer /\ guard' \in 0..FakeStrayLimit /\ UNCHANGED <<phase, data>>

TakesData(h) ==
    /\ Fake!NextContainer
    /\ h.len >= FakeHeaderLen /\ Len(SoFar) >= h.len
    /\ phase' = "resp" /\ data' = SubSeq(SoFar, FakeHeaderLen + 1, h.len)
    /\ UNCHANGED guard

Answers(h) ==
    \/ Waits(h)
    \/ Len(SoFar) >= h.len /\ Fake!End("ok", h)
    \/ Drops
    \/ TakesData(h)
    \/ Fake!End("threw", Fake!NoHeader)

LEMMA CollectOutcome ==
    ASSUME FakeTyped, NEW h \in Fake!Containers, Fake!Collect(h, SoFar)
    PROVE  Answers(h)
<1>1. PICK n : n = Len(SoFar)
  OBVIOUS
<1>2. n \in Nat /\ h.len \in Nat
  BY <1>1, GotIs, FakeSizes DEF Fake!Containers
<1>3. CASE n >= h.len
  <2>1. Fake!Take(h, SoFar)
    BY <1>1, <1>3 DEF Fake!Collect
  <2>2. FakeStrayLimit \in Nat /\ guard \in 0..FakeStrayLimit
    BY FakeSizes DEF FakeTyped, Fake!TypeOK
  <2>3. CASE phase = "answer" /\ h.type = "EVENT" /\ guard < FakeStrayLimit
             /\ Fake!NextContainer /\ guard' = guard + 1 /\ UNCHANGED <<phase, data>>
    <3>1. guard' \in 0..FakeStrayLimit
      BY <2>2, <2>3
    <3>2. QED
      BY <2>3, <3>1 DEF Answers, Drops
  <2>4. QED
    BY <1>1, <1>3, <2>1, <2>3 DEF Fake!Take, Answers, TakesData
<1>4. CASE ~(n >= h.len)
  <2>1. n < h.len
    BY <1>2, <1>4
  <2>2. QED
    BY <1>1, <1>4, <2>1 DEF Fake!Collect, Answers, Waits
<1>5. QED
  BY <1>3, <1>4

\* The header of a first read, or the one read before.
Header(h) ==
    /\ fake_pc = "first" => Len(Got) >= FakeHeaderLen /\ h \in Fake!HeaderOf(Got[1])
    /\ fake_pc = "more" => h = header

LEMMA HeaderTyped ==
    ASSUME NEW b \in Fake!Byte, NEW h \in Fake!HeaderOf(b)
    PROVE  /\ h \in Fake!Containers
           /\ b[2] = 1 /\ b[1].sent >= FakeHeaderLen => h = b[1]
           /\ ~(b[2] = 1 /\ b[1].sent >= FakeHeaderLen) => h.id # 0
<1>1. b[1] \in Fake!Containers
  BY DEF Fake!Byte
<1>2. CASE b[2] = 1 /\ b[1].sent >= FakeHeaderLen
  BY <1>1, <1>2 DEF Fake!HeaderOf
<1>3. CASE ~(b[2] = 1 /\ b[1].sent >= FakeHeaderLen)
  <2>1. PICK type \in Fake!Types, len \in FakeJunkLengths : h = Fake!Container(Fake!Junk, type, len, 0, 0)
    BY <1>3 DEF Fake!HeaderOf
  <2>2. Fake!Junk \in 0..Fake!Junk /\ Fake!Junk # 0
    BY FakeSizes DEF Fake!Junk
  <2>3. h \in Fake!Containers
    BY <2>1, <2>2, AContainer, NoHeaderTyped
  <2>4. h.id = Fake!Junk
    BY <2>1 DEF Fake!Container
  <2>5. QED
    BY <1>3, <2>2, <2>3, <2>4
<1>4. QED
  BY <1>2, <1>3

LEMMA ReadOutcome ==
    ASSUME FakeTyped, Fake!ReadSome
    PROVE  /\ fake_pc \in {"first", "more"}
           /\ rx' = SubSeq(Stock, Len(Got) + 1, Len(Stock))
           /\ UNCHANGED <<last_txn, writes, next_tid, tid, queued, calls, small>>
           /\ \/ /\ fake_pc = "first" /\ Len(Got) < FakeHeaderLen
                 /\ Fake!End("short", Fake!NoHeader)
              \/ \E h \in Fake!Containers : Header(h) /\ Answers(h)
<1>1. /\ fake_pc # "idle"
      /\ rx' = SubSeq(Stock, Fake!Upto(FakeBufSize, Stock) + 1, Len(Stock))
      /\ Fake!First(Got) \/ Fake!More(Got)
      /\ UNCHANGED <<last_txn, writes, next_tid, tid, queued, calls, small>>
  BY DEF Fake!ReadSome, Stock, Got
<1>2. fake_pc \in {"first", "more"}
  BY <1>1 DEF FakeTyped, Fake!TypeOK
<1>3. rx' = SubSeq(Stock, Len(Got) + 1, Len(Stock))
  BY <1>1, GotIs
<1>4. CASE Fake!First(Got)
  <2>1. fake_pc = "first"
    BY <1>4 DEF Fake!First
  <2>2. SoFar = Got /\ Len(Got) \in Nat /\ Got \in Seq(Fake!Byte)
    BY <2>1, GotIs DEF FakeTyped
  <2>3. CASE Len(Got) < FakeHeaderLen
    BY <1>1, <1>2, <1>3, <1>4, <2>1, <2>3 DEF Fake!First
  <2>4. CASE ~(Len(Got) < FakeHeaderLen)
    <3>1. PICK h \in Fake!HeaderOf(Got[1]) : Fake!Collect(h, Got)
      BY <1>4, <2>4 DEF Fake!First
    <3>2. Len(Got) >= FakeHeaderLen /\ 1 \in 1..Len(Got)
      BY <2>2, <2>4, FakeSizes
    <3>3. Got[1] \in Fake!Byte
      BY <2>2, <3>2
    <3>4. h \in Fake!Containers
      BY <3>1, <3>3, HeaderTyped
    <3>5. Answers(h)
      BY <2>2, <3>1, <3>4, CollectOutcome
    <3>6. Header(h)
      BY <2>1, <3>1, <3>2 DEF Header
    <3>7. QED
      BY <1>1, <1>2, <1>3, <3>4, <3>5, <3>6
  <2>5. QED
    BY <2>3, <2>4
<1>5. CASE Fake!More(Got)
  <2>1. fake_pc = "more" /\ Fake!Collect(header, SoFar)
    BY <1>5 DEF Fake!More, SoFar
  <2>2. header \in Fake!Containers
    BY DEF FakeTyped, Fake!TypeOK
  <2>3. Answers(header)
    BY <2>1, <2>2, CollectOutcome
  <2>4. Header(header)
    BY <2>1 DEF Header
  <2>5. QED
    BY <1>1, <1>2, <1>3, <2>2, <2>3, <2>4
<1>6. QED
  BY <1>1, <1>4, <1>5

\* What a read leaves in the queue.
LEMMA RestIs ==
    ASSUME FakeTyped, NEW r, r = SubSeq(Stock, Len(Got) + 1, Len(Stock))
    PROVE  /\ r \in Seq(Fake!Byte) /\ Len(r) = Len(Stock) - Len(Got)
           /\ \A k \in 1..Len(r) : r[k] = Stock[Len(Got) + k]
           /\ Len(Stock) <= FakeBufSize => r = <<>>
           /\ rx = <<>> => Len(Stock) <= FakeBufSize
<1>1. Stock \in Seq(Fake!Byte)
  BY StockIs
<1>2. /\ Len(Got) \in Nat /\ Len(Stock) \in Nat /\ Len(Got) <= Len(Stock)
      /\ Len(Stock) <= FakeBufSize => Len(Got) = Len(Stock)
  BY GotIs
<1>3. /\ r \in Seq(Fake!Byte) /\ Len(r) = Len(Stock) - Len(Got)
      /\ \A k \in 1..(Len(Stock) - Len(Got)) : r[k] = Stock[Len(Got) + k]
  BY <1>1, <1>2, Cut
<1>4. ASSUME Len(Stock) <= FakeBufSize PROVE r = <<>>
  <2>1. Len(r) = 0
    BY <1>2, <1>3, <1>4
  <2>2. QED
    BY <1>3, <2>1, EmptySeq
<1>5. ASSUME rx = <<>> PROVE Len(Stock) <= FakeBufSize
  <2>1. Stock = <<>> \/ Stock = Fake!Bytes(Fake!OK(last_txn), FakeHeaderLen)
    BY <1>5, StockIs
  <2>2. Len(Stock) = 0 \/ Len(Stock) = FakeHeaderLen
    BY <2>1, FakeBytes, FakeSizes
  <2>3. QED
    BY <2>2, FakeSizes
<1>6. QED
  BY <1>3, <1>4, <1>5

Results ==
    [status : {"none", "ok", "short", "threw"}, tid : 0..(FakeTidMod - 1),
     resp : Fake!Containers, data : Seq(Fake!Byte)]

\* The variables that a read moves, apart from the queue.
ReaderTyped(p, ph, g, d, b, h, r) ==
    /\ p \in {"idle", "first", "more"}
    /\ ph \in {"any", "answer", "resp"}
    /\ g \in 0..FakeStrayLimit
    /\ d \in Seq(Fake!Byte)
    /\ b \in Seq(Fake!Byte) /\ (p = "more" => Len(b) < h.len) /\ (p # "more" => b = <<>>)
    /\ h \in Fake!Containers
    /\ r \in Results

LEMMA TypedReader ==
    ASSUME FakeTyped
    PROVE  ReaderTyped(fake_pc, phase, guard, data, fake_have, header, result)
  BY DEF FakeTyped, Fake!TypeOK, ReaderTyped, Results

LEMMA EmptyTyped == <<>> \in Seq(Fake!Byte)
  OBVIOUS

LEMMA EndTyped ==
    ASSUME FakeTyped, NEW status \in {"ok", "short", "threw"}, NEW h \in Fake!Containers,
           Fake!End(status, h)
    PROVE  ReaderTyped(fake_pc', phase', guard', data', fake_have', header', result')
<1>1. /\ phase \in {"any", "answer", "resp"} /\ guard \in 0..FakeStrayLimit
      /\ data \in Seq(Fake!Byte) /\ tid \in 0..(FakeTidMod - 1)
  BY DEF FakeTyped, Fake!TypeOK
<1>2. PICK d : d = IF status = "ok" THEN data ELSE <<>>
  OBVIOUS
<1>3. d \in Seq(Fake!Byte)
  BY <1>1, <1>2, EmptyTyped
<1>4. result' = [status |-> status, tid |-> tid, resp |-> h, data |-> d]
  BY <1>2 DEF Fake!End
<1>5. result' \in Results
  BY <1>1, <1>3, <1>4 DEF Results
<1>6. /\ fake_pc' = "idle" /\ phase' = phase /\ guard' = guard /\ data' = <<>>
      /\ fake_have' = <<>> /\ header' = Fake!NoHeader
  BY DEF Fake!End
<1>7. QED
  BY <1>1, <1>5, <1>6, EmptyTyped, NoHeaderTyped DEF ReaderTyped

LEMMA AnswersTyped ==
    ASSUME FakeTyped, NEW h \in Fake!Containers, Answers(h)
    PROVE  ReaderTyped(fake_pc', phase', guard', data', fake_have', header', result')
<1>1. ReaderTyped(fake_pc, phase, guard, data, fake_have, header, result)
  BY TypedReader
<1>2. SoFar \in Seq(Fake!Byte) /\ Len(SoFar) \in Nat
  BY GotIs
<1>3. CASE Waits(h)
  BY <1>1, <1>2, <1>3 DEF Waits, ReaderTyped
<1>4. CASE Fake!End("ok", h)
  BY <1>4, EndTyped
<1>5. CASE Drops
  BY <1>1, <1>5, EmptyTyped, NoHeaderTyped DEF Drops, Fake!NextContainer, ReaderTyped
<1>6. CASE TakesData(h)
  <2>1. /\ h.len \in Nat /\ FakeHeaderLen \in Nat /\ FakeHeaderLen <= h.len
    BY <1>6, FakeSizes DEF Fake!Containers, TakesData
  <2>2. h.len <= Len(SoFar)
    BY <1>2, <1>6, <2>1 DEF TakesData
  <2>3. PICK d : d = SubSeq(SoFar, FakeHeaderLen + 1, h.len)
    OBVIOUS
  <2>4. d \in Seq(Fake!Byte)
    BY <1>2, <2>1, <2>2, <2>3, Cut
  <2>5. data' = d
    BY <1>6, <2>3 DEF TakesData
  <2>6. QED
    BY <1>1, <1>6, <2>4, <2>5, EmptyTyped, NoHeaderTyped
    DEF TakesData, Fake!NextContainer, ReaderTyped
<1>7. CASE Fake!End("threw", Fake!NoHeader)
  BY <1>7, EndTyped, NoHeaderTyped
<1>8. QED
  BY <1>3, <1>4, <1>5, <1>6, <1>7 DEF Answers

LEMMA ReadTyped == FakeTyped /\ Fake!ReadSome => FakeTyped'
<1> SUFFICES ASSUME FakeTyped, Fake!ReadSome PROVE FakeTyped'
  OBVIOUS
<1>1. /\ rx' = SubSeq(Stock, Len(Got) + 1, Len(Stock))
      /\ UNCHANGED <<last_txn, writes, next_tid, tid, queued, calls, small>>
      /\ fake_pc # "idle"
  BY ReadOutcome
<1>2. PICK r : r = SubSeq(Stock, Len(Got) + 1, Len(Stock))
  OBVIOUS
<1>3. /\ r \in Seq(Fake!Byte) /\ Len(r) = Len(Stock) - Len(Got)
      /\ \A k \in 1..Len(r) : r[k] = Stock[Len(Got) + k]
      /\ rx = <<>> => r = <<>>
  BY <1>2, RestIs
<1>4. \A k \in DOMAIN r : r[k][1].id # 0
  <2>1. SUFFICES ASSUME rx # <<>>, NEW k \in 1..Len(r) PROVE r[k][1].id # 0
    BY <1>3
  <2>2. Stock = rx
    BY <2>1, StockIs
  <2>3. Len(Got) + k \in 1..Len(Stock)
    BY <1>3, GotIs
  <2>4. DOMAIN rx = 1..Len(rx)
    BY DEF FakeTyped, Fake!TypeOK
  <2>5. r[k] = rx[Len(Got) + k] /\ Len(Got) + k \in DOMAIN rx
    BY <1>3, <2>1, <2>2, <2>3, <2>4
  <2>6. QED
    BY <2>5 DEF FakeTyped, Fake!TypeOK
<1>5. ReaderTyped(fake_pc', phase', guard', data', fake_have', header', result')
  <2>1. CASE Fake!End("short", Fake!NoHeader)
    BY <2>1, EndTyped, NoHeaderTyped
  <2>2. CASE \E h \in Fake!Containers : Header(h) /\ Answers(h)
    BY <2>2, AnswersTyped
  <2>3. QED
    BY <2>1, <2>2, ReadOutcome
<1>6. rx' \in Seq(Fake!Byte) /\ \A k \in DOMAIN rx' : rx'[k][1].id # 0
  BY <1>1, <1>2, <1>3, <1>4
<1>7. QED
  BY <1>1, <1>5, <1>6 DEF FakeTyped, Fake!TypeOK, ReaderTyped, Results

LEMMA QueueReadTyped ==
    ASSUME FakeTyped, NEW type \in {"EVENT", "DATA", "RESPONSE"}, NEW len \in FakeLengths,
           NEW n \in FakeLengths \cup 1..FakeHeaderLen, Fake!QueueRead(type, len, n)
    PROVE  /\ FakeTyped'
           /\ n \in Nat /\ n >= 1
           /\ \E c \in Fake!Containers : c.sent = n /\ rx' = rx \o Fake!Bytes(c, n)
<1>1. PICK c : c = Fake!Container(Len(queued) + 1, type, len, n, 0)
  OBVIOUS
<1>2. /\ fake_pc = "idle" /\ Len(queued) < FakeMaxQueued
      /\ rx' = rx \o Fake!Bytes(c, n) /\ queued' = Append(queued, c)
      /\ UNCHANGED <<last_txn, writes, fake_pc, Fake!callVars, result>>
  BY <1>1 DEF Fake!QueueRead
<1>3. n \in Nat /\ n >= 1
  BY FakeSizes
<1>4. /\ queued \in Seq(Fake!Containers) /\ rx \in Seq(Fake!Byte)
      /\ \A k \in DOMAIN rx : rx[k][1].id # 0
  BY DEF FakeTyped, Fake!TypeOK
<1>5. PICK i : i = Len(queued) + 1
  OBVIOUS
<1>6. i \in 0..Fake!Junk /\ i # 0 /\ i <= FakeMaxQueued /\ i \in Nat
  <2>1. Len(queued) \in Nat /\ FakeMaxQueued \in Nat
    BY <1>4, FakeSizes
  <2>2. QED
    BY <1>2, <1>5, <2>1 DEF Fake!Junk
<1>7. c \in Fake!Containers /\ c.id = i /\ c.sent = n
  <2>1. type \in Fake!Types /\ len \in FakeLengths \cup FakeJunkLengths \cup {FakeHeaderLen}
    BY DEF Fake!Types
  <2>2. c \in Fake!Containers
    BY <1>1, <1>3, <1>5, <1>6, <2>1, AContainer, NoHeaderTyped
  <2>3. QED
    BY <1>1, <1>5, <2>2 DEF Fake!Container
<1>8. PICK t : t = Fake!Bytes(c, n)
  OBVIOUS
<1>9. t \in Seq({c} \X Nat) /\ Len(t) = n /\ \A k \in 1..n : t[k] = <<c, k>>
  BY <1>3, <1>8, FakeBytes
<1>10. t \in Seq(Fake!Byte)
  <2>1. {c} \X Nat \subseteq Fake!Byte
    BY <1>7 DEF Fake!Byte
  <2>2. QED
    BY <1>9, <2>1
<1>11. PICK u : u = rx \o t
  OBVIOUS
<1>12. /\ u \in Seq(Fake!Byte) /\ Len(u) = Len(rx) + Len(t)
       /\ \A k \in 1..Len(rx) : u[k] = rx[k]
       /\ \A k \in 1..Len(t) : u[Len(rx) + k] = t[k]
  <2>1. rx \in Seq(Fake!Byte)
    BY <1>4
  <2>2. QED
    BY ONLY <1>10, <1>11, <2>1, Joined, SMT
<1>13. ASSUME NEW k \in DOMAIN u PROVE u[k][1].id # 0
  <2>1. k \in Nat /\ k >= 1 /\ k <= Len(rx) + n /\ Len(rx) \in Nat /\ n \in Nat
    BY <1>3, <1>4, <1>9, <1>12
  <2>2. CASE k <= Len(rx)
    BY <1>4, <1>12, <2>1, <2>2
  <2>3. CASE ~(k <= Len(rx))
    <3>1. PICK j : j = k - Len(rx)
      OBVIOUS
    <3>2. j \in 1..n /\ k = Len(rx) + j
      BY <2>1, <2>3, <3>1
    <3>3. u[k] = <<c, j>>
      BY <1>9, <1>12, <3>2
    <3>4. QED
      BY <1>6, <1>7, <3>3
  <2>4. QED
    BY <2>2, <2>3
<1>14. rx' = u
  BY <1>2, <1>8, <1>11
<1>15. queued' \in Seq(Fake!Containers) /\ Len(queued') <= FakeMaxQueued
  <2>1. queued' \in Seq(Fake!Containers) /\ Len(queued') = Len(queued) + 1
    BY <1>2, <1>4, <1>7, AppendProperties
  <2>2. QED
    BY <1>5, <1>6, <2>1
<1>16. FakeTyped'
  BY <1>2, <1>12, <1>13, <1>14, <1>15 DEF FakeTyped, Fake!TypeOK, Fake!callVars
<1>17. QED
  BY <1>2, <1>3, <1>7, <1>16

LEMMA BeginTyped ==
    ASSUME FakeTyped, NEW kind \in {"any", "answer"}, NEW params \in {0, 1},
           NEW data_out \in BOOLEAN, Fake!Begin(kind, params, data_out)
    PROVE  FakeTyped'
<1>1. /\ fake_pc = "idle" /\ calls' = calls + 1 /\ calls < FakeMaxCalls
      /\ tid' = next_tid /\ next_tid' = (next_tid + 1) % FakeTidMod
      /\ last_txn' = IF Fake!Noticed(FakeHeaderLen + params) THEN next_tid ELSE last_txn
      /\ fake_pc' = "first" /\ phase' = kind /\ guard' = 0 /\ data' = <<>>
      /\ result' = Fake!NoResult
      /\ small' = (Len(rx) <= FakeBufSize)
      /\ UNCHANGED <<rx, fake_have, header, queued>>
  BY DEF Fake!Begin
<1>2. next_tid \in 0..(FakeTidMod - 1) /\ next_tid' \in 0..(FakeTidMod - 1)
  <2>1. FakeTidMod \in Nat /\ FakeTidMod > 1 /\ next_tid \in 0..(FakeTidMod - 1)
    BY FakeSizes DEF FakeTyped, Fake!TypeOK
  <2>2. (next_tid + 1) % FakeTidMod \in 0..(FakeTidMod - 1)
    BY <2>1
  <2>3. QED
    BY <1>1, <2>1, <2>2
<1>3. last_txn' = next_tid
  BY <1>1, FakeSizes DEF Fake!Noticed
<1>4. writes' \in Seq({"COMMAND", "DATA"})
  <2>1. PICK w : w = IF data_out THEN <<"COMMAND", "DATA">> ELSE <<"COMMAND">>
    OBVIOUS
  <2>2. w \in Seq({"COMMAND", "DATA"})
    <3>1. CASE data_out
      BY <2>1, <3>1
    <3>2. CASE ~data_out
      BY <2>1, <3>2
    <3>3. QED
      BY <3>1, <3>2
  <2>3. writes \in Seq({"COMMAND", "DATA"}) /\ writes' = writes \o w
    BY <2>1 DEF FakeTyped, Fake!TypeOK, Fake!Begin
  <2>4. QED
    BY <2>2, <2>3, ConcatProperties, Zenon
<1>5. calls' \in 0..FakeMaxCalls
  BY <1>1, FakeSizes DEF FakeTyped, Fake!TypeOK
<1>6. result' \in Results
  BY <1>1, EmptyTyped, NoHeaderTyped DEF Fake!NoResult, Results
<1>7. 0 \in 0..FakeStrayLimit
  BY FakeSizes
<1>8. small' \in BOOLEAN
  BY <1>1
<1>9. fake_have = <<>>
  BY <1>1 DEF FakeTyped
<1>10. QED
  BY <1>1, <1>2, <1>3, <1>4, <1>5, <1>6, <1>7, <1>8, <1>9, EmptyTyped
  DEF FakeTyped, Fake!TypeOK, Results

LEMMA FakeInitTyped == Fake!Init => FakeTyped
<1> SUFFICES ASSUME Fake!Init PROVE FakeTyped
  OBVIOUS
<1>1. /\ 0 \in 0..(FakeTidMod - 1) /\ 1 \in 0..(FakeTidMod - 1) /\ 0 \in 0..FakeStrayLimit
      /\ 0 \in 0..FakeMaxCalls /\ 0 <= FakeMaxQueued
  BY FakeSizes
<1>2. Fake!NoResult \in Results
  BY EmptyTyped, NoHeaderTyped DEF Fake!NoResult, Results
<1>3. <<>> \in Seq(Fake!Containers) /\ <<>> \in Seq({"COMMAND", "DATA"}) /\ Len(<<>>) = 0
  OBVIOUS
<1>4. QED
  BY <1>1, <1>2, <1>3, EmptyTyped, NoHeaderTyped DEF Fake!Init, FakeTyped, Fake!TypeOK, Results

LEMMA CloseTyped == FakeTyped /\ Fake!Close => FakeTyped'
  BY EmptyTyped DEF FakeTyped, Fake!TypeOK, Fake!Close, Fake!callVars

LEMMA FakeUnchanged == FakeTyped /\ UNCHANGED Fake!vars => FakeTyped'
  BY DEF FakeTyped, Fake!TypeOK, Fake!vars, Fake!callVars

LEMMA FakeNextTyped == FakeTyped /\ [Fake!Next]_Fake!vars => FakeTyped'
  BY QueueReadTyped, BeginTyped, CloseTyped, ReadTyped, FakeUnchanged DEF Fake!Next

-----------------------------------------------------------------------------
(***************************************************************************)
(* The fake: whose answer a call gets.                                     *)
(***************************************************************************)

\* A header of the fake's own shows only when nothing was queued, and then it is
\* that of a whole OK to the last command.
LEMMA FirstHeader ==
    ASSUME FakeTyped, NEW h \in Fake!Containers, Header(h), fake_pc = "first"
    PROVE  /\ Len(Got) >= FakeHeaderLen /\ SoFar = Got
           /\ Got[1] \in Fake!Byte
           /\ Got[1][2] = 1 /\ Got[1][1].sent >= FakeHeaderLen => h = Got[1][1]
           /\ h.id = 0 => rx = <<>>
           /\ rx = <<>> => h = Fake!OK(last_txn) /\ Len(SoFar) >= h.len
<1>1. Len(Got) >= FakeHeaderLen /\ h \in Fake!HeaderOf(Got[1])
  BY DEF Header
<1>2. SoFar = Got
  BY GotIs DEF FakeTyped
<1>3. /\ 1 \in 1..Len(Got) /\ Len(Got) \in Nat /\ Len(Stock) \in Nat /\ Len(Got) <= Len(Stock)
      /\ 1 \in 1..Len(Stock)
  BY <1>1, GotIs, FakeSizes
<1>4. Got[1] = Stock[1] /\ Got[1] \in Fake!Byte
  BY <1>3, GotIs
<1>5. /\ Got[1][2] = 1 /\ Got[1][1].sent >= FakeHeaderLen => h = Got[1][1]
      /\ ~(Got[1][2] = 1 /\ Got[1][1].sent >= FakeHeaderLen) => h.id # 0
  BY <1>1, <1>4, HeaderTyped
<1>6. ASSUME rx # <<>> PROVE h.id # 0
  <2>1. Stock = rx
    BY <1>6, StockIs
  <2>2. 1 \in DOMAIN rx
    BY <1>3, <2>1 DEF FakeTyped, Fake!TypeOK
  <2>3. rx[1][1].id # 0
    BY <2>2 DEF FakeTyped, Fake!TypeOK
  <2>4. QED
    BY <1>4, <1>5, <2>1, <2>3
<1>7. ASSUME rx = <<>> PROVE h = Fake!OK(last_txn) /\ Len(SoFar) >= h.len
  <2>1. Stock # <<>>
    BY <1>3
  <2>2. Stock = Fake!Bytes(Fake!OK(last_txn), FakeHeaderLen)
    BY <1>7, <2>1, StockIs
  <2>3. Stock[1] = <<Fake!OK(last_txn), 1>>
    <3>1. FakeHeaderLen \in Nat /\ 1 \in 1..FakeHeaderLen
      BY FakeSizes
    <3>2. QED
      BY ONLY <2>2, <3>1, FakeBytes, Zenon
  <2>4. h = Fake!OK(last_txn)
    <3>1. Fake!OK(last_txn).sent >= FakeHeaderLen
      BY OwnContainer, FakeSizes DEF FakeTyped, Fake!TypeOK
    <3>2. QED
      BY <1>4, <1>5, <2>3, <3>1
  <2>5. h.len = FakeHeaderLen
    BY <2>4, OwnContainer DEF FakeTyped, Fake!TypeOK
  <2>6. QED
    BY <1>1, <1>2, <2>4, <2>5
<1>8. QED
  BY <1>1, <1>2, <1>4, <1>5, <1>6, <1>7

\* OwnOk, and what it rests on: the header of an OK that is held is the call's too.
Owned ==
    /\ Fake!OwnOk
    /\ fake_pc = "more" /\ header.id = 0 => header.tid = tid

LEMMA ReadOwned == FakeTyped /\ Owned /\ Fake!ReadSome => Owned'
<1> SUFFICES ASSUME FakeTyped, Owned, Fake!ReadSome PROVE Owned'
  OBVIOUS
<1>1. tid' = tid
  BY ReadOutcome
<1>2. CASE Fake!End("short", Fake!NoHeader) \/ Fake!End("threw", Fake!NoHeader)
  BY <1>2 DEF Fake!End, Owned, Fake!OwnOk, Fake!Returned
<1>3. ASSUME NEW h \in Fake!Containers, Header(h), Answers(h) PROVE Owned'
  <2>1. h.id = 0 => h.tid = tid
    <3>1. CASE fake_pc = "first"
      BY <3>1, <1>3, FirstHeader, OwnContainer DEF FakeTyped, Fake!TypeOK
    <3>2. CASE fake_pc = "more"
      BY <3>2, <1>3 DEF Header, Owned
    <3>3. QED
      BY <3>1, <3>2, ReadOutcome
  <2>2. CASE Waits(h)
    BY <1>1, <2>1, <2>2 DEF Waits, Owned, Fake!OwnOk, Fake!Returned
  <2>3. CASE Fake!End("ok", h)
    BY <2>1, <2>3 DEF Fake!End, Owned, Fake!OwnOk, Fake!Returned
  <2>4. CASE Drops \/ TakesData(h)
    BY <1>1, <2>4 DEF Drops, TakesData, Fake!NextContainer, Owned, Fake!OwnOk, Fake!Returned
  <2>5. QED
    BY <1>2, <1>3, <2>2, <2>3, <2>4 DEF Answers
<1>4. QED
  BY <1>2, <1>3, ReadOutcome

LEMMA FakeNextOwned == FakeTyped /\ Owned /\ [Fake!Next]_Fake!vars => Owned'
<1> SUFFICES ASSUME FakeTyped, Owned, [Fake!Next]_Fake!vars PROVE Owned'
  OBVIOUS
<1>1. ASSUME NEW type, NEW len, NEW n, Fake!QueueRead(type, len, n) PROVE Owned'
  BY <1>1 DEF Fake!QueueRead, Fake!callVars, Owned, Fake!OwnOk, Fake!Returned
<1>2. CASE Fake!Close
  BY <1>2 DEF Fake!Close, Fake!callVars, Owned, Fake!OwnOk, Fake!Returned
<1>3. ASSUME NEW kind, NEW params, NEW data_out, Fake!Begin(kind, params, data_out) PROVE Owned'
  BY <1>3 DEF Fake!Begin, Fake!NoResult, Owned, Fake!OwnOk, Fake!Returned
<1>4. CASE UNCHANGED Fake!vars
  BY <1>4 DEF Fake!vars, Fake!callVars, Owned, Fake!OwnOk, Fake!Returned
<1>5. QED
  BY <1>1, <1>2, <1>3, <1>4, ReadOwned DEF Fake!Next

-----------------------------------------------------------------------------
(***************************************************************************)
(* The fake: a queue that fits in one read.                                *)
(***************************************************************************)

\* It stays one; and once the call holds data, nothing is left of it.
Few ==
    fake_pc # "idle" /\ small =>
        /\ Len(rx) <= FakeBufSize
        /\ data # <<>> => rx = <<>> /\ fake_pc = "first"

LEMMA NothingLeft ==
    ASSUME FakeTyped, Few, Fake!ReadSome, small
    PROVE  rx' = <<>>
<1>1. Len(rx) <= FakeBufSize
  BY ReadOutcome DEF Few
<1>2. PICK r : r = SubSeq(Stock, Len(Got) + 1, Len(Stock))
  OBVIOUS
<1>3. Len(Stock) <= FakeBufSize
  BY <1>1, <1>2, StockIs, RestIs
<1>4. QED
  BY <1>2, <1>3, RestIs, ReadOutcome

LEMMA ReadFew == FakeTyped /\ Few /\ Fake!ReadSome => Few'
<1> SUFFICES ASSUME FakeTyped, Few, Fake!ReadSome, fake_pc' # "idle", small'
             PROVE  Len(rx') <= FakeBufSize /\ (data' # <<>> => rx' = <<>> /\ fake_pc' = "first")
  BY DEF Few
<1>1. small /\ fake_pc # "idle"
  BY ReadOutcome
<1>2. rx' = <<>>
  BY <1>1, NothingLeft
<1>3. Len(rx') <= FakeBufSize
  BY <1>2, FakeSizes
<1>4. PICK h \in Fake!Containers : Header(h) /\ Answers(h)
  BY ReadOutcome DEF Fake!End
<1>5. CASE Waits(h)
  <2>1. Len(SoFar) < h.len /\ data' = data
    BY <1>5 DEF Waits
  <2>2. data # <<>> => rx = <<>> /\ fake_pc = "first"
    BY <1>1 DEF Few
  <2>3. Len(SoFar) \in Nat /\ h.len \in Nat
    BY GotIs, FakeSizes DEF Fake!Containers
  <2>4. ~(Len(SoFar) >= h.len)
    BY <2>1, <2>3
  <2>5. QED
    BY <1>3, <1>4, <2>1, <2>2, <2>4, FirstHeader
<1>6. CASE Drops \/ TakesData(h)
  BY <1>2, <1>3, <1>6 DEF Drops, TakesData, Fake!NextContainer
<1>7. QED
  BY <1>4, <1>5, <1>6 DEF Answers, Fake!End

LEMMA FakeNextFew == FakeTyped /\ Few /\ [Fake!Next]_Fake!vars => Few'
<1> SUFFICES ASSUME FakeTyped, Few, [Fake!Next]_Fake!vars PROVE Few'
  OBVIOUS
<1>1. ASSUME NEW type, NEW len, NEW n, Fake!QueueRead(type, len, n) PROVE Few'
  BY <1>1 DEF Fake!QueueRead, Few
<1>2. CASE Fake!Close
  BY <1>2 DEF Fake!Close, Few
<1>3. ASSUME NEW kind, NEW params, NEW data_out, Fake!Begin(kind, params, data_out) PROVE Few'
  BY <1>3 DEF Fake!Begin, Few
<1>4. CASE UNCHANGED Fake!vars
  BY <1>4 DEF Fake!vars, Fake!callVars, Few
<1>5. QED
  BY <1>1, <1>2, <1>3, <1>4, ReadFew DEF Fake!Next

\* Only a read ends a call.
LEMMA ReadEndsCall ==
    ASSUME [Fake!Next]_Fake!vars, fake_pc # "idle", fake_pc' = "idle"
    PROVE  Fake!ReadSome
<1>1. ~(\E type, len, n : Fake!QueueRead(type, len, n))
  BY DEF Fake!QueueRead
<1>2. ~Fake!Close
  BY DEF Fake!Close
<1>3. ~(\E kind, params, data_out : Fake!Begin(kind, params, data_out))
  BY DEF Fake!Begin
<1>4. ~(UNCHANGED Fake!vars)
  BY DEF Fake!vars
<1>5. QED
  BY <1>1, <1>2, <1>3, <1>4 DEF Fake!Next

LEMMA LastAnswer ==
    ASSUME FakeTyped, Few, [Fake!Next]_Fake!vars, fake_pc # "idle", fake_pc' = "idle", small
    PROVE  rx' = <<>> /\ (result'.data # <<>> => result'.resp.id = 0)
<1>1. Fake!ReadSome
  BY ReadEndsCall
<1>2. rx' = <<>>
  BY <1>1, NothingLeft
<1>3. CASE Fake!End("short", Fake!NoHeader) \/ Fake!End("threw", Fake!NoHeader)
  BY <1>2, <1>3 DEF Fake!End
<1>4. ASSUME NEW h \in Fake!Containers, Header(h), Answers(h)
      PROVE  result'.data # <<>> => result'.resp.id = 0
  <2>1. CASE Fake!End("ok", h)
    <3>1. result'.data = data /\ result'.resp = h
      BY <2>1 DEF Fake!End
    <3>2. data # <<>> => rx = <<>> /\ fake_pc = "first"
      BY DEF Few
    <3>3. Fake!OK(last_txn).id = 0
      BY OwnContainer DEF FakeTyped, Fake!TypeOK
    <3>4. QED
      BY <1>4, <3>1, <3>2, <3>3, FirstHeader
  <2>2. CASE Fake!End("threw", Fake!NoHeader)
    BY <1>3, <2>2 DEF Fake!End
  <2>3. QED
    BY <1>4, <2>1, <2>2 DEF Answers, Waits, Drops, TakesData, Fake!NextContainer
<1>5. QED
  BY <1>1, <1>2, <1>3, <1>4, ReadOutcome DEF Fake!End

LEMMA ShortCause ==
    ASSUME FakeTyped, [Fake!Next]_Fake!vars,
           fake_pc # "idle", fake_pc' = "idle", result'.status = "short"
    PROVE  Len(rx) \in 1..(FakeHeaderLen - 1) \/ tid = 0
<1>1. Fake!ReadSome
  BY ReadEndsCall
<1>2. ~Fake!End("threw", Fake!NoHeader) /\ \A h : ~Fake!End("ok", h)
  BY DEF Fake!End
<1>3. \A h \in Fake!Containers : ~Answers(h)
  BY <1>2 DEF Answers, Waits, Drops, TakesData, Fake!NextContainer
<1>4. Len(Got) < FakeHeaderLen
  BY <1>1, <1>3, ReadOutcome
<1>5. Len(Stock) < FakeHeaderLen
  BY <1>4, GotIs, FakeSizes
<1>6. last_txn = tid
  BY DEF FakeTyped
<1>7. CASE rx # <<>>
  <2>1. Stock = rx /\ rx \in Seq(Fake!Byte)
    BY <1>7, StockIs
  <2>2. Len(rx) \in Nat /\ Len(rx) # 0
    BY <1>7, <2>1, EmptySeq
  <2>3. QED
    BY <1>5, <2>1, <2>2, FakeSizes
<1>8. CASE rx = <<>>
  <2>1. FakeHeaderLen \in Nat
    BY FakeSizes
  <2>2. Len(Fake!Bytes(Fake!OK(last_txn), FakeHeaderLen)) = FakeHeaderLen
    BY ONLY <2>1, FakeBytes, Zenon
  <2>3. Stock # Fake!Bytes(Fake!OK(last_txn), FakeHeaderLen)
    BY <1>5, <2>1, <2>2
  <2>4. QED
    BY <1>6, <1>8, <2>3, StockIs
<1>9. QED
  BY <1>7, <1>8

-----------------------------------------------------------------------------
(***************************************************************************)
(* The fake: data that was queued whole.                                   *)
(***************************************************************************)

\* Bytes stand in s as they stand in their containers: before byte m of one are
\* its first, as far back as s goes, and behind it the rest that was queued.
Woven(s) ==
    \A i, k \in 1..Len(s) : i <= k =>
        /\ s[k][2] > k - i => s[i][1] = s[k][1] /\ s[i][2] = s[k][2] - (k - i)
        /\ s[i][2] + (k - i) <= s[i][1].sent =>
              s[k][1] = s[i][1] /\ s[k][2] = s[i][2] + (k - i)

\* No byte in s lies beyond what was queued of its container, and the last
\* container in s is in it to the last byte that was.
Clean(s) ==
    /\ \A k \in 1..Len(s) : s[k][2] <= s[k][1].sent
    /\ Len(s) >= 1 => s[Len(s)][2] = s[Len(s)][1].sent

LEMMA BytesTyped ==
    ASSUME NEW s \in Seq(Fake!Byte)
    PROVE  /\ Len(s) \in Nat
           /\ \A k \in 1..Len(s) : s[k] \in Fake!Byte /\ s[k][2] \in Nat /\ s[k][1].sent \in Nat
<1>1. Len(s) \in Nat /\ \A k \in 1..Len(s) : s[k] \in Fake!Byte
  OBVIOUS
<1>2. \A x \in Fake!Byte : x[2] \in Nat /\ x[1].sent \in Nat
  BY DEF Fake!Byte, Fake!Containers
<1>3. QED
  BY <1>1, <1>2

LEMMA WovenNone == Woven(<<>>) /\ Clean(<<>>)
  BY DEF Woven, Clean

\* u is s, and behind it what was queued of the container c.
Behind(u, s, c) ==
    /\ Len(u) = Len(s) + c.sent
    /\ \A k \in 1..Len(s) : u[k] = s[k]
    /\ \A k \in 1..c.sent : u[Len(s) + k][1] = c /\ u[Len(s) + k][2] = k

LEMMA WovenJoin ==
    ASSUME NEW s \in Seq(Fake!Byte), Woven(s), Clean(s),
           NEW c, c.sent \in Nat, c.sent >= 1, NEW u, Behind(u, s, c)
    PROVE  Woven(u) /\ Clean(u)
<1>1. PICK l, n : l = Len(s) /\ n = c.sent
  OBVIOUS
<1>2. l \in Nat /\ n \in Nat /\ n >= 1 /\ \A k \in 1..l : s[k][2] \in Nat /\ s[k][1].sent \in Nat
  BY <1>1, BytesTyped
<1>3. \A k \in 1..n : u[l + k][1] = c /\ u[l + k][2] = k
  BY <1>1 DEF Behind
<1>4. Len(u) = l + n /\ \A k \in 1..l : u[k] = s[k]
  BY <1>1 DEF Behind
<1>5. ASSUME NEW i \in 1..(l + n), NEW k \in 1..(l + n), i <= k
      PROVE  /\ u[k][2] > k - i => u[i][1] = u[k][1] /\ u[i][2] = u[k][2] - (k - i)
             /\ u[i][2] + (k - i) <= u[i][1].sent =>
                   u[k][1] = u[i][1] /\ u[k][2] = u[i][2] + (k - i)
  <2>1. CASE k <= l
    <3>1. i \in 1..l /\ k \in 1..l
      BY <1>2, <1>5, <2>1
    <3>2. u[i] = s[i] /\ u[k] = s[k]
      BY <1>4, <3>1
    <3>3. /\ s[k][2] > k - i => s[i][1] = s[k][1] /\ s[i][2] = s[k][2] - (k - i)
          /\ s[i][2] + (k - i) <= s[i][1].sent =>
                s[k][1] = s[i][1] /\ s[k][2] = s[i][2] + (k - i)
      BY <1>1, <1>5, <3>1 DEF Woven
    <3>4. QED
      BY <3>2, <3>3
  <2>2. CASE i > l
    <3>1. PICK a, b : a = i - l /\ b = k - l
      OBVIOUS
    <3>2. a \in 1..n /\ b \in 1..n /\ i = l + a /\ k = l + b /\ k - i = b - a
      <4>1. l \in Nat /\ n \in Nat /\ i \in Nat /\ k \in Nat /\ i <= k /\ i > l /\ k <= l + n
        BY <1>2, <1>5, <2>2
      <4>2. QED
        BY ONLY <3>1, <4>1
    <3>3. u[i][1] = c /\ u[i][2] = a /\ u[k][1] = c /\ u[k][2] = b
      BY <1>3, <3>2
    <3>4. a = b - (b - a) /\ b = a + (b - a)
      BY <3>2
    <3>5. QED
      BY <3>2, <3>3, <3>4
  <2>3. CASE i <= l /\ k > l
    <3>1. PICK b : b = k - l
      OBVIOUS
    <3>2. b \in 1..n /\ k = l + b /\ i \in 1..l /\ l \in 1..l
      <4>1. /\ l \in Nat /\ n \in Nat /\ i \in Nat /\ k \in Nat
            /\ i >= 1 /\ i <= l /\ k > l /\ k <= l + n
        BY <1>2, <1>5, <2>3
      <4>2. QED
        BY ONLY <3>1, <4>1
    <3>3. u[k][2] = b /\ u[i] = s[i]
      BY <1>3, <1>4, <3>2
    <3>4. ~(u[k][2] > k - i)
      BY <1>2, <3>2, <3>3
    <3>5. PICK m, q : m = s[i][2] /\ q = s[i][1].sent
      OBVIOUS
    <3>6. m \in Nat /\ q \in Nat
      BY <1>2, <3>2, <3>5
    <3>7. m + (l - i) <= q => s[l][1] = s[i][1] /\ s[l][2] = m + (l - i)
      <4>1. s[i][2] + (l - i) <= s[i][1].sent =>
               s[l][1] = s[i][1] /\ s[l][2] = s[i][2] + (l - i)
        BY <1>1, <2>3, <3>2 DEF Woven
      <4>2. QED
        BY <3>5, <4>1
    <3>8. s[l][2] = s[l][1].sent
      BY <1>1, <1>2, <3>2 DEF Clean
    <3>9. m + (l - i) <= q => q = m + (l - i)
      BY <3>5, <3>7, <3>8
    <3>10. ~(m + (k - i) <= q)
      BY <1>2, <2>3, <3>2, <3>6, <3>9
    <3>11. QED
      BY <3>3, <3>4, <3>5, <3>10
  <2>4. QED
    BY <1>2, <1>5, <2>1, <2>2, <2>3
<1>6. Woven(u)
  BY <1>4, <1>5 DEF Woven
<1>7. Clean(u)
  <2>1. n \in 1..n /\ Len(u) = l + n
    BY <1>2, <1>4
  <2>2. u[l + n][1] = c /\ u[l + n][2] = n
    BY <1>3, <2>1
  <2>3. ASSUME NEW k \in 1..(l + n) PROVE u[k][2] <= u[k][1].sent
    <3>1. CASE k <= l
      BY <1>1, <1>2, <1>4, <3>1 DEF Clean
    <3>2. CASE ~(k <= l)
      <4>1. PICK j : j = k - l
        OBVIOUS
      <4>2. j \in 1..n /\ k = l + j
        BY <1>2, <3>2, <4>1
      <4>3. QED
        BY <1>1, <1>3, <4>2
    <3>3. QED
      BY <3>1, <3>2
  <2>4. QED
    BY <1>1, <2>1, <2>2, <2>3 DEF Clean
<1>8. QED
  BY <1>6, <1>7

LEMMA WovenRest ==
    ASSUME NEW s \in Seq(Fake!Byte), Woven(s), Clean(s),
           NEW j \in Nat, j <= Len(s),
           NEW r \in Seq(Fake!Byte), Len(r) = Len(s) - j,
           \A k \in 1..Len(r) : r[k] = s[j + k]
    PROVE  Woven(r) /\ Clean(r)
<1>1. PICK l, n : l = Len(s) /\ n = Len(r)
  OBVIOUS
<1>2. l \in Nat /\ n \in Nat /\ l = j + n
  BY <1>1
<1>3. ASSUME NEW i \in 1..n, NEW k \in 1..n, i <= k
      PROVE  /\ r[k][2] > k - i => r[i][1] = r[k][1] /\ r[i][2] = r[k][2] - (k - i)
             /\ r[i][2] + (k - i) <= r[i][1].sent =>
                   r[k][1] = r[i][1] /\ r[k][2] = r[i][2] + (k - i)
  <2>1. PICK a, b : a = j + i /\ b = j + k
    OBVIOUS
  <2>2. a \in 1..l /\ b \in 1..l /\ a <= b /\ b - a = k - i
    BY <1>2, <1>3, <2>1
  <2>3. r[i] = s[a] /\ r[k] = s[b]
    BY <1>1, <2>1
  <2>4. /\ s[b][2] > b - a => s[a][1] = s[b][1] /\ s[a][2] = s[b][2] - (b - a)
        /\ s[a][2] + (b - a) <= s[a][1].sent =>
              s[b][1] = s[a][1] /\ s[b][2] = s[a][2] + (b - a)
    BY <1>1, <2>2 DEF Woven
  <2>5. QED
    BY <2>2, <2>3, <2>4
<1>4. Woven(r)
  BY <1>1, <1>3 DEF Woven
<1>5. Clean(r)
  <2>0. ASSUME NEW k \in 1..n PROVE r[k][2] <= r[k][1].sent
    <3>1. j + k \in 1..l /\ r[k] = s[j + k]
      BY <1>1, <1>2
    <3>2. QED
      BY <1>1, <3>1 DEF Clean
  <2>1. SUFFICES ASSUME n >= 1 PROVE r[n][2] = r[n][1].sent
    BY <1>1, <2>0 DEF Clean
  <2>2. r[n] = s[l] /\ l >= 1
    BY <1>1, <1>2, <2>1
  <2>3. QED
    BY <1>1, <2>2 DEF Clean
<1>6. QED
  BY <1>4, <1>5

\* From byte p of a container in the pth place on, its bytes stand in theirs.
LEMMA InTheirPlaces ==
    ASSUME NEW s \in Seq(Fake!Byte), Woven(s), NEW p \in 1..Len(s), s[p][2] = p,
           NEW c, c = s[p][1]
    PROVE  /\ s[1] = <<c, 1>>
           /\ \A k \in 1..Len(s) : k <= c.sent => s[k] = <<c, k>>
<1>1. /\ 1 \in 1..Len(s) /\ 1 <= p /\ p > p - 1 /\ p - (p - 1) = 1 /\ Len(s) \in Nat
  OBVIOUS
<1>2. s[1][1] = c /\ s[1][2] = 1
  BY <1>1 DEF Woven
<1>3. \A k \in 1..Len(s) : s[k] = <<s[k][1], s[k][2]>>
  BY BytesTyped DEF Fake!Byte
<1>4. ASSUME NEW k \in 1..Len(s), k <= c.sent PROVE s[k] = <<c, k>>
  <2>1. 1 <= k /\ 1 + (k - 1) = k
    OBVIOUS
  <2>2. s[k][1] = c /\ s[k][2] = k
    BY <1>1, <1>2, <1>4, <2>1 DEF Woven
  <2>3. QED
    BY <1>3, <2>2
<1>5. QED
  BY <1>1, <1>2, <1>3, <1>4

WholeIfWhole(d) ==
    d # <<>> =>
        LET c == d[1][1]
        IN c.sent = c.len /\ d[1][2] = FakeHeaderLen + 1 =>
              d = SubSeq(Fake!Bytes(c, c.len), FakeHeaderLen + 1, c.len)

\* What is held of a container and what is queued behind it; the header is that
\* of the container held, unless what is held begins in the middle of one or its
\* header was cut off; data is whole.
Intact ==
    /\ \E f : f = fake_have \o rx /\ Woven(f) /\ Clean(f)
    /\ fake_pc = "more" =>
          /\ Len(fake_have) >= 1
          /\ fake_have[1][2] = 1 /\ fake_have[1][1].sent >= FakeHeaderLen =>
                header = fake_have[1][1]
    /\ WholeIfWhole(data)
    /\ Fake!Returned => WholeIfWhole(result.data)

\* f is what is held, and behind it what a read finds.
HeldAndFound(f) ==
    /\ Len(f) = Len(fake_have) + Len(Stock)
    /\ \A k \in 1..Len(fake_have) : f[k] = fake_have[k]
    /\ \A k \in 1..Len(Stock) : f[Len(fake_have) + k] = Stock[k]

LEMMA ReadWoven ==
    ASSUME FakeTyped, Intact
    PROVE  \E f \in Seq(Fake!Byte) : Woven(f) /\ Clean(f) /\ HeldAndFound(f)
<1>1. fake_have \in Seq(Fake!Byte) /\ Stock \in Seq(Fake!Byte)
  BY StockIs DEF FakeTyped, Fake!TypeOK
<1>2. PICK st : st = Stock
  OBVIOUS
<1>3. PICK f : f = fake_have \o st
  OBVIOUS
<1>4. /\ f \in Seq(Fake!Byte) /\ Len(f) = Len(fake_have) + Len(st)
      /\ \A k \in 1..Len(fake_have) : f[k] = fake_have[k]
      /\ \A k \in 1..Len(st) : f[Len(fake_have) + k] = st[k]
  <2>1. fake_have \in Seq(Fake!Byte) /\ st \in Seq(Fake!Byte)
    BY <1>1, <1>2
  <2>2. QED
    BY ONLY <1>3, <2>1, JoinedIs, SMT
<1>5. PICK g : g = fake_have \o rx /\ Woven(g) /\ Clean(g)
  BY DEF Intact
<1>6. CASE Stock = rx
  <2>1. f = g
    BY <1>2, <1>3, <1>5, <1>6
  <2>2. QED
    BY <1>2, <1>4, <1>5, <2>1 DEF HeldAndFound
<1>7. CASE rx = <<>> /\ Stock = Fake!Bytes(Fake!OK(last_txn), FakeHeaderLen)
  <2>1. g = fake_have
    BY <1>1, <1>5, <1>7, ConcatEmptySeq, Zenon
  <2>2. PICK c : c = Fake!OK(last_txn)
    OBVIOUS
  <2>3. FakeHeaderLen \in Nat /\ FakeHeaderLen >= 1
    BY FakeSizes
  <2>4. Len(st) = FakeHeaderLen /\ \A k \in 1..FakeHeaderLen : st[k] = <<c, k>>
    BY <1>2, <1>7, <2>2, <2>3, FakeBytes
  <2>5. c.sent = FakeHeaderLen
    BY <2>2, OwnContainer DEF FakeTyped, Fake!TypeOK
  <2>6. \A k \in 1..FakeHeaderLen :
           f[Len(fake_have) + k][1] = c /\ f[Len(fake_have) + k][2] = k
    <3>1. \A k \in 1..FakeHeaderLen : f[Len(fake_have) + k] = <<c, k>>
      BY <1>4, <2>4
    <3>2. QED
      BY <3>1
  <2>7. Woven(fake_have) /\ Clean(fake_have)
    BY <1>5, <2>1
  <2>8. Len(f) = Len(fake_have) + FakeHeaderLen
    BY <1>4, <2>4
  <2>9. Woven(f) /\ Clean(f)
    <3>1. Behind(f, fake_have, c)
      BY <1>4, <2>5, <2>6, <2>8 DEF Behind
    <3>2. QED
      BY <1>1, <2>3, <2>5, <2>7, <3>1, WovenJoin
  <2>10. QED
    BY <1>2, <1>4, <2>9 DEF HeldAndFound
<1>8. QED
  BY <1>6, <1>7, StockIs

LEMMA HeaderFirst ==
    ASSUME FakeTyped, Intact, NEW h \in Fake!Containers, Header(h), fake_pc \in {"first", "more"}
    PROVE  /\ Len(SoFar) >= 1
           /\ SoFar[1][2] = 1 /\ SoFar[1][1].sent >= FakeHeaderLen => h = SoFar[1][1]
<1>1. CASE fake_pc = "first"
  <2>1. /\ Len(Got) >= FakeHeaderLen /\ SoFar = Got
        /\ Got[1][2] = 1 /\ Got[1][1].sent >= FakeHeaderLen => h = Got[1][1]
    BY <1>1, FirstHeader
  <2>2. Len(Got) >= 1
    BY <2>1, FakeSizes, GotIs
  <2>3. QED
    BY <2>1, <2>2
<1>2. CASE fake_pc = "more"
  <2>1. /\ Len(fake_have) >= 1 /\ h = header
        /\ fake_have[1][2] = 1 /\ fake_have[1][1].sent >= FakeHeaderLen =>
              header = fake_have[1][1]
    BY <1>2 DEF Intact, Header
  <2>2. fake_have \in Seq(Fake!Byte) /\ Got \in Seq(Fake!Byte)
    BY GotIs DEF FakeTyped, Fake!TypeOK
  <2>3. PICK b : b = fake_have \o Got
    OBVIOUS
  <2>4. Len(b) = Len(fake_have) + Len(Got) /\ \A k \in 1..Len(fake_have) : b[k] = fake_have[k]
    BY ONLY <2>2, <2>3, JoinedIs, SMT
  <2>5. Len(fake_have) \in Nat /\ Len(Got) \in Nat
    BY GotIs
  <2>6. Len(b) >= 1 /\ b[1] = fake_have[1]
    BY <2>1, <2>4, <2>5
  <2>7. QED
    BY <2>1, <2>3, <2>6 DEF SoFar
<1>3. QED
  BY <1>1, <1>2

\* The two ends of a read, in what was held and found.
LEMMA ReadParts ==
    ASSUME FakeTyped, NEW f \in Seq(Fake!Byte), HeldAndFound(f)
    PROVE  \E r : /\ r = SubSeq(Stock, Len(Got) + 1, Len(Stock))
                  /\ SoFar \in Seq(Fake!Byte) /\ r \in Seq(Fake!Byte)
                  /\ Len(f) = Len(SoFar) + Len(r)
                  /\ \A k \in 1..Len(SoFar) : f[k] = SoFar[k]
                  /\ \A k \in 1..Len(r) : f[Len(SoFar) + k] = r[k]
<1>0. PICK r : r = SubSeq(Stock, Len(Got) + 1, Len(Stock))
  OBVIOUS
<1>1. /\ SoFar \in Seq(Fake!Byte) /\ Len(SoFar) = Len(fake_have) + Len(Got)
      /\ Len(Got) \in Nat /\ Len(Stock) \in Nat /\ Len(fake_have) \in Nat /\ Len(Got) <= Len(Stock)
      /\ \A k \in 1..Len(Got) : Got[k] = Stock[k]
  BY GotIs
<1>2. /\ r \in Seq(Fake!Byte) /\ Len(r) = Len(Stock) - Len(Got)
      /\ \A k \in 1..Len(r) : r[k] = Stock[Len(Got) + k]
  BY <1>0, RestIs
<1>3. PICK b : b = fake_have \o Got
  OBVIOUS
<1>4. /\ \A k \in 1..Len(fake_have) : b[k] = fake_have[k]
      /\ \A k \in 1..Len(Got) : b[Len(fake_have) + k] = Got[k]
  <2>1. fake_have \in Seq(Fake!Byte) /\ Got \in Seq(Fake!Byte)
    BY GotIs DEF FakeTyped, Fake!TypeOK
  <2>2. QED
    BY ONLY <1>3, <2>1, JoinedIs, SMT
<1>5. PICK x, y, z : x = Len(fake_have) /\ y = Len(Got) /\ z = Len(Stock)
  OBVIOUS
<1>6. x \in Nat /\ y \in Nat /\ z \in Nat /\ y <= z
  BY <1>1, <1>5
<1>7. ASSUME NEW k \in 1..(x + y) PROVE f[k] = b[k]
  <2>1. CASE k <= x
    BY <1>4, <1>5, <2>1 DEF HeldAndFound
  <2>2. CASE ~(k <= x)
    <3>1. PICK j : j = k - x
      OBVIOUS
    <3>2. j \in 1..y /\ j \in 1..z /\ k = x + j
      BY <1>6, <2>2, <3>1
    <3>3. f[k] = Stock[j] /\ b[k] = Got[j] /\ Got[j] = Stock[j]
      BY <1>1, <1>4, <1>5, <3>2 DEF HeldAndFound
    <3>4. QED
      BY <3>3
  <2>3. QED
    BY <2>1, <2>2
<1>8. ASSUME NEW k \in 1..(z - y) PROVE f[(x + y) + k] = r[k]
  <2>1. y + k \in 1..z /\ x + (y + k) = (x + y) + k
    BY <1>6
  <2>2. f[x + (y + k)] = Stock[y + k] /\ r[k] = Stock[y + k]
    BY <1>2, <1>5, <2>1 DEF HeldAndFound
  <2>3. QED
    BY <2>1, <2>2
<1>9. Len(SoFar) = x + y /\ Len(r) = z - y /\ Len(f) = (x + y) + (z - y)
  BY <1>1, <1>2, <1>5, <1>6 DEF HeldAndFound
<1>10. SoFar = b
  BY <1>3 DEF SoFar
<1>11. /\ SoFar \in Seq(Fake!Byte) /\ r \in Seq(Fake!Byte)
       /\ Len(f) = Len(SoFar) + Len(r)
       /\ \A k \in 1..Len(SoFar) : f[k] = SoFar[k]
       /\ \A k \in 1..Len(r) : f[Len(SoFar) + k] = r[k]
  BY <1>1, <1>2, <1>7, <1>8, <1>9, <1>10
<1>12. QED
  BY <1>0, <1>11, Zenon

\* Data that begins behind a header is the whole of it.
LEMMA DataWhole ==
    ASSUME FakeTyped, Intact, Fake!ReadSome, NEW h \in Fake!Containers, Header(h), TakesData(h),
           NEW f \in Seq(Fake!Byte), Woven(f), Clean(f), Len(SoFar) <= Len(f),
           \A k \in 1..Len(SoFar) : f[k] = SoFar[k]
    PROVE  WholeIfWhole(data')
<1>1. /\ FakeHeaderLen \in Nat /\ FakeHeaderLen >= 1
      /\ h.len \in Nat /\ h.len >= FakeHeaderLen
      /\ SoFar \in Seq(Fake!Byte) /\ Len(SoFar) \in Nat
  BY FakeSizes, GotIs DEF Fake!Containers, TakesData
<1>2. h.len <= Len(SoFar)
  BY <1>1 DEF TakesData
<1>3. PICK d : d = SubSeq(SoFar, FakeHeaderLen + 1, h.len)
  OBVIOUS
<1>4. /\ d \in Seq(Fake!Byte) /\ Len(d) = h.len - FakeHeaderLen
      /\ \A k \in 1..(h.len - FakeHeaderLen) : d[k] = SoFar[FakeHeaderLen + k]
  BY <1>1, <1>2, <1>3, Cut
<1>5. data' = d
  BY <1>3 DEF TakesData
<1>6. PICK c : c = d[1][1]
  OBVIOUS
<1>7. ASSUME d # <<>>, c.sent = c.len, d[1][2] = FakeHeaderLen + 1
      PROVE  d = SubSeq(Fake!Bytes(c, c.len), FakeHeaderLen + 1, c.len)
  <2>1. PICK p : p = FakeHeaderLen + 1
    OBVIOUS
  <2>2. h.len - FakeHeaderLen >= 1
    <3>1. Len(d) # 0
      BY <1>4, <1>7, EmptySeq
    <3>2. QED
      BY <1>1, <1>4, <3>1
  <2>3. p \in 1..Len(SoFar) /\ p \in 1..Len(f) /\ 1 \in 1..(h.len - FakeHeaderLen)
    <3>1. Len(f) \in Nat
      OBVIOUS
    <3>2. QED
      BY <1>1, <1>2, <2>1, <2>2, <3>1
  <2>4. d[1] = SoFar[p] /\ SoFar[p] = f[p]
    BY <1>4, <2>1, <2>3
  <2>5. f[p][2] = p /\ c = f[p][1]
    BY <1>6, <1>7, <2>1, <2>4
  <2>6. f[1] = <<c, 1>> /\ \A k \in 1..Len(f) : k <= c.sent => f[k] = <<c, k>>
    BY <2>3, <2>5, InTheirPlaces
  <2>7. 1 \in 1..Len(SoFar)
    BY <1>1, <2>1, <2>3
  <2>8. SoFar[1] = <<c, 1>>
    BY <2>6, <2>7
  <2>9. h = c
    <3>1. fake_pc \in {"first", "more"}
      BY ReadOutcome
    <3>2. SoFar[1][2] = 1 /\ SoFar[1][1].sent >= FakeHeaderLen => h = SoFar[1][1]
      BY <3>1, HeaderFirst
    <3>3. SoFar[1][2] = 1 /\ SoFar[1][1] = c /\ c.sent >= FakeHeaderLen
      <4>1. p <= c.sent
        BY <2>3, <2>5 DEF Clean
      <4>2. c.sent \in Nat
        BY <2>3, <2>5, BytesTyped
      <4>3. QED
        BY <1>1, <2>1, <2>8, <4>1, <4>2
    <3>4. QED
      BY <3>2, <3>3
  <2>10. PICK w : w = Fake!Bytes(c, c.len)
    OBVIOUS
  <2>11. /\ w \in Seq({c} \X Nat) /\ Len(w) = c.len
         /\ \A k \in 1..c.len : w[k] = <<c, k>>
    BY <1>1, <2>9, <2>10, FakeBytes
  <2>12. w \in Seq(Fake!Byte)
    <3>1. {c} \X Nat \subseteq Fake!Byte
      BY <2>9 DEF Fake!Byte
    <3>2. QED
      BY <2>11, <3>1
  <2>13. PICK v : v = SubSeq(w, FakeHeaderLen + 1, c.len)
    OBVIOUS
  <2>14. /\ v \in Seq(Fake!Byte) /\ Len(v) = c.len - FakeHeaderLen
         /\ \A k \in 1..(c.len - FakeHeaderLen) : v[k] = w[FakeHeaderLen + k]
    <3>1. FakeHeaderLen <= c.len /\ c.len <= Len(w) /\ c.len \in Nat /\ FakeHeaderLen \in Nat
      BY <1>1, <2>9, <2>11
    <3>2. QED
      BY ONLY <2>12, <2>13, <3>1, Cut, SMT
  <2>15. ASSUME NEW k \in 1..(h.len - FakeHeaderLen) PROVE d[k] = v[k]
    <3>1. PICK m : m = FakeHeaderLen + k
      OBVIOUS
    <3>2. m \in 1..h.len /\ m \in 1..Len(SoFar) /\ m \in 1..Len(f) /\ m <= h.len
      <4>1. Len(f) \in Nat
        OBVIOUS
      <4>2. QED
        BY <1>1, <1>2, <3>1, <4>1
    <3>3. d[k] = SoFar[m] /\ SoFar[m] = f[m] /\ v[k] = w[m]
      BY <1>4, <2>9, <2>14, <3>1, <3>2
    <3>4. f[m] = <<c, m>> /\ w[m] = <<c, m>>
      BY <1>7, <2>6, <2>9, <2>11, <3>2
    <3>5. QED
      BY <3>3, <3>4
  <2>16. d = v
    BY <1>4, <2>9, <2>14, <2>15, Same
  <2>17. QED
    BY <2>10, <2>13, <2>16
<1>8. QED
  BY <1>5, <1>6, <1>7 DEF WholeIfWhole

LEMMA ReadIntact == FakeTyped /\ Intact /\ Fake!ReadSome => Intact'
<1> SUFFICES ASSUME FakeTyped, Intact, Fake!ReadSome PROVE Intact'
  OBVIOUS
<1>1. PICK f \in Seq(Fake!Byte) : Woven(f) /\ Clean(f) /\ HeldAndFound(f)
  BY ReadWoven
<1>2. PICK r : /\ r = SubSeq(Stock, Len(Got) + 1, Len(Stock))
               /\ SoFar \in Seq(Fake!Byte) /\ r \in Seq(Fake!Byte)
               /\ Len(f) = Len(SoFar) + Len(r)
               /\ \A k \in 1..Len(SoFar) : f[k] = SoFar[k]
               /\ \A k \in 1..Len(r) : f[Len(SoFar) + k] = r[k]
  BY <1>1, ReadParts, Zenon
<1>3. /\ SoFar \in Seq(Fake!Byte) /\ r \in Seq(Fake!Byte)
      /\ Len(f) = Len(SoFar) + Len(r)
      /\ \A k \in 1..Len(SoFar) : f[k] = SoFar[k]
      /\ \A k \in 1..Len(r) : f[Len(SoFar) + k] = r[k]
  BY <1>2
<1>4. Len(SoFar) \in Nat /\ Len(r) \in Nat /\ Len(SoFar) <= Len(f) /\ Len(r) = Len(f) - Len(SoFar)
  <2>1. Len(SoFar) \in Nat /\ Len(r) \in Nat
    BY <1>3
  <2>2. QED
    BY <1>3, <2>1
<1>5. rx' = r /\ fake_pc \in {"first", "more"}
  BY <1>2, ReadOutcome
<1>6. Woven(r) /\ Clean(r)
  BY <1>1, <1>3, <1>4, WovenRest
<1>7. WholeIfWhole(data) /\ (Fake!Returned => WholeIfWhole(result.data))
  BY DEF Intact
<1>8. WholeIfWhole(<<>>)
  BY DEF WholeIfWhole
<1>9. ASSUME fake_have' = <<>> PROVE \E g : g = fake_have' \o rx' /\ Woven(g) /\ Clean(g)
  <2>1. <<>> \o r = r
    BY <1>3, ConcatEmptySeq, Zenon
  <2>2. QED
    BY <1>5, <1>6, <1>9, <2>1
<1>10. ASSUME fake_have' = SoFar PROVE \E g : g = fake_have' \o rx' /\ Woven(g) /\ Clean(g)
  <2>1. PICK g : g = SoFar \o r
    OBVIOUS
  <2>2. /\ g \in Seq(Fake!Byte) /\ Len(g) = Len(SoFar) + Len(r)
        /\ \A k \in 1..Len(SoFar) : g[k] = SoFar[k]
        /\ \A k \in 1..Len(r) : g[Len(SoFar) + k] = r[k]
    BY ONLY <1>3, <2>1, JoinedIs, SMT
  <2>3. ASSUME NEW k \in 1..Len(g) PROVE g[k] = f[k]
    <3>1. CASE k <= Len(SoFar)
      BY <1>3, <1>4, <2>2, <3>1
    <3>2. CASE ~(k <= Len(SoFar))
      <4>1. PICK j : j = k - Len(SoFar)
        OBVIOUS
      <4>2. j \in 1..Len(r) /\ k = Len(SoFar) + j
        BY <1>4, <2>2, <3>2, <4>1
      <4>3. QED
        BY <1>3, <2>2, <4>2
    <3>3. QED
      BY <3>1, <3>2
  <2>4. g = f
    BY <1>3, <2>2, <2>3, Same
  <2>5. QED
    BY <1>1, <1>5, <1>10, <2>1, <2>4
<1>11. CASE Fake!End("short", Fake!NoHeader) \/ Fake!End("threw", Fake!NoHeader)
  <2>1. /\ fake_pc' = "idle" /\ fake_have' = <<>> /\ data' = <<>>
        /\ result'.status # "ok"
    BY <1>11 DEF Fake!End
  <2>2. QED
    BY <1>8, <1>9, <2>1 DEF Intact, Fake!Returned
<1>12. ASSUME NEW h \in Fake!Containers, Header(h), Answers(h) PROVE Intact'
  <2>1. CASE Waits(h)
    <3>1. /\ Len(SoFar) >= 1
          /\ SoFar[1][2] = 1 /\ SoFar[1][1].sent >= FakeHeaderLen => h = SoFar[1][1]
      BY <1>5, <1>12, HeaderFirst
    <3>2. QED
      BY <1>7, <1>10, <2>1, <3>1 DEF Waits, Intact, Fake!Returned
  <2>2. CASE Fake!End("ok", h)
    BY <1>7, <1>8, <1>9, <2>2 DEF Fake!End, Intact, Fake!Returned
  <2>3. CASE Drops
    BY <1>7, <1>9, <2>3 DEF Drops, Fake!NextContainer, Intact, Fake!Returned
  <2>4. CASE TakesData(h)
    <3>1. WholeIfWhole(data')
      BY <1>1, <1>3, <1>4, <1>12, <2>4, DataWhole
    <3>2. QED
      BY <1>7, <1>9, <2>4, <3>1 DEF TakesData, Fake!NextContainer, Intact, Fake!Returned
  <2>5. QED
    BY <1>11, <1>12, <2>1, <2>2, <2>3, <2>4 DEF Answers
<1>13. QED
  BY <1>11, <1>12, ReadOutcome

LEMMA QueueReadIntact ==
    ASSUME FakeTyped, Intact, NEW type \in {"EVENT", "DATA", "RESPONSE"}, NEW len \in FakeLengths,
           NEW n \in FakeLengths \cup 1..FakeHeaderLen, Fake!QueueRead(type, len, n)
    PROVE  Intact'
<1>1. PICK c \in Fake!Containers : c.sent = n /\ rx' = rx \o Fake!Bytes(c, n)
  BY QueueReadTyped
<1>2. n \in Nat /\ n >= 1
  BY QueueReadTyped
<1>3. UNCHANGED <<fake_pc, Fake!callVars, result>> /\ fake_pc = "idle"
  BY DEF Fake!QueueRead
<1>4. rx \in Seq(Fake!Byte) /\ fake_have = <<>>
  BY <1>3 DEF FakeTyped, Fake!TypeOK
<1>5. PICK g : g = fake_have \o rx /\ Woven(g) /\ Clean(g)
  BY DEF Intact
<1>6. g = rx
  BY <1>4, <1>5, ConcatEmptySeq, Zenon
<1>7. PICK t : t = Fake!Bytes(c, n)
  OBVIOUS
<1>8. Len(t) = n /\ \A k \in 1..n : t[k] = <<c, k>>
  BY <1>2, <1>7, FakeBytes
<1>9. t \in Seq(Fake!Byte)
  <2>1. t \in Seq({c} \X Nat) /\ {c} \X Nat \subseteq Fake!Byte
    BY <1>2, <1>7, FakeBytes DEF Fake!Byte
  <2>2. QED
    BY <2>1
<1>10. PICK u : u = rx \o t
  OBVIOUS
<1>11. /\ u \in Seq(Fake!Byte) /\ Len(u) = Len(rx) + Len(t)
       /\ \A k \in 1..Len(rx) : u[k] = rx[k]
       /\ \A k \in 1..Len(t) : u[Len(rx) + k] = t[k]
  <2>1. rx \in Seq(Fake!Byte)
    BY <1>4
  <2>2. QED
    BY ONLY <1>9, <1>10, <2>1, JoinedIs, SMT
<1>12. \A k \in 1..n : u[Len(rx) + k][1] = c /\ u[Len(rx) + k][2] = k
  <2>1. \A k \in 1..n : u[Len(rx) + k] = <<c, k>>
    BY <1>8, <1>11
  <2>2. QED
    BY <2>1
<1>13. Behind(u, rx, c)
  BY <1>1, <1>8, <1>11, <1>12 DEF Behind
<1>14. Woven(u) /\ Clean(u)
  BY <1>1, <1>2, <1>4, <1>5, <1>6, <1>13, WovenJoin
<1>15. rx' = u /\ fake_have' = <<>>
  BY <1>1, <1>3, <1>4, <1>7, <1>10 DEF Fake!callVars
<1>16. <<>> \o u = u
  BY <1>11, ConcatEmptySeq, Zenon
<1>17. \E f : f = fake_have' \o rx' /\ Woven(f) /\ Clean(f)
  BY <1>14, <1>15, <1>16
<1>18. QED
  BY <1>3, <1>17 DEF Intact, Fake!Returned, Fake!callVars

LEMMA FakeNextIntact == FakeTyped /\ Intact /\ [Fake!Next]_Fake!vars => Intact'
<1> SUFFICES ASSUME FakeTyped, Intact, [Fake!Next]_Fake!vars PROVE Intact'
  OBVIOUS
<1>1. CASE Fake!Close
  <2>1. /\ rx' = <<>> /\ fake_have' = <<>>
        /\ UNCHANGED <<fake_pc, header, data, result>> /\ fake_pc = "idle"
    BY <1>1 DEF Fake!Close, Fake!callVars, FakeTyped
  <2>2. <<>> \o <<>> = <<>>
    BY EmptyTyped, ConcatEmptySeq
  <2>3. \E f : f = fake_have' \o rx' /\ Woven(f) /\ Clean(f)
    BY <2>1, <2>2, WovenNone
  <2>4. QED
    BY <2>1, <2>3 DEF Intact, Fake!Returned
<1>2. ASSUME NEW kind, NEW params, NEW data_out, Fake!Begin(kind, params, data_out) PROVE Intact'
  BY <1>2 DEF Fake!Begin, Fake!NoResult, Intact, Fake!Returned, WholeIfWhole
<1>3. CASE UNCHANGED Fake!vars
  BY <1>3 DEF Fake!vars, Fake!callVars, Intact, Fake!Returned
<1>4. QED
  BY <1>1, <1>2, <1>3, QueueReadIntact, ReadIntact DEF Fake!Next

-----------------------------------------------------------------------------
(***************************************************************************)
(* The theorems about the fake, and about either transport.                *)
(***************************************************************************)

LEMMA FakeInitHolds == Fake!Init => FakeTyped /\ Owned /\ Few /\ Intact
<1> SUFFICES ASSUME Fake!Init PROVE FakeTyped /\ Owned /\ Few /\ Intact
  OBVIOUS
<1>1. FakeTyped
  BY FakeInitTyped
<1>2. Owned
  BY DEF Fake!Init, Fake!NoResult, Owned, Fake!OwnOk, Fake!Returned
<1>3. Few
  BY DEF Fake!Init, Few
<1>4. Intact
  <2>1. /\ rx = <<>> /\ fake_have = <<>> /\ fake_pc = "idle" /\ data = <<>>
        /\ result.status = "none"
    BY DEF Fake!Init, Fake!NoResult
  <2>2. <<>> \o <<>> = <<>>
    BY EmptyTyped, ConcatEmptySeq
  <2>3. \E f : f = fake_have \o rx /\ Woven(f) /\ Clean(f)
    BY <2>1, <2>2, WovenNone
  <2>4. QED
    BY <2>1, <2>3 DEF Intact, Fake!Returned, WholeIfWhole
<1>5. QED
  BY <1>1, <1>2, <1>3, <1>4

LEMMA AlwaysFake == Fake!Spec => [](FakeTyped /\ Owned /\ Few /\ Intact)
<1>1. Fake!Init => FakeTyped /\ Owned /\ Few /\ Intact
  BY FakeInitHolds
<1>2. FakeTyped /\ Owned /\ Few /\ Intact /\ [Fake!Next]_Fake!vars
         => (FakeTyped /\ Owned /\ Few /\ Intact)'
  BY FakeNextTyped, FakeNextOwned, FakeNextFew, FakeNextIntact
<1>3. QED
  BY <1>1, <1>2, PTL DEF Fake!Spec

\* The variables of the fake and of the calls on it have their types, for any
\* sizes, junk and number of ids: the reader goes on only while bytes are
\* missing, and an OK of the fake's own never waits in the queue.
THEOREM FakeTypeCorrect == Fake!Spec => []Fake!TypeOK
<1>1. FakeTyped => Fake!TypeOK
  BY DEF FakeTyped
<1>2. QED
  BY <1>1, AlwaysFake, PTL

\* An OK that the fake made up (ensure_auto_ok) goes to the call whose command it
\* answers, whatever was queued, left over or cut off before.
THEOREM OwnAnswers == Fake!Spec => []Fake!OwnOk
<1>1. Owned => Fake!OwnOk
  BY DEF Owned
<1>2. QED
  BY <1>1, AlwaysFake, PTL

\* Data that a test queued whole is returned whole or not at all, also when one
\* read_some takes parts of several containers.
THEOREM WholeData == Fake!Spec => []Fake!QueuedDataIsWhole
<1>1. Intact => Fake!QueuedDataIsWhole
  BY DEF Intact, WholeIfWhole, Fake!QueuedDataIsWhole
<1>2. QED
  BY <1>1, AlwaysFake, PTL

\* Of a queue that fits in one read a call sees the first container and nothing
\* else: what follows it is lost with the read.
THEOREM FirstOfTheQueue == Fake!Spec => Fake!OnlyTheFirst
<1>1. FakeTyped /\ Few /\ [Fake!Next]_Fake!vars =>
         [fake_pc # "idle" /\ fake_pc' = "idle" /\ small =>
            /\ rx' = <<>>
            /\ result'.data # <<>> => result'.resp.id = 0]_Fake!vars
  BY LastAnswer
<1>2. QED
  BY <1>1, AlwaysFake, PTL DEF Fake!Spec, Fake!OnlyTheFirst

\* "short PTP header" on the fake means less than a header in the queue, or a
\* transaction id that has come round to 0.
THEOREM UnansweredIsShort == Fake!Spec => Fake!UnansweredCause
<1>1. FakeTyped /\ [Fake!Next]_Fake!vars =>
         [fake_pc # "idle" /\ fake_pc' = "idle" /\ result'.status = "short" =>
            Len(rx) \in 1..(FakeHeaderLen - 1) \/ tid = 0]_Fake!vars
  BY ShortCause
<1>2. QED
  BY <1>1, AlwaysFake, PTL DEF Fake!Spec, Fake!UnansweredCause

LEMMA EachAlone == EitherSpec => Spec /\ Fake!Spec
<1>1. UsbInit \/ FakeInit => Init /\ Fake!Init
  BY DEF UsbInit, FakeInit
<1>2. [UsbNext \/ FakeNext]_<<transport, vars, fakeVars>> => [Next]_vars /\ [Fake!Next]_Fake!vars
  BY DEF UsbNext, FakeNext, fakeVars, Fake!vars, Fake!callVars
<1>3. QED
  BY <1>1, <1>2, PTL DEF EitherSpec, Spec, Fake!Spec

\* On the fake each call gets an answer that is its own: the OK to its command, or
\* the first of what was queued, whole; and neither the fake nor
\* read_full_container_ holds more than is typed.
THEOREM AnswersOfTheFake == EitherSpec => FakeAnswers
<1>1. QED
  BY EachAlone, FirstOfTheQueue, OwnAnswers, WholeData, FakeTypeCorrect, FramingTypeCorrect, PTL
  DEF FakeAnswers

\* "short PTP header" has the causes named in its module, whatever the transport:
\* the empty packet of a container that filled the buffers exactly, less than a
\* header in the queue of a test, or a transaction id of 0.
THEOREM ShortHeaders == EitherSpec => ShortHeaderCauses
<1>1. QED
  BY EachAlone, ShortHeaderOfFullBuffer, UnansweredIsShort, PTL DEF ShortHeaderCauses

=============================================================================
