---------------------------- MODULE GroupSettings ----------------------------
(***************************************************************************)
(* The five settings groups of the camera (CamDataGroup1 .. CamDataGroup5, *)
(* src/sigma/schema.cpp) and the two calls that carry them, set_group and  *)
(* get_group (src/sigma/sigma_ptp.cpp).                                    *)
(*                                                                         *)
(* A group object holds optional members.  Its payload is a header byte,   *)
(* a 16-bit FieldPresent mask in big-endian order, the bytes of the items  *)
(* the mask announces, and a parity byte; nothing but the order of the     *)
(* items tells one member's bytes from another's.  So the model keeps the  *)
(* bytes: a wrong order, width or condition gives a member the bytes of    *)
(* its neighbour.                                                          *)
(***************************************************************************)
EXTENDS SettingsTables, SequencesExt

CONSTANTS
    Groups,     \* the groups to look at, a subset of 1..5
    MaxCalls,   \* bound: calls of set_group and get_group
    FewItems    \* bound: masks and objects have at most so many items, or
                \* lack at most so many

\* Assumed by the module that instantiates this one.
GroupsAssumption ==
    /\ Groups \subseteq 1..5
    /\ MaxCalls \in Nat
    /\ FewItems \in Nat

-----------------------------------------------------------------------------
(***************************************************************************)
(* Payloads.                                                               *)
(***************************************************************************)

\* A std::optional: a sequence of at most one value.
Unset == <<>>
Holds(v) == <<v>>

\* The members that a mask announces, and the bytes.
Announced(g, bits) == {m \in Members[g] : BitOf[g][m] \in bits}

Bytes(g, bits) == UNION {{n} \X (1..ItemWidth[g][n]) : n \in bits}

\* How many bytes come before the item of each bit, in an order.
Starts(order, g, bits) ==
    [n \in bits |-> Cardinality(Bytes(g, {x \in bits : order[x] < order[n]}))]

\* The place of byte b of a member.
Place(start, g, m, b) == start[BitOf[g][m]] + OffsetOf(m) + b

\* What a camera fills the bytes with that decode() skips.
Filler == 170

\* The payload with some values.  data: its bytes with their places, between mask
\* and parity; size: its length.  What is cut off a payload is cut off its size.
Payload(g, bits, value) ==
    LET start == Starts(Ascending, g, bits)
    IN [mask |-> BigEndian16(bits),
        data |-> {<<Place(start, g, m, 1), LittleEndian(value[m], 1)>> : m \in Announced(g, bits)}
                 \cup {<<Place(start, g, m, 2), LittleEndian(value[m], 2)>> :
                         m \in Announced(g, bits) \cap Wide}
                 \cup {<<start[n] + 1, Filler>> : n \in bits \cap Reserved[g]},
        size |-> 4 + Cardinality(Bytes(g, bits))]

\* get_8
ByteAt(payload, p) == (CHOOSE e \in payload.data : e[1] = p)[2]

\* get_8 or get_16le, of a member.
ValueIn(g, payload, start, m) ==
    LET Byte(b) == ByteAt(payload, Place(start, g, m, b))
    IN IF WidthOf(m) = 1 THEN Byte(1) ELSE Byte(1) + 256 * Byte(2)

Cut(payload, n) == [payload EXCEPT !.size = n]

-----------------------------------------------------------------------------
(***************************************************************************)
(* encode().                                                               *)
(***************************************************************************)

LensCorrections == {m \in DOMAIN Group4 : Group4[m] = LOC}

\* What an unset member of an announced item is written as: the Off value of
\* the lens corrections, 0 for the remains of the interval timer.
DefaultOf(m) ==
    IF m = "locColorShade" THEN \hFE ELSE IF m \in LensCorrections THEN 2 ELSE 0

\* encode() of group 5 refuses half an interval.
EncodeThrows(g, obj) ==
    g = 5 /\ (obj["intervalTimerSecond"] = Unset) # (obj["intervalTimerFrame"] = Unset)

\* Variant: the lens corrections are always announced.
PresentLOC(g, obj, n) ==
    IF g = 5 /\ n = Interval
    THEN obj["intervalTimerSecond"] # Unset /\ obj["intervalTimerFrame"] # Unset
    ELSE \/ g = 4 /\ n = LOC
         \/ \E m \in Members[g] : BitOf[g][m] = n /\ obj[m] # Unset

\* Variant: the lens corrections are announced if the first of them is set.
PresentFirst(g, obj, n) ==
    IF g = 5 /\ n = Interval
    THEN obj["intervalTimerSecond"] # Unset /\ obj["intervalTimerFrame"] # Unset
    ELSE \E m \in Members[g] : BitOf[g][m] = n /\ OffsetOf(m) = 0 /\ obj[m] # Unset

Present(g, obj, n) ==
    IF g = 5 /\ n = Interval
    THEN obj["intervalTimerSecond"] # Unset /\ obj["intervalTimerFrame"] # Unset
    ELSE \E m \in Members[g] : BitOf[g][m] = n /\ obj[m] # Unset

FieldPresent(g, obj) == {n \in Encoded(g) : Present(g, obj, n)}

Encode(g, obj) ==
    LET bits == FieldPresent(g, obj)
    IN Payload(g, bits, [m \in Announced(g, bits) |->
                            IF obj[m] = Unset THEN DefaultOf(m) ELSE ToWire(m, obj[m][1])])

-----------------------------------------------------------------------------
(***************************************************************************)
(* decode().  It reads with at(), which throws past the end, and reads the *)
(* parity byte last.  It resets the members whose item is not announced,   *)
(* so the object it is called on does not show in what it leaves.          *)
(***************************************************************************)

Blank(g) == [m \in Members[g] |-> Unset]

DecodeThrows(g, payload) ==
    payload.size < 4 + Cardinality(Bytes(g, FromBigEndian16(payload.mask)))

Decode(g, payload) ==
    LET bits == FromBigEndian16(payload.mask)
        start == Starts(ReadOrder[g], g, bits)
    IN [m \in Members[g] |->
           IF BitOf[g][m] \in bits THEN Holds(FromWire(m, ValueIn(g, payload, start, m)))
           ELSE Unset]

-----------------------------------------------------------------------------
(***************************************************************************)
(* The camera, external: it keeps a value, in wire form, for every member. *)
(* It writes and reads the items in ascending order.  decode() of group 5  *)
(* expects the AF auxiliary light in front of eight reserved items that    *)
(* would come before it; the camera of the model never sends those.        *)
(***************************************************************************)

NeverSent(g) == IF g = 5 THEN {0, 1, 2, 3, 4, 5, 6, 15} ELSE {}

CamBits(g) == ({BitOf[g][m] : m \in Members[g]} \cup Reserved[g]) \ NeverSent(g)

CamReply(g, cam, bits) == Payload(g, bits, cam)

\* The camera takes in the members of the items that are announced.
CamApply(g, cam, payload) ==
    LET bits == FromBigEndian16(payload.mask) \cap CamBits(g)
        start == Starts(Ascending, g, bits)
    IN [m \in Members[g] |->
           IF BitOf[g][m] \in bits THEN ValueIn(g, payload, start, m) ELSE cam[m]]

-----------------------------------------------------------------------------

VARIABLES
    group,      \* the group this behaviour is about
    settings,   \* the camera's settings
    object,     \* the application's group object
    called,     \* bound: calls made
    lastCall    \* history: the last step, the bits of the items answered, whether
                \* it threw

vars == <<group, settings, object, called, lastCall>>

\* Distinct bytes for every member, so that no exchange of two goes unnoticed.
Number(g, m) == 7 * Ascending[BitOf[g][m]] + OffsetOf(m)

CamValue(g, m) ==
    IF WidthOf(m) = 2 THEN 256 * (128 + Number(g, m)) + Number(g, m) ELSE Number(g, m)

\* What the application assigns: a signed value where the member is signed, a
\* length between two sixteenths where it is a focal length.
AppValue(g, m) ==
    CASE m \in SignedMembers -> -2
      [] m \in FocalLengths -> 2 * (256 * Number(g, m) + 128) + 1
      [] m \notin SignedMembers \cup FocalLengths ->
            (IF WidthOf(m) = 2 THEN 256 * Number(g, m) ELSE 0) + 128 + Number(g, m)

\* Subsets with at most FewItems elements, or lacking at most FewItems.
NearlyAllOrNone(S) ==
    LET few == UNION {kSubset(k, S) : k \in 0..FewItems}
    IN few \cup {S \ T : T \in few}

Init ==
    /\ group \in Groups
    /\ settings = [m \in Members[group] |-> CamValue(group, m)]
    /\ object = Blank(group)
    /\ called = 0
    /\ lastCall = [step |-> "init", bits |-> {}, threw |-> FALSE]

\* The application assigns members of its object, a new one or one it has just
\* read.
Assign ==
    /\ lastCall.step \in {"init", "get"}
    /\ \E S \in NearlyAllOrNone(Settable[group]) :
          object' = [m \in Members[group] |->
                       IF m \in S THEN Holds(AppValue(group, m)) ELSE object[m]]
    /\ lastCall' = [step |-> "assign", bits |-> {}, threw |-> FALSE]
    /\ UNCHANGED <<group, settings, called>>

\* set_group(obj).
SetGroup ==
    /\ called < MaxCalls
    /\ called' = called + 1
    /\ settings' = IF EncodeThrows(group, object) THEN settings
                   ELSE CamApply(group, settings, Encode(group, object))
    /\ lastCall' = [step |-> "set", bits |-> {}, threw |-> EncodeThrows(group, object)]
    /\ UNCHANGED <<group, object>>

\* obj = get_group(): the object is replaced, unless decode() throws.
Receive(payload, bits, step) ==
    /\ object' = IF DecodeThrows(group, payload) THEN object ELSE Decode(group, payload)
    /\ lastCall' = [step |-> step, bits |-> bits, threw |-> DecodeThrows(group, payload)]

GetGroup ==
    /\ called < MaxCalls
    /\ called' = called + 1
    /\ \E bits \in NearlyAllOrNone(CamBits(group)) :
          Receive(CamReply(group, settings, bits), bits, "get")
    /\ UNCHANGED <<group, settings>>

\* The same, but the answer ends early: the camera refused, or sent less.
GetShort ==
    /\ called < MaxCalls
    /\ called' = called + 1
    /\ LET reply == CamReply(group, settings, CamBits(group))
       IN \E n \in 0..(reply.size - 1) :
             Receive(Cut(reply, n), CamBits(group), "get_short")
    /\ UNCHANGED <<group, settings>>

Next == Assign \/ SetGroup \/ GetGroup \/ GetShort

Spec == Init /\ [][Next]_vars

-----------------------------------------------------------------------------
(***************************************************************************)
(* Properties.                                                             *)
(***************************************************************************)

\* Every variable has its type: each member a value its C++ type has.
TypeOK ==
    /\ group \in Groups
    /\ \A m \in Members[group] :
         /\ settings[m] \in WireValues(m)
         /\ object[m] # Unset => object[m][1] \in ObjectValues(m)
    /\ called \in 0..MaxCalls

\* Whether a member goes with an interval timer that is set, if with any.
IntervalIsSet(m) ==
    group = 5 /\ BitOf[5][m] = Interval => object["intervalTimerSecond"] # Unset

\* set_group delivers: every member the application has set reaches the camera
\* under its own name, focal lengths to within half a sixteenth.  The remains
\* of an interval timer that is not itself set are the exception.
SetDelivers ==
    [][lastCall'.step = "set" /\ ~lastCall'.threw =>
         \A m \in Settable[group] :
            object[m] # Unset /\ IntervalIsSet(m) =>
               FromWire(m, settings'[m]) - object[m][1]
                  \in IF m \in FocalLengths THEN -1..1 ELSE {0}]_vars

\* set_group touches nothing else: a camera setting changes only if the
\* application set it, or if it set another member of the same item; then this one
\* is turned off, as five lens corrections are with the sixth, and never becomes
\* anything but its Off value.
SetSparesOthers ==
    [][lastCall'.step = "set" =>
         \A m \in Members[group] :
            settings'[m] # settings[m] =>
               /\ ~lastCall'.threw
               /\ m \in Settable[group]
               /\ \/ object[m] # Unset
                  \/ /\ settings'[m] = DefaultOf(m)
                     /\ \E n \in Members[group] :
                           BitOf[group][n] = BitOf[group][m] /\ object[n] # Unset]_vars

\* get_group reflects the camera: the members of the items it answered with
\* hold its values, all others are empty, whatever the object held before, and
\* each value is one its C++ type has.  An answer that ends early is never taken
\* for a whole one: get_group throws.
GetReflectsCamera ==
    /\ [][lastCall'.step = "get" =>
            /\ ~lastCall'.threw
            /\ \A m \in Members[group] :
                 object'[m] = IF BitOf[group][m] \in lastCall'.bits
                              THEN Holds(FromWire(m, settings[m])) ELSE Unset]_vars
    /\ [][lastCall'.step = "get_short" => lastCall'.threw]_vars
    /\ []TypeOK

\* Writing back what was just read changes no setting of the camera.
EchoIsHarmless ==
    [][lastCall.step = "get" /\ lastCall'.step = "set" =>
         ~lastCall'.threw /\ settings' = settings]_vars

=============================================================================
