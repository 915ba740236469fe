----------------------------- MODULE FocusGroup -----------------------------
(***************************************************************************)
(* Directory blobs: CamDataGroupFocus and ApiConfig (src/sigma/schema.cpp) *)
(* with the calls that carry them, set_cam_data_group_focus,               *)
(* get_cam_data_group_focus and config_api (src/sigma/sigma_ptp.cpp).      *)
(*                                                                         *)
(* A blob is a header of 8 bytes, an entry of 12 for each item, and data.  *)
(* An entry holds a payload of up to 4 bytes itself, and for a longer one  *)
(* the offset of its bytes in the blob.  Only payloads are kept as bytes   *)
(* here; what is cut off a blob is cut off its size.                       *)
(***************************************************************************)
EXTENDS Integers, SequencesExt

CONSTANTS
    WordSize,   \* how many values a uint32_t has
    FewItems,   \* bound: objects and answers have at most so many members, or
                \* lack at most so many
    MaxCalls    \* bound: calls made

ASSUME FocusAssumption ==
    /\ WordSize \in Nat /\ WordSize > 250   \* more than the size of any blob here
    /\ FewItems \in Nat
    /\ MaxCalls \in Nat

-----------------------------------------------------------------------------
(***************************************************************************)
(* Blobs.                                                                  *)
(***************************************************************************)

IndexSize(n) == 8 + n * 12

\* value: the payload, filled up to four bytes, or its offset.
Entry(tag, type, count, value) ==
    [tag |-> tag, type |-> type, count |-> count, value |-> value]

Blob(entries, data) ==
    [entries |-> entries, data |-> data, size |-> IndexSize(Len(entries)) + Len(data)]

\* dir_type_size
ElementSize(type) == CASE type = "Float32" -> 4 [] type = "Float64" -> 8 [] OTHER -> 1

\* Variant: the bytes that fill an entry up belong to the payload.
PayloadSizePadded(e) ==
    LET n == (e.count * ElementSize(e.type)) % WordSize
    IN IF n \in 1..3 THEN 4 ELSE n

\* nbytes
PayloadSize(e) == (e.count * ElementSize(e.type)) % WordSize

Inline(e) == PayloadSize(e) <= 4

\* Variant: only the offset is compared with the size of the blob.
AcceptedByOffset(blob, e) == Inline(e) \/ e.value <= blob.size

\* decode() goes on to the next entry unless this holds: a 32-bit sum.
Accepted(blob, e) == Inline(e) \/ (e.value + PayloadSize(e)) % WordSize <= blob.size

\* Whether the payload is in the blob, without regard to the width of words.
InBlob(blob, e) == Inline(e) \/ e.value + PayloadSize(e) <= blob.size

\* Some byte of the index; some byte behind the blob.
IndexByte == 254
OutsideByte == 255

\* Byte p of a blob, from 1.
ByteAt(blob, p) ==
    LET index == IndexSize(Len(blob.entries))
    IN IF p > blob.size THEN OutsideByte
       ELSE IF p <= index THEN IndexByte ELSE blob.data[p - index]

Payload(blob, e) ==
    IF Inline(e) THEN SubSeq(e.value, 1, PayloadSize(e))
    ELSE [k \in 1..PayloadSize(e) |-> ByteAt(blob, e.value + k)]

\* The entries whose payload decode() comes to: those it accepts, or none.
ReadEntries(blob) ==
    IF blob.size < 8 \/ blob.size < IndexSize(Len(blob.entries)) THEN {}
    ELSE {k \in DOMAIN blob.entries : Accepted(blob, blob.entries[k])}

\* A payload that reading the blob takes bytes of from behind it.
WildRead(blob) == \E k \in ReadEntries(blob) : ~InBlob(blob, blob.entries[k])

\* Of the entries ks, those with a tag; the last of them counts.
Tagged(blob, ks, tag) == {k \in ks : blob.entries[k].tag = tag}

PayloadOfLast(blob, ks) == Payload(blob, blob.entries[Max(ks)])

Cut(blob, n) == [blob EXCEPT !.size = n]

-----------------------------------------------------------------------------
(***************************************************************************)
(* CamDataGroupFocus.                                                      *)
(***************************************************************************)

TagOf ==
    [focusMode |-> \h1, afLock |-> \h2, faceEyeAF |-> \h3, faceEyeAFStatus |-> \h4,
     focusArea |-> \h10, onePointSelection |-> \h11, dmfSize |-> \h12, dmfPos |-> \h13,
     dmfDetection |-> \h14, preConstAF |-> \h51, focusLimit |-> \h52]

Members == DOMAIN TagOf

Arrays == {"dmfPos", "dmfDetection"}

\* The members that encode() writes; the others are read-only.
Written == Members \ {"faceEyeAFStatus", "dmfDetection"}

\* Members in the order of their tags, the one that encode() writes them in.
InTagOrder(S) ==
    [k \in 1..Cardinality(S) |->
        CHOOSE m \in S : Cardinality({x \in S : TagOf[x] <= TagOf[m]}) = k]

\* A std::optional; what it holds is the sequence of its bytes.
Unset == <<>>
Holds(v) == <<v>>

Blank == [m \in Members |-> Unset]

FillUp(p) == SubSeq(p \o <<0, 0, 0, 0>>, 1, 4)

\* Variant: an array is pushed as one byte.
EncodeFirstByte(obj) ==
    LET ms == InTagOrder({m \in Written : obj[m] # Unset})
    IN Blob([k \in DOMAIN ms |->
                Entry(TagOf[ms[k]], "UInt8", 1, FillUp(obj[ms[k]][1]))], <<>>)

\* Nothing is ever appended to the data that long payloads would be in.
Encode(obj) ==
    LET ms == InTagOrder({m \in Written : obj[m] # Unset})
        Value(p) == IF Len(p) <= 4 THEN FillUp(p) ELSE IndexSize(Len(ms))
    IN Blob([k \in DOMAIN ms |->
                LET p == obj[ms[k]][1] IN Entry(TagOf[ms[k]], "UInt8", Len(p), Value(p))],
            <<>>)

\* What a member takes from a payload that is not empty.
Taken(m, p) == Holds(IF m \in Arrays THEN p ELSE <<p[1]>>)

\* decode()
Decode(blob) ==
    LET NotEmpty == {k \in ReadEntries(blob) : Payload(blob, blob.entries[k]) # <<>>}
        Mine(m) == Tagged(blob, NotEmpty, TagOf[m])
    IN [m \in Members |->
           IF Mine(m) = {} THEN Unset ELSE Taken(m, PayloadOfLast(blob, Mine(m)))]

-----------------------------------------------------------------------------
(***************************************************************************)
(* ApiConfig: three strings, and the bytes of the version's number.        *)
(***************************************************************************)

ConfigTagOf == [cameraModel |-> 1, serialNumber |-> 2, firmwareVersion |-> 3,
                communicationVersion |-> 5]

Fields == DOMAIN ConfigTagOf

\* "" and 0.0
Nothing == [f \in Fields |-> <<>>]

\* One NUL is taken off the end.
Text(p) == IF p # <<>> /\ Last(p) = 0 THEN Front(p) ELSE p

\* The version is taken from nothing but a number.
Fits(f, e, p) ==
    f = "communicationVersion" =>
        e.type \in {"Float32", "Float64"} /\ Len(p) >= ElementSize(e.type)

FieldFrom(f, e, p) ==
    IF f = "communicationVersion" THEN SubSeq(p, 1, ElementSize(e.type)) ELSE Text(p)

DecodeConfig(blob) ==
    LET Fitting(f) == {k \in ReadEntries(blob) :
                          Fits(f, blob.entries[k], Payload(blob, blob.entries[k]))}
        Mine(f) == Tagged(blob, Fitting(f), ConfigTagOf[f])
    IN [f \in Fields |->
           IF Mine(f) = {} THEN Nothing[f]
           ELSE FieldFrom(f, blob.entries[Max(Mine(f))], PayloadOfLast(blob, Mine(f)))]

-----------------------------------------------------------------------------
(***************************************************************************)
(* The camera, external.  Its blobs have their long payloads behind the    *)
(* index; it reads a blob as the library does, with its own arithmetic.    *)
(***************************************************************************)

Item(tag, type, count, bytes) == [tag |-> tag, type |-> type, count |-> count, bytes |-> bytes]

Outside(it) == IF Len(it.bytes) > 4 THEN it.bytes ELSE <<>>

\* The data after each number of items.
DataOf(items) ==
    LET data[k \in 0..Len(items)] == IF k = 0 THEN <<>> ELSE data[k - 1] \o Outside(items[k])
    IN data

CamBlob(items) ==
    LET data == DataOf(items)
        Value(k) == IF Len(items[k].bytes) <= 4 THEN FillUp(items[k].bytes)
                    ELSE IndexSize(Len(items)) + Len(data[k - 1])
    IN Blob([k \in DOMAIN items |-> Entry(items[k].tag, items[k].type, items[k].count, Value(k))],
            data[Len(items)])

\* A member's default, the positions a program sets, and the faces detected.
Default(m) == IF m \in Arrays THEN <<TagOf[m], 1, 2>> ELSE <<TagOf[m]>>

Positions == {<<>>, <<91, 92, 93, 94>>, <<91, 92, 93, 94, 95>>}

Faces == {<<>>, <<81, 82, 83, 84, 85, 86>>}

\* A camera's model, serial number, firmware and protocol version.
CamConfigs ==
    {[cameraModel |-> <<70, 80>>, serialNumber |-> <<57, 48, 49, 50, 51, 52>>,
      firmwareVersion |-> <<>>, communicationVersion |-> v] :
        v \in {<<0, 0, 160, 63>>, <<0, 0, 0, 0, 0, 0, 244, 63>>}}

ConfigItem(f, v) ==
    IF f # "communicationVersion" THEN Item(ConfigTagOf[f], "String", Len(v) + 1, v \o <<0>>)
    ELSE Item(ConfigTagOf[f], IF Len(v) = 4 THEN "Float32" ELSE "Float64", 1, v)

ConfigByTag == <<"cameraModel", "serialNumber", "firmwareVersion", "communicationVersion">>

ConfigReply(c) ==
    CamBlob([k \in DOMAIN ConfigByTag |-> ConfigItem(ConfigByTag[k], c[ConfigByTag[k]])])

FocusReply(cam, S) ==
    LET ms == InTagOrder(S)
    IN CamBlob([k \in DOMAIN ms |-> Item(TagOf[ms[k]], "UInt8", Len(cam[ms[k]]), cam[ms[k]])])

\* The camera takes a member's entry if its payload is there.
CamApply(cam, blob) ==
    [m \in Members |->
        LET mine == {k \in DOMAIN blob.entries :
                        /\ blob.entries[k].tag = TagOf[m] /\ blob.entries[k].count > 0
                        /\ InBlob(blob, blob.entries[k])}
            e == blob.entries[CHOOSE k \in mine : TRUE]
        IN IF mine = {} THEN cam[m]
           ELSE [k \in 1..e.count |->
                    IF e.count <= 4 THEN e.value[k] ELSE ByteAt(blob, e.value + k)]]

-----------------------------------------------------------------------------

VARIABLES
    cam,        \* the camera's focus settings: the bytes of each member
    identity,   \* what the camera is, as it says in its configuration
    obj,        \* the application's CamDataGroupFocus
    config,     \* its ApiConfig
    last,       \* history: the last step, and the members or fields it was sent
                \* whole
    wild,       \* history: the blob that an answer was read outside of, if any
    calls       \* bound: calls made

vars == <<cam, identity, obj, config, last, wild, calls>>

Byte == 0..255

\* Every variable has its type: what encode() writes and decode() reads are
\* bytes, one of them for every member that is not an array.
TypeOK ==
    /\ \A m \in Members :
          /\ cam[m] \in Seq(Byte)
          /\ obj[m] # Unset => obj[m][1] \in Seq(Byte)
          /\ m \notin Arrays => Len(cam[m]) = 1 /\ (obj[m] # Unset => Len(obj[m][1]) = 1)
    /\ identity \in CamConfigs
    /\ \A f \in Fields : config[f] \in Seq(Byte)
    /\ calls \in 0..MaxCalls

Init ==
    /\ \E p \in Faces : cam = [m \in Members |-> IF m = "dmfDetection" THEN p ELSE Default(m)]
    /\ identity \in CamConfigs
    /\ obj = Blank
    /\ config = Nothing
    /\ last = [step |-> "init", sent |-> {}]
    /\ wild = {}
    /\ calls = 0

Call(step, sent) ==
    /\ calls < MaxCalls /\ wild = {}
    /\ calls' = calls + 1
    /\ last' = [step |-> step, sent |-> sent]
    /\ UNCHANGED identity

\* An answer that is not whole comes to the first call only, a bound: decode()
\* leaves nothing of the object it is called on.
Misanswered(step) == calls = 0 /\ Call(step, {})

\* Subsets with at most FewItems elements, or lacking at most FewItems.
NearlyAllOrNone(S) ==
    LET few == UNION {kSubset(k, S) : k \in 0..FewItems}
    IN few \cup {S \ T : T \in few}

\* The application assigns members of a new object, or of the one it read.
Assign ==
    /\ last.step \in {"init", "get"}
    /\ \E S \in NearlyAllOrNone(Written), pos \in Positions :
          obj' = [m \in Members |->
                    IF m \notin S THEN obj[m]
                    ELSE Holds(IF m = "dmfPos" THEN pos ELSE <<100 + TagOf[m]>>)]
    /\ last' = [step |-> "assign", sent |-> {}]
    /\ UNCHANGED <<cam, identity, config, wild, calls>>

SetFocus ==
    /\ Call("set", {})
    /\ cam' = CamApply(cam, Encode(obj))
    /\ UNCHANGED <<obj, config, wild>>

\* decode() resets the object, and never throws.
Receive(blob) ==
    IF WildRead(blob) THEN wild' = {blob} /\ UNCHANGED obj
                      ELSE obj' = Decode(blob) /\ UNCHANGED wild

\* The camera answers with some of its settings; the answer may end early.
GetFocus ==
    /\ \/ \E S \in NearlyAllOrNone(Members) :
             Call("get", S) /\ Receive(FocusReply(cam, S))
       \/ LET blob == FocusReply(cam, Members) IN
          \E n \in 0..(blob.size - 1) : Misanswered("get_cut") /\ Receive(Cut(blob, n))
    /\ UNCHANGED <<cam, config>>

\* A camera, or a firmware, that says otherwise where a payload is: one that ends
\* near the end of the blob, or one near the end of what a word can hold.
OddEntries ==
    {<<Entry(TagOf[m], "UInt8", n, ofs)>> :
        m \in {"focusMode", "dmfPos"}, n \in {5, 8, WordSize - 1},
        ofs \in 11..29 \cup (WordSize - 10)..(WordSize - 1)}

GetOdd ==
    /\ \E entries \in OddEntries : \E data \in {<<>>, <<1, 2, 3, 4, 5, 6, 7, 8>>} :
          Misanswered("get_odd") /\ Receive(Blob(entries, data))
    /\ UNCHANGED <<cam, config>>

\* config_api(): the camera returns to its defaults.  No data at all is an
\* exception, as is a type that dir_type_size does not know; an answer that ends
\* early is not.
ConfigApi ==
    /\ \/ /\ Call("config", Fields)
          /\ config' = DecodeConfig(ConfigReply(identity))
       \/ \E n \in 1..(ConfigReply(identity).size - 1) :
             /\ Misanswered("config_cut")
             /\ config' = DecodeConfig(Cut(ConfigReply(identity), n))
       \/ /\ Misanswered("config_threw")
          /\ UNCHANGED config
    /\ cam' = [m \in Members |-> Default(m)]
    /\ UNCHANGED <<obj, wild>>

Next == Assign \/ SetFocus \/ GetFocus \/ GetOdd \/ ConfigApi

Spec == Init /\ [][Next]_vars

-----------------------------------------------------------------------------
(***************************************************************************)
(* Properties.                                                             *)
(***************************************************************************)

IsStep(s) == last'.step = s /\ calls' > calls

\* set_cam_data_group_focus gives the camera every member that is set to one to
\* four bytes, and changes no other: not the read-only ones that came with the
\* object, and not a position that is longer, whose bytes it leaves out.
SetReaches ==
    [][IsStep("set") =>
         \A m \in Members :
            cam'[m] = IF m \in Written /\ obj[m] # Unset /\ Len(obj[m][1]) \in 1..4
                      THEN obj[m][1] ELSE cam[m]]_vars

\* get_cam_data_group_focus shows what the camera has: every member it sent, of
\* whatever length, those without bytes excepted, in values their C++ types have.
\* config_api shows what the camera is, with neither a terminator nor a character
\* less.
GetReflectsCamera ==
    /\ [][IsStep("get") =>
            \A m \in Members :
               obj'[m] = IF m \in last'.sent /\ cam[m] # <<>> THEN Holds(cam[m]) ELSE Unset]_vars
    /\ [][IsStep("config") => config' = identity]_vars
    /\ []TypeOK

\* An answer that ends early passes for one with fewer members: none is mixed
\* up, and none is taken from behind the end.
CutNeverMixes ==
    [][/\ IsStep("get_cut") => \A m \in Members : obj'[m] \in {Unset, Holds(cam[m])}
       /\ IsStep("config_cut") => \A f \in Fields : config'[f] \in {<<>>, identity[f]}]_vars

\* decode() reads outside an answer only where offset and size of a payload
\* exceed a word together.
WildReadCause ==
    \A blob \in wild : \E e \in ToSet(blob.entries) :
        e.value + PayloadSize(e) >= WordSize

=============================================================================
