--------------------------- MODULE SettingsTables ---------------------------
(***************************************************************************)
(* The members of the five settings groups (CamDataGroup1 ..               *)
(* CamDataGroup5, src/sigma/schema.cpp): which bit of a payload's          *)
(* FieldPresent mask announces each, the order of the items in a payload,  *)
(* and the bytes of each (src/utils/utils.h).                              *)
(***************************************************************************)
EXTENDS Integers

-----------------------------------------------------------------------------
(***************************************************************************)
(* The members of a group, with the bit of FieldPresent that announces     *)
(* each.  An item is what one bit announces: a member, some of them, or a  *)
(* byte that is read and dropped.                                          *)
(***************************************************************************)

Group1 ==
    [shutterSpeed |-> 8, aperture |-> 9, programShift |-> 10, isoAuto |-> 11,
     isoSpeed |-> 12, expComp |-> 13, abValue |-> 14, abSetting |-> 15,
     frameBufferState |-> 0, mediaFreeSpace |-> 1, mediaStatus |-> 2,
     currentLensFocalLength |-> 3, batteryState |-> 4, abShotRemainNumber |-> 5,
     expCompExcludeAB |-> 6]

Group2 ==
    [driveMode |-> 8, specialMode |-> 9, exposureMode |-> 10, aeMeteringMode |-> 11,
     flashType |-> 0, flashMode |-> 2, flashSetting |-> 3, whiteBalance |-> 5,
     resolution |-> 6, imageQuality |-> 7]

Group3 ==
    [colorSpace |-> 11, colorMode |-> 12, batteryKind |-> 13, lensWideFocalLength |-> 14,
     lensTeleFocalLength |-> 15, afAuxLight |-> 0, afBeep |-> 1, timerSound |-> 5,
     destToSave |-> 7]

Group4 ==
    [dcCropMode |-> 12, lvMagnifyRatio |-> 13, highISOExt |-> 14, contShootSpeed |-> 15,
     hdr |-> 0, dngQuality |-> 1, fillLight |-> 2, locDistortion |-> 3,
     locChromaticAberration |-> 3, locDiffraction |-> 3, locVignetting |-> 3,
     locColorShade |-> 3, locColorShadeAcq |-> 3, eImageStab |-> 4, shutterSound |-> 5]

Group5 ==
    [intervalTimerSecond |-> 8, intervalTimerFrame |-> 8, intervalTimerSecondRemain |-> 8,
     intervalTimerFrameRemain |-> 8, colorTemp |-> 9, aspectRatio |-> 11,
     toneEffect |-> 13, afAuxLightEF |-> 7]

BitOf == <<Group1, Group2, Group3, Group4, Group5>>

Members == [g \in 1..5 |-> DOMAIN BitOf[g]]

\* Bits whose byte is read and dropped.
Reserved == <<{7}, {1, 4, 12, 13, 14, 15}, {2, 3, 4, 6, 8, 9, 10}, {8, 9, 10, 11},
              {0, 1, 2, 3, 4, 5, 6, 10, 12, 14, 15}>>

\* The items of several members, of six bytes each.
LOC == 3            \* FP_LOC of group 4
Interval == 8       \* FP_Int of group 5

Compound == <<{}, {}, {}, {LOC}, {Interval}>>

\* Where the bytes of each of their members begin.
Offsets ==
    [locDistortion |-> 0, locChromaticAberration |-> 1, locDiffraction |-> 2,
     locVignetting |-> 3, locColorShade |-> 4, locColorShadeAcq |-> 5,
     intervalTimerSecond |-> 0, intervalTimerFrame |-> 2,
     intervalTimerSecondRemain |-> 3, intervalTimerFrameRemain |-> 5]

OffsetOf(m) == IF m \in DOMAIN Offsets THEN Offsets[m] ELSE 0

\* Members of two bytes.
Wide ==
    {"mediaFreeSpace", "currentLensFocalLength", "lensWideFocalLength",
     "lensTeleFocalLength", "intervalTimerSecond", "intervalTimerSecondRemain", "colorTemp"}

WidthOf(m) == IF m \in Wide THEN 2 ELSE 1

\* The bits that encode() sets: all with members, but for group 1.
Encoded(g) == {BitOf[g][m] : m \in Members[g]} \ (IF g = 1 THEN 0..7 ELSE {})

Settable == [g \in 1..5 |-> {m \in Members[g] : BitOf[g][m] \in Encoded(g)}]

\* How many bytes each bit announces.
ItemWidth ==
    [g \in 1..5 |-> [n \in 0..15 |->
        IF n \in Compound[g] THEN 6
        ELSE IF \E m \in Members[g] : BitOf[g][m] = n THEN
            IF \E m \in Wide \cap Members[g] : BitOf[g][m] = n THEN 2 ELSE 1
        ELSE IF n \in Reserved[g] THEN 1 ELSE 0]]

\* When each bit has its turn.
Turns(order) == [n \in 0..15 |-> CHOOSE k \in 1..16 : order[k] = n]

\* The order in which encode() writes the items of every group, and decode() reads
\* those of groups 1, 3 and 4: the bits of the mask's first byte, from the lowest.
Ascending == Turns(<<8, 9, 10, 11, 12, 13, 14, 15, 0, 1, 2, 3, 4, 5, 6, 7>>)

ReadOrder ==
    <<Ascending,
      Turns(<<8, 9, 10, 11, 15, 14, 13, 12, 0, 1, 2, 3, 4, 5, 6, 7>>),
      Ascending,
      Ascending,
      Turns(<<8, 9, 10, 11, 12, 13, 14, 7, 15, 0, 1, 2, 3, 4, 5, 6>>)>>

-----------------------------------------------------------------------------
(***************************************************************************)
(* Members to bytes and back.                                              *)
(***************************************************************************)

FocalLengths ==
    {"currentLensFocalLength", "lensWideFocalLength", "lensTeleFocalLength"}

\* Members that the object holds in a signed byte.
SignedMembers == {"fillLight"}

\* The highest value of two bytes.
MaxWord == 65535

\* Focal lengths are floats, here in 32nds of a millimetre; on the wire they
\* are 12.4 fixed point, rounded to the nearest 16th.
Fp12_4Encode(f) == LET clamped == IF f < 0 THEN 0 ELSE IF f > 2 * MaxWord THEN 2 * MaxWord ELSE f
                   IN (clamped + 1) \div 2
Fp12_4Decode(x) == 2 * x

\* put_8 and put_16le keep the low bytes.
ToWire(m, v) == IF m \in FocalLengths THEN Fp12_4Encode(v) ELSE v

FromWire(m, x) ==
    IF m \in FocalLengths THEN Fp12_4Decode(x)
    ELSE IF m \in SignedMembers /\ x > 127 THEN x - 256
    ELSE x

\* Byte b of a value on the wire: put_8, put_16le.
LittleEndian(x, b) == IF b = 1 THEN x % 256 ELSE (x \div 256) % 256

\* The two bytes of a mask, each as the set of its bits: put_16be.
BigEndian16(bits) == <<{n - 8 : n \in bits \cap 8..15}, bits \cap 0..7>>

\* Variant: the mask is read with its bytes the wrong way round.
FromBigEndian16Swapped(bytes) == bytes[1] \cup {n + 8 : n \in bytes[2]}

FromBigEndian16(bytes) == {n + 8 : n \in bytes[1]} \cup bytes[2]

\* Values that the bytes of a member can have, and its C++ type.
Words == 0..MaxWord
Lengths == 0..(2 * MaxWord)

WireValues(m) == IF WidthOf(m) = 2 THEN Words ELSE 0..255

ObjectValues(m) ==
    IF m \in SignedMembers THEN -128..127
    ELSE IF m \in FocalLengths THEN Lengths ELSE WireValues(m)

=============================================================================
