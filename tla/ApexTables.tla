----------------------------- MODULE ApexTables -----------------------------
(***************************************************************************)
(* The tables of src/utils/apex.cpp, as pairs of a code and a value.  ISO  *)
(* speeds are whole numbers, shutter speeds tenths or fractions of a       *)
(* second, all others tenths.                                              *)
(***************************************************************************)
EXTENDS Integers

ISOSpeed == {
    <<0, 6>>, <<3, 8>>, <<5, 10>>, <<8, 12>>, <<11, 16>>, <<13, 20>>, <<16, 25>>,
    <<19, 32>>, <<21, 40>>, <<24, 50>>, <<27, 64>>, <<29, 80>>, <<32, 100>>, <<35, 125>>,
    <<37, 160>>, <<40, 200>>, <<43, 250>>, <<45, 320>>, <<48, 400>>, <<51, 500>>,
    <<53, 640>>, <<56, 800>>, <<59, 1000>>, <<61, 1250>>, <<64, 1600>>, <<67, 2000>>,
    <<69, 2500>>, <<72, 3200>>, <<75, 4000>>, <<77, 5000>>, <<80, 6400>>, <<83, 8000>>,
    <<85, 10000>>, <<88, 12800>>, <<91, 16000>>, <<93, 20000>>, <<96, 25600>>,
    <<99, 32000>>, <<101, 40000>>, <<104, 51200>>, <<107, 64000>>, <<109, 80000>>,
    <<112, 102400>>}

ExpComp2 == {
    <<0, 0>>, <<4, 5>>, <<8, 10>>, <<12, 15>>, <<16, 20>>, <<20, 25>>, <<24, 30>>,
    <<232, -30>>, <<236, -25>>, <<240, -20>>, <<244, -15>>, <<248, -10>>, <<252, -5>>}

ExpComp3 == {
    <<0, 0>>, <<3, 3>>, <<5, 7>>, <<8, 10>>, <<11, 13>>, <<14, 17>>, <<16, 20>>, <<19, 23>>,
    <<21, 27>>, <<24, 30>>, <<27, 33>>, <<29, 37>>, <<32, 40>>, <<35, 43>>, <<37, 47>>,
    <<40, 50>>, <<43, 53>>, <<45, 57>>, <<48, 60>>, <<51, 63>>, <<205, -63>>, <<208, -60>>,
    <<211, -57>>, <<213, -53>>, <<216, -50>>, <<219, -47>>, <<221, -43>>, <<224, -40>>,
    <<227, -37>>, <<229, -33>>, <<232, -30>>, <<235, -27>>, <<237, -23>>, <<240, -20>>,
    <<243, -17>>, <<245, -13>>, <<248, -10>>, <<251, -7>>, <<253, -4>>}

\* 0 is BULB.
ShutterSpeed2Tenths == {
    <<8, 0>>, <<17, 300>>, <<20, 200>>, <<24, 150>>, <<28, 100>>, <<32, 80>>, <<36, 60>>,
    <<40, 40>>, <<44, 30>>, <<48, 20>>, <<52, 15>>, <<56, 10>>, <<60, 7>>}

ShutterSpeed2Fractions == {
    <<64, 2>>, <<68, 3>>, <<72, 4>>, <<76, 6>>, <<80, 8>>, <<84, 10>>, <<88, 15>>,
    <<92, 20>>, <<96, 30>>, <<100, 45>>, <<104, 60>>, <<108, 90>>, <<112, 125>>,
    <<116, 180>>, <<120, 250>>, <<124, 350>>, <<128, 500>>, <<132, 750>>, <<136, 1000>>,
    <<140, 1500>>, <<144, 2000>>, <<148, 3000>>, <<152, 4000>>, <<156, 6000>>,
    <<160, 8000>>, <<168, 16000>>, <<176, 32000>>}

\* 0 is BULB.
ShutterSpeed3Tenths == {
    <<8, 0>>, <<16, 300>>, <<19, 250>>, <<21, 200>>, <<24, 150>>, <<27, 130>>, <<29, 100>>,
    <<32, 80>>, <<35, 60>>, <<37, 50>>, <<40, 40>>, <<43, 32>>, <<45, 25>>, <<48, 20>>,
    <<51, 16>>, <<53, 13>>, <<56, 10>>, <<59, 8>>, <<61, 6>>, <<64, 5>>, <<67, 4>>,
    <<69, 3>>}

ShutterSpeed3Fractions == {
    <<72, 4>>, <<75, 5>>, <<77, 6>>, <<80, 8>>, <<83, 10>>, <<85, 13>>, <<88, 15>>,
    <<91, 20>>, <<93, 25>>, <<96, 30>>, <<99, 40>>, <<101, 50>>, <<104, 60>>, <<107, 80>>,
    <<109, 100>>, <<112, 125>>, <<115, 160>>, <<117, 200>>, <<120, 250>>, <<123, 320>>,
    <<125, 400>>, <<128, 500>>, <<131, 640>>, <<133, 800>>, <<136, 1000>>, <<139, 1250>>,
    <<141, 1600>>, <<144, 2000>>, <<147, 2500>>, <<149, 3200>>, <<152, 4000>>,
    <<155, 5000>>, <<157, 6000>>, <<160, 8000>>, <<163, 10000>>, <<165, 12800>>,
    <<168, 16000>>, <<171, 20000>>, <<173, 25600>>, <<176, 32000>>}

Aperture2 == {
    <<8, 10>>, <<12, 12>>, <<16, 14>>, <<20, 18>>, <<28, 25>>, <<32, 28>>, <<36, 35>>,
    <<40, 40>>, <<44, 45>>, <<48, 56>>, <<52, 67>>, <<56, 80>>, <<60, 95>>, <<64, 110>>,
    <<68, 130>>, <<72, 160>>, <<76, 190>>, <<80, 220>>, <<84, 270>>, <<88, 320>>,
    <<92, 380>>, <<96, 450>>, <<100, 540>>, <<104, 640>>, <<108, 760>>, <<112, 910>>}

Aperture3 == {
    <<8, 10>>, <<11, 11>>, <<13, 12>>, <<16, 14>>, <<19, 16>>, <<21, 18>>, <<24, 20>>,
    <<27, 22>>, <<29, 25>>, <<32, 28>>, <<35, 32>>, <<37, 35>>, <<40, 40>>, <<43, 45>>,
    <<45, 50>>, <<48, 56>>, <<51, 63>>, <<53, 71>>, <<56, 80>>, <<59, 90>>, <<61, 100>>,
    <<64, 110>>, <<67, 130>>, <<69, 140>>, <<72, 160>>, <<75, 180>>, <<77, 200>>,
    <<80, 220>>, <<83, 250>>, <<85, 290>>, <<88, 320>>, <<91, 360>>, <<93, 400>>,
    <<96, 450>>, <<99, 510>>, <<191, 570>>, <<104, 640>>, <<107, 720>>, <<108, 760>>,
    <<112, 910>>}

-----------------------------------------------------------------------------

Times(unit, pairs) == {[code |-> p[1], value |-> p[2] * unit] : p \in pairs}

\* A second in units of which every time of the tables has many; times that are
\* not a whole number of them are rounded down.
Second == 32000000

Shutter(tenths, fractions) ==
    Times(Second \div 10, tenths)
    \cup {[code |-> p[1], value |-> Second \div p[2]] : p \in fractions}

\* Values are doubled, so that halves are whole.
Converters ==
    [ISOSpeed |-> Times(2, ISOSpeed),
     ExpComp2 |-> Times(2, ExpComp2),
     ExpComp3 |-> Times(2, ExpComp3),
     ShutterSpeed2 |-> Shutter(ShutterSpeed2Tenths, ShutterSpeed2Fractions),
     ShutterSpeed3 |-> Shutter(ShutterSpeed3Tenths, ShutterSpeed3Fractions),
     Aperture2 |-> Times(2, Aperture2),
     Aperture3 |-> Times(2, Aperture3)]

\* Whole numbers and half stops are exact in binary, tenths and fractions are not.
ExactConverters == {"ISOSpeed", "ExpComp2"}

=============================================================================
