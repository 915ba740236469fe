-------------------------------- MODULE Apex --------------------------------
(***************************************************************************)
(* ApexConverter (src/utils/apex.cpp): exposure values to and from the     *)
(* camera's one-byte codes, by a table.  Values are whole numbers, in a    *)
(* unit fine enough for the table; see ApexTables.                         *)
(*                                                                         *)
(* encode_uint8 takes the nearest value, the lower of two that are equally *)
(* near.  Its arithmetic is that of doubles: unless the values of a table  *)
(* are exact in binary, which of the two is nearer is left to rounding.    *)
(***************************************************************************)
EXTENDS Integers

CONSTANTS
    Tables,     \* names of the converters
    Entries,    \* of each converter: its codes and their values
    Exact,      \* converters whose values are exact in binary
    Asked       \* of each converter: the values that applications ask for

\* No two entries of a table share a code or a value.  Assumed by the module that
\* gives the tables.
ApexAssumption ==
    /\ Entries \in [Tables -> SUBSET [code : 0..255, value : Int]]
    /\ Asked \in [Tables -> SUBSET Int]
    /\ \A t \in Tables : \A e, f \in Entries[t] :
          e.code = f.code \/ e.value = f.value => e = f

VARIABLES
    table,      \* the converter that the application uses
    did,        \* its last call, and whether it got an answer
    value,      \* what it asked for, or was shown
    code        \* the code that goes with it

vars == <<table, did, value, code>>

\* Every variable has its type, and what the application holds is in the table.
TypeOK ==
    /\ table \in Tables
    /\ did \in {"nothing", "encoded", "decoded", "unknown"}
    /\ value \in Int
    /\ code \in 0..255
    /\ did \in {"encoded", "decoded"} => \E e \in Entries[table] : e.code = code

Init ==
    /\ table \in Tables
    /\ did = "nothing"
    /\ value = 0
    /\ code = 0

-----------------------------------------------------------------------------

Magnitude(a) == IF a < 0 THEN -a ELSE a

\* Variant: the signs of the values are left out.
MagnitudeDistance(a, b) == Magnitude(Magnitude(a) - Magnitude(b))

\* std::fabs(a - b)
Distance(a, b) == Magnitude(a - b)

\* e is the entry that std::min_element finds.
Nearest(e, v) ==
    \A f \in Entries[table] :
        \/ Distance(e.value, v) < Distance(f.value, v)
        \/ Distance(e.value, v) = Distance(f.value, v) /\ (e.value <= f.value \/ table \notin Exact)

\* encode_uint8
Encode(v) ==
    /\ \E e \in Entries[table] : Nearest(e, v) /\ code' = e.code
    /\ did' = "encoded" /\ value' = v
    /\ UNCHANGED table

\* Variant: the next code will do as well.
NearCode(c) == {e \in Entries[table] : e.code \in {c, c + 1}}

\* Entries of a code: one, or none.
WithCode(c) == {e \in Entries[table] : e.code = c}

\* decode_uint8, of a code that the camera sent
Decode(c) ==
    /\ \/ /\ WithCode(c) = {}
          /\ did' = "unknown" /\ value' = 0 /\ code' = 0
       \/ \E e \in WithCode(c) : did' = "decoded" /\ value' = e.value /\ code' = c
    /\ UNCHANGED table

Next ==
    \/ \E v \in Asked[table] : Encode(v)
    \/ did = "decoded" /\ Encode(value)
    \/ \E c \in 0..255 : Decode(c)

Spec == Init /\ [][Next]_vars

-----------------------------------------------------------------------------
(***************************************************************************)
(* Properties.                                                             *)
(***************************************************************************)

\* A value that the camera's code was shown as is encoded as that code again:
\* reading a setting and writing it back leaves it as it was.
RoundTrip ==
    [][did = "decoded" /\ did' = "encoded" /\ value' = value => code' = code]_vars

\* Of two values that are asked for, the higher one is never set lower, though
\* neither need be in the table and ties may be decided either way.
Monotone ==
    [][did = "encoded" /\ did' = "encoded" /\ value < value' =>
         \A e \in Entries[table] : e.code = code =>
             \A f \in Entries[table] : f.code = code' => e.value <= f.value]_vars

\* Where 0 stands for BULB, an exposure that is too short for the table is set
\* to BULB, which has no end; none that is half as long as its shortest is.
BulbOnlyIfTooShort ==
    did = "encoded" /\ value > 0 =>
        \A e, f \in Entries[table] :
            e.code = code /\ e.value = 0 /\ f.value > 0 => 2 * value <= f.value

=============================================================================
