---------------------------- MODULE MCEncodings ----------------------------
(***************************************************************************)
(* The values an application and the camera exchange are coded in three    *)
(* ways: by position in the settings groups (GroupSettings), in the        *)
(* entries of blobs (FocusGroup), and exposure values by tables (Apex).    *)
(* This instance checks them for TLC: the groups by themselves             *)
(* (GroupsSpec), the two others one in each behaviour (EitherSpec).  The   *)
(* converters are those of the library, asked for the values of their      *)
(* tables (which they decode first), in the middle between two (also past  *)
(* it, where rounding does not decide), and above them all.                *)
(***************************************************************************)
EXTENDS FocusGroup, ApexTables

CONSTANTS
    Tables, Entries, Exact, Asked,
    Groups

VARIABLES
    coding,         \* which one the application uses
    table, did, value, code,
    group, settings, object, called, lastCall

Apex == INSTANCE Apex
G == INSTANCE GroupSettings

apexVars == <<table, did, value, code>>
groupVars == <<group, settings, object, called, lastCall>>

ASSUME EncodingsAssumption == Apex!ApexAssumption
ASSUME SettingsAssumption == G!GroupsAssumption

MCTables == DOMAIN Converters

Neighbours(t) ==
    {p \in Entries[t] \X Entries[t] :
        /\ p[1].value < p[2].value
        /\ \A e \in Entries[t] : e.value <= p[1].value \/ e.value >= p[2].value}

Middles(t) == {(p[1].value + p[2].value) \div 2 : p \in Neighbours(t)}

Around(t) ==
    Middles(t) \cup {m + 1 : m \in IF t \in Exact THEN Middles(t) ELSE {}}
        \cup {50 * Second}

MCEntries == [t \in Tables |-> Converters[t]]

MCAsked == [t \in Tables |-> Around(t)]

-----------------------------------------------------------------------------

\* What is not used stays as it is at first.
NoBlobs ==
    Init /\ cam["dmfDetection"] = <<>> /\ identity = CHOOSE c \in CamConfigs : TRUE
NoTables == Apex!Init /\ table = CHOOSE t \in Tables : TRUE
NoGroups == G!Init /\ group = CHOOSE g \in Groups : TRUE

BlobsInit == coding = "blobs" /\ Init /\ NoTables /\ NoGroups
TablesInit == coding = "tables" /\ Apex!Init /\ NoBlobs /\ NoGroups
GroupsInit == coding = "groups" /\ G!Init /\ NoBlobs /\ NoTables

BlobsNext == coding = "blobs" /\ Next /\ UNCHANGED <<coding, apexVars, groupVars>>
TablesNext == coding = "tables" /\ Apex!Next /\ UNCHANGED <<coding, vars, groupVars>>
GroupsNext == coding = "groups" /\ G!Next /\ UNCHANGED <<coding, vars, apexVars>>

EitherSpec ==
    /\ BlobsInit \/ TablesInit
    /\ [][BlobsNext \/ TablesNext]_<<coding, vars, apexVars, groupVars>>

GroupsSpec == GroupsInit /\ [][GroupsNext]_<<coding, vars, apexVars, groupVars>>

\* Every setting that the application has set reaches the camera as itself.
SetDelivers == G!SetDelivers

\* Of the others, set_group changes only those of an item that has one that is
\* set, and turns these off.
SetSparesOthers == G!SetSparesOthers

\* get_group shows the settings of the items it was answered with, or throws.
GetReflectsSettings == G!GetReflectsCamera

\* Settings that were read are written back as they were.
EchoIsHarmless == G!EchoIsHarmless

\* A value that the camera's code was shown as is encoded as that code again.
RoundTrip == Apex!RoundTrip

\* Of two values that are asked for, the higher one is never set lower.
Monotone == Apex!Monotone

\* Only an exposure that is too short for the table is set to BULB.
BulbOnlyIfTooShort == Apex!BulbOnlyIfTooShort

=============================================================================
