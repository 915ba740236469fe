--------------------------- MODULE ObjectListing ---------------------------
(***************************************************************************)
(* Listing what is in the camera (src/ptp/ptp.cpp): get_storage_ids, and   *)
(* get_object_handles with a storage or without, which first asks for the  *)
(* storages and takes the first.  Cards and pictures come and go between   *)
(* the two transactions.                                                   *)
(*                                                                         *)
(* Both answers are arrays of 32-bit words.  The PTP array, "canonical" in *)
(* the code, is a count and then the items; the code also reads bare       *)
(* lists.  Which of the two an answer is must be guessed from its words.   *)
(***************************************************************************)
EXTENDS Naturals, Sequences, SequencesExt

CONSTANTS
    Storages,   \* ids of the cards there may be
    Handles,    \* handles of the objects there may be
    StorageOf,  \* of each object, the card it is on
    WordSize,   \* how many values a uint32_t has
    MaxCalls    \* bound: calls the application makes

ASSUME ListingAssumption ==
    /\ WordSize \in Nat \ {0}
    /\ Storages \subseteq 1..(WordSize - 1)
    /\ Handles \subseteq 1..(WordSize - 1)
    /\ StorageOf \in [Handles -> Storages]
    /\ MaxCalls \in Nat

-----------------------------------------------------------------------------
(***************************************************************************)
(* The decoders, over the words of a payload.                              *)
(***************************************************************************)

\* get_storage_ids: every word is an id.
StorageIds(words) == words

\* Variant: the count is one of the items it counts.
BytesWithoutCount(n) == (n * 4) % WordSize

\* The bytes a counted array takes, in the width the code computes them.
BytesOfCounted(n) == (4 + n * 4) % WordSize

\* The first word is taken for a count if so many items are there.
TakenForCounted(words) == BytesOfCounted(words[1]) <= 4 * Len(words)

\* The words the loop over a counted array then reads are all in the payload.
InPayload(words) == words[1] + 1 <= Len(words)

\* Variant: the loop over a counted array starts at the count.
HandlesFromCount(words) ==
    IF words = <<>> THEN <<>>
    ELSE IF TakenForCounted(words) THEN SubSeq(words, 1, words[1]) ELSE words

\* get_object_handles, where the reads stay in the payload.
ObjectHandles(words) ==
    IF words = <<>> THEN <<>>
    ELSE IF TakenForCounted(words) THEN SubSeq(words, 2, words[1] + 1) ELSE words

-----------------------------------------------------------------------------

VARIABLES
    counted,    \* whether this camera sends counted arrays
    cards,      \* ids of the storages in the camera, in its order
    objects,    \* handles of the objects in the camera
    pc,         \* where the running call is
    default,    \* whether it is get_object_handles()
    sid,        \* the storage whose objects it wants
    known,      \* history: the cards that its first answer listed
    there,      \* history: the objects that its second answer listed
    out,        \* what the last call returned
    outcome,    \* how it ended
    calls       \* bound: calls made

camera == <<counted, cards, objects>>
vars == <<camera, pc, default, sid, known, there, out, outcome, calls>>

Words == 0..(WordSize - 1)

\* The code's word for every storage: "fall back to 0 (all)".
AllStorages == 0

\* Every variable has its type, and a call has a storage only once it was given
\* one.
TypeOK ==
    /\ counted \in BOOLEAN
    /\ cards \in Seq(Storages) /\ IsInjective(cards)
    /\ objects \subseteq {h \in Handles : StorageOf[h] \in ToSet(cards)}
    /\ pc \in {"idle", "storages", "handles"}
    /\ default \in BOOLEAN
    /\ sid \in Words
    /\ pc = "storages" => sid = AllStorages
    /\ known \in Seq(Storages)
    /\ there \in Seq(Handles)
    /\ out \in Seq(Words)
    /\ outcome \in {"none", "ok", "threw", "undefined"}
    /\ calls \in 0..MaxCalls

Init ==
    /\ counted \in BOOLEAN
    /\ cards = <<>> /\ objects = {}
    /\ pc = "idle" /\ default = FALSE /\ sid = AllStorages
    /\ known = <<>> /\ there = <<>> /\ out = <<>>
    /\ outcome = "none" /\ calls = 0

-----------------------------------------------------------------------------
(***************************************************************************)
(* The calls.                                                              *)
(***************************************************************************)

Begin(next, isDefault, s) ==
    /\ pc = "idle" /\ outcome # "undefined"
    /\ calls < MaxCalls
    /\ calls' = calls + 1
    /\ pc' = next /\ default' = isDefault /\ sid' = s
    /\ known' = <<>> /\ there' = <<>>
    /\ UNCHANGED <<camera, out, outcome>>

\* get_object_handles().
ListAll == Begin("storages", TRUE, AllStorages)

\* get_object_handles(storage, format, assoc).
ListStorage(s) == Begin("handles", FALSE, s)

\* The answer to a list: a payload of words.
Answer(items) == IF counted THEN <<Len(items)>> \o items ELSE items

\* A transaction fails.
Throw ==
    /\ pc # "idle"
    /\ pc' = "idle" /\ outcome' = "threw"
    /\ UNCHANGED <<camera, default, sid, known, there, out, calls>>

\* GetStorageIDs: the first storage, or all when there is none.
GetStorages ==
    /\ pc = "storages"
    /\ LET sids == StorageIds(Answer(cards))
       IN sid' = IF sids = <<>> THEN AllStorages ELSE sids[1]
    /\ known' = cards
    /\ pc' = "handles"
    /\ UNCHANGED <<camera, default, there, out, outcome, calls>>

\* The objects the camera lists for a storage.
ObjectsOf(s) == {h \in objects : s \in {AllStorages, StorageOf[h]}}

\* GetObjectHandles: the camera lists the objects of a storage it has, in any
\* order, and sends no data for a storage it has not.
Payload(list) ==
    IF sid = AllStorages \/ sid \in ToSet(cards) THEN Answer(list) ELSE <<>>

\* Where the loop would read past the payload anything may follow; that the memory
\* for so many items cannot be had is a Throw.
Receive(words) ==
    IF words # <<>> /\ TakenForCounted(words) /\ ~InPayload(words)
    THEN outcome' = "undefined" /\ UNCHANGED out
    ELSE outcome' = "ok" /\ out' = ObjectHandles(words)

GetHandles ==
    /\ pc = "handles"
    /\ \E list \in SetToSeqs(ObjectsOf(sid)) : there' = list /\ Receive(Payload(list))
    /\ pc' = "idle"
    /\ UNCHANGED <<camera, default, sid, known, calls>>

-----------------------------------------------------------------------------
(***************************************************************************)
(* The camera, external.                                                   *)
(***************************************************************************)

InsertCard(s) ==
    /\ s \notin ToSet(cards)
    /\ cards' = Append(cards, s)
    /\ UNCHANGED objects

RemoveCard(n) ==
    /\ cards' = RemoveAt(cards, n)
    /\ objects' = {h \in objects : StorageOf[h] # cards[n]}

AddObject(h) ==
    /\ h \notin objects /\ StorageOf[h] \in ToSet(cards)
    /\ objects' = objects \cup {h}
    /\ UNCHANGED cards

Contents ==
    /\ \/ \E s \in Storages : InsertCard(s)
       \/ \E n \in DOMAIN cards : RemoveCard(n)
       \/ \E h \in Handles : AddObject(h)
    /\ UNCHANGED <<counted, pc, default, sid, known, there, out, outcome, calls>>

Next ==
    \/ ListAll \/ \E s \in Storages : ListStorage(s)
    \/ GetStorages \/ GetHandles \/ Throw
    \/ Contents

Spec == Init /\ [][Next]_vars

-----------------------------------------------------------------------------
(***************************************************************************)
(* Properties.                                                             *)
(***************************************************************************)

Returned == pc = "idle" /\ outcome = "ok" /\ calls > 0

\* With counted arrays, a listing is the objects that the camera has on the
\* storage asked for when it answers: the count never passes for a handle and
\* no handle for a count.
CountedListIsExact == counted /\ Returned => out = there

\* With bare lists too, unless the first handle is so small that the list has
\* room for that many others: it is then taken for their count.
BareListIsExact ==
    ~counted /\ Returned /\ there # <<>> =>
        out = there \/ there[1] + 1 <= Len(there)

\* Whichever arrays the camera sends, what a listing returns is exact, but for
\* that one guess.
ListIsExact == CountedListIsExact /\ BareListIsExact

\* Reading past the payload takes a handle of at least a quarter of the word
\* range at the head of a bare list: no counted array does.
WildReadCause ==
    outcome = "undefined" => ~counted /\ there[1] >= WordSize \div 4 - 1

\* The storage that get_object_handles() asks for is one the camera listed
\* (ptp.cpp:201: "Pick a real storage ID if available; fall back to 0 (all).").
PicksARealStorage ==
    pc = "handles" /\ default /\ known # <<>> => sid \in ToSet(known)

=============================================================================
