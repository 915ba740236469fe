----------------------- MODULE CaptureWorkflowProofs -----------------------
(***************************************************************************)
(* Any number of runs, shots, image ids and polls.  A run that has neither *)
(* thrown nor given up a shot finds a database without any entry, adds at  *)
(* most one, and takes it out again: that is why the newest entry and the  *)
(* newest picture, which is all that the library asks for, are its own.    *)
(***************************************************************************)
EXTENDS CaptureWorkflow, TLAPS

\* Shots are accepted in the order of their numbers.
Numbered == \A k \in Shots : stage[k] = "none" <=> k > taken

\* An image id names one entry.
UniqueIds ==
    \A j, k \in Shots : InDatabase(j) /\ InDatabase(k) /\ IdOf(j) = IdOf(k) => j = k

\* The last status describes an entry that is still there, and a completion
\* stays true of it.
StatusStands ==
    pc # "idle" =>
        /\ st.shot = NoShot => st.ImageId = Newest /\ st.Status \notin Completed
        /\ st.shot # NoShot =>
              /\ InDatabase(st.shot)
              /\ st.ImageId = IdOf(st.shot)
              /\ st.Status \in Completed => stage[st.shot] \in Completed

\* Before a wait nothing has been asked, and one for an image id is for an entry
\* that is there.
TargetStands ==
    /\ pc \in {"snap", "stop", "status"} => target = Newest /\ polled = 0 /\ err = 0
    /\ pc = "wait" /\ target # Newest =>
          \E k \in Shots : InDatabase(k) /\ IdOf(k) = target

\* Nothing in the database is older than the run, and the run adds one shot.
OneShot ==
    ~troubled /\ pc # "idle" =>
        /\ \A k \in Shots : k <= mark => stage[k] = "cleared"
        /\ taken = mark \/ taken = mark + 1
        /\ pc = "snap" => taken = mark
        /\ taken = mark + 1 /\ stage[taken] \in Completed => latest = taken

\* What a wait that has ended says of it.
WaitTold ==
    ~troubled =>
        /\ Waited /\ st.Status \notin Completed => taken = mark
        /\ pc \in {"part", "clear"} /\ st.Status \in Completed => info = st.shot
        /\ pc = "clear" => saved = info

IInv ==
    /\ TypeOK /\ Numbered /\ UniqueIds
    /\ StatusStands /\ TargetStands /\ OneShot /\ WaitTold /\ DatabaseLeftClean

-----------------------------------------------------------------------------

\* Ids are numbered from 1: none of them is the one that asks for the newest.
LEMMA IdType == \A k \in Shots : IdOf(k) \in 1..IdCount /\ IdOf(k) # Newest
<1> SUFFICES ASSUME NEW k \in Shots
             PROVE  IdOf(k) \in 1..IdCount /\ IdOf(k) # Newest
  OBVIOUS
<1>1. k - 1 \in Int /\ IdCount \in Nat /\ IdCount > 0
  BY CaptureAssumption DEF CaptureAssumption, Shots
<1>2. (k - 1) % IdCount \in 0..(IdCount - 1)
  BY <1>1
<1>3. QED
  BY <1>1, <1>2 DEF IdOf, Newest

\* The statuses of an entry are statuses; those that are not in the database
\* are not entries.
LEMMA StatusSets ==
    /\ EntryStatus \subseteq CaptStatus
    /\ Completed \subseteq EntryStatus
    /\ {"none", "accepted", "cleared"} \cap EntryStatus = {}
    /\ {"Cleared", "Null"} \subseteq CaptStatus
    /\ {"Cleared", "Null"} \cap Completed = {}
  BY DEF EntryStatus, CaptStatus, Completed, UnderWay, Unexpected

LEMMA ShotsAreNat == NoShot \notin Shots /\ \A k \in Shots : k \in Nat /\ k <= MaxRuns
  BY CaptureAssumption DEF Shots, NoShot, CaptureAssumption

LEMMA NoStatusType ==
    NoStatus \in [ImageId : 0..IdCount, Status : CaptStatus, shot : Shots \cup {NoShot}]
<1>1. Newest \in 0..IdCount
  BY CaptureAssumption DEF CaptureAssumption, Newest
<1>2. QED
  BY <1>1, StatusSets DEF NoStatus, Status

\* What a status request answers.
LEMMA AnswerType ==
    ASSUME IInv, NEW id \in 0..IdCount, NEW a \in Answers(id),
           id # Newest => \E k \in Shots : InDatabase(k) /\ IdOf(k) = id
    PROVE  /\ a \in [ImageId : 0..IdCount, Status : CaptStatus, shot : Shots \cup {NoShot}]
           /\ a.shot = NoShot => a.ImageId = Newest /\ a.Status \notin Completed
           /\ a.shot # NoShot =>
                 /\ InDatabase(a.shot) /\ a.ImageId = IdOf(a.shot)
                 /\ a.Status = stage[a.shot]
<1>1. CASE Described(id) = {}
  <2>1. id = Newest
    <3>1. SUFFICES ASSUME NEW k \in Shots, InDatabase(k), IdOf(k) = id, id # Newest
                   PROVE  k \in Described(id)
      BY <1>1
    <3>2. ASSUME NEW j \in Shots, InDatabase(j), id \in {Newest, IdOf(j)}
          PROVE  j <= k
      BY <3>1, <3>2, ShotsAreNat DEF IInv, UniqueIds
    <3>3. QED
      BY <3>1, <3>2 DEF Described
  <2>2. a = Status(id, "Cleared", NoShot)
    BY <1>1 DEF Answers
  <2>3. QED
    BY <2>1, <2>2, StatusSets DEF Status
<1>2. CASE Described(id) # {}
  <2>1. PICK k \in Described(id) : a = Status(IdOf(k), stage[k], k)
    BY <1>2 DEF Answers
  <2>2. k \in Shots /\ InDatabase(k)
    BY <2>1 DEF Described
  <2>3. IdOf(k) \in 0..IdCount /\ stage[k] \in CaptStatus /\ k # NoShot
    BY <2>2, IdType, StatusSets, ShotsAreNat DEF InDatabase
  <2>4. QED
    BY <2>1, <2>2, <2>3 DEF Status
<1>3. QED
  BY <1>1, <1>2

\* In a run without trouble the entry that a status describes is the run's.
LEMMA EntryIsOwn ==
    ASSUME IInv, ~troubled, pc # "idle", NEW k \in Shots, InDatabase(k)
    PROVE  k = taken /\ taken = mark + 1
<1>1. stage[k] # "cleared" /\ stage[k] # "none"
  BY StatusSets DEF InDatabase
<1>2. k \in Nat /\ taken \in Nat /\ mark \in Nat
  BY ShotsAreNat DEF IInv, TypeOK
<1>3. ~(k <= mark) /\ ~(k > taken)
  BY <1>1 DEF IInv, OneShot, Numbered
<1>4. QED
  BY <1>2, <1>3 DEF IInv, OneShot

-----------------------------------------------------------------------------

LEMMA InitIInv == Init => IInv
<1> SUFFICES ASSUME Init
             PROVE  IInv
  OBVIOUS
<1>1. TypeOK
  <2>1. 0 \in 0..MaxRuns /\ 0 \in 0..Polls /\ 0 \in 0..(ErrLimit + 1) /\ Newest \in 0..IdCount
    BY CaptureAssumption DEF CaptureAssumption, Newest
  <2>2. QED
    BY <2>1, NoStatusType DEF Init, TypeOK
<1>2. Numbered /\ UniqueIds
  BY StatusSets, ShotsAreNat DEF Init, Numbered, UniqueIds, InDatabase, Shots
<1>3. StatusStands /\ TargetStands /\ OneShot /\ WaitTold /\ DatabaseLeftClean
  BY DEF Init, StatusStands, TargetStands, OneShot, WaitTold, DatabaseLeftClean, Waited
<1>4. QED
  BY <1>1, <1>2, <1>3 DEF IInv

\* A program begins a run.
LEMMA BeginStep ==
    ASSUME IInv, NEW p \in {"capture", "bulb"}, Begin(p)
    PROVE  IInv'
<1> USE DEF Begin, camera
<1>1. TypeOK'
  <2>1. runs' \in 0..MaxRuns /\ 0 \in 0..Polls /\ 0 \in 0..(ErrLimit + 1) /\ Newest \in 0..IdCount
    BY CaptureAssumption DEF CaptureAssumption, Newest, IInv, TypeOK
  <2>2. QED
    BY <2>1, NoStatusType DEF IInv, TypeOK
<1>2. Numbered' /\ UniqueIds'
  BY DEF IInv, Numbered, UniqueIds, InDatabase
<1>3. StatusStands' /\ TargetStands'
  BY StatusSets DEF StatusStands, TargetStands, NoStatus, Status
<1>4. OneShot'
  <2>1. ASSUME ~troubled, NEW k \in Shots, k <= taken
        PROVE  stage[k] = "cleared"
    <3>1. stage[k] # "none"
      BY <2>1, ShotsAreNat DEF IInv, TypeOK, Numbered
    <3>2. QED
      BY <2>1, <3>1 DEF IInv, DatabaseLeftClean
  <2>2. taken \in Nat
    BY DEF IInv, TypeOK
  <2>3. QED
    BY <2>1, <2>2 DEF OneShot
<1>5. WaitTold' /\ DatabaseLeftClean'
  BY DEF WaitTold, DatabaseLeftClean, Waited
<1>6. QED
  BY <1>1, <1>2, <1>3, <1>4, <1>5 DEF IInv

\* The camera enters a shot.
LEMMA EnterStep ==
    ASSUME IInv, NEW k \in Shots, Enter(k)
    PROVE  IInv'
<1> USE DEF Enter, locals
<1>1. TypeOK' /\ stage' \in [Shots -> EntryStatus \cup {"none", "accepted", "cleared"}]
  BY DEF IInv, TypeOK, EntryStatus
<1>2. /\ \A j \in Shots : stage'[j] = IF j = k THEN "ShootInProgress" ELSE stage[j]
      /\ "ShootInProgress" \in EntryStatus
      /\ "ShootInProgress" \notin Completed
  BY DEF IInv, TypeOK, EntryStatus, Completed
<1>3. ~InDatabase(k) /\ stage[k] = "accepted"
  BY StatusSets DEF InDatabase
<1>4. Numbered' /\ UniqueIds'
  BY <1>2, <1>3 DEF IInv, Numbered, UniqueIds, InDatabase
<1>5. StatusStands' /\ TargetStands'
  BY <1>2, <1>3 DEF IInv, TypeOK, StatusStands, TargetStands, InDatabase
<1>6. OneShot'
  <2>1. taken = mark + 1 => taken \in Shots
    BY DEF IInv, TypeOK, Shots
  <2>2. QED
    BY <1>2, <1>3, <2>1 DEF IInv, OneShot
<1>7. WaitTold' /\ DatabaseLeftClean'
  BY <1>3 DEF IInv, WaitTold, DatabaseLeftClean, Waited
<1>8. QED
  BY <1>1, <1>4, <1>5, <1>6, <1>7 DEF IInv

\* The camera moves an entry on.
LEMMA AdvanceStep ==
    ASSUME IInv, NEW k \in Shots, Advance(k)
    PROVE  IInv'
<1> USE DEF locals
<1>1. PICK s \in EntryStatus :
          /\ <<stage[k], s>> \in Moves
          /\ stage' = [stage EXCEPT ![k] = s]
          /\ latest' = IF s = "ImageGenCompleted" THEN k ELSE latest
  BY DEF Advance
<1>2. /\ InDatabase(k)
      /\ UNCHANGED <<taken, program, pc, locals, mark, troubled, runs>>
  BY DEF Advance
<1>3. /\ s \in EntryStatus
      /\ stage[k] \in Completed => s \in Completed
      /\ s \in Completed /\ s # "ImageGenCompleted" => stage[k] \in Completed
  BY <1>1 DEF Moves, EntryStatus, Completed
<1>4. \A j \in Shots : stage'[j] = IF j = k THEN s ELSE stage[j]
  BY <1>1 DEF IInv, TypeOK
<1>5. stage[k] \notin {"none", "accepted", "cleared"} /\ s \notin {"none", "accepted", "cleared"}
  BY <1>2, <1>3, StatusSets DEF InDatabase
<1>6. TypeOK'
  BY <1>1, <1>2, <1>3 DEF IInv, TypeOK
<1>7. Numbered' /\ UniqueIds'
  BY <1>2, <1>3, <1>4, <1>5 DEF IInv, Numbered, UniqueIds, InDatabase
<1>8. StatusStands' /\ TargetStands'
  BY <1>2, <1>3, <1>4 DEF IInv, TypeOK, StatusStands, TargetStands, InDatabase
<1>9. OneShot'
  <2>1. taken = mark + 1 => taken \in Shots
    BY DEF IInv, TypeOK, Shots
  <2>2. ~troubled /\ pc # "idle" => k = taken
    BY <1>2, EntryIsOwn
  <2>3. QED
    BY <1>1, <1>2, <1>3, <1>4, <1>5, <2>1, <2>2 DEF IInv, OneShot
<1>10. WaitTold' /\ DatabaseLeftClean'
  BY <1>2, <1>5 DEF IInv, WaitTold, DatabaseLeftClean, Waited
<1>11. QED
  BY <1>6, <1>7, <1>8, <1>9, <1>10 DEF IInv

\* The camera accepts a shot.
LEMMA AcceptKeeps ==
    ASSUME IInv, Accept
    PROVE  /\ stage' \in [Shots -> EntryStatus \cup {"none", "accepted", "cleared"}]
           /\ taken' \in 0..MaxRuns
           /\ \A k \in Shots : k <= taken => stage'[k] = stage[k]
           /\ \A k \in Shots : InDatabase(k)' <=> InDatabase(k)
           /\ stage'[taken'] = "accepted"
           /\ Numbered' /\ UniqueIds'
<1> USE DEF Accept
<1>1. taken \in Nat /\ taken + 1 \in Shots /\ taken + 1 <= MaxRuns /\ MaxRuns \in Nat
  BY CaptureAssumption DEF IInv, TypeOK, Shots, CaptureAssumption
<1>2. \A j \in Shots : stage'[j] = IF j = taken + 1 THEN "accepted" ELSE stage[j]
  BY <1>1 DEF IInv, TypeOK
<1>3. stage[taken + 1] = "none"
  BY <1>1 DEF IInv, Numbered
<1>4. \A k \in Shots : InDatabase(k)' <=> InDatabase(k)
  BY <1>2, <1>3, StatusSets DEF InDatabase
<1>5. stage' \in [Shots -> EntryStatus \cup {"none", "accepted", "cleared"}]
  BY <1>1 DEF IInv, TypeOK
<1>6. Numbered'
  BY <1>1, <1>2, ShotsAreNat DEF IInv, Numbered
<1>7. UniqueIds'
  BY <1>4 DEF IInv, UniqueIds
<1>8. QED
  BY <1>1, <1>2, <1>4, <1>5, <1>6, <1>7, ShotsAreNat

\* The camera clears an entry.
LEMMA ForgetKeeps ==
    ASSUME IInv, NEW id, Forget(id)
    PROVE  /\ stage' \in [Shots -> EntryStatus \cup {"none", "accepted", "cleared"}]
           /\ \A k \in Shots :
                 stage'[k] = IF InDatabase(k) /\ IdOf(k) = id THEN "cleared" ELSE stage[k]
           /\ Numbered' /\ UniqueIds'
<1> USE DEF Forget
<1>1. \A k \in Shots :
          stage'[k] = IF InDatabase(k) /\ IdOf(k) = id THEN "cleared" ELSE stage[k]
  OBVIOUS
<1>2. stage' \in [Shots -> EntryStatus \cup {"none", "accepted", "cleared"}]
  BY DEF IInv, TypeOK
<1>3. Numbered' /\ UniqueIds'
  BY <1>1, StatusSets DEF IInv, Numbered, UniqueIds, InDatabase
<1>4. QED
  BY <1>1, <1>2, <1>3

\* The camera does nothing.
LEMMA CameraKeeps ==
    ASSUME IInv, UNCHANGED camera
    PROVE  Numbered' /\ UniqueIds'
  BY DEF camera, IInv, Numbered, UniqueIds, InDatabase

-----------------------------------------------------------------------------

LEMMA SnapStep ==
    ASSUME IInv, Snap
    PROVE  IInv'
<1> USE DEF Snap, locals
<1>1. err = 0 /\ polled = 0 /\ err <= polled /\ err <= ErrLimit
  BY CaptureAssumption DEF CaptureAssumption, IInv, TargetStands
<1>2. st.shot # NoShot => st.shot \in Shots /\ st.shot <= taken
  <2>1. ASSUME st.shot # NoShot
        PROVE  st.shot \in Shots /\ InDatabase(st.shot)
    BY <2>1 DEF IInv, TypeOK, StatusStands
  <2>2. QED
    BY <2>1, StatusSets, ShotsAreNat DEF IInv, TypeOK, Numbered, InDatabase
<1>3. CASE Accept
  <2>1. TypeOK'
    <3>1. latest' = latest
      BY <1>3 DEF Accept
    <3>2. QED
      BY <1>1, <1>3, <3>1, AcceptKeeps DEF IInv, TypeOK
  <2>2. StatusStands' /\ TargetStands'
    BY <1>2, <1>3, AcceptKeeps DEF IInv, StatusStands, TargetStands
  <2>3. OneShot'
    <3>1. taken \in Nat /\ taken' = taken + 1
      BY <1>3 DEF IInv, TypeOK, Accept
    <3>2. "accepted" \notin Completed
      BY DEF Completed
    <3>3. QED
      BY <1>3, <3>1, <3>2, AcceptKeeps DEF IInv, OneShot
  <2>4. WaitTold' /\ DatabaseLeftClean'
    BY DEF WaitTold, DatabaseLeftClean, Waited
  <2>5. QED
    BY <1>3, <2>1, <2>2, <2>3, <2>4, AcceptKeeps DEF IInv
<1>4. CASE UNCHANGED camera
  <2> USE <1>4 DEF camera
  <2>1. TypeOK'
    BY <1>1 DEF IInv, TypeOK
  <2>2. StatusStands' /\ TargetStands'
    BY DEF IInv, StatusStands, TargetStands, InDatabase
  <2>3. OneShot' /\ WaitTold' /\ DatabaseLeftClean'
    BY DEF IInv, OneShot, WaitTold, DatabaseLeftClean, Waited
  <2>4. QED
    BY <2>1, <2>2, <2>3, CameraKeeps DEF IInv
<1>5. QED
  BY <1>3, <1>4

LEMMA StopStep ==
    ASSUME IInv, Stop
    PROVE  IInv'
<1> USE DEF Stop, camera, locals
<1>1. TypeOK'
  BY DEF IInv, TypeOK
<1>2. StatusStands' /\ TargetStands'
  BY DEF IInv, StatusStands, TargetStands, InDatabase
<1>3. OneShot' /\ WaitTold' /\ DatabaseLeftClean'
  BY DEF IInv, OneShot, WaitTold, DatabaseLeftClean, Waited
<1>4. QED
  BY <1>1, <1>2, <1>3, CameraKeeps DEF IInv

LEMMA GetStatusStep ==
    ASSUME IInv, GetStatus
    PROVE  IInv'
<1> USE DEF GetStatus, camera
<1>1. PICK a \in Answers(Newest) : target' = a.ImageId
  OBVIOUS
<1>2. Newest \in 0..IdCount
  BY CaptureAssumption DEF CaptureAssumption, Newest
<1>3. /\ a.ImageId \in 0..IdCount
      /\ a.shot = NoShot => a.ImageId = Newest
      /\ a.shot # NoShot =>
            a.shot \in Shots /\ InDatabase(a.shot) /\ a.ImageId = IdOf(a.shot)
  BY <1>1, <1>2, AnswerType
<1>4. TypeOK'
  <2>1. err <= polled /\ err <= ErrLimit
    BY CaptureAssumption DEF CaptureAssumption, IInv, TargetStands
  <2>2. QED
    BY <1>1, <1>3, <2>1 DEF IInv, TypeOK
<1>5. StatusStands' /\ TargetStands'
  BY <1>1, <1>3 DEF IInv, StatusStands, TargetStands, InDatabase
<1>6. OneShot' /\ WaitTold' /\ DatabaseLeftClean'
  BY DEF IInv, OneShot, WaitTold, DatabaseLeftClean, Waited
<1>7. QED
  BY <1>4, <1>5, <1>6, CameraKeeps DEF IInv

\* An answer of the camera, whatever wait_completion makes of it.
LEMMA PollStep ==
    ASSUME IInv, Poll
    PROVE  IInv'
<1> USE DEF Poll, camera
<1>1. PICK a \in Answers(target) :
          st' = a /\ (PollCompleted(a) \/ PollUnderWay(a) \/ PollUnexpected(a))
  OBVIOUS
<1>2. /\ a \in [ImageId : 0..IdCount, Status : CaptStatus, shot : Shots \cup {NoShot}]
      /\ a.shot = NoShot => a.ImageId = Newest /\ a.Status \notin Completed
      /\ a.shot # NoShot =>
            /\ InDatabase(a.shot) /\ a.ImageId = IdOf(a.shot)
            /\ a.Status = stage[a.shot]
  <2>1. target \in 0..IdCount
    BY DEF IInv, TypeOK
  <2>2. target # Newest => \E k \in Shots : InDatabase(k) /\ IdOf(k) = target
    BY DEF IInv, TargetStands
  <2>3. QED
    BY <1>1, <2>1, <2>2, AnswerType
<1>3. \/ UNCHANGED <<pc, troubled>>
      \/ Return(a)
  BY <1>1 DEF PollCompleted, PollUnderWay, PollUnexpected
<1>4. TypeOK'
  <2>1. /\ polled \in Nat /\ Polls \in Nat /\ polled + 1 <= Polls
        /\ err \in Nat /\ ErrLimit \in Nat /\ err <= polled /\ err <= ErrLimit
    BY CaptureAssumption DEF IInv, TypeOK, CaptureAssumption
  <2>2. /\ polled' \in 0..Polls /\ err' \in 0..(ErrLimit + 1)
        /\ pc' \in {"wait", "info"} /\ troubled' \in BOOLEAN
        /\ pc' = "wait" => err' <= polled' /\ err' <= ErrLimit
    <3>1. CASE PollCompleted(a)
      BY <2>1, <3>1 DEF PollCompleted, Return, IInv, TypeOK
    <3>2. CASE PollUnderWay(a)
      BY <2>1, <3>2 DEF PollUnderWay, IInv, TypeOK
    <3>3. CASE PollUnexpected(a)
      <4>1. err' = err + 1 /\ err' \in Nat /\ err' <= ErrLimit + 1
        BY <2>1, <3>3 DEF PollUnexpected
      <4>2. CASE err' > ErrLimit
        BY <2>1, <3>3, <4>1, <4>2 DEF PollUnexpected, Return, IInv, TypeOK
      <4>3. CASE ~(err' > ErrLimit)
        BY <2>1, <3>3, <4>1, <4>3 DEF PollUnexpected, IInv, TypeOK
      <4>4. QED
        BY <4>2, <4>3
    <3>4. QED
      BY <1>1, <3>1, <3>2, <3>3
  <2>3. QED
    BY <1>1, <1>2, <2>2 DEF IInv, TypeOK
<1>5. StatusStands' /\ TargetStands'
  <2>1. StatusStands'
    BY <1>1, <1>2 DEF StatusStands, InDatabase
  <2>2. TargetStands'
    BY <1>3 DEF IInv, TargetStands, InDatabase, Return
  <2>3. QED
    BY <2>1, <2>2
<1>6. OneShot' /\ DatabaseLeftClean'
  BY <1>3 DEF IInv, OneShot, DatabaseLeftClean, Return
<1>7. WaitTold'
  <2>1. CASE UNCHANGED <<pc, troubled>>
    BY <2>1 DEF WaitTold, Waited
  <2>2. CASE Return(a)
    <3>1. pc' = "info" /\ (~troubled' => ~troubled /\ (a.Status \in Completed \/ ~(taken > mark)))
      BY <2>2, Zenon DEF Return
    <3>2. ~troubled /\ ~(taken > mark) => taken = mark
      BY DEF IInv, OneShot, TypeOK
    <3>3. QED
      BY <1>1, <3>1, <3>2 DEF WaitTold, Waited
  <2>3. QED
    BY <1>3, <2>1, <2>2
<1>8. QED
  BY <1>4, <1>5, <1>6, <1>7, CameraKeeps DEF IInv

LEMMA WaitGivesUpStep ==
    ASSUME IInv, WaitGivesUp
    PROVE  IInv'
<1> USE DEF WaitGivesUp, Return, camera, locals
<1>1. TypeOK'
  BY DEF IInv, TypeOK
<1>2. StatusStands' /\ TargetStands'
  BY DEF IInv, StatusStands, TargetStands, InDatabase
<1>3. OneShot' /\ DatabaseLeftClean'
  BY DEF IInv, OneShot, DatabaseLeftClean
<1>4. WaitTold'
  <2>1. pc' = "info" /\ (~troubled' => ~troubled /\ (st.Status \in Completed \/ ~(taken > mark)))
    BY Zenon
  <2>2. ~troubled /\ ~(taken > mark) => taken = mark
    BY DEF IInv, OneShot, TypeOK
  <2>3. QED
    BY <2>1, <2>2 DEF WaitTold, Waited
<1>5. QED
  BY <1>1, <1>2, <1>3, <1>4, CameraKeeps DEF IInv

\* The newest picture is described: the run's, if its shot completed.
LEMMA GetInfoStep ==
    ASSUME IInv, GetInfo
    PROVE  IInv'
<1> USE DEF GetInfo, camera
<1>1. TypeOK'
  BY DEF IInv, TypeOK
<1>2. StatusStands' /\ TargetStands'
  BY DEF IInv, StatusStands, TargetStands, InDatabase
<1>3. OneShot' /\ DatabaseLeftClean'
  BY DEF IInv, OneShot, DatabaseLeftClean
<1>4. ~troubled /\ st.Status \in Completed => latest = st.shot
  <2>1. SUFFICES ASSUME ~troubled, st.Status \in Completed
                 PROVE  latest = st.shot
    OBVIOUS
  <2>2. st.shot \in Shots /\ InDatabase(st.shot) /\ stage[st.shot] \in Completed
    BY <2>1 DEF IInv, TypeOK, StatusStands
  <2>3. st.shot = taken /\ taken = mark + 1
    BY <2>1, <2>2, EntryIsOwn
  <2>4. QED
    BY <2>1, <2>2, <2>3 DEF IInv, OneShot
<1>5. WaitTold'
  BY <1>4 DEF IInv, WaitTold, Waited
<1>6. QED
  BY <1>1, <1>2, <1>3, <1>5, CameraKeeps DEF IInv

LEMMA GetPictureStep ==
    ASSUME IInv, GetPicture
    PROVE  IInv'
<1> USE DEF GetPicture, camera
<1>1. TypeOK'
  BY DEF IInv, TypeOK
<1>2. StatusStands' /\ TargetStands'
  BY DEF IInv, StatusStands, TargetStands, InDatabase
<1>3. OneShot' /\ WaitTold' /\ DatabaseLeftClean'
  BY DEF IInv, OneShot, WaitTold, DatabaseLeftClean, Waited
<1>4. QED
  BY <1>1, <1>2, <1>3, CameraKeeps DEF IInv

\* The run takes its entry out of the database, which leaves none.
LEMMA ClearStep ==
    ASSUME IInv, Clear
    PROVE  IInv'
<1> USE DEF Clear, locals
<1>1. Forget(st.ImageId)
  OBVIOUS
<1>2. TypeOK'
  BY <1>1, ForgetKeeps DEF IInv, TypeOK, Forget
<1>3. StatusStands' /\ TargetStands' /\ OneShot' /\ WaitTold'
  BY DEF IInv, StatusStands, TargetStands, OneShot, WaitTold, Waited
<1>4. DatabaseLeftClean'
  <2>1. SUFFICES ASSUME ~troubled, NEW k \in Shots
                 PROVE  stage'[k] \in {"none", "cleared"}
    BY DEF DatabaseLeftClean
  <2>2. taken \in Nat /\ mark \in Nat /\ k \in Nat
    BY ShotsAreNat DEF IInv, TypeOK
  <2>3. k <= mark => stage[k] = "cleared"
    BY <2>1 DEF IInv, OneShot
  <2>4. k > taken => stage[k] = "none"
    BY DEF IInv, Numbered
  <2>5. CASE st.Status \in Completed
    <3>1. st.shot \in Shots /\ InDatabase(st.shot) /\ st.ImageId = IdOf(st.shot)
      BY <2>5 DEF IInv, TypeOK, StatusStands
    <3>2. st.shot = taken /\ taken = mark + 1
      BY <2>1, <3>1, EntryIsOwn
    <3>3. k = taken \/ k <= mark \/ k > taken
      BY <2>2, <3>2
    <3>4. QED
      BY <1>1, <2>3, <2>4, <3>1, <3>2, <3>3, ForgetKeeps
  <2>6. CASE st.Status \notin Completed
    <3>1. taken = mark
      BY <2>1, <2>6 DEF IInv, WaitTold, Waited
    <3>2. QED
      BY <1>1, <2>2, <2>3, <2>4, <3>1, ForgetKeeps
  <2>7. QED
    BY <2>5, <2>6
<1>5. QED
  BY <1>1, <1>2, <1>3, <1>4, ForgetKeeps DEF IInv

\* After an exception nothing is promised but what holds of any database.
LEMMA ThrowStep ==
    ASSUME IInv, Throw
    PROVE  IInv'
<1> USE DEF Throw, locals
<1>1. TypeOK' /\ Numbered' /\ UniqueIds'
  <2>1. CASE UNCHANGED camera
    BY <2>1, CameraKeeps DEF IInv, TypeOK, camera
  <2>2. CASE Accept
    BY <2>2, AcceptKeeps DEF IInv, TypeOK, Accept
  <2>3. CASE Forget(st.ImageId)
    BY <2>3, ForgetKeeps DEF IInv, TypeOK, Forget
  <2>4. QED
    BY <2>1, <2>2, <2>3
<1>2. StatusStands' /\ TargetStands' /\ OneShot' /\ WaitTold' /\ DatabaseLeftClean'
  BY DEF StatusStands, TargetStands, OneShot, WaitTold, DatabaseLeftClean
<1>3. QED
  BY <1>1, <1>2 DEF IInv

LEMMA NextIInv == IInv /\ [Next]_vars => IInv'
<1> SUFFICES ASSUME IInv, [Next]_vars
             PROVE  IInv'
  OBVIOUS
<1>1. CASE UNCHANGED vars
  BY <1>1, CameraKeeps
  DEF vars, camera, locals, IInv, TypeOK, StatusStands, TargetStands, OneShot, WaitTold,
      DatabaseLeftClean, InDatabase, Waited
<1>2. CASE Work
  BY <1>2, SnapStep, StopStep, GetStatusStep, PollStep, WaitGivesUpStep, GetInfoStep,
     GetPictureStep, ClearStep DEF Work
<1>3. CASE Throw
  BY <1>3, ThrowStep
<1>4. CASE \E p \in {"capture", "bulb"} : Begin(p)
  BY <1>4, BeginStep
<1>5. CASE \E k \in Shots : Enter(k) \/ Advance(k)
  BY <1>5, EnterStep, AdvanceStep
<1>6. QED
  BY <1>1, <1>2, <1>3, <1>4, <1>5 DEF Next

-----------------------------------------------------------------------------

\* The database, the last status and what the run knows of them agree.
THEOREM Invariance == Spec => []IInv
<1>1. QED
  BY InitIInv, NextIInv, PTL DEF Spec

\* Every variable has its type, and the wait keeps to both its limits.
THEOREM TypeCorrect == Spec => []TypeOK
<1>1. IInv => TypeOK
  BY DEF IInv
<1>2. QED
  BY <1>1, Invariance, PTL

\* Without trouble, the completion that a wait reports is the run's own.
THEOREM OwnCompletion == Spec => []CompletionIsOwn
<1>1. IInv => CompletionIsOwn
  <2>1. SUFFICES ASSUME IInv, ~troubled, Waited, st.Status \in Completed
                 PROVE  st.shot = taken /\ taken = mark + 1
    BY DEF CompletionIsOwn
  <2>2. st.shot \in Shots /\ InDatabase(st.shot) /\ pc # "idle"
    BY <2>1 DEF IInv, TypeOK, StatusStands, Waited
  <2>3. QED
    BY <2>1, <2>2, EntryIsOwn
<1>2. QED
  BY <1>1, Invariance, PTL

\* Without trouble, so is the picture that is saved.
THEOREM OwnPicture == Spec => []PictureIsOwn
<1>1. IInv => PictureIsOwn
  BY DEF IInv, WaitTold, PictureIsOwn
<1>2. QED
  BY <1>1, Invariance, PTL

\* Without trouble, every run leaves an empty database.
THEOREM CleanDatabase == Spec => []DatabaseLeftClean
<1>1. IInv => DatabaseLeftClean
  BY DEF IInv
<1>2. QED
  BY <1>1, Invariance, PTL

\* An entry that is cleared is the one that the last status described, and a
\* completed one if that was a completion.
THEOREM OnlySeenCleared == Spec => ClearsWhatItSaw
<1> DEFINE Kept ==
        \A k \in Shots :
            InDatabase(k) /\ stage'[k] = "cleared" =>
                /\ k = st.shot
                /\ st.Status \in Completed => stage[k] \in Completed
<1>1. ASSUME IInv, [Next]_vars
      PROVE  [Kept]_vars
  <2>1. ASSUME NEW k \in Shots, InDatabase(k), stage'[k] = "cleared"
        PROVE  pc # "idle" /\ Forget(st.ImageId)
    <3>1. stage[k] # "cleared"
      BY <2>1, StatusSets DEF InDatabase
    <3>2. ~UNCHANGED stage
      BY <2>1, <3>1
    <3>3. ~Accept
      <4>1. SUFFICES ASSUME Accept
                     PROVE  stage'[k] \in EntryStatus
        BY <2>1, StatusSets
      <4>2. InDatabase(k)'
        BY <1>1, <2>1, <4>1, AcceptKeeps
      <4>3. QED
        BY <4>2 DEF InDatabase
    <3>4. ASSUME NEW j \in Shots
          PROVE  ~Enter(j) /\ ~Advance(j)
      BY <1>1, <2>1, <3>1 DEF Enter, Advance, EntryStatus, Completed, IInv, TypeOK
    <3>5. CASE Work
      BY <3>2, <3>3, <3>5
      DEF Work, Snap, Stop, GetStatus, Poll, WaitGivesUp, GetInfo, GetPicture, Clear, camera
    <3>6. CASE Throw
      BY <3>2, <3>3, <3>6 DEF Throw, camera
    <3>7. QED
      BY <1>1, <3>2, <3>4, <3>5, <3>6 DEF Next, Begin, vars, camera
  <2>2. ASSUME NEW k \in Shots, InDatabase(k), stage'[k] = "cleared"
        PROVE  k = st.shot /\ (st.Status \in Completed => stage[k] \in Completed)
    <3>1. pc # "idle" /\ IdOf(k) = st.ImageId
      BY <1>1, <2>1, <2>2, ForgetKeeps, StatusSets DEF InDatabase
    <3>2. st.shot \in Shots /\ InDatabase(st.shot) /\ st.ImageId = IdOf(st.shot)
      BY <1>1, <3>1, IdType DEF IInv, TypeOK, StatusStands
    <3>3. k = st.shot
      BY <1>1, <2>2, <3>1, <3>2 DEF IInv, UniqueIds
    <3>4. QED
      BY <1>1, <3>1, <3>2, <3>3, ShotsAreNat DEF IInv, StatusStands
  <2>3. QED
    BY <2>2
<1>2. QED
  BY <1>1, Invariance, PTL DEF Spec, ClearsWhatItSaw

=============================================================================
