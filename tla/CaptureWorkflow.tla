-------------------------- MODULE CaptureWorkflow --------------------------
(***************************************************************************)
(* Taking pictures from the host: snap, get_cam_capt_status,               *)
(* wait_completion and clear_image_db_single (src/sigma/sigma_ptp.cpp), in *)
(* the two programs that use them (examples/sigma_capture_example.cpp and  *)
(* sigma_bulb_example.cpp).  A program takes one shot, waits for it to     *)
(* complete, fetches "the" picture and clears the shot's entry from the    *)
(* camera's database.  It ends at the first exception and is run again.    *)
(*                                                                         *)
(* Every transaction is a step.  The camera enters an accepted shot into   *)
(* its database when it gets to it, and moves the entries on, at any time. *)
(***************************************************************************)
EXTENDS Integers

CONSTANTS
    IdCount,    \* image ids the camera numbers its shots with, from 1
    Polls,      \* polls of one wait_completion: 50 in the examples
    ErrLimit,   \* unexpected statuses it puts up with: 15 in the code
    MaxRuns     \* bound: times a program is run

ASSUME CaptureAssumption ==
    /\ IdCount \in Nat \ {0}
    /\ Polls \in Nat
    /\ ErrLimit \in Nat
    /\ MaxRuns \in Nat

-----------------------------------------------------------------------------
(***************************************************************************)
(* The statuses, by what wait_completion makes of them.                    *)
(***************************************************************************)

\* Variant: a picture that is being generated is complete.
CompletedEarly ==
    {"ImageGenCompleted", "ImageDataStorageCompleted", "ImageGenInProgress"}

\* Variant: the status that the code has commented out.
CompletedOrCleared == {"ImageGenCompleted", "ImageDataStorageCompleted", "Cleared"}

\* wait_completion returns.
Completed == {"ImageGenCompleted", "ImageDataStorageCompleted"}

\* It waits on.
UnderWay ==
    {"ShootInProgress", "ShootSuccess", "ImageGenInProgress", "AFSuccess", "CWBSuccess"}

\* It counts an error.
Unexpected ==
    {"Null", "Cleared", "StopMovieRec", "MovieGenCompleted", "Interrupted",
     "AFFailed", "BufferFull", "CWBFailed", "ImageGenFailed", "Failed"}

CaptStatus == Completed \cup UnderWay \cup Unexpected

\* External: how the entry of a shot without autofocus may move on.
Moves ==
    {<<"ShootInProgress", "ShootSuccess">>, <<"ShootInProgress", "Failed">>,
     <<"ShootSuccess", "ImageGenInProgress">>,
     <<"ImageGenInProgress", "ImageGenCompleted">>,
     <<"ImageGenInProgress", "ImageGenFailed">>,
     <<"ImageGenCompleted", "ImageDataStorageCompleted">>}

\* Of those statuses, what an entry of the database may say.
EntryStatus ==
    {"ShootInProgress", "ShootSuccess", "Failed", "ImageGenInProgress", "ImageGenFailed"}
        \cup Completed

\* Shots are numbered as the camera accepts them; 0 is none.  A run takes one.
Shots == 1..MaxRuns

NoShot == 0

\* Image ids go round.
IdOf(k) == ((k - 1) % IdCount) + 1

\* Image id 0 asks for the newest entry.
Newest == 0

\* CamCaptStatus, with the shot that it describes, as history.
Status(i, s, k) == [ImageId |-> i, Status |-> s, shot |-> k]

NoStatus == Status(Newest, "Null", NoShot)

VARIABLES
    stage,      \* of each shot: its status in the database, or where else it is
    latest,     \* the shot whose picture was generated last
    taken,      \* shots the camera has accepted
    program,    \* the program that runs
    pc,         \* the transaction it comes to next
    target,     \* the image id that wait_completion was given
    polled,     \* answers it has had: i in the code
    err,        \* unexpected ones among them
    st,         \* CamCaptStatus
    info,       \* the shot whose picture get_pict_file_info2 described
    saved,      \* the shot whose picture was saved
    mark,       \* history: shots the camera had accepted when the run began
    troubled,   \* history: some run threw, or gave up an accepted shot
    runs        \* bound: runs begun

camera == <<stage, latest, taken>>
locals == <<target, polled, err, st, info, saved>>
vars == <<camera, program, pc, locals, mark, troubled, runs>>

\* Every variable has its type; wait_completion never asks more often than it
\* was told, nor again after one unexpected status too many.
TypeOK ==
    /\ stage \in [Shots -> EntryStatus \cup {"none", "accepted", "cleared"}]
    /\ latest \in Shots \cup {NoShot}
    /\ taken \in 0..MaxRuns
    /\ program \in {"capture", "bulb"}
    /\ pc \in {"idle", "snap", "stop", "status", "wait", "info", "part", "clear"}
    /\ target \in 0..IdCount
    /\ polled \in 0..Polls
    /\ err \in 0..(ErrLimit + 1)
    /\ pc = "wait" => err <= polled /\ err <= ErrLimit
    /\ st \in [ImageId : 0..IdCount, Status : CaptStatus, shot : Shots \cup {NoShot}]
    /\ info \in Shots \cup {NoShot}
    /\ saved \in Shots \cup {NoShot}
    /\ mark \in 0..MaxRuns
    /\ troubled \in BOOLEAN
    /\ runs \in 0..MaxRuns

Init ==
    /\ stage = [k \in Shots |-> "none"] /\ latest = NoShot /\ taken = 0
    /\ program = "capture" /\ pc = "idle"
    /\ target = Newest /\ polled = 0 /\ err = 0
    /\ st = NoStatus /\ info = NoShot /\ saved = NoShot
    /\ mark = 0 /\ troubled = FALSE /\ runs = 0

-----------------------------------------------------------------------------
(***************************************************************************)
(* The camera, external: its database of shots.                            *)
(***************************************************************************)

InDatabase(k) == stage[k] \in EntryStatus

\* The entry that a status request is about.
Described(id) ==
    {k \in Shots :
        /\ InDatabase(k) /\ id \in {Newest, IdOf(k)}
        /\ \A j \in Shots : InDatabase(j) /\ id \in {Newest, IdOf(j)} => j <= k}

Answers(id) ==
    IF Described(id) = {} THEN {Status(id, "Cleared", NoShot)}
    ELSE {Status(IdOf(k), stage[k], k) : k \in Described(id)}

Accept ==
    /\ taken < MaxRuns
    /\ taken' = taken + 1
    /\ stage' = [stage EXCEPT ![taken + 1] = "accepted"]
    /\ UNCHANGED latest

Forget(id) ==
    /\ stage' = [k \in Shots |->
                    IF InDatabase(k) /\ IdOf(k) = id THEN "cleared" ELSE stage[k]]
    /\ UNCHANGED <<latest, taken>>

\* The oldest accepted shot is entered, once its image id is free.
Enter(k) ==
    /\ stage[k] = "accepted"
    /\ \A j \in Shots : stage[j] = "accepted" => k <= j
    /\ \A j \in Shots : InDatabase(j) => IdOf(j) # IdOf(k)
    /\ stage' = [stage EXCEPT ![k] = "ShootInProgress"]
    /\ UNCHANGED <<latest, taken, program, pc, locals, mark, troubled, runs>>

Advance(k) ==
    /\ InDatabase(k)
    /\ \E s \in EntryStatus :
          /\ <<stage[k], s>> \in Moves
          /\ stage' = [stage EXCEPT ![k] = s]
          /\ latest' = IF s = "ImageGenCompleted" THEN k ELSE latest
    /\ UNCHANGED <<taken, program, pc, locals, mark, troubled, runs>>

-----------------------------------------------------------------------------
(***************************************************************************)
(* The library and the programs.                                           *)
(***************************************************************************)

Begin(p) ==
    /\ pc = "idle"
    /\ runs < MaxRuns
    /\ runs' = runs + 1
    /\ program' = p /\ pc' = "snap"
    /\ mark' = taken
    /\ target' = Newest /\ polled' = 0 /\ err' = 0
    /\ st' = NoStatus /\ info' = NoShot /\ saved' = NoShot
    /\ UNCHANGED <<camera, troubled>>

\* snap(NonAFCapt, 1): the camera takes the shot or refuses it.  The programs
\* look at neither, and the capture example then waits for image id 0.
Snap ==
    /\ pc = "snap"
    /\ Accept \/ UNCHANGED camera
    /\ pc' = IF program = "capture" THEN "wait" ELSE "stop"
    /\ UNCHANGED <<program, locals, mark, troubled, runs>>

\* snap(StopCapt, 1) ends the exposure, or does not.
Stop ==
    /\ pc = "stop"
    /\ pc' = "status"
    /\ UNCHANGED <<camera, program, locals, mark, troubled, runs>>

\* get_cam_capt_status(): the bulb example then waits for the shot that it
\* reports.
GetStatus ==
    /\ pc = "status"
    /\ \E a \in Answers(Newest) : target' = a.ImageId
    /\ pc' = "wait"
    /\ UNCHANGED <<camera, program, polled, err, st, info, saved, mark, troubled, runs>>

\* wait_completion returns.
Return(a) ==
    /\ pc' = "info"
    /\ troubled' = (troubled \/ (a.Status \notin Completed /\ taken > mark))

PollCompleted(a) ==
    /\ a.Status \in Completed
    /\ Return(a)
    /\ UNCHANGED <<polled, err>>

PollUnderWay(a) ==
    /\ a.Status \in UnderWay
    /\ polled' = polled + 1
    /\ UNCHANGED <<pc, troubled, err>>

\* Variant: an unexpected status is asked for again without being counted.
PollUnexpectedAgain(a) ==
    /\ a.Status \in Unexpected
    /\ UNCHANGED <<polled, err, pc, troubled>>

PollUnexpected(a) ==
    /\ a.Status \in Unexpected
    /\ err' = err + 1
    /\ IF err' > ErrLimit
       THEN Return(a) /\ UNCHANGED polled
       ELSE polled' = polled + 1 /\ UNCHANGED <<pc, troubled>>

\* One turn of wait_completion's loop; with image id 0, get_cam_capt_status
\* sends no parameter.
Poll ==
    /\ pc = "wait"
    /\ polled < Polls
    /\ \E a \in Answers(target) :
          st' = a /\ (PollCompleted(a) \/ PollUnderWay(a) \/ PollUnexpected(a))
    /\ UNCHANGED <<camera, program, target, info, saved, mark, runs>>

\* The polls are used up: the last status is returned, whatever it is.
WaitGivesUp ==
    /\ pc = "wait"
    /\ polled >= Polls
    /\ Return(st)
    /\ UNCHANGED <<camera, program, locals, mark, runs>>

\* get_pict_file_info2(): the newest picture.  Without one the camera sends no
\* data, which decode() refuses with an exception.
GetInfo ==
    /\ pc = "info"
    /\ \/ /\ latest # NoShot
          /\ pc' = "part"
          /\ UNCHANGED troubled
       \/ /\ latest = NoShot
          /\ pc' = "idle"
          /\ troubled' = TRUE
    /\ info' = latest
    /\ UNCHANGED <<camera, program, target, polled, err, st, saved, mark, runs>>

\* get_big_partial_pict_file(info.FileAddress, 0, info.FileSize)
GetPicture ==
    /\ pc = "part"
    /\ saved' = info
    /\ pc' = "clear"
    /\ UNCHANGED <<camera, program, target, polled, err, st, info, mark, troubled, runs>>

\* Variant: the entry that the wait was for is cleared, not the one it found.
ClearTarget ==
    /\ pc = "clear"
    /\ Forget(target)
    /\ pc' = "idle"
    /\ UNCHANGED <<program, locals, mark, troubled, runs>>

\* clear_image_db_single(st.ImageId)
Clear ==
    /\ pc = "clear"
    /\ Forget(st.ImageId)
    /\ pc' = "idle"
    /\ UNCHANGED <<program, locals, mark, troubled, runs>>

\* A transaction fails, with or without having reached the camera, or its
\* answer is too short: main() catches the exception and ends.
Throw ==
    /\ pc # "idle"
    /\ \/ UNCHANGED camera
       \/ pc = "snap" /\ Accept
       \/ pc = "clear" /\ Forget(st.ImageId)
    /\ pc' = "idle"
    /\ troubled' = TRUE
    /\ UNCHANGED <<program, locals, mark, runs>>

Work ==
    \/ Snap \/ Stop \/ GetStatus \/ Poll \/ WaitGivesUp
    \/ GetInfo \/ GetPicture \/ Clear

Next ==
    \/ \E p \in {"capture", "bulb"} : Begin(p)
    \/ Work \/ Throw
    \/ \E k \in Shots : Enter(k) \/ Advance(k)

Spec == Init /\ [][Next]_vars

\* A program that runs keeps running: every transaction returns.  It need not
\* throw, and nothing is assumed of the camera.
FairSpec == Spec /\ WF_vars(Work)

-----------------------------------------------------------------------------
(***************************************************************************)
(* Properties.                                                             *)
(***************************************************************************)

Waited == pc \in {"info", "part", "clear"}

\* Until a run throws or gives up a shot that the camera accepted, a completion
\* that wait_completion reports is that of the run's own shot: not of an earlier
\* one, though it asks for image id 0, and not of a shot that was refused.
CompletionIsOwn ==
    ~troubled /\ Waited /\ st.Status \in Completed =>
        st.shot = taken /\ taken = mark + 1

\* The picture that is then saved, though nothing but its being the newest ties
\* it to the shot, is the shot's.
PictureIsOwn ==
    ~troubled /\ pc = "clear" /\ st.Status \in Completed => saved = st.shot

\* What makes it so: until then every run leaves the database as it found it,
\* with no shot in it and none on its way.
DatabaseLeftClean ==
    ~troubled /\ pc = "idle" =>
        \A k \in Shots : stage[k] \in {"none", "cleared"}

\* Whatever earlier runs have left behind, after an exception or a shot given
\* up, a run clears no entry but the one that its wait ended on, although it
\* clears by an image id that goes round; and after a completion none that is
\* still moving.
ClearsWhatItSaw ==
    [][\A k \in Shots :
          InDatabase(k) /\ stage'[k] = "cleared" =>
              /\ k = st.shot
              /\ st.Status \in Completed => stage[k] \in Completed]_vars

\* Every run of a program ends, whatever the camera does with its shot.
RunEnds == pc # "idle" ~> pc = "idle"

=============================================================================
