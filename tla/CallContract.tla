---------------------------- MODULE CallContract ----------------------------
(***************************************************************************)
(* What an application can rely on when it calls CameraPTP, with no pipes  *)
(* and no camera: calls are numbered in the order they are made, each one  *)
(* ends once, and the answer it ends with is whole, was never handed out   *)
(* before and is no older than the answers handed out before it.           *)
(*                                                                         *)
(* Whose answer it is depends on what happened earlier.  While trust is    *)
(* "sync" every call gets its own; a call that throws makes it "suspect":  *)
(* the next answer may be a left-over; and once a caller was given an      *)
(* answer that is not its own, trust is "lag" and no caller gets its own   *)
(* answer.                                                                 *)
(*                                                                         *)
(* A call that throws may leave an answer cut in two.  While its remains   *)
(* are around, an answer may be garbled by them, and a call that runs into *)
(* them may lose any answers: that, and nothing else, ends a lag.          *)
(***************************************************************************)
EXTENDS Naturals

CONSTANT Limit      \* bound: calls made

VARIABLES
    calls,          \* calls made so far; call n has number n
    active,         \* TRUE while call number calls runs
    trust,          \* whether an answer is known to be its caller's
    cut,            \* TRUE while remains of an answer are around
    last,           \* the call whose answer was handed out last, 0 before
    outcome         \* how the last finished call ended

vars == <<calls, active, trust, cut, last, outcome>>

Outcomes ==
    [status : {"none", "ok", "garbled", "threw"}, tid : Nat, resp : Nat, data : Nat]

TypeOK ==
    /\ calls \in Nat
    /\ active \in BOOLEAN
    /\ trust \in {"sync", "suspect", "lag"}
    /\ cut \in BOOLEAN
    /\ last \in Nat
    /\ outcome \in Outcomes

Init ==
    /\ calls = 0
    /\ active = FALSE
    /\ trust = "sync"
    /\ cut = FALSE
    /\ last = 0
    /\ outcome = [status |-> "none", tid |-> 0, resp |-> 0, data |-> 0]

Begin ==
    /\ ~active
    /\ calls < Limit
    /\ calls' = calls + 1
    /\ active' = TRUE
    /\ UNCHANGED <<trust, cut, last, outcome>>

\* The running call reads what remains and what it takes to belong to them.
RunIntoRemains ==
    /\ active
    /\ cut /\ cut' \in BOOLEAN
    /\ trust' \in {trust, "suspect"}
    /\ UNCHANGED <<calls, active, last, outcome>>

\* Remains do not come back.
Clear == cut' \in {cut, FALSE}

\* The call ends with the answer to call r and that answer's data, if any.
End(r) ==
    /\ active
    /\ active' = FALSE
    /\ \/ \E d \in {0, r} :
            outcome' = [status |-> "ok", tid |-> calls, resp |-> r, data |-> d]
       \/ /\ cut
          /\ outcome' = [status |-> "garbled", tid |-> calls, resp |-> r, data |-> 0]
    /\ Clear
    /\ UNCHANGED calls

ReturnOwn ==
    /\ trust # "lag"
    /\ last < calls
    /\ End(calls)
    /\ last' = calls
    /\ UNCHANGED trust

\* The answer of an earlier call, which some earlier fault left behind.
ReturnLeftOver ==
    /\ trust # "sync"
    /\ \E r \in (last + 1)..(calls - 1) : End(r) /\ last' = r
    /\ trust' = "lag"

\* open_session and close_session take an event for their answer, or any call
\* takes remains for it.
ReturnNothing ==
    /\ End(0)
    /\ trust' \in IF cut THEN {"suspect", "lag"} ELSE {"lag"}
    /\ UNCHANGED last

Throw ==
    /\ active
    /\ active' = FALSE
    /\ outcome' = [status |-> "threw", tid |-> calls, resp |-> 0, data |-> 0]
    /\ cut' \in BOOLEAN
    /\ \/ trust' = "lag" /\ trust = "lag"
       \/ trust' = "suspect" /\ (trust = "lag" => cut)
    /\ UNCHANGED <<calls, last>>

Next ==
    Begin \/ RunIntoRemains \/ ReturnOwn \/ ReturnLeftOver \/ ReturnNothing \/ Throw

Spec == Init /\ [][Next]_vars

=============================================================================
