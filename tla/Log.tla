-------------------------------- MODULE Log --------------------------------
(***************************************************************************)
(* The log (src/utils/log.cpp): a level that is an atomic variable, a sink *)
(* behind a mutex, and the threads of the application, which log, set the  *)
(* level and replace the sink.                                             *)
(*                                                                         *)
(* A line is compared with the level twice, when its text is formatted and *)
(* in emit().  The sink is called with the mutex held.  It is the          *)
(* application's code: it may return, throw, log a line of its own, or     *)
(* replace itself; the mutex is not recursive.                             *)
(***************************************************************************)
EXTENDS Naturals

CONSTANTS
    Threads,    \* threads of the application
    NoThread,   \* owner of a mutex that is free
    Sinks,      \* sinks that it installs
    Does        \* of each sink: "returns", "throws", "logs" or "sets"

ASSUME LogAssumption ==
    /\ NoThread \notin Threads
    /\ Does \in [Sinks -> {"returns", "throws", "logs", "sets"}]
    /\ "default_sink" \in Sinks
    /\ Does["default_sink"] = "returns"

Levels == 0..3

\* What a call keeps: the level of its line, the sink it calls or installs, the
\* level of the line that the sink logs, and, as history, the highest level
\* there was since the call began.
CallOf(l, s, h) == [line |-> l, sink |-> s, inner |-> 0, high |-> h]

NoCall == CallOf(0, "default_sink", 0)

VARIABLES
    level,      \* g_level
    sink,       \* g_sink; empty is the default sink
    mutex,      \* g_mu: the thread that has it
    pc,         \* of each thread: where it is
    call        \* of each thread: what its call keeps

vars == <<level, sink, mutex, pc, call>>

InSink == {"sink", "inner_line", "inner_emit", "inner_lock", "sink_goes_on"}

Critical == InSink \cup {"set"}

\* Every variable has its type, and the mutex is the thread's that is behind it:
\* also when a sink has thrown.
TypeOK ==
    /\ level \in Levels
    /\ sink \in Sinks
    /\ mutex \in Threads \cup {NoThread}
    /\ pc \in [Threads -> {"idle", "line", "emit", "lock", "set_lock"} \cup Critical]
    /\ call \in [Threads -> [line : Levels, sink : Sinks, inner : Levels, high : Levels]]
    /\ \A t \in Threads : pc[t] \in Critical <=> mutex = t

\* g_level begins as Info.
Init ==
    /\ level = 2
    /\ sink = "default_sink"
    /\ mutex = NoThread
    /\ pc = [t \in Threads |-> "idle"]
    /\ call = [t \in Threads |-> NoCall]

-----------------------------------------------------------------------------

Goto(t, place) == pc' = [pc EXCEPT ![t] = place]

\* (int)lvl > (int)log_get_level()
Disabled(l) == l > level

\* A comparison with the level: the call goes on, or is left.
Compare(t, l, from, on, off) ==
    /\ pc[t] = from
    /\ Goto(t, IF Disabled(l) THEN off ELSE on)
    /\ UNCHANGED <<level, sink, mutex, call>>

\* log_set_level
SetLevel(t, l) ==
    /\ pc[t] = "idle"
    /\ level' = l
    /\ call' = [u \in Threads |->
                  IF pc[u] # "idle" /\ l > call[u].high THEN [call[u] EXCEPT !.high = l]
                  ELSE call[u]]
    /\ UNCHANGED <<sink, mutex, pc>>

\* log_printf, log_vprintf, log_printf_tag or log_hex_preview
BeginLine(t, l) ==
    /\ pc[t] = "idle"
    /\ Goto(t, "line")
    /\ call' = [call EXCEPT ![t] = CallOf(l, "default_sink", level)]
    /\ UNCHANGED <<level, sink, mutex>>

\* The line is formatted, unless its level is disabled.
Format(t) == Compare(t, call[t].line, "line", "emit", "idle")

\* emit() compares again.
Emit(t) == Compare(t, call[t].line, "emit", "lock", "idle")

\* emit() takes the mutex and calls the sink: a copy of g_sink, which is what
\* the conditional expression makes of it.
CallSink(t) ==
    /\ pc[t] = "lock"
    /\ mutex = NoThread
    /\ mutex' = t
    /\ call' = [call EXCEPT ![t].sink = sink]
    /\ Goto(t, "sink")
    /\ UNCHANGED <<level, sink>>

\* The sink logs a line of its own, compared twice as well.  Behind the second
\* comparison is the mutex, which the thread has itself: nothing follows.
SinkLogs(t, l) ==
    /\ pc[t] = "sink" /\ Does[call[t].sink] = "logs"
    /\ Goto(t, "inner_line")
    /\ call' = [call EXCEPT ![t].inner = l]
    /\ UNCHANGED <<level, sink, mutex>>

InnerFormat(t) == Compare(t, call[t].inner, "inner_line", "inner_emit", "sink_goes_on")

InnerEmit(t) == Compare(t, call[t].inner, "inner_emit", "inner_lock", "sink_goes_on")

\* The sink calls log_set_sink, which locks first of all.
SinkSets(t) ==
    /\ pc[t] = "sink" /\ Does[call[t].sink] = "sets"
    /\ Goto(t, "inner_lock")
    /\ UNCHANGED <<level, sink, mutex, call>>

SinkIsDone(t) ==
    \/ pc[t] = "sink" /\ Does[call[t].sink] \in {"returns", "throws"}
    \/ pc[t] = "sink_goes_on"

\* Variant: an exception does not give the mutex back.
SinkEndsLocked(t) ==
    /\ SinkIsDone(t)
    /\ mutex' = IF Does[call[t].sink] = "throws" THEN mutex ELSE NoThread
    /\ Goto(t, "idle")
    /\ UNCHANGED <<level, sink, call>>

\* It returns or throws; the lock_guard gives the mutex back in either case.
SinkEnds(t) ==
    /\ SinkIsDone(t)
    /\ mutex' = NoThread
    /\ Goto(t, "idle")
    /\ UNCHANGED <<level, sink, call>>

\* log_set_sink
BeginSetSink(t, s) ==
    /\ pc[t] = "idle"
    /\ Goto(t, "set_lock")
    /\ call' = [call EXCEPT ![t] = CallOf(0, s, 0)]
    /\ UNCHANGED <<level, sink, mutex>>

\* Variant: the sink is replaced without the mutex.
SetSinkUnlocked(t) ==
    /\ pc[t] = "set_lock"
    /\ sink' = call[t].sink
    /\ Goto(t, "idle")
    /\ UNCHANGED <<level, mutex, call>>

LockSet(t) ==
    /\ pc[t] = "set_lock"
    /\ mutex = NoThread
    /\ mutex' = t
    /\ Goto(t, "set")
    /\ UNCHANGED <<level, sink, call>>

SetSink(t) ==
    /\ pc[t] = "set"
    /\ sink' = call[t].sink
    /\ mutex' = NoThread
    /\ Goto(t, "idle")
    /\ UNCHANGED <<level, call>>

Call(t) ==
    \/ \E l \in Levels : SetLevel(t, l) \/ BeginLine(t, l)
    \/ \E s \in Sinks : BeginSetSink(t, s)

Step(t) ==
    \/ Format(t) \/ Emit(t) \/ CallSink(t)
    \/ \E l \in Levels : SinkLogs(t, l)
    \/ InnerFormat(t) \/ InnerEmit(t) \/ SinkSets(t) \/ SinkEnds(t)
    \/ LockSet(t) \/ SetSink(t)

Next == \E t \in Threads : Call(t) \/ Step(t)

Spec == Init /\ [][Next]_vars

\* Threads run, and sinks end.  The mutex is not fair: a thread that waits for
\* it is promised it only while nobody else has it.
FairSpec == Spec /\ \A t \in Threads : WF_vars(Step(t))

-----------------------------------------------------------------------------
(***************************************************************************)
(* Properties.                                                             *)
(***************************************************************************)

\* The sink is never called by two threads at once.
OneSinkAtATime ==
    \A t, u \in Threads : pc[t] \in InSink /\ pc[u] \in InSink => t = u

\* A sink that was replaced is not running any more: what it uses may be torn
\* down when log_set_sink returns.
ReplacedIsQuiet == \A t \in Threads : pc[t] \in InSink => call[t].sink = sink

\* A sink sees a line only if its level was enabled since the call began.
EnabledWhenSeen == \A t \in Threads : pc[t] \in InSink => call[t].line <= call[t].high

\* A thread waits for the mutex that it has: its sink logged an enabled line, or
\* replaced itself.
Stuck(t) == pc[t] = "inner_lock"

\* From then on no thread logs a line or replaces the sink.
StuckForGood ==
    [][\A t \in Threads : Stuck(t) =>
          /\ Stuck(t)' /\ mutex' = t /\ sink' = sink
          /\ \A u \in Threads \ {t} : pc'[u] \notin InSink]_vars

\* Nothing else holds the log up: whoever has the mutex gives it back, whatever
\* the sink does, or is stuck.
MutexComesBack ==
    \A t \in Threads : mutex = t ~> mutex = NoThread \/ Stuck(t)

=============================================================================
