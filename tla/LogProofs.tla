----------------------------- MODULE LogProofs -----------------------------
(***************************************************************************)
(* The log, with any threads and sinks: one sink at a time, the current    *)
(* one, with lines that were enabled; and what a sink that logs does.      *)
(***************************************************************************)
EXTENDS Log, TLAPS

\* While a thread logs, high is at least the level, and at least the line's once
\* that has been compared.
Logging == {"line", "emit", "lock"} \cup InSink

Compared == {"emit", "lock"} \cup InSink

HighIsHigh ==
    \A t \in Threads :
        /\ pc[t] \in Logging => level <= call[t].high
        /\ pc[t] \in Compared => call[t].line <= call[t].high

IInv == TypeOK /\ ReplacedIsQuiet /\ HighIsHigh

-----------------------------------------------------------------------------

Places == {"idle", "line", "emit", "lock", "set_lock"} \cup Critical

Calls == [line : Levels, sink : Sinks, inner : Levels, high : Levels]

\* No call keeps anything yet.
LEMMA NoCallType ==
    /\ NoCall \in Calls
    /\ \A l, h \in Levels : \A s \in Sinks : CallOf(l, s, h) \in Calls
    /\ \A h \in Levels : CallOf(0, "default_sink", h) \in Calls
    /\ 0 \in Levels /\ "default_sink" \in Sinks
  BY LogAssumption DEF LogAssumption, NoCall, CallOf, Calls, Levels

LEMMA InitIInv == Init => IInv
<1> SUFFICES ASSUME Init
             PROVE  IInv
  OBVIOUS
<1>1. TypeOK
  BY LogAssumption, NoCallType
  DEF LogAssumption, Init, TypeOK, Levels, Critical, InSink, Calls
<1>2. ReplacedIsQuiet /\ HighIsHigh
  BY DEF Init, ReplacedIsQuiet, HighIsHigh, InSink, Logging, Compared
<1>3. QED
  BY <1>1, <1>2 DEF IInv

\* A thread that moves without the mutex, or within it, and leaves the level and
\* the sink alone.
LEMMA MoveKeeps ==
    ASSUME IInv, NEW t \in Threads, NEW place \in Places,
           Goto(t, place), UNCHANGED <<level, sink, mutex>>,
           place \in Critical <=> pc[t] \in Critical,
           call' \in [Threads -> Calls],
           \A u \in Threads \ {t} : call'[u] = call[u],
           place \in InSink => call'[t].sink = sink,
           place \in Logging => level <= call'[t].high,
           place \in Compared => call'[t].line <= call'[t].high
    PROVE  IInv'
<1>1. /\ pc' \in [Threads -> Places]
      /\ pc'[t] = place
      /\ \A u \in Threads \ {t} : pc'[u] = pc[u]
  BY DEF IInv, TypeOK, Places, Goto
<1>2. TypeOK'
  BY <1>1 DEF IInv, TypeOK, Places, Calls
<1>3. ReplacedIsQuiet'
  BY <1>1 DEF IInv, ReplacedIsQuiet
<1>4. HighIsHigh'
  BY <1>1 DEF IInv, HighIsHigh
<1>5. QED
  BY <1>2, <1>3, <1>4 DEF IInv

\* A thread takes the mutex, when nobody is behind it.
LEMMA TakeKeeps ==
    ASSUME IInv, NEW t \in Threads, NEW place \in Critical,
           mutex = NoThread, mutex' = t,
           Goto(t, place), UNCHANGED <<level, sink>>,
           call' \in [Threads -> Calls],
           \A u \in Threads \ {t} : call'[u] = call[u],
           place \in InSink => call'[t].sink = sink,
           place \in Logging => level <= call'[t].high,
           place \in Compared => call'[t].line <= call'[t].high
    PROVE  IInv'
<1>1. /\ pc' \in [Threads -> Places]
      /\ pc'[t] = place
      /\ \A u \in Threads \ {t} : pc'[u] = pc[u]
  BY DEF IInv, TypeOK, Places, Goto
<1>2. \A u \in Threads : pc[u] \notin Critical
  BY LogAssumption DEF LogAssumption, IInv, TypeOK
<1>3. TypeOK'
  BY <1>1, <1>2 DEF IInv, TypeOK, Places, Calls
<1>4. ReplacedIsQuiet'
  BY <1>1 DEF IInv, ReplacedIsQuiet
<1>5. HighIsHigh'
  BY <1>1 DEF IInv, HighIsHigh
<1>6. QED
  BY <1>3, <1>4, <1>5 DEF IInv

\* A thread gives the mutex back, and may have replaced the sink with it.
LEMMA GiveKeeps ==
    ASSUME IInv, NEW t \in Threads, pc[t] \in Critical,
           mutex' = NoThread, sink' \in Sinks,
           Goto(t, "idle"), UNCHANGED <<level, call>>
    PROVE  IInv'
<1>1. /\ pc' \in [Threads -> Places]
      /\ pc'[t] = "idle" /\ "idle" \notin Critical
      /\ "idle" \notin Logging /\ "idle" \notin Compared
      /\ \A u \in Threads \ {t} : pc'[u] = pc[u]
  BY DEF IInv, TypeOK, Places, Goto, Critical, InSink, Logging, Compared
<1>2. \A u \in Threads \ {t} : pc[u] \notin Critical
  BY DEF IInv, TypeOK
<1>3. TypeOK'
  BY <1>1, <1>2, LogAssumption DEF LogAssumption, IInv, TypeOK, Places
<1>4. ReplacedIsQuiet'
  BY <1>1, <1>2 DEF ReplacedIsQuiet, Critical
<1>5. HighIsHigh'
  BY <1>1 DEF IInv, HighIsHigh
<1>6. QED
  BY <1>3, <1>4, <1>5 DEF IInv

-----------------------------------------------------------------------------

LEMMA CallStep ==
    ASSUME IInv, NEW t \in Threads, Call(t)
    PROVE  IInv'
<1>1. ASSUME NEW l \in Levels, SetLevel(t, l)
      PROVE  IInv'
  <2>1. \A u \in Threads :
            /\ call'[u] \in Calls
            /\ call'[u].line = call[u].line /\ call'[u].sink = call[u].sink
            /\ call[u].high <= call'[u].high
            /\ pc[u] # "idle" => l <= call'[u].high
    <3>1. SUFFICES ASSUME NEW u \in Threads
                   PROVE  /\ call'[u] \in Calls
                          /\ call'[u].line = call[u].line /\ call'[u].sink = call[u].sink
                          /\ call[u].high <= call'[u].high
                          /\ pc[u] # "idle" => l <= call'[u].high
      OBVIOUS
    <3>2. call[u] \in Calls /\ call[u].high \in Nat /\ l \in Nat
      BY DEF IInv, TypeOK, Calls, Levels
    <3>3. call'[u] = IF pc[u] # "idle" /\ l > call[u].high
                     THEN [call[u] EXCEPT !.high = l] ELSE call[u]
      BY <1>1 DEF SetLevel
    <3>4. QED
      BY <1>1, <3>2, <3>3 DEF Calls
  <2>2. UNCHANGED <<sink, mutex, pc>> /\ level' = l
    BY <1>1 DEF SetLevel
  <2>3. call' \in [Threads -> Calls]
    BY <1>1, <2>1 DEF SetLevel
  <2>4. TypeOK'
    BY <1>1, <2>2, <2>3 DEF IInv, TypeOK, Calls
  <2>5. ReplacedIsQuiet'
    BY <2>1, <2>2 DEF IInv, ReplacedIsQuiet
  <2>6. HighIsHigh'
    <3>1. \A u \in Threads :
              call[u].line \in Nat /\ call[u].high \in Nat /\ call'[u].high \in Nat
      BY <2>1 DEF IInv, TypeOK, Calls, Levels
    <3>2. "idle" \notin Logging
      BY DEF Logging, InSink
    <3>3. QED
      BY <2>1, <2>2, <3>1, <3>2 DEF IInv, HighIsHigh
  <2>7. QED
    BY <2>4, <2>5, <2>6 DEF IInv
<1>2. ASSUME NEW l \in Levels, BeginLine(t, l)
      PROVE  IInv'
  <2>1. level \in Levels /\ level <= level
    BY DEF IInv, TypeOK, Levels
  <2>2. /\ call' \in [Threads -> Calls]
        /\ \A u \in Threads \ {t} : call'[u] = call[u]
        /\ call'[t].high = level
    BY <1>2, <2>1, NoCallType DEF BeginLine, IInv, TypeOK, Calls, CallOf
  <2>3. QED
    BY <1>2, <2>1, <2>2, MoveKeeps
    DEF BeginLine, Places, Critical, InSink, Logging, Compared
<1>3. ASSUME NEW s \in Sinks, BeginSetSink(t, s)
      PROVE  IInv'
  <2>1. /\ call' \in [Threads -> Calls]
        /\ \A u \in Threads \ {t} : call'[u] = call[u]
    BY <1>3, NoCallType DEF BeginSetSink, IInv, TypeOK, Calls
  <2>2. QED
    BY <1>3, <2>1, MoveKeeps
    DEF BeginSetSink, Places, Critical, InSink, Logging, Compared
<1>4. QED
  BY <1>1, <1>2, <1>3 DEF Call

\* The comparisons with the level.
LEMMA CompareKeeps ==
    ASSUME IInv, NEW t \in Threads, NEW l \in Levels,
           NEW from \in Logging, NEW on \in Compared, NEW off \in Places,
           Compare(t, l, from, on, off),
           l = call[t].line \/ from \in Compared,
           on \in Critical <=> from \in Critical,
           off \in Critical <=> from \in Critical,
           on \in InSink => from \in InSink,
           off \in InSink => from \in InSink,
           off \in Compared => from \in Compared
    PROVE  IInv'
<1>1. /\ call' = call /\ call \in [Threads -> Calls]
      /\ level \in Nat /\ l \in Nat
      /\ call[t].line \in Nat /\ call[t].high \in Nat
  BY DEF Compare, IInv, TypeOK, Calls, Levels
<1>2. /\ "idle" \notin Logging /\ "idle" \notin Compared /\ "idle" \notin InSink
      /\ Compared \subseteq Logging /\ InSink \subseteq Compared /\ Logging \subseteq Places
  BY DEF Logging, Compared, InSink, Places, Critical
<1>3. level <= call[t].high
  BY DEF Compare, IInv, HighIsHigh
<1>4. from \in Compared => call[t].line <= call[t].high
  BY DEF Compare, IInv, HighIsHigh
<1>5. from \in InSink => call[t].sink = sink
  BY DEF Compare, IInv, ReplacedIsQuiet
<1>6. CASE Disabled(l)
  <2>1. Goto(t, off)
    BY <1>6 DEF Compare
  <2>2. QED
    BY <1>1, <1>2, <1>3, <1>4, <1>5, <2>1, MoveKeeps DEF Compare
<1>7. CASE ~Disabled(l)
  <2>1. Goto(t, on) /\ l <= level
    BY <1>1, <1>7 DEF Compare, Disabled
  <2>2. call[t].line <= call[t].high
    BY <1>1, <1>3, <1>4, <2>1
  <2>3. QED
    BY <1>1, <1>2, <1>3, <1>5, <2>1, <2>2, MoveKeeps DEF Compare
<1>8. QED
  BY <1>6, <1>7

LEMMA StepStep ==
    ASSUME IInv, NEW t \in Threads, Step(t)
    PROVE  IInv'
<1>1. /\ call \in [Threads -> Calls]
      /\ call[t].line \in Levels /\ call[t].inner \in Levels
      /\ sink \in Sinks /\ call[t].sink \in Sinks
  BY DEF IInv, TypeOK, Calls
<1>2. CASE Format(t) \/ Emit(t) \/ InnerFormat(t) \/ InnerEmit(t)
  <2>1. CASE Format(t)
    <3>1. Compare(t, call[t].line, "line", "emit", "idle")
      BY <2>1 DEF Format
    <3>2. /\ "line" \in Logging /\ "emit" \in Compared /\ "idle" \in Places
          /\ "line" \notin Critical /\ "emit" \notin Critical /\ "idle" \notin Critical
          /\ "emit" \notin InSink /\ "idle" \notin InSink /\ "idle" \notin Compared
      BY DEF Logging, Compared, InSink, Critical, Places
    <3>3. QED
      BY <1>1, <3>1, <3>2, CompareKeeps
  <2>2. CASE Emit(t)
    <3>1. Compare(t, call[t].line, "emit", "lock", "idle")
      BY <2>2 DEF Emit
    <3>2. /\ "emit" \in Logging /\ "lock" \in Compared /\ "idle" \in Places
          /\ "emit" \notin Critical /\ "lock" \notin Critical /\ "idle" \notin Critical
          /\ "emit" \in Compared
          /\ "lock" \notin InSink /\ "idle" \notin InSink
      BY DEF Logging, Compared, InSink, Critical, Places
    <3>3. QED
      BY <1>1, <3>1, <3>2, CompareKeeps
  <2>3. CASE InnerFormat(t)
    BY <1>1, <2>3, CompareKeeps
    DEF InnerFormat, Logging, Compared, InSink, Critical, Places
  <2>4. CASE InnerEmit(t)
    BY <1>1, <2>4, CompareKeeps
    DEF InnerEmit, Logging, Compared, InSink, Critical, Places
  <2>5. QED
    BY <1>2, <2>1, <2>2, <2>3, <2>4
<1>3. CASE CallSink(t)
  <2>1. /\ call' \in [Threads -> Calls]
        /\ \A u \in Threads \ {t} : call'[u] = call[u]
        /\ call'[t].sink = sink
        /\ call'[t].line = call[t].line /\ call'[t].high = call[t].high
    BY <1>1, <1>3 DEF CallSink, Calls
  <2>2. level <= call[t].high /\ call[t].line <= call[t].high
    BY <1>3 DEF CallSink, IInv, HighIsHigh, Logging, Compared
  <2>3. QED
    BY <1>3, <2>1, <2>2, TakeKeeps DEF CallSink, Critical, InSink
<1>4. ASSUME NEW l \in Levels, SinkLogs(t, l)
      PROVE  IInv'
  <2>1. /\ call' \in [Threads -> Calls]
        /\ \A u \in Threads \ {t} : call'[u] = call[u]
        /\ call'[t].sink = call[t].sink
        /\ call'[t].line = call[t].line /\ call'[t].high = call[t].high
    BY <1>1, <1>4 DEF SinkLogs, Calls
  <2>2. /\ level <= call[t].high /\ call[t].line <= call[t].high
        /\ call[t].sink = sink
    BY <1>4 DEF SinkLogs, IInv, HighIsHigh, ReplacedIsQuiet, Logging, Compared, InSink
  <2>3. QED
    BY <1>4, <2>1, <2>2, MoveKeeps DEF SinkLogs, Places, Critical, InSink
<1>5. CASE SinkSets(t)
  <2>1. /\ level <= call[t].high /\ call[t].line <= call[t].high
        /\ call[t].sink = sink
    BY <1>5 DEF SinkSets, IInv, HighIsHigh, ReplacedIsQuiet, Logging, Compared, InSink
  <2>2. QED
    BY <1>1, <1>5, <2>1, MoveKeeps DEF SinkSets, Places, Critical, InSink
<1>6. CASE SinkEnds(t)
  BY <1>1, <1>6, GiveKeeps DEF SinkEnds, SinkIsDone, Critical, InSink
<1>7. CASE LockSet(t)
  BY <1>1, <1>7, TakeKeeps DEF LockSet, Critical, InSink, Logging, Compared
<1>8. CASE SetSink(t)
  BY <1>1, <1>8, GiveKeeps DEF SetSink, Critical
<1>9. QED
  BY <1>2, <1>3, <1>4, <1>5, <1>6, <1>7, <1>8 DEF Step

LEMMA NextIInv == IInv /\ [Next]_vars => IInv'
<1> SUFFICES ASSUME IInv, [Next]_vars
             PROVE  IInv'
  OBVIOUS
<1>1. CASE UNCHANGED vars
  BY <1>1 DEF vars, IInv, TypeOK, ReplacedIsQuiet, HighIsHigh
<1>2. CASE Next
  BY <1>2, CallStep, StepStep DEF Next
<1>3. QED
  BY <1>1, <1>2

-----------------------------------------------------------------------------

\* Who has the mutex, which sink runs, and what was compared.
THEOREM Invariance == Spec => []IInv
<1>1. QED
  BY InitIInv, NextIInv, PTL DEF Spec

\* The types, and that the mutex is the thread's that is behind it.
THEOREM TypeCorrect == Spec => []TypeOK
<1>1. IInv => TypeOK
  BY DEF IInv
<1>2. QED
  BY <1>1, Invariance, PTL

\* No two threads are in a sink.
THEOREM MutualExclusion == Spec => []OneSinkAtATime
<1>1. IInv => OneSinkAtATime
  BY DEF IInv, TypeOK, OneSinkAtATime, Critical
<1>2. QED
  BY <1>1, Invariance, PTL

\* The sink that runs is the one that is installed.
THEOREM CurrentSink == Spec => []ReplacedIsQuiet
<1>1. IInv => ReplacedIsQuiet
  BY DEF IInv
<1>2. QED
  BY <1>1, Invariance, PTL

\* What a sink sees was enabled during the call.
THEOREM OnlyEnabled == Spec => []EnabledWhenSeen
<1>1. IInv => EnabledWhenSeen
  BY DEF IInv, HighIsHigh, EnabledWhenSeen, Compared
<1>2. QED
  BY <1>1, Invariance, PTL

\* A sink that logs or replaces itself under the mutex ends the log.
THEOREM ReentryEndsTheLog == Spec => StuckForGood
<1> DEFINE Still ==
        \A t \in Threads : Stuck(t) =>
            /\ Stuck(t)' /\ mutex' = t /\ sink' = sink
            /\ \A u \in Threads \ {t} : pc'[u] \notin InSink
<1>1. ASSUME IInv, [Next]_vars
      PROVE  [Still]_vars
  <2>1. SUFFICES ASSUME NEW t \in Threads, Stuck(t), Next
                 PROVE  /\ Stuck(t)' /\ mutex' = t /\ sink' = sink
                        /\ \A u \in Threads \ {t} : pc'[u] \notin InSink
    BY <1>1
  <2>2. /\ mutex = t /\ t # NoThread
        /\ \A u \in Threads \ {t} : pc[u] \notin Critical
    BY <1>1, <2>1, LogAssumption DEF LogAssumption, IInv, TypeOK, Stuck, Critical, InSink
  <2>3. PICK u \in Threads : Call(u) \/ Step(u)
    BY <2>1 DEF Next
  <2>4. u # t \/ \E l \in Levels : SetLevel(t, l)
    BY <2>1, <2>3
    DEF Stuck, Call, SetLevel, BeginLine, BeginSetSink, Step, Format, Emit, Compare, CallSink,
        SinkLogs, InnerFormat, InnerEmit, SinkSets, SinkEnds, SinkIsDone, LockSet, SetSink
  <2>5. u # t
    BY <2>1, <2>4 DEF Stuck, SetLevel
  <2>6. pc[u] \notin Critical
    BY <2>2, <2>5
  <2>7. /\ mutex' = mutex /\ sink' = sink
        /\ pc' = pc \/ \E place \in {"idle", "line", "emit", "lock", "set_lock"} : Goto(u, place)
    BY <2>2, <2>3, <2>6
    DEF Call, SetLevel, BeginLine, BeginSetSink, Step, Format, Emit, Compare, CallSink,
        SinkLogs, InnerFormat, InnerEmit, SinkSets, SinkEnds, SinkIsDone, LockSet, SetSink,
        Critical, InSink
  <2>8. /\ pc'[t] = pc[t]
        /\ \A v \in Threads \ {t} : pc'[v] \notin InSink
    BY <1>1, <2>2, <2>5, <2>7 DEF IInv, TypeOK, Goto, Critical, InSink
  <2>9. QED
    BY <2>1, <2>2, <2>7, <2>8 DEF Stuck
<1>2. QED
  BY <1>1, Invariance, PTL DEF Spec, StuckForGood

=============================================================================
