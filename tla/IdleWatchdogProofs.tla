------------------------- MODULE IdleWatchdogProofs -------------------------
(***************************************************************************)
(* Theorems about IdleWatchdog for every timeout, latency and number of    *)
(* Stop calls: types and the contract of Watchdogs whatever the wall clock *)
(* does, and, until somebody sets the wall clock, no false alarm and the   *)
(* bound on how late a stall is detected.                                  *)
(***************************************************************************)
EXTENDS IdleWatchdog, TLAPS

-----------------------------------------------------------------------------
(* Types and the done protocol. *)

LEMMA InitTypeOK == Init => TypeOK
<1> SUFFICES ASSUME Init PROVE TypeOK
  OBVIOUS
<1>1. spc \in [Stoppers -> StopStates]
  BY DEF Init, StopStates
<1>2. fpc \in FireStates /\ rpc \in ResetStates
  BY DEF Init, FireStates, ResetStates
<1>3. /\ now \in 0 .. MaxNow /\ tickAt \in 0 .. MaxNow /\ readAt \in 0 .. MaxNow
      /\ lastTick \in Int /\ due \in Nat
      /\ fireNow \in Int /\ remaining \in Nat /\ reading \in Int
  BY TimeoutAssumption, BoundsAssumption DEF Init
<1>4. done \in BOOLEAN /\ armed \in BOOLEAN /\ cancelled \in BOOLEAN
  BY Zenon DEF Init
<1>5. skew \in Skews \cup {0} /\ stepped \in BOOLEAN
  BY Zenon DEF Init
<1> QED
  BY <1>1, <1>2, <1>3, <1>4, <1>5 DEF TypeOK

LEMMA NextTypeOK == TypeOK /\ [Next]_vars => TypeOK'
<1> SUFFICES ASSUME TypeOK, [Next]_vars PROVE TypeOK'
  OBVIOUS
<1> USE TimeoutAssumption, BoundsAssumption, LatencyAssumption, SkewsAssumption
    DEF TypeOK, clockVars, tickVars, timerVars, fireVars, resetVars
<1>1. CASE TimerFires
  BY <1>1 DEF TimerFires, FireStates
<1>2. CASE FireCheck
  BY <1>2 DEF FireCheck, FireStates
<1>3. CASE FireClock
  BY <1>3 DEF FireClock, FireStates, Wall
<1>4. CASE FireLoad
  BY <1>4 DEF FireLoad, TrulyIdle, RemainingWindow, FireStates
<1>5. CASE FireCas
  BY <1>5 DEF FireCas, FireSwapsDone, FireStates
<1>6. CASE FireCancel
  BY <1>6 DEF FireCancel, FireStates
<1>7. CASE FireRearm
  BY <1>7 DEF FireRearm, Rearm, FireStates
<1>8. CASE ResetStep
  BY <1>8 DEF ResetStep, ResetCheck, ResetClock, ResetStore, ResetStates, Wall
<1>9. ASSUME NEW s \in Stoppers, StopCas(s) \/ StopTimer(s)
      PROVE  TypeOK'
  BY <1>9 DEF StopCas, StopSwapsDone, StopTimer, StopStates
<1>10. CASE Tick
  BY <1>10 DEF Tick
<1>11. ASSUME NEW k \in Skews, ClockStep(k)
       PROVE  TypeOK'
  BY <1>11 DEF ClockStep
<1>12. CASE Finished \/ UNCHANGED vars
  BY <1>12 DEF Finished, vars
<1> QED
  BY <1>1, <1>2, <1>3, <1>4, <1>5, <1>6, <1>7, <1>8, <1>9, <1>10, <1>11, <1>12
     DEF Next, FireStep

(* Every variable of the watchdog keeps its type, whatever the wall clock  *)
(* does.                                                                   *)
THEOREM TypeCorrect == Spec => []TypeOK
BY InitTypeOK, NextTypeOK, PTL DEF Spec, Safety

(* NeverBoth is inductive once it is known that whoever won set done.      *)
WinnerSetDone ==
    /\ StopWon \/ cancelled \/ fpc = "cancel" => done
    /\ NeverBoth

LEMMA NextWinner == TypeOK /\ WinnerSetDone /\ [Next]_vars => WinnerSetDone'
<1> SUFFICES ASSUME TypeOK, WinnerSetDone, [Next]_vars PROVE WinnerSetDone'
  OBVIOUS
<1> USE DEF WinnerSetDone, NeverBoth, FireWon, StopWon,
            clockVars, tickVars, timerVars, fireVars, resetVars
<1>1. CASE TimerFires \/ FireCheck \/ FireClock \/ FireLoad \/ FireRearm
  BY <1>1 DEF TimerFires, FireCheck, FireClock, FireLoad, FireRearm
<1>2. CASE FireCas
  BY <1>2 DEF FireCas, FireSwapsDone
<1>3. CASE FireCancel
  BY <1>3 DEF FireCancel
<1>4. CASE ResetStep
  BY <1>4 DEF ResetStep, ResetCheck, ResetClock, ResetStore
<1>5. ASSUME NEW s \in Stoppers, StopCas(s)
      PROVE  WinnerSetDone'
  BY <1>5 DEF StopCas, StopSwapsDone, TypeOK
<1>6. ASSUME NEW s \in Stoppers, StopTimer(s)
      PROVE  WinnerSetDone'
  <2>1. StopWon' => StopWon
    BY <1>6 DEF StopTimer, TypeOK
  <2> QED
    BY <1>6, <2>1 DEF StopTimer
<1>7. CASE Tick
  BY <1>7 DEF Tick
<1>8. ASSUME NEW k \in Skews, ClockStep(k)
      PROVE  WinnerSetDone'
  BY <1>8 DEF ClockStep
<1>9. CASE Finished \/ UNCHANGED vars
  BY <1>9 DEF Finished, vars
<1> QED
  BY <1>1, <1>2, <1>3, <1>4, <1>5, <1>6, <1>7, <1>8, <1>9 DEF Next, FireStep

(* The atomic done has one winner: when a Stop call wins it, the callback  *)
(* never cancels, however far it had come, and the other way round.        *)
THEOREM OneWinner == Spec => []NeverBoth
<1>1. Init => WinnerSetDone
  BY DEF Init, WinnerSetDone, NeverBoth, FireWon, StopWon
<1>2. WinnerSetDone => NeverBoth
  BY DEF WinnerSetDone
<1> QED
  BY <1>1, <1>2, NextWinner, TypeCorrect, PTL DEF Spec, Safety

(* "Stop permanently disables the watchdog" (src/guard.go): once a Stop    *)
(* call has won, the context is not cancelled at any later time.           *)
THEOREM StopIsFinal == Spec => [](StopWon => []~cancelled)
<1>1. TypeOK /\ [Next]_vars => (StopWon => StopWon')
  <2> SUFFICES ASSUME TypeOK, [Next]_vars, NEW t \in Stoppers,
                      spc[t] \in {"timer", "won"}
               PROVE  spc'[t] \in {"timer", "won"}
    BY DEF StopWon
  <2>1. ASSUME NEW s \in Stoppers, StopCas(s) \/ StopTimer(s)
        PROVE  spc'[t] \in {"timer", "won"}
    BY <2>1 DEF StopCas, StopSwapsDone, StopTimer, TypeOK
  <2>2. CASE UNCHANGED spc
    BY <2>2
  <2> QED
    BY <2>1, <2>2
       DEF Next, FireStep, TimerFires, FireCheck, FireClock, FireLoad, FireCas,
           FireCancel, FireRearm, ResetStep, ResetCheck, ResetClock, ResetStore,
           Tick, ClockStep, Finished, vars
<1>2. NeverBoth => (StopWon => ~cancelled)
  BY DEF NeverBoth, FireWon
<1> QED
  BY <1>1, <1>2, OneWinner, TypeCorrect, PTL DEF Spec, Safety

-----------------------------------------------------------------------------
(* The contract of watchdogs.  Seen only changes where done does, and      *)
(* where the callback cancels.                                             *)

LEMMA SeenMoves ==
    ASSUME TypeOK, WinnerSetDone, [Next]_vars
    PROVE  \/ Seen' = Seen
           \/ Seen = "running" /\ Seen' \in {"stopped", "fired"}
           \/ Seen = "fired" /\ Seen' = "over"
<1> USE DEF Seen, FireWon, StopWon, WinnerSetDone, NeverBoth,
            clockVars, tickVars, timerVars, fireVars, resetVars
<1>1. CASE TimerFires \/ FireCheck \/ FireClock \/ FireLoad \/ FireRearm
  BY <1>1 DEF TimerFires, FireCheck, FireClock, FireLoad, FireRearm
<1>2. CASE FireCas
  BY <1>2 DEF FireCas, FireSwapsDone
<1>3. CASE FireCancel
  BY <1>3 DEF FireCancel
<1>4. CASE ResetStep
  BY <1>4 DEF ResetStep, ResetCheck, ResetClock, ResetStore
<1>5. ASSUME NEW s \in Stoppers, StopCas(s)
      PROVE  \/ Seen' = Seen
             \/ Seen = "running" /\ Seen' = "stopped"
  <2>1. CASE done
    <3>1. StopWon' <=> StopWon
      BY <1>5, <2>1 DEF StopCas, StopSwapsDone, TypeOK
    <3> QED
      BY <1>5, <3>1 DEF StopCas
  <2>2. CASE ~done
    <3>1. StopWon'
      BY <1>5, <2>2 DEF StopCas, StopSwapsDone, TypeOK
    <3>2. ~StopWon /\ ~FireWon /\ ~FireWon'
      BY <1>5, <2>2 DEF StopCas
    <3> QED
      BY <3>1, <3>2
  <2> QED
    BY <2>1, <2>2
<1>6. ASSUME NEW s \in Stoppers, StopTimer(s)
      PROVE  Seen' = Seen
  <2>1. StopWon' <=> StopWon
    BY <1>6 DEF StopTimer, TypeOK
  <2> QED
    BY <1>6, <2>1 DEF StopTimer
<1>7. CASE Tick \/ (\E k \in Skews : ClockStep(k)) \/ Finished \/ UNCHANGED vars
  BY <1>7 DEF Tick, ClockStep, Finished, vars
<1> QED
  BY <1>1, <1>2, <1>3, <1>4, <1>5, <1>6, <1>7 DEF Next, FireStep

(* The callback, the Stop calls and the Resets together implement the      *)
(* contract of one watchdog, whatever the wall clock does: the swap of     *)
(* done is the step at which Stop or Fire happens.                         *)
THEOREM WatchdogKeepsContract == Spec => ImplementsWatchdog
<1> DEFINE dogs == [d \in {"w"} |-> Seen]
<1>1. Init => Contract!Init
  BY DEF Init, Contract!Init, Seen, FireWon, StopWon
<1>2. TypeOK /\ WinnerSetDone /\ [Next]_vars => [Contract!Next]_dogs
  <2> SUFFICES ASSUME TypeOK, WinnerSetDone, [Next]_vars
               PROVE  [Contract!Next]_dogs
    OBVIOUS
  <2>1. CASE Seen' = Seen
    BY <2>1
  <2>2. ASSUME NEW from, NEW to, Seen = from, Seen' = to
        PROVE  Contract!Move("w", from, to)
    BY <2>2 DEF Contract!Move
  <2>3. CASE Seen = "running" /\ Seen' = "stopped"
    BY <2>2, <2>3 DEF Contract!Next, Contract!Stop
  <2>4. CASE Seen = "running" /\ Seen' = "fired"
    BY <2>2, <2>4 DEF Contract!Next, Contract!Fire
  <2>5. CASE Seen = "fired" /\ Seen' = "over"
    BY <2>2, <2>5 DEF Contract!Next, Contract!Cancel
  <2> QED
    BY <2>1, <2>3, <2>4, <2>5, SeenMoves
<1>3. Init => WinnerSetDone
  BY DEF Init, WinnerSetDone, NeverBoth, FireWon, StopWon
<1> QED
  BY <1>1, <1>2, <1>3, NextWinner, TypeCorrect, PTL
     DEF Spec, Safety, ImplementsWatchdog, Contract!Spec

-----------------------------------------------------------------------------
(* Real time.  What follows holds until somebody sets the wall clock;      *)
(* after that neither property does (a run shows it for false alarms).     *)

(* Wall-clock readings are monotonic times, a Reset under way holds a      *)
(* reading no older than lastTick, and without one lastTick is the last    *)
(* reading made.                                                           *)
TicksAreTimes ==
    /\ skew = 0
    /\ tickAt = lastTick /\ lastTick <= now
    /\ rpc = "store" => /\ reading = readAt
                        /\ lastTick <= reading /\ reading <= now
    /\ rpc # "store" => readAt = tickAt

(* fire reads the clock after its timer was due. *)
FireReadsInOrder ==
    /\ fpc # "idle" => due <= now
    /\ fpc \in {"load", "cas", "rearm"} => due <= fireNow /\ fireNow <= now

(* Until someone wins, either the timer runs or fire is between its first  *)
(* and its last access, never neither and never both.                      *)
AlwaysWatched ==
    /\ armed => fpc = "idle"
    /\ ~done => (armed \/ fpc \in {"check", "clock", "load", "cas", "rearm"})

(* Both callbacks keep their deadlines, and the timer is never set further *)
(* from the last Reset than the timeout and one latency.                   *)
DeadlinesKept ==
    /\ armed \/ fpc # "idle" => now <= due + MaxLatency
    /\ due <= lastTick + Timeout + MaxLatency
    /\ fpc = "rearm" => 1 <= remaining /\ remaining <= lastTick + Timeout - fireNow

RealTime ==
    ~stepped => /\ TicksAreTimes
                /\ FireReadsInOrder
                /\ AlwaysWatched
                /\ DeadlinesKept

LEMMA InitRealTime == Init => RealTime
BY TimeoutAssumption, LatencyAssumption
   DEF Init, RealTime, TicksAreTimes, FireReadsInOrder, AlwaysWatched,
       DeadlinesKept

LEMMA NextRealTime ==
    ASSUME TypeOK, WinnerSetDone, RealTime, [Next]_vars
    PROVE  RealTime'
<1> USE TimeoutAssumption, LatencyAssumption
    DEF TypeOK, RealTime, TicksAreTimes, FireReadsInOrder, AlwaysWatched,
        DeadlinesKept, clockVars, tickVars, timerVars, fireVars, resetVars
<1>1. CASE TimerFires
  BY <1>1 DEF TimerFires
<1>2. CASE FireCheck
  BY <1>2 DEF FireCheck
<1>3. CASE FireClock
  BY <1>3 DEF FireClock, Wall
<1>4. CASE FireLoad
  BY <1>4 DEF FireLoad, TrulyIdle, RemainingWindow
<1>5. CASE FireCas
  BY <1>5 DEF FireCas, FireSwapsDone
<1>6. CASE FireCancel
  BY <1>6 DEF FireCancel, WinnerSetDone
<1>7. CASE FireRearm
  BY <1>7 DEF FireRearm, Rearm
<1>8. CASE ResetCheck \/ ResetClock
  BY <1>8 DEF ResetCheck, ResetClock, Wall
<1>9. CASE ResetStore
  BY <1>9 DEF ResetStore
<1>10. ASSUME NEW s \in Stoppers, StopCas(s)
       PROVE  RealTime'
  BY <1>10 DEF StopCas, StopSwapsDone
<1>11. ASSUME NEW s \in Stoppers, StopTimer(s)
       PROVE  RealTime'
  <2>1. done
    BY <1>11 DEF StopTimer, WinnerSetDone, StopWon
  <2> QED
    BY <1>11, <2>1 DEF StopTimer
<1>12. CASE Tick
  BY <1>12 DEF Tick
<1>13. ASSUME NEW k \in Skews, ClockStep(k)
       PROVE  RealTime'
  BY <1>13 DEF ClockStep
<1>14. CASE Finished \/ UNCHANGED vars
  BY <1>14 DEF Finished, vars
<1> QED
  BY <1>1, <1>2, <1>3, <1>4, <1>5, <1>6, <1>7, <1>8, <1>9, <1>10, <1>11, <1>12,
     <1>13, <1>14 DEF Next, FireStep, ResetStep

LEMMA RealTimeHolds == Spec => []RealTime
<1>1. Init => WinnerSetDone
  BY DEF Init, WinnerSetDone, NeverBoth, FireWon, StopWon
<1>2. TypeOK /\ WinnerSetDone /\ RealTime /\ [Next]_vars => RealTime'
  BY NextRealTime
<1> QED
  BY <1>1, <1>2, InitRealTime, NextWinner, TypeCorrect, PTL DEF Spec, Safety

(* Until someone sets the wall clock, a stall is noticed no later than     *)
(* the timeout and two callback latencies after the last Reset, wherever   *)
(* in the window that Reset fell.                                          *)
THEOREM StallsNoticed == Spec => []DetectionBound
<1>1. TypeOK /\ RealTime => DetectionBound
  BY TimeoutAssumption, LatencyAssumption
     DEF TypeOK, RealTime, AlwaysWatched, DeadlinesKept, DetectionBound
<1> QED
  BY <1>1, RealTimeHolds, TypeCorrect, PTL

(* Until someone sets the wall clock, whenever fire decides to cancel, the *)
(* last Reset stored is a whole timeout old, and so is the last one begun, *)
(* unless that one has read the clock and not yet stored its reading.      *)
THEOREM AlarmsAreTrue == Spec => NoFalseAlarm
<1>1. TypeOK /\ RealTime /\ [Next]_vars
        => (fpc # "cas" /\ fpc' = "cas" /\ ~stepped
              => /\ now - tickAt >= Timeout
                 /\ rpc = "store" \/ now - readAt >= Timeout)
  <2> SUFFICES ASSUME TypeOK, RealTime, [Next]_vars, fpc # "cas", fpc' = "cas",
                      ~stepped
               PROVE  /\ now - tickAt >= Timeout
                      /\ rpc = "store" \/ now - readAt >= Timeout
    OBVIOUS
  <2> USE DEF clockVars, tickVars, timerVars, fireVars, resetVars
  <2>1. CASE FireLoad
    BY <2>1, TimeoutAssumption
       DEF FireLoad, TrulyIdle, TypeOK, RealTime, TicksAreTimes,
           FireReadsInOrder
  <2>2. CASE TimerFires \/ FireCheck \/ FireClock \/ FireCas \/ FireCancel
             \/ FireRearm
    BY <2>2 DEF TimerFires, FireCheck, FireClock, FireCas, FireSwapsDone,
                FireCancel, FireRearm
  <2>3. CASE ResetStep \/ Tick \/ Finished \/ UNCHANGED vars
    BY <2>3 DEF ResetStep, ResetCheck, ResetClock, ResetStore, Tick, Finished,
                vars
  <2>4. CASE \/ \E s \in Stoppers : StopCas(s) \/ StopTimer(s)
             \/ \E k \in Skews : ClockStep(k)
    BY <2>4 DEF StopCas, StopTimer, ClockStep
  <2> QED
    BY <2>1, <2>2, <2>3, <2>4 DEF Next, FireStep
<1> QED
  BY <1>1, RealTimeHolds, TypeCorrect, PTL DEF Spec, Safety, NoFalseAlarm

=============================================================================
