---------------------------- MODULE IdleWatchdog ----------------------------
(***************************************************************************)
(* The idle watchdog of src/guard.go (idleWatchdog): a timer callback that *)
(* cancels a context unless Reset keeps moving lastTick, and Stop.  Four   *)
(* kinds of goroutine meet here: the timer's callback (fire), the one that *)
(* reads the body (Reset), those that close it (Stop), and the clock.      *)
(*                                                                         *)
(* One action is one access to shared state: the atomics lastTick and      *)
(* done, the timer, the clock.  lastTick holds a wall-clock reading        *)
(* (UnixNano), while the timer runs on monotonic time; the two differ by   *)
(* skew, which only the environment changes (ClockStep).                   *)
(*                                                                         *)
(* timeout <= 0 is the no-op mode: nothing is armed and both calls return, *)
(* so it has no state and Timeout starts at 1.  A body is read by one      *)
(* goroutine at a time, so there is one resetter.  Ghosts: tickAt and      *)
(* readAt are the monotonic instants of the readings in lastTick and in    *)
(* reading, stepped says that the wall clock has been set.                 *)
(***************************************************************************)
EXTENDS Integers

CONSTANTS Timeout,      \* the idle timeout, in ticks
          Stoppers,     \* goroutines that may call Stop, once each
          MaxLatency,   \* ticks within which a due callback starts and ends
          QuietFrom,    \* no Reset reads the clock after this instant
          MaxNow,       \* bound on the clock
          Skews         \* skews the wall clock may be set to

ASSUME TimeoutAssumption == Timeout \in Nat \ {0}
ASSUME LatencyAssumption == MaxLatency \in Nat \ {0}
ASSUME BoundsAssumption  ==
    /\ QuietFrom \in Nat
    /\ MaxNow \in Nat
    /\ MaxNow > QuietFrom + Timeout + 2 * MaxLatency
ASSUME SkewsAssumption == Skews \subseteq Int

VARIABLES
    now,        \* monotonic time
    skew,       \* wall clock minus monotonic time
    stepped,    \* ghost: skew has changed
    lastTick,   \* the atomic: wall-clock time of the last Reset
    tickAt,     \* ghost: when lastTick was read off the clock
    done,       \* the atomic: fire or Stop has won
    armed,      \* the timer is running
    due,        \* when the timer fires, or fired last
    fpc,        \* where fire is
    fireNow,    \* fire's reading of the clock
    remaining,  \* fire's remaining window
    rpc,        \* where Reset is
    reading,    \* Reset's reading of the clock
    readAt,     \* ghost: when that reading was made
    spc,        \* where each Stop call is
    cancelled   \* cancel(cause) has been called

fireVars  == <<fpc, fireNow, remaining>>
resetVars == <<rpc, reading, readAt>>
clockVars == <<now, skew, stepped>>
tickVars  == <<lastTick, tickAt>>
timerVars == <<armed, due>>
vars == <<clockVars, tickVars, done, timerVars, fireVars, resetVars, spc,
          cancelled>>

FireStates  == {"idle", "check", "clock", "load", "cas", "cancel", "rearm"}
ResetStates == {"idle", "clock", "store"}
StopStates  == {"idle", "timer", "won", "lost"}

TypeOK ==
    /\ now \in 0 .. MaxNow
    /\ skew \in Skews \cup {0} /\ stepped \in BOOLEAN
    /\ lastTick \in Int /\ tickAt \in 0 .. MaxNow
    /\ done \in BOOLEAN
    /\ armed \in BOOLEAN /\ due \in Nat
    /\ fpc \in FireStates /\ fireNow \in Int /\ remaining \in Nat
    /\ rpc \in ResetStates /\ reading \in Int /\ readAt \in 0 .. MaxNow
    /\ spc \in [Stoppers -> StopStates]
    /\ cancelled \in BOOLEAN

Wall == now + skew

(* newIdleWatchdog *)
Init ==
    /\ now = 0 /\ skew = 0 /\ stepped = FALSE
    /\ lastTick = 0 /\ tickAt = 0
    /\ done = FALSE
    /\ armed = TRUE /\ due = Timeout
    /\ fpc = "idle" /\ fireNow = 0 /\ remaining = 0
    /\ rpc = "idle" /\ reading = 0 /\ readAt = 0
    /\ spc = [s \in Stoppers |-> "idle"]
    /\ cancelled = FALSE

-----------------------------------------------------------------------------
(* fire.  At most one callback runs: the timer is re-armed by the last     *)
(* statement of fire and by nothing else.                                  *)

TimerFires ==
    /\ armed /\ now >= due /\ fpc = "idle"
    /\ armed' = FALSE
    /\ fpc' = "check"
    /\ UNCHANGED <<clockVars, tickVars, done, due, fireNow, remaining,
                   resetVars, spc, cancelled>>

FireCheck ==
    /\ fpc = "check"
    /\ fpc' = IF done THEN "idle" ELSE "clock"
    /\ UNCHANGED <<clockVars, tickVars, done, timerVars, fireNow, remaining,
                   resetVars, spc, cancelled>>

(* time.Now() is evaluated before lastTick.Load(). *)
FireClock ==
    /\ fpc = "clock"
    /\ fireNow' = Wall
    /\ fpc' = "load"
    /\ UNCHANGED <<clockVars, tickVars, done, timerVars, remaining, resetVars,
                   spc, cancelled>>

(* Idle for the whole timeout; wrong when the timer's latency is allowed   *)
(* for here too.                                                           *)
NearlyIdle(elapsed) == elapsed + MaxLatency >= Timeout
TrulyIdle(elapsed)  == elapsed >= Timeout

(* What is left of the window; wrong with the operands swapped. *)
RemainingReversed(elapsed) == elapsed - Timeout
RemainingWindow(elapsed)   == Timeout - elapsed

(* The loaded lastTick decides: idle for the whole timeout, or re-arm.     *)
(* A Reset that lands after the clock was read makes elapsed negative.     *)
FireLoad ==
    /\ fpc = "load"
    /\ LET elapsed == fireNow - lastTick
       IN  \/ /\ TrulyIdle(elapsed)
              /\ fpc' = "cas"
              /\ UNCHANGED remaining
           \/ /\ ~TrulyIdle(elapsed)
              /\ fpc' = "rearm"
              /\ remaining' = RemainingWindow(elapsed)
    /\ UNCHANGED <<clockVars, tickVars, done, timerVars, fireNow, resetVars,
                   spc, cancelled>>

(* done.CompareAndSwap(false, true); wrong as a plain store. *)
FireStoresDone == done' = TRUE /\ fpc' = "cancel"
FireSwapsDone ==
    \/ ~done /\ done' = TRUE /\ fpc' = "cancel"
    \/ done /\ UNCHANGED done /\ fpc' = "idle"

FireCas ==
    /\ fpc = "cas"
    /\ FireSwapsDone
    /\ UNCHANGED <<clockVars, tickVars, timerVars, fireNow, remaining,
                   resetVars, spc, cancelled>>

FireCancel ==
    /\ fpc = "cancel"
    /\ cancelled' = TRUE
    /\ fpc' = "idle"
    /\ UNCHANGED <<clockVars, tickVars, done, timerVars, fireNow, remaining,
                   resetVars, spc>>

(* w.timer.Reset(remaining).  Wrong with the full timeout, or left out.    *)
RearmInFull == armed' = TRUE /\ due' = now + Timeout
NoRearm     == UNCHANGED timerVars
Rearm       == armed' = TRUE /\ due' = now + remaining

FireRearm ==
    /\ fpc = "rearm"
    /\ Rearm
    /\ fpc' = "idle"
    /\ UNCHANGED <<clockVars, tickVars, done, fireNow, remaining, resetVars,
                   spc, cancelled>>

-----------------------------------------------------------------------------
(* Reset, called after a read that returned bytes. *)

ResetCheck ==
    /\ rpc = "idle" /\ now < QuietFrom
    /\ ~done
    /\ rpc' = "clock"
    /\ UNCHANGED <<clockVars, tickVars, done, timerVars, fireVars, reading,
                   readAt, spc, cancelled>>

ResetClock ==
    /\ rpc = "clock"
    /\ reading' = Wall /\ readAt' = now
    /\ rpc' = "store"
    /\ UNCHANGED <<clockVars, tickVars, done, timerVars, fireVars, spc,
                   cancelled>>

ResetStore ==
    /\ rpc = "store"
    /\ lastTick' = reading /\ tickAt' = readAt
    /\ rpc' = "idle"
    /\ UNCHANGED <<clockVars, done, timerVars, fireVars, reading, readAt, spc,
                   cancelled>>

-----------------------------------------------------------------------------
(* Stop.  The loser of the swap returns at once. *)

StopSwapsDone(s) ==
    \/ ~done /\ done' = TRUE /\ spc' = [spc EXCEPT ![s] = "timer"]
    \/ done /\ UNCHANGED done /\ spc' = [spc EXCEPT ![s] = "lost"]

StopCas(s) ==
    /\ spc[s] = "idle"
    /\ StopSwapsDone(s)
    /\ UNCHANGED <<clockVars, tickVars, timerVars, fireVars, resetVars,
                   cancelled>>

StopTimer(s) ==
    /\ spc[s] = "timer"
    /\ armed' = FALSE
    /\ spc' = [spc EXCEPT ![s] = "won"]
    /\ UNCHANGED <<clockVars, tickVars, done, due, fireVars, resetVars,
                   cancelled>>

-----------------------------------------------------------------------------
(* Time.  A callback that is due starts, and one that runs ends, within    *)
(* MaxLatency ticks.  A Reset may stay between its reading and its store   *)
(* for as long as it likes; before its reading only until QuietFrom, which *)
(* is the bound on the readings a run explores.                            *)

Tick ==
    /\ now < MaxNow
    /\ armed \/ fpc # "idle" => now < due + MaxLatency
    /\ rpc = "clock" => now < QuietFrom
    /\ now' = now + 1
    /\ UNCHANGED <<skew, stepped, tickVars, done, timerVars, fireVars,
                   resetVars, spc, cancelled>>

(* The wall clock is set, by NTP or by hand. *)
ClockStep(k) ==
    /\ k # skew
    /\ skew' = k /\ stepped' = TRUE
    /\ UNCHANGED <<now, tickVars, done, timerVars, fireVars, resetVars, spc,
                   cancelled>>

(* The bounded clock has run out and every goroutine is at rest. *)
Finished ==
    /\ now = MaxNow /\ ~armed /\ fpc = "idle" /\ rpc = "idle"
    /\ UNCHANGED vars

FireStep  == TimerFires \/ FireCheck \/ FireClock \/ FireLoad \/ FireCas
             \/ FireCancel \/ FireRearm
ResetStep == ResetCheck \/ ResetClock \/ ResetStore

Next ==
    \/ FireStep \/ ResetStep
    \/ \E s \in Stoppers : StopCas(s) \/ StopTimer(s)
    \/ Tick
    \/ \E k \in Skews : ClockStep(k)
    \/ Finished

(* The callback's goroutine is scheduled, a Reset that has begun goes on,  *)
(* and time passes.  Nobody is obliged to read or to close the body.       *)
Fairness ==
    WF_vars(FireStep) /\ WF_vars(ResetClock \/ ResetStore) /\ WF_vars(Tick)

Safety == Init /\ [][Next]_vars
Spec == Safety /\ Fairness

-----------------------------------------------------------------------------
(* Properties. *)

StopWon == \E s \in Stoppers : spc[s] \in {"timer", "won"}

(* The watchdog as its users see it.  The swap of done decides; "both"    *)
(* would be a watchdog that Stop and the callback have won.                *)
FireWon == cancelled \/ fpc = "cancel"

Seen ==
    IF StopWon THEN IF FireWon THEN "both" ELSE "stopped"
    ELSE IF cancelled THEN "over"
    ELSE IF FireWon THEN "fired" ELSE "running"

Contract == INSTANCE Watchdogs WITH Dogs <- {"w"}, dog <- [d \in {"w"} |-> Seen]

(* done decides once and for all between the two outcomes: a watchdog      *)
(* whose Stop won never cancels the request, whatever the callback was     *)
(* doing at that moment, and no Stop takes back an alarm that has won.     *)
ImplementsWatchdog == Contract!Spec

(* In one state: never have both sides won. *)
NeverBoth == ~(StopWon /\ FireWon)

(* While neither side has won, silence lasts no longer than the timeout    *)
(* and the latency of two callbacks: a Reset delays the detection of a     *)
(* later stall by no more than its own distance.  This and the next one    *)
(* hold as long as nobody has set the wall clock.                          *)
DetectionBound ==
    ~done /\ ~stepped => now - lastTick <= Timeout + 2 * MaxLatency

(* No false alarm: when fire decides to cancel, the last Reset it can know *)
(* of, the last one stored, read the clock a whole timeout ago in real     *)
(* time; and unless a Reset is between its reading and its store at that   *)
(* very step, nobody at all has read the clock for a Reset since.  A Reset *)
(* that is under way then, or that comes between the decision and the swap *)
(* of done (fire lines 70 to 73), is too late to prevent the alarm.        *)
NoFalseAlarm ==
    [][fpc # "cas" /\ fpc' = "cas" /\ ~stepped
         => /\ now - tickAt >= Timeout
            /\ rpc = "store" \/ now - readAt >= Timeout]_vars

(* A body that goes silent is cancelled in the end, unless it is closed,   *)
(* and whatever the wall clock does meanwhile.                             *)
StallIsCancelled == <>(cancelled \/ StopWon)
=============================================================================
