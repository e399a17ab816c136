------------------------------ MODULE DialRace ------------------------------
(***************************************************************************)
(* The dial of approved addresses in src/ssrf.go.  Staggered               *)
(* (dialApprovedAddresses), it has one goroutine per started address, a    *)
(* buffered results channel, a fallback timer, and a goroutine that drains *)
(* the losers after the call has returned.  With a dial function of the    *)
(* caller (dialApprovedAddressesSequentially) it is a loop without any of  *)
(* these.  The addresses are dialled in order 1, 2, ..., N.                *)
(*                                                                         *)
(* Each branch of the select statement is one action: between the receive  *)
(* and the end of the branch it only touches its own locals, the timer and *)
(* the derived context, so no goroutine can tell the finer steps apart.    *)
(* A dial goroutine has two steps, because the connection it opened is not *)
(* yet in the channel when the call decides how much there is to drain.    *)
(*                                                                         *)
(* Time is counted in ticks.  age and outcome are ghosts: the code keeps   *)
(* neither, and no action is guarded by them.                              *)
(***************************************************************************)
EXTENDS Integers, Sequences, FiniteSets

CONSTANTS N,            \* len(addresses); the caller refuses an empty list
          Delay         \* ipPolicyFallbackDelay, in ticks

ASSUME NAssumption == N \in Nat \ {0}
ASSUME DelayAssumption == Delay \in Nat \ {0}

Addresses == 1 .. N

VARIABLES
    staggered,  \* which of the two is called
    pc,         \* "select" while the loop runs, "returned" afterwards
    started,    \* the loop's counters
    completed,
    attempt,    \* the dial goroutine of each address
    conn,       \* the connection each goroutine opened, and who owns it
    results,    \* the results channel: addresses, oldest first
    timer,      \* the fallback timer: its state and the ticks it has left
    parentDone, \* the caller's context is done
    ctxDone,    \* the context of the dials is done: the derived one, or the
                \* caller's own without it
    drainLeft,  \* receives the drain goroutine still has to make
    outcome,    \* what the call returned
    age         \* ticks since the last address was started, up to Delay

vars == <<staggered, pc, started, completed, attempt, conn, results, timer,
          parentDone, ctxDone, drainLeft, outcome, age>>

AttemptStates == {"unstarted", "dialing", "dialed", "sent", "received"}
ConnStates    == {"none", "open", "returned", "closed"}
Outcomes      == {"none", "conn", "ctxErr", "allFailed"}
TimerStates   == {"stopped", "running", "fired"}

TypeOK ==
    /\ staggered \in BOOLEAN
    /\ pc \in {"select", "returned"}
    /\ started \in 1 .. N
    /\ completed \in 0 .. N
    /\ attempt \in [Addresses -> AttemptStates]
    /\ conn \in [Addresses -> ConnStates]
    /\ results \in Seq(Addresses)
    /\ timer \in [state : TimerStates, left : 0 .. Delay]
    /\ parentDone \in BOOLEAN
    /\ ctxDone \in BOOLEAN
    /\ drainLeft \in 0 .. N
    /\ outcome \in Outcomes
    /\ age \in 0 .. Delay

(* The timer as NewTimer and Stop; Reset leave it: counting from the full  *)
(* delay, with no stale tick in its channel.                               *)
Armed   == [state |-> "running", left |-> Delay]
Stopped == [state |-> "stopped", left |-> 0]

(* Attempts whose result the call, or the drain goroutine, has not taken.  *)
Outstanding == {a \in Addresses : attempt[a] \in {"dialing", "dialed", "sent"}}

Init ==
    /\ staggered \in BOOLEAN
    /\ pc = "select"
    /\ started = 1
    /\ completed = 0
    /\ attempt = [a \in Addresses |-> IF a = 1 THEN "dialing" ELSE "unstarted"]
    /\ conn = [a \in Addresses |-> "none"]
    /\ results = << >>
    /\ timer = IF staggered THEN Armed ELSE Stopped
    /\ parentDone = FALSE
    /\ ctxDone = FALSE
    /\ drainLeft = 0
    /\ outcome = "none"
    /\ age = 0

-----------------------------------------------------------------------------
(* The dial goroutines.  The dial itself is net.Dialer: it may succeed,    *)
(* fail, or hang for as long as its context is live.  A dial function of   *)
(* the caller may hang longer.                                             *)

DialSucceeds(a) ==
    /\ attempt[a] = "dialing"
    /\ attempt' = [attempt EXCEPT ![a] = "dialed"]
    /\ conn' = [conn EXCEPT ![a] = "open"]
    /\ UNCHANGED <<staggered, pc, started, completed, results, timer,
                   parentDone, ctxDone, drainLeft, outcome, age>>

DialFails(a) ==
    /\ attempt[a] = "dialing"
    /\ attempt' = [attempt EXCEPT ![a] = "dialed"]
    /\ UNCHANGED <<staggered, pc, started, completed, conn, results, timer,
                   parentDone, ctxDone, drainLeft, outcome, age>>

(* The channel's buffer holds one result per address. *)
Capacity == N

Send(a) ==
    /\ staggered
    /\ attempt[a] = "dialed"
    /\ Len(results) < Capacity
    /\ attempt' = [attempt EXCEPT ![a] = "sent"]
    /\ results' = Append(results, a)
    /\ UNCHANGED <<staggered, pc, started, completed, conn, timer, parentDone,
                   ctxDone, drainLeft, outcome, age>>

-----------------------------------------------------------------------------
(* The loop. *)

(* Every return runs the deferred cancel and timer.Stop. *)
Return(how) ==
    /\ pc' = "returned"
    /\ outcome' = how
    /\ ctxDone' = TRUE
    /\ timer' = Stopped

(* How many results are still to come once taken of them were received.    *)
(* The three operators before it are plausible wrong counts: the result    *)
(* just received counted again, only what is in the channel by now, and    *)
(* the addresses never started counted too.                                *)
DrainCountStale(taken) == started - completed
DrainCountBuffered(taken) == Len(results) - (taken - completed)
DrainCountAll(taken) == N - taken
DrainCount(taken) == started - taken

(* case <-ctx.Done() *)
ContextDone ==
    /\ staggered
    /\ pc = "select"
    /\ ctxDone
    /\ Return("ctxErr")
    /\ drainLeft' = DrainCount(completed)
    /\ UNCHANGED <<staggered, started, completed, attempt, conn, results,
                   parentDone, age>>

(* case result := <-results, with a connection: the race is over. *)
ReceiveConn ==
    /\ pc = "select"
    /\ results # << >>
    /\ LET a == Head(results)
       IN  /\ conn[a] = "open"
           /\ attempt' = [attempt EXCEPT ![a] = "received"]
           /\ conn' = [conn EXCEPT ![a] = "returned"]
    /\ results' = Tail(results)
    /\ completed' = completed + 1
    /\ drainLeft' = DrainCount(completed + 1)
    /\ Return("conn")
    /\ UNCHANGED <<staggered, started, parentDone, age>>

(* A failure starts the next address only when nothing else is in flight.  *)
(* Wrong without the bound on started.                                     *)
StartsNextUnbounded(taken) == taken = started
StartsNext(taken) == started < N /\ taken = started

(* The loop is over when every address has reported; not one earlier.      *)
ExhaustedEarly(taken) == taken >= N - 1
Exhausted(taken) == taken >= N

(* Stop, drain and Reset give the address a failure has just started a     *)
(* full head start.  Wrong when the old timer keeps running, or is stopped *)
(* and not reset.                                                          *)
KeepTimerAfterFailure == timer' = timer
StopTimerAfterFailure == timer' = Stopped
RearmAfterFailure == timer' = Armed

(* case result := <-results, with an error. *)
ReceiveFailure ==
    /\ pc = "select"
    /\ results # << >>
    /\ conn[Head(results)] = "none"
    /\ results' = Tail(results)
    /\ completed' = completed + 1
    /\ LET received == [attempt EXCEPT ![Head(results)] = "received"]
       IN  \/ /\ StartsNext(completed + 1)
              /\ attempt' = [received EXCEPT ![started + 1] = "dialing"]
              /\ started' = started + 1
              /\ age' = 0
              /\ RearmAfterFailure
              /\ UNCHANGED <<pc, ctxDone, outcome>>
           \/ /\ ~StartsNext(completed + 1)
              /\ attempt' = received
              /\ UNCHANGED <<started, age>>
              /\ IF Exhausted(completed + 1)
                 THEN Return("allFailed")
                 ELSE UNCHANGED <<pc, ctxDone, outcome, timer>>
    /\ UNCHANGED <<staggered, conn, parentDone, drainLeft>>

(* case <-timer.C: start the next address, and re-arm while any is left. *)
FallbackTimer ==
    /\ pc = "select"
    /\ timer.state = "fired"
    /\ IF started < N
       THEN /\ attempt' = [attempt EXCEPT ![started + 1] = "dialing"]
            /\ started' = started + 1
            /\ age' = 0
       ELSE UNCHANGED <<attempt, started, age>>
    /\ timer' = IF started' < N THEN Armed ELSE Stopped
    /\ UNCHANGED <<staggered, pc, completed, conn, results, parentDone,
                   ctxDone, drainLeft, outcome>>

-----------------------------------------------------------------------------
(* The sequential loop, whose dial has returned.  The context is looked at *)
(* only after a failure.                                                   *)

SequentialReturn(how) == pc' = "returned" /\ outcome' = how

SequentialConn ==
    /\ ~staggered
    /\ pc = "select"
    /\ attempt[started] = "dialed" /\ conn[started] = "open"
    /\ attempt' = [attempt EXCEPT ![started] = "received"]
    /\ conn' = [conn EXCEPT ![started] = "returned"]
    /\ completed' = completed + 1
    /\ SequentialReturn("conn")
    /\ UNCHANGED <<staggered, started, results, timer, parentDone, ctxDone,
                   drainLeft, age>>

SequentialFailure ==
    /\ ~staggered
    /\ pc = "select"
    /\ attempt[started] = "dialed" /\ conn[started] = "none"
    /\ completed' = completed + 1
    /\ LET received == [attempt EXCEPT ![started] = "received"]
       IN  \/ /\ ~parentDone /\ started < N
              /\ attempt' = [received EXCEPT ![started + 1] = "dialing"]
              /\ started' = started + 1
              /\ age' = 0
              /\ UNCHANGED <<pc, outcome>>
           \/ /\ parentDone \/ started = N
              /\ attempt' = received
              /\ SequentialReturn(IF parentDone THEN "ctxErr" ELSE "allFailed")
              /\ UNCHANGED <<started, age>>
    /\ UNCHANGED <<staggered, conn, results, timer, parentDone, ctxDone,
                   drainLeft>>

-----------------------------------------------------------------------------
(* The drain goroutine: one receive per outstanding result. *)
Drain ==
    /\ drainLeft > 0
    /\ results # << >>
    /\ LET a == Head(results)
       IN  /\ attempt' = [attempt EXCEPT ![a] = "received"]
           /\ conn' = [conn EXCEPT ![a] = IF @ = "open" THEN "closed" ELSE @]
    /\ results' = Tail(results)
    /\ drainLeft' = drainLeft - 1
    /\ UNCHANGED <<staggered, pc, started, completed, timer, parentDone,
                   ctxDone, outcome, age>>

(* The caller's context is cancelled or times out, at any moment. *)
ParentCancel ==
    /\ ~parentDone
    /\ parentDone' = TRUE
    /\ ctxDone' = TRUE
    /\ UNCHANGED <<staggered, pc, started, completed, attempt, conn, results,
                   timer, drainLeft, outcome, age>>

(* One tick of real time. *)
Tick ==
    /\ pc = "select"
    /\ timer.state = "running" \/ age < Delay
    /\ age' = IF age < Delay THEN age + 1 ELSE age
    /\ timer' = IF timer.state # "running" THEN timer
                ELSE IF timer.left > 1 THEN [timer EXCEPT !.left = @ - 1]
                ELSE [state |-> "fired", left |-> 0]
    /\ UNCHANGED <<staggered, pc, started, completed, attempt, conn, results,
                   parentDone, ctxDone, drainLeft, outcome>>

-----------------------------------------------------------------------------
Terminated == pc = "returned" /\ Outstanding = {} /\ UNCHANGED vars

Next ==
    \/ \E a \in Addresses : DialSucceeds(a) \/ DialFails(a) \/ Send(a)
    \/ ContextDone \/ ReceiveConn \/ ReceiveFailure \/ FallbackTimer
    \/ SequentialConn \/ SequentialFailure
    \/ Drain \/ ParentCancel \/ Tick \/ Terminated

(* Goroutines that can run do run and time passes.  A dial of net.Dialer   *)
(* is only sure to end once its context is done; until then it may hang.   *)
Fairness ==
    /\ \A a \in Addresses :
         /\ WF_vars(Send(a))
         /\ WF_vars(staggered /\ ctxDone /\ (DialSucceeds(a) \/ DialFails(a)))
    /\ WF_vars(ContextDone \/ ReceiveConn \/ ReceiveFailure \/ FallbackTimer)
    /\ WF_vars(SequentialConn \/ SequentialFailure)
    /\ WF_vars(Drain)
    /\ WF_vars(Tick)

Safety == Init /\ [][Next]_vars
Spec == Safety /\ Fairness

-----------------------------------------------------------------------------
(* Properties. *)

(* Nothing leaks: while the loop runs, started - completed counts exactly  *)
(* the goroutines whose result has not been taken, and once the call has   *)
(* returned the drain goroutine still has exactly as many receives to make *)
(* as results are to come, so no losing connection stays open and the      *)
(* drain goroutine never waits for a result nobody sends.                  *)
DrainAccounting ==
    Cardinality(Outstanding) =
        IF pc = "select" THEN started - completed ELSE drainLeft

(* The error a call returns is the truth: "all failed" only after every    *)
(* address was tried and none connected, the context's error only when the *)
(* caller's own context ended (not because of the derived cancel).         *)
ErrorsAreEarned ==
    /\ outcome = "allFailed" =>
         \A a \in Addresses : attempt[a] = "received" /\ conn[a] = "none"
    /\ outcome = "ctxErr" => parentDone

(* An address gets the full fallback delay before the next one is started, *)
(* unless every address started so far has failed.  A dial function of the *)
(* caller is never called before its earlier call has failed: no           *)
(* concurrency is imposed on it.                                           *)
HeadStart ==
    [][started' > started
         => completed' = started \/ (staggered /\ age >= Delay)]_vars

(* A dial that hangs does not keep the other addresses from being tried:   *)
(* in the end all were started or the call has returned, although no dial  *)
(* is obliged to end.  One after the other there is no such promise.       *)
HungDialBlocksNobody == <>(staggered => pc = "returned" \/ started = N)

(* After the return every dial goroutine and the drain goroutine end.      *)
GoroutinesEnd == pc = "returned" ~> (Outstanding = {} /\ drainLeft = 0)

(* The comment on dialApprovedAddresses: "an immediate failure starts the  *)
(* next address immediately".  Taken at its word, a failure of the newest  *)
(* attempt within its head start starts the next address at once.  The     *)
(* code does so only if every older attempt has failed too.                *)
ImmediateFailureStartsNext ==
    [][( /\ pc = "select" /\ completed' = completed + 1
         /\ attempt[started] = "sent" /\ attempt'[started] = "received"
         /\ conn[started] = "none"
         /\ age < Delay /\ started < N )
       => started' = started + 1]_vars

(* The call keeps its promise about connections. *)
Ownership == INSTANCE ConnOwnership
                 WITH call <- IF pc = "select" THEN "running" ELSE "returned"

ImplementsOwnership == Ownership!Spec
=============================================================================
