--------------------------- MODULE ExchangeProofs ---------------------------
(***************************************************************************)
(* Theorems about Exchange for every number of retries: the guarded        *)
(* attempts implement the retry loop's view of an attempt, so everything   *)
(* RetryTransportProofs shows carries over; their watchdogs keep the       *)
(* contract of Watchdogs; the reader sees the cause of a cancellation; no  *)
(* connection is lost; and a read that stalls is always watched.           *)
(***************************************************************************)
EXTENDS Exchange, RetryTransportProofs

-----------------------------------------------------------------------------
(* The inductive invariant. *)

Wrapping == {"gzip", "wrapped", "badGzip"}

(* safetyTransport runs exactly while the loop waits for an attempt, with  *)
(* Read and Close at rest; while it wraps a response, nobody has read that *)
(* response or closed it.                                                  *)
PhasesMatch ==
    /\ xpc # "out" <=> pc = "inFlight"
    /\ rpc # "idle" => \/ pc = "drain" /\ resp # 0 /\ once = "none"
                       \/ Delivered
    /\ once \in {"stop", "inner"} => Draining \/ Delivered
    /\ xpc \in Wrapping => once = "none" /\ readErr = "nil"
    /\ xpc = "badGzip" => got \in ErrorClasses
    /\ xpc \in {"base"} \cup Wrapping /\ cfg.idle => child[Current] # "none"
    /\ \A c \in Closers : closer[c] # "idle" => Delivered

(* The attempts that can have a response body are those that have begun,   *)
(* and a response the loop still holds is one of an earlier attempt.       *)
BodiesOfAttempts ==
    /\ xpc \in Wrapping => raw[Current] = "open"
    /\ \A k \in Attempts : raw[k] # "none" =>
         \/ k <= attempt
         \/ k = Current /\ (pc \in {"decide", "returned"} \/ xpc \in Wrapping)
    /\ pc \notin {"decide", "returned"} => resp <= attempt
    /\ resp <= Current
    /\ \A k \in Attempts : respBody[k] # "none" => raw[k] # "none"
    /\ \A k \in Attempts : raw[k] = "none" => watchdog[<<k, "response">>] = "off"
    /\ \A k \in Attempts : respBody[k] # "none" =>
         k <= attempt \/ (k = Current /\ pc \in {"decide", "returned"})
    /\ \A k \in Attempts : child[k] # "none" =>
         \/ k <= attempt
         \/ k = Current
            /\ (pc \in {"decide", "returned"} \/ xpc \in {"base"} \cup Wrapping)
    /\ pc = "returned" /\ result = "nil" => resp # 0

(* Close has stopped the watchdog before it closes, and closed when done.  *)
CloseInOrder ==
    /\ resp # 0 /\ once \in {"inner", "done"}
         => watchdog[<<resp, "response">>] # "running"
    /\ resp # 0 /\ once = "done" => raw[resp] = "closed"
    /\ \A c \in Closers : closer[c] = "out" => once = "done"

(* Who has cancelled a context. *)
CancelsAreOwn ==
    \A k \in Attempts :
      /\ child[k] = "idle" => Fired(k)
      /\ child[k] = "parent" => ctxDone
      /\ child[k] = "failed" => \/ k <= attempt /\ k # resp
                                \/ k = Current /\ resp = 0 /\ xpc = "out"
                                   /\ pc \in {"decide", "returned"}

(* What the transport told a read that has ended, or a gzip header. *)
ReadsAreExplained ==
    /\ rpc = "ended" => got \in {"eof", "broken", "aborted", "closed"}
    /\ rpc = "ended" /\ got = "aborted" => CtxDone(resp)
    /\ xpc = "badGzip" /\ got \in {"canceled", "bodyIdle"}
         => ctxDone \/ Fired(Current)

ExInv ==
    /\ IInv
    /\ ExTypeOK
    /\ PhasesMatch
    /\ BodiesOfAttempts
    /\ CloseInOrder
    /\ CancelsAreOwn
    /\ ReadsAreExplained
    /\ OwnAlarms
    /\ NoConnectionLeak
    /\ WatchdogsStopped
    /\ AbortsAreNamed

-----------------------------------------------------------------------------
(* Refinement: every step is one of RetryTransport or is invisible to it.  *)

LEMMA StepRefines == PhasesMatch /\ [ExNext]_exVars => [Next]_vars
<1> SUFFICES ASSUME PhasesMatch, [ExNext]_exVars PROVE [Next]_vars
  OBVIOUS
<1>1. CASE RoundTripStep
  BY <1>1 DEF RoundTripStep, BeginAttempt, PreflightPasses, PreflightRefuses,
              Guard, GzipHeaderRead, AbandonResponse, Deliver, Next,
              PhasesMatch, Wrapping
<1>2. CASE BaseStep
  BY <1>2 DEF BaseStep, BaseFails, FailAlone, GzipHeaderFails, BaseResponds, Next
<1>3. CASE ReadStep
  BY <1>3 DEF ReadStep, ReadBegins, ReadData, ReadReturns, InnerEnds
<1>4. CASE CloseStep
  BY <1>4 DEF CloseStep, DrainCloses, CloseStops, CloseInner, CloseCall,
              CloseReturns
<1>5. CASE WatchdogStep
  BY <1>5 DEF WatchdogStep, FireWins, FireCancels, CloseUpload
<1>6. CASE LoopStep \/ Drained \/ ParentEnds
  BY <1>6 DEF LoopStep, Drained, ParentEnds, Next
<1>7. CASE Idle \/ UNCHANGED exVars
  BY <1>7 DEF Idle, exVars
<1> QED
  BY <1>1, <1>2, <1>3, <1>4, <1>5, <1>6, <1>7 DEF ExNext

-----------------------------------------------------------------------------
(* Types. *)

LEMMA PairsAreGuards ==
    /\ \A k \in Attempts : <<k, "request">> \in Guards /\ <<k, "response">> \in Guards
    /\ \A g \in Guards : g[1] \in Attempts /\ g[2] \in Sides /\ g = <<g[1], g[2]>>
BY DEF Guards, Sides

LEMMA CurrentIsAttempt == TypeOK => Current \in Attempts
BY MaxRetriesAssumption DEF TypeOK, Current, Attempts

LEMMA TypedUpdates ==
    ASSUME ExTypeOK,
           watchdog' \in [Guards -> WatchdogStates],
           child' \in [Attempts -> ChildStates],
           \A k \in Attempts : child[k] # "none" => child'[k] # "none",
           \A g \in Guards :
             watchdog'[g] # "off" => watchdog[g] # "off" \/ child'[g[1]] # "none"
    PROVE  \A g \in Guards : watchdog'[g] # "off" => child'[g[1]] # "none"
BY PairsAreGuards DEF ExTypeOK

LEMMA NextExTypeOK == ExInv /\ [ExNext]_exVars => ExTypeOK'
<1> SUFFICES ASSUME ExInv, [ExNext]_exVars PROVE ExTypeOK'
  OBVIOUS
<1> USE PairsAreGuards DEF ExInv, IInv, attemptVars, readVars, bodyVars
<1>0. Current \in Attempts /\ ExTypeOK
  BY CurrentIsAttempt
<1>1. CASE BeginAttempt \/ PreflightPasses \/ GzipHeaderRead
           \/ (\E e \in ErrorClasses : PreflightRefuses(e) \/ GzipHeaderFails(e))
           \/ (\E s \in {"retryable", "final"} : Deliver(s))
  BY <1>1 DEF ExTypeOK, BeginAttempt, PreflightPasses, GzipHeaderRead,
              PreflightRefuses, GzipHeaderFails, Deliver, NoCancel
<1>2. CASE Guard
  <2>1. NewChild \in ChildStates /\ child[Current] = "none"
    BY <1>0, <1>2, MaxRetriesAssumption
       DEF Guard, NewChild, ChildStates, BodiesOfAttempts, PhasesMatch, Current,
           Wrapping, TypeOK
  <2>2. /\ child' \in [Attempts -> ChildStates]
        /\ \A k \in Attempts : child[k] # "none" => child'[k] # "none"
    BY <1>0, <1>2, <2>1 DEF Guard, ExTypeOK
  <2>3. /\ watchdog' \in [Guards -> WatchdogStates]
        /\ \A g \in Guards :
             watchdog'[g] # "off" => watchdog[g] # "off" \/ child'[g[1]] # "none"
    <3> DEFINE g0 == <<Current, "request">>
               w  == IF cfg.idle /\ req.body # "none" THEN "running" ELSE "off"
    <3>1. watchdog' = [watchdog EXCEPT ![g0] = w] /\ child'[Current] = NewChild
      BY <1>0, <1>2 DEF Guard, ExTypeOK
    <3>2. g0 \in Guards /\ g0[1] = Current /\ w \in WatchdogStates
      BY <1>0 DEF WatchdogStates
    <3>3. w # "off" => NewChild # "none"
      BY DEF NewChild
    <3> HIDE DEF g0, w
    <3> QED
      BY <1>0, <3>1, <3>2, <3>3 DEF ExTypeOK
  <2>4. \A g \in Guards : watchdog'[g] # "off" => child'[g[1]] # "none"
    BY <1>0, <2>2, <2>3, TypedUpdates
  <2> QED
    BY <1>2, <2>2, <2>3, <2>4 DEF Guard, ExTypeOK
<1>3. CASE \/ AbandonResponse
           \/ \E e \in ErrorClasses : BaseFails(e)
           \/ \E g \in Guards : FireCancels(g)
           \/ ParentEnds
  <2>1. /\ child' \in [Attempts -> ChildStates]
        /\ \A k \in Attempts : child[k] # "none" => child'[k] # "none"
    BY <1>0, <1>3
       DEF AbandonResponse, BaseFails, FireCancels, ParentEnds, ParentReaches,
           ContextCancelled, Cancelled, ExTypeOK, ChildStates
  <2>2. /\ watchdog' \in [Guards -> WatchdogStates]
        /\ \A g \in Guards : watchdog'[g] # "off" => watchdog[g] # "off"
    BY <1>0, <1>3
       DEF AbandonResponse, BaseFails, FireCancels, ParentEnds, ExTypeOK,
           WatchdogStates
  <2>3. \A g \in Guards : watchdog'[g] # "off" => child'[g[1]] # "none"
    BY <1>0, <2>1, <2>2, TypedUpdates
  <2>4. raw' \in [Attempts -> {"none", "open", "closed"}]
    BY <1>0, <1>3
       DEF AbandonResponse, BaseFails, FireCancels, ParentEnds, CloseRaw, ExTypeOK
  <2> QED
    BY <1>0, <1>3, <2>1, <2>2, <2>3, <2>4
       DEF AbandonResponse, BaseFails, FireCancels, ParentEnds, ExTypeOK
<1>4. CASE \/ CloseStops
           \/ \E g \in Guards : FireWins(g)
           \/ \E k \in Attempts : CloseUpload(k)
  <2>1. /\ watchdog' \in [Guards -> WatchdogStates]
        /\ \A g \in Guards : watchdog'[g] # "off" => watchdog[g] # "off"
    BY <1>0, <1>4
       DEF CloseStops, FireWins, CloseUpload, WatchdogStopped, StopWatchdog,
           ExTypeOK, WatchdogStates
  <2>2. child' = child
    BY <1>4 DEF CloseStops, FireWins, CloseUpload
  <2>3. \A g \in Guards : watchdog'[g] # "off" => child'[g[1]] # "none"
    BY <1>0, <2>1, <2>2 DEF ExTypeOK
  <2> QED
    BY <1>0, <1>4, <2>1, <2>3 DEF CloseStops, FireWins, CloseUpload, ExTypeOK
<1>5. ASSUME NEW z \in BOOLEAN, BaseResponds(z)
      PROVE  ExTypeOK'
  <2>1. /\ watchdog' \in [Guards -> WatchdogStates]
        /\ \A g \in Guards : watchdog'[g] # "off"
             => watchdog[g] # "off" \/ (cfg.idle /\ g[1] = Current)
    <3> DEFINE g0 == <<Current, "response">>
    <3>1. watchdog' = [watchdog EXCEPT ![g0] = ResponseWatchdog]
      BY <1>5 DEF BaseResponds
    <3>2. g0 \in Guards /\ g0[1] = Current
      BY <1>0
    <3>3. /\ ResponseWatchdog \in WatchdogStates
          /\ ResponseWatchdog # "off" => cfg.idle
      BY DEF ResponseWatchdog, WatchdogStates
    <3> HIDE DEF g0
    <3> QED
      BY <1>0, <3>1, <3>2, <3>3 DEF ExTypeOK
  <2>2. cfg.idle => child[Current] # "none"
    BY <1>5 DEF BaseResponds, PhasesMatch
  <2> QED
    BY <1>0, <1>5, <2>1, <2>2, TypedUpdates DEF BaseResponds, ExTypeOK
<1>6. CASE ReadStep
  <2>1. \A k \in Attempts : Cause(k) \in ReadErrors
    BY DEF Cause, ReadErrors
  <2>2. rpc = "ended" => got \in ReadErrors /\ resp \in Attempts
    BY DEF ReadsAreExplained, ReadErrors, PhasesMatch, BodiesOfAttempts, TypeOK,
           Delivered
  <2>3. Draining \/ Delivered => resp \in Attempts
    BY DEF Draining, Delivered, BodiesOfAttempts, TypeOK
  <2>4. readErr' \in ReadErrors \cup {"nil"}
    BY <1>0, <1>6, <2>1, <2>2, <2>3
       DEF ReadStep, ReadBegins, ReadData, ReadReturns, InnerEnds, NamedError,
           ExTypeOK, ReadErrors
  <2> QED
    BY <1>0, <1>6, <2>4
       DEF ReadStep, ReadBegins, ReadData, ReadReturns, InnerEnds, ExTypeOK
<1>7. CASE DrainCloses \/ CloseInner
           \/ (\E c \in Closers : CloseCall(c) \/ CloseReturns(c))
  BY <1>0, <1>7 DEF DrainCloses, CloseInner, CloseCall, CloseReturns, ExTypeOK
<1>8. CASE LoopStep \/ Drained \/ Idle \/ UNCHANGED exVars
  BY <1>0, <1>8 DEF LoopStep, Drained, Idle, exVars, ExTypeOK
<1> QED
  BY <1>1, <1>2, <1>3, <1>4, <1>5, <1>6, <1>7, <1>8
     DEF ExNext, RoundTripStep, BaseStep, CloseStep, WatchdogStep

-----------------------------------------------------------------------------
(* Order: the phases, the bodies, the steps of Close. *)

(* Watchdogs only stop, fire and cancel the contexts that are alive. *)
LEMMA WatchdogEffects ==
    ASSUME ExTypeOK, WatchdogStep
    PROVE  /\ UNCHANGED <<vars, cfg, xpc, raw, bodyVars>>
           /\ \A k \in Attempts, s \in Sides :
                /\ watchdog'[<<k, s>>] = "running" => watchdog[<<k, s>>] = "running"
                /\ watchdog'[<<k, s>>] = "off" <=> watchdog[<<k, s>>] = "off"
                /\ watchdog[<<k, s>>] \in {"fired", "over"}
                     => watchdog'[<<k, s>>] \in {"fired", "over"}
           /\ \A k \in Attempts : \/ child'[k] = child[k]
                                  \/ /\ child[k] = "live" /\ child'[k] = "idle"
                                     /\ Fired(k)'
<1>1. ASSUME NEW g \in Guards, FireWins(g)
      PROVE  /\ child' = child
             /\ watchdog[g] = "running"
             /\ watchdog' = [watchdog EXCEPT ![g] = "fired"]
  BY <1>1 DEF FireWins
<1>2. ASSUME NEW g \in Guards, FireCancels(g)
      PROVE  /\ watchdog[g] = "fired"
             /\ watchdog' = [watchdog EXCEPT ![g] = "over"]
             /\ \A k \in Attempts : \/ child'[k] = child[k]
                                    \/ /\ child[k] = "live" /\ child'[k] = "idle"
                                       /\ Fired(k)'
  <2>1. /\ watchdog[g] = "fired" /\ watchdog' = [watchdog EXCEPT ![g] = "over"]
        /\ child' = [child EXCEPT ![g[1]] = IF @ = "live" THEN "idle" ELSE @]
    BY <1>2 DEF FireCancels, Cancelled
  <2>2. watchdog'[<<g[1], g[2]>>] = "over" /\ g[2] \in Sides
    BY <2>1, PairsAreGuards DEF ExTypeOK
  <2>3. \A k \in Attempts : k = g[1] => Fired(k)'
    BY <2>2 DEF Fired
  <2>4. \A k \in Attempts : \/ child'[k] = child[k]
                            \/ k = g[1] /\ child[k] = "live" /\ child'[k] = "idle"
    BY <2>1, PairsAreGuards DEF ExTypeOK
  <2> QED
    BY <2>1, <2>3, <2>4
<1>3. ASSUME NEW k \in Attempts, CloseUpload(k)
      PROVE  /\ child' = child
             /\ watchdog[<<k, "request">>] = "running"
             /\ watchdog' = [watchdog EXCEPT ![<<k, "request">>] = "stopped"]
  BY <1>3, PairsAreGuards DEF CloseUpload, StopWatchdog
<1>4. UNCHANGED <<vars, cfg, xpc, raw, bodyVars>>
  BY DEF WatchdogStep, FireWins, FireCancels, CloseUpload
<1>5. \A g \in Guards : /\ watchdog'[g] = "running" => watchdog[g] = "running"
                        /\ watchdog'[g] = "off" <=> watchdog[g] = "off"
                        /\ watchdog[g] \in {"fired", "over"}
                             => watchdog'[g] \in {"fired", "over"}
  <2>1. CASE \E g \in Guards : FireWins(g) \/ FireCancels(g)
    BY <2>1, <1>1, <1>2 DEF ExTypeOK
  <2>2. CASE \E k \in Attempts : CloseUpload(k)
    BY <2>2, <1>3, PairsAreGuards DEF ExTypeOK
  <2> QED
    BY <2>1, <2>2 DEF WatchdogStep
<1>6. \A k \in Attempts : \/ child'[k] = child[k]
                          \/ /\ child[k] = "live" /\ child'[k] = "idle"
                             /\ Fired(k)'
  BY <1>1, <1>2, <1>3 DEF WatchdogStep
<1> QED
  BY <1>4, <1>5, <1>6 DEF Guards

(* The loop's own invariant goes on holding: what happens in an attempt is *)
(* what RetryTransport allows it.                                          *)
LEMMA NextLoop == ExInv /\ [ExNext]_exVars => IInv'
BY StepRefines, NextIInv DEF ExInv

LEMMA NextPhases == ExInv /\ [ExNext]_exVars => PhasesMatch'
<1> SUFFICES ASSUME ExInv, [ExNext]_exVars PROVE PhasesMatch'
  OBVIOUS
<1>0. Current \in Attempts /\ TypeOK /\ ExTypeOK /\ ExTypeOK' /\ ResponseHeld
  BY CurrentIsAttempt, NextExTypeOK DEF ExInv, IInv
<1> USE <1>0, MaxRetriesAssumption, PairsAreGuards
    DEF ExInv, ExTypeOK, TypeOK, PhasesMatch, Current, Wrapping, Draining,
        Delivered, attemptVars, readVars, bodyVars, vars
<1>1. CASE RoundTripStep
  BY <1>1
     DEF RoundTripStep, BeginAttempt, Send, PreflightPasses, PreflightRefuses,
         AttemptFails, Guard, NewChild, GzipHeaderRead, AbandonResponse,
         CloseRaw, ContextCancelled, Cancelled, Deliver, NoCancel, AttemptResponds
<1>2. CASE BaseStep
  BY <1>2
     DEF BaseStep, BaseFails, FailAlone, ContextCancelled, Cancelled, AttemptFails,
         GzipHeaderFails, ContextErrors, BaseResponds, ResponseWatchdog
<1>3. CASE ReadStep
  BY <1>3
     DEF ReadStep, ReadBegins, ReadData, ReadReturns, NamedError, InnerEnds
<1>4. CASE CloseStep
  BY <1>4
     DEF CloseStep, DrainCloses, CloseStops, WatchdogStopped, StopWatchdog,
         CloseInner, CloseCall, CloseReturns, CloseComplete
<1>5. CASE WatchdogStep
  BY <1>5, WatchdogEffects DEF Sides
<1>6. CASE LoopStep
  BY <1>6
     DEF LoopStep, Prepare, Return, Stop, ResponseHeld, Retry, WaitCheck,
         WaitChecksContext, SleepInterrupted, SleepEnds, Rewind, RewindFails
<1>7. CASE Drained
  BY <1>7 DEF Drained, DrainAndClose, CloseResponse
<1>8. CASE ParentEnds
  BY <1>8 DEF ParentEnds, ContextEnds, ParentReaches
<1>9. CASE Idle \/ UNCHANGED exVars
  BY <1>9 DEF Idle, Returned, exVars, vars
<1> QED
  BY <1>1, <1>2, <1>3, <1>4, <1>5, <1>6, <1>7, <1>8, <1>9 DEF ExNext

(* Closing a body only turns that body from open to closed. *)
LEMMA RawCloses ==
    ASSUME ExTypeOK, resp \in Attempts, raw' = [raw EXCEPT ![resp] = "closed"]
    PROVE  \A k \in Attempts :
             /\ raw[k] # "none" => raw'[k] # "none"
             /\ raw'[k] # "none" => raw[k] # "none" \/ k = resp
BY DEF ExTypeOK

LEMMA NextBodies == ExInv /\ [ExNext]_exVars => BodiesOfAttempts'
<1> SUFFICES ASSUME ExInv, [ExNext]_exVars PROVE BodiesOfAttempts'
  OBVIOUS
<1>0. Current \in Attempts /\ TypeOK /\ ExTypeOK /\ ExTypeOK' /\ ResponseHeld
  BY CurrentIsAttempt, NextExTypeOK DEF ExInv, IInv
<1> USE <1>0, MaxRetriesAssumption, PairsAreGuards
    DEF ExInv, ExTypeOK, TypeOK, BodiesOfAttempts, PhasesMatch, Current,
        Wrapping, Draining, Delivered, attemptVars, readVars, bodyVars, vars
<1>1. CASE RoundTripStep
  <2>1. CASE BeginAttempt
    BY <2>1 DEF BeginAttempt, Send
  <2>2. CASE PreflightPasses
    BY <2>2 DEF PreflightPasses
  <2>3. CASE \E e \in ErrorClasses : PreflightRefuses(e)
    BY <2>3 DEF PreflightRefuses, AttemptFails
  <2>4. CASE Guard
    BY <2>4 DEF Guard, NewChild
  <2>5. CASE GzipHeaderRead
    BY <2>5 DEF GzipHeaderRead
  <2>6. CASE AbandonResponse
    BY <2>6 DEF AbandonResponse, CloseRaw, ContextCancelled, Cancelled, AttemptFails
  <2>7. CASE \E s \in {"retryable", "final"} : Deliver(s)
    BY <2>7 DEF Deliver, NoCancel, AttemptResponds
  <2> QED
    BY <1>1, <2>1, <2>2, <2>3, <2>4, <2>5, <2>6, <2>7 DEF RoundTripStep
<1>2. CASE BaseStep
  <2>1. CASE \E e \in ErrorClasses : BaseFails(e)
    BY <2>1 DEF BaseFails, FailAlone, ContextCancelled, Cancelled, AttemptFails
  <2>2. CASE \E e \in ErrorClasses : GzipHeaderFails(e)
    BY <2>2 DEF GzipHeaderFails, ContextErrors
  <2>3. CASE \E z \in BOOLEAN : BaseResponds(z)
    BY <2>3 DEF BaseResponds, ResponseWatchdog
  <2> QED
    BY <1>2, <2>1, <2>2, <2>3 DEF BaseStep
<1>3. CASE ReadStep
  BY <1>3
     DEF ReadStep, ReadBegins, ReadData, ReadReturns, NamedError, InnerEnds
<1>4. CASE CloseStep
  <2>1. CASE DrainCloses
    BY <2>1 DEF DrainCloses
  <2>2. CASE CloseStops
    BY <2>2 DEF CloseStops, WatchdogStopped, StopWatchdog
  <2>3. CASE CloseInner
    <3>1. /\ resp \in Attempts /\ raw' = [raw EXCEPT ![resp] = "closed"]
          /\ pc = "returned" \/ (pc = "drain" /\ resp <= attempt)
          /\ xpc \notin Wrapping
          /\ UNCHANGED <<vars, cfg, xpc, child, watchdog>>
      BY <2>3 DEF CloseInner
    <3>2. \A k \in Attempts :
            /\ raw[k] # "none" => raw'[k] # "none"
            /\ raw'[k] # "none" => raw[k] # "none" \/ k = resp
      BY <1>0, <3>1, RawCloses
    <3>3. \A k \in Attempts : raw'[k] # "none" =>
            \/ k <= attempt
            \/ k = Current /\ (pc \in {"decide", "returned"} \/ xpc \in Wrapping)
      BY <3>1, <3>2 DEF Attempts
    <3> QED
      BY <3>1, <3>2, <3>3
  <2>4. CASE \E c \in Closers : CloseCall(c) \/ CloseReturns(c)
    BY <2>4 DEF CloseCall, CloseReturns, CloseComplete
  <2> QED
    BY <1>4, <2>1, <2>2, <2>3, <2>4 DEF CloseStep
<1>5. CASE WatchdogStep
  <2>1. /\ UNCHANGED <<vars, cfg, xpc, raw, bodyVars>>
        /\ \A k \in Attempts :
             /\ watchdog'[<<k, "response">>] = "running"
                  => watchdog[<<k, "response">>] = "running"
             /\ watchdog'[<<k, "response">>] = "off"
                  <=> watchdog[<<k, "response">>] = "off"
             /\ child'[k] = "none" <=> child[k] = "none"
    BY <1>5, WatchdogEffects DEF Sides
  <2> QED
    BY <2>1
<1>6. CASE LoopStep
  <2>1. CASE Prepare
    BY <2>1, <1>6 DEF Prepare, Return, LoopStep
  <2>2. CASE Stop
    BY <2>2, <1>6 DEF Stop, Return, ResponseHeld, LoopStep
  <2>3. CASE Retry
    <3>1. /\ pc = "decide" /\ pc' = "drain" /\ attempt' = attempt + 1
          /\ xpc = "out" /\ UNCHANGED <<resp, respBody, attemptVars, bodyVars>>
      BY <1>6, <2>3 DEF Retry, LoopStep
    <3>2. /\ \A k \in Attempts : k <= attempt \/ k = Current => k <= attempt'
          /\ resp <= attempt'
      BY <3>1 DEF Attempts
    <3>3. resp <= Current'
      BY <3>1 DEF Attempts
    <3> QED
      BY <3>1, <3>2, <3>3
  <2>4. CASE WaitCheck \/ SleepInterrupted \/ SleepEnds
    BY <2>4, <1>6
       DEF WaitCheck, WaitChecksContext, SleepInterrupted, SleepEnds, Return,
           LoopStep
  <2>5. CASE Rewind \/ RewindFails
    BY <2>5, <1>6 DEF Rewind, RewindFails, Return, LoopStep
  <2> QED
    BY <1>6, <2>1, <2>2, <2>3, <2>4, <2>5 DEF LoopStep
<1>7. CASE Drained
  <2>1. \A k \in Attempts : respBody'[k] # "none" => raw[k] # "none"
    BY <1>7 DEF Drained, DrainAndClose, CloseResponse, CloseInOrder, Attempts
  <2> QED
    BY <1>7, <2>1 DEF Drained, DrainAndClose
<1>8. CASE ParentEnds
  BY <1>8 DEF ParentEnds, ContextEnds, ParentReaches
<1>9. CASE Idle \/ UNCHANGED exVars
  BY <1>9 DEF Idle, Returned, exVars, vars
<1> QED
  BY <1>1, <1>2, <1>3, <1>4, <1>5, <1>6, <1>7, <1>8, <1>9 DEF ExNext

LEMMA NextClosing == ExInv /\ [ExNext]_exVars => CloseInOrder'
<1> SUFFICES ASSUME ExInv, [ExNext]_exVars PROVE CloseInOrder'
  OBVIOUS
<1>0. Current \in Attempts /\ TypeOK /\ ExTypeOK /\ ExTypeOK' /\ ResponseHeld
  BY CurrentIsAttempt, NextExTypeOK DEF ExInv, IInv
<1> USE <1>0, MaxRetriesAssumption, PairsAreGuards
    DEF ExInv, ExTypeOK, TypeOK, CloseInOrder, PhasesMatch, BodiesOfAttempts,
        Current, Wrapping, Draining, Delivered, attemptVars, readVars,
        bodyVars, vars
<1>1. CASE RoundTripStep
  <2>1. CASE BeginAttempt
    BY <2>1 DEF BeginAttempt, Send
  <2>2. CASE PreflightPasses
    BY <2>2 DEF PreflightPasses
  <2>3. CASE \E e \in ErrorClasses : PreflightRefuses(e)
    BY <2>3 DEF PreflightRefuses, AttemptFails
  <2>4. CASE Guard
    BY <2>4 DEF Guard, NewChild
  <2>5. CASE GzipHeaderRead
    BY <2>5 DEF GzipHeaderRead
  <2>6. CASE AbandonResponse
    BY <2>6 DEF AbandonResponse, CloseRaw, ContextCancelled, Cancelled, AttemptFails
  <2>7. CASE \E s \in {"retryable", "final"} : Deliver(s)
    BY <2>7 DEF Deliver, NoCancel, AttemptResponds
  <2> QED
    BY <1>1, <2>1, <2>2, <2>3, <2>4, <2>5, <2>6, <2>7 DEF RoundTripStep
<1>2. CASE BaseStep
  <2>1. CASE \E e \in ErrorClasses : BaseFails(e)
    BY <2>1 DEF BaseFails, FailAlone, ContextCancelled, Cancelled, AttemptFails
  <2>2. CASE \E e \in ErrorClasses : GzipHeaderFails(e)
    BY <2>2 DEF GzipHeaderFails, ContextErrors
  <2>3. CASE \E z \in BOOLEAN : BaseResponds(z)
    BY <2>3 DEF BaseResponds, ResponseWatchdog
  <2> QED
    BY <1>2, <2>1, <2>2, <2>3 DEF BaseStep
<1>3. CASE ReadStep
  BY <1>3
     DEF ReadStep, ReadBegins, ReadData, ReadReturns, NamedError, InnerEnds
<1>4. CASE CloseStep
  <2>1. CASE DrainCloses
    BY <2>1 DEF DrainCloses
  <2>2. CASE CloseStops
    BY <2>2 DEF CloseStops, WatchdogStopped, StopWatchdog
  <2>3. CASE CloseInner
    BY <2>3 DEF CloseInner
  <2>4. CASE \E c \in Closers : CloseCall(c) \/ CloseReturns(c)
    BY <2>4 DEF CloseCall, CloseReturns, CloseComplete
  <2> QED
    BY <1>4, <2>1, <2>2, <2>3, <2>4 DEF CloseStep
<1>5. CASE WatchdogStep
  <2>1. /\ UNCHANGED <<vars, cfg, xpc, raw, bodyVars>>
        /\ \A k \in Attempts :
             /\ watchdog'[<<k, "response">>] = "running"
                  => watchdog[<<k, "response">>] = "running"
             /\ watchdog'[<<k, "response">>] = "off"
                  <=> watchdog[<<k, "response">>] = "off"
             /\ child'[k] = "none" <=> child[k] = "none"
    BY <1>5, WatchdogEffects DEF Sides
  <2> QED
    BY <2>1
<1>6. CASE LoopStep
  <2>1. CASE Prepare
    BY <2>1, <1>6 DEF Prepare, Return, LoopStep
  <2>2. CASE Stop
    BY <2>2, <1>6 DEF Stop, Return, ResponseHeld, LoopStep
  <2>3. CASE Retry
    BY <2>3, <1>6 DEF Retry, LoopStep
  <2>4. CASE WaitCheck \/ SleepInterrupted \/ SleepEnds
    BY <2>4, <1>6
       DEF WaitCheck, WaitChecksContext, SleepInterrupted, SleepEnds, Return,
           LoopStep
  <2>5. CASE Rewind \/ RewindFails
    BY <2>5, <1>6 DEF Rewind, RewindFails, Return, LoopStep
  <2> QED
    BY <1>6, <2>1, <2>2, <2>3, <2>4, <2>5 DEF LoopStep
<1>7. CASE Drained
  BY <1>7 DEF Drained, DrainAndClose, CloseResponse
<1>8. CASE ParentEnds
  BY <1>8 DEF ParentEnds, ContextEnds, ParentReaches
<1>9. CASE Idle \/ UNCHANGED exVars
  BY <1>9 DEF Idle, Returned, exVars, vars
<1> QED
  BY <1>1, <1>2, <1>3, <1>4, <1>5, <1>6, <1>7, <1>8, <1>9 DEF ExNext

LEMMA NextLeaks == ExInv /\ [ExNext]_exVars => NoConnectionLeak'
<1> SUFFICES ASSUME ExInv, [ExNext]_exVars PROVE NoConnectionLeak'
  OBVIOUS
<1>0. Current \in Attempts /\ TypeOK /\ ExTypeOK /\ ExTypeOK' /\ ResponseHeld
  BY CurrentIsAttempt, NextExTypeOK DEF ExInv, IInv
<1> USE <1>0, MaxRetriesAssumption, PairsAreGuards
    DEF ExInv, ExTypeOK, TypeOK, NoConnectionLeak, PhasesMatch,
        BodiesOfAttempts, CloseInOrder, Current, Wrapping, Draining,
        Delivered, attemptVars, readVars, bodyVars, vars
<1>1. CASE RoundTripStep
  BY <1>1
     DEF RoundTripStep, BeginAttempt, Send, PreflightPasses, PreflightRefuses,
         AttemptFails, Guard, NewChild, GzipHeaderRead, AbandonResponse,
         CloseRaw, ContextCancelled, Cancelled, Deliver, NoCancel, AttemptResponds
<1>2. CASE BaseStep
  BY <1>2
     DEF BaseStep, BaseFails, FailAlone, ContextCancelled, Cancelled, AttemptFails,
         GzipHeaderFails, ContextErrors, BaseResponds, ResponseWatchdog
<1>3. CASE ReadStep
  BY <1>3
     DEF ReadStep, ReadBegins, ReadData, ReadReturns, NamedError, InnerEnds
<1>4. CASE CloseStep
  BY <1>4
     DEF CloseStep, DrainCloses, CloseStops, WatchdogStopped, StopWatchdog,
         CloseInner, CloseCall, CloseReturns, CloseComplete
<1>5. CASE WatchdogStep
  BY <1>5, WatchdogEffects DEF Sides
<1>6. CASE LoopStep
  BY <1>6
     DEF LoopStep, Prepare, Return, Stop, ResponseHeld, Retry, WaitCheck,
         WaitChecksContext, SleepInterrupted, SleepEnds, Rewind, RewindFails
<1>7. CASE Drained
  <2>1. \A k \in Attempts : k = resp => raw[k] # "open"
    BY <1>7 DEF Drained, DrainAndClose, Attempts
  <2> QED
    BY <1>7, <2>1 DEF Drained, DrainAndClose, CloseResponse
<1>8. CASE ParentEnds
  BY <1>8 DEF ParentEnds, ContextEnds, ParentReaches
<1>9. CASE Idle \/ UNCHANGED exVars
  BY <1>9 DEF Idle, Returned, exVars, vars
<1> QED
  BY <1>1, <1>2, <1>3, <1>4, <1>5, <1>6, <1>7, <1>8, <1>9 DEF ExNext

LEMMA NextWatched == ExInv /\ [ExNext]_exVars => WatchdogsStopped'
<1> SUFFICES ASSUME ExInv, [ExNext]_exVars PROVE WatchdogsStopped'
  OBVIOUS
<1>0. Current \in Attempts /\ TypeOK /\ ExTypeOK /\ ExTypeOK' /\ ResponseHeld
  BY CurrentIsAttempt, NextExTypeOK DEF ExInv, IInv
<1> USE <1>0, MaxRetriesAssumption, PairsAreGuards
    DEF ExInv, ExTypeOK, TypeOK, WatchdogsStopped, PhasesMatch,
        BodiesOfAttempts, CloseInOrder, Current, Wrapping, Draining,
        Delivered, attemptVars, readVars, bodyVars, vars
<1>1. CASE RoundTripStep
  <2>1. CASE BeginAttempt
    BY <2>1 DEF BeginAttempt, Send
  <2>2. CASE PreflightPasses
    BY <2>2 DEF PreflightPasses
  <2>3. CASE \E e \in ErrorClasses : PreflightRefuses(e)
    BY <2>3 DEF PreflightRefuses, AttemptFails
  <2>4. CASE Guard
    BY <2>4 DEF Guard, NewChild
  <2>5. CASE GzipHeaderRead
    BY <2>5 DEF GzipHeaderRead
  <2>6. CASE AbandonResponse
    BY <2>6 DEF AbandonResponse, CloseRaw, ContextCancelled, Cancelled, AttemptFails
  <2>7. CASE \E s \in {"retryable", "final"} : Deliver(s)
    BY <2>7 DEF Deliver, NoCancel, AttemptResponds
  <2> QED
    BY <1>1, <2>1, <2>2, <2>3, <2>4, <2>5, <2>6, <2>7 DEF RoundTripStep
<1>2. CASE BaseStep
  <2>1. CASE \E e \in ErrorClasses : BaseFails(e)
    BY <2>1 DEF BaseFails, FailAlone, ContextCancelled, Cancelled, AttemptFails
  <2>2. CASE \E e \in ErrorClasses : GzipHeaderFails(e)
    BY <2>2 DEF GzipHeaderFails, ContextErrors
  <2>3. CASE \E z \in BOOLEAN : BaseResponds(z)
    BY <2>3 DEF BaseResponds, ResponseWatchdog
  <2> QED
    BY <1>2, <2>1, <2>2, <2>3 DEF BaseStep
<1>3. CASE ReadStep
  BY <1>3
     DEF ReadStep, ReadBegins, ReadData, ReadReturns, NamedError, InnerEnds
<1>4. CASE CloseStep
  <2>1. CASE DrainCloses
    BY <2>1 DEF DrainCloses
  <2>2. CASE CloseStops
    BY <2>2 DEF CloseStops, WatchdogStopped, StopWatchdog
  <2>3. CASE CloseInner
    BY <2>3 DEF CloseInner
  <2>4. CASE \E c \in Closers : CloseCall(c) \/ CloseReturns(c)
    BY <2>4 DEF CloseCall, CloseReturns, CloseComplete
  <2> QED
    BY <1>4, <2>1, <2>2, <2>3, <2>4 DEF CloseStep
<1>5. CASE WatchdogStep
  <2>1. /\ UNCHANGED <<vars, cfg, xpc, raw, bodyVars>>
        /\ \A k \in Attempts :
             /\ watchdog'[<<k, "response">>] = "running"
                  => watchdog[<<k, "response">>] = "running"
             /\ watchdog'[<<k, "response">>] = "off"
                  <=> watchdog[<<k, "response">>] = "off"
             /\ child'[k] = "none" <=> child[k] = "none"
    BY <1>5, WatchdogEffects DEF Sides
  <2> QED
    BY <2>1
<1>6. CASE LoopStep
  <2>1. CASE Prepare
    BY <2>1, <1>6 DEF Prepare, Return, LoopStep
  <2>2. CASE Stop
    BY <2>2, <1>6 DEF Stop, Return, ResponseHeld, LoopStep
  <2>3. CASE Retry
    BY <2>3, <1>6 DEF Retry, LoopStep
  <2>4. CASE WaitCheck \/ SleepInterrupted \/ SleepEnds
    BY <2>4, <1>6
       DEF WaitCheck, WaitChecksContext, SleepInterrupted, SleepEnds, Return,
           LoopStep
  <2>5. CASE Rewind \/ RewindFails
    BY <2>5, <1>6 DEF Rewind, RewindFails, Return, LoopStep
  <2> QED
    BY <1>6, <2>1, <2>2, <2>3, <2>4, <2>5 DEF LoopStep
<1>7. CASE Drained
  <2>1. \A k \in Attempts :
          k = resp => watchdog[<<k, "response">>] # "running"
    BY <1>7 DEF Drained, DrainAndClose, Attempts
  <2> QED
    BY <1>7, <2>1 DEF Drained, DrainAndClose, CloseResponse
<1>8. CASE ParentEnds
  BY <1>8 DEF ParentEnds, ContextEnds, ParentReaches
<1>9. CASE Idle \/ UNCHANGED exVars
  BY <1>9 DEF Idle, Returned, exVars, vars
<1> QED
  BY <1>1, <1>2, <1>3, <1>4, <1>5, <1>6, <1>7, <1>8, <1>9 DEF ExNext

-----------------------------------------------------------------------------
(* Causes: who has cancelled what, and what the reader is told. *)

(* Every step moves at most one watchdog, and moves it as the contract of  *)
(* watchdogs allows: those that are started had not been on before.        *)
LEMMA WatchdogMoves == ExInv /\ [ExNext]_exVars => [Contract!Next]_watchdog
<1> SUFFICES ASSUME ExInv, [ExNext]_exVars PROVE [Contract!Next]_watchdog
  OBVIOUS
<1>0. Current \in Attempts /\ ExTypeOK /\ PhasesMatch /\ BodiesOfAttempts /\ TypeOK
  BY CurrentIsAttempt DEF ExInv, IInv
<1>1. ASSUME NEW g \in Guards, NEW to,
             watchdog' = [watchdog EXCEPT ![g] = to],
             \/ watchdog[g] = to
             \/ watchdog[g] = "off" /\ to = "running"
             \/ watchdog[g] = "running" /\ to \in {"stopped", "fired"}
             \/ watchdog[g] = "fired" /\ to = "over"
      PROVE  [Contract!Next]_watchdog
  BY <1>0, <1>1
     DEF ExTypeOK, Contract!Next, Contract!Start, Contract!Stop, Contract!Fire,
         Contract!Cancel, Contract!Move
<1>2. CASE Guard
  <2> DEFINE to == IF cfg.idle /\ req.body # "none" THEN "running" ELSE "off"
  <2>1. child[Current] = "none"
    BY <1>0, <1>2, MaxRetriesAssumption
       DEF BodiesOfAttempts, PhasesMatch, Guard, Current, Wrapping, TypeOK
  <2>2. <<Current, "request">> \in Guards
    BY <1>0, PairsAreGuards
  <2>3. watchdog[<<Current, "request">>] = "off"
    BY <1>0, <2>1, <2>2, PairsAreGuards DEF ExTypeOK
  <2>4. watchdog' = [watchdog EXCEPT ![<<Current, "request">>] = to]
    BY <1>2 DEF Guard
  <2>5. to \in {"off", "running"}
    OBVIOUS
  <2> HIDE DEF to
  <2> QED
    BY <1>1, <2>2, <2>3, <2>4, <2>5
<1>3. ASSUME NEW z \in BOOLEAN, BaseResponds(z)
      PROVE  [Contract!Next]_watchdog
  <2>1. <<Current, "response">> \in Guards
    BY <1>0, PairsAreGuards
  <2>2. watchdog[<<Current, "response">>] = "off"
    BY <1>0, <1>3, MaxRetriesAssumption
       DEF BodiesOfAttempts, PhasesMatch, BaseResponds, Current, Wrapping, TypeOK
  <2>3. watchdog' = [watchdog EXCEPT ![<<Current, "response">>] = ResponseWatchdog]
    BY <1>3 DEF BaseResponds
  <2>4. ResponseWatchdog \in {"off", "running"}
    BY DEF ResponseWatchdog
  <2> QED
    BY <1>1, <2>1, <2>2, <2>3, <2>4
<1>4. ASSUME NEW g \in Guards, FireWins(g) \/ FireCancels(g)
      PROVE  [Contract!Next]_watchdog
  BY <1>1, <1>4 DEF FireWins, FireCancels
<1>5. ASSUME NEW g \in Guards, watchdog' = StopWatchdog(g)
      PROVE  [Contract!Next]_watchdog
  BY <1>1, <1>5 DEF StopWatchdog
<1>6. ASSUME NEW k \in Attempts, CloseUpload(k)
      PROVE  [Contract!Next]_watchdog
  BY <1>5, <1>6, PairsAreGuards DEF CloseUpload
<1>7. CASE CloseStops
  <2>1. resp \in Attempts
    BY <1>0, <1>7
       DEF CloseStops, PhasesMatch, Draining, Delivered, BodiesOfAttempts, TypeOK
  <2> QED
    BY <1>5, <1>7, <2>1, PairsAreGuards DEF CloseStops, WatchdogStopped
<1>8. CASE UNCHANGED watchdog
  BY <1>8
<1> QED
  BY <1>2, <1>3, <1>4, <1>6, <1>7, <1>8
     DEF ExNext, RoundTripStep, BeginAttempt, PreflightPasses, PreflightRefuses,
         GzipHeaderRead, AbandonResponse, Deliver, BaseStep, BaseFails,
         GzipHeaderFails, ReadStep, ReadBegins, ReadData, ReadReturns, InnerEnds,
         CloseStep, DrainCloses, CloseInner, CloseCall, CloseReturns,
         WatchdogStep, LoopStep, Drained, ParentEnds, Idle, exVars, attemptVars

(* So a watchdog that has fired is not started again. *)
LEMMA FiredStays ==
    ExInv /\ [ExNext]_exVars => \A k \in Attempts : Fired(k) => Fired(k)'
<1> SUFFICES ASSUME ExInv, [ExNext]_exVars
             PROVE  \A k \in Attempts : Fired(k) => Fired(k)'
  OBVIOUS
<1>1. \A g \in Guards :
        watchdog[g] \in {"fired", "over"} => watchdog'[g] \in {"fired", "over"}
  BY WatchdogMoves
     DEF ExInv, ExTypeOK, Contract!Next, Contract!Start, Contract!Stop,
         Contract!Fire, Contract!Cancel, Contract!Move
<1> QED
  BY <1>1, PairsAreGuards DEF Fired, Sides

(* While the transport works for an attempt, its context ends only with    *)
(* the caller's or by a watchdog of the attempt.                           *)
LEMMA DoneHasCause ==
    ASSUME ExInv, CtxDone(Current), xpc \in {"base", "gzip"}
    PROVE  ctxDone \/ Fired(Current)
<1>1. /\ Current \in Attempts /\ child[Current] \in ChildStates
      /\ Current > attempt
  BY CurrentIsAttempt DEF ExInv, IInv, ExTypeOK, TypeOK, Current
<1>2. xpc # "out" /\ attempt \in Nat
  BY DEF ExInv, IInv, TypeOK
<1>3. /\ child[Current] = "idle" => Fired(Current)
      /\ child[Current] = "parent" => ctxDone
      /\ child[Current] # "failed"
  BY <1>1, <1>2 DEF ExInv, CancelsAreOwn, Attempts
<1>4. IF child[Current] = "none" THEN ctxDone ELSE child[Current] # "live"
  BY DEF CtxDone
<1> QED
  BY <1>1, <1>3, <1>4 DEF ChildStates

LEMMA NextReads == ExInv /\ [ExNext]_exVars => ReadsAreExplained'
<1> SUFFICES ASSUME ExInv, [ExNext]_exVars PROVE ReadsAreExplained'
  OBVIOUS
<1>0. Current \in Attempts /\ TypeOK /\ ExTypeOK /\ ExTypeOK' /\ ResponseHeld
  BY CurrentIsAttempt, NextExTypeOK DEF ExInv, IInv
<1> USE <1>0, MaxRetriesAssumption, PairsAreGuards, FiredStays, TransportErrorsAssumption
    DEF ExInv, ExTypeOK, TypeOK, ReadsAreExplained, PhasesMatch,
        BodiesOfAttempts, CancelsAreOwn, CtxDone, Current, Wrapping, Draining,
        Delivered, attemptVars, readVars, bodyVars, vars
<1>1. CASE RoundTripStep
  BY <1>1
     DEF RoundTripStep, BeginAttempt, Send, PreflightPasses, PreflightRefuses,
         AttemptFails, Guard, NewChild, GzipHeaderRead, AbandonResponse,
         CloseRaw, ContextCancelled, Cancelled, Deliver, NoCancel, AttemptResponds
<1>2. CASE BaseStep
  <2>1. CASE \E e \in ErrorClasses : BaseFails(e)
    BY <2>1 DEF BaseFails, FailAlone, ContextCancelled, Cancelled, AttemptFails
  <2>2. ASSUME NEW e \in ErrorClasses, GzipHeaderFails(e)
        PROVE  ReadsAreExplained'
    <3>1. e \in {"canceled", "bodyIdle"} => ctxDone \/ Fired(Current)
      BY <2>2, DoneHasCause DEF GzipHeaderFails
    <3>2. /\ got' = e /\ UNCHANGED <<vars, child, watchdog, rpc>> /\ rpc = "idle"
      BY <2>2 DEF GzipHeaderFails
    <3>3. ctxDone' = ctxDone /\ (Fired(Current) => Fired(Current)')
      BY <3>2 DEF Fired
    <3> QED
      BY <3>1, <3>2, <3>3
  <2>3. CASE \E z \in BOOLEAN : BaseResponds(z)
    BY <2>3 DEF BaseResponds, ResponseWatchdog
  <2> QED
    BY <1>2, <2>1, <2>2, <2>3 DEF BaseStep
<1>3. CASE ReadStep
  BY <1>3
     DEF ReadStep, ReadBegins, ReadData, ReadReturns, NamedError, InnerEnds
<1>4. CASE CloseStep
  BY <1>4
     DEF CloseStep, DrainCloses, CloseStops, WatchdogStopped, StopWatchdog,
         CloseInner, CloseCall, CloseReturns, CloseComplete
<1>5. CASE WatchdogStep
  <2>1. rpc = "ended" => resp \in Attempts
    OBVIOUS
  <2> QED
    BY <1>5, <2>1, WatchdogEffects
<1>6. CASE LoopStep
  BY <1>6
     DEF LoopStep, Prepare, Return, Stop, ResponseHeld, Retry, WaitCheck,
         WaitChecksContext, SleepInterrupted, SleepEnds, Rewind, RewindFails
<1>7. CASE Drained
  BY <1>7 DEF Drained, DrainAndClose, CloseResponse
<1>8. CASE ParentEnds
  <2>1. rpc = "ended" => resp \in Attempts
    OBVIOUS
  <2> QED
    BY <1>8, <2>1 DEF ParentEnds, ContextEnds, ParentReaches
<1>9. CASE Idle \/ UNCHANGED exVars
  BY <1>9 DEF Idle, Returned, exVars, vars
<1> QED
  BY <1>1, <1>2, <1>3, <1>4, <1>5, <1>6, <1>7, <1>8, <1>9 DEF ExNext

LEMMA NextAborts == ExInv /\ [ExNext]_exVars => AbortsAreNamed'
<1> SUFFICES ASSUME ExInv, [ExNext]_exVars PROVE AbortsAreNamed'
  OBVIOUS
<1>0. Current \in Attempts /\ TypeOK /\ ExTypeOK /\ ExTypeOK' /\ ResponseHeld
  BY CurrentIsAttempt, NextExTypeOK DEF ExInv, IInv
<1> USE <1>0, MaxRetriesAssumption, PairsAreGuards
    DEF ExInv, ExTypeOK, TypeOK, AbortsAreNamed, ReadsAreExplained, Cause,
        Current, Wrapping, Draining, Delivered, attemptVars, readVars,
        bodyVars, vars
<1>1. CASE RoundTripStep
  BY <1>1
     DEF RoundTripStep, BeginAttempt, Send, PreflightPasses, PreflightRefuses,
         AttemptFails, Guard, NewChild, GzipHeaderRead, AbandonResponse,
         CloseRaw, ContextCancelled, Cancelled, Deliver, NoCancel, AttemptResponds
<1>2. CASE BaseStep
  BY <1>2
     DEF BaseStep, BaseFails, FailAlone, ContextCancelled, Cancelled, AttemptFails,
         GzipHeaderFails, ContextErrors, BaseResponds, ResponseWatchdog
<1>3. CASE ReadStep
  BY <1>3
     DEF ReadStep, ReadBegins, ReadData, ReadReturns, NamedError, InnerEnds
<1>4. CASE CloseStep
  BY <1>4
     DEF CloseStep, DrainCloses, CloseStops, WatchdogStopped, StopWatchdog,
         CloseInner, CloseCall, CloseReturns, CloseComplete
<1>5. CASE WatchdogStep
  BY <1>5, WatchdogEffects DEF Sides
<1>6. CASE LoopStep
  BY <1>6
     DEF LoopStep, Prepare, Return, Stop, ResponseHeld, Retry, WaitCheck,
         WaitChecksContext, SleepInterrupted, SleepEnds, Rewind, RewindFails
<1>7. CASE Drained
  BY <1>7 DEF Drained, DrainAndClose, CloseResponse
<1>8. CASE ParentEnds
  BY <1>8 DEF ParentEnds, ContextEnds, ParentReaches
<1>9. CASE Idle \/ UNCHANGED exVars
  BY <1>9 DEF Idle, Returned, exVars, vars
<1> QED
  BY <1>1, <1>2, <1>3, <1>4, <1>5, <1>6, <1>7, <1>8, <1>9 DEF ExNext

LEMMA NextCancels == ExInv /\ [ExNext]_exVars => CancelsAreOwn'
<1> SUFFICES ASSUME ExInv, [ExNext]_exVars PROVE CancelsAreOwn'
  OBVIOUS
<1>0. Current \in Attempts /\ TypeOK /\ ExTypeOK /\ ExTypeOK' /\ ResponseHeld
  BY CurrentIsAttempt, NextExTypeOK DEF ExInv, IInv
<1> USE <1>0, MaxRetriesAssumption, PairsAreGuards, FiredStays
    DEF ExInv, ExTypeOK, TypeOK, CancelsAreOwn, Attempts, PhasesMatch,
        BodiesOfAttempts, Current, Wrapping, Draining, Delivered, attemptVars,
        readVars, bodyVars, vars
<1>1. CASE RoundTripStep
  <2>1. CASE BeginAttempt
    BY <2>1 DEF BeginAttempt, Send
  <2>2. CASE PreflightPasses
    BY <2>2 DEF PreflightPasses
  <2>3. CASE \E e \in ErrorClasses : PreflightRefuses(e)
    BY <2>3 DEF PreflightRefuses, AttemptFails
  <2>4. CASE Guard
    BY <2>4 DEF Guard, NewChild
  <2>5. CASE GzipHeaderRead
    BY <2>5 DEF GzipHeaderRead
  <2>6. CASE AbandonResponse
    BY <2>6 DEF AbandonResponse, CloseRaw, ContextCancelled, Cancelled, AttemptFails
  <2>7. CASE \E s \in {"retryable", "final"} : Deliver(s)
    BY <2>7 DEF Deliver, NoCancel, AttemptResponds
  <2> QED
    BY <1>1, <2>1, <2>2, <2>3, <2>4, <2>5, <2>6, <2>7 DEF RoundTripStep
<1>2. CASE BaseStep
  <2>1. CASE \E e \in ErrorClasses : BaseFails(e)
    BY <2>1 DEF BaseFails, FailAlone, ContextCancelled, Cancelled, AttemptFails
  <2>2. CASE \E e \in ErrorClasses : GzipHeaderFails(e)
    BY <2>2 DEF GzipHeaderFails, ContextErrors
  <2>3. CASE \E z \in BOOLEAN : BaseResponds(z)
    BY <2>3 DEF BaseResponds, ResponseWatchdog
  <2> QED
    BY <1>2, <2>1, <2>2, <2>3 DEF BaseStep
<1>3. CASE ReadStep
  BY <1>3
     DEF ReadStep, ReadBegins, ReadData, ReadReturns, NamedError, InnerEnds
<1>4. CASE CloseStep
  <2>1. CASE DrainCloses
    BY <2>1 DEF DrainCloses
  <2>2. CASE CloseStops
    BY <2>2 DEF CloseStops, WatchdogStopped, StopWatchdog
  <2>3. CASE CloseInner
    BY <2>3 DEF CloseInner
  <2>4. CASE \E c \in Closers : CloseCall(c) \/ CloseReturns(c)
    BY <2>4 DEF CloseCall, CloseReturns, CloseComplete
  <2> QED
    BY <1>4, <2>1, <2>2, <2>3, <2>4 DEF CloseStep
<1>5. CASE WatchdogStep
  BY <1>5, WatchdogEffects DEF Sides
<1>6. CASE LoopStep
  <2>1. CASE Prepare
    BY <2>1, <1>6 DEF Prepare, Return, LoopStep
  <2>2. CASE Stop
    BY <2>2, <1>6 DEF Stop, Return, ResponseHeld, LoopStep
  <2>3. CASE Retry
    BY <2>3, <1>6 DEF Retry, LoopStep
  <2>4. CASE WaitCheck \/ SleepInterrupted \/ SleepEnds
    BY <2>4, <1>6
       DEF WaitCheck, WaitChecksContext, SleepInterrupted, SleepEnds, Return,
           LoopStep
  <2>5. CASE Rewind \/ RewindFails
    BY <2>5, <1>6 DEF Rewind, RewindFails, Return, LoopStep
  <2> QED
    BY <1>6, <2>1, <2>2, <2>3, <2>4, <2>5 DEF LoopStep
<1>7. CASE Drained
  BY <1>7 DEF Drained, DrainAndClose, CloseResponse
<1>8. CASE ParentEnds
  BY <1>8 DEF ParentEnds, ContextEnds, ParentReaches
<1>9. CASE Idle \/ UNCHANGED exVars
  BY <1>9 DEF Idle, Returned, exVars, vars
<1> QED
  BY <1>1, <1>2, <1>3, <1>4, <1>5, <1>6, <1>7, <1>8, <1>9 DEF ExNext

LEMMA NextAlarms == ExInv /\ [ExNext]_exVars => OwnAlarms'
<1> SUFFICES ASSUME ExInv, [ExNext]_exVars PROVE OwnAlarms'
  OBVIOUS
<1>0. Current \in Attempts /\ TypeOK /\ ExTypeOK /\ ExTypeOK' /\ ResponseHeld
  BY CurrentIsAttempt, NextExTypeOK DEF ExInv, IInv
<1> USE <1>0, MaxRetriesAssumption, PairsAreGuards, FiredStays, TransportErrorsAssumption
    DEF ExInv, ExTypeOK, TypeOK, OwnAlarms, Attempts, ReadsAreExplained,
        PhasesMatch, BodiesOfAttempts, CancelsAreOwn, CtxDone, Cause,
        ContextErrors, Current, Wrapping, Draining, Delivered, attemptVars,
        readVars, bodyVars, vars
<1>1. CASE RoundTripStep
  <2>1. CASE BeginAttempt
    BY <2>1 DEF BeginAttempt, Send
  <2>2. CASE PreflightPasses
    BY <2>2 DEF PreflightPasses
  <2>3. CASE \E e \in ErrorClasses : PreflightRefuses(e)
    BY <2>3 DEF PreflightRefuses, AttemptFails
  <2>4. CASE Guard
    BY <2>4 DEF Guard, NewChild
  <2>5. CASE GzipHeaderRead
    BY <2>5 DEF GzipHeaderRead
  <2>6. CASE AbandonResponse
    BY <2>6 DEF AbandonResponse, CloseRaw, ContextCancelled, Cancelled, AttemptFails
  <2>7. CASE \E s \in {"retryable", "final"} : Deliver(s)
    BY <2>7 DEF Deliver, NoCancel, AttemptResponds
  <2> QED
    BY <1>1, <2>1, <2>2, <2>3, <2>4, <2>5, <2>6, <2>7 DEF RoundTripStep
<1>2. CASE BaseStep
  <2>1. CASE \E e \in ErrorClasses : BaseFails(e)
    <3>1. PICK e \in ErrorClasses : BaseFails(e)
      BY <2>1
    <3>2. e \in {"canceled", "bodyIdle"} => ctxDone \/ Fired(Current)
      BY <3>1, DoneHasCause DEF BaseFails
    <3> QED
      BY <3>1, <3>2 DEF BaseFails, FailAlone, AttemptFails
  <2>2. CASE \E e \in ErrorClasses : GzipHeaderFails(e)
    BY <2>2 DEF GzipHeaderFails, ContextErrors
  <2>3. CASE \E z \in BOOLEAN : BaseResponds(z)
    BY <2>3 DEF BaseResponds, ResponseWatchdog
  <2> QED
    BY <1>2, <2>1, <2>2, <2>3 DEF BaseStep
<1>3. CASE ReadStep
  BY <1>3
     DEF ReadStep, ReadBegins, ReadData, ReadReturns, NamedError, InnerEnds
<1>4. CASE CloseStep
  <2>1. CASE DrainCloses
    BY <2>1 DEF DrainCloses
  <2>2. CASE CloseStops
    BY <2>2 DEF CloseStops, WatchdogStopped, StopWatchdog
  <2>3. CASE CloseInner
    BY <2>3 DEF CloseInner
  <2>4. CASE \E c \in Closers : CloseCall(c) \/ CloseReturns(c)
    BY <2>4 DEF CloseCall, CloseReturns, CloseComplete
  <2> QED
    BY <1>4, <2>1, <2>2, <2>3, <2>4 DEF CloseStep
<1>5. CASE WatchdogStep
  BY <1>5, WatchdogEffects DEF Sides
<1>6. CASE LoopStep
  <2>1. CASE Prepare
    BY <2>1, <1>6 DEF Prepare, Return, LoopStep
  <2>2. CASE Stop
    BY <2>2, <1>6 DEF Stop, Return, ResponseHeld, LoopStep
  <2>3. CASE Retry
    BY <2>3, <1>6 DEF Retry, LoopStep
  <2>4. CASE WaitCheck \/ SleepInterrupted \/ SleepEnds
    BY <2>4, <1>6
       DEF WaitCheck, WaitChecksContext, SleepInterrupted, SleepEnds, Return,
           LoopStep
  <2>5. CASE Rewind \/ RewindFails
    BY <2>5, <1>6 DEF Rewind, RewindFails, Return, LoopStep
  <2> QED
    BY <1>6, <2>1, <2>2, <2>3, <2>4, <2>5 DEF LoopStep
<1>7. CASE Drained
  BY <1>7 DEF Drained, DrainAndClose, CloseResponse
<1>8. CASE ParentEnds
  BY <1>8 DEF ParentEnds, ContextEnds, ParentReaches
<1>9. CASE Idle \/ UNCHANGED exVars
  BY <1>9 DEF Idle, Returned, exVars, vars
<1> QED
  BY <1>1, <1>2, <1>3, <1>4, <1>5, <1>6, <1>7, <1>8, <1>9 DEF ExNext

-----------------------------------------------------------------------------
(* Theorems. *)

LEMMA ExInitInv == ExInit => ExInv
<1> SUFFICES ASSUME ExInit PROVE ExInv
  OBVIOUS
<1>1. IInv
  BY InitIInv DEF ExInit
<1>2. ExTypeOK
  BY DEF ExInit, ExTypeOK, ChildStates, WatchdogStates
<1>3. PhasesMatch /\ BodiesOfAttempts
  BY DEF ExInit, Init, PhasesMatch, BodiesOfAttempts, Wrapping, Delivered,
         Draining, Guards, Sides, Current, Attempts
<1>4. CloseInOrder /\ CancelsAreOwn /\ ReadsAreExplained /\ OwnAlarms
  BY DEF ExInit, Init, CloseInOrder, CancelsAreOwn, ReadsAreExplained, OwnAlarms
<1>5. NoConnectionLeak /\ WatchdogsStopped /\ AbortsAreNamed
  BY DEF ExInit, Init, NoConnectionLeak, WatchdogsStopped, AbortsAreNamed,
         Guards, Sides
<1> QED
  BY <1>1, <1>2, <1>3, <1>4, <1>5 DEF ExInv

LEMMA ExInvariance == ExSafety => []ExInv
<1>1. ExInv /\ [ExNext]_exVars => ExInv'
  BY NextLoop, NextExTypeOK, NextPhases, NextBodies, NextClosing, NextCancels,
     NextReads, NextAlarms, NextLeaks, NextWatched, NextAborts DEF ExInv
<1> QED
  BY ExInitInv, <1>1, PTL DEF ExSafety

(* The types of Exchange, and that a watchdog has a context to cancel.     *)
THEOREM ExTypeCorrect == ExSafety => []ExTypeOK
<1>1. ExInv => ExTypeOK
  BY DEF ExInv
<1> QED
  BY ExInvariance, <1>1, PTL

(* Attempts with contexts, watchdogs and guarded bodies of their own are   *)
(* attempts as the retry loop knows them: what RetryTransportProofs shows  *)
(* of the loop holds of the loop over safetyTransport.                     *)
THEOREM ExchangeRefinesRetry == ExSafety => ImplementsRetry
<1>1. ExInit => Init
  BY DEF ExInit
<1>2. ExInv /\ [ExNext]_exVars => [Next]_vars
  BY StepRefines DEF ExInv
<1> QED
  BY ExInvariance, <1>1, <1>2, PTL DEF ExSafety, ImplementsRetry, Spec

(* The watchdogs of all attempts keep the contract that one idleWatchdog   *)
(* keeps (IdleWatchdogProofs): what Exchange assumes of its watchdogs is   *)
(* what the code of idleWatchdog does.                                     *)
THEOREM WatchdogsKeepContract == ExSafety => ImplementsWatchdogs
<1>1. ExInit => Contract!Init
  BY DEF ExInit, Contract!Init
<1>2. ExInv /\ [ExNext]_exVars => [Contract!Next]_watchdog
  BY WatchdogMoves
<1> QED
  BY ExInvariance, <1>1, <1>2, PTL DEF ExSafety, ImplementsWatchdogs, Contract!Spec

(* An attempt or a read of it is cancelled only by its own watchdogs while *)
(* the caller's context lives.                                             *)
THEOREM AlarmsAreOwn == ExSafety => []OwnAlarms
<1>1. ExInv => OwnAlarms
  BY DEF ExInv
<1> QED
  BY ExInvariance, <1>1, PTL

(* Every response body of the transport is closed, or still in the hands   *)
(* of safetyTransport or of the retry loop.                                *)
THEOREM ConnectionsAreKept == ExSafety => []NoConnectionLeak
<1>1. ExInv => NoConnectionLeak
  BY DEF ExInv
<1> QED
  BY ExInvariance, <1>1, PTL

(* No watchdog of a delivered response outlives the response's body.       *)
THEOREM WatchdogsEndWithBodies == ExSafety => []WatchdogsStopped
<1>1. ExInv => WatchdogsStopped
  BY DEF ExInv
<1> QED
  BY ExInvariance, <1>1, PTL

(* Nothing that returned the response cancels its context.                 *)
THEOREM ReturnedIsAlive == ExSafety => []ReturnedResponseAlive
<1>1. ExInv => ReturnedResponseAlive
  BY DEF ExInv, IInv, TypeOK, BodiesOfAttempts, CancelsAreOwn, Delivered,
         ReturnedResponseAlive
<1> QED
  BY ExInvariance, <1>1, PTL

(* A read that fails after the context has ended names the cause.          *)
THEOREM AbortsNameTheirCause == ExSafety => []AbortsAreNamed
<1>1. ExInv => AbortsAreNamed
  BY DEF ExInv
<1> QED
  BY ExInvariance, <1>1, PTL

(* Every Close that has returned, whichever came first, has closed.        *)
THEOREM CloseCloses == ExSafety => []ClosedMeansClosed
<1>1. ExInv => ClosedMeansClosed
  BY DEF ExInv, PhasesMatch, BodiesOfAttempts, CloseInOrder, Delivered,
         ClosedMeansClosed
<1> QED
  BY ExInvariance, <1>1, PTL

-----------------------------------------------------------------------------
(* The contexts of the attempts. *)

LEMMA NextContexts ==
    ExInv /\ FailedContextsEnd /\ [ExNext]_exVars => FailedContextsEnd'
<1> SUFFICES ASSUME ExInv, FailedContextsEnd, [ExNext]_exVars
             PROVE  FailedContextsEnd'
  OBVIOUS
<1>0. Current \in Attempts /\ TypeOK /\ ExTypeOK
  BY CurrentIsAttempt DEF ExInv, IInv
<1> USE <1>0, MaxRetriesAssumption
    DEF ExInv, ExTypeOK, TypeOK, FailedContextsEnd, PhasesMatch, Current,
        attemptVars, readVars, bodyVars, vars
<1>1. CASE RoundTripStep
  <2>1. CASE AbandonResponse
    BY <2>1 DEF AbandonResponse, ContextCancelled, Cancelled, AttemptFails
  <2>2. CASE \E e \in ErrorClasses : PreflightRefuses(e)
    BY <2>2 DEF PreflightRefuses, AttemptFails, BodiesOfAttempts, Wrapping
  <2>3. CASE \E s \in {"retryable", "final"} : Deliver(s)
    BY <2>3 DEF Deliver, NoCancel, AttemptResponds
  <2>4. CASE BeginAttempt \/ PreflightPasses \/ Guard \/ GzipHeaderRead
    BY <2>4 DEF BeginAttempt, Send, PreflightPasses, Guard, NewChild,
                GzipHeaderRead
  <2> QED
    BY <1>1, <2>1, <2>2, <2>3, <2>4 DEF RoundTripStep
<1>2. CASE BaseStep
  BY <1>2
     DEF BaseStep, BaseFails, FailAlone, ContextCancelled, Cancelled, AttemptFails,
         GzipHeaderFails, BaseResponds
<1>3. CASE ReadStep
  BY <1>3 DEF ReadStep, ReadBegins, ReadData, ReadReturns, InnerEnds
<1>4. CASE CloseStep
  BY <1>4 DEF CloseStep, DrainCloses, CloseStops, CloseInner, CloseCall,
              CloseReturns
<1>5. CASE WatchdogStep
  <2>1. CASE \E g \in Guards : FireCancels(g)
    BY <2>1, PairsAreGuards DEF FireCancels, Cancelled
  <2>2. CASE (\E g \in Guards : FireWins(g)) \/ (\E k \in Attempts : CloseUpload(k))
    BY <2>2 DEF FireWins, CloseUpload
  <2> QED
    BY <1>5, <2>1, <2>2 DEF WatchdogStep
<1>6. CASE LoopStep
  BY <1>6
     DEF LoopStep, Prepare, Return, Stop, Retry, WaitCheck, WaitChecksContext,
         SleepInterrupted, SleepEnds, Rewind, RewindFails
<1>7. CASE Drained
  BY <1>7 DEF Drained, DrainAndClose, CloseResponse
<1>8. CASE ParentEnds
  BY <1>8 DEF ParentEnds, ContextEnds, ParentReaches
<1>9. CASE Idle \/ UNCHANGED exVars
  BY <1>9 DEF Idle, Returned, exVars
<1> QED
  BY <1>1, <1>2, <1>3, <1>4, <1>5, <1>6, <1>7, <1>8, <1>9 DEF ExNext

(* Every error path of safetyTransport.RoundTrip has ended the context it  *)
(* made: one that is alive belongs to the attempt under way, or to one     *)
(* that has returned a response (src/safety.go, cancel(nil)).              *)
THEOREM ContextsOfFailuresEnd == ExSafety => []FailedContextsEnd
<1>1. ExInit => FailedContextsEnd
  BY DEF ExInit, FailedContextsEnd
<1> QED
  BY ExInvariance, <1>1, NextContexts, PTL DEF ExSafety

-----------------------------------------------------------------------------
(* What follows for the whole: the loop over guarded attempts. *)

(* The retry loop's promises are those of the composed system: no response *)
(* is lost, a response returned without an error can be read, every        *)
(* attempt sends the whole body, a context that has ended stops the loop,  *)
(* and however attempts, reads, closes and watchdogs interleave the loop   *)
(* takes only so many steps.                                               *)
THEOREM LoopPromisesKept ==
    ExSafety =>
      /\ [](NoResponseLeak /\ UsableResponse /\ WholeBody /\ AtMostOneLateSend)
      /\ [](CallFuel \in 0 .. 10 * MaxRetries + 9) /\ [][CallFuel' < CallFuel]_vars
BY ExchangeRefinesRetry, NothingLeaks, SuccessIsReadable, BodiesAreWhole,
   CancelStopsLoop, CallsAreFinite, PTL DEF ImplementsRetry

(* When the call has returned, what may still be open, and what may still  *)
(* be watched, is the one response it has returned without an error (and   *)
(* the watchdog of an attempt that got no further than a bad gzip header). *)
NothingLeftBehind ==
    pc = "returned" =>
      \A k \in Attempts :
        /\ raw[k] = "open" => k = resp /\ result = "nil"
        /\ watchdog[<<k, "response">>] = "running" /\ respBody[k] # "none"
             => k = resp /\ result = "nil"

(* Neither a connection nor a watchdog of an earlier attempt survives the  *)
(* call, however many attempts there were and however each of them ended.  *)
THEOREM CallsCleanUp == ExSafety => []NothingLeftBehind
<1>1. NoResponseLeak /\ NoConnectionLeak /\ WatchdogsStopped => NothingLeftBehind
  BY DEF NoResponseLeak, NoConnectionLeak, WatchdogsStopped, NothingLeftBehind
<1> QED
  BY <1>1, LoopPromisesKept, ConnectionsAreKept, WatchdogsEndWithBodies, PTL

(* "Stop permanently disables the watchdog" (src/guard.go): once closing a *)
(* body has stopped a watchdog it stays stopped, so that closing one       *)
(* attempt's body late cannot cancel anything afterwards.                  *)
THEOREM StoppedForGood ==
    ASSUME NEW g \in Guards
    PROVE  ExSafety => [](watchdog[g] = "stopped" => [](watchdog[g] = "stopped"))
<1>1. ExInv /\ [ExNext]_exVars
        => (watchdog[g] = "stopped" => (watchdog[g] = "stopped")')
  BY WatchdogMoves
     DEF ExInv, ExTypeOK, Contract!Next, Contract!Start, Contract!Stop,
         Contract!Fire, Contract!Cancel, Contract!Move
<1> QED
  BY ExInvariance, <1>1, PTL DEF ExSafety
-----------------------------------------------------------------------------
(* Why a stalled read ends: the part of StallsEnd that is about states.    *)

(* What each watchdog that no longer runs has done: one that is over has   *)
(* ended its attempt's context, and one over a response that was stopped   *)
(* was stopped by the Close of that response, which closes the body next.  *)
(* With an idle timeout no response goes without a watchdog.               *)
WatchdogsAccounted ==
    /\ \A g \in Guards : watchdog[g] = "over" => child[g[1]] # "live"
    /\ \A k \in Attempts :
         cfg.idle /\ raw[k] # "none" => watchdog[<<k, "response">>] # "off"
    /\ \A k \in Attempts :
         watchdog[<<k, "response">>] = "stopped"
           => raw[k] = "closed" \/ (k = resp /\ once = "inner")
    /\ Draining \/ Delivered => raw[resp] # "none"

(* The Close that stops the watchdog of the response is the one that will  *)
(* close the body.                                                         *)
LEMMA StopIsAccounted ==
    ASSUME ExTypeOK, WatchdogsAccounted, resp \in Attempts, once # "inner",
           once' = "inner", UNCHANGED <<resp, cfg, child, raw>>,
           watchdog' = StopWatchdog(<<resp, "response">>)
    PROVE  /\ \A g \in Guards : watchdog'[g] = "over" => child'[g[1]] # "live"
           /\ \A k \in Attempts :
                /\ cfg'.idle /\ raw'[k] # "none"
                     => watchdog'[<<k, "response">>] # "off"
                /\ watchdog'[<<k, "response">>] = "stopped"
                     => raw'[k] = "closed" \/ (k = resp' /\ once' = "inner")
<1>1. \A g \in Guards : \/ watchdog'[g] = watchdog[g]
                        \/ g = <<resp, "response">> /\ watchdog'[g] = "stopped"
  BY DEF StopWatchdog, ExTypeOK
<1>2. \A g \in Guards : watchdog'[g] = "over" => child'[g[1]] # "live"
  BY <1>1 DEF WatchdogsAccounted
<1>3. \A k \in Attempts :
        \/ watchdog'[<<k, "response">>] = watchdog[<<k, "response">>]
        \/ k = resp /\ watchdog'[<<k, "response">>] = "stopped"
  BY <1>1, PairsAreGuards
<1> QED
  BY <1>2, <1>3 DEF WatchdogsAccounted

LEMMA NextAccounted ==
    ExInv /\ WatchdogsAccounted /\ [ExNext]_exVars => WatchdogsAccounted'
<1> SUFFICES ASSUME ExInv, WatchdogsAccounted, [ExNext]_exVars
             PROVE  WatchdogsAccounted'
  OBVIOUS
<1>0. Current \in Attempts /\ TypeOK /\ ExTypeOK /\ ExTypeOK' /\ ResponseHeld
  BY CurrentIsAttempt, NextExTypeOK DEF ExInv, IInv
<1> USE <1>0, MaxRetriesAssumption, PairsAreGuards
    DEF ExInv, ExTypeOK, TypeOK, WatchdogsAccounted, PhasesMatch,
        BodiesOfAttempts, CloseInOrder, Current, Wrapping, Draining,
        Delivered, attemptVars, readVars, bodyVars, vars
<1>1. CASE RoundTripStep
  <2>1. CASE BeginAttempt
    BY <2>1 DEF BeginAttempt, Send
  <2>2. CASE PreflightPasses
    BY <2>2 DEF PreflightPasses
  <2>3. CASE \E e \in ErrorClasses : PreflightRefuses(e)
    BY <2>3 DEF PreflightRefuses, AttemptFails
  <2>4. CASE Guard
    BY <2>4 DEF Guard, NewChild
  <2>5. CASE GzipHeaderRead
    BY <2>5 DEF GzipHeaderRead
  <2>6. CASE AbandonResponse
    BY <2>6 DEF AbandonResponse, CloseRaw, ContextCancelled, Cancelled, AttemptFails
  <2>7. CASE \E s \in {"retryable", "final"} : Deliver(s)
    BY <2>7 DEF Deliver, NoCancel, AttemptResponds
  <2> QED
    BY <1>1, <2>1, <2>2, <2>3, <2>4, <2>5, <2>6, <2>7 DEF RoundTripStep
<1>2. CASE BaseStep
  <2>1. CASE \E e \in ErrorClasses : BaseFails(e)
    BY <2>1 DEF BaseFails, FailAlone, ContextCancelled, Cancelled, AttemptFails
  <2>2. CASE \E e \in ErrorClasses : GzipHeaderFails(e)
    BY <2>2 DEF GzipHeaderFails, ContextErrors
  <2>3. CASE \E z \in BOOLEAN : BaseResponds(z)
    BY <2>3 DEF BaseResponds, ResponseWatchdog
  <2> QED
    BY <1>2, <2>1, <2>2, <2>3 DEF BaseStep
<1>3. CASE ReadStep
  BY <1>3
     DEF ReadStep, ReadBegins, ReadData, ReadReturns, NamedError, InnerEnds
<1>4. CASE CloseStep
  <2>1. CASE DrainCloses
    BY <2>1 DEF DrainCloses
  <2>2. CASE CloseStops
    <3>1. /\ resp \in Attempts /\ once' = "inner"
          /\ watchdog' = StopWatchdog(<<resp, "response">>)
          /\ UNCHANGED <<vars, cfg, xpc, child, raw>>
      BY <2>2 DEF CloseStops, WatchdogStopped
    <3>2. once # "inner"
      BY <2>2 DEF CloseStops
    <3>3. Draining' \/ Delivered' => raw'[resp'] # "none"
      BY <3>1
    <3> QED
      BY <3>1, <3>2, <3>3, StopIsAccounted
  <2>3. CASE CloseInner
    BY <2>3 DEF CloseInner
  <2>4. CASE \E c \in Closers : CloseCall(c) \/ CloseReturns(c)
    BY <2>4 DEF CloseCall, CloseReturns, CloseComplete
  <2> QED
    BY <1>4, <2>1, <2>2, <2>3, <2>4 DEF CloseStep
<1>5. CASE WatchdogStep
  <2>1. CASE \E g \in Guards : FireWins(g)
    BY <2>1 DEF FireWins
  <2>2. CASE \E g \in Guards : FireCancels(g)
    BY <2>2 DEF FireCancels, Cancelled
  <2>3. CASE \E k \in Attempts : CloseUpload(k)
    BY <2>3 DEF CloseUpload, StopWatchdog
  <2> QED
    BY <1>5, <2>1, <2>2, <2>3 DEF WatchdogStep
<1>6. CASE LoopStep
  <2>1. CASE Prepare
    BY <2>1, <1>6 DEF Prepare, Return, LoopStep
  <2>2. CASE Stop
    BY <2>2, <1>6 DEF Stop, Return, ResponseHeld, LoopStep
  <2>3. CASE Retry
    BY <2>3, <1>6 DEF Retry, ResponseHeld, LoopStep
  <2>4. CASE WaitCheck \/ SleepInterrupted \/ SleepEnds
    BY <2>4, <1>6
       DEF WaitCheck, WaitChecksContext, SleepInterrupted, SleepEnds, Return,
           LoopStep
  <2>5. CASE Rewind \/ RewindFails
    BY <2>5, <1>6 DEF Rewind, RewindFails, Return, LoopStep
  <2> QED
    BY <1>6, <2>1, <2>2, <2>3, <2>4, <2>5 DEF LoopStep
<1>7. CASE Drained
  BY <1>7 DEF Drained, DrainAndClose, CloseResponse
<1>8. CASE ParentEnds
  BY <1>8 DEF ParentEnds, ContextEnds, ParentReaches
<1>9. CASE Idle \/ UNCHANGED exVars
  BY <1>9 DEF Idle, Returned, exVars, vars
<1> QED
  BY <1>1, <1>2, <1>3, <1>4, <1>5, <1>6, <1>7, <1>8, <1>9 DEF ExNext

(* A watchdog that will still end the attempt, or whose context has ended. *)
Watched(k) == CtxDone(k) \/ watchdog[<<k, "response">>] \in {"running", "fired"}

(* Wherever a response is being read, something is on the way that ends    *)
(* the read: the context is done, a watchdog is about to end it, or the    *)
(* body is closed or is being closed.  Only the gzip header is not closed  *)
(* by anybody else, and its watchdog cannot have been stopped.             *)
StallsAreWatched ==
    cfg.idle =>
      /\ rpc = "inner" => Watched(resp) \/ raw[resp] = "closed" \/ once = "inner"
      /\ xpc = "gzip" => Watched(Current)

(* With an idle timeout no read and no gzip header is without its end in   *)
(* sight, in any attempt: the safety core of StallsEnd, to which fairness  *)
(* adds that the watchdog does fire and that the transport does return.    *)
THEOREM StalledReadsAreWatched == ExSafety => []StallsAreWatched
<1>1. ExInit => WatchdogsAccounted
  BY PairsAreGuards
     DEF ExInit, Init, WatchdogsAccounted, Draining, Delivered
<1>2. ExInv /\ WatchdogsAccounted => StallsAreWatched
  <2> SUFFICES ASSUME ExInv, WatchdogsAccounted, cfg.idle
               PROVE  /\ rpc = "inner" => \/ Watched(resp)
                                          \/ raw[resp] = "closed" \/ once = "inner"
                      /\ xpc = "gzip" => Watched(Current)
    BY DEF StallsAreWatched
  <2>1. ASSUME NEW k \in Attempts, raw[k] # "none",
               watchdog[<<k, "response">>] # "stopped"
        PROVE  Watched(k)
    BY <2>1, PairsAreGuards
       DEF ExInv, ExTypeOK, WatchdogStates, WatchdogsAccounted, Watched, CtxDone
  <2>2. ASSUME rpc = "inner"
        PROVE  Watched(resp) \/ raw[resp] = "closed" \/ once = "inner"
    <3>1. resp \in Attempts /\ raw[resp] # "none"
      BY <2>2 DEF ExInv, IInv, TypeOK, PhasesMatch, BodiesOfAttempts, Draining,
                  Delivered, WatchdogsAccounted
    <3> QED
      BY <2>1, <3>1 DEF WatchdogsAccounted
  <2>3. ASSUME xpc = "gzip"
        PROVE  Watched(Current)
    <3>1. Current \in Attempts /\ raw[Current] = "open" /\ once = "none"
      BY <2>3, CurrentIsAttempt
         DEF ExInv, IInv, PhasesMatch, BodiesOfAttempts, Wrapping
    <3> QED
      BY <2>1, <3>1 DEF WatchdogsAccounted
  <2> QED
    BY <2>2, <2>3
<1> QED
  BY ExInvariance, <1>1, NextAccounted, <1>2, PTL DEF ExSafety
=============================================================================
