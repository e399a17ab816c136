------------------------------ MODULE Exchange ------------------------------
(***************************************************************************)
(* What happens inside the attempts of RetryTransport: safetyTransport of  *)
(* src/safety.go gives every attempt a context of its own, a watchdog over *)
(* the request body and one over the response body (guardedWriter and      *)
(* guardedBody of src/guard.go), and hands the guarded response to the     *)
(* retry loop, which drains it or returns it to the caller.                *)
(*                                                                         *)
(* This module refines the attempts: its steps are those of RetryTransport *)
(* together with steps that RetryTransport does not see.  A watchdog is    *)
(* reduced to the contract (module Watchdogs) that IdleWatchdog keeps: the *)
(* callback or Stop wins, never both, and a callback that has won cancels  *)
(* some time later.  When it wins is left open, and so a Reset has no      *)
(* state here.  The base transport, the network and the caller are the     *)
(* environment.  Sizes are left out: a read may exceed a limit whenever    *)
(* one is set.                                                             *)
(***************************************************************************)
EXTENDS RetryTransport

(* Strict mode and compression only add behaviours (a refusal, a gzip      *)
(* header); both are on.                                                   *)
Options == [idle : BOOLEAN, limits : BOOLEAN]

CONSTANTS Explored,         \* the requests explored, and with which options
          TransportErrors   \* how attempts fail of themselves

ASSUME ExploredAssumption == Explored \subseteq Requests \X Options
ASSUME TransportErrorsAssumption ==
    TransportErrors \subseteq ErrorClasses \ {"canceled", "ctxDeadline", "bodyIdle"}

VARIABLES
    cfg,        \* which options are on
    xpc,        \* where safetyTransport.RoundTrip is, "out" between calls
    child,      \* the context of each attempt: "none" if it has no own one,
                \* "live", or who cancelled it first
    watchdog,   \* the watchdogs of each attempt
    raw,        \* the transport's response body of each attempt
    once,       \* closeOnce of the guarded body held: how far Close has come
    closer,     \* the caller's goroutines that may call Close
    rpc,        \* where Read is
    got,        \* the error with which an inner read has ended
    readErr     \* the error of the last Read

attemptVars == <<xpc, child, watchdog, raw>>
readVars    == <<rpc, got, readErr>>
bodyVars    == <<once, closer, readVars>>
exVars      == <<vars, cfg, attemptVars, bodyVars>>

Sides   == {"request", "response"}
Guards  == Attempts \X Sides
Closers == {"reader", "other"}

ChildStates    == {"none", "live", "parent", "failed", "idle"}
WatchdogStates == {"off", "running", "stopped", "fired", "over"}
ReadErrors     == {"eof", "broken", "limit", "aborted", "closed",
                   "bodyIdle", "canceled", "ctxErr"}

(* A watchdog runs only where there is a context for it to cancel. *)
ExTypeOK ==
    /\ cfg \in Options
    /\ xpc \in {"out", "preflight", "guard", "base", "gzip", "wrapped", "badGzip"}
    /\ child \in [Attempts -> ChildStates]
    /\ watchdog \in [Guards -> WatchdogStates]
    /\ \A g \in Guards : watchdog[g] # "off" => child[g[1]] # "none"
    /\ raw \in [Attempts -> {"none", "open", "closed"}]
    /\ once \in {"none", "stop", "inner", "done"}
    /\ closer \in [Closers -> {"idle", "in", "out"}]
    /\ rpc \in {"idle", "inner", "ended"}
    /\ got \in ReadErrors \cup ErrorClasses \cup {"nil"}
    /\ readErr \in ReadErrors \cup {"nil"}

ExInit ==
    /\ Init
    /\ cfg \in Options /\ <<req, cfg>> \in Explored
    /\ xpc = "out"
    /\ child = [k \in Attempts |-> "none"]
    /\ watchdog = [g \in Guards |-> "off"]
    /\ raw = [k \in Attempts |-> "none"]
    /\ once = "none"
    /\ closer = [c \in Closers |-> "idle"]
    /\ rpc = "idle" /\ got = "nil" /\ readErr = "nil"

(* The attempt under way. *)
Current == attempt + 1

CtxDone(k) == IF child[k] = "none" THEN ctxDone ELSE child[k] # "live"

(* context.Cause of a context that is done *)
Cause(k) == CASE child[k] = "idle"   -> "bodyIdle"
              [] child[k] = "failed" -> "canceled"
              [] OTHER               -> "ctxErr"

(* A context keeps the first cause it is cancelled with. *)
Cancelled(k, why) == [child EXCEPT ![k] = IF @ = "live" THEN why ELSE @]

-----------------------------------------------------------------------------
(* safetyTransport.RoundTrip. *)

BeginAttempt ==
    /\ Send
    /\ xpc' = "preflight"
    /\ UNCHANGED <<cfg, child, watchdog, raw, bodyVars>>

(* The strict check of the target, which may refuse it, fail to resolve it *)
(* or give up with the caller's context.                                   *)
PreflightPasses ==
    /\ xpc = "preflight"
    /\ xpc' = "guard"
    /\ UNCHANGED <<vars, cfg, child, watchdog, raw, bodyVars>>

PreflightRefuses(e) ==
    /\ xpc = "preflight"
    /\ e \in TransportErrors \/ (ctxDone /\ e \in {"canceled", "ctxDeadline"})
    /\ AttemptFails(e)
    /\ xpc' = "out"
    /\ UNCHANGED <<cfg, child, watchdog, raw, bodyVars>>

(* The child is derived from the caller's context, and only if some guard  *)
(* can cancel it.  Wrong if derived from the last attempt's context, as it *)
(* would be without the clone; or made for limits only.                    *)
NewChildNested ==
    IF ~(cfg.idle \/ cfg.limits) THEN "none"
    ELSE IF ctxDone \/ (attempt > 0 /\ child[attempt] = "failed") THEN "parent"
    ELSE "live"
NewChildForLimits ==
    IF ~cfg.limits THEN "none" ELSE IF ctxDone THEN "parent" ELSE "live"
NewChild ==
    IF ~(cfg.idle \/ cfg.limits) THEN "none"
    ELSE IF ctxDone THEN "parent" ELSE "live"

Guard ==
    /\ xpc = "guard"
    /\ child' = [child EXCEPT ![Current] = NewChild]
    /\ watchdog' = [watchdog EXCEPT ![<<Current, "request">>] =
                      IF cfg.idle /\ req.body # "none" THEN "running" ELSE "off"]
    /\ xpc' = "base"
    /\ UNCHANGED <<vars, cfg, raw, bodyVars>>

(* The transport returns an error: its own, or that of the context once    *)
(* that is done, as the bare error or as the cause.                        *)
ContextErrors(k) == IF child[k] = "idle" THEN {"canceled", "bodyIdle"}
                                         ELSE {"canceled", "ctxDeadline"}

(* What the caller of RoundTrip is told of a failure; wrong when a response *)
(* comes with the error.                                                   *)
FailWithResponse(e) ==
    /\ resp' = Current /\ err' = e /\ pc' = "decide"
    /\ respBody' = [respBody EXCEPT ![Current] = "open"]
    /\ UNCHANGED <<req, ctxDone, body, getBody, attempt, status, result, observed,
                   lateSends, wholeSends>>
FailAlone(e) == AttemptFails(e)

(* cancel(nil), on every error path after the child was made; wrong when   *)
(* it is left out.                                                         *)
ContextLeft      == child
ContextCancelled == Cancelled(Current, "failed")

BaseFails(e) ==
    /\ xpc = "base"
    /\ \/ e \in TransportErrors
       \/ CtxDone(Current) /\ e \in ContextErrors(Current)
    /\ child' = ContextCancelled
    /\ FailAlone(e)
    /\ xpc' = "out"
    /\ UNCHANGED <<cfg, watchdog, raw, bodyVars>>

(* newGuardedBody starts the watchdog before it looks at the body; wrong   *)
(* when it is not started.                                                 *)
NoResponseWatchdog == "off"
ResponseWatchdog   == IF cfg.idle THEN "running" ELSE "off"

BaseResponds(zipped) ==
    /\ xpc = "base"
    /\ raw' = [raw EXCEPT ![Current] = "open"]
    /\ watchdog' = [watchdog EXCEPT ![<<Current, "response">>] = ResponseWatchdog]
    /\ once' = "none" /\ rpc' = "idle" /\ got' = "nil" /\ readErr' = "nil"
    /\ xpc' = IF zipped THEN "gzip" ELSE "wrapped"
    /\ UNCHANGED <<vars, cfg, child, closer>>

(* gzip.NewReader reads the header from the network. *)
GzipHeaderRead ==
    /\ xpc = "gzip"
    /\ xpc' = "wrapped"
    /\ UNCHANGED <<vars, cfg, child, watchdog, raw, bodyVars>>

GzipHeaderFails(e) ==
    /\ xpc = "gzip"
    /\ \/ e \in TransportErrors
       \/ CtxDone(Current) /\ e \in ContextErrors(Current)
    /\ got' = e
    /\ xpc' = "badGzip"
    /\ UNCHANGED <<vars, cfg, child, watchdog, raw, once, closer, rpc, readErr>>

(* drainAndClose on the raw body; wrong when the error is returned at once. *)
KeepRaw  == UNCHANGED raw
CloseRaw == raw' = [raw EXCEPT ![Current] = "closed"]

AbandonResponse ==
    /\ xpc = "badGzip"
    /\ CloseRaw
    /\ child' = ContextCancelled
    /\ AttemptFails(got)
    /\ xpc' = "out"
    /\ UNCHANGED <<cfg, watchdog, bodyVars>>

(* The guarded response goes to the retry loop with its context alive.     *)
NoCancel == child

Deliver(s) ==
    /\ xpc = "wrapped"
    /\ child' = NoCancel
    /\ AttemptResponds(s)
    /\ xpc' = "out"
    /\ UNCHANGED <<cfg, watchdog, raw, bodyVars>>

-----------------------------------------------------------------------------
(* The watchdogs, as IdleWatchdog shows them. *)

FireWins(g) ==
    /\ watchdog[g] = "running"
    /\ watchdog' = [watchdog EXCEPT ![g] = "fired"]
    /\ UNCHANGED <<vars, cfg, xpc, child, raw, bodyVars>>

FireCancels(g) ==
    /\ watchdog[g] = "fired"
    /\ watchdog' = [watchdog EXCEPT ![g] = "over"]
    /\ child' = Cancelled(g[1], "idle")
    /\ UNCHANGED <<vars, cfg, xpc, raw, bodyVars>>

(* Stop of a watchdog; wrong as a plain store of done, after which it      *)
(* believes to have stopped one that has fired.                            *)
StopStores(g)   == [watchdog EXCEPT ![g] = IF @ = "off" THEN @ ELSE "stopped"]
StopWatchdog(g) == [watchdog EXCEPT ![g] = IF @ = "running" THEN "stopped" ELSE @]

(* The transport closes the request body, perhaps long after its RoundTrip *)
(* has returned.                                                           *)
CloseUpload(k) ==
    /\ watchdog[<<k, "request">>] = "running" /\ ~(xpc = "guard" /\ k = Current)
    /\ watchdog' = StopWatchdog(<<k, "request">>)
    /\ UNCHANGED <<vars, cfg, xpc, child, raw, bodyVars>>

-----------------------------------------------------------------------------
(* guardedBody.Read, called by the loop's drain or by the caller, who      *)
(* stops at the first error.                                               *)

Draining  == pc = "drain" /\ resp # 0
Delivered == pc = "returned" /\ result = "nil"

ReadBegins ==
    /\ rpc = "idle" /\ readErr = "nil"
    /\ \/ Draining /\ once = "none"
       \/ Delivered /\ closer["reader"] = "idle"
    /\ \/ CtxDone(resp) /\ readErr' = Cause(resp) /\ UNCHANGED rpc
       \/ ~CtxDone(resp) /\ rpc' = "inner" /\ UNCHANGED readErr
    /\ UNCHANGED <<vars, cfg, attemptVars, once, closer, got>>

(* Bytes arrive: within the limits, or beyond one of them. *)
ReadData ==
    /\ rpc = "inner" /\ raw[resp] = "open"
    /\ rpc' = "idle"
    /\ readErr' \in {"nil"} \cup (IF cfg.limits THEN {"limit"} ELSE {})
    /\ UNCHANGED <<vars, cfg, attemptVars, once, closer, got>>

(* The inner read fails: of itself, because the transport saw the context  *)
(* end, or because somebody closed the body.                               *)
InnerEnds(e) ==
    /\ rpc = "inner"
    /\ \/ e \in {"eof", "broken"} /\ raw[resp] = "open"
       \/ e = "aborted" /\ CtxDone(resp)
       \/ e = "closed" /\ raw[resp] = "closed"
    /\ got' = e
    /\ rpc' = "ended"
    /\ UNCHANGED <<vars, cfg, attemptVars, once, closer, readErr>>

(* A failed read names the cause of a context that is done; wrong when the *)
(* transport's error goes through.                                         *)
TransportsError == got
NamedError      == IF CtxDone(resp) THEN Cause(resp) ELSE got

ReadReturns ==
    /\ rpc = "ended"
    /\ readErr' = NamedError
    /\ rpc' = "idle"
    /\ UNCHANGED <<vars, cfg, attemptVars, once, closer, got>>

-----------------------------------------------------------------------------
(* guardedBody.Close: the first call runs the function of closeOnce, and   *)
(* the others wait for it.                                                 *)

DrainCloses ==
    /\ Draining /\ rpc = "idle" /\ once = "none"
    /\ once' = "stop"
    /\ UNCHANGED <<vars, cfg, attemptVars, closer, readVars>>

CloseCall(c) ==
    /\ Delivered /\ closer[c] = "idle"
    /\ c = "reader" => rpc = "idle"
    /\ closer' = [closer EXCEPT ![c] = "in"]
    /\ once' = IF once = "none" THEN "stop" ELSE once
    /\ UNCHANGED <<vars, cfg, attemptVars, readVars>>

(* Wrong when Close does not stop the watchdog. *)
WatchdogLeftRunning == watchdog
WatchdogStopped     == StopWatchdog(<<resp, "response">>)

CloseStops ==
    /\ once = "stop"
    /\ watchdog' = WatchdogStopped
    /\ once' = "inner"
    /\ UNCHANGED <<vars, cfg, xpc, child, raw, closer, readVars>>

CloseInner ==
    /\ once = "inner"
    /\ raw' = [raw EXCEPT ![resp] = "closed"]
    /\ once' = "done"
    /\ UNCHANGED <<vars, cfg, xpc, child, watchdog, closer, readVars>>

(* Wrong when a flag takes the place of closeOnce: the second call returns *)
(* while the first is still closing.                                       *)
CloseBegun    == once # "none"
CloseComplete == once = "done"

CloseReturns(c) ==
    /\ closer[c] = "in"
    /\ CloseComplete
    /\ closer' = [closer EXCEPT ![c] = "out"]
    /\ UNCHANGED <<vars, cfg, attemptVars, once, readVars>>

-----------------------------------------------------------------------------
(* The retry loop and the caller's context. *)

Drained ==
    /\ resp = 0 \/ once = "done"
    /\ DrainAndClose
    /\ UNCHANGED <<cfg, attemptVars, bodyVars>>

LoopStep ==
    /\ Prepare \/ Stop \/ Retry \/ WaitCheck \/ SleepInterrupted \/ SleepEnds
       \/ Rewind \/ RewindFails
    /\ UNCHANGED <<cfg, attemptVars, bodyVars>>

(* The end of the caller's context reaches the children made from it;      *)
(* wrong when they are detached from it.                                   *)
Detached      == child
ParentReaches == [k \in Attempts |-> IF child[k] = "live" THEN "parent" ELSE child[k]]

ParentEnds ==
    /\ ContextEnds
    /\ child' = ParentReaches
    /\ UNCHANGED <<cfg, xpc, watchdog, raw, bodyVars>>

Idle == Returned /\ UNCHANGED exVars

RoundTripStep ==
    \/ BeginAttempt \/ PreflightPasses \/ Guard \/ GzipHeaderRead
    \/ AbandonResponse
    \/ \E e \in ErrorClasses : PreflightRefuses(e)
    \/ \E s \in {"retryable", "final"} : Deliver(s)

BaseStep ==
    \/ \E e \in ErrorClasses : BaseFails(e)
    \/ \E e \in ErrorClasses : GzipHeaderFails(e)
    \/ \E z \in BOOLEAN : BaseResponds(z)

ReadStep ==
    \/ ReadBegins \/ ReadData \/ ReadReturns
    \/ \E e \in ReadErrors : InnerEnds(e)

CloseStep ==
    \/ DrainCloses \/ CloseStops \/ CloseInner
    \/ \E c \in Closers : CloseCall(c) \/ CloseReturns(c)

WatchdogStep ==
    \/ \E g \in Guards : FireWins(g) \/ FireCancels(g)
    \/ \E k \in Attempts : CloseUpload(k)

ExNext ==
    \/ RoundTripStep \/ BaseStep \/ ReadStep \/ CloseStep \/ WatchdogStep
    \/ LoopStep \/ Drained \/ ParentEnds \/ Idle

ExSafety == ExInit /\ [][ExNext]_exVars

(* prepareBody reads the caller's stream to its end, and looks at no       *)
(* context meanwhile.                                                      *)
ReadsStream == pc = "prepare" /\ CanRetry /\ req.body = "stream"

(* The goroutine of RoundTrip goes on when it can, and so do Read and      *)
(* Close.  A callback that is not stopped fires.  What waits for the       *)
(* network (the preflight, the transport, the gzip header, a read, the     *)
(* drain of a response with a bad gzip header) ends once the context is    *)
(* done or the body is closed; without that it owes nothing.  Nor does the *)
(* caller, who need not read, close, or ever end the stream that is the    *)
(* request's body; its functions (GetBody, checkRetry) do return.          *)
LoopFairly ==
    WF_exVars(\/ BeginAttempt \/ Guard
              \/ ctxDone /\ PreflightPasses
              \/ ctxDone /\ (\E e \in ErrorClasses : PreflightRefuses(e))
              \/ CtxDone(Current) /\ (\E e \in ErrorClasses : BaseFails(e))
              \/ CtxDone(Current) /\ (\E e \in ErrorClasses : GzipHeaderFails(e))
              \/ CtxDone(Current) /\ AbandonResponse
              \/ (\E s \in {"retryable", "final"} : Deliver(s))
              \/ LoopStep /\ ~ReadsStream
              \/ Drained
              \/ (Draining /\ ReadBegins) \/ DrainCloses)

ExSpec ==
    /\ ExSafety
    /\ LoopFairly
    /\ WF_exVars(InnerEnds("aborted") \/ InnerEnds("closed") \/ ReadReturns)
    /\ WF_exVars(CloseStops \/ CloseInner)
    /\ \A g \in Guards : WF_exVars(FireWins(g) \/ FireCancels(g))

-----------------------------------------------------------------------------
(* Properties. *)

Fired(k) == \E side \in Sides : watchdog[<<k, side>>] \in {"fired", "over"}

(* While the caller's context lives, an attempt or a read is cancelled     *)
(* only by a watchdog of that same attempt: the watchdogs and the cancel   *)
(* calls of failed attempts, which go on in the background, reach nobody   *)
(* else.                                                                   *)
OwnAlarms ==
    /\ pc = "decide" /\ err \in {"canceled", "bodyIdle"} /\ ~ctxDone
         => Fired(Current)
    /\ resp # 0 /\ readErr \in {"canceled", "bodyIdle"} => Fired(resp)

(* No connection is lost: a transport's body is open only while its        *)
(* attempt is still being wrapped, or while the retry loop knows it to be  *)
(* open and will drain it or return it.                                    *)
NoConnectionLeak ==
    \A k \in Attempts :
      raw[k] = "open" => respBody[k] = "open" \/ (pc = "inFlight" /\ k = Current)

(* No context is lost either: one that is still alive belongs to the       *)
(* attempt under way or to one that has returned a response; every error   *)
(* path of RoundTrip has ended the context it made.                        *)
FailedContextsEnd ==
    \A k \in Attempts :
      child[k] = "live" => respBody[k] # "none" \/ (pc = "inFlight" /\ k = Current)

(* A watchdog never outlives the body it watches, except when the gzip     *)
(* header was bad.                                                         *)
WatchdogsStopped ==
    \A k \in Attempts :
      watchdog[<<k, "response">>] = "running"
        => raw[k] = "open" \/ respBody[k] = "none"

(* A response that is returned can be read: its context is not cancelled   *)
(* by the code that returned it.                                           *)
ReturnedResponseAlive == Delivered => child[resp] # "failed"

(* The reader never sees the transport's own error for a context that has  *)
(* ended, but always the cause, whenever the watchdog fires.               *)
AbortsAreNamed == readErr # "aborted"

(* A Close that has returned has closed: nothing is left open and no       *)
(* watchdog runs, also for the caller that came second.                    *)
ClosedMeansClosed ==
    (\E c \in Closers : closer[c] = "out")
      => raw[resp] = "closed" /\ watchdog[<<resp, "response">>] # "running"

(* With an idle timeout nothing that reads a response hangs for ever:      *)
(* neither a read (of the caller or of the drain between two attempts),    *)
(* nor the wait for a gzip header.                                         *)
StallsEnd ==
    /\ cfg.idle /\ rpc = "inner" ~> rpc # "inner"
    /\ cfg.idle /\ xpc = "gzip" ~> xpc # "gzip"

(* When the caller's context ends the call returns: from an attempt, a     *)
(* drain, a sleep, or before the first of them.  The one place it does not *)
(* return from is prepareBody, as long as the caller's stream goes on.     *)
CancelReturns == ctxDone /\ ~ReadsStream ~> pc = "returned"

(* The guarded attempts are attempts as the retry loop knows them. *)
ImplementsRetry == Spec

(* The watchdogs of all attempts, which go on side by side, keep the       *)
(* promise that IdleWatchdog is shown to keep: whoever closes a body, and  *)
(* however late, never takes back an alarm, and no watchdog that was       *)
(* stopped cancels.                                                        *)
Contract == INSTANCE Watchdogs WITH Dogs <- Guards, dog <- watchdog
ImplementsWatchdogs == Contract!Spec
=============================================================================
