--------------------------- MODULE RetryTransport ---------------------------
(***************************************************************************)
(* One RoundTrip of the retrying transport of src/retry.go: the loop over  *)
(* attempts, the body it can or cannot rewind, the responses it drains,    *)
(* the waits it makes, and the caller's context, which may end between any *)
(* two steps.                                                              *)
(*                                                                         *)
(* The wrapped transport is external: an attempt consumes and closes the   *)
(* request body and returns a response or an error of some class.  How     *)
(* long a wait lasts is left out (any wait may end at any time); statuses  *)
(* and errors are reduced to what shouldRetry tells apart.  observed,      *)
(* lateSends and wholeSends are ghosts.                                    *)
(***************************************************************************)
EXTENDS Integers

CONSTANT MaxRetries     \* maxRetries; New clamps it to zero or more

ASSUME MaxRetriesAssumption == MaxRetries \in Nat

Attempts == 1 .. MaxRetries + 1

VARIABLES
    req,        \* the request: its method's class, its body, the policy
    pc,         \* where RoundTrip is
    ctxDone,    \* the request's context has ended
    body,       \* req.Body: "none", "fresh" (unread) or "used"
    getBody,    \* getBody is set: the body can be rewound
    attempt,    \* the loop counter, from 0
    resp,       \* the attempt whose response the loop holds, 0 for nil
    status,     \* class of that response's status
    err,        \* class of the attempt's error
    respBody,   \* the response body of each attempt
    result,     \* the error RoundTrip returned, "nil" for success
    observed,   \* ghost: calls of retryObserver
    lateSends,  \* ghost: attempts begun although the context had ended
    wholeSends  \* ghost: every attempt so far had an unread body to send

vars == <<req, pc, ctxDone, body, getBody, attempt, resp, status, err,
          respBody, result, observed, lateSends, wholeSends>>

(* What errors.Is and errors.As find in an error of each class.  Of the    *)
(* standard library's errors, context.DeadlineExceeded is a net timeout,   *)
(* and the timeout of a net.Dialer matches context.DeadlineExceeded.       *)
Traits ==
    [canceled    |-> {"Canceled"},
     ctxDeadline |-> {"DeadlineExceeded", "Timeout"},
     bodyIdle    |-> {"ErrBodyIdleTimeout"},
     eof         |-> {"EOF"},
     refused     |-> {"Syscall"},
     tlsTimeout  |-> {"Timeout"},
     dialTimeout |-> {"DeadlineExceeded", "Timeout"},
     dnsServer   |-> {"DNS"},
     dnsNotFound |-> {"DNS", "NotFound"},
     other       |-> {}]

ErrorClasses == DOMAIN Traits

PcStates == {"prepare", "send", "inFlight", "decide", "drain", "check",
             "sleep", "rewind", "returned"}
Results  == ErrorClasses \cup {"nil", "ctxErr", "rewindErr", "prepareErr", "none"}

Requests == [retryable : BOOLEAN,                       \* retryableMethods
             body      : {"none", "getBody", "stream"}, \* what can be rewound
             custom    : BOOLEAN]                       \* checkRetry is set

TypeOK ==
    /\ req \in Requests
    /\ pc \in PcStates
    /\ ctxDone \in BOOLEAN
    /\ body \in {"none", "fresh", "used"}
    /\ getBody \in BOOLEAN
    /\ attempt \in 0 .. MaxRetries
    /\ resp \in {0} \cup Attempts
    /\ status \in {"retryable", "final"}
    /\ err \in ErrorClasses \cup {"nil"}
    /\ respBody \in [Attempts -> {"none", "open", "closed"}]
    /\ result \in Results
    /\ observed \in 0 .. MaxRetries
    /\ lateSends \in Nat
    /\ wholeSends \in BOOLEAN

Init ==
    /\ req \in Requests
    /\ pc = "prepare"
    /\ ctxDone \in BOOLEAN
    /\ body = IF req.body = "none" THEN "none" ELSE "fresh"
    /\ getBody = FALSE
    /\ attempt = 0
    /\ resp = 0 /\ status = "final" /\ err = "nil"
    /\ respBody = [k \in Attempts |-> "none"]
    /\ result = "none"
    /\ observed = 0 /\ lateSends = 0 /\ wholeSends = TRUE

-----------------------------------------------------------------------------
(* Before the loop. *)

CanRetry == MaxRetries > 0 /\ req.retryable

Return(how) == pc' = "returned" /\ result' = how

(* prepareBody, for a request that may be retried.  A stream is read into  *)
(* memory and replaced; that can fail, or the stream can be too large.     *)
Prepare ==
    /\ pc = "prepare"
    /\ \/ /\ CanRetry
          /\ getBody' = TRUE
          /\ pc' = "send"
          /\ UNCHANGED <<body, result>>
       \/ /\ CanRetry /\ req.body = "stream"
          /\ body' = "used"
          /\ Return("prepareErr")
          /\ UNCHANGED getBody
       \/ /\ ~CanRetry
          /\ pc' = "send"
          /\ UNCHANGED <<body, getBody, result>>
    /\ UNCHANGED <<req, ctxDone, attempt, resp, status, err, respBody,
                   observed, lateSends, wholeSends>>

-----------------------------------------------------------------------------
(* The loop. *)

(* t.next.RoundTrip(req) is called; it will consume and close the body. *)
Send ==
    /\ pc = "send"
    /\ wholeSends' = (wholeSends /\ body # "used")
    /\ body' = IF body = "none" THEN "none" ELSE "used"
    /\ lateSends' = IF ctxDone THEN lateSends + 1 ELSE lateSends
    /\ pc' = "inFlight"
    /\ UNCHANGED <<req, ctxDone, getBody, attempt, resp, status, err, respBody,
                   result, observed>>

(* It returns a response, or an error and no response. *)
AttemptResponds(s) ==
    /\ pc = "inFlight"
    /\ resp' = attempt + 1
    /\ status' = s
    /\ err' = "nil"
    /\ respBody' = [respBody EXCEPT ![attempt + 1] = "open"]
    /\ pc' = "decide"
    /\ UNCHANGED <<req, ctxDone, body, getBody, attempt, result, observed,
                   lateSends, wholeSends>>

AttemptFails(e) ==
    /\ pc = "inFlight"
    /\ resp' = 0
    /\ err' = e
    /\ pc' = "decide"
    /\ UNCHANGED <<req, ctxDone, body, getBody, attempt, status, respBody,
                   result, observed, lateSends, wholeSends>>

(* The checks of isRetryableError, in its order. *)
isRetryableError(e) ==
    /\ Traits[e] \cap {"Canceled", "DeadlineExceeded"} = {}
    /\ \/ Traits[e] \cap {"ErrBodyIdleTimeout", "EOF", "Syscall", "Timeout"} # {}
       \/ "DNS" \in Traits[e] /\ "NotFound" \notin Traits[e]

(* The verdicts shouldRetry can give; a checkRetry may say anything. *)
shouldRetry ==
    IF ~req.retryable THEN {FALSE}
    ELSE IF req.custom THEN BOOLEAN
    ELSE {IF err # "nil" THEN isRetryableError(err) ELSE status = "retryable"}

(* Wrong when the last attempt may be retried too. *)
LastIsRetriedToo == attempt = MaxRetries + 1
IsLast == attempt = MaxRetries

(* The attempt's outcome is the call's: the response goes back undrained. *)
Stop ==
    /\ pc = "decide"
    /\ FALSE \in shouldRetry \/ IsLast
    /\ Return(err)
    /\ UNCHANGED <<req, ctxDone, body, getBody, attempt, resp, status, err,
                   respBody, observed, lateSends, wholeSends>>

(* The observer is told and the loop goes round. *)
Retry ==
    /\ pc = "decide"
    /\ TRUE \in shouldRetry /\ ~IsLast
    /\ observed' = observed + 1
    /\ attempt' = attempt + 1
    /\ pc' = "drain"
    /\ UNCHANGED <<req, ctxDone, body, getBody, resp, status, err, respBody,
                   result, lateSends, wholeSends>>

(* What drainAndClose closes; wrong when a response is dropped unread.     *)
DropResponse == UNCHANGED respBody
CloseResponse ==
    respBody' = [k \in Attempts |-> IF k = resp THEN "closed" ELSE respBody[k]]

DrainAndClose ==
    /\ pc = "drain"
    /\ CloseResponse
    /\ pc' = "check"
    /\ UNCHANGED <<req, ctxDone, body, getBody, attempt, resp, status, err,
                   result, observed, lateSends, wholeSends>>

(* waitForRetry: the context is checked first.  Wrong when it is not, or   *)
(* when the outcome of the last attempt is returned with its drained body. *)
WaitIgnoresContext == pc' = "sleep" /\ UNCHANGED result
WaitReturnsOutcome ==
    \/ ctxDone /\ Return(err)
    \/ ~ctxDone /\ pc' = "sleep" /\ UNCHANGED result
WaitChecksContext ==
    \/ ctxDone /\ Return("ctxErr")
    \/ ~ctxDone /\ pc' = "sleep" /\ UNCHANGED result

WaitCheck ==
    /\ pc = "check"
    /\ WaitChecksContext
    /\ UNCHANGED <<req, ctxDone, body, getBody, attempt, resp, status, err,
                   respBody, observed, lateSends, wholeSends>>

(* sleep: when the context ends and the timer fires, select takes either.  *)
SleepInterrupted ==
    /\ pc = "sleep" /\ ctxDone
    /\ Return("ctxErr")
    /\ UNCHANGED <<req, ctxDone, body, getBody, attempt, resp, status, err,
                   respBody, observed, lateSends, wholeSends>>

SleepEnds ==
    /\ pc = "sleep"
    /\ pc' = "rewind"
    /\ UNCHANGED <<req, ctxDone, body, getBody, attempt, resp, status, err,
                   respBody, result, observed, lateSends, wholeSends>>

(* The body an attempt after the first starts with; wrong when the one the *)
(* last attempt consumed is sent again.                                    *)
ReusedBody  == body
RewoundBody == IF req.body = "none" THEN "none" ELSE "fresh"

(* getBody() if there is one.  It is the caller's own function when the    *)
(* request came with it, and only that one can fail.                       *)
Rewind ==
    /\ pc = "rewind"
    /\ body' = IF getBody THEN RewoundBody ELSE body
    /\ pc' = "send"
    /\ UNCHANGED <<req, ctxDone, getBody, attempt, resp, status, err, respBody,
                   result, observed, lateSends, wholeSends>>

RewindFails ==
    /\ pc = "rewind" /\ getBody /\ req.body = "getBody"
    /\ Return("rewindErr")
    /\ UNCHANGED <<req, ctxDone, body, getBody, attempt, resp, status, err,
                   respBody, observed, lateSends, wholeSends>>

-----------------------------------------------------------------------------
(* The caller cancels, or its deadline passes. *)
ContextEnds ==
    /\ ~ctxDone
    /\ ctxDone' = TRUE
    /\ UNCHANGED <<req, pc, body, getBody, attempt, resp, status, err,
                   respBody, result, observed, lateSends, wholeSends>>

Returned == pc = "returned" /\ UNCHANGED vars

Next ==
    \/ Prepare \/ Send
    \/ \E s \in {"retryable", "final"} : AttemptResponds(s)
    \/ \E e \in ErrorClasses : AttemptFails(e)
    \/ Stop \/ Retry \/ DrainAndClose \/ WaitCheck
    \/ SleepInterrupted \/ SleepEnds \/ Rewind \/ RewindFails
    \/ ContextEnds \/ Returned

Spec == Init /\ [][Next]_vars

-----------------------------------------------------------------------------
(* Properties. *)

(* No attempt's response is lost with its body open: the only body that    *)
(* can be open when the call returns is that of the response it returns    *)
(* without an error, and while the loop runs that of the attempt whose     *)
(* response it holds.                                                      *)
NoResponseLeak ==
    \A k \in Attempts :
      respBody[k] = "open" => resp = k /\ (pc = "returned" => result = "nil")

(* A response returned without an error is one the caller can still read,  *)
(* also when it is the retryable response of the last attempt.             *)
UsableResponse ==
    pc = "returned" /\ result = "nil" => resp > 0 /\ respBody[resp] = "open"

(* Every attempt sends the body from its first byte.                       *)
WholeBody == wholeSends

(* A context that has ended stops the loop: at most one attempt is begun   *)
(* after that (the one for which the timer won the race in sleep, or the   *)
(* first, which nothing precedes).                                         *)
AtMostOneLateSend == lateSends <= 1

(* The observer's documentation: "only when a retry will actually follow". *)
(* A wait that ends with the context, or a body that cannot be rewound,    *)
(* returns after the observer was told.                                    *)
ObservedRetriesFollow ==
    pc = "returned" => observed = 0 \/ result \notin {"ctxErr", "rewindErr"}

(* The comment in isRetryableError: "Net timeout errors (dial timeout, TLS *)
(* timeout, etc.)" are retryable.  The dialer's timeout also matches       *)
(* context.DeadlineExceeded, which an earlier check refuses.               *)
TimeoutsRetried ==
    [][( /\ pc = "decide" /\ err \in {"dialTimeout", "tlsTimeout"}
         /\ req.retryable /\ ~req.custom /\ ~IsLast )
       => pc' # "returned"]_vars
=============================================================================
