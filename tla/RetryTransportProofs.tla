------------------------ MODULE RetryTransportProofs ------------------------
(***************************************************************************)
(* Theorems about RetryTransport for every number of retries: types, no    *)
(* leaked response, a readable response on success, whole bodies, at most  *)
(* one attempt begun after the context has ended, one attempt only for a   *)
(* method that may not be repeated, and an end of every call.              *)
(***************************************************************************)
EXTENDS RetryTransport, TLAPS

-----------------------------------------------------------------------------
(* The inductive invariant. *)

Waiting == {"drain", "check", "sleep", "rewind"}

(* Going round the loop needs a retryable request, whose body was prepared *)
(* before the first attempt.                                               *)
RetriesPrepared ==
    /\ observed = attempt
    /\ pc = "prepare" => attempt = 0
    /\ attempt > 0 => CanRetry
    /\ pc \in Waiting => attempt > 0
    /\ pc \notin {"prepare", "returned"} /\ CanRetry => getBody

(* Whenever an attempt is about to begin, its body is unread. *)
BodyReady ==
    /\ wholeSends
    /\ pc \in {"prepare", "send"} => body # "used"

(* The response the loop holds, and what became of the bodies so far. *)
ResponseHeld ==
    /\ resp <= attempt + 1
    /\ pc = "decide" => \/ resp = 0 /\ err # "nil"
                        \/ /\ resp = attempt + 1 /\ err = "nil"
                           /\ respBody[resp] = "open"
    /\ pc \in {"prepare", "send", "inFlight", "check", "sleep", "rewind"}
         => \A k \in Attempts : respBody[k] # "open"
    /\ pc # "returned" => result = "none"

(* After a late attempt the loop only goes as far as the next check. *)
LateSendIsLast ==
    /\ lateSends > 0 => ctxDone
    /\ pc \in {"prepare", "send", "sleep", "rewind"} => lateSends = 0

IInv ==
    /\ TypeOK
    /\ RetriesPrepared
    /\ BodyReady
    /\ ResponseHeld
    /\ LateSendIsLast
    /\ NoResponseLeak
    /\ UsableResponse
    /\ AtMostOneLateSend

-----------------------------------------------------------------------------
LEMMA InitIInv == Init => IInv
<1> SUFFICES ASSUME Init PROVE IInv
  OBVIOUS
<1> USE MaxRetriesAssumption
<1>1. TypeOK
  <2>1. /\ respBody \in [Attempts -> {"none", "open", "closed"}]
        /\ body \in {"none", "fresh", "used"}
    BY DEF Init
  <2>2. attempt \in 0 .. MaxRetries /\ observed \in 0 .. MaxRetries
        /\ lateSends \in Nat /\ resp \in {0} \cup Attempts
    BY DEF Init
  <2>3. getBody \in BOOLEAN /\ ctxDone \in BOOLEAN /\ wholeSends \in BOOLEAN
    BY Zenon DEF Init
  <2>4. /\ req \in Requests /\ pc \in PcStates /\ result \in Results
        /\ status \in {"retryable", "final"} /\ err \in ErrorClasses \cup {"nil"}
    BY DEF Init, PcStates, Results
  <2> QED
    BY <2>1, <2>2, <2>3, <2>4 DEF TypeOK
<1>2. RetriesPrepared /\ ResponseHeld /\ LateSendIsLast
  BY DEF Init, RetriesPrepared, ResponseHeld, LateSendIsLast, Waiting
<1>3. BodyReady
  BY DEF Init, BodyReady
<1>4. NoResponseLeak /\ UsableResponse /\ AtMostOneLateSend
  BY DEF Init, NoResponseLeak, UsableResponse, AtMostOneLateSend
<1> QED
  BY <1>1, <1>2, <1>3, <1>4 DEF IInv

LEMMA NextIInv == IInv /\ [Next]_vars => IInv'
<1> SUFFICES ASSUME IInv, [Next]_vars PROVE IInv'
  OBVIOUS
<1> USE MaxRetriesAssumption
    DEF IInv, RetriesPrepared, BodyReady, ResponseHeld, LateSendIsLast,
        NoResponseLeak, UsableResponse, AtMostOneLateSend, Waiting
<1>1. CASE Prepare
  <2>1. /\ pc = "prepare" /\ attempt = 0 /\ pc' \in {"send", "returned"}
        /\ pc' = "send" => body' = body /\ result' = result
        /\ pc' = "returned" => result' = "prepareErr"
        /\ body' \in {"none", "fresh", "used"} /\ getBody' \in BOOLEAN
        /\ pc' = "send" /\ CanRetry => getBody'
        /\ UNCHANGED <<req, ctxDone, attempt, resp, status, err, respBody,
                       observed, lateSends, wholeSends>>
    BY <1>1 DEF Prepare, Return, TypeOK
  <2>2. TypeOK'
    BY <2>1 DEF TypeOK, PcStates, Results
  <2>3. RetriesPrepared'
    BY <2>1 DEF CanRetry
  <2>4. BodyReady' /\ LateSendIsLast' /\ AtMostOneLateSend'
    BY <2>1
  <2>5. ResponseHeld' /\ NoResponseLeak' /\ UsableResponse'
    BY <2>1
  <2> QED
    BY <2>2, <2>3, <2>4, <2>5
<1>2. CASE Send
  <2>1. /\ pc = "send" /\ pc' = "inFlight" /\ body # "used"
        /\ body' \in {"none", "used"} /\ wholeSends'
        /\ lateSends' = IF ctxDone THEN lateSends + 1 ELSE lateSends
        /\ UNCHANGED <<req, ctxDone, getBody, attempt, resp, status, err,
                       respBody, result, observed>>
    BY <1>2 DEF Send
  <2>2. TypeOK'
    <3>1. wholeSends' \in BOOLEAN
      BY <1>2, Zenon DEF Send
    <3>2. lateSends' \in Nat
      BY <2>1 DEF TypeOK
    <3> QED
      BY <2>1, <3>1, <3>2 DEF TypeOK, PcStates
  <2>3. RetriesPrepared' /\ BodyReady'
    BY <2>1 DEF CanRetry
  <2>4. LateSendIsLast' /\ AtMostOneLateSend'
    BY <2>1
  <2>5. ResponseHeld' /\ NoResponseLeak' /\ UsableResponse'
    BY <2>1
  <2> QED
    BY <2>2, <2>3, <2>4, <2>5
<1>3. ASSUME NEW s \in {"retryable", "final"}, AttemptResponds(s)
      PROVE  IInv'
  <2>1. attempt + 1 \in Attempts
    BY DEF TypeOK, Attempts
  <2>2. TypeOK'
    BY <1>3, <2>1 DEF AttemptResponds, TypeOK, PcStates
  <2>3. /\ respBody'[attempt + 1] = "open"
        /\ \A k \in Attempts : k # attempt + 1 => respBody'[k] # "open"
    BY <1>3, <2>1 DEF AttemptResponds, TypeOK
  <2> QED
    BY <1>3, <2>1, <2>2, <2>3 DEF AttemptResponds, TypeOK, CanRetry
<1>4. ASSUME NEW e \in ErrorClasses, AttemptFails(e)
      PROVE  IInv'
  <2>1. e # "nil"
    BY DEF ErrorClasses, Traits
  <2> QED
    BY <1>4, <2>1 DEF AttemptFails, TypeOK, PcStates, CanRetry
<1>5. CASE Stop
  <2>1. /\ pc = "decide" /\ pc' = "returned" /\ result' = err
        /\ UNCHANGED <<req, ctxDone, body, getBody, attempt, resp, status, err,
                       respBody, observed, lateSends, wholeSends>>
    BY <1>5 DEF Stop, Return
  <2>2. TypeOK'
    BY <2>1 DEF TypeOK, PcStates, Results
  <2>3. RetriesPrepared' /\ BodyReady' /\ LateSendIsLast' /\ AtMostOneLateSend'
    BY <2>1 DEF CanRetry
  <2>4. ResponseHeld' /\ NoResponseLeak' /\ UsableResponse'
    BY <2>1 DEF TypeOK, Attempts
  <2> QED
    BY <2>2, <2>3, <2>4
<1>6. CASE Retry
  <2>1. /\ pc = "decide" /\ pc' = "drain" /\ attempt # MaxRetries
        /\ observed' = observed + 1 /\ attempt' = attempt + 1
        /\ UNCHANGED <<req, ctxDone, body, getBody, resp, status, err, respBody,
                       result, lateSends, wholeSends>>
    BY <1>6 DEF Retry, IsLast
  <2>2. req.retryable
    BY Zenon, <1>6 DEF Retry, shouldRetry
  <2>3. CanRetry /\ CanRetry'
    BY <2>1, <2>2 DEF CanRetry, TypeOK
  <2>4. TypeOK'
    BY <2>1 DEF TypeOK, PcStates
  <2>5. RetriesPrepared' /\ BodyReady' /\ LateSendIsLast' /\ AtMostOneLateSend'
    BY <2>1, <2>3 DEF TypeOK
  <2>6. ResponseHeld' /\ NoResponseLeak' /\ UsableResponse'
    BY <2>1 DEF TypeOK
  <2> QED
    BY <2>4, <2>5, <2>6
<1>7. CASE DrainAndClose
  BY <1>7 DEF DrainAndClose, CloseResponse, TypeOK, PcStates, CanRetry
<1>8. CASE WaitCheck \/ SleepInterrupted
  <2>1. /\ pc \in {"check", "sleep"}
        /\ \/ pc' = "returned" /\ result' = "ctxErr"
           \/ pc' = "sleep" /\ result' = result /\ ~ctxDone
        /\ UNCHANGED <<req, ctxDone, body, getBody, attempt, resp, status, err,
                       respBody, observed, lateSends, wholeSends>>
    BY <1>8 DEF WaitCheck, WaitChecksContext, SleepInterrupted, Return
  <2>2. TypeOK'
    BY <2>1 DEF TypeOK, PcStates, Results
  <2>3. RetriesPrepared' /\ BodyReady' /\ AtMostOneLateSend'
    BY <2>1 DEF CanRetry
  <2>4. LateSendIsLast'
    BY <2>1 DEF TypeOK
  <2>5. ResponseHeld' /\ NoResponseLeak' /\ UsableResponse'
    BY <2>1
  <2> QED
    BY <2>2, <2>3, <2>4, <2>5
<1>9. CASE SleepEnds \/ RewindFails
  BY <1>9 DEF SleepEnds, RewindFails, Return, TypeOK, PcStates, Results, CanRetry
<1>10. CASE Rewind
  <2>1. /\ pc = "rewind" /\ pc' = "send" /\ body' \in {"none", "fresh"}
        /\ UNCHANGED <<req, ctxDone, getBody, attempt, resp, status, err,
                       respBody, result, observed, lateSends, wholeSends>>
    BY <1>10 DEF Rewind, RewoundBody
  <2> QED
    BY <2>1 DEF TypeOK, PcStates, CanRetry
<1>11. CASE ContextEnds
  BY <1>11 DEF ContextEnds, TypeOK, CanRetry
<1>12. CASE Returned \/ UNCHANGED vars
  <2>1. UNCHANGED vars
    BY <1>12 DEF Returned
  <2>2. TypeOK' /\ RetriesPrepared'
    BY <2>1 DEF vars, TypeOK, CanRetry
  <2>3. BodyReady' /\ LateSendIsLast' /\ AtMostOneLateSend'
    BY <2>1 DEF vars
  <2>4. ResponseHeld' /\ NoResponseLeak' /\ UsableResponse'
    BY <2>1 DEF vars
  <2> QED
    BY <2>2, <2>3, <2>4
<1> QED
  BY <1>1, <1>2, <1>3, <1>4, <1>5, <1>6, <1>7, <1>8, <1>9, <1>10, <1>11,
     <1>12 DEF Next

-----------------------------------------------------------------------------
(* The inductive invariant holds in every reachable state, for every       *)
(* number of retries.                                                      *)
THEOREM Invariance == Spec => []IInv
BY InitIInv, NextIInv, PTL DEF Spec

(* Every variable of a call keeps its type; in particular the loop begins  *)
(* at most maxRetries + 1 attempts.                                        *)
THEOREM TypeCorrect == Spec => []TypeOK
<1>1. IInv => TypeOK
  BY DEF IInv
<1> QED
  BY <1>1, Invariance, PTL

(* The response of every attempt that is retried is closed before the call *)
(* waits, and a call that returns an error leaves no response open.        *)
THEOREM NothingLeaks == Spec => []NoResponseLeak
<1>1. IInv => NoResponseLeak
  BY DEF IInv
<1> QED
  BY <1>1, Invariance, PTL

(* A call that succeeds hands back a response nobody has drained.          *)
THEOREM SuccessIsReadable == Spec => []UsableResponse
<1>1. IInv => UsableResponse
  BY DEF IInv
<1> QED
  BY <1>1, Invariance, PTL

(* No attempt is sent a body an earlier attempt has consumed: whatever can *)
(* be retried was made rewindable before the first attempt.                *)
THEOREM BodiesAreWhole == Spec => []WholeBody
<1>1. IInv => WholeBody
  BY DEF IInv, BodyReady, WholeBody
<1> QED
  BY <1>1, Invariance, PTL

(* After its context has ended a call begins at most one more attempt.     *)
THEOREM CancelStopsLoop == Spec => []AtMostOneLateSend
<1>1. IInv => AtMostOneLateSend
  BY DEF IInv
<1> QED
  BY <1>1, Invariance, PTL

(* A request whose method may not be repeated is attempted once, whatever  *)
(* WithRetries and checkRetry say.                                         *)
THEOREM UnsafeGoOnce == Spec => [](~req.retryable => attempt = 0)
<1>1. IInv => (~req.retryable => attempt = 0)
  BY MaxRetriesAssumption DEF IInv, TypeOK, RetriesPrepared, CanRetry
<1> QED
  BY <1>1, Invariance, PTL

-----------------------------------------------------------------------------
(* No call goes on for ever.  Liveness itself is TLC's, but the number     *)
(* that has to run out for it is found here for every number of retries:   *)
(* every step of a call takes it down, and it does not fall below zero.    *)

(* Steps to the end of the attempt, or of the preparation.                 *)
StepsLeft ==
    [prepare |-> 8, drain |-> 7, check |-> 6, sleep |-> 5, rewind |-> 4,
     send |-> 3, inFlight |-> 2, decide |-> 1, returned |-> 0]

CallFuel ==
    10 * (MaxRetries - attempt) + StepsLeft[pc] + (IF ctxDone THEN 0 ELSE 1)

LEMMA FuelIsNatural == ASSUME TypeOK PROVE CallFuel \in Nat
<1>1. StepsLeft[pc] \in Nat
  BY DEF TypeOK, PcStates, StepsLeft
<1>2. MaxRetries - attempt \in Nat
  BY MaxRetriesAssumption DEF TypeOK
<1>3. (IF ctxDone THEN 0 ELSE 1) \in Nat
  OBVIOUS
<1> QED
  BY <1>1, <1>2, <1>3 DEF CallFuel

LEMMA StepTakesFuel ==
    ASSUME TypeOK, Next, ~UNCHANGED vars
    PROVE  CallFuel' < CallFuel
<1> DEFINE late == IF ctxDone THEN 0 ELSE 1
<1>1. /\ MaxRetries \in Nat /\ attempt \in 0 .. MaxRetries /\ late \in Nat
      /\ pc \in PcStates
  BY MaxRetriesAssumption DEF TypeOK
<1>2. ASSUME UNCHANGED <<attempt, ctxDone>>, pc' \in PcStates,
             StepsLeft[pc'] < StepsLeft[pc]
      PROVE  CallFuel' < CallFuel
  <2>1. StepsLeft[pc] \in Nat /\ StepsLeft[pc'] \in Nat
    BY <1>1, <1>2 DEF PcStates, StepsLeft
  <2>2. late' = late
    BY <1>2
  <2>3. CallFuel' = 10 * (MaxRetries - attempt) + StepsLeft[pc'] + late
    BY <1>2, <2>2 DEF CallFuel
  <2>4. CallFuel = 10 * (MaxRetries - attempt) + StepsLeft[pc] + late
    BY DEF CallFuel
  <2> HIDE DEF late
  <2> QED
    BY <1>1, <1>2, <2>1, <2>3, <2>4
<1>3. CASE Prepare
  BY <1>2, <1>3 DEF Prepare, Return, PcStates, StepsLeft
<1>4. CASE Send
  BY <1>2, <1>4 DEF Send, PcStates, StepsLeft
<1>5. ASSUME NEW s \in {"retryable", "final"}, AttemptResponds(s)
      PROVE  CallFuel' < CallFuel
  BY <1>2, <1>5 DEF AttemptResponds, PcStates, StepsLeft
<1>6. ASSUME NEW e \in ErrorClasses, AttemptFails(e)
      PROVE  CallFuel' < CallFuel
  BY <1>2, <1>6 DEF AttemptFails, PcStates, StepsLeft
<1>7. CASE Stop
  BY <1>2, <1>7 DEF Stop, Return, PcStates, StepsLeft
<1>8. CASE Retry
  <2>1. pc = "decide" /\ pc' = "drain" /\ attempt' = attempt + 1 /\ UNCHANGED ctxDone
    BY <1>8 DEF Retry
  <2>2. StepsLeft["decide"] = 1 /\ StepsLeft["drain"] = 7
    BY DEF StepsLeft
  <2>3. CallFuel' = 10 * (MaxRetries - (attempt + 1)) + 7 + late
    BY <2>1, <2>2 DEF CallFuel
  <2>4. CallFuel = 10 * (MaxRetries - attempt) + 1 + late
    BY <2>1, <2>2 DEF CallFuel
  <2> HIDE DEF late
  <2> QED
    BY <1>1, <2>3, <2>4
<1>9. CASE DrainAndClose
  BY <1>2, <1>9 DEF DrainAndClose, PcStates, StepsLeft
<1>10. CASE WaitCheck
  BY <1>2, <1>10 DEF WaitCheck, WaitChecksContext, Return, PcStates, StepsLeft
<1>11. CASE SleepInterrupted
  BY <1>2, <1>11 DEF SleepInterrupted, Return, PcStates, StepsLeft
<1>12. CASE SleepEnds
  BY <1>2, <1>12 DEF SleepEnds, PcStates, StepsLeft
<1>13. CASE Rewind
  BY <1>2, <1>13 DEF Rewind, PcStates, StepsLeft
<1>14. CASE RewindFails
  BY <1>2, <1>14 DEF RewindFails, Return, PcStates, StepsLeft
<1>15. CASE ContextEnds
  <2>1. ~ctxDone /\ ctxDone' /\ UNCHANGED <<pc, attempt>>
    BY <1>15 DEF ContextEnds
  <2>2. StepsLeft[pc] \in Nat
    BY <1>1 DEF PcStates, StepsLeft
  <2>3. CallFuel' = 10 * (MaxRetries - attempt) + StepsLeft[pc] + 0
    BY <2>1 DEF CallFuel
  <2>4. CallFuel = 10 * (MaxRetries - attempt) + StepsLeft[pc] + 1
    BY <2>1 DEF CallFuel
  <2> QED
    BY <1>1, <2>2, <2>3, <2>4
<1> QED
  BY <1>3, <1>4, <1>5, <1>6, <1>7, <1>8, <1>9, <1>10, <1>11, <1>12, <1>13,
     <1>14, <1>15 DEF Next, Returned

(* A call makes at most 10 * MaxRetries + 9 steps: no answer, checkRetry   *)
(* or context keeps the loop going beyond its attempts.                    *)
THEOREM CallsAreFinite ==
    Spec => /\ [](CallFuel \in 0 .. 10 * MaxRetries + 9)
            /\ [][CallFuel' < CallFuel]_vars
<1>1. Init => CallFuel = 10 * MaxRetries + 8 + (IF ctxDone THEN 0 ELSE 1)
  <2>1. Init => pc = "prepare" /\ attempt = 0
    BY DEF Init
  <2> QED
    BY <2>1, MaxRetriesAssumption DEF CallFuel, StepsLeft
<1>2. Init => CallFuel <= 10 * MaxRetries + 9
  BY <1>1, MaxRetriesAssumption
<1>3. TypeOK /\ [Next]_vars => [CallFuel' < CallFuel]_vars
  BY StepTakesFuel
<1>4. TypeOK => CallFuel \in Nat
  BY FuelIsNatural
<1>5. /\ TypeOK /\ (CallFuel \in Nat)' /\ [Next]_vars
      /\ CallFuel <= 10 * MaxRetries + 9
      => (CallFuel <= 10 * MaxRetries + 9)'
  <2> SUFFICES ASSUME TypeOK, CallFuel' \in Nat, [Next]_vars,
                      CallFuel <= 10 * MaxRetries + 9
               PROVE  CallFuel' <= 10 * MaxRetries + 9
    OBVIOUS
  <2>1. CallFuel \in Nat
    BY <1>4
  <2>2. CASE UNCHANGED vars
    <3>1. CallFuel' = CallFuel
      BY <2>2 DEF vars, CallFuel
    <3> QED
      BY <3>1
  <2>3. CASE ~UNCHANGED vars
    BY <2>1, <2>3, StepTakesFuel, MaxRetriesAssumption
  <2> QED
    BY <2>2, <2>3
<1>6. TypeOK /\ CallFuel <= 10 * MaxRetries + 9 => CallFuel \in 0 .. 10 * MaxRetries + 9
  BY <1>4, MaxRetriesAssumption
<1> QED
  BY <1>2, <1>3, <1>4, <1>5, <1>6, TypeCorrect, PTL DEF Spec

=============================================================================
