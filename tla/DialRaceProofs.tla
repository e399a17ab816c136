--------------------------- MODULE DialRaceProofs ---------------------------
(***************************************************************************)
(* Theorems about DialRace for every number of addresses and every delay:  *)
(* types, the drain accounting, the truth of the returned error, the head  *)
(* start, that nobody waits in vain and no race is endless, and that the   *)
(* call implements the safety part of ConnOwnership.                       *)
(***************************************************************************)
EXTENDS DialRace, FiniteSetTheorems, TLAPS

-----------------------------------------------------------------------------
(* The inductive invariant.  DrainAccounting alone is not inductive: that  *)
(* a receive takes one outstanding result away needs to know that what is  *)
(* in the channel is outstanding, each of it once, and that a start adds   *)
(* one needs to know that the started addresses are a prefix.              *)

StartedPrefix == \A a \in Addresses : attempt[a] = "unstarted" <=> a > started

QueueHoldsSent ==
    /\ \A i \in 1 .. Len(results) : attempt[results[i]] = "sent"
    /\ \A i, j \in 1 .. Len(results) : results[i] = results[j] => i = j

ConnFollowsAttempt ==
    \A a \in Addresses :
      /\ attempt[a] \in {"unstarted", "dialing"} => conn[a] = "none"
      /\ attempt[a] \in {"dialed", "sent"} => conn[a] \in {"none", "open"}
      /\ attempt[a] = "received" => conn[a] # "open"

NothingDecidedInLoop ==
    pc = "select" =>
      /\ outcome = "none"
      /\ drainLeft = 0
      /\ ctxDone => parentDone
      /\ \A a \in Addresses : attempt[a] = "received" => conn[a] = "none"

TimerTracksAge ==
    pc = "select" =>
      /\ timer.state = "running" => timer.left >= 1 /\ timer.left + age >= Delay
      /\ timer.state = "fired" => age >= Delay

(* The sequential loop has one dial at a time and uses nothing else. *)
SequentialAlone ==
    ~staggered =>
      /\ results = << >> /\ timer = Stopped
      /\ pc = "select" => completed = started - 1

IInv ==
    /\ TypeOK
    /\ SequentialAlone
    /\ StartedPrefix
    /\ QueueHoldsSent
    /\ ConnFollowsAttempt
    /\ NothingDecidedInLoop
    /\ TimerTracksAge
    /\ DrainAccounting
    /\ ErrorsAreEarned

-----------------------------------------------------------------------------
(* Counting the outstanding results. *)

(* The set the accounting counts, for any assignment of attempt states. *)
Pending(att) == {a \in Addresses : att[a] \in {"dialing", "dialed", "sent"}}

LEMMA PendingFinite ==
    ASSUME NEW att
    PROVE  /\ IsFiniteSet(Pending(att))
           /\ Cardinality(Pending(att)) \in Nat
<1>1. IsFiniteSet(Addresses)
  BY NAssumption, FS_Interval, 1 \in Int, N \in Int DEF Addresses
<1>2. Pending(att) \in SUBSET Addresses
  BY DEF Pending
<1> QED
  BY <1>1, <1>2, FS_Subset, FS_CardinalityType

(* Taking the result of a pending address leaves one fewer pending. *)
LEMMA TakeOne ==
    ASSUME NEW att \in [Addresses -> AttemptStates], NEW a \in Addresses,
           att[a] \in {"dialing", "dialed", "sent"}
    PROVE  /\ Cardinality(Pending([att EXCEPT ![a] = "received"]))
                = Cardinality(Pending(att)) - 1
           /\ Cardinality(Pending(att)) >= 1
<1> DEFINE after == [att EXCEPT ![a] = "received"]
<1>1. Pending(after) = Pending(att) \ {a}
  BY DEF Pending
<1>2. a \in Pending(att)
  BY DEF Pending
<1>3. Cardinality(Pending(after)) = Cardinality(Pending(att)) - 1
  BY <1>1, <1>2, PendingFinite, FS_RemoveElement
<1>4. Cardinality(Pending(after)) \in Nat /\ Cardinality(Pending(att)) \in Nat
  BY PendingFinite
<1> QED
  BY <1>3, <1>4

(* Starting an address adds one. *)
LEMMA StartOne ==
    ASSUME NEW att \in [Addresses -> AttemptStates], NEW a \in Addresses,
           att[a] = "unstarted"
    PROVE  Cardinality(Pending([att EXCEPT ![a] = "dialing"]))
               = Cardinality(Pending(att)) + 1
<1> DEFINE after == [att EXCEPT ![a] = "dialing"]
<1>1. Pending(after) = Pending(att) \cup {a}
  BY DEF Pending
<1>2. a \notin Pending(att)
  BY DEF Pending
<1> QED
  BY <1>1, <1>2, PendingFinite, FS_AddElement

(* A goroutine moving on without its result being taken changes nothing. *)
LEMMA MoveOne ==
    ASSUME NEW att \in [Addresses -> AttemptStates], NEW a \in Addresses,
           att[a] \in {"dialing", "dialed"}, NEW s \in {"dialed", "sent"}
    PROVE  Pending([att EXCEPT ![a] = s]) = Pending(att)
BY DEF Pending

LEMMA OutstandingIsPending == Outstanding = Pending(attempt)
BY DEF Outstanding, Pending

LEMMA OutstandingIsPendingNext == Outstanding' = Pending(attempt')
BY DEF Outstanding, Pending

(* Nothing pending: the count is zero. *)
LEMMA NonePending ==
    ASSUME NEW att, Cardinality(Pending(att)) = 0
    PROVE  Pending(att) = {}
BY PendingFinite, FS_EmptySet

(* All started and none pending: every address has reported. *)
LEMMA AllReported ==
    ASSUME TypeOK', StartedPrefix', Pending(attempt') = {}, started' = N
    PROVE  \A a \in Addresses : attempt'[a] = "received"
<1> TAKE a \in Addresses
<1>1. attempt'[a] \in AttemptStates
  BY DEF TypeOK
<1>2. attempt'[a] # "unstarted"
  BY NAssumption DEF StartedPrefix, Addresses
<1>3. attempt'[a] \notin {"dialing", "dialed", "sent"}
  BY DEF Pending
<1> QED
  BY <1>1, <1>2, <1>3 DEF AttemptStates

-----------------------------------------------------------------------------
(* The channel. *)

(* The oldest result is of an address that has sent, and the rest of the   *)
(* channel still holds, once each, addresses that have sent.               *)
LEMMA TakeHead ==
    ASSUME TypeOK, QueueHoldsSent, results # << >>
    PROVE  /\ Head(results) \in Addresses
           /\ attempt[Head(results)] = "sent"
           /\ Tail(results) \in Seq(Addresses)
           /\ \A i \in 1 .. Len(Tail(results)) :
                /\ Tail(results)[i] # Head(results)
                /\ attempt[Tail(results)[i]] = "sent"
                /\ Tail(results)[i] \in Addresses
           /\ \A i, j \in 1 .. Len(Tail(results)) :
                Tail(results)[i] = Tail(results)[j] => i = j
<1> USE DEF TypeOK, QueueHoldsSent
<1>1. Len(results) \in Nat /\ Len(results) >= 1 /\ Head(results) = results[1]
  OBVIOUS
<1>2. /\ Tail(results) \in Seq(Addresses)
      /\ Len(Tail(results)) = Len(results) - 1
      /\ \A i \in 1 .. Len(Tail(results)) : Tail(results)[i] = results[i + 1]
  BY <1>1
<1>3. \A i \in 1 .. Len(results) : results[i] \in Addresses
  OBVIOUS
<1> HIDE DEF TypeOK
<1>4. \A i \in 1 .. Len(Tail(results)) : i + 1 \in 1 .. Len(results) /\ i + 1 # 1
  BY <1>1, <1>2
<1>5. \A i \in 1 .. Len(Tail(results)) :
                /\ Tail(results)[i] # Head(results)
                /\ attempt[Tail(results)[i]] = "sent"
                /\ Tail(results)[i] \in Addresses
  BY <1>1, <1>2, <1>3, <1>4
<1>6. \A i, j \in 1 .. Len(Tail(results)) :
                Tail(results)[i] = Tail(results)[j] => i = j
  BY <1>1, <1>2, <1>4
<1>7. Head(results) \in Addresses /\ attempt[Head(results)] = "sent"
  BY <1>1, <1>3
<1> QED
  BY <1>2, <1>5, <1>6, <1>7

-----------------------------------------------------------------------------
(* The invariant holds initially and every action keeps it. *)

LEMMA InitIInv == Init => IInv
<1> SUFFICES ASSUME Init PROVE IInv
  OBVIOUS
<1> USE NAssumption, DelayAssumption
<1>1. 1 \in Addresses
  BY DEF Addresses
<1>2. TypeOK
  <2>1. attempt \in [Addresses -> AttemptStates] /\ conn \in [Addresses -> ConnStates]
    BY DEF Init, AttemptStates, ConnStates
  <2>2. timer \in [state : TimerStates, left : 0 .. Delay]
    BY DEF Init, TimerStates, Armed, Stopped
  <2>3. started \in 1 .. N /\ completed \in 0 .. N /\ drainLeft \in 0 .. N
        /\ age \in 0 .. Delay
    BY DEF Init
  <2>4. results \in Seq(Addresses)
    BY DEF Init
  <2>5. outcome \in Outcomes
    BY DEF Init, Outcomes
  <2> QED
    BY <2>1, <2>2, <2>3, <2>4, <2>5 DEF Init, TypeOK
<1>3. StartedPrefix /\ QueueHoldsSent /\ ConnFollowsAttempt
  BY DEF Init, StartedPrefix, QueueHoldsSent, ConnFollowsAttempt, Addresses
<1>4. NothingDecidedInLoop /\ TimerTracksAge /\ ErrorsAreEarned /\ SequentialAlone
  BY DEF Init, NothingDecidedInLoop, TimerTracksAge, ErrorsAreEarned, Armed,
         Stopped, SequentialAlone
<1>5. DrainAccounting
  <2>1. Outstanding = {1}
    BY <1>1 DEF Init, Outstanding
  <2>2. Cardinality({1}) = 1
    BY FS_Singleton
  <2> QED
    BY <2>1, <2>2 DEF Init, DrainAccounting
<1> QED
  BY <1>2, <1>3, <1>4, <1>5 DEF IInv

(* What the accounting says of the counters while the loop runs. *)
LEMMA CountersInLoop ==
    ASSUME IInv, pc = "select"
    PROVE  /\ Cardinality(Pending(attempt)) = started - completed
           /\ completed <= started
BY OutstandingIsPending, PendingFinite DEF IInv, DrainAccounting, TypeOK

LEMMA DialSucceedsKeeps ==
    ASSUME IInv, NEW a \in Addresses, DialSucceeds(a)
    PROVE  IInv'
<1> USE DEF IInv, DialSucceeds
<1>1. TypeOK'
  BY DEF TypeOK, AttemptStates, ConnStates
<1>2. StartedPrefix' /\ QueueHoldsSent'
  BY DEF StartedPrefix, QueueHoldsSent, TypeOK
<1>3. ConnFollowsAttempt' /\ NothingDecidedInLoop'
  BY DEF ConnFollowsAttempt, NothingDecidedInLoop, TypeOK
<1>4. TimerTracksAge' /\ SequentialAlone'
  BY DEF TimerTracksAge, SequentialAlone
<1>5. DrainAccounting'
  BY MoveOne, OutstandingIsPending, OutstandingIsPendingNext
     DEF DrainAccounting, TypeOK
<1>6. ErrorsAreEarned'
  BY DEF ErrorsAreEarned, TypeOK
<1> QED
  BY <1>1, <1>2, <1>3, <1>4, <1>5, <1>6

LEMMA DialFailsKeeps ==
    ASSUME IInv, NEW a \in Addresses, DialFails(a)
    PROVE  IInv'
<1> USE DEF IInv, DialFails
<1>1. TypeOK'
  BY DEF TypeOK, AttemptStates
<1>2. StartedPrefix' /\ QueueHoldsSent'
  BY DEF StartedPrefix, QueueHoldsSent, TypeOK
<1>3. ConnFollowsAttempt' /\ NothingDecidedInLoop'
  BY DEF ConnFollowsAttempt, NothingDecidedInLoop, TypeOK
<1>4. TimerTracksAge' /\ SequentialAlone'
  BY DEF TimerTracksAge, SequentialAlone
<1>5. DrainAccounting'
  BY MoveOne, OutstandingIsPending, OutstandingIsPendingNext
     DEF DrainAccounting, TypeOK
<1>6. ErrorsAreEarned'
  BY DEF ErrorsAreEarned, TypeOK
<1> QED
  BY <1>1, <1>2, <1>3, <1>4, <1>5, <1>6

LEMMA SendKeeps ==
    ASSUME IInv, NEW a \in Addresses, Send(a)
    PROVE  IInv'
<1> USE DEF IInv, Send
<1>1. TypeOK'
  BY DEF TypeOK, AttemptStates
<1>2. StartedPrefix'
  BY DEF StartedPrefix, TypeOK
<1>3. QueueHoldsSent'
  <2>1. /\ Len(results') = Len(results) + 1
        /\ Len(results) \in Nat
        /\ \A i \in 1 .. Len(results) : results'[i] = results[i] /\ results[i] # a
        /\ results'[Len(results) + 1] = a
        /\ \A i \in 1 .. Len(results) : results[i] \in Addresses
    BY DEF TypeOK, QueueHoldsSent
  <2>2. \A i \in 1 .. Len(results') : attempt'[results'[i]] = "sent"
    BY <2>1 DEF TypeOK, QueueHoldsSent
  <2>3. \A i, j \in 1 .. Len(results') : results'[i] = results'[j] => i = j
    BY <2>1 DEF QueueHoldsSent
  <2> QED
    BY <2>2, <2>3 DEF QueueHoldsSent
<1>4. ConnFollowsAttempt' /\ NothingDecidedInLoop'
  BY DEF ConnFollowsAttempt, NothingDecidedInLoop, TypeOK
<1>5. TimerTracksAge' /\ SequentialAlone'
  BY DEF TimerTracksAge, SequentialAlone
<1>6. DrainAccounting'
  BY MoveOne, OutstandingIsPending, OutstandingIsPendingNext
     DEF DrainAccounting, TypeOK
<1>7. ErrorsAreEarned'
  BY DEF ErrorsAreEarned, TypeOK
<1> QED
  BY <1>1, <1>2, <1>3, <1>4, <1>5, <1>6, <1>7

LEMMA ContextDoneKeeps ==
    ASSUME IInv, ContextDone
    PROVE  IInv'
<1> USE DEF IInv, ContextDone, Return
<1>1. TypeOK'
  <2>1. timer' \in [state : TimerStates, left : 0 .. Delay]
    BY DelayAssumption DEF Stopped, TimerStates
  <2>2. drainLeft' \in 0 .. N
    BY CountersInLoop, NAssumption DEF TypeOK, DrainCount
  <2> QED
    BY <2>1, <2>2 DEF TypeOK, Outcomes
<1>2. StartedPrefix' /\ QueueHoldsSent' /\ ConnFollowsAttempt'
  BY DEF StartedPrefix, QueueHoldsSent, ConnFollowsAttempt
<1>3. NothingDecidedInLoop' /\ TimerTracksAge' /\ SequentialAlone'
  BY DEF NothingDecidedInLoop, TimerTracksAge, SequentialAlone
<1>4. DrainAccounting'
  BY OutstandingIsPending, OutstandingIsPendingNext
     DEF DrainAccounting, DrainCount
<1>5. ErrorsAreEarned'
  BY DEF ErrorsAreEarned, NothingDecidedInLoop
<1> QED
  BY <1>1, <1>2, <1>3, <1>4, <1>5

LEMMA ParentCancelKeeps ==
    ASSUME IInv, ParentCancel
    PROVE  IInv'
<1> USE DEF IInv, ParentCancel
<1>1. TypeOK' /\ StartedPrefix' /\ QueueHoldsSent' /\ ConnFollowsAttempt'
  BY DEF TypeOK, StartedPrefix, QueueHoldsSent, ConnFollowsAttempt
<1>2. NothingDecidedInLoop' /\ TimerTracksAge' /\ ErrorsAreEarned' /\ SequentialAlone'
  BY DEF NothingDecidedInLoop, TimerTracksAge, ErrorsAreEarned, SequentialAlone
<1>3. DrainAccounting'
  BY OutstandingIsPending, OutstandingIsPendingNext DEF DrainAccounting
<1> QED
  BY <1>1, <1>2, <1>3

LEMMA TickKeeps ==
    ASSUME IInv, Tick
    PROVE  IInv'
<1> USE DelayAssumption DEF IInv, Tick
<1>1. TypeOK'
  BY DEF TypeOK, TimerStates
<1>2. StartedPrefix' /\ QueueHoldsSent' /\ ConnFollowsAttempt' /\ ErrorsAreEarned'
  BY DEF StartedPrefix, QueueHoldsSent, ConnFollowsAttempt, ErrorsAreEarned
<1>3. NothingDecidedInLoop' /\ SequentialAlone'
  BY DEF NothingDecidedInLoop, SequentialAlone, Stopped
<1>4. TimerTracksAge'
  BY DEF TimerTracksAge, TypeOK, TimerStates
<1>5. DrainAccounting'
  BY OutstandingIsPending, OutstandingIsPendingNext DEF DrainAccounting
<1> QED
  BY <1>1, <1>2, <1>3, <1>4, <1>5

(* The channel after its oldest result was taken. *)
LEMMA QueueAfterTake ==
    ASSUME IInv, results # << >>, results' = Tail(results),
           \A a \in Addresses : a # Head(results) /\ attempt[a] = "sent"
                                  => attempt'[a] = "sent"
    PROVE  QueueHoldsSent'
BY TakeHead DEF IInv, QueueHoldsSent

LEMMA ReceiveConnKeeps ==
    ASSUME IInv, ReceiveConn
    PROVE  IInv'
<1> DEFINE h == Head(results)
<1>1. /\ h \in Addresses /\ attempt[h] = "sent" /\ conn[h] = "open"
      /\ Tail(results) \in Seq(Addresses)
  BY TakeHead DEF IInv, ReceiveConn
<1>2. /\ attempt' = [attempt EXCEPT ![h] = "received"]
      /\ conn' = [conn EXCEPT ![h] = "returned"]
      /\ pc = "select" /\ pc' = "returned" /\ outcome' = "conn"
      /\ completed' = completed + 1 /\ drainLeft' = started - (completed + 1)
      /\ results # << >> /\ results' = Tail(results)
      /\ timer' = Stopped /\ ctxDone' = TRUE
      /\ UNCHANGED <<staggered, started, parentDone, age>>
  BY DEF ReceiveConn, Return, DrainCount
<1>3. /\ Cardinality(Pending(attempt')) = Cardinality(Pending(attempt)) - 1
      /\ Cardinality(Pending(attempt)) >= 1
  BY <1>1, <1>2, TakeOne DEF IInv, TypeOK
<1>4. Cardinality(Pending(attempt)) = started - completed
  BY <1>2, CountersInLoop
<1>5. TypeOK'
  <2>1. timer' \in [state : TimerStates, left : 0 .. Delay]
    BY <1>2, DelayAssumption DEF Stopped, TimerStates
  <2>2. completed' \in 0 .. N /\ drainLeft' \in 0 .. N
    BY <1>2, <1>3, <1>4, NAssumption DEF IInv, TypeOK
  <2>3. attempt' \in [Addresses -> AttemptStates] /\ conn' \in [Addresses -> ConnStates]
    BY <1>1, <1>2 DEF IInv, TypeOK, AttemptStates, ConnStates
  <2> QED
    BY <1>1, <1>2, <2>1, <2>2, <2>3 DEF IInv, TypeOK, Outcomes
<1>6. StartedPrefix' /\ ConnFollowsAttempt'
  BY <1>1, <1>2 DEF IInv, TypeOK, StartedPrefix, ConnFollowsAttempt
<1>7. QueueHoldsSent'
  BY <1>2, QueueAfterTake DEF IInv, TypeOK
<1>8. NothingDecidedInLoop' /\ TimerTracksAge' /\ ErrorsAreEarned' /\ SequentialAlone'
  BY <1>2 DEF NothingDecidedInLoop, TimerTracksAge, ErrorsAreEarned, IInv, SequentialAlone
<1>9. DrainAccounting'
  <2>1. Cardinality(Pending(attempt')) = drainLeft'
    BY <1>2, <1>3, <1>4 DEF IInv, TypeOK
  <2> QED
    BY <1>2, <2>1, OutstandingIsPendingNext DEF DrainAccounting
<1> QED
  BY <1>5, <1>6, <1>7, <1>8, <1>9 DEF IInv

LEMMA DrainKeeps ==
    ASSUME IInv, Drain
    PROVE  IInv'
<1> DEFINE h == Head(results)
<1>1. /\ h \in Addresses /\ attempt[h] = "sent"
      /\ Tail(results) \in Seq(Addresses)
  BY TakeHead DEF IInv, Drain
<1>2. /\ attempt' = [attempt EXCEPT ![h] = "received"]
      /\ conn' = [conn EXCEPT ![h] = IF conn[h] = "open" THEN "closed" ELSE conn[h]]
      /\ drainLeft > 0 /\ drainLeft' = drainLeft - 1
      /\ results # << >> /\ results' = Tail(results)
      /\ UNCHANGED <<staggered, pc, started, completed, timer, parentDone, ctxDone,
                     outcome, age>>
  BY DEF Drain
<1>3. pc = "returned"
  BY <1>2 DEF IInv, NothingDecidedInLoop, TypeOK
<1>4. /\ Cardinality(Pending(attempt')) = Cardinality(Pending(attempt)) - 1
      /\ Cardinality(Pending(attempt)) \in Nat
  BY <1>1, <1>2, TakeOne, PendingFinite DEF IInv, TypeOK
<1>5. TypeOK'
  <2>1. attempt' \in [Addresses -> AttemptStates] /\ conn' \in [Addresses -> ConnStates]
    BY <1>1, <1>2 DEF IInv, TypeOK, AttemptStates, ConnStates
  <2>2. drainLeft' \in 0 .. N
    BY <1>2, NAssumption DEF IInv, TypeOK
  <2> QED
    BY <1>1, <1>2, <2>1, <2>2 DEF IInv, TypeOK
<1>6. StartedPrefix' /\ ConnFollowsAttempt'
  BY <1>1, <1>2 DEF IInv, TypeOK, StartedPrefix, ConnFollowsAttempt
<1>7. QueueHoldsSent'
  BY <1>2, QueueAfterTake DEF IInv, TypeOK
<1>8. NothingDecidedInLoop' /\ TimerTracksAge' /\ SequentialAlone'
  BY <1>2, <1>3 DEF NothingDecidedInLoop, TimerTracksAge, IInv, SequentialAlone
<1>9. ErrorsAreEarned'
  BY <1>1, <1>2 DEF IInv, ErrorsAreEarned, TypeOK
<1>10. DrainAccounting'
  BY <1>2, <1>3, <1>4, OutstandingIsPending, OutstandingIsPendingNext
     DEF IInv, DrainAccounting, TypeOK
<1> QED
  BY <1>5, <1>6, <1>7, <1>8, <1>9, <1>10 DEF IInv

LEMMA FallbackTimerKeeps ==
    ASSUME IInv, FallbackTimer
    PROVE  IInv'
<1> USE NAssumption, DelayAssumption
<1>1. /\ pc = "select" /\ timer.state = "fired"
      /\ timer' \in {Armed, Stopped}
      /\ UNCHANGED <<staggered, pc, completed, conn, results, parentDone, ctxDone,
                     drainLeft, outcome>>
  BY DEF FallbackTimer
<1>2. timer' \in [state : TimerStates, left : 0 .. Delay]
  BY <1>1 DEF Armed, Stopped, TimerStates
<1>3. CASE started < N
  <2>1. /\ started + 1 \in Addresses /\ attempt[started + 1] = "unstarted"
        /\ started' = started + 1 /\ age' = 0
        /\ attempt' = [attempt EXCEPT ![started + 1] = "dialing"]
    BY <1>3 DEF IInv, TypeOK, StartedPrefix, Addresses, FallbackTimer
  <2>2. TypeOK'
    BY <1>1, <1>2, <1>3, <2>1 DEF IInv, TypeOK, AttemptStates
  <2>3. StartedPrefix'
    BY <2>1 DEF IInv, TypeOK, StartedPrefix, Addresses
  <2>4. ConnFollowsAttempt' /\ NothingDecidedInLoop' /\ QueueHoldsSent'
    BY <1>1, <2>1 DEF IInv, TypeOK, ConnFollowsAttempt, NothingDecidedInLoop,
                      QueueHoldsSent
  <2>5. TimerTracksAge' /\ SequentialAlone'
    BY <1>1, <2>1 DEF TimerTracksAge, Armed, Stopped, IInv, SequentialAlone
  <2>6. DrainAccounting'
    <3>1. Cardinality(Pending(attempt')) = Cardinality(Pending(attempt)) + 1
      BY <2>1, StartOne DEF IInv, TypeOK
    <3>2. Cardinality(Pending(attempt)) = started - completed
      BY <1>1, CountersInLoop
    <3> QED
      BY <1>1, <2>1, <3>1, <3>2, OutstandingIsPendingNext
         DEF IInv, TypeOK, DrainAccounting
  <2>7. ErrorsAreEarned'
    BY <1>1 DEF IInv, NothingDecidedInLoop, ErrorsAreEarned
  <2> QED
    BY <2>2, <2>3, <2>4, <2>5, <2>6, <2>7 DEF IInv
<1>4. CASE ~(started < N)
  <2>1. UNCHANGED <<attempt, started, age>> /\ timer' = Stopped
    BY <1>4 DEF FallbackTimer
  <2>2. TypeOK' /\ StartedPrefix' /\ ConnFollowsAttempt' /\ QueueHoldsSent'
    BY <1>1, <1>2, <2>1 DEF IInv, TypeOK, StartedPrefix, ConnFollowsAttempt,
                            QueueHoldsSent
  <2>3. NothingDecidedInLoop' /\ TimerTracksAge' /\ ErrorsAreEarned' /\ SequentialAlone'
    BY <1>1, <2>1 DEF IInv, NothingDecidedInLoop, TimerTracksAge,
                      ErrorsAreEarned, Stopped, SequentialAlone
  <2>4. DrainAccounting'
    BY <1>1, <2>1, OutstandingIsPending, OutstandingIsPendingNext
       DEF IInv, DrainAccounting
  <2> QED
    BY <2>2, <2>3, <2>4 DEF IInv
<1> QED
  BY <1>3, <1>4

LEMMA ReceiveFailureKeeps ==
    ASSUME IInv, ReceiveFailure
    PROVE  IInv'
<1> USE NAssumption, DelayAssumption
<1> DEFINE h == Head(results)
           received == [attempt EXCEPT ![h] = "received"]
<1>1. /\ h \in Addresses /\ attempt[h] = "sent" /\ conn[h] = "none"
      /\ Tail(results) \in Seq(Addresses)
  BY TakeHead DEF IInv, ReceiveFailure
<1>2. /\ pc = "select" /\ results # << >> /\ results' = Tail(results)
      /\ completed' = completed + 1
      /\ UNCHANGED <<staggered, conn, parentDone, drainLeft>>
  BY DEF ReceiveFailure
<1>3. /\ Cardinality(Pending(received)) = Cardinality(Pending(attempt)) - 1
      /\ Cardinality(Pending(attempt)) >= 1
      /\ Cardinality(Pending(attempt)) = started - completed
      /\ received \in [Addresses -> AttemptStates]
  BY <1>1, <1>2, TakeOne, CountersInLoop DEF IInv, TypeOK, AttemptStates
<1>4. completed' \in 0 .. N /\ completed' <= started
  BY <1>2, <1>3 DEF IInv, TypeOK
<1>5. CASE StartsNext(completed + 1)
  <2>1. /\ attempt' = [received EXCEPT ![started + 1] = "dialing"]
        /\ started' = started + 1 /\ age' = 0 /\ timer' = Armed
        /\ UNCHANGED <<pc, ctxDone, outcome>>
        /\ started < N /\ completed + 1 = started
    BY <1>5 DEF ReceiveFailure, RearmAfterFailure, StartsNext
  <2>2. /\ started + 1 \in Addresses /\ started + 1 # h
        /\ attempt[started + 1] = "unstarted" /\ received[started + 1] = "unstarted"
    BY <1>1, <2>1 DEF IInv, TypeOK, StartedPrefix, Addresses
  <2>3. Cardinality(Pending(attempt')) = Cardinality(Pending(received)) + 1
    BY <1>3, <2>1, <2>2, StartOne
  <2>4. TypeOK'
    <3>1. attempt' \in [Addresses -> AttemptStates]
      BY <1>3, <2>1 DEF AttemptStates
    <3>2. timer' \in [state : TimerStates, left : 0 .. Delay]
      BY <2>1 DEF Armed, TimerStates
    <3>3. started' \in 1 .. N /\ age' \in 0 .. Delay
      BY <2>1 DEF IInv, TypeOK
    <3> QED
      BY <1>1, <1>2, <1>4, <2>1, <3>1, <3>2, <3>3 DEF IInv, TypeOK
  <2>5. StartedPrefix'
    BY <1>1, <2>1, <2>2 DEF IInv, TypeOK, StartedPrefix, Addresses
  <2>6. ConnFollowsAttempt' /\ NothingDecidedInLoop'
    BY <1>1, <1>2, <2>1, <2>2 DEF IInv, TypeOK, ConnFollowsAttempt,
                                  NothingDecidedInLoop
  <2>7. QueueHoldsSent'
    BY <1>2, <2>1, <2>2, QueueAfterTake DEF IInv, TypeOK
  <2>8. TimerTracksAge' /\ SequentialAlone'
    BY <1>2, <2>1 DEF TimerTracksAge, Armed, IInv, SequentialAlone
  <2>9. DrainAccounting'
    BY <1>2, <1>3, <2>1, <2>3, OutstandingIsPendingNext
       DEF IInv, TypeOK, DrainAccounting
  <2>10. ErrorsAreEarned'
    BY <1>2, <2>1 DEF IInv, NothingDecidedInLoop, ErrorsAreEarned
  <2> QED
    BY <2>4, <2>5, <2>6, <2>7, <2>8, <2>9, <2>10 DEF IInv
<1>6. CASE ~StartsNext(completed + 1)
  <2>1. /\ attempt' = received /\ UNCHANGED <<started, age>>
        /\ \/ /\ UNCHANGED <<pc, ctxDone, outcome, timer>>
              /\ completed + 1 < N
           \/ /\ pc' = "returned" /\ outcome' = "allFailed" /\ timer' = Stopped
              /\ ctxDone' = TRUE /\ completed + 1 >= N
    BY <1>6 DEF ReceiveFailure, Return, Exhausted, IInv, TypeOK
  <2>2. /\ Cardinality(Pending(attempt')) = started' - completed'
        /\ completed' >= N => Cardinality(Pending(attempt')) = 0
    BY <1>2, <1>3, <1>4, <2>1 DEF IInv, TypeOK
  <2>3. TypeOK'
    <3>1. timer' \in [state : TimerStates, left : 0 .. Delay]
      BY <2>1 DEF IInv, TypeOK, Stopped, TimerStates
    <3> QED
      BY <1>1, <1>2, <1>3, <1>4, <2>1, <3>1 DEF IInv, TypeOK, Outcomes
  <2>4. StartedPrefix' /\ ConnFollowsAttempt'
    BY <1>1, <1>2, <2>1 DEF IInv, TypeOK, StartedPrefix, ConnFollowsAttempt
  <2>5. QueueHoldsSent'
    BY <1>2, <2>1, QueueAfterTake DEF IInv, TypeOK
  <2>6. NothingDecidedInLoop' /\ TimerTracksAge' /\ SequentialAlone'
    BY <1>1, <1>2, <2>1 DEF IInv, TypeOK, NothingDecidedInLoop, TimerTracksAge,
                            SequentialAlone
  <2>7. DrainAccounting'
    BY <1>2, <2>1, <2>2, OutstandingIsPendingNext
       DEF IInv, NothingDecidedInLoop, DrainAccounting, TypeOK
  <2>8. ErrorsAreEarned'
    <3>1. CASE outcome' = outcome
      BY <1>2, <2>1, <3>1 DEF IInv, NothingDecidedInLoop, ErrorsAreEarned
    <3>2. CASE outcome' = "allFailed"
      <4>1. completed' >= N
        BY <1>2, <2>1, <3>2 DEF IInv, NothingDecidedInLoop
      <4>2. Pending(attempt') = {} /\ started' = N
        BY <1>4, <2>1, <2>2, <4>1, NonePending DEF IInv, TypeOK
      <4>3. \A a \in Addresses : attempt'[a] = "received"
        BY <2>3, <2>4, <4>2, AllReported
      <4>4. \A a \in Addresses : conn'[a] = "none"
        BY <1>1, <1>2, <2>1, <4>3 DEF IInv, TypeOK, NothingDecidedInLoop
      <4> QED
        BY <3>2, <4>3, <4>4 DEF ErrorsAreEarned
    <3> QED
      BY <2>1, <3>1, <3>2
  <2> QED
    BY <2>3, <2>4, <2>5, <2>6, <2>7, <2>8 DEF IInv
<1> QED
  BY <1>5, <1>6

(* What a dial of the sequential loop finds when it has returned. *)
LEMMA SequentialDialed ==
    ASSUME IInv, ~staggered, pc = "select", attempt[started] = "dialed"
    PROVE  /\ started \in Addresses /\ started \in Nat
           /\ results = << >> /\ timer = Stopped /\ completed + 1 = started
           /\ Cardinality(Pending([attempt EXCEPT ![started] = "received"])) = 0
<1>1. /\ started \in Addresses /\ started \in Nat /\ completed \in Nat
      /\ attempt \in [Addresses -> AttemptStates]
  BY NAssumption DEF IInv, TypeOK, Addresses
<1>2. results = << >> /\ timer = Stopped /\ completed + 1 = started
  BY <1>1 DEF IInv, SequentialAlone
<1>3. Cardinality(Pending(attempt)) = 1
  BY <1>1, <1>2, CountersInLoop
<1>4. Cardinality(Pending([attempt EXCEPT ![started] = "received"]))
        = Cardinality(Pending(attempt)) - 1
  BY <1>1, TakeOne
<1> QED
  BY <1>1, <1>2, <1>3, <1>4

LEMMA SequentialConnKeeps ==
    ASSUME IInv, SequentialConn
    PROVE  IInv'
<1>1. /\ started \in Addresses /\ started \in Nat
      /\ results = << >> /\ timer = Stopped /\ completed + 1 = started
      /\ Cardinality(Pending([attempt EXCEPT ![started] = "received"])) = 0
  BY SequentialDialed DEF SequentialConn
<1>2. /\ attempt' = [attempt EXCEPT ![started] = "received"]
      /\ conn' = [conn EXCEPT ![started] = "returned"]
      /\ attempt[started] = "dialed" /\ ~staggered
      /\ pc = "select" /\ pc' = "returned" /\ outcome' = "conn"
      /\ completed' = completed + 1
      /\ UNCHANGED <<staggered, started, results, timer, parentDone, ctxDone,
                     drainLeft, age>>
  BY DEF SequentialConn, SequentialReturn
<1>3. TypeOK'
  <2>1. attempt' \in [Addresses -> AttemptStates] /\ conn' \in [Addresses -> ConnStates]
    BY <1>1, <1>2 DEF IInv, TypeOK, AttemptStates, ConnStates
  <2>2. completed' \in 0 .. N
    BY <1>1, <1>2 DEF Addresses
  <2> QED
    BY <1>2, <2>1, <2>2 DEF IInv, TypeOK, Outcomes
<1>4. StartedPrefix' /\ ConnFollowsAttempt' /\ QueueHoldsSent'
  BY <1>1, <1>2 DEF IInv, TypeOK, StartedPrefix, ConnFollowsAttempt, QueueHoldsSent
<1>5. NothingDecidedInLoop' /\ TimerTracksAge' /\ ErrorsAreEarned' /\ SequentialAlone'
  BY <1>1, <1>2 DEF NothingDecidedInLoop, TimerTracksAge, ErrorsAreEarned,
                    SequentialAlone
<1>6. DrainAccounting'
  BY <1>1, <1>2, OutstandingIsPendingNext
     DEF IInv, NothingDecidedInLoop, DrainAccounting
<1> QED
  BY <1>3, <1>4, <1>5, <1>6 DEF IInv

LEMMA SequentialFailureKeeps ==
    ASSUME IInv, SequentialFailure
    PROVE  IInv'
<1> DEFINE received == [attempt EXCEPT ![started] = "received"]
<1>1. /\ started \in Addresses /\ started \in Nat
      /\ results = << >> /\ timer = Stopped /\ completed + 1 = started
      /\ Cardinality(Pending(received)) = 0
      /\ received \in [Addresses -> AttemptStates]
  BY SequentialDialed DEF SequentialFailure, IInv, TypeOK, AttemptStates
<1>2. /\ attempt[started] = "dialed" /\ conn[started] = "none"
      /\ ~staggered /\ pc = "select" /\ completed' = completed + 1
      /\ UNCHANGED <<staggered, conn, results, timer, parentDone, ctxDone, drainLeft>>
  BY DEF SequentialFailure
<1>3. completed' \in 0 .. N
  BY <1>1, <1>2 DEF Addresses
<1>4. CASE ~parentDone /\ started < N
  <2>1. /\ attempt' = [received EXCEPT ![started + 1] = "dialing"]
        /\ started' = started + 1 /\ age' = 0
        /\ UNCHANGED <<pc, outcome>>
    BY <1>1, <1>4 DEF SequentialFailure, Addresses
  <2>2. /\ started + 1 \in Addresses
        /\ attempt[started + 1] = "unstarted" /\ received[started + 1] = "unstarted"
    <3>1. started + 1 \in Addresses /\ started + 1 > started /\ started + 1 # started
      BY <1>1, <1>4, NAssumption DEF Addresses
    <3>2. attempt[started + 1] = "unstarted"
      BY <3>1 DEF IInv, StartedPrefix
    <3> QED
      BY <3>1, <3>2 DEF IInv, TypeOK
  <2>3. TypeOK'
    <3>1. attempt' \in [Addresses -> AttemptStates]
      BY <1>1, <2>1 DEF AttemptStates
    <3>2. started' \in 1 .. N /\ age' \in 0 .. Delay
      BY <1>1, <1>4, <2>1, NAssumption, DelayAssumption
    <3> QED
      BY <1>2, <1>3, <2>1, <3>1, <3>2 DEF IInv, TypeOK
  <2>4. StartedPrefix' /\ QueueHoldsSent'
    BY <1>1, <1>2, <2>1, <2>2 DEF IInv, TypeOK, StartedPrefix, QueueHoldsSent, Addresses
  <2>5. ConnFollowsAttempt' /\ NothingDecidedInLoop'
    BY <1>1, <1>2, <2>1, <2>2 DEF IInv, TypeOK, ConnFollowsAttempt,
                                  NothingDecidedInLoop
  <2>6. TimerTracksAge' /\ SequentialAlone'
    BY <1>1, <1>2, <2>1 DEF TimerTracksAge, SequentialAlone, Stopped
  <2>7. DrainAccounting'
    <3>1. Cardinality(Pending(attempt')) = 1
      <4>1. Cardinality(Pending(attempt')) = Cardinality(Pending(received)) + 1
        BY <1>1, <2>1, <2>2, StartOne
      <4> QED
        BY <1>1, <4>1
    <3> QED
      BY <1>1, <1>2, <2>1, <3>1, OutstandingIsPendingNext DEF DrainAccounting
  <2>8. ErrorsAreEarned'
    BY <1>2, <2>1 DEF IInv, NothingDecidedInLoop, ErrorsAreEarned
  <2> QED
    BY <2>3, <2>4, <2>5, <2>6, <2>7, <2>8 DEF IInv
<1>5. CASE parentDone \/ started = N
  <2>1. /\ attempt' = received /\ UNCHANGED <<started, age>>
        /\ pc' = "returned"
        /\ outcome' = IF parentDone THEN "ctxErr" ELSE "allFailed"
    BY <1>1, <1>5 DEF SequentialFailure, SequentialReturn
  <2>2. TypeOK'
    BY <1>1, <1>2, <1>3, <2>1 DEF IInv, TypeOK, Outcomes
  <2>3. StartedPrefix' /\ ConnFollowsAttempt' /\ QueueHoldsSent'
    BY <1>1, <1>2, <2>1 DEF IInv, TypeOK, StartedPrefix, ConnFollowsAttempt,
                            QueueHoldsSent
  <2>4. NothingDecidedInLoop' /\ TimerTracksAge' /\ SequentialAlone'
    BY <1>1, <1>2, <2>1 DEF NothingDecidedInLoop, TimerTracksAge, SequentialAlone
  <2>5. DrainAccounting'
    BY <1>1, <1>2, <2>1, OutstandingIsPendingNext
       DEF IInv, NothingDecidedInLoop, DrainAccounting
  <2>6. ErrorsAreEarned'
    <3>1. CASE parentDone
      BY <1>2, <2>1, <3>1 DEF ErrorsAreEarned
    <3>2. CASE ~parentDone
      <4>1. started = N /\ Pending(attempt') = {}
        BY <1>1, <1>5, <2>1, <3>2, NonePending
      <4>2. \A a \in Addresses : attempt'[a] = "received"
        BY <2>1, <2>2, <2>3, <4>1, AllReported
      <4>3. \A a \in Addresses : conn'[a] = "none"
        BY <1>1, <1>2, <2>1, <4>2 DEF IInv, TypeOK, NothingDecidedInLoop
      <4> QED
        BY <2>1, <3>2, <4>2, <4>3 DEF ErrorsAreEarned
    <3> QED
      BY <3>1, <3>2
  <2> QED
    BY <2>2, <2>3, <2>4, <2>5, <2>6 DEF IInv
<1>6. (~parentDone /\ started < N) \/ parentDone \/ started = N
  BY DEF SequentialFailure
<1> QED
  BY <1>4, <1>5, <1>6

LEMMA StutterKeeps ==
    ASSUME IInv, UNCHANGED vars
    PROVE  IInv'
<1> USE DEF IInv, vars
<1>1. TypeOK' /\ StartedPrefix' /\ QueueHoldsSent' /\ ConnFollowsAttempt'
  BY DEF TypeOK, StartedPrefix, QueueHoldsSent, ConnFollowsAttempt
<1>2. NothingDecidedInLoop' /\ TimerTracksAge' /\ ErrorsAreEarned' /\ SequentialAlone'
  BY DEF NothingDecidedInLoop, TimerTracksAge, ErrorsAreEarned, SequentialAlone
<1>3. DrainAccounting'
  BY OutstandingIsPending, OutstandingIsPendingNext DEF DrainAccounting
<1> QED
  BY <1>1, <1>2, <1>3

LEMMA NextKeepsIInv == IInv /\ [Next]_vars => IInv'
<1> SUFFICES ASSUME IInv, [Next]_vars PROVE IInv'
  OBVIOUS
<1>1. CASE \E a \in Addresses : DialSucceeds(a) \/ DialFails(a) \/ Send(a)
  BY <1>1, DialSucceedsKeeps, DialFailsKeeps, SendKeeps
<1>2. CASE ContextDone
  BY <1>2, ContextDoneKeeps
<1>3. CASE ReceiveConn
  BY <1>3, ReceiveConnKeeps
<1>4. CASE ReceiveFailure
  BY <1>4, ReceiveFailureKeeps
<1>5. CASE FallbackTimer
  BY <1>5, FallbackTimerKeeps
<1>6. CASE Drain
  BY <1>6, DrainKeeps
<1>7. CASE ParentCancel
  BY <1>7, ParentCancelKeeps
<1>8. CASE Tick
  BY <1>8, TickKeeps
<1>9. CASE SequentialConn \/ SequentialFailure
  BY <1>9, SequentialConnKeeps, SequentialFailureKeeps
<1>10. CASE Terminated \/ UNCHANGED vars
  BY <1>10, StutterKeeps DEF Terminated
<1> QED
  BY <1>1, <1>2, <1>3, <1>4, <1>5, <1>6, <1>7, <1>8, <1>9, <1>10 DEF Next

-----------------------------------------------------------------------------
(* The inductive invariant holds in every reachable state, for every       *)
(* number of addresses and every fallback delay.                           *)
THEOREM Invariance == Spec => []IInv
BY InitIInv, NextKeepsIInv, PTL DEF Spec, Safety

(* Every variable of the dial keeps its type; in particular the loop never *)
(* starts an address beyond the list and never receives more results than  *)
(* there are addresses.                                                    *)
THEOREM TypeCorrect == Spec => []TypeOK
<1>1. IInv => TypeOK
  BY DEF IInv
<1> QED
  BY <1>1, Invariance, PTL

(* drainOutstanding is always called with the exact number of results that *)
(* are still to come: no losing connection leaks, no receive waits forever *)
(* for a result nobody sends.                                              *)
THEOREM DrainIsExact == Spec => []DrainAccounting
<1>1. IInv => DrainAccounting
  BY DEF IInv
<1> QED
  BY <1>1, Invariance, PTL

(* The joined error is returned only when every address was tried and none *)
(* connected, the context's error only when the caller's context ended.    *)
THEOREM ErrorsTrue == Spec => []ErrorsAreEarned
<1>1. IInv => ErrorsAreEarned
  BY DEF IInv
<1> QED
  BY <1>1, Invariance, PTL

(* No address is started within the head start of the one before it unless *)
(* everything started so far has failed: resetting the timer after a       *)
(* failure never leaves a tick of the old countdown behind.                *)
THEOREM HeadStartHolds == Spec => HeadStart
<1>1. IInv /\ [Next]_vars
        => (started' > started => completed' = started \/ (staggered /\ age >= Delay))
  <2> SUFFICES ASSUME IInv, [Next]_vars, started' > started
               PROVE  completed' = started \/ (staggered /\ age >= Delay)
    OBVIOUS
  <2>1. started \in Int
    BY DEF IInv, TypeOK
  <2>2. CASE ReceiveFailure
    BY <2>1, <2>2 DEF ReceiveFailure, StartsNext
  <2>3. CASE FallbackTimer
    BY <2>3 DEF FallbackTimer, IInv, TimerTracksAge, SequentialAlone, Stopped
  <2>4. CASE \E a \in Addresses : DialSucceeds(a) \/ DialFails(a) \/ Send(a)
    BY <2>1, <2>4 DEF DialSucceeds, DialFails, Send
  <2>5. CASE SequentialConn \/ SequentialFailure
    BY <2>1, <2>5, SequentialDialed DEF SequentialConn, SequentialFailure
  <2>6. CASE ContextDone \/ ReceiveConn \/ Drain \/ ParentCancel \/ Tick
             \/ Terminated \/ UNCHANGED vars
    BY <2>1, <2>6 DEF ContextDone, ReceiveConn, Drain, ParentCancel, Tick,
                      Terminated, vars
  <2> QED
    BY <2>2, <2>3, <2>4, <2>5, <2>6 DEF Next
<1> QED
  BY <1>1, Invariance, PTL DEF Spec, Safety, HeadStart

-----------------------------------------------------------------------------
(* Nobody waits for what does not come: the safety core of the liveness    *)
(* properties that TLC checks. *)

(* Each result that was sent is in the channel until it is received. *)
SentIsQueued ==
    \A a \in Addresses :
      attempt[a] = "sent" => \E i \in 1 .. Len(results) : results[i] = a

(* The loop runs only while some result is to come. *)
LoopHasDial == pc = "select" => completed < started

LEMMA TakeKeepsQueued ==
    ASSUME IInv, SentIsQueued, results # << >>, results' = Tail(results),
           \A a \in Addresses : attempt'[a] = "sent"
                                  => attempt[a] = "sent" /\ a # Head(results)
    PROVE  SentIsQueued'
<1> SUFFICES ASSUME NEW a \in Addresses, attempt'[a] = "sent"
             PROVE  \E i \in 1 .. Len(results') : results'[i] = a
  BY DEF SentIsQueued
<1>1. PICK i \in 1 .. Len(results) : results[i] = a
  BY DEF SentIsQueued
<1>2. /\ Len(results) \in Nat /\ Head(results) = results[1]
      /\ Len(results') = Len(results) - 1
      /\ \A j \in 1 .. Len(results') : results'[j] = results[j + 1]
  BY DEF IInv, TypeOK
<1>3. i # 1
  BY <1>1, <1>2
<1>4. i - 1 \in 1 .. Len(results') /\ results'[i - 1] = results[(i - 1) + 1]
  BY <1>2, <1>3
<1>5. (i - 1) + 1 = i
  BY <1>2
<1> QED
  BY <1>1, <1>4, <1>5

LEMMA NextSentIsQueued == IInv /\ SentIsQueued /\ [Next]_vars => SentIsQueued'
<1> SUFFICES ASSUME IInv, SentIsQueued, [Next]_vars PROVE SentIsQueued'
  OBVIOUS
<1>0. attempt \in [Addresses -> AttemptStates]
  BY DEF IInv, TypeOK
<1>1. ASSUME NEW a \in Addresses, Send(a)
      PROVE  SentIsQueued'
  <2>1. /\ Len(results) \in Nat /\ Len(results') = Len(results) + 1
        /\ \A i \in 1 .. Len(results) : results'[i] = results[i]
        /\ results'[Len(results) + 1] = a
    BY <1>1 DEF Send, IInv, TypeOK
  <2>2. \A b \in Addresses : attempt'[b] = "sent" => b = a \/ attempt[b] = "sent"
    BY <1>0, <1>1 DEF Send
  <2>3. /\ Len(results) + 1 \in 1 .. Len(results')
        /\ \A i \in 1 .. Len(results) : i \in 1 .. Len(results')
    BY <2>1
  <2> QED
    BY <2>1, <2>2, <2>3 DEF SentIsQueued
<1>2. CASE ReceiveConn \/ ReceiveFailure \/ Drain
  <2>1. results # << >> /\ results' = Tail(results) /\ Head(results) \in Addresses
    BY <1>2, TakeHead DEF ReceiveConn, ReceiveFailure, Drain, IInv
  <2>2. \A a \in Addresses : attempt'[a] = "sent"
                               => attempt[a] = "sent" /\ a # Head(results)
    BY <1>0, <1>2, <2>1 DEF ReceiveConn, ReceiveFailure, Drain
  <2> QED
    BY <2>1, <2>2, TakeKeepsQueued
<1>3. CASE \/ \E a \in Addresses : DialSucceeds(a) \/ DialFails(a)
           \/ FallbackTimer \/ SequentialConn \/ SequentialFailure
  <2>1. results' = results
    BY <1>3 DEF DialSucceeds, DialFails, FallbackTimer, SequentialConn,
                SequentialFailure
  <2>2. \A a \in Addresses : attempt'[a] = "sent" => attempt[a] = "sent"
    BY <1>0, <1>3
       DEF DialSucceeds, DialFails, FallbackTimer, SequentialConn,
           SequentialFailure
  <2> QED
    BY <2>1, <2>2 DEF SentIsQueued
<1>4. CASE UNCHANGED <<attempt, results>>
  BY <1>4 DEF SentIsQueued
<1> QED
  BY <1>1, <1>2, <1>3, <1>4
     DEF Next, ContextDone, ParentCancel, Tick, Terminated, vars

LEMMA NextLoopHasDial == IInv /\ LoopHasDial /\ [Next]_vars => LoopHasDial'
<1> SUFFICES ASSUME IInv, LoopHasDial, [Next]_vars, pc' = "select"
             PROVE  completed' < started'
  BY DEF LoopHasDial
<1>0. started \in 1 .. N /\ completed \in 0 .. N
  BY DEF IInv, TypeOK
<1>1. CASE ReceiveFailure
  BY <1>0, <1>1, NAssumption
     DEF LoopHasDial, ReceiveFailure, StartsNext, Exhausted, Return
<1>2. CASE FallbackTimer
  BY <1>0, <1>2 DEF LoopHasDial, FallbackTimer
<1>3. CASE SequentialFailure
  <2>1. completed + 1 = started
    BY <1>3, SequentialDialed DEF SequentialFailure
  <2> QED
    BY <1>0, <1>3, <2>1 DEF SequentialFailure, SequentialReturn
<1>4. CASE ContextDone \/ ReceiveConn \/ SequentialConn
  BY <1>4 DEF ContextDone, ReceiveConn, SequentialConn, SequentialReturn, Return
<1>5. CASE UNCHANGED <<pc, started, completed>>
  BY <1>5 DEF LoopHasDial
<1> QED
  BY <1>1, <1>2, <1>3, <1>4, <1>5
     DEF Next, DialSucceeds, DialFails, Send, Drain, ParentCancel, Tick,
         Terminated, vars

(* The channel never holds more results than addresses that have sent. *)
LEMMA QueueIsShort ==
    ASSUME IInv, NEW a \in Addresses, attempt[a] # "sent"
    PROVE  Len(results) < N
<1> DEFINE n == Len(results)
           others == Addresses \ {a}
           f == [i \in 1 .. n |-> results[i]]
<1>1. n \in Nat /\ \A i \in 1 .. n : results[i] \in Addresses
  BY DEF IInv, TypeOK
<1>2. \A i \in 1 .. n : results[i] \in others
  BY <1>1 DEF IInv, QueueHoldsSent
<1>3. f \in Injection(1 .. n, others)
  <2>1. f \in [1 .. n -> others]
    BY <1>2
  <2>2. \A i, j \in 1 .. n : f[i] = f[j] => i = j
    BY DEF IInv, QueueHoldsSent
  <2> QED
    BY <2>1, <2>2 DEF Injection, IsInjective
<1>4. IsFiniteSet(Addresses) /\ Cardinality(Addresses) = N
  BY NAssumption, FS_Interval, 1 \in Int, N \in Int DEF Addresses
<1>5. IsFiniteSet(others) /\ Cardinality(others) = N - 1
  BY <1>4, FS_RemoveElement
<1>6. Cardinality(1 .. n) = n
  <2> HIDE DEF n
  <2>1. n \in Int /\ 1 \in Int
    BY <1>1
  <2>2. Cardinality(1 .. n) = IF 1 > n THEN 0 ELSE n - 1 + 1
    BY <2>1, FS_Interval
  <2> QED
    BY <1>1, <2>2
<1>7. Cardinality(1 .. n) <= Cardinality(others)
  BY <1>3, <1>5, FS_Injection
<1> QED
  BY <1>1, <1>5, <1>6, <1>7, NAssumption

(* A goroutine that has dialled can send at once, also when the call has   *)
(* returned and nobody receives yet; and while the loop waits, or the      *)
(* drain goroutine does, a result is there or on its way.                  *)
NobodyWaitsInVain ==
    /\ \A a \in Addresses :
         staggered /\ attempt[a] = "dialed" => Len(results) < Capacity
    /\ pc = "select" \/ drainLeft > 0 =>
         \/ results # << >>
         \/ \E a \in Addresses : attempt[a] \in {"dialing", "dialed"}

(* The buffer is large enough that no goroutine is stuck in its send ("the *)
(* losers ... drained in the background", src/ssrf.go), and neither the    *)
(* select statement nor the drain goroutine ever waits for a result that   *)
(* nobody will send: what they wait for is at most a dial.                 *)
THEOREM NoVainWaits == Spec => []NobodyWaitsInVain
<1>1. Init => SentIsQueued /\ LoopHasDial
  BY DEF Init, SentIsQueued, LoopHasDial
<1>2. IInv /\ SentIsQueued /\ LoopHasDial => NobodyWaitsInVain
  <2> SUFFICES ASSUME IInv, SentIsQueued, LoopHasDial PROVE NobodyWaitsInVain
    OBVIOUS
  <2>1. \A a \in Addresses : attempt[a] = "dialed" => Len(results) < Capacity
    BY QueueIsShort DEF Capacity
  <2>2. ASSUME pc = "select" \/ drainLeft > 0
        PROVE  \/ results # << >>
               \/ \E a \in Addresses : attempt[a] \in {"dialing", "dialed"}
    <3>1. Cardinality(Pending(attempt)) > 0
      BY <2>2, OutstandingIsPending
         DEF IInv, TypeOK, LoopHasDial, DrainAccounting, NothingDecidedInLoop
    <3>2. Pending(attempt) # {}
      BY <3>1, FS_EmptySet
    <3>3. PICK a \in Addresses : attempt[a] \in {"dialing", "dialed", "sent"}
      BY <3>2 DEF Pending
    <3>4. CASE attempt[a] = "sent"
      <4>1. PICK i \in 1 .. Len(results) : results[i] = a
        BY <3>4 DEF SentIsQueued
      <4> QED
        BY <4>1
    <3> QED
      BY <3>3, <3>4
  <2> QED
    BY <2>1, <2>2 DEF NobodyWaitsInVain
<1> QED
  BY <1>1, <1>2, Invariance, NextSentIsQueued, NextLoopHasDial, PTL
     DEF Spec, Safety

(* What holds of "an immediate failure starts the next address             *)
(* immediately", which a run refutes as it stands: it is so when the       *)
(* failure is the last result that was awaited.                            *)
LastFailureStartsNext ==
    [][( /\ staggered /\ pc = "select" /\ completed' = completed + 1
         /\ outcome' = "none" /\ started < N
         /\ \A a \in 1 .. started : attempt'[a] = "received" )
       => started' = started + 1]_vars

(* A failure that leaves nothing in flight starts the next address at      *)
(* once, without waiting for the timer.                                    *)
THEOREM LastFailureStarts == Spec => LastFailureStartsNext
<1>1. ASSUME IInv, [Next]_vars, staggered, pc = "select",
             completed' = completed + 1, outcome' = "none", started < N,
             \A a \in 1 .. started : attempt'[a] = "received"
      PROVE  started' = started + 1
  <2>1. completed \in Nat /\ completed # completed + 1
    BY <1>1 DEF IInv, TypeOK
  <2>2. ReceiveFailure
    BY <1>1, <2>1
       DEF Next, DialSucceeds, DialFails, Send, ContextDone, ReceiveConn, Return,
           FallbackTimer, SequentialConn, SequentialFailure, Drain,
           ParentCancel, Tick, Terminated, vars
  <2>3. CASE ~StartsNext(completed + 1)
    <3>1. started' = started
      BY <2>2, <2>3 DEF ReceiveFailure
    <3>2. IInv'
      BY <1>1, <2>2, ReceiveFailureKeeps
    <3>3. Pending(attempt') = {}
      BY <1>1, <3>1, <3>2 DEF Pending, IInv, TypeOK, StartedPrefix, Addresses
    <3>4. pc' = "select"
      BY <2>2, <1>1 DEF ReceiveFailure, Return
    <3>5. Cardinality(Pending(attempt')) = started' - completed'
      BY <3>2, <3>4, OutstandingIsPendingNext DEF IInv, DrainAccounting
    <3>6. started = completed + 1
      BY <1>1, <3>1, <3>2, <3>3, <3>5, FS_EmptySet DEF IInv, TypeOK
    <3> QED
      BY <1>1, <2>3, <3>6 DEF StartsNext
  <2> QED
    BY <2>2, <2>3 DEF ReceiveFailure
<1> QED
  BY <1>1, Invariance, PTL DEF Spec, Safety, LastFailureStartsNext

-----------------------------------------------------------------------------
(* No race goes on for ever.  What runs out is found here for every number *)
(* of addresses and every delay: the steps the addresses have before them, *)
(* the ticks of the timer and of the head start, and, for each start of an *)
(* address, what a restart of both gives back.                             *)

StepsLeft == [unstarted |-> 4, dialing |-> 3, dialed |-> 2, sent |-> 1, received |-> 0]

Ahead(att) == {p \in Addresses \X (1 .. 4) : p[2] <= StepsLeft[att[p[1]]]}

TimerLeft ==
    IF timer.state = "running" THEN timer.left + 2
    ELSE IF timer.state = "fired" THEN 1 ELSE 0

LoopLeft  == IF pc = "select" THEN 1 ELSE 0
CancelLeft == IF parentDone THEN 0 ELSE 1

PerStart == 2 * Delay + 4

RaceFuel ==
    PerStart * (N - started) + Cardinality(Ahead(attempt)) + TimerLeft
        + (Delay - age) + LoopLeft + CancelLeft

LEMMA AheadFinite ==
    ASSUME NEW att
    PROVE  /\ IsFiniteSet(Ahead(att))
           /\ Cardinality(Ahead(att)) \in Nat
<1>1. IsFiniteSet(Addresses) /\ IsFiniteSet(1 .. 4)
  BY NAssumption, FS_Interval, 1 \in Int, 4 \in Int, N \in Int DEF Addresses
<1>2. IsFiniteSet(Addresses \X (1 .. 4))
  BY <1>1, FS_Product
<1>3. Ahead(att) \in SUBSET (Addresses \X (1 .. 4))
  BY DEF Ahead
<1> QED
  BY <1>2, <1>3, FS_Subset, FS_CardinalityType

(* An address that gets on, while none falls back, has less ahead of it.   *)
LEMMA AheadFalls ==
    ASSUME NEW before \in [Addresses -> AttemptStates],
           NEW after \in [Addresses -> AttemptStates],
           \A a \in Addresses : StepsLeft[after[a]] <= StepsLeft[before[a]],
           NEW b \in Addresses, StepsLeft[after[b]] < StepsLeft[before[b]]
    PROVE  Cardinality(Ahead(after)) < Cardinality(Ahead(before))
<1>1. \A a \in Addresses : /\ StepsLeft[after[a]] \in 0 .. 4
                           /\ StepsLeft[before[a]] \in 0 .. 4
  BY DEF AttemptStates, StepsLeft
<1> DEFINE p == <<b, StepsLeft[before[b]]>>
<1>2. p \in Ahead(before) /\ p \notin Ahead(after)
  <2>1. StepsLeft[before[b]] \in 1 .. 4
    BY <1>1
  <2> QED
    BY <1>1, <2>1 DEF Ahead
<1>3. Ahead(after) \in SUBSET Ahead(before)
  BY <1>1 DEF Ahead
<1>4. Cardinality(Ahead(after)) <= Cardinality(Ahead(before))
      /\ Cardinality(Ahead(after)) # Cardinality(Ahead(before))
  BY <1>2, <1>3, AheadFinite, FS_Subset
<1>5. Cardinality(Ahead(after)) \in Nat /\ Cardinality(Ahead(before)) \in Nat
  BY AheadFinite
<1> QED
  BY <1>4, <1>5

LEMMA StartsInFuel ==
    ASSUME NEW k \in Nat, NEW x \in Nat
    PROVE  /\ k * x \in Nat
           /\ k * (x + 1) = k * x + k
  BY SMT

LEMMA FuelParts ==
    TypeOK => /\ N - started \in Nat /\ PerStart \in Nat
              /\ PerStart * (N - started) \in Nat
              /\ TimerLeft \in 0 .. Delay + 2 /\ Delay - age \in 0 .. Delay
              /\ LoopLeft \in 0 .. 1 /\ CancelLeft \in 0 .. 1
              /\ Delay \in Nat /\ age \in 0 .. Delay
<1> SUFFICES ASSUME TypeOK
             PROVE  /\ N - started \in Nat /\ PerStart \in Nat
                    /\ PerStart * (N - started) \in Nat
                    /\ TimerLeft \in 0 .. Delay + 2 /\ Delay - age \in 0 .. Delay
                    /\ LoopLeft \in 0 .. 1 /\ CancelLeft \in 0 .. 1
                    /\ Delay \in Nat /\ age \in 0 .. Delay
  OBVIOUS
<1>1. Delay \in Nat /\ age \in 0 .. Delay /\ N - started \in Nat
  BY NAssumption, DelayAssumption DEF TypeOK
<1>2. TimerLeft \in 0 .. Delay + 2
  BY DelayAssumption DEF TypeOK, TimerLeft
<1>3. PerStart \in Nat /\ PerStart * (N - started) \in Nat
  BY <1>1, StartsInFuel DEF PerStart
<1> QED
  BY <1>1, <1>2, <1>3 DEF LoopLeft, CancelLeft

LEMMA FuelIsNatural == TypeOK => RaceFuel \in Nat
<1> SUFFICES ASSUME TypeOK PROVE RaceFuel \in Nat
  OBVIOUS
<1> DEFINE starts == PerStart * (N - started)
<1>1. starts \in Nat /\ RaceFuel = starts + Cardinality(Ahead(attempt)) + TimerLeft
                                    + (Delay - age) + LoopLeft + CancelLeft
  BY FuelParts DEF RaceFuel
<1> HIDE DEF starts
<1> QED
  BY <1>1, FuelParts, AheadFinite

LEMMA SumsFallByStart ==
    ASSUME NEW s \in Int, NEW d \in Int,
           NEW c \in Int, NEW t \in 0 .. d + 2, NEW a \in 0 .. d,
           NEW l \in Int, NEW p \in Int,
           NEW c2 \in Int, NEW t2 \in 0 .. d + 2, NEW a2 \in 0 .. d,
           NEW l2 \in Int, NEW p2 \in Int,
           c2 < c, l2 <= l, p2 <= p
    PROVE  s + c2 + t2 + (d - a2) + l2 + p2
               < (s + (2 * d + 4)) + c + t + (d - a) + l + p
  BY SMT

(* A step that starts nothing. *)
LEMMA FuelFalls ==
    ASSUME TypeOK, TypeOK', started' = started,
           Cardinality(Ahead(attempt')) <= Cardinality(Ahead(attempt)),
           TimerLeft' <= TimerLeft, age' >= age,
           LoopLeft' <= LoopLeft, CancelLeft' <= CancelLeft,
           \/ Cardinality(Ahead(attempt')) < Cardinality(Ahead(attempt))
           \/ TimerLeft' < TimerLeft \/ age' > age
           \/ LoopLeft' < LoopLeft \/ CancelLeft' < CancelLeft
    PROVE  RaceFuel' < RaceFuel
<1> DEFINE starts == PerStart * (N - started)
           ahead == Cardinality(Ahead(attempt))
           aheadNext == Cardinality(Ahead(attempt'))
<1>1. starts \in Nat /\ ahead \in Nat /\ aheadNext \in Nat
  BY FuelParts, AheadFinite
<1>2. RaceFuel = starts + ahead + TimerLeft + (Delay - age) + LoopLeft + CancelLeft
  BY DEF RaceFuel
<1>3. RaceFuel' = starts + aheadNext + TimerLeft' + (Delay - age') + LoopLeft' + CancelLeft'
  BY DEF RaceFuel, Ahead, PerStart
<1>4. /\ TimerLeft \in Int /\ age \in Int /\ LoopLeft \in Int /\ CancelLeft \in Int
      /\ Delay \in Int
  BY FuelParts
<1>5. /\ TimerLeft' \in Int /\ age' \in Int /\ LoopLeft' \in Int /\ CancelLeft' \in Int
  BY DelayAssumption DEF TypeOK, TimerLeft, LoopLeft, CancelLeft
<1>6. /\ aheadNext <= ahead
      /\ \/ aheadNext < ahead \/ TimerLeft' < TimerLeft \/ age' > age
         \/ LoopLeft' < LoopLeft \/ CancelLeft' < CancelLeft
  OBVIOUS
<1> HIDE DEF starts, ahead, aheadNext
<1>7. starts \in Int /\ ahead \in Int /\ aheadNext \in Int
  BY <1>1
<1>8. starts + aheadNext + TimerLeft' + (Delay - age') + LoopLeft' + CancelLeft'
        < starts + ahead + TimerLeft + (Delay - age) + LoopLeft + CancelLeft
  <2>1. /\ TimerLeft' <= TimerLeft /\ age' >= age /\ LoopLeft' <= LoopLeft
        /\ CancelLeft' <= CancelLeft
    OBVIOUS
  <2> DEFINE t2 == TimerLeft'
             a2 == age'
             l2 == LoopLeft'
             p2 == CancelLeft'
  <2>2. /\ t2 \in Int /\ a2 \in Int /\ l2 \in Int /\ p2 \in Int
        /\ t2 <= TimerLeft /\ a2 >= age /\ l2 <= LoopLeft /\ p2 <= CancelLeft
        /\ \/ aheadNext < ahead \/ t2 < TimerLeft \/ a2 > age
           \/ l2 < LoopLeft \/ p2 < CancelLeft
    BY <1>5, <1>6, <2>1
  <2> HIDE DEF t2, a2, l2, p2
  <2>3. starts + aheadNext + t2 + (Delay - a2) + l2 + p2
          < starts + ahead + TimerLeft + (Delay - age) + LoopLeft + CancelLeft
    BY <1>4, <1>6, <1>7, <2>2
  <2> QED
    BY <2>3 DEF t2, a2, l2, p2
<1> QED
  BY <1>2, <1>3, <1>8

(* A start pays for a whole countdown and a whole head start. *)
LEMMA StartTakesFuel ==
    ASSUME TypeOK, TypeOK', started' = started + 1, LoopLeft' <= LoopLeft,
           CancelLeft' <= CancelLeft,
           Cardinality(Ahead(attempt')) < Cardinality(Ahead(attempt))
    PROVE  RaceFuel' < RaceFuel
<1> DEFINE left == N - (started + 1)
           starts == PerStart * left
           ahead == Cardinality(Ahead(attempt))
           aheadNext == Cardinality(Ahead(attempt'))
<1>1. left \in Nat /\ N - started = left + 1 /\ PerStart \in Nat /\ started \in Nat
  <2>1. started \in 1 .. N /\ started + 1 \in 1 .. N /\ N \in Nat
    BY NAssumption DEF TypeOK
  <2> QED
    BY <2>1, FuelParts
<1>2. starts \in Nat /\ PerStart * (N - started) = starts + PerStart
  <2> HIDE DEF left
  <2> QED
    BY <1>1, StartsInFuel
<1>3. RaceFuel = (starts + PerStart) + ahead + TimerLeft + (Delay - age) + LoopLeft + CancelLeft
  BY <1>2 DEF RaceFuel
<1>4. RaceFuel' = starts + aheadNext + TimerLeft' + (Delay - age') + LoopLeft' + CancelLeft'
  BY DEF RaceFuel, Ahead, PerStart
<1>5. /\ TimerLeft \in 0 .. Delay + 2 /\ age \in 0 .. Delay /\ Delay \in Nat
      /\ LoopLeft \in Int /\ CancelLeft \in Int
  BY FuelParts
<1>6. /\ TimerLeft' \in 0 .. Delay + 2 /\ age' \in 0 .. Delay
      /\ LoopLeft' \in Int /\ CancelLeft' \in Int
  BY DelayAssumption DEF TypeOK, TimerLeft, LoopLeft, CancelLeft
<1>7. ahead \in Nat /\ aheadNext \in Nat /\ aheadNext < ahead
  BY AheadFinite
<1>8. PerStart = 2 * Delay + 4
  BY DEF PerStart
<1> HIDE DEF starts, ahead, aheadNext
<1>9. starts \in Int /\ ahead \in Int /\ aheadNext \in Int /\ Delay \in Int
  BY <1>2, <1>5, <1>7
<1>10. starts + aheadNext + TimerLeft' + (Delay - age') + LoopLeft' + CancelLeft'
        < (starts + (2 * Delay + 4)) + ahead + TimerLeft + (Delay - age)
             + LoopLeft + CancelLeft
  BY <1>5, <1>6, <1>7, <1>9, SumsFallByStart
<1> QED
  BY <1>3, <1>4, <1>8, <1>10

LEMMA StepTakesFuel ==
    ASSUME IInv, IInv', Next, ~UNCHANGED vars
    PROVE  RaceFuel' < RaceFuel
<1>1. /\ TypeOK /\ TypeOK'
      /\ attempt \in [Addresses -> AttemptStates]
      /\ attempt' \in [Addresses -> AttemptStates]
      /\ TimerLeft \in 0 .. Delay + 2 /\ age \in 0 .. Delay /\ Delay \in Nat
      /\ LoopLeft \in 0 .. 1 /\ CancelLeft \in 0 .. 1
      /\ Cardinality(Ahead(attempt)) \in Nat
  BY FuelParts, AheadFinite DEF IInv, TypeOK
(* Steps of one address that leave the loop and its clocks alone. *)
<1>2. ASSUME NEW b \in Addresses, NEW s \in AttemptStates,
             attempt' = [attempt EXCEPT ![b] = s],
             StepsLeft[s] < StepsLeft[attempt[b]]
      PROVE  Cardinality(Ahead(attempt')) < Cardinality(Ahead(attempt))
  <2>1. \A a \in Addresses : StepsLeft[attempt'[a]] <= StepsLeft[attempt[a]]
    BY <1>1, <1>2 DEF AttemptStates, StepsLeft
  <2>2. StepsLeft[attempt'[b]] < StepsLeft[attempt[b]]
    BY <1>1, <1>2
  <2> QED
    BY <1>1, <2>1, <2>2, AheadFalls
<1>3. ASSUME started' = started, age' = age, LoopLeft' <= LoopLeft,
             CancelLeft' <= CancelLeft, TimerLeft' <= TimerLeft,
             Cardinality(Ahead(attempt')) < Cardinality(Ahead(attempt))
      PROVE  RaceFuel' < RaceFuel
  <2>1. Cardinality(Ahead(attempt')) <= Cardinality(Ahead(attempt)) /\ age' >= age
    BY <1>1, <1>3, AheadFinite
  <2> QED
    BY <1>1, <1>3, <2>1, FuelFalls
<1>4. ASSUME NEW a \in Addresses, DialSucceeds(a) \/ DialFails(a) \/ Send(a)
      PROVE  RaceFuel' < RaceFuel
  <2>1. /\ UNCHANGED <<pc, started, timer, age, parentDone>>
        /\ \E s \in AttemptStates : attempt' = [attempt EXCEPT ![a] = s]
                                    /\ StepsLeft[s] < StepsLeft[attempt[a]]
    BY <1>4 DEF DialSucceeds, DialFails, Send, AttemptStates, StepsLeft
  <2>2. /\ TimerLeft' <= TimerLeft /\ LoopLeft' <= LoopLeft /\ CancelLeft' <= CancelLeft
    BY <1>1, <2>1 DEF TimerLeft, LoopLeft, CancelLeft
  <2> QED
    BY <1>2, <1>3, <2>1, <2>2
<1>5. CASE ContextDone
  <2>1. /\ LoopLeft' < LoopLeft /\ TimerLeft' <= TimerLeft /\ CancelLeft' <= CancelLeft
        /\ UNCHANGED <<started, attempt, age>>
    BY <1>1, <1>5 DEF ContextDone, Return, Stopped, LoopLeft, TimerLeft, CancelLeft
  <2>2. Cardinality(Ahead(attempt')) <= Cardinality(Ahead(attempt)) /\ age' >= age
        /\ LoopLeft' <= LoopLeft
    BY <1>1, <2>1 DEF LoopLeft
  <2> QED
    BY <1>1, <2>1, <2>2, FuelFalls
<1>6. ASSUME results # << >>
      PROVE  /\ Head(results) \in Addresses
             /\ StepsLeft["received"] < StepsLeft[attempt[Head(results)]]
  BY <1>6, TakeHead DEF IInv, StepsLeft
<1>7. CASE ReceiveConn \/ Drain
  <2>1. /\ results # << >>
        /\ attempt' = [attempt EXCEPT ![Head(results)] = "received"]
        /\ UNCHANGED <<started, age, parentDone>>
        /\ \/ pc' = "returned" /\ timer' = Stopped
           \/ UNCHANGED <<pc, timer>>
    BY <1>7 DEF ReceiveConn, Drain, Return
  <2>2. Cardinality(Ahead(attempt')) < Cardinality(Ahead(attempt))
    BY <1>2, <1>6, <2>1, "received" \in AttemptStates DEF AttemptStates
  <2>3. TimerLeft' <= TimerLeft /\ LoopLeft' <= LoopLeft /\ CancelLeft' <= CancelLeft
    BY <1>1, <2>1 DEF TimerLeft, LoopLeft, CancelLeft, Stopped
  <2> QED
    BY <1>3, <2>1, <2>2, <2>3
(* A result is taken, and the next address may be started. *)
<1>8. ASSUME NEW b \in Addresses, StepsLeft["received"] < StepsLeft[attempt[b]],
             started + 1 \in Addresses,
             attempt' = [[attempt EXCEPT ![b] = "received"]
                            EXCEPT ![started + 1] = "dialing"]
      PROVE  Cardinality(Ahead(attempt')) < Cardinality(Ahead(attempt))
  <2>1. attempt[started + 1] = "unstarted"
    BY <1>8, NAssumption DEF IInv, StartedPrefix, TypeOK, Addresses
  <2>2. \A a \in Addresses : StepsLeft[attempt'[a]] <= StepsLeft[attempt[a]]
    BY <1>1, <1>8, <2>1 DEF AttemptStates, StepsLeft
  <2>3. StepsLeft[attempt'[started + 1]] < StepsLeft[attempt[started + 1]]
    BY <1>1, <1>8, <2>1 DEF StepsLeft
  <2> QED
    BY <1>1, <1>8, <2>2, <2>3, AheadFalls
<1>9. CASE ReceiveFailure
  <2>1. results # << >> /\ UNCHANGED parentDone
    BY <1>9 DEF ReceiveFailure
  <2>2. CancelLeft' <= CancelLeft
    BY <1>1, <2>1 DEF CancelLeft
  <2>3. CASE StartsNext(completed + 1)
    <3>1. /\ started' = started + 1 /\ pc' = pc
          /\ attempt' = [[attempt EXCEPT ![Head(results)] = "received"]
                            EXCEPT ![started + 1] = "dialing"]
      BY <1>9, <2>3 DEF ReceiveFailure
    <3>2. started + 1 \in Addresses
      BY <2>3, NAssumption DEF StartsNext, IInv, TypeOK, Addresses
    <3>3. LoopLeft' <= LoopLeft
      BY <1>1, <3>1 DEF LoopLeft
    <3> QED
      BY <1>1, <1>6, <1>8, <2>1, <2>2, <3>1, <3>2, <3>3, StartTakesFuel
  <2>4. CASE ~StartsNext(completed + 1)
    <3>1. /\ attempt' = [attempt EXCEPT ![Head(results)] = "received"]
          /\ UNCHANGED <<started, age>>
          /\ \/ pc' = "returned" /\ timer' = Stopped
             \/ UNCHANGED <<pc, timer>>
      BY <1>9, <2>4 DEF ReceiveFailure, Return
    <3>2. TimerLeft' <= TimerLeft /\ LoopLeft' <= LoopLeft
      BY <1>1, <3>1 DEF TimerLeft, LoopLeft, Stopped
    <3>3. Cardinality(Ahead(attempt')) < Cardinality(Ahead(attempt))
      BY <1>2, <1>6, <2>1, <3>1, "received" \in AttemptStates DEF AttemptStates
    <3> QED
      BY <1>3, <2>2, <3>1, <3>2, <3>3
  <2> QED
    BY <2>3, <2>4
<1>10. CASE FallbackTimer
  <2>1. UNCHANGED <<pc, parentDone>> /\ timer.state = "fired"
    BY <1>10 DEF FallbackTimer
  <2>2. LoopLeft' <= LoopLeft /\ CancelLeft' <= CancelLeft
    BY <1>1, <2>1 DEF LoopLeft, CancelLeft
  <2>3. CASE started < N
    <3>1. started + 1 \in Addresses /\ started' = started + 1
          /\ attempt' = [attempt EXCEPT ![started + 1] = "dialing"]
      BY <1>10, <2>3, NAssumption DEF FallbackTimer, IInv, TypeOK, Addresses
    <3>2. attempt[started + 1] = "unstarted"
      BY <3>1, NAssumption DEF IInv, StartedPrefix, TypeOK, Addresses
    <3>3. Cardinality(Ahead(attempt')) < Cardinality(Ahead(attempt))
      <4>1. "dialing" \in AttemptStates
            /\ StepsLeft["dialing"] < StepsLeft[attempt[started + 1]]
        BY <3>2 DEF AttemptStates, StepsLeft
      <4> QED
        BY <1>2, <3>1, <4>1
    <3> QED
      BY <1>1, <2>2, <3>1, <3>3, StartTakesFuel
  <2>4. CASE ~(started < N)
    <3>1. UNCHANGED <<started, attempt, age>> /\ timer' = Stopped
      BY <1>10, <2>4 DEF FallbackTimer
    <3>2. TimerLeft' < TimerLeft /\ TimerLeft' <= TimerLeft
      BY <2>1, <3>1 DEF TimerLeft, Stopped
    <3>3. Cardinality(Ahead(attempt')) <= Cardinality(Ahead(attempt)) /\ age' >= age
      BY <1>1, <3>1
    <3> QED
      BY <1>1, <2>2, <3>1, <3>2, <3>3, FuelFalls
  <2> QED
    BY <2>3, <2>4
<1>11. CASE SequentialConn \/ SequentialFailure
  <2>1. /\ ~staggered /\ pc = "select" /\ attempt[started] = "dialed"
        /\ UNCHANGED <<timer, parentDone>> /\ pc' \in {"select", "returned"}
    BY <1>11 DEF SequentialConn, SequentialFailure, SequentialReturn, IInv, TypeOK
  <2>2. started \in Addresses /\ StepsLeft["received"] < StepsLeft[attempt[started]]
    BY <2>1, SequentialDialed DEF StepsLeft
  <2>3. TimerLeft' <= TimerLeft /\ LoopLeft' <= LoopLeft /\ CancelLeft' <= CancelLeft
    BY <1>1, <2>1 DEF TimerLeft, LoopLeft, CancelLeft
  <2>4. \/ /\ started < N /\ started' = started + 1
           /\ attempt' = [[attempt EXCEPT ![started] = "received"]
                             EXCEPT ![started + 1] = "dialing"]
        \/ /\ UNCHANGED <<started, age>>
           /\ attempt' = [attempt EXCEPT ![started] = "received"]
    BY <1>11 DEF SequentialConn, SequentialFailure, SequentialReturn
  <2>5. started < N => started + 1 \in Addresses
    BY NAssumption DEF IInv, TypeOK, Addresses
  <2>6. Cardinality(Ahead(attempt')) < Cardinality(Ahead(attempt))
    BY <1>2, <1>8, <2>2, <2>4, <2>5, "received" \in AttemptStates DEF AttemptStates
  <2>7. CASE started' = started + 1
    BY <1>1, <2>3, <2>6, <2>7, StartTakesFuel
  <2>8. CASE UNCHANGED <<started, age>>
    BY <1>3, <2>3, <2>6, <2>8
  <2> QED
    BY <2>4, <2>7, <2>8
<1>12. CASE ParentCancel
  <2>1. /\ CancelLeft' < CancelLeft /\ CancelLeft' <= CancelLeft
        /\ UNCHANGED <<started, attempt, age, timer, pc>>
    BY <1>12 DEF ParentCancel, CancelLeft
  <2>2. /\ TimerLeft' <= TimerLeft /\ LoopLeft' <= LoopLeft /\ age' >= age
        /\ Cardinality(Ahead(attempt')) <= Cardinality(Ahead(attempt))
    BY <1>1, <2>1 DEF TimerLeft, LoopLeft
  <2> QED
    BY <1>1, <2>1, <2>2, FuelFalls
<1>13. CASE Tick
  <2>1. UNCHANGED <<pc, started, attempt, parentDone>>
    BY <1>13 DEF Tick
  <2>2. /\ LoopLeft' <= LoopLeft /\ CancelLeft' <= CancelLeft
        /\ Cardinality(Ahead(attempt')) <= Cardinality(Ahead(attempt))
    BY <1>1, <2>1 DEF LoopLeft, CancelLeft
  <2>3. age' >= age /\ (age < Delay => age' > age)
    BY <1>1, <1>13 DEF Tick
  <2>4. timer.left \in Nat /\ timer \in [state : TimerStates, left : 0 .. Delay]
    BY <1>1 DEF TypeOK
  <2>5. /\ TimerLeft' <= TimerLeft
        /\ timer.state = "running" => TimerLeft' < TimerLeft
    <3>1. CASE timer.state # "running"
      BY <1>1, <1>13, <3>1 DEF Tick, TimerLeft
    <3>2. CASE timer.state = "running" /\ timer.left > 1
      <4>1. timer' = [timer EXCEPT !.left = timer.left - 1]
        BY <1>13, <3>2 DEF Tick
      <4>2. timer'.state = "running" /\ timer'.left = timer.left - 1
        BY <2>4, <3>2, <4>1
      <4> QED
        BY <2>4, <3>2, <4>2 DEF TimerLeft
    <3>3. CASE timer.state = "running" /\ ~(timer.left > 1)
      <4>1. timer' = [state |-> "fired", left |-> 0]
        BY <1>13, <3>3 DEF Tick
      <4> QED
        BY <2>4, <3>3, <4>1 DEF TimerLeft
    <3> QED
      BY <3>1, <3>2, <3>3
  <2> QED
    BY <1>1, <1>13, <2>1, <2>2, <2>3, <2>5, FuelFalls DEF Tick
<1> QED
  BY <1>4, <1>5, <1>7, <1>9, <1>10, <1>11, <1>12, <1>13 DEF Next, Terminated

(* Each step of a race, the drain and the losing dials included, uses up   *)
(* some of a finite amount: with NoVainWaits, a dial that has not ended is *)
(* all that can keep a goroutine of the call from its end.                 *)
THEOREM RacesAreFinite ==
    Spec => /\ [](RaceFuel \in Nat)
            /\ [][RaceFuel' < RaceFuel]_vars
<1>1. IInv => RaceFuel \in Nat
  BY FuelIsNatural DEF IInv
<1>2. IInv /\ IInv' /\ [Next]_vars => [RaceFuel' < RaceFuel]_vars
  BY StepTakesFuel
<1> QED
  BY <1>1, <1>2, Invariance, PTL DEF Spec, Safety

-----------------------------------------------------------------------------
(* The refinement: a dial that succeeds opens a connection, a return hands *)
(* one over or gives up, a receive of the drain goroutine discards one,    *)
(* and every other step leaves connections and call alone.                 *)

LEMMA InitRefines == Init => Ownership!Init
BY DEF Init, Ownership!Init

LEMMA StepRefines == IInv /\ [Next]_vars => [Ownership!Next]_(Ownership!vars)
<1> SUFFICES ASSUME IInv, [Next]_vars
             PROVE  Ownership!Next \/ UNCHANGED Ownership!vars
  OBVIOUS
<1> USE DEF Ownership!Next, Ownership!vars
<1>1. CASE \E a \in Addresses : DialSucceeds(a)
  BY <1>1 DEF DialSucceeds, Ownership!Open, IInv, ConnFollowsAttempt
<1>2. CASE \E a \in Addresses : DialFails(a) \/ Send(a)
  BY <1>2 DEF DialFails, Send
<1>3. CASE ContextDone
  BY <1>3 DEF ContextDone, Return, Ownership!GiveUp
<1>4. CASE ReceiveConn
  <2>1. Head(results) \in Addresses
    BY <1>4, TakeHead DEF IInv, ReceiveConn
  <2>2. Ownership!Deliver(Head(results))
    BY <1>4 DEF ReceiveConn, Return, Ownership!Deliver
  <2> QED
    BY <2>1, <2>2
<1>5. CASE ReceiveFailure
  <2>1. /\ pc = "select" /\ UNCHANGED conn
        /\ pc' \in {"select", "returned"}
    BY <1>5 DEF ReceiveFailure, Return
  <2> QED
    BY <2>1 DEF Ownership!GiveUp
<1>6. CASE Drain
  <2>1. Head(results) \in Addresses /\ pc = "returned" /\ UNCHANGED pc
    BY <1>6, TakeHead DEF IInv, Drain, NothingDecidedInLoop, TypeOK
  <2>2. CASE conn[Head(results)] = "open"
    <3>1. Ownership!Discard(Head(results))
      BY <1>6, <2>1, <2>2 DEF Drain, Ownership!Discard
    <3> QED
      BY <2>1, <3>1
  <2>3. CASE conn[Head(results)] # "open"
    <3>1. conn' = conn
      BY <1>6, <2>1, <2>3 DEF Drain, IInv, TypeOK
    <3> QED
      BY <2>1, <3>1
  <2> QED
    BY <2>2, <2>3
<1>7. CASE SequentialConn
  <2>1. started \in Addresses
    BY <1>7, SequentialDialed DEF SequentialConn
  <2>2. Ownership!Deliver(started)
    BY <1>7 DEF SequentialConn, SequentialReturn, Ownership!Deliver
  <2> QED
    BY <2>1, <2>2
<1>8. CASE SequentialFailure
  <2>1. pc = "select" /\ UNCHANGED conn /\ pc' \in {"select", "returned"}
    BY <1>8 DEF SequentialFailure, SequentialReturn
  <2> QED
    BY <2>1 DEF Ownership!GiveUp
<1>9. CASE FallbackTimer \/ ParentCancel \/ Tick \/ Terminated \/ UNCHANGED vars
  BY <1>9 DEF FallbackTimer, ParentCancel, Tick, Terminated, vars
<1> QED
  BY <1>1, <1>2, <1>3, <1>4, <1>5, <1>6, <1>7, <1>8, <1>9 DEF Next

(* The staggered dial implements the safety part of the ownership contract *)
(* for any list of addresses: one connection at most is handed over, only  *)
(* by the return, and only connections nobody received are closed.         *)
THEOREM DialImplementsOwnership == Spec => Ownership!Safety
BY InitRefines, StepRefines, Invariance, PTL DEF Spec, Safety, Ownership!Safety

(* Only one connection is handed over: the contract says so, for a call    *)
(* that delivers has returned, ...                                         *)
LEMMA ContractDeliversOnce == Ownership!Safety => []Ownership!OneDelivery
<1> DEFINE Once == Ownership!TypeOK /\ Ownership!OneDelivery
<1> USE DEF Ownership!TypeOK, Ownership!OneDelivery
<1>1. Ownership!Init => Once
  BY DEF Ownership!Init
<1>2. Once /\ [Ownership!Next]_(Ownership!vars) => Once'
  <2> SUFFICES ASSUME Once, [Ownership!Next]_(Ownership!vars)
               PROVE  Once'
    OBVIOUS
  <2>1. CASE Ownership!GiveUp
    BY <2>1 DEF Ownership!GiveUp
  <2>2. CASE \E a \in Addresses : Ownership!Open(a) \/ Ownership!Discard(a)
    BY <2>2 DEF Ownership!Open, Ownership!Discard
  <2>3. CASE \E a \in Addresses : Ownership!Deliver(a)
    BY <2>3 DEF Ownership!Deliver
  <2>4. CASE UNCHANGED Ownership!vars
    BY <2>4 DEF Ownership!vars
  <2> QED
    BY <2>1, <2>2, <2>3, <2>4 DEF Ownership!Next
<1>3. Once => Ownership!OneDelivery
  OBVIOUS
<1> QED
  BY <1>1, <1>2, <1>3, PTL DEF Ownership!Safety

(* ... and so does every dial that implements it: however many addresses   *)
(* answer at once, the caller gets one connection at most, with the return *)
(* of the call.                                                            *)
THEOREM OneConnection == Spec => []Ownership!OneDelivery
BY DialImplementsOwnership, ContractDeliversOnce, PTL

=============================================================================
