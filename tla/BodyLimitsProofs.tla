-------------------------- MODULE BodyLimitsProofs --------------------------
(***************************************************************************)
(* Theorems about BodyLimits, for all limits, windows and sizes: steady    *)
(* bodies pass, the verdict on the rate is exact, and data without an      *)
(* error is within the limits.                                             *)
(***************************************************************************)
EXTENDS BodyLimits, TLAPS

-----------------------------------------------------------------------------
(* The inductive invariant.  A sum of samples is not to be reasoned about  *)
(* by induction over them: each sample knows what had been read before it, *)
(* and the window is what has been read since the first one.  Nothing is   *)
(* observed any more once the body is too large.                           *)

Counting == Tracked /\ ~TooLarge(readBytes, 0)

HistoryGrows ==
    /\ arrived[0] = 0
    /\ \A a, b \in 0 .. now : a <= b => arrived[a] <= arrived[b]
    /\ \A a \in 0 .. now : arrived[a] <= readBytes

(* The samples are contiguous, in the order of the clock. *)
SamplesJoin ==
    Counting =>
      /\ \A i \in 1 .. Len(samples) - 1 :
            samples[i + 1].before = samples[i].before + samples[i].bytes
      /\ \A i \in 1 .. Len(samples) :
            /\ samples[i].t <= now
            /\ arrived[samples[i].t] <= samples[i].before
            /\ samples[i].before + samples[i].bytes <= readBytes
            /\ samples[i].t < now =>
                  samples[i].before + samples[i].bytes <= arrived[samples[i].t + 1]
      /\ samples # <<>> =>
            samples[Len(samples)].before + samples[Len(samples)].bytes = readBytes

(* What was trimmed is older than the window, and the sum is the rest. *)
WindowIsRest ==
    Counting =>
      /\ samples = <<>> => readBytes = 0 /\ bytesInWindow = 0 /\ firstTime = -1
      /\ samples # <<>> =>
            /\ bytesInWindow = readBytes - samples[1].before
            /\ \/ samples[1].before = 0
               \/ /\ now >= cfg.window
                  /\ samples[1].before <= arrived[now - cfg.window]

FirstTimeIsFirst ==
    Counting /\ samples # <<>> =>
      /\ firstTime \in 0 .. now
      /\ arrived[firstTime] = 0
      /\ readBytes > 0
      /\ firstTime < now => arrived[firstTime + 1] > 0

(* A tick at a time, a steady body keeps up with any window. *)
SteadyKeepsUp ==
    Counting /\ samples # <<>> /\ Steady =>
      \A a \in firstTime .. now :
         (arrived[now] - arrived[a]) * Second >= cfg.minRate * (now - a)

ReadUnderWay ==
    pc = "observed" =>
      /\ ~TooLarge(readBytes, 0)
      /\ n > 0
      /\ Tracked => samples # <<>> /\ samples[Len(samples)].t = now

IInv ==
    /\ TypeOK
    /\ HistoryGrows
    /\ SamplesJoin
    /\ WindowIsRest
    /\ FirstTimeIsFirst
    /\ SteadyKeepsUp
    /\ ReadUnderWay
    /\ SteadyIsNeverTooSlow
    /\ CleanReadsWithinLimits

History == HistoryGrows /\ SamplesJoin /\ WindowIsRest /\ FirstTimeIsFirst /\ SteadyKeepsUp

LEMMA InitInv == Init => IInv
<1> SUFFICES ASSUME Init
             PROVE  IInv
  OBVIOUS
<1>1. TypeOK
  <2>1. compressed \in Nat
    BY SizesAssumption DEF Init
  <2>2. samples \in Seq(Sample) /\ firstTime \in -1 .. MaxNow
    BY SizesAssumption DEF Init
  <2>3. arrived \in [0 .. MaxNow -> Nat] /\ now \in 0 .. MaxNow
    BY SizesAssumption DEF Init
  <2> QED
    BY <2>1, <2>2, <2>3 DEF Init, TypeOK, SourceErrors, Refusals
<1>2. History
  BY SizesAssumption
     DEF Init, History, HistoryGrows, SamplesJoin, WindowIsRest, FirstTimeIsFirst,
         SteadyKeepsUp
<1>3. ReadUnderWay /\ SteadyIsNeverTooSlow /\ CleanReadsWithinLimits
  BY DEF Init, ReadUnderWay, SteadyIsNeverTooSlow, CleanReadsWithinLimits
<1> QED
  BY <1>1, <1>2, <1>3 DEF IInv, History

-----------------------------------------------------------------------------
(* Arithmetic. *)

LEMMA RatesAdd ==
    ASSUME NEW x \in Int, NEW y \in Int, NEW s \in Nat, NEW r \in Nat, NEW k \in Nat,
           x * s >= r * k, y * s >= r
    PROVE  (x + y) * s >= r * (k + 1)
<1>1. (x + y) * s = x * s + y * s /\ r * (k + 1) = r * k + r
  BY SMT
<1>2. x * s \in Int /\ y * s \in Int /\ r * k \in Int
  BY SMT
<1> QED
  BY <1>1, <1>2

LEMMA Scaled ==
    ASSUME NEW x \in Int, NEW y \in Int, NEW s \in Nat, x <= y
    PROVE  x * s <= y * s /\ x * s \in Int /\ y * s \in Int
  BY SMT

(* The ticks of a window. *)
LEMMA Ago ==
    ASSUME NEW m \in Nat, NEW max \in Nat, m <= max, NEW w \in Nat, m >= w
    PROVE  /\ m - w \in 0 .. m /\ m - w \in 0 .. max /\ m - (m - w) = w
           /\ \A x \in Nat : x < m - w => x + 1 \in 0 .. m /\ x + 1 \in 0 .. max
                                         /\ x + 1 <= m - w
           /\ \A x \in 0 .. m : /\ x > m - w => (m - w) + 1 <= x
                                            /\ (m - w) + 1 \in 0 .. m
                                            /\ (m - w) + 1 \in 0 .. max
                               /\ ~(x > m - w) => m - x >= w
  OBVIOUS

(* Rounding a rate down does not move it across a whole one. *)
LEMMA FloorOfRate ==
    ASSUME NEW x \in Nat, NEW w \in Nat \ {0}, NEW r \in Nat
    PROVE  /\ x \div w \in Int
           /\ x \div w < r <=> x < r * w
<1>1. /\ x \div w \in Int /\ x % w \in 0 .. w - 1
      /\ x = w * (x \div w) + (x % w)
  BY SMT
<1> DEFINE q == x \div w
<1> HIDE DEF q
<1>2. q \in Int /\ w * q \in Int /\ r * w \in Int /\ w * q <= x /\ x < w * q + w
  BY <1>1 DEF q
<1>3. ASSUME q < r
      PROVE  x < r * w
  <2>1. q + 1 <= r
    BY <1>2, <1>3
  <2>2. (q + 1) * w <= r * w /\ (q + 1) * w = w * q + w
    BY <1>2, <2>1, SMT
  <2> QED
    BY <1>2, <2>2
<1>4. ASSUME ~(q < r)
      PROVE  ~(x < r * w)
  <2>1. r * w <= w * q
    BY <1>2, <1>4, SMT
  <2> QED
    BY <1>2, <2>1
<1> QED
  BY <1>1, <1>3, <1>4 DEF q

-----------------------------------------------------------------------------
(* The steps that count nothing. *)

LEMMA SampleTypes ==
    ASSUME TypeOK
    PROVE  /\ Len(samples) \in Nat
           /\ samples # <<>> => Len(samples) > 0 /\ 1 \in 1 .. Len(samples)
                                /\ Len(samples) \in 1 .. Len(samples)
           /\ \A i \in 1 .. Len(samples) :
                 /\ samples[i] \in Sample
                 /\ samples[i].t \in 0 .. MaxNow
                 /\ samples[i].bytes \in Nat
                 /\ samples[i].before \in Nat
<1>1. samples \in Seq(Sample)
  BY DEF TypeOK
<1>2. Len(samples) \in Nat /\ (samples # <<>> => Len(samples) > 0)
  BY <1>1
<1>3. \A i \in 1 .. Len(samples) : samples[i] \in Sample
  BY <1>1
<1> QED
  BY <1>2, <1>3 DEF Sample

LEMMA HistoryStays ==
    ASSUME History, UNCHANGED <<cfg, now, readBytes, tracker, arrived>>
    PROVE  History'
  BY DEF History, HistoryGrows, SamplesJoin, WindowIsRest, FirstTimeIsFirst, SteadyKeepsUp,
         Steady, Counting, Tracked, TooLarge, tracker

(* Time passes. *)
LEMMA TickKeeps ==
    ASSUME IInv, Tick
    PROVE  IInv'
<1>1. /\ now \in 0 .. MaxNow - 1 /\ now + 1 \in 0 .. MaxNow /\ now' = now + 1 /\ MaxNow \in Nat
      /\ arrived \in [0 .. MaxNow -> Nat] /\ readBytes \in Nat
      /\ arrived' = [arrived EXCEPT ![now + 1] = readBytes]
      /\ UNCHANGED <<cfg, ctxDone, pc, n, err, compressed, readBytes,
                     samples, bytesInWindow, firstTime, last>>
  BY SizesAssumption DEF IInv, TypeOK, Tick, source, tracker
<1>2. /\ \A a \in 0 .. now : arrived'[a] = arrived[a]
      /\ arrived'[now + 1] = readBytes
  BY <1>1
<1>3. HistoryGrows'
  BY <1>1, <1>2 DEF IInv, HistoryGrows
<1>4. Counting' <=> Counting
  BY <1>1 DEF Counting, Tracked, TooLarge
<1>5. Steady' => /\ Steady
                 /\ readBytes > 0 => (readBytes - arrived[now]) * Second >= cfg.minRate
  BY <1>1, <1>2 DEF Steady
<1>6. TypeOK'
  <2>1. arrived' \in [0 .. MaxNow -> Nat]
    BY <1>1
  <2> QED
    BY <1>1, <2>1 DEF IInv, TypeOK
<1>7. /\ Len(samples) \in Nat
      /\ samples # <<>> => 1 \in 1 .. Len(samples)
      /\ \A i \in 1 .. Len(samples) : samples[i].t \in 0 .. MaxNow
                                       /\ samples[i].bytes \in Nat
                                       /\ samples[i].before \in Nat
  BY SampleTypes DEF IInv
<1> DEFINE w == cfg.window
<1>14. w \in Nat /\ cfg' = cfg /\ now \in Nat
  BY <1>1, ConfigsAssumption DEF IInv, TypeOK, Limits
<1>8. SamplesJoin'
  <2> SUFFICES ASSUME Counting
               PROVE  SamplesJoin'
    BY <1>4 DEF SamplesJoin
  <2>1. ASSUME NEW i \in 1 .. Len(samples)
        PROVE  /\ samples[i].t <= now + 1
               /\ arrived'[samples[i].t] <= samples[i].before
               /\ samples[i].before + samples[i].bytes <= readBytes
               /\ samples[i].t < now + 1 =>
                     samples[i].before + samples[i].bytes <= arrived'[samples[i].t + 1]
    <3>1. samples[i].t \in 0 .. MaxNow /\ samples[i].t <= now
      BY <1>7 DEF IInv, SamplesJoin
    <3>2. /\ arrived[samples[i].t] <= samples[i].before
          /\ samples[i].before + samples[i].bytes <= readBytes
          /\ samples[i].t < now =>
                samples[i].before + samples[i].bytes <= arrived[samples[i].t + 1]
      BY DEF IInv, SamplesJoin
    <3>3. arrived'[samples[i].t] = arrived[samples[i].t]
      BY <1>1, <1>2, <3>1
    <3>4. CASE samples[i].t < now
      <4>1. arrived'[samples[i].t + 1] = arrived[samples[i].t + 1]
        BY <1>1, <1>2, <3>1, <3>4
      <4> QED
        BY <1>1, <3>1, <3>2, <3>3, <3>4, <4>1
    <3>5. CASE samples[i].t = now
      BY <1>1, <1>2, <3>1, <3>2, <3>3, <3>5
    <3> QED
      BY <1>1, <3>1, <3>4, <3>5
  <2> QED
    BY <1>1, <2>1 DEF IInv, SamplesJoin
<1>9. WindowIsRest'
  <2> SUFFICES ASSUME Counting', samples' # <<>>
               PROVE  /\ bytesInWindow' = readBytes' - samples'[1].before
                      /\ \/ samples'[1].before = 0
                         \/ /\ now' >= cfg'.window
                            /\ samples'[1].before <= arrived'[now' - cfg'.window]
    BY <1>1, <1>4 DEF IInv, WindowIsRest
  <2>0. /\ Counting /\ samples # <<>>
        /\ bytesInWindow = readBytes - samples[1].before
    BY <1>1, <1>4 DEF IInv, WindowIsRest
  <2>1. CASE samples[1].before = 0
    BY <1>1, <2>0, <2>1
  <2>2. CASE samples[1].before # 0
    <3>1. now >= w /\ samples[1].before <= arrived[now - w]
      BY <2>0, <2>2 DEF IInv, WindowIsRest
    <3>2. w > 0 /\ samples[1].before \in Nat
      BY <1>7, <2>0 DEF Counting, Tracked
    <3>11. cfg'.window = w
      BY <1>14
    <3> HIDE DEF w
    <3>3. now + 1 - w \in 0 .. now /\ now - w \in 0 .. now /\ now - w <= now + 1 - w
      BY <1>14, <3>1, <3>2
    <3>4. arrived[now - w] <= arrived[now + 1 - w]
      BY <3>3 DEF IInv, HistoryGrows
    <3>5. /\ arrived'[now + 1 - w] = arrived[now + 1 - w]
          /\ arrived[now - w] \in Nat /\ arrived[now + 1 - w] \in Nat
      <4>1. 0 .. now \subseteq 0 .. MaxNow
        BY <1>1
      <4> QED
        BY <1>1, <1>2, <3>3, <4>1
    <3>6. now + 1 >= w
      BY <1>14, <3>1
    <3>7. samples[1].before <= arrived'[now + 1 - w]
      BY <3>1, <3>2, <3>4, <3>5
    <3>8. now' = now + 1 /\ samples' = samples /\ bytesInWindow' = bytesInWindow
          /\ readBytes' = readBytes
      BY <1>1
    <3>9. now' >= cfg'.window
      BY <3>11, <3>6, <3>8
    <3>10. samples'[1].before <= arrived'[now' - cfg'.window]
      <4>1. now' - cfg'.window = now + 1 - w
        BY <1>14, <3>11, <3>8
      <4> QED
        BY <3>7, <3>8, <4>1
    <3> QED
      BY <2>0, <3>8, <3>9, <3>10
  <2> QED
    BY <2>1, <2>2
<1>10. FirstTimeIsFirst'
  <2> SUFFICES ASSUME Counting, samples # <<>>
               PROVE  /\ firstTime \in 0 .. now + 1
                      /\ arrived'[firstTime] = 0
                      /\ readBytes > 0
                      /\ firstTime < now + 1 => arrived'[firstTime + 1] > 0
    BY <1>1, <1>4 DEF FirstTimeIsFirst
  <2>1. /\ firstTime \in 0 .. now /\ arrived[firstTime] = 0 /\ readBytes > 0
        /\ firstTime < now => arrived[firstTime + 1] > 0
    BY DEF IInv, FirstTimeIsFirst
  <2>2. CASE firstTime < now
    BY <1>1, <1>2, <2>1, <2>2
  <2>3. CASE firstTime = now
    BY <1>1, <1>2, <2>1, <2>3
  <2> QED
    BY <1>1, <2>1, <2>2, <2>3
<1>11. SteadyKeepsUp'
  <2> SUFFICES ASSUME Counting, samples # <<>>, Steady'
               PROVE  \A a \in firstTime .. now + 1 :
                        (arrived'[now + 1] - arrived'[a]) * Second
                            >= cfg.minRate * (now + 1 - a)
    BY <1>1, <1>4 DEF SteadyKeepsUp
  <2>1. /\ firstTime \in 0 .. now /\ readBytes > 0
        /\ \A a \in firstTime .. now :
              (arrived[now] - arrived[a]) * Second >= cfg.minRate * (now - a)
    BY <1>5 DEF IInv, FirstTimeIsFirst, SteadyKeepsUp
  <2>2. (readBytes - arrived[now]) * Second >= cfg.minRate
    BY <1>5, <2>1
  <2>3. Second \in Nat /\ cfg.minRate \in Nat
    BY SizesAssumption, ConfigsAssumption DEF IInv, TypeOK, Limits
  <2>4. ASSUME NEW a \in firstTime .. now
        PROVE  (readBytes - arrived[a]) * Second >= cfg.minRate * (now + 1 - a)
    <3>1. /\ arrived[now] - arrived[a] \in Int /\ readBytes - arrived[now] \in Int
          /\ now - a \in Nat
          /\ (arrived[now] - arrived[a]) + (readBytes - arrived[now]) = readBytes - arrived[a]
          /\ (now - a) + 1 = now + 1 - a
      BY <1>1, <2>1
    <3>2. ((arrived[now] - arrived[a]) + (readBytes - arrived[now])) * Second
             >= cfg.minRate * ((now - a) + 1)
      BY <2>1, <2>2, <2>3, <3>1, RatesAdd
    <3> QED
      BY <3>1, <3>2
  <2>5. ASSUME NEW a \in firstTime .. now + 1
        PROVE  (arrived'[now + 1] - arrived'[a]) * Second >= cfg.minRate * (now + 1 - a)
    <3>1. CASE a = now + 1
      <4>1. /\ arrived'[now + 1] - arrived'[a] = 0 /\ now + 1 - a = 0
        BY <1>1, <1>2, <3>1
      <4>2. 0 * Second = 0 /\ cfg.minRate * 0 = 0
        BY <2>3
      <4> QED
        BY <4>1, <4>2
    <3>2. CASE a # now + 1
      <4>1. a \in firstTime .. now /\ a \in 0 .. now
        BY <1>1, <2>1, <3>2
      <4> QED
        BY <1>2, <2>4, <4>1
    <3> QED
      BY <3>1, <3>2
  <2> QED
    BY <2>5
<1>12. ReadUnderWay'
  BY <1>1 DEF Tick, ReadUnderWay
<1>13. SteadyIsNeverTooSlow' /\ CleanReadsWithinLimits'
  BY <1>1, <1>5 DEF IInv, SteadyIsNeverTooSlow, CleanReadsWithinLimits
<1> QED
  BY <1>3, <1>6, <1>8, <1>9, <1>10, <1>11, <1>12, <1>13 DEF IInv

-----------------------------------------------------------------------------
(* A read is counted and observed. *)

LEMMA ObserveKeeps ==
    ASSUME IInv, NEW z \in Nat, z > 0, Observe(z), Counting',
           readBytes' = readBytes + z, UNCHANGED <<cfg, now, arrived>>
    PROVE  /\ SamplesJoin' /\ WindowIsRest' /\ FirstTimeIsFirst' /\ SteadyKeepsUp'
           /\ samples' # <<>> /\ samples'[Len(samples')].t = now'
           /\ samples' \in Seq(Sample) /\ bytesInWindow' \in Nat
           /\ firstTime' \in -1 .. MaxNow
<1> DEFINE new == [t |-> now, bytes |-> z, before |-> readBytes]
           L   == Len(samples)
<1>1. /\ now \in 0 .. MaxNow /\ now \in Nat /\ MaxNow \in Nat /\ now' = now
      /\ cfg' = cfg /\ arrived' = arrived
      /\ arrived \in [0 .. MaxNow -> Nat]
      /\ readBytes \in Nat /\ readBytes' = readBytes + z
      /\ bytesInWindow \in Nat /\ firstTime \in -1 .. MaxNow
      /\ samples \in Seq(Sample)
      /\ arrived[now] \in Nat /\ arrived[now] <= readBytes
  BY SizesAssumption DEF IInv, TypeOK, HistoryGrows
<1>2. Counting
  BY <1>1, ConfigsAssumption DEF Counting, Tracked, TooLarge, IInv, TypeOK, Limits
<1>3. /\ samples' = Append(samples, new) /\ bytesInWindow' = bytesInWindow + z
      /\ firstTime' = IF firstTime = -1 THEN now ELSE firstTime
  BY DEF Observe, FirstTime
<1>4. /\ new \in Sample
      /\ new.t = now /\ new.bytes = z /\ new.before = readBytes
  BY <1>1 DEF Sample
<1>5. /\ L \in Nat /\ Len(samples') = L + 1 /\ samples' # <<>>
      /\ samples'[L + 1] = new
      /\ \A i \in 1 .. L : samples'[i] = samples[i]
      /\ samples = <<>> <=> L = 0
  <2>1. samples \in Seq(Sample) /\ new \in Sample /\ samples' = Append(samples, new)
    BY <1>1, <1>3, <1>4
  <2> HIDE DEF new
  <2>2. L \in Nat /\ Len(samples') = L + 1 /\ samples'[L + 1] = new
    BY <2>1
  <2>3. \A i \in 1 .. L : samples'[i] = samples[i]
    BY <2>1
  <2>4. samples = <<>> <=> L = 0
    BY <2>1
  <2>5. samples' # <<>>
    BY <2>1, <2>2
  <2> QED
    BY <2>2, <2>3, <2>4, <2>5
<1>6. samples' \in Seq(Sample) /\ bytesInWindow' \in Nat /\ firstTime' \in -1 .. MaxNow
  BY <1>1, <1>3, <1>4
<1>7. /\ \A i \in 1 .. L : /\ samples[i].t \in 0 .. MaxNow
                           /\ samples[i].bytes \in Nat /\ samples[i].before \in Nat
      /\ samples # <<>> => 1 \in 1 .. L /\ L \in 1 .. L
  BY SampleTypes DEF IInv
<1> HIDE DEF new, L
<1>8. SamplesJoin'
  <2>1. ASSUME NEW i \in 1 .. L
        PROVE  samples'[i + 1].before = samples'[i].before + samples'[i].bytes
    <3>1. CASE i = L
      <4>1. samples # <<>> /\ samples[L].before + samples[L].bytes = readBytes
        BY <1>2, <1>5, <3>1 DEF IInv, SamplesJoin, L
      <4> QED
        BY <1>5, <1>4, <3>1, <4>1
    <3>2. CASE i # L
      <4>1. i \in 1 .. L - 1 /\ i + 1 \in 1 .. L
        BY <1>5, <3>2
      <4>2. samples[i + 1].before = samples[i].before + samples[i].bytes
        BY <1>2, <4>1 DEF IInv, SamplesJoin, L
      <4> QED
        BY <1>5, <4>1, <4>2
    <3> QED
      BY <3>1, <3>2
  <2>2. ASSUME NEW i \in 1 .. L + 1
        PROVE  /\ samples'[i].t <= now
               /\ arrived[samples'[i].t] <= samples'[i].before
               /\ samples'[i].before + samples'[i].bytes <= readBytes + z
               /\ samples'[i].t < now =>
                     samples'[i].before + samples'[i].bytes <= arrived[samples'[i].t + 1]
    <3>1. CASE i = L + 1
      BY <1>1, <1>5, <1>4, <3>1
    <3>2. CASE i # L + 1
      <4>1. i \in 1 .. L
        BY <1>5, <3>2
      <4>2. /\ samples[i].t <= now
            /\ arrived[samples[i].t] <= samples[i].before
            /\ samples[i].before + samples[i].bytes <= readBytes
            /\ samples[i].t < now =>
                  samples[i].before + samples[i].bytes <= arrived[samples[i].t + 1]
        BY <1>2, <4>1 DEF IInv, SamplesJoin, L
      <4>3. samples[i].before + samples[i].bytes <= readBytes + z
        <5>1. \A x, y, u \in Nat : x + y <= u => x + y <= u + z
          OBVIOUS
        <5> QED
          BY <1>1, <1>7, <4>1, <4>2, <5>1
      <4> QED
        BY <1>5, <4>1, <4>2, <4>3
    <3> QED
      BY <3>1, <3>2
  <2>3. samples'[L + 1].before + samples'[L + 1].bytes = readBytes + z
    BY <1>5, <1>4
  <2>4. (L + 1) - 1 = L
    BY <1>5
  <2> QED
    BY <1>1, <1>5, <2>1, <2>2, <2>3, <2>4 DEF SamplesJoin
<1>9. WindowIsRest'
  <2>1. CASE samples = <<>>
    <3>1. readBytes = 0 /\ bytesInWindow = 0
      BY <1>2, <2>1 DEF IInv, WindowIsRest
    <3>2. samples'[1] = new
      BY <1>5, <2>1
    <3> QED
      BY <1>1, <1>3, <1>5, <1>4, <3>1, <3>2 DEF WindowIsRest
  <2>2. CASE samples # <<>>
    <3>1. samples'[1] = samples[1] /\ samples[1].before \in Nat
      BY <1>5, <1>7, <2>2
    <3>2. /\ bytesInWindow = readBytes - samples[1].before
          /\ \/ samples[1].before = 0
             \/ /\ now >= cfg.window
                /\ samples[1].before <= arrived[now - cfg.window]
      BY <1>2, <2>2 DEF IInv, WindowIsRest
    <3>3. bytesInWindow' = readBytes' - samples'[1].before
      <4>1. \A x, y, u \in Nat : u = x - y => u + z = (x + z) - y
        OBVIOUS
      <4>2. bytesInWindow + z = (readBytes + z) - samples[1].before
        <5>1. readBytes \in Nat /\ bytesInWindow \in Nat /\ samples[1].before \in Nat
          BY <1>1, <3>1
        <5>2. bytesInWindow = readBytes - samples[1].before
          BY <3>2
        <5> QED
          BY <4>1, <5>1, <5>2
      <4>3. samples'[1].before = samples[1].before
        BY <3>1
      <4> QED
        BY <1>1, <1>3, <4>2, <4>3
    <3> QED
      BY <1>1, <1>5, <3>1, <3>2, <3>3 DEF WindowIsRest
  <2> QED
    BY <2>1, <2>2
<1>10. FirstTimeIsFirst'
  <2>1. CASE samples = <<>>
    <3>1. readBytes = 0 /\ firstTime = -1
      BY <1>2, <2>1 DEF IInv, WindowIsRest
    <3>2. firstTime' = now
      BY <1>3, <3>1
    <3> QED
      BY <1>1, <3>1, <3>2 DEF FirstTimeIsFirst
  <2>2. CASE samples # <<>>
    <3>1. /\ firstTime \in 0 .. now /\ arrived[firstTime] = 0
          /\ firstTime < now => arrived[firstTime + 1] > 0
      BY <1>2, <2>2 DEF IInv, FirstTimeIsFirst
    <3>2. firstTime' = firstTime
      BY <1>3, <3>1
    <3> QED
      BY <1>1, <3>1, <3>2 DEF FirstTimeIsFirst
  <2> QED
    BY <2>1, <2>2
<1>11. SteadyKeepsUp'
  <2>1. CASE samples = <<>>
    <3>1. firstTime' = now
      BY <1>2, <1>3, <2>1 DEF IInv, WindowIsRest
    <3>2. Second \in Nat /\ cfg.minRate \in Nat
      BY SizesAssumption, ConfigsAssumption DEF IInv, TypeOK, Limits
    <3>3. (arrived[now] - arrived[now]) * Second >= cfg.minRate * (now - now)
      <4>1. arrived[now] - arrived[now] = 0 /\ now - now = 0
        BY <1>1
      <4>2. 0 * Second = 0 /\ cfg.minRate * 0 = 0
        BY <3>2
      <4> QED
        BY <4>1, <4>2
    <3>4. \A a \in now .. now : a = now
      BY <1>1
    <3> QED
      BY <1>1, <3>1, <3>3, <3>4 DEF SteadyKeepsUp
  <2>2. CASE samples # <<>>
    <3>1. firstTime \in 0 .. now
      BY <1>2, <2>2 DEF IInv, FirstTimeIsFirst
    <3>2. firstTime' = firstTime
      BY <1>3, <3>1
    <3>3. Steady' <=> Steady
      BY <1>1 DEF Steady
    <3> QED
      BY <1>1, <1>2, <2>2, <3>2, <3>3 DEF IInv, SteadyKeepsUp
  <2> QED
    BY <2>1, <2>2
<1> QED
  BY <1>1, <1>5, <1>4, <1>6, <1>8, <1>9, <1>10, <1>11

LEMMA SourceKeeps ==
    ASSUME IInv, NEW k \in 0 .. Chunk, NEW z \in 0 .. Chunk, NEW e \in SourceErrors,
           SourceReturns(k, z, e)
    PROVE  IInv'
<1>1. /\ k \in Nat /\ z \in Nat
      /\ n' = z /\ err' = e /\ compressed' = compressed + k
      /\ readBytes \in Nat /\ readBytes' = readBytes + z
      /\ UNCHANGED <<cfg, now, ctxDone, arrived>>
      /\ cfg.maxBytes \in Nat
  BY SizesAssumption, ConfigsAssumption DEF SourceReturns, IInv, TypeOK, Limits
<1>2. HistoryGrows'
  <2>1. \A a \in 0 .. now : arrived[a] \in Nat
    BY SizesAssumption DEF IInv, TypeOK
  <2> QED
    BY <1>1, <2>1 DEF IInv, HistoryGrows
<1>3. /\ cfg' \in Configs /\ now' \in 0 .. MaxNow /\ ctxDone' \in BOOLEAN
      /\ n' \in Nat /\ err' \in SourceErrors
      /\ readBytes' \in Nat /\ compressed' \in Nat
      /\ arrived' \in [0 .. MaxNow -> Nat]
  BY <1>1 DEF IInv, TypeOK
<1>4. CASE z = 0
  <2>1. /\ UNCHANGED tracker /\ readBytes' = readBytes
        /\ pc' = "idle" /\ last' \in {e, "aborted"}
    BY <1>1, <1>4 DEF SourceReturns, ReturnSource, Return
  <2>2. History'
    BY <1>1, <2>1, HistoryStays DEF IInv, History
  <2>3. TypeOK'
    BY <1>3, <2>1 DEF IInv, TypeOK, tracker, SourceErrors, Refusals
  <2>4. ReadUnderWay' /\ SteadyIsNeverTooSlow' /\ CleanReadsWithinLimits'
    BY <1>1, <1>4, <2>1
       DEF ReadUnderWay, SteadyIsNeverTooSlow, CleanReadsWithinLimits, SourceErrors
  <2> QED
    BY <2>2, <2>3, <2>4 DEF IInv, History
<1>5. CASE z > 0 /\ TooLarge(readBytes + z, z)
  <2>1. /\ UNCHANGED tracker /\ pc' = "idle" /\ last' = "tooLarge"
    BY <1>1, <1>5 DEF SourceReturns, Return
  <2>2. ~Counting'
    BY <1>1, <1>5 DEF Counting, TooLarge
  <2>3. TypeOK'
    BY <1>3, <2>1 DEF IInv, TypeOK, tracker, SourceErrors, Refusals
  <2>4. ReadUnderWay' /\ SteadyIsNeverTooSlow' /\ CleanReadsWithinLimits'
    BY <2>1 DEF ReadUnderWay, SteadyIsNeverTooSlow, CleanReadsWithinLimits, SourceErrors
  <2>5. SamplesJoin' /\ WindowIsRest' /\ FirstTimeIsFirst' /\ SteadyKeepsUp'
    BY <2>2 DEF SamplesJoin, WindowIsRest, FirstTimeIsFirst, SteadyKeepsUp
  <2> QED
    BY <1>2, <2>3, <2>4, <2>5 DEF IInv
<1>6. CASE z > 0 /\ ~TooLarge(readBytes + z, z)
  <2>1. /\ pc' = "observed" /\ last' = last
        /\ IF Tracked THEN Observe(z) ELSE UNCHANGED tracker
    BY <1>1, <1>6 DEF SourceReturns
  <2>2. ~TooLarge(readBytes', 0)
    BY <1>1, <1>6 DEF TooLarge
  <2>3. SteadyIsNeverTooSlow' /\ CleanReadsWithinLimits'
    BY <2>1 DEF SteadyIsNeverTooSlow, CleanReadsWithinLimits
  <2>4. Tracked' <=> Tracked
    BY <1>1 DEF Tracked
  <2>5. TooLarge(readBytes, 0)' <=> TooLarge(readBytes', 0)
    BY <1>1 DEF TooLarge
  <2>6. CASE Tracked
    <3>1. Counting'
      BY <2>2, <2>4, <2>5, <2>6 DEF Counting
    <3>2. /\ SamplesJoin' /\ WindowIsRest' /\ FirstTimeIsFirst' /\ SteadyKeepsUp'
          /\ samples' # <<>> /\ samples'[Len(samples')].t = now'
          /\ samples' \in Seq(Sample) /\ bytesInWindow' \in Nat
          /\ firstTime' \in -1 .. MaxNow
      BY <1>1, <1>6, <2>1, <2>6, <3>1, ObserveKeeps
    <3>3. TypeOK'
      BY <1>3, <2>1, <3>2 DEF IInv, TypeOK
    <3>4. ReadUnderWay'
      BY <1>1, <1>6, <2>2, <2>5, <3>2 DEF ReadUnderWay
    <3> QED
      BY <1>2, <2>3, <3>2, <3>3, <3>4 DEF IInv
  <2>7. CASE ~Tracked
    <3>1. ~Counting'
      BY <2>4, <2>7 DEF Counting
    <3>2. TypeOK'
      BY <1>3, <2>1, <2>7 DEF IInv, TypeOK, tracker
    <3>3. SamplesJoin' /\ WindowIsRest' /\ FirstTimeIsFirst' /\ SteadyKeepsUp'
      BY <3>1 DEF SamplesJoin, WindowIsRest, FirstTimeIsFirst, SteadyKeepsUp
    <3>4. ReadUnderWay'
      BY <1>1, <1>6, <2>2, <2>4, <2>5, <2>7 DEF ReadUnderWay
    <3> QED
      BY <1>2, <2>3, <3>2, <3>3, <3>4 DEF IInv
  <2> QED
    BY <2>6, <2>7
<1> QED
  BY <1>1, <1>4, <1>5, <1>6

-----------------------------------------------------------------------------
(* A sample is trimmed; the one just taken never is. *)

LEMMA TrimKeeps ==
    ASSUME IInv, TrimOne
    PROVE  IInv'
<1> DEFINE L == Len(samples)
           first == samples[1]
<1>1. /\ samples' = Tail(samples) /\ bytesInWindow' = bytesInWindow - first.bytes
      /\ UNCHANGED <<cfg, now, ctxDone, pc, n, err, compressed, readBytes, firstTime,
                     last, arrived>>
      /\ pc = "observed" /\ Tracked /\ samples # <<>> /\ first.t < now - cfg.window
  BY DEF TrimOne, Stale, source
<1>2. /\ Counting /\ samples[L].t = now
  BY <1>1 DEF IInv, ReadUnderWay, Counting
<1>3. /\ now \in Nat /\ now <= MaxNow /\ MaxNow \in Nat /\ cfg.window \in Nat /\ cfg.window > 0
      /\ readBytes \in Nat /\ bytesInWindow \in Nat /\ arrived \in [0 .. MaxNow -> Nat]
      /\ samples \in Seq(Sample)
  BY <1>1, SizesAssumption, ConfigsAssumption DEF IInv, TypeOK, Limits, Tracked
<1>4. /\ L \in Nat /\ L > 0
      /\ \A i \in 1 .. L : /\ samples[i].t \in 0 .. MaxNow
                           /\ samples[i].bytes \in Nat /\ samples[i].before \in Nat
  BY <1>1, SampleTypes DEF IInv
<1>5. L > 1
  BY <1>1, <1>2, <1>3, <1>4
<1>6. /\ Len(samples') = L - 1 /\ samples' # <<>> /\ samples' \in Seq(Sample)
      /\ \A i \in 1 .. L - 1 : samples'[i] = samples[i + 1]
  <2>1. samples' = Tail(samples) /\ samples \in Seq(Sample) /\ samples # <<>>
    BY <1>1, <1>3
  <2>2. Len(samples') = L - 1 /\ samples' \in Seq(Sample)
    BY <2>1
  <2>3. \A i \in 1 .. L - 1 : samples'[i] = samples[i + 1]
    BY <2>1
  <2>4. samples' # <<>>
    BY <1>4, <1>5, <2>2
  <2> QED
    BY <2>2, <2>3, <2>4
<1>7. /\ samples[2].before = first.before + first.bytes
      /\ first.before + first.bytes <= arrived[first.t + 1]
      /\ first.t \in Nat /\ first.bytes \in Nat /\ first.before \in Nat
      /\ samples[2].before \in Nat /\ samples[2].before <= readBytes
  <2>1. 1 \in 1 .. L /\ 1 \in 1 .. L - 1 /\ 2 \in 1 .. L /\ 1 + 1 = 2
    BY <1>4, <1>5
  <2>2. samples[2].before = first.before + first.bytes
    BY <1>2, <2>1 DEF IInv, SamplesJoin
  <2>3. first.t < now
    BY <1>1, <1>3, <1>4, <2>1
  <2>4. /\ first.before + first.bytes <= arrived[first.t + 1]
        /\ first.before + first.bytes <= readBytes
    BY <1>2, <2>1, <2>3 DEF IInv, SamplesJoin
  <2> QED
    BY <1>4, <2>1, <2>2, <2>4
<1>8. now >= cfg.window /\ samples[2].before <= arrived[now - cfg.window]
  <2>1. now >= cfg.window
    <3>1. \A x, y, u \in Nat : x < y - u => y >= u
      OBVIOUS
    <3> QED
      BY <1>1, <1>3, <1>7, <3>1
  <2>2. /\ now - cfg.window \in 0 .. now /\ now - cfg.window \in 0 .. MaxNow
        /\ \A x \in Nat : x < now - cfg.window => x + 1 \in 0 .. now /\ x + 1 \in 0 .. MaxNow
                                                /\ x + 1 <= now - cfg.window
    BY <1>3, <2>1, Ago
  <2>3. /\ first.t + 1 \in 0 .. now /\ first.t + 1 \in 0 .. MaxNow
        /\ first.t + 1 <= now - cfg.window
    BY <1>1, <1>7, <2>2
  <2>4. arrived[first.t + 1] <= arrived[now - cfg.window]
    BY <2>2, <2>3 DEF IInv, HistoryGrows
  <2>5. arrived[first.t + 1] \in Nat /\ arrived[now - cfg.window] \in Nat
    BY <1>3, <2>2, <2>3
  <2>6. \A x, y, u \in Nat : x <= y /\ y <= u => x <= u
    OBVIOUS
  <2>7. samples[2].before <= arrived[first.t + 1]
    BY <1>7
  <2> QED
    BY <1>7, <2>1, <2>4, <2>5, <2>6, <2>7
<1>9. bytesInWindow' = readBytes - samples[2].before
  <2> HIDE DEF first
  <2>1. /\ readBytes \in Nat /\ first.before \in Nat /\ first.bytes \in Nat
        /\ bytesInWindow' = bytesInWindow - first.bytes
        /\ samples[2].before = first.before + first.bytes
    BY <1>1, <1>3, <1>7
  <2>2. bytesInWindow = readBytes - first.before
    BY <1>1, <1>2 DEF IInv, WindowIsRest, first
  <2>3. \A x, y, u \in Nat : (x - y) - u = x - (y + u)
    OBVIOUS
  <2>4. (readBytes - first.before) - first.bytes = readBytes - (first.before + first.bytes)
    BY <2>1, <2>3
  <2> QED
    BY <2>1, <2>2, <2>4
<1>10. Counting' <=> Counting
  BY <1>1 DEF Counting, Tracked, TooLarge
<1>11. samples'[1] = samples[2] /\ samples'[Len(samples')] = samples[L]
  <2>1. 1 \in 1 .. L - 1 /\ L - 1 \in 1 .. L - 1 /\ 1 + 1 = 2 /\ (L - 1) + 1 = L
    BY <1>4, <1>5
  <2> QED
    BY <1>6, <2>1
<1>12. TypeOK'
  <2>1. bytesInWindow' \in Nat
    <3>1. /\ readBytes \in Nat /\ samples[2].before \in Nat
          /\ samples[2].before <= readBytes
          /\ bytesInWindow' = readBytes - samples[2].before
      BY <1>3, <1>7, <1>9
    <3> QED
      BY <3>1
  <2> QED
    BY <1>1, <1>6, <2>1 DEF IInv, TypeOK
<1>13. HistoryGrows'
  BY <1>1 DEF IInv, HistoryGrows
<1>14. SamplesJoin'
  <2>1. ASSUME NEW i \in 1 .. (L - 1) - 1
        PROVE  samples'[i + 1].before = samples'[i].before + samples'[i].bytes
    <3>1. i \in 1 .. L - 1 /\ i + 1 \in 1 .. L - 1
      BY <1>4, <1>5
    <3>2. samples'[i] = samples[i + 1] /\ samples'[i + 1] = samples[(i + 1) + 1]
      BY <1>6, <3>1
    <3> QED
      BY <1>2, <3>1, <3>2 DEF IInv, SamplesJoin
  <2>2. ASSUME NEW i \in 1 .. L - 1
        PROVE  /\ samples'[i].t <= now
               /\ arrived[samples'[i].t] <= samples'[i].before
               /\ samples'[i].before + samples'[i].bytes <= readBytes
               /\ samples'[i].t < now =>
                     samples'[i].before + samples'[i].bytes <= arrived[samples'[i].t + 1]
    <3>1. i + 1 \in 1 .. L /\ samples'[i] = samples[i + 1]
      BY <1>4, <1>5, <1>6
    <3> QED
      BY <1>2, <3>1 DEF IInv, SamplesJoin
  <2>3. samples[L].before + samples[L].bytes = readBytes
    BY <1>1, <1>2 DEF IInv, SamplesJoin
  <2> QED
    BY <1>1, <1>6, <1>11, <2>1, <2>2, <2>3 DEF SamplesJoin
<1>15. WindowIsRest'
  BY <1>1, <1>6, <1>8, <1>9, <1>11 DEF WindowIsRest
<1>16. FirstTimeIsFirst' /\ SteadyKeepsUp'
  <2>1. Steady' <=> Steady
    BY <1>1 DEF Steady
  <2> QED
    BY <1>1, <1>2, <2>1 DEF IInv, FirstTimeIsFirst, SteadyKeepsUp
<1>17. ReadUnderWay'
  <2>1. ~TooLarge(readBytes, 0) /\ n > 0
    BY <1>1 DEF IInv, ReadUnderWay
  <2> QED
    BY <1>1, <1>2, <1>6, <1>11, <2>1 DEF ReadUnderWay, TooLarge
<1>18. SteadyIsNeverTooSlow' /\ CleanReadsWithinLimits'
  BY <1>1 DEF SteadyIsNeverTooSlow, CleanReadsWithinLimits
<1> QED
  BY <1>12, <1>13, <1>14, <1>15, <1>16, <1>17, <1>18 DEF IInv

-----------------------------------------------------------------------------
(* The verdict. *)

(* Once trimmed, the window holds what was read since a window ago.        *)
LEMMA WindowIsExact ==
    ASSUME IInv, pc = "observed", Tracked, Trimmed, now >= cfg.window
    PROVE  bytesInWindow = readBytes - arrived[now - cfg.window]
<1> DEFINE first == samples[1]
           since == now - cfg.window
<1>1. Counting /\ samples # <<>>
  BY DEF IInv, ReadUnderWay, Counting
<1>2. /\ now \in Nat /\ now <= MaxNow /\ MaxNow \in Nat /\ cfg.window \in Nat
      /\ readBytes \in Nat /\ arrived \in [0 .. MaxNow -> Nat]
  BY SizesAssumption, ConfigsAssumption DEF IInv, TypeOK, Limits
<1>3. first.t \in Nat /\ first.before \in Nat /\ 1 \in 1 .. Len(samples)
  BY <1>1, SizesAssumption, SampleTypes DEF IInv
<1>4. /\ bytesInWindow = readBytes - first.before
      /\ first.before = 0 \/ first.before <= arrived[since]
      /\ first.t <= now /\ arrived[first.t] <= first.before
  BY <1>1, <1>3 DEF IInv, WindowIsRest, SamplesJoin
<1>5. first.t >= since
  BY <1>1, <1>2, <1>3 DEF Trimmed, Stale
<1>6. since \in 0 .. now /\ first.t \in 0 .. now /\ since \in 0 .. MaxNow
                          /\ first.t \in 0 .. MaxNow
  <2>1. since \in 0 .. now /\ since \in 0 .. MaxNow
    BY <1>2, Ago
  <2>2. \A x, y, u \in Nat : x <= y /\ y <= u => x \in 0 .. y /\ x \in 0 .. u
    OBVIOUS
  <2>3. first.t \in 0 .. now /\ first.t \in 0 .. MaxNow
    BY <1>2, <1>3, <1>4, <2>2
  <2> QED
    BY <2>1, <2>3
<1> HIDE DEF since, first
<1>7. arrived[since] <= arrived[first.t]
  BY <1>5, <1>6 DEF IInv, HistoryGrows
<1>8. arrived[since] \in Nat /\ arrived[first.t] \in Nat
  BY <1>2, <1>6
<1>9. first.before = arrived[since]
  BY <1>3, <1>4, <1>7, <1>8
<1> QED
  BY <1>4, <1>9 DEF since

LEMMA VerdictIsRate ==
    ASSUME IInv, pc = "observed", Tracked, Trimmed, now >= cfg.window
    PROVE  BytesPerSecond < cfg.minRate <=>
             (readBytes - arrived[now - cfg.window]) * Second < cfg.minRate * cfg.window
<1>1. /\ bytesInWindow \in Nat /\ Second \in Nat /\ cfg.window \in Nat \ {0}
      /\ cfg.minRate \in Nat
  BY SizesAssumption, ConfigsAssumption DEF IInv, TypeOK, Limits, Tracked
<1>2. bytesInWindow * Second \in Nat
  BY <1>1, SMT
<1>3. BytesPerSecond < cfg.minRate <=> bytesInWindow * Second < cfg.minRate * cfg.window
  BY <1>1, <1>2, FloorOfRate DEF BytesPerSecond
<1> QED
  BY <1>3, WindowIsExact

(* A window that the first byte has outlived is full. *)
LEMMA OldIsFull ==
    ASSUME IInv, pc = "observed", Tracked, WindowOld
    PROVE  WindowFull
<1>1. Counting /\ samples # <<>>
  BY DEF IInv, ReadUnderWay, Counting
<1>2. firstTime \in 0 .. now /\ arrived[firstTime] = 0
  BY <1>1 DEF IInv, FirstTimeIsFirst
<1>3. /\ now \in Nat /\ now <= MaxNow /\ MaxNow \in Nat
      /\ cfg.window \in Nat /\ cfg.window > 0 /\ now >= cfg.window
      /\ arrived \in [0 .. MaxNow -> Nat]
  BY SizesAssumption, ConfigsAssumption DEF IInv, TypeOK, Limits, Tracked, WindowOld
<1>4. ASSUME firstTime > now - cfg.window
      PROVE  FALSE
  <2> DEFINE a == now - cfg.window + 1
  <2>1. a \in 0 .. now /\ a <= firstTime /\ a \in 0 .. MaxNow
    BY <1>2, <1>3, <1>4, Ago
  <2>2. arrived[a] > 0
    BY DEF WindowOld
  <2> HIDE DEF a
  <2>3. arrived[a] <= arrived[firstTime]
    BY <1>2, <2>1 DEF IInv, HistoryGrows
  <2> QED
    BY <1>2, <1>3, <2>1, <2>2, <2>3
<1> QED
  BY <1>2, <1>3, <1>4, Ago DEF WindowFull

(* And only such a window is. *)
LEMMA FullIsOutlived ==
    ASSUME IInv, pc = "observed", Tracked, WindowFull
    PROVE  WindowOld
<1>1. Counting /\ samples # <<>>
  BY DEF IInv, ReadUnderWay, Counting
<1>2. /\ firstTime \in 0 .. now
      /\ firstTime < now => arrived[firstTime + 1] > 0
  BY <1>1 DEF IInv, FirstTimeIsFirst
<1>3. /\ now \in Nat /\ now <= MaxNow /\ MaxNow \in Nat
      /\ cfg.window \in Nat /\ cfg.window > 0
      /\ arrived \in [0 .. MaxNow -> Nat]
  BY SizesAssumption, ConfigsAssumption DEF IInv, TypeOK, Limits, Tracked
<1>4. now - firstTime >= cfg.window
  BY DEF WindowFull
<1> DEFINE a == now - cfg.window + 1
<1>5. /\ firstTime < now /\ now >= cfg.window
      /\ firstTime + 1 \in 0 .. now /\ a \in 0 .. now /\ firstTime + 1 <= a
      /\ firstTime + 1 \in 0 .. MaxNow /\ a \in 0 .. MaxNow
  <2>1. \A f, m, max, w \in Nat : f <= m /\ m <= max /\ w > 0 /\ m - f >= w =>
          /\ f < m /\ m >= w
          /\ f + 1 \in 0 .. m /\ m - w + 1 \in 0 .. m /\ f + 1 <= m - w + 1
          /\ f + 1 \in 0 .. max /\ m - w + 1 \in 0 .. max
    OBVIOUS
  <2>2. firstTime \in Nat /\ firstTime <= now
    BY <1>2, <1>3
  <2> QED
    BY <1>3, <1>4, <2>1, <2>2
<1> HIDE DEF a
<1>6. arrived[firstTime + 1] <= arrived[a]
  BY <1>5 DEF IInv, HistoryGrows
<1>7. arrived[a] > 0
  <2>1. arrived[firstTime + 1] \in Nat /\ arrived[a] \in Nat
    BY <1>3, <1>5
  <2> QED
    BY <1>2, <1>5, <1>6, <2>1
<1> QED
  BY <1>5, <1>7 DEF WindowOld, a

(* A full window of a steady body is not too slow. *)
LEMMA FullIsOld ==
    ASSUME IInv, pc = "observed", Trimmed, TooSlow
    PROVE  ~Steady
<1> SUFFICES ASSUME Steady
             PROVE  FALSE
  OBVIOUS
<1>1. Tracked /\ WindowFull /\ BytesPerSecond < cfg.minRate
  BY DEF TooSlow
<1>2. Counting /\ samples # <<>>
  BY <1>1 DEF IInv, ReadUnderWay, Counting
<1>3. /\ now \in Nat /\ now <= MaxNow /\ MaxNow \in Nat /\ cfg.window \in Nat
      /\ readBytes \in Nat /\ arrived \in [0 .. MaxNow -> Nat]
      /\ Second \in Nat /\ cfg.minRate \in Nat
      /\ firstTime \in 0 .. now
  BY <1>2, SizesAssumption, ConfigsAssumption
     DEF IInv, TypeOK, Limits, FirstTimeIsFirst
<1> DEFINE since == now - cfg.window
<1>4. now - firstTime >= cfg.window
  BY <1>1 DEF WindowFull
<1>5. since \in firstTime .. now /\ now >= cfg.window /\ now - since = cfg.window
      /\ since \in 0 .. MaxNow /\ now \in 0 .. now /\ now \in 0 .. MaxNow
  BY <1>3, <1>4
<1>6. (readBytes - arrived[since]) * Second < cfg.minRate * cfg.window
  BY <1>1, <1>5, VerdictIsRate
<1> HIDE DEF since
<1>7. (arrived[now] - arrived[since]) * Second >= cfg.minRate * (now - since)
  BY <1>2, <1>5 DEF IInv, SteadyKeepsUp
<1>8. arrived[now] <= readBytes
  BY <1>5 DEF IInv, HistoryGrows
<1>9. arrived[now] \in Nat /\ arrived[since] \in Nat
  BY <1>3, <1>5
<1>10. (arrived[now] - arrived[since]) * Second <= (readBytes - arrived[since]) * Second
       /\ (arrived[now] - arrived[since]) * Second \in Int
       /\ (readBytes - arrived[since]) * Second \in Int
  <2>1. /\ arrived[now] - arrived[since] \in Int /\ readBytes - arrived[since] \in Int
        /\ arrived[now] - arrived[since] <= readBytes - arrived[since]
    BY <1>3, <1>8, <1>9
  <2> QED
    BY <1>3, <2>1, Scaled
<1>11. cfg.minRate * cfg.window \in Int
  BY <1>3
<1> QED
  BY <1>5, <1>6, <1>7, <1>10, <1>11

LEMMA ReturnKeeps ==
    ASSUME IInv, ReadReturns
    PROVE  IInv'
<1>1. /\ UNCHANGED <<cfg, now, ctxDone, n, err, compressed, readBytes, tracker, arrived>>
      /\ pc = "observed" /\ Trimmed /\ pc' = "idle"
  BY DEF ReadReturns, ReturnSource, Return, source
<1>2. /\ last' \in SourceErrors \cup Refusals
      /\ last' = "tooSlow" => TooSlow
      /\ last' \in SourceErrors => ~Bomb
  BY DEF ReadReturns, ReturnSource, Return, IInv, TypeOK, SourceErrors, Refusals
<1>3. History'
  BY <1>1, HistoryStays DEF IInv, History
<1>4. TypeOK'
  BY <1>1, <1>2 DEF IInv, TypeOK, tracker
<1>5. ReadUnderWay'
  BY <1>1 DEF ReadUnderWay
<1>6. SteadyIsNeverTooSlow'
  <2>1. last' = "tooSlow" => ~Steady
    BY <1>1, <1>2, FullIsOld
  <2>2. Steady' <=> Steady
    BY <1>1 DEF Steady
  <2> QED
    BY <2>1, <2>2 DEF SteadyIsNeverTooSlow
<1>7. CleanReadsWithinLimits'
  <2>1. /\ cfg.maxBytes \in Nat /\ cfg.maxRatio \in Nat /\ readBytes \in Nat
        /\ compressed \in Nat
    BY ConfigsAssumption DEF IInv, TypeOK, Limits
  <2>2. cfg.maxBytes > 0 => readBytes <= cfg.maxBytes
    BY <1>1, <2>1 DEF IInv, ReadUnderWay, TooLarge
  <2>3. cfg.maxRatio * compressed \in Nat
    BY <2>1
  <2>4. ~Bomb => (cfg.gzip /\ cfg.maxRatio > 0 /\ compressed >= BombMin =>
                      readBytes <= cfg.maxRatio * compressed)
    BY <2>1, <2>3 DEF Bomb
  <2> QED
    BY <1>1, <1>2, <2>2, <2>4 DEF CleanReadsWithinLimits
<1> QED
  BY <1>3, <1>4, <1>5, <1>6, <1>7 DEF IInv, History

-----------------------------------------------------------------------------
LEMMA NextKeepsInv == IInv /\ [Next]_vars => IInv'
<1> SUFFICES ASSUME IInv, [Next]_vars
             PROVE  IInv'
  OBVIOUS
<1>1. CASE Tick
  BY <1>1, TickKeeps
<1>2. CASE ContextEnds
  <2>1. UNCHANGED <<cfg, now, readBytes, tracker, arrived>> /\ ctxDone' = TRUE
        /\ UNCHANGED <<pc, n, err, compressed, last>>
    BY <1>2 DEF ContextEnds, source
  <2>2. History'
    BY <2>1, HistoryStays DEF IInv, History
  <2>3. TypeOK'
    BY <2>1 DEF IInv, TypeOK, tracker
  <2>4. ReadUnderWay' /\ SteadyIsNeverTooSlow' /\ CleanReadsWithinLimits'
    BY <2>1 DEF IInv, ReadUnderWay, SteadyIsNeverTooSlow, CleanReadsWithinLimits, Steady,
                Tracked, TooLarge, tracker
  <2> QED
    BY <2>2, <2>3, <2>4 DEF IInv, History
<1>3. CASE ReadBegins
  <2>1. /\ UNCHANGED <<cfg, now, ctxDone, readBytes, tracker, arrived, err, compressed>>
        /\ \/ pc' = "idle" /\ last' = "aborted" /\ n' = 0
           \/ pc' = "source" /\ last' = last /\ n' = n
    BY <1>3 DEF ReadBegins, Return
  <2>2. History'
    BY <2>1, HistoryStays DEF IInv, History
  <2>3. TypeOK'
    BY <2>1 DEF IInv, TypeOK, tracker, Refusals
  <2>4. ReadUnderWay' /\ SteadyIsNeverTooSlow' /\ CleanReadsWithinLimits'
    BY <2>1 DEF ReadUnderWay, SteadyIsNeverTooSlow, CleanReadsWithinLimits, SourceErrors
  <2> QED
    BY <2>2, <2>3, <2>4 DEF IInv, History
<1>4. CASE SourceStep
  BY <1>4, SourceKeeps DEF SourceStep
<1>5. CASE TrimOne
  BY <1>5, TrimKeeps
<1>6. CASE ReadReturns
  BY <1>6, ReturnKeeps
<1>7. CASE UNCHANGED vars
  <2>1. UNCHANGED <<cfg, now, ctxDone, readBytes, tracker, arrived, pc, n, err, compressed, last>>
    BY <1>7 DEF vars, source
  <2>2. History'
    BY <2>1, HistoryStays DEF IInv, History
  <2>3. TypeOK'
    BY <2>1 DEF IInv, TypeOK, tracker
  <2>4. ReadUnderWay' /\ SteadyIsNeverTooSlow' /\ CleanReadsWithinLimits'
    BY <2>1 DEF IInv, ReadUnderWay, SteadyIsNeverTooSlow, CleanReadsWithinLimits, Steady,
                Tracked, TooLarge, tracker
  <2> QED
    BY <2>2, <2>3, <2>4 DEF IInv, History
<1> QED
  BY <1>1, <1>2, <1>3, <1>4, <1>5, <1>6, <1>7 DEF Next, Finished

THEOREM Invariance == Spec => []IInv
  BY InitInv, NextKeepsInv, PTL DEF Spec

(* Counts never go below zero: the sum takes away only what it added.      *)
THEOREM BlTypeCorrect == Spec => []TypeOK
<1>1. IInv => TypeOK
  BY DEF IInv
<1> QED
  BY <1>1, Invariance, PTL

(* Whatever the window and the rate, a steady body is read to its end.     *)
THEOREM SteadyBodiesPass == Spec => []SteadyIsNeverTooSlow
<1>1. IInv => SteadyIsNeverTooSlow
  BY DEF IInv
<1> QED
  BY <1>1, Invariance, PTL

(* No clean bytes come from beyond a limit. *)
THEOREM LimitsHold == Spec => []CleanReadsWithinLimits
<1>1. IInv => CleanReadsWithinLimits
  BY DEF IInv
<1> QED
  BY <1>1, Invariance, PTL

(* For every rate and window, wherever the reads fall between the ticks:   *)
(* the sum that rateTracker keeps, floored to a rate per second, refuses   *)
(* the bodies that are too slow and no others.                             *)
THEOREM RateVerdictIsExact == Spec => RateVerdictIsTrue
<1> DEFINE Below == (readBytes - arrived[now - cfg.window]) * Second < cfg.minRate * cfg.window
<1>1. ASSUME IInv, ReadReturns, Tracked
      PROVE  last' = "tooSlow" <=> WindowOld /\ Below
  <2>1. pc = "observed" /\ Trimmed
    BY <1>1 DEF ReadReturns
  <2>2. last' = "tooSlow" <=> TooSlow
    BY <1>1 DEF ReadReturns, ReturnSource, Return, IInv, TypeOK, SourceErrors
  <2>3. WindowFull <=> WindowOld
    BY <1>1, <2>1, OldIsFull, FullIsOutlived
  <2>4. WindowOld => (BytesPerSecond < cfg.minRate <=> Below)
    BY <1>1, <2>1, VerdictIsRate DEF WindowOld
  <2> HIDE DEF Below
  <2> QED
    BY <1>1, <2>2, <2>3, <2>4 DEF TooSlow
<1>2. IInv /\ [Next]_vars =>
        [ReadReturns /\ Tracked => (last' = "tooSlow" <=> WindowOld /\ Below)]_vars
  BY <1>1
<1> QED
  BY <1>2, Invariance, PTL DEF Spec, RateVerdictIsTrue

=============================================================================
