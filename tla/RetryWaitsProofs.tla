-------------------------- MODULE RetryWaitsProofs --------------------------
(***************************************************************************)
(* Theorems about RetryWaits, for durations of every width: the bounds of  *)
(* backoff, the word of a server's hint, and both together.                *)
(***************************************************************************)
EXTENDS RetryWaits, TLAPS

-----------------------------------------------------------------------------
(* Minima and maxima. *)

LEMMA MinOfTwo ==
    ASSUME NEW a \in Int, NEW b \in Int
    PROVE  Min({a, b}) = IF a <= b THEN a ELSE b
<1>1. \E x \in {a, b} : \A y \in {a, b} : x <= y
  BY SMT
<1>2. \A x \in {a, b} : (\A y \in {a, b} : x <= y) => x = IF a <= b THEN a ELSE b
  BY SMT
<1> QED
  BY <1>1, <1>2 DEF Min

LEMMA MaxOfTwo ==
    ASSUME NEW a \in Int, NEW b \in Int
    PROVE  Max({a, b}) = IF a >= b THEN a ELSE b
<1>1. \E x \in {a, b} : \A y \in {a, b} : x >= y
  BY SMT
<1>2. \A x \in {a, b} : (\A y \in {a, b} : x >= y) => x = IF a >= b THEN a ELSE b
  BY SMT
<1> QED
  BY <1>1, <1>2 DEF Max

(* The first usable hint. *)
LEMMA MinOfThree ==
    ASSUME NEW S, S \subseteq 1 .. 3, S # {}
    PROVE  /\ Min(S) \in S
           /\ \A i \in S : Min(S) <= i
<1>1. \E x \in S : \A y \in S : x <= y
  <2>1. CASE 1 \in S
    BY <2>1, SMT
  <2>2. CASE 1 \notin S /\ 2 \in S
    BY <2>2, SMT
  <2>3. CASE 1 \notin S /\ 2 \notin S
    <3>1. \A y \in S : y = 3
      BY <2>3, SMT
    <3>2. PICK e : e \in S
      OBVIOUS
    <3>3. \A y \in S : e <= y
      BY <3>1, <3>2
    <3> QED
      BY <3>2, <3>3
  <2> QED
    BY <2>1, <2>2, <2>3
<1> QED
  BY <1>1 DEF Min

-----------------------------------------------------------------------------
(* Durations wrap into their width, by a multiple of their number; what    *)
(* fits is kept.                                                           *)

LEMMA Division ==
    ASSUME NEW x \in Int, NEW w \in Nat, w > 0
    PROVE  /\ x % w \in 0 .. w - 1
           /\ x \div w \in Int
           /\ x = w * (x \div w) + (x % w)
           /\ 0 <= x /\ x < w => x % w = x
  BY SMT

LEMMA WrapFits ==
    ASSUME NEW x \in Int
    PROVE  /\ Wrap(x) \in 0 - Limit .. Limit - 1
           /\ \E j \in Int : Wrap(x) = x - (2 * Limit) * j
           /\ 0 <= x /\ x < Limit => Wrap(x) = x
<1>1. 2 * Limit \in Nat /\ 2 * Limit > 0 /\ Limit \in Nat /\ Limit > 0
  BY LimitAssumption
<1>2. /\ (x + Limit) % (2 * Limit) \in 0 .. 2 * Limit - 1
      /\ (x + Limit) \div (2 * Limit) \in Int
      /\ x + Limit = (2 * Limit) * ((x + Limit) \div (2 * Limit))
                        + ((x + Limit) % (2 * Limit))
      /\ 0 <= x + Limit /\ x + Limit < 2 * Limit =>
             (x + Limit) % (2 * Limit) = x + Limit
  BY <1>1, x + Limit \in Int, Division
<1> DEFINE q == (x + Limit) \div (2 * Limit)
           r == (x + Limit) % (2 * Limit)
           p == (2 * Limit) * q
<1>3. /\ r \in 0 .. 2 * Limit - 1 /\ q \in Int /\ p \in Int
      /\ x + Limit = p + r
      /\ 0 <= x + Limit /\ x + Limit < 2 * Limit => r = x + Limit
      /\ Wrap(x) = r - Limit
  BY <1>1, <1>2 DEF Wrap
<1> HIDE DEF q, r, p
<1>4. Wrap(x) \in 0 - Limit .. Limit - 1 /\ Wrap(x) = x - p
  BY <1>1, <1>3
<1>5. 0 <= x /\ x < Limit => Wrap(x) = x
  BY <1>1, <1>3
<1> QED
  BY <1>3, <1>4, <1>5 DEF p

-----------------------------------------------------------------------------
(* The bounds New makes. *)

LEMMA BoundsOfNew ==
    ASSUME NEW r \in RawOptions
    PROVE  /\ Normalised(r) \in Bounds
           /\ Normalised(r).waitMin <= Normalised(r).waitMax
<1>1. /\ OrDefault(r, "waitMin") \in Positive
      /\ OrDefault(r, "waitMax") \in Positive
      /\ OrDefault(r, "maxRetryAfter") \in Positive
  BY LimitAssumption, RawAssumption, DefaultsAssumption
     DEF OrDefault, Bounds, Positive
<1> DEFINE lo == OrDefault(r, "waitMin")
           hi == OrDefault(r, "waitMax")
           b  == InOrder(lo, hi)
<1>2. b[1] \in Positive /\ b[2] \in Positive /\ b[1] <= b[2]
  <2>1. CASE lo > hi
    BY <1>1, <2>1 DEF InOrder, Positive
  <2>2. CASE ~(lo > hi)
    BY <1>1, <2>2 DEF InOrder, Positive
  <2> QED
    BY <2>1, <2>2
<1>3. Normalised(r) = [waitMin |-> b[1], waitMax |-> b[2],
                       maxRetryAfter |-> OrDefault(r, "maxRetryAfter")]
  BY DEF Normalised
<1> QED
  BY <1>1, <1>2, <1>3 DEF Bounds

-----------------------------------------------------------------------------
(* The ceiling of the jitter. *)

LEMMA ShiftInRange ==
    ASSUME NEW n \in Nat
    PROVE  Shift(n) \in 0 .. MaxShift /\ Pow[Shift(n)] \in Positive
<1>1. n \in Int /\ MaxShift \in Int /\ MaxShift >= 0
  BY PowAssumption
<1>2. Shift(n) = IF n <= MaxShift THEN n ELSE MaxShift
  BY <1>1, MinOfTwo DEF Shift
<1>3. Shift(n) \in 0 .. MaxShift
  BY <1>1, <1>2
<1> QED
  BY <1>3, PowAssumption

(* Whatever waitMin, a wrapped product keeps the power that divides it.    *)
LEMMA WrappedIsLong ==
    ASSUME NEW w \in Nat, NEW s \in 0 .. MaxShift, Wrap(w * Pow[s]) > 0
    PROVE  Wrap(w * Pow[s]) >= Pow[s]
<1>1. Pow[s] \in Nat /\ Pow[s] > 0 /\ Limit \in Nat /\ w * Pow[s] \in Int
  BY PowAssumption, LimitAssumption DEF Positive
<1>2. PICK j \in Int : Wrap(w * Pow[s]) = w * Pow[s] - (2 * Limit) * j
  BY <1>1, WrapFits
<1>3. (2 * Limit) % Pow[s] = 0
  BY PowAssumption
<1>4. PICK q \in Int : 2 * Limit = Pow[s] * q
  <2>1. /\ (2 * Limit) \div Pow[s] \in Int
        /\ 2 * Limit = Pow[s] * ((2 * Limit) \div Pow[s]) + ((2 * Limit) % Pow[s])
    BY <1>1, 2 * Limit \in Int, Division
  <2>2. \A x, y, z \in Int : x = y + z /\ z = 0 => x = y
    OBVIOUS
  <2>3. 2 * Limit = Pow[s] * ((2 * Limit) \div Pow[s])
    BY <1>1, <1>3, <2>1, <2>2
  <2> QED
    BY <2>1, <2>3
<1>5. \A p, a, b, k \in Int : a * p - (p * b) * k = p * (a - b * k)
  BY SMT
<1>6. Wrap(w * Pow[s]) = Pow[s] * (w - q * j) /\ w - q * j \in Int
  BY <1>1, <1>2, <1>4, <1>5, SMT
<1>7. \A p \in Nat, m \in Int : p * m > 0 /\ p > 0 => p * m >= p
  BY SMT
<1> QED
  BY <1>1, <1>6, <1>7, SMT

LEMMA CeilingInBounds ==
    ASSUME TypeOK, NEW n \in Nat
    PROVE  /\ Ceiling(n) \in Int
           /\ 0 < Ceiling(n) /\ Ceiling(n) <= t.waitMax
           /\ OverflowsAreLong =>
                  /\ t.waitMin <= Ceiling(n)
                  /\ Ceiling(n) <= t.waitMin * Pow[Shift(n)]
<1> DEFINE s == Shift(n)
           p == t.waitMin * Pow[s]
           c == Ceiling(n)
<1>1. /\ s \in 0 .. MaxShift /\ Pow[s] \in Nat /\ Pow[s] > 0
      /\ t.waitMin \in Nat /\ t.waitMin > 0 /\ t.waitMax \in Nat
      /\ t.waitMin <= t.waitMax /\ t.waitMax < Limit /\ Limit \in Nat
  BY ShiftInRange, LimitAssumption DEF TypeOK, Bounds, Positive
<1>2. p \in Int /\ p >= t.waitMin
  <2>1. \A a, b \in Nat : b > 0 => a * b \in Int /\ a * b >= a
    BY SMT
  <2> QED
    BY <1>1, <2>1
<1>3. Wrap(p) \in Int /\ (p < Limit => Wrap(p) = p)
  BY <1>1, <1>2, WrapFits
<1>4. c = IF Wrap(p) <= 0 \/ Wrap(p) > t.waitMax THEN t.waitMax ELSE Wrap(p)
  BY DEF Ceiling, Cap
<1>5. Wrap(p) > 0 => Wrap(p) >= Pow[s]
  BY <1>1, WrappedIsLong
<1>6. ASSUME OverflowsAreLong
      PROVE  t.waitMin <= c /\ c <= p
  <2>1. CASE p < Limit
    BY <1>1, <1>2, <1>3, <1>4, <2>1
  <2>2. CASE p >= Limit
    <3>1. Pow[s] > t.waitMax
      BY <1>1, <1>6, <2>2 DEF OverflowsAreLong
    <3>2. c = t.waitMax
      BY <1>1, <1>3, <1>4, <1>5, <3>1
    <3> QED
      BY <1>1, <1>2, <2>2, <3>2
  <2> QED
    BY <1>1, <1>2, <2>1, <2>2
<1> QED
  BY <1>1, <1>3, <1>4, <1>6

-----------------------------------------------------------------------------
(* Hints. *)

LEMMA ClampInBounds ==
    ASSUME TypeOK, NEW d \in 1 .. Limit - 1
    PROVE  /\ clampServerWait(d) \in 1 .. Limit - 1
           /\ clampServerWait(d) =
                  IF d <= t.waitMin
                    THEN IF t.waitMin <= t.maxRetryAfter THEN t.waitMin ELSE t.maxRetryAfter
                    ELSE IF d <= t.maxRetryAfter THEN d ELSE t.maxRetryAfter
<1>1. /\ d \in Int /\ t.waitMin \in Int /\ t.maxRetryAfter \in Int /\ Limit \in Int
      /\ t.waitMin \in 1 .. Limit - 1 /\ t.maxRetryAfter \in 1 .. Limit - 1
  BY LimitAssumption DEF TypeOK, Bounds, Positive
<1>2. Max({d, t.waitMin}) = IF d >= t.waitMin THEN d ELSE t.waitMin
  BY <1>1, MaxOfTwo
<1>3. Max({d, t.waitMin}) \in Int
  BY <1>1, <1>2
<1>4. clampServerWait(d) = IF Max({d, t.waitMin}) <= t.maxRetryAfter
                             THEN Max({d, t.waitMin}) ELSE t.maxRetryAfter
  BY <1>1, <1>3, MinOfTwo DEF clampServerWait
<1> QED
  BY <1>1, <1>2, <1>4

LEMMA SecondsParse ==
    ASSUME NEW v \in HeaderValue
    PROVE  /\ parseDeltaSeconds(v) \in 0 - Limit .. Limit - 1
           /\ v.n * Second \in Nat
           /\ v.n * Second < Limit /\ v.kind = "seconds" =>
                  parseDeltaSeconds(v) = v.n * Second
           /\ v.kind = "seconds" /\ v.n > 0 => v.n * Second > 0
           /\ v.n = 0 => v.n * Second = 0
<1>1. v.n \in Nat /\ Second \in Nat /\ Second > 0 /\ Limit \in Nat /\ Limit > 0
  BY LimitAssumption DEF HeaderValue, Positive
<1>2. /\ v.n * Second \in Nat /\ v.n * Second \in Int
      /\ v.n > 0 => v.n * Second > 0
      /\ v.n = 0 => v.n * Second = 0
  BY <1>1, SMT
<1>3. /\ Wrap(v.n * Second) \in 0 - Limit .. Limit - 1
      /\ 0 <= v.n * Second /\ v.n * Second < Limit => Wrap(v.n * Second) = v.n * Second
  BY <1>2, WrapFits
<1>4. parseDeltaSeconds(v) = IF v.kind = "seconds" THEN Wrap(v.n * Second) ELSE 0
  BY DEF parseDeltaSeconds
<1>5. 0 <= v.n * Second
  BY <1>2
<1> QED
  BY <1>1, <1>2, <1>3, <1>4, <1>5

LEMMA EpochParse ==
    ASSUME NEW v \in HeaderValue, v.kind = "seconds", v.n >= Threshold
    PROVE  /\ (v.n - Now) * Second \in Int
           /\ parseDeltaSecondsOrEpoch(v) =
                  IF (v.n - Now) * Second <= 0 THEN 0
                  ELSE IF (v.n - Now) * Second <= Limit - 1 THEN (v.n - Now) * Second
                  ELSE Limit - 1
<1> DEFINE u == (v.n - Now) * Second
<1>1. u \in Int /\ Limit - 1 \in Int /\ Limit - 1 >= 0
  BY LimitAssumption, ResponsesAssumption DEF HeaderValue, Positive
<1>2. Min({u, Limit - 1}) = IF u <= Limit - 1 THEN u ELSE Limit - 1
  BY <1>1, MinOfTwo
<1>3. Max({0, Min({u, Limit - 1})}) =
        IF 0 >= Min({u, Limit - 1}) THEN 0 ELSE Min({u, Limit - 1})
  BY <1>1, <1>2, MaxOfTwo
<1>4. parseDeltaSecondsOrEpoch(v) = Max({0, Min({u, Limit - 1})})
  BY DEF parseDeltaSecondsOrEpoch
<1> QED
  BY <1>1, <1>2, <1>3, <1>4

(* Hints are durations, and one that is usable is picked. *)
LEMMA HintsAreDurations ==
    ASSUME NEW h \in Responses
    PROVE  /\ \A i \in 1 .. 3 : Parsed(h)[i] \in 0 - Limit .. Limit - 1
           /\ Usable(h) # {} =>
                  /\ Min(Usable(h)) \in Usable(h)
                  /\ \A i \in Usable(h) : Min(Usable(h)) <= i
                  /\ Parsed(h)[Min(Usable(h))] \in 1 .. Limit - 1
<1>1. /\ h.retryAfter \in HeaderValue /\ h.rateLimitReset \in HeaderValue
      /\ h.xRateLimitReset \in HeaderValue
  BY ResponsesAssumption
<1>2. parseRetryAfter(h.retryAfter) \in 0 - Limit .. Limit - 1
  BY <1>1, SecondsParse, LimitAssumption DEF parseRetryAfter, HeaderValue
<1>3. parseDeltaSeconds(h.rateLimitReset) \in 0 - Limit .. Limit - 1
  BY <1>1, SecondsParse
<1>4. parseDeltaSecondsOrEpoch(h.xRateLimitReset) \in 0 - Limit .. Limit - 1
  <2>1. CASE h.xRateLimitReset.kind = "seconds" /\ h.xRateLimitReset.n >= Threshold
    BY <1>1, <2>1, EpochParse, LimitAssumption
  <2>2. CASE ~(h.xRateLimitReset.kind = "seconds" /\ h.xRateLimitReset.n >= Threshold)
    BY <1>1, <2>2, SecondsParse DEF parseDeltaSecondsOrEpoch
  <2> QED
    BY <2>1, <2>2
<1>5. \A i \in 1 .. 3 : Parsed(h)[i] \in 0 - Limit .. Limit - 1
  BY <1>2, <1>3, <1>4 DEF Parsed
<1>6. Usable(h) \subseteq 1 .. 3
  BY DEF Usable
<1>7. Usable(h) # {} => /\ Min(Usable(h)) \in Usable(h)
                       /\ \A i \in Usable(h) : Min(Usable(h)) <= i
  BY <1>6, MinOfThree
<1> QED
  BY <1>5, <1>7, LimitAssumption DEF Usable
(* What is asked for is what is parsed, cut to the longest duration.       *)
LEMMA AskedIsParsed ==
    ASSUME NEW h \in Responses, Fits(h), Asked(h) > 0
    PROVE  /\ Usable(h) # {}
           /\ Asked(h) \in Int
           /\ Parsed(h)[Min(Usable(h))] =
                  IF Asked(h) < Limit THEN Asked(h) ELSE Limit - 1
<1> DEFINE a == h.retryAfter
           b == h.rateLimitReset
           c == h.xRateLimitReset
           m == Min(Usable(h))
<1>1. /\ a \in HeaderValue /\ b \in HeaderValue /\ c \in HeaderValue
      /\ a.n \in 0 .. Limit - 1 /\ b.n \in 0 .. Limit - 1 /\ c.n \in 0 .. Limit - 1
      /\ a.kind \in {"absent", "seconds", "date"}
      /\ b.kind \in {"absent", "seconds", "date"}
      /\ c.kind \in {"absent", "seconds", "date"}
      /\ Limit \in Nat /\ Limit > 0 /\ Second \in Nat /\ Second > 0 /\ Second < Limit
  BY ResponsesAssumption, LimitAssumption DEF HeaderValue, Positive
<1>2. /\ Parsed(h)[1] = parseRetryAfter(a)
      /\ Parsed(h)[2] = parseDeltaSeconds(b)
      /\ Parsed(h)[3] = parseDeltaSecondsOrEpoch(c)
      /\ \A i \in 1 .. 3 : i \in Usable(h) <=> Parsed(h)[i] > 0
      /\ \A i \in Usable(h) : i \in 1 .. 3
  BY DEF Parsed, Usable
<1>3. Usable(h) # {} => m \in Usable(h) /\ \A i \in Usable(h) : m <= i
  BY HintsAreDurations
<1>4. parseRetryAfter(a) = AskedBy(a) /\ AskedBy(a) \in Int /\ AskedBy(a) >= 0
                                     /\ AskedBy(a) < Limit
  BY <1>1, SecondsParse DEF Fits, AskedBy, parseRetryAfter, parseDeltaSeconds
<1>5. /\ b.kind = "seconds" => parseDeltaSeconds(b) = b.n * Second
      /\ b.kind # "seconds" => parseDeltaSeconds(b) = 0
      /\ b.kind = "seconds" => b.n * Second < Limit
      /\ b.n * Second \in Int
      /\ b.kind = "seconds" /\ b.n > 0 => b.n * Second > 0
      /\ b.n = 0 => b.n * Second = 0
  BY <1>1, SecondsParse DEF Fits, AskedBy, parseDeltaSeconds
<1>6. CASE AskedBy(a) > 0
  <2>1. Asked(h) = AskedBy(a)
    BY <1>6 DEF Asked
  <2>2. 1 \in Usable(h)
    BY <1>2, <1>4, <1>6
  <2>3. m = 1
    BY <1>2, <1>3, <2>2
  <2> QED
    BY <1>2, <1>4, <2>1, <2>2, <2>3
<1>7. CASE ~(AskedBy(a) > 0) /\ b.kind = "seconds" /\ b.n > 0
  <2>1. Asked(h) = b.n * Second
    BY <1>7 DEF Asked
  <2>2. 2 \in Usable(h) /\ 1 \notin Usable(h)
    BY <1>2, <1>4, <1>5, <1>7
  <2>3. m = 2
    BY <1>2, <1>3, <2>2
  <2> QED
    BY <1>2, <1>5, <1>7, <2>1, <2>2, <2>3
<1>8. CASE ~(AskedBy(a) > 0) /\ ~(b.kind = "seconds" /\ b.n > 0)
  <2>1. Asked(h) = AskedByReset(c)
    BY <1>8 DEF Asked
  <2>2. c.kind = "seconds"
    BY <2>1 DEF AskedByReset
  <2>3. 1 \notin Usable(h) /\ 2 \notin Usable(h)
    BY <1>1, <1>2, <1>4, <1>5, <1>8
  <2>4. 3 \in Usable(h) => m = 3
    BY <1>2, <1>3, <2>3
  <2>5. CASE c.n >= Threshold
    <3>1. Asked(h) = (c.n - Now) * Second
      BY <2>1, <2>2, <2>5 DEF AskedByReset
    <3>2. /\ Asked(h) \in Int
          /\ parseDeltaSecondsOrEpoch(c) =
                 IF Asked(h) <= Limit - 1 THEN Asked(h) ELSE Limit - 1
      BY <1>1, <2>2, <2>5, <3>1, EpochParse
    <3>3. parseDeltaSecondsOrEpoch(c) > 0
      BY <1>1, <3>2
    <3>4. 3 \in Usable(h)
      BY <1>2, <3>3
    <3> QED
      BY <1>1, <1>2, <2>4, <3>2, <3>4
  <2>6. CASE ~(c.n >= Threshold)
    <3>1. Asked(h) = c.n * Second
      BY <2>1, <2>2, <2>6 DEF AskedByReset
    <3>2. c.n * Second < Limit
      <4>1. \A x, y, z \in Nat : x < y /\ z > 0 => x * z < y * z
        BY SMT
      <4>2. c.n * Second < Threshold * Second
        BY <1>1, <2>6, <4>1, ResponsesAssumption
      <4>3. Threshold * Second <= Limit /\ Threshold * Second \in Int
        BY <1>1, ResponsesAssumption
      <4> QED
        BY <1>1, <4>2, <4>3, SecondsParse
    <3>3. parseDeltaSecondsOrEpoch(c) = c.n * Second /\ c.n * Second \in Int
      BY <1>1, <2>2, <2>6, <3>2, SecondsParse DEF parseDeltaSecondsOrEpoch
    <3>4. 3 \in Usable(h)
      BY <1>2, <3>1, <3>3
    <3> QED
      BY <1>1, <1>2, <2>4, <3>1, <3>2, <3>3, <3>4
  <2> QED
    BY <2>5, <2>6
<1> QED
  BY <1>6, <1>7, <1>8

-----------------------------------------------------------------------------
(* The invariant is inductive as it stands: a wait is decided by the step  *)
(* that makes it.                                                          *)

IInv == TypeOK /\ BackoffInBounds /\ HintsAreHonoured

LEMMA InitInv == Init => IInv
<1> SUFFICES ASSUME Init
             PROVE  IInv
  OBVIOUS
<1>1. PICK r \in RawOptions : t = Normalised(r)
  BY DEF Init
<1>2. t \in Bounds /\ t.waitMin <= t.waitMax
  BY <1>1, BoundsOfNew
<1> QED
  BY <1>2, LimitAssumption DEF Init, IInv, TypeOK, BackoffInBounds, HintsAreHonoured

LEMMA WaitKeepsInv ==
    ASSUME TypeOK, NEW h \in Responses, Wait(h)
    PROVE  IInv'
<1>1. /\ waits \in Nat /\ waits' = waits + 1 /\ hints' = h /\ UNCHANGED t
      /\ t.waitMin \in 1 .. Limit - 1 /\ t.waitMax \in 1 .. Limit - 1
      /\ t.maxRetryAfter \in 1 .. Limit - 1
      /\ t.waitMin <= t.waitMax /\ Limit \in Nat
  BY LimitAssumption DEF Wait, TypeOK, Bounds, Positive
<1>2. CASE WaitAsTold(h)
  <2> DEFINE d == Parsed(h)[Min(Usable(h))]
  <2>1. Usable(h) # {} /\ wait' = clampServerWait(d)
    BY <1>2 DEF WaitAsTold
  <2>2. d \in 1 .. Limit - 1
    BY <2>1, HintsAreDurations
  <2> HIDE DEF d
  <2>3. /\ wait' \in 1 .. Limit - 1
        /\ wait' = IF d <= t.waitMin
                     THEN IF t.waitMin <= t.maxRetryAfter THEN t.waitMin ELSE t.maxRetryAfter
                     ELSE IF d <= t.maxRetryAfter THEN d ELSE t.maxRetryAfter
    BY <2>1, <2>2, ClampInBounds
  <2>4. TypeOK'
    BY <1>1, <2>3 DEF TypeOK
  <2>5. BackoffInBounds'
    BY <1>1, <2>1 DEF BackoffInBounds, Usable, Parsed
  <2>6. ASSUME Fits(h), Asked(h) > 0
        PROVE  /\ wait' <= t.maxRetryAfter
               /\ wait' >= Min({Asked(h), t.maxRetryAfter})
               /\ wait' \in {Asked(h), t.waitMin, t.maxRetryAfter}
    <3>1. /\ Asked(h) \in Int
          /\ d = IF Asked(h) < Limit THEN Asked(h) ELSE Limit - 1
      BY <2>6, AskedIsParsed DEF d
    <3>2. Min({Asked(h), t.maxRetryAfter}) =
            IF Asked(h) <= t.maxRetryAfter THEN Asked(h) ELSE t.maxRetryAfter
      BY <1>1, <3>1, MinOfTwo
    <3> QED
      BY <1>1, <2>2, <2>3, <3>1, <3>2
  <2>7. wait' <= t.maxRetryAfter /\ (wait' >= t.waitMin \/ wait' = t.maxRetryAfter)
    BY <1>1, <2>2, <2>3
  <2>8. HintsAreHonoured'
    BY <1>1, <2>6, <2>7 DEF HintsAreHonoured, Fits, Asked, AskedBy, AskedByReset
  <2> QED
    BY <2>4, <2>5, <2>8 DEF IInv
<1>3. CASE WaitWithJitter(h)
  <2>1. /\ Ceiling(waits) \in Int
        /\ 0 < Ceiling(waits) /\ Ceiling(waits) <= t.waitMax
        /\ OverflowsAreLong => /\ t.waitMin <= Ceiling(waits)
                               /\ Ceiling(waits) <= t.waitMin * Pow[Shift(waits)]
    BY <1>1, CeilingInBounds
  <2>2. t.waitMin * Pow[Shift(waits)] \in Int
    BY <1>1, ShiftInRange, LimitAssumption DEF Positive
  <2>3. /\ wait' \in Int /\ 0 < wait' /\ wait' <= t.waitMax
        /\ OverflowsAreLong => /\ t.waitMin <= wait'
                               /\ wait' <= t.waitMin * Pow[Shift(waits)]
    <3>1. CASE Ceiling(waits) > t.waitMin /\ wait' \in t.waitMin .. Ceiling(waits)
      BY <1>1, <2>1, <2>2, <3>1
    <3>2. CASE Ceiling(waits) <= t.waitMin /\ wait' = Ceiling(waits)
      BY <1>1, <2>1, <2>2, <3>2
    <3> QED
      BY <1>3, <3>1, <3>2 DEF WaitWithJitter
  <2>4. TypeOK'
    BY <1>1, <2>3 DEF TypeOK
  <2>5. waits' - 1 = waits
    BY <1>1
  <2>6. BackoffInBounds'
    BY <1>1, <2>3, <2>5 DEF BackoffInBounds, OverflowsAreLong, Shift
  <2>7. Usable(h) = {}
    BY <1>3 DEF WaitWithJitter
  <2>8. HintsAreHonoured'
    <3>1. ~(Fits(h) /\ Asked(h) > 0)
      BY <2>7, AskedIsParsed
    <3> QED
      BY <1>1, <2>7, <3>1
         DEF HintsAreHonoured, Usable, Parsed, Fits, Asked, AskedBy, AskedByReset
  <2> QED
    BY <2>4, <2>6, <2>8 DEF IInv
<1> QED
  BY <1>2, <1>3 DEF Wait

LEMMA NextKeepsInv == IInv /\ [Next]_vars => IInv'
<1> SUFFICES ASSUME IInv, [Next]_vars
             PROVE  IInv'
  OBVIOUS
<1>1. ASSUME NEW h \in Responses, Wait(h)
      PROVE  IInv'
  BY <1>1, WaitKeepsInv DEF IInv
<1>2. CASE UNCHANGED vars
  BY <1>2 DEF vars, IInv, TypeOK, BackoffInBounds, HintsAreHonoured, OverflowsAreLong,
              Usable, Parsed, Shift, Fits, Asked, AskedBy, AskedByReset
<1> QED
  BY <1>1, <1>2 DEF Next, Finished

THEOREM Invariance == Spec => []IInv
  BY InitInv, NextKeepsInv, PTL DEF Spec

(* The bounds are durations in their order, and so is every wait.          *)
THEOREM RwTypeCorrect == Spec => []TypeOK
<1>1. IInv => TypeOK
  BY DEF IInv
<1> QED
  BY <1>1, Invariance, PTL

(* No width, power or attempt takes the backoff out of its bounds.         *)
THEOREM BackoffIsBounded == Spec => []BackoffInBounds
<1>1. IInv => BackoffInBounds
  BY DEF IInv
<1> QED
  BY <1>1, Invariance, PTL

(* The first hint that asks is obeyed, up to WithMaxRetryAfter, and one    *)
(* that overflows does not get past it.                                    *)
THEOREM HintsAreObeyed == Spec => []HintsAreHonoured
<1>1. IInv => HintsAreHonoured
  BY DEF IInv
<1> QED
  BY <1>1, Invariance, PTL

(* No server and no overflow makes the retry loop spin, or sleep for       *)
(* longer than the longer of its two bounds.                               *)
NoSpinNoOversleep ==
    waits > 0 => 0 < wait /\ (wait <= t.waitMax \/ wait <= t.maxRetryAfter)

THEOREM WaitsAreBounded == Spec => []NoSpinNoOversleep
<1>1. IInv => NoSpinNoOversleep
  <2>1. TypeOK => /\ t.waitMin \in Nat /\ t.waitMin > 0
                  /\ t.maxRetryAfter \in Nat /\ t.maxRetryAfter > 0
                  /\ wait \in Nat
    BY LimitAssumption DEF TypeOK, Bounds, Positive
  <2> QED
    BY <2>1 DEF IInv, BackoffInBounds, HintsAreHonoured, NoSpinNoOversleep
<1> QED
  BY <1>1, Invariance, PTL

=============================================================================
