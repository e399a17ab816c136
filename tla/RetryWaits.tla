----------------------------- MODULE RetryWaits -----------------------------
(***************************************************************************)
(* How long the retry loop waits between its attempts (backoff and the     *)
(* wait hints of src/retry.go), with the bounds New gives it.  A duration  *)
(* is an integer of the machine: products wrap.  Header texts are what     *)
(* their parsers make of them, and the jitter is any number it may draw.   *)
(***************************************************************************)
EXTENDS Integers, FiniteSetsExt

CONSTANTS
    Limit,          \* durations are -Limit .. Limit - 1
    Second,         \* a second, in units of a duration
    MaxShift,       \* maxBackoffShift
    Pow,            \* Pow[s] is 1 << s
    Threshold,      \* epochHeuristicThreshold, in seconds
    Now,            \* the present, in seconds since 1970
    RawOptions,     \* the arguments of WithRetryWait and WithMaxRetryAfter
    Defaults,       \* waitMin, waitMax and maxRetryAfter by default
    Responses,      \* the hints of the responses a server may give
    MaxWaits        \* bound on the waits of a call

Positive  == 1 .. Limit - 1
Bounds    == [waitMin : Positive, waitMax : Positive, maxRetryAfter : Positive]

ASSUME LimitAssumption == Limit \in Nat \ {0} /\ Second \in Positive
(* A shifted one is a power of two, which divides the number of durations. *)
ASSUME PowAssumption ==
    /\ MaxShift \in Nat
    /\ Pow \in [0 .. MaxShift -> Positive]
    /\ Pow[0] = 1
    /\ \A s \in 0 .. MaxShift : (2 * Limit) % Pow[s] = 0
ASSUME DefaultsAssumption ==
    Defaults \in Bounds /\ Defaults.waitMin <= Defaults.waitMax
ASSUME RawAssumption ==
    RawOptions \subseteq [waitMin       : 0 - Limit .. Limit - 1,
                          waitMax       : 0 - Limit .. Limit - 1,
                          maxRetryAfter : 0 - Limit .. Limit - 1]
(* A date is the time until it.  What X-RateLimit-Reset takes for a number *)
(* of seconds fits a duration: 10^9 seconds are 10^18 ns, below 2^63.      *)
HeaderValue == [kind : {"absent", "seconds", "date"}, n : 0 .. Limit - 1]
None        == [kind |-> "absent", n |-> 0]
NoHints     == [retryAfter |-> None, rateLimitReset |-> None, xRateLimitReset |-> None]
ASSUME ResponsesAssumption ==
    /\ Responses \subseteq [retryAfter      : HeaderValue,
                            rateLimitReset  : HeaderValue,
                            xRateLimitReset : HeaderValue]
    /\ Threshold \in Nat /\ Now \in Nat /\ Threshold * Second <= Limit

VARIABLES
    t,          \* the bounds of the transport
    waits,      \* waits made in this call
    hints,      \* the headers of the response before the last wait
    wait        \* the last wait, 0 before the first

vars == <<t, waits, hints, wait>>

(* Keeps a result in the width of a Duration. *)
Wrap(x) == ((x + Limit) % (2 * Limit)) - Limit

----------------------------------------------------------------------------
(* New. *)

OrDefault(r, field) == IF r[field] <= 0 THEN Defaults[field] ELSE r[field]

InOrder(lo, hi) == IF lo > hi THEN <<hi, lo>> ELSE <<lo, hi>>

Normalised(r) ==
    LET b == InOrder(OrDefault(r, "waitMin"), OrDefault(r, "waitMax")) IN
    [waitMin       |-> b[1],
     waitMax       |-> b[2],
     maxRetryAfter |-> OrDefault(r, "maxRetryAfter")]

----------------------------------------------------------------------------
(* Server hints.  A number of seconds wraps; the time until an instant is  *)
(* what time.Until makes of it, which saturates.  Here it is in seconds.   *)

parseDeltaSeconds(v) ==
    IF v.kind = "seconds" THEN Wrap(v.n * Second) ELSE 0

parseRetryAfter(v) ==
    IF v.kind = "date" THEN v.n ELSE parseDeltaSeconds(v)

parseDeltaSecondsOrEpoch(v) ==
    IF v.kind = "seconds" /\ v.n >= Threshold
      THEN Max({0, Min({(v.n - Now) * Second, Limit - 1})})
      ELSE parseDeltaSeconds(v)

(* Mutant: floored last, so past the cap.                                  *)
CappedThenFloored(d) == Max({Min({d, t.maxRetryAfter}), t.waitMin})
clampServerWait(d) == Min({Max({d, t.waitMin}), t.maxRetryAfter})

Parsed(h) ==
    <<parseRetryAfter(h.retryAfter),
      parseDeltaSeconds(h.rateLimitReset),
      parseDeltaSecondsOrEpoch(h.xRateLimitReset)>>

Usable(h) == {i \in 1 .. 3 : Parsed(h)[i] > 0}

----------------------------------------------------------------------------
(* Exponential backoff. *)

Shift(n) == Min({n, MaxShift})

(* Mutant: only what is too long is capped.                                *)
CapLongOnly(d) == IF d > t.waitMax THEN t.waitMax ELSE d
Cap(d) == IF d <= 0 \/ d > t.waitMax THEN t.waitMax ELSE d

Ceiling(n) == Cap(Wrap(t.waitMin * Pow[Shift(n)]))

Init ==
    /\ t \in {Normalised(r) : r \in RawOptions}
    /\ waits = 0
    /\ hints = NoHints
    /\ wait = 0

(* backoff, when a response has a hint ... *)
WaitAsTold(h) ==
    /\ Usable(h) # {}
    /\ wait' = clampServerWait(Parsed(h)[Min(Usable(h))])

(* ... and when there is none: full jitter above waitMin. *)
WaitWithJitter(h) ==
    /\ Usable(h) = {}
    /\ \/ /\ Ceiling(waits) > t.waitMin
          /\ wait' \in t.waitMin .. Ceiling(waits)
       \/ /\ Ceiling(waits) <= t.waitMin
          /\ wait' = Ceiling(waits)

Wait(h) ==
    /\ waits < MaxWaits
    /\ WaitAsTold(h) \/ WaitWithJitter(h)
    /\ hints' = h
    /\ waits' = waits + 1
    /\ UNCHANGED t

(* The last attempt was made. *)
Finished == waits = MaxWaits /\ UNCHANGED vars

Next == (\E h \in Responses : Wait(h)) \/ Finished

Spec == Init /\ [][Next]_vars

----------------------------------------------------------------------------
TypeOK ==
    /\ t \in Bounds /\ t.waitMin <= t.waitMax
    /\ waits \in Nat
    /\ hints \in Responses \cup {NoHints}
    /\ wait \in 0 .. Limit - 1

(* The powers that overflow waitMin are longer than waitMax: with the      *)
(* default 250 ms and 2 s, the first is 2^36 ns, 69 s.                     *)
OverflowsAreLong ==
    \A s \in 0 .. MaxShift : t.waitMin * Pow[s] >= Limit => Pow[s] > t.waitMax

(* "Backoff is exponential with full jitter within these bounds"           *)
(* (WithRetryWait).  Whatever overflows, a wait is positive and at most    *)
(* waitMax.  It is also at least waitMin and at most waitMin * 2^n, when   *)
(* overflows are long: a product that wraps to a positive number is then a *)
(* multiple of a power of two above waitMax, and is capped.                *)
BackoffInBounds ==
    waits > 0 /\ Usable(hints) = {} =>
        /\ 0 < wait /\ wait <= t.waitMax
        /\ OverflowsAreLong =>
               t.waitMin <= wait /\ wait <= t.waitMin * Pow[Shift(waits - 1)]

(* The time a header asks for, in arithmetic without a width.              *)
AskedBy(v) == IF v.kind = "absent" THEN 0
              ELSE IF v.kind = "date" THEN v.n ELSE v.n * Second
AskedByReset(v) ==
    IF v.kind # "seconds" THEN 0
    ELSE IF v.n >= Threshold THEN (v.n - Now) * Second ELSE v.n * Second

Asked(h) ==
    IF AskedBy(h.retryAfter) > 0 THEN AskedBy(h.retryAfter)
    ELSE IF h.rateLimitReset.kind = "seconds" /\ h.rateLimitReset.n > 0
           THEN h.rateLimitReset.n * Second
    ELSE AskedByReset(h.xRateLimitReset)

(* No number of seconds overflows. *)
Fits(h) ==
    /\ AskedBy(h.retryAfter) < Limit
    /\ AskedBy(h.rateLimitReset) < Limit

(* A server that asks for a wait gets it, from the first header that asks, *)
(* and no other; a longer one than WithMaxRetryAfter is cut to that, "if   *)
(* the server requests a longer delay, it will be capped at this value".   *)
(* That is of hints whose seconds fit a Duration.  A hint of which the     *)
(* overflow leaves something positive is not the server's, but no longer   *)
(* than the cap, and no shorter than waitMin unless the cap is.            *)
HintsAreHonoured ==
    /\ waits > 0 /\ Usable(hints) # {} =>
         /\ wait <= t.maxRetryAfter
         /\ wait >= t.waitMin \/ wait = t.maxRetryAfter
    /\ waits > 0 /\ Fits(hints) /\ Asked(hints) > 0 =>
         /\ wait <= t.maxRetryAfter
         /\ wait >= Min({Asked(hints), t.maxRetryAfter})
         /\ wait \in {Asked(hints), t.waitMin, t.maxRetryAfter}

=============================================================================
