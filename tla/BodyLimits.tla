----------------------------- MODULE BodyLimits -----------------------------
(***************************************************************************)
(* What guardedBody.Read of src/guard.go counts while a body is read: its  *)
(* size, the rate over a rolling window (rateTracker), and how far gzip    *)
(* has blown it up.  Each read is compared with the limits in this order.  *)
(* Exchange leaves sizes out; here the rest of an exchange is reduced to a *)
(* context that may end at any time.  The source is the body or its gzip   *)
(* reader, which takes compressed bytes from the body as it likes.  Bytes  *)
(* are counted in units, and time passes in ticks.                         *)
(***************************************************************************)
EXTENDS Integers, Sequences

CONSTANTS
    Configs,    \* the limits explored; 0 is no limit, as in the options
    Second,     \* ticks in a second
    BombMin,    \* bombGuardMinCompressed
    Chunk,      \* bound on what one read moves
    MaxTotal,   \* bound on the size of the body
    MaxNow      \* bound on the clock

Limits == [maxBytes : Nat, minRate : Nat, window : Nat, maxRatio : Nat, gzip : BOOLEAN]

ASSUME ConfigsAssumption == Configs \subseteq Limits
ASSUME SizesAssumption ==
    /\ Second \in Nat \ {0} /\ BombMin \in Nat
    /\ Chunk \in Nat \ {0} /\ MaxTotal \in Nat /\ MaxNow \in Nat

VARIABLES
    cfg,
    now,        \* the monotonic clock
    ctxDone,    \* the context of the response has ended
    pc,         \* where Read is
    n, err,     \* what the source returned to it; an end is for good
    readBytes, compressed,
    samples, bytesInWindow, firstTime,      \* the rateTracker; -1 is no time;
                \* a ghost in each sample is what had been read before it
    last,       \* the error of the last Read, "none" before the first
    arrived     \* ghost: the bytes read before each tick

source  == <<n, err, compressed>>
tracker == <<samples, bytesInWindow, firstTime>>
vars    == <<cfg, now, ctxDone, pc, source, readBytes, tracker, last, arrived>>

SourceErrors == {"nil", "eof", "broken"}
Refusals     == {"tooLarge", "tooSlow", "bomb", "aborted"}

(* newGuardedBody sets up a tracker only with a rate and a window. *)
Tracked == cfg.minRate > 0 /\ cfg.window > 0

(* The header of a gzip body is read before the first Read. *)
Init ==
    /\ cfg \in Configs
    /\ now = 0 /\ ctxDone = FALSE
    /\ pc = "idle"
    /\ n = 0 /\ err = "nil"
    /\ readBytes = 0
    /\ compressed \in IF cfg.gzip THEN 1 .. Chunk ELSE {0}
    /\ samples = <<>> /\ bytesInWindow = 0 /\ firstTime = -1
    /\ last = "none"
    /\ arrived = [t \in 0 .. MaxNow |-> 0]

----------------------------------------------------------------------------
(* The environment. *)

(* Reads take no time of their own: it passes while the source blocks and  *)
(* while the caller does something else.                                   *)
Tick ==
    /\ now < MaxNow
    /\ pc \in {"idle", "source"}
    /\ now' = now + 1
    /\ arrived' = [arrived EXCEPT ![now + 1] = readBytes]
    /\ UNCHANGED <<cfg, ctxDone, pc, source, readBytes, tracker, last>>

ContextEnds ==
    /\ ~ctxDone
    /\ ctxDone' = TRUE
    /\ UNCHANGED <<cfg, now, pc, source, readBytes, tracker, last, arrived>>

----------------------------------------------------------------------------
(* Read. *)

Return(e) == pc' = "idle" /\ last' = e

(* The last lines: an error of the source is explained by the context.     *)
ReturnSource(e) == Return(IF e # "nil" /\ ctxDone THEN "aborted" ELSE e)

ReadBegins ==
    /\ pc = "idle"
    /\ \/ ctxDone /\ Return("aborted") /\ n' = 0
       \/ ~ctxDone /\ pc' = "source" /\ UNCHANGED <<last, n>>
    /\ UNCHANGED <<cfg, now, ctxDone, err, readBytes, compressed, tracker, arrived>>

(* Mutant: the limit is looked at before the new bytes are counted.        *)
TooLargeBefore(total, z) == cfg.maxBytes > 0 /\ total - z > cfg.maxBytes
TooLarge(total, z) == cfg.maxBytes > 0 /\ total > cfg.maxBytes

(* The ramp begins with the first bytes. *)
FirstTime == IF firstTime = -1 THEN now ELSE firstTime

(* Mutant: the sample is kept, its bytes are not added to the sum.         *)
ObserveUnsummed(z) ==
    /\ samples' = Append(samples, [t |-> now, bytes |-> z, before |-> readBytes])
    /\ firstTime' = FirstTime
    /\ UNCHANGED bytesInWindow

(* observeAt appends the sample; its trimming and its verdict follow.      *)
Observe(z) ==
    /\ samples' = Append(samples, [t |-> now, bytes |-> z, before |-> readBytes])
    /\ bytesInWindow' = bytesInWindow + z
    /\ firstTime' = FirstTime

(* The source gives z bytes and has taken k more, or it has ended. *)
SourceReturns(k, z, e) ==
    /\ pc = "source"
    /\ err # "nil" => e = err /\ z = 0 /\ k = 0
    /\ cfg.gzip \/ k = 0
    /\ compressed + k <= MaxTotal /\ readBytes + z <= MaxTotal
    /\ n' = z /\ err' = e
    /\ compressed' = compressed + k
    /\ readBytes' = readBytes + z
    /\ \/ /\ z = 0
          /\ ReturnSource(e)
          /\ UNCHANGED tracker
       \/ /\ z > 0
          /\ TooLarge(readBytes + z, z)
          /\ Return("tooLarge")
          /\ UNCHANGED tracker
       \/ /\ z > 0
          /\ ~TooLarge(readBytes + z, z)
          /\ pc' = "observed"
          /\ IF Tracked THEN Observe(z) ELSE UNCHANGED tracker
          /\ UNCHANGED last
    /\ UNCHANGED <<cfg, now, ctxDone, arrived>>

(* Mutants: a sample exactly one window old is dropped, or one that is a   *)
(* tick older is kept.                                                     *)
BeforeOrAt(t) == t <= now - cfg.window
WellBefore(t) == t < now - cfg.window - 1
Stale(t) == t < now - cfg.window

Trimmed == Tracked => samples # <<>> /\ ~Stale(Head(samples).t)

TrimOne ==
    /\ pc = "observed"
    /\ Tracked
    /\ samples # <<>> /\ Stale(Head(samples).t)
    /\ bytesInWindow' = bytesInWindow - Head(samples).bytes
    /\ samples' = Tail(samples)
    /\ UNCHANGED <<cfg, now, ctxDone, pc, source, readBytes, firstTime, last, arrived>>

WindowFull == now - firstTime >= cfg.window
BytesPerSecond == (bytesInWindow * Second) \div cfg.window

TooSlow == Tracked /\ WindowFull /\ BytesPerSecond < cfg.minRate

Bomb ==
    /\ cfg.gzip /\ cfg.maxRatio > 0
    /\ compressed >= BombMin
    /\ readBytes > cfg.maxRatio * compressed

ReadReturns ==
    /\ pc = "observed"
    /\ Trimmed
    /\ \/ TooSlow /\ Return("tooSlow")
       \/ ~TooSlow /\ Bomb /\ Return("bomb")
       \/ ~TooSlow /\ ~Bomb /\ ReturnSource(err)
    /\ UNCHANGED <<cfg, now, ctxDone, source, readBytes, tracker, arrived>>

(* The clock is at its bound and the caller reads no more. *)
Finished == pc = "idle" /\ now = MaxNow /\ UNCHANGED vars

SourceStep == \E k, z \in 0 .. Chunk, e \in SourceErrors : SourceReturns(k, z, e)

Next ==
    \/ Tick \/ ContextEnds
    \/ ReadBegins \/ SourceStep \/ TrimOne \/ ReadReturns
    \/ Finished

Spec == Init /\ [][Next]_vars

----------------------------------------------------------------------------
Sample == [t : 0 .. MaxNow, bytes : Nat, before : Nat]

TypeOK ==
    /\ cfg \in Configs
    /\ now \in 0 .. MaxNow /\ ctxDone \in BOOLEAN
    /\ pc \in {"idle", "source", "observed"}
    /\ n \in Nat /\ err \in SourceErrors
    /\ readBytes \in Nat /\ compressed \in Nat
    /\ samples \in Seq(Sample) /\ bytesInWindow \in Nat
    /\ firstTime \in -1 .. MaxNow
    /\ last \in SourceErrors \cup Refusals \cup {"none"}
    /\ arrived \in [0 .. MaxNow -> Nat]

(* Every tick from that of the first byte on has brought its share.        *)
Steady ==
    \A t \in 0 .. now - 1 :
        arrived[t + 1] > 0 => (arrived[t + 1] - arrived[t]) * Second >= cfg.minRate

(* "minimum average transfer rate ... over the given rolling window"       *)
(* (WithMinTransferRate).  A body that was never too slow since its first  *)
(* byte is never refused as too slow, wherever the edges of the window     *)
(* fall and however long its first byte took.                              *)
SteadyIsNeverTooSlow == pc = "idle" /\ last = "tooSlow" => ~Steady

(* The verdict is exact: a read ends too slow when the first byte is a     *)
(* window old and less than the least rate has come since a window ago,    *)
(* and at no other time.  rateTracker has no history to tell this from: it *)
(* only keeps a sum, which it adds to and takes from, and rounds the rate. *)
WindowOld == now >= cfg.window /\ arrived[now - cfg.window + 1] > 0

RateVerdictIsTrue ==
    [][ReadReturns /\ Tracked =>
         (last' = "tooSlow" <=>
            /\ WindowOld
            /\ (readBytes - arrived[now - cfg.window]) * Second
                  < cfg.minRate * cfg.window)]_vars

(* Whatever a caller makes of an earlier refusal, bytes that come without  *)
(* one are within the size limit, and the ratio as far as it counts: a     *)
(* body that is too large stays so, and reading on gets no clean data.     *)
CleanReadsWithinLimits ==
    pc = "idle" /\ n > 0 /\ last \in SourceErrors =>
        /\ cfg.maxBytes > 0 => readBytes <= cfg.maxBytes
        /\ cfg.gzip /\ cfg.maxRatio > 0 /\ compressed >= BombMin =>
               readBytes <= cfg.maxRatio * compressed

=============================================================================
