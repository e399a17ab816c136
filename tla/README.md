# TLA+ models of gttp

gttp is a Go library: `gttp.New()` returns an `*http.Client` whose transport
retries, guards bodies, and checks where it connects to. These modules model the
parts of it that run concurrently or fail halfway, check them with TLC on small
instances, and prove the main safety properties with TLAPS for every value of
the constants. Source references are to the files under `src/`.

## 1. Inventory

A request goes through these layers, each of them an `http.RoundTripper` wrapped
around the next (`gttp.go`, `New`):

    http.Client -- CheckRedirect --> redirectGuard           redirect.go
        |
    retryTransport       attempts, backoff, rewinding        retry.go
        |
    safetyTransport      child context, body guards          safety.go, guard.go
        |
    http.Transport       (or the caller's own transport)
        |
    IP-policy dialer     resolve, check, race the addresses  ssrf.go

| component | state | operations | what is hard | what makes it correct |
|---|---|---|---|---|
| staggered dial (`dialApprovedAddresses`) | counters, results channel, timer, derived context, one goroutine per address, a drain goroutine | start, receive, fallback timer, context end, drain | losers in three places at once when the call returns; a timer that fired before it was reset | no connection or goroutine leaks, errors tell the truth, head starts are kept, a hanging address blocks nobody |
| sequential dial (`dialApprovedAddressesSequentially`) | the loop | dial, next, give up | the context is looked at after a failure only | no two calls of a caller's dial function at once, the same promises about connections |
| IP-policy dialer | none | resolve, check, dial literal addresses | one DNS answer for check and dial | only checked addresses are dialled |
| idle watchdog | atomics `lastTick`, `done`; a timer | `fire`, `Reset`, `Stop` | every access interleaves; wall clock against monotonic timer | one winner, no alarm against a stored Reset, bounded detection |
| retry transport | attempt counter, held response, body, rewind function | prepare, attempt, decide, drain, wait, rewind | the context may end between any two steps; the timer of a sleep races with it | no response leaks, a success is readable, bodies are whole, a cancelled call stops |
| backoff and wait hints | none | pure functions | overflow of a Duration | waits stay within their bounds whatever overflows; a server's hint is followed |
| guarded response body | closeOnce, byte counts, watchdog, gzip reader | construct, Read, Close | Close from a second goroutine; an abort during a read | the cause is named, Close closes, data without an error is within the limits |
| guarded request body | closeOnce, watchdog | construct, Read, Close | closed long after the attempt has returned | its alarm reaches its own attempt only |
| rate tracker | window of samples and its sum | observe | window edges, the first full window, incremental sum | a steady body passes, a slow one does not |
| safety transport | none of its own | RoundTrip | every error path must undo what was set up | contexts and connections of attempts are neither mixed up nor lost |
| redirect guard | none (the chain is its input) | check | checks made hop by hop about a whole chain | no loop, no downgrade, no blocked target |
| `New` and options | a configuration | normalise, wire | two conditions decide where the address policy is enforced | enforced where the options promise it |
| errors, HTTP/2 and TLS settings, address tables | none | - | data | - |

The components meet in four ways. *Calls*: each layer calls the next and
interprets its errors (the retry loop looks for the watchdog's error in order to
retry). *Contexts*: an attempt's context is a child of the caller's, and the
watchdogs cancel the child. *Callbacks*: the timer of a watchdog, `CheckRedirect`,
the observers. *Ownership*: a response body belongs to the transport, then to the
safety transport, then to the retry loop, then to the caller, and each of them
has to close it on its own error paths.

What a test would hardly reach is listed under "hazards" in `PROJECT.json`, at
the line where it bites, with the property that covers it.

## 2. Modules

| module | models | checked by | proved in |
|---|---|---|---|
| `ConnOwnership` | abstract: what a dial promises about connections | as a property of `DialRace` | - |
| `Watchdogs` | abstract: what idle watchdogs promise to their users | as a property of `IdleWatchdog` and of `Exchange` | - |
| `DialRace` | `dialApprovedAddresses`, `dialApprovedAddressesSequentially` | `MCDialRace` | `DialRaceProofs` |
| `IdleWatchdog` | `idleWatchdog` | `MCIdleWatchdog` | `IdleWatchdogProofs` |
| `RetryTransport` | `retryTransport.RoundTrip` over an opaque transport | `MCRetryTransport` | `RetryTransportProofs` |
| `Exchange` | `safetyTransport.RoundTrip`, `guardedBody`, `guardedWriter` inside the retry loop | `MCExchange` | `ExchangeProofs` |
| `RedirectChain` | `redirectGuard`, its wiring in `New`, the decision of the IP-policy dialer | `MCRedirectChain` | `RedirectChainProofs` |
| `RetryWaits` | `backoff`, the server's wait hints, the bounds `New` gives them | `MCRetryWaits` | `RetryWaitsProofs` |
| `BodyLimits` | what `guardedBody.Read` counts: size, `rateTracker`, compression ratio | `MCBodyLimits` | `BodyLimitsProofs` |

### DialRace and ConnOwnership

`started`, `completed`, `results` and `timer` are the variables of the function.
`attempt` and `conn` are the goroutines it starts: a goroutine first finishes its
dial (`DialSucceeds`, `DialFails`) and then sends (`Send`), because in between it
holds a connection that is in nobody's hands. Each branch of the `select` is an
action: `ContextDone`, `ReceiveConn`, `ReceiveFailure`, `FallbackTimer`. The
deferred `cancel` and `timer.Stop` are part of every return. `Drain` is one receive
of the drain goroutine. Time passes in ticks (`Tick`), and `Delay` is
`ipPolicyFallbackDelay`. `age` and `outcome` are ghosts.

With a dial function of the caller `newIPPolicyDialContext` takes the other path:
`staggered` is chosen once, and without it `SequentialConn` and
`SequentialFailure` are the body of a plain loop that shares the dials and the
counters, and has no channel, timer or drain. A literal address is this loop over one
address. Such a dial function may ignore its context, so no dial of it is fair.

`ConnOwnership` states the contract in four actions (open, deliver, give up,
discard); both dials are shown to implement it with `call` mapped to the program
counter.

### IdleWatchdog and Watchdogs

One action is one access to shared state. `fire` is `TimerFires`, `FireCheck`,
`FireClock`, `FireLoad`, then `FireCas` and `FireCancel`, or `FireRearm`. `Reset` is
`ResetCheck`, `ResetClock`, `ResetStore`. `Stop` is `StopCas`, `StopTimer`.
The clock has two faces, as in the code: the timer runs on monotonic time, and
`lastTick` holds `UnixNano` readings, so `ClockStep` (NTP, or a person) can move
the one against the other. `tickAt`, `readAt` and `stepped` are ghosts.

`Watchdogs` is the contract, in four actions: a watchdog is started, and then it is
stopped and never cancels, or it fires, which no Stop takes back, and cancels once.
`IdleWatchdog` is shown to implement it for one watchdog (`ImplementsWatchdog`,
where `Seen` maps the program counters of `fire` and `Stop` to the contract's
state). `Exchange` takes the contract for its watchdogs, and is shown to keep to it
for all of them at once (`ImplementsWatchdogs`).

### RetryTransport

`pc` follows `RoundTrip`: prepare, send, in flight, decide, and for a retry drain,
check, sleep, rewind. Errors are classes; `Traits` says what `errors.Is` and
`errors.As` find in each class, and `isRetryableError` makes the code's checks in
the code's order. A custom `checkRetry` may say anything. `Init` covers every kind of
request. The wrapped transport is external: it consumes the body and returns a
response or an error. `ContextEnds` can happen anywhere.

### Exchange

`Exchange` extends `RetryTransport` and replaces its opaque attempts by the code of
`safetyTransport.RoundTrip`: preflight, child context and request watchdog
(`Guard`), base transport (`BaseFails`, `BaseResponds`), gzip header
(`GzipHeaderRead`, `GzipHeaderFails`, `AbandonResponse`), and `Deliver`. `child[k]` is
the context of attempt k and remembers who cancelled it first, as
`context.Cause` does. A watchdog is what `Watchdogs` promises: it fires or it is
stopped, never both, and one that has fired cancels some time later, so the
watchdogs of a failed attempt go on next to those of the following ones.
`ReadBegins`, `ReadData`, `InnerEnds`, `ReadReturns` are `guardedBody.Read`, whose
callers are the drain between two attempts and the user. `CloseCall`,
`CloseStops`, `CloseInner`, `CloseReturns` are `guardedBody.Close`, called by the
drain, by the reader or by another goroutine, with `closeOnce` between them.
Draining a response in the retry loop is now a sequence of reads and a close;
`Drained` joins it to `RetryTransport`'s step.

The retry loop knows nothing of this: hiding the new variables, every step of
`Exchange` is a step of `RetryTransport` or a stutter (`ImplementsRetry`).

### RedirectChain

One call follows redirects; `via` is the chain that `http.Client` hands to
`redirectGuard.check`, with the current request at its end. `Redirect` is the whole
check up to the headers: limit, loop, downgrade, address policy, in that order
(`Check`); `New` installs it only for a positive limit (`FollowsRedirects`). An
address keeps what these compare: scheme, host, whether the scheme's own port is
written out, and the page; `Normal` is `normalizeURL`. Every attempt of a hop passes `Preflight` or
`NoPreflight` (`safetyTransport`), then takes a pooled connection (`UseIdle`) or dials
(`PolicyDial`, `PlainDial`); `Retry` is the retry loop, whose policy is left open.

`opts` are the options of `New`, and every combination is an initial state.
`DialEnforces` (the dial function is wrapped) and `IpPolicyAtDial` (the guard and the
preflight are told so) are two conditions in `New`, and two definitions here. A
lookup may answer differently each time; `checked` is a ghost that records where the
target of the current attempt was approved.

### RetryWaits

`t` holds the bounds of a transport after `New` has filled in defaults and put them in
order (`Normalised`). `Wait` is one call of `backoff`: `WaitAsTold` when a header of the
response gives a positive time (`Parsed`, `Usable`, `clampServerWait`), and
`WaitWithJitter` otherwise. Durations have a width: `Wrap` keeps a product in it, so
`waitMin * Pow[s]` and a number of seconds overflow as an `int64` of nanoseconds does.
A header is absent (or not understood), a number of seconds, or a date, which is the
time until it; the parsers of the three headers differ in which of these they take.
`time.Until` saturates, and so does the model.

### BodyLimits

`Exchange` lets a read exceed a limit whenever one is set; here is what the code compares.
`Read` is `ReadBegins`, `SourceReturns` (the bytes are counted, the size is checked,
the sample is added), `TrimOne` for each sample that leaves the window, and
`ReadReturns` with the verdicts on rate and ratio, in this order. The source is the body
or the gzip reader, whose compressed bytes `countingReader` counts. Time passes
between reads and while the source blocks. `arrived` is a ghost, the bytes read before
each tick, from which the properties know the true rate; `before` in a sample is one
for the proof.

## 3. Runs

| run | question | bounds | states |
|---|---|---|---|
| `dial_race` | leaks, truthful errors, head starts, progress, the contract | 3 addresses, delay of 2 ticks, both ways of dialling | 6 k |
| `dial_race_immediate` | does an immediate failure start the next address? | same | violation |
| `idle_watchdog` | the contract of a watchdog, no alarm while a stored Reset is young, bounded and certain detection | timeout 3, latency 1, two Stops, clock skews -2 and 0 | 730 k |
| `retry_transport` | leaks, readable success, whole bodies, a cancelled call stops | 2 retries, all requests and error classes | 7 k |
| `retry_transport_observer` | does a retry follow every observed one? | same | violation |
| `retry_transport_timeouts` | are dial timeouts retried? | same | violation |
| `exchange` | contexts, connections and watchdogs of attempts; named causes; Close; refinement of the loop and of the watchdogs' contract; does every stall end, and every cancelled call return? | 1 retry, one error that is retried and one that is not; no request body with all guards, a stream with at most one of them, a body that can be rewound without an idle timeout | 450 k |
| `redirect_chain` | limit, loops, downgrades; where the policy is enforced | limits -1 to 3, two hosts, two pages, two attempts per hop, all 32 combinations of the other options | 1.8 M |
| `redirect_limit` | are as many redirects followed as the limit names? | same | violation |
| `redirect_private` | are redirects to private addresses followed when allowed? | same | violation |
| `retry_waits` | do waits keep their bounds, and hints their word? | durations of 6 bits, shifts to 4, 6 waits, 48 combinations of options, 120 responses | 42 k |
| `body_limits` | are steady bodies let through, slow ones and no others stopped, and is clean data within limits? | windows of 2 and 3 ticks in a clock of 4, bodies of 7 units, 4 combinations of limits | 1.1 M |

Why the bounds are enough for the cases that matter:

- Three addresses let a loser be in flight, in the channel, and not started, all
  at once; a delay of two ticks puts a failure before, within and after a head start.
- A timeout of three ticks lets a Reset land early, in the middle and late in the
  window; resets until tick four make the timer re-arm twice (`QuietFrom`); the
  clock (`MaxNow`) runs until everything due has happened. Two Stops can lose to each
  other as well as to `fire`. Latency: a due callback starts and ends within
  `MaxLatency` ticks, without which no detection bound could hold.
- Two retries distinguish the first, a middle and the last attempt. In `Exchange`
  one retry is enough for what an attempt leaves behind to meet the next one. The
  watchdog of a request body runs beside everything else and multiplies the states;
  `Explored` says which requests are tried with which guards. A stream is tried with
  the watchdog and with the limits, but not with both, whose only common part is the
  child context. The safety proofs cover every number of retries and every pair.
- Chains of three requests are the shortest in which the hop before and the first
  request differ, which is what the checks of the guard could confuse; the proofs
  cover every length.
- Six bits and a second of three units make products wrap to negative and to positive
  numbers, among them positive ones below a bound; the shift reaches its cap in four
  doublings. The options include negative, default, reversed and huge arguments.
- A clock of four ticks over windows of two and three puts samples before, on and after
  the edge of the window, and the first bytes at the start and later; seven
  units in reads of up to two pass the size limit of five by one and by two.

The three runs of `RedirectChain` use the symmetry of hosts and pages, which
are only compared for equality; the other runs use none. No cfg replaces a definition,
and deadlock is checked in all of them: each specification has a step for its proper
end (`Terminated`, `Finished`, `Returned`, `Idle`), so a state without a step is a wait
without an end.

### Fairness

Goroutines that can run do run; the environment owes nothing that the code cannot
rely on.

- `DialRace`: sends, the loop and the drain goroutine are weakly fair, and time
  passes. A dial is fair only when its context is done, because `net.Dialer`
  returns then; before that it may hang, and `HungDialBlocksNobody` is about that.
- `IdleWatchdog`: the callback and a Reset under way go on, and time passes. Nobody
  has to read or to close.
- `Exchange`: RoundTrip, Read and Close go on, and a watchdog that nobody stops fires.
  The resolver of the preflight, the base transport, the gzip header, a body read and
  the drain of a response with a bad header end when their context is done (or
  when the body is closed). Nothing makes a server answer. A caller's functions
  (`GetBody`, `checkRetry`, the observer) return, but the stream that is a request's body
  may never end: `prepareBody` reads it with no look at the context, so that step is not
  fair (`ReadsStream`).
- `RetryTransport` has no liveness property of its own; `CancelReturns` is stated on
  the composed system. `RedirectChain`, `RetryWaits` and `BodyLimits` are about safety
  only.

### What the violations show

Five places where the code does otherwise than a comment says. `PROJECT.json` quotes
them.

1. `ImmediateFailureStartsNext`: with a hanging first address, the immediate
   failure of the second does not start the third; that waits for the timer. What
   does hold is proved in `LastFailureStarts`: a failure that leaves nothing in
   flight starts the next address in the same step.
2. `ObservedRetriesFollow`: the observer hears of a retry which the end of the
   context, or a failing rewind, then prevents.
3. `TimeoutsRetried`: a dial timeout matches `context.DeadlineExceeded`, which is
   tested first, so the classification as a retryable net timeout is never reached.
4. `AllowedRedirectsFollowed`: under strict protection with private redirects
   allowed, the guard lets a redirect to a private address pass and the preflight of
   the next request refuses it, because it runs on every hop. Without strict
   protection the options mean what they say (`LaxIsOnlyGuarded`).
5. `StopsAfterLimit`: the limit is compared with `via`, which includes the first
   request, so `WithRedirectPolicy(n)` stops a chain after n - 1 redirects, and with 1
   none is followed. That no chain goes beyond the limit is `RedirectsWithinPolicy`;
   that a stopped one has exactly n requests is proved (`LimitCountsRequests`).

What else the models show, where a property has to make an exception:

- `NoFalseAlarm` is about the Resets that `fire` can see: those whose reading is stored
  when it decides. A Reset that has read the clock and not stored it, or that comes
  between the decision and the swap of `done`, is too late, and the body is cancelled
  although bytes have just arrived.
- `NoFalseAlarm` and `DetectionBound` hold until the wall clock is set. `UnixNano`
  readings carry no monotonic part, so a clock set forward makes `fire` abort a body
  that is being read, although `idleWatchdog` speaks of real time.
- `WatchdogsStopped` excepts a bad gzip header: the body is closed and the context
  cancelled, but the watchdog's timer stays armed until the idle timeout, although
  the comment in `RoundTrip` speaks of tearing it down.
- `HintsAreHonoured` is about seconds that fit a Duration (`Fits`). Longer ones, from
  292 years on, wrap: they are ignored or shortened, although `WithMaxRetryAfter`
  says that what is too long is capped. What is left of them still waits no longer
  than the cap, and no shorter than `waitMin` unless the cap is.
- `CancelReturns` excepts one place: while `prepareBody` reads a caller's stream into
  memory, the end of the context changes nothing, and the call returns only if the
  stream ends.
- `FailedContextsEnd` is about errors. The context of an attempt that returned a
  response is not ended when its body is closed: it stays until the context it was
  derived from ends, unless a watchdog of the attempt has fired.

## 4. Proofs

All theorems hold for every value of the constants under the named assumptions
only: at least one address and one tick of delay; a positive timeout and latency,
and a clock that runs long enough; a natural number of retries; and, for
`TransportErrors`, that an attempt's own errors are not those of a context; for
redirects, a natural limit and at least one attempt; for durations, a width that the
powers of two divide, positive defaults in order, and an epoch threshold that fits
(10^9 s are 10^18 ns); for body limits, natural numbers and a positive second.

- **DialRace.** `DrainIsExact` is the heart: `started - completed` (or what the
  drain goroutine was told) is the number of results still to come. It is not
  inductive alone. That a receive takes one away needs the channel to hold only
  outstanding results, each once (`QueueHoldsSent`); that a start adds one needs the
  started addresses to be a prefix (`StartedPrefix`); `ConnFollowsAttempt` ties
  connections to attempts and `TimerTracksAge` the timer to the head start. From the
  same invariant follow `ErrorsTrue`, `HeadStartHolds` and, step by step,
  `DialImplementsOwnership` (the safety part of the contract). `SequentialAlone` says
  that the sequential loop has one dial and uses no channel and no timer.
  `OneConnection` carries the contract's own invariant (`OneDelivery`) over to both dials.

  Two theorems are the safety core of `GoroutinesEnd`. `NoVainWaits`: every send has
  room, and whoever waits for a result has either a result in the channel or a dial
  that will bring one. `RacesAreFinite`: every step, those of the drain and of the
  losing dials included, lowers a natural number (`RaceFuel`, the steps the
  addresses have before them and the ticks that can still count). So nothing but a
  dial that does not end can keep a goroutine of the call.
- **IdleWatchdog.** `OneWinner` needs only that whoever won has set `done`
  (`WinnerSetDone`). With it every step is a step of the contract or a stutter
  (`WatchdogKeepsContract`): the swap of `done` is where Stop or Fire happens.
  `StopIsFinal` says in one formula what the comment on `Stop` does. The timing
  results (`StallsNoticed`, `AlarmsAreTrue`) rest on `RealTime`: readings are
  monotonic times until the wall clock is set, `fire` reads the clock before
  `lastTick`, until someone wins either the timer runs or `fire` does
  (`AlwaysWatched`), and the timer never points further than a timeout and a
  latency past the last Reset (`DeadlinesKept`). For `AlarmsAreTrue` it matters that a
  reading not yet stored is the only one that `lastTick` can lag behind.
- **RetryTransport.** The invariant says what the loop holds at each point
  (`ResponseHeld`), that a request that goes round was prepared (`RetriesPrepared`),
  that the body is unread whenever an attempt is about to begin (`BodyReady`), and
  that after a late attempt the loop gets no further than the next context check
  (`LateSendIsLast`). `UnsafeGoOnce` follows from it. `CallsAreFinite` bounds the steps
  of a call: `CallFuel` counts down through the phases of an attempt, and a retry
  pays for the next round with one of the attempts left.
- **Exchange.** `ExInv` adds to that: the phases of the layers match (`PhasesMatch`),
  only attempts that have begun have bodies, contexts and watchdogs
  (`BodiesOfAttempts`), Close goes in its order (`CloseInOrder`), every cancelled context
  has a known culprit (`CancelsAreOwn`), and what a read was told is explained
  (`ReadsAreExplained`). The invariants of the `exchange` run follow for any number
  of attempts, and its two refinements step by step. `FailedContextsEnd` is proved on top
  of `ExInv`, which says which attempts have a context at all.

  The refinements make the layers one argument. `ExchangeRefinesRetry` carries every
  theorem of `RetryTransportProofs` over to the composed system
  (`LoopPromisesKept`). `WatchdogKeepsContract` says that the code of `idleWatchdog`
  keeps the contract, and `WatchdogsKeepContract` that what `Exchange` assumes of its
  watchdogs is no more than that contract, for all of them side by side;
  `StoppedForGood` follows from it. From both sides together follows `CallsCleanUp`:
  once a call has returned nothing of its earlier attempts is left open or watched.
  `StalledReadsAreWatched` is the safety core of `StallsEnd`. It needs to know what
  became of every watchdog that does not run (`WatchdogsAccounted`): one that is over
  has ended its attempt's context, and one that was stopped was stopped by the Close
  that closes the body next.
- **RedirectChain.** The chain properties are inductive together with the types.
  `ChainsAreShort` needs that `New` leaves the guard out for a limit of zero, which the
  guard would take for none. In `SchemesOnlyRise` the argument is this: a chain that has reached https has
  https at its end, so comparing the next hop with the end is enough. For the
  policy, `OneCondition` shows that the two conditions of `New` agree, and `Enforced`
  says who has approved what at each point: the pool holds vetted connections
  exactly when the dial enforces the policy, past the preflight it has approved
  wherever there is one, and a dial that enforces has no other check beside it.
  `ChainsAreFinite` counts down the hops and, within a hop, the attempts and their
  phases.
- **RetryWaits.** The invariant says of the last wait what the properties do, and that
  bounds are positive and in order. The argument is in the case the code does not
  spell out, a product that wraps to a positive number: the number of durations is a
  multiple of the power of two, so the wrapped product is one as well; where overflows
  are long (`OverflowsAreLong`) it is at least that power, hence above `waitMax`, and is
  capped. With the default options every overflow is long; for others, `wait` may wrap
  to a value between the bounds or below `waitMin`, and only the upper bound and
  positivity remain. `WaitsAreBounded` draws the two together: whatever overflows,
  the loop neither spins nor oversleeps.
- **BodyLimits.** Each sample carries what had been read before it. `SamplesJoin` says that
  samples follow each other without gaps (`before` of the next is `before` plus
  `bytes`) and ties them to `arrived`; `WindowIsRest`, that the incremental sum is what
  has been read since the first of them, and what was trimmed is older than the window.
  When nothing is left to trim the sum is exactly what has been read since a window ago
  (`WindowIsExact`). `SteadyBodiesPass` follows by adding up the shares of the ticks
  (`SteadyKeepsUp`). `RateVerdictIsExact` needs besides that the code's own test for a
  full window, which looks at the first sample ever, says when the first byte came
  (`OldIsFull`, `FullIsOutlived`), and that a rate rounded down is below the least
  one exactly when the rate itself is.

Left to TLC: liveness under fairness (`HungDialBlocksNobody`, `GoroutinesEnd`,
`StallIsCancelled`, `StallsEnd`, `CancelReturns`, the fair part of
`ImplementsOwnership`), which the prover does not reach. What is proved around
them are the facts about states that fairness then turns into progress:
`NoVainWaits` and `RacesAreFinite` for `GoroutinesEnd`, `StalledReadsAreWatched` for
`StallsEnd`, `CallsAreFinite` for `CancelReturns`, and `StallsNoticed`, while nobody
sets the clock, for `StallIsCancelled`.

## 5. Not modelled, and the plan

What could be added: **the filter by network** of the dialer, for callers whose dial
function asks for `tcp4` or `tcp6`; `http.Transport` asks for `tcp`, which keeps every
address.

The stripping of sensitive headers is left out too. The guard compares each hop with the
one before it (`sameOrigin`) and deletes the headers from that hop; `http.Client` builds
the headers of every hop from those of the first request, so a header that was stripped
on the way to another origin is back on a later hop within that origin. Both halves are
a single comparison or outside this repository, and a model of them would restate them.

Left out for good: option setters, HTTP/2 and TLS settings (fields assigned once);
the tables of `isBlockedIP` (data); rewriting of encoding headers; the inside of
`net/http`, DNS and TLS (external, modelled by what they may answer). A caller's
body is followed for whether it was sent, not for whether it was closed. The
observation given to the body observer is left out; two goroutines that read the
byte counts and change them at once would be a data race of `Close` with `Read`, which
`io.ReadCloser` does not promise to allow. Overlapping `Reset` calls of one watchdog are
left out because a body has one reader. Rounding of `float64` rates and ratios is left
out: counts are below 2^53.
