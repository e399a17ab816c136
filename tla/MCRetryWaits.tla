---------------------------- MODULE MCRetryWaits ----------------------------
(* Durations of six bits.  A second is no power of two, so its multiples   *)
(* wrap to negative and to positive numbers: 11 seconds are -31, 22 are 2. *)
(* 5 * 2^4 wraps to 16, above every waitMax its overflows are long for.    *)
EXTENDS RetryWaits

MCLimit == 32
MCSecond == 3
MCMaxShift == 4
MCPow == [s \in 0 .. MCMaxShift |-> 2 ^ s]
MCThreshold == 6
MCNow == 8
MCMaxWaits == 6

Arguments == {-1, 1, 5, 31}
MCRawOptions == [waitMin : Arguments, waitMax : Arguments, maxRetryAfter : {-1, 1, 31}]
MCDefaults == [waitMin |-> 2, waitMax |-> 8, maxRetryAfter |-> 5]

Seconds(ns) == {None} \cup [kind : {"seconds"}, n : ns]
MCResponses ==
    [retryAfter      : Seconds({2, 11, 22}) \cup [kind : {"date"}, n : {0, 9}],
     rateLimitReset  : Seconds({2, 11, 22}),
     xRateLimitReset : Seconds({2, 7, 11, 22})]
=============================================================================
