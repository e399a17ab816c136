--------------------------- MODULE MCIdleWatchdog ---------------------------
(* A timeout of three ticks, so that a Reset can land at, before and after *)
(* the middle of the window; resets until instant four, so that the timer  *)
(* is re-armed at least twice; two Stop calls, so that one can lose to the *)
(* other as well as to the callback.  The wall clock can be set two ticks  *)
(* back and forward again, which can make a re-armed window that much      *)
(* longer, so the clock runs two ticks further.                            *)
EXTENDS IdleWatchdog

MCTimeout == 3
MCMaxLatency == 1
MCQuietFrom == 4
MCSkews == {-2, 0}
MCMaxNow == MCQuietFrom + MCTimeout + 2 * MCMaxLatency + 1 + 2
=============================================================================
