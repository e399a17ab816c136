----------------------------- MODULE MCDialRace -----------------------------
(* Three addresses, so that a loser can be in flight, in the channel and   *)
(* not started at the same time, and a delay of two ticks, so that a       *)
(* failure can arrive before, in the middle of and after a head start.     *)
EXTENDS DialRace

MCN == 3
MCDelay == 2
=============================================================================
