------------------------------ MODULE Watchdogs ------------------------------
(***************************************************************************)
(* What idle watchdogs promise to those who use them: one that has been    *)
(* started is either stopped, and then never cancels anything, or its      *)
(* alarm wins, and then it cancels once, which Stop cannot take back.      *)
(* When the alarm goes off, who stops it, and how the two decide who came  *)
(* first is left to the implementation (module IdleWatchdog).  A watchdog  *)
(* without a timeout stays off.                                            *)
(***************************************************************************)
CONSTANT Dogs           \* the watchdogs

VARIABLE dog            \* [Dogs -> {"off","running","stopped","fired","over"}]

Init == dog \in [Dogs -> {"off", "running"}]

Move(d, from, to) == dog[d] = from /\ dog' = [dog EXCEPT ![d] = to]

Start(d)   == Move(d, "off", "running")

Stop(d)    == Move(d, "running", "stopped")

(* The alarm wins; it will cancel. *)
Fire(d)    == Move(d, "running", "fired")

(* It has cancelled. *)
Cancel(d)  == Move(d, "fired", "over")

Next == \E d \in Dogs : Start(d) \/ Stop(d) \/ Fire(d) \/ Cancel(d)

Spec == Init /\ [][Next]_dog
=============================================================================
