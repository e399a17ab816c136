--------------------------- MODULE ConnOwnership ---------------------------
(***************************************************************************)
(* What a dial call over several addresses promises its caller about the   *)
(* connections it opens: at most one is handed over, none is handed over   *)
(* once the call has returned, none that was handed over is closed behind  *)
(* the caller's back, and every other one is closed in the end.  How the   *)
(* addresses are staggered, which order the dials finish in and who closes *)
(* the losers is left to the implementation (module DialRace).             *)
(***************************************************************************)
CONSTANT Addresses      \* the addresses of one call

VARIABLES conn,         \* [Addresses -> {"none","open","returned","closed"}]
          call          \* "running" until the call returns, then "returned"

vars == <<conn, call>>

Init == /\ conn = [a \in Addresses |-> "none"]
        /\ call = "running"

(* A dial succeeds, before the call returns or after. *)
Open(a) == /\ conn[a] = "none"
           /\ conn' = [conn EXCEPT ![a] = "open"]
           /\ UNCHANGED call

(* The call returns an open connection to its caller. *)
Deliver(a) == /\ call = "running"
              /\ conn[a] = "open"
              /\ conn' = [conn EXCEPT ![a] = "returned"]
              /\ call' = "returned"

(* The call returns an error. *)
GiveUp == /\ call = "running"
          /\ call' = "returned"
          /\ UNCHANGED conn

(* A connection nobody received is closed once the call has returned. *)
Discard(a) == /\ call = "returned"
              /\ conn[a] = "open"
              /\ conn' = [conn EXCEPT ![a] = "closed"]
              /\ UNCHANGED call

Next == \/ GiveUp
        \/ \E a \in Addresses : Open(a) \/ Deliver(a) \/ Discard(a)

Safety == Init /\ [][Next]_vars

Spec == Safety /\ \A a \in Addresses : WF_vars(Discard(a))

TypeOK == /\ conn \in [Addresses -> {"none", "open", "returned", "closed"}]
          /\ call \in {"running", "returned"}

(* Only one connection is ever handed to the caller, and never before the  *)
(* call returns.                                                           *)
OneDelivery ==
    /\ \A a, b \in Addresses :
         conn[a] = "returned" /\ conn[b] = "returned" => a = b
    /\ \A a \in Addresses : conn[a] = "returned" => call = "returned"
=============================================================================
