-------------------------- MODULE MCRedirectChain --------------------------
(* Chains of three requests are the shortest in which the request before   *)
(* a hop and the first request of the chain differ.                        *)
EXTENDS RedirectChain, TLC

MCMaxLimit == 3
MCMaxTries == 2

(* Hosts and pages are only compared for equality.                         *)
Symmetry == Permutations(Hosts) \cup Permutations(Pages)
=============================================================================
