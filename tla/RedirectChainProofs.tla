------------------------ MODULE RedirectChainProofs ------------------------
(***************************************************************************)
(* The invariants of RedirectChain for any hosts, pages, limit and number  *)
(* of attempts, and for every combination of options; who may refuse an    *)
(* address; and that every chain ends.                                     *)
(***************************************************************************)
EXTENDS RedirectChain, TLAPS

(* Who enforces the policy, at each point of the request.  The pool holds  *)
(* vetted connections exactly if the dial enforces it; a redirected request *)
(* has been approved by the guard unless that is switched off; an attempt  *)
(* past the preflight has been approved there if there is one.             *)
Enforced ==
    /\ \A c \in idle : c.vetted <=> DialEnforces
    /\ Len(via) > 1 /\ ChecksTarget => "redirect" \in checked
    /\ pc \in {"connect", "sent"} /\ Preflights => "preflight" \in checked
    /\ pc = "sent" /\ DialEnforces => "dial" \in checked
    /\ "dial" \in checked => DialEnforces
    /\ checked # {} /\ DialEnforces => checked = {"dial"}

(* How many requests a chain can have.                                     *)
ChainLimit == IF FollowsRedirects THEN MaxRedirects ELSE 1

ChainWithinLimit == Len(via) <= ChainLimit

Chain == ChainWithinLimit /\ ChainIsSimple /\ SchemesNeverFall

RcInv == TypeOK /\ Chain /\ Enforced

(* The two conditions of New say the same.                                 *)
LEMMA OneCondition == IpPolicyAtDial <=> DialEnforces
  BY DEF IpPolicyAtDial, DialEnforces

(* What depends on the options alone does not change.                      *)
LEMMA OptionsFixed ==
  ASSUME UNCHANGED opts
  PROVE  /\ MaxRedirects' = MaxRedirects
         /\ DialEnforces' = DialEnforces
         /\ ChecksTarget' = ChecksTarget
         /\ Preflights' = Preflights
  BY DEF MaxRedirects, DialEnforces, ChecksTarget, Preflights, IpPolicyAtDial

(* The chain conjuncts depend on the options and the chain.                *)
LEMMA ChainUntouched ==
  ASSUME Chain, UNCHANGED <<opts, via>>
  PROVE  Chain'
  BY OptionsFixed
  DEF Chain, ChainWithinLimit, ChainLimit, FollowsRedirects, ChainIsSimple,
      SchemesNeverFall

LEMMA MaxRedirectsType ==
  ASSUME TypeOK
  PROVE  MaxRedirects \in Nat
  BY LimitAssumption DEF TypeOK, Options, MaxRedirects

----------------------------------------------------------------------------
LEMMA RcInvInit == Init => RcInv
<1> SUFFICES ASSUME Init PROVE RcInv
  OBVIOUS
<1> USE DEF Init
<1>1. PICK u \in Urls : via = <<u>>
  OBVIOUS
<1>2. /\ via \in Seq(Urls) /\ via # <<>> /\ Len(via) = 1
  BY <1>1
<1>3. TypeOK
  BY <1>2, TriesAssumption DEF TypeOK
<1>4. Chain
  <2>1. ChainWithinLimit
    BY <1>2, <1>3, MaxRedirectsType
    DEF ChainWithinLimit, ChainLimit, FollowsRedirects
  <2>2. ChainIsSimple
    BY <1>2 DEF ChainIsSimple
  <2>3. SchemesNeverFall
    BY <1>2 DEF SchemesNeverFall
  <2> QED BY <2>1, <2>2, <2>3 DEF Chain
<1>5. Enforced
  BY <1>2 DEF Enforced
<1> QED BY <1>3, <1>4, <1>5 DEF RcInv

(* A request on a connection that is vetted as the options demand.         *)
LEMMA SendOnKeeps ==
  ASSUME RcInv, pc = "connect", NEW vetted \in BOOLEAN, vetted <=> DialEnforces,
         SendOn(vetted)
  PROVE  RcInv'
<1> USE DEF SendOn
<1>1. UNCHANGED <<opts, via, tries, outcome>> /\ pc' = "sent"
  OBVIOUS
<1>2. Current \in Urls
  BY DEF RcInv, TypeOK, Current
<1>3. PICK kept \in SUBSET {[scheme |-> Current.scheme, host |-> Current.host,
                             vetted |-> vetted]} : idle' = idle \cup kept
  OBVIOUS
<1>4. kept \subseteq Connections /\ \A c \in kept : c.vetted <=> DialEnforces
  BY <1>2 DEF Urls, Connections
<1>5. TypeOK'
  BY <1>1, <1>3, <1>4 DEF RcInv, TypeOK, Places
<1>6. Chain'
  BY <1>1, ChainUntouched DEF RcInv
<1>7. Enforced'
  <2>1. \A c \in idle' : c.vetted <=> DialEnforces'
    BY <1>1, <1>3, <1>4, OptionsFixed DEF RcInv, Enforced
  <2>2. (Len(via) > 1 /\ ChecksTarget => "redirect" \in checked)'
    BY <1>1, OptionsFixed DEF RcInv, Enforced
  <2>3. (Preflights => "preflight" \in checked)'
    BY <1>1, OptionsFixed DEF RcInv, Enforced
  <2>4. (pc = "sent" /\ DialEnforces => "dial" \in checked)'
    BY <1>1, OptionsFixed
  <2>5. ("dial" \in checked => DialEnforces)'
    BY <1>1, OptionsFixed DEF RcInv, Enforced
  <2>6. (checked # {} /\ DialEnforces => checked = {"dial"})'
    BY <1>1, OptionsFixed DEF RcInv, Enforced
  <2> QED BY <2>1, <2>2, <2>3, <2>4, <2>5, <2>6 DEF Enforced
<1> QED BY <1>5, <1>6, <1>7 DEF RcInv

(* A hop the guard lets pass keeps the chain in order.                     *)
LEMMA FollowedKeepsChain ==
  ASSUME RcInv, UNCHANGED opts, FollowsRedirects, NEW u \in Urls,
         ~TooMany, ~Loops(u), ~Downgrades(u),
         via' = Append(via, u)
  PROVE  Chain'
<1> DEFINE n == Len(via)
<1>1. /\ via \in Seq(Urls) /\ n \in Nat \ {0} /\ MaxRedirects \in Nat
      /\ Current = via[n]
  BY MaxRedirectsType DEF RcInv, TypeOK, Current
<1>2. /\ Len(via') = n + 1
      /\ via'[n + 1] = u
      /\ \A i \in 1 .. n : via'[i] = via[i]
  BY <1>1
<1>3. ChainWithinLimit'
  BY <1>1, <1>2, OptionsFixed
  DEF ChainWithinLimit, ChainLimit, FollowsRedirects, TooMany
<1>4. ChainIsSimple'
  <2> SUFFICES ASSUME NEW i \in 1 .. n + 1, NEW j \in 1 .. n + 1, i # j
               PROVE  Normal(via'[i]) # Normal(via'[j])
    BY <1>2 DEF ChainIsSimple, Normal
  <2>1. CASE i \in 1 .. n /\ j \in 1 .. n
    <3>1. Normal(via[i]) # Normal(via[j])
      BY <2>1 DEF RcInv, Chain, ChainIsSimple
    <3> QED BY <2>1, <3>1, <1>2
  <2>2. CASE i = n + 1
    <3>1. j \in 1 .. n /\ Normal(via[j]) # Normal(u)
      BY <1>1, <2>2 DEF Loops
    <3> QED BY <2>2, <3>1, <1>2
  <2>3. CASE j = n + 1
    <3>1. i \in 1 .. n /\ Normal(via[i]) # Normal(u)
      BY <1>1, <2>3 DEF Loops
    <3> QED BY <2>3, <3>1, <1>2
  <2> QED BY <1>1, <2>1, <2>2, <2>3
<1>5. SchemesNeverFall'
  <2> SUFFICES ASSUME ~opts.allowDowngrade, NEW i \in 1 .. n + 1, NEW j \in 1 .. n + 1,
                      i < j, via'[i].scheme = "https"
               PROVE  via'[j].scheme = "https"
    BY <1>2 DEF SchemesNeverFall
  <2>1. i \in 1 .. n /\ via[i].scheme = "https"
    BY <1>1, <1>2
  <2>2. CASE j \in 1 .. n
    BY <1>2, <2>1, <2>2 DEF RcInv, Chain, SchemesNeverFall
  <2>3. CASE j = n + 1
    <3>1. via[n].scheme = "https"
      BY <1>1, <2>1 DEF RcInv, Chain, SchemesNeverFall
    <3>2. u.scheme # "http"
      BY <1>1, <3>1 DEF Downgrades
    <3> QED BY <1>2, <2>3, <3>2 DEF Urls, Schemes
  <2> QED BY <1>1, <2>2, <2>3
<1> QED BY <1>3, <1>4, <1>5 DEF Chain

----------------------------------------------------------------------------
LEMMA RcInvNext == RcInv /\ [Next]_vars => RcInv'
<1> SUFFICES ASSUME RcInv, [Next]_vars PROVE RcInv'
  OBVIOUS
<1> USE OptionsFixed, ChainUntouched
<1>1. ASSUME NEW answer \in Answers, Preflight(answer) PROVE RcInv'
  <2>1. TypeOK'
    BY <1>1 DEF Preflight, Ends, RcInv, TypeOK, Places, Verdicts
  <2>2. Chain'
    BY <1>1 DEF Preflight, Ends, RcInv
  <2>3. ~DialEnforces
    BY <1>1, OneCondition DEF Preflight, Preflights
  <2>4. /\ UNCHANGED <<opts, via, idle>> /\ pc' # "sent"
        /\ \/ pc' = "connect" /\ checked' = checked \cup {"preflight"}
           \/ pc' = "decide" /\ checked' = checked
    BY <1>1 DEF Preflight, Ends
  <2>5. Enforced'
    <3>1. (\A c \in idle : c.vetted <=> DialEnforces)'
      BY <2>4 DEF RcInv, Enforced
    <3>2. (Len(via) > 1 /\ ChecksTarget => "redirect" \in checked)'
      BY <2>4 DEF RcInv, Enforced
    <3>3. (pc \in {"connect", "sent"} /\ Preflights => "preflight" \in checked)'
      BY <2>4
    <3>4. ("dial" \in checked => DialEnforces)'
      BY <2>4 DEF RcInv, Enforced
    <3> QED BY <2>3, <2>4, <3>1, <3>2, <3>3, <3>4 DEF Enforced
  <2> QED BY <2>1, <2>2, <2>5 DEF RcInv
<1>2. ASSUME NEW answer \in Answers, PolicyDial(answer) PROVE RcInv'
  <2>1. CASE SendOn(TRUE)
    BY <1>2, <2>1, SendOnKeeps DEF PolicyDial
  <2>2. CASE Ends("blocked") /\ UNCHANGED idle
    <3>1. TypeOK'
      BY <2>2 DEF Ends, RcInv, TypeOK, Verdicts
    <3>2. Chain' /\ Enforced'
      BY <2>2 DEF Ends, RcInv, Enforced
    <3> QED BY <3>1, <3>2 DEF RcInv
  <2> QED BY <1>2, <2>1, <2>2 DEF PolicyDial
<1>3. ASSUME NEW answer \in Answers, NEW u \in Urls, Redirect(u, answer) PROVE RcInv'
  <2>1. CASE Check(u, answer) # "ok"
    <3>1. Check(u, answer) \in Verdicts \ {"ok"}
      BY <2>1 DEF Check, Verdicts
    <3>2. TypeOK'
      BY <1>3, <2>1, <3>1 DEF Redirect, RcInv, TypeOK
    <3>3. Chain' /\ Enforced'
      BY <1>3, <2>1 DEF Redirect, RcInv, Enforced
    <3> QED BY <3>2, <3>3 DEF RcInv
  <2>2. CASE Check(u, answer) = "ok"
    <3>1. ~TooMany /\ ~Loops(u) /\ ~Downgrades(u)
      BY <2>2 DEF Check
    <3>2. /\ via' = Append(via, u)
          /\ UNCHANGED <<opts, idle>> /\ FollowsRedirects
          /\ pc' = "attempt" /\ tries' = 1 /\ outcome' = "none"
          /\ checked' = IF ChecksTarget THEN {"redirect"} ELSE {}
      BY <1>3, <2>2 DEF Redirect
    <3>3. via' \in Seq(Urls) /\ via' # <<>>
      BY <3>2 DEF RcInv, TypeOK
    <3>4. TypeOK'
      BY <3>2, <3>3, TriesAssumption
      DEF RcInv, TypeOK, Places
    <3>5. Chain'
      BY <3>1, <3>2, FollowedKeepsChain
    <3>6. Enforced'
      BY <3>2, OneCondition DEF RcInv, Enforced, ChecksTarget
    <3> QED BY <3>4, <3>5, <3>6 DEF RcInv
  <2> QED BY <2>1, <2>2
<1>4. CASE NoPreflight
  <2>1. TypeOK'
    BY <1>4 DEF NoPreflight, RcInv, TypeOK
  <2>2. Chain' /\ Enforced'
    BY <1>4 DEF NoPreflight, RcInv, Enforced
  <2> QED BY <2>1, <2>2 DEF RcInv
<1>5. CASE UseIdle
  <2>1. PICK c \in idle : SendOn(c.vetted)
    BY <1>5 DEF UseIdle
  <2>2. c.vetted \in BOOLEAN /\ (c.vetted <=> DialEnforces)
    BY <2>1 DEF RcInv, TypeOK, Enforced, Connections
  <2> QED BY <1>5, <2>1, <2>2, SendOnKeeps DEF UseIdle
<1>6. CASE PlainDial
  BY <1>6, SendOnKeeps DEF PlainDial
<1>7. CASE Fails \/ Responds
  <2>1. TypeOK'
    BY <1>7 DEF Fails, Responds, Ends, RcInv, TypeOK
  <2>2. Chain' /\ Enforced'
    BY <1>7 DEF Fails, Responds, Ends, RcInv, Enforced
  <2> QED BY <2>1, <2>2 DEF RcInv
<1>8. CASE Retry
  <2>1. TypeOK'
    BY <1>8, TriesAssumption DEF Retry, TriesLeft, RcInv, TypeOK
  <2>2. Chain' /\ Enforced'
    BY <1>8 DEF Retry, RcInv, Enforced
  <2> QED BY <2>1, <2>2 DEF RcInv
<1>9. CASE Return
  <2>1. TypeOK'
    BY <1>9 DEF Return, RcInv, TypeOK
  <2>2. Chain' /\ Enforced'
    BY <1>9 DEF Return, RcInv, Enforced
  <2> QED BY <2>1, <2>2 DEF RcInv
<1>10. CASE Finished \/ UNCHANGED vars
  <2>1. UNCHANGED vars
    BY <1>10 DEF Finished
  <2>2. TypeOK'
    BY <2>1 DEF vars, RcInv, TypeOK
  <2>3. Chain' /\ Enforced'
    BY <2>1 DEF vars, RcInv, Enforced
  <2> QED BY <2>2, <2>3 DEF RcInv
<1> QED
  BY <1>1, <1>2, <1>3, <1>4, <1>5, <1>6, <1>7, <1>8, <1>9, <1>10 DEF Next

LEMMA RcInvAlways == Spec => []RcInv
  BY RcInvInit, RcInvNext, PTL DEF Spec

----------------------------------------------------------------------------
(* The variables have their types, for any number of hops and attempts.    *)
THEOREM RcTypeCorrect == Spec => []TypeOK
<1>1. RcInv => TypeOK
  BY DEF RcInv
<1> QED BY <1>1, RcInvAlways, PTL

(* However often its hops are retried, a chain never follows more          *)
(* redirects than WithRedirectPolicy names, and with zero none: that New   *)
(* does not ask the guard then makes up for the guard, which would take    *)
(* zero for no limit.                                                      *)
THEOREM ChainsAreShort == Spec => []RedirectsWithinPolicy
<1>1. RcInv => RedirectsWithinPolicy
  BY MaxRedirectsType
  DEF RcInv, TypeOK, Chain, ChainWithinLimit, ChainLimit, FollowsRedirects,
      RedirectsWithinPolicy
<1> QED BY <1>1, RcInvAlways, PTL

(* The loop detection finds every repetition, also of an address in        *)
(* another spelling that normalizeURL unifies.                             *)
THEOREM ChainsAreSimple == Spec => []ChainIsSimple
<1>1. RcInv => ChainIsSimple
  BY DEF RcInv, Chain
<1> QED BY <1>1, RcInvAlways, PTL

(* Comparing each hop with the one before it is enough to keep the whole   *)
(* rest of a chain on https.                                               *)
THEOREM SchemesOnlyRise == Spec => []SchemesNeverFall
<1>1. RcInv => SchemesNeverFall
  BY DEF RcInv, Chain
<1> QED BY <1>1, RcInvAlways, PTL

(* With every combination of options each request that goes out has been   *)
(* approved where the options promise it, on every hop and every attempt.  *)
THEOREM RequestsAreVetted == Spec => []EveryRequestVetted
<1>1. ASSUME RcInv, pc = "sent" PROVE EveryRequestVetted
  <2>1. opts.strict => checked \cap {"preflight", "dial"} # {}
    BY <1>1, OneCondition DEF RcInv, Enforced, Preflights
  <2>2. Len(via) > 1 /\ ~opts.allowPrivate => checked # {}
    BY <1>1, OneCondition DEF RcInv, Enforced, ChecksTarget
  <2> QED BY <2>1, <2>2 DEF EveryRequestVetted
<1>2. RcInv => EveryRequestVetted
  BY <1>1 DEF EveryRequestVetted
<1> QED BY <1>2, RcInvAlways, PTL

(* A policy in the dial is the only one that resolves the host.            *)
THEOREM DialResolvesAlone == Spec => []OneResolution
<1>1. RcInv => OneResolution
  BY DEF RcInv, Enforced, OneResolution
<1> QED BY <1>1, RcInvAlways, PTL

LEMMA NextKeepsOptions == [Next]_vars => UNCHANGED opts
<1> SUFFICES ASSUME [Next]_vars
             PROVE  UNCHANGED opts
  OBVIOUS
<1>1. ASSUME NEW answer \in Answers, Preflight(answer) \/ PolicyDial(answer)
      PROVE  UNCHANGED opts
  BY <1>1 DEF Preflight, PolicyDial, SendOn, Ends
<1>2. ASSUME NEW answer \in Answers, NEW u \in Urls, Redirect(u, answer)
      PROVE  UNCHANGED opts
  BY <1>2 DEF Redirect
<1>3. CASE NoPreflight \/ UseIdle \/ PlainDial
  BY <1>3 DEF NoPreflight, UseIdle, PlainDial, SendOn
<1>4. CASE Fails \/ Responds \/ Retry \/ Return
  BY <1>4 DEF Fails, Responds, Ends, Retry, Return
<1>5. CASE Finished \/ UNCHANGED vars
  BY <1>5 DEF Finished, vars
<1> QED
  BY <1>1, <1>2, <1>3, <1>4, <1>5 DEF Next

(* Without WithStrictSSRFProtection only the guard refuses an address: that *)
(* of a redirect, which ends the call at once, and only if redirects to    *)
(* private addresses are not allowed.                                      *)
OnlyGuardRefuses ==
    outcome = "blocked" /\ ~opts.strict => pc = "done" /\ ~opts.allowPrivate

THEOREM LaxIsOnlyGuarded == Spec => []OnlyGuardRefuses
<1>1. Init => OnlyGuardRefuses
  BY DEF Init, OnlyGuardRefuses
<1>2. OnlyGuardRefuses /\ [Next]_vars => OnlyGuardRefuses'
  <2> SUFFICES ASSUME OnlyGuardRefuses, [Next]_vars, ~opts.strict,
                      outcome' = "blocked"
               PROVE  pc' = "done" /\ ~opts.allowPrivate
    BY NextKeepsOptions DEF OnlyGuardRefuses
  <2>1. ~Preflights /\ ~DialEnforces
    BY DEF Preflights, DialEnforces
  <2>2. ASSUME NEW u \in Urls, NEW answer \in Answers, Redirect(u, answer)
        PROVE  pc' = "done" /\ ~opts.allowPrivate
    BY <2>2 DEF Redirect, Check, ChecksTarget
  <2>3. CASE Return \/ Finished \/ UNCHANGED vars
    BY <2>3 DEF OnlyGuardRefuses, Return, Finished, vars
  <2>4. CASE NoPreflight \/ UseIdle \/ PlainDial
    BY <2>4 DEF OnlyGuardRefuses, NoPreflight, UseIdle, PlainDial, SendOn
  <2> QED
    BY <2>1, <2>2, <2>3, <2>4 DEF Next, Preflight, PolicyDial, Fails, Responds, Ends, Retry
<1> QED
  BY <1>1, <1>2, PTL DEF Spec

(* What the limit counts, for every limit: a chain that is stopped for its *)
(* length has made as many requests as WithRedirectPolicy names, that is,  *)
(* followed one redirect less.                                             *)
StoppedAtLimit ==
    outcome = "tooMany" => pc = "done" /\ Len(via) = MaxRedirects

THEOREM LimitCountsRequests == Spec => []StoppedAtLimit
<1>1. Init => StoppedAtLimit
  BY DEF Init, StoppedAtLimit
<1>2. RcInv /\ StoppedAtLimit /\ [Next]_vars => StoppedAtLimit'
  <2> SUFFICES ASSUME RcInv, StoppedAtLimit, [Next]_vars, outcome' = "tooMany"
               PROVE  pc' = "done" /\ Len(via') = MaxRedirects'
    BY DEF StoppedAtLimit
  <2>1. MaxRedirects' = MaxRedirects
    BY NextKeepsOptions, OptionsFixed
  <2>2. ASSUME NEW u \in Urls, NEW answer \in Answers, Redirect(u, answer)
        PROVE  pc' = "done" /\ Len(via') = MaxRedirects'
    <3>1. Check(u, answer) = "tooMany" /\ pc' = "done" /\ via' = via
      BY <2>2 DEF Redirect
    <3>2. TooMany /\ FollowsRedirects
      BY <2>2, <3>1 DEF Check, Redirect
    <3> QED
      BY <2>1, <3>1, <3>2, MaxRedirectsType
      DEF TooMany, FollowsRedirects, RcInv, TypeOK, Chain, ChainWithinLimit, ChainLimit
  <2>3. CASE Return \/ Finished \/ UNCHANGED vars
    BY <2>1, <2>3 DEF StoppedAtLimit, Return, Finished, vars
  <2>4. CASE NoPreflight \/ UseIdle \/ PlainDial
    BY <2>4 DEF StoppedAtLimit, NoPreflight, UseIdle, PlainDial, SendOn
  <2>5. ASSUME NEW answer \in Answers, Preflight(answer) \/ PolicyDial(answer)
        PROVE  pc' = "done" /\ Len(via') = MaxRedirects'
    BY <2>5 DEF StoppedAtLimit, Preflight, PolicyDial, SendOn, Ends
  <2> QED
    BY <2>2, <2>3, <2>4, <2>5 DEF Next, Fails, Responds, Ends, Retry
<1> QED
  BY <1>1, <1>2, RcInvAlways, PTL DEF Spec

----------------------------------------------------------------------------
(* No server keeps a call going for ever.  What runs out is found here for *)
(* every limit and every number of attempts: each step of a call takes it  *)
(* down, and it does not fall below zero.                                  *)

(* Steps of a hop, and to the end of an attempt.                           *)
HopSteps  == 5 * MaxTries
StepsLeft == [attempt |-> 4, connect |-> 3, sent |-> 2, decide |-> 1, done |-> 0]

CallFuel ==
    HopSteps * (ChainLimit - Len(via)) + 5 * (MaxTries - tries) + StepsLeft[pc]

LEMMA HopsInFuel ==
    ASSUME NEW w \in Nat, NEW h \in Nat
    PROVE  /\ w * h \in Nat /\ w * (h + 1) \in Nat
           /\ w * (h + 1) = w * h + w
  BY SMT

LEMMA FuelInBounds == RcInv => CallFuel \in 0 .. HopSteps * ChainLimit - 1
<1> SUFFICES ASSUME RcInv
             PROVE  CallFuel \in 0 .. HopSteps * ChainLimit - 1
  OBVIOUS
<1> DEFINE left == ChainLimit - Len(via)
<1>1. /\ MaxTries \in Nat /\ tries \in 1 .. MaxTries /\ HopSteps \in Nat
      /\ HopSteps = 5 * MaxTries
      /\ StepsLeft[pc] \in 0 .. 4
  BY TriesAssumption DEF RcInv, TypeOK, StepsLeft, HopSteps
<1>2. ChainLimit \in Nat /\ left \in Nat /\ left + 1 <= ChainLimit
  <2>1. Len(via) \in Nat \ {0} /\ Len(via) <= ChainLimit /\ ChainLimit \in Nat
    BY MaxRedirectsType DEF RcInv, TypeOK, Chain, ChainWithinLimit, ChainLimit, FollowsRedirects
  <2> QED
    BY <2>1
<1> HIDE DEF left
<1>3. CallFuel = HopSteps * left + 5 * (MaxTries - tries) + StepsLeft[pc]
  BY DEF CallFuel, left
<1>4. /\ HopSteps * left \in Nat
      /\ HopSteps * (left + 1) = HopSteps * left + HopSteps
  BY <1>1, <1>2, HopsInFuel
<1>5. /\ HopSteps * (left + 1) <= HopSteps * ChainLimit
      /\ HopSteps * ChainLimit \in Nat
  <2>1. \A w, x, y \in Nat : x <= y => w * x <= w * y /\ w * y \in Nat
    BY SMT
  <2> QED
    BY <1>1, <1>2, <2>1, left + 1 \in Nat
<1> DEFINE all == HopSteps * ChainLimit
           rest == HopSteps * left
<1>6. all \in Nat /\ rest \in Nat /\ rest + HopSteps <= all
  BY <1>4, <1>5
<1>7. CallFuel = rest + 5 * (MaxTries - tries) + StepsLeft[pc]
  BY <1>3
<1> HIDE DEF all, rest
<1>8. CallFuel \in 0 .. all - 1
  BY <1>1, <1>6, <1>7
<1> QED
  BY <1>8 DEF all

LEMMA StepTakesFuel ==
    ASSUME RcInv, Next, ~UNCHANGED vars
    PROVE  CallFuel' < CallFuel
<1> DEFINE left == ChainLimit - Len(via)
<1>1. /\ MaxTries \in Nat /\ tries \in 1 .. MaxTries /\ HopSteps \in Nat
      /\ HopSteps = 5 * MaxTries /\ Len(via) \in Nat
      /\ StepsLeft[pc] \in Nat /\ StepsLeft["decide"] = 1 /\ StepsLeft["attempt"] = 4
      /\ pc \in {"attempt", "connect", "sent", "decide", "done"}
  BY TriesAssumption DEF RcInv, TypeOK, StepsLeft, HopSteps
<1>2. MaxRedirects \in Nat /\ ChainLimit \in Nat /\ left \in Nat
  <2>1. Len(via) \in Nat /\ Len(via) <= ChainLimit /\ ChainLimit \in Nat
        /\ MaxRedirects \in Nat
    BY MaxRedirectsType DEF RcInv, TypeOK, Chain, ChainWithinLimit, ChainLimit, FollowsRedirects
  <2> QED
    BY <2>1
<1>3. HopSteps * left \in Nat
  BY <1>1, <1>2, HopsInFuel
<1>4. UNCHANGED opts => ChainLimit' = ChainLimit
  BY OptionsFixed DEF ChainLimit, FollowsRedirects
(* Within an attempt. *)
<1>5. ASSUME UNCHANGED <<opts, via, tries>>,
             pc' \in {"attempt", "connect", "sent", "decide", "done"},
             StepsLeft[pc'] < StepsLeft[pc]
      PROVE  CallFuel' < CallFuel
  <2>1. StepsLeft[pc'] \in Nat
    BY <1>5 DEF StepsLeft
  <2>2. CallFuel' = HopSteps * left + 5 * (MaxTries - tries) + StepsLeft[pc']
    BY <1>4, <1>5 DEF CallFuel, HopSteps
  <2>3. CallFuel = HopSteps * left + 5 * (MaxTries - tries) + StepsLeft[pc]
    BY DEF CallFuel
  <2> DEFINE rest == HopSteps * left
  <2>4. /\ rest \in Nat
        /\ CallFuel' = rest + 5 * (MaxTries - tries) + StepsLeft[pc']
        /\ CallFuel = rest + 5 * (MaxTries - tries) + StepsLeft[pc]
    BY <1>3, <2>2, <2>3
  <2> HIDE DEF rest
  <2> QED
    BY <1>1, <1>5, <2>1, <2>4
<1>6. ASSUME NEW answer \in Answers, Preflight(answer)
      PROVE  CallFuel' < CallFuel
  BY <1>5, <1>6 DEF Preflight, Ends, StepsLeft
<1>7. CASE NoPreflight
  BY <1>5, <1>7 DEF NoPreflight, StepsLeft
<1>8. ASSUME pc = "connect", NEW vetted, SendOn(vetted)
      PROVE  CallFuel' < CallFuel
  BY <1>5, <1>8 DEF SendOn, StepsLeft
<1>9. CASE UseIdle \/ PlainDial
  BY <1>8, <1>9 DEF UseIdle, PlainDial
<1>10. ASSUME pc = "connect", Ends("blocked")
       PROVE  CallFuel' < CallFuel
  BY <1>5, <1>10 DEF Ends, StepsLeft
<1>11. ASSUME NEW answer \in Answers, PolicyDial(answer)
       PROVE  CallFuel' < CallFuel
  BY <1>8, <1>10, <1>11 DEF PolicyDial
<1>12. CASE Fails \/ Responds
  BY <1>5, <1>12 DEF Fails, Responds, Ends, StepsLeft
<1>13. CASE Return
  BY <1>5, <1>13 DEF Return, StepsLeft
(* To the next attempt of the hop, and to the next hop. *)
<1>14. CASE Retry
  <2>1. /\ pc = "decide" /\ pc' = "attempt" /\ tries' = tries + 1
        /\ UNCHANGED <<opts, via>>
    BY <1>14 DEF Retry
  <2> DEFINE rest == HopSteps * left
  <2>2. /\ rest \in Nat
        /\ CallFuel' = rest + 5 * (MaxTries - (tries + 1)) + 4
        /\ CallFuel = rest + 5 * (MaxTries - tries) + 1
    BY <1>1, <1>3, <1>4, <2>1 DEF CallFuel, HopSteps
  <2> HIDE DEF rest
  <2> QED
    BY <1>1, <2>2
<1>15. ASSUME NEW u \in Urls, NEW answer \in Answers, Redirect(u, answer)
       PROVE  CallFuel' < CallFuel
  <2>1. CASE pc' = "done" /\ UNCHANGED <<via, tries>>
    BY <1>5, <1>15, <2>1 DEF Redirect, StepsLeft
  <2>2. CASE ~(pc' = "done" /\ UNCHANGED <<via, tries>>)
    <3>1. /\ Check(u, answer) = "ok" /\ FollowsRedirects
          /\ via' = Append(via, u) /\ tries' = 1
          /\ pc = "decide" /\ pc' = "attempt" /\ UNCHANGED opts
      BY <1>15, <2>2 DEF Redirect
    <3>2. ~TooMany
      BY <3>1 DEF Check
    <3>3. left > 0 /\ Len(via') = Len(via) + 1
      BY <1>1, <1>2, <3>1, <3>2 DEF TooMany, ChainLimit, FollowsRedirects, RcInv, TypeOK
    <3>4. left - 1 \in Nat /\ ChainLimit' - Len(via') = left - 1
      BY <1>1, <1>2, <1>4, <3>1, <3>3
    <3> DEFINE rest == HopSteps * (left - 1)
    <3>5. rest \in Nat /\ HopSteps * left = rest + HopSteps
      <4> DEFINE fewer == left - 1
      <4>1. fewer \in Nat /\ fewer + 1 = left
        BY <1>2, <3>4
      <4> HIDE DEF fewer
      <4>2. HopSteps * fewer \in Nat /\ HopSteps * left = HopSteps * fewer + HopSteps
        BY <1>1, <4>1, HopsInFuel
      <4> QED
        BY <4>2 DEF fewer
    <3>6. CallFuel' = rest + 5 * (MaxTries - 1) + 4
      BY <1>1, <3>1, <3>4 DEF CallFuel, HopSteps
    <3>7. CallFuel = HopSteps * left + 5 * (MaxTries - tries) + 1
      BY <1>1, <3>1 DEF CallFuel
    <3> DEFINE all == HopSteps * left
    <3>8. CallFuel = all + 5 * (MaxTries - tries) + 1 /\ all = rest + HopSteps
      BY <3>5, <3>7
    <3>9. rest \in Nat
      BY <3>5
    <3> HIDE DEF rest, all
    <3> QED
      BY <1>1, <3>6, <3>8, <3>9
  <2> QED
    BY <2>1, <2>2
<1> QED
  BY <1>6, <1>7, <1>9, <1>11, <1>12, <1>13, <1>14, <1>15 DEF Next, Finished

(* A call takes fewer than 5 * MaxTries steps for each request its limit   *)
(* allows, whatever the servers answer.                                    *)
THEOREM ChainsAreFinite ==
    Spec => /\ [](CallFuel \in 0 .. HopSteps * ChainLimit - 1)
            /\ [][CallFuel' < CallFuel]_vars
<1>1. RcInv /\ [Next]_vars => [CallFuel' < CallFuel]_vars
  BY StepTakesFuel
<1> QED
  BY <1>1, FuelInBounds, RcInvAlways, PTL DEF Spec

=============================================================================
