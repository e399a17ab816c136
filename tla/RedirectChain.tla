--------------------------- MODULE RedirectChain ---------------------------
(***************************************************************************)
(* One call of a client built by New (src/gttp.go) through a chain of      *)
(* redirects: the guard that decides about every hop (src/redirect.go),    *)
(* and the IP policy, which New places in the guard, in front of every     *)
(* attempt (src/safety.go) or in the dial (src/ssrf.go).                   *)
(*                                                                         *)
(* http.Client, which keeps the chain, and the connection pool are         *)
(* external.  Two lookups of one host may answer differently, so each      *)
(* answer is a choice: "approved", or "refused" for a blocked address, an  *)
(* empty answer or a failed lookup.  A host here is a host name with any   *)
(* port that is not its scheme's default; a page is a path and query, up   *)
(* to the order of the parameters.  checked is a ghost.                    *)
(*                                                                         *)
(* The stripping of sensitive headers is left out: the guard decides about *)
(* each hop by that hop alone, and nothing else depends on it.             *)
(***************************************************************************)
EXTENDS Integers, Sequences

CONSTANTS
    Hosts,
    Pages,
    MaxLimit,   \* largest argument of WithRedirectPolicy considered
    MaxTries    \* attempts of the retrying transport for each hop

ASSUME LimitAssumption == MaxLimit \in Nat
ASSUME TriesAssumption == MaxTries \in Nat \ {0}

VARIABLES
    opts,       \* the options New was called with
    via,        \* the requests so far, the current one last
    pc,         \* how far the current request is
    tries,      \* attempts made for it
    checked,    \* where the policy approved the target of this attempt
    idle,       \* connections of the pool
    outcome     \* what the attempt, and at the end the call, came to

vars == <<opts, via, pc, tries, checked, idle, outcome>>

Options == [strict         : BOOLEAN,     \* WithStrictSSRFProtection
            custom         : BOOLEAN,     \* WithTransport
            noProxy        : BOOLEAN,     \* WithNoProxy
            allowPrivate   : BOOLEAN,     \* WithAllowPrivateRedirects
            allowDowngrade : BOOLEAN,     \* WithAllowSchemeDowngrade
            redirects      : -1 .. MaxLimit]    \* WithRedirectPolicy

Schemes == {"http", "https"}

Urls == [scheme       : Schemes,
         host         : Hosts,
         explicitPort : BOOLEAN,     \* names the port the scheme implies
         page         : Pages]

Places   == {"redirect", "preflight", "dial"}
Answers  == {"approved", "refused"}
Verdicts == {"ok", "tooMany", "loop", "downgrade", "blocked"}

(* What the pool knows of a connection: whom it serves, and whether the    *)
(* policy approved the address it leads to.                                *)
Connections == [scheme : Schemes, host : Hosts, vetted : BOOLEAN]

TypeOK ==
    /\ opts \in Options
    /\ via \in Seq(Urls) /\ via # <<>>
    /\ pc \in {"attempt", "connect", "sent", "decide", "done"}
    /\ tries \in 1 .. MaxTries
    /\ checked \subseteq Places
    /\ idle \subseteq Connections
    /\ outcome \in {"none", "response", "error"} \cup (Verdicts \ {"ok"})

----------------------------------------------------------------------------
(* New: what the options make of the client.                               *)

MaxRedirects == IF opts.redirects < 0 THEN 0 ELSE opts.redirects

(* Mutant: the guard is asked for every limit.                             *)
GuardsAlways == TRUE

(* New gives the client a guard that follows; with a limit of zero it      *)
(* gives it one that never does (ErrUseLastResponse) instead.              *)
FollowsRedirects == MaxRedirects > 0

(* The dial function of the client's own transport enforces the policy.    *)
DialEnforces ==
    /\ ~opts.custom
    /\ opts.strict /\ opts.noProxy /\ ~opts.allowPrivate

(* Mutant: a custom transport is taken to enforce the policy.              *)
AtDialWithCustom == opts.strict /\ opts.noProxy /\ ~opts.allowPrivate

(* The guard and the preflight are told that it does.                      *)
IpPolicyAtDial ==
    /\ opts.strict
    /\ ~opts.custom
    /\ opts.noProxy
    /\ ~opts.allowPrivate

(* Mutant: the preflight is not told.                                      *)
PreflightsAlways == opts.strict

Preflights == opts.strict /\ ~IpPolicyAtDial

----------------------------------------------------------------------------
(* The redirect guard.                                                     *)

Current == via[Len(via)]

(* normalizeURL strips the port that the scheme implies.                   *)
Normal(u) == [u EXCEPT !.explicitPort = FALSE]

(* The limit; via counts the first request too, and zero is no limit here. *)
TooMany == MaxRedirects > 0 /\ Len(via) >= MaxRedirects

(* Mutant: addresses are compared as they are written.                     *)
LoopsRaw(u) == \E i \in 1 .. Len(via) : via[i] = u

Loops(u) == \E i \in 1 .. Len(via) : Normal(via[i]) = Normal(u)

(* Mutant: the hop is compared with the first request.                     *)
DowngradesFirst(u) ==
    /\ ~opts.allowDowngrade
    /\ via[1].scheme = "https" /\ u.scheme = "http"

Downgrades(u) ==
    /\ ~opts.allowDowngrade
    /\ Current.scheme = "https" /\ u.scheme = "http"

ChecksTarget == ~opts.allowPrivate /\ ~IpPolicyAtDial

(* check, for the next address u and the answer of the lookup, if it comes *)
(* to that.                                                                *)
Check(u, answer) ==
    CASE TooMany                                     -> "tooMany"
      [] ~TooMany /\ Loops(u)                        -> "loop"
      [] ~TooMany /\ ~Loops(u) /\ Downgrades(u)      -> "downgrade"
      [] /\ ~TooMany /\ ~Loops(u) /\ ~Downgrades(u)
         /\ ChecksTarget /\ answer = "refused"       -> "blocked"
      [] OTHER                                       -> "ok"

----------------------------------------------------------------------------
Init ==
    /\ opts \in Options
    /\ \E u \in Urls : via = <<u>>
    /\ pc = "attempt"
    /\ tries = 1
    /\ checked = {}
    /\ idle = {}
    /\ outcome = "none"

(* The attempt ends; what becomes of it is decided by the retry loop.      *)
Ends(what) ==
    /\ pc' = "decide"
    /\ outcome' = what
    /\ UNCHANGED <<opts, via, tries, checked>>

(* safetyTransport, before it does anything else.                          *)
Preflight(answer) ==
    /\ pc = "attempt"
    /\ Preflights
    /\ \/ /\ answer = "refused"
          /\ Ends("blocked")
       \/ /\ answer = "approved"
          /\ pc' = "connect"
          /\ checked' = checked \cup {"preflight"}
          /\ UNCHANGED <<opts, via, tries, outcome>>
    /\ UNCHANGED idle

NoPreflight ==
    /\ pc = "attempt"
    /\ ~Preflights
    /\ pc' = "connect"
    /\ UNCHANGED <<opts, via, tries, checked, idle, outcome>>

(* The request goes out on a connection.                                   *)
SendOn(vetted) ==
    /\ pc' = "sent"
    /\ checked' = checked \cup (IF vetted THEN {"dial"} ELSE {})
    /\ \E kept \in SUBSET {[scheme |-> Current.scheme,
                            host   |-> Current.host,
                            vetted |-> vetted]} :
         idle' = idle \cup kept
    /\ UNCHANGED <<opts, via, tries, outcome>>

(* A connection of the pool; no lookup takes place.                        *)
UseIdle ==
    /\ pc = "connect"
    /\ \E c \in idle :
         /\ c.scheme = Current.scheme
         /\ c.host = Current.host
         /\ SendOn(c.vetted)

(* A new connection, to an address the policy approved ...                 *)
PolicyDial(answer) ==
    /\ pc = "connect"
    /\ DialEnforces
    /\ \/ answer = "approved" /\ SendOn(TRUE)
       \/ answer = "refused" /\ Ends("blocked") /\ UNCHANGED idle

(* ... or to whatever a second lookup, or the proxy, finds.                *)
PlainDial ==
    /\ pc = "connect"
    /\ ~DialEnforces
    /\ SendOn(FALSE)

Fails ==
    /\ pc \in {"connect", "sent"}
    /\ Ends("error")
    /\ UNCHANGED idle

Responds ==
    /\ pc = "sent"
    /\ Ends("response")
    /\ UNCHANGED idle

(* Mutant: one attempt more.                                               *)
TriesLeftLate == tries <= MaxTries

TriesLeft == tries < MaxTries

(* The retry loop tries the hop again, whatever its policy retries.        *)
Retry ==
    /\ pc = "decide"
    /\ TriesLeft
    /\ pc' = "attempt"
    /\ tries' = tries + 1
    /\ checked' = checked \cap {"redirect"}
    /\ outcome' = "none"
    /\ UNCHANGED <<opts, via, idle>>

(* The call returns: an error, a response that is no redirect, or, with    *)
(* ErrUseLastResponse, the redirect itself.                                *)
Return ==
    /\ pc = "decide"
    /\ pc' = "done"
    /\ UNCHANGED <<opts, via, tries, checked, idle, outcome>>

(* The response is a redirect to u.                                        *)
Redirect(u, answer) ==
    /\ pc = "decide"
    /\ outcome = "response"
    /\ FollowsRedirects
    /\ \/ /\ Check(u, answer) # "ok"
          /\ pc' = "done"
          /\ outcome' = Check(u, answer)
          /\ UNCHANGED <<via, tries, checked>>
       \/ /\ Check(u, answer) = "ok"
          /\ via' = Append(via, u)
          /\ pc' = "attempt"
          /\ tries' = 1
          /\ checked' = IF ChecksTarget THEN {"redirect"} ELSE {}
          /\ outcome' = "none"
    /\ UNCHANGED <<opts, idle>>

Finished ==
    /\ pc = "done"
    /\ UNCHANGED vars

Next ==
    \/ \E answer \in Answers :
         \/ Preflight(answer)
         \/ PolicyDial(answer)
         \/ \E u \in Urls : Redirect(u, answer)
    \/ NoPreflight \/ UseIdle \/ PlainDial
    \/ Fails \/ Responds \/ Retry \/ Return
    \/ Finished

Spec == Init /\ [][Next]_vars

----------------------------------------------------------------------------
(* Safety.                                                                 *)

(* Never more redirects are followed than WithRedirectPolicy names, and    *)
(* none when it names zero or less, whatever is retried on the way.  For   *)
(* zero the guard itself would set no limit: New must not ask it then.     *)
RedirectsWithinPolicy == Len(via) - 1 <= MaxRedirects

(* No resource is requested twice by following redirects, also not under   *)
(* another spelling of its address, as far as normalizeURL knows them: the *)
(* default port written out, or another order of the parameters.           *)
ChainIsSimple ==
    \A i, j \in 1 .. Len(via) :
        i # j => Normal(via[i]) # Normal(via[j])

(* Without WithAllowSchemeDowngrade a chain that has reached https never   *)
(* uses http again, although each hop is compared with one other only.     *)
SchemesNeverFall ==
    ~opts.allowDowngrade =>
        \A i, j \in 1 .. Len(via) :
            i < j /\ via[i].scheme = "https" => via[j].scheme = "https"

(* Under WithStrictSSRFProtection no request, first or redirected, first   *)
(* or retried, on a new connection or an old one, goes out unless its      *)
(* target was approved for this attempt or for its connection; without it  *)
(* the target of every redirect was, unless WithAllowPrivateRedirects is   *)
(* set.  New decides by two separate conditions who does the check.        *)
EveryRequestVetted ==
    pc = "sent" =>
        /\ opts.strict => checked \cap {"preflight", "dial"} # {}
        /\ Len(via) > 1 /\ ~opts.allowPrivate => checked # {}

(* Where the dial enforces the policy nobody else resolves the host too    *)
(* ("resolves each hostname once per new connection",                      *)
(* WithStrictSSRFProtection).                                              *)
OneResolution ==
    "dial" \in checked => checked = {"dial"}

(* WithRedirectPolicy "sets the maximum number of redirects to follow",    *)
(* and a chain that is longer "stopped after n redirects" (the message of  *)
(* ErrTooManyRedirects).  Violated: the first request counts, so the chain *)
(* stops after n - 1.                                                      *)
StopsAfterLimit == outcome = "tooMany" => Len(via) - 1 = MaxRedirects

(* WithAllowPrivateRedirects: "redirects to loopback / private / ...       *)
(* addresses are allowed", so with it no redirect is refused by the policy *)
(* (the doc comment of the option).  Violated: under strict protection the *)
(* preflight decides about every hop, not about the first only.            *)
AllowedRedirectsFollowed ==
    outcome = "blocked" /\ opts.allowPrivate => Len(via) = 1

=============================================================================
