---------------------------- MODULE OIDCVerifier ----------------------------
(***************************************************************************)
(* OIDCVerifier of internal/server/oidc.go: concurrent calls of Subject    *)
(* check tokens against the issuers the verifier was built with.           *)
(*                                                                         *)
(* A call is routed by the issuer that the token, not yet verified, claims *)
(* to be from: to that issuer, or to every configured one if none fits.    *)
(* For each, jwt.Parse is tried once per accepted audience.  A try looks   *)
(* the key id up in the issuer's cached key set; if it is not there, it    *)
(* waits for the rate limiter of the issuer and fetches the set again.     *)
(* Meanwhile issuers publish and withdraw keys, other calls refresh the    *)
(* same cache, time passes and the context of the verifier may be          *)
(* cancelled.                                                              *)
(*                                                                         *)
(* The key set client (keyfunc, jwkset), jwt and the issuers are external: *)
(* a fetch reads what the issuer publishes at that moment and replaces the *)
(* cached set, or fails.  A key is known by its issuer and key id, and a   *)
(* signature by the issuer whose key made it, who may be nobody that is    *)
(* configured: tokens arrive from anywhere, with any claim, key id and     *)
(* signature.  Time counts in units of the leeway, 30 s.  Abstracted: nbf, *)
(* which is tested like exp.                                               *)
(***************************************************************************)
EXTENDS Naturals, Sequences, Functions

CONSTANTS
  IssuerList,   \* the configured issuers, in order, without trailing slash
  Audiences,    \* the accepted audiences, in order; may be empty
  Kids,         \* key ids; two issuers may use the same
  FirstKids,    \* those published at the start
  Tokens,       \* the tokens that arrive in this instance
  Calls,        \* concurrent calls of Subject
  MaxCalls,     \* bound: calls that are started
  Rotating,     \* bound: the issuers that change their keys
  MaxRotations, \* bound: keys published or withdrawn
  MaxTime       \* bound: the clock stops at MaxTime

Issuers == Range(IssuerList)

ASSUME ConfigAssumption ==
  /\ IssuerList \in Seq(Issuers) /\ IssuerList # << >>
  /\ Audiences \in Seq(Range(Audiences))
  /\ FirstKids \subseteq Kids
  /\ Rotating \subseteq Issuers
  /\ \A t \in Tokens : t.exp \in Nat
  /\ MaxCalls \in Nat /\ MaxRotations \in Nat /\ MaxTime \in Nat \ {0}

VARIABLES
  published,   \* issuer -> key ids it publishes now
  retired,     \* issuer -> key ids it has withdrawn
  cache,       \* issuer -> key ids in the cached set
  permit,      \* issuer -> does the limiter let a refresh through?
  cancelled,   \* is the context of the verifier cancelled?
  clock,
  call,        \* the calls of Subject
  started,     \* bound: calls started so far
  rotations    \* bound: keys published or withdrawn so far

issuers == <<published, retired, rotations>>
vars == <<issuers, cache, permit, cancelled, clock, call, started>>

NoCall == [pc |-> "idle", verdict |-> "none"]

(* The issuer claim of a token is a name with or without a trailing slash; *)
(* it is compared to a configured issuer without it, or exactly.           *)
SameIssuer(iss, i) == iss.name = i
ExactIssuer(iss, i) == iss = [name |-> i, slash |-> FALSE]

(* unsafePeekIssuer and the routing by what it finds.                      *)
BugNoFallback(token) ==   \* no issuer fits: none is asked
  IF token.form = "jwt" /\ \E i \in Issuers : SameIssuer(token.iss, i)
  THEN <<CHOOSE i \in Issuers : SameIssuer(token.iss, i)>>
  ELSE << >>
Candidates(token) ==
  IF token.form = "jwt" /\ \E i \in Issuers : SameIssuer(token.iss, i)
  THEN <<CHOOSE i \in Issuers : SameIssuer(token.iss, i)>>
  ELSE IssuerList

Tries == IF Audiences = << >> THEN 1 ELSE Len(Audiences)
AudienceFits(token, try) == Audiences = << >> \/ Audiences[try] \in token.aud

(* The signature is checked with the key of issuer i that has the key id   *)
(* of the token; another's key may have the same one.                      *)
BugAnyKey(token, i) == TRUE   \* jwt.ParseUnverified
SignedBy(token, i) == token.by = i

(* What jwt.Parse asks of a token once it has that key: the signature, the *)
(* issuer, the expiry (required; 0 is none) and the audience.              *)
Passes(token, i, try) ==
  /\ SignedBy(token, i)
  /\ ExactIssuer(token.iss, i)
  /\ token.exp # 0 /\ clock <= token.exp
  /\ AudienceFits(token, try)
-----------------------------------------------------------------------------
(* The first fetch may fail: the cache is then empty.                      *)
Init ==
  /\ published = [i \in Issuers |-> FirstKids]
  /\ retired = [i \in Issuers |-> {}]
  /\ cache \in [Issuers -> {FirstKids, {}}]
  /\ permit = [i \in Issuers |-> TRUE]
  /\ cancelled = FALSE
  /\ clock = 1
  /\ call = [h \in Calls |-> NoCall]
  /\ started = 0
  /\ rotations = 0

Verdict(c, verdict) ==
  [c EXCEPT !.pc = "idle", !.verdict = verdict, !.at = clock, !.candidates = << >>, !.try = 1]

(* The key that signed the token is one that its owner, a configured       *)
(* issuer, publishes now under the key id of the token.                    *)
VouchedFor(token) == token.by \in Issuers /\ token.kid \in published[token.by]

(* A call begins.  excused is history: by the verdict, was the key of its  *)
(* token not published all the time, or a refresh refused to the call?     *)
Begin(h, token) ==
  LET new == [pc |-> "parse", verdict |-> "none", token |-> token,
              candidates |-> Candidates(token), try |-> 1, at |-> 0,
              excused |-> ~VouchedFor(token)]
  IN
  /\ call[h].pc = "idle"
  /\ started < MaxCalls
  /\ started' = started + 1
  /\ call' = [call EXCEPT ![h] =
       IF token.form = "empty" THEN Verdict(new, "rejected") ELSE new]
  /\ UNCHANGED <<issuers, cache, permit, cancelled, clock>>

(* Is this try the last one with this issuer?                              *)
BugNoBreak(c, passed) == c.try = Tries
LastTry(c, passed) == passed \/ c.try = Tries

(* The call after a try: the next audience, the next issuer or a verdict.  *)
AfterTry(c, passed) ==
  IF ~LastTry(c, passed) THEN [c EXCEPT !.pc = "parse", !.try = @ + 1]
  ELSE IF passed /\ c.token.sub # "" THEN Verdict(c, "accepted")
  ELSE IF Len(c.candidates) = 1 THEN Verdict(c, "rejected")
  ELSE [c EXCEPT !.pc = "parse", !.try = 1, !.candidates = Tail(@)]

Goes(h, from, to) ==
  /\ call[h].pc = from
  /\ call' = [call EXCEPT ![h] = to]
  /\ UNCHANGED <<issuers, cancelled, clock, started>>

Asked(h) == Head(call[h].candidates)

(* jwt.Parse: a malformed token fails before its key is looked up; a key   *)
(* that is not cached has to be fetched.                                   *)
ParseMalformed(h) ==
  /\ Goes(h, "parse", AfterTry(call[h], FALSE))
  /\ call[h].token.form = "garbage"
  /\ UNCHANGED <<cache, permit>>

ParseWithCachedKey(h) ==
  LET c == call[h] IN
  /\ Goes(h, "parse", AfterTry(c, Passes(c.token, Asked(h), c.try)))
  /\ c.token.form = "jwt" /\ c.token.kid \in cache[Asked(h)]
  /\ UNCHANGED <<cache, permit>>

ParseWithUnknownKey(h) ==
  /\ Goes(h, "parse", [call[h] EXCEPT !.pc = "wait"])
  /\ call[h].token.form = "jwt" /\ call[h].token.kid \notin cache[Asked(h)]
  /\ UNCHANGED <<cache, permit>>

(* The limiter lets one refresh of the issuer through in ten seconds ...   *)
StartRefresh(h) ==
  /\ Goes(h, "wait", [call[h] EXCEPT !.pc = "fetch"])
  /\ permit[Asked(h)] /\ ~cancelled
  /\ permit' = [permit EXCEPT ![Asked(h)] = FALSE]
  /\ UNCHANGED cache

Refused(c) == AfterTry([c EXCEPT !.excused = TRUE], FALSE)

(* ... and refuses a wait that would be longer than a minute.              *)
GiveUp(h) == Goes(h, "wait", Refused(call[h])) /\ UNCHANGED <<cache, permit>>

(* The cached set is what the issuer publishes; the try goes on with it.   *)
FinishRefresh(h) ==
  LET c == call[h]
      i == Asked(h)
  IN
  /\ Goes(h, "fetch", AfterTry(c, c.token.kid \in published[i] /\ Passes(c.token, i, c.try)))
  /\ ~cancelled
  /\ cache' = [cache EXCEPT ![i] = published[i]]
  /\ UNCHANGED permit

(* The issuer answers with an error, or not within the timeout that the    *)
(* key set client has by default.                                          *)
BugNoTimeout(h) == cancelled   \* an HTTP client without a timeout
MayFail(h) == TRUE

RefreshFails(h) ==
  /\ MayFail(h)
  /\ Goes(h, "fetch", Refused(call[h]))
  /\ UNCHANGED <<cache, permit>>
-----------------------------------------------------------------------------
Replenish(i) ==
  /\ ~permit[i]
  /\ permit' = [permit EXCEPT ![i] = TRUE]
  /\ UNCHANGED <<issuers, cache, cancelled, clock, call, started>>

(* The background refreshers run until their context is cancelled: by      *)
(* Close, or with the context of main.                                     *)
BugCancelledEarly(i) == FALSE   \* defer cancel() in NewOIDCVerifier
RefresherRuns(i) == ~cancelled

BackgroundRefresh(i) ==
  /\ RefresherRuns(i)
  /\ cache' = [cache EXCEPT ![i] = published[i]]
  /\ UNCHANGED <<issuers, permit, cancelled, clock, call, started>>

Close ==
  /\ ~cancelled
  /\ cancelled' = TRUE
  /\ UNCHANGED <<issuers, cache, permit, clock, call, started>>

(* An issuer publishes a key under a new id, and withdraws one.            *)
Rotation(i) ==
  i \in Rotating /\ rotations < MaxRotations /\ rotations' = rotations + 1

Publish(i, k) ==
  /\ Rotation(i)
  /\ k \notin published[i] \cup retired[i]
  /\ published' = [published EXCEPT ![i] = @ \cup {k}]
  /\ UNCHANGED <<retired, cache, permit, cancelled, clock, call, started>>

Withdraw(i, k) ==
  /\ Rotation(i)
  /\ k \in published[i]
  /\ published' = [published EXCEPT ![i] = @ \ {k}]
  /\ retired' = [retired EXCEPT ![i] = @ \cup {k}]
  /\ call' = [h \in Calls |->
       IF call[h].pc # "idle" /\ call[h].token.by = i /\ call[h].token.kid = k
       THEN [call[h] EXCEPT !.excused = TRUE] ELSE call[h]]
  /\ UNCHANGED <<cache, permit, cancelled, clock, started>>

Tick ==
  /\ clock < MaxTime
  /\ clock' = clock + 1
  /\ UNCHANGED <<issuers, cache, permit, cancelled, call, started>>

(* What the code does for a call without an answer from the issuer.        *)
OwnStep(h) ==
  \/ ParseMalformed(h) \/ ParseWithCachedKey(h) \/ ParseWithUnknownKey(h)
  \/ StartRefresh(h) \/ GiveUp(h) \/ RefreshFails(h)

IssuerStep(i) ==
  \/ Replenish(i) \/ BackgroundRefresh(i)
  \/ \E k \in Kids : Publish(i, k) \/ Withdraw(i, k)

(* The bounds of the instance are used up.                                 *)
Quiescent ==
  /\ started = MaxCalls /\ \A h \in Calls : call[h].pc = "idle"
  /\ UNCHANGED vars

Next ==
  \/ \E h \in Calls : OwnStep(h) \/ FinishRefresh(h) \/ \E token \in Tokens : Begin(h, token)
  \/ \E i \in Issuers : IssuerStep(i)
  \/ Close
  \/ Tick
  \/ Quiescent

(* A call is scheduled, its wait has a limit and its fetch a timeout: it   *)
(* needs no answer.  The background refreshers come round every hour, and  *)
(* what they ask for is answered in the end.                               *)
Fairness ==
  /\ \A h \in Calls : WF_vars(OwnStep(h))
  /\ \A i \in Issuers : WF_vars(BackgroundRefresh(i))

Spec == Init /\ [][Next]_vars /\ Fairness
-----------------------------------------------------------------------------
Call == [pc : {"idle", "parse", "wait", "fetch"}, verdict : {"none", "accepted", "rejected"},
         token : Tokens, candidates : UNION {[1..n -> Issuers] : n \in 0..Len(IssuerList)},
         try : 1..Tries, at : 0..MaxTime, excused : BOOLEAN]

(* Every variable has its type; a call under way has an issuer left to ask *)
(* and an audience left to try.                                            *)
TypeOK ==
  /\ published \in [Issuers -> SUBSET Kids]
  /\ retired \in [Issuers -> SUBSET Kids]
  /\ cache \in [Issuers -> SUBSET Kids]
  /\ permit \in [Issuers -> BOOLEAN]
  /\ cancelled \in BOOLEAN
  /\ clock \in 1..MaxTime
  /\ \A h \in Calls :
       /\ call[h] \in Call \cup {NoCall}
       /\ call[h].pc # "idle" => call[h].candidates # << >>
  /\ started \in 0..MaxCalls /\ rotations \in 0..MaxRotations

(* A token that is accepted was signed by the very issuer it names, a      *)
(* configured one, with a key this issuer has published, for an audience   *)
(* that is accepted, and had not expired: routing by the unverified claim, *)
(* trying other issuers and audiences, and refreshing between two tries    *)
(* weaken none of it, even when two issuers use the same key ids, and      *)
(* whoever has signed the tokens that arrive.                              *)
AcceptedIsGenuine ==
  \A h \in Calls : call[h].verdict = "accepted" =>
    LET t == call[h].token IN
    /\ t.by \in Issuers
    /\ t.iss = [name |-> t.by, slash |-> FALSE]
    /\ t.kid \in published[t.by] \cup retired[t.by]
    /\ Audiences = << >> \/ t.aud \cap Range(Audiences) # {}
    /\ t.exp # 0 /\ call[h].at <= t.exp
    /\ t.sub # ""

(* The token of c is one that issuer i stands by, from the start of the    *)
(* call to its verdict, and no refresh was refused to the call.            *)
GoodFor(c, i) ==
  /\ c.token.form = "jwt" /\ c.token.by = i
  /\ ~c.excused
  /\ Audiences = << >> \/ c.token.aud \cap Range(Audiences) # {}
  /\ c.token.exp # 0 /\ c.at <= c.token.exp
  /\ c.token.sub # ""

(* A good token is accepted, also right after its issuer has rotated its   *)
(* keys, whichever audience it is for and whatever other calls do to the   *)
(* cache and the limiter, unless a refresh is refused or fails.            *)
GenuineIsAccepted ==
  \A h \in Calls, i \in Issuers :
    call[h].verdict = "rejected" /\ ExactIssuer(call[h].token.iss, i) => ~GoodFor(call[h], i)

(* Every call returns, even if an issuer never answers and the limiter is  *)
(* never free.                                                             *)
CallsReturn == \A h \in Calls : call[h].pc # "idle" ~> call[h].pc = "idle"

(* No withdrawn key is trusted for ever, though nothing asks for it: again *)
(* and again the caches are clean, as long as the verifier is in use.      *)
WithdrawnKeysAreDropped ==
  []<>(cancelled \/ \A i \in Issuers : cache[i] \cap retired[i] = {})
-----------------------------------------------------------------------------
(* "It validates the bearer token against the matching issuer's JWKS and   *)
(* returns the `sub` claim" (oidc.go:116).  A good token of the issuer it  *)
(* is matched to is accepted.                                              *)
MatchedTokenIsAccepted ==
  \A h \in Calls, i \in Issuers :
    call[h].verdict = "rejected" /\ SameIssuer(call[h].token.iss, i) => ~GoodFor(call[h], i)
=============================================================================
