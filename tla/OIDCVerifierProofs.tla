------------------------- MODULE OIDCVerifierProofs -------------------------
(***************************************************************************)
(* Theorems about OIDCVerifier for any issuers, audiences, keys and tokens *)
(* and any number of calls.                                                *)
(***************************************************************************)
EXTENDS OIDCVerifier, TLAPS

(***************************************************************************)
(* The inductive invariant.  It knows of a call under way what its tries   *)
(* have found out so far, and of a cached key that its issuer has          *)
(* published it.                                                           *)
(***************************************************************************)
CandidateLists == UNION {[1..n -> Issuers] : n \in 0..Len(IssuerList)}

CachesAreGenuine == \A i \in Issuers : cache[i] \subseteq published[i] \cup retired[i]

(* A token that is exactly for one issuer is checked by that issuer only.  *)
Matched(c) ==
  c.token.form = "jwt" =>
    \A i \in Issuers : ExactIssuer(c.token.iss, i) => c.candidates = <<i>>

(* Its key has been published ever since the call began.                   *)
Current(c) == c.excused \/ VouchedFor(c.token)

(* The tries that are over have failed with the token's own issuer only    *)
(* for a reason: a refresh, the expiry, or the audience.                   *)
Overdue(c, time) == c.excused \/ c.token.exp = 0 \/ time > c.token.exp

Failed(c) ==
  c.token.form = "jwt" /\ c.token.by \in Issuers /\ ExactIssuer(c.token.iss, c.token.by) =>
    Overdue(c, clock) \/ \A j \in 1 .. c.try - 1 : ~AudienceFits(c.token, j)

Pending(c) ==
  /\ c \in Call /\ c.verdict = "none" /\ c.candidates # << >>
  /\ c.token.form # "empty" /\ (c.pc # "parse" => c.token.form = "jwt")
  /\ Matched(c) /\ Current(c) /\ Failed(c)

(* What the verdicts mean.                                                 *)
Genuine(c) ==
  c.verdict = "accepted" =>
    LET t == c.token IN
    /\ t.by \in Issuers
    /\ t.iss = [name |-> t.by, slash |-> FALSE]
    /\ t.kid \in published[t.by] \cup retired[t.by]
    /\ Audiences = << >> \/ t.aud \cap Range(Audiences) # {}
    /\ t.exp # 0 /\ c.at <= t.exp
    /\ t.sub # ""

Justified(c) ==
  c.verdict = "rejected" =>
    \A i \in Issuers : ExactIssuer(c.token.iss, i) => ~GoodFor(c, i)

Judged(c) == c \in Call /\ c.pc = "idle" /\ Genuine(c) /\ Justified(c)

CallOK(c) == c = NoCall \/ (c.pc = "idle" /\ Judged(c)) \/ (c.pc # "idle" /\ Pending(c))

KeysOK ==
  /\ published \in [Issuers -> SUBSET Kids]
  /\ retired \in [Issuers -> SUBSET Kids]
  /\ cache \in [Issuers -> SUBSET Kids]
  /\ permit \in [Issuers -> BOOLEAN]
  /\ CachesAreGenuine
  /\ rotations \in 0..MaxRotations

CallsOK == DOMAIN call = Calls /\ \A h \in Calls : CallOK(call[h])

VerifierInv ==
  KeysOK /\ cancelled \in BOOLEAN /\ clock \in 1..MaxTime /\ started \in 0..MaxCalls /\ CallsOK
-----------------------------------------------------------------------------
(***************************************************************************)
(* Lemmas about the operators.                                             *)
(***************************************************************************)
Stages   == {"idle", "parse", "wait", "fetch"}
Verdicts == {"none", "accepted", "rejected"}
TryRange == 1..Tries
Times    == 0..MaxTime

(* The fields of a call, each with its set.                                *)
LEMMA CallFields ==
  Call = [pc : Stages, verdict : Verdicts, token : Tokens, candidates : CandidateLists,
          try : TryRange, at : Times, excused : BOOLEAN]
BY DEF Call, Stages, Verdicts, TryRange, Times, CandidateLists

(* Every issuer is tried at least once, and once per audience.             *)
LEMMA TriesType == Tries \in Nat \ {0} /\ (Audiences # << >> => Tries = Len(Audiences))
BY ConfigAssumption DEF Tries

(* A token that names no known issuer has no candidates.                   *)
LEMMA EmptyList == << >> \in CandidateLists
<1>1. 0 \in 0..Len(IssuerList)
  BY ConfigAssumption
<1>2. << >> \in [1..0 -> Issuers]
  OBVIOUS
<1>. QED BY <1>1, <1>2 DEF CandidateLists

(* A list of issuers left to ask, and the list without the first of them.  *)
LEMMA ListFacts ==
  ASSUME NEW q \in CandidateLists, q # << >>
  PROVE  /\ q \in Seq(Issuers) /\ Len(q) \in Nat \ {0} /\ Head(q) \in Issuers
         /\ Len(q) # 1 => Tail(q) \in CandidateLists /\ Tail(q) # << >>
<1>1. PICK n \in 0..Len(IssuerList) : q \in [1..n -> Issuers]
  BY DEF CandidateLists
<1>2. n \in Nat /\ Len(IssuerList) \in Nat
  BY <1>1, ConfigAssumption
<1>3. q \in Seq(Issuers) /\ Len(q) = n
  BY <1>1, <1>2
<1>4. n # 0 /\ Head(q) \in Issuers
  BY <1>3
<1>5. ASSUME n # 1
      PROVE  Tail(q) \in [1..n-1 -> Issuers] /\ n - 1 \in 0..Len(IssuerList) /\ Tail(q) # << >>
  <2>1. Tail(q) \in Seq(Issuers) /\ Len(Tail(q)) = n - 1
    BY <1>2, <1>3, <1>4, q # << >>
  <2>2. n - 1 \in 0..Len(IssuerList) /\ n - 1 # 0
    BY <1>1, <1>2, <1>4, <1>5
  <2>3. Tail(q) \in [1..Len(Tail(q)) -> Issuers]
    <3>1. \A s \in Seq(Issuers) : s \in [1..Len(s) -> Issuers]
      OBVIOUS
    <3>. QED BY <2>1, <3>1, Zenon
  <2>4. Tail(q) \in [1..n-1 -> Issuers]
    BY <2>1, <2>3, Zenon
  <2>5. Tail(q) # << >>
    BY <2>1, <2>2
  <2>. QED BY <2>2, <2>4, <2>5, Zenon
<1>6. n # 1 => Tail(q) \in CandidateLists /\ Tail(q) # << >>
  BY <1>5 DEF CandidateLists
<1>. QED BY <1>3, <1>4, <1>6

(* A call begins with somebody to ask, and with nobody but the issuer its  *)
(* token is exactly for.                                                   *)
LEMMA CandidatesFacts ==
  ASSUME NEW token \in Tokens
  PROVE  /\ Candidates(token) \in CandidateLists /\ Candidates(token) # << >>
         /\ token.form = "jwt" =>
              \A i \in Issuers : ExactIssuer(token.iss, i) => Candidates(token) = <<i>>
<1>1. IssuerList \in CandidateLists /\ IssuerList # << >>
  <2>1. IssuerList \in [1..Len(IssuerList) -> Issuers] /\ Len(IssuerList) \in 0..Len(IssuerList)
    BY ConfigAssumption
  <2>. QED BY <2>1, ConfigAssumption DEF CandidateLists
<1>2. ASSUME NEW i \in Issuers PROVE <<i>> \in CandidateLists /\ <<i>> # << >>
  <2>1. 1 \in 0..Len(IssuerList)
    BY ConfigAssumption
  <2>2. <<i>> \in [1..1 -> Issuers]
    OBVIOUS
  <2>. QED BY <2>1, <2>2 DEF CandidateLists
<1>3. ASSUME NEW i \in Issuers, ExactIssuer(token.iss, i)
      PROVE  SameIssuer(token.iss, i) /\ \A j \in Issuers : SameIssuer(token.iss, j) => j = i
  BY <1>3 DEF ExactIssuer, SameIssuer
<1>4. CASE token.form = "jwt" /\ \E i \in Issuers : SameIssuer(token.iss, i)
  <2> DEFINE j == CHOOSE i \in Issuers : SameIssuer(token.iss, i)
  <2>1. j \in Issuers /\ SameIssuer(token.iss, j)
    BY <1>4
  <2>2. Candidates(token) = <<j>>
    BY <1>4 DEF Candidates
  <2>. HIDE DEF j
  <2>. QED BY <1>2, <1>3, <2>1, <2>2
<1>5. CASE ~(token.form = "jwt" /\ \E i \in Issuers : SameIssuer(token.iss, i))
  <2>1. Candidates(token) = IssuerList
    BY <1>5 DEF Candidates
  <2>. QED BY <1>1, <1>3, <1>5, <2>1
<1>. QED BY <1>4, <1>5

(* The call with its verdict.                                              *)
LEMMA VerdictFacts ==
  ASSUME clock \in 1..MaxTime, NEW c \in Call, NEW verdict \in Verdicts,
         NEW v, v = Verdict(c, verdict)
  PROVE  /\ v \in Call
         /\ v.pc = "idle" /\ v.verdict = verdict /\ v.at = clock
         /\ v.token = c.token /\ v.excused = c.excused
<1>1. v = [c EXCEPT !.pc = "idle", !.verdict = verdict, !.at = clock,
                    !.candidates = << >>, !.try = 1]
  BY DEF Verdict
<1>2. "idle" \in Stages /\ 1 \in TryRange /\ clock \in Times
  BY TriesType, ConfigAssumption DEF Stages, TryRange, Times
<1>. QED BY <1>1, <1>2, EmptyList, CallFields

-----------------------------------------------------------------------------
(***************************************************************************)
(* A try.  This is where the verdicts come from.                           *)
(***************************************************************************)
LEMMA AfterTryOK ==
  ASSUME clock \in 1..MaxTime,
         NEW c, Pending(c), NEW i, i = Head(c.candidates), NEW passed \in BOOLEAN,
         passed => /\ c.token.form = "jwt" /\ Passes(c.token, i, c.try)
                   /\ c.token.kid \in published[i] \cup retired[i],
         ~passed => (c.token.form = "jwt" /\ c.token.by \in Issuers
                     /\ ExactIssuer(c.token.iss, c.token.by) =>
                       Overdue(c, clock) \/ ~AudienceFits(c.token, c.try)),
         NEW to, to = AfterTry(c, passed)
  PROVE  CallOK(to)
<1>1. /\ c \in Call /\ c.candidates \in CandidateLists /\ c.candidates # << >>
      /\ c.try \in 1..Tries /\ c.token \in Tokens /\ c.verdict = "none"
  BY CallFields DEF Pending, TryRange
<1>2. /\ c.token.exp \in Nat /\ clock \in Nat
      /\ Tries \in Nat \ {0} /\ (Audiences # << >> => Tries = Len(Audiences))
  BY <1>1, ConfigAssumption, TriesType
<1>3. passed => AudienceFits(c.token, c.try) /\ c.token.by = i /\ ExactIssuer(c.token.iss, i)
                /\ c.token.exp # 0 /\ clock <= c.token.exp /\ i \in Issuers
  BY <1>1, ListFacts DEF Passes, SignedBy
<1>4. CASE ~LastTry(c, passed)
  <2>1. ~passed /\ c.try # Tries /\ to = [c EXCEPT !.pc = "parse", !.try = c.try + 1]
    BY <1>4 DEF LastTry, AfterTry
  <2>2. "parse" \in Stages /\ c.try + 1 \in TryRange
    BY <1>1, <1>2, <2>1 DEF Stages, TryRange
  <2>3. /\ to \in Call /\ to.pc = "parse" /\ to.verdict = "none" /\ to.try = c.try + 1
        /\ to.token = c.token /\ to.candidates = c.candidates /\ to.excused = c.excused
    BY <1>1, <2>1, <2>2, CallFields
  <2>4. Failed(to)
    <3>. SUFFICES ASSUME c.token.form = "jwt", c.token.by \in Issuers,
                         ExactIssuer(c.token.iss, c.token.by),
                         ~Overdue(to, clock), NEW j \in 1 .. to.try - 1
                  PROVE  ~AudienceFits(c.token, j)
      BY <2>3 DEF Failed
    <3>1. Overdue(c, clock) => Overdue(to, clock)
      <4>1. to.token.exp = c.token.exp /\ to.excused = c.excused
        BY <2>3
      <4>. QED BY ONLY <4>1, Zenon DEF Overdue
    <3>2. j \in 1 .. c.try - 1 \/ j = c.try
      BY <1>1, <2>3
    <3>. QED BY <2>1, <3>1, <3>2 DEF Pending, Failed
  <2>. QED BY <1>1, <2>3, <2>4 DEF CallOK, Pending, Matched, Current
<1>5. CASE LastTry(c, passed) /\ passed /\ c.token.sub # ""
  <2>1. to = Verdict(c, "accepted")
    BY <1>5 DEF AfterTry
  <2>2. /\ to \in Call /\ to.pc = "idle" /\ to.verdict = "accepted" /\ to.at = clock
        /\ to.token = c.token /\ to.excused = c.excused
    BY <1>1, <2>1, VerdictFacts DEF Verdicts
  <2>3. Audiences = << >> \/ c.token.aud \cap Range(Audiences) # {}
    <3>1. ASSUME Audiences # << >> PROVE Audiences[c.try] \in Range(Audiences)
      BY <1>1, <1>2, <3>1, ConfigAssumption DEF Range
    <3>. QED BY <1>3, <1>5, <3>1 DEF AudienceFits
  <2>4. c.token.iss = [name |-> c.token.by, slash |-> FALSE]
    BY <1>3, <1>5 DEF ExactIssuer
  <2>5. Genuine(to)
    BY <1>3, <1>5, <2>2, <2>3, <2>4 DEF Genuine
  <2>. QED BY <2>2, <2>5 DEF CallOK, Judged, Justified
<1>6. CASE LastTry(c, passed) /\ ~(passed /\ c.token.sub # "") /\ Len(c.candidates) = 1
  <2>1. to = Verdict(c, "rejected")
    BY <1>6 DEF AfterTry
  <2>2. /\ to \in Call /\ to.pc = "idle" /\ to.verdict = "rejected" /\ to.at = clock
        /\ to.token = c.token /\ to.excused = c.excused
    BY <1>1, <2>1, VerdictFacts DEF Verdicts
  <2>3. ASSUME NEW j \in Issuers, ExactIssuer(c.token.iss, j), GoodFor(to, j) PROVE FALSE
    <3>1. /\ c.token.form = "jwt" /\ c.token.by = j /\ ~c.excused
          /\ Audiences = << >> \/ c.token.aud \cap Range(Audiences) # {}
          /\ c.token.exp # 0 /\ clock <= c.token.exp
          /\ c.token.sub # ""
      BY <2>2, <2>3 DEF GoodFor
    <3>2. ~passed /\ c.try = Tries
      BY <1>6, <3>1 DEF LastTry
    <3>3. ~Overdue(c, clock)
      <4>1. clock <= c.token.exp
        BY <3>1, Zenon
      <4>2. ~(clock > c.token.exp)
        BY <1>2, <4>1
      <4>. QED BY <3>1, <4>2, Zenon DEF Overdue
    <3>4. ASSUME NEW k \in 1..Tries PROVE ~AudienceFits(c.token, k)
      <4>1. k \in 1 .. c.try - 1 \/ k = c.try
        BY <1>2, <3>2
      <4>2. c.token.form = "jwt" /\ c.token.by \in Issuers /\ ExactIssuer(c.token.iss, c.token.by)
        BY <2>3, <3>1
      <4>. QED BY <3>2, <3>3, <4>1, <4>2 DEF Pending, Failed
    <3>5. 1 \in 1..Tries
      BY <1>2
    <3>6. Audiences # << >> /\ \A k \in 1 .. Len(Audiences) : Audiences[k] \notin c.token.aud
      BY <1>2, <3>4, <3>5 DEF AudienceFits
    <3>7. \A x \in Range(Audiences) : x \notin c.token.aud
      BY <3>6, ConfigAssumption DEF Range
    <3>. QED BY <3>1, <3>6, <3>7
  <2>4. Justified(to) /\ Genuine(to)
    BY <2>2, <2>3 DEF Justified, Genuine
  <2>. QED BY <2>2, <2>4 DEF CallOK, Judged
<1>7. CASE LastTry(c, passed) /\ ~(passed /\ c.token.sub # "") /\ Len(c.candidates) # 1
  <2>1. to = [c EXCEPT !.pc = "parse", !.try = 1, !.candidates = Tail(c.candidates)]
    BY <1>7 DEF AfterTry
  <2>2. Tail(c.candidates) \in CandidateLists /\ Tail(c.candidates) # << >>
    BY <1>1, <1>7, ListFacts
  <2>3. "parse" \in Stages /\ 1 \in TryRange
    BY <1>2 DEF Stages, TryRange
  <2>4. /\ to \in Call /\ to.pc = "parse" /\ to.verdict = "none" /\ to.try = 1
        /\ to.token = c.token /\ to.candidates # << >> /\ to.excused = c.excused
    BY <1>1, <2>1, <2>2, <2>3, CallFields
  <2>5. c.token.form = "jwt" => \A j \in Issuers : ~ExactIssuer(c.token.iss, j)
    <3>1. \A j \in Issuers : Len(<<j>>) = 1
      OBVIOUS
    <3>. QED BY <1>7, <3>1 DEF Pending, Matched
  <2>6. Matched(to) /\ Failed(to)
    BY <1>2, <2>4, <2>5 DEF Matched, Failed
  <2>. QED BY <2>4, <2>6 DEF CallOK, Pending, Current
<1>. QED BY <1>4, <1>5, <1>6, <1>7

-----------------------------------------------------------------------------
(***************************************************************************)
(* What a step does to the calls.                                          *)
(***************************************************************************)
(* A call that goes on, or has its verdict, is not disturbed by the rest:  *)
(* keys that have been published stay known, and time only goes on.        *)
LEMMA CallStays ==
  ASSUME NEW c, CallOK(c), clock \in Nat, clock' \in Nat, clock <= clock',
         KeysOK,
         \A i \in Issuers : published[i] \cup retired[i] \subseteq published'[i] \cup retired'[i],
         c.pc # "idle" =>
           c.excused \/ (VouchedFor(c.token) => c.token.kid \in published'[c.token.by])
  PROVE  CallOK(c)'
<1>1. CASE c = NoCall
  BY <1>1 DEF CallOK
<1>2. CASE c.pc = "idle" /\ Judged(c)
  <2>2. Genuine(c)'
    BY <1>2 DEF Judged, Genuine
  <2>3. Justified(c)'
    BY <1>2 DEF Judged, Justified
  <2>. QED BY <1>2, <2>2, <2>3 DEF Judged, CallOK
<1>3. CASE c.pc # "idle" /\ Pending(c)
  <2>1. c.token.exp \in Nat
    BY <1>3, CallFields, ConfigAssumption DEF Pending
  <2>2. Current(c)'
    BY <1>3 DEF Pending, Current, VouchedFor
  <2>3. clock > c.token.exp => clock' > c.token.exp
    BY <2>1
  <2>4. Overdue(c, clock) => Overdue(c, clock')
    BY <2>3, Zenon DEF Overdue
  <2>5. Failed(c)'
    BY <1>3, <2>4, Zenon DEF Pending, Failed
  <2>6. Matched(c)'
    BY <1>3 DEF Pending, Matched
  <2>. QED BY <1>3, <2>2, <2>5, <2>6 DEF Pending, CallOK
<1>. QED BY <1>1, <1>2, <1>3 DEF CallOK

(* The calls are fine if each of them is.                                  *)
LEMMA CallsLater ==
  ASSUME DOMAIN call' = Calls, \A h \in Calls : \A c : c = call'[h] => CallOK(c)'
  PROVE  CallsOK'
<1>1. ASSUME NEW h \in Calls PROVE CallOK(call[h])'
  <2>1. PICK c : c = call'[h]
    OBVIOUS
  <2>2. CallOK(c)'
    BY <2>1
  <2>. QED BY <2>1, <2>2
         DEF CallOK, Judged, Pending, Genuine, Justified, Matched, Current, VouchedFor, Failed
<1>. QED BY <1>1 DEF CallsOK

(* A step of one call that changes the keys of no issuer.                  *)
LEMMA GoesOK ==
  ASSUME VerifierInv, NEW h \in Calls, NEW to, CallOK(to),
         call' = [call EXCEPT ![h] = to], UNCHANGED <<published, retired, clock>>
  PROVE  CallsOK'
<1>1. /\ call' = [call EXCEPT ![h] = to]
      /\ published' = published /\ retired' = retired /\ clock' = clock
  OBVIOUS
<1>2. clock \in Nat /\ KeysOK /\ DOMAIN call = Calls /\ \A g \in Calls : CallOK(call[g])
  BY DEF VerifierInv, CallsOK
<1>3. ASSUME NEW c, CallOK(c) PROVE CallOK(c)'
  BY <1>1, <1>2, <1>3, CallStays DEF VouchedFor
<1>4. DOMAIN call' = Calls
  BY <1>1, <1>2
<1>5. ASSUME NEW g \in Calls, NEW c, c = call'[g] PROVE CallOK(c)'
  <2>1. c = to \/ c = call[g]
    BY <1>1, <1>2, <1>5
  <2>. QED BY <1>2, <1>3, <2>1
<1>. QED BY <1>4, <1>5, CallsLater

(* A step of the issuers, the refreshers or the clock.                     *)
LEMMA CallsStay ==
  ASSUME VerifierInv, call' = call, clock' \in Nat, clock <= clock',
         \A i \in Issuers : published[i] \subseteq published'[i] /\ retired[i] \subseteq retired'[i]
  PROVE  CallsOK'
<1>1. clock \in Nat /\ KeysOK /\ DOMAIN call = Calls /\ \A g \in Calls : CallOK(call[g])
  BY DEF VerifierInv, CallsOK
<1>2. ASSUME NEW c, CallOK(c) PROVE CallOK(c)'
  BY <1>1, <1>2, CallStays DEF VouchedFor
<1>. QED BY <1>1, <1>2, CallsLater

(* What is known of the call that makes a step of its own.                 *)
LEMMA Underway ==
  ASSUME VerifierInv, NEW h \in Calls, call[h].pc # "idle"
  PROVE  Pending(call[h]) /\ Asked(h) \in Issuers /\ Asked(h) = Head(call[h].candidates)
<1>1. Pending(call[h])
  BY DEF VerifierInv, CallsOK, CallOK, NoCall
<1>2. call[h].candidates \in CandidateLists /\ call[h].candidates # << >>
  BY <1>1, CallFields DEF Pending
<1>. QED BY <1>1, <1>2, ListFacts DEF Asked

(* A call to which something was refused.                                  *)
LEMMA ExcuseOK ==
  ASSUME NEW c, Pending(c), NEW e, e = [c EXCEPT !.excused = TRUE]
  PROVE  Pending(e) /\ e.excused /\ e.pc = c.pc /\ e.candidates = c.candidates
<1>1. TRUE \in BOOLEAN
  OBVIOUS
<1>2. /\ e \in Call /\ e.excused = TRUE /\ e.pc = c.pc /\ e.candidates = c.candidates
      /\ e.verdict = c.verdict /\ e.token = c.token /\ e.try = c.try
  BY <1>1, CallFields DEF Pending
<1>. QED BY <1>2 DEF Pending, Matched, Current, Failed, Overdue
-----------------------------------------------------------------------------
(***************************************************************************)
(* The actions, one by one.                                                *)
(***************************************************************************)
LEMMA InitVerifier == Init => VerifierInv
<1>. SUFFICES ASSUME Init PROVE VerifierInv
  OBVIOUS
<1>1. cache \in [Issuers -> SUBSET Kids] /\ \A i \in Issuers : cache[i] \subseteq FirstKids
  BY ConfigAssumption DEF Init
<1>2. KeysOK
  BY <1>1, ConfigAssumption DEF Init, KeysOK, CachesAreGenuine
<1>3. CallsOK
  BY DEF Init, CallsOK, CallOK
<1>4. 1 \in 1..MaxTime /\ 0 \in 0..MaxCalls
  BY ConfigAssumption
<1>. QED BY <1>2, <1>3, <1>4 DEF Init, VerifierInv

(* A call that begins has tried nothing yet; an empty token is rejected.   *)
LEMMA BeginOK ==
  ASSUME VerifierInv, NEW h \in Calls, NEW token \in Tokens, Begin(h, token)
  PROVE  CallsOK' /\ started' \in 0..MaxCalls
<1> DEFINE excused == ~VouchedFor(token)
           new == [pc |-> "parse", verdict |-> "none", token |-> token,
                   candidates |-> Candidates(token), try |-> 1, at |-> 0, excused |-> excused]
           to == IF token.form = "empty" THEN Verdict(new, "rejected") ELSE new
<1>1. call' = [call EXCEPT ![h] = to] /\ UNCHANGED <<published, retired, clock>>
  BY DEF Begin, issuers
<1>2. clock \in 1..MaxTime
  BY DEF VerifierInv
<1>3. /\ new \in Call /\ new.pc = "parse" /\ new.verdict = "none" /\ new.token = token
      /\ new.candidates = Candidates(token) /\ new.try = 1 /\ new.excused = excused
  <2>1. "parse" \in Stages /\ "none" \in Verdicts /\ 1 \in TryRange /\ 0 \in Times
    BY TriesType, ConfigAssumption DEF Stages, Verdicts, TryRange, Times
  <2>2. excused \in BOOLEAN /\ Candidates(token) \in CandidateLists
    BY CandidatesFacts
  <2>. HIDE DEF excused
  <2>. QED BY <2>1, <2>2, CallFields
<1>4. ASSUME token.form = "empty" PROVE CallsOK'
  <2>1. to = Verdict(new, "rejected") /\ "rejected" \in Verdicts
    BY <1>4 DEF Verdicts
  <2>2. CallOK(to)
    <3>. HIDE DEF new, to
    <3>1. to \in Call /\ to.pc = "idle" /\ to.verdict = "rejected" /\ to.token = token
      BY <1>2, <1>3, <2>1, VerdictFacts
    <3>. QED BY <1>4, <3>1 DEF CallOK, Judged, Genuine, Justified, GoodFor
  <2>. HIDE DEF to
  <2>. QED BY <1>1, <2>2, GoesOK
<1>5. ASSUME token.form # "empty" PROVE CallsOK'
  <2>1. to = new
    BY <1>5
  <2>2. Current(new)
    BY <1>3 DEF Current
  <2>3. Matched(new) /\ new.candidates # << >>
    <3>. HIDE DEF new
    <3>. QED BY <1>3, CandidatesFacts DEF Matched
  <2>4. Failed(new)
    <3>. HIDE DEF new
    <3>. QED BY <1>3 DEF Failed
  <2>5. CallOK(new)
    <3>. HIDE DEF new
    <3>. QED BY <1>3, <1>5, <2>2, <2>3, <2>4 DEF CallOK, Pending
  <2>. HIDE DEF to, new
  <2>. QED BY <1>1, <2>1, <2>5, GoesOK
<1>6. started' \in 0..MaxCalls
  BY ConfigAssumption DEF VerifierInv, Begin
<1>. QED BY <1>4, <1>5, <1>6

(* A try that comes to an end.                                             *)
LEMMA TryEnds ==
  ASSUME VerifierInv, NEW h \in Calls, NEW from, from # "idle", NEW passed \in BOOLEAN,
         Goes(h, from, AfterTry(call[h], passed)),
         passed => /\ call[h].token.form = "jwt" /\ Passes(call[h].token, Asked(h), call[h].try)
                   /\ call[h].token.kid \in published[Asked(h)] \cup retired[Asked(h)],
         ~passed => (call[h].token.form = "jwt" /\ call[h].token.by \in Issuers
                     /\ ExactIssuer(call[h].token.iss, call[h].token.by) =>
                       Overdue(call[h], clock) \/ ~AudienceFits(call[h].token, call[h].try))
  PROVE  CallsOK'
<1>1. PICK c, to : c = call[h] /\ to = AfterTry(c, passed)
  OBVIOUS
<1>2. c.pc # "idle" /\ call' = [call EXCEPT ![h] = to] /\ UNCHANGED <<published, retired, clock>>
  BY <1>1 DEF Goes, issuers
<1>3. Pending(c) /\ Asked(h) = Head(c.candidates)
  BY <1>1, <1>2, Underway
<1>4. clock \in 1..MaxTime
  BY DEF VerifierInv
<1>5. CallOK(to)
  BY <1>1, <1>3, <1>4, AfterTryOK
<1>. QED BY <1>2, <1>5, GoesOK

(* A try that has to wait, for the limiter or for the issuer.              *)
LEMMA WaitingOK ==
  ASSUME VerifierInv, NEW h \in Calls, Pending(call[h]), call[h].token.form = "jwt",
         NEW from, NEW stage \in {"wait", "fetch"}, Goes(h, from, [call[h] EXCEPT !.pc = stage])
  PROVE  CallsOK'
<1>1. PICK c, to : c = call[h] /\ to = [c EXCEPT !.pc = stage]
  OBVIOUS
<1>2. call' = [call EXCEPT ![h] = to] /\ UNCHANGED <<published, retired, clock>>
  BY <1>1 DEF Goes, issuers
<1>3. /\ to \in Call /\ to.pc = stage /\ to.verdict = c.verdict /\ to.token = c.token
      /\ to.candidates = c.candidates /\ to.try = c.try /\ to.excused = c.excused
  BY <1>1, CallFields DEF Pending, Stages
<1>4. CallOK(to)
  BY <1>1, <1>3 DEF CallOK, Pending, Matched, Current, Failed, Overdue
<1>. QED BY <1>2, <1>4, GoesOK

(* A token that is exactly for the issuer that signed it is checked by     *)
(* that issuer; so a try that does not pass tells why.                     *)
LEMMA TryFails ==
  ASSUME NEW c, Pending(c), NEW i, i = Head(c.candidates), ~Passes(c.token, i, c.try),
         clock \in Nat, c.token.form = "jwt", c.token.by \in Issuers,
         ExactIssuer(c.token.iss, c.token.by)
  PROVE  i = c.token.by /\ (Overdue(c, clock) \/ ~AudienceFits(c.token, c.try))
<1>1. c.token.exp \in Nat
  BY CallFields, ConfigAssumption DEF Pending
<1>2. i = c.token.by
  BY DEF Pending, Matched
<1>3. c.token.exp = 0 \/ ~(clock <= c.token.exp) \/ ~AudienceFits(c.token, c.try)
  BY <1>2 DEF Passes, SignedBy
<1>4. ~(clock <= c.token.exp) => clock > c.token.exp
  BY <1>1
<1>. QED BY <1>2, <1>3, <1>4, Zenon DEF Overdue

(* The tries of jwt.Parse.                                                 *)
LEMMA ParseOK ==
  ASSUME VerifierInv, NEW h \in Calls,
         ParseMalformed(h) \/ ParseWithCachedKey(h) \/ ParseWithUnknownKey(h)
  PROVE  CallsOK'
<1>1. clock \in Nat
  BY DEF VerifierInv
<1>2. call[h].pc = "parse" /\ call[h].pc # "idle"
  BY DEF ParseMalformed, ParseWithCachedKey, ParseWithUnknownKey, Goes
<1>3. Pending(call[h]) /\ Asked(h) \in Issuers /\ Asked(h) = Head(call[h].candidates)
  BY <1>2, Underway
<1>4. CASE ParseMalformed(h)
  <2>1. PICK passed \in BOOLEAN : passed = FALSE
    OBVIOUS
  <2>2. Goes(h, "parse", AfterTry(call[h], passed))
    BY <1>4, <2>1 DEF ParseMalformed
  <2>3. call[h].token.form # "jwt"
    BY <1>4 DEF ParseMalformed
  <2>. QED BY <2>1, <2>2, <2>3, TryEnds
<1>5. CASE ParseWithCachedKey(h)
  <2>1. PICK passed \in BOOLEAN : passed = Passes(call[h].token, Asked(h), call[h].try)
    BY DEF Passes, SignedBy
  <2>2. Goes(h, "parse", AfterTry(call[h], passed)) /\ call[h].token.form = "jwt"
    BY <1>5, <2>1 DEF ParseWithCachedKey
  <2>3. call[h].token.kid \in published[Asked(h)] \cup retired[Asked(h)]
    BY <1>3, <1>5 DEF ParseWithCachedKey, VerifierInv, KeysOK, CachesAreGenuine
  <2>4. ~passed => (call[h].token.by \in Issuers /\ ExactIssuer(call[h].token.iss, call[h].token.by) =>
                     Overdue(call[h], clock) \/ ~AudienceFits(call[h].token, call[h].try))
    BY <1>1, <1>3, <2>1, <2>2, TryFails
  <2>. QED BY <2>1, <2>2, <2>3, <2>4, TryEnds
<1>6. CASE ParseWithUnknownKey(h)
  BY <1>3, <1>6, WaitingOK DEF ParseWithUnknownKey
<1>. QED BY <1>4, <1>5, <1>6

(* The refresh of the cached set, which may be refused to the call.        *)
LEMMA RefreshOK ==
  ASSUME VerifierInv, NEW h \in Calls,
         StartRefresh(h) \/ GiveUp(h) \/ RefreshFails(h) \/ FinishRefresh(h)
  PROVE  CallsOK'
<1>1. clock \in Nat /\ clock \in 1..MaxTime
  BY DEF VerifierInv
<1>2. call[h].pc \in {"wait", "fetch"}
  BY DEF StartRefresh, GiveUp, RefreshFails, FinishRefresh, Goes
<1>3. Pending(call[h]) /\ Asked(h) \in Issuers /\ Asked(h) = Head(call[h].candidates)
  BY <1>2, Underway
<1>4. call[h].token.form = "jwt"
  BY <1>2, <1>3 DEF Pending
<1>5. CASE StartRefresh(h)
  BY <1>3, <1>4, <1>5, WaitingOK DEF StartRefresh
<1>6. CASE GiveUp(h) \/ RefreshFails(h)
  <2>1. PICK passed \in BOOLEAN : passed = FALSE
    OBVIOUS
  <2>2. PICK e, to : e = [call[h] EXCEPT !.excused = TRUE] /\ to = AfterTry(e, passed)
    OBVIOUS
  <2>3. call' = [call EXCEPT ![h] = to] /\ UNCHANGED <<published, retired, clock>>
    BY <1>6, <2>1, <2>2 DEF GiveUp, RefreshFails, Refused, Goes, issuers
  <2>4. Pending(e) /\ e.excused
    BY <1>3, <2>2, ExcuseOK
  <2>5. CallOK(to)
    <3>1. Overdue(e, clock)
      BY <2>4 DEF Overdue
    <3>. QED BY <1>1, <2>1, <2>2, <2>4, <3>1, AfterTryOK
  <2>. QED BY <2>3, <2>5, GoesOK
<1>7. CASE FinishRefresh(h)
  <2>1. PICK passed \in BOOLEAN :
          passed = (/\ call[h].token.kid \in published[Asked(h)]
                    /\ Passes(call[h].token, Asked(h), call[h].try))
    OBVIOUS
  <2>2. Goes(h, "fetch", AfterTry(call[h], passed))
    BY <1>7, <2>1 DEF FinishRefresh
  <2>3. ASSUME ~passed, call[h].token.by \in Issuers,
               ExactIssuer(call[h].token.iss, call[h].token.by)
        PROVE  Overdue(call[h], clock) \/ ~AudienceFits(call[h].token, call[h].try)
    <3>1. CASE ~Passes(call[h].token, Asked(h), call[h].try)
      BY <1>1, <1>3, <1>4, <2>3, <3>1, TryFails
    <3>2. CASE call[h].token.kid \notin published[Asked(h)]
      <4>1. call[h].candidates = <<call[h].token.by>>
        BY <1>3, <1>4, <2>3 DEF Pending, Matched
      <4>2. Asked(h) = call[h].token.by
        BY <1>3, <4>1
      <4>3. call[h].excused
        BY <1>3, <3>2, <4>2 DEF Pending, Current, VouchedFor
      <4>. QED BY <4>3 DEF Overdue
    <3>. QED BY <2>1, <2>3, <3>1, <3>2
  <2>. QED BY <1>4, <2>1, <2>2, <2>3, TryEnds
<1>. QED BY <1>5, <1>6, <1>7

(* A key is withdrawn: the calls that need it, and only those, are excused. *)
LEMMA WithdrawOK ==
  ASSUME VerifierInv, NEW i \in Issuers, NEW k \in Kids, Withdraw(i, k)
  PROVE  CallsOK'
<1>1. /\ published' = [published EXCEPT ![i] = @ \ {k}]
      /\ retired' = [retired EXCEPT ![i] = @ \cup {k}]
      /\ clock' = clock /\ DOMAIN call' = Calls
  BY DEF Withdraw
<1>2. clock \in Nat /\ KeysOK /\ DOMAIN call = Calls /\ \A g \in Calls : CallOK(call[g])
  BY DEF VerifierInv, CallsOK
<1>3. \A j \in Issuers : published[j] \cup retired[j] \subseteq published'[j] \cup retired'[j]
  BY <1>1, <1>2 DEF KeysOK
<1>4. ASSUME NEW g \in Calls, NEW c, c = call'[g] PROVE CallOK(c)'
  <2>1. PICK d : d = call[g]
    OBVIOUS
  <2>2. CASE d.pc # "idle" /\ d.token.by = i /\ d.token.kid = k
    <3>1. c = [d EXCEPT !.excused = TRUE]
      BY <1>4, <2>1, <2>2 DEF Withdraw
    <3>2. Pending(d)
      BY <1>2, <2>1, <2>2 DEF CallOK, NoCall
    <3>3. Pending(c) /\ c.excused /\ c.pc # "idle"
      BY <2>2, <3>1, <3>2, ExcuseOK
    <3>. QED BY <1>1, <1>2, <1>3, <3>3, CallStays DEF CallOK
  <2>3. CASE ~(d.pc # "idle" /\ d.token.by = i /\ d.token.kid = k)
    <3>1. c = d /\ CallOK(c)
      BY <1>2, <1>4, <2>1, <2>3 DEF Withdraw
    <3>3. c.pc # "idle" => (VouchedFor(c.token) => c.token.kid \in published'[c.token.by])
      BY <1>1, <1>2, <2>3, <3>1 DEF KeysOK, VouchedFor
    <3>. QED BY <1>1, <1>2, <1>3, <3>1, <3>3, CallStays
  <2>. QED BY <2>2, <2>3
<1>. QED BY <1>1, <1>4, CallsLater

(* What the issuers do, and what the refreshers take from them.            *)
LEMMA IssuerStepOK ==
  ASSUME VerifierInv, NEW i \in Issuers, IssuerStep(i)
  PROVE  VerifierInv'
<1>1. /\ KeysOK /\ CachesAreGenuine /\ clock \in 1..MaxTime /\ clock \in Nat /\ cancelled \in BOOLEAN
      /\ started \in 0..MaxCalls /\ clock <= clock
  BY DEF VerifierInv, KeysOK
<1>2. CASE Replenish(i)
  <2>1. KeysOK' /\ UNCHANGED <<published, retired, call, clock, started, cancelled>>
    BY <1>1, <1>2 DEF KeysOK, CachesAreGenuine, Replenish, issuers
  <2>2. CallsOK'
    BY <1>1, <2>1, CallsStay
  <2>. QED BY <1>1, <2>1, <2>2 DEF VerifierInv
<1>3. CASE BackgroundRefresh(i)
  <2>1. KeysOK' /\ UNCHANGED <<published, retired, call, clock, started, cancelled>>
    BY <1>1, <1>3 DEF KeysOK, CachesAreGenuine, BackgroundRefresh, issuers
  <2>2. CallsOK'
    BY <1>1, <2>1, CallsStay
  <2>. QED BY <1>1, <2>1, <2>2 DEF VerifierInv
<1>4. ASSUME NEW k \in Kids, Rotation(i) PROVE rotations' \in 0..MaxRotations
  BY <1>1, <1>4, ConfigAssumption DEF Rotation, KeysOK
<1>5. ASSUME NEW k \in Kids, Publish(i, k) PROVE VerifierInv'
  <2>1. /\ published' = [published EXCEPT ![i] = @ \cup {k}]
        /\ UNCHANGED <<retired, cache, permit, call, clock, started, cancelled>>
        /\ rotations' \in 0..MaxRotations
    BY <1>4, <1>5 DEF Publish
  <2>2. KeysOK'
    BY <1>1, <2>1 DEF KeysOK, CachesAreGenuine
  <2>3. CallsOK'
    <3>1. \A j \in Issuers : published[j] \subseteq published'[j]
      BY <1>1, <2>1 DEF KeysOK
    <3>. QED BY <1>1, <2>1, <3>1, CallsStay
  <2>. QED BY <1>1, <2>1, <2>2, <2>3 DEF VerifierInv
<1>6. ASSUME NEW k \in Kids, Withdraw(i, k) PROVE VerifierInv'
  <2>1. /\ published' = [published EXCEPT ![i] = @ \ {k}]
        /\ retired' = [retired EXCEPT ![i] = @ \cup {k}]
        /\ UNCHANGED <<cache, permit, clock, started, cancelled>>
        /\ rotations' \in 0..MaxRotations
    BY <1>4, <1>6 DEF Withdraw
  <2>2. KeysOK'
    BY <1>1, <2>1 DEF KeysOK, CachesAreGenuine
  <2>. QED BY <1>1, <1>6, <2>1, <2>2, WithdrawOK DEF VerifierInv
<1>. QED BY <1>2, <1>3, <1>5, <1>6 DEF IssuerStep

(* What a call does.                                                       *)
LEMMA CallStepOK ==
  ASSUME VerifierInv, NEW h \in Calls,
         OwnStep(h) \/ FinishRefresh(h) \/ \E token \in Tokens : Begin(h, token)
  PROVE  VerifierInv'
<1>1. /\ KeysOK /\ CachesAreGenuine /\ clock \in 1..MaxTime /\ cancelled \in BOOLEAN
      /\ started \in 0..MaxCalls
  BY DEF VerifierInv, KeysOK
<1>2. CASE \E token \in Tokens : Begin(h, token)
  <2>1. PICK token \in Tokens : Begin(h, token)
    BY <1>2
  <2>2. UNCHANGED <<published, retired, rotations, cache, permit, cancelled, clock>>
    BY <2>1 DEF Begin, issuers
  <2>3. KeysOK'
    BY <1>1, <2>2 DEF KeysOK, CachesAreGenuine
  <2>. QED BY <1>1, <2>1, <2>2, <2>3, BeginOK DEF VerifierInv
<1>3. CASE OwnStep(h) \/ FinishRefresh(h)
  <2>1. UNCHANGED <<published, retired, rotations, cancelled, clock, started>>
    BY <1>3 DEF OwnStep, ParseMalformed, ParseWithCachedKey, ParseWithUnknownKey, StartRefresh,
                GiveUp, RefreshFails, FinishRefresh, Goes, issuers
  <2>2. CallsOK'
    BY <1>3, ParseOK, RefreshOK DEF OwnStep
  <2>3. CASE StartRefresh(h)
    <3>1. KeysOK'
      BY <1>1, <2>1, <2>3 DEF StartRefresh, KeysOK, CachesAreGenuine
    <3>. QED BY <1>1, <2>1, <2>2, <3>1 DEF VerifierInv
  <2>4. CASE FinishRefresh(h)
    <3>1. Asked(h) \in Issuers
      BY <2>4, Underway DEF FinishRefresh, Goes
    <3>2. cache' = [cache EXCEPT ![Asked(h)] = published[Asked(h)]] /\ permit' = permit
      BY <2>4 DEF FinishRefresh
    <3>3. KeysOK'
      BY <1>1, <2>1, <3>1, <3>2 DEF KeysOK, CachesAreGenuine
    <3>. QED BY <1>1, <2>1, <2>2, <3>3 DEF VerifierInv
  <2>5. CASE UNCHANGED <<cache, permit>>
    <3>1. KeysOK'
      BY <1>1, <2>1, <2>5 DEF KeysOK, CachesAreGenuine
    <3>. QED BY <1>1, <2>1, <2>2, <3>1 DEF VerifierInv
  <2>. QED BY <1>3, <2>3, <2>4, <2>5
       DEF OwnStep, ParseMalformed, ParseWithCachedKey, ParseWithUnknownKey, GiveUp, RefreshFails
<1>. QED BY <1>2, <1>3

(* VerifierInv is inductive.                                               *)
LEMMA StepVerifier == VerifierInv /\ [Next]_vars => VerifierInv'
<1>. SUFFICES ASSUME VerifierInv, [Next]_vars PROVE VerifierInv'
  OBVIOUS
<1>1. /\ KeysOK /\ CachesAreGenuine /\ clock \in 1..MaxTime /\ clock \in Nat /\ cancelled \in BOOLEAN
      /\ started \in 0..MaxCalls
  BY DEF VerifierInv, KeysOK
<1>2. ASSUME /\ UNCHANGED <<published, retired, rotations, cache, permit, call, started>>
             /\ clock' \in 1..MaxTime /\ clock <= clock' /\ cancelled' \in BOOLEAN
      PROVE  VerifierInv'
  <2>1. KeysOK'
    BY <1>1, <1>2 DEF KeysOK, CachesAreGenuine
  <2>2. CallsOK'
    BY <1>1, <1>2, CallsStay
  <2>. QED BY <1>1, <1>2, <2>1, <2>2 DEF VerifierInv
<1>3. CASE Tick
  BY <1>1, <1>2, <1>3, ConfigAssumption DEF Tick, issuers
<1>4. CASE Close
  BY <1>1, <1>2, <1>4 DEF Close, issuers
<1>5. CASE UNCHANGED vars
  BY <1>1, <1>2, <1>5 DEF vars, issuers
<1>. QED BY <1>3, <1>4, <1>5, CallStepOK, IssuerStepOK DEF Next, Quiescent

(* So the invariant always holds.                                          *)
LEMMA VerifierCorrect == Spec => []VerifierInv
BY InitVerifier, StepVerifier, PTL DEF Spec
-----------------------------------------------------------------------------
(***************************************************************************)
(* The theorems.                                                           *)
(***************************************************************************)
(* Every variable keeps its type, and a call under way has somebody left   *)
(* to ask.                                                                 *)
THEOREM TypeCorrect == Spec => []TypeOK
<1>1. ASSUME NEW c, CallOK(c)
      PROVE  c \in Call \cup {NoCall} /\ (c.pc # "idle" => c.candidates # << >>)
  BY <1>1 DEF CallOK, Judged, Pending, NoCall
<1>2. VerifierInv => TypeOK
  BY <1>1 DEF VerifierInv, KeysOK, CallsOK, TypeOK
<1>. QED BY <1>2, VerifierCorrect, PTL

(* No token is accepted that its own issuer would not vouch for, whatever  *)
(* the keys, the caches and the other issuers are at.                      *)
THEOREM AcceptedCorrect == Spec => []AcceptedIsGenuine
<1>1. ASSUME NEW c, CallOK(c) PROVE Genuine(c)
  <2>1. Judged(c) \/ c.verdict = "none"
    BY <1>1 DEF CallOK, Pending, NoCall
  <2>. QED BY <2>1 DEF Judged, Genuine
<1>2. ASSUME VerifierInv, NEW h \in Calls PROVE Genuine(call[h])
  BY <1>1, <1>2 DEF VerifierInv, CallsOK
<1>3. VerifierInv => AcceptedIsGenuine
  BY <1>2 DEF AcceptedIsGenuine, Genuine
<1>. QED BY <1>3, VerifierCorrect, PTL

(* No token is rejected that the issuer it is exactly for vouches for all  *)
(* the time, unless a refresh was refused to the call.                     *)
THEOREM GenuineCorrect == Spec => []GenuineIsAccepted
<1>1. ASSUME NEW c, CallOK(c) PROVE Justified(c)
  BY <1>1 DEF CallOK, Judged, Pending, NoCall, Justified
<1>2. ASSUME VerifierInv, NEW h \in Calls PROVE Justified(call[h])
  BY <1>1, <1>2 DEF VerifierInv, CallsOK
<1>3. VerifierInv => GenuineIsAccepted
  BY <1>2 DEF GenuineIsAccepted, Justified
<1>. QED BY <1>3, VerifierCorrect, PTL
=============================================================================
