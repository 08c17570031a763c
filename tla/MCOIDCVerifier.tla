--------------------------- MODULE MCOIDCVerifier ---------------------------
(* Small instances of OIDCVerifier for TLC.                                *)
EXTENDS OIDCVerifier

CONSTANTS a, b, nobody   \* two issuers and a name nobody has configured

TwoIssuers   == <<a, b>>
TwoAudiences == <<"chat", "batch">>

Signed(i, kid) ==
  [form |-> "jwt", iss |-> [name |-> i, slash |-> FALSE], by |-> i, kid |-> kid,
   aud |-> {"chat"}, exp |-> 1, sub |-> "alice"]

(* Tokens with something wrong: that claim to be from a, but are signed    *)
(* with the key that b has under the same id, or by nobody configured here;*)
(* from an issuer unknown here (signed by one that is known);              *)
(* for no accepted audience and without expiry; without subject; and what  *)
(* is no token.                                                            *)
WrongTokens ==
  {[Signed(a, "k1") EXCEPT !.by = b],
   [Signed(a, "k1") EXCEPT !.by = nobody],
   [Signed(b, "k1") EXCEPT !.iss.name = nobody],
   [Signed(a, "k1") EXCEPT !.aud = {"other"}, !.exp = 0],
   [Signed(a, "k1") EXCEPT !.sub = ""],
   [Signed(a, "k1") EXCEPT !.form = "garbage"],
   [Signed(a, "k1") EXCEPT !.form = "empty"]}

(* And good ones under the old and the new key, for either audience.       *)
MixedTokens == {Signed(a, "k1"), [Signed(a, "k2") EXCEPT !.aud = {"batch"}]} \cup WrongTokens

(* Auth servers that put a slash at the end of their name.                 *)
SlashTokens == {Signed(a, "k1"), [Signed(a, "k1") EXCEPT !.iss.slash = TRUE]}
=============================================================================
