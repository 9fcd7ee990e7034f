------------------------------- MODULE MCAuth -------------------------------
(***************************************************************************)
(* An instance, two browsers, two logins and the tokens of API clients;    *)
(* each way configure_auth can go, once.                                   *)
(***************************************************************************)
EXTENDS Auth, TLC

D(mode, env, token, issuer, own, fallback, groups) ==
  [mode |-> mode, env |-> env, token |-> token, issuer |-> issuer, secret |-> own,
   fallback |-> fallback, groups |-> groups]
MCDeployments ==
  {D("none", "development", "unset", FALSE, FALSE, FALSE, FALSE),
   D("none", "staging", "unset", FALSE, FALSE, FALSE, FALSE),
   D("bearer", "production", "long", FALSE, FALSE, FALSE, FALSE),
   D("bearer", "production", "short", FALSE, FALSE, FALSE, FALSE),
   D("oidc", "production", "unset", TRUE, FALSE, TRUE, FALSE),
   D("oidc", "production", "short", TRUE, TRUE, TRUE, FALSE),
   D("oidc", "production", "short", TRUE, FALSE, FALSE, TRUE)}
MCSymmetry ==
  Permutations(Reqs) \cup Permutations(Instances) \cup Permutations(Browsers)
    \cup Permutations(Logins)
=============================================================================
