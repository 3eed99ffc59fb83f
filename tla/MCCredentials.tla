---------------------------- MODULE MCCredentials ----------------------------
(* WebBotAuth, OidcFederation and JoseProfile side by side: a behaviour is   *)
(* one of one of them.                                                       *)
EXTENDS WebBotAuth, OidcFederation, JoseProfile, TLC

VARIABLE profile

MCInit ==
  /\ profile \in {"web-bot-auth", "oidc", "jose"}
  /\ WbaInit /\ OidcInit /\ JoseInit
  /\ profile # "oidc" => defaults = NoMint.options

MCNext ==
  /\ UNCHANGED profile
  /\ \/ profile = "web-bot-auth" /\ WbaNext /\ UNCHANGED <<oidcVars, joseVars>>
     \/ profile = "oidc" /\ OidcNext /\ UNCHANGED <<wbaVars, joseVars>>
     \/ profile = "jose" /\ JoseNext /\ UNCHANGED <<wbaVars, oidcVars>>

MCSpec == MCInit /\ [][MCNext]_<<profile, wbaVars, oidcVars, joseVars>>

Symmetry ==
  Permutations(Domains) \cup Permutations(Verifications) \cup Permutations(Origins)
=============================================================================
