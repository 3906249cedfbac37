------------------------- MODULE MCLicenseVerifier -------------------------
(* LicenseVerifier with one credential per verifier, an unclaimed download *)
(* key, and a player who claims to be somebody else at Oculus.             *)
EXTENDS LicenseVerifier

MCAccount == [s \in Secret |-> IF s = "key" THEN NoUser ELSE IF s = "nonce" THEN "v" ELSE "u"]

Cred(m, s, c) == [method |-> m, secret |-> s, claims |-> c]

MCCredential ==
  {Cred("steam", "ticket", NoUser), Cred("itch.apikey", "ticket", NoUser),
   Cred("itch.downloadkey", "ticket", NoUser), Cred("itch.downloadkey", "key", NoUser),
   Cred("oculus", "nonce", "v"), Cred("oculus", "nonce", "u")}
=============================================================================
