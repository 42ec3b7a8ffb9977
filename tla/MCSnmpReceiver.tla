--------------------------- MODULE MCSnmpReceiver ---------------------------
EXTENDS SnmpReceiver

MCNames == {"public", "other", "ann", "bob", "sha256", "SHA256", "md4", "Aes"}
MCUpper == [n \in MCNames |-> CASE n = "sha256" -> "SHA256"
                                [] n = "Aes"    -> "AES"
                                [] OTHER        -> n]

V2cAuth(community) ==
  [version |-> "v2c", community |-> community, user |-> "", authProtocol |-> "",
   privProtocol |-> "", longAuth |-> FALSE, longPriv |-> FALSE]

V3Auth(user, authProtocol, privProtocol) ==
  [version |-> "v3", community |-> "", user |-> user, authProtocol |-> authProtocol,
   privProtocol |-> privProtocol, longAuth |-> TRUE, longPriv |-> TRUE]

Full == V3Auth("ann", "sha256", "Aes")

(* Every accepted_auth that may matter: none, communities and users, a     *)
(* user of every level, one user twice, an unknown protocol, and privacy   *)
(* alone.                                                                  *)
Listeners == {<<>>, <<V2cAuth("public"), Full>>,
              <<V3Auth("ann", "SHA256", "")>>, <<V3Auth("ann", "", ""), V3Auth("bob", "SHA256", "")>>,
              <<Full, V3Auth("ann", "", "")>>, <<V3Auth("ann", "md4", "")>>,
              <<V3Auth("ann", "", "Aes")>>}

(* Polling with and without a trap listener of one community, and the trap *)
(* listener alone with each of them.                                       *)
Setup(p, t, as) == [polls |-> p, traps |-> t, accepted |-> as]
MCSetups == {Setup(FALSE, FALSE, <<>>), Setup(TRUE, FALSE, <<>>),
             Setup(TRUE, TRUE, <<V2cAuth("other")>>)}
            \cup {Setup(FALSE, TRUE, as) : as \in Listeners}

V2c(inform, community) ==
  [version |-> "v2c", inform |-> inform, community |-> community, usm |-> FALSE,
   user |-> "", flags |-> {}, signed |-> "NoAuth", cipher |-> "NoPriv", encrypted |-> FALSE]

V3(usm, user, flags, signed, encrypted) ==
  [version |-> "v3", inform |-> TRUE, community |-> "", usm |-> usm, user |-> user,
   flags |-> flags, signed |-> signed,
   cipher |-> IF encrypted THEN "AES" ELSE "NoPriv", encrypted |-> encrypted]

(* A trap of v2c, an inform with an unknown community; v3 informs at each  *)
(* level, in plain text under the privacy flag, signed with another        *)
(* protocol, and of another security model.                                *)
MCPackets == {V2c(FALSE, "public"), V2c(TRUE, "other"),
              V3(TRUE, "ann", All, "SHA256", TRUE), V3(TRUE, "ann", {"auth"}, "SHA256", FALSE),
              V3(TRUE, "ann", {}, "NoAuth", FALSE), V3(TRUE, "ann", All, "SHA256", FALSE),
              V3(TRUE, "bob", {"auth"}, "MD5", FALSE),
              V3(FALSE, "ann", All, "NoAuth", TRUE)}
=============================================================================
