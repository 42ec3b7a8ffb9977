------------------------------ MODULE SnmpAuth ------------------------------
(***************************************************************************)
(* Credentials of the SNMP receiver: what Validate lets through            *)
(* (receiver/snmpreceiver/config.go), what USM makes of it                 *)
(* (internal/connection/connection.go), and which of it a packet has to    *)
(* match (trapper.New, isAuthorized of internal/trapper/trapper.go).  Two  *)
(* lists of protocol names, in two files, have to agree.                   *)
(*                                                                         *)
(* External: strings.ToUpper (Upper), and the library's check of a v3      *)
(* packet, which is only as good as the flags of the packet claim.         *)
(***************************************************************************)
EXTENDS Naturals, Sequences

CONSTANTS
  Names,  \* what a protocol or a user may be called; "" stands for none
  Upper   \* strings.ToUpper of a protocol's name

ASSUME NamesAssumption == "" \notin Names /\ Upper \in [Names -> STRING]

All == {"auth", "priv"}

(* AuthConfig; of a passphrase only whether it is long enough. *)
Entry == [version : {"v2c", "v3"}, community : Names \cup {""}, user : Names \cup {""},
          authProtocol : Names \cup {""}, privProtocol : Names \cup {""},
          longAuth : BOOLEAN, longPriv : BOOLEAN]

(* What an entry asks for, as its author understands it. *)
Configured(e) == {a \in All : \/ a = "auth" /\ e.authProtocol # ""
                              \/ a = "priv" /\ e.privProtocol # ""}

-----------------------------------------------------------------------------
(* Validate. *)

ValidAuthProtocol(p)    == Upper[p] \in {"MD5", "SHA", "SHA256", "SHA384", "SHA512"}
ValidPrivacyProtocol(p) == Upper[p] \in {"DES", "AES", "AES192", "AES256"}

ValidEntry(e) ==
  IF e.version = "v2c" THEN e.community # ""
  ELSE /\ e.user # ""
       /\ e.authProtocol # "" => ValidAuthProtocol(e.authProtocol) /\ e.longAuth
       /\ e.privProtocol # "" => /\ ValidPrivacyProtocol(e.privProtocol) /\ e.longPriv
                                 /\ e.authProtocol # ""

IsV3(e) == e.version = "v3"

(* accepted_auth, with its entries looked up.  The mutant lets two entries *)
(* of one v3 user through.                                                 *)
ValidEntries(as) == \A n \in DOMAIN as : ValidEntry(as[n])

ValidAccepted(as) ==
  /\ \A n \in DOMAIN as : ValidEntry(as[n])
  /\ \A n, k \in DOMAIN as : IsV3(as[n]) /\ IsV3(as[k]) /\ as[n].user = as[k].user => n = k

-----------------------------------------------------------------------------
(* connection.USM. *)

NoUsm == [user |-> "", auth |-> "NoAuth", priv |-> "NoPriv"]

MapAuthProtocol(p) ==
  IF p # "" /\ Upper[p] \in {"SHA", "SHA256", "SHA384", "SHA512", "MD5"}
  THEN Upper[p] ELSE "NoAuth"

MapPrivacyProtocol(p) ==
  IF p # "" /\ Upper[p] \in {"AES", "AES192", "AES256", "DES"} THEN Upper[p] ELSE "NoPriv"

AuthProtocols == {"NoAuth", "MD5", "SHA", "SHA256", "SHA384", "SHA512"}
PrivProtocols == {"NoPriv", "DES", "AES", "AES192", "AES256"}

Usms == [user : Names \cup {""}, auth : AuthProtocols, priv : PrivProtocols]

USM(e) == [user |-> e.user, auth |-> MapAuthProtocol(e.authProtocol),
           priv |-> MapPrivacyProtocol(e.privProtocol)]

(* The message flags of requests made under u. *)
Flags(u) == CASE u.auth # "NoAuth" /\ u.priv # "NoPriv" -> All
              [] u.auth # "NoAuth" /\ u.priv = "NoPriv" -> {"auth"}
              [] OTHER -> {}

-----------------------------------------------------------------------------
(* Traps.  A packet has a version; inform, whether it wants an answer; for *)
(* v1 and v2c a community; for v3, usm, whether it uses the user-based     *)
(* security model, user, flags, the protections it claims, signed and      *)
(* cipher, the protocols of the user's keys it was made with, and          *)
(* encrypted, whether its scoped PDU is.                                   *)
Packet == [version : {"v1", "v2c", "v3"}, inform : BOOLEAN, community : Names \cup {""},
           usm : BOOLEAN, user : Names \cup {""}, flags : SUBSET All,
           signed : AuthProtocols, cipher : PrivProtocols, encrypted : BOOLEAN]

(* usmTable and communities, as New makes them of accepted_auth. *)
UsmTable(as)    == {USM(as[n]) : n \in {k \in DOMAIN as : IsV3(as[k])}}
Communities(as) == {as[n].community : n \in {k \in DOMAIN as : ~IsV3(as[k])}}
AcceptAll(as)   == as = <<>>

(* External: UnmarshalTrap takes p under the parameters u of the table,    *)
(* and leaves u on it.  A packet of another security model it lets pass.   *)
Verifies(u, p) ==
  /\ u.user = p.user
  /\ "auth" \in p.flags => p.signed = u.auth
  /\ p.flags = All /\ p.encrypted => p.cipher = u.priv

Decodes(as, p, u) == IF p.version = "v3" /\ p.usm THEN u \in UsmTable(as) /\ Verifies(u, p)
                                                  ELSE u = NoUsm

Want(u) == CASE u.priv # "NoPriv" -> All
             [] u.priv = "NoPriv" /\ u.auth # "NoAuth" -> {"auth"}
             [] OTHER -> {}

IsAuthorized(as, p, u) ==
  IF p.version = "v3"
  THEN /\ p.usm
       /\ p.flags = All => p.encrypted
       /\ Want(u) \subseteq p.flags
  ELSE AcceptAll(as) \/ p.community \in Communities(as)
=============================================================================
