---------------------------- MODULE KeyDerivation ----------------------------
(***************************************************************************)
(* What keeps the derived keys apart (crates/keys): every key is HKDF of   *)
(* the root key under an info string. HKDF itself is taken to be           *)
(* injective; the info is built here byte by byte, because whether two     *)
(* derivations can be given the same one depends on its framing only.      *)
(***************************************************************************)
EXTENDS Naturals, Sequences

CONSTANTS
    Texts,       \* account identifiers and subjects
    MaxFrame     \* the longest input a frame can hold: u16::MAX

ASSUME TextsAssumption == Texts \subseteq Seq(Nat)

\* The fixed parts: two prefixes, neither of which begins the other, and a
\* purpose of its own for each use.
AccountPrefix == <<1, 1>>
InstallationPrefix == <<1, 2>>
AccountDatabasePurpose == <<1>>
AccountIdentityPurpose == <<2>>
RegistryDatabasePurpose == <<1>>
RegistryDedupPurpose == <<2>>

\* (mutant of Framed: the parts are put together without their lengths)
Unframed(value) == value

\* push_framed: the length, then the bytes.
Framed(value) == <<Len(value)>> \o value

Fits(value) == Len(value) <= MaxFrame

AccountInfo(account, purpose) == AccountPrefix \o Framed(account) \o Framed(purpose)

DatabaseKeyInfo(account) == AccountInfo(account, AccountDatabasePurpose)
IdentityHashInfo(account, subject) ==
    AccountInfo(account, AccountIdentityPurpose) \o Framed(subject)
InstallationKeyInfo(purpose) == InstallationPrefix \o Framed(purpose)

\* Everything the program derives, one record for each.
Derivations ==
    [use : {"database"}, account : {a \in Texts : Fits(a)}]
    \cup [use : {"identity"}, account : {a \in Texts : Fits(a)},
          subject : {s \in Texts : Fits(s)}]
    \cup [use : {"registry", "dedup"}]

Info(d) ==
    CASE d.use = "database" -> DatabaseKeyInfo(d.account)
      [] d.use = "identity" -> IdentityHashInfo(d.account, d.subject)
      [] d.use = "registry" -> InstallationKeyInfo(RegistryDatabasePurpose)
      [] d.use = "dedup" -> InstallationKeyInfo(RegistryDedupPurpose)

\* HKDF: distinct keys for distinct inputs.
Key(root, d) == <<root, Info(d)>>
=============================================================================
