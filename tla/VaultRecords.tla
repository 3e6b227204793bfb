---------------------------- MODULE VaultRecords ----------------------------
(***************************************************************************)
(* What every record of the vault (moxi-vault) is made of: references,     *)
(* stable ids and hashes, evidence sets, risk levels and time.  The vault  *)
(* keeps no state of its own: every operation is a function of the records *)
(* its caller passes and of the clock, which is the argument "now" here.   *)
(*                                                                         *)
(* A reference is a one-element sequence holding its name.  A stable id is *)
(* the SHA-256 of the fields it binds; two ids are equal only when the     *)
(* bound fields are, so an id IS its prefix and its bound fields.  Lists   *)
(* that the code sorts and deduplicates are sets.                          *)
(***************************************************************************)
EXTENDS Naturals, FiniteSets

\* An absent Option<String>.
NoRef == <<"none">>

\* Any empty, local, mock, stub or test reference.
Placeholder == <<"placeholder">>

\* Any reference that carries secret material instead of naming it.
RawSecret == <<"raw">>

\* The tests of the code are `is_none_or(is_placeholder_ref)` on an Option.
IsPlaceholder(ref) == ref \in {NoRef, Placeholder}

AnyPlaceholder(refs) == \E ref \in refs : IsPlaceholder(ref)

LooksLikeRawSecret(ref) == ref = RawSecret

\* Two records in one.
r ++ s == [f \in DOMAIN r \union DOMAIN s |-> IF f \in DOMAIN r THEN r[f] ELSE s[f]]

\* The fields of a record that an id binds.
Bound(r, fields) == [f \in fields |-> r[f]]

StableId(prefix, r, fields) == <<prefix, Bound(r, fields)>>

\* The hash of a whole record.
HashOf(prefix, r) == <<prefix, r>>

\* A pattern is the set of the values it matches: all of them for "*", those
\* with the prefix for "x*", itself otherwise.
MatchesAny(patterns, value) == \E pattern \in patterns : value \in pattern

\* RiskLevel::{Low, Medium, High, Critical}, in the derived order.
High == 2
RiskLevels == 0 .. 3

\* `expires_at <= Utc::now()`; an absent expiry never passes.
Never == 1000
Expired(expires_at, now) == expires_at <= now

\* The receipts of every adapter carry a time window.
BadWindow(from, until, now) == from >= until \/ Expired(until, now)
=============================================================================
