----------------------------- MODULE TokenRules -----------------------------
(***************************************************************************)
(* The pure time rules of seatkey: what the status of a license is at an   *)
(* instant, how long a signed token may be used, and how a client decides  *)
(* that its cached token has run out.  No state lives here.                *)
(*                                                                         *)
(* Instants are integers.  Their unit does not matter: the rules only add  *)
(* a duration to an instant and compare two instants.  Go's time.Duration  *)
(* is 64 bits of nanoseconds and the longest duration of the program, a    *)
(* hundred years, is 3.2e18 of them, below 2^63 = 9.2e18.                  *)
(***************************************************************************)
EXTENDS Integers

CONSTANTS
    OnlineGracePeriod, \* license.OnlineGracePeriod, seven days in the program
    OfflineHorizon,    \* license.offlineHorizon, a hundred years
    Never              \* the nil *time.Time of a license without an expiry

ASSUME DurationsAssumption == OnlineGracePeriod \in Nat /\ OfflineHorizon \in Nat
ASSUME NeverAssumption == Never \notin Int

(* Whether the expiry lies in the past at t: a license is still good at    *)
(* the very instant it expires (time.Time.After is strict).                *)
ExpiredAt(expiresAt, t) == expiresAt # Never /\ t > expiresAt

(* License.Status: revocation is reported before expiry.                   *)
Status(revokedAt, expiresAt, t) ==
    IF revokedAt # Never THEN "revoked"
    ELSE IF ExpiredAt(expiresAt, t) THEN "expired" ELSE "active"

(* The slip of a token that is not cut at the license expiry.              *)
ValidUntilUncapped(expiresAt, t, offline) ==
    t + (IF offline THEN OfflineHorizon ELSE OnlineGracePeriod)

(* The instant up to which a token signed at t may be used: a grace period *)
(* or, for an offline activation, the horizon, cut at the license expiry.  *)
ValidUntil(expiresAt, t, offline) ==
    LET uncapped == t + (IF offline THEN OfflineHorizon ELSE OnlineGracePeriod)
    IN  IF expiresAt # Never /\ expiresAt < uncapped THEN expiresAt ELSE uncapped

(* What a licensed application does with its cached token at startup.      *)
Accepts(validUntil, t) == ~(t > validUntil)
=============================================================================
