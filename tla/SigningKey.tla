------------------------------ MODULE SigningKey ------------------------------
(***************************************************************************)
(* The life of the server process and of its signing key: main opens the   *)
(* database, loads the seed of the key or creates it, and serves with the  *)
(* key pair of that seed until it stops (cmd/seatkeyd/main.go over         *)
(* internal/store/settings.go and internal/crypto/keys.go).  There is one  *)
(* process at a time, as the README of the program asks.                   *)
(*                                                                         *)
(* A seed, the private and the public key made of it, and their base64     *)
(* forms stand for each other: each determines the others.                 *)
(***************************************************************************)
CONSTANTS
    Keys,   \* key pairs, each drawn at most once
    NoKey   \* a missing row, a process without a key

VARIABLES
    seed,   \* the row signing_key_seed of table settings
    drawn,  \* the seeds GenerateSeed has returned
    phase,  \* how far the process is
    key     \* the key pair the process works with

Phases == {"down", "GetSetting", "GenerateSeed", "SetSetting", "serving"}

TypeOK ==
    /\ seed \in Keys \cup {NoKey}
    /\ drawn \in SUBSET Keys
    /\ phase \in Phases
    /\ key \in Keys \cup {NoKey}

Init ==
    /\ seed = NoKey
    /\ drawn = {}
    /\ phase = "down"
    /\ key = NoKey

(* store.Open: the schema's statements find or create every table.         *)
Open ==
    /\ phase = "down"
    /\ phase' = "GetSetting"
    /\ UNCHANGED <<seed, drawn, key>>

(* The slip of discarding the error of the look-up, as the closure for the *)
(* webhook settings does: a read that fails counts as a missing row.       *)
GetSettingErrorDiscarded ==
    /\ phase = "GetSetting"
    /\ \E found \in {seed, NoKey} :
          /\ key' = found
          /\ phase' = IF found = NoKey THEN "GenerateSeed" ELSE "serving"
    /\ UNCHANGED <<seed, drawn>>

(* A read that fails ends the process instead (Stop).                      *)
GetSetting ==
    /\ phase = "GetSetting"
    /\ key' = seed
    /\ phase' = IF seed = NoKey THEN "GenerateSeed" ELSE "serving"
    /\ UNCHANGED <<seed, drawn>>

GenerateSeed ==
    /\ phase = "GenerateSeed"
    /\ \E k \in Keys \ drawn : key' = k /\ drawn' = drawn \cup {k}
    /\ phase' = "SetSetting"
    /\ UNCHANGED seed

(* The seed is in the table before anything is signed with its key.        *)
SetSetting ==
    /\ phase = "SetSetting"
    /\ seed' = key
    /\ phase' = "serving"
    /\ UNCHANGED <<drawn, key>>

(* log.Fatalf on an error at boot, or the process is stopped: the key it   *)
(* has in hand is gone.                                                    *)
Stop ==
    /\ phase # "down"
    /\ phase' = "down"
    /\ key' = NoKey
    /\ UNCHANGED <<seed, drawn>>

Boot == Open \/ GetSetting \/ GenerateSeed \/ SetSetting
=============================================================================
