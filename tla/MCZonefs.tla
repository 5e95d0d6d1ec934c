-------------------------------- MODULE MCZonefs -------------------------------
(* Instances of Zonefs for TLC. *)
EXTENDS Zonefs, TLC

CONSTANTS zone1, zone2

Sym == Permutations(Zones)

(* SafeSpec with flushes that fail at any moment. *)
FlushSpec ==
    Init /\ [][\/ SafeNext
               \/ \E z \in Zones : zonefs_file_fsync(z) /\ UNCHANGED <<waiting, hist>>]_vars

================================================================================
