--------------------------- MODULE MCAutoRecharge ---------------------------
(* AutoRecharge with two processes, so that one waits while the other pays.     *)
EXTENDS AutoRecharge

MCFloor == -1
MCSettings == {"settings"}
MCEvents == {"settings", "addon", "renewal", "collects", "slow"}
=============================================================================
