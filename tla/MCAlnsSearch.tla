--------------------------- MODULE MCAlnsSearch ---------------------------
(* Three states, any of which may or may not have a plan; restarts after one *)
(* or two steps without a new best; a limit that may or may not bind.           *)
EXTENDS AlnsSearch

MCConfigs == [iterations : {3}, limit : {2}, restart : {1, 2}]
=============================================================================
