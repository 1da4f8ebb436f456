------------------------------ MODULE MCMessages ------------------------------
(* Messages with a grace period and a pending period of one day each.      *)
EXTENDS Messages

MCFirstDay == -2
=============================================================================
