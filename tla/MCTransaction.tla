--------------------------- MODULE MCTransaction ---------------------------
(* Small instances of Transaction: compensations k1 and k2 have different
   orders. *)
EXTENDS Transaction, TLC

CONSTANTS p1, p2, k1, k2

OrderOf == (k1 :> 1) @@ (k2 :> 2)
=============================================================================
