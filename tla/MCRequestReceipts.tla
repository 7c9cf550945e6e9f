------------------------- MODULE MCRequestReceipts -------------------------
(* An instance of RequestReceipts for TLC: three ids and two workers, so    *)
(* that one id may be sent to both at once while a third competes for the   *)
(* capacity.                                                                *)
EXTENDS RequestReceipts
=============================================================================
