--------------------------- MODULE MCRecallTraces ---------------------------
(* An instance of RecallTraces for TLC: three traces pass through a buffer  *)
(* of two, between one worker and the maintenance thread, and receipts are  *)
(* sent for two of them.                                                    *)
EXTENDS RecallTraces

CONSTANTS t1, t2, t3, m1, done

Told(t, presented, referenced, used, outcome, at) ==
  [trace |-> t, memory |-> m1, presented |-> presented,
   referenced |-> referenced, used |-> used, outcome |-> outcome,
   consumed |-> at]

(* The memory is presented under two traces; it is referenced and then used *)
(* under one of them; and it is used without having been presented, which   *)
(* is not valid.                                                            *)
MCBatches ==
  {<<Told(t1, TRUE, FALSE, FALSE, NoOutcome, 0),
     Told(t2, TRUE, FALSE, FALSE, NoOutcome, 1)>>,
   <<Told(t1, TRUE, TRUE, FALSE, NoOutcome, 0),
     Told(t1, TRUE, FALSE, TRUE, done, 1)>>,
   <<Told(t2, FALSE, FALSE, TRUE, NoOutcome, 0)>>}
=============================================================================
