------------------------------ MODULE OnceOnly ------------------------------
(***************************************************************************)
(* What the daemon promises a client about a mutation sent under a request *)
(* id (COMPATIBILITY.md, "0.8.0 reliability changes"): the id is entered   *)
(* in a ledger before the mutation may take effect, the effect happens at  *)
(* most once while the id is in the ledger, its answer is recorded once    *)
(* and never changes, and only an id with a recorded answer may leave the  *)
(* ledger.  Workers, crashes and capacity do not appear.                   *)
(***************************************************************************)
EXTENDS Naturals

CONSTANTS Requests, Digests, Responses

VARIABLES
  ledger,   \* id -> what is known of it
  effects   \* id -> effects since it entered the ledger

Absent == [state |-> "absent"]

Admitted(d) == [state |-> "admitted", digest |-> d]

Completed(d, x) == [state |-> "completed", digest |-> d, response |-> x]

Init ==
  /\ ledger = [r \in Requests |-> Absent]
  /\ effects = [r \in Requests |-> 0]

(* Enter an id, and let ids with a recorded answer leave at the same time.  *)
Enter(r, d, leaving) ==
  /\ ledger[r] = Absent
  /\ \A e \in leaving : ledger[e].state = "completed"
  /\ ledger' = [q \in Requests |-> IF q = r THEN Admitted(d)
                                   ELSE IF q \in leaving THEN Absent
                                   ELSE ledger[q]]
  /\ effects' = [q \in Requests |-> IF q \in leaving THEN 0 ELSE effects[q]]

TakeEffect(r) ==
  /\ ledger[r].state = "admitted"
  /\ effects[r] = 0
  /\ effects' = [effects EXCEPT ![r] = 1]
  /\ UNCHANGED ledger

Record(r, x) ==
  /\ ledger[r].state = "admitted"
  /\ effects[r] = 1
  /\ ledger' = [ledger EXCEPT ![r] = Completed(ledger[r].digest, x)]
  /\ UNCHANGED effects

Next ==
  \/ \E r \in Requests, d \in Digests, leaving \in SUBSET Requests :
       Enter(r, d, leaving)
  \/ \E r \in Requests : TakeEffect(r)
  \/ \E r \in Requests, x \in Responses : Record(r, x)

Spec == Init /\ [][Next]_<<ledger, effects>>
=============================================================================
