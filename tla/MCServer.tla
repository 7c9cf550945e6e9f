------------------------------ MODULE MCServer ------------------------------
(* An instance of Server for TLC: two workers, a client that never falls    *)
(* silent, one that sends a frame ahead, and a queue of one connection.     *)
EXTENDS Server

CONSTANTS busy, eager

MCAhead == [c \in Clients |-> IF c = eager THEN 2 ELSE 1]
=============================================================================
