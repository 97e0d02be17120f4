----------------------------- MODULE MCTickets -----------------------------
(* The ticket service on small instances: the constants' values are in the *)
(* configuration files; requests are interchangeable.                      *)
EXTENDS Tickets, TLC

Symmetry == Permutations(Requests)

ThreeStatuses == {"RECEIVED", "DIAGNOSIS", "CLOSED"}
============================================================================
