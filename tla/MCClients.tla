------------------------------ MODULE MCClients ------------------------------
(* Two programs side by side, in every pairing that shares something. *)
EXTENDS EmployerClients

CONSTANTS absent, none

MCForms ==
    {[terms |-> [ratePerSecond |-> 1, total |-> 1, startTime |-> 0], fund |-> 1],
     [terms |-> [ratePerSecond |-> 1, total |-> 2, startTime |-> 0], fund |-> 0]}
MCCasts == {{"e2e", "settle"}, {"settle", "demo"}, {"page", "demo"}}
==============================================================================
