------------------------------ MODULE MCAccrual ------------------------------
(* A day of 7 seconds and a scale of 15, so that neither divides the other. *)
EXTENDS Accrual

MCSalaries == 0..9
MCTotals   == {0, 3, 11}
MCStarts   == {0, 2}
==============================================================================
