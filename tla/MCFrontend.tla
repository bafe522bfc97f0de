------------------------------ MODULE MCFrontend ------------------------------
(***************************************************************************)
(* A stream that earns one unit a second and is paid from two deposits at  *)
(* most; the employer of the vault's record is not in the sealed terms, so *)
(* the enclave refuses it.                                                 *)
(***************************************************************************)
EXTENDS Frontend

CONSTANTS boss, worker, absent, none

MCTerms     == [ratePerSecond |-> 1, total |-> 3, startTime |-> 0]
MCAmounts   == {1}
MCUsers     == {boss, worker}
MCInTerms   == {worker}
MCAdditions == {{}, {"withdraw"}}
MCFigures   == {3}
MCSlots     == 1..2
==============================================================================
