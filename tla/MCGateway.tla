------------------------------ MODULE MCGateway ------------------------------
(* The engine and one more caller, so that two refreshes meet; two parts,  *)
(* so that an upload fails after another succeeded; three periods, so that *)
(* the token expires before and after the first refresh; one retry.        *)
EXTENDS Gateway
=============================================================================
