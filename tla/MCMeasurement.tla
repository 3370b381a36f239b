---------------------------- MODULE MCMeasurement ----------------------------
(* Channel 0 has two conversions, the others one.                           *)
EXTENDS Measurement

MCResults == [c \in Channel |-> IF c = 0 THEN {1, 2} ELSE {10 * c + 1}]
MCEncoded == [r \in Result |-> 16000 + 311 * r]
=============================================================================
