--------------------------- MODULE MCAdvertising ---------------------------
(* Instances of Advertising for model checking.                             *)
EXTENDS Advertising

CONSTANTS h1, h2, none
=============================================================================
