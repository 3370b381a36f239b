--------------------------- MODULE MCHciTransport ---------------------------
(* Three of the four tasks: one that a timer requests, and the two of the   *)
(* transport layers.                                                        *)
EXTENDS HciTransport

CONSTANTS hci_rsp, sys_rsp, op1, nop, none

FullMask == {Task}
HciMask  == {HciTasks}
=============================================================================
