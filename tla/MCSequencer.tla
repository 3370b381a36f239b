---------------------------- MODULE MCSequencer ----------------------------
(* Instances of Sequencer for model checking.                              *)
EXTENDS Sequencer

CONSTANTS e1, e2

AllMasks  == SUBSET Task
FullMask  == {Task}
LowTask   == {{0}}
NoPause   == {}
=============================================================================
