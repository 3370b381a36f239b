----------------------- MODULE MCSequencerRoundRobin -----------------------
(* Sequencer with its history for TLC: one run mask, no task paused.       *)
EXTENDS SequencerRoundRobin

CONSTANT e1

FullMask == {Task}
NoPause  == {}
=============================================================================
