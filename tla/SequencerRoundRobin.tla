------------------------ MODULE SequencerRoundRobin ------------------------
(***************************************************************************)
(* Sequencer with a history variable that counts, at every priority, how   *)
(* often a task has been selected over another one that was pending and    *)
(* allowed by the masks each time.                                         *)
(***************************************************************************)
EXTENDS Sequencer

\* overtaken[p][t][u]: the selections of u at priority p since t was last
\* selected there, or was not eligible there when another task was selected.
VARIABLE overtaken

\* Bound: selections are counted up to this number.
CountLimit == 2

rrvars == <<vars, overtaken>>

RRInit ==
  /\ Init
  /\ overtaken = [p \in Prio |-> [t \in Task |-> [u \in Task |-> 0]]]

Selecting == pc = "select" /\ pc' = "clear"

\* The tasks a selection passes over.
PassedOver == Eligible(priority[counter]) \ {CurrentTaskIdx'}

RRNext ==
  /\ Next
  /\ overtaken' =
       IF Selecting
       THEN [overtaken EXCEPT ![counter] =
               [t \in Task |-> [u \in Task |->
                  IF t \notin PassedOver THEN 0
                  ELSE IF u = CurrentTaskIdx' /\ overtaken[counter][t][u] < CountLimit
                       THEN overtaken[counter][t][u] + 1
                  ELSE overtaken[counter][t][u]]]]
       ELSE overtaken

RRSpec == RRInit /\ [][RRNext]_rrvars

RRFairSpec == RRSpec /\ Fairness

\* "The concept is to make sure that [...] if two same flags are always set,
\* the sequencer does not run always only the first one" (stm32_seq.c:254-258).
\* While a task stays eligible at a priority, no other task is selected over it
\* more than twice there (the second time when the mask is filled again).
OvertakenAtMostTwice ==
  [][\A t \in Task :
       Selecting /\ t \in PassedOver
         => overtaken[counter][t][CurrentTaskIdx'] < CountLimit]_rrvars

\* What makes it so: a task whose bit is left in the round-robin mask is
\* selected before the mask is filled again, and one overtaken by u has seen
\* the bit of u go.
OvertakenInv ==
  \A p \in Prio : \A t, u \in Task :
    overtaken[p][t][u] <= (IF t \in round_robin[p] THEN 1 ELSE 0)
                            + (IF u \in round_robin[p] THEN 0 ELSE 1)

=============================================================================
