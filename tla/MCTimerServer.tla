--------------------------- MODULE MCTimerServer ---------------------------
(* Instances of TimerServer for model checking.                             *)
EXTENDS TimerServer

CONSTANTS off, none

\* States that differ in the absolute value of the register, in the fields of
\* a timer outside of the list (a start writes them before they are read) or
\* in which timer the last step notified behave alike.
View ==
  <<[ts EXCEPT !.SSRValueOnLastSetup = IF @ = SSR_FORBIDDEN_VALUE THEN -1
                                       ELSE Elapsed,
               !.CounterInit = [t \in Timer |-> IF t \in Running THEN @[t] ELSE 0],
               !.CountLeft = [t \in Timer |-> IF t \in Running THEN @[t] ELSE 0],
               !.NextID = [t \in Timer |-> IF t \in Running THEN @[t] ELSE 0],
               !.PreviousID = [t \in Timer |-> IF t \in Running \ {ts.Current}
                                               THEN @[t] ELSE 0]],
    pc, wakeup_timer_value, starting, late, rem, lost, callback = None>>
=============================================================================
