------------------------------- MODULE Alarms -------------------------------
(***************************************************************************)
(* What the timer server (hw_if.h:139-243) promises: a started timer       *)
(* expires after its delay, never before it (but for Early ticks, the      *)
(* granularity of the clock) and less than Late ticks after it, unless it  *)
(* is stopped first; a timer that was stopped does not expire.  Whenever   *)
(* the hardware counter is programmed, up to Loss ticks may not count for  *)
(* the timers that run: those come on top of Late.                         *)
(***************************************************************************)
EXTENDS Integers

CONSTANTS Timer, Off, None, Early, Late, Loss

VARIABLES armed,      (* armed[t]: ticks left until t should expire, or Off *)
          lost,       (* lost[t]: ticks since its start that did not count  *)
          programming,(* ticks that the counter may still need to be set    *)
          callback    (* the timer that expires in this step, or None       *)

Init ==
  /\ armed = [t \in Timer |-> Off] /\ lost = [t \in Timer |-> 0]
  /\ programming = 0 /\ callback = None

Set(t) ==
  /\ armed'[t] \in Nat \ {0} /\ armed' = [armed EXCEPT ![t] = armed'[t]]
  /\ lost' = [lost EXCEPT ![t] = 0]

Clear(t) == armed' = [armed EXCEPT ![t] = Off] /\ lost' = [lost EXCEPT ![t] = 0]

\* The counter is programmed, or has been.
Programs == programming' \in 0 .. Loss

\* Also restarts a timer that is running.
Start(t) == Set(t) /\ Programs /\ callback' = None

Stop(t) == Clear(t) /\ Programs /\ callback' = None

\* A single-shot timer is off then, a repeated one is running again.
Expire(t) ==
  /\ armed[t] # Off /\ armed[t] <= Early
  /\ Clear(t) \/ Set(t)
  /\ Programs /\ callback' = t

\* As for the next part of a delay that is split.
Program == Programs /\ callback' = None /\ UNCHANGED <<armed, lost>>

\* A tick counts for all the timers, or, while the counter is programmed, for
\* none.
Tick ==
  /\ \A t \in Timer : armed[t] # Off => armed[t] + lost[t] > - Late
  /\ armed' = [t \in Timer |-> IF armed[t] = Off THEN Off ELSE armed[t] - 1]
  /\ IF programming = 0
     THEN UNCHANGED <<lost, programming>>
     ELSE /\ \/ UNCHANGED lost
             \/ lost' = [t \in Timer |-> IF armed[t] = Off THEN lost[t] ELSE lost[t] + 1]
          /\ programming' = programming - 1
  /\ callback' = None

Next == Tick \/ Program \/ \E t \in Timer : Start(t) \/ Stop(t) \/ Expire(t)

Spec == Init /\ [][Next]_<<armed, lost, programming, callback>>

=============================================================================
