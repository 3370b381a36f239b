----------------------------- MODULE TimerServer -----------------------------
(***************************************************************************)
(* The virtual timers of the firmware (Core/Src/hw_timerserver.c): a list  *)
(* of running timers sorted by the ticks they have left, of which the      *)
(* first one programs the RTC wakeup counter.  How long the counter has    *)
(* been running is read from the sub-second register, which wraps.         *)
(*                                                                         *)
(* One tick is one period of the wakeup counter, and of the sub-second     *)
(* register (both divide the same clock by 16: WakeupTimerDivider is 4 and *)
(* AsynchPrescalerUserConfig 16).  The thread's calls are critical         *)
(* sections; HW_TS_Start tests the status before its own.                  *)
(*                                                                         *)
(* The register is read more than once in a call, and time passes between  *)
(* the readings: linkTimer reads it, RescheduleTimerList reads it again    *)
(* for the ticks elapsed, RestartWakeupCounter, after it has waited for    *)
(* the counter to be writable, for the next reference.  A call and the     *)
(* handler are up to three steps: pc says which one comes next.            *)
(***************************************************************************)
EXTENDS Integers, FiniteSetsExt

CONSTANTS
  MaxTimer,       (* CFG_HW_TS_MAX_NBR_CONCURRENT_TIMER                    *)
  Wrap,           (* SynchPrescalerUserConfig: the period of the register  *)
  HandlerMaxDelay,(* CFG_HW_TS_RTC_HANDLER_MAX_DELAY, in ticks             *)
  Latency,        (* ticks it takes at most from the interrupt, or from a  *)
                  (* call that holds it off, to the counter's restart      *)
  Jitter,         (* ticks the counter may expire ahead of the register    *)
  Timeouts,       (* the delays timers are started with                    *)
  MaxLost,        (* bound: ticks a running timer loses (see lost)         *)
  Off, None

Timer == 0 .. MaxTimer - 1
Nil == MaxTimer
SSR_FORBIDDEN_VALUE == -1
MaxWakeupTimerSetup == Wrap - 1 - HandlerMaxDelay

ASSUME TimerServerAssumption ==
  /\ MaxTimer \in Nat \ {0} /\ Wrap \in Nat /\ HandlerMaxDelay \in Nat
  /\ MaxWakeupTimerSetup > 0
  /\ Latency \in Nat /\ Latency <= HandlerMaxDelay /\ Jitter \in Nat
  /\ Timeouts \subseteq Nat \ {0} /\ MaxLost \in Nat
  /\ Off \notin Int /\ None \notin Timer /\ None \notin [timer : Timer, ticks : Timeouts]

VARIABLES
  ts,             (* the statics of hw_timerserver.c and the RTC registers *)
  ssr,            (* RTC->SSR, counting down                               *)
  pc,             (* "idle", or the function the call or the handler, with *)
                  (* interrupts masked, calls next                         *)
  wakeup_timer_value, (* RescheduleTimerList's, for RestartWakeupCounter   *)
  starting,       (* HW_TS_Start between its test and its critical section *)
  late,           (* ticks since the interrupt was pending, or since the   *)
                  (* call began                                            *)
  rem,            (* ghost: the real time each timer has left              *)
  lost,           (* ghost: the ticks since its start that nothing counted *)
  callback        (* ghost: the timer that expires (its callback is called *)
                  (* when the handler ends)                                *)

vars == <<ts, ssr, pc, wakeup_timer_value, starting, late, rem, lost, callback>>

\* What HW_TS_Init leaves.  wut is the wakeup counter, 0 when disabled or
\* expired; pending the pending interrupt.
Reset ==
  [TimerIDStatus |-> [t \in Timer |-> "Free"],
   TimerMode |-> [t \in Timer |-> "SingleShot"],
   CounterInit |-> [t \in Timer |-> 0], CountLeft |-> [t \in Timer |-> 0],
   NextID |-> [t \in Timer |-> 0], PreviousID |-> [t \in Timer |-> 0],
   Current |-> Nil, Previous |-> 0, SSRValueOnLastSetup |-> SSR_FORBIDDEN_VALUE,
   Overpassed |-> FALSE, wut |-> 0, pending |-> FALSE]

NothingRuns ==
  /\ ssr = Wrap - 1 /\ pc = "idle" /\ wakeup_timer_value = 0
  /\ starting = None /\ late = 0
  /\ rem = [t \in Timer |-> Off] /\ lost = [t \in Timer |-> 0] /\ callback = None

Init == ts = Reset /\ NothingRuns

----------------------------------------------------------------------------
(* The internal functions                                                  *)

\* The k-th timer of the list, Nil after its end.
Node(s) ==
  LET node[k \in 0 .. MaxTimer] ==
        IF k = 0 THEN s.Current
        ELSE IF node[k - 1] = Nil THEN Nil ELSE s.NextID[node[k - 1]]
  IN node

Listed(s) == {Node(s)[k] : k \in 0 .. MaxTimer} \ {Nil}

ReturnTimeElapsed(s) ==
  IF s.SSRValueOnLastSetup = SSR_FORBIDDEN_VALUE THEN 0
  ELSE IF s.SSRValueOnLastSetup >= ssr THEN s.SSRValueOnLastSetup - ssr
  ELSE s.SSRValueOnLastSetup + (Wrap - ssr)

LinkTimerAfter(s, t, ref) ==
  [s EXCEPT !.NextID[t] = s.NextID[ref], !.NextID[ref] = t,
            !.PreviousID = [u \in Timer |-> IF u = t THEN ref
                                            ELSE IF u = s.NextID[ref] THEN t ELSE @[u]]]

\* Only called with the first timer of the list: the branch for another one
\* (hw_timerserver.c:159-167) is never taken.
LinkTimerBefore(s, t, ref) == [s EXCEPT !.NextID[t] = ref, !.PreviousID[ref] = t]

\* The last timer of the leading ones that do not have more than n ticks left.
LastNotAfter(s, n) ==
  Node(s)[Max({k \in 0 .. MaxTimer - 1 :
                 \A j \in 0 .. k : Node(s)[j] # Nil /\ s.CountLeft[Node(s)[j]] <= n})]

linkTimer(s, t) ==
  IF s.Current = Nil
  THEN [s EXCEPT !.Previous = Nil, !.Current = t, !.NextID[t] = Nil,
                 !.SSRValueOnLastSetup = SSR_FORBIDDEN_VALUE]
  ELSE LET l == [s EXCEPT !.CountLeft[t] = @ + ReturnTimeElapsed(s)]
       IN IF l.CountLeft[l.Current] <= l.CountLeft[t]
          THEN LinkTimerAfter(l, t, LastNotAfter(l, l.CountLeft[t]))
          ELSE [LinkTimerBefore(l, t, l.Current) EXCEPT !.Previous = l.Current, !.Current = t]

\* Mutant: the timer after the removed one keeps its link to it.
UnlinkTimerOneWay(s, t, readSSR) ==
  LET u == [IF t = s.Current
            THEN [s EXCEPT !.Previous = s.Current, !.Current = s.NextID[t]]
            ELSE [s EXCEPT !.NextID[s.PreviousID[t]] = s.NextID[t]]
            EXCEPT !.TimerIDStatus[t] = "Created"]
  IN IF u.Current = Nil /\ readSSR
     THEN [u EXCEPT !.SSRValueOnLastSetup = SSR_FORBIDDEN_VALUE] ELSE u

UnlinkTimer(s, t, readSSR) ==
  LET u == [IF t = s.Current
            THEN [s EXCEPT !.Previous = s.Current, !.Current = s.NextID[t]]
            ELSE [s EXCEPT !.NextID[s.PreviousID[t]] = s.NextID[t],
                           !.PreviousID = [v \in Timer |-> IF v = s.NextID[t]
                                                           THEN s.PreviousID[t] ELSE @[v]]]
            EXCEPT !.TimerIDStatus[t] = "Created"]
  IN IF u.Current = Nil /\ readSSR
     THEN [u EXCEPT !.SSRValueOnLastSetup = SSR_FORBIDDEN_VALUE] ELSE u

\* Mutant: the counter and its interrupt are left on when the list empties.
StopKeepsCounter(s, t) ==
  IF s.TimerIDStatus[t] # "Running" THEN s ELSE UnlinkTimer(s, t, TRUE)

\* The critical section of HW_TS_Stop, before RescheduleTimerList.
StopTimer(s, t) ==
  IF s.TimerIDStatus[t] # "Running" THEN s
  ELSE LET u == UnlinkTimer(s, t, TRUE)
       IN IF u.Current = Nil THEN [u EXCEPT !.wut = 0, !.pending = FALSE] ELSE u

\* The same of HW_TS_Start, whose linkTimer reads the register.
StartTimer(s, t, n) ==
  LET l == linkTimer([s EXCEPT !.TimerIDStatus[t] = "Running", !.CountLeft[t] = n,
                               !.CounterInit[t] = n], t)
  IN IF l.Previous # l.Current THEN l
     ELSE [l EXCEPT !.CountLeft[t] = @ - ReturnTimeElapsed(s)]

----------------------------------------------------------------------------
(* The end of a call, and of the handler                                   *)

\* The list of u is rescheduled next if that is called for.
Continue(u, changed) ==
  /\ ts' = u
  /\ pc' = IF changed /\ u.Current # Nil /\ u.Previous # u.Current THEN "reschedule" ELSE "idle"
  /\ late' = IF u.pending \/ pc' = "reschedule" THEN late ELSE 0
  /\ UNCHANGED <<ssr, wakeup_timer_value>>

\* Mutant: the timers behind the first one are not updated.
RescheduleFirstOnly ==
  /\ pc = "reschedule" /\ pc' = "restart"
  /\ LET elapsed == ReturnTimeElapsed(ts)
         left    == ts.CountLeft[ts.Current]
         over    == left > elapsed + MaxWakeupTimerSetup
     IN /\ ts' = [ts EXCEPT !.wut = 0, !.Overpassed = over,
                            !.CountLeft[ts.Current] = IF @ < elapsed THEN 0 ELSE @ - elapsed]
        /\ wakeup_timer_value' = IF left < elapsed THEN 0
                                 ELSE IF over THEN MaxWakeupTimerSetup ELSE left - elapsed
  /\ callback' = None
  /\ UNCHANGED <<ssr, starting, late, rem, lost>>

\* The counter is disabled, the register read, and every count updated.
RescheduleTimerList ==
  /\ pc = "reschedule" /\ pc' = "restart"
  /\ LET elapsed == ReturnTimeElapsed(ts)
         left    == ts.CountLeft[ts.Current]
         over    == left > elapsed + MaxWakeupTimerSetup
     IN /\ ts' = [ts EXCEPT !.wut = 0, !.Overpassed = over,
                            !.CountLeft = [t \in Timer |-> IF t \notin Listed(ts) THEN @[t]
                                                           ELSE IF @[t] < elapsed THEN 0
                                                           ELSE @[t] - elapsed]]
        /\ wakeup_timer_value' = IF left < elapsed THEN 0
                                 ELSE IF over THEN MaxWakeupTimerSetup ELSE left - elapsed
  /\ callback' = None
  /\ UNCHANGED <<ssr, starting, late, rem, lost>>

\* Mutant: a value of 0 does not simulate the interrupt.
RestartSilently ==
  /\ pc = "restart" /\ pc' = "idle"
  /\ ts' = [ts EXCEPT !.SSRValueOnLastSetup = ssr, !.wut = wakeup_timer_value, !.pending = FALSE]
  /\ wakeup_timer_value' = 0 /\ late' = 0 /\ callback' = None
  /\ UNCHANGED <<ssr, starting, rem, lost>>

\* The counter, which has become writable, is written, and the register read
\* again.  Written minus one, the counter expires after value ticks; a value of
\* 0 simulates the interrupt, which otherwise is cleared.
RestartWakeupCounter ==
  /\ pc = "restart" /\ pc' = "idle"
  /\ ts' = [ts EXCEPT !.SSRValueOnLastSetup = ssr, !.wut = wakeup_timer_value,
                      !.pending = (wakeup_timer_value = 0)]
  /\ wakeup_timer_value' = 0
  /\ late' = IF ts.pending /\ ts'.pending THEN late ELSE 0
  /\ callback' = None
  /\ UNCHANGED <<ssr, starting, rem, lost>>

----------------------------------------------------------------------------
(* The calls of the thread                                                 *)

Idle == pc = "idle" /\ starting = None

HW_TS_Create(t, mode) ==
  /\ Idle
  /\ ts.TimerIDStatus[t] = "Free" /\ \A u \in 0 .. t - 1 : ts.TimerIDStatus[u] # "Free"
  /\ ts' = [ts EXCEPT !.TimerIDStatus[t] = "Created", !.TimerMode[t] = mode]
  /\ callback' = None
  /\ UNCHANGED <<ssr, pc, wakeup_timer_value, starting, late, rem, lost>>

\* The ghosts of a timer that no longer runs, and of one started with n ticks.
Forget(t) == rem' = [rem EXCEPT ![t] = Off] /\ lost' = [lost EXCEPT ![t] = 0]
Count(t, n) == rem' = [rem EXCEPT ![t] = n] /\ lost' = [lost EXCEPT ![t] = 0]

HW_TS_Stop(t) ==
  /\ Idle /\ ts.TimerIDStatus[t] # "Free"
  /\ Continue(StopTimer(ts, t), ts.TimerIDStatus[t] = "Running")
  /\ Forget(t) /\ callback' = None
  /\ UNCHANGED starting

\* The thread alone looks at a status that is not Running: it may be Free
\* before the list is rescheduled.
HW_TS_Delete(t) ==
  /\ Idle /\ ts.TimerIDStatus[t] # "Free"
  /\ Continue([StopTimer(ts, t) EXCEPT !.TimerIDStatus[t] = "Free"],
              ts.TimerIDStatus[t] = "Running")
  /\ Forget(t) /\ callback' = None
  /\ UNCHANGED starting

\* The test, and the stop of a timer that is running.
HW_TS_Start(t, n) ==
  /\ Idle /\ ts.TimerIDStatus[t] # "Free"
  /\ starting' = [timer |-> t, ticks |-> n]
  /\ Continue(StopTimer(ts, t), ts.TimerIDStatus[t] = "Running")
  /\ Forget(t) /\ callback' = None

HW_TS_Started ==
  /\ pc = "idle" /\ starting # None /\ starting' = None
  /\ Continue(StartTimer(ts, starting.timer, starting.ticks), TRUE)
  /\ Count(starting.timer, starting.ticks) /\ callback' = None

----------------------------------------------------------------------------
(* HW_TS_RTC_Wakeup_Handler: the thread's calls cannot interrupt it.       *)

\* Mutant: the limited counter is taken for the end of the delay.
HandlerIgnoresLimit ==
  /\ pc = "idle" /\ ts.pending
  /\ LET t == ts.Current
         s == [ts EXCEPT !.pending = FALSE, !.wut = 0]
     IN /\ t # Nil
        /\ IF s.TimerMode[t] = "Repeated"
           THEN /\ Continue(StartTimer(UnlinkTimer(s, t, FALSE), t, s.CounterInit[t]), TRUE)
                /\ Count(t, s.CounterInit[t])
           ELSE Continue(StopTimer(s, t), TRUE) /\ Forget(t)
        /\ callback' = t
  /\ UNCHANGED starting

\* The branch for an interrupt that finds no running timer is never taken:
\* NoSpuriousInterrupt below.
HW_TS_RTC_Wakeup_Handler ==
  /\ pc = "idle" /\ ts.pending
  /\ LET t == ts.Current
         s == [ts EXCEPT !.pending = FALSE, !.wut = 0]
     IN /\ t # Nil
        /\ IF s.Overpassed
           THEN /\ ts' = s /\ pc' = "reschedule"
                /\ callback' = None
                /\ UNCHANGED <<ssr, wakeup_timer_value, late, rem, lost>>
           ELSE /\ IF s.TimerMode[t] = "Repeated"
                   THEN /\ Continue(StartTimer(UnlinkTimer(s, t, FALSE), t, s.CounterInit[t]), TRUE)
                        /\ Count(t, s.CounterInit[t])
                   ELSE Continue(StopTimer(s, t), TRUE) /\ Forget(t)
                /\ callback' = t
  /\ UNCHANGED starting

----------------------------------------------------------------------------
(* Time                                                                    *)

Expired(wut) == ts.wut > 0 /\ wut = 0

\* The ticks are counted: there is a reference, and its elapsed ticks are read
\* before the next one is taken.
Counting == pc # "restart" /\ ts.SSRValueOnLastSetup # SSR_FORBIDDEN_VALUE

Tick ==
  /\ ts.pending \/ pc # "idle" => late < Latency
  /\ Counting \/ \A t \in Timer : rem[t] # Off => lost[t] < MaxLost
  /\ ssr' = IF ssr = 0 THEN Wrap - 1 ELSE ssr - 1
  /\ LET wut == IF ts.wut > 0 THEN ts.wut - 1 ELSE 0
     IN ts' = [ts EXCEPT !.wut = wut, !.pending = @ \/ Expired(wut)]
  /\ late' = IF ts.pending \/ pc # "idle" THEN late + 1 ELSE 0
  /\ rem' = [t \in Timer |-> IF rem[t] = Off THEN Off ELSE rem[t] - 1]
  /\ lost' = [t \in Timer |-> IF rem[t] = Off \/ Counting THEN lost[t] ELSE lost[t] + 1]
  /\ callback' = None
  /\ UNCHANGED <<pc, wakeup_timer_value, starting>>

\* The counter expires ahead of the edge of the register.
ExpireEarly ==
  /\ ts.wut \in 1 .. Jitter /\ ~ ts.pending
  /\ ts' = [ts EXCEPT !.wut = 0, !.pending = TRUE]
  /\ late' = IF pc = "idle" THEN 0 ELSE late
  /\ callback' = None
  /\ UNCHANGED <<ssr, pc, wakeup_timer_value, starting, rem, lost>>

Thread ==
  \E t \in Timer :
    \/ \E mode \in {"SingleShot", "Repeated"} : HW_TS_Create(t, mode)
    \/ HW_TS_Stop(t) \/ HW_TS_Delete(t)
    \/ \E n \in Timeouts : HW_TS_Start(t, n)

Next ==
  \/ Thread \/ HW_TS_Started \/ HW_TS_RTC_Wakeup_Handler
  \/ RescheduleTimerList \/ RestartWakeupCounter
  \/ Tick \/ ExpireEarly

Spec == Init /\ [][Next]_vars

----------------------------------------------------------------------------
Running == {t \in Timer : ts.TimerIDStatus[t] = "Running"}

TypeOK ==
  /\ ts.TimerIDStatus \in [Timer -> {"Free", "Created", "Running"}]
  /\ ts.TimerMode \in [Timer -> {"SingleShot", "Repeated"}]
  /\ ts.CounterInit \in [Timer -> Nat] /\ ts.CountLeft \in [Timer -> Nat]
  /\ ts.NextID \in [Timer -> Timer \cup {Nil}] /\ ts.PreviousID \in [Timer -> Timer]
  /\ ts.Current \in Timer \cup {Nil} /\ ts.Previous \in Timer \cup {Nil}
  /\ ts.SSRValueOnLastSetup \in -1 .. Wrap - 1
  /\ ts.Overpassed \in BOOLEAN /\ ts.pending \in BOOLEAN
  /\ ts.wut \in 0 .. MaxWakeupTimerSetup
  /\ ssr \in 0 .. Wrap - 1 /\ late \in 0 .. Latency
  /\ pc \in {"idle", "reschedule", "restart"}
  /\ wakeup_timer_value \in 0 .. MaxWakeupTimerSetup
  /\ lost \in [Timer -> Nat]

\* The list holds exactly the running timers, once each, in the order of the
\* ticks they have left, and can be walked back to its second timer.
ListIsRunning ==
  /\ Listed(ts) = Running
  /\ Node(ts)[Cardinality(Running)] = Nil
  /\ \A k \in 0 .. MaxTimer - 1 :
       LET t == Node(ts)[k]  u == Node(ts)[k + 1] IN
       t # Nil /\ u # Nil => ts.CountLeft[t] <= ts.CountLeft[u] /\ ts.PreviousID[u] = t

\* The real time a timer has left, and the ticks it has lost: what is left to
\* count for it.
Due(t) == rem[t] + lost[t]

\* Between its two readings RescheduleTimerList has taken the elapsed ticks off.
Elapsed == IF pc = "restart" THEN 0 ELSE ReturnTimeElapsed(ts)

\* The program's count of each timer differs from the real time it has left by
\* the ticks lost between two readings of the register, and by no other:
\* however often the list was rescheduled, the register wrapped or the interrupt
\* was late, it never runs ahead.
CountLeftIsExact ==
  \A t \in Running :
    LET left == ts.CountLeft[t] - Elapsed IN
    IF left > 0 THEN Due(t) = left ELSE Due(t) <= 0

\* A timer that runs is never forgotten: the counter is being programmed, or
\* the interrupt is pending, or the counter runs and expires when nothing more
\* is left to count for the first timer, or before.
AlwaysArmed ==
  Running # {} /\ pc = "idle" =>
    ts.pending \/ (ts.wut > 0 /\ \A t \in Running : ts.wut <= Due(t))

\* "We should never end up in this case" (hw_timerserver.c:557): an interrupt
\* finds a running timer, and never indexes aTimerContext[] outside of it.
NoSpuriousInterrupt == ts.pending => ts.Current \in Running

\* The alarms the callers rely on.  Timers due together expire one interrupt
\* after the other, and the last part of a delay that was split may start late;
\* the ticks lost come on top, at most Latency for each call or interrupt.
Service == INSTANCE Alarms WITH
  armed <- rem, programming <- IF pc = "idle" THEN 0 ELSE Latency - late,
  Early <- Jitter, Late <- (MaxTimer + 1) * Latency, Loss <- Latency

TimersExpireInTime == Service!Spec

=============================================================================
