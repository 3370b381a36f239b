-------------------------- MODULE SequencerProofs --------------------------
(***************************************************************************)
(* Proofs about Sequencer, for any number of tasks, priorities and events, *)
(* any masks and any nesting depth.                                        *)
(***************************************************************************)
EXTENDS SequencerRoundRobin, WellFoundedInduction, TLAPS

----------------------------------------------------------------------------
(* SEQ_BitPosition                                                         *)

\* A set of naturals that is not empty has a least element.
LEMMA LeastElement ==
  ASSUME NEW T, T \subseteq Nat, T # {}
  PROVE  \E x \in T : \A y \in T : x <= y
<1> DEFINE R == OpToRel(<, Nat)
<1>1. IsWellFoundedOn(R, Nat)
  BY NatLessThanWellFounded
<1>2. PICK x \in T : \A y \in T : ~ (<<y, x>> \in R)
  <2> HIDE DEF R
  <2> QED BY <1>1, WFMin
<1>3. \A y \in T : ~ (y < x)
  BY <1>2 DEF OpToRel
<1> QED BY <1>3

\* Any mask that is not zero has a highest bit, and SEQ_BitPosition returns it
\* (stm32_seq.c:537): the sequencer never indexes TaskCb[] with another value.
LEMMA BitPositionIsSet ==
  ASSUME NEW S, S \subseteq Task, S # {}
  PROVE  BitPosition(S) \in S
<1> DEFINE T == {TaskNbr - s : s \in S}
<1>1. S \subseteq Int /\ \A s \in S : TaskNbr - s \in Nat
  BY SequencerAssumption DEF Task
<1>2. T \subseteq Nat /\ T # {}
  BY <1>1
<1>3. PICK x \in T : \A y \in T : x <= y
  BY <1>2, LeastElement
<1>4. PICK s \in S : x = TaskNbr - s
  BY <1>3
<1>5. ASSUME NEW u \in S PROVE u <= s
  <2>1. TaskNbr - s <= TaskNbr - u
    BY <1>3, <1>4
  <2> QED BY <2>1, <1>1, SequencerAssumption
<1> QED BY <1>4, <1>5 DEF BitPosition

----------------------------------------------------------------------------
(* The priority search and the task that is run                            *)

SchedInv == TypeOK /\ PendingHasPriority /\ SearchWillStop /\ SelectedIsPending /\ RunningInv

LEMMA SchedInit == Init => SchedInv
<1> SUFFICES ASSUME Init PROVE SchedInv
  OBVIOUS
<1> USE SequencerAssumption DEF Init
<1>1. TypeOK
  BY DEF TypeOK, Task, Prio, NoTaskRunning, PCs
<1>2. PendingHasPriority
  BY DEF PendingHasPriority
<1>3. SearchWillStop /\ SelectedIsPending /\ RunningInv
  BY DEF SearchWillStop, SelectedIsPending, RunningInv
<1> QED BY <1>1, <1>2, <1>3 DEF SchedInv

\* The actions of the thread that leave every request alone.
LEMMA SchedThread ==
  ASSUME SchedInv,
         \/ \E m \in RunMasks : MainRun(m) \/ EvtIdle(m)
         \/ Sample \/ Leave \/ EvtSeen \/ Return
  PROVE  SchedInv'
<1> USE SequencerAssumption DEF SchedInv
<1>1. ASSUME NEW m \in RunMasks, MainRun(m) \/ EvtIdle(m) PROVE SchedInv'
  <2>1. TypeOK'
    BY <1>1 DEF MainRun, EvtIdle, RunEnter, TypeOK, PCs
  <2>2. PendingHasPriority'
    BY <1>1 DEF MainRun, EvtIdle, RunEnter, PendingHasPriority
  <2>3. (SearchWillStop /\ SelectedIsPending /\ RunningInv)'
    BY <1>1 DEF MainRun, EvtIdle, RunEnter, SearchWillStop, SelectedIsPending, RunningInv
  <2> QED BY <2>1, <2>2, <2>3
<1>2. CASE Sample
  <2> USE <1>2 DEF Sample, Goto, statics
  <2>1. TypeOK'
    BY DEF TypeOK, PCs
  <2>2. PendingHasPriority'
    BY DEF PendingHasPriority
  <2>3. (SearchWillStop /\ SelectedIsPending /\ RunningInv)'
    BY DEF SearchWillStop, SelectedIsPending, RunningInv
  <2> QED BY <2>1, <2>2, <2>3
<1>3. CASE Leave
  <2> USE <1>3 DEF Leave, locals
  <2>1. TypeOK'
    BY DEF TypeOK, PCs
  <2>2. PendingHasPriority'
    BY DEF PendingHasPriority
  <2>3. (SearchWillStop /\ SelectedIsPending /\ RunningInv)'
    BY DEF SearchWillStop, SelectedIsPending, RunningInv
  <2> QED BY <2>1, <2>2, <2>3
<1>4. CASE EvtSeen
  <2> USE <1>4 DEF EvtSeen, Goto, statics, locals
  <2>1. TypeOK'
    BY DEF TypeOK, PCs
  <2>2. PendingHasPriority'
    BY DEF PendingHasPriority
  <2>3. (SearchWillStop /\ SelectedIsPending /\ RunningInv)'
    BY DEF SearchWillStop, SelectedIsPending, RunningInv
  <2> QED BY <2>1, <2>2, <2>3
<1>5. CASE Return
  <2> USE <1>5 DEF Return, Goto, statics
  <2>1. TypeOK'
    BY DEF TypeOK, PCs
  <2>2. PendingHasPriority'
    BY DEF PendingHasPriority
  <2>3. (SearchWillStop /\ SelectedIsPending /\ RunningInv)'
    BY DEF SearchWillStop, SelectedIsPending, RunningInv
  <2> QED BY <2>1, <2>2, <2>3
<1> QED BY <1>1, <1>2, <1>3, <1>4, <1>5

\* The test of the loop: an eligible request has a bit at some priority level.
LEMMA SchedTest == SchedInv /\ Test => SchedInv'
<1> SUFFICES ASSUME SchedInv, Test PROVE SchedInv'
  OBVIOUS
<1> USE SequencerAssumption DEF SchedInv, Test, statics
<1>1. TypeOK'
  BY DEF TypeOK, PCs
<1>2. PendingHasPriority'
  BY DEF PendingHasPriority
<1>3. SearchWillStop'
  <2>1. CASE pc' = "search"
    <3>1. PICK t \in Eligible(local_taskset) : TRUE
      BY <2>1
    <3>2. PICK p \in Prio : t \in priority[p]
      BY <3>1 DEF Eligible, SearchWillStop, PendingHasPriority
    <3>3. t \in Eligible(priority[p])'
      BY <3>1, <3>2 DEF Eligible
    <3>4. (counter <= p)'
      BY DEF Prio
    <3> QED BY <2>1, <3>3, <3>4 DEF SearchWillStop
  <2>2. CASE pc' = "idle"
    BY <2>2 DEF SearchWillStop
  <2> QED BY <2>1, <2>2
<1>4. (SelectedIsPending /\ RunningInv)'
  BY DEF SelectedIsPending, RunningInv
<1> QED BY <1>1, <1>2, <1>3, <1>4

\* The search moves up only past a level with no eligible request.
LEMMA SchedSearch == SchedInv /\ Search => SchedInv'
<1> SUFFICES ASSUME SchedInv, Search PROVE SchedInv'
  OBVIOUS
<1> USE SequencerAssumption DEF SchedInv, Search, statics
<1>1. TypeOK'
  BY DEF TypeOK, PCs, Prio
<1>2. PendingHasPriority'
  BY DEF PendingHasPriority
<1>3. SearchWillStop'
  <2>1. CASE Eligible(priority[counter]) = {}
    <3>1. PICK p \in Prio : counter <= p /\ Eligible(priority[p]) # {}
      BY DEF SearchWillStop
    <3>2. counter' <= p
      BY <2>1, <3>1 DEF Prio
    <3>3. Eligible(priority[p])' # {}
      BY <3>1 DEF Eligible
    <3> QED BY <2>1, <3>2, <3>3 DEF SearchWillStop
  <2>2. CASE Eligible(priority[counter]) # {}
    <3>1. Eligible(priority[counter])' # {}
      BY <2>2 DEF Eligible
    <3> QED BY <2>2, <3>1 DEF SearchWillStop
  <2> QED BY <2>1, <2>2
<1>4. (SelectedIsPending /\ RunningInv)'
  BY DEF SelectedIsPending, RunningInv
<1> QED BY <1>1, <1>2, <1>3, <1>4

\* The selection picks an eligible, pending task of the level found.
LEMMA SchedSelect == SchedInv /\ Select => SchedInv'
<1> SUFFICES ASSUME SchedInv, Select PROVE SchedInv'
  OBVIOUS
<1> USE SequencerAssumption DEF SchedInv, Goto, locals
<1> DEFINE cur == Eligible(priority[counter])
           rr  == RoundRobin(cur)
           idx == BitPosition(cur \cap rr)
<1>1. counter \in Prio /\ cur # {} /\ cur \subseteq Task
  BY DEF Select, SearchWillStop, Eligible, TypeOK
<1>2. rr \subseteq Task /\ cur \cap rr # {}
  BY <1>1 DEF RoundRobin, TypeOK
<1>3. idx \in cur
  BY <1>1, <1>2, BitPositionIsSet
<1>4. /\ CurrentTaskIdx' = idx
      /\ round_robin' = [round_robin EXCEPT ![counter] = rr \ {idx}]
      /\ pc' = "clear"
      /\ UNCHANGED <<TaskSet, TaskMask, SuperMask, EvtSet, EvtWaited, priority,
                     local_taskset, counter, super_mask_backup, running, depth, callers>>
  BY DEF Select
<1> HIDE DEF rr, idx
<1>5. TypeOK'
  BY <1>1, <1>2, <1>3, <1>4 DEF TypeOK, PCs
<1>6. PendingHasPriority'
  BY <1>4 DEF PendingHasPriority
<1>7. (SearchWillStop /\ RunningInv)'
  BY <1>4 DEF SearchWillStop, RunningInv
<1>8. SelectedIsPending'
  <2>1. idx \in Eligible(TaskSet)
    BY <1>1, <1>3 DEF Eligible, PendingHasPriority
  <2> QED BY <1>4, <2>1 DEF SelectedIsPending, Eligible
<1> QED BY <1>5, <1>6, <1>7, <1>8

\* The critical section removes one task from TaskSet and from every level.
LEMMA SchedClear == SchedInv /\ Clear => SchedInv'
<1> SUFFICES ASSUME SchedInv, Clear PROVE SchedInv'
  OBVIOUS
<1> USE SequencerAssumption DEF SchedInv, Clear, Goto
<1>1. CurrentTaskIdx \in Task
  BY DEF SelectedIsPending, Eligible, TypeOK
<1>2. TypeOK'
  BY <1>1 DEF TypeOK, PCs
<1>3. PendingHasPriority'
  BY DEF PendingHasPriority
<1>4. (SearchWillStop /\ SelectedIsPending /\ RunningInv)'
  BY <1>1 DEF SearchWillStop, SelectedIsPending, RunningInv
<1> QED BY <1>2, <1>3, <1>4

\* A request may be added at any moment: none of the facts the thread relies
\* on between two of its steps is lost.
LEMMA SchedInterrupt ==
  ASSUME SchedInv, Interrupt PROVE SchedInv'
<1> USE SequencerAssumption DEF SchedInv, locals
<1>1. ASSUME NEW t \in Task, NEW p \in Prio, SetTask(t, p) PROVE SchedInv'
  <2> USE <1>1 DEF SetTask
  <2>1. \A q \in Prio : priority'[q] = priority[q] \cup (IF q = p THEN {t} ELSE {})
    BY DEF TypeOK
  <2>2. TypeOK'
    BY DEF TypeOK
  <2>3. PendingHasPriority'
    BY <2>1 DEF PendingHasPriority
  <2>4. \A q \in Prio : Eligible(priority[q]) \subseteq Eligible(priority[q])'
    BY <2>1 DEF Eligible
  <2>5. SearchWillStop'
    BY <2>4 DEF SearchWillStop
  <2>6. (SelectedIsPending /\ RunningInv)'
    BY DEF SelectedIsPending, RunningInv, Eligible
  <2> QED BY <2>2, <2>3, <2>5, <2>6
<1>2. ASSUME NEW e \in Evt, SetEvt(e) PROVE SchedInv'
  <2> USE <1>2 DEF SetEvt
  <2>1. TypeOK'
    BY DEF TypeOK
  <2>2. (PendingHasPriority /\ SelectedIsPending /\ RunningInv)'
    BY DEF PendingHasPriority, SelectedIsPending, RunningInv, Eligible
  <2>3. SearchWillStop'
    BY DEF SearchWillStop, Eligible
  <2> QED BY <2>1, <2>2, <2>3
<1> QED BY <1>1, <1>2 DEF Interrupt

LEMMA SchedPause ==
  ASSUME SchedInv, NEW m \in PauseMasks, PauseTask(m) \/ ResumeTask(m)
  PROVE  SchedInv'
<1> USE SequencerAssumption DEF SchedInv, PauseTask, ResumeTask, locals
<1>1. TypeOK'
  BY DEF TypeOK
<1>2. (PendingHasPriority /\ SelectedIsPending /\ RunningInv /\ SearchWillStop)'
  BY DEF PendingHasPriority, SelectedIsPending, RunningInv, SearchWillStop
<1> QED BY <1>1, <1>2

LEMMA SchedWait ==
  ASSUME SchedInv, NEW e \in Evt, WaitEvt(e) PROVE SchedInv'
<1> USE SequencerAssumption DEF SchedInv, WaitEvt, Goto
<1> DEFINE f == [evt |-> e, waited |-> EvtWaited, idx |-> CurrentTaskIdx,
                 super |-> super_mask_backup, task |-> running]
<1>1. f \in Frame /\ f.idx = f.task
  BY DEF Frame, TypeOK, RunningInv
<1>2. depth' \in 0 .. MaxNest /\ depth' = depth + 1
  BY DEF TypeOK
<1>3. callers' = [i \in 1 .. depth' |-> IF i <= depth THEN callers[i] ELSE f]
  BY <1>2
<1> HIDE DEF f
<1>4. callers' \in [1 .. depth' -> Frame]
  BY <1>1, <1>2, <1>3 DEF TypeOK
<1>5. TypeOK'
  BY <1>2, <1>4 DEF TypeOK, PCs, NoTaskRunning
<1>6. RunningInv'
  BY <1>1, <1>2, <1>3 DEF RunningInv, TypeOK
<1>7. (PendingHasPriority /\ SelectedIsPending /\ SearchWillStop)'
  BY DEF PendingHasPriority, SelectedIsPending, SearchWillStop
<1> QED BY <1>5, <1>6, <1>7

LEMMA SchedWaitDone ==
  ASSUME SchedInv, depth > 0, WaitDone PROVE SchedInv'
<1> USE SequencerAssumption DEF SchedInv, WaitDone, Goto
<1>1. depth \in 1 .. depth /\ depth - 1 \in 0 .. MaxNest /\ 1 .. depth - 1 \subseteq 1 .. depth
  BY DEF TypeOK
<1>2. callers[depth] \in Frame
  BY <1>1 DEF TypeOK
<1>3. callers' \in [1 .. depth' -> Frame]
  BY <1>1 DEF TypeOK
<1>4. TypeOK'
  BY <1>1, <1>2, <1>3 DEF TypeOK, PCs, Frame
<1>5. RunningInv'
  BY <1>1, <1>2 DEF RunningInv, Frame
<1>6. (PendingHasPriority /\ SelectedIsPending /\ SearchWillStop)'
  BY DEF PendingHasPriority, SelectedIsPending, SearchWillStop
<1> QED BY <1>4, <1>5, <1>6

----------------------------------------------------------------------------
(* Nested waits                                                            *)

LEMMA WaitInit == Init => WaitInv
<1> SUFFICES ASSUME Init PROVE WaitInv
  OBVIOUS
<1>1. depth = 0 /\ pc = "main" /\ EvtWaited = {}
  BY DEF Init
<1>2. WaitsForInnermost
  BY <1>1 DEF WaitsForInnermost
<1> QED BY <1>1, <1>2 DEF WaitInv

\* Nothing but UTIL_SEQ_WaitEvt itself touches EvtWaited and the saved frames.
LEMMA WaitStutter ==
  ASSUME WaitInv, EvtWaited' = EvtWaited, depth' = depth, callers' = callers,
         pc' \in {"wait", "woken"} => pc \in {"wait", "woken"} \/ depth > 0
  PROVE  WaitInv'
<1>1. WaitsForInnermost'
  BY DEF WaitInv, WaitsForInnermost
<1>2. pc' \in {"wait", "woken"} => depth' > 0
  BY DEF WaitInv
<1>3. \A i \in 1 .. depth' :
        callers'[i].waited = IF i = 1 THEN {} ELSE {callers'[i - 1].evt}
  BY DEF WaitInv
<1> QED BY <1>1, <1>2, <1>3 DEF WaitInv

LEMMA WaitPush ==
  ASSUME TypeOK, WaitInv, NEW e \in Evt, WaitEvt(e) PROVE WaitInv'
<1>1. /\ depth \in Nat /\ depth' = depth + 1 /\ depth' # 0 /\ depth' > 0
      /\ EvtWaited' = {e} /\ pc' = "wait"
  BY DEF WaitEvt, Goto, TypeOK
<1>2. /\ callers'[depth'].evt = e /\ callers'[depth'].waited = EvtWaited
      /\ \A i \in 1 .. depth : callers'[i] = callers[i]
  BY <1>1 DEF WaitEvt
<1>3. WaitsForInnermost'
  BY <1>1, <1>2 DEF WaitsForInnermost
<1>4. ASSUME NEW i \in 1 .. depth'
      PROVE  callers'[i].waited = IF i = 1 THEN {} ELSE {callers'[i - 1].evt}
  <2>1. CASE i = depth'
    <3>1. EvtWaited = IF depth = 0 THEN {} ELSE {callers[depth].evt}
      BY DEF WaitInv, WaitsForInnermost
    <3>2. i - 1 = depth /\ (i = 1 <=> depth = 0)
      BY <1>1, <2>1
    <3>3. depth # 0 => callers'[depth] = callers[depth]
      BY <1>1, <1>2
    <3> QED BY <1>2, <2>1, <3>1, <3>2, <3>3
  <2>2. CASE i # depth'
    <3>1. i \in 1 .. depth /\ (i # 1 => i - 1 \in 1 .. depth)
      BY <1>1, <2>2
    <3>2. callers[i].waited = IF i = 1 THEN {} ELSE {callers[i - 1].evt}
      BY <3>1 DEF WaitInv
    <3> QED BY <1>2, <3>1, <3>2
  <2> QED BY <2>1, <2>2
<1> QED BY <1>1, <1>3, <1>4 DEF WaitInv

LEMMA WaitPop ==
  ASSUME TypeOK, WaitInv, WaitDone PROVE WaitInv'
<1>1. /\ depth \in 1 .. depth /\ depth' = depth - 1 /\ depth' \in Nat
      /\ pc' = "body" /\ EvtWaited' = callers[depth].waited
  BY DEF WaitDone, Goto, TypeOK, WaitInv
<1>2. \A i \in 1 .. depth' : callers'[i] = callers[i] /\ i \in 1 .. depth
  BY <1>1 DEF WaitDone
<1>3. WaitsForInnermost'
  <2>1. EvtWaited' = IF depth = 1 THEN {} ELSE {callers[depth - 1].evt}
    BY <1>1 DEF WaitInv
  <2>2. depth' = 0 <=> depth = 1
    BY <1>1
  <2>3. depth # 1 => callers'[depth'] = callers[depth - 1]
    BY <1>1, <1>2
  <2> QED BY <2>1, <2>2, <2>3 DEF WaitsForInnermost
<1>4. ASSUME NEW i \in 1 .. depth'
      PROVE  callers'[i].waited = IF i = 1 THEN {} ELSE {callers'[i - 1].evt}
  <2>1. i \in 1 .. depth /\ (i # 1 => i - 1 \in 1 .. depth')
    BY <1>1
  <2>2. callers[i].waited = IF i = 1 THEN {} ELSE {callers[i - 1].evt}
    BY <2>1 DEF WaitInv
  <2> QED BY <1>2, <2>1, <2>2
<1> QED BY <1>1, <1>3, <1>4 DEF WaitInv

----------------------------------------------------------------------------
(* Nested masks                                                            *)

LEMMA MaskInit == Init => MaskNesting
<1> SUFFICES ASSUME Init PROVE MaskNesting
  OBVIOUS
<1> QED BY DEF Init, MaskNesting, OuterMask, InRun

LEMMA MaskStutter ==
  ASSUME MaskNesting, SuperMask' = SuperMask, super_mask_backup' = super_mask_backup,
         depth' = depth, callers' = callers,
         InRun' => InRun, pc' = "main" => pc = "main"
  PROVE  MaskNesting'
<1>1. \A i : OuterMask(i)' = OuterMask(i)
  BY DEF OuterMask
<1> QED BY <1>1 DEF MaskNesting

LEMMA MaskEnter ==
  ASSUME TypeOK, MaskNesting, NEW m \in RunMasks, RunEnter(m)
  PROVE  MaskNesting'
<1>1. /\ super_mask_backup' = SuperMask /\ SuperMask' = SuperMask \cap m
      /\ depth' = depth /\ callers' = callers /\ pc' = "sample"
  BY DEF RunEnter
<1>2. \A i : OuterMask(i)' = OuterMask(i)
  BY <1>1 DEF OuterMask
<1>3. SuperMask' \subseteq SuperMask /\ SuperMask \subseteq OuterMask(depth)
  BY <1>1 DEF MaskNesting
<1> QED BY <1>1, <1>2, <1>3 DEF MaskNesting

LEMMA MaskLeave ==
  ASSUME TypeOK, MaskNesting, MainMaskInv, Leave
  PROVE  MaskNesting'
<1>1. /\ SuperMask' = super_mask_backup /\ depth' = depth /\ callers' = callers
      /\ pc = "idle" /\ pc' = IF depth = 0 THEN "main" ELSE "wait"
  BY DEF Leave, locals
<1>2. \A i : OuterMask(i)' = OuterMask(i)
  BY <1>1 DEF OuterMask
<1>3. super_mask_backup \subseteq OuterMask(depth) /\ SuperMask \subseteq super_mask_backup
  BY <1>1 DEF MaskNesting, InRun
<1>4. CASE depth = 0
  <2>1. SuperMask' = Task
    BY <1>1, <1>4 DEF MainMaskInv, InRun
  <2> QED BY <1>1, <1>2, <1>3, <2>1, <1>4 DEF MaskNesting, InRun, OuterMask
<1>5. CASE depth # 0
  <2>1. ~ InRun' /\ pc' # "main"
    BY <1>1, <1>5 DEF InRun
  <2> QED BY <1>1, <1>2, <1>3, <2>1 DEF MaskNesting
<1> QED BY <1>4, <1>5

LEMMA MainMaskStep ==
  ASSUME TypeOK, WaitInv, MaskNesting, MainMaskInv, [Next]_vars
  PROVE  MainMaskInv'
<1> USE DEF MainMaskInv, InRun
<1>1. ASSUME NEW m \in RunMasks, MainRun(m) \/ EvtIdle(m) PROVE MainMaskInv'
  BY <1>1 DEF MainRun, EvtIdle, RunEnter, WaitInv, MaskNesting
<1>2. CASE Leave
  <2>1. depth = 0 \/ depth > 0
    BY DEF TypeOK
  <2> QED BY <1>2, <2>1 DEF Leave, locals
<1>3. ASSUME NEW e \in Evt, WaitEvt(e) PROVE MainMaskInv'
  <2>1. /\ depth \in Nat /\ depth' = depth + 1 /\ depth' # 0 /\ pc = "body" /\ pc' = "wait"
        /\ 1 \in 1 .. depth + 1
    BY <1>3 DEF WaitEvt, Goto, TypeOK
  <2>2. callers'[1].super = IF depth = 0 THEN super_mask_backup ELSE callers[1].super
    BY <1>3, <2>1 DEF WaitEvt
  <2>3. callers'[1].super = Task
    BY <2>1, <2>2
  <2> QED BY <2>1, <2>3
<1>4. CASE WaitDone
  <2>1. /\ depth \in 1 .. depth /\ depth' = depth - 1 /\ pc' = "body"
        /\ super_mask_backup' = callers[depth].super /\ callers[1].super = Task
    BY <1>4 DEF WaitDone, Goto, TypeOK, WaitInv
  <2>2. CASE depth = 1
    BY <2>1, <2>2
  <2>3. CASE depth # 1
    <3>1. 1 \in 1 .. depth - 1 /\ depth' # 0
      BY <2>1, <2>3
    <3>2. callers'[1] = callers[1]
      BY <1>4, <3>1 DEF WaitDone
    <3> QED BY <2>1, <3>1, <3>2
  <2> QED BY <2>2, <2>3
<1>5. CASE EvtSeen \/ Sample \/ Test \/ Search \/ Select \/ Clear \/ Return
  BY <1>5 DEF EvtSeen, Sample, Test, Search, Select, Clear, Return, Goto, statics, locals
<1>6. ASSUME NEW m \in PauseMasks, PauseTask(m) \/ ResumeTask(m) PROVE MainMaskInv'
  BY <1>6 DEF PauseTask, ResumeTask, locals
<1>7. CASE Interrupt
  BY <1>7 DEF Interrupt, SetTask, SetEvt, locals
<1>8. CASE UNCHANGED vars
  BY <1>8 DEF vars, statics, locals
<1> QED BY <1>1, <1>2, <1>3, <1>4, <1>5, <1>6, <1>7, <1>8 DEF Next, Thread, TaskBody

LEMMA MaskPush ==
  ASSUME TypeOK, MaskNesting, NEW e \in Evt, WaitEvt(e)
  PROVE  MaskNesting'
<1>1. /\ depth' = depth + 1 /\ depth \in Nat /\ pc' = "wait" /\ pc = "body"
      /\ SuperMask' = SuperMask
  BY DEF WaitEvt, Goto, TypeOK
<1>2. \A i \in 0 .. depth : OuterMask(i)' = OuterMask(i)
  BY <1>1 DEF WaitEvt, OuterMask
<1>3. \A i : i = depth + 1 => OuterMask(i)' = super_mask_backup
  BY <1>1 DEF WaitEvt, OuterMask
<1>4. /\ \A i \in 1 .. depth : OuterMask(i) \subseteq OuterMask(i - 1)
      /\ SuperMask \subseteq super_mask_backup /\ super_mask_backup \subseteq OuterMask(depth)
  BY <1>1 DEF MaskNesting, InRun
<1>5. ASSUME NEW i \in 1 .. depth + 1 PROVE OuterMask(i)' \subseteq OuterMask(i - 1)'
  <2>1. i - 1 \in 0 .. depth /\ (i \in 1 .. depth \/ i = depth + 1)
    BY <1>1
  <2>2. CASE i = depth + 1
    <3>1. i - 1 = depth /\ depth \in 0 .. depth
      BY <1>1, <2>2
    <3> QED BY <1>2, <1>3, <1>4, <2>2, <3>1
  <2>3. CASE i \in 1 .. depth
    <3>1. i \in 0 .. depth /\ i - 1 \in 0 .. depth
      BY <1>1, <2>3
    <3> QED BY <1>2, <1>4, <2>3, <3>1
  <2> QED BY <2>1, <2>2, <2>3
<1>6. ~ InRun' /\ pc' # "main"
  BY <1>1 DEF InRun
<1>7. OuterMask(depth)' = super_mask_backup
  BY <1>1, <1>2, <1>3
<1> QED BY <1>1, <1>4, <1>5, <1>6, <1>7 DEF MaskNesting

LEMMA MaskPop ==
  ASSUME TypeOK, WaitInv, MaskNesting, WaitDone
  PROVE  MaskNesting'
<1>1. /\ depth \in 1 .. depth /\ depth' = depth - 1 /\ depth' \in Nat /\ pc' = "body"
      /\ SuperMask' = SuperMask /\ super_mask_backup' = OuterMask(depth)
  BY DEF WaitDone, Goto, TypeOK, WaitInv, OuterMask
<1>2. \A i \in 0 .. depth' : OuterMask(i)' = OuterMask(i)
  BY <1>1 DEF WaitDone, OuterMask
<1>3. /\ \A i \in 1 .. depth : OuterMask(i) \subseteq OuterMask(i - 1)
      /\ SuperMask \subseteq OuterMask(depth)
  BY DEF MaskNesting
<1>4. ASSUME NEW i \in 1 .. depth' PROVE OuterMask(i)' \subseteq OuterMask(i - 1)'
  <2>1. i - 1 \in 0 .. depth' /\ i \in 1 .. depth /\ i \in 0 .. depth'
    BY <1>1
  <2> QED BY <1>2, <1>3, <2>1
<1>5. OuterMask(depth)' = OuterMask(depth - 1) /\ OuterMask(depth) \subseteq OuterMask(depth - 1)
  BY <1>1, <1>2, <1>3
<1> QED BY <1>1, <1>3, <1>4, <1>5 DEF MaskNesting

----------------------------------------------------------------------------
(* The inductive invariant and the theorems                                *)

IInv == SchedInv /\ WaitInv /\ MaskNesting /\ MainMaskInv

LEMMA Inductive == IInv /\ [Next]_vars => IInv'
<1> SUFFICES ASSUME IInv, [Next]_vars PROVE IInv'
  OBVIOUS
<1>0. SchedInv /\ TypeOK /\ WaitInv /\ MaskNesting /\ MainMaskInv
  BY DEF IInv, SchedInv
<1>a. MainMaskInv'
  BY <1>0, MainMaskStep
<1> SUFFICES (SchedInv /\ WaitInv /\ MaskNesting)'
  BY <1>a DEF IInv
<1>1. ASSUME NEW m \in RunMasks, MainRun(m) \/ EvtIdle(m)
      PROVE  (SchedInv /\ WaitInv /\ MaskNesting)'
  <2>1. SchedInv'
    BY <1>0, <1>1, SchedThread
  <2>2. RunEnter(m)
    BY <1>1 DEF MainRun, EvtIdle
  <2>3. WaitInv'
    BY <1>0, <2>2, WaitStutter DEF RunEnter
  <2>4. MaskNesting'
    BY <1>0, <2>2, MaskEnter
  <2> QED BY <2>1, <2>3, <2>4
<1>2. CASE Sample \/ Test \/ Search \/ Select \/ Clear \/ Return
  <2>1. SchedInv'
    BY <1>0, <1>2, SchedThread, SchedTest, SchedSearch, SchedSelect, SchedClear
  <2>2. /\ EvtWaited' = EvtWaited /\ SuperMask' = SuperMask
        /\ super_mask_backup' = super_mask_backup /\ depth' = depth /\ callers' = callers
        /\ pc \notin {"main", "wait", "woken"} /\ pc' \notin {"main", "wait", "woken"}
    BY <1>2 DEF Sample, Test, Search, Select, Clear, Return, Goto, statics, locals
  <2>3. WaitInv'
    BY <1>0, <2>2, WaitStutter
  <2>4. MaskNesting'
    BY <1>0, <2>2, MaskStutter DEF InRun
  <2> QED BY <2>1, <2>3, <2>4
<1>3. CASE Leave
  <2>1. SchedInv' /\ MaskNesting'
    BY <1>0, <1>3, SchedThread, MaskLeave
  <2>2. depth = 0 \/ depth > 0
    BY <1>0 DEF TypeOK
  <2>3. WaitInv'
    BY <1>0, <1>3, <2>2, WaitStutter DEF Leave, locals
  <2> QED BY <2>1, <2>3
<1>4. CASE EvtSeen
  <2>1. SchedInv'
    BY <1>0, <1>4, SchedThread
  <2>2. WaitInv'
    BY <1>0, <1>4, WaitStutter DEF EvtSeen, Goto, statics, locals
  <2>3. MaskNesting'
    BY <1>0, <1>4, MaskStutter DEF EvtSeen, Goto, statics, locals, InRun
  <2> QED BY <2>1, <2>2, <2>3
<1>5. CASE WaitDone
  <2>1. depth > 0
    BY <1>0, <1>5 DEF WaitInv, WaitDone, Goto
  <2> QED BY <1>0, <1>5, <2>1, SchedWaitDone, WaitPop, MaskPop
<1>6. ASSUME NEW e \in Evt, WaitEvt(e) PROVE (SchedInv /\ WaitInv /\ MaskNesting)'
  BY <1>0, <1>6, SchedWait, WaitPush, MaskPush
<1>7. CASE \/ \E m \in PauseMasks : PauseTask(m) \/ ResumeTask(m)
           \/ Interrupt
  <2>1. SchedInv'
    BY <1>0, <1>7, SchedPause, SchedInterrupt
  <2>2. /\ EvtWaited' = EvtWaited /\ SuperMask' = SuperMask
        /\ super_mask_backup' = super_mask_backup /\ depth' = depth /\ callers' = callers
        /\ pc' = pc
    BY <1>7 DEF PauseTask, ResumeTask, Interrupt, SetTask, SetEvt, locals
  <2>3. WaitInv'
    BY <1>0, <2>2, WaitStutter
  <2>4. MaskNesting'
    BY <1>0, <2>2, MaskStutter DEF InRun
  <2> QED BY <2>1, <2>3, <2>4
<1>8. CASE UNCHANGED vars
  <2> USE <1>8 DEF vars, statics, locals
  <2>1. WaitInv'
    BY <1>0, WaitStutter
  <2>2. MaskNesting'
    BY <1>0, MaskStutter DEF InRun
  <2>3. TypeOK'
    BY <1>0 DEF TypeOK
  <2>4. (PendingHasPriority /\ SearchWillStop /\ SelectedIsPending /\ RunningInv)'
    BY <1>0 DEF SchedInv, PendingHasPriority, SearchWillStop, SelectedIsPending,
       RunningInv, Eligible
  <2> QED BY <2>1, <2>2, <2>3, <2>4 DEF SchedInv
<1> QED BY <1>1, <1>2, <1>3, <1>4, <1>5, <1>6, <1>7, <1>8
        DEF Next, Thread, TaskBody

THEOREM Invariance == Spec => []IInv
<1>1. Init => IInv
  <2>1. Init => MainMaskInv
    BY DEF Init, MainMaskInv, InRun
  <2> QED BY <2>1, SchedInit, WaitInit, MaskInit DEF IInv
<1> QED BY <1>1, Inductive, PTL DEF Spec

\* Types: the values of the statics of stm32_seq.c.
THEOREM TypeCorrect == Spec => []TypeOK
<1>1. IInv => TypeOK
  BY DEF IInv, SchedInv
<1> QED BY <1>1, Invariance, PTL

\* The unbounded loop of stm32_seq.c:244 never reads beyond TaskPrio[].
THEOREM SearchStops == Spec => []SearchInBounds
<1>1. IInv => SearchInBounds
  <2> SUFFICES ASSUME IInv, pc = "search" PROVE counter \in Prio
    BY DEF SearchInBounds
  <2>1. counter \in 0 .. PrioNbr /\ PrioNbr \in Nat
    BY SequencerAssumption DEF IInv, SchedInv, TypeOK
  <2>2. PICK p \in Prio : counter <= p
    BY DEF IInv, SchedInv, SearchWillStop
  <2> QED BY <2>1, <2>2 DEF Prio
<1> QED BY <1>1, Invariance, PTL

\* No request is removed from the pending set without being run.
THEOREM NoRequestLost == Spec => []SelectedIsPending
<1>1. IInv => SelectedIsPending
  BY DEF IInv, SchedInv
<1> QED BY <1>1, Invariance, PTL

\* CurrentTaskIdx is right whenever a task executes.
THEOREM IndexRestored == Spec => []CurrentTaskIsRunning
<1>1. IInv => CurrentTaskIsRunning
  BY DEF IInv, SchedInv, RunningInv, CurrentTaskIsRunning
<1> QED BY <1>1, Invariance, PTL

\* Nested waits end in the reverse order of their calls.
THEOREM WaitsNested == Spec => []WaitsForInnermost
<1>1. IInv => WaitsForInnermost
  BY DEF IInv, WaitInv, WaitsForInnermost
<1> QED BY <1>1, Invariance, PTL

\* Nested runs only ever narrow the mask, and give it back.
THEOREM MasksNested == Spec => []MaskNesting
<1>1. IInv => MaskNesting
  BY DEF IInv
<1> QED BY <1>1, Invariance, PTL

----------------------------------------------------------------------------
(* The round robin                                                         *)

RRInv ==
  /\ overtaken \in [Prio -> [Task -> [Task -> Nat]]]
  /\ OvertakenInv

LEMMA RRInitInv == RRInit => RRInv
<1> SUFFICES ASSUME RRInit PROVE RRInv
  OBVIOUS
<1>1. overtaken = [p \in Prio |-> [t \in Task |-> [u \in Task |-> 0]]]
  BY DEF RRInit
<1>2. \A p \in Prio : \A t, u \in Task : overtaken[p][t][u] = 0
  BY <1>1
<1>3. overtaken \in [Prio -> [Task -> [Task -> Nat]]]
  BY <1>1
<1> QED BY <1>2, <1>3 DEF RRInv, OvertakenInv

\* The mask changes in a selection only.
LEMMA MaskChanges == [Next]_vars /\ ~Select => round_robin' = round_robin /\ ~Selecting
<1> SUFFICES ASSUME [Next]_vars, ~Select PROVE round_robin' = round_robin /\ ~Selecting
  OBVIOUS
<1> USE DEF statics, locals, Goto, Selecting
<1>1. ASSUME NEW m \in RunMasks, MainRun(m) \/ EvtIdle(m)
      PROVE  round_robin' = round_robin /\ ~Selecting
  BY <1>1 DEF MainRun, EvtIdle, RunEnter
<1>2. CASE Sample \/ Test \/ Search \/ Clear \/ Leave
  BY <1>2 DEF Sample, Test, Search, Clear, Leave
<1>3. CASE EvtSeen \/ WaitDone \/ Return
  BY <1>3 DEF EvtSeen, WaitDone, Return
<1>4. ASSUME NEW e \in Evt, WaitEvt(e) PROVE round_robin' = round_robin /\ ~Selecting
  BY <1>4 DEF WaitEvt
<1>5. ASSUME NEW m \in PauseMasks, PauseTask(m) \/ ResumeTask(m)
      PROVE  round_robin' = round_robin /\ ~Selecting
  BY <1>5 DEF PauseTask, ResumeTask
<1>6. CASE Interrupt
  BY <1>6 DEF Interrupt, SetTask, SetEvt
<1>7. CASE UNCHANGED vars
  BY <1>7 DEF vars
<1> QED BY <1>1, <1>2, <1>3, <1>4, <1>5, <1>6, <1>7 DEF Next, Thread, TaskBody

\* A selection: the task selected is eligible, its bit is in the mask the choice
\* is made with and is taken from it, and that mask is the one of before, or full
\* when none of the eligible tasks is in the one of before.
LEMMA Selection ==
  ASSUME SchedInv, Select
  PROVE  LET E  == Eligible(priority[counter])
             rr == RoundRobin(E)
         IN  /\ counter \in Prio /\ E \subseteq Task /\ CurrentTaskIdx' \in E \cap rr
             /\ round_robin' = [round_robin EXCEPT ![counter] = rr \ {CurrentTaskIdx'}]
             /\ \/ rr = round_robin[counter]
                \/ rr = Task /\ round_robin[counter] \cap E = {}
             /\ Selecting
<1> DEFINE E == Eligible(priority[counter])  rr == RoundRobin(E)
<1>1. counter \in Prio /\ E # {} /\ E \subseteq Task
  BY SequencerAssumption DEF SchedInv, Select, Goto, SearchWillStop, Eligible, TypeOK
<1>2. /\ \/ rr = round_robin[counter]
         \/ rr = Task /\ round_robin[counter] \cap E = {}
      /\ E \cap rr # {}
  BY <1>1 DEF RoundRobin
<1>3. BitPosition(E \cap rr) \in E \cap rr
  BY <1>1, <1>2, BitPositionIsSet
<1> QED BY <1>1, <1>2, <1>3 DEF Select, Goto, Selecting

\* One bound before and after a selection of s from the mask m: t waits, c is
\* how often it has been overtaken by u.
LEMMA OneSelection ==
  ASSUME SchedInv, RRInv, RRNext, Select, NEW t \in Task, NEW u \in Task
  PROVE  /\ u = CurrentTaskIdx' /\ t \in PassedOver => overtaken[counter][t][u] < CountLimit
         /\ overtaken'[counter][t][u] <= (IF t \in round_robin'[counter] THEN 1 ELSE 0)
                                           + (IF u \in round_robin'[counter] THEN 0 ELSE 1)
<1> DEFINE E == Eligible(priority[counter])  rr == RoundRobin(E)  s == CurrentTaskIdx'
           m == round_robin[counter]  n == round_robin'[counter]  c == overtaken[counter][t][u]
           d == overtaken'[counter][t][u]
<1>1. /\ counter \in Prio /\ E \subseteq Task /\ s \in E /\ s \in rr
      /\ round_robin' = [round_robin EXCEPT ![counter] = rr \ {s}]
      /\ rr = m \/ (rr = Task /\ m \cap E = {})
      /\ Selecting
  BY Selection
<1>2. n = rr \ {s}
  BY <1>1 DEF SchedInv, TypeOK
<1>3. d = IF t \notin PassedOver THEN 0 ELSE IF u = s /\ c < 2 THEN c + 1 ELSE c
  BY <1>1 DEF RRNext, RRInv, CountLimit
<1>4. c \in Nat /\ c <= (IF t \in m THEN 1 ELSE 0) + (IF u \in m THEN 0 ELSE 1)
  BY <1>1 DEF RRInv, OvertakenInv
<1>5. PassedOver = E \ {s}
  BY DEF PassedOver
<1> HIDE DEF E, rr, s, m, n, c, d
<1>6. CASE t \notin PassedOver
  <2>1. d = 0
    BY <1>3, <1>6
  <2> QED BY <1>6, <2>1 DEF c, d, n
<1>7. CASE t \in PassedOver /\ rr = m
  <2>1. t # s /\ (t \in n <=> t \in m)
    BY <1>2, <1>5, <1>7
  <2>2. CASE u = s
    <3>1. u \in m /\ u \notin n
      BY <1>1, <1>2, <1>7, <2>2
    <3>2. c <= (IF t \in m THEN 1 ELSE 0) /\ d = c + 1
      BY <1>3, <1>4, <1>7, <2>2, <3>1
    <3>3. c < 2 /\ d <= (IF t \in n THEN 1 ELSE 0) + 1
      BY <1>4, <2>1, <3>2
    <3> QED BY <3>1, <3>3 DEF c, d, n, CountLimit
  <2>3. CASE u # s
    <3>1. u \in n <=> u \in m
      BY <1>2, <1>7, <2>3
    <3>2. d = c
      BY <1>3, <1>7, <2>3
    <3> QED BY <1>4, <2>1, <2>3, <3>1, <3>2 DEF c, d, n, s
  <2> QED BY <2>2, <2>3
<1>8. CASE t \in PassedOver /\ rr = Task /\ m \cap E = {}
  <2>1. t \notin m /\ t \in n /\ c <= 1
    BY <1>2, <1>4, <1>5, <1>8
  <2>2. CASE u = s
    <3>1. u \notin n /\ d = c + 1
      BY <1>2, <1>3, <1>4, <1>8, <2>1, <2>2
    <3>2. c < 2 /\ d <= 1 + 1
      BY <1>4, <2>1, <3>1
    <3> QED BY <2>1, <3>1, <3>2 DEF c, d, n, CountLimit
  <2>3. CASE u # s
    <3>1. u \in n /\ d = c
      BY <1>2, <1>3, <1>8, <2>3
    <3> QED BY <2>1, <2>3, <3>1 DEF c, d, n, s
  <2> QED BY <2>2, <2>3
<1> QED BY <1>1, <1>6, <1>7, <1>8

\* RRInv is inductive.
LEMMA RRStep == SchedInv /\ RRInv /\ [RRNext]_rrvars => RRInv'
<1> SUFFICES ASSUME SchedInv, RRInv, [RRNext]_rrvars PROVE RRInv'
  OBVIOUS
<1>1. CASE RRNext /\ Select
  <2>1. counter \in Prio /\ Selecting
        /\ \E r : round_robin' = [round_robin EXCEPT ![counter] = r]
    BY <1>1, Selection
  <2>2. ASSUME NEW t \in Task, NEW u \in Task
        PROVE  (IF t \notin PassedOver THEN 0
                ELSE IF u = CurrentTaskIdx' /\ overtaken[counter][t][u] < CountLimit
                     THEN overtaken[counter][t][u] + 1
                ELSE overtaken[counter][t][u]) \in Nat
    BY <2>1 DEF RRInv
  <2>3. [t \in Task |-> [u \in Task |->
           IF t \notin PassedOver THEN 0
           ELSE IF u = CurrentTaskIdx' /\ overtaken[counter][t][u] < CountLimit
                THEN overtaken[counter][t][u] + 1
           ELSE overtaken[counter][t][u]]] \in [Task -> [Task -> Nat]]
    BY <2>2
  <2>4. overtaken' \in [Prio -> [Task -> [Task -> Nat]]]
    BY <1>1, <2>1, <2>3 DEF RRNext, RRInv
  <2>5. ASSUME NEW p \in Prio, p # counter
        PROVE  overtaken'[p] = overtaken[p] /\ round_robin'[p] = round_robin[p]
    BY <1>1, <2>1, <2>5 DEF RRNext, RRInv, SchedInv, TypeOK
  <2>6. OvertakenInv'
    <3> SUFFICES ASSUME NEW p \in Prio, NEW t \in Task, NEW u \in Task
                 PROVE  overtaken'[p][t][u] <= (IF t \in round_robin'[p] THEN 1 ELSE 0)
                                                 + (IF u \in round_robin'[p] THEN 0 ELSE 1)
      BY DEF OvertakenInv
    <3>1. CASE p = counter
      BY <1>1, <3>1, OneSelection
    <3>2. CASE p # counter
      BY <2>5, <3>2 DEF RRInv, OvertakenInv
    <3> QED BY <3>1, <3>2
  <2> QED BY <2>4, <2>6 DEF RRInv
<1>2. CASE ~Select
  <2>1. [Next]_vars
    BY DEF RRNext, rrvars
  <2>2. round_robin' = round_robin /\ ~Selecting
    BY <1>2, <2>1, MaskChanges
  <2>3. overtaken' = overtaken
    BY <2>2 DEF RRNext, rrvars
  <2> QED BY <2>2, <2>3 DEF RRInv, OvertakenInv
<1>3. CASE UNCHANGED rrvars
  BY <1>3 DEF rrvars, vars, statics, RRInv, OvertakenInv
<1> QED BY <1>1, <1>2, <1>3

\* However tasks are set, paused and resumed, at any priority, in nested runs
\* with any masks: a task that stays eligible is passed over at most twice in
\* favour of any other task of its priority.
THEOREM RoundRobinFair == RRSpec => OvertakenAtMostTwice
<1> DEFINE Bound == \A t \in Task : Selecting /\ t \in PassedOver
                                      => overtaken[counter][t][CurrentTaskIdx'] < CountLimit
<1>1. SchedInv /\ RRInv /\ [RRNext]_rrvars => [Bound]_rrvars
  <2> SUFFICES ASSUME SchedInv, RRInv, RRNext, NEW t \in Task, Selecting, t \in PassedOver
               PROVE  overtaken[counter][t][CurrentTaskIdx'] < CountLimit
    OBVIOUS
  <2>1. Select
    BY MaskChanges DEF RRNext
  <2>2. CurrentTaskIdx' \in Task
    BY <2>1, Selection
  <2> QED BY <2>1, <2>2, OneSelection
<1>2. RRSpec => Spec
  <2>1. RRInit => Init
    BY DEF RRInit
  <2>2. [RRNext]_rrvars => [Next]_vars
    BY DEF RRNext, rrvars
  <2> QED BY <2>1, <2>2, PTL DEF RRSpec, Spec
<1>3. IInv => SchedInv
  BY DEF IInv
<1> HIDE DEF Bound
<1>4. RRSpec => [][Bound]_rrvars
  BY <1>1, <1>2, <1>3, Invariance, RRInitInv, RRStep, PTL DEF RRSpec
<1> QED BY <1>4 DEF Bound, OvertakenAtMostTwice

=============================================================================
