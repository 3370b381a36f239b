----------------------------- MODULE Sequencer -----------------------------
(***************************************************************************)
(* The cooperative task sequencer of the STM32WB firmware                  *)
(* (Utilities/sequencer/stm32_seq.c).  One thread executes UTIL_SEQ_Run,   *)
(* the tasks it calls and the UTIL_SEQ_WaitEvt calls those tasks make,     *)
(* which re-enter UTIL_SEQ_Run.  Interrupt handlers interleave with every  *)
(* step of the thread: they call UTIL_SEQ_SetTask and UTIL_SEQ_SetEvt.     *)
(*                                                                         *)
(* Bit masks are sets of task numbers or events.  The bodies of the tasks  *)
(* are the environment: a task may pause and resume tasks, wait for an     *)
(* event, and return.  Tasks are registered before they are first set, so  *)
(* TaskCb is left out.                                                     *)
(***************************************************************************)
EXTENDS Naturals

CONSTANTS
  TaskNbr,    (* number of tasks in use (UTIL_SEQ_CONF_TASK_NBR is 32)     *)
  PrioNbr,    (* UTIL_SEQ_CONF_PRIO_NBR                                    *)
  Evt,        (* events that can be waited for                             *)
  RunMasks,   (* the values of Mask_bm that UTIL_SEQ_Run is called with    *)
  PauseMasks, (* the masks given to UTIL_SEQ_PauseTask / ResumeTask        *)
  MaxNest     (* bound: nested UTIL_SEQ_WaitEvt calls                      *)

Task == 0 .. TaskNbr - 1
Prio == 0 .. PrioNbr - 1

ASSUME SequencerAssumption ==
  /\ TaskNbr \in Nat \ {0}
  /\ PrioNbr \in Nat \ {0}
  /\ MaxNest \in Nat
  /\ RunMasks \subseteq SUBSET Task
  /\ PauseMasks \subseteq SUBSET Task

\* UTIL_SEQ_NOTASKRUNNING is ~0, a number no task has.
NoTaskRunning == TaskNbr

VARIABLES
  TaskSet, TaskMask, SuperMask, EvtSet, EvtWaited, CurrentTaskIdx,
  priority, round_robin,     (* the two fields of TaskPrio[]               *)
  pc,                        (* where the thread is                        *)
  local_taskset, counter,    (* locals of the innermost UTIL_SEQ_Run       *)
  super_mask_backup,         (* its copy of the mask of its caller         *)
  running,                   (* the task whose code the thread executes    *)
  depth, callers             (* the suspended UTIL_SEQ_WaitEvt calls       *)

statics == <<TaskSet, TaskMask, SuperMask, EvtSet, EvtWaited, CurrentTaskIdx,
             priority, round_robin>>
locals  == <<local_taskset, counter, super_mask_backup, running, depth, callers>>
vars    == <<statics, pc, locals>>

\* A suspended UTIL_SEQ_WaitEvt call: its argument, its two backups, the
\* backup held by the UTIL_SEQ_Run it was called under and the task calling it.
Frame == [evt : Evt, waited : SUBSET Evt, idx : Task,
          super : SUBSET Task, task : Task]

PCs == {"main", "sample", "test", "search", "select", "clear", "body",
        "idle", "wait", "woken"}

Goto(from, to) == pc = from /\ pc' = to

----------------------------------------------------------------------------
(* UTIL_SEQ_Init, and the thread about to enter the main loop.             *)
Init ==
  /\ TaskSet = {} /\ TaskMask = Task /\ SuperMask = Task
  /\ EvtSet = {} /\ EvtWaited = {} /\ CurrentTaskIdx = 0
  /\ priority = [p \in Prio |-> {}] /\ round_robin = [p \in Prio |-> {}]
  /\ pc = "main"
  /\ local_taskset = {} /\ counter = 0 /\ super_mask_backup = Task
  /\ running = NoTaskRunning
  /\ depth = 0 /\ callers = [i \in 1 .. 0 |-> {}]

----------------------------------------------------------------------------
(* UTIL_SEQ_Run                                                            *)

RunEnter(mask) ==
  /\ super_mask_backup' = SuperMask
  /\ SuperMask' = SuperMask \cap mask
  /\ pc' = "sample"
  /\ UNCHANGED <<TaskSet, TaskMask, EvtSet, EvtWaited, CurrentTaskIdx, priority,
                 round_robin, local_taskset, counter, running, depth, callers>>

\* MX_APPE_Process, the only caller of UTIL_SEQ_Run outside the sequencer.
MainRun(mask) == pc = "main" /\ RunEnter(mask)

\* TaskSet and EvtSet are read one after the other: an interrupt may separate
\* the two.  Only the thread writes TaskMask and EvtWaited.
Sample ==
  /\ Goto("sample", "test")
  /\ local_taskset' = TaskSet
  /\ UNCHANGED <<statics, counter, super_mask_backup, running, depth, callers>>

\* What the two masks leave of a set of tasks.
Eligible(tasks) == tasks \cap TaskMask \cap SuperMask

\* Mutant: the loop test forgets the two masks.
TestIgnoresMasks ==
  /\ pc = "test"
  /\ pc' = IF local_taskset # {} /\ EvtSet \cap EvtWaited = {} THEN "search" ELSE "idle"
  /\ counter' = 0 /\ local_taskset' = {}
  /\ UNCHANGED <<statics, super_mask_backup, running, depth, callers>>

\* Mutant: the loop test forgets the waited event.
TestIgnoresEvent ==
  /\ pc = "test"
  /\ pc' = IF Eligible(local_taskset) # {} THEN "search" ELSE "idle"
  /\ counter' = 0 /\ local_taskset' = {}
  /\ UNCHANGED <<statics, super_mask_backup, running, depth, callers>>

Test ==
  /\ pc = "test"
  /\ pc' = IF Eligible(local_taskset) # {} /\ EvtSet \cap EvtWaited = {}
           THEN "search" ELSE "idle"
  /\ counter' = 0
  /\ local_taskset' = {}    \* dead from here
  /\ UNCHANGED <<statics, super_mask_backup, running, depth, callers>>

\* The loop has no bound of its own: it reads TaskPrio[counter] until it finds
\* a bit set.
Search ==
  /\ pc = "search"
  /\ counter \in Prio
  /\ IF Eligible(priority[counter]) = {}
     THEN counter' = counter + 1 /\ pc' = pc
     ELSE counter' = counter /\ pc' = "select"
  /\ UNCHANGED <<statics, local_taskset, super_mask_backup, running, depth, callers>>

\* SEQ_BitPosition: the highest bit set.
BitPosition(tasks) == CHOOSE t \in tasks : \A u \in tasks : u <= t

\* Mutant: no round robin, the highest task always wins.
AlwaysFirst(tasks) == Task

\* The round-robin mask the choice is made with: all ones again once every
\* pending task has been executed.
RoundRobin(tasks) ==
  IF round_robin[counter] \cap tasks = {} THEN Task ELSE round_robin[counter]

\* Mutant: the masks are dropped when the set is read again.
SelectUnmasked ==
  /\ Goto("select", "clear")
  /\ LET rr  == RoundRobin(priority[counter])
         idx == BitPosition(priority[counter] \cap rr)
     IN /\ CurrentTaskIdx' = idx
        /\ round_robin' = [round_robin EXCEPT ![counter] = rr \ {idx}]
  /\ UNCHANGED <<TaskSet, TaskMask, SuperMask, EvtSet, EvtWaited, priority, locals>>

Select ==
  /\ Goto("select", "clear")
  /\ LET current_task_set == Eligible(priority[counter])
         rr    == RoundRobin(current_task_set)
         idx   == BitPosition(current_task_set \cap rr)
     IN /\ CurrentTaskIdx' = idx
        /\ round_robin' = [round_robin EXCEPT ![counter] = rr \ {idx}]
  /\ UNCHANGED <<TaskSet, TaskMask, SuperMask, EvtSet, EvtWaited, priority, locals>>

\* The critical section, and the call of the task.
Clear ==
  /\ Goto("clear", "body")
  /\ TaskSet' = TaskSet \ {CurrentTaskIdx}
  /\ priority' = [p \in Prio |-> priority[p] \ {CurrentTaskIdx}]
  /\ running' = CurrentTaskIdx
  /\ UNCHANGED <<TaskMask, SuperMask, EvtSet, EvtWaited, CurrentTaskIdx, round_robin,
                 local_taskset, super_mask_backup, depth, callers>>
  /\ counter' = 0           \* where the loop over the priorities leaves it

\* The task returns to the loop, which samples again.
Return ==
  /\ Goto("body", "sample")
  /\ running' = NoTaskRunning
  /\ UNCHANGED <<statics, local_taskset, counter, super_mask_backup, depth, callers>>

\* Mutant: the mask of the caller is not restored.
LeaveKeepsMask ==
  /\ pc = "idle"
  /\ CurrentTaskIdx' = NoTaskRunning
  /\ pc' = IF depth = 0 THEN "main" ELSE "wait"
  /\ UNCHANGED <<TaskSet, TaskMask, SuperMask, EvtSet, EvtWaited, priority, round_robin, locals>>

\* Nothing eligible, or the waited event is there.  UTIL_SEQ_PreIdle,
\* UTIL_SEQ_Idle and UTIL_SEQ_PostIdle do nothing in this build.
Leave ==
  /\ pc = "idle"
  /\ CurrentTaskIdx' = NoTaskRunning
  /\ SuperMask' = super_mask_backup
  /\ pc' = IF depth = 0 THEN "main" ELSE "wait"
  /\ UNCHANGED <<TaskSet, TaskMask, EvtSet, EvtWaited, priority, round_robin, locals>>

----------------------------------------------------------------------------
(* UTIL_SEQ_WaitEvt, called by the running task                            *)

WaitEvt(e) ==
  /\ depth < MaxNest
  /\ Goto("body", "wait")
  /\ callers' = [i \in 1 .. depth + 1 |->
                   IF i <= depth THEN callers[i]
                   ELSE [evt |-> e, waited |-> EvtWaited, idx |-> CurrentTaskIdx,
                         super |-> super_mask_backup, task |-> running]]
  /\ depth' = depth + 1
  /\ EvtWaited' = {e}
  /\ running' = NoTaskRunning
  /\ UNCHANGED <<TaskSet, TaskMask, SuperMask, EvtSet, CurrentTaskIdx, priority,
                 round_robin, local_taskset, counter, super_mask_backup>>

\* The event is not there: UTIL_SEQ_EvtIdle runs the sequencer again.
EvtIdle(mask) ==
  /\ pc = "wait"
  /\ callers[depth].evt \notin EvtSet
  /\ RunEnter(mask)

EvtSeen ==
  /\ Goto("wait", "woken")
  /\ callers[depth].evt \in EvtSet
  /\ UNCHANGED <<statics, locals>>

\* Mutant: CurrentTaskIdx is left as the nested runs left it.
WaitDoneKeepsIdx ==
  /\ Goto("woken", "body")
  /\ UNCHANGED CurrentTaskIdx
  /\ EvtSet' = EvtSet \ {callers[depth].evt}
  /\ EvtWaited' = callers[depth].waited
  /\ super_mask_backup' = callers[depth].super
  /\ running' = callers[depth].task
  /\ callers' = [i \in 1 .. depth - 1 |-> callers[i]]
  /\ depth' = depth - 1
  /\ UNCHANGED <<TaskSet, TaskMask, SuperMask, priority, round_robin, local_taskset, counter>>

\* Mutant: the event is not consumed.
WaitDoneKeepsEvent ==
  /\ Goto("woken", "body")
  /\ CurrentTaskIdx' = callers[depth].idx
  /\ EvtWaited' = callers[depth].waited
  /\ super_mask_backup' = callers[depth].super
  /\ running' = callers[depth].task
  /\ callers' = [i \in 1 .. depth - 1 |-> callers[i]]
  /\ depth' = depth - 1
  /\ UNCHANGED <<TaskSet, TaskMask, SuperMask, EvtSet, priority, round_robin, local_taskset,
                 counter>>

\* Mutant: the event of the enclosing wait is forgotten.
WaitDoneForgetsOuter ==
  /\ Goto("woken", "body")
  /\ CurrentTaskIdx' = callers[depth].idx
  /\ EvtSet' = EvtSet \ {callers[depth].evt}
  /\ EvtWaited' = {}
  /\ super_mask_backup' = callers[depth].super
  /\ running' = callers[depth].task
  /\ callers' = [i \in 1 .. depth - 1 |-> callers[i]]
  /\ depth' = depth - 1
  /\ UNCHANGED <<TaskSet, TaskMask, SuperMask, priority, round_robin, local_taskset, counter>>

\* Restore CurrentTaskIdx, consume the event, restore EvtWaited, return.
WaitDone ==
  /\ Goto("woken", "body")
  /\ CurrentTaskIdx' = callers[depth].idx
  /\ EvtSet' = EvtSet \ {callers[depth].evt}
  /\ EvtWaited' = callers[depth].waited
  /\ super_mask_backup' = callers[depth].super
  /\ running' = callers[depth].task
  /\ callers' = [i \in 1 .. depth - 1 |-> callers[i]]
  /\ depth' = depth - 1
  /\ UNCHANGED <<TaskSet, TaskMask, SuperMask, priority, round_robin, local_taskset, counter>>

----------------------------------------------------------------------------
(* UTIL_SEQ_PauseTask and UTIL_SEQ_ResumeTask, called by the running task. *)

PauseTask(mask) ==
  /\ pc = "body"
  /\ TaskMask' = TaskMask \ mask
  /\ UNCHANGED <<TaskSet, SuperMask, EvtSet, EvtWaited, CurrentTaskIdx, priority,
                 round_robin, pc, locals>>

ResumeTask(mask) ==
  /\ pc = "body"
  /\ TaskMask' = TaskMask \cup mask
  /\ UNCHANGED <<TaskSet, SuperMask, EvtSet, EvtWaited, CurrentTaskIdx, priority,
                 round_robin, pc, locals>>

(* UTIL_SEQ_SetTask and UTIL_SEQ_SetEvt are one critical section each: they *)
(* happen between any two steps of the thread, called by it or by a handler.*)

SetTask(t, p) ==
  /\ TaskSet' = TaskSet \cup {t}
  /\ priority' = [priority EXCEPT ![p] = @ \cup {t}]
  /\ UNCHANGED <<TaskMask, SuperMask, EvtSet, EvtWaited, CurrentTaskIdx, round_robin,
                 pc, locals>>

SetEvt(e) ==
  /\ EvtSet' = EvtSet \cup {e}
  /\ UNCHANGED <<TaskSet, TaskMask, SuperMask, EvtWaited, CurrentTaskIdx, priority,
                 round_robin, pc, locals>>

----------------------------------------------------------------------------
Thread ==
  \/ \E m \in RunMasks : MainRun(m) \/ EvtIdle(m)
  \/ Sample \/ Test \/ Search \/ Select \/ Clear \/ Leave
  \/ EvtSeen \/ WaitDone

TaskBody ==
  \/ Return
  \/ \E e \in Evt : WaitEvt(e)
  \/ \E m \in PauseMasks : PauseTask(m) \/ ResumeTask(m)

Interrupt ==
  \/ \E t \in Task, p \in Prio : SetTask(t, p)
  \/ \E e \in Evt : SetEvt(e)

Next == Thread \/ TaskBody \/ Interrupt

Spec == Init /\ [][Next]_vars

\* The CPU keeps executing the thread, every task body reaches its end, and
\* every event somebody waits for is set sooner or later.
Fairness ==
  /\ WF_vars(Thread)
  /\ SF_vars(Return)
  /\ \A e \in Evt : WF_vars(e \in EvtWaited /\ SetEvt(e))

FairSpec == Spec /\ Fairness

----------------------------------------------------------------------------
TypeOK ==
  /\ TaskSet \subseteq Task /\ TaskMask \subseteq Task /\ SuperMask \subseteq Task
  /\ EvtSet \subseteq Evt /\ EvtWaited \subseteq Evt
  /\ CurrentTaskIdx \in Task \cup {NoTaskRunning}
  /\ priority \in [Prio -> SUBSET Task] /\ round_robin \in [Prio -> SUBSET Task]
  /\ pc \in PCs
  /\ local_taskset \subseteq Task /\ counter \in 0 .. PrioNbr
  /\ super_mask_backup \subseteq Task
  /\ running \in Task \cup {NoTaskRunning}
  /\ depth \in 0 .. MaxNest /\ callers \in [1 .. depth -> Frame]

\* The unbounded priority search (stm32_seq.c:244) always stops inside
\* TaskPrio[], whatever interrupts do between the test of the loop and it.
SearchInBounds == pc = "search" => counter \in Prio

\* What has been selected is still pending, allowed by both masks and about
\* to run when the critical section clears it: no request is cleared that
\* does not run.
SelectedIsPending == pc = "clear" => CurrentTaskIdx \in Eligible(TaskSet)

\* CurrentTaskIdx names the task that executes, whatever nested runs did to
\* it while the task was waiting (stm32_seq.c:451-456).
CurrentTaskIsRunning == pc = "body" => CurrentTaskIdx = running

\* The sequencer waits for the event of the innermost UTIL_SEQ_WaitEvt only,
\* and for none when nobody waits (first in, last out).
WaitsForInnermost ==
  EvtWaited = IF depth = 0 THEN {} ELSE {callers[depth].evt}

\* The mask the i-th suspended wait will be given back.
OuterMask(i) == IF i = 0 THEN Task ELSE callers[i].super

InRun == pc \notin {"main", "wait", "woken"}

\* The mask of a nested UTIL_SEQ_Run is never larger than that of the calls it
\* is nested in, and all tasks are allowed again outside every call
\* (stm32_seq.c:218-222, 318).
MaskNesting ==
  /\ \A i \in 1 .. depth : OuterMask(i) \subseteq OuterMask(i - 1)
  /\ SuperMask \subseteq OuterMask(depth)
  /\ InRun => SuperMask \subseteq super_mask_backup /\ super_mask_backup \subseteq OuterMask(depth)
  /\ pc = "main" => SuperMask = Task

----------------------------------------------------------------------------
(* The strengthening that makes the invariants above inductive             *)

\* A task is pending exactly when some priority level holds its bit.
PendingHasPriority == TaskSet = UNION {priority[p] : p \in Prio}

\* Between the test of the loop and the selection, requests are only added:
\* an eligible one is at or above the level searched next.
SearchWillStop ==
  /\ pc = "test" => local_taskset \subseteq TaskSet
  /\ pc = "search" => \E p \in Prio : counter <= p /\ Eligible(priority[p]) # {}
  /\ pc = "select" => counter \in Prio /\ Eligible(priority[counter]) # {}

\* Every suspended wait will restore the index of the task that called it.
RunningInv ==
  /\ pc = "body" => running \in Task /\ CurrentTaskIdx = running
  /\ \A i \in 1 .. depth : callers[i].idx = callers[i].task

\* Every suspended wait will restore the event of the wait it is nested in.
WaitInv ==
  /\ pc \in {"wait", "woken"} => depth > 0
  /\ WaitsForInnermost
  /\ \A i \in 1 .. depth :
       callers[i].waited = IF i = 1 THEN {} ELSE {callers[i - 1].evt}

\* The call of UTIL_SEQ_Run by the main loop gives back the full mask, at
\* whatever depth of nesting its backup is kept.
MainMaskInv ==
  /\ pc = "main" => depth = 0
  /\ depth = 0 /\ InRun => super_mask_backup = Task
  /\ depth > 0 => callers[1].super = Task

----------------------------------------------------------------------------
\* Liveness: a task that is set gets to run.
PendingTaskRuns == \A t \in Task : (t \in TaskSet) ~> (t \notin TaskSet)

\* Liveness: the outermost UTIL_SEQ_WaitEvt returns.
WaitsEnd == (depth > 0) ~> (depth = 0)

=============================================================================
