------------------------- MODULE HciTransportProofs -------------------------
(***************************************************************************)
(* The transport layers, for any tasks, opcodes, depth of waits and number *)
(* of commands: they drive the sequencer as Sequencer allows, commands are *)
(* sent one at a time and get their own answers, and no event is forgotten.*)
(***************************************************************************)
EXTENDS HciTransport, SequencerProofs

----------------------------------------------------------------------------
(* The transport layers use the sequencer as its specification says.       *)

LEMMA TasksAndEvents ==
  /\ HciTasks \subseteq Task /\ HciAsynch \in HciTasks /\ System \notin HciTasks
  /\ System \in Task /\ HciAsynch # System
  /\ 0 \in Prio
  BY HciAssumption, SequencerAssumption DEF HciAssumption, HciTasks, Task, Prio

\* Every step of the transport layers is one of the sequencer, or none.
LEMMA SequencerStep ==
  ASSUME RunningInv, [HNext]_allvars
  PROVE  [Next]_vars
<1> USE TasksAndEvents
<1>1. CASE Background
  BY <1>1 DEF Background, Next, Thread
<1>2. CASE CallTask \/ ReturnTask \/ Resume
  BY <1>2 DEF CallTask, ReturnTask, Resume, Next, Thread, TaskBody
<1>3. CASE WaitResponse \/ ShciWait
  BY <1>3, HciAssumption DEF HciAssumption, WaitResponse, ShciWait, Suspend, Next, TaskBody
<1>4. CASE TakeEvent \/ Processed \/ SendCmd \/ Drain \/ ShciSend \/ ShciDone
  BY <1>4 DEF TakeEvent, Processed, SendCmd, Drain, ShciSend, ShciDone
<1>5. CASE NotifyIfMore
  <2>1. running \in Task
    BY <1>5 DEF NotifyIfMore, RunningInv
  <2>2. SetTask(running, 0) \/ UNCHANGED vars
    BY <1>5 DEF NotifyIfMore
  <2> QED BY <2>1, <2>2 DEF Next, Interrupt
<1>6. CASE (\E op \in Op : NotifyBusy(op)) \/ NotifyAvailable
  <2>1. PauseTask(HciTasks) \/ ResumeTask(HciTasks)
    BY <1>6 DEF NotifyBusy, NotifyAvailable
  <2> QED BY <2>1, HciAssumption DEF HciAssumption, Next, TaskBody
<1>7. CASE Cpu2
  <2>1. SetEvt(HciRsp) \/ SetEvt(SysRsp)
    BY <1>7 DEF Cpu2, Respond, GiveCredit, SysRespond
  <2> QED BY <2>1, HciAssumption DEF HciAssumption, Next, Interrupt
<1>8. CASE AsynchEvt \/ SysEvt \/ TimerTask
  <2>1. \E t \in Task : SetTask(t, 0)
    BY <1>8 DEF AsynchEvt, SysEvt, TimerTask
  <2> QED BY <2>1 DEF Next, Interrupt
<1>9. CASE UNCHANGED allvars
  BY <1>9 DEF allvars
<1> QED BY <1>1, <1>2, <1>3, <1>4, <1>5, <1>6, <1>7, <1>8, <1>9 DEF HNext, Cpu1

\* The sequencer's invariant is one of the system.
LEMMA SequencerInv == IInv /\ [HNext]_allvars => IInv'
<1>1. IInv => RunningInv
  BY DEF IInv, SchedInv
<1> QED BY <1>1, SequencerStep, Inductive

LEMMA HInitInv == HInit => IInv
<1>1. HInit => Init
  BY DEF HInit
<1>2. Init => MainMaskInv
  BY DEF Init, MainMaskInv, InRun
<1> QED BY <1>1, <1>2, SchedInit, WaitInit, MaskInit DEF IInv

\* The sequencer's own invariant holds under the transport layers: their steps
\* are steps of the sequencer.
THEOREM SequencerInvariance == HSpec => []IInv
  BY HInitInv, SequencerInv, PTL DEF HSpec

\* The transport layers with their glue are a program the sequencer is
\* specified for: whatever is proved of Sequencer holds under them.
THEOREM UsesSequencer == HSpec => Spec
<1>1. HInit => Init
  BY DEF HInit
<1>2. IInv => RunningInv
  BY DEF IInv, SchedInv
<1> QED BY <1>1, <1>2, SequencerStep, SequencerInvariance, PTL DEF HSpec, Spec

----------------------------------------------------------------------------
(* The executions: the running one and those suspended in a wait           *)

ActsOK == act \in Act /\ acts \in Seq(Act) /\ Len(acts) = depth

\* Which execution sends and waits for what.
RunInv ==
  pc = "body" =>
    /\ act.evt = "EVT" => running \in HciTasks
    /\ act.evt = "READY" => running = System
    /\ act.at # "none" => act.evt \in {"EVT", "READY"}
    /\ act.at \in {"sysloop", "sysdone"} => act.evt = "READY"
    /\ act.at \in {"busy", "loop", "drain"} => act.op \in Op

\* Only the innermost wait may be one of hci_send_req.
StackInv ==
  \A i \in 1 .. depth :
    /\ \/ acts[i].evt = "EVT" /\ callers[i].task \in HciTasks
       \/ acts[i].evt = "READY" /\ callers[i].task = System
    /\ \/ /\ acts[i].at = "drain" /\ i = depth /\ callers[i].evt = HciRsp
          /\ acts[i].op \in Op
       \/ acts[i].at = "sysdone" /\ acts[i].evt = "READY" /\ callers[i].evt = SysRsp

\* There is one ready event.
OneReady ==
  /\ \A i, j \in 1 .. depth : acts[i].evt = "READY" /\ acts[j].evt = "READY" => i = j
  /\ pc = "body" /\ act.evt = "READY" => \A i \in 1 .. depth : acts[i].evt # "READY"

\* The innermost wait is for the answer to a command.
Waiting == depth > 0 /\ acts[depth].at = "drain"

\* The requested tasks; before the second core is up, the system task only.
TaskInv ==
  /\ TaskSet \subseteq HciTasks \cup {System}
  /\ boot # "up" =>
       /\ TaskSet \subseteq {System} /\ depth = 0
       /\ pc = "body" => running = System /\ act.evt \notin {"EVT", "READY"}

\* The ready event comes first, and once.
BootInv ==
  /\ SHciAsynchEventQueue \in Seq({"READY", "NVM"})
  /\ \A i \in 1 .. Len(SHciAsynchEventQueue) :
       SHciAsynchEventQueue[i] = "READY" => boot = "ready" /\ i = 1
  /\ boot = "off" => SHciAsynchEventQueue = <<>>

\* From the pause to the answer, tasks that send are masked, and the system
\* task has nothing to send.
PauseInv ==
  /\ Waiting /\ pc = "body" => running = System /\ act.evt \notin {"EVT", "READY"}
  /\ Waiting \/ (pc = "body" /\ act.at \in {"busy", "loop", "drain"}) =>
       TaskMask \cap HciTasks = {}

ExecInv == ActsOK /\ RunInv /\ StackInv /\ OneReady /\ TaskInv /\ BootInv /\ PauseInv

LEMMA ExecInit == HInit => ExecInv
<1> SUFFICES ASSUME HInit PROVE ExecInv
  OBVIOUS
<1>1. /\ act = NoAct /\ acts = <<>> /\ depth = 0 /\ pc = "main" /\ TaskSet = {} /\ boot = "off"
      /\ SHciAsynchEventQueue = <<>>
  BY DEF HInit, Init
<1>2. NoAct \in Act
  BY HciAssumption DEF NoAct, Fresh, Act, HciAssumption
<1>3. ActsOK
  BY <1>1, <1>2 DEF ActsOK
<1>4. RunInv /\ StackInv /\ OneReady /\ TaskInv /\ PauseInv
  BY <1>1 DEF RunInv, StackInv, OneReady, TaskInv, PauseInv, Waiting
<1>5. BootInv
  BY <1>1 DEF BootInv
<1> QED BY <1>3, <1>4, <1>5 DEF ExecInv

\* The execution of a task starts, an event or a command at a time.
LEMMA FreshAct ==
  ASSUME NEW e \in {"start", "READY", "NVM", "EVT", "end", "done"}
  PROVE  /\ Fresh(e) \in Act /\ Fresh(e).evt = e /\ Fresh(e).at = "none"
  BY HciAssumption DEF Fresh, Act, HciAssumption

\* Steps outside the running execution leave all executions alone.
Quiet == UNCHANGED <<running, act, acts, depth, callers>> /\ (pc' = "body" <=> pc = "body")

LEMMA QuietSteps ==
  ASSUME Background \/ Cpu2 \/ AsynchEvt \/ SysEvt \/ TimerTask \/ UNCHANGED allvars
  PROVE  Quiet
<1>1. CASE Background
  BY <1>1 DEF Background, Quiet, hvars, MainRun, EvtIdle, RunEnter, Sample, Test, Search, Select,
              Leave, EvtSeen, Goto, statics, locals
<1>2. CASE Cpu2
  BY <1>2 DEF Cpu2, Respond, GiveCredit, SysRespond, SetEvt, Quiet, locals
<1>3. CASE AsynchEvt \/ SysEvt
  BY <1>3 DEF AsynchEvt, SysEvt, SetTask, Quiet, locals
<1>4. CASE TimerTask
  BY <1>4 DEF TimerTask, SetTask, Quiet, locals, hvars
<1>5. CASE UNCHANGED allvars
  BY <1>5 DEF allvars, vars, hvars, locals, Quiet
<1> QED BY <1>1, <1>2, <1>3, <1>4, <1>5

LEMMA QuietExec ==
  ASSUME ActsOK, RunInv, StackInv, OneReady, Quiet
  PROVE  (ActsOK /\ RunInv /\ StackInv /\ OneReady)'
<1> USE DEF Quiet
<1>1. ActsOK'
  BY DEF ActsOK
<1>2. RunInv'
  BY DEF RunInv
<1>3. StackInv'
  BY DEF StackInv
<1>4. OneReady'
  BY DEF OneReady
<1> QED BY <1>1, <1>2, <1>3, <1>4

\* Steps of the running execution.
InBody == pc = "body" /\ pc' = "body" /\ UNCHANGED <<running, acts, depth, callers>>

BodyAction ==
  \/ TakeEvent \/ Processed \/ NotifyIfMore
  \/ (\E op \in Op : NotifyBusy(op)) \/ SendCmd \/ Drain \/ NotifyAvailable
  \/ ShciSend \/ ShciDone

LEMMA BodySteps == BodyAction => InBody
<1> SUFFICES ASSUME BodyAction PROVE InBody
  OBVIOUS
<1>1. CASE TakeEvent \/ Processed \/ SendCmd \/ Drain \/ ShciSend \/ ShciDone
  BY <1>1 DEF TakeEvent, Processed, SendCmd, Drain, ShciSend, ShciDone, InBody, vars, locals, Sending
<1>2. CASE NotifyIfMore
  BY <1>2 DEF NotifyIfMore, SetTask, InBody, vars, locals
<1>3. CASE (\E op \in Op : NotifyBusy(op)) \/ NotifyAvailable
  BY <1>3 DEF NotifyBusy, NotifyAvailable, PauseTask, ResumeTask, InBody, locals
<1> QED BY <1>1, <1>2, <1>3 DEF BodyAction

\* A sequence that is not empty: its first element, and the others.
LEMMA HeadTail ==
  ASSUME NEW S, NEW s \in Seq(S), s # <<>>
  PROVE  /\ Head(s) \in S /\ Head(s) = s[1] /\ Tail(s) \in Seq(S)
         /\ Len(s) \in Nat \ {0} /\ Len(Tail(s)) = Len(s) - 1
         /\ \A i \in 1 .. Len(s) - 1 : Tail(s)[i] = s[i + 1]
  OBVIOUS

\* The events of the command channel.
QueueOK == HciCmdEventQueue \in Seq([cmd : Cmd \cup {Nop}, numcmd : {0, 1}])

\* What a step of the running execution makes of it.
LEMMA BodyExec ==
  ASSUME ActsOK, RunInv, StackInv, OneReady, TaskInv, BootInv, QueueOK, BodyAction
  PROVE  (ActsOK /\ RunInv /\ StackInv /\ OneReady)'
<1> USE TasksAndEvents
<1>1. InBody
  BY BodySteps
<1>2. act \in Act
  BY DEF ActsOK
<1>3. SUFFICES /\ act' \in Act /\ RunInv'
               /\ act'.evt = "READY" => act.evt = "READY" \/ depth = 0
  <2>1. StackInv'
    BY <1>1 DEF InBody, StackInv
  <2>2. ActsOK'
    BY <1>1, <1>3 DEF InBody, ActsOK
  <2>3. OneReady'
    BY <1>1, <1>3 DEF InBody, OneReady
  <2> QED BY <1>3, <2>1, <2>2, <2>3
<1>4. CASE TakeEvent
  <2>1. CASE running = HciAsynch
    <3>1. act' = Fresh("EVT") \/ act' = Fresh("end")
      BY <1>4, <2>1 DEF TakeEvent
    <3> QED BY <1>1, <2>1, <3>1, FreshAct DEF InBody, RunInv
  <2>2. CASE running = System /\ SHciAsynchEventQueue = <<>>
    <3>1. act' = Fresh("end")
      BY <1>4, <2>2 DEF TakeEvent
    <3> QED BY <1>1, <2>2, <3>1, FreshAct DEF InBody, RunInv
  <2>3. CASE running = System /\ SHciAsynchEventQueue # <<>>
    <3>1. /\ act' = Fresh(SHciAsynchEventQueue[1]) /\ SHciAsynchEventQueue[1] \in {"READY", "NVM"}
          /\ 1 \in 1 .. Len(SHciAsynchEventQueue)
      BY <1>4, <2>3 DEF TakeEvent, BootInv
    <3>2. SHciAsynchEventQueue[1] = "READY" => depth = 0
      BY <3>1 DEF BootInv, TaskInv
    <3> QED BY <1>1, <2>3, <3>1, <3>2, FreshAct DEF InBody, RunInv
  <2> QED BY <1>4, <2>1, <2>2, <2>3 DEF TakeEvent
<1>5. CASE Processed \/ NotifyIfMore
  <2>1. act' = Fresh("end") \/ act' = Fresh("done")
    BY <1>5 DEF Processed, NotifyIfMore
  <2> QED BY <1>1, <2>1, FreshAct DEF InBody, RunInv
<1>6. ASSUME NEW op \in Op, NotifyBusy(op)
      PROVE  act' \in Act /\ RunInv' /\ act'.evt = act.evt
  <2>1. act' = [act EXCEPT !.at = "busy", !.op = op, !.n = act.n + 1]
    BY <1>6 DEF NotifyBusy
  <2>2. act.evt \in {"EVT", "READY"} /\ act.n + 1 \in 0 .. MaxCmds
    BY <1>2, <1>6, HciAssumption DEF NotifyBusy, Sending, Act, HciAssumption
  <2> QED BY <1>1, <1>2, <2>1, <2>2 DEF InBody, RunInv, Act
<1>7. CASE SendCmd
  BY <1>1, <1>2, <1>7 DEF SendCmd, InBody, RunInv, Act
<1>8. CASE NotifyAvailable
  BY <1>1, <1>2, <1>8 DEF NotifyAvailable, InBody, RunInv, Act
<1>9. CASE ShciSend
  <2>1. act' = [act EXCEPT !.at = "sysloop", !.n = act.n + 1] /\ act.evt = "READY"
    BY <1>9 DEF ShciSend
  <2>2. act.n + 1 \in 0 .. MaxCmds
    BY <1>2, <1>9, HciAssumption DEF ShciSend, Sending, Act, HciAssumption
  <2> QED BY <1>1, <1>2, <2>1, <2>2 DEF InBody, RunInv, Act
<1>10. CASE ShciDone
  BY <1>1, <1>2, <1>10 DEF ShciDone, InBody, RunInv, Act
<1>11. CASE Drain
  <2>1. CASE HciCmdEventQueue = <<>>
    BY <1>1, <1>2, <1>11, <2>1 DEF Drain, InBody, RunInv, Act
  <2>2. CASE HciCmdEventQueue # <<>>
    <3> DEFINE evt == Head(HciCmdEventQueue)
    <3>1. evt \in [cmd : Cmd \cup {Nop}, numcmd : {0, 1}]
      BY <2>2, HeadTail DEF QueueOK
    <3>2. PICK a \in BOOLEAN, rsp \in Cmd \cup {NoOp} : act' = [act EXCEPT !.available = a, !.rsp = rsp]
      <4>1. act.available \in BOOLEAN /\ act.rsp \in Cmd \cup {NoOp}
        BY <1>2 DEF Act
      <4>2. (act.available \/ evt.numcmd # 0) \in BOOLEAN
        OBVIOUS
      <4>3. (IF evt.cmd # Nop /\ evt.cmd.op = act.op THEN evt.cmd ELSE act.rsp) \in Cmd \cup {NoOp}
        BY <3>1, <4>1
      <4>4. act' = [act EXCEPT !.available = act.available \/ evt.numcmd # 0,
                    !.rsp = IF evt.cmd # Nop /\ evt.cmd.op = act.op THEN evt.cmd ELSE act.rsp]
        BY <1>11, <2>2 DEF Drain
      <4> QED BY <4>2, <4>3, <4>4
    <3> QED BY <1>1, <1>2, <3>2 DEF InBody, RunInv, Act
  <2> QED BY <2>1, <2>2
<1> QED BY <1>4, <1>5, <1>6, <1>7, <1>8, <1>9, <1>10, <1>11 DEF BodyAction

\* A task is called, for an event or to look for one; it returns.
LEMMA CallExec ==
  ASSUME ActsOK, RunInv, StackInv, OneReady, TaskInv, SelectedIsPending, CallTask \/ ReturnTask
  PROVE  (ActsOK /\ RunInv /\ StackInv /\ OneReady)'
<1> USE TasksAndEvents
<1>1. UNCHANGED <<acts, depth, callers>>
  BY DEF CallTask, ReturnTask, Clear, Return
<1>2. /\ act' \in Act /\ RunInv'
      /\ pc' = "body" => act'.evt # "READY"
  <2>1. CASE CallTask
    <3>1. CurrentTaskIdx \in HciTasks \cup {System} /\ running' = CurrentTaskIdx
      BY <2>1 DEF CallTask, Clear, Goto, SelectedIsPending, Eligible, TaskInv
    <3>2. \/ act' = Fresh("start")
          \/ act' = Fresh("EVT") /\ CurrentTaskIdx # System
      BY <2>1 DEF CallTask
    <3> QED BY <3>1, <3>2, FreshAct DEF RunInv
  <2>2. CASE ReturnTask
    <3>1. pc' = "sample" /\ act' = NoAct
      BY <2>2 DEF ReturnTask, Return, Goto
    <3> QED BY <3>1, FreshAct DEF NoAct, RunInv
  <2> QED BY <2>1, <2>2
<1>3. ActsOK'
  BY <1>1, <1>2 DEF ActsOK
<1>4. StackInv'
  BY <1>1 DEF StackInv
<1>5. OneReady'
  BY <1>1, <1>2 DEF OneReady
<1> QED BY <1>2, <1>3, <1>4, <1>5

\* What a wait pushes.
LEMMA Pushed ==
  ASSUME TypeOK, ActsOK, NEW e, NEW at \in {"drain", "sysdone"}, Suspend(e, at)
  PROVE  /\ depth \in Nat /\ depth' = depth + 1 /\ pc = "body" /\ pc' = "wait" /\ act' = NoAct
         /\ callers'[depth + 1].evt = e /\ callers'[depth + 1].task = running
         /\ acts' \in Seq(Act) /\ Len(acts') = depth + 1
         /\ acts'[depth + 1] = [act EXCEPT !.at = at]
         /\ acts'[depth + 1].at = at /\ acts'[depth + 1].evt = act.evt
         /\ acts'[depth + 1].op = act.op
         /\ \A i \in 1 .. depth : acts'[i] = acts[i] /\ callers'[i] = callers[i]
<1>1. depth \in Nat /\ depth' = depth + 1 /\ pc = "body" /\ pc' = "wait" /\ act' = NoAct
  BY DEF TypeOK, Suspend, WaitEvt, Goto
<1>2. /\ callers'[depth + 1].evt = e /\ callers'[depth + 1].task = running
      /\ \A i \in 1 .. depth : callers'[i] = callers[i]
  BY <1>1 DEF Suspend, WaitEvt
<1> DEFINE a == [act EXCEPT !.at = at]
<1>3. a \in Act /\ a.at = at /\ a.evt = act.evt /\ a.op = act.op
  BY DEF ActsOK, Act
<1>4. acts' = Append(acts, a) /\ acts \in Seq(Act) /\ Len(acts) = depth
  BY DEF Suspend, ActsOK
<1> HIDE DEF a
<1>5. /\ acts' \in Seq(Act) /\ Len(acts') = depth + 1 /\ acts'[depth + 1] = a
      /\ \A i \in 1 .. depth : acts'[i] = acts[i]
  BY <1>1, <1>3, <1>4
<1> QED BY <1>1, <1>2, <1>3, <1>5 DEF a

\* A command waits for its answer: no other command does, for whoever waits
\* below has nothing to send.
LEMMA SuspendExec ==
  ASSUME TypeOK, ActsOK, RunInv, StackInv, OneReady, PauseInv, WaitResponse \/ ShciWait
  PROVE  (ActsOK /\ RunInv /\ StackInv /\ OneReady)'
<1> USE TasksAndEvents
<1>1. PICK e \in {HciRsp, SysRsp}, at \in {"drain", "sysdone"} :
        /\ Suspend(e, at)
        /\ \/ e = HciRsp /\ at = "drain" /\ act.at = "loop"
           \/ e = SysRsp /\ at = "sysdone" /\ act.at = "sysloop"
  BY DEF WaitResponse, ShciWait
<1>2. /\ depth \in Nat /\ depth' = depth + 1 /\ pc = "body" /\ pc' = "wait" /\ act' = NoAct
      /\ callers'[depth + 1].evt = e /\ callers'[depth + 1].task = running
      /\ acts' \in Seq(Act) /\ Len(acts') = depth + 1
      /\ acts'[depth + 1].at = at /\ acts'[depth + 1].evt = act.evt
      /\ acts'[depth + 1].op = act.op
      /\ \A i \in 1 .. depth : acts'[i] = acts[i] /\ callers'[i] = callers[i]
  BY <1>1, Pushed
<1>3. ActsOK'
  BY <1>2, FreshAct DEF ActsOK, NoAct
<1>4. RunInv'
  BY <1>2 DEF RunInv
<1>5. act.evt \in {"EVT", "READY"}
  BY <1>1, <1>2 DEF RunInv
<1>6. ~Waiting
  BY <1>2, <1>5 DEF PauseInv
<1>7. ASSUME NEW i \in 1 .. depth'
      PROVE  /\ \/ acts'[i].evt = "EVT" /\ callers'[i].task \in HciTasks
                \/ acts'[i].evt = "READY" /\ callers'[i].task = System
             /\ \/ /\ acts'[i].at = "drain" /\ i = depth' /\ callers'[i].evt = HciRsp
                   /\ acts'[i].op \in Op
                \/ acts'[i].at = "sysdone" /\ acts'[i].evt = "READY" /\ callers'[i].evt = SysRsp
  <2>1. CASE i = depth + 1
    BY <1>1, <1>2, <1>5, <2>1 DEF RunInv
  <2>2. CASE i \in 1 .. depth
    <3>1. acts[i].at # "drain"
      BY <1>2, <1>6, <2>2 DEF StackInv, Waiting
    <3> QED BY <1>2, <2>2, <3>1 DEF StackInv
  <2> QED BY <1>2, <2>1, <2>2
<1>8. OneReady'
  <2>1. SUFFICES ASSUME NEW i \in 1 .. depth + 1, NEW j \in 1 .. depth + 1,
                        acts'[i].evt = "READY", acts'[j].evt = "READY"
                 PROVE  i = j
    BY <1>2 DEF OneReady
  <2>2. CASE i \in 1 .. depth /\ j \in 1 .. depth
    BY <1>2, <2>1, <2>2 DEF OneReady
  <2>3. CASE i = depth + 1 /\ j \in 1 .. depth
    BY <1>2, <2>1, <2>3 DEF OneReady
  <2>4. CASE i \in 1 .. depth /\ j = depth + 1
    BY <1>2, <2>1, <2>4 DEF OneReady
  <2>5. CASE i = depth + 1 /\ j = depth + 1
    BY <2>5
  <2> QED BY <1>2, <2>1, <2>2, <2>3, <2>4, <2>5
<1> QED BY <1>3, <1>4, <1>7, <1>8 DEF StackInv

\* What the end of a wait pops.
LEMMA Popped ==
  ASSUME TypeOK, WaitInv, ActsOK, Resume
  PROVE  /\ depth \in Nat \ {0} /\ depth' = depth - 1 /\ pc = "woken" /\ pc' = "body"
         /\ running' = callers[depth].task /\ act' = acts[depth] /\ act' \in Act
         /\ acts' \in Seq(Act) /\ Len(acts') = depth - 1
         /\ \A i \in 1 .. depth - 1 : acts'[i] = acts[i] /\ callers'[i] = callers[i]
<1>1. /\ depth \in Nat \ {0} /\ depth' = depth - 1 /\ pc = "woken" /\ pc' = "body"
      /\ running' = callers[depth].task
  BY DEF TypeOK, WaitInv, Resume, WaitDone, Goto
<1>2. \A i \in 1 .. depth - 1 : callers'[i] = callers[i]
  BY <1>1 DEF Resume, WaitDone
<1>3. acts \in Seq(Act) /\ Len(acts) = depth /\ act' = acts[Len(acts)]
      /\ acts' = SubSeq(acts, 1, Len(acts) - 1)
  BY DEF Resume, ActsOK, Last, Front
<1>4. act' = acts[depth] /\ act' \in Act
  BY <1>1, <1>3
<1>5. /\ acts' \in Seq(Act) /\ Len(acts') = depth - 1
      /\ \A i \in 1 .. depth - 1 : acts'[i] = acts[i]
  BY <1>1, <1>3
<1> QED BY <1>1, <1>2, <1>4, <1>5

LEMMA ResumeExec ==
  ASSUME TypeOK, WaitInv, ActsOK, RunInv, StackInv, OneReady, Resume
  PROVE  (ActsOK /\ RunInv /\ StackInv /\ OneReady)'
<1>1. /\ depth \in Nat \ {0} /\ depth' = depth - 1 /\ pc = "woken" /\ pc' = "body"
      /\ running' = callers[depth].task /\ act' = acts[depth] /\ act' \in Act
      /\ acts' \in Seq(Act) /\ Len(acts') = depth - 1
      /\ \A i \in 1 .. depth - 1 : acts'[i] = acts[i] /\ callers'[i] = callers[i]
  BY Popped
<1>2. depth \in 1 .. depth /\ \A i \in 1 .. depth - 1 : i \in 1 .. depth /\ i # depth
  BY <1>1
<1>3. ActsOK'
  BY <1>1 DEF ActsOK
<1>4. RunInv'
  BY <1>1, <1>2 DEF RunInv, StackInv
<1>5. StackInv'
  BY <1>1, <1>2 DEF StackInv
<1>6. OneReady'
  BY <1>1, <1>2 DEF OneReady
<1> QED BY <1>3, <1>4, <1>5, <1>6

\* What the steps of an execution do to its event, and where they come from.
LEMMA BodyEvent ==
  ASSUME ActsOK, RunInv, TaskInv, BootInv, BodyAction
  PROVE  /\ act'.evt \in {"EVT", "READY"} =>
              \/ act.evt = act'.evt
              \/ act'.evt = "READY" /\ depth = 0 /\ boot' = "up"
              \/ act'.evt = "EVT" /\ running = HciAsynch
         /\ act'.at # "none" => act.evt \in {"EVT", "READY"}
<1> USE DEF ActsOK
<1>1. CASE TakeEvent
  <2>1. CASE running = HciAsynch
    <3>1. act' = Fresh("EVT") \/ act' = Fresh("end")
      BY <1>1, <2>1, TasksAndEvents DEF TakeEvent
    <3> QED BY <2>1, <3>1, FreshAct
  <2>2. CASE running = System /\ SHciAsynchEventQueue = <<>>
    <3>1. act' = Fresh("end")
      BY <1>1, <2>2, TasksAndEvents DEF TakeEvent
    <3> QED BY <3>1, FreshAct
  <2>3. CASE running = System /\ SHciAsynchEventQueue # <<>>
    <3> DEFINE e == SHciAsynchEventQueue[1]
    <3>1. /\ act' = Fresh(e) /\ e \in {"READY", "NVM"}
          /\ 1 \in 1 .. Len(SHciAsynchEventQueue)
          /\ boot' = IF act'.evt = "READY" THEN "up" ELSE boot
      BY <1>1, <2>3, TasksAndEvents DEF TakeEvent, BootInv
    <3>2. e = "READY" => depth = 0
      BY <3>1 DEF BootInv, TaskInv
    <3>3. act'.evt = e /\ act'.at = "none"
      BY <3>1, FreshAct
    <3> QED BY <3>1, <3>2, <3>3
  <2> QED BY <1>1, <2>1, <2>2, <2>3 DEF TakeEvent
<1>2. CASE Processed \/ NotifyIfMore
  <2>1. act' = Fresh("end") \/ act' = Fresh("done")
    BY <1>2 DEF Processed, NotifyIfMore
  <2> QED BY <2>1, FreshAct
<1>3. CASE (\E op \in Op : NotifyBusy(op)) \/ ShciSend
  BY <1>3 DEF NotifyBusy, ShciSend, Sending, Act
<1>4. CASE SendCmd \/ NotifyAvailable \/ ShciDone \/ Drain
  <2>1. act'.evt = act.evt
    BY <1>4 DEF SendCmd, NotifyAvailable, ShciDone, Drain, Act
  <2>2. act.evt \in {"EVT", "READY"}
    BY <1>4 DEF SendCmd, NotifyAvailable, ShciDone, Drain, RunInv
  <2> QED BY <2>1, <2>2
<1> QED BY <1>1, <1>2, <1>3, <1>4 DEF BodyAction

\* The requests and the start-up.
LEMMA TaskStep ==
  ASSUME IInv, ActsOK, RunInv, StackInv, TaskInv, BootInv, [HNext]_allvars
  PROVE  TaskInv'
<1> USE TasksAndEvents
<1>1. TypeOK /\ WaitInv /\ SelectedIsPending
  BY DEF IInv, SchedInv
<1>2. CASE Background \/ Cpu2 \/ UNCHANGED allvars
  <2>1. Quiet
    BY <1>2, QuietSteps
  <2>2. UNCHANGED <<TaskSet, boot>>
    BY <1>2 DEF Background, hvars, MainRun, EvtIdle, RunEnter, Sample, Test, Search, Select, Leave,
                EvtSeen, statics, locals, Cpu2, Respond, GiveCredit, SysRespond, SetEvt, allvars, vars
  <2> QED BY <2>1, <2>2 DEF Quiet, TaskInv
<1>3. CASE AsynchEvt \/ SysEvt \/ TimerTask
  <2>1. Quiet
    BY <1>3, QuietSteps
  <2>2. \/ boot = "up" /\ boot' = "up" /\ \E t \in HciTasks : TaskSet' = TaskSet \cup {t}
        \/ TaskSet' = TaskSet \cup {System} /\ (boot = "up" => boot' = "up")
    BY <1>3 DEF AsynchEvt, SysEvt, TimerTask, SetTask, hvars
  <2> QED BY <2>1, <2>2 DEF Quiet, TaskInv
<1>4. CASE CallTask
  <2>1. /\ CurrentTaskIdx \in TaskSet /\ running' = CurrentTaskIdx /\ TaskSet' \subseteq TaskSet
        /\ UNCHANGED <<boot, depth>>
    BY <1>1, <1>4 DEF CallTask, Clear, Goto, SelectedIsPending, Eligible
  <2>2. CurrentTaskIdx = System => act' = Fresh("start")
    BY <1>4 DEF CallTask
  <2> QED BY <2>1, <2>2, FreshAct DEF TaskInv
<1>5. CASE ReturnTask
  BY <1>5 DEF ReturnTask, Return, Goto, TaskInv, statics
<1>6. CASE WaitResponse \/ ShciWait
  <2>1. act.at # "none" /\ pc = "body" /\ UNCHANGED <<boot, TaskSet>>
    BY <1>6 DEF WaitResponse, ShciWait, Suspend, WaitEvt
  <2>2. boot = "up"
    BY <2>1 DEF RunInv, TaskInv
  <2> QED BY <2>1, <2>2 DEF TaskInv
<1>7. CASE Resume
  <2>1. depth # 0 /\ UNCHANGED <<boot, TaskSet>>
    BY <1>1, <1>7, Popped DEF Resume, WaitDone
  <2> QED BY <2>1 DEF TaskInv
<1>8. CASE BodyAction
  <2>1. InBody
    BY <1>8, BodySteps
  <2>2. TaskSet' \subseteq TaskSet \cup {running} /\ (TaskSet' # TaskSet => running \in {HciAsynch, System})
    <3>1. CASE NotifyIfMore
      BY <3>1 DEF NotifyIfMore, SetTask, vars, statics
    <3>2. CASE ~NotifyIfMore
      <4>1. TaskSet' = TaskSet
        BY <1>8, <3>2 DEF BodyAction, TakeEvent, Processed, NotifyBusy, SendCmd, Drain,
           NotifyAvailable, ShciSend, ShciDone, PauseTask, ResumeTask, vars, statics
      <4> QED BY <4>1
    <3> QED BY <3>1, <3>2
  <2>3. boot' = boot \/ boot' = "up"
    BY <1>8 DEF BodyAction, TakeEvent, Processed, NotifyIfMore, NotifyBusy, SendCmd, Drain,
           NotifyAvailable, ShciSend, ShciDone
  <2>4. act'.evt \in {"EVT", "READY"} => act.evt = act'.evt \/ boot' = "up" \/ running = HciAsynch
    BY <1>8, BodyEvent
  <2> QED BY <2>1, <2>2, <2>3, <2>4 DEF InBody, TaskInv
<1> QED BY <1>2, <1>3, <1>4, <1>5, <1>6, <1>7, <1>8 DEF HNext, Cpu1, BodyAction

\* The ready event is queued once, first, and taken once.
LEMMA BootStep ==
  ASSUME BootInv, [HNext]_allvars
  PROVE  BootInv'
<1> DEFINE q == SHciAsynchEventQueue
<1>1. CASE UNCHANGED <<SHciAsynchEventQueue, boot>>
  BY <1>1 DEF BootInv
<1>2. CASE TakeEvent
  <2>1. CASE running = System /\ q # <<>>
    <3>1. q' = Tail(q) /\ (boot' = boot \/ boot' = "up")
      BY <1>2, <2>1, TasksAndEvents DEF TakeEvent
    <3>2. /\ q' \in Seq({"READY", "NVM"}) /\ Len(q) \in Nat \ {0} /\ Len(q') = Len(q) - 1
          /\ \A i \in 1 .. Len(q) - 1 : q'[i] = q[i + 1]
      BY <2>1, <3>1, HeadTail DEF BootInv
    <3>3. \A i \in 1 .. Len(q') : q'[i] # "READY"
      BY <3>2 DEF BootInv
    <3>4. boot' # "off"
      BY <2>1, <3>1 DEF BootInv
    <3> QED BY <3>2, <3>3, <3>4 DEF BootInv
  <2>2. CASE ~(running = System /\ q # <<>>)
    <3>1. UNCHANGED <<SHciAsynchEventQueue, boot>>
      BY <1>2, <2>2 DEF TakeEvent
    <3> QED BY <3>1 DEF BootInv
  <2> QED BY <2>1, <2>2
<1>3. CASE SysEvt
  <2> DEFINE e == IF boot = "off" THEN "READY" ELSE "NVM"
  <2>1. q' = Append(q, e) /\ boot' = IF boot = "off" THEN "ready" ELSE boot
    BY <1>3 DEF SysEvt
  <2>2. q \in Seq({"READY", "NVM"}) /\ e \in {"READY", "NVM"}
    BY DEF BootInv
  <2>3. /\ q' \in Seq({"READY", "NVM"}) /\ Len(q) \in Nat /\ Len(q') = Len(q) + 1
        /\ q'[Len(q) + 1] = e /\ \A i \in 1 .. Len(q) : q'[i] = q[i]
    BY <2>1, <2>2
  <2>4. CASE boot = "off"
    BY <2>1, <2>3, <2>4 DEF BootInv
  <2>5. CASE boot # "off"
    BY <2>1, <2>3, <2>5 DEF BootInv
  <2> QED BY <2>4, <2>5
<1>4. CASE UNCHANGED allvars
  BY <1>1, <1>4 DEF allvars, hvars
<1>5. CASE HNext /\ ~TakeEvent /\ ~SysEvt
  <2>1. UNCHANGED <<SHciAsynchEventQueue, boot>>
    <3>1. CASE Background \/ CallTask \/ ReturnTask \/ Resume
      BY <3>1 DEF Background, CallTask, ReturnTask, Resume, hvars, qvars
    <3>2. CASE WaitResponse \/ ShciWait
      BY <3>2 DEF WaitResponse, ShciWait, Suspend, qvars
    <3>3. CASE BodyAction /\ ~TakeEvent
      BY <3>3 DEF BodyAction, Processed, NotifyIfMore, NotifyBusy, SendCmd, Drain,
                  NotifyAvailable, ShciSend, ShciDone, qvars
    <3>4. CASE Cpu2 \/ AsynchEvt \/ TimerTask
      BY <3>4 DEF Cpu2, Respond, GiveCredit, SysRespond, AsynchEvt, TimerTask, hvars, qvars
    <3> QED BY <1>5, <3>1, <3>2, <3>3, <3>4 DEF HNext, Cpu1, BodyAction
  <2> QED BY <1>1, <2>1
<1> QED BY <1>2, <1>3, <1>4, <1>5

\* No task that sends is selected while one waits, and who runs does not send.
LEMMA PauseStep ==
  ASSUME IInv, ActsOK, RunInv, StackInv, TaskInv, BootInv, PauseInv, [HNext]_allvars
  PROVE  PauseInv'
<1> USE TasksAndEvents
<1>1. TypeOK /\ WaitInv /\ SelectedIsPending
  BY DEF IInv, SchedInv
<1>2. CASE Background \/ Cpu2 \/ AsynchEvt \/ SysEvt \/ TimerTask \/ UNCHANGED allvars
  <2>1. Quiet
    BY <1>2, QuietSteps
  <2>2. TaskMask' = TaskMask
    BY <1>2 DEF Background, hvars, MainRun, EvtIdle, RunEnter, Sample, Test, Search, Select, Leave,
                EvtSeen, statics, locals, Cpu2, Respond, GiveCredit, SysRespond, SetEvt, allvars, vars,
                AsynchEvt, SysEvt, TimerTask, SetTask
  <2> QED BY <2>1, <2>2 DEF Quiet, PauseInv, Waiting
<1>3. CASE CallTask
  <2>1. /\ CurrentTaskIdx \in TaskSet \cap TaskMask /\ running' = CurrentTaskIdx
        /\ UNCHANGED <<TaskMask, depth, acts>>
    BY <1>1, <1>3 DEF CallTask, Clear, Goto, SelectedIsPending, Eligible
  <2>2. act'.at = "none" /\ (CurrentTaskIdx = System => act'.evt = "start")
    BY <1>3, FreshAct DEF CallTask
  <2>3. Waiting => CurrentTaskIdx = System
    BY <2>1 DEF PauseInv, TaskInv
  <2> QED BY <2>1, <2>2, <2>3 DEF PauseInv, Waiting
<1>4. CASE ReturnTask
  BY <1>4 DEF ReturnTask, Return, Goto, PauseInv, Waiting, statics
<1>5. CASE WaitResponse
  <2>1. TaskMask' = TaskMask /\ pc' = "wait" /\ pc = "body" /\ act.at = "loop"
    BY <1>5 DEF WaitResponse, Suspend, WaitEvt, Goto
  <2> QED BY <2>1 DEF PauseInv
<1>6. CASE ShciWait
  <2>1. pc' = "wait" /\ depth' = depth + 1 /\ acts'[depth + 1].at = "sysdone"
    BY <1>1, <1>6, Pushed DEF ShciWait
  <2> QED BY <2>1 DEF PauseInv, Waiting
<1>7. CASE Resume
  <2>1. /\ depth \in Nat \ {0} /\ depth' = depth - 1 /\ act' = acts[depth]
        /\ \A i \in 1 .. depth - 1 : acts'[i] = acts[i]
    BY <1>1, <1>7, Popped
  <2>2. TaskMask' = TaskMask
    BY <1>7 DEF Resume, WaitDone
  <2>3. ~Waiting'
    BY <2>1 DEF Waiting, StackInv
  <2>4. act'.at \in {"busy", "loop", "drain"} => Waiting
    BY <2>1 DEF StackInv, Waiting
  <2> QED BY <2>2, <2>3, <2>4 DEF PauseInv
<1>8. CASE BodyAction
  <2>1. InBody
    BY <1>8, BodySteps
  <2>2. Waiting' <=> Waiting
    BY <2>1 DEF InBody, Waiting
  <2>3. CASE Waiting
    <3>1. running = System /\ act.evt \notin {"EVT", "READY"} /\ TaskMask \cap HciTasks = {}
      BY <2>1, <2>3 DEF PauseInv, InBody
    <3>2. depth # 0
      BY <2>3 DEF Waiting
    <3>3. act'.evt \notin {"EVT", "READY"} /\ act'.at = "none"
      BY <1>8, <3>1, <3>2, BodyEvent
    <3>4. TakeEvent \/ Processed \/ NotifyIfMore
      BY <1>8, <2>1, <3>1 DEF BodyAction, NotifyBusy, Sending, SendCmd, Drain, NotifyAvailable,
                              ShciSend, ShciDone, RunInv, InBody
    <3>5. TaskMask' = TaskMask
      BY <3>4 DEF TakeEvent, Processed, NotifyIfMore, SetTask, vars, statics
    <3> QED BY <2>1, <3>1, <3>3, <3>5 DEF InBody, PauseInv
  <2>4. CASE ~Waiting
    <3>1. CASE \E op \in Op : NotifyBusy(op)
      <4>1. TaskMask' = TaskMask \ HciTasks
        BY <3>1 DEF NotifyBusy, PauseTask
      <4> QED BY <2>2, <2>4, <4>1 DEF PauseInv
    <3>2. CASE NotifyAvailable \/ ShciSend \/ ShciDone
      <4>1. act'.at \notin {"busy", "loop", "drain"}
        <5>1. act \in Act
          BY DEF ActsOK
        <5>2. CASE NotifyAvailable
          BY <5>1, <5>2 DEF NotifyAvailable, Act
        <5>3. CASE ShciSend
          BY <5>1, <5>3 DEF ShciSend, Act
        <5>4. CASE ShciDone
          BY <5>1, <5>4 DEF ShciDone, Act
        <5> QED BY <3>2, <5>2, <5>3, <5>4
      <4> QED BY <2>2, <2>4, <4>1 DEF PauseInv
    <3>3. CASE TakeEvent \/ Processed \/ NotifyIfMore
      <4>1. act'.at = "none"
        BY <3>3, FreshAct, HeadTail DEF TakeEvent, Processed, NotifyIfMore, BootInv
      <4> QED BY <2>2, <2>4, <4>1 DEF PauseInv
    <3>4. CASE SendCmd \/ Drain
      <4>1. TaskMask' = TaskMask /\ pc = "body" /\ act.at \in {"busy", "drain"}
        BY <3>4 DEF SendCmd, Drain, vars, statics
      <4> QED BY <2>2, <2>4, <4>1 DEF PauseInv
    <3> QED BY <1>8, <3>1, <3>2, <3>3, <3>4 DEF BodyAction
  <2> QED BY <2>3, <2>4
<1> QED BY <1>2, <1>3, <1>4, <1>5, <1>6, <1>7, <1>8 DEF HNext, Cpu1, BodyAction

\* The executions, whatever happens.
LEMMA ExecStep ==
  ASSUME IInv, ExecInv, QueueOK, [HNext]_allvars
  PROVE  ExecInv'
<1> USE DEF ExecInv
<1>1. TypeOK /\ WaitInv /\ SelectedIsPending
  BY DEF IInv, SchedInv
<1>2. TaskInv' /\ BootInv' /\ PauseInv'
  BY TaskStep, BootStep, PauseStep
<1>3. (ActsOK /\ RunInv /\ StackInv /\ OneReady)'
  <2>1. CASE Background \/ Cpu2 \/ AsynchEvt \/ SysEvt \/ TimerTask \/ UNCHANGED allvars
    BY <2>1, QuietSteps, QuietExec
  <2>2. CASE CallTask \/ ReturnTask
    BY <1>1, <2>2, CallExec
  <2>3. CASE WaitResponse \/ ShciWait
    BY <1>1, <2>3, SuspendExec
  <2>4. CASE Resume
    BY <1>1, <2>4, ResumeExec
  <2>5. CASE BodyAction
    BY <2>5, BodyExec
  <2> QED BY <2>1, <2>2, <2>3, <2>4, <2>5 DEF HNext, Cpu1, BodyAction
<1> QED BY <1>2, <1>3

----------------------------------------------------------------------------
(* The channel of commands                                                 *)

\* A command is sent and its call has not returned: which execution waits for
\* the answer, running or suspended, and which task it belongs to.
InSend  == pc = "body" /\ act.at \in {"loop", "drain"}
Pending == InSend \/ Waiting
Req == IF InSend THEN act ELSE acts[depth]
By  == IF InSend THEN running ELSE callers[depth].task

\* The answer, and after it the credit, come to the execution that waits; when
\* it has the credit, it has both and the queue is empty.
ChannelInv ==
  /\ ~Pending => ~ipcc_ble_cmd /\ credit /\ HciCmdEventQueue = <<>>
  /\ Pending =>
       /\ pCmdBuffer = [op |-> Req.op, by |-> By]
       /\ ipcc_ble_cmd => ~Req.available /\ ~credit /\ HciCmdEventQueue = <<>>
       /\ Req.available => credit /\ HciCmdEventQueue = <<>>
       /\ ~ipcc_ble_cmd =>
            \/ Req.rsp = pCmdBuffer
            \/ \E i \in 1 .. Len(HciCmdEventQueue) : HciCmdEventQueue[i].cmd = pCmdBuffer

\* One answer at most, and the credit last.
EventsInv ==
  /\ QueueOK
  /\ \A i \in 1 .. Len(HciCmdEventQueue) :
       /\ HciCmdEventQueue[i].cmd \in {pCmdBuffer, Nop}
       /\ HciCmdEventQueue[i].numcmd # 0 => credit /\ i = Len(HciCmdEventQueue)
  /\ ~ipcc_ble_cmd /\ ~credit => Len(HciCmdEventQueue) <= 1
  /\ Len(HciCmdEventQueue) <= 2

\* The request stays the same when a wait begins or ends.
SameRequest ==
  /\ Pending' <=> Pending
  /\ Pending => /\ Req'.op = Req.op /\ Req'.available = Req.available /\ Req'.rsp = Req.rsp
                /\ By' = By

LEMMA ChannelKept ==
  ASSUME ChannelInv, EventsInv, SameRequest,
         UNCHANGED <<pCmdBuffer, ipcc_ble_cmd, credit, HciCmdEventQueue>>
  PROVE  ChannelInv' /\ EventsInv'
<1>1. EventsInv'
  BY DEF EventsInv, QueueOK
<1>2. CASE Pending
  <2>1. Pending'
    BY <1>2 DEF SameRequest
  <2>2. /\ Req'.op = Req.op /\ Req'.available = Req.available /\ Req'.rsp = Req.rsp /\ By' = By
        /\ pCmdBuffer' = pCmdBuffer /\ HciCmdEventQueue' = HciCmdEventQueue
        /\ ipcc_ble_cmd' = ipcc_ble_cmd /\ credit' = credit
    BY <1>2 DEF SameRequest
  <2>3. pCmdBuffer' = [op |-> Req'.op, by |-> By']
    BY <1>2, <2>2 DEF ChannelInv
  <2>4. ipcc_ble_cmd' => ~Req'.available /\ ~credit' /\ HciCmdEventQueue' = <<>>
    BY <1>2, <2>2 DEF ChannelInv
  <2>5. Req'.available => credit' /\ HciCmdEventQueue' = <<>>
    BY <1>2, <2>2 DEF ChannelInv
  <2>6. ~ipcc_ble_cmd' =>
          \/ Req'.rsp = pCmdBuffer'
          \/ \E i \in 1 .. Len(HciCmdEventQueue') : HciCmdEventQueue'[i].cmd = pCmdBuffer'
    BY <1>2, <2>2 DEF ChannelInv
  <2> QED BY <1>1, <2>1, <2>3, <2>4, <2>5, <2>6 DEF ChannelInv
<1>3. CASE ~Pending
  <2>1. ~Pending'
    BY <1>3 DEF SameRequest
  <2> QED BY <1>1, <1>3, <2>1, Zenon DEF ChannelInv
<1> QED BY <1>1, <1>2, <1>3

LEMMA QuietRequest ==
  ASSUME Quiet
  PROVE  SameRequest
  BY DEF Quiet, SameRequest, Pending, InSend, Waiting, Req, By

\* All steps but those of the channel itself leave the request alone.
LEMMA OtherRequest ==
  ASSUME IInv, ExecInv,
         \/ CallTask \/ ReturnTask \/ Resume \/ WaitResponse \/ ShciWait
         \/ TakeEvent \/ Processed \/ NotifyIfMore \/ (\E op \in Op : NotifyBusy(op))
         \/ ShciSend \/ ShciDone
  PROVE  SameRequest
<1> USE DEF ExecInv
<1>1. TypeOK /\ WaitInv
  BY DEF IInv, SchedInv
<1>2. CASE CallTask
  <2>1. act'.at = "none" /\ UNCHANGED <<acts, depth, callers>> /\ pc = "clear"
    BY <1>2, FreshAct DEF CallTask, Clear, Goto
  <2> QED BY <2>1 DEF SameRequest, Pending, InSend, Waiting, Req, By
<1>3. CASE ReturnTask
  <2>1. ~InSend /\ ~InSend' /\ UNCHANGED <<acts, depth, callers>>
    BY <1>3 DEF ReturnTask, Return, Goto, InSend, RunInv
  <2> QED BY <2>1 DEF SameRequest, Pending, Waiting, Req, By
<1>4. CASE WaitResponse
  <2>1. /\ depth \in Nat /\ depth' = depth + 1 /\ pc = "body" /\ pc' = "wait"
        /\ callers'[depth + 1].task = running
        /\ acts'[depth + 1] = [act EXCEPT !.at = "drain"]
    BY <1>1, <1>4, Pushed DEF WaitResponse
  <2>2. InSend /\ ~InSend'
    BY <1>4, <2>1 DEF WaitResponse, InSend
  <2>3. /\ acts'[depth + 1].at = "drain" /\ acts'[depth + 1].op = act.op
        /\ acts'[depth + 1].available = act.available /\ acts'[depth + 1].rsp = act.rsp
    BY <2>1 DEF ActsOK, Act
  <2> QED BY <2>1, <2>2, <2>3 DEF SameRequest, Pending, Waiting, Req, By
<1>5. CASE ShciWait
  <2>1. /\ depth \in Nat /\ depth' = depth + 1 /\ pc = "body" /\ pc' = "wait"
        /\ acts'[depth + 1].at = "sysdone"
    BY <1>1, <1>5, Pushed DEF ShciWait
  <2>2. act.at = "sysloop"
    BY <1>5 DEF ShciWait
  <2>3. ~Waiting
    BY <2>1, <2>2 DEF PauseInv, RunInv
  <2> QED BY <2>1, <2>2, <2>3 DEF SameRequest, Pending, InSend, Waiting
<1>6. CASE Resume
  <2>1. /\ depth \in Nat \ {0} /\ depth' = depth - 1 /\ pc = "woken" /\ pc' = "body"
        /\ running' = callers[depth].task /\ act' = acts[depth]
        /\ \A i \in 1 .. depth - 1 : acts'[i] = acts[i]
    BY <1>1, <1>6, Popped
  <2>2. ~Waiting' /\ ~InSend
    BY <2>1 DEF Waiting, StackInv, InSend
  <2>3. InSend' <=> Waiting
    BY <2>1 DEF Waiting, StackInv, InSend
  <2> QED BY <2>1, <2>2, <2>3 DEF SameRequest, Pending, Req, By
<1>7. CASE \/ TakeEvent \/ Processed \/ NotifyIfMore \/ (\E op \in Op : NotifyBusy(op))
           \/ ShciSend \/ ShciDone
  <2>1. InBody
    BY <1>7, BodySteps DEF BodyAction
  <2>2. act.at \notin {"loop", "drain"}
    BY <1>7 DEF TakeEvent, Processed, NotifyIfMore, NotifyBusy, ShciSend, ShciDone, Sending, RunInv
  <2>3. act'.at \notin {"loop", "drain"}
    <3>1. CASE TakeEvent \/ Processed \/ NotifyIfMore
      BY <3>1, FreshAct, HeadTail DEF TakeEvent, Processed, NotifyIfMore, BootInv
    <3>2. CASE \E op \in Op : NotifyBusy(op)
      BY <3>2 DEF NotifyBusy, ActsOK, Act
    <3>3. CASE ShciSend
      BY <3>3 DEF ShciSend, ActsOK, Act
    <3>4. CASE ShciDone
      BY <3>4 DEF ShciDone, ActsOK, Act
    <3> QED BY <1>7, <3>1, <3>2, <3>3, <3>4
  <2> QED BY <2>1, <2>2, <2>3 DEF InBody, SameRequest, Pending, InSend, Waiting, Req, By
<1> QED BY <1>2, <1>3, <1>4, <1>5, <1>6, <1>7

\* The command goes out on an idle channel: whoever is about to send runs, and
\* nobody waits.
LEMMA SendStep ==
  ASSUME ExecInv, ChannelInv, EventsInv, SendCmd
  PROVE  ChannelInv' /\ EventsInv'
<1> USE DEF ExecInv
<1>1. /\ pc = "body" /\ act.at = "busy" /\ InBody
      /\ pCmdBuffer' = [op |-> act.op, by |-> running]
      /\ ipcc_ble_cmd' /\ ~credit' /\ HciCmdEventQueue' = HciCmdEventQueue
      /\ act' = [act EXCEPT !.at = "loop", !.available = FALSE, !.rsp = NoOp]
  BY BodySteps DEF SendCmd, BodyAction, qvars
<1>2. ~Pending
  BY <1>1 DEF Pending, InSend, PauseInv, RunInv
<1>3. HciCmdEventQueue = <<>>
  BY <1>2 DEF ChannelInv
<1>4. act'.at = "loop" /\ act'.op = act.op /\ ~act'.available
  BY <1>1 DEF ActsOK, Act
<1>5. InSend' /\ pc' = "body" /\ running' = running
  BY <1>1, <1>4 DEF InSend, InBody
<1>6. Pending' /\ Req'.op = act.op /\ ~Req'.available /\ By' = running
  BY <1>4, <1>5 DEF Pending, Req, By
<1>7. ChannelInv'
  BY <1>1, <1>3, <1>6 DEF ChannelInv
<1>8. EventsInv'
  BY <1>1, <1>3 DEF EventsInv, QueueOK
<1> QED BY <1>7, <1>8

\* An event is taken: the answer, or the credit, or both.
LEMMA DrainStep ==
  ASSUME ExecInv, ChannelInv, EventsInv, Drain
  PROVE  ChannelInv' /\ EventsInv'
<1> USE DEF ExecInv
<1> DEFINE q == HciCmdEventQueue
<1>1. /\ pc = "body" /\ act.at = "drain" /\ InBody
      /\ UNCHANGED <<pCmdBuffer, ipcc_ble_cmd, credit>>
  BY BodySteps DEF Drain, BodyAction, cvars
<1>2. InSend /\ Req = act /\ By = running /\ Pending
  BY <1>1 DEF InSend, Req, By, Pending
<1>3. act \in Act /\ pCmdBuffer = [op |-> act.op, by |-> running]
  BY <1>2 DEF ActsOK, ChannelInv
<1>4. CASE q = <<>>
  <2>1. act' = [act EXCEPT !.at = "loop"] /\ HciCmdEventQueue' = HciCmdEventQueue
    BY <1>4 DEF Drain
  <2>2. act'.at = "loop" /\ act'.op = act.op /\ act'.available = act.available /\ act'.rsp = act.rsp
    BY <1>3, <2>1 DEF Act
  <2>3. SameRequest
    BY <1>1, <1>2, <2>2 DEF SameRequest, InBody, InSend, Pending, Req, By
  <2> QED BY <1>1, <2>1, <2>3, ChannelKept
<1>5. CASE q # <<>>
  <2> DEFINE evt == Head(q)
             mine == evt.cmd # Nop /\ evt.cmd.op = act.op
  <2>1. /\ act' = [act EXCEPT !.available = act.available \/ evt.numcmd # 0,
                              !.rsp = IF mine THEN evt.cmd ELSE act.rsp]
        /\ HciCmdEventQueue' = Tail(HciCmdEventQueue)
    BY <1>5 DEF Drain
  <2>2. /\ evt = q[1] /\ q' \in Seq([cmd : Cmd \cup {Nop}, numcmd : {0, 1}])
        /\ Len(q) \in Nat \ {0} /\ Len(q') = Len(q) - 1
        /\ \A i \in 1 .. Len(q) - 1 : q'[i] = q[i + 1]
    BY <1>5, <2>1, HeadTail DEF EventsInv, QueueOK
  <2>3. /\ act'.at = "drain" /\ act'.op = act.op
        /\ act'.available <=> act.available \/ evt.numcmd # 0
        /\ act'.rsp = IF mine THEN evt.cmd ELSE act.rsp
    BY <1>1, <1>3, <2>1 DEF Act
  <2>4. InSend' /\ Req' = act' /\ By' = running /\ Pending'
    BY <1>1, <2>3 DEF InSend, Req, By, Pending, InBody
  <2>5. ~ipcc_ble_cmd /\ ~ipcc_ble_cmd' /\ ~act.available
    BY <1>1, <1>2, <1>5 DEF ChannelInv
  <2>6. /\ evt.cmd \in {pCmdBuffer, Nop}
        /\ evt.numcmd # 0 => credit /\ 1 = Len(q)
    BY <2>2 DEF EventsInv
  <2>7. Nop # pCmdBuffer /\ (evt.cmd = pCmdBuffer => mine)
    <3>1. act.op \in Op /\ running \in Task
      BY <1>1, TasksAndEvents DEF RunInv
    <3> QED BY <1>3, <3>1, HciAssumption DEF HciAssumption, Cmd
  <2>8. act'.available => credit' /\ q' = <<>>
    BY <1>1, <2>2, <2>3, <2>5, <2>6
  <2>9. \/ act'.rsp = pCmdBuffer'
        \/ \E i \in 1 .. Len(q') : q'[i].cmd = pCmdBuffer'
    <3>1. CASE act.rsp = pCmdBuffer
      BY <1>1, <2>3, <2>6, <2>7, <3>1
    <3>2. CASE \E i \in 1 .. Len(q) : q[i].cmd = pCmdBuffer
      <4>1. PICK i \in 1 .. Len(q) : q[i].cmd = pCmdBuffer
        BY <3>2
      <4>2. CASE i = 1
        BY <1>1, <2>2, <2>3, <2>6, <2>7, <4>1, <4>2
      <4>3. CASE i # 1
        <5>1. i - 1 \in 1 .. Len(q') /\ q'[i - 1] = q[i]
          BY <2>2, <4>1, <4>3
        <5> QED BY <1>1, <4>1, <5>1
      <4> QED BY <4>2, <4>3
    <3> QED BY <1>2, <2>5, <3>1, <3>2 DEF ChannelInv
  <2>10. ChannelInv'
    <3>1. pCmdBuffer' = [op |-> Req'.op, by |-> By']
      BY <1>1, <1>3, <2>3, <2>4
    <3> QED BY <2>4, <2>5, <2>8, <2>9, <3>1 DEF ChannelInv
  <2>11. EventsInv'
    <3>1. ASSUME NEW i \in 1 .. Len(q')
          PROVE  /\ q'[i].cmd \in {pCmdBuffer', Nop}
                 /\ q'[i].numcmd # 0 => credit' /\ i = Len(q')
      <4>1. i + 1 \in 1 .. Len(q) /\ q'[i] = q[i + 1]
        BY <2>2
      <4> QED BY <1>1, <2>2, <4>1 DEF EventsInv
    <3>2. Len(q') <= 2 /\ (~ipcc_ble_cmd' /\ ~credit' => Len(q') <= 1)
      BY <1>1, <2>2, <2>5 DEF EventsInv
    <3> QED BY <2>2, <3>1, <3>2 DEF EventsInv, QueueOK
  <2> QED BY <2>10, <2>11
<1> QED BY <1>4, <1>5

\* The call returns, the channel idle and the queue empty.
LEMMA ReturnStep ==
  ASSUME ExecInv, ChannelInv, EventsInv, NotifyAvailable
  PROVE  ChannelInv' /\ EventsInv'
<1> USE DEF ExecInv
<1>1. /\ pc = "body" /\ act.at = "loop" /\ act.available /\ InBody
      /\ act' = [act EXCEPT !.at = "none", !.op = NoOp, !.available = FALSE, !.rsp = NoOp]
      /\ UNCHANGED <<pCmdBuffer, ipcc_ble_cmd, credit, HciCmdEventQueue>>
  BY BodySteps DEF NotifyAvailable, BodyAction, cvars, qvars
<1>2. Pending /\ Req = act /\ ~Waiting
  BY <1>1 DEF InSend, Req, Pending, PauseInv, RunInv
<1>3. ~ipcc_ble_cmd /\ credit /\ HciCmdEventQueue = <<>>
  BY <1>1, <1>2 DEF ChannelInv
<1>4. act'.at = "none"
  BY <1>1 DEF ActsOK, Act
<1>5. ~Pending'
  BY <1>1, <1>2, <1>4 DEF Pending, InSend, Waiting, InBody
<1>6. ChannelInv'
  BY <1>1, <1>3, <1>5 DEF ChannelInv
<1>7. EventsInv'
  BY <1>1 DEF EventsInv, QueueOK
<1> QED BY <1>6, <1>7

\* An event at the end of the queue.
LEMMA EventAppended ==
  ASSUME QueueOK, NEW c \in Cmd \cup {Nop}, NEW n \in {0, 1},
         HciCmdEventQueue' = Append(HciCmdEventQueue, [cmd |-> c, numcmd |-> n])
  PROVE  /\ QueueOK' /\ Len(HciCmdEventQueue) \in Nat
         /\ Len(HciCmdEventQueue') = Len(HciCmdEventQueue) + 1
         /\ HciCmdEventQueue'[Len(HciCmdEventQueue) + 1].cmd = c
         /\ HciCmdEventQueue'[Len(HciCmdEventQueue) + 1].numcmd = n
         /\ \A i \in 1 .. Len(HciCmdEventQueue) : HciCmdEventQueue'[i] = HciCmdEventQueue[i]
<1> DEFINE S == [cmd : Cmd \cup {Nop}, numcmd : {0, 1}]
           e == [cmd |-> c, numcmd |-> n]
<1>1. e \in S /\ e.cmd = c /\ e.numcmd = n
  OBVIOUS
<1>2. HciCmdEventQueue \in Seq(S) /\ HciCmdEventQueue' = Append(HciCmdEventQueue, e)
  BY DEF QueueOK
<1> HIDE DEF S, e
<1>3. /\ HciCmdEventQueue' \in Seq(S) /\ Len(HciCmdEventQueue) \in Nat
      /\ Len(HciCmdEventQueue') = Len(HciCmdEventQueue) + 1
      /\ HciCmdEventQueue'[Len(HciCmdEventQueue) + 1] = e
      /\ \A i \in 1 .. Len(HciCmdEventQueue) : HciCmdEventQueue'[i] = HciCmdEventQueue[i]
  BY <1>1, <1>2
<1> QED BY <1>1, <1>3 DEF QueueOK, S

\* The second core answers the command that waits.
LEMMA RespondStep ==
  ASSUME ExecInv, ChannelInv, EventsInv, NEW n \in {0, 1}, Respond(n)
  PROVE  ChannelInv' /\ EventsInv'
<1>1. Quiet
  BY QuietSteps DEF Cpu2
<1>2. SameRequest
  BY <1>1, QuietRequest
<1>3. /\ ipcc_ble_cmd /\ ~ipcc_ble_cmd' /\ pCmdBuffer' = pCmdBuffer
      /\ credit' <=> n # 0
      /\ HciCmdEventQueue' = Append(HciCmdEventQueue, [cmd |-> pCmdBuffer, numcmd |-> n])
  BY DEF Respond
<1>4. /\ Pending /\ HciCmdEventQueue = <<>> /\ ~Req.available
      /\ pCmdBuffer = [op |-> Req.op, by |-> By]
  BY <1>3 DEF ChannelInv
<1>5. pCmdBuffer \in Cmd
  <2>1. CASE InSend
    <3>1. act.op \in Op /\ running \in Task
      BY <2>1, TasksAndEvents DEF ExecInv, RunInv, InSend
    <3> QED BY <1>4, <2>1, <3>1 DEF Req, By, Cmd
  <2>2. CASE ~InSend
    <3>1. depth \in 1 .. depth /\ acts[depth].at = "drain"
      BY <1>4, <2>2 DEF Pending, Waiting, ExecInv, ActsOK
    <3>2. acts[depth].op \in Op /\ callers[depth].task \in Task
      BY <3>1, TasksAndEvents DEF ExecInv, StackInv
    <3> QED BY <1>4, <2>2, <3>2 DEF Req, By, Cmd
  <2> QED BY <2>1, <2>2
<1>6. /\ QueueOK' /\ Len(HciCmdEventQueue') = 1
      /\ HciCmdEventQueue'[1].cmd = pCmdBuffer /\ HciCmdEventQueue'[1].numcmd = n
  <2>1. /\ QueueOK' /\ Len(HciCmdEventQueue') = Len(HciCmdEventQueue) + 1
        /\ HciCmdEventQueue'[Len(HciCmdEventQueue) + 1].cmd = pCmdBuffer
        /\ HciCmdEventQueue'[Len(HciCmdEventQueue) + 1].numcmd = n
    BY <1>3, <1>5, EventAppended DEF EventsInv
  <2>2. Len(HciCmdEventQueue) = 0
    BY <1>4
  <2> QED BY <2>1, <2>2
<1>7. EventsInv'
  BY <1>3, <1>6 DEF EventsInv
<1>8. ChannelInv'
  <2>1. /\ Pending' /\ ~Req'.available /\ pCmdBuffer' = [op |-> Req'.op, by |-> By']
    BY <1>2, <1>3, <1>4 DEF SameRequest
  <2>2. \E i \in 1 .. Len(HciCmdEventQueue') : HciCmdEventQueue'[i].cmd = pCmdBuffer'
    BY <1>3, <1>6
  <2> QED BY <1>3, <2>1, <2>2 DEF ChannelInv
<1> QED BY <1>7, <1>8

\* The credit it withheld comes later.
LEMMA CreditStep ==
  ASSUME ExecInv, ChannelInv, EventsInv, GiveCredit
  PROVE  ChannelInv' /\ EventsInv'
<1> DEFINE q == HciCmdEventQueue
<1>1. Quiet
  BY QuietSteps DEF Cpu2
<1>2. SameRequest
  BY <1>1, QuietRequest
<1>3. /\ ~ipcc_ble_cmd /\ ~credit /\ credit' /\ UNCHANGED <<pCmdBuffer, ipcc_ble_cmd>>
      /\ HciCmdEventQueue' = Append(HciCmdEventQueue, [cmd |-> Nop, numcmd |-> 1])
  BY DEF GiveCredit
<1>4. Pending /\ ~Req.available /\ Len(q) <= 1
  BY <1>3 DEF ChannelInv, EventsInv
<1>5. /\ QueueOK' /\ Len(q) \in Nat /\ Len(q') = Len(q) + 1
      /\ q'[Len(q) + 1].cmd = Nop /\ q'[Len(q) + 1].numcmd = 1
      /\ \A i \in 1 .. Len(q) : q'[i] = q[i]
  BY <1>3, EventAppended DEF EventsInv
<1>6. EventsInv'
  <2>1. ASSUME NEW i \in 1 .. Len(q')
        PROVE  /\ q'[i].cmd \in {pCmdBuffer', Nop}
               /\ q'[i].numcmd # 0 => credit' /\ i = Len(q')
    <3>1. CASE i = Len(q) + 1
      BY <1>3, <1>5, <3>1
    <3>2. CASE i \in 1 .. Len(q)
      BY <1>3, <1>5, <3>2 DEF EventsInv
    <3> QED BY <1>5, <3>1, <3>2
  <2> QED BY <1>3, <1>4, <1>5, <2>1 DEF EventsInv
<1>7. ChannelInv'
  <2>1. Pending' /\ ~Req'.available /\ Req'.rsp = Req.rsp /\ pCmdBuffer' = [op |-> Req'.op, by |-> By']
    BY <1>2, <1>3, <1>4 DEF SameRequest, ChannelInv
  <2>2. \/ Req'.rsp = pCmdBuffer'
        \/ \E i \in 1 .. Len(q') : q'[i].cmd = pCmdBuffer'
    <3>1. CASE Req.rsp = pCmdBuffer
      BY <1>3, <2>1, <3>1
    <3>2. CASE \E i \in 1 .. Len(q) : q[i].cmd = pCmdBuffer
      BY <1>3, <1>5, <3>2
    <3> QED BY <1>3, <1>4, <3>1, <3>2 DEF ChannelInv
  <2> QED BY <1>3, <2>1, <2>2 DEF ChannelInv
<1> QED BY <1>6, <1>7

LEMMA ChannelStep ==
  ASSUME IInv, ExecInv, ChannelInv, EventsInv, [HNext]_allvars
  PROVE  ChannelInv' /\ EventsInv'
<1>1. CASE SendCmd
  BY <1>1, SendStep
<1>2. CASE Drain
  BY <1>2, DrainStep
<1>3. CASE NotifyAvailable
  BY <1>3, ReturnStep
<1>4. ASSUME NEW n \in {0, 1}, Respond(n) PROVE ChannelInv' /\ EventsInv'
  BY <1>4, RespondStep
<1>5. CASE GiveCredit
  BY <1>5, CreditStep
<1>6. CASE Background \/ SysRespond \/ AsynchEvt \/ SysEvt \/ TimerTask \/ UNCHANGED allvars
  <2>1. SameRequest
    BY <1>6, QuietSteps, QuietRequest DEF Cpu2
  <2>2. UNCHANGED <<pCmdBuffer, ipcc_ble_cmd, credit, HciCmdEventQueue>>
    BY <1>6 DEF Background, SysRespond, AsynchEvt, SysEvt, TimerTask, allvars, hvars, cvars, qvars
  <2> QED BY <2>1, <2>2, ChannelKept
<1>7. CASE \/ CallTask \/ ReturnTask \/ Resume \/ WaitResponse \/ ShciWait
           \/ TakeEvent \/ Processed \/ NotifyIfMore \/ (\E op \in Op : NotifyBusy(op))
           \/ ShciSend \/ ShciDone
  <2>1. SameRequest
    BY <1>7, OtherRequest
  <2>2. UNCHANGED <<pCmdBuffer, ipcc_ble_cmd, credit, HciCmdEventQueue>>
    BY <1>7 DEF CallTask, ReturnTask, Resume, WaitResponse, ShciWait, Suspend, TakeEvent, Processed,
                NotifyIfMore, NotifyBusy, ShciSend, ShciDone, cvars, qvars
  <2> QED BY <2>1, <2>2, ChannelKept
<1> QED BY <1>1, <1>2, <1>3, <1>4, <1>5, <1>6, <1>7 DEF HNext, Cpu1, Cpu2

----------------------------------------------------------------------------
(* The system transport and the events                                     *)

\* A system command is sent and its wait has not returned.
SysPending ==
  \/ pc = "body" /\ act.at = "sysloop"
  \/ \E i \in 1 .. depth : acts[i].at = "sysdone"

\* The event is set after the answer is written, and consumed by the wait.
SysInv ==
  /\ ~SysPending => ~ipcc_sys_cmd /\ SysRsp \notin EvtSet
  /\ SysRsp \in EvtSet => ~ipcc_sys_cmd
  /\ pc = "woken" => callers[depth].evt \in EvtSet
  /\ pc = "body" /\ act.at = "sysdone" => ~ipcc_sys_cmd

LEMMA SysStep ==
  ASSUME IInv, ExecInv, SysInv, [HNext]_allvars
  PROVE  SysInv'
<1> USE DEF ExecInv
<1>1. TypeOK /\ WaitInv
  BY DEF IInv, SchedInv
<1>2. CASE Background \/ Cpu2 \/ AsynchEvt \/ SysEvt \/ TimerTask \/ UNCHANGED allvars
  <2>1. Quiet
    BY <1>2, QuietSteps
  <2>2. SysPending' <=> SysPending
    BY <2>1 DEF Quiet, SysPending
  <2>3. CASE SysRespond
    <3>1. /\ ipcc_sys_cmd /\ ~ipcc_sys_cmd' /\ EvtSet' = EvtSet \cup {SysRsp} /\ pc' = pc
          /\ UNCHANGED <<callers, depth, act>>
      BY <2>3 DEF SysRespond, SetEvt, locals
    <3> QED BY <2>2, <3>1 DEF SysInv
  <2>4. CASE (\E n \in {0, 1} : Respond(n)) \/ GiveCredit
    <3>1. /\ ipcc_sys_cmd' = ipcc_sys_cmd /\ EvtSet' = EvtSet \cup {HciRsp} /\ pc' = pc
          /\ UNCHANGED <<callers, depth, act>>
      BY <2>4 DEF Respond, GiveCredit, SetEvt, locals
    <3>2. HciRsp # SysRsp
      BY HciAssumption DEF HciAssumption
    <3> QED BY <2>2, <3>1, <3>2 DEF SysInv
  <2>5. CASE Background
    <3>1. ipcc_sys_cmd' = ipcc_sys_cmd /\ EvtSet' = EvtSet
      BY <2>5 DEF Background, hvars, MainRun, EvtIdle, RunEnter, Sample, Test, Search, Select, Leave,
                  EvtSeen, statics
    <3>2. pc' = "woken" => callers[depth].evt \in EvtSet
      BY <2>5 DEF Background, MainRun, EvtIdle, RunEnter, Sample, Test, Search, Select, Leave, EvtSeen,
                  Goto
    <3> QED BY <2>1, <2>2, <3>1, <3>2 DEF SysInv, Quiet
  <2>6. CASE AsynchEvt \/ SysEvt \/ TimerTask \/ UNCHANGED allvars
    <3>1. ipcc_sys_cmd' = ipcc_sys_cmd /\ EvtSet' = EvtSet /\ pc' = pc
      BY <2>6 DEF AsynchEvt, SysEvt, TimerTask, SetTask, cvars, hvars, allvars, vars, statics
    <3> QED BY <2>1, <2>2, <3>1 DEF SysInv, Quiet
  <2> QED BY <1>2, <2>3, <2>4, <2>5, <2>6 DEF Cpu2
<1>3. CASE CallTask \/ ReturnTask
  <2>1. /\ UNCHANGED <<ipcc_sys_cmd, EvtSet, depth, acts>> /\ pc' \in {"body", "sample"}
        /\ act'.at = "none" /\ ~(pc = "body" /\ act.at = "sysloop")
    <3>1. CASE CallTask
      BY <3>1, FreshAct DEF CallTask, Clear, Goto, cvars
    <3>2. CASE ReturnTask
      BY <3>2, FreshAct DEF ReturnTask, Return, Goto, cvars, statics, NoAct, RunInv
    <3> QED BY <1>3, <3>1, <3>2
  <2> QED BY <2>1 DEF SysInv, SysPending
<1>4. CASE WaitResponse \/ ShciWait
  <2>1. /\ depth \in Nat /\ depth' = depth + 1 /\ pc = "body" /\ pc' = "wait"
        /\ \A i \in 1 .. depth : acts'[i] = acts[i]
        /\ \/ act.at = "sysloop" /\ acts'[depth + 1].at = "sysdone"
           \/ act.at # "sysloop" /\ acts'[depth + 1].at = "drain"
    BY <1>1, <1>4, Pushed DEF WaitResponse, ShciWait
  <2>2. UNCHANGED <<ipcc_sys_cmd, EvtSet>>
    BY <1>4 DEF WaitResponse, ShciWait, Suspend, WaitEvt, cvars
  <2>3. SysPending' <=> SysPending
    <3>1. ASSUME SysPending PROVE SysPending'
      <4>1. CASE act.at = "sysloop"
        BY <2>1, <4>1 DEF SysPending
      <4>2. CASE act.at # "sysloop"
        <5>1. PICK i \in 1 .. depth : acts[i].at = "sysdone"
          BY <3>1, <4>2 DEF SysPending
        <5>2. i \in 1 .. depth' /\ acts'[i].at = "sysdone"
          BY <2>1, <5>1
        <5> QED BY <5>2 DEF SysPending
      <4> QED BY <4>1, <4>2
    <3>2. ASSUME SysPending' PROVE SysPending
      <4>1. PICK i \in 1 .. depth + 1 : acts'[i].at = "sysdone"
        BY <2>1, <3>2 DEF SysPending
      <4>2. CASE i = depth + 1
        BY <2>1, <4>1, <4>2 DEF SysPending
      <4>3. CASE i \in 1 .. depth
        BY <2>1, <4>1, <4>3 DEF SysPending
      <4> QED BY <2>1, <4>2, <4>3
    <3> QED BY <3>1, <3>2
  <2> QED BY <2>1, <2>2, <2>3 DEF SysInv
<1>5. CASE Resume
  <2>1. /\ depth \in Nat \ {0} /\ depth' = depth - 1 /\ pc = "woken" /\ pc' = "body"
        /\ act' = acts[depth] /\ \A i \in 1 .. depth - 1 : acts'[i] = acts[i]
    BY <1>1, <1>5, Popped
  <2>2. ipcc_sys_cmd' = ipcc_sys_cmd /\ EvtSet' = EvtSet \ {callers[depth].evt}
    BY <1>5 DEF Resume, WaitDone, cvars
  <2>3. depth \in 1 .. depth
    BY <2>1
  <2>4. CASE acts[depth].at = "drain"
    <3>1. callers[depth].evt = HciRsp /\ HciRsp # SysRsp
      BY <2>3, <2>4, HciAssumption DEF StackInv, HciAssumption
    <3>2. SysPending => SysPending'
      <4>1. SUFFICES ASSUME SysPending PROVE SysPending'
        OBVIOUS
      <4>2. PICK i \in 1 .. depth : acts[i].at = "sysdone"
        BY <2>1, <4>1 DEF SysPending
      <4>3. i \in 1 .. depth' /\ acts'[i].at = "sysdone"
        BY <2>1, <2>4, <4>2
      <4> QED BY <4>3 DEF SysPending
    <3> QED BY <2>1, <2>2, <2>4, <3>1, <3>2 DEF SysInv
  <2>5. CASE acts[depth].at = "sysdone"
    <3>1. callers[depth].evt = SysRsp /\ SysRsp \in EvtSet /\ ~ipcc_sys_cmd
      BY <2>1, <2>3, <2>5 DEF StackInv, SysInv
    <3> QED BY <2>1, <2>2, <3>1 DEF SysInv
  <2> QED BY <2>3, <2>4, <2>5 DEF StackInv
<1>6. CASE ShciSend
  <2>1. /\ InBody /\ act.at = "none" /\ act.evt = "READY" /\ act' = [act EXCEPT !.at = "sysloop", !.n = act.n + 1]
        /\ EvtSet' = EvtSet
    BY <1>6, BodySteps DEF BodyAction, ShciSend, Sending, vars, statics
  <2>2. ~SysPending
    BY <2>1 DEF SysPending, InBody, StackInv, OneReady
  <2>3. act'.at = "sysloop"
    BY <2>1 DEF ActsOK, Act
  <2>4. SysPending'
    BY <2>1, <2>3 DEF SysPending, InBody
  <2> QED BY <2>1, <2>2, <2>3, <2>4 DEF SysInv, InBody
<1>7. CASE BodyAction /\ ~ShciSend
  <2>1. InBody
    BY <1>7, BodySteps
  <2>2. UNCHANGED <<ipcc_sys_cmd, EvtSet>>
    BY <1>7 DEF BodyAction, TakeEvent, Processed, NotifyIfMore, SetTask, NotifyBusy, PauseTask, SendCmd,
       Drain, NotifyAvailable, ResumeTask, ShciDone, cvars, vars, statics
  <2>3. act.at # "sysloop" /\ act'.at \notin {"sysloop", "sysdone"}
    <3>1. CASE TakeEvent \/ Processed \/ NotifyIfMore
      BY <3>1, FreshAct, HeadTail DEF TakeEvent, Processed, NotifyIfMore, BootInv, RunInv
    <3>2. CASE \E op \in Op : NotifyBusy(op)
      BY <3>2 DEF NotifyBusy, Sending, ActsOK, Act
    <3>3. CASE SendCmd \/ NotifyAvailable \/ ShciDone
      BY <3>3 DEF SendCmd, NotifyAvailable, ShciDone, ActsOK, Act
    <3>4. CASE Drain
      BY <3>4 DEF Drain, ActsOK, Act
    <3> QED BY <1>7, <3>1, <3>2, <3>3, <3>4 DEF BodyAction
  <2>4. SysPending' <=> SysPending
    BY <2>1, <2>3 DEF SysPending, InBody
  <2> QED BY <2>1, <2>2, <2>3, <2>4 DEF SysInv, InBody
<1> QED BY <1>2, <1>3, <1>4, <1>5, <1>6, <1>7 DEF HNext, Cpu1, BodyAction

\* Between two executions nobody runs.
IdleInv == pc # "body" => running = NoTaskRunning

LEMMA IdleStep ==
  ASSUME IdleInv, [HNext]_allvars
  PROVE  IdleInv'
<1>1. CASE Background \/ Cpu2 \/ AsynchEvt \/ SysEvt \/ TimerTask \/ UNCHANGED allvars
  BY <1>1, QuietSteps DEF Quiet, IdleInv, NoTaskRunning
<1>2. CASE CallTask \/ ReturnTask \/ Resume
  BY <1>2 DEF CallTask, ReturnTask, Resume, Clear, Return, WaitDone, Goto, IdleInv, NoTaskRunning
<1>3. CASE WaitResponse \/ ShciWait
  BY <1>3 DEF WaitResponse, ShciWait, Suspend, WaitEvt, IdleInv, NoTaskRunning
<1>4. CASE BodyAction
  BY <1>4, BodySteps DEF InBody, IdleInv
<1> QED BY <1>1, <1>2, <1>3, <1>4 DEF HNext, Cpu1, BodyAction

\* A transport task that has to look at its queue will still have to, unless
\* this is its last look.
LEMMA RequestedKept ==
  ASSUME IInv, ExecInv, IdleInv, [HNext]_allvars, NEW t \in {HciAsynch, System}, Requested(t),
         ~(NotifyIfMore /\ running = t)
  PROVE  Requested(t)'
<1> USE DEF ExecInv
<1>1. TypeOK /\ WaitInv /\ t \in Task /\ t # NoTaskRunning
  BY TasksAndEvents, SequencerAssumption DEF IInv, SchedInv, NoTaskRunning, Task
<1>2. CASE Background \/ Cpu2 \/ AsynchEvt \/ SysEvt \/ TimerTask \/ UNCHANGED allvars
  <2>1. Quiet
    BY <1>2, QuietSteps
  <2>2. TaskSet \subseteq TaskSet'
    BY <1>2 DEF Background, hvars, MainRun, EvtIdle, RunEnter, Sample, Test, Search, Select, Leave,
                EvtSeen, statics, locals, Cpu2, Respond, GiveCredit, SysRespond, SetEvt, allvars, vars,
                AsynchEvt, SysEvt, TimerTask, SetTask
  <2> QED BY <2>1, <2>2 DEF Quiet, Requested
<1>3. CASE CallTask
  <2>1. /\ pc = "clear" /\ running' = CurrentTaskIdx /\ TaskSet' = TaskSet \ {CurrentTaskIdx}
        /\ UNCHANGED <<depth, callers>>
    BY <1>3 DEF CallTask, Clear, Goto
  <2>2. running # t
    BY <1>1, <2>1 DEF IdleInv
  <2>3. CurrentTaskIdx = t => act'.evt = "start"
    BY <1>3, FreshAct DEF CallTask
  <2> QED BY <2>1, <2>2, <2>3 DEF Requested
<1>4. CASE ReturnTask
  BY <1>4 DEF ReturnTask, Return, statics, Requested
<1>5. CASE WaitResponse \/ ShciWait
  <2>1. /\ depth \in Nat /\ depth' = depth + 1 /\ callers'[depth + 1].task = running
        /\ \A i \in 1 .. depth : callers'[i] = callers[i]
    BY <1>1, <1>5, Pushed DEF WaitResponse, ShciWait
  <2>2. TaskSet' = TaskSet
    BY <1>5 DEF WaitResponse, ShciWait, Suspend, WaitEvt
  <2>3. ASSUME NEW i \in 1 .. depth, callers[i].task = t
        PROVE  i \in 1 .. depth' /\ callers'[i].task = t
    BY <2>1, <2>3
  <2>4. depth + 1 \in 1 .. depth'
    BY <2>1
  <2> QED BY <2>1, <2>2, <2>3, <2>4 DEF Requested
<1>6. CASE Resume
  <2>1. /\ depth \in Nat \ {0} /\ depth' = depth - 1 /\ pc = "woken"
        /\ running' = callers[depth].task /\ act' = acts[depth]
        /\ \A i \in 1 .. depth - 1 : callers'[i] = callers[i]
    BY <1>1, <1>6, Popped
  <2>2. TaskSet' = TaskSet
    BY <1>6 DEF Resume, WaitDone
  <2>3. running # t
    BY <1>1, <2>1 DEF IdleInv
  <2>4. act'.evt # "done"
    BY <2>1 DEF StackInv
  <2>5. CASE t \in TaskSet
    BY <2>2, <2>5 DEF Requested
  <2>6. CASE \E i \in 1 .. depth : callers[i].task = t
    <3>1. PICK i \in 1 .. depth : callers[i].task = t
      BY <2>6
    <3>2. CASE i = depth
      BY <2>1, <2>4, <3>1, <3>2 DEF Requested
    <3>3. CASE i # depth
      <4>1. i \in 1 .. depth' /\ callers'[i].task = t
        BY <2>1, <3>1, <3>3
      <4> QED BY <4>1 DEF Requested
    <3> QED BY <3>2, <3>3
  <2> QED BY <2>3, <2>5, <2>6 DEF Requested
<1>7. CASE BodyAction
  <2>1. InBody
    BY <1>7, BodySteps
  <2>2. TaskSet \subseteq TaskSet'
    BY <1>7 DEF BodyAction, TakeEvent, Processed, NotifyIfMore, SetTask, NotifyBusy, PauseTask, SendCmd,
       Drain, NotifyAvailable, ResumeTask, ShciSend, ShciDone, vars, statics
  <2>3. running = t /\ act.evt # "done" => act'.evt # "done"
    <3>1. CASE TakeEvent
      BY <3>1, FreshAct, HeadTail DEF TakeEvent, BootInv
    <3>2. CASE Processed
      BY <3>2, FreshAct DEF Processed
    <3>3. CASE (\E op \in Op : NotifyBusy(op)) \/ ShciSend
      BY <3>3 DEF NotifyBusy, ShciSend, ActsOK, Act
    <3>4. CASE SendCmd \/ Drain \/ NotifyAvailable \/ ShciDone
      BY <3>4 DEF SendCmd, Drain, NotifyAvailable, ShciDone, ActsOK, Act
    <3> QED BY <1>7, <3>1, <3>2, <3>3, <3>4 DEF BodyAction
  <2> QED BY <2>1, <2>2, <2>3 DEF InBody, Requested
<1> QED BY <1>2, <1>3, <1>4, <1>5, <1>6, <1>7 DEF HNext, Cpu1, BodyAction

\* Who has events queued has to look at them.
LEMMA ForgottenStep ==
  ASSUME IInv, ExecInv, IdleInv, HciAsynchEventQueue \in Nat, EventsNotForgotten, [HNext]_allvars
  PROVE  HciAsynchEventQueue' \in Nat /\ EventsNotForgotten'
<1>1. CASE AsynchEvt
  <2>1. HciAsynch \in TaskSet' /\ HciAsynchEventQueue' = HciAsynchEventQueue + 1
        /\ SHciAsynchEventQueue' = SHciAsynchEventQueue /\ ~NotifyIfMore
    BY <1>1 DEF AsynchEvt, SetTask, NotifyIfMore, qvars
  <2>2. SHciAsynchEventQueue # <<>> => Requested(System)'
    BY <2>1, RequestedKept DEF EventsNotForgotten
  <2> QED BY <2>1, <2>2 DEF EventsNotForgotten, Requested
<1>2. CASE SysEvt
  <2>1. System \in TaskSet' /\ HciAsynchEventQueue' = HciAsynchEventQueue
    BY <1>2 DEF SysEvt, SetTask
  <2>2. ~NotifyIfMore
    <3>1. SHciAsynchEventQueue' # SHciAsynchEventQueue
      BY <1>2 DEF SysEvt, ExecInv, BootInv
    <3> QED BY <3>1 DEF NotifyIfMore, qvars
  <2>3. HciAsynchEventQueue > 0 => Requested(HciAsynch)'
    BY <2>2, RequestedKept DEF EventsNotForgotten
  <2> QED BY <2>1, <2>3 DEF EventsNotForgotten, Requested
<1>3. CASE NotifyIfMore
  <2>1. UNCHANGED <<HciAsynchEventQueue, SHciAsynchEventQueue>>
    BY <1>3 DEF NotifyIfMore, qvars
  <2>2. HciAsynchEventQueue > 0 => Requested(HciAsynch)'
    <3>1. CASE running = HciAsynch /\ HciAsynchEventQueue > 0
      BY <1>3, <3>1 DEF NotifyIfMore, SetTask, Requested
    <3>2. CASE running # HciAsynch
      BY <3>2, RequestedKept DEF EventsNotForgotten
    <3> QED BY <3>1, <3>2
  <2>3. SHciAsynchEventQueue # <<>> => Requested(System)'
    <3>1. CASE running = System /\ SHciAsynchEventQueue # <<>>
      BY <1>3, <3>1 DEF NotifyIfMore, SetTask, Requested
    <3>2. CASE running # System
      BY <3>2, RequestedKept DEF EventsNotForgotten
    <3> QED BY <3>1, <3>2
  <2> QED BY <2>1, <2>2, <2>3 DEF EventsNotForgotten
<1>4. CASE ~AsynchEvt /\ ~SysEvt /\ ~NotifyIfMore
  <2>1. /\ HciAsynchEventQueue' \in Nat /\ HciAsynchEventQueue' <= HciAsynchEventQueue
        /\ SHciAsynchEventQueue = <<>> => SHciAsynchEventQueue' = <<>>
    <3>1. CASE TakeEvent
      <4>1. HciAsynchEventQueue' \in {HciAsynchEventQueue, HciAsynchEventQueue - 1, 0}
            /\ (HciAsynchEventQueue' = HciAsynchEventQueue - 1 => HciAsynchEventQueue > 0)
        BY <3>1 DEF TakeEvent
      <4>2. SHciAsynchEventQueue = <<>> => SHciAsynchEventQueue' = <<>>
        BY <3>1 DEF TakeEvent
      <4> QED BY <4>1, <4>2
    <3>2. CASE ~TakeEvent
      <4>1. UNCHANGED <<HciAsynchEventQueue, SHciAsynchEventQueue>>
        <5>1. CASE Background \/ CallTask \/ ReturnTask \/ Resume
          BY <5>1 DEF Background, CallTask, ReturnTask, Resume, hvars, qvars
        <5>2. CASE WaitResponse \/ ShciWait
          BY <5>2 DEF WaitResponse, ShciWait, Suspend, qvars
        <5>3. CASE BodyAction
          BY <1>4, <3>2, <5>3 DEF BodyAction, Processed, NotifyBusy, SendCmd, Drain,
                      NotifyAvailable, ShciSend, ShciDone, qvars
        <5>4. CASE Cpu2 \/ TimerTask \/ UNCHANGED allvars
          BY <5>4 DEF Cpu2, Respond, GiveCredit, SysRespond, TimerTask, hvars, qvars, allvars
        <5> QED BY <1>4, <5>1, <5>2, <5>3, <5>4 DEF HNext, Cpu1, BodyAction
      <4> QED BY <4>1
    <3> QED BY <3>1, <3>2
  <2>2. /\ HciAsynchEventQueue > 0 => Requested(HciAsynch)'
        /\ SHciAsynchEventQueue # <<>> => Requested(System)'
    BY <1>4, RequestedKept DEF EventsNotForgotten
  <2> QED BY <2>1, <2>2 DEF EventsNotForgotten
<1> QED BY <1>1, <1>2, <1>3, <1>4

----------------------------------------------------------------------------
(* The theorems                                                            *)

HInv ==
  /\ IInv /\ ExecInv /\ ChannelInv /\ EventsInv /\ SysInv /\ IdleInv
  /\ HciAsynchEventQueue \in Nat /\ EventsNotForgotten

LEMMA HInvInit == HInit => HInv
<1> SUFFICES ASSUME HInit PROVE HInv
  OBVIOUS
<1>1. /\ pc = "main" /\ depth = 0 /\ EvtSet = {} /\ running = NoTaskRunning
      /\ ~ipcc_ble_cmd /\ ~ipcc_sys_cmd /\ credit
      /\ HciCmdEventQueue = <<>> /\ HciAsynchEventQueue = 0 /\ SHciAsynchEventQueue = <<>>
  BY DEF HInit, Init
<1>2. ~Pending /\ ~SysPending
  BY <1>1 DEF Pending, InSend, Waiting, SysPending
<1>3. ChannelInv /\ EventsInv
  BY <1>1, <1>2 DEF ChannelInv, EventsInv, QueueOK
<1>4. SysInv /\ IdleInv
  BY <1>1, <1>2 DEF SysInv, IdleInv
<1>5. HciAsynchEventQueue \in Nat /\ EventsNotForgotten
  BY <1>1 DEF EventsNotForgotten
<1> QED BY <1>3, <1>4, <1>5, HInitInv, ExecInit DEF HInv

LEMMA HInvStep == HInv /\ [HNext]_allvars => HInv'
<1> SUFFICES ASSUME HInv, [HNext]_allvars PROVE HInv'
  OBVIOUS
<1>1. /\ IInv /\ ExecInv /\ ChannelInv /\ EventsInv /\ SysInv /\ IdleInv /\ QueueOK
      /\ HciAsynchEventQueue \in Nat /\ EventsNotForgotten
  BY DEF HInv, EventsInv
<1>2. IInv' /\ ExecInv'
  BY <1>1, SequencerInv, ExecStep
<1>3. ChannelInv' /\ EventsInv'
  BY <1>1, ChannelStep
<1>4. SysInv' /\ IdleInv'
  BY <1>1, SysStep, IdleStep
<1>5. HciAsynchEventQueue' \in Nat /\ EventsNotForgotten'
  BY <1>1, ForgottenStep
<1> QED BY <1>2, <1>3, <1>4, <1>5 DEF HInv

\* The invariant of the composition holds in every behaviour.
THEOREM HInvariance == HSpec => []HInv
  BY HInvInit, HInvStep, PTL DEF HSpec

\* hci_send_req returns with the answer to its own command, and leaves no
\* event for the next call, for any number of tasks and opcodes.
THEOREM AnswersMatch == HSpec => []AnswerIsOwn
<1>1. HInv => AnswerIsOwn
  <2>1. SUFFICES ASSUME HInv, pc = "body", act.at = "loop", act.available
                 PROVE  act.rsp = [op |-> act.op, by |-> running] /\ HciCmdEventQueue = <<>>
    BY DEF AnswerIsOwn
  <2>2. Pending /\ Req = act /\ By = running
    BY <2>1 DEF Pending, InSend, Req, By
  <2> QED BY <2>1, <2>2 DEF HInv, ChannelInv
<1> QED BY <1>1, HInvariance, PTL

\* shci_send finds the answer, though it does not look for it: the event it
\* waits for is set for its command only.
THEOREM SystemAnswers == HSpec => []SystemAnswerIsThere
<1>1. HInv => SystemAnswerIsThere
  BY DEF HInv, SysInv, SystemAnswerIsThere
<1> QED BY <1>1, HInvariance, PTL

\* An execution is in hci_send_req exactly when a request is pending.
LEMMA PendingIsInSendReq ==
  ASSUME ActsOK, StackInv
  PROVE  InSendReq # {} <=> Pending
<1>1. depth \in Nat
  BY DEF ActsOK
<1>2. ASSUME InSendReq # {} PROVE Pending
  <2>1. PICK a \in Executions : a.at \in {"loop", "drain"}
    BY <1>2 DEF InSendReq
  <2>2. CASE pc = "body" /\ a = act
    BY <2>1, <2>2 DEF Pending, InSend
  <2>3. CASE \E i \in 1 .. depth : a = acts[i]
    BY <1>1, <2>1, <2>3 DEF StackInv, Pending, Waiting
  <2> QED BY <2>1, <2>2, <2>3 DEF Executions
<1>3. ASSUME Pending PROVE InSendReq # {}
  <2>1. CASE InSend
    BY <2>1 DEF InSend, InSendReq, Executions
  <2>2. CASE Waiting
    <3>1. acts[depth] \in Executions
      BY <1>1, <2>2 DEF Waiting, Executions
    <3> QED BY <2>2, <3>1 DEF Waiting, InSendReq
  <2> QED BY <1>3, <2>1, <2>2 DEF Pending
<1> QED BY <1>2, <1>3

\* No task that may send a command runs while one is pending.
THEOREM SendersPaused == HSpec => []NoSenderRuns
<1>1. HInv => NoSenderRuns
  <2>1. SUFFICES ASSUME HInv, InSendReq # {}, pc = "body", act.at = "none"
                 PROVE  running \notin HciTasks /\ act.evt # "READY"
    BY DEF NoSenderRuns
  <2>2. Waiting
    BY <2>1, PendingIsInSendReq DEF HInv, ExecInv, Pending, InSend
  <2> QED BY <2>1, <2>2, TasksAndEvents DEF HInv, ExecInv, PauseInv
<1> QED BY <1>1, HInvariance, PTL

\* No event that was queued is forgotten, by either transport layer.
THEOREM NothingForgotten == HSpec => []EventsNotForgotten
<1>1. HInv => EventsNotForgotten
  BY DEF HInv
<1> QED BY <1>1, HInvariance, PTL

\* A step that is none of the channel's does not move it.
LEMMA ChannelUnmoved ==
  ASSUME IInv, ExecInv, [HNext]_allvars,
         ~SendCmd, ~NotifyAvailable, ~GiveCredit, \A n \in {0, 1} : ~Respond(n)
  PROVE  (Pending' <=> Pending) /\ UNCHANGED <<pCmdBuffer, credit>>
<1>1. CASE Drain
  <2>1. InBody /\ act.at = "drain" /\ UNCHANGED <<pCmdBuffer, credit>>
    BY <1>1, BodySteps DEF Drain, BodyAction, cvars
  <2>2. act'.at \in {"loop", "drain"}
    BY <1>1 DEF Drain, ExecInv, ActsOK, Act
  <2> QED BY <2>1, <2>2 DEF Pending, InSend, InBody
<1>2. CASE Background \/ SysRespond \/ AsynchEvt \/ SysEvt \/ TimerTask \/ UNCHANGED allvars
  <2>1. SameRequest
    BY <1>2, QuietSteps, QuietRequest DEF Cpu2
  <2>2. UNCHANGED <<pCmdBuffer, credit>>
    BY <1>2 DEF Background, SysRespond, AsynchEvt, SysEvt, TimerTask, allvars, hvars, cvars
  <2> QED BY <2>1, <2>2 DEF SameRequest
<1>3. CASE \/ CallTask \/ ReturnTask \/ Resume \/ WaitResponse \/ ShciWait
           \/ TakeEvent \/ Processed \/ NotifyIfMore \/ (\E op \in Op : NotifyBusy(op))
           \/ ShciSend \/ ShciDone
  <2>1. SameRequest
    BY <1>3, OtherRequest
  <2>2. UNCHANGED <<pCmdBuffer, credit>>
    BY <1>3 DEF CallTask, ReturnTask, Resume, WaitResponse, ShciWait, Suspend, TakeEvent, Processed,
                NotifyIfMore, NotifyBusy, ShciSend, ShciDone, cvars
  <2> QED BY <2>1, <2>2 DEF SameRequest
<1> QED BY <1>1, <1>2, <1>3 DEF HNext, Cpu1, Cpu2

\* hci_send_req implements CommandChannel, for any number of tasks, opcodes,
\* commands and nested waits: the one command buffer is written only when the
\* call that wrote it before has returned.
THEOREM ImplementsChannel == HSpec => OneCommandAtATime
<1> DEFINE c == IF ~credit THEN "sent" ELSE IF InSendReq # {} THEN "answered" ELSE "idle"
<1>1. HInit => Channel!Init
  <2>1. SUFFICES ASSUME HInit PROVE Channel!Init
    OBVIOUS
  <2>2. credit /\ pCmdBuffer = NoOp /\ pc = "main" /\ depth = 0
    BY <2>1 DEF HInit, Init
  <2>3. InSendReq = {}
    BY <2>2 DEF InSendReq, Executions
  <2> QED BY <2>2, <2>3 DEF Channel!Init
<1>2. HInv /\ HInv' /\ [HNext]_allvars => [Channel!Next]_<<c, pCmdBuffer>>
  <2>1. SUFFICES ASSUME HInv, HInv', [HNext]_allvars PROVE [Channel!Next]_<<c, pCmdBuffer>>
    OBVIOUS
  <2>2. IInv /\ ExecInv /\ ChannelInv /\ EventsInv /\ ChannelInv' /\ ActsOK /\ StackInv /\ ActsOK' /\ StackInv'
    BY <2>1 DEF HInv, ExecInv
  <2>3. (InSendReq # {} <=> Pending) /\ ((InSendReq # {})' <=> Pending')
    <3>1. InSendReq # {} <=> Pending
      BY <2>2, PendingIsInSendReq
    <3>2. (ActsOK /\ StackInv => (InSendReq # {} <=> Pending))'
      BY PendingIsInSendReq, PTL
    <3> QED BY <2>2, <3>1, <3>2
  <2>4. CASE SendCmd
    <3>1. act.at = "busy" /\ pc = "body" /\ ~credit'
          /\ pCmdBuffer' = [op |-> act.op, by |-> running]
      BY <2>4 DEF SendCmd
    <3>2. ~Pending
      BY <2>2, <3>1 DEF Pending, InSend, ExecInv, PauseInv, RunInv
    <3>3. c = "idle" /\ c' = "sent"
      BY <2>2, <2>3, <3>1, <3>2 DEF ChannelInv
    <3>4. pCmdBuffer' \in Cmd
      BY <2>2, <3>1, TasksAndEvents DEF ExecInv, RunInv, Cmd
    <3> QED BY <3>3, <3>4 DEF Channel!Next, Channel!Send
  <2>5. CASE NotifyAvailable
    <3>1. InSend /\ Req = act /\ act.available /\ UNCHANGED <<pCmdBuffer, credit>>
      BY <2>5 DEF NotifyAvailable, InSend, Req, cvars
    <3>2. credit /\ Pending
      BY <2>2, <3>1 DEF ChannelInv, Pending
    <3>3. ~Pending'
      <4>1. ~Waiting
        BY <2>2, <3>1 DEF ExecInv, PauseInv, RunInv, InSend
      <4>2. InBody
        BY <2>5, BodySteps DEF BodyAction
      <4>3. act'.at = "none"
        BY <2>2, <2>5 DEF NotifyAvailable, ActsOK, Act
      <4> QED BY <4>1, <4>2, <4>3 DEF Pending, InSend, Waiting, InBody
    <3>4. c = "answered" /\ c' = "idle"
      BY <2>3, <3>1, <3>2, <3>3
    <3> QED BY <3>1, <3>4 DEF Channel!Next, Channel!Return
  <2>6. ASSUME NEW n \in {0, 1}, Respond(n) \/ GiveCredit
        PROVE  [Channel!Next]_<<c, pCmdBuffer>>
    <3>1. Pending' <=> Pending
      BY <2>6, QuietSteps, QuietRequest DEF Cpu2, SameRequest
    <3>2. ~credit /\ pCmdBuffer' = pCmdBuffer
      BY <2>2, <2>6 DEF Respond, GiveCredit, ChannelInv
    <3>3. Pending
      BY <2>2, <3>2 DEF ChannelInv
    <3>4. c = "sent" /\ (c' = "sent" \/ c' = "answered")
      BY <2>3, <3>1, <3>2, <3>3
    <3> QED BY <3>2, <3>4 DEF Channel!Next, Channel!Answer
  <2>7. CASE ~SendCmd /\ ~NotifyAvailable /\ ~GiveCredit /\ \A n \in {0, 1} : ~Respond(n)
    <3>1. (Pending' <=> Pending) /\ pCmdBuffer' = pCmdBuffer /\ credit' = credit
      BY <2>1, <2>2, <2>7, ChannelUnmoved
    <3>2. c' = c
      BY <2>3, <3>1
    <3> QED BY <3>1, <3>2
  <2> QED BY <2>4, <2>5, <2>6, <2>7
<1> QED BY <1>1, <1>2, HInvariance, PTL DEF HSpec, OneCommandAtATime, Channel!Spec

===============================================================================
