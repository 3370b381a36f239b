---------------------------- MODULE HciTransport ----------------------------
(***************************************************************************)
(* The HCI and system-HCI transport layers of the application core         *)
(* (hci_tl.c, shci_tl.c) and their glue (app_ble.c, app_entry.c), running  *)
(* as tasks of the sequencer.  hci_send_req pauses the tasks that may send *)
(* a command, writes the one command buffer, and waits for the answer in   *)
(* UTIL_SEQ_WaitEvt, which runs the other tasks meanwhile.  Answers and    *)
(* asynchronous events come from the second core, through an interrupt.    *)
(***************************************************************************)
EXTENDS Sequencer, Sequences, SequencesExt

CONSTANTS
  LastTaskIdWithHciCmd,     (* tasks below it may send commands            *)
  HciAsynch, System,        (* the tasks of the two transport layers       *)
  HciRsp, SysRsp,           (* the two events waited for                   *)
  Op, NoOp,                 (* opcodes, and no opcode                      *)
  Nop,                      (* that of an event that only gives a credit   *)
  MaxCmds,                  (* bound: commands sent by one task execution  *)
  MaxAsynch, MaxSys         (* bounds: events queued                       *)

Cmd == [op : Op, by : Task]

\* CFG_Task_Id_With_HCI_Cmd_t (app_conf.h:643-652): the mask of the tasks
\* that are paused while a command is pending.
HciTasks == 0 .. LastTaskIdWithHciCmd - 1

ASSUME HciAssumption ==
  /\ LastTaskIdWithHciCmd \in Nat /\ HciAsynch \in Task /\ System \in Task
  /\ HciAsynch < LastTaskIdWithHciCmd /\ LastTaskIdWithHciCmd <= System
  /\ HciRsp \in Evt /\ SysRsp \in Evt /\ HciRsp # SysRsp
  /\ NoOp \notin Op /\ NoOp \notin Cmd /\ Nop \notin Cmd
  /\ HciTasks \in PauseMasks
  /\ MaxCmds \in Nat /\ MaxAsynch \in Nat /\ MaxSys \in Nat

VARIABLES
  pCmdBuffer, ipcc_ble_cmd, (* the command buffer and its IPCC flag        *)
  ipcc_sys_cmd,             (* the flag of the system command channel      *)
  credit,                   (* the second core accepts a command           *)
  HciCmdEventQueue, HciAsynchEventQueue, SHciAsynchEventQueue,
  boot,                     (* how far the second core's start-up is       *)
  act, acts                 (* the execution of the running task, and those*)
                            (* suspended in a wait                         *)

hvars == <<pCmdBuffer, ipcc_ble_cmd, ipcc_sys_cmd, credit, HciCmdEventQueue,
           HciAsynchEventQueue, SHciAsynchEventQueue, boot, act, acts>>
cvars == <<pCmdBuffer, ipcc_ble_cmd, ipcc_sys_cmd, credit>>
qvars == <<HciCmdEventQueue, HciAsynchEventQueue, SHciAsynchEventQueue>>
allvars == <<vars, hvars>>

(* The execution of a task: which event it is processing, where it is in    *)
(* hci_send_req or shci_send, the opcode, local_cmd_status, the answer and  *)
(* the number of commands sent.                                             *)
Act == [evt : {"start", "READY", "NVM", "EVT", "end", "done"},
        at : {"none", "busy", "loop", "drain", "sysloop", "sysdone"},
        op : Op \cup {NoOp}, available : BOOLEAN, rsp : Cmd \cup {NoOp}, n : 0 .. MaxCmds]
Fresh(evt) == [evt |-> evt, at |-> "none", op |-> NoOp, available |-> FALSE,
               rsp |-> NoOp, n |-> 0]
NoAct == Fresh("done")

HInit ==
  /\ Init
  /\ pCmdBuffer = NoOp /\ ipcc_ble_cmd = FALSE /\ ipcc_sys_cmd = FALSE /\ credit = TRUE
  /\ HciCmdEventQueue = <<>> /\ HciAsynchEventQueue = 0 /\ SHciAsynchEventQueue = <<>>
  /\ boot = "off" /\ act = NoAct /\ acts = <<>>

----------------------------------------------------------------------------
(* The sequencer under the tasks                                           *)

Background ==
  /\ \/ \E m \in RunMasks : MainRun(m) \/ EvtIdle(m)
     \/ Sample \/ Test \/ Search \/ Select \/ Leave \/ EvtSeen
  /\ UNCHANGED hvars

\* A task is called: the two transport tasks look at their queues first.
CallTask ==
  /\ Clear
  /\ act' = Fresh(IF CurrentTaskIdx \in {HciAsynch, System} THEN "start" ELSE "EVT")
  /\ UNCHANGED <<cvars, qvars, boot, acts>>

ReturnTask ==
  /\ act.evt = "done"
  /\ Return
  /\ act' = NoAct
  /\ UNCHANGED <<cvars, qvars, boot, acts>>

\* UTIL_SEQ_WaitEvt, the running execution suspended.
Suspend(e, at) ==
  /\ WaitEvt(e)
  /\ acts' = Append(acts, [act EXCEPT !.at = at])
  /\ act' = NoAct
  /\ UNCHANGED <<cvars, qvars, boot>>

Resume ==
  /\ WaitDone
  /\ act' = Last(acts) /\ acts' = Front(acts)
  /\ UNCHANGED <<cvars, qvars, boot>>

----------------------------------------------------------------------------
(* hci_user_evt_proc and shci_user_evt_proc: one event per call, and a      *)
(* request for another call when the queue is not empty after it.  The user *)
(* flow stays enabled: no handler of this application disables it while the *)
(* wireless firmware runs.                                                  *)

TakeEvent ==
  /\ pc = "body" /\ act.evt = "start"
  /\ \/ /\ running = HciAsynch
        /\ HciAsynchEventQueue' = IF HciAsynchEventQueue > 0 THEN HciAsynchEventQueue - 1 ELSE 0
        /\ act' = Fresh(IF HciAsynchEventQueue > 0 THEN "EVT" ELSE "end")
        /\ UNCHANGED <<SHciAsynchEventQueue, boot>>
     \/ /\ running = System
        /\ IF SHciAsynchEventQueue = <<>>
           THEN act' = Fresh("end") /\ UNCHANGED <<SHciAsynchEventQueue, boot>>
           ELSE /\ act' = Fresh(Head(SHciAsynchEventQueue))
                /\ SHciAsynchEventQueue' = Tail(SHciAsynchEventQueue)
                /\ boot' = IF act'.evt = "READY" THEN "up" ELSE boot
        /\ UNCHANGED HciAsynchEventQueue
  /\ UNCHANGED <<vars, cvars, HciCmdEventQueue, acts>>

\* The handler of the event, or the task itself, is finished.
Processed ==
  /\ pc = "body" /\ act.at = "none" /\ act.evt \in {"EVT", "READY", "NVM"}
  /\ act' = Fresh(IF running \in {HciAsynch, System} THEN "end" ELSE "done")
  /\ UNCHANGED <<vars, cvars, qvars, boot, acts>>

\* Mutant: the events left in the queue are not announced again.
NotifyNobody ==
  /\ pc = "body" /\ act.evt = "end"
  /\ act' = Fresh("done")
  /\ UNCHANGED <<vars, cvars, qvars, boot, acts>>

NotifyIfMore ==
  /\ pc = "body" /\ act.evt = "end"
  /\ act' = Fresh("done")
  /\ IF \/ running = HciAsynch /\ HciAsynchEventQueue > 0
        \/ running = System /\ SHciAsynchEventQueue # <<>>
     THEN SetTask(running, 0)
     ELSE UNCHANGED vars
  /\ UNCHANGED <<cvars, qvars, boot, acts>>

----------------------------------------------------------------------------
(* hci_send_req                                                            *)

\* Tasks of HciTasks send commands; the system task does while it handles the
\* ready event (APP_BLE_Init), and at no other time.
Sending == pc = "body" /\ act.at = "none" /\ act.n < MaxCmds
           /\ act.evt \in {"EVT", "READY"}

\* Mutant: the last task that sends commands is not in the mask.
NotifyBusyOneShort(op) ==
  /\ Sending
  /\ PauseTask(HciTasks \ {LastTaskIdWithHciCmd - 1})
  /\ act' = [act EXCEPT !.at = "busy", !.op = op, !.n = @ + 1]
  /\ UNCHANGED <<cvars, qvars, boot, acts>>

\* NotifyCmdStatus(HCI_TL_CmdBusy), BLE_StatusNot.
NotifyBusy(op) ==
  /\ Sending
  /\ PauseTask(HciTasks)
  /\ act' = [act EXCEPT !.at = "busy", !.op = op, !.n = @ + 1]
  /\ UNCHANGED <<cvars, qvars, boot, acts>>

\* SendCmd: the buffer is written whatever it holds, then the flag is set.
SendCmd ==
  /\ pc = "body" /\ act.at = "busy"
  /\ pCmdBuffer' = [op |-> act.op, by |-> running]
  /\ ipcc_ble_cmd' = TRUE /\ credit' = FALSE
  /\ act' = [act EXCEPT !.at = "loop", !.available = FALSE, !.rsp = NoOp]
  /\ UNCHANGED <<vars, ipcc_sys_cmd, qvars, boot, acts>>

\* Mutant: one wait, as in shci_send, instead of a loop around it.
WaitOnce ==
  /\ pc = "body" /\ act.at = "loop" /\ ~ act.available
  /\ acts' = Append(acts, [act EXCEPT !.at = "drain", !.available = TRUE])
  /\ WaitEvt(HciRsp)
  /\ act' = NoAct
  /\ UNCHANGED <<cvars, qvars, boot>>

\* hci_cmd_resp_wait, as long as local_cmd_status is Busy.
WaitResponse ==
  /\ pc = "body" /\ act.at = "loop" /\ ~ act.available
  /\ Suspend(HciRsp, "drain")

\* Mutant: the number of packets the event allows is not looked at.
DrainAnyCredit ==
  /\ pc = "body" /\ act.at = "drain"
  /\ IF HciCmdEventQueue = <<>>
     THEN act' = [act EXCEPT !.at = "loop"] /\ UNCHANGED HciCmdEventQueue
     ELSE LET evt == Head(HciCmdEventQueue) IN
          /\ HciCmdEventQueue' = Tail(HciCmdEventQueue)
          /\ act' = [act EXCEPT !.available = TRUE,
                                !.rsp = IF evt.cmd # Nop /\ evt.cmd.op = act.op
                                        THEN evt.cmd ELSE @]
  /\ UNCHANGED <<vars, cvars, HciAsynchEventQueue, SHciAsynchEventQueue, boot, acts>>

\* One command event; the queue is empty in the end.
Drain ==
  /\ pc = "body" /\ act.at = "drain"
  /\ IF HciCmdEventQueue = <<>>
     THEN act' = [act EXCEPT !.at = "loop"] /\ UNCHANGED HciCmdEventQueue
     ELSE LET evt == Head(HciCmdEventQueue) IN
          /\ HciCmdEventQueue' = Tail(HciCmdEventQueue)
          /\ act' = [act EXCEPT !.available = @ \/ evt.numcmd # 0,
                                !.rsp = IF evt.cmd # Nop /\ evt.cmd.op = act.op
                                        THEN evt.cmd ELSE @]
  /\ UNCHANGED <<vars, cvars, HciAsynchEventQueue, SHciAsynchEventQueue, boot, acts>>

\* NotifyCmdStatus(HCI_TL_CmdAvailable), and the call returns.
NotifyAvailable ==
  /\ pc = "body" /\ act.at = "loop" /\ act.available
  /\ ResumeTask(HciTasks)
  /\ act' = [act EXCEPT !.at = "none", !.op = NoOp, !.available = FALSE, !.rsp = NoOp]
  /\ UNCHANGED <<cvars, qvars, boot, acts>>

----------------------------------------------------------------------------
(* shci_send, called while the ready event is handled: a single wait.      *)

ShciSend ==
  /\ Sending /\ act.evt = "READY"
  /\ ipcc_sys_cmd' = TRUE
  /\ act' = [act EXCEPT !.at = "sysloop", !.n = @ + 1]
  /\ UNCHANGED <<vars, pCmdBuffer, ipcc_ble_cmd, credit, qvars, boot, acts>>

ShciWait == pc = "body" /\ act.at = "sysloop" /\ Suspend(SysRsp, "sysdone")

ShciDone ==
  /\ pc = "body" /\ act.at = "sysdone"
  /\ act' = [act EXCEPT !.at = "none"]
  /\ UNCHANGED <<vars, cvars, qvars, boot, acts>>

----------------------------------------------------------------------------
(* The second core.  It answers every command once, with or without a       *)
(* credit for the next; a credit it withheld comes with a later event.      *)

\* Mutant: the queue is filled after the event is set.
RespondSilently(numcmd) ==
  /\ ipcc_ble_cmd
  /\ ipcc_ble_cmd' = FALSE /\ credit' = (numcmd # 0)
  /\ HciCmdEventQueue' = Append(HciCmdEventQueue, [cmd |-> pCmdBuffer, numcmd |-> numcmd])
  /\ UNCHANGED <<vars, pCmdBuffer, ipcc_sys_cmd, HciAsynchEventQueue, SHciAsynchEventQueue,
                 boot, act, acts>>

\* A command complete or status event: TlEvtReceived, in the interrupt.
Respond(numcmd) ==
  /\ ipcc_ble_cmd
  /\ ipcc_ble_cmd' = FALSE /\ credit' = (numcmd # 0)
  /\ HciCmdEventQueue' = Append(HciCmdEventQueue, [cmd |-> pCmdBuffer, numcmd |-> numcmd])
  /\ SetEvt(HciRsp)
  /\ UNCHANGED <<pCmdBuffer, ipcc_sys_cmd, HciAsynchEventQueue, SHciAsynchEventQueue,
                 boot, act, acts>>

GiveCredit ==
  /\ ~ ipcc_ble_cmd /\ ~ credit
  /\ credit' = TRUE
  /\ HciCmdEventQueue' = Append(HciCmdEventQueue, [cmd |-> Nop, numcmd |-> 1])
  /\ SetEvt(HciRsp)
  /\ UNCHANGED <<pCmdBuffer, ipcc_ble_cmd, ipcc_sys_cmd, HciAsynchEventQueue,
                 SHciAsynchEventQueue, boot, act, acts>>

SysRespond ==
  /\ ipcc_sys_cmd
  /\ ipcc_sys_cmd' = FALSE
  /\ SetEvt(SysRsp)
  /\ UNCHANGED <<pCmdBuffer, ipcc_ble_cmd, credit, qvars, boot, act, acts>>

\* An asynchronous event of the BLE stack.
AsynchEvt ==
  /\ boot = "up" /\ HciAsynchEventQueue < MaxAsynch
  /\ HciAsynchEventQueue' = HciAsynchEventQueue + 1
  /\ SetTask(HciAsynch, 0)
  /\ UNCHANGED <<cvars, HciCmdEventQueue, SHciAsynchEventQueue, boot, act, acts>>

\* A system event: the ready event first, once, then flash notifications.
SysEvt ==
  /\ Len(SHciAsynchEventQueue) < MaxSys
  /\ SHciAsynchEventQueue' = Append(SHciAsynchEventQueue, IF boot = "off" THEN "READY" ELSE "NVM")
  /\ boot' = IF boot = "off" THEN "ready" ELSE boot
  /\ SetTask(System, 0)
  /\ UNCHANGED <<cvars, HciCmdEventQueue, HciAsynchEventQueue, act, acts>>

\* Adv_Mgr and HrMeas, in the interrupt of the timer server.
TimerTask ==
  /\ boot = "up"
  /\ \E t \in HciTasks \ {HciAsynch} : SetTask(t, 0)
  /\ UNCHANGED hvars

----------------------------------------------------------------------------
Cpu1 ==
  \/ Background \/ CallTask \/ ReturnTask \/ Resume
  \/ TakeEvent \/ Processed \/ NotifyIfMore
  \/ \E op \in Op : NotifyBusy(op)
  \/ SendCmd \/ WaitResponse \/ Drain \/ NotifyAvailable
  \/ ShciSend \/ ShciWait \/ ShciDone

Cpu2 == (\E numcmd \in {0, 1} : Respond(numcmd)) \/ GiveCredit \/ SysRespond

HNext == Cpu1 \/ Cpu2 \/ AsynchEvt \/ SysEvt \/ TimerTask

HSpec == HInit /\ [][HNext]_allvars

\* The CPU runs, and the second core answers what it has been asked.
HFairSpec ==
  /\ HSpec
  /\ WF_allvars(Cpu1)
  /\ WF_allvars(\E numcmd \in {0, 1} : Respond(numcmd))
  /\ WF_allvars(GiveCredit) /\ WF_allvars(SysRespond)

----------------------------------------------------------------------------
HTypeOK ==
  /\ pCmdBuffer \in Cmd \cup {NoOp} /\ ipcc_ble_cmd \in BOOLEAN /\ ipcc_sys_cmd \in BOOLEAN
  /\ credit \in BOOLEAN
  /\ HciCmdEventQueue \in Seq([cmd : Cmd \cup {Nop}, numcmd : {0, 1}])
  /\ Len(HciCmdEventQueue) <= 2       \* an answer and a credit, never two answers
  /\ HciAsynchEventQueue \in 0 .. MaxAsynch
  /\ SHciAsynchEventQueue \in Seq({"READY", "NVM"})
  /\ boot \in {"off", "ready", "up"} /\ act \in Act /\ acts \in Seq(Act)
  /\ Len(acts) = depth

Executions == {acts[i] : i \in 1 .. depth} \cup (IF pc = "body" THEN {act} ELSE {})
InSendReq  == {a \in Executions : a.at \in {"loop", "drain"}}

\* hci_send_req implements the channel: whichever tasks, nested runs and
\* interrupts are involved, a command is sent only when the call that sent
\* the one before has returned, so the single command buffer is never
\* overwritten (app_ble.c:1189-1192).
Channel == INSTANCE CommandChannel WITH
  chan <- IF ~ credit THEN "sent" ELSE IF InSendReq # {} THEN "answered" ELSE "idle",
  last <- pCmdBuffer, NoCmd <- NoOp

OneCommandAtATime == Channel!Spec

\* When hci_send_req is about to return, the caller's buffer holds the answer
\* to its own command and no command event is left for the next call.
AnswerIsOwn ==
  pc = "body" /\ act.at = "loop" /\ act.available =>
    act.rsp = [op |-> act.op, by |-> running] /\ HciCmdEventQueue = <<>>

\* shci_send copies the answer out of the buffer without looking at any
\* status: the second core has always written it by then (shci_tl.c:160-166).
SystemAnswerIsThere == pc = "body" /\ act.at = "sysdone" => ~ ipcc_sys_cmd

\* While a command is pending, no task that may send one is executed, apart
\* from those that wait themselves.
NoSenderRuns ==
  InSendReq # {} /\ pc = "body" /\ act.at = "none" =>
    running \notin HciTasks /\ act.evt # "READY"

\* Events left in a queue are never forgotten: their task is requested, or it
\* is executing and has still to look at the queue (hci_tl.c:129-132).
Requested(t) ==
  \/ t \in TaskSet
  \/ running = t /\ act.evt # "done"
  \/ \E i \in 1 .. depth : callers[i].task = t

EventsNotForgotten ==
  /\ HciAsynchEventQueue > 0 => Requested(HciAsynch)
  /\ SHciAsynchEventQueue # <<>> => Requested(System)

\* Liveness: every wait for an answer ends.
CommandsReturn == (depth > 0) ~> (depth = 0)

\* Liveness: events get processed whatever the other tasks do.
EventsProcessed ==
  /\ (HciAsynch \in TaskSet) ~> (HciAsynch \notin TaskSet)
  /\ (System \in TaskSet) ~> (System \notin TaskSet)

\* "The concept is to make sure that [...] if two same flags are always set,
\* the sequencer does not run always only the first one" (stm32_seq.c:254-258).
NobodyStarves == \A t \in HciTasks : (t \in TaskSet) ~> (t \notin TaskSet)

=============================================================================
