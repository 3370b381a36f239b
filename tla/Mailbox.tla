------------------------------- MODULE Mailbox -------------------------------
(***************************************************************************)
(* The mailbox to the second core: tl_mbox.c and hw_ipcc.c.  Events travel *)
(* in buffers of a pool the second core owns; the thread gives each one    *)
(* back over two lists.  Between these lists stand an IPCC flag, which     *)
(* says that FreeBufQueue belongs to the second core, and the interrupt    *)
(* that says it no longer does.  A system command may be in progress; it   *)
(* shares the mask register C1MR with the release of buffers.              *)
(*                                                                         *)
(* Each list operation of stm_list.c is a critical section, one step here. *)
(***************************************************************************)
EXTENDS Naturals, Sequences

CONSTANTS
  Buffer,    (* the buffers of the pool                                      *)
  NoBuffer

ASSUME MailboxAssumption == NoBuffer \notin Buffer

(* Channels: HW_IPCC_MM_RELEASE_BUFFER_CHANNEL,                            *)
(* HW_IPCC_SYSTEM_CMD_RSP_CHANNEL and HW_IPCC_BLE_EVENT_CHANNEL.           *)
TxChannel == {"MM", "SYS"}
Channel == TxChannel \cup {"BLE"}

VARIABLES
  EvtQueue,            (* events sent by the second core                   *)
  HciAsynchEventQueue, (* events the thread has not processed yet          *)
  LocalFreeBufQueue,   (* buffers released by the thread                   *)
  FreeBufQueue,        (* buffers given back to the second core            *)
  pool,                (* buffers the second core has                      *)
  p_node,              (* the buffer SendFreeBuf has in hand               *)
  FreeBufCb,           (* whether the callback of the interrupt is set     *)
  flag,                (* IPCC flags: TRUE is active                       *)
  enabled,             (* C1MR: transmit channels that interrupt           *)
  pc, channel, mask,   (* the thread; what it enables, C1MR as it read it  *)
  command, answered    (* shci_send: "sent" while it waits; its event      *)

lists == <<EvtQueue, HciAsynchEventQueue, LocalFreeBufQueue, FreeBufQueue, pool, p_node>>
ipcc == <<FreeBufCb, flag, enabled>>
thread == <<pc, channel, mask>>
shci == <<command, answered>>
vars == <<lists, ipcc, thread, shci>>

Init ==
  /\ EvtQueue = <<>> /\ HciAsynchEventQueue = <<>>
  /\ LocalFreeBufQueue = <<>> /\ FreeBufQueue = <<>>
  /\ pool = Buffer /\ p_node = NoBuffer
  /\ FreeBufCb = FALSE /\ flag = [c \in Channel |-> FALSE] /\ enabled = {}
  /\ pc = "idle" /\ channel = "SYS" /\ mask = {}
  /\ command = "none" /\ answered = FALSE

\* HW_IPCC_TX_PENDING of a channel: its flag is clear and it may interrupt.
Pending(c) == c \in enabled /\ ~flag[c]

\* The interrupt is taken before the thread goes on.  It is recognised a few
\* cycles after the second core clears the flag: a read in between may still
\* come first, which is why Test alone does not ask for Quiet.
Quiet == \A c \in TxChannel : ~Pending(c)

----------------------------------------------------------------------------
(* The thread: releasing a buffer                                          *)

\* The user event process is done with the first event.
TL_MM_EvtDone ==
  /\ pc = "idle" /\ Quiet
  /\ HciAsynchEventQueue # <<>>
  /\ LocalFreeBufQueue' = Append(LocalFreeBufQueue, Head(HciAsynchEventQueue))
  /\ HciAsynchEventQueue' = Tail(HciAsynchEventQueue)
  /\ pc' = "test"
  /\ UNCHANGED <<EvtQueue, FreeBufQueue, pool, p_node, channel, mask, ipcc, shci>>

\* Mutant: the flag is not looked at.
TestNotDone ==
  /\ pc = "test"
  /\ pc' = "empty"
  /\ UNCHANGED <<FreeBufCb, channel, lists, flag, enabled, mask, shci>>

\* Mutant: the channel is not enabled when the flag is active.
TestForgetsEnable ==
  /\ pc = "test"
  /\ IF flag["MM"] THEN FreeBufCb' = TRUE /\ pc' = "idle"
     ELSE pc' = "empty" /\ UNCHANGED FreeBufCb
  /\ UNCHANGED <<channel, lists, flag, enabled, mask, shci>>

\* HW_IPCC_MM_SendFreeBuf: now, or in the interrupt.
Test ==
  /\ pc = "test"
  /\ IF flag["MM"] THEN FreeBufCb' = TRUE /\ pc' = "read" /\ channel' = "MM"
     ELSE pc' = "empty" /\ UNCHANGED <<FreeBufCb, channel>>
  /\ UNCHANGED <<lists, flag, enabled, mask, shci>>

\* LL_C1_IPCC_EnableTransmitChannel reads C1MR and writes it back: what an
\* interrupt disables in between is enabled again.
ReadMask ==
  /\ pc = "read" /\ Quiet
  /\ mask' = enabled /\ pc' = "write"
  /\ UNCHANGED <<lists, ipcc, channel, shci>>

WriteMask ==
  /\ pc = "write" /\ Quiet
  /\ enabled' = mask \cup {channel} /\ mask' = {} /\ pc' = "idle"
  /\ UNCHANGED <<lists, FreeBufCb, flag, channel, shci>>

\* The loop of SendFreeBuf.
Empty ==
  /\ pc = "empty" /\ Quiet
  /\ pc' = IF LocalFreeBufQueue = <<>> THEN "flag" ELSE "remove"
  /\ UNCHANGED <<lists, ipcc, channel, mask, shci>>

Remove ==
  /\ pc = "remove" /\ Quiet
  /\ p_node' = Head(LocalFreeBufQueue) /\ LocalFreeBufQueue' = Tail(LocalFreeBufQueue)
  /\ pc' = "insert"
  /\ UNCHANGED <<EvtQueue, HciAsynchEventQueue, FreeBufQueue, pool, ipcc, channel, mask, shci>>

Insert ==
  /\ pc = "insert" /\ Quiet
  /\ FreeBufQueue' = Append(FreeBufQueue, p_node) /\ p_node' = NoBuffer
  /\ pc' = "empty"
  /\ UNCHANGED <<EvtQueue, HciAsynchEventQueue, LocalFreeBufQueue, pool, ipcc, channel, mask, shci>>

SetFlag ==
  /\ pc = "flag" /\ Quiet
  /\ flag' = [flag EXCEPT !["MM"] = TRUE] /\ pc' = "idle"
  /\ UNCHANGED <<lists, FreeBufCb, enabled, channel, mask, shci>>

----------------------------------------------------------------------------
(* The thread: a system command                                            *)

\* shci_send up to its wait: HW_IPCC_SYS_SendCmd sets the flag, then enables.
HW_IPCC_SYS_SendCmd ==
  /\ pc = "idle" /\ Quiet /\ command = "none"
  /\ command' = "sent"
  /\ flag' = [flag EXCEPT !["SYS"] = TRUE]
  /\ pc' = "read" /\ channel' = "SYS"
  /\ UNCHANGED <<lists, FreeBufCb, enabled, mask, answered>>

\* Mutant: the event stays set when the wait is over.
CommandDoneKeepsEvent ==
  /\ pc = "idle" /\ Quiet /\ command = "sent" /\ answered
  /\ command' = "none"
  /\ UNCHANGED <<answered, lists, ipcc, thread>>

\* shci_cmd_resp_wait returns; the sequencer clears the event.  While it
\* waits, tasks run and release buffers.
CommandDone ==
  /\ pc = "idle" /\ Quiet /\ command = "sent" /\ answered
  /\ command' = "none" /\ answered' = FALSE
  /\ UNCHANGED <<lists, ipcc, thread>>

----------------------------------------------------------------------------
(* The interrupts                                                          *)

\* HW_IPCC_Tx_Handler, the system channel first.
HW_IPCC_SYS_CmdEvtHandler ==
  /\ Pending("SYS")
  /\ enabled' = enabled \ {"SYS"} /\ answered' = TRUE
  /\ UNCHANGED <<lists, FreeBufCb, flag, thread, command>>

HW_IPCC_MM_FreeBufHandler ==
  /\ Pending("MM") /\ ~Pending("SYS")
  /\ enabled' = enabled \ {"MM"}
  /\ IF FreeBufCb
     THEN FreeBufQueue' = FreeBufQueue \o LocalFreeBufQueue /\ LocalFreeBufQueue' = <<>>
     ELSE UNCHANGED <<FreeBufQueue, LocalFreeBufQueue>>
  /\ flag' = [flag EXCEPT !["MM"] = TRUE]
  /\ UNCHANGED <<EvtQueue, HciAsynchEventQueue, pool, p_node, FreeBufCb, thread, shci>>

\* HW_IPCC_BLE_RxEvtNot drains EvtQueue; the flag then tells the second core.
HW_IPCC_BLE_EvtHandler ==
  /\ flag["BLE"]
  /\ HciAsynchEventQueue' = HciAsynchEventQueue \o EvtQueue /\ EvtQueue' = <<>>
  /\ flag' = [flag EXCEPT !["BLE"] = FALSE]
  /\ UNCHANGED <<LocalFreeBufQueue, FreeBufQueue, pool, p_node, FreeBufCb, enabled, thread, shci>>

----------------------------------------------------------------------------
(* The second core                                                         *)

Cpu2SendsEvent ==
  /\ ~flag["BLE"]
  /\ \E b \in pool : pool' = pool \ {b} /\ EvtQueue' = Append(EvtQueue, b)
  /\ flag' = [flag EXCEPT !["BLE"] = TRUE]
  /\ UNCHANGED <<HciAsynchEventQueue, LocalFreeBufQueue, FreeBufQueue, p_node, FreeBufCb, enabled,
                 thread, shci>>

Cpu2Answers ==
  /\ flag["SYS"]
  /\ flag' = [flag EXCEPT !["SYS"] = FALSE]
  /\ UNCHANGED <<lists, FreeBufCb, enabled, thread, shci>>

\* While the flag is active the second core reads the list, one buffer at a time.
Cpu2TakesBuffer ==
  /\ flag["MM"] /\ FreeBufQueue # <<>>
  /\ pool' = pool \cup {Head(FreeBufQueue)} /\ FreeBufQueue' = Tail(FreeBufQueue)
  /\ UNCHANGED <<EvtQueue, HciAsynchEventQueue, LocalFreeBufQueue, p_node, ipcc, thread, shci>>

Cpu2Done ==
  /\ flag["MM"] /\ FreeBufQueue = <<>>
  /\ flag' = [flag EXCEPT !["MM"] = FALSE]
  /\ UNCHANGED <<lists, FreeBufCb, enabled, thread, shci>>

----------------------------------------------------------------------------
Release == Test \/ ReadMask \/ WriteMask \/ Empty \/ Remove \/ Insert \/ SetFlag
Interrupt == HW_IPCC_SYS_CmdEvtHandler \/ HW_IPCC_MM_FreeBufHandler \/ HW_IPCC_BLE_EvtHandler
Cpu2Releases == Cpu2TakesBuffer \/ Cpu2Done

Next ==
  \/ TL_MM_EvtDone \/ Release
  \/ HW_IPCC_SYS_SendCmd \/ CommandDone
  \/ Interrupt
  \/ Cpu2SendsEvent \/ Cpu2Answers \/ Cpu2Releases

Spec == Init /\ [][Next]_vars

\* The thread goes on, interrupts are taken, the second core serves its flags.
FairSpec ==
  /\ Spec
  /\ WF_vars(Release) /\ WF_vars(Interrupt) /\ WF_vars(Cpu2Releases)

----------------------------------------------------------------------------
TypeOK ==
  /\ EvtQueue \in Seq(Buffer) /\ HciAsynchEventQueue \in Seq(Buffer)
  /\ LocalFreeBufQueue \in Seq(Buffer) /\ FreeBufQueue \in Seq(Buffer)
  /\ pool \subseteq Buffer /\ p_node \in Buffer \cup {NoBuffer}
  /\ FreeBufCb \in BOOLEAN /\ flag \in [Channel -> BOOLEAN] /\ enabled \subseteq TxChannel
  /\ pc \in {"idle", "test", "read", "write", "empty", "remove", "insert", "flag"}
  /\ channel \in TxChannel /\ mask \subseteq TxChannel
  /\ command \in {"none", "sent"} /\ answered \in BOOLEAN

\* FreeBufQueue is changed by the thread only while the second core does not
\* read it, and a node is removed only from a list that has one (the head
\* itself would be unlinked), although the interrupt empties the same list
\* and may come between any two of the thread's steps.
ThreadOwnsLists ==
  /\ pc \in {"remove", "insert"} => ~flag["MM"]
  /\ pc = "remove" => LocalFreeBufQueue # <<>>

\* shci_cmd_resp_wait "shall not return until the command response ... is
\* received" (shci_tl.h:123): the event is that of this command's response,
\* although a lost update of C1MR may report one response twice.
AnswerIsThere == answered => command = "sent" /\ ~flag["SYS"]

\* Liveness: every buffer released comes back to the pool, whether the flag
\* was active or not, and whatever the flag does between test and enabling.
BuffersReturn ==
  \A b \in Buffer :
    (\E i \in DOMAIN LocalFreeBufQueue : LocalFreeBufQueue[i] = b) ~> b \in pool

=============================================================================
