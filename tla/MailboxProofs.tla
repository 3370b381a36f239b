---------------------------- MODULE MailboxProofs ----------------------------
(***************************************************************************)
(* The safety properties of Mailbox, for any pool of buffers.              *)
(***************************************************************************)
EXTENDS Mailbox, TLAPS

\* Once the loop of SendFreeBuf has begun, the interrupt cannot come any more:
\* the flag is clear and the channel disabled.  If it came before the loop, it
\* left nothing to do.  It finds its callback set.
ListInv ==
  /\ pc \in {"remove", "insert"} => ~flag["MM"] /\ "MM" \notin enabled
  /\ pc = "empty" /\ LocalFreeBufQueue # <<>> => ~flag["MM"]
  /\ pc = "remove" => LocalFreeBufQueue # <<>>
  /\ pc = "insert" => p_node \in Buffer
  /\ "MM" \in enabled \cup mask => FreeBufCb
  /\ pc \in {"read", "write"} /\ channel = "MM" => FreeBufCb

\* Without a command the system channel is disabled, and no mask the thread is
\* about to write back would enable it.
CommandInv ==
  /\ AnswerIsThere
  /\ command = "none" => "SYS" \notin enabled /\ "SYS" \notin mask
  /\ pc # "write" => mask = {}
  /\ pc \in {"read", "write"} /\ channel = "SYS" => command = "sent"

IInv == TypeOK /\ ListInv /\ CommandInv

----------------------------------------------------------------------------
\* The initial state satisfies the invariant.
LEMMA InitInv == Init => IInv
<1> SUFFICES ASSUME Init PROVE IInv
  OBVIOUS
<1> USE DEF Init, Channel, TxChannel
<1>1. <<>> \in Seq(Buffer)
  OBVIOUS
<1>2. flag \in [Channel -> BOOLEAN]
  OBVIOUS
<1>3. TypeOK
  BY <1>1, <1>2 DEF TypeOK
<1>4. ListInv /\ CommandInv
  BY DEF ListInv, CommandInv, AnswerIsThere
<1> QED BY <1>3, <1>4 DEF IInv

\* Moving the head of one list behind another one keeps lists of buffers.
LEMMA MoveHead ==
  ASSUME NEW s \in Seq(Buffer), s # <<>>
  PROVE  Head(s) \in Buffer /\ Tail(s) \in Seq(Buffer)
  OBVIOUS

LEMMA AppendType ==
  ASSUME NEW s \in Seq(Buffer), NEW b \in Buffer
  PROVE  Append(s, b) \in Seq(Buffer)
  OBVIOUS

\* The release of a buffer preserves the types.
LEMMA ReleaseType == TypeOK /\ ListInv /\ (TL_MM_EvtDone \/ Release) => TypeOK'
<1> SUFFICES ASSUME TypeOK, ListInv, TL_MM_EvtDone \/ Release PROVE TypeOK'
  OBVIOUS
<1> USE DEF TypeOK, lists, ipcc, thread, shci
<1>1. CASE TL_MM_EvtDone
  <2>1. Append(LocalFreeBufQueue, Head(HciAsynchEventQueue)) \in Seq(Buffer)
    BY <1>1, MoveHead, AppendType DEF TL_MM_EvtDone
  <2>2. Tail(HciAsynchEventQueue) \in Seq(Buffer)
    BY <1>1, MoveHead DEF TL_MM_EvtDone
  <2> QED BY <1>1, <2>1, <2>2 DEF TL_MM_EvtDone
<1>2. CASE Test
  BY <1>2 DEF Test, TxChannel
<1>3. CASE ReadMask \/ WriteMask
  BY <1>3 DEF ReadMask, WriteMask
<1>4. CASE Empty
  BY <1>4 DEF Empty
<1>5. CASE Remove
  <2>1. Head(LocalFreeBufQueue) \in Buffer /\ Tail(LocalFreeBufQueue) \in Seq(Buffer)
    BY <1>5, MoveHead DEF Remove, ListInv
  <2> QED BY <1>5, <2>1 DEF Remove
<1>6. CASE Insert
  <2>1. Append(FreeBufQueue, p_node) \in Seq(Buffer)
    BY <1>6, AppendType DEF Insert, ListInv
  <2> QED BY <1>6, <2>1 DEF Insert
<1>7. CASE SetFlag
  BY <1>7 DEF SetFlag
<1> QED BY <1>1, <1>2, <1>3, <1>4, <1>5, <1>6, <1>7 DEF Release

\* The interrupts, the second core and the commands preserve the types.
LEMMA OtherType ==
  TypeOK /\ (HW_IPCC_SYS_SendCmd \/ CommandDone \/ Interrupt \/ Cpu2SendsEvent \/ Cpu2Answers
             \/ Cpu2Releases) => TypeOK'
<1> SUFFICES ASSUME TypeOK,
                    HW_IPCC_SYS_SendCmd \/ CommandDone \/ Interrupt \/ Cpu2SendsEvent
                      \/ Cpu2Answers \/ Cpu2Releases
             PROVE  TypeOK'
  OBVIOUS
<1> USE DEF TypeOK, lists, ipcc, thread, shci
<1>1. CASE HW_IPCC_SYS_SendCmd
  BY <1>1 DEF HW_IPCC_SYS_SendCmd, TxChannel
<1>2. CASE CommandDone
  BY <1>2 DEF CommandDone
<1>3. CASE HW_IPCC_SYS_CmdEvtHandler
  BY <1>3 DEF HW_IPCC_SYS_CmdEvtHandler
<1>4. CASE HW_IPCC_MM_FreeBufHandler
  <2>1. FreeBufQueue' \in Seq(Buffer) /\ LocalFreeBufQueue' \in Seq(Buffer)
    <3>1. \A s, t \in Seq(Buffer) : s \o t \in Seq(Buffer)
      OBVIOUS
    <3>2. <<>> \in Seq(Buffer)
      OBVIOUS
    <3>3. FreeBufQueue \o LocalFreeBufQueue \in Seq(Buffer)
      BY <3>1
    <3>4. CASE FreeBufCb
      BY <1>4, <3>2, <3>3, <3>4 DEF HW_IPCC_MM_FreeBufHandler
    <3>5. CASE ~FreeBufCb
      BY <1>4, <3>5 DEF HW_IPCC_MM_FreeBufHandler
    <3> QED BY <3>4, <3>5
  <2>2. flag' \in [Channel -> BOOLEAN] /\ enabled' \subseteq TxChannel
    BY <1>4 DEF HW_IPCC_MM_FreeBufHandler
  <2> QED BY <1>4, <2>1, <2>2 DEF HW_IPCC_MM_FreeBufHandler
<1>5. CASE HW_IPCC_BLE_EvtHandler
  <2>1. HciAsynchEventQueue' \in Seq(Buffer) /\ EvtQueue' \in Seq(Buffer)
    <3>1. \A s, t \in Seq(Buffer) : s \o t \in Seq(Buffer)
      OBVIOUS
    <3>2. <<>> \in Seq(Buffer)
      OBVIOUS
    <3> QED BY <1>5, <3>1, <3>2 DEF HW_IPCC_BLE_EvtHandler
  <2> QED BY <1>5, <2>1 DEF HW_IPCC_BLE_EvtHandler
<1>6. CASE Cpu2SendsEvent
  BY <1>6, AppendType DEF Cpu2SendsEvent
<1>7. CASE Cpu2Answers
  BY <1>7 DEF Cpu2Answers
<1>8. CASE Cpu2TakesBuffer
  BY <1>8, MoveHead DEF Cpu2TakesBuffer
<1>9. CASE Cpu2Done
  BY <1>9 DEF Cpu2Done
<1> QED BY <1>1, <1>2, <1>3, <1>4, <1>5, <1>6, <1>7, <1>8, <1>9 DEF Interrupt, Cpu2Releases

----------------------------------------------------------------------------
\* Every step preserves what the thread relies on in SendFreeBuf.
LEMMA ListStep == TypeOK /\ ListInv /\ [Next]_vars => ListInv'
<1> SUFFICES ASSUME TypeOK, ListInv, [Next]_vars PROVE ListInv'
  OBVIOUS
<1> USE DEF ListInv, TypeOK, lists, ipcc, thread, shci, Channel, TxChannel
<1>1. CASE TL_MM_EvtDone
  BY <1>1 DEF TL_MM_EvtDone
<1>2. CASE Test
  BY <1>2 DEF Test
<1>3. CASE ReadMask
  BY <1>3 DEF ReadMask
<1>4. CASE WriteMask
  BY <1>4 DEF WriteMask
<1>5. CASE Empty
  BY <1>5 DEF Empty, Quiet, Pending
<1>6. CASE Remove
  BY <1>6, MoveHead DEF Remove
<1>7. CASE Insert
  BY <1>7 DEF Insert
<1>8. CASE SetFlag
  BY <1>8 DEF SetFlag
<1>9. CASE HW_IPCC_SYS_SendCmd
  BY <1>9 DEF HW_IPCC_SYS_SendCmd
<1>10. CASE CommandDone
  BY <1>10 DEF CommandDone
<1>11. CASE HW_IPCC_SYS_CmdEvtHandler
  BY <1>11 DEF HW_IPCC_SYS_CmdEvtHandler
<1>12. CASE HW_IPCC_MM_FreeBufHandler
  <2>1. pc \notin {"remove", "insert"} /\ pc' = pc
    BY <1>12 DEF HW_IPCC_MM_FreeBufHandler, Pending
  <2>2. LocalFreeBufQueue' = <<>>
    BY <1>12 DEF HW_IPCC_MM_FreeBufHandler, Pending
  <2> QED BY <1>12, <2>1, <2>2 DEF HW_IPCC_MM_FreeBufHandler
<1>13. CASE HW_IPCC_BLE_EvtHandler
  BY <1>13 DEF HW_IPCC_BLE_EvtHandler
<1>14. CASE Cpu2SendsEvent
  BY <1>14 DEF Cpu2SendsEvent
<1>15. CASE Cpu2Answers
  BY <1>15 DEF Cpu2Answers
<1>16. CASE Cpu2TakesBuffer
  BY <1>16 DEF Cpu2TakesBuffer
<1>17. CASE Cpu2Done
  BY <1>17 DEF Cpu2Done
<1>18. CASE UNCHANGED vars
  BY <1>18 DEF vars
<1> QED BY <1>1, <1>2, <1>3, <1>4, <1>5, <1>6, <1>7, <1>8, <1>9, <1>10, <1>11, <1>12, <1>13,
            <1>14, <1>15, <1>16, <1>17, <1>18 DEF Next, Release, Interrupt, Cpu2Releases

\* Every step preserves what a command relies on, lost updates of C1MR included.
LEMMA CommandStep == TypeOK /\ CommandInv /\ [Next]_vars => CommandInv'
<1> SUFFICES ASSUME TypeOK, CommandInv, [Next]_vars PROVE CommandInv'
  OBVIOUS
<1> USE DEF CommandInv, AnswerIsThere, TypeOK, lists, ipcc, thread, shci, Channel, TxChannel
<1>1. CASE TL_MM_EvtDone
  BY <1>1 DEF TL_MM_EvtDone
<1>2. CASE Test
  BY <1>2 DEF Test
<1>3. CASE ReadMask
  BY <1>3 DEF ReadMask
<1>4. CASE WriteMask
  BY <1>4 DEF WriteMask
<1>5. CASE Empty
  BY <1>5 DEF Empty
<1>6. CASE Remove
  BY <1>6 DEF Remove
<1>7. CASE Insert
  BY <1>7 DEF Insert
<1>8. CASE SetFlag
  BY <1>8 DEF SetFlag
<1>9. CASE HW_IPCC_SYS_SendCmd
  BY <1>9 DEF HW_IPCC_SYS_SendCmd
<1>10. CASE CommandDone
  <2>1. "SYS" \notin enabled
    BY <1>10 DEF CommandDone, Quiet, Pending
  <2> QED BY <1>10, <2>1 DEF CommandDone
<1>11. CASE HW_IPCC_SYS_CmdEvtHandler
  BY <1>11 DEF HW_IPCC_SYS_CmdEvtHandler, Pending
<1>12. CASE HW_IPCC_MM_FreeBufHandler
  BY <1>12 DEF HW_IPCC_MM_FreeBufHandler
<1>13. CASE HW_IPCC_BLE_EvtHandler
  BY <1>13 DEF HW_IPCC_BLE_EvtHandler
<1>14. CASE Cpu2SendsEvent
  BY <1>14 DEF Cpu2SendsEvent
<1>15. CASE Cpu2Answers
  BY <1>15 DEF Cpu2Answers
<1>16. CASE Cpu2TakesBuffer
  BY <1>16 DEF Cpu2TakesBuffer
<1>17. CASE Cpu2Done
  BY <1>17 DEF Cpu2Done
<1>18. CASE UNCHANGED vars
  BY <1>18 DEF vars
<1> QED BY <1>1, <1>2, <1>3, <1>4, <1>5, <1>6, <1>7, <1>8, <1>9, <1>10, <1>11, <1>12, <1>13,
            <1>14, <1>15, <1>16, <1>17, <1>18 DEF Next, Release, Interrupt, Cpu2Releases

----------------------------------------------------------------------------
\* The invariant holds for any pool of buffers.
LEMMA Invariance == Spec => []IInv
<1>1. IInv /\ [Next]_vars => IInv'
  <2>1. TypeOK /\ ListInv /\ [Next]_vars => TypeOK'
    <3>1. TypeOK /\ UNCHANGED vars => TypeOK'
      BY DEF TypeOK, vars, lists, ipcc, thread, shci
    <3> QED BY <3>1, ReleaseType, OtherType DEF Next
  <2> QED BY <2>1, ListStep, CommandStep DEF IInv
<1> QED BY <1>1, InitInv, PTL DEF Spec

\* The lists hold buffers, the flags and masks channels.
THEOREM TypeCorrect == Spec => []TypeOK
  BY Invariance, PTL DEF IInv

\* SendFreeBuf and the interrupt that runs it never change the lists at the
\* same time, and never while the second core reads them.
THEOREM ListsOwned == Spec => []ThreadOwnsLists
<1>1. IInv => ThreadOwnsLists
  BY DEF IInv, ListInv, ThreadOwnsLists
<1> QED BY <1>1, Invariance, PTL

\* The event of shci_cmd_resp_wait is that of the response to this command.
THEOREM AnswerCorrect == Spec => []AnswerIsThere
<1>1. IInv => AnswerIsThere
  BY DEF IInv, CommandInv
<1> QED BY <1>1, Invariance, PTL

=============================================================================
