SPECIFICATION HFairSpec
CONSTANTS
  TaskNbr = 3
  PrioNbr = 1
  hci_rsp = hci_rsp
  sys_rsp = sys_rsp
  op1 = op1
  nop = nop
  none = none
  NoOp = none
  Evt = {hci_rsp, sys_rsp}
  RunMasks <- FullMask
  PauseMasks <- HciMask
  MaxNest = 2
  LastTaskIdWithHciCmd = 2
  HciAsynch = 1
  System = 2
  HciRsp = hci_rsp
  SysRsp = sys_rsp
  Op = {op1}
  Nop = nop
  MaxCmds = 2
  MaxAsynch = 2
  MaxSys = 1
INVARIANTS
  AnswerIsOwn
  SystemAnswerIsThere
  NoSenderRuns
  EventsNotForgotten
PROPERTIES
  OneCommandAtATime
  CommandsReturn
  EventsProcessed
