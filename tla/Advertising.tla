----------------------------- MODULE Advertising -----------------------------
(***************************************************************************)
(* The connection state machine of the BLE application                     *)
(* (STM32_WPAN/App/app_ble.c): fast advertising for INITIAL_ADV_TIMEOUT,   *)
(* then slow (LP) advertising, until a central connects; fast advertising  *)
(* again when it disconnects.                                              *)
(*                                                                         *)
(* Three parties take part: the timer interrupt, which requests the task   *)
(* ADV_UPDATE; the tasks ADV_UPDATE and HCI_ASYNCH, which exclude each     *)
(* other while one waits for a command (HciTransport!NoSenderRuns) and are *)
(* executed in either order; and the BLE stack on the second core, which   *)
(* queues its events at any time, also while a command is executed.        *)
(***************************************************************************)
EXTENDS Naturals, Sequences, FiniteSets

CONSTANTS
  Handle,     (* connection handles                                        *)
  NoHandle,   (* 0xFFFF, and the 0 a disconnection leaves                  *)
  NumLink,    (* CFG_BLE_NUM_LINK: links the stack accepts                 *)
  MaxEvt      (* bound: events queued                                      *)

ASSUME AdvertisingAssumption ==
  IsFiniteSet(Handle) /\ NoHandle \notin Handle /\ NumLink \in Nat \ {0} /\ MaxEvt \in Nat

VARIABLES
  Device_Connection_Status, connectionHandle,
  timer,      (* Advertising_mgr_timer_Id is running                       *)
  TaskSet,    (* the two tasks, while requested                            *)
  queue,      (* HciAsynchEventQueue                                       *)
  request,    (* the Adv_Request being executed, and the command it sends  *)
  adv, links  (* the BLE stack: how it advertises, the links it has        *)

vars == <<Device_Connection_Status, connectionHandle, timer, TaskSet, queue, request,
          adv, links>>
stack == <<adv, links>>

NoRequest == [new |-> "none", cmd |-> "none"]

----------------------------------------------------------------------------
(* Adv_Request(NewStatus), called by a task or by APP_BLE_Init.  It stops   *)
(* the timer, then sends up to three commands; each waits for its answer.   *)

\* Mutant: the timer is left running.
RequestKeepsTimer(new, status) ==
  /\ UNCHANGED timer
  /\ IF new = "LP_ADV" /\ status \in {"FAST_ADV", "LP_ADV"}
     THEN /\ request' = [new |-> new, cmd |-> "set_non_discoverable"]
          /\ Device_Connection_Status' = status
     ELSE /\ request' = [new |-> new, cmd |-> "set_discoverable"]
          /\ Device_Connection_Status' = new

\* status is the status it finds.
Adv_Request(new, status) ==
  /\ timer' = FALSE
  /\ IF new = "LP_ADV" /\ status \in {"FAST_ADV", "LP_ADV"}
     THEN /\ request' = [new |-> new, cmd |-> "set_non_discoverable"]
          /\ Device_Connection_Status' = status
     ELSE /\ request' = [new |-> new, cmd |-> "set_discoverable"]
          /\ Device_Connection_Status' = new

\* Mutant: the new status is not written.
SetNonDiscoverableKeepsStatus ==
  /\ request.cmd = "set_non_discoverable"
  /\ adv' = "off"
  /\ request' = [request EXCEPT !.cmd = "set_discoverable"]
  /\ UNCHANGED <<Device_Connection_Status, connectionHandle, timer, TaskSet, queue, links>>

\* The status is written whatever happened since it was read.
SetNonDiscoverable ==
  /\ request.cmd = "set_non_discoverable"
  /\ adv' = "off"
  /\ Device_Connection_Status' = request.new
  /\ request' = [request EXCEPT !.cmd = "set_discoverable"]
  /\ UNCHANGED <<connectionHandle, timer, TaskSet, queue, links>>

\* Refused by a stack that advertises or has no link left; the code only
\* traces that.
SetDiscoverable ==
  /\ request.cmd = "set_discoverable"
  /\ adv' = IF adv = "off" /\ Cardinality(links) < NumLink THEN request.new ELSE adv
  /\ request' = [request EXCEPT !.cmd = "update_adv_data"]
  /\ UNCHANGED <<Device_Connection_Status, connectionHandle, timer, TaskSet, queue, links>>

UpdateAdvData(ok) ==
  /\ request.cmd = "update_adv_data"
  /\ timer' = (timer \/ (ok /\ request.new = "FAST_ADV"))
  /\ request' = NoRequest
  /\ UNCHANGED <<Device_Connection_Status, connectionHandle, TaskSet, queue, stack>>

\* APP_BLE_Init, about to advertise for the first time.
Init ==
  /\ Device_Connection_Status = "FAST_ADV" /\ connectionHandle = NoHandle
  /\ timer = FALSE /\ TaskSet = {} /\ queue = <<>>
  /\ request = [new |-> "FAST_ADV", cmd |-> "set_discoverable"]
  /\ adv = "off" /\ links = {}

----------------------------------------------------------------------------
(* The tasks                                                               *)

\* The timer expires: SetTask, in the interrupt.
Adv_Mgr ==
  /\ timer /\ timer' = FALSE
  /\ TaskSet' = TaskSet \cup {"ADV_UPDATE"}
  /\ UNCHANGED <<Device_Connection_Status, connectionHandle, queue, request, stack>>

Adv_Update ==
  /\ request = NoRequest /\ "ADV_UPDATE" \in TaskSet
  /\ TaskSet' = TaskSet \ {"ADV_UPDATE"}
  /\ Adv_Request("LP_ADV", Device_Connection_Status)
  /\ UNCHANGED <<connectionHandle, queue, stack>>

\* hci_user_evt_proc takes one event and asks to be called again for the next.
NextEvt(kind) ==
  /\ request = NoRequest /\ "HCI_ASYNCH" \in TaskSet
  /\ queue # <<>> /\ Head(queue).kind = kind
  /\ queue' = Tail(queue)
  /\ TaskSet' = IF queue' = <<>> THEN TaskSet \ {"HCI_ASYNCH"} ELSE TaskSet
  /\ UNCHANGED stack

\* Mutant: the handle of the link is not kept.
ConnectionCompleteNoHandle ==
  /\ NextEvt("connection")
  /\ timer' = FALSE
  /\ Device_Connection_Status' = "CONNECTED_SERVER"
  /\ UNCHANGED <<connectionHandle, request>>

\* SVCCTL_App_Notification.  The status is never APP_BLE_LP_CONNECTING: no
\* code makes this device a central.
ConnectionComplete ==
  /\ NextEvt("connection")
  /\ timer' = FALSE
  /\ Device_Connection_Status' = "CONNECTED_SERVER"
  /\ connectionHandle' = Head(queue).handle
  /\ UNCHANGED request

\* Mutant: advertising is not restarted when the remembered link is lost.
DisconnectionNoRestart ==
  /\ NextEvt("disconnection")
  /\ IF Head(queue).handle = connectionHandle
     THEN /\ connectionHandle' = NoHandle /\ Device_Connection_Status' = "IDLE"
          /\ UNCHANGED <<timer, request>>
     ELSE UNCHANGED connectionHandle /\ Adv_Request("FAST_ADV", Device_Connection_Status)

DisconnectionComplete ==
  /\ NextEvt("disconnection")
  /\ IF Head(queue).handle = connectionHandle
     THEN connectionHandle' = NoHandle /\ Adv_Request("FAST_ADV", "IDLE")
     ELSE UNCHANGED connectionHandle /\ Adv_Request("FAST_ADV", Device_Connection_Status)

----------------------------------------------------------------------------
(* The BLE stack                                                           *)

Queue(kind, h) ==
  /\ Len(queue) < MaxEvt
  /\ queue' = Append(queue, [kind |-> kind, handle |-> h])
  /\ TaskSet' = TaskSet \cup {"HCI_ASYNCH"}
  /\ UNCHANGED <<Device_Connection_Status, connectionHandle, timer, request>>

\* A central connects, which ends the advertising.
Connect(h) ==
  /\ adv # "off" /\ h \notin links /\ Cardinality(links) < NumLink
  /\ adv' = "off" /\ links' = links \cup {h}
  /\ Queue("connection", h)

Disconnect(h) ==
  /\ h \in links
  /\ links' = links \ {h} /\ UNCHANGED adv
  /\ Queue("disconnection", h)

Commands == SetNonDiscoverable \/ SetDiscoverable \/ \E ok \in BOOLEAN : UpdateAdvData(ok)

HciAsynch == ConnectionComplete \/ DisconnectionComplete

Next ==
  \/ Commands \/ Adv_Mgr \/ Adv_Update \/ HciAsynch
  \/ \E h \in Handle : Connect(h) \/ Disconnect(h)

Spec == Init /\ [][Next]_vars

\* Commands are answered, timers expire, and each of the two tasks is selected
\* again and again while it is requested (SequencerRoundRobin!OvertakenAtMostTwice).
FairSpec ==
  Spec /\ WF_vars(Commands) /\ WF_vars(Adv_Mgr) /\ SF_vars(Adv_Update) /\ SF_vars(HciAsynch)

----------------------------------------------------------------------------
TypeOK ==
  /\ Device_Connection_Status \in {"FAST_ADV", "LP_ADV", "CONNECTED_SERVER"}
  /\ connectionHandle \in Handle \cup {NoHandle}
  /\ timer \in BOOLEAN /\ TaskSet \subseteq {"ADV_UPDATE", "HCI_ASYNCH"}
  /\ queue \in Seq([kind : {"connection", "disconnection"}, handle : Handle])
  /\ request \in [new : {"FAST_ADV", "LP_ADV"},
                  cmd : {"set_non_discoverable", "set_discoverable", "update_adv_data"}]
                 \cup {NoRequest}
  /\ adv \in {"off", "FAST_ADV", "LP_ADV"} /\ links \subseteq Handle

\* All events are handled, no request is under way.
Settled == queue = <<>> /\ request = NoRequest

\* "Restart advertising" (app_ble.c:450): whatever centrals do while commands
\* are executed, a settled device without any link can be discovered.
Discoverable == Settled /\ links = {} => adv # "off"

\* A settled device in the connected state remembers a link that exists, also
\* when a second central came through a late request for slow advertising and
\* either of the two left (CFG_BLE_NUM_LINK is 2).
HandleIsALink ==
  Settled /\ Device_Connection_Status = "CONNECTED_SERVER" => connectionHandle \in links

\* The timer, whose expiry forces slow advertising, runs in fast advertising
\* only: no connection, disconnection or late request leaves it running.
TimerInFastAdvOnly == timer => Device_Connection_Status = "FAST_ADV"

\* "The connection is done, there is no need anymore to schedule the LP ADV"
\* (app_ble.c:522-524): the connected state is left by a disconnection only.
ConnectedUntilDisconnection ==
  [][Device_Connection_Status = "CONNECTED_SERVER"
       => Device_Connection_Status' # "LP_ADV"]_vars

\* Liveness: fast advertising, which costs power, ends once its timer runs: in
\* slow advertising, or in a connection that overtakes the timer.  (A late
\* disconnection of another link starts it again, without its timer when the
\* stack refuses the last command.)
FastAdvEnds ==
  timer /\ links = {} /\ queue = <<>> ~> Device_Connection_Status # "FAST_ADV"

\* Liveness: the device can always be connected to again.
Reachable == []<>(adv # "off" \/ links # {})

=============================================================================
