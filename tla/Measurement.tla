----------------------------- MODULE Measurement -----------------------------
(***************************************************************************)
(* The measurements, from the LDC1614 converter to the UART and to the     *)
(* subscribers of the BLE characteristic.                                  *)
(*                                                                         *)
(* One thread: the main loop (main.c:136), which alternates between the    *)
(* sequencer and the periodic measurement that TIM2 asks for by read_flag; *)
(* the sequencer executes HCI_ASYNCH (the service's event handler, hrs.c)  *)
(* and MEAS_REQ (the measurement that the HRS application notifies).  Two  *)
(* interrupts: TIM2, and the timer server for the HRS timer.  The stack    *)
(* queues the events of the clients at any time.                           *)
(*                                                                         *)
(* Both measurements read the converter, word by word, into allData.  The  *)
(* wait for a command's answer executes neither task (both are paused, see *)
(* HciTransport), so that only interrupts come between the steps.  The     *)
(* converter is configured: the writes of ldc1614_init have arrived.       *)
(***************************************************************************)
EXTENDS HeartRateProfile, FiniteSets

Channel == 0..3

CONSTANTS
  Results,      (* Results[c]: the conversions of channel c                *)
  NoResult,     (* nothing has been read yet                               *)
  Encoded,      (* of a conversion: encode_floats of its inductance        *)
  TornCode,     (* the same of two halves of different conversions         *)
  EnergyMod,    (* 2^16; bound: where EnergyExpended wraps                 *)
  Client,       (* the centrals that may connect                           *)
  MaxEvents     (* bound: events queued                                    *)

Result == UNION {Results[c] : c \in Channel}
Codes(c) == {Encoded[r] : r \in Results[c]}

ASSUME MeasurementAssumption ==
  /\ NoResult \notin Result
  /\ \A c, d \in Channel : c # d => Results[c] \cap Results[d] = {}
  /\ Encoded \in [Result -> Uint16] /\ TornCode \in Uint16
  /\ EnergyMod \in Nat /\ EnergyMod > 10 /\ EnergyMod <= 65536
  /\ MaxEvents \in Nat

VARIABLES
  pc,           (* what the thread does next; it reads the converter in    *)
                (* "read" for the main loop, in "measure" for the task     *)
  word,         (* the word read next                                      *)
  allData,      (* the words read: a conversion, and which half of it      *)
  latch,        (* of the converter: the conversion its LSB belongs to     *)
  htim2,        (* State, the interrupt enable UIE, the counter enable CEN *)
                (* and the update flag UIF                                 *)
  read_flag,
  MeasReq,      (* the task MEAS_REQ is requested                          *)
  timer,        (* TimerMeasurement_Id runs                                *)
  EnergyExpended, ResetEnergyExpended,
  events,       (* HciAsynchEventQueue                                     *)
  subscribed,   (* clients that have notifications enabled                 *)
  asked,        (* ghost: notifications are what a client asked for last   *)
  resetDue,     (* ghost: a reset is acknowledged, and no value notified   *)
                (* since                                                   *)
  unheard       (* ghost: the energy of the updates since that reset of    *)
                (* which nobody was notified                               *)

converter == <<allData, latch>>
energy    == <<EnergyExpended, ResetEnergyExpended, resetDue, unheard>>
clients   == <<subscribed, asked>>
vars == <<pc, word, converter, htim2, read_flag, MeasReq, timer,
          energy, events, clients>>

\* Notifications enabled or disabled; a write of the control point that asks
\* for a reset of the energy, and one that asks for something else.
Event == {"enabled", "disabled", "reset", "invalid"}

----------------------------------------------------------------------------
(* The timer TIM2                                                          *)

Off == [State |-> "READY", UIE |-> FALSE, CEN |-> FALSE, UIF |-> FALSE]

\* HAL_TIM_Base_Start_IT: a timer that is not ready is left alone.
HAL_TIM_Base_Start_IT(t) ==
  IF t.State = "READY" THEN [t EXCEPT !.State = "BUSY", !.UIE = TRUE, !.CEN = TRUE] ELSE t

\* Mutant: the timer is not made ready again.
StopKeepsBusy(t) == [t EXCEPT !.UIE = FALSE, !.CEN = FALSE]

\* An update flag set before or during the stop stays set: it interrupts when
\* the timer is started again.
HAL_TIM_Base_Stop_IT(t) ==
  [t EXCEPT !.UIE = FALSE, !.CEN = FALSE, !.State = "READY"]

----------------------------------------------------------------------------
(* The converter                                                           *)

\* Mutant: the least significant word first.
LsbFirst == [k \in 0..7 |-> [ch |-> k \div 2, half |-> IF k % 2 = 0 THEN "lsb" ELSE "msb"]]

\* The registers ldc1614_processDRDY reads, in order.
Register == [k \in 0..7 |-> [ch |-> k \div 2, half |-> IF k % 2 = 0 THEN "msb" ELSE "lsb"]]

\* The conversions a word may come from.  Reading the MSB latches the LSB of
\* the same conversion; without that it is the latest one's.
From(reg) ==
  IF reg.half = "lsb" /\ latch \in Results[reg.ch] THEN {latch} ELSE Results[reg.ch]

\* allData holds one whole conversion of channel c.
Whole(c) ==
  \E r \in Results[c] : allData[2*c] = <<r, "msb">> /\ allData[2*c + 1] = <<r, "lsb">>

\* encode_floats(ldc1614_readInductance(c)), for channel c = i - 1.  The
\* inductances, and these values, are computed from allData before anybody
\* writes it again.
MeasurementValue ==
  [i \in 1..4 |-> IF Whole(i - 1) THEN Encoded[allData[2*(i - 1)][1]] ELSE TornCode]

Init ==
  /\ pc = "run" /\ word = 0
  /\ allData = [k \in 0..7 |-> <<NoResult, Register[k].half>>] /\ latch = NoResult
  /\ htim2 = HAL_TIM_Base_Start_IT(Off) /\ read_flag \in BOOLEAN
  /\ MeasReq = FALSE /\ timer = FALSE
  /\ EnergyExpended = 10 /\ ResetEnergyExpended = FALSE
  /\ resetDue = FALSE /\ unheard = 0
  /\ events = <<>> /\ subscribed = {} /\ asked = FALSE

----------------------------------------------------------------------------
(* The main loop                                                           *)

\* MX_APPE_Process returns when no task is requested.
Leave ==
  /\ pc = "run" /\ ~MeasReq /\ events = <<>>
  /\ pc' = "test"
  /\ UNCHANGED <<word, converter, htim2, read_flag, MeasReq, timer, energy, events, clients>>

TestReadFlag ==
  /\ pc = "test"
  /\ pc' = IF read_flag THEN "stop" ELSE "run"
  /\ UNCHANGED <<word, converter, htim2, read_flag, MeasReq, timer, energy, events, clients>>

StopTimer ==
  /\ pc = "stop"
  /\ htim2' = HAL_TIM_Base_Stop_IT(htim2) /\ pc' = "clear"
  /\ UNCHANGED <<word, converter, read_flag, MeasReq, timer, energy, events, clients>>

ClearReadFlag ==
  /\ pc = "clear"
  /\ read_flag' = FALSE /\ pc' = "read"
  /\ UNCHANGED <<word, converter, htim2, MeasReq, timer, energy, events, clients>>

\* The inductances are computed and the timer started again.
StartTimer ==
  /\ pc = "start"
  /\ htim2' = HAL_TIM_Base_Start_IT(htim2) /\ pc' = "send"
  /\ UNCHANGED <<word, converter, read_flag, MeasReq, timer, energy, events, clients>>

\* HAL_UART_Transmit of the frame (TraceUart).
SendFrame ==
  /\ pc = "send" /\ pc' = "run"
  /\ UNCHANGED <<word, converter, htim2, read_flag, MeasReq, timer, energy, events, clients>>

----------------------------------------------------------------------------
(* ldc1614_processDRDY, for both readers                                   *)

ReadWord ==
  /\ pc \in {"read", "measure"}
  /\ \E r \in From(Register[word]) :
       /\ allData' = [allData EXCEPT ![word] = <<r, Register[word].half>>]
       /\ latch' = IF Register[word].half = "msb" THEN r ELSE latch
  /\ IF word < 7 THEN word' = word + 1 /\ UNCHANGED pc
     ELSE word' = 0 /\ pc' = IF pc = "read" THEN "start" ELSE "encode"
  /\ UNCHANGED <<htim2, read_flag, MeasReq, timer, energy, events, clients>>

\* A transfer that fails ends in Error_Handler, interrupts masked.
ReadFails ==
  /\ pc \in {"read", "measure"} /\ pc' = "dead"
  /\ UNCHANGED <<word, converter, htim2, read_flag, MeasReq, timer, energy, events, clients>>

----------------------------------------------------------------------------
(* The task MEAS_REQ: HRSAPP_Measurement                                   *)

RunMeasurement ==
  /\ pc = "run" /\ MeasReq
  /\ MeasReq' = FALSE /\ pc' = "measure"
  /\ UNCHANGED <<word, converter, htim2, read_flag, timer, energy, events, clients>>

\* The values are encoded (MeasurementValue); the energy grows unless a reset
\* is to be reported.
Encode ==
  /\ pc = "encode" /\ pc' = "update"
  /\ EnergyExpended' = IF ResetEnergyExpended THEN EnergyExpended
                       ELSE (EnergyExpended + 5) % EnergyMod
  /\ ResetEnergyExpended' = FALSE
  /\ UNCHANGED <<word, converter, htim2, read_flag, MeasReq, timer, resetDue, unheard, events,
                 clients>>

\* aci_gatt_update_char_value is answered.  The stack has notified the clients
\* subscribed, if any; or it is busy with a previous notification or has no
\* room for this one, and has not even updated the value.
UpdateDone ==
  /\ pc = "update"
  /\ \E status \in {"notified", "refused"} :
       /\ pc' = status
       /\ IF status = "notified" /\ subscribed # {}
          THEN resetDue' = FALSE /\ unheard' = 0
          ELSE /\ UNCHANGED resetDue
               /\ unheard' = IF resetDue THEN (unheard + 5) % EnergyMod ELSE 0
  /\ UNCHANGED <<word, converter, htim2, read_flag, MeasReq, timer, EnergyExpended,
                 ResetEnergyExpended, events, clients>>

\* The status is not looked at.
MeasurementReturns ==
  /\ pc \in {"notified", "refused"} /\ pc' = "run"
  /\ UNCHANGED <<word, converter, htim2, read_flag, MeasReq, timer, energy, events, clients>>

----------------------------------------------------------------------------
(* The task HCI_ASYNCH: HeartRate_Event_Handler and HRS_Notification       *)

\* The task takes one event, and requests itself while there are more.
Handle(e) == pc = "run" /\ events # <<>> /\ Head(events) = e /\ events' = Tail(events)

\* Mutant: the timer is stopped, but not started again.
EnabledStops ==
  /\ Handle("enabled")
  /\ timer' = FALSE
  /\ UNCHANGED <<pc, word, converter, htim2, read_flag, MeasReq, energy, clients>>

\* The timer is stopped and started, since the event may come twice: the delay
\* begins again (see Fairness).
NotificationEnabled ==
  /\ Handle("enabled")
  /\ timer' = TRUE
  /\ UNCHANGED <<pc, word, converter, htim2, read_flag, MeasReq, energy, clients>>

NotificationDisabled ==
  /\ Handle("disabled")
  /\ timer' = FALSE
  /\ UNCHANGED <<pc, word, converter, htim2, read_flag, MeasReq, energy, clients>>

\* A write to the control point is answered first, with aci_gatt_write_resp.
WritePermit(e, next) ==
  /\ Handle(e) /\ pc' = next
  /\ UNCHANGED <<word, converter, htim2, read_flag, MeasReq, timer, energy, clients>>

\* Mutant: the next measurement adds to the energy.
ResetWithoutFlag ==
  /\ pc = "accept" /\ pc' = "run"
  /\ EnergyExpended' = 0 /\ UNCHANGED ResetEnergyExpended
  /\ resetDue' = TRUE /\ unheard' = 0
  /\ UNCHANGED <<word, converter, htim2, read_flag, MeasReq, timer, events, clients>>

\* The write is accepted: the application resets the energy.
ResetEnergy ==
  /\ pc = "accept" /\ pc' = "run"
  /\ EnergyExpended' = 0 /\ ResetEnergyExpended' = TRUE
  /\ resetDue' = TRUE /\ unheard' = 0
  /\ UNCHANGED <<word, converter, htim2, read_flag, MeasReq, timer, events, clients>>

WriteRefused ==
  /\ pc = "refuse" /\ pc' = "run"
  /\ UNCHANGED <<word, converter, htim2, read_flag, MeasReq, timer, energy, events, clients>>

HciAsynch ==
  \/ NotificationEnabled \/ NotificationDisabled
  \/ WritePermit("reset", "accept") \/ WritePermit("invalid", "refuse")

----------------------------------------------------------------------------
(* Interrupts, which Error_Handler masks, and the hardware                 *)

Overflow ==
  /\ htim2.CEN
  /\ htim2' = [htim2 EXCEPT !.UIF = TRUE]
  /\ UNCHANGED <<pc, word, converter, read_flag, MeasReq, timer, energy, events, clients>>

TIM2_IRQHandler ==
  /\ pc # "dead" /\ htim2.UIF /\ htim2.UIE
  /\ htim2' = [htim2 EXCEPT !.UIF = FALSE] /\ read_flag' = TRUE
  /\ UNCHANGED <<pc, word, converter, MeasReq, timer, energy, events, clients>>

\* The repeated timer expires: the task is requested from the interrupt.
HrMeas ==
  /\ pc # "dead" /\ timer
  /\ MeasReq' = TRUE
  /\ UNCHANGED <<pc, word, converter, htim2, read_flag, timer, energy, events, clients>>

----------------------------------------------------------------------------
(* The clients, through the stack                                          *)

Write(e) ==
  /\ Len(events) < MaxEvents
  /\ events' = Append(events, e)
  /\ UNCHANGED <<pc, word, converter, htim2, read_flag, MeasReq, timer, energy>>

Subscribe(c) ==
  Write("enabled") /\ subscribed' = subscribed \cup {c} /\ asked' = TRUE

Unsubscribe(c) ==
  /\ c \in subscribed
  /\ Write("disabled") /\ subscribed' = subscribed \ {c} /\ asked' = FALSE

WriteControlPoint == \E e \in {"reset", "invalid"} : Write(e) /\ UNCHANGED clients

\* The service has no case for a disconnection.
Disconnect(c) ==
  /\ c \in subscribed /\ subscribed' = subscribed \ {c}
  /\ UNCHANGED <<pc, word, converter, htim2, read_flag, MeasReq, timer, energy, events, asked>>

----------------------------------------------------------------------------
MainLoop == TestReadFlag \/ StopTimer \/ ClearReadFlag \/ StartTimer \/ SendFrame

\* The steps of the thread whose successor is given.
Thread ==
  MainLoop \/ ReadWord \/ Encode \/ UpdateDone \/ MeasurementReturns \/ ResetEnergy \/ WriteRefused

Next ==
  \/ Thread \/ ReadFails
  \/ Leave \/ RunMeasurement \/ HciAsynch
  \/ Overflow \/ TIM2_IRQHandler \/ HrMeas
  \/ \E c \in Client : Subscribe(c) \/ Unsubscribe(c) \/ Disconnect(c)
  \/ WriteControlPoint

\* The CPU executes, the second core answers, TIM2 runs, and the sequencer
\* executes every requested task (Sequencer!PendingTaskRuns).  The HRS timer
\* expires unless it is stopped, or started again before its delay is over.
Fairness ==
  /\ WF_vars(Thread)
  /\ SF_vars(Leave) /\ SF_vars(RunMeasurement) /\ SF_vars(HciAsynch)
  /\ WF_vars(Overflow) /\ WF_vars(TIM2_IRQHandler) /\ WF_vars(HrMeas \/ NotificationEnabled)

Spec == Init /\ [][Next]_vars
FairSpec == Spec /\ Fairness

----------------------------------------------------------------------------
TypeOK ==
  /\ pc \in {"run", "test", "stop", "clear", "read", "start", "send", "measure", "encode",
             "update", "notified", "refused", "accept", "refuse", "dead"}
  /\ word \in 0..7
  /\ allData \in [0..7 -> (Result \cup {NoResult}) \X {"msb", "lsb"}]
  /\ latch \in Result \cup {NoResult}
  /\ htim2 \in [State : {"READY", "BUSY"}, UIE : BOOLEAN, CEN : BOOLEAN, UIF : BOOLEAN]
  /\ read_flag \in BOOLEAN /\ MeasReq \in BOOLEAN /\ timer \in BOOLEAN
  /\ ResetEnergyExpended \in BOOLEAN /\ resetDue \in BOOLEAN
  /\ EnergyExpended \in 0..EnergyMod-1 /\ unheard \in 0..EnergyMod-1
  /\ events \in Seq(Event) /\ subscribed \subseteq Client /\ asked \in BOOLEAN

\* Two readers share allData and the converter goes on converting: a frame is
\* sent from, and a client decodes, whole conversions of the right channels.
\* (connect.py numbers them from the last channel to the first.)
OutputsAreMeasurements ==
  /\ pc = "send" => \A c \in Channel : Whole(c)
  /\ pc = "update" =>
       \A i \in 1..4 :
         notification_handler(Update_Char_Measurement(MeasurementValue, EnergyExpended))[i]
           \in Codes(4 - i)

\* At whatever point of the measurements a client's reset of the energy is
\* acknowledged, the values notified count from it: the one notified first is
\* 0, and 5 more for each update in between that the stack refused or nobody
\* was subscribed to.
ResetIsReported == pc = "update" /\ resetDue => EnergyExpended = unheard

\* Liveness: a subscriber is notified, in spite of other events, of the main
\* loop's measurements and of clients that disconnect, unless a read fails;
\* provided that from some time on the delay is not started again and the stack
\* refuses no update.
SubscriberIsServed ==
  <>[][~ NotificationEnabled]_vars /\ <>[](pc # "refused") =>
    \A c \in Client :
      c \in subscribed /\ asked ~>
        pc \in {"notified", "dead"} \/ ~ asked \/ c \notin subscribed

\* Liveness: if the sequencer is left again and again, frames are sent for
\* ever: no overflow of TIM2, wherever it falls, leaves the loop without a
\* read_flag to come.
FramesKeepComing ==
  []<>(pc = "test") => []<>(pc \in {"send", "dead"})

=============================================================================
