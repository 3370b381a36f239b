-------------------------- MODULE MeasurementProofs --------------------------
(***************************************************************************)
(* What is notified can be decoded, for every value; and the safety        *)
(* properties of Measurement, for any conversions and clients.             *)
(***************************************************************************)
EXTENDS Measurement, TLAPS

----------------------------------------------------------------------------
\* Two bytes make the value they were made from.
LEMMA TwoBytes ==
  ASSUME NEW n \in Uint16
  PROVE  Low(n) \in Byte /\ High(n) \in Byte /\ 256 * High(n) + Low(n) = n
  BY SMTT(30) DEF Uint16, Byte, Low, High

\* The bytes 5 to 12 of a characteristic, counted from its end.
LEMMA MiddleBytes ==
  ASSUME NEW v \in [1..4 -> Uint16], NEW e,
         NEW i \in 1..4
  PROVE  LET b == SubSeq(Reverse(Update_Char_Measurement(v, e)), 5, 12)
         IN  b[2 * i - 1] = High(v[5 - i]) /\ b[2 * i] = Low(v[5 - i])
<1> DEFINE d == Update_Char_Measurement(v, e)
<1>1. Len(d) = 13
  BY DEF Update_Char_Measurement
<1>2. /\ d[2] = Low(v[1]) /\ d[3] = High(v[1]) /\ d[4] = Low(v[2]) /\ d[5] = High(v[2])
      /\ d[6] = Low(v[3]) /\ d[7] = High(v[3]) /\ d[8] = Low(v[4]) /\ d[9] = High(v[4])
  BY DEF Update_Char_Measurement
<1>3. Reverse(d) = [k \in 1..13 |-> d[14 - k]]
  BY <1>1 DEF Reverse
<1>4. SubSeq(Reverse(d), 5, 12) = [k \in 1..8 |-> d[10 - k]]
  <2>1. SubSeq(Reverse(d), 5, 12) = [k \in 1..8 |-> Reverse(d)[5 + k - 1]]
    OBVIOUS
  <2>2. \A k \in 1..8 : Reverse(d)[5 + k - 1] = d[10 - k]
    BY <1>3
  <2> QED BY <2>1, <2>2
<1>5. CASE i = 1
  BY <1>2, <1>4, <1>5
<1>6. CASE i = 2
  BY <1>2, <1>4, <1>6
<1>7. CASE i = 3
  BY <1>2, <1>4, <1>7
<1>8. CASE i = 4
  BY <1>2, <1>4, <1>8
<1> QED BY <1>5, <1>6, <1>7, <1>8

\* Whatever four 16-bit values the service writes in the characteristic, and
\* whatever the energy, the host decodes them exactly, last channel first.
THEOREM NotificationDecodes ==
  ASSUME NEW v \in [1..4 -> Uint16], NEW e
  PROVE  notification_handler(Update_Char_Measurement(v, e)) = [i \in 1..4 |-> v[5 - i]]
<1> DEFINE b == SubSeq(Reverse(Update_Char_Measurement(v, e)), 5, 12)
<1>1. ASSUME NEW i \in 1..4 PROVE 256 * b[2 * i - 1] + b[2 * i] = v[5 - i]
  <2>1. b[2 * i - 1] = High(v[5 - i]) /\ b[2 * i] = Low(v[5 - i])
    BY MiddleBytes
  <2>2. 5 - i \in 1..4 /\ v[5 - i] \in Uint16
    OBVIOUS
  <2>3. 256 * High(v[5 - i]) + Low(v[5 - i]) = v[5 - i]
    BY <2>2, TwoBytes
  <2> QED BY <2>1, <2>3
<1> QED BY <1>1 DEF notification_handler

----------------------------------------------------------------------------
\* The words read so far are whole conversions; between the two words of a
\* channel the converter still has the conversion of the first.
DataInv ==
  /\ pc \in {"read", "measure"} =>
       /\ \A c \in Channel : 2 * c + 1 < word => Whole(c)
       /\ \A c \in Channel : 2 * c + 1 = word =>
            latch \in Results[c] /\ allData[2 * c] = <<latch, "msb">>
  /\ pc \in {"start", "send", "encode", "update"} => \A c \in Channel : Whole(c)
  /\ pc \notin {"read", "measure", "dead"} => word = 0

\* While a reset is due, the energy follows the updates nobody heard of: it is
\* theirs during an update; before one, the measurement to come adds 5, unless
\* the reset is still flagged.
EnergyInv ==
  resetDue =>
    IF pc = "update" THEN EnergyExpended = unheard /\ ~ ResetEnergyExpended
    ELSE IF ResetEnergyExpended THEN EnergyExpended = 0 /\ unheard = 0
    ELSE (EnergyExpended + 5) % EnergyMod = unheard

IInv == TypeOK /\ DataInv /\ EnergyInv

\* The timer of the HAL.
Timer == [State : {"READY", "BUSY"}, UIE : BOOLEAN, CEN : BOOLEAN, UIF : BOOLEAN]

LEMMA TimerType ==
  ASSUME NEW t \in Timer
  PROVE  HAL_TIM_Base_Start_IT(t) \in Timer /\ HAL_TIM_Base_Stop_IT(t) \in Timer
  BY DEF Timer, HAL_TIM_Base_Start_IT, HAL_TIM_Base_Stop_IT

LEMMA InitBooleans ==
  Init => /\ read_flag \in BOOLEAN /\ MeasReq \in BOOLEAN /\ timer \in BOOLEAN
          /\ ResetEnergyExpended \in BOOLEAN /\ resetDue \in BOOLEAN /\ asked \in BOOLEAN
<1>1. Init => read_flag \in BOOLEAN
  BY Zenon DEF Init
<1>2. /\ Init => MeasReq = FALSE
      /\ Init => timer = FALSE
      /\ Init => ResetEnergyExpended = FALSE
      /\ Init => resetDue = FALSE
      /\ Init => asked = FALSE
  BY Zenon DEF Init
<1>3. /\ MeasReq = FALSE => MeasReq \in BOOLEAN
      /\ timer = FALSE => timer \in BOOLEAN
      /\ ResetEnergyExpended = FALSE => ResetEnergyExpended \in BOOLEAN
      /\ resetDue = FALSE => resetDue \in BOOLEAN
      /\ asked = FALSE => asked \in BOOLEAN
  BY Zenon
<1> QED BY <1>1, <1>2, <1>3, Zenon

\* The initial state satisfies the invariant.
LEMMA InitInv == Init => IInv
<1> SUFFICES ASSUME Init PROVE IInv
  OBVIOUS
<1> USE MeasurementAssumption DEF MeasurementAssumption, Init
<1>1. <<>> \in Seq(Event)
  OBVIOUS
<1>2. htim2 \in Timer
  <2>1. Off \in Timer
    BY DEF Off, Timer
  <2>2. htim2 = HAL_TIM_Base_Start_IT(Off)
    OBVIOUS
  <2> QED BY <2>1, <2>2, TimerType
<1>3. \A k \in 0..7 : Register[k].half \in {"msb", "lsb"}
  BY DEF Register
<1>4. allData \in [0..7 -> (Result \cup {NoResult}) \X {"msb", "lsb"}]
  BY <1>3
<1>5. TypeOK
  <2>1. /\ latch \in Result \cup {NoResult} /\ word \in 0..7
        /\ EnergyExpended \in 0..EnergyMod-1 /\ unheard \in 0..EnergyMod-1
    OBVIOUS
  <2>2. events \in Seq(Event) /\ subscribed \subseteq Client
    BY <1>1
  <2>3. /\ read_flag \in BOOLEAN /\ MeasReq \in BOOLEAN /\ timer \in BOOLEAN
        /\ ResetEnergyExpended \in BOOLEAN /\ resetDue \in BOOLEAN /\ asked \in BOOLEAN
    BY InitBooleans
  <2>4. pc = "run"
    OBVIOUS
  <2> HIDE DEF Init
  <2> QED BY <1>2, <1>4, <2>1, <2>2, <2>3, <2>4 DEF TypeOK, Timer
<1>6. DataInv /\ EnergyInv
  BY DEF DataInv, EnergyInv
<1> QED BY <1>5, <1>6 DEF IInv

\* A word read is one of the register's channel, and the second word of a
\* channel one of the first's conversion.
LEMMA WordRead ==
  ASSUME IInv, ReadWord
  PROVE  TypeOK' /\ DataInv'
<1> USE DEF IInv
<1>1. word \in 0..7 /\ pc \in {"read", "measure"}
  BY DEF TypeOK, ReadWord
<1>2. PICK r \in From(Register[word]) :
        /\ allData' = [allData EXCEPT ![word] = <<r, Register[word].half>>]
        /\ latch' = IF Register[word].half = "msb" THEN r ELSE latch
  BY DEF ReadWord
<1>3. PICK ch \in Channel :
        /\ Register[word].ch = ch
        /\ Register[word].half = IF word % 2 = 0 THEN "msb" ELSE "lsb"
        /\ word = IF word % 2 = 0 THEN 2 * ch ELSE 2 * ch + 1
  <2>1. word \div 2 \in Channel
    BY <1>1 DEF Channel
  <2> QED BY <1>1, <2>1 DEF Register
<1>4. r \in Results[ch]
  BY <1>2, <1>3 DEF From
<1>5. r \in Result
  BY <1>3, <1>4 DEF Result
<1>6. TypeOK'
  <2>1. allData' \in [0..7 -> (Result \cup {NoResult}) \X {"msb", "lsb"}]
    BY <1>1, <1>2, <1>3, <1>5 DEF TypeOK
  <2>2. latch' \in Result \cup {NoResult}
    BY <1>2, <1>5 DEF TypeOK
  <2>3. /\ word' \in 0..7 /\ pc' \in {"read", "measure", "start", "encode"}
    BY <1>1 DEF ReadWord
  <2> QED BY <2>1, <2>2, <2>3 DEF TypeOK, ReadWord, energy, clients
<1>7. \A k \in 0..7 : k # word => allData'[k] = allData[k]
  BY <1>1, <1>2 DEF TypeOK
<1>8. allData'[word] = <<r, Register[word].half>>
  BY <1>1, <1>2 DEF TypeOK
\* What was whole stays whole.
<1>9. ASSUME NEW c \in Channel, 2 * c + 1 < word PROVE Whole(c)'
  <2>1. Whole(c)
    BY <1>1, <1>9 DEF DataInv
  <2>2. allData'[2 * c] = allData[2 * c] /\ allData'[2 * c + 1] = allData[2 * c + 1]
    BY <1>1, <1>7, <1>9 DEF Channel
  <2> QED BY <2>1, <2>2 DEF Whole
<1>10. CASE word % 2 = 0
  <2>1. latch' = r /\ allData'[2 * ch] = <<latch', "msb">>
    BY <1>2, <1>3, <1>8, <1>10
  <2>2. word = 2 * ch /\ word < 7 /\ word' = word + 1 /\ pc' = pc
    BY <1>1, <1>3, <1>10 DEF ReadWord
  <2>3. \A c \in Channel : 2 * c + 1 < word' => Whole(c)'
    BY <1>1, <1>3, <1>9, <2>2 DEF Channel
  <2>4. \A c \in Channel : 2 * c + 1 = word' => c = ch
    BY <1>3, <2>2 DEF Channel
  <2> QED BY <1>1, <1>4, <1>6, <2>1, <2>2, <2>3, <2>4 DEF DataInv
<1>11. CASE word % 2 # 0
  <2>1. word = 2 * ch + 1
    BY <1>3, <1>11
  <2>2. latch \in Results[ch] /\ allData[2 * ch] = <<latch, "msb">>
    BY <1>1, <1>3, <2>1 DEF DataInv
  <2>3. r = latch
    BY <1>2, <1>3, <1>11, <2>2 DEF From
  <2>4. allData'[2 * ch] = <<latch, "msb">> /\ allData'[2 * ch + 1] = <<latch, "lsb">>
    BY <1>1, <1>3, <1>7, <1>8, <1>11, <2>1, <2>2, <2>3 DEF Channel
  <2>5. Whole(ch)'
    BY <2>2, <2>4 DEF Whole
  <2>6. \A c \in Channel : 2 * c + 1 < word + 1 => Whole(c)'
    <3>1. SUFFICES ASSUME NEW c \in Channel, 2 * c + 1 < word + 1 PROVE Whole(c)'
      OBVIOUS
    <3>2. c = ch \/ 2 * c + 1 < word
      BY <1>1, <1>3, <2>1, <3>1 DEF Channel
    <3>3. CASE c = ch
      BY <2>5, <3>3 DEF Whole
    <3> QED BY <1>9, <3>1, <3>2, <3>3
  <2>7. CASE word < 7
    <3>1. word' = word + 1 /\ pc' = pc
      BY <2>7 DEF ReadWord
    <3>2. \A c \in Channel : 2 * c + 1 # word'
      BY <1>3, <2>1, <3>1 DEF Channel
    <3>3. \A c \in Channel : 2 * c + 1 < word' => Whole(c)'
      BY <2>6, <3>1
    <3>4. pc' \in {"read", "measure"}
      BY <1>1, <3>1
    <3> QED BY <1>6, <3>2, <3>3, <3>4 DEF DataInv
  <2>8. CASE word = 7
    <3>1. word' = 0 /\ pc' \in {"start", "encode"}
      BY <2>8 DEF ReadWord
    <3>2. \A c \in Channel : Whole(c)'
      <4>1. SUFFICES ASSUME NEW c \in Channel PROVE Whole(c)'
        OBVIOUS
      <4>2. 2 * c + 1 < word + 1
        BY <2>8, <4>1 DEF Channel
      <4> QED BY <2>6, <4>1, <4>2
    <3> QED BY <1>6, <3>1, <3>2 DEF DataInv
  <2> QED BY <1>1, <2>7, <2>8
<1> QED BY <1>6, <1>10, <1>11

\* A step that leaves the converter and allData alone only moves the thread:
\* to a reader from where word is 0, and to an output from the end of a read.
LEMMA DataKept ==
  ASSUME DataInv, UNCHANGED <<word, allData, latch>>,
         \/ pc' = pc \/ pc' = "dead"
         \/ /\ pc \notin {"read", "measure", "dead"}
            /\ pc' \notin {"start", "send", "encode", "update"}
         \/ pc = "start" /\ pc' = "send"
         \/ pc = "encode" /\ pc' = "update"
  PROVE  DataInv'
<1>1. ASSUME NEW c \in Channel, Whole(c) PROVE Whole(c)'
  BY <1>1 DEF Whole
<1>2. \A c \in Channel : 2 * c + 1 > 0
  BY DEF Channel
<1>3. CASE pc' = pc
  BY <1>1, <1>3 DEF DataInv
<1>4. CASE pc' = "dead"
  BY <1>4 DEF DataInv
<1>5. CASE /\ pc \notin {"read", "measure", "dead"}
           /\ pc' \notin {"start", "send", "encode", "update"}
  <2>1. word' = 0
    BY <1>5 DEF DataInv
  <2>2. \A c \in Channel : ~(2 * c + 1 < word') /\ 2 * c + 1 # word'
    BY <1>2, <2>1 DEF Channel
  <2> QED BY <1>5, <2>1, <2>2 DEF DataInv
<1>6. CASE (pc = "start" /\ pc' = "send") \/ (pc = "encode" /\ pc' = "update")
  BY <1>1, <1>6 DEF DataInv
<1> QED BY <1>3, <1>4, <1>5, <1>6

\* The Boolean variables.
BoolOK ==
  /\ read_flag \in BOOLEAN /\ MeasReq \in BOOLEAN /\ timer \in BOOLEAN
  /\ ResetEnergyExpended \in BOOLEAN /\ resetDue \in BOOLEAN /\ asked \in BOOLEAN

\* A step sets a flag, clears it, or leaves it.
LEMMA BoolStep ==
  ASSUME BoolOK, [Next]_vars
  PROVE  BoolOK'
<1> USE Zenon DEF BoolOK, energy, clients
<1>1. CASE Leave \/ TestReadFlag \/ StopTimer
  BY <1>1 DEF Leave, TestReadFlag, StopTimer
<1>2. CASE ClearReadFlag \/ StartTimer \/ SendFrame
  BY <1>2 DEF ClearReadFlag, StartTimer, SendFrame
<1>3. CASE ReadWord \/ ReadFails \/ RunMeasurement
  BY <1>3 DEF ReadWord, ReadFails, RunMeasurement
<1>4. CASE Encode \/ ResetEnergy \/ WriteRefused \/ MeasurementReturns
  BY <1>4 DEF Encode, ResetEnergy, WriteRefused, MeasurementReturns
<1>11. CASE UpdateDone
  BY <1>11 DEF UpdateDone
<1>5. CASE NotificationEnabled \/ NotificationDisabled
  BY <1>5 DEF NotificationEnabled, NotificationDisabled
<1>6. CASE WritePermit("reset", "accept") \/ WritePermit("invalid", "refuse")
  BY <1>6 DEF WritePermit
<1>7. CASE Overflow \/ TIM2_IRQHandler \/ HrMeas
  BY <1>7 DEF Overflow, TIM2_IRQHandler, HrMeas
<1>8. ASSUME NEW c \in Client, Subscribe(c) \/ Unsubscribe(c) \/ Disconnect(c) PROVE BoolOK'
  BY <1>8 DEF Subscribe, Unsubscribe, Disconnect, Write
<1>9. CASE WriteControlPoint
  BY <1>9 DEF WriteControlPoint, Write
<1>10. CASE UNCHANGED vars
  BY <1>10 DEF vars
<1> HIDE DEF BoolOK, energy, clients
<1> QED BY <1>1, <1>2, <1>3, <1>4, <1>5, <1>6, <1>7, <1>8, <1>9, <1>10, <1>11
        DEF Next, Thread, MainLoop, HciAsynch

\* An event that is queued, or taken, leaves a queue of events.
LEMMA EventQueued ==
  ASSUME events \in Seq(Event), NEW e \in Event
  PROVE  Append(events, e) \in Seq(Event)
  OBVIOUS

LEMMA EventTaken ==
  ASSUME events \in Seq(Event), events # <<>>
  PROVE  Tail(events) \in Seq(Event)
  OBVIOUS

\* The main loop and the timer TIM2.
LEMMA LoopStep ==
  ASSUME IInv, BoolOK',
         Leave \/ MainLoop \/ ReadFails \/ RunMeasurement \/ WriteRefused \/ MeasurementReturns
           \/ Overflow \/ TIM2_IRQHandler \/ HrMeas
  PROVE  IInv'
<1> USE DEF Leave, MainLoop, TestReadFlag, StopTimer, ClearReadFlag, StartTimer, SendFrame, ReadFails,
            RunMeasurement, WriteRefused, MeasurementReturns, Overflow, TIM2_IRQHandler, HrMeas
<1>1. UNCHANGED <<word, allData, latch, EnergyExpended, ResetEnergyExpended, resetDue, unheard,
                  subscribed, asked, events>>
  BY DEF converter, energy, clients
<1>2. DataInv'
  <2>1. \/ pc' = pc \/ pc' = "dead"
        \/ /\ pc \notin {"read", "measure", "dead"}
           /\ pc' \notin {"start", "send", "encode", "update"}
        \/ pc = "start" /\ pc' = "send"
    OBVIOUS
  <2> HIDE DEF Leave, MainLoop, TestReadFlag, StopTimer, ClearReadFlag, StartTimer, SendFrame, ReadFails,
            RunMeasurement, WriteRefused, MeasurementReturns, Overflow, TIM2_IRQHandler, HrMeas
  <2> QED BY <1>1, <2>1, DataKept DEF IInv
<1>3. EnergyInv'
  <2>1. pc = "update" \/ pc' = "update" => pc' = pc
    OBVIOUS
  <2> QED BY <1>1, <2>1 DEF IInv, EnergyInv
<1>4. htim2' \in Timer
  <2>1. htim2 \in Timer
    BY DEF IInv, TypeOK, Timer
  <2>2. \/ htim2' = htim2 \/ htim2' = HAL_TIM_Base_Start_IT(htim2)
        \/ htim2' = HAL_TIM_Base_Stop_IT(htim2)
        \/ \E b \in BOOLEAN : htim2' = [htim2 EXCEPT !.UIF = b]
    OBVIOUS
  <2>3. \A b \in BOOLEAN : [htim2 EXCEPT !.UIF = b] \in Timer
    BY <2>1 DEF Timer
  <2> QED BY <2>1, <2>2, <2>3, TimerType
<1>5. pc' \in {"run", "test", "stop", "clear", "read", "start", "send", "measure", "encode",
             "update", "notified", "refused", "accept", "refuse", "dead"}
  BY DEF IInv, TypeOK
<1> QED BY <1>1, <1>2, <1>3, <1>4, <1>5 DEF IInv, TypeOK, Timer, BoolOK

\* A reset is due after an update only if it was before, and nobody heard.
LEMMA UnheardUpdate ==
  ASSUME IInv, UpdateDone
  PROVE  EnergyInv'
<1> SUFFICES ASSUME resetDue' PROVE EnergyInv'
  BY DEF EnergyInv
<1>1. PICK status \in {"notified", "refused"} :
        IF status = "notified" /\ subscribed # {}
        THEN resetDue' = FALSE /\ unheard' = 0
        ELSE /\ UNCHANGED resetDue
             /\ unheard' = IF resetDue THEN (unheard + 5) % EnergyMod ELSE 0
  BY Zenon DEF UpdateDone
<1>2. CASE status = "notified" /\ subscribed # {}
  <2>1. resetDue' = FALSE
    BY <1>1, <1>2, Zenon
  <2> QED BY <2>1, Zenon
<1>3. CASE ~ (status = "notified" /\ subscribed # {})
  <2>1. resetDue' = resetDue
    BY <1>1, <1>3, Zenon
  <2>2. unheard' = IF resetDue THEN (unheard + 5) % EnergyMod ELSE 0
    BY <1>1, <1>3, Zenon
  <2>3. resetDue
    BY <2>1, Zenon
  <2>4. /\ UNCHANGED <<EnergyExpended, ResetEnergyExpended>>
        /\ pc = "update" /\ pc' \in {"notified", "refused"}
    BY DEF UpdateDone
  <2>5. ~ ResetEnergyExpended /\ EnergyExpended = unheard
    BY <2>3, <2>4 DEF IInv, EnergyInv
  <2> QED BY <2>2, <2>3, <2>4, <2>5 DEF EnergyInv
<1> QED BY <1>2, <1>3

\* The energy that grows stays below the modulus.
LEMMA GrowsInRange ==
  \A k \in 0..EnergyMod-1 : (k + 5) % EnergyMod \in 0..EnergyMod-1
  BY MeasurementAssumption, SMTT(30) DEF MeasurementAssumption

\* The measurement's end, and the answer to a reset.
LEMMA EnergyStep ==
  ASSUME IInv, BoolOK', Encode \/ UpdateDone \/ ResetEnergy
  PROVE  IInv'
<1> USE MeasurementAssumption DEF MeasurementAssumption, Encode, UpdateDone, ResetEnergy
<1>1. UNCHANGED <<word, allData, latch, htim2, read_flag, MeasReq, timer, events, subscribed, asked>>
  BY DEF converter, clients
<1>2. DataInv'
  <2>1. \/ /\ pc \notin {"read", "measure", "dead"}
           /\ pc' \notin {"start", "send", "encode", "update"}
        \/ pc = "encode" /\ pc' = "update"
    OBVIOUS
  <2> HIDE DEF Encode, UpdateDone, ResetEnergy, MeasurementAssumption
  <2> QED BY <1>1, <2>1, DataKept DEF IInv
<1>3. EnergyInv'
  <2> USE DEF IInv, EnergyInv, TypeOK
  <2>1. CASE Encode
    <3>1. UNCHANGED <<resetDue, unheard>> /\ pc' = "update" /\ pc = "encode" /\ ~ ResetEnergyExpended'
      BY <2>1
    <3>2. EnergyExpended' = IF ResetEnergyExpended THEN EnergyExpended
                            ELSE (EnergyExpended + 5) % EnergyMod
      BY <2>1
    <3> QED BY <3>1, <3>2
  <2>3. CASE ResetEnergy
    <3>1. EnergyExpended' = 0 /\ ResetEnergyExpended' /\ unheard' = 0 /\ pc' # "update"
      BY <2>3
    <3> QED BY <3>1
  <2> HIDE DEF Encode, UpdateDone, ResetEnergy
  <2>2. CASE UpdateDone
    BY <2>2, UnheardUpdate
  <2> QED BY <2>1, <2>2, <2>3
<1>4. EnergyExpended' \in 0..EnergyMod-1 /\ unheard' \in 0..EnergyMod-1
  <2>1. EnergyExpended \in 0..EnergyMod-1 /\ unheard \in 0..EnergyMod-1
    BY DEF IInv, TypeOK
  <2>2. /\ EnergyExpended' \in {EnergyExpended, (EnergyExpended + 5) % EnergyMod, 0}
        /\ unheard' \in {unheard, (unheard + 5) % EnergyMod, 0}
    OBVIOUS
  <2>3. \A k \in 0..EnergyMod-1 : (k + 5) % EnergyMod \in 0..EnergyMod-1
    BY GrowsInRange
  <2> HIDE DEF Encode, UpdateDone, ResetEnergy
  <2> QED BY <2>1, <2>2, <2>3
<1>5. pc' \in {"run", "update", "notified", "refused"}
  OBVIOUS
<1> HIDE DEF Encode, UpdateDone, ResetEnergy, MeasurementAssumption
<1> QED BY <1>1, <1>2, <1>3, <1>4, <1>5 DEF IInv, TypeOK, BoolOK

\* The service's events: handled, and written by the clients.
LEMMA EventStep ==
  ASSUME IInv, BoolOK',
         HciAsynch \/ (\E c \in Client : Subscribe(c) \/ Unsubscribe(c) \/ Disconnect(c))
           \/ WriteControlPoint
  PROVE  IInv'
<1>1. /\ UNCHANGED <<word, allData, latch, htim2, read_flag, MeasReq>>
      /\ UNCHANGED <<EnergyExpended, ResetEnergyExpended, resetDue, unheard>>
  BY DEF HciAsynch, NotificationEnabled, NotificationDisabled, WritePermit, Subscribe, Unsubscribe,
         Disconnect, WriteControlPoint, Write, converter, energy
<1>2. pc' = pc \/ (pc = "run" /\ pc' \in {"accept", "refuse"})
  BY DEF HciAsynch, NotificationEnabled, NotificationDisabled, WritePermit, Subscribe, Unsubscribe,
         Disconnect, WriteControlPoint, Write, Handle
<1>3. DataInv'
  BY <1>1, <1>2, DataKept DEF IInv
<1>4. EnergyInv'
  BY <1>1, <1>2 DEF IInv, EnergyInv
<1>5. events' \in Seq(Event)
  <2>1. \/ events' = events
        \/ events # <<>> /\ events' = Tail(events)
        \/ \E e \in Event : events' = Append(events, e)
    BY DEF HciAsynch, NotificationEnabled, NotificationDisabled, WritePermit, Subscribe, Unsubscribe,
           Disconnect, WriteControlPoint, Write, Handle, Event
  <2>2. events \in Seq(Event)
    BY DEF IInv, TypeOK
  <2> QED BY <2>1, <2>2, EventQueued, EventTaken
<1>6. subscribed' \subseteq Client
  BY DEF HciAsynch, NotificationEnabled, NotificationDisabled, WritePermit, Subscribe, Unsubscribe,
         Disconnect, WriteControlPoint, Write, clients, IInv, TypeOK
<1> QED BY <1>1, <1>2, <1>3, <1>4, <1>5, <1>6 DEF IInv, TypeOK, BoolOK

\* Every step preserves the invariant.
LEMMA NextInv == IInv /\ [Next]_vars => IInv'
<1> SUFFICES ASSUME IInv, [Next]_vars PROVE IInv'
  OBVIOUS
<1>1. BoolOK'
  <2>1. BoolOK
    BY DEF IInv, TypeOK, BoolOK
  <2> QED BY <2>1, BoolStep
<1>2. CASE ReadWord
  <2>1. TypeOK' /\ DataInv'
    BY <1>2, WordRead
  <2>2. UNCHANGED <<EnergyExpended, ResetEnergyExpended, resetDue, unheard>>
        /\ pc # "update" /\ pc' # "update"
    BY <1>2 DEF ReadWord, energy
  <2> QED BY <2>1, <2>2 DEF IInv, EnergyInv
<1>3. CASE Leave \/ MainLoop \/ ReadFails \/ RunMeasurement \/ WriteRefused \/ MeasurementReturns
           \/ Overflow \/ TIM2_IRQHandler \/ HrMeas
  BY <1>1, <1>3, LoopStep
<1>4. CASE Encode \/ UpdateDone \/ ResetEnergy
  BY <1>1, <1>4, EnergyStep
<1>5. CASE HciAsynch \/ (\E c \in Client : Subscribe(c) \/ Unsubscribe(c) \/ Disconnect(c))
           \/ WriteControlPoint
  BY <1>1, <1>5, EventStep
<1>6. CASE UNCHANGED vars
  <2>1. UNCHANGED <<word, allData, latch, htim2, EnergyExpended, ResetEnergyExpended, resetDue,
                    unheard, pc, subscribed, asked, events>>
    BY <1>6 DEF vars, converter, energy, clients
  <2>2. DataInv'
    BY <2>1, DataKept DEF IInv
  <2> QED BY <1>1, <2>1, <2>2 DEF IInv, TypeOK, EnergyInv, BoolOK
<1> QED BY <1>2, <1>3, <1>4, <1>5, <1>6 DEF Next, Thread

\* The values an output is made of are the codes of whole conversions, which
\* NotificationDecodes then hands to the client.
LEMMA WholeOutputs == IInv => OutputsAreMeasurements
<1> SUFFICES ASSUME IInv, pc = "update" PROVE
      \A i \in 1..4 :
        notification_handler(Update_Char_Measurement(MeasurementValue, EnergyExpended))[i]
          \in Codes(4 - i)
  BY DEF IInv, DataInv, OutputsAreMeasurements
<1>1. ASSUME NEW i \in 1..4 PROVE MeasurementValue[i] \in Codes(i - 1) /\ MeasurementValue[i] \in Uint16
  <2>1. i - 1 \in Channel /\ Whole(i - 1)
    BY DEF IInv, DataInv, Channel
  <2>2. PICK r \in Results[i - 1] : allData[2 * (i - 1)] = <<r, "msb">>
    BY <2>1 DEF Whole
  <2>3. MeasurementValue[i] = Encoded[r]
    BY <2>1, <2>2 DEF MeasurementValue
  <2>4. r \in Result /\ Encoded[r] \in Uint16
    BY <2>1, <2>2, MeasurementAssumption DEF MeasurementAssumption, Result
  <2> QED BY <2>2, <2>3, <2>4 DEF Codes
<1>2. MeasurementValue \in [1..4 -> Uint16]
  BY <1>1 DEF MeasurementValue
<1>3. TAKE i \in 1..4
<1>4. notification_handler(Update_Char_Measurement(MeasurementValue, EnergyExpended))[i]
        = MeasurementValue[5 - i]
  BY <1>2, NotificationDecodes
<1>5. 5 - i \in 1..4 /\ (5 - i) - 1 = 4 - i
  OBVIOUS
<1> QED BY <1>1, <1>4, <1>5

----------------------------------------------------------------------------
\* The invariant holds in every behaviour.
THEOREM Invariance == Spec => []IInv
  BY InitInv, NextInv, PTL DEF Spec

\* The variables have their types, whatever converter, clients and queue.
THEOREM TypeCorrect == Spec => []TypeOK
<1>1. IInv => TypeOK
  BY DEF IInv
<1> QED BY <1>1, Invariance, PTL

\* Although the loop and the task read into the same allData while the
\* converter goes on converting, what is sent and what a client decodes are
\* whole conversions of the right channels: a reader is never interrupted by
\* the other, and the LSB it reads is the latched one.
THEOREM OutputsCorrect == Spec => []OutputsAreMeasurements
  BY WholeOutputs, Invariance, PTL

\* The values notified after an acknowledged reset count from it, whatever
\* updates the stack refuses and nobody hears: the flag that the reset sets is
\* consumed by the measurement that begins next, and by no other; each one after
\* it adds 5.
THEOREM ResetCorrect == Spec => []ResetIsReported
<1>1. IInv => ResetIsReported
  BY DEF IInv, EnergyInv, ResetIsReported
<1> QED BY <1>1, Invariance, PTL

===============================================================================
