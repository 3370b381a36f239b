------------------------ MODULE SerialRecorderProofs ------------------------
(***************************************************************************)
(* The safety properties of SerialRecorder, for any size of the queue and  *)
(* any number of samples.                                                  *)
(***************************************************************************)
EXTENDS SerialRecorder, TLAPS

NumbersOK ==
  /\ data_queue \in 0..MaxSize
  /\ sample \in 0..MaxLines /\ lines \in 0..MaxLines
  /\ handled \subseteq 1..MaxLines

ThreadsOK ==
  /\ reader \in {"line", "put", "test", "lock", "dead"}
  /\ plot \in {"idle", "test", "get", "closed"}
  /\ keyboard \in {"idle", "clear", "begin", "stop", "save", "dead"}
  /\ lock \in {"free", "keyboard"}

ListsOK == data_records \in Seq(0..MaxLines) /\ file \in Seq(0..MaxLines)

\* The plot has seen a value that nobody else removes.
PlotInv == plot = "get" => data_queue > 0

\* The samples recorded are those read so far; the one in the reader's hands
\* comes after them, unless it is older than the session, and then only older
\* ones have been recorded, if it is to be recorded itself.
OrderInv ==
  /\ InOrder(data_records)
  /\ \A i \in 1..Len(data_records) : data_records[i] <= lines
  /\ reader \in {"put", "test", "lock"} /\ sample # Old =>
       /\ sample = lines
       /\ \A i \in 1..Len(data_records) : data_records[i] < sample
  /\ reader \in {"put", "test", "lock"} /\ sample = Old /\ (recording \/ reader = "lock") =>
       \A i \in 1..Len(data_records) : data_records[i] = Old

\* What was handled is in the list; who saves has the lock, so that the list
\* stays what is written.
SaveInv ==
  /\ handled \subseteq Range(data_records)
  /\ keyboard = "save" <=> lock = "keyboard"
  /\ keyboard = "save" => data_records = file

IInv == NumbersOK /\ ThreadsOK /\ ListsOK /\ PlotInv /\ OrderInv /\ SaveInv

----------------------------------------------------------------------------
\* Appending to a sequence adds one element, behind the others.
LEMMA AppendFacts ==
  ASSUME NEW S, NEW s \in Seq(S), NEW x \in S
  PROVE  /\ Append(s, x) \in Seq(S)
         /\ Len(Append(s, x)) = Len(s) + 1
         /\ \A i \in 1..Len(s) : Append(s, x)[i] = s[i]
         /\ Append(s, x)[Len(s) + 1] = x
         /\ Range(Append(s, x)) = Range(s) \cup {x}
<1>1. /\ Append(s, x) \in Seq(S) /\ Len(Append(s, x)) = Len(s) + 1
      /\ \A i \in 1..Len(s) : Append(s, x)[i] = s[i]
      /\ Append(s, x)[Len(s) + 1] = x
  OBVIOUS
<1>2. Len(s) \in Nat /\ DOMAIN s = 1..Len(s) /\ DOMAIN Append(s, x) = 1..Len(s) + 1
  OBVIOUS
<1>3. Range(Append(s, x)) = Range(s) \cup {x}
  BY <1>1, <1>2 DEF Range
<1> QED BY <1>1, <1>3

LEMMA InitInv == Init => IInv
<1> SUFFICES ASSUME Init PROVE IInv
  OBVIOUS
<1> USE SerialRecorderAssumption DEF SerialRecorderAssumption, Init, Old
<1>1. NumbersOK /\ PlotInv
  BY DEF NumbersOK, PlotInv
<1>2. ThreadsOK /\ ListsOK
  BY DEF ThreadsOK, ListsOK
<1>3. OrderInv
  BY DEF OrderInv, InOrder
<1>4. SaveInv
  BY DEF SaveInv
<1> QED BY <1>1, <1>2, <1>3, <1>4 DEF IInv

\* The reader takes a sample that comes after those recorded.
LEMMA ReadLineInv ==
  ASSUME IInv, ReadLine
  PROVE  IInv'
<1> USE SerialRecorderAssumption DEF SerialRecorderAssumption, IInv, ReadLine, Old
<1>1. NumbersOK' /\ PlotInv'
  BY DEF NumbersOK, PlotInv
<1>2. ThreadsOK' /\ ListsOK' /\ SaveInv'
  BY DEF ThreadsOK, ListsOK, SaveInv
<1>3. OrderInv'
  <2>1. lines \in Nat /\ \A i \in 1..Len(data_records) : data_records[i] \in Nat
    BY DEF NumbersOK, ListsOK
  <2>2. UNCHANGED <<data_records, recording>> /\ reader' = "put"
    OBVIOUS
  <2>3. CASE recording
    <3>1. lines' = lines + 1 /\ sample' = lines + 1
      BY <2>3
    <3> QED BY <2>1, <2>2, <3>1 DEF OrderInv, InOrder
  <2>4. CASE ~recording
    <3>1. lines' = lines /\ sample' = 0
      BY <2>4
    <3> QED BY <2>1, <2>2, <2>4, <3>1 DEF OrderInv, InOrder
  <2> QED BY <2>3, <2>4
<1> QED BY <1>1, <1>2, <1>3

\* The reader queues the value, and goes on, or dies of it.
LEMMA ReaderInv ==
  ASSUME IInv, Put \/ Malformed \/ TestRecording
  PROVE  IInv'
<1> USE SerialRecorderAssumption DEF SerialRecorderAssumption, IInv, Put, Malformed, TestRecording, Done, Old
<1>3. UNCHANGED handled
  OBVIOUS
<1>1. NumbersOK' /\ PlotInv'
  <2>1. \/ UNCHANGED data_queue
        \/ data_queue < MaxSize /\ data_queue' = data_queue + 1
    OBVIOUS
  <2>2. UNCHANGED <<sample, lines, plot>>
    OBVIOUS
  <2> HIDE DEF Put, Malformed, TestRecording
  <2> QED BY <1>3, <2>1, <2>2 DEF NumbersOK, PlotInv
<1>2. ThreadsOK' /\ ListsOK'
  BY DEF ThreadsOK, ListsOK
<1>4. SaveInv'
  BY <1>3 DEF SaveInv
<1>5. OrderInv'
  BY DEF OrderInv, InOrder
<1> QED BY <1>1, <1>2, <1>4, <1>5

\* The sample is appended behind earlier ones, while nobody saves.
LEMMA AppendInv ==
  ASSUME IInv, AppendRecord
  PROVE  IInv'
<1> USE SerialRecorderAssumption DEF SerialRecorderAssumption, IInv
<1>1. data_records \in Seq(0..MaxLines) /\ sample \in 0..MaxLines /\ lines \in 0..MaxLines
  BY DEF ListsOK, NumbersOK
<1> DEFINE n == Len(data_records)
<1>2. /\ data_records' = Append(data_records, sample)
      /\ reader = "lock" /\ reader' = "line" /\ lock = "free"
      /\ UNCHANGED <<data_queue, sample, plot, keyboard, recording, lock, lines, file>>
  BY DEF AppendRecord
<1>3. /\ data_records' \in Seq(0..MaxLines) /\ Len(data_records') = n + 1
      /\ \A i \in 1..n : data_records'[i] = data_records[i]
      /\ data_records'[n + 1] = sample
      /\ Range(data_records') = Range(data_records) \cup {sample}
  <2> HIDE DEF IInv
  <2>1. /\ Append(data_records, sample) \in Seq(0..MaxLines)
        /\ Len(Append(data_records, sample)) = Len(data_records) + 1
        /\ \A i \in 1..Len(data_records) : Append(data_records, sample)[i] = data_records[i]
        /\ Append(data_records, sample)[Len(data_records) + 1] = sample
        /\ Range(Append(data_records, sample)) = Range(data_records) \cup {sample}
    BY <1>1, AppendFacts
  <2> QED BY <1>2, <2>1
<1>4. handled' = handled \/ (handled' = handled \cup {sample} /\ sample # Old)
  BY DEF AppendRecord, Done
<1>5. NumbersOK' /\ ThreadsOK' /\ ListsOK' /\ PlotInv'
  <2>1. handled' \subseteq 1..MaxLines
    <3>1. handled \subseteq 1..MaxLines
      BY DEF NumbersOK
    <3>2. sample # Old => sample \in 1..MaxLines
      BY <1>1 DEF Old
    <3> QED BY <1>4, <3>1, <3>2
  <2> QED BY <1>2, <1>3, <2>1 DEF NumbersOK, ThreadsOK, ListsOK, PlotInv
<1>6. SaveInv'
  BY <1>2, <1>3, <1>4 DEF SaveInv
<1>7. OrderInv'
  <2>1. n \in Nat /\ \A i \in 1..n : data_records[i] \in Nat
    BY <1>1
  <2>2. \A i \in 1..n : data_records[i] < sample \/ data_records[i] = Old
    BY <1>2 DEF OrderInv
  <2>3. sample <= lines
    BY <1>1, <1>2 DEF OrderInv, Old
  <2>4. \A i \in 1..n + 1 : data_records'[i] <= lines
    BY <1>3, <2>1, <2>3 DEF OrderInv
  <2>5. InOrder(data_records')
    <3>1. SUFFICES ASSUME NEW i \in 1..n + 1, NEW j \in 1..n + 1, i < j
                   PROVE  data_records'[i] < data_records'[j] \/ data_records'[i] = Old
      BY <1>3 DEF InOrder
    <3>2. i \in 1..n /\ data_records'[i] = data_records[i]
      BY <1>3, <2>1, <3>1
    <3>3. CASE j = n + 1
      BY <1>3, <2>2, <3>2, <3>3
    <3>4. CASE j # n + 1
      <4>1. j \in 1..n /\ data_records'[j] = data_records[j]
        <5>1. j \in 1..n
          BY <2>1, <3>4
        <5> QED BY <1>3, <5>1
      <4> QED BY <3>1, <3>2, <4>1 DEF OrderInv, InOrder
    <3> QED BY <3>3, <3>4
  <2> QED BY <1>2, <1>3, <2>4, <2>5 DEF OrderInv
<1> QED BY <1>5, <1>6, <1>7

\* The keys.
LEMMA KeyInv ==
  ASSUME IInv, PressR \/ PressS \/ OnPress
  PROVE  IInv'
<1> USE SerialRecorderAssumption DEF SerialRecorderAssumption, IInv, Old
<1>1. CASE BeginRecording
  <2>1. UNCHANGED <<data_queue, reader, plot, lock, file>> /\ keyboard = "begin" /\ keyboard' = "idle"
        /\ sample' = 0 /\ lines' = 0 /\ handled' = {}
    BY <1>1 DEF BeginRecording
  <2>2. data_records' = <<>> \/ data_records' = <<0>>
    BY <1>1 DEF BeginRecording
  <2>3. data_records' \in Seq(0..MaxLines)
    <3>1. 0 \in 0..MaxLines
      OBVIOUS
    <3>2. <<>> \in Seq(0..MaxLines) /\ <<0>> \in Seq(0..MaxLines)
      BY <3>1
    <3> QED BY <2>2, <3>2
  <2>4. \A i \in 1..Len(data_records') : data_records'[i] = 0
    BY <2>2
  <2>5. NumbersOK' /\ ThreadsOK' /\ ListsOK' /\ PlotInv'
    BY <2>1, <2>3 DEF NumbersOK, ThreadsOK, ListsOK, PlotInv
  <2>6. OrderInv'
    BY <2>1, <2>4 DEF OrderInv, InOrder
  <2>7. SaveInv'
    BY <2>1 DEF SaveInv, ThreadsOK
  <2> QED BY <2>5, <2>6, <2>7
<1>2. CASE PressR \/ PressS \/ ClearRecords
  <2> USE <1>2 DEF PressR, PressS, ClearRecords
  <2>1. NumbersOK' /\ ThreadsOK' /\ ListsOK' /\ PlotInv'
    BY DEF NumbersOK, ThreadsOK, ListsOK, PlotInv
  <2>2. SaveInv'
    BY DEF SaveInv
  <2>3. UNCHANGED <<reader, sample, lines, data_records>> /\ (recording' => recording)
    OBVIOUS
  <2>4. OrderInv'
    BY <2>3 DEF OrderInv, InOrder
  <2> QED BY <2>1, <2>2, <2>4
<1>3. CASE Save \/ Saved \/ SaveFails
  <2> USE <1>3 DEF Save, Saved, SaveFails
  <2>1. NumbersOK' /\ ThreadsOK' /\ PlotInv'
    BY DEF NumbersOK, ThreadsOK, PlotInv
  <2>2. ListsOK'
    <3>1. <<>> \in Seq(0..MaxLines)
      OBVIOUS
    <3>2. UNCHANGED data_records /\ file' \in {data_records, <<>>}
      OBVIOUS
    <3> QED BY <3>1, <3>2 DEF ListsOK
  <2>3. SaveInv'
    BY DEF SaveInv
  <2>4. UNCHANGED <<reader, sample, lines, data_records, recording>>
    OBVIOUS
  <2>5. OrderInv'
    BY <2>4 DEF OrderInv, InOrder
  <2> QED BY <2>1, <2>2, <2>3, <2>5
<1> QED BY <1>1, <1>2, <1>3 DEF OnPress

\* The plot is the only one to take values from the queue.
LEMMA PlotStep ==
  ASSUME IInv, Plot \/ CloseWindow
  PROVE  IInv'
<1> USE DEF IInv, Plot, CloseWindow, Update
<1>1. NumbersOK' /\ ThreadsOK' /\ PlotInv'
  <2>1. data_queue \in 0..MaxSize
    BY DEF NumbersOK
  <2>2. data_queue' = data_queue \/ (data_queue > 0 /\ data_queue' = data_queue - 1)
    OBVIOUS
  <2>3. data_queue' \in 0..MaxSize
    BY <2>1, <2>2, SerialRecorderAssumption DEF SerialRecorderAssumption
  <2>4. UNCHANGED <<sample, lines, handled, reader, keyboard, lock>>
        /\ plot' \in {"idle", "test", "get", "closed"}
    OBVIOUS
  <2>5. PlotInv'
    BY <2>1 DEF PlotInv
  <2> QED BY <2>3, <2>4, <2>5 DEF NumbersOK, ThreadsOK
<1>2. UNCHANGED <<reader, sample, keyboard, recording, data_records, lock, lines, file, handled>>
  OBVIOUS
<1>3. ListsOK' /\ OrderInv' /\ SaveInv'
  BY <1>2 DEF ListsOK, OrderInv, InOrder, SaveInv
<1> QED BY <1>1, <1>3

LEMMA NextInv == IInv /\ [Next]_vars => IInv'
<1> SUFFICES ASSUME IInv, [Next]_vars PROVE IInv'
  OBVIOUS
<1>1. CASE ReadLine \/ AppendRecord
  BY <1>1, ReadLineInv, AppendInv
<1>2. CASE Put \/ Malformed \/ TestRecording
  BY <1>2, ReaderInv
<1>3. CASE PressR \/ PressS \/ OnPress
  BY <1>3, KeyInv
<1>4. CASE Plot \/ CloseWindow
  BY <1>4, PlotStep
<1>5. CASE UNCHANGED vars
  BY <1>5 DEF vars, IInv, NumbersOK, ThreadsOK, ListsOK, PlotInv, OrderInv, InOrder, SaveInv
<1> QED BY <1>1, <1>2, <1>3, <1>4, <1>5 DEF Next

----------------------------------------------------------------------------
\* The invariant holds in every behaviour.
THEOREM Invariance == Spec => []IInv
  BY InitInv, NextInv, PTL DEF Spec

\* The flag recording is set and cleared.
RecordingOK == recording \in BOOLEAN

LEMMA RecordingType == Spec => []RecordingOK
<1>1. Init => RecordingOK
  <2>1. Init => recording = FALSE
    BY Zenon DEF Init
  <2> QED BY <2>1, Zenon DEF RecordingOK
<1>2. RecordingOK /\ [Next]_vars => RecordingOK'
  <2>1. SUFFICES ASSUME RecordingOK, [Next]_vars PROVE RecordingOK'
    OBVIOUS
  <2>2. recording' = recording \/ recording' = TRUE \/ recording' = FALSE
    <3> USE Zenon DEF Update
    <3>1. CASE ReadLine \/ Put \/ Malformed \/ TestRecording \/ AppendRecord
      BY <3>1 DEF ReadLine, Put, Malformed, TestRecording, AppendRecord
    <3>2. CASE PressR \/ PressS \/ ClearRecords \/ BeginRecording
      BY <3>2 DEF PressR, PressS, ClearRecords, BeginRecording
    <3>3. CASE Save \/ Saved \/ SaveFails
      BY <3>3 DEF Save, Saved, SaveFails
    <3>4. CASE Plot \/ CloseWindow
      BY <3>4 DEF Plot, CloseWindow
    <3>5. CASE UNCHANGED vars
      BY <3>5 DEF vars
    <3> QED BY <2>1, <3>1, <3>2, <3>3, <3>4, <3>5 DEF Next, OnPress
  <2> QED BY <2>1, <2>2, Zenon DEF RecordingOK
<1> QED BY <1>1, <1>2, PTL DEF Spec

\* The variables have their types, for any size of the queue.
THEOREM TypeCorrect == Spec => []TypeOK
<1>1. IInv /\ RecordingOK => TypeOK
  BY DEF IInv, NumbersOK, ThreadsOK, ListsOK, RecordingOK, TypeOK
<1> QED BY <1>1, Invariance, RecordingType, PTL

\* The file saved has every sample handled since 'r', once and in order, and
\* the list does not change while it is written, however keys, lines and
\* exceptions fall: the lock is held for the append and for the whole save.
THEOREM SavedCorrect == Spec => []SavedIsComplete
<1>1. IInv => SavedIsComplete
  BY DEF IInv, OrderInv, SaveInv, SavedIsComplete
<1> QED BY <1>1, Invariance, PTL

\* The plot's get never waits: only the plot takes values from the queue.
THEOREM PlotCorrect == Spec => []PlotNeverBlocks
<1>1. IInv => PlotNeverBlocks
  BY DEF IInv, PlotInv, PlotNeverBlocks
<1> QED BY <1>1, Invariance, PTL

=============================================================================
