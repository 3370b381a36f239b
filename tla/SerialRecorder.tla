--------------------------- MODULE SerialRecorder ---------------------------
(***************************************************************************)
(* The host script that plots and records the frames of the serial port    *)
(* (scripts/wire_connect.py).  Three threads: read_serial_data takes lines *)
(* from the port, queues the values for the plot and appends them to       *)
(* data_records while recording; on_press, of the keyboard listener, starts*)
(* a recording with 'r', stops and saves it with 's'; update, of the plot, *)
(* empties the queue every 50 ms while the window is open.                 *)
(*                                                                         *)
(* A sample is the number of its line in the present session; a session    *)
(* begins when 'r' is accepted.  on_press assigns data_records = [] to a   *)
(* local variable (line 157 declares only recording global), so that the   *)
(* list keeps the samples of earlier sessions: they are the sample 0.      *)
(***************************************************************************)
EXTENDS Naturals, Sequences, SequencesExt

CONSTANTS
  MaxSize,    (* of data_queue: 100                                        *)
  MaxLines    (* bound: samples read in a session                          *)

ASSUME SerialRecorderAssumption == MaxSize \in Nat \ {0} /\ MaxLines \in Nat

VARIABLES
  data_queue,     (* how many values are queued for the plot               *)
  reader, sample, (* read_serial_data, and the sample it handles           *)
  plot,           (* update: between two calls, about to test, to get; or  *)
                  (* the window is closed                                  *)
  keyboard,       (* on_press                                              *)
  recording, data_records,
  lock,           (* who holds it                                          *)
  lines,          (* samples read in this session                          *)
  file,           (* the list save_data_to_excel writes                    *)
  handled         (* ghost: the samples read and handled while recording   *)

vars == <<data_queue, reader, sample, plot, keyboard, recording, data_records, lock, lines, file,
          handled>>

Old == 0

Init ==
  /\ data_queue = 0 /\ reader = "line" /\ sample = Old /\ plot = "idle" /\ keyboard = "idle"
  /\ recording = FALSE /\ data_records = <<>> /\ lock = "free"
  /\ lines = 0 /\ file = <<>> /\ handled = {}

----------------------------------------------------------------------------
(* read_serial_data                                                        *)

\* A line with values; any other is skipped.  Outside a session a sample
\* belongs to none.
ReadLine ==
  /\ reader = "line" /\ (recording => lines < MaxLines)
  /\ IF recording THEN lines' = lines + 1 /\ sample' = lines + 1
     ELSE sample' = Old /\ UNCHANGED lines
  /\ reader' = "put"
  /\ UNCHANGED <<data_queue, plot, keyboard, recording, data_records, lock, file, handled>>

\* Mutant: values not plotted yet are removed first, to plot the latest only.
PutLatest ==
  /\ reader = "put"
  /\ IF data_queue > 0
     THEN data_queue' = data_queue - 1 /\ UNCHANGED reader
     ELSE data_queue' = data_queue + 1 /\ reader' = "test"
  /\ UNCHANGED <<sample, plot, keyboard, recording, data_records, lock, lines, file, handled>>

\* data_queue.put waits while the queue is full.
Put ==
  /\ reader = "put" /\ data_queue < MaxSize
  /\ data_queue' = data_queue + 1 /\ reader' = "test"
  /\ UNCHANGED <<sample, plot, keyboard, recording, data_records, lock, lines, file, handled>>

\* A line that is no list of numbers raises ValueError before it is queued, an
\* infinite value OverflowError after: nobody catches either.
Malformed ==
  /\ reader \in {"put", "test"} /\ reader' = "dead"
  /\ UNCHANGED <<data_queue, sample, plot, keyboard, recording, data_records, lock, lines, file,
                 handled>>

\* What is handled from the first to the last step in one recording.
Done == handled' = IF recording /\ sample # Old THEN handled \cup {sample} ELSE handled

TestRecording ==
  /\ reader = "test"
  /\ IF recording THEN reader' = "lock" /\ UNCHANGED handled ELSE reader' = "line" /\ Done
  /\ UNCHANGED <<data_queue, sample, plot, keyboard, recording, data_records, lock, lines, file>>

\* Mutant: the list is changed without the lock.
AppendUnlocked ==
  /\ reader = "lock"
  /\ data_records' = Append(data_records, sample) /\ reader' = "line" /\ Done
  /\ UNCHANGED <<data_queue, sample, plot, keyboard, recording, lock, lines, file>>

\* The lock is held for the append only.
AppendRecord ==
  /\ reader = "lock" /\ lock = "free"
  /\ data_records' = Append(data_records, sample) /\ reader' = "line" /\ Done
  /\ UNCHANGED <<data_queue, sample, plot, keyboard, recording, lock, lines, file>>

----------------------------------------------------------------------------
(* on_press                                                                *)

\* 'r': a recording is to start.
PressR ==
  /\ keyboard = "idle" /\ ~recording
  /\ keyboard' = "clear"
  /\ UNCHANGED <<data_queue, reader, sample, plot, recording, data_records, lock, lines, file,
                 handled>>

\* "with lock: data_records = []" changes nothing but a local variable.
ClearRecords ==
  /\ keyboard = "clear" /\ lock = "free"
  /\ keyboard' = "begin"
  /\ UNCHANGED <<data_queue, reader, sample, plot, recording, data_records, lock, lines, file,
                 handled>>

\* The session begins: what there is belongs to earlier ones (of whose records
\* the model keeps one).
BeginRecording ==
  /\ keyboard = "begin"
  /\ recording' = TRUE /\ keyboard' = "idle"
  /\ sample' = Old /\ lines' = 0 /\ handled' = {}
  /\ data_records' = IF data_records = <<>> THEN <<>> ELSE <<Old>>
  /\ UNCHANGED <<data_queue, reader, plot, lock, file>>

\* 's': the recording ends before the lock is taken.
PressS ==
  /\ keyboard = "idle" /\ recording
  /\ recording' = FALSE /\ keyboard' = "stop"
  /\ UNCHANGED <<data_queue, reader, sample, plot, data_records, lock, lines, file, handled>>

Save ==
  /\ keyboard = "stop" /\ lock = "free"
  /\ lock' = "keyboard" /\ keyboard' = "save" /\ file' = data_records
  /\ UNCHANGED <<data_queue, reader, sample, plot, recording, data_records, lines, handled>>

Saved ==
  /\ keyboard = "save"
  /\ lock' = "free" /\ keyboard' = "idle" /\ file' = <<>>
  /\ UNCHANGED <<data_queue, reader, sample, plot, recording, data_records, lines, handled>>

\* Mutant: acquire and release instead of "with".
SaveFailsLocked ==
  /\ keyboard = "save"
  /\ keyboard' = "dead" /\ file' = <<>>
  /\ UNCHANGED <<data_queue, reader, sample, plot, recording, data_records, lock, lines, handled>>

\* The file cannot be written: the exception ends the listener, and "with"
\* releases the lock.
SaveFails ==
  /\ keyboard = "save"
  /\ lock' = "free" /\ keyboard' = "dead" /\ file' = <<>>
  /\ UNCHANGED <<data_queue, reader, sample, plot, recording, data_records, lines, handled>>

----------------------------------------------------------------------------
(* update                                                                  *)

Update(from, to, n) ==
  /\ plot = from /\ plot' = to /\ data_queue' = n
  /\ UNCHANGED <<reader, sample, keyboard, recording, data_records, lock, lines, file, handled>>

Plot ==
  \/ Update("idle", "test", data_queue)
  \/ Update("test", IF data_queue = 0 THEN "idle" ELSE "get", data_queue)
  \/ data_queue > 0 /\ Update("get", "test", data_queue - 1)

\* plt.show returns; the other threads go on.
CloseWindow == Update("idle", "closed", data_queue)

----------------------------------------------------------------------------
OnPress == ClearRecords \/ BeginRecording \/ Save \/ Saved \/ SaveFails

Next ==
  \/ ReadLine \/ Put \/ Malformed \/ TestRecording \/ AppendRecord
  \/ PressR \/ PressS \/ OnPress
  \/ Plot \/ CloseWindow

\* The threads run; the plot calls update until its window is closed; one who
\* waits for the lock gets it, for it is held at the pace of the keys.
Fairness ==
  /\ WF_vars(Put) /\ WF_vars(TestRecording) /\ SF_vars(AppendRecord)
  /\ WF_vars(OnPress) /\ WF_vars(Plot)

Spec == Init /\ [][Next]_vars
FairSpec == Spec /\ Fairness

----------------------------------------------------------------------------
TypeOK ==
  /\ data_queue \in 0..MaxSize
  /\ reader \in {"line", "put", "test", "lock", "dead"} /\ sample \in 0..MaxLines
  /\ plot \in {"idle", "test", "get", "closed"}
  /\ keyboard \in {"idle", "clear", "begin", "stop", "save", "dead"}
  /\ recording \in BOOLEAN /\ lock \in {"free", "keyboard"} /\ lines \in 0..MaxLines
  /\ data_records \in Seq(0..MaxLines) /\ file \in Seq(0..MaxLines)
  /\ handled \subseteq 1..MaxLines

InOrder(s) == \A i, j \in 1..Len(s) : i < j => s[i] < s[j] \/ s[i] = Old

\* The file written after 's' has every sample that was read and handled since
\* 'r', once, in order, and the list does not change while it is written.
SavedIsComplete ==
  keyboard = "save" =>
    /\ handled \subseteq Range(file) /\ InOrder(file)
    /\ data_records = file

\* update tests the queue and then gets from it without a timeout: it never
\* finds it empty, which would freeze the window until the next line.
PlotNeverBlocks == plot = "get" => data_queue > 0

\* Liveness: the reader comes back to the port from a full queue and from the
\* lock, also when the plot is slow or saving fails, until the window is closed.
ReaderGoesOn == reader = "put" ~> reader \in {"line", "dead"} \/ plot = "closed"

=============================================================================
