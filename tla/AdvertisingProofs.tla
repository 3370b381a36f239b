-------------------------- MODULE AdvertisingProofs --------------------------
(***************************************************************************)
(* The safety properties of Advertising, for any handles, any number of    *)
(* links and any number of queued events.                                  *)
(***************************************************************************)
EXTENDS Advertising, FiniteSetTheorems, TLAPS

\* After set_non_discoverable the status is the one requested; the timer never
\* runs while a request is executed.
RequestInv ==
  /\ request.cmd \in {"set_discoverable", "update_adv_data"}
       => Device_Connection_Status = request.new
  /\ request # NoRequest => ~timer

\* The i-th event of s says that link h is lost.
LostLink(s, i, h) == s[i].kind = "disconnection" /\ s[i].handle = h

\* Advertising is off only while something brings it back: a link that will be
\* lost, the event of one that was, or a command still to come.
OffInv ==
  adv = "off" =>
    \/ links # {}
    \/ \E i \in 1..Len(queue) : queue[i].kind = "disconnection"
    \/ request.cmd \in {"set_non_discoverable", "set_discoverable"}

\* The remembered link, and those whose connection is still to be handled,
\* exist or have their disconnection queued behind.
LinkInv ==
  /\ Device_Connection_Status = "CONNECTED_SERVER" =>
       \/ connectionHandle \in links
       \/ \E i \in 1..Len(queue) : LostLink(queue, i, connectionHandle)
  /\ \A i \in 1..Len(queue) :
       queue[i].kind = "connection" =>
         \/ queue[i].handle \in links
         \/ \E j \in i+1..Len(queue) : LostLink(queue, j, queue[i].handle)

IInv == TypeOK /\ RequestInv /\ TimerInFastAdvOnly /\ OffInv /\ LinkInv

\* A type that spells out the elements of the queue.
Event == [kind : {"connection", "disconnection"}, handle : Handle]

----------------------------------------------------------------------------
\* The initial state satisfies the invariant.
LEMMA InitInv == Init => IInv
<1> SUFFICES ASSUME Init PROVE IInv
  OBVIOUS
<1> USE DEF Init
<1>1. queue \in Seq(Event) /\ Len(queue) = 0
  OBVIOUS
<1>2. TypeOK
  BY <1>1 DEF TypeOK, NoRequest, Event
<1>3. RequestInv /\ TimerInFastAdvOnly /\ OffInv
  BY DEF RequestInv, TimerInFastAdvOnly, OffInv
<1>4. LinkInv
  BY <1>1 DEF LinkInv
<1> QED BY <1>2, <1>3, <1>4 DEF IInv

\* Adv_Request leaves the connected state, stops the timer and has a command
\* to send.
LEMMA RequestStarts ==
  ASSUME TypeOK, NEW new \in {"FAST_ADV", "LP_ADV"},
         NEW status \in {"FAST_ADV", "LP_ADV", "CONNECTED_SERVER", "IDLE"},
         Adv_Request(new, status)
  PROVE  /\ timer' = FALSE
         /\ Device_Connection_Status' \in {"FAST_ADV", "LP_ADV"}
         /\ request'.cmd \in {"set_non_discoverable", "set_discoverable"}
         /\ request' \in [new : {"FAST_ADV", "LP_ADV"},
                  cmd : {"set_non_discoverable", "set_discoverable", "update_adv_data"}]
         /\ request'.cmd = "set_discoverable" => Device_Connection_Status' = request'.new
  BY DEF Adv_Request

\* The steps of a request preserve the invariant.
LEMMA CommandsInv == IInv /\ Commands => IInv'
<1> SUFFICES ASSUME IInv, Commands PROVE IInv'
  OBVIOUS
<1> USE DEF IInv, TypeOK, NoRequest
<1>1. CASE SetNonDiscoverable
  <2>1. TypeOK' /\ RequestInv' /\ TimerInFastAdvOnly'
    BY <1>1 DEF SetNonDiscoverable, RequestInv, TimerInFastAdvOnly
  <2>2. OffInv'
    BY <1>1 DEF SetNonDiscoverable, OffInv
  <2>3. LinkInv'
    BY <1>1 DEF SetNonDiscoverable, LinkInv, LostLink
  <2> QED BY <2>1, <2>2, <2>3
<1>2. CASE SetDiscoverable
  <2>1. TypeOK' /\ RequestInv' /\ TimerInFastAdvOnly'
    BY <1>2 DEF SetDiscoverable, RequestInv, TimerInFastAdvOnly
  <2>2. Cardinality({}) = 0
    BY FS_EmptySet
  <2>3. OffInv'
    <3> SUFFICES ASSUME adv' = "off" PROVE links # {} \/ adv' # "off"
      BY <1>2 DEF OffInv, SetDiscoverable
    <3>1. NumLink \in Nat \ {0}
      BY AdvertisingAssumption DEF AdvertisingAssumption
    <3>2. adv = "off" /\ Cardinality(links) < NumLink => adv' = request.new
      BY <1>2 DEF SetDiscoverable
    <3>3. request.new \in {"FAST_ADV", "LP_ADV"}
      BY <1>2 DEF SetDiscoverable
    <3>4. adv' = "off" => adv = "off"
      BY <1>2, <3>3 DEF SetDiscoverable
    <3>5. links = {} => Cardinality(links) < NumLink
      BY <2>2, <3>1
    <3> QED BY <3>2, <3>3, <3>4, <3>5
  <2>4. LinkInv'
    BY <1>2 DEF SetDiscoverable, LinkInv, LostLink
  <2> QED BY <2>1, <2>3, <2>4
<1>3. ASSUME NEW ok \in BOOLEAN, UpdateAdvData(ok) PROVE IInv'
  <2>1. TypeOK' /\ RequestInv' /\ TimerInFastAdvOnly'
    BY <1>3 DEF UpdateAdvData, RequestInv, TimerInFastAdvOnly, stack
  <2>2. OffInv'
    BY <1>3 DEF UpdateAdvData, OffInv, stack
  <2>3. LinkInv'
    BY <1>3 DEF UpdateAdvData, LinkInv, LostLink, stack
  <2> QED BY <2>1, <2>2, <2>3
<1> QED BY <1>1, <1>2, <1>3 DEF Commands

\* The timer and its task preserve the invariant.
LEMMA TimerInv == IInv /\ (Adv_Mgr \/ Adv_Update) => IInv'
<1> SUFFICES ASSUME IInv, Adv_Mgr \/ Adv_Update PROVE IInv'
  OBVIOUS
<1> USE DEF IInv, TypeOK, NoRequest, stack
<1>1. CASE Adv_Mgr
  BY <1>1 DEF Adv_Mgr, RequestInv, TimerInFastAdvOnly, OffInv, LinkInv, LostLink
<1>2. CASE Adv_Update
  <2>0. /\ timer' = FALSE /\ Device_Connection_Status' \in {"FAST_ADV", "LP_ADV"}
        /\ request'.cmd \in {"set_non_discoverable", "set_discoverable"}
        /\ request' \in [new : {"FAST_ADV", "LP_ADV"},
             cmd : {"set_non_discoverable", "set_discoverable", "update_adv_data"}]
        /\ request'.cmd = "set_discoverable" => Device_Connection_Status' = request'.new
    BY <1>2, RequestStarts DEF Adv_Update
  <2>1. TypeOK' /\ RequestInv' /\ TimerInFastAdvOnly'
    <3>1. /\ queue' = queue /\ adv' = adv /\ links' = links /\ connectionHandle' = connectionHandle
          /\ TaskSet' \subseteq {"ADV_UPDATE", "HCI_ASYNCH"}
      BY <1>2 DEF Adv_Update
    <3>2. RequestInv' /\ TimerInFastAdvOnly'
      BY <2>0 DEF RequestInv, TimerInFastAdvOnly
    <3> QED BY <2>0, <3>1, <3>2
  <2>2. OffInv'
    BY <1>2, RequestStarts DEF Adv_Update, OffInv
  <2>3. LinkInv'
    BY <1>2, RequestStarts DEF Adv_Update, LinkInv, LostLink
  <2> QED BY <2>1, <2>2, <2>3
<1> QED BY <1>1, <1>2

\* What taking an event leaves of the queue.
LEMMA Taken ==
  ASSUME TypeOK, NEW kind, NextEvt(kind)
  PROVE  /\ queue' \in Seq(Event) /\ TaskSet' \subseteq {"ADV_UPDATE", "HCI_ASYNCH"}
         /\ Len(queue) \in Nat \ {0} /\ Len(queue') = Len(queue) - 1
         /\ \A i \in 1..Len(queue') : queue'[i] = queue[i+1]
         /\ Head(queue) = queue[1] /\ queue[1].kind = kind /\ queue[1].handle \in Handle
         /\ adv' = adv /\ links' = links /\ request = NoRequest
<1>1. queue \in Seq(Event) /\ queue # <<>>
  BY DEF TypeOK, NextEvt, Event
<1>2. Len(queue) \in Nat \ {0} /\ Head(queue) = queue[1] /\ queue[1] \in Event
  BY <1>1
<1>3. /\ queue' \in Seq(Event) /\ Len(queue') = Len(queue) - 1
      /\ \A i \in 1..Len(queue') : queue'[i] = queue[i+1]
  BY <1>1 DEF NextEvt
<1>4. /\ TaskSet' \subseteq {"ADV_UPDATE", "HCI_ASYNCH"} /\ Head(queue).kind = kind
      /\ adv' = adv /\ links' = links /\ request = NoRequest
  BY DEF TypeOK, NextEvt, stack
<1>5. queue[1].handle \in Handle
  BY <1>2 DEF Event
<1> QED BY <1>2, <1>3, <1>4, <1>5

\* A connection of a link that is lost again is followed by that event.
LEMMA TakenLinks ==
  ASSUME IInv, NEW kind, NextEvt(kind)
  PROVE  \A i \in 1..Len(queue') :
           queue'[i].kind = "connection" =>
             \/ queue'[i].handle \in links'
             \/ \E j \in i+1..Len(queue') : LostLink(queue', j, queue'[i].handle)
<1> SUFFICES ASSUME NEW i \in 1..Len(queue'), queue'[i].kind = "connection",
                    queue'[i].handle \notin links'
             PROVE  \E j \in i+1..Len(queue') : LostLink(queue', j, queue'[i].handle)
  OBVIOUS
<1>1. i+1 \in 1..Len(queue) /\ queue'[i] = queue[i+1] /\ links' = links
  BY Taken DEF IInv
<1>2. PICK j \in i+2..Len(queue) : LostLink(queue, j, queue[i+1].handle)
  BY <1>1, Taken DEF IInv, LinkInv
<1>3. j-1 \in i+1..Len(queue') /\ queue'[j-1] = queue[j]
  BY Taken, <1>2 DEF IInv
<1> QED BY <1>1, <1>2, <1>3 DEF LostLink

\* The events of the stack preserve the invariant when they are handled.
LEMMA HciAsynchInv == IInv /\ HciAsynch => IInv'
<1> SUFFICES ASSUME IInv, HciAsynch PROVE IInv'
  OBVIOUS
<1>1. CASE ConnectionComplete
  <2>0. NextEvt("connection")
    BY <1>1 DEF ConnectionComplete
  <2>1. /\ queue' \in Seq(Event) /\ TaskSet' \subseteq {"ADV_UPDATE", "HCI_ASYNCH"}
        /\ adv' = adv /\ links' = links /\ request' = NoRequest
        /\ timer' = FALSE /\ Device_Connection_Status' = "CONNECTED_SERVER"
        /\ connectionHandle' \in Handle
    BY <1>1, <2>0, Taken DEF IInv, ConnectionComplete
  <2>5. TypeOK'
    BY <2>1 DEF IInv, TypeOK, Event
  <2>6. RequestInv' /\ TimerInFastAdvOnly'
    BY <2>1 DEF RequestInv, TimerInFastAdvOnly, NoRequest
  <2>2. OffInv'
    <3> SUFFICES ASSUME adv' = "off", links' = {}
                 PROVE  \E i \in 1..Len(queue') : queue'[i].kind = "disconnection"
      BY DEF OffInv
    <3>1. PICK i \in 1..Len(queue) : queue[i].kind = "disconnection"
      BY <2>0, Taken DEF IInv, OffInv, NoRequest
    <3>2. i-1 \in 1..Len(queue') /\ queue'[i-1] = queue[i]
      BY <2>0, <3>1, Taken DEF IInv
    <3> QED BY <3>1, <3>2
  <2>3. connectionHandle' \in links'
        \/ \E i \in 1..Len(queue') : LostLink(queue', i, connectionHandle')
    <3> SUFFICES ASSUME connectionHandle' \notin links'
                 PROVE  \E i \in 1..Len(queue') : LostLink(queue', i, connectionHandle')
      OBVIOUS
    <3>1. connectionHandle' = queue[1].handle /\ links' = links
      BY <1>1, <2>0, Taken DEF ConnectionComplete, IInv
    <3>2. PICK i \in 2..Len(queue) : LostLink(queue, i, queue[1].handle)
      BY <2>0, <3>1, Taken DEF IInv, LinkInv
    <3>3. i-1 \in 1..Len(queue') /\ queue'[i-1] = queue[i]
      BY <2>0, <3>2, Taken DEF IInv
    <3> QED BY <3>1, <3>2, <3>3 DEF LostLink
  <2>4. LinkInv'
    BY <2>0, <2>3, TakenLinks DEF LinkInv
  <2> QED BY <2>2, <2>4, <2>5, <2>6 DEF IInv
<1>2. CASE DisconnectionComplete
  <2>0. NextEvt("disconnection") /\ \E status \in {"FAST_ADV", "LP_ADV", "CONNECTED_SERVER", "IDLE"} :
          Adv_Request("FAST_ADV", status)
    BY <1>2 DEF DisconnectionComplete, IInv, TypeOK
  <2>1. /\ timer' = FALSE /\ Device_Connection_Status' \in {"FAST_ADV", "LP_ADV"}
        /\ request'.cmd \in {"set_non_discoverable", "set_discoverable"}
        /\ request' \in [new : {"FAST_ADV", "LP_ADV"},
             cmd : {"set_non_discoverable", "set_discoverable", "update_adv_data"}]
        /\ request'.cmd = "set_discoverable" => Device_Connection_Status' = request'.new
    BY <2>0, RequestStarts DEF IInv
  <2>2. connectionHandle' \in Handle \cup {NoHandle}
    BY <1>2 DEF DisconnectionComplete, IInv, TypeOK
  <2>6. /\ queue' \in Seq(Event) /\ TaskSet' \subseteq {"ADV_UPDATE", "HCI_ASYNCH"}
        /\ adv' = adv /\ links' = links
    BY <2>0, Taken DEF IInv
  <2>3. TypeOK'
    <3>1. adv' \in {"off", "FAST_ADV", "LP_ADV"} /\ links' \subseteq Handle
      BY <2>6 DEF IInv, TypeOK
    <3> QED BY <2>1, <2>2, <2>6, <3>1 DEF TypeOK, Event
  <2>4. RequestInv' /\ TimerInFastAdvOnly' /\ OffInv'
    BY <2>1 DEF RequestInv, TimerInFastAdvOnly, OffInv
  <2>5. LinkInv'
    BY <2>0, <2>1, TakenLinks DEF LinkInv
  <2> QED BY <2>3, <2>4, <2>5 DEF IInv
<1> QED BY <1>1, <1>2 DEF HciAsynch

\* The stack's own steps preserve the invariant.
LEMMA StackInv ==
  ASSUME IInv, NEW h \in Handle, Connect(h) \/ Disconnect(h)
  PROVE  IInv'
<1>1. \E kind \in {"connection", "disconnection"} :
        /\ Queue(kind, h)
        /\ kind = "connection" => links' = links \cup {h}
        /\ kind = "disconnection" => links' = links \ {h}
        /\ (kind = "connection" \/ adv' = adv)
        /\ adv' \in {"off", adv}
  BY DEF Connect, Disconnect
<1>2. PICK kind \in {"connection", "disconnection"} :
        /\ Queue(kind, h)
        /\ kind = "connection" => links' = links \cup {h}
        /\ kind = "disconnection" => links' = links \ {h}
        /\ (kind = "connection" \/ adv' = adv)
        /\ adv' \in {"off", adv}
  BY <1>1
<1>0. queue \in Seq(Event)
  BY DEF IInv, TypeOK, Event
<1>3. /\ queue' \in Seq(Event) /\ Len(queue) \in Nat /\ Len(queue') = Len(queue) + 1
      /\ \A i \in 1..Len(queue) : queue'[i] = queue[i]
      /\ queue'[Len(queue')] = [kind |-> kind, handle |-> h]
  BY <1>2 DEF Queue, IInv, TypeOK, Event
<1>4. TypeOK' /\ RequestInv' /\ TimerInFastAdvOnly'
  BY <1>2, <1>3 DEF IInv, TypeOK, Queue, RequestInv, TimerInFastAdvOnly, Event
<1>5. OffInv'
  <2>1. CASE kind = "connection"
    BY <1>2, <2>1 DEF OffInv
  <2>2. CASE kind = "disconnection"
    BY <1>3, <2>2 DEF OffInv
  <2> QED BY <2>1, <2>2
<1>6. \A x \in Handle : x \in links' \/ x \notin links \/ LostLink(queue', Len(queue'), x)
  BY <1>2, <1>3 DEF LostLink
<1>7. \A i \in 1..Len(queue), x \in Handle : LostLink(queue, i, x) => LostLink(queue', i, x)
  BY <1>3 DEF LostLink
<1>8. ASSUME Device_Connection_Status' = "CONNECTED_SERVER"
      PROVE  connectionHandle' \in links'
             \/ \E i \in 1..Len(queue') : LostLink(queue', i, connectionHandle')
  <2>1. /\ connectionHandle' = connectionHandle
        /\ Device_Connection_Status = "CONNECTED_SERVER"
    BY <1>2, <1>8 DEF Queue
  <2>2. connectionHandle \in Handle
    <3>1. CASE connectionHandle \in links
      BY <3>1 DEF IInv, TypeOK
    <3>2. CASE \E i \in 1..Len(queue) : LostLink(queue, i, connectionHandle)
      <4>1. PICK i \in 1..Len(queue) : LostLink(queue, i, connectionHandle)
        BY <3>2
      <4>2. queue[i] \in Event
        BY <1>0, <4>1
      <4> QED BY <4>1, <4>2 DEF LostLink, Event
    <3> QED BY <2>1, <3>1, <3>2 DEF IInv, LinkInv
  <2> QED BY <1>3, <1>6, <1>7, <2>1, <2>2 DEF IInv, LinkInv
<1>9. ASSUME NEW i \in 1..Len(queue'), queue'[i].kind = "connection"
      PROVE  queue'[i].handle \in links'
             \/ \E j \in i+1..Len(queue') : LostLink(queue', j, queue'[i].handle)
  <2>1. CASE i = Len(queue')
    BY <1>2, <1>3, <1>9, <2>1
  <2>2. CASE i \in 1..Len(queue)
    <3>0. queue[i] \in Event
      BY <1>0, <2>2
    <3>1. queue'[i] = queue[i] /\ queue[i].handle \in Handle
      BY <1>3, <2>2, <3>0 DEF Event
    <3>2. CASE queue[i].handle \in links
      BY <1>3, <1>6, <2>2, <3>1, <3>2
    <3>3. CASE \E j \in i+1..Len(queue) : LostLink(queue, j, queue[i].handle)
      BY <1>3, <1>7, <2>2, <3>1, <3>3
    <3> QED BY <1>9, <2>2, <3>1, <3>2, <3>3 DEF IInv, LinkInv
  <2> QED BY <1>3, <2>1, <2>2
<1> QED BY <1>4, <1>5, <1>8, <1>9 DEF IInv, LinkInv

\* IInv is inductive.
LEMMA Invariance == Spec => []IInv
<1>1. IInv /\ UNCHANGED vars => IInv'
  BY DEF IInv, TypeOK, RequestInv, TimerInFastAdvOnly, OffInv, LinkInv, LostLink, vars
<1>2. IInv /\ [Next]_vars => IInv'
  BY <1>1, CommandsInv, TimerInv, HciAsynchInv, StackInv DEF Next
<1> QED BY InitInv, <1>2, PTL DEF Spec

----------------------------------------------------------------------------
\* The application, its timer, its two tasks and the queue keep their types.
THEOREM TypeCorrect == Spec => []TypeOK
<1>1. IInv => TypeOK
  BY DEF IInv
<1> QED BY Invariance, <1>1, PTL

\* Whatever connects, disconnects or expires, the timer that forces slow
\* advertising runs in fast advertising only.
THEOREM TimerStopped == Spec => []TimerInFastAdvOnly
<1>1. IInv => TimerInFastAdvOnly
  BY DEF IInv
<1> QED BY Invariance, <1>1, PTL

\* A device that has lost all its links advertises again, in whatever order
\* commands and events came.
THEOREM AlwaysDiscoverable == Spec => []Discoverable
<1>1. IInv => Discoverable
  BY DEF IInv, OffInv, Discoverable, Settled, NoRequest
<1> QED BY Invariance, <1>1, PTL

\* The handle remembered in the connected state is that of an existing link,
\* for any number of links.
THEOREM HandleCorrect == Spec => []HandleIsALink
<1>1. IInv => HandleIsALink
  BY DEF IInv, LinkInv, HandleIsALink, Settled
<1> QED BY Invariance, <1>1, PTL

=============================================================================
