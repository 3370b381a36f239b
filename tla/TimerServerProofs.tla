-------------------------- MODULE TimerServerProofs --------------------------
(***************************************************************************)
(* The timer server, for any number of timers, any delays, and any period  *)
(* of the register that leaves room for the latency of the interrupt: the  *)
(* list is exact, no timer is forgotten, and Alarms is implemented.        *)
(***************************************************************************)
EXTENDS TimerServer, FiniteSetTheorems, TLAPS

----------------------------------------------------------------------------
(* Lists                                                                   *)

\* N enumerates the n timers of the list that starts with first and is linked
\* by next and, backwards, by prev; behind them it is Nil.
List(first, next, prev, N, n) ==
  /\ n \in 0 .. MaxTimer
  /\ N \in [0 .. MaxTimer -> Timer \cup {Nil}]
  /\ \A k \in 0 .. MaxTimer : N[k] = Nil <=> k >= n
  /\ \A j, k \in 0 .. n - 1 : N[j] = N[k] => j = k
  /\ N[0] = first
  /\ \A k \in 0 .. n - 1 : next[N[k]] = N[k + 1]
  /\ \A k \in 0 .. n - 2 : prev[N[k + 1]] = N[k]

Insert(N, p, t) == [k \in 0 .. MaxTimer |-> IF k < p THEN N[k] ELSE IF k = p THEN t ELSE N[k - 1]]
Delete(N, p)    == [k \in 0 .. MaxTimer |-> IF k < p THEN N[k]
                                            ELSE IF k < MaxTimer THEN N[k + 1] ELSE Nil]

LEMMA Bounds == MaxTimer \in Nat /\ MaxTimer > 0 /\ Nil \notin Timer
  BY TimerServerAssumption DEF TimerServerAssumption, Timer, Nil

\* What is known of a list, one fact for each kind of index.
LEMMA ListFacts ==
  ASSUME NEW first, NEW next, NEW prev, NEW N, NEW n
  PROVE  List(first, next, prev, N, n) <=>
           /\ n \in Nat /\ n <= MaxTimer
           /\ N \in [0 .. MaxTimer -> Timer \cup {Nil}]
           /\ \A k \in 0 .. n - 1 : N[k] \in Timer
           /\ \A k \in 0 .. MaxTimer : k >= n => N[k] = Nil
           /\ \A j, k \in 0 .. n - 1 : N[j] = N[k] => j = k
           /\ N[0] = first
           /\ \A k \in 0 .. n - 1 : next[N[k]] = N[k + 1]
           /\ \A k \in 0 .. n - 2 : prev[N[k + 1]] = N[k]
  BY Bounds DEF List

\* A timer is linked before the first one, or as the only one.
LEMMA InsertFirst ==
  ASSUME NEW first, NEW next \in [Timer -> Timer \cup {Nil}], NEW prev \in [Timer -> Timer],
         NEW N, NEW n, List(first, next, prev, N, n), n < MaxTimer,
         NEW t \in Timer, \A k \in 0 .. n - 1 : N[k] # t,
         NEW prev2,
         n > 0 => prev2 = [prev EXCEPT ![first] = t]
  PROVE  List(t, [next EXCEPT ![t] = first], prev2, Insert(N, 0, t), n + 1)
<1> USE Bounds
<1> DEFINE M == Insert(N, 0, t)
           next2 == [next EXCEPT ![t] = first]
<1>1. /\ n \in Nat /\ n <= MaxTimer
      /\ N \in [0 .. MaxTimer -> Timer \cup {Nil}]
      /\ \A k \in 0 .. n - 1 : N[k] \in Timer
      /\ \A k \in 0 .. MaxTimer : k >= n => N[k] = Nil
      /\ \A j, k \in 0 .. n - 1 : N[j] = N[k] => j = k
      /\ N[0] = first
      /\ \A k \in 0 .. n - 1 : next[N[k]] = N[k + 1]
      /\ \A k \in 0 .. n - 2 : prev[N[k + 1]] = N[k]
  BY ListFacts
<1>0. n \in Nat /\ n <= MaxTimer
  BY <1>1
<1>2. /\ M \in [0 .. MaxTimer -> Timer \cup {Nil}]
      /\ M[0] = t
      /\ \A k \in 0 .. MaxTimer - 1 : M[k + 1] = N[k]
  <2>1. \A k \in 0 .. MaxTimer : M[k] = IF k = 0 THEN t ELSE N[k - 1]
    BY DEF Insert
  <2>2. \A k \in 0 .. MaxTimer : M[k] \in Timer \cup {Nil}
    BY <1>1, <2>1
  <2>3. \A k \in 0 .. MaxTimer - 1 : k + 1 \in 0 .. MaxTimer /\ (k + 1) - 1 = k /\ k + 1 # 0
    OBVIOUS
  <2> QED BY <2>1, <2>2, <2>3 DEF Insert
<1> HIDE DEF M
<1>3. \A k \in 0 .. n : k # 0 => /\ k - 1 \in 0 .. n - 1 /\ k = (k - 1) + 1
                                 /\ k - 1 \in 0 .. MaxTimer - 1
  BY <1>0
<1>9. \A k \in 0 .. n : k # 0 => M[k] = N[k - 1] /\ N[k - 1] # t /\ N[k - 1] \in Timer
  <2> SUFFICES ASSUME NEW k \in 0 .. n, k # 0
               PROVE  M[k] = N[k - 1] /\ N[k - 1] # t /\ N[k - 1] \in Timer
    OBVIOUS
  <2>1. M[(k - 1) + 1] = N[k - 1]
    BY <1>2, <1>3
  <2> QED BY <1>1, <1>3, <2>1
<1>4. \A k \in 0 .. n : M[k] \in Timer
  BY <1>2, <1>9
<1>5. \A k \in 0 .. MaxTimer : k >= n + 1 => M[k] = Nil
  <2> SUFFICES ASSUME NEW k \in 0 .. MaxTimer, k >= n + 1 PROVE M[k] = Nil
    OBVIOUS
  <2>1. k - 1 \in 0 .. MaxTimer - 1 /\ k - 1 \in 0 .. MaxTimer /\ k = (k - 1) + 1 /\ k - 1 >= n
    BY <1>0
  <2>2. M[(k - 1) + 1] = N[k - 1]
    BY <1>2, <2>1
  <2> QED BY <1>1, <2>1, <2>2
<1>6. \A j, k \in 0 .. n : M[j] = M[k] => j = k
  <2> SUFFICES ASSUME NEW j \in 0 .. n, NEW k \in 0 .. n, M[j] = M[k] PROVE j = k
    OBVIOUS
  <2> QED BY <1>1, <1>2, <1>3, <1>9
<1>7. \A k \in 0 .. n : next2[M[k]] = M[k + 1]
  <2>1. next2[t] = first
    OBVIOUS
  <2>2. \A k \in 0 .. n - 1 : next2[N[k]] = N[k + 1]
    BY <1>1
  <2>3. \A k \in 0 .. n : M[k + 1] = N[k]
    BY <1>1, <1>2
  <2> SUFFICES ASSUME NEW k \in 0 .. n PROVE next2[M[k]] = M[k + 1]
    OBVIOUS
  <2>4. CASE k = 0
    BY <1>1, <1>2, <2>1, <2>3, <2>4
  <2>5. CASE k # 0
    <3>1. next2[N[k - 1]] = N[(k - 1) + 1]
      BY <1>3, <2>2, <2>5
    <3> QED BY <1>3, <1>9, <2>3, <2>5, <3>1
  <2> QED BY <2>4, <2>5
<1>8. \A k \in 0 .. n - 1 : prev2[M[k + 1]] = M[k]
  <2> SUFFICES ASSUME NEW k \in 0 .. n - 1 PROVE prev2[M[k + 1]] = M[k]
    OBVIOUS
  <2>1. M[k + 1] = N[k] /\ first \in Timer /\ N[k] \in Timer /\ n > 0
    BY <1>1, <1>2
  <2>2. CASE k = 0
    BY <1>1, <1>2, <2>1, <2>2
  <2>3. CASE k > 0
    <3>1. k - 1 \in 0 .. n - 2 /\ k - 1 \in 0 .. MaxTimer - 1 /\ (k - 1) + 1 = k /\ 0 \in 0 .. n - 1
      BY <1>1, <2>3
    <3>2. M[k] = N[k - 1] /\ prev[N[k]] = N[k - 1] /\ N[k] # first
      BY <1>1, <1>2, <2>3, <3>1
    <3> QED BY <2>1, <3>2
  <2> QED BY <2>2, <2>3
<1>10. n + 1 \in Nat /\ n + 1 <= MaxTimer /\ (n + 1) - 1 = n /\ (n + 1) - 2 = n - 1
  BY <1>0
<1> QED BY <1>2, <1>4, <1>5, <1>6, <1>7, <1>8, <1>10, ListFacts DEF M

\* A timer is linked behind the one at p.
LEMMA InsertBehind ==
  ASSUME NEW first, NEW next \in [Timer -> Timer \cup {Nil}], NEW prev \in [Timer -> Timer],
         NEW N, NEW n, List(first, next, prev, N, n), n < MaxTimer,
         NEW t \in Timer, \A k \in 0 .. n - 1 : N[k] # t,
         NEW p \in 0 .. n - 1
  PROVE  List(first, [[next EXCEPT ![t] = next[N[p]]] EXCEPT ![N[p]] = t],
              [u \in Timer |-> IF u = t THEN N[p] ELSE IF u = next[N[p]] THEN t ELSE prev[u]],
              Insert(N, p + 1, t), n + 1)
<1> USE Bounds
<1> DEFINE M == Insert(N, p + 1, t)
           next2 == [[next EXCEPT ![t] = next[N[p]]] EXCEPT ![N[p]] = t]
           prev2 == [u \in Timer |-> IF u = t THEN N[p] ELSE IF u = next[N[p]] THEN t ELSE prev[u]]
<1>1. /\ n \in Nat /\ n <= MaxTimer
      /\ N \in [0 .. MaxTimer -> Timer \cup {Nil}]
      /\ \A k \in 0 .. n - 1 : N[k] \in Timer
      /\ \A k \in 0 .. MaxTimer : k >= n => N[k] = Nil
      /\ \A j, k \in 0 .. n - 1 : N[j] = N[k] => j = k
      /\ N[0] = first
      /\ \A k \in 0 .. n - 1 : next[N[k]] = N[k + 1]
      /\ \A k \in 0 .. n - 2 : prev[N[k + 1]] = N[k]
  BY ListFacts
<1>0. n \in Nat /\ n <= MaxTimer
  BY <1>1
<1>2. /\ M \in [0 .. MaxTimer -> Timer \cup {Nil}]
      /\ \A k \in 0 .. MaxTimer : M[k] = IF k <= p THEN N[k] ELSE IF k = p + 1 THEN t ELSE N[k - 1]
  <2>1. \A k \in 0 .. MaxTimer : M[k] = IF k < p + 1 THEN N[k] ELSE IF k = p + 1 THEN t ELSE N[k - 1]
    BY DEF Insert
  <2>2. \A k \in 0 .. MaxTimer : k < p + 1 <=> k <= p
    BY <1>1
  <2>3. \A k \in 0 .. MaxTimer : M[k] \in Timer \cup {Nil}
    BY <1>1, <2>1
  <2> QED BY <2>1, <2>2, <2>3 DEF Insert
<1> HIDE DEF M
<1>3. /\ \A k \in 0 .. p : M[k] = N[k]
      /\ M[p + 1] = t
      /\ \A k \in p + 1 .. n - 1 : M[k + 1] = N[k]
      /\ p + 1 \in 0 .. n
  BY <1>1, <1>2
<1>4. \A k \in 0 .. n : M[k] \in Timer
  <2> SUFFICES ASSUME NEW k \in 0 .. n PROVE M[k] \in Timer
    OBVIOUS
  <2>1. CASE k <= p
    <3>1. k \in 0 .. n - 1 /\ k \in 0 .. p
      BY <1>0, <2>1
    <3> QED BY <1>1, <1>3, <3>1
  <2>2. CASE k > p + 1
    <3>1. k - 1 \in 0 .. n - 1 /\ k - 1 \in p + 1 .. n - 1 /\ (k - 1) + 1 = k
      BY <1>0, <2>2
    <3>2. M[(k - 1) + 1] = N[k - 1]
      BY <1>3, <3>1
    <3> QED BY <1>1, <3>1, <3>2
  <2>3. k <= p \/ k = p + 1 \/ k > p + 1
    BY <1>0
  <2> QED BY <1>3, <2>1, <2>2, <2>3
<1>5. \A k \in 0 .. MaxTimer : k >= n + 1 => M[k] = Nil
  BY <1>1, <1>2
<1>6. \A j, k \in 0 .. n : M[j] = M[k] => j = k
  <2> DEFINE old(k) == IF k <= p THEN k ELSE k - 1
  <2>1. \A k \in 0 .. n : k # p + 1 => old(k) \in 0 .. n - 1 /\ M[k] = N[old(k)]
    BY <1>1, <1>2
  <2>2. \A j, k \in 0 .. n : j # p + 1 /\ k # p + 1 /\ old(j) = old(k) => j = k
    BY <1>1
  <2> HIDE DEF old
  <2>3. \A k \in 0 .. n : M[k] = t => k = p + 1
    BY <2>1
  <2> SUFFICES ASSUME NEW j \in 0 .. n, NEW k \in 0 .. n, M[j] = M[k] PROVE j = k
    OBVIOUS
  <2>4. CASE j = p + 1 \/ k = p + 1
    BY <1>3, <2>3, <2>4
  <2>5. CASE j # p + 1 /\ k # p + 1
    <3>1. N[old(j)] = N[old(k)] /\ old(j) \in 0 .. n - 1 /\ old(k) \in 0 .. n - 1
      BY <2>1, <2>5
    <3>2. old(j) = old(k)
      BY <1>1, <3>1
    <3> QED BY <2>2, <2>5, <3>2
  <2> QED BY <2>4, <2>5
<1>9. /\ next2[t] = N[p + 1] /\ next2[N[p]] = t /\ N[p] # t
      /\ \A k \in 0 .. n - 1 : k # p => next2[N[k]] = N[k + 1]
  <2>1. N[p] \in Timer /\ N[p] # t /\ next[N[p]] = N[p + 1]
    BY <1>1
  <2>2. \A k \in 0 .. n - 1 : k # p => N[k] # N[p] /\ N[k] # t /\ N[k] \in Timer
    BY <1>1
  <2> QED BY <1>1, <2>1, <2>2
<1>7. \A k \in 0 .. n : next2[M[k]] = M[k + 1]
  <2> SUFFICES ASSUME NEW k \in 0 .. n PROVE next2[M[k]] = M[k + 1]
    OBVIOUS
  <2>0. k + 1 \in 0 .. MaxTimer
    BY <1>1
  <2>1. CASE k < p
    <3>1. k \in 0 .. p /\ k + 1 \in 0 .. p /\ k \in 0 .. n - 1 /\ k # p
      BY <1>1, <2>1
    <3>2. M[k] = N[k] /\ M[k + 1] = N[k + 1]
      BY <1>3, <3>1
    <3>3. next2[N[k]] = N[k + 1]
      BY <1>9, <3>1
    <3> QED BY <3>2, <3>3
  <2>2. CASE k = p
    <3>1. k \in 0 .. p
      BY <2>2
    <3> QED BY <1>3, <1>9, <2>2, <3>1
  <2>3. CASE k = p + 1
    <3>1. M[k] = t /\ M[k + 1] = N[k]
      BY <1>1, <1>2, <2>0, <2>3
    <3> QED BY <1>9, <2>3, <3>1
  <2>4. CASE k > p + 1
    <3>1. M[k] = N[k - 1] /\ M[k + 1] = N[k] /\ k - 1 \in 0 .. n - 1 /\ k - 1 # p /\ (k - 1) + 1 = k
      BY <1>1, <1>2, <2>0, <2>4
    <3> QED BY <1>9, <3>1
  <2> QED BY <1>1, <2>1, <2>2, <2>3, <2>4
<1>10. \A k \in 0 .. n - 1 : N[k] # t /\ N[k] \in Timer
  BY <1>1
<1>8. \A k \in 0 .. n - 1 : prev2[M[k + 1]] = M[k]
  <2> SUFFICES ASSUME NEW k \in 0 .. n - 1 PROVE prev2[M[k + 1]] = M[k]
    OBVIOUS
  <2>0. k + 1 \in 0 .. MaxTimer /\ k \in 0 .. MaxTimer /\ next[N[p]] = N[p + 1]
    BY <1>1
  <2>1. CASE k < p
    <3>1. k + 1 \in 0 .. n - 1 /\ k \in 0 .. n - 2 /\ k \in 0 .. p /\ k + 1 \in 0 .. p
      BY <1>1, <2>1
    <3>2. M[k + 1] = N[k + 1] /\ M[k] = N[k] /\ prev[N[k + 1]] = N[k]
      BY <1>1, <1>3, <3>1
    <3>3. N[k + 1] # N[p + 1]
      <4>1. p + 1 < n => p + 1 \in 0 .. n - 1
        BY <1>1
      <4>2. p + 1 >= n => N[p + 1] = Nil
        BY <1>1
      <4> QED BY <1>1, <2>1, <3>1, <4>1, <4>2
    <3> QED BY <1>10, <2>0, <3>1, <3>2, <3>3
  <2>2. CASE k = p
    BY <1>3, <2>2
  <2>3. CASE k = p + 1
    <3>1. M[k] = t /\ M[k + 1] = N[k]
      BY <1>1, <1>2, <2>0, <2>3
    <3> QED BY <1>10, <2>0, <2>3, <3>1
  <2>4. CASE k > p + 1
    <3>1. M[k] = N[k - 1] /\ M[k + 1] = N[k] /\ k - 1 \in 0 .. n - 2 /\ (k - 1) + 1 = k
      BY <1>1, <1>2, <2>0, <2>4
    <3>2. prev[N[k]] = N[k - 1]
      BY <1>1, <3>1
    <3>3. p + 1 \in 0 .. n - 1 /\ N[k] # N[p + 1]
      BY <1>1, <2>4
    <3> QED BY <1>10, <2>0, <3>1, <3>2, <3>3
  <2> QED BY <1>1, <2>1, <2>2, <2>3, <2>4
<1>11. M[0] = first
  BY <1>1, <1>3
<1>12. n + 1 \in Nat /\ n + 1 <= MaxTimer /\ (n + 1) - 1 = n /\ (n + 1) - 2 = n - 1
  BY <1>0
<1> QED BY <1>2, <1>4, <1>5, <1>6, <1>7, <1>8, <1>11, <1>12, ListFacts DEF M

\* The first timer is unlinked.
LEMMA DeleteFirst ==
  ASSUME NEW first, NEW next \in [Timer -> Timer \cup {Nil}], NEW prev,
         NEW N, NEW n, List(first, next, prev, N, n), n > 0
  PROVE  List(next[first], next, prev, Delete(N, 0), n - 1)
<1> USE Bounds
<1> DEFINE M == Delete(N, 0)
<1>1. /\ n \in Nat /\ n <= MaxTimer
      /\ N \in [0 .. MaxTimer -> Timer \cup {Nil}]
      /\ \A k \in 0 .. n - 1 : N[k] \in Timer
      /\ \A k \in 0 .. MaxTimer : k >= n => N[k] = Nil
      /\ \A j, k \in 0 .. n - 1 : N[j] = N[k] => j = k
      /\ N[0] = first
      /\ \A k \in 0 .. n - 1 : next[N[k]] = N[k + 1]
      /\ \A k \in 0 .. n - 2 : prev[N[k + 1]] = N[k]
  BY ListFacts
<1>0. n \in Nat /\ n <= MaxTimer
  BY <1>1
<1>2. /\ M \in [0 .. MaxTimer -> Timer \cup {Nil}]
      /\ \A k \in 0 .. MaxTimer - 1 : M[k] = N[k + 1]
      /\ M[MaxTimer] = Nil
  <2>1. \A k \in 0 .. MaxTimer : M[k] = IF k < MaxTimer THEN N[k + 1] ELSE Nil
    BY DEF Delete
  <2>2. \A k \in 0 .. MaxTimer : M[k] \in Timer \cup {Nil}
    BY <1>1, <2>1
  <2> QED BY <2>1, <2>2 DEF Delete
<1> HIDE DEF M
<1>3. \A k \in 0 .. n - 2 : k + 1 \in 0 .. n - 1 /\ k \in 0 .. MaxTimer - 1 /\ M[k] = N[k + 1]
  BY <1>1, <1>2
<1>4. \A k \in 0 .. n - 2 : M[k] \in Timer
  BY <1>1, <1>3
<1>5. \A k \in 0 .. MaxTimer : k >= n - 1 => M[k] = Nil
  <2> SUFFICES ASSUME NEW k \in 0 .. MaxTimer, k >= n - 1, k # MaxTimer PROVE M[k] = Nil
    BY <1>2
  <2>1. k \in 0 .. MaxTimer - 1 /\ k + 1 \in 0 .. MaxTimer /\ k + 1 >= n
    BY <1>1
  <2> QED BY <1>1, <1>2, <2>1
<1>6. \A j, k \in 0 .. n - 2 : M[j] = M[k] => j = k
  BY <1>1, <1>3
<1>7. \A k \in 0 .. n - 2 : next[M[k]] = M[k + 1]
  <2> SUFFICES ASSUME NEW k \in 0 .. n - 2 PROVE next[M[k]] = M[k + 1]
    OBVIOUS
  <2>1. k + 1 \in 0 .. n - 1 /\ k + 1 \in 0 .. MaxTimer - 1
    BY <1>1
  <2> QED BY <1>1, <1>2, <1>3, <2>1
<1>8. \A k \in 0 .. n - 3 : prev[M[k + 1]] = M[k]
  <2> SUFFICES ASSUME NEW k \in 0 .. n - 3 PROVE prev[M[k + 1]] = M[k]
    OBVIOUS
  <2>1. k + 1 \in 0 .. n - 2 /\ k \in 0 .. n - 2
    BY <1>1
  <2> QED BY <1>1, <1>3, <2>1
<1>9. M[0] = next[first]
  <2>1. 0 \in 0 .. n - 1 /\ 0 \in 0 .. MaxTimer - 1
    BY <1>1
  <2> QED BY <1>1, <1>2, <2>1
<1>10. n - 1 \in Nat /\ n - 1 <= MaxTimer /\ (n - 1) - 1 = n - 2 /\ (n - 1) - 2 = n - 3
  BY <1>1
<1> QED BY <1>2, <1>4, <1>5, <1>6, <1>7, <1>8, <1>9, <1>10, ListFacts DEF M

\* A timer behind the first one is unlinked.
LEMMA DeleteBehind ==
  ASSUME NEW first, NEW next \in [Timer -> Timer \cup {Nil}], NEW prev \in [Timer -> Timer],
         NEW N, NEW n, List(first, next, prev, N, n),
         NEW p \in 1 .. n - 1
  PROVE  List(first, [next EXCEPT ![prev[N[p]]] = next[N[p]]],
              [v \in Timer |-> IF v = next[N[p]] THEN prev[N[p]] ELSE prev[v]],
              Delete(N, p), n - 1)
<1> USE Bounds
<1> DEFINE M == Delete(N, p)
           next2 == [next EXCEPT ![prev[N[p]]] = next[N[p]]]
           prev2 == [v \in Timer |-> IF v = next[N[p]] THEN prev[N[p]] ELSE prev[v]]
<1>1. /\ n \in Nat /\ n <= MaxTimer
      /\ N \in [0 .. MaxTimer -> Timer \cup {Nil}]
      /\ \A k \in 0 .. n - 1 : N[k] \in Timer
      /\ \A k \in 0 .. MaxTimer : k >= n => N[k] = Nil
      /\ \A j, k \in 0 .. n - 1 : N[j] = N[k] => j = k
      /\ N[0] = first
      /\ \A k \in 0 .. n - 1 : next[N[k]] = N[k + 1]
      /\ \A k \in 0 .. n - 2 : prev[N[k + 1]] = N[k]
  BY ListFacts
<1>0. n \in Nat /\ n <= MaxTimer
  BY <1>1
<1>2. /\ M \in [0 .. MaxTimer -> Timer \cup {Nil}]
      /\ \A k \in 0 .. MaxTimer : M[k] = IF k < p THEN N[k] ELSE IF k < MaxTimer THEN N[k + 1] ELSE Nil
  <2>1. \A k \in 0 .. MaxTimer : M[k] = IF k < p THEN N[k] ELSE IF k < MaxTimer THEN N[k + 1] ELSE Nil
    BY DEF Delete
  <2>2. \A k \in 0 .. MaxTimer : M[k] \in Timer \cup {Nil}
    BY <1>1, <2>1
  <2> QED BY <2>1, <2>2 DEF Delete
<1> HIDE DEF M
<1>3. /\ \A k \in 0 .. p - 1 : M[k] = N[k]
      /\ \A k \in p .. n - 1 : M[k] = N[k + 1]
  <2>1. p \in Int /\ n <= MaxTimer
    BY <1>1
  <2>2. \A k \in 0 .. p - 1 : k \in 0 .. MaxTimer /\ k < p
    BY <1>1
  <2>3. \A k \in p .. n - 1 : k \in 0 .. MaxTimer /\ ~(k < p) /\ k < MaxTimer
    BY <1>1
  <2> QED BY <1>2, <2>2, <2>3
<1> DEFINE old(k) == IF k < p THEN k ELSE k + 1
<1>4. \A k \in 0 .. n - 2 : old(k) \in 0 .. n - 1 /\ M[k] = N[old(k)] /\ old(k) # p
  <2> SUFFICES ASSUME NEW k \in 0 .. n - 2 PROVE old(k) \in 0 .. n - 1 /\ M[k] = N[old(k)] /\ old(k) # p
    OBVIOUS
  <2>1. CASE k < p
    BY <1>1, <1>3, <2>1
  <2>2. CASE k >= p
    BY <1>1, <1>3, <2>2
  <2> QED BY <2>1, <2>2
<1>5. \A k \in 0 .. n - 2 : M[k] \in Timer
  BY <1>1, <1>4
<1>6. \A k \in 0 .. MaxTimer : k >= n - 1 => M[k] = Nil
  <2> SUFFICES ASSUME NEW k \in 0 .. MaxTimer, k >= n - 1 PROVE M[k] = Nil
    OBVIOUS
  <2>1. ~(k < p)
    BY <1>1
  <2>2. k < MaxTimer => k + 1 \in 0 .. MaxTimer /\ k + 1 >= n
    BY <1>1
  <2> QED BY <1>1, <1>2, <2>1, <2>2
<1>7. \A j, k \in 0 .. n - 2 : M[j] = M[k] => j = k
  <2>1. \A j, k \in 0 .. n - 2 : old(j) = old(k) => j = k
    BY <1>1
  <2> HIDE DEF old
  <2> SUFFICES ASSUME NEW j \in 0 .. n - 2, NEW k \in 0 .. n - 2, M[j] = M[k] PROVE j = k
    OBVIOUS
  <2>2. old(j) \in 0 .. n - 1 /\ old(k) \in 0 .. n - 1 /\ N[old(j)] = N[old(k)]
    BY <1>4
  <2>3. old(j) = old(k)
    BY <1>1, <2>2
  <2> QED BY <2>1, <2>3
<1>8. prev[N[p]] = N[p - 1] /\ next[N[p]] = N[p + 1] /\ p - 1 \in 0 .. n - 2 /\ p - 1 \in 0 .. n - 1
  <2>1. p - 1 \in 0 .. n - 2 /\ p - 1 \in 0 .. n - 1 /\ (p - 1) + 1 = p /\ p \in 0 .. n - 1
    BY <1>1
  <2> QED BY <1>1, <2>1
<1>9. /\ next2[N[p - 1]] = N[p + 1]
      /\ \A k \in 0 .. n - 1 : k # p - 1 => next2[N[k]] = N[k + 1]
  BY <1>1, <1>8
<1>10. \A k \in 0 .. n - 2 : next2[M[k]] = M[k + 1]
  <2> SUFFICES ASSUME NEW k \in 0 .. n - 2 PROVE next2[M[k]] = M[k + 1]
    OBVIOUS
  <2>1. CASE k = p - 1
    <3>1. M[k] = N[p - 1] /\ k + 1 = p /\ p \in p .. n - 1
      BY <1>1, <1>3, <2>1
    <3> QED BY <1>3, <1>9, <3>1
  <2>2. CASE k < p - 1
    <3>1. k \in 0 .. p - 1 /\ k + 1 \in 0 .. p - 1 /\ k \in 0 .. n - 1 /\ k # p - 1
      BY <1>1, <2>2
    <3> QED BY <1>3, <1>9, <3>1
  <2>3. CASE k >= p
    <3>1. /\ k \in p .. n - 1 /\ k + 1 \in p .. n - 1 /\ k + 1 \in 0 .. n - 1
          /\ k + 1 # p - 1
      BY <1>1, <2>3
    <3> QED BY <1>3, <1>9, <3>1
  <2> QED BY <1>1, <2>1, <2>2, <2>3
<1>11. \A k \in 0 .. n - 3 : prev2[M[k + 1]] = M[k]
  <2> SUFFICES ASSUME NEW k \in 0 .. n - 3 PROVE prev2[M[k + 1]] = M[k]
    OBVIOUS
  <2>1. CASE k = p - 1
    <3>1. M[k] = N[p - 1] /\ k + 1 = p /\ p \in p .. n - 1 /\ p + 1 \in 0 .. n - 1
      BY <1>1, <1>3, <2>1
    <3>2. M[k + 1] = N[p + 1] /\ N[p + 1] \in Timer
      BY <1>1, <1>3, <3>1
    <3> QED BY <1>8, <3>1, <3>2
  <2>2. CASE k # p - 1
    <3>1. PICK j \in 0 .. n - 2 : M[k] = N[j] /\ M[k + 1] = N[j + 1] /\ j # p
      <4>1. CASE k < p - 1
        <5>1. k \in 0 .. p - 1 /\ k + 1 \in 0 .. p - 1 /\ k \in 0 .. n - 2 /\ k # p
          BY <1>1, <4>1
        <5> QED BY <1>3, <5>1
      <4>2. CASE k >= p
        <5>1. k \in p .. n - 1 /\ k + 1 \in p .. n - 1 /\ k + 1 \in 0 .. n - 2 /\ k + 1 # p
          BY <1>1, <4>2
        <5> QED BY <1>3, <5>1
      <4> QED BY <1>1, <2>2, <4>1, <4>2
    <3>2. prev[N[j + 1]] = N[j] /\ j + 1 \in 0 .. n - 1 /\ N[j + 1] \in Timer
      BY <1>1
    <3>3. N[j + 1] # N[p + 1]
      <4>1. p + 1 < n => p + 1 \in 0 .. n - 1
        BY <1>1
      <4>2. p + 1 >= n => N[p + 1] = Nil
        BY <1>1
      <4> QED BY <1>1, <3>1, <3>2, <4>1, <4>2
    <3> QED BY <1>8, <3>1, <3>2, <3>3
  <2> QED BY <2>1, <2>2
<1>12. M[0] = first
  BY <1>1, <1>3
<1>13. n - 1 \in Nat /\ n - 1 <= MaxTimer /\ (n - 1) - 1 = n - 2 /\ (n - 1) - 2 = n - 3
  BY <1>1
<1> QED BY <1>2, <1>5, <1>6, <1>7, <1>10, <1>11, <1>12, <1>13, ListFacts DEF M

\* The walk along the list meets its timers.
LEMMA NodeIs ==
  ASSUME NEW s, NEW N, NEW n, List(s.Current, s.NextID, s.PreviousID, N, n)
  PROVE  Node(s) = N
<1> USE Bounds
<1> DEFINE walk(f) == [k \in 0 .. MaxTimer |->
                         IF k = 0 THEN s.Current
                         ELSE IF f[k - 1] = Nil THEN Nil ELSE s.NextID[f[k - 1]]]
<1>1. /\ n \in 0 .. MaxTimer
      /\ N \in [0 .. MaxTimer -> Timer \cup {Nil}]
      /\ \A k \in 0 .. MaxTimer : N[k] = Nil <=> k >= n
      /\ N[0] = s.Current
      /\ \A k \in 0 .. n - 1 : s.NextID[N[k]] = N[k + 1]
  BY DEF List
<1>2. N = walk(N)
  <2>1. \A k \in 0 .. MaxTimer : N[k] = walk(N)[k]
    BY <1>1
  <2> QED BY <1>1, <2>1
<1>3. Node(s) = CHOOSE node : node = walk(node)
  BY DEF Node
<1> HIDE DEF walk
<1>4. Node(s) = walk(Node(s))
  BY <1>2, <1>3
<1> DEFINE B == {k \in 0 .. MaxTimer : Node(s)[k] # N[k]}
<1>5. B = {}
  <2> SUFFICES ASSUME B # {} PROVE FALSE
    OBVIOUS
  <2>1. B \subseteq Nat
    OBVIOUS
  <2>2. PICK k \in B : \A j \in B : ~ (<<j, k>> \in OpToRel(<, Nat))
    BY <2>1, WFMin, NatLessThanWellFounded
  <2>3. \A j \in B : ~ (j < k)
    BY <2>1, <2>2 DEF OpToRel
  <2>4. k # 0
    BY <1>1, <1>4 DEF walk
  <2>5. Node(s)[k - 1] = N[k - 1]
    BY <2>3, <2>4
  <2> QED BY <1>2, <1>4, <2>4, <2>5 DEF walk
<1>6. \A k \in 0 .. MaxTimer : Node(s)[k] = N[k]
  BY <1>5
<1>7. Node(s) = [k \in 0 .. MaxTimer |-> Node(s)[k]]
  BY <1>4 DEF walk
<1>8. N = [k \in 0 .. MaxTimer |-> N[k]]
  BY <1>1
<1> HIDE DEF B
<1> QED BY <1>6, <1>7, <1>8, Zenon

\* The timers of the list.
Elems(N, n) == {N[k] : k \in 0 .. n - 1}

\* What an index of the list after an insertion stands for in the list before.
LEMMA InsertIndex ==
  ASSUME NEW N, NEW p \in Nat, NEW t, NEW k \in 0 .. MaxTimer
  PROVE  /\ k < p => Insert(N, p, t)[k] = N[k]
         /\ k = p => Insert(N, p, t)[k] = t
         /\ k > p => Insert(N, p, t)[k] = N[k - 1]
<1>1. Insert(N, p, t)[k] = IF k < p THEN N[k] ELSE IF k = p THEN t ELSE N[k - 1]
  BY DEF Insert
<1>2. (k > p => ~ (k < p) /\ k # p) /\ (k = p => ~ (k < p))
  BY Bounds
<1> QED BY <1>1, <1>2

\* The same for a removal.
LEMMA DeleteIndex ==
  ASSUME NEW N, NEW p \in Nat, NEW k \in 0 .. MaxTimer - 1
  PROVE  /\ k < p => Delete(N, p)[k] = N[k]
         /\ k >= p => Delete(N, p)[k] = N[k + 1]
<1>1. k \in 0 .. MaxTimer /\ k < MaxTimer
  BY Bounds
<1>2. Delete(N, p)[k] = IF k < p THEN N[k] ELSE IF k < MaxTimer THEN N[k + 1] ELSE Nil
  BY <1>1 DEF Delete
<1>3. k >= p => ~ (k < p)
  BY Bounds
<1> QED BY <1>1, <1>2, <1>3

LEMMA ElemsInsert ==
  ASSUME NEW N, NEW n \in Nat, n < MaxTimer, NEW p \in 0 .. n, NEW t
  PROVE  Elems(Insert(N, p, t), n + 1) = Elems(N, n) \cup {t}
<1> DEFINE M == Insert(N, p, t)
<1>1. \A k \in 0 .. n : /\ k < p => k \in 0 .. n - 1 /\ M[k] = N[k]
                        /\ k = p => M[k] = t
                        /\ k > p => k - 1 \in 0 .. n - 1 /\ M[k] = N[k - 1]
  <2> SUFFICES ASSUME NEW k \in 0 .. n
               PROVE  /\ k < p => k \in 0 .. n - 1 /\ M[k] = N[k]
                      /\ k = p => M[k] = t
                      /\ k > p => k - 1 \in 0 .. n - 1 /\ M[k] = N[k - 1]
    OBVIOUS
  <2>1. /\ k < p => k \in 0 .. n - 1 /\ Insert(N, p, t)[k] = N[k]
        /\ k = p => Insert(N, p, t)[k] = t
        /\ k > p => k - 1 \in 0 .. n - 1 /\ Insert(N, p, t)[k] = N[k - 1]
    <3>1. /\ k \in 0 .. MaxTimer /\ p \in Nat
          /\ k < p => k \in 0 .. n - 1
          /\ k > p => k - 1 \in 0 .. n - 1
      BY Bounds
    <3> QED BY <3>1, InsertIndex
  <2> QED BY <2>1
<1> HIDE DEF M
<1>2. (n + 1) - 1 = n
  OBVIOUS
<1>3. ASSUME NEW k \in 0 .. n PROVE M[k] \in Elems(N, n) \cup {t}
  <2>1. k < p \/ k = p \/ k > p
    OBVIOUS
  <2> QED BY <1>1, <2>1 DEF Elems
<1>4. ASSUME NEW j \in 0 .. n - 1 PROVE \E k \in 0 .. n : M[k] = N[j]
  <2>1. CASE j < p
    <3>1. j \in 0 .. n
      OBVIOUS
    <3> QED BY <1>1, <2>1, <3>1
  <2>2. CASE j >= p
    <3>1. j + 1 \in 0 .. n /\ j + 1 > p /\ (j + 1) - 1 = j
      BY <2>2
    <3> QED BY <1>1, <3>1
  <2> QED BY <2>1, <2>2
<1>5. \E k \in 0 .. n : M[k] = t
  BY <1>1
<1> QED BY <1>2, <1>3, <1>4, <1>5 DEF Elems, M

LEMMA ElemsDelete ==
  ASSUME NEW N, NEW n \in Nat, n <= MaxTimer, NEW p \in 0 .. n - 1,
         \A j, k \in 0 .. n - 1 : N[j] = N[k] => j = k
  PROVE  Elems(Delete(N, p), n - 1) = Elems(N, n) \ {N[p]}
<1> DEFINE M == Delete(N, p)
<1>1. ASSUME NEW k \in 0 .. n - 2
      PROVE  /\ k < p => k \in 0 .. n - 1 /\ M[k] = N[k]
             /\ k >= p => k + 1 \in 0 .. n - 1 /\ M[k] = N[k + 1]
  <2>1. /\ k \in 0 .. MaxTimer - 1 /\ p \in Nat
        /\ k \in 0 .. n - 1 /\ k + 1 \in 0 .. n - 1
    BY Bounds
  <2> QED BY <2>1, DeleteIndex
<1> HIDE DEF M
<1>2. (n - 1) - 1 = n - 2
  OBVIOUS
<1>3. ASSUME NEW k \in 0 .. n - 2 PROVE M[k] \in Elems(N, n) \ {N[p]}
  <2>1. CASE k < p
    <3>1. k \in 0 .. n - 1 /\ M[k] = N[k] /\ N[k] # N[p]
      BY <1>1, <2>1
    <3> QED BY <3>1 DEF Elems
  <2>2. CASE k >= p
    <3>1. k + 1 \in 0 .. n - 1 /\ M[k] = N[k + 1] /\ k + 1 # p
      BY <1>1, <2>2
    <3>2. N[k + 1] # N[p]
      BY <3>1
    <3> QED BY <3>1, <3>2 DEF Elems
  <2> QED BY <2>1, <2>2
<1>4. ASSUME NEW j \in 0 .. n - 1, N[j] # N[p] PROVE \E k \in 0 .. n - 2 : M[k] = N[j]
  <2>1. CASE j < p
    <3>1. j \in 0 .. n - 2
      BY <2>1
    <3> QED BY <1>1, <2>1, <3>1
  <2>2. CASE j > p
    <3>1. j - 1 \in 0 .. n - 2 /\ j - 1 >= p /\ (j - 1) + 1 = j
      BY <2>2
    <3> QED BY <1>1, <3>1
  <2>3. j # p
    BY <1>4
  <2> QED BY <2>1, <2>2, <2>3
<1> QED BY <1>2, <1>3, <1>4 DEF Elems, M

\* There are n of them; a timer outside of the list leaves room for one more.
LEMMA ElemsCount ==
  ASSUME NEW first, NEW next, NEW prev, NEW N, NEW n, List(first, next, prev, N, n)
  PROVE  /\ n \in Nat /\ n <= MaxTimer
         /\ IsFiniteSet(Elems(N, n)) /\ Cardinality(Elems(N, n)) = n
         /\ Elems(N, n) \subseteq Timer
         /\ \A t \in Timer : t \notin Elems(N, n) => n < MaxTimer
<1>1. /\ n \in Nat /\ n <= MaxTimer
      /\ \A k \in 0 .. n - 1 : N[k] \in Timer
      /\ \A j, k \in 0 .. n - 1 : N[j] = N[k] => j = k
  BY ListFacts
<1>2. Elems(N, n) \subseteq Timer
  BY <1>1 DEF Elems
<1>3. IsFiniteSet(Timer) /\ Cardinality(Timer) = MaxTimer
  <2>1. MaxTimer - 1 \in Int /\ 0 \in Int /\ (MaxTimer - 1) - 0 + 1 = MaxTimer /\ ~ (0 > MaxTimer - 1)
    BY Bounds
  <2> QED BY <2>1, FS_Interval DEF Timer
<1>4. IsFiniteSet(Elems(N, n))
  BY <1>2, <1>3, FS_Subset
<1>5. Cardinality(Elems(N, n)) = n
  <2> DEFINE f == [i \in 1 .. n |-> N[i - 1]]
  <2>1. \A i \in 1 .. n : i - 1 \in 0 .. n - 1 /\ f[i] = N[i - 1]
    BY <1>1
  <2>2. f \in [1 .. n -> Elems(N, n)]
    BY <2>1 DEF Elems
  <2>3. \A i, j \in 1 .. n : f[i] = f[j] => i = j
    <3>1. \A i, j \in 1 .. n : i - 1 = j - 1 => i = j
      BY <1>1
    <3> HIDE DEF f
    <3> QED BY <1>1, <2>1, <3>1
  <2>4. \A e \in Elems(N, n) : \E i \in 1 .. n : f[i] = e
    <3>1. \A k \in 0 .. n - 1 : k + 1 \in 1 .. n /\ (k + 1) - 1 = k
      BY <1>1
    <3> HIDE DEF f
    <3> QED BY <2>1, <3>1 DEF Elems
  <2> HIDE DEF f
  <2>5. f \in Bijection(1 .. n, Elems(N, n))
    BY <2>2, <2>3, <2>4 DEF Bijection, Injection, Surjection, IsInjective
  <2> QED BY <1>1, <2>5, FS_CountingElements DEF ExistsBijection
<1>6. ASSUME NEW t \in Timer, t \notin Elems(N, n) PROVE n < MaxTimer
  <2>1. Cardinality(Timer) = Cardinality(Elems(N, n)) => Timer = Elems(N, n)
    BY <1>2, <1>3, FS_Subset
  <2>2. n # MaxTimer
    BY <1>3, <1>5, <1>6, <2>1
  <2> QED BY <1>1, <2>2, Bounds
<1> QED BY <1>1, <1>2, <1>4, <1>5, <1>6

----------------------------------------------------------------------------
(* Times                                                                   *)

\* How far the interrupt of the k-th timer can be behind those before it.
Slack(k) == (MaxTimer - k) * Latency

LEMMA SlackFacts ==
  /\ \A k \in 0 .. MaxTimer : Slack(k) \in Nat /\ Slack(k) <= Slack(0)
  /\ \A k \in 0 .. MaxTimer - 1 : Slack(k) = Slack(k + 1) + Latency /\ Slack(k) >= Latency
  /\ Slack(0) + Latency = (MaxTimer + 1) * Latency
<1>1. MaxTimer \in Nat /\ Latency \in Nat
  BY TimerServerAssumption DEF TimerServerAssumption
<1>2. ASSUME NEW a \in Nat PROVE a * Latency \in Nat /\ (a + 1) * Latency = a * Latency + Latency
  BY <1>1
<1>3. ASSUME NEW k \in 0 .. MaxTimer PROVE Slack(k) \in Nat
  <2>1. MaxTimer - k \in Nat
    BY <1>1
  <2> QED BY <1>2, <2>1 DEF Slack
<1>4. ASSUME NEW k \in 0 .. MaxTimer - 1
      PROVE  Slack(k) = Slack(k + 1) + Latency /\ Slack(k) >= Latency
  <2>1. MaxTimer - (k + 1) \in Nat /\ (MaxTimer - (k + 1)) + 1 = MaxTimer - k
    BY <1>1
  <2>2. ((MaxTimer - (k + 1)) + 1) * Latency = (MaxTimer - (k + 1)) * Latency + Latency
    BY <1>2, <2>1
  <2>3. Slack(k) = Slack(k + 1) + Latency
    BY <2>1, <2>2 DEF Slack
  <2>4. Slack(k + 1) \in Nat
    BY <1>1, <1>3
  <2> QED BY <1>1, <2>3, <2>4
<1>5. Slack(0) + Latency = (MaxTimer + 1) * Latency
  <2>1. MaxTimer - 0 = MaxTimer
    BY <1>1
  <2> QED BY <1>1, <1>2, <2>1 DEF Slack
<1>6. ASSUME NEW k \in 0 .. MaxTimer PROVE Slack(k) <= Slack(0)
  <2>1. k \in Nat /\ MaxTimer - 0 = (MaxTimer - k) + k /\ MaxTimer - k \in Nat
    BY <1>1
  <2>2. ASSUME NEW a \in Nat, NEW b \in Nat PROVE (a + b) * Latency = a * Latency + b * Latency
    BY <1>1
  <2>3. Slack(0) = Slack(k) + k * Latency
    BY <2>1, <2>2 DEF Slack
  <2>4. k * Latency \in Nat
    BY <1>2, <2>1
  <2>5. Slack(k) \in Nat
    BY <1>3
  <2> QED BY <2>3, <2>4, <2>5
<1> QED BY <1>3, <1>4, <1>5, <1>6

\* The real time a timer has left, when it is left ticks by the program's count.
Exact(left, real) == /\ real \in Int
                     /\ left > 0 => real = left
                     /\ left <= 0 => real <= 0

\* A list with the counts c, e ticks after they were last written: it is sorted,
\* the counts are exact, and the timers are not later than d ticks without an
\* interrupt explain.
Timed(c, e, r, d, N, n) ==
  /\ \A j, k \in 0 .. n - 1 : j <= k => c[N[j]] <= c[N[k]]
  /\ \A k \in 0 .. n - 1 : Exact(c[N[k]] - e, r[N[k]])
  /\ \A k \in 0 .. n - 1 : r[N[k]] + d + Slack(k) >= 0

\* A timer is inserted with m ticks to go, in its place.
LEMMA TimedInsert ==
  ASSUME NEW c \in [Timer -> Nat], NEW e \in Nat, NEW r \in [Timer -> Int \cup {Off}],
         NEW d \in Int, d >= - Latency, NEW N, NEW n \in Nat, n < MaxTimer,
         \A k \in 0 .. n - 1 : N[k] \in Timer,
         NEW t \in Timer, \A k \in 0 .. n - 1 : N[k] # t,
         NEW m \in Nat, m > 0, NEW p \in 0 .. n,
         Timed(c, e, r, d, N, n),
         \A k \in 0 .. n - 1 : k < p => c[N[k]] <= m + e,
         \A k \in 0 .. n - 1 : k >= p => c[N[k]] > m + e
  PROVE  Timed([c EXCEPT ![t] = m + e], e, [r EXCEPT ![t] = m], d, Insert(N, p, t), n + 1)
<1> DEFINE M == Insert(N, p, t)
           c2 == [c EXCEPT ![t] = m + e]
           r2 == [r EXCEPT ![t] = m]
<1>1. \A k \in 0 .. n - 1 : N[k] \in Timer /\ c2[N[k]] = c[N[k]] /\ r2[N[k]] = r[N[k]]
  OBVIOUS
<1>2. c2[t] = m + e /\ r2[t] = m
  OBVIOUS
<1>3. ASSUME NEW k \in 0 .. n
      PROVE  /\ k < p => k \in 0 .. n - 1 /\ M[k] = N[k]
             /\ k = p => M[k] = t
             /\ k > p => k - 1 \in 0 .. n - 1 /\ k - 1 >= p /\ M[k] = N[k - 1]
  <2>1. /\ k \in 0 .. MaxTimer /\ p \in Nat
        /\ k < p => k \in 0 .. n - 1
        /\ k > p => k - 1 \in 0 .. n - 1 /\ k - 1 >= p
    BY Bounds
  <2> QED BY <2>1, InsertIndex
<1>4. (n + 1) - 1 = n
  OBVIOUS
<1> HIDE DEF M, c2, r2
<1>5. ASSUME NEW j \in 0 .. n, NEW k \in 0 .. n, j <= k PROVE c2[M[j]] <= c2[M[k]]
  <2>1. CASE k < p
    <3>1. j < p /\ j \in 0 .. n - 1 /\ k \in 0 .. n - 1
      BY <1>5, <2>1
    <3> QED BY <1>1, <1>3, <1>5, <2>1, <3>1 DEF Timed
  <2>2. CASE k = p
    <3>1. c2[M[k]] = m + e
      BY <1>2, <1>3, <2>2
    <3>2. CASE j < p
      BY <1>1, <1>3, <3>1, <3>2
    <3>3. CASE j = p
      BY <2>2, <3>1, <3>3
    <3> QED BY <1>5, <2>2, <3>2, <3>3
  <2>3. CASE k > p
    <3>1. M[k] = N[k - 1] /\ k - 1 \in 0 .. n - 1 /\ c2[M[k]] = c[N[k - 1]] /\ c[N[k - 1]] > m + e
          /\ c[N[k - 1]] \in Nat
      BY <1>1, <1>3, <2>3
    <3>2. CASE j < p
      <4>1. c2[M[j]] = c[N[j]] /\ c[N[j]] <= m + e /\ c[N[j]] \in Nat
        BY <1>1, <1>3, <3>2
      <4> QED BY <3>1, <4>1
    <3>3. CASE j = p
      BY <1>2, <1>3, <3>1, <3>3
    <3>4. CASE j > p
      <4>1. c2[M[j]] = c[N[j - 1]] /\ j - 1 \in 0 .. n - 1 /\ j - 1 <= k - 1
        BY <1>1, <1>3, <1>5, <3>4
      <4> QED BY <3>1, <4>1 DEF Timed
    <3> QED BY <3>2, <3>3, <3>4
  <2> QED BY <2>1, <2>2, <2>3
<1>6. ASSUME NEW k \in 0 .. n PROVE Exact(c2[M[k]] - e, r2[M[k]])
  <2>1. CASE k < p
    BY <1>1, <1>3, <2>1 DEF Timed
  <2>2. CASE k = p
    BY <1>2, <1>3, <2>2 DEF Exact
  <2>3. CASE k > p
    <3>1. Exact(c[N[k - 1]] - e, r[N[k - 1]])
      BY <1>3, <2>3 DEF Timed
    <3> QED BY <1>1, <1>3, <2>3, <3>1
  <2> QED BY <2>1, <2>2, <2>3
<1>7. ASSUME NEW k \in 0 .. n PROVE r2[M[k]] + d + Slack(k) >= 0
  <2>0. Slack(k) \in Nat /\ Slack(k) >= Latency /\ Latency \in Nat
    <3>1. k \in 0 .. MaxTimer - 1
      BY Bounds
    <3> QED BY <3>1, SlackFacts, TimerServerAssumption DEF TimerServerAssumption
  <2>1. CASE k < p
    BY <1>1, <1>3, <2>1 DEF Timed
  <2>2. CASE k = p
    BY <1>2, <1>3, <2>0, <2>2
  <2>3. CASE k > p
    <3>1. Exact(c[N[k - 1]] - e, r[N[k - 1]]) /\ c[N[k - 1]] > m + e /\ c[N[k - 1]] \in Nat
      BY <1>1, <1>3, <2>3 DEF Timed
    <3>2. r[N[k - 1]] > 0 /\ r[N[k - 1]] \in Int
      BY <3>1 DEF Exact
    <3>3. r2[M[k]] = r[N[k - 1]]
      BY <1>1, <1>3, <2>3
    <3> QED BY <2>0, <3>2, <3>3
  <2> QED BY <2>1, <2>2, <2>3
<1> QED BY <1>4, <1>5, <1>6, <1>7 DEF Timed, M, c2, r2

\* A timer is removed; the first one takes the latency of its interrupt with it.
LEMMA TimedDelete ==
  ASSUME NEW c \in [Timer -> Nat], NEW e \in Nat, NEW r \in [Timer -> Int \cup {Off}],
         NEW d \in Int, NEW N, NEW n \in Nat, n <= MaxTimer,
         \A k \in 0 .. n - 1 : N[k] \in Timer,
         \A j, k \in 0 .. n - 1 : N[j] = N[k] => j = k,
         NEW p \in 0 .. n - 1, NEW v,
         Timed(c, e, r, d, N, n)
  PROVE  /\ Timed(c, e, [r EXCEPT ![N[p]] = v], d, Delete(N, p), n - 1)
         /\ p = 0 => Timed(c, e, [r EXCEPT ![N[p]] = v], d - Latency, Delete(N, p), n - 1)
<1> DEFINE M == Delete(N, p)
           r2 == [r EXCEPT ![N[p]] = v]
           old(k) == IF k < p THEN k ELSE k + 1
<1>0. Latency \in Nat
  BY TimerServerAssumption DEF TimerServerAssumption
<1>1. \A k \in 0 .. n - 1 : k # p => r2[N[k]] = r[N[k]]
  OBVIOUS
<1>2. ASSUME NEW k \in 0 .. n - 2
      PROVE  old(k) \in 0 .. n - 1 /\ M[k] = N[old(k)] /\ old(k) # p /\ old(k) >= k
             /\ (p = 0 => old(k) = k + 1) /\ (old(k) = k \/ old(k) = k + 1)
  <2>1. /\ k < p => k \in 0 .. n - 1 /\ M[k] = N[k]
        /\ k >= p => k + 1 \in 0 .. n - 1 /\ M[k] = N[k + 1]
    <3>1. /\ k \in 0 .. MaxTimer - 1 /\ p \in Nat
          /\ k \in 0 .. n - 1 /\ k + 1 \in 0 .. n - 1
      BY Bounds
    <3> QED BY <3>1, DeleteIndex
  <2> HIDE DEF M
  <2> QED BY <2>1
<1>3. \A j, k \in 0 .. n - 2 : j <= k => old(j) <= old(k)
  OBVIOUS
<1>4. (n - 1) - 1 = n - 2
  OBVIOUS
<1> HIDE DEF M, r2, old
<1>5. \A k \in 0 .. n - 2 : r2[M[k]] = r[N[old(k)]]
  BY <1>1, <1>2
<1>6. ASSUME NEW k \in 0 .. n - 2
      PROVE  /\ r2[M[k]] + d + Slack(k) >= 0
             /\ p = 0 => r2[M[k]] + (d - Latency) + Slack(k) >= 0
  <2>1. r[N[old(k)]] + d + Slack(old(k)) >= 0 /\ r[N[old(k)]] \in Int
    BY <1>2 DEF Timed, Exact
  <2>2. k \in 0 .. MaxTimer - 1 /\ k \in 0 .. MaxTimer /\ k + 1 \in 0 .. MaxTimer
    BY Bounds
  <2>3. Slack(k) = Slack(k + 1) + Latency /\ Slack(k + 1) \in Nat
    BY <2>2, SlackFacts
  <2> QED BY <1>0, <1>2, <1>5, <2>1, <2>3
<1>7. \A j, k \in 0 .. n - 2 : j <= k => c[M[j]] <= c[M[k]]
  BY <1>2, <1>3 DEF Timed
<1>8. \A k \in 0 .. n - 2 : Exact(c[M[k]] - e, r2[M[k]])
  BY <1>2, <1>5 DEF Timed
<1> QED BY <1>4, <1>6, <1>7, <1>8 DEF Timed, M, r2

\* The elapsed ticks are taken off every count.
LEMMA TimedReschedule ==
  ASSUME NEW c \in [Timer -> Nat], NEW e \in Nat, NEW r \in [Timer -> Int \cup {Off}],
         NEW d \in Int, NEW N, NEW n \in Nat,
         \A k \in 0 .. n - 1 : N[k] \in Timer,
         Timed(c, e, r, d, N, n),
         NEW c2, \A k \in 0 .. n - 1 : c2[N[k]] = IF c[N[k]] < e THEN 0 ELSE c[N[k]] - e
  PROVE  Timed(c2, 0, r, d, N, n)
<1>1. \A k \in 0 .. n - 1 : c[N[k]] \in Nat /\ c2[N[k]] \in Nat
  OBVIOUS
<1>2. \A k \in 0 .. n - 1 : Exact(c2[N[k]] - 0, r[N[k]])
  <2> SUFFICES ASSUME NEW k \in 0 .. n - 1 PROVE Exact(c2[N[k]] - 0, r[N[k]])
    OBVIOUS
  <2>1. Exact(c[N[k]] - e, r[N[k]])
    BY DEF Timed
  <2> QED BY <1>1, <2>1 DEF Exact
<1>3. \A j, k \in 0 .. n - 1 : j <= k => c2[N[j]] <= c2[N[k]]
  <2> SUFFICES ASSUME NEW j \in 0 .. n - 1, NEW k \in 0 .. n - 1, j <= k
               PROVE  c2[N[j]] <= c2[N[k]]
    OBVIOUS
  <2>1. c[N[j]] <= c[N[k]]
    BY DEF Timed
  <2> QED BY <1>1, <2>1
<1> QED BY <1>2, <1>3 DEF Timed

\* More ticks without an interrupt explain more.
LEMMA TimedLater ==
  ASSUME NEW c, NEW e, NEW r, NEW d \in Int, NEW d2 \in Int, NEW N, NEW n \in Nat,
         n <= MaxTimer, Timed(c, e, r, d, N, n), d2 >= d
  PROVE  Timed(c, e, r, d2, N, n)
<1>1. ASSUME NEW k \in 0 .. n - 1 PROVE r[N[k]] + d2 + Slack(k) >= 0
  <2>1. r[N[k]] + d + Slack(k) >= 0 /\ r[N[k]] \in Int
    BY DEF Timed, Exact
  <2>2. Slack(k) \in Nat
    BY Bounds, SlackFacts
  <2> QED BY <2>1, <2>2
<1> QED BY <1>1 DEF Timed

\* With time left for every timer, none is late.
LEMMA TimedEarly ==
  ASSUME NEW c, NEW e, NEW r, NEW d, NEW N, NEW n \in Nat, n <= MaxTimer,
         Timed(c, e, r, d, N, n), NEW d2 \in Int, d2 >= - Latency,
         \A k \in 0 .. n - 1 : r[N[k]] + d2 + Latency >= 0
  PROVE  Timed(c, e, r, d2, N, n)
<1>1. ASSUME NEW k \in 0 .. n - 1 PROVE r[N[k]] + d2 + Slack(k) >= 0
  <2>1. r[N[k]] + d2 + Latency >= 0 /\ r[N[k]] \in Int
    BY DEF Timed, Exact
  <2>2. k \in 0 .. MaxTimer - 1 /\ k \in 0 .. MaxTimer
    BY Bounds
  <2>3. Slack(k) \in Nat /\ Slack(k) >= Latency /\ Latency \in Nat
    BY <2>2, SlackFacts, TimerServerAssumption DEF TimerServerAssumption
  <2> QED BY <2>1, <2>3
<1> QED BY <1>1 DEF Timed

\* A tick passes; it explains one tick more, or all timers have time left.
LEMMA TimedTick ==
  ASSUME NEW c \in [Timer -> Nat], NEW e \in Nat, NEW r \in [Timer -> Int \cup {Off}],
         NEW d \in Int, NEW d2 \in Int, NEW N, NEW n \in Nat, n <= MaxTimer,
         \A k \in 0 .. n - 1 : N[k] \in Timer,
         Timed(c, e, r, d, N, n),
         \/ d2 >= d + 1
         \/ d2 >= 0 /\ \A k \in 0 .. n - 1 : r[N[k]] > 0
  PROVE  Timed(c, e + 1, [t \in Timer |-> IF r[t] = Off THEN Off ELSE r[t] - 1], d2, N, n)
<1> DEFINE r2 == [t \in Timer |-> IF r[t] = Off THEN Off ELSE r[t] - 1]
<1>1. ASSUME NEW k \in 0 .. n - 1
      PROVE  /\ r[N[k]] \in Int /\ r2[N[k]] = r[N[k]] - 1
             /\ c[N[k]] \in Nat /\ Slack(k) \in Nat
  <2>1. r[N[k]] \in Int
    BY DEF Timed, Exact
  <2>2. r[N[k]] # Off
    BY <2>1, TimerServerAssumption DEF TimerServerAssumption
  <2>3. Slack(k) \in Nat
    BY Bounds, SlackFacts
  <2> QED BY <2>1, <2>2, <2>3
<1> HIDE DEF r2
<1>2. ASSUME NEW k \in 0 .. n - 1 PROVE Exact(c[N[k]] - (e + 1), r2[N[k]])
  <2>1. Exact(c[N[k]] - e, r[N[k]])
    BY DEF Timed
  <2> QED BY <1>1, <2>1 DEF Exact
<1>3. ASSUME NEW k \in 0 .. n - 1 PROVE r2[N[k]] + d2 + Slack(k) >= 0
  <2>1. r[N[k]] + d + Slack(k) >= 0
    BY DEF Timed
  <2>2. CASE d2 >= d + 1
    BY <1>1, <2>1, <2>2
  <2>3. CASE d2 >= 0 /\ r[N[k]] > 0
    BY <1>1, <2>3
  <2> QED BY <2>2, <2>3
<1> QED BY <1>2, <1>3 DEF Timed, r2

\* The greatest element of a set of numbers below a bound.
LEMMA MaxFacts ==
  ASSUME NEW b \in Nat, NEW S \in SUBSET (0 .. b), S # {}
  PROVE  Max(S) \in S /\ \A k \in S : k <= Max(S)
<1> DEFINE B == {b - k : k \in S}
<1>1. B \subseteq Nat /\ B # {}
  <2>1. \A k \in S : b - k \in Nat
    OBVIOUS
  <2> QED BY <2>1
<1>2. PICK i \in B : \A j \in B : ~ (<<j, i>> \in OpToRel(<, Nat))
  BY <1>1, WFMin, NatLessThanWellFounded
<1>3. \A j \in B : ~ (j < i)
  BY <1>1, <1>2 DEF OpToRel
<1>4. PICK m \in S : i = b - m
  BY <1>2
<1>5. \A k \in S : m >= k
  BY <1>3, <1>4
<1>6. Max(S) \in S /\ \A k \in S : Max(S) >= k
  BY <1>4, <1>5 DEF Max
<1> QED BY <1>6

----------------------------------------------------------------------------
(* The functions on the records                                            *)

State ==
  [TimerIDStatus : [Timer -> {"Free", "Created", "Running"}],
   TimerMode : [Timer -> {"SingleShot", "Repeated"}],
   CounterInit : [Timer -> Nat], CountLeft : [Timer -> Nat],
   NextID : [Timer -> Timer \cup {Nil}], PreviousID : [Timer -> Timer],
   Current : Timer \cup {Nil}, Previous : Timer \cup {Nil},
   SSRValueOnLastSetup : -1 .. Wrap - 1,
   Overpassed : BOOLEAN, wut : 0 .. MaxWakeupTimerSetup, pending : BOOLEAN]

LEMMA WBounds ==
  /\ Wrap \in Nat /\ HandlerMaxDelay \in Nat /\ Latency \in Nat /\ Jitter \in Nat
  /\ Latency <= HandlerMaxDelay /\ MaxWakeupTimerSetup \in Nat
  /\ MaxWakeupTimerSetup > 0 /\ MaxWakeupTimerSetup + Latency <= Wrap - 1
  BY TimerServerAssumption DEF TimerServerAssumption, MaxWakeupTimerSetup

LEMMA ElapsedFacts ==
  ASSUME ssr \in 0 .. Wrap - 1, NEW s \in State
  PROVE  ReturnTimeElapsed(s) \in Nat
  BY WBounds DEF ReturnTimeElapsed, State, SSR_FORBIDDEN_VALUE

\* What UnlinkTimer leaves and changes.
LEMMA UnlinkFields ==
  ASSUME NEW s \in State, NEW t \in Timer, NEW b \in BOOLEAN
  PROVE  LET u == UnlinkTimer(s, t, b) IN
         /\ u \in State
         /\ u.TimerIDStatus = [s.TimerIDStatus EXCEPT ![t] = "Created"]
         /\ u.TimerMode = s.TimerMode /\ u.CounterInit = s.CounterInit
         /\ u.CountLeft = s.CountLeft
         /\ t = s.Current =>
              /\ u.Previous = s.Current /\ u.Current = s.NextID[t]
              /\ u.NextID = s.NextID /\ u.PreviousID = s.PreviousID
         /\ t # s.Current =>
              /\ u.Previous = s.Previous /\ u.Current = s.Current
              /\ u.NextID = [s.NextID EXCEPT ![s.PreviousID[t]] = s.NextID[t]]
              /\ u.PreviousID = [v \in Timer |-> IF v = s.NextID[t] THEN s.PreviousID[t]
                                                 ELSE s.PreviousID[v]]
         /\ u.Current # Nil => u.SSRValueOnLastSetup = s.SSRValueOnLastSetup
<1> DEFINE x == IF t = s.Current
                THEN [s EXCEPT !.Previous = s.Current, !.Current = s.NextID[t]]
                ELSE [s EXCEPT !.NextID[s.PreviousID[t]] = s.NextID[t],
                               !.PreviousID = [v \in Timer |-> IF v = s.NextID[t]
                                                               THEN s.PreviousID[t] ELSE @[v]]]
           y == [x EXCEPT !.TimerIDStatus[t] = "Created"]
           z == [y EXCEPT !.SSRValueOnLastSetup = SSR_FORBIDDEN_VALUE]
<1>1. UnlinkTimer(s, t, b) = IF y.Current = Nil /\ b THEN z ELSE y
  BY DEF UnlinkTimer
<1>2. /\ x \in State
      /\ x.TimerIDStatus = s.TimerIDStatus
      /\ x.TimerMode = s.TimerMode /\ x.CounterInit = s.CounterInit
      /\ x.CountLeft = s.CountLeft
      /\ x.SSRValueOnLastSetup = s.SSRValueOnLastSetup
      /\ t = s.Current =>
           /\ x.Previous = s.Current /\ x.Current = s.NextID[t]
           /\ x.NextID = s.NextID /\ x.PreviousID = s.PreviousID
      /\ t # s.Current =>
           /\ x.Previous = s.Previous /\ x.Current = s.Current
           /\ x.NextID = [s.NextID EXCEPT ![s.PreviousID[t]] = s.NextID[t]]
           /\ x.PreviousID = [v \in Timer |-> IF v = s.NextID[t] THEN s.PreviousID[t]
                                              ELSE s.PreviousID[v]]
  <2>1. CASE t = s.Current
    BY <2>1 DEF State
  <2>2. CASE t # s.Current
    BY <2>2 DEF State
  <2> QED BY <2>1, <2>2
<1> HIDE DEF x
<1>3. /\ y \in State
      /\ y.TimerIDStatus = [x.TimerIDStatus EXCEPT ![t] = "Created"]
      /\ y.TimerMode = x.TimerMode /\ y.CounterInit = x.CounterInit
      /\ y.CountLeft = x.CountLeft
      /\ y.SSRValueOnLastSetup = x.SSRValueOnLastSetup
      /\ y.Previous = x.Previous /\ y.Current = x.Current
      /\ y.NextID = x.NextID /\ y.PreviousID = x.PreviousID
  BY <1>2 DEF State
<1> HIDE DEF y
<1>4. /\ z \in State
      /\ z.TimerIDStatus = y.TimerIDStatus
      /\ z.TimerMode = y.TimerMode /\ z.CounterInit = y.CounterInit
      /\ z.CountLeft = y.CountLeft
      /\ z.Previous = y.Previous /\ z.Current = y.Current
      /\ z.NextID = y.NextID /\ z.PreviousID = y.PreviousID
  <2>1. SSR_FORBIDDEN_VALUE \in -1 .. Wrap - 1
    BY WBounds DEF SSR_FORBIDDEN_VALUE
  <2>2. z \in State
    BY <1>3, <2>1 DEF State
  <2> HIDE DEF y
  <2>3. /\ z.TimerIDStatus = y.TimerIDStatus
        /\ z.TimerMode = y.TimerMode /\ z.CounterInit = y.CounterInit
        /\ z.CountLeft = y.CountLeft
        /\ z.Previous = y.Previous /\ z.Current = y.Current
        /\ z.NextID = y.NextID /\ z.PreviousID = y.PreviousID
    BY <1>3 DEF State
  <2> QED BY <2>2, <2>3
<1> HIDE DEF z
<1>5. CASE y.Current = Nil /\ b
  BY <1>1, <1>2, <1>3, <1>4, <1>5
<1>6. CASE ~ (y.Current = Nil /\ b)
  BY <1>1, <1>2, <1>3, <1>6
<1> QED BY <1>5, <1>6

\* What linkTimer leaves and changes, when the list is empty, when the timer
\* becomes the first one, and when it is linked behind another one.
LEMMA LinkEmpty ==
  ASSUME NEW s \in State, NEW t \in Timer, s.Current = Nil
  PROVE  LET l == linkTimer(s, t) IN
         /\ l \in State
         /\ l.TimerIDStatus = s.TimerIDStatus /\ l.TimerMode = s.TimerMode
         /\ l.CounterInit = s.CounterInit /\ l.CountLeft = s.CountLeft
         /\ l.NextID = [s.NextID EXCEPT ![t] = s.Current] /\ l.PreviousID = s.PreviousID
         /\ l.Current = t /\ l.Previous = Nil
         /\ l.SSRValueOnLastSetup = SSR_FORBIDDEN_VALUE
<1>1. linkTimer(s, t) = [s EXCEPT !.Previous = Nil, !.Current = t, !.NextID[t] = Nil,
                                  !.SSRValueOnLastSetup = SSR_FORBIDDEN_VALUE]
  BY DEF linkTimer
<1>2. SSR_FORBIDDEN_VALUE \in -1 .. Wrap - 1
  BY WBounds DEF SSR_FORBIDDEN_VALUE
<1> DEFINE x == [s EXCEPT !.Previous = Nil, !.Current = t, !.NextID[t] = Nil,
                          !.SSRValueOnLastSetup = SSR_FORBIDDEN_VALUE]
<1>3. x \in State
  BY <1>2 DEF State
<1>4. /\ x.TimerIDStatus = s.TimerIDStatus /\ x.TimerMode = s.TimerMode
      /\ x.CounterInit = s.CounterInit /\ x.CountLeft = s.CountLeft
      /\ x.NextID = [s.NextID EXCEPT ![t] = Nil] /\ x.PreviousID = s.PreviousID
      /\ x.Current = t /\ x.Previous = Nil
      /\ x.SSRValueOnLastSetup = SSR_FORBIDDEN_VALUE
  BY DEF State
<1> HIDE DEF x
<1> QED BY <1>1, <1>3, <1>4 DEF x

\* The record whose list linkTimer extends.
Counted(s, t) == [s EXCEPT !.CountLeft[t] = @ + ReturnTimeElapsed(s)]

LEMMA CountedFields ==
  ASSUME ssr \in 0 .. Wrap - 1, NEW s \in State, NEW t \in Timer
  PROVE  LET l == Counted(s, t) IN
         /\ l \in State
         /\ l.TimerIDStatus = s.TimerIDStatus /\ l.TimerMode = s.TimerMode
         /\ l.CounterInit = s.CounterInit
         /\ l.CountLeft = [s.CountLeft EXCEPT ![t] = s.CountLeft[t] + ReturnTimeElapsed(s)]
         /\ l.NextID = s.NextID /\ l.PreviousID = s.PreviousID
         /\ l.Current = s.Current /\ l.Previous = s.Previous
         /\ l.SSRValueOnLastSetup = s.SSRValueOnLastSetup
  BY ElapsedFacts DEF Counted, State

LEMMA LinkFirst ==
  ASSUME ssr \in 0 .. Wrap - 1, NEW s \in State, NEW t \in Timer, s.Current \in Timer,
         LET l == Counted(s, t) IN ~ (l.CountLeft[s.Current] <= l.CountLeft[t])
  PROVE  LET l == linkTimer(s, t)  m == Counted(s, t) IN
         /\ l \in State
         /\ l.TimerIDStatus = s.TimerIDStatus /\ l.TimerMode = s.TimerMode
         /\ l.CounterInit = s.CounterInit /\ l.CountLeft = m.CountLeft
         /\ l.NextID = [s.NextID EXCEPT ![t] = s.Current]
         /\ l.PreviousID = [s.PreviousID EXCEPT ![s.Current] = t]
         /\ l.Current = t /\ l.Previous = s.Current
         /\ l.SSRValueOnLastSetup = s.SSRValueOnLastSetup
<1> DEFINE l == Counted(s, t)
<1>1. /\ l \in State
      /\ l.TimerIDStatus = s.TimerIDStatus /\ l.TimerMode = s.TimerMode
      /\ l.CounterInit = s.CounterInit
      /\ l.NextID = s.NextID /\ l.PreviousID = s.PreviousID
      /\ l.Current = s.Current /\ l.Previous = s.Previous
      /\ l.SSRValueOnLastSetup = s.SSRValueOnLastSetup
  BY CountedFields
<1>2. linkTimer(s, t) = [LinkTimerBefore(l, t, l.Current) EXCEPT !.Previous = l.Current, !.Current = t]
  BY <1>1, Bounds DEF linkTimer, Counted
<1> HIDE DEF l
<1>3. linkTimer(s, t) = [l EXCEPT !.NextID[t] = s.Current, !.PreviousID[s.Current] = t,
                                  !.Previous = s.Current, !.Current = t]
  BY <1>1, <1>2 DEF LinkTimerBefore
<1>4. LET x == [l EXCEPT !.NextID[t] = s.Current, !.PreviousID[s.Current] = t,
                         !.Previous = s.Current, !.Current = t] IN
      /\ x \in State
      /\ x.TimerIDStatus = l.TimerIDStatus /\ x.TimerMode = l.TimerMode
      /\ x.CounterInit = l.CounterInit /\ x.CountLeft = l.CountLeft
      /\ x.NextID = [l.NextID EXCEPT ![t] = s.Current]
      /\ x.PreviousID = [l.PreviousID EXCEPT ![s.Current] = t]
      /\ x.Current = t /\ x.Previous = s.Current
      /\ x.SSRValueOnLastSetup = l.SSRValueOnLastSetup
  BY <1>1 DEF State
<1> QED BY <1>1, <1>3, <1>4 DEF l

LEMMA LinkBehind ==
  ASSUME ssr \in 0 .. Wrap - 1, NEW s \in State, NEW t \in Timer, s.Current \in Timer,
         LET l == Counted(s, t) IN
         /\ l.CountLeft[s.Current] <= l.CountLeft[t]
         /\ LastNotAfter(l, l.CountLeft[t]) \in Timer
  PROVE  LET l == linkTimer(s, t)  m == Counted(s, t)
             ref == LastNotAfter(m, m.CountLeft[t])
         IN
         /\ l \in State
         /\ l.TimerIDStatus = s.TimerIDStatus /\ l.TimerMode = s.TimerMode
         /\ l.CounterInit = s.CounterInit /\ l.CountLeft = m.CountLeft
         /\ l.NextID = [[s.NextID EXCEPT ![t] = s.NextID[ref]] EXCEPT ![ref] = t]
         /\ l.PreviousID = [u \in Timer |-> IF u = t THEN ref
                                            ELSE IF u = s.NextID[ref] THEN t ELSE s.PreviousID[u]]
         /\ l.Current = s.Current /\ l.Previous = s.Previous
         /\ l.SSRValueOnLastSetup = s.SSRValueOnLastSetup
<1> DEFINE l == Counted(s, t)
           ref == LastNotAfter(l, l.CountLeft[t])
<1>1. /\ l \in State
      /\ l.TimerIDStatus = s.TimerIDStatus /\ l.TimerMode = s.TimerMode
      /\ l.CounterInit = s.CounterInit
      /\ l.NextID = s.NextID /\ l.PreviousID = s.PreviousID
      /\ l.Current = s.Current /\ l.Previous = s.Previous
      /\ l.SSRValueOnLastSetup = s.SSRValueOnLastSetup
  BY CountedFields
<1>2. linkTimer(s, t) = LinkTimerAfter(l, t, ref)
  BY <1>1, Bounds DEF linkTimer, Counted
<1>3. ref \in Timer
  OBVIOUS
<1> HIDE DEF l, ref
<1> DEFINE P == [u \in Timer |-> IF u = t THEN ref
                                 ELSE IF u = s.NextID[ref] THEN t ELSE s.PreviousID[u]]
<1>4. linkTimer(s, t) = [l EXCEPT !.NextID[t] = s.NextID[ref], !.NextID[ref] = t, !.PreviousID = P]
  BY <1>1, <1>2 DEF LinkTimerAfter
<1>5. P \in [Timer -> Timer]
  BY <1>1, <1>3 DEF State
<1> HIDE DEF P
<1>6. LET x == [l EXCEPT !.NextID[t] = s.NextID[ref], !.NextID[ref] = t, !.PreviousID = P] IN
      /\ x \in State
      /\ x.TimerIDStatus = l.TimerIDStatus /\ x.TimerMode = l.TimerMode
      /\ x.CounterInit = l.CounterInit /\ x.CountLeft = l.CountLeft
      /\ x.NextID = [[l.NextID EXCEPT ![t] = s.NextID[ref]] EXCEPT ![ref] = t]
      /\ x.PreviousID = P
      /\ x.Current = l.Current /\ x.Previous = l.Previous
      /\ x.SSRValueOnLastSetup = l.SSRValueOnLastSetup
  BY <1>1, <1>3, <1>5 DEF State
<1> QED BY <1>1, <1>4, <1>6 DEF l, ref, P

\* The list is not the counter.
LEMMA ListNotCounter ==
  ASSUME NEW s \in State, NEW t \in Timer
  PROVE  /\ \A b \in BOOLEAN : LET u == UnlinkTimer(s, t, b) IN
                              u.wut = s.wut /\ u.pending = s.pending
         /\ LET l == linkTimer(s, t) IN
            /\ l.wut = s.wut /\ l.pending = s.pending
            /\ l.SSRValueOnLastSetup = IF s.Current = Nil THEN SSR_FORBIDDEN_VALUE
                                       ELSE s.SSRValueOnLastSetup
<1>1. ASSUME NEW b \in BOOLEAN
      PROVE  LET u == UnlinkTimer(s, t, b) IN u.wut = s.wut /\ u.pending = s.pending
  BY Zenon DEF State, UnlinkTimer
<1>2. LET l == linkTimer(s, t) IN l.wut = s.wut /\ l.pending = s.pending
  BY Zenon DEF State, linkTimer, LinkTimerAfter, LinkTimerBefore
<1>3. LET l == linkTimer(s, t) IN
      l.SSRValueOnLastSetup = IF s.Current = Nil THEN SSR_FORBIDDEN_VALUE
                              ELSE s.SSRValueOnLastSetup
  BY Zenon DEF State, linkTimer, LinkTimerAfter, LinkTimerBefore
<1> QED BY <1>1, <1>2, <1>3

----------------------------------------------------------------------------
(* The critical sections                                                   *)

\* The list, enumerated by N, holds the running timers; r is what is left to
\* count for each of them.
Shape(s, r, N, n) ==
  /\ s \in State /\ r \in [Timer -> Int \cup {Off}]
  /\ List(s.Current, s.NextID, s.PreviousID, N, n)
  /\ Elems(N, n) = {t \in Timer : s.TimerIDStatus[t] = "Running"}
  /\ \A t \in Timer : r[t] = Off <=> s.TimerIDStatus[t] # "Running"
  /\ \A t \in Timer : s.TimerIDStatus[t] = "Running" => s.CounterInit[t] > 0
  /\ n > 0 => s.Previous # s.Current

\* Its counts are exact.
Consistent(s, r, d, N, n) ==
  Shape(s, r, N, n) /\ Timed(s.CountLeft, ReturnTimeElapsed(s), r, d, N, n)

\* UnlinkTimer keeps the list of the others consistent.
LEMMA Unlinked ==
  ASSUME ssr \in 0 .. Wrap - 1, NEW s, NEW r, NEW d \in Int, NEW N, NEW n,
         Consistent(s, r, d, N, n),
         NEW t \in Timer, s.TimerIDStatus[t] = "Running", NEW b \in BOOLEAN
  PROVE  \E p \in 0 .. n - 1 :
           LET u == UnlinkTimer(s, t, b)  r2 == [r EXCEPT ![t] = Off] IN
           /\ Consistent(u, r2, d, Delete(N, p), n - 1)
           /\ t = s.Current => Consistent(u, r2, d - Latency, Delete(N, p), n - 1)
<1> DEFINE u  == UnlinkTimer(s, t, b)
           r2 == [r EXCEPT ![t] = Off]
           e  == ReturnTimeElapsed(s)
<1>1. s \in State /\ r \in [Timer -> Int \cup {Off}] /\ e \in Nat
      /\ s.NextID \in [Timer -> Timer \cup {Nil}] /\ s.PreviousID \in [Timer -> Timer]
      /\ s.CountLeft \in [Timer -> Nat]
      /\ s.TimerIDStatus \in [Timer -> {"Free", "Created", "Running"}]
  BY ElapsedFacts DEF Consistent, Shape, State
<1>2. /\ u \in State
      /\ u.TimerIDStatus = [s.TimerIDStatus EXCEPT ![t] = "Created"]
      /\ u.CounterInit = s.CounterInit /\ u.CountLeft = s.CountLeft
      /\ t = s.Current =>
           /\ u.Previous = s.Current /\ u.Current = s.NextID[t]
           /\ u.NextID = s.NextID /\ u.PreviousID = s.PreviousID
      /\ t # s.Current =>
           /\ u.Previous = s.Previous /\ u.Current = s.Current
           /\ u.NextID = [s.NextID EXCEPT ![s.PreviousID[t]] = s.NextID[t]]
           /\ u.PreviousID = [v \in Timer |-> IF v = s.NextID[t] THEN s.PreviousID[t]
                                              ELSE s.PreviousID[v]]
      /\ u.Current # Nil => u.SSRValueOnLastSetup = s.SSRValueOnLastSetup
  BY <1>1, UnlinkFields, SMTT(30)
<1> HIDE DEF u
<1>3. PICK p \in 0 .. n - 1 : N[p] = t
  BY DEF Consistent, Shape, Elems
<1>4. /\ n \in Nat /\ n <= MaxTimer
      /\ \A k \in 0 .. n - 1 : N[k] \in Timer
      /\ \A j, k \in 0 .. n - 1 : N[j] = N[k] => j = k
      /\ N[0] = s.Current
      /\ \A k \in 0 .. n - 1 : s.NextID[N[k]] = N[k + 1]
  BY ListFacts DEF Consistent, Shape
<1>5. n > 0 /\ 0 \in 0 .. n - 1 /\ (t = s.Current <=> p = 0)
  BY <1>3, <1>4
<1> DEFINE M == Delete(N, p)
<1>6. List(u.Current, u.NextID, u.PreviousID, M, n - 1)
  <2>1. List(s.Current, s.NextID, s.PreviousID, N, n)
    BY DEF Consistent, Shape
  <2>2. CASE p = 0
    BY <1>1, <1>2, <1>4, <1>5, <2>1, <2>2, <1>3, DeleteFirst
  <2>3. CASE p # 0
    <3>1. p \in 1 .. n - 1
      BY <1>4, <2>3
    <3>2. List(s.Current, [s.NextID EXCEPT ![s.PreviousID[N[p]]] = s.NextID[N[p]]],
               [v \in Timer |-> IF v = s.NextID[N[p]] THEN s.PreviousID[N[p]] ELSE s.PreviousID[v]],
               M, n - 1)
      BY <1>1, <2>1, <3>1, DeleteBehind
    <3> QED BY <1>2, <1>3, <1>5, <2>3, <3>2
  <2> QED BY <2>2, <2>3
<1>7. Elems(M, n - 1) = {v \in Timer : u.TimerIDStatus[v] = "Running"}
  <2>1. Elems(M, n - 1) = Elems(N, n) \ {t}
    <3>1. Elems(Delete(N, p), n - 1) = Elems(N, n) \ {N[p]}
      <4>1. /\ n \in Nat /\ n <= MaxTimer
            /\ \A j, k \in 0 .. n - 1 : N[j] = N[k] => j = k
        BY <1>4
      <4> QED BY <4>1, ElemsDelete
    <3> QED BY <1>3, <3>1
  <2>2. Elems(N, n) = {v \in Timer : s.TimerIDStatus[v] = "Running"}
    BY DEF Consistent, Shape
  <2> QED BY <1>1, <1>2, <2>1, <2>2
<1> HIDE DEF M
<1>8. /\ r2 \in [Timer -> Int \cup {Off}]
      /\ \A v \in Timer : r2[v] = Off <=> u.TimerIDStatus[v] # "Running"
      /\ \A v \in Timer : u.TimerIDStatus[v] = "Running" => u.CounterInit[v] > 0
  BY <1>1, <1>2 DEF Consistent, Shape
<1> HIDE DEF r2
<1>9. n - 1 > 0 => u.Previous # u.Current
  <2> SUFFICES ASSUME n - 1 > 0 PROVE u.Previous # u.Current
    OBVIOUS
  <2>1. 1 \in 0 .. n - 1 /\ N[1] # N[0] /\ s.NextID[N[0]] = N[1]
    <3>1. 1 \in 0 .. n - 1 /\ 1 # 0 /\ 0 + 1 = 1
      BY <1>4
    <3> QED BY <1>4, <1>5, <3>1
  <2> QED BY <1>2, <1>3, <1>4, <1>5, <2>1 DEF Consistent, Shape
<1>10. n - 1 > 0 => ReturnTimeElapsed(u) = e
  <2>1. n - 1 > 0 => u.Current \in Timer
    BY <1>4, <1>6, ListFacts
  <2> QED BY <1>2, <2>1, Bounds DEF ReturnTimeElapsed
<1>11. ASSUME NEW d2, Timed(s.CountLeft, e, r2, d2, M, n - 1)
       PROVE  Timed(u.CountLeft, ReturnTimeElapsed(u), r2, d2, M, n - 1)
  <2>1. CASE n - 1 > 0
    BY <1>2, <1>10, <1>11, <2>1
  <2>2. CASE ~ (n - 1 > 0)
    <3>1. \A k \in 0 .. (n - 1) - 1 : FALSE
      BY <1>4, <2>2
    <3> QED BY <3>1 DEF Timed
  <2> QED BY <2>1, <2>2
<1>12. /\ Timed(s.CountLeft, e, r2, d, M, n - 1)
       /\ p = 0 => Timed(s.CountLeft, e, r2, d - Latency, M, n - 1)
  <2>1. Timed(s.CountLeft, e, r, d, N, n)
    BY DEF Consistent, Shape
  <2> HIDE DEF e
  <2> QED BY <1>1, <1>3, <1>4, <2>1, TimedDelete DEF M, r2
<1>13. /\ Consistent(u, r2, d, M, n - 1)
       /\ t = s.Current => Consistent(u, r2, d - Latency, M, n - 1)
  BY <1>2, <1>5, <1>6, <1>7, <1>8, <1>9, <1>11, <1>12 DEF Consistent, Shape
<1> QED BY <1>13 DEF u, r2, M

\* The walk of linkTimer stops at the last timer that is not due after x.
LEMMA LastFacts ==
  ASSUME NEW s, s.CountLeft \in [Timer -> Nat], NEW N, NEW n,
         List(s.Current, s.NextID, s.PreviousID, N, n), n > 0,
         \A j, k \in 0 .. n - 1 : j <= k => s.CountLeft[N[j]] <= s.CountLeft[N[k]],
         NEW x \in Nat, s.CountLeft[N[0]] <= x
  PROVE  \E p \in 0 .. n - 1 :
           /\ LastNotAfter(s, x) = N[p]
           /\ \A k \in 0 .. n - 1 : k <= p => s.CountLeft[N[k]] <= x
           /\ \A k \in 0 .. n - 1 : k > p => s.CountLeft[N[k]] > x
<1> DEFINE S == {k \in 0 .. MaxTimer - 1 :
                   \A j \in 0 .. k : Node(s)[j] # Nil /\ s.CountLeft[Node(s)[j]] <= x}
<1>1. /\ n \in Nat /\ n <= MaxTimer
      /\ \A k \in 0 .. n - 1 : N[k] \in Timer
      /\ \A k \in 0 .. MaxTimer : k >= n => N[k] = Nil
  BY ListFacts
<1>2. Node(s) = N
  BY NodeIs
<1>3. 0 \in S
  <2>1. 0 \in 0 .. MaxTimer - 1 /\ 0 \in 0 .. n - 1 /\ \A j \in 0 .. 0 : j = 0
    BY <1>1, Bounds
  <2> QED BY <1>1, <1>2, <2>1, Bounds
<1>4. Max(S) \in S /\ \A k \in S : k <= Max(S)
  <2>1. MaxTimer - 1 \in Nat /\ S \in SUBSET (0 .. MaxTimer - 1)
    BY Bounds
  <2> HIDE DEF S
  <2> QED BY <1>3, <2>1, MaxFacts
<1> DEFINE p == Max(S)
<1>5. LastNotAfter(s, x) = N[p]
  BY <1>2 DEF LastNotAfter
<1>6. p \in 0 .. MaxTimer - 1 /\ \A j \in 0 .. p : N[j] # Nil /\ s.CountLeft[N[j]] <= x
  BY <1>2, <1>4
<1>7. \A k \in 0 .. MaxTimer - 1 : k > p => \E j \in 0 .. k : ~ (N[j] # Nil /\ s.CountLeft[N[j]] <= x)
  <2> SUFFICES ASSUME NEW k \in 0 .. MaxTimer - 1, k > p,
                      \A j \in 0 .. k : N[j] # Nil /\ s.CountLeft[N[j]] <= x
               PROVE  FALSE
    OBVIOUS
  <2>1. k \in S
    BY <1>2
  <2> HIDE DEF S
  <2> QED BY <1>4, <1>6, <2>1, Bounds
<1> HIDE DEF S, p
<1>8. p \in 0 .. n - 1
  <2>1. p \in 0 .. p /\ p \in 0 .. MaxTimer
    BY <1>6, Bounds
  <2> QED BY <1>1, <1>6, <2>1
<1>9. \A k \in 0 .. n - 1 : k <= p => s.CountLeft[N[k]] <= x
  BY <1>1, <1>6, <1>8
<1>10. ASSUME NEW k \in 0 .. n - 1, k > p PROVE s.CountLeft[N[k]] > x
  <2>1. p + 1 \in 0 .. n - 1 /\ p + 1 \in 0 .. MaxTimer - 1 /\ p + 1 > p /\ p + 1 <= k
    BY <1>1, <1>8, <1>10, Bounds
  <2>2. PICK j \in 0 .. p + 1 : ~ (N[j] # Nil /\ s.CountLeft[N[j]] <= x)
    BY <1>7, <2>1
  <2>3. j = p + 1
    <3>1. j \in 0 .. p \/ j = p + 1
      BY <1>8
    <3> QED BY <1>6, <2>2, <3>1
  <2>4. N[p + 1] \in Timer /\ N[p + 1] # Nil
    BY <1>1, <2>1, Bounds
  <2>5. s.CountLeft[N[p + 1]] \in Nat /\ s.CountLeft[N[k]] \in Nat
    BY <1>1, <2>4
  <2>6. s.CountLeft[N[p + 1]] <= s.CountLeft[N[k]]
    BY <2>1
  <2> QED BY <2>2, <2>3, <2>4, <2>5, <2>6
<1> QED BY <1>5, <1>8, <1>9, <1>10

\* The record that linkTimer is called with.
Marked(s, t, m) == [s EXCEPT !.TimerIDStatus[t] = "Running", !.CountLeft[t] = m, !.CounterInit[t] = m]

LEMMA MarkedFields ==
  ASSUME NEW s \in State, NEW t \in Timer, NEW m \in Nat
  PROVE  LET q == Marked(s, t, m) IN
         /\ q \in State
         /\ q.TimerIDStatus = [s.TimerIDStatus EXCEPT ![t] = "Running"]
         /\ q.CounterInit = [s.CounterInit EXCEPT ![t] = m]
         /\ q.CountLeft = [s.CountLeft EXCEPT ![t] = m]
         /\ q.NextID = s.NextID /\ q.PreviousID = s.PreviousID
         /\ q.Current = s.Current /\ q.Previous = s.Previous
         /\ q.SSRValueOnLastSetup = s.SSRValueOnLastSetup
  BY DEF Marked, State

\* linkTimer keeps the list consistent and adds a timer with m ticks to go.
LEMMA Linked ==
  ASSUME ssr \in 0 .. Wrap - 1, NEW s, NEW r, NEW d \in Int, d >= - Latency, NEW N, NEW n,
         Consistent(s, r, d, N, n),
         NEW t \in Timer, s.TimerIDStatus[t] # "Running", NEW m \in Nat, m > 0
  PROVE  LET l == linkTimer(Marked(s, t, m), t) IN
         /\ \E p \in 0 .. n : Consistent(l, [r EXCEPT ![t] = m], d, Insert(N, p, t), n + 1)
         /\ l.TimerIDStatus = [s.TimerIDStatus EXCEPT ![t] = "Running"]
<1> DEFINE q  == Marked(s, t, m)
           l  == linkTimer(q, t)
           r2 == [r EXCEPT ![t] = m]
           e  == ReturnTimeElapsed(q)
           c2 == [s.CountLeft EXCEPT ![t] = m + e]
<1>1. s \in State /\ r \in [Timer -> Int \cup {Off}]
      /\ s.NextID \in [Timer -> Timer \cup {Nil}] /\ s.PreviousID \in [Timer -> Timer]
      /\ s.CountLeft \in [Timer -> Nat] /\ s.CounterInit \in [Timer -> Nat]
      /\ s.TimerIDStatus \in [Timer -> {"Free", "Created", "Running"}]
  BY DEF Consistent, Shape, State
<1>2. /\ q \in State
      /\ q.TimerIDStatus = [s.TimerIDStatus EXCEPT ![t] = "Running"]
      /\ q.CounterInit = [s.CounterInit EXCEPT ![t] = m]
      /\ q.CountLeft = [s.CountLeft EXCEPT ![t] = m]
      /\ q.NextID = s.NextID /\ q.PreviousID = s.PreviousID
      /\ q.Current = s.Current /\ q.Previous = s.Previous
      /\ q.SSRValueOnLastSetup = s.SSRValueOnLastSetup
  <2>1. s \in State
    BY <1>1
  <2> QED BY <2>1, MarkedFields
<1> HIDE DEF q
<1>3. e \in Nat /\ e = ReturnTimeElapsed(s)
  BY <1>2, ElapsedFacts DEF ReturnTimeElapsed
<1>4. /\ n \in Nat /\ n <= MaxTimer
      /\ \A k \in 0 .. n - 1 : N[k] \in Timer
      /\ \A k \in 0 .. MaxTimer : k >= n => N[k] = Nil
      /\ N[0] = s.Current
  BY ListFacts DEF Consistent, Shape
<1>5. t \notin Elems(N, n) /\ n < MaxTimer
  BY <1>1, ElemsCount DEF Consistent, Shape
<1>6. \A k \in 0 .. n - 1 : N[k] # t
  BY <1>5 DEF Elems
<1>7. List(s.Current, s.NextID, s.PreviousID, N, n) /\ Timed(s.CountLeft, e, r, d, N, n)
  BY <1>3 DEF Consistent, Shape
<1> HIDE DEF l, e
\* What is left to show, given what the three cases leave.
<1>8. ASSUME NEW p \in 0 .. n,
             l \in State, l.TimerIDStatus = q.TimerIDStatus, l.CounterInit = q.CounterInit,
             l.Previous # l.Current,
             List(l.Current, l.NextID, l.PreviousID, Insert(N, p, t), n + 1),
             Timed(l.CountLeft, ReturnTimeElapsed(l), r2, d, Insert(N, p, t), n + 1)
      PROVE  /\ Consistent(l, r2, d, Insert(N, p, t), n + 1)
             /\ l.TimerIDStatus = [s.TimerIDStatus EXCEPT ![t] = "Running"]
  <2>1. Elems(Insert(N, p, t), n + 1) = {v \in Timer : l.TimerIDStatus[v] = "Running"}
    <3>1. Elems(Insert(N, p, t), n + 1) = Elems(N, n) \cup {t}
      BY <1>4, <1>5, ElemsInsert
    <3>2. Elems(N, n) = {v \in Timer : s.TimerIDStatus[v] = "Running"}
      BY DEF Consistent, Shape
    <3> QED BY <1>1, <1>2, <1>8, <3>1, <3>2
  <2>2. /\ r2 \in [Timer -> Int \cup {Off}]
        /\ \A v \in Timer : r2[v] = Off <=> l.TimerIDStatus[v] # "Running"
        /\ \A v \in Timer : l.TimerIDStatus[v] = "Running" => l.CounterInit[v] > 0
    <3>1. m # Off
      BY TimerServerAssumption DEF TimerServerAssumption
    <3> QED BY <1>1, <1>2, <1>8, <3>1 DEF Consistent, Shape
  <2> HIDE DEF r2
  <2> QED BY <1>2, <1>8, <2>1, <2>2 DEF Consistent, Shape
<1>9. CASE n = 0
  <2>1. s.Current = Nil
    BY <1>4, <1>9, Bounds
  <2>2. /\ l \in State /\ l.TimerIDStatus = q.TimerIDStatus /\ l.CounterInit = q.CounterInit
        /\ l.CountLeft = [s.CountLeft EXCEPT ![t] = m]
        /\ l.NextID = [s.NextID EXCEPT ![t] = s.Current] /\ l.PreviousID = s.PreviousID
        /\ l.Current = t /\ l.Previous = Nil /\ l.SSRValueOnLastSetup = SSR_FORBIDDEN_VALUE
    <3>1. q \in State /\ q.Current = Nil
      BY <1>2, <2>1
    <3>2. /\ l \in State /\ l.TimerIDStatus = q.TimerIDStatus /\ l.CounterInit = q.CounterInit
          /\ l.CountLeft = q.CountLeft
          /\ l.NextID = [q.NextID EXCEPT ![t] = q.Current] /\ l.PreviousID = q.PreviousID
          /\ l.Current = t /\ l.Previous = Nil /\ l.SSRValueOnLastSetup = SSR_FORBIDDEN_VALUE
      BY <3>1, LinkEmpty DEF l
    <3> QED BY <1>2, <3>2
  <2>3. List(l.Current, l.NextID, l.PreviousID, Insert(N, 0, t), n + 1)
    <3>1. List(s.Current, s.NextID, s.PreviousID, N, n)
      BY <1>7
    <3>2. ~ (n > 0)
      BY <1>9
    <3>3. List(t, [s.NextID EXCEPT ![t] = s.Current], s.PreviousID, Insert(N, 0, t), n + 1)
      BY <1>1, <1>5, <1>6, <3>1, <3>2, InsertFirst
    <3> QED BY <2>2, <3>3
  <2>4. ReturnTimeElapsed(l) = 0
    BY <2>2 DEF ReturnTimeElapsed
  <2>5. Timed([s.CountLeft EXCEPT ![t] = m + 0], 0, r2, d, Insert(N, 0, t), n + 1)
    <3>1. \A k \in 0 .. n - 1 : FALSE
      BY <1>9
    <3>2. Timed(s.CountLeft, 0, r, d, N, n)
      BY <3>1 DEF Timed
    <3>3. n \in Nat /\ 0 \in 0 .. n /\ 0 \in Nat
      BY <1>9
    <3> QED BY <1>1, <1>5, <3>1, <3>2, <3>3, TimedInsert
  <2>6. m + 0 = m /\ 0 \in 0 .. n
    BY <1>9
  <2> QED BY <1>8, <2>2, <2>3, <2>4, <2>5, <2>6, Bounds DEF l, q
<1>10. CASE n # 0
  <2>1. s.Current \in Timer /\ n > 0 /\ 0 \in 0 .. n - 1 /\ s.Current # t
    BY <1>4, <1>6, <1>10
  <2> DEFINE k == Counted(q, t)
  <2>2. /\ k \in State /\ k.CountLeft = c2
        /\ k.NextID = s.NextID /\ k.PreviousID = s.PreviousID /\ k.Current = s.Current
    BY <1>1, <1>2, CountedFields DEF e
  <2>3. /\ c2 \in [Timer -> Nat] /\ c2[t] = m + e
        /\ \A i \in 0 .. n - 1 : c2[N[i]] = s.CountLeft[N[i]]
    BY <1>1, <1>3, <1>4, <1>6
  <2>4. \A i, j \in 0 .. n - 1 : i <= j => c2[N[i]] <= c2[N[j]]
    BY <1>7, <2>3 DEF Timed
  <2> HIDE DEF k, c2
  <2>5. ASSUME NEW p \in 0 .. n, l.CountLeft = c2,
               l.SSRValueOnLastSetup = s.SSRValueOnLastSetup,
               \A i \in 0 .. n - 1 : i < p => c2[N[i]] <= m + e,
               \A i \in 0 .. n - 1 : i >= p => c2[N[i]] > m + e
        PROVE  Timed(l.CountLeft, ReturnTimeElapsed(l), r2, d, Insert(N, p, t), n + 1)
    <3>1. ReturnTimeElapsed(l) = e
      BY <1>3, <2>5 DEF ReturnTimeElapsed
    <3>2. Timed(c2, e, r2, d, Insert(N, p, t), n + 1)
      BY <1>1, <1>3, <1>4, <1>5, <1>6, <1>7, <2>3, <2>5, TimedInsert DEF c2
    <3> QED BY <2>5, <3>1, <3>2
  <2>6. CASE ~ (c2[s.Current] <= c2[t])
    <3>1. /\ l \in State /\ l.TimerIDStatus = q.TimerIDStatus /\ l.CounterInit = q.CounterInit
          /\ l.CountLeft = c2
          /\ l.NextID = [s.NextID EXCEPT ![t] = s.Current]
          /\ l.PreviousID = [s.PreviousID EXCEPT ![s.Current] = t]
          /\ l.Current = t /\ l.Previous = s.Current
          /\ l.SSRValueOnLastSetup = s.SSRValueOnLastSetup
      <4>1. ~ (k.CountLeft[q.Current] <= k.CountLeft[t]) /\ q.Current \in Timer
        BY <1>2, <2>1, <2>2, <2>6
      <4>2. /\ l \in State
            /\ l.TimerIDStatus = q.TimerIDStatus
            /\ l.CounterInit = q.CounterInit /\ l.CountLeft = k.CountLeft
            /\ l.NextID = [q.NextID EXCEPT ![t] = q.Current]
            /\ l.PreviousID = [q.PreviousID EXCEPT ![q.Current] = t]
            /\ l.Current = t /\ l.Previous = q.Current
            /\ l.SSRValueOnLastSetup = q.SSRValueOnLastSetup
        <5>1. q \in State
          BY <1>2
        <5> QED BY <4>1, <5>1, LinkFirst DEF l, k
      <4> QED BY <1>2, <2>2, <4>2
    <3>2. List(l.Current, l.NextID, l.PreviousID, Insert(N, 0, t), n + 1)
      BY <1>1, <1>5, <1>6, <1>7, <3>1, InsertFirst
    <3>3. \A i \in 0 .. n - 1 : c2[N[i]] > m + e
      <4> SUFFICES ASSUME NEW i \in 0 .. n - 1 PROVE c2[N[i]] > m + e
        OBVIOUS
      <4>1. c2[N[0]] <= c2[N[i]] /\ c2[N[0]] \in Nat /\ c2[N[i]] \in Nat
        BY <1>4, <2>1, <2>3, <2>4
      <4> QED BY <1>3, <1>4, <2>3, <2>6, <4>1
    <3>4. 0 \in 0 .. n /\ \A i \in 0 .. n - 1 : ~ (i < 0)
      BY <1>4
    <3>5. Timed(l.CountLeft, ReturnTimeElapsed(l), r2, d, Insert(N, 0, t), n + 1)
      BY <2>5, <3>1, <3>3, <3>4
    <3> QED BY <1>8, <2>1, <3>1, <3>2, <3>4, <3>5 DEF l, q
  <2>7. CASE c2[s.Current] <= c2[t]
    <3>1. PICK p \in 0 .. n - 1 :
            /\ LastNotAfter(k, c2[t]) = N[p]
            /\ \A i \in 0 .. n - 1 : i <= p => c2[N[i]] <= m + e
            /\ \A i \in 0 .. n - 1 : i > p => c2[N[i]] > m + e
      <4>1. List(k.Current, k.NextID, k.PreviousID, N, n) /\ m + e \in Nat
        BY <1>3, <1>7, <2>2
      <4>2. c2[N[0]] <= m + e
        BY <1>4, <2>3, <2>7
      <4> QED BY <2>1, <2>2, <2>3, <2>4, <4>1, <4>2, LastFacts, SMTT(30)
    <3>2. N[p] \in Timer
      BY <1>4
    <3>3. /\ l \in State /\ l.TimerIDStatus = q.TimerIDStatus /\ l.CounterInit = q.CounterInit
          /\ l.CountLeft = c2
          /\ l.NextID = [[s.NextID EXCEPT ![t] = s.NextID[N[p]]] EXCEPT ![N[p]] = t]
          /\ l.PreviousID = [u \in Timer |-> IF u = t THEN N[p]
                                             ELSE IF u = s.NextID[N[p]] THEN t ELSE s.PreviousID[u]]
          /\ l.Current = s.Current /\ l.Previous = s.Previous
          /\ l.SSRValueOnLastSetup = s.SSRValueOnLastSetup
      <4>1. /\ k.CountLeft[q.Current] <= k.CountLeft[t] /\ q.Current \in Timer
            /\ LastNotAfter(k, k.CountLeft[t]) = N[p]
        BY <1>2, <2>1, <2>2, <2>7, <3>1
      <4>2. /\ l \in State
            /\ l.TimerIDStatus = q.TimerIDStatus
            /\ l.CounterInit = q.CounterInit /\ l.CountLeft = k.CountLeft
            /\ l.NextID = [[q.NextID EXCEPT ![t] = q.NextID[N[p]]] EXCEPT ![N[p]] = t]
            /\ l.PreviousID = [u \in Timer |-> IF u = t THEN N[p]
                                               ELSE IF u = q.NextID[N[p]] THEN t ELSE q.PreviousID[u]]
            /\ l.Current = q.Current /\ l.Previous = q.Previous
            /\ l.SSRValueOnLastSetup = q.SSRValueOnLastSetup
        <5>1. q \in State
          BY <1>2
        <5> DEFINE ref == LastNotAfter(k, k.CountLeft[t])
        <5>2. ref = N[p] /\ ref \in Timer
          BY <3>2, <4>1
        <5>3. /\ l \in State
              /\ l.TimerIDStatus = q.TimerIDStatus
              /\ l.CounterInit = q.CounterInit /\ l.CountLeft = k.CountLeft
              /\ l.NextID = [[q.NextID EXCEPT ![t] = q.NextID[ref]] EXCEPT ![ref] = t]
              /\ l.PreviousID = [u \in Timer |-> IF u = t THEN ref
                                                 ELSE IF u = q.NextID[ref] THEN t ELSE q.PreviousID[u]]
              /\ l.Current = q.Current /\ l.Previous = q.Previous
              /\ l.SSRValueOnLastSetup = q.SSRValueOnLastSetup
          BY <4>1, <5>1, <5>2, LinkBehind DEF l, k
        <5> HIDE DEF ref
        <5> QED BY <5>2, <5>3
      <4> QED BY <1>2, <2>2, <4>2
    <3>4. List(l.Current, l.NextID, l.PreviousID, Insert(N, p + 1, t), n + 1)
      BY <1>1, <1>5, <1>6, <1>7, <3>3, InsertBehind
    <3>5. /\ p + 1 \in 0 .. n
          /\ \A i \in 0 .. n - 1 : (i < p + 1 <=> i <= p) /\ (i >= p + 1 <=> i > p)
      BY <1>4
    <3>6. Timed(l.CountLeft, ReturnTimeElapsed(l), r2, d, Insert(N, p + 1, t), n + 1)
      BY <2>5, <3>1, <3>3, <3>5
    <3>7. l.Previous # l.Current
      BY <2>1, <3>3 DEF Consistent, Shape
    <3> QED BY <1>8, <3>3, <3>4, <3>5, <3>6, <3>7 DEF l, q
  <2> QED BY <2>6, <2>7
<1> QED BY <1>9, <1>10

----------------------------------------------------------------------------
(* The invariant                                                           *)

\* What is left to count for each timer.
due == [t \in Timer |-> IF rem[t] = Off THEN Off ELSE rem[t] + lost[t]]

\* The ticks without an interrupt that explain how late timers are.  A call that
\* the interrupt does not follow started with all timers in time.
Lateness == IF pc # "idle" /\ ~ ts.pending THEN late - Latency ELSE late

\* Between two calls the counter is set for the first timer; the interrupt, once
\* pending, has been for d ticks.
Armed(s, r, d, N, n) ==
  LET e == ReturnTimeElapsed(s)  left == s.CountLeft[N[0]] - e IN
  /\ n = 0 => s.wut = 0 /\ ~ s.pending
  /\ ~ s.pending => d = 0
  /\ n > 0 => s.SSRValueOnLastSetup # SSR_FORBIDDEN_VALUE
  /\ s.pending => /\ s.wut = 0 /\ e <= MaxWakeupTimerSetup + d
                  /\ ~ s.Overpassed => left <= Jitter
                  /\ s.Overpassed => \A k \in 0 .. n - 1 : r[N[k]] + d >= 1
  /\ n > 0 /\ ~ s.pending => /\ s.wut > 0 /\ e + s.wut <= MaxWakeupTimerSetup
                             /\ s.Overpassed => s.wut < left
                             /\ ~ s.Overpassed => s.wut = left

\* The counter still runs for the list as it was, or has expired; the register
\* has not wrapped twice.
Changed(s, d, n) ==
  /\ n > 0
  /\ s.pending => s.wut = 0
  /\ ReturnTimeElapsed(s) + s.wut <= MaxWakeupTimerSetup + d

\* The counter is to be set for the first timer.
Programmed(s, value, N, n) ==
  LET left == s.CountLeft[N[0]] IN
  /\ n > 0 /\ s.wut = 0
  /\ value = 0 => left = 0 /\ ~ s.Overpassed
  /\ value > 0 => /\ s.Overpassed => value < left
                  /\ ~ s.Overpassed => value = left

Lists ==
  \E N, n :
    /\ Shape(ts, due, N, n) /\ Timed(ts.CountLeft, Elapsed, due, Lateness, N, n)
    /\ pc = "idle" => Armed(ts, due, late, N, n)
    /\ pc = "reschedule" => Changed(ts, late, n)
    /\ pc = "restart" => Programmed(ts, wakeup_timer_value, N, n)

Types ==
  /\ ssr \in 0 .. Wrap - 1 /\ late \in 0 .. Latency
  /\ pc \in {"idle", "reschedule", "restart"}
  /\ wakeup_timer_value \in 0 .. MaxWakeupTimerSetup
  /\ rem \in [Timer -> Int \cup {Off}] /\ lost \in [Timer -> Nat]

IInv ==
  /\ Types /\ Lists
  /\ starting \in {None} \cup [timer : Timer, ticks : Timeouts]
  /\ starting # None => ts.TimerIDStatus[starting.timer] = "Created"

----------------------------------------------------------------------------
(* What the invariant says, and what is to be shown of a step              *)

LEMMA DueFacts ==
  ASSUME rem \in [Timer -> Int \cup {Off}], lost \in [Timer -> Nat]
  PROVE  /\ due \in [Timer -> Int \cup {Off}]
         /\ \A t \in Timer : due[t] = Off <=> rem[t] = Off
         /\ \A t \in Timer : rem[t] # Off => /\ due[t] = rem[t] + lost[t]
                                             /\ rem[t] \in Int /\ lost[t] \in Nat
<1> SUFFICES ASSUME NEW t \in Timer
             PROVE  LET x == IF rem[t] = Off THEN Off ELSE rem[t] + lost[t] IN
                    /\ x \in Int \cup {Off} /\ (x = Off <=> rem[t] = Off)
                    /\ rem[t] # Off => x = rem[t] + lost[t] /\ rem[t] \in Int /\ lost[t] \in Nat
  BY DEF due
<1>1. CASE rem[t] = Off
  BY <1>1
<1>2. CASE rem[t] # Off
  <2>1. rem[t] \in Int /\ lost[t] \in Nat /\ rem[t] + lost[t] \in Int /\ Off \notin Int
    BY <1>2, TimerServerAssumption DEF TimerServerAssumption
  <2> QED BY <1>2, <2>1
<1> QED BY <1>1, <1>2

\* The ghosts of a timer that stops, of one that starts, and of no timer.
LEMMA GhostSteps ==
  ASSUME rem \in [Timer -> Int \cup {Off}], lost \in [Timer -> Nat], NEW t \in Timer
  PROVE  /\ Forget(t) => /\ due' = [due EXCEPT ![t] = Off]
                         /\ rem' \in [Timer -> Int \cup {Off}] /\ lost' \in [Timer -> Nat]
         /\ \A m \in Nat : Count(t, m) =>
              /\ due' = [due EXCEPT ![t] = m]
              /\ rem' \in [Timer -> Int \cup {Off}] /\ lost' \in [Timer -> Nat]
<1>1. ASSUME Forget(t)
      PROVE  /\ due' = [due EXCEPT ![t] = Off]
             /\ rem' \in [Timer -> Int \cup {Off}] /\ lost' \in [Timer -> Nat]
  <2>1. rem' = [rem EXCEPT ![t] = Off] /\ lost' = [lost EXCEPT ![t] = 0]
    BY <1>1 DEF Forget
  <2>2. due' = [v \in Timer |-> IF rem'[v] = Off THEN Off ELSE rem'[v] + lost'[v]]
    BY DEF due
  <2>3. \A v \in Timer : (IF rem'[v] = Off THEN Off ELSE rem'[v] + lost'[v])
                           = IF v = t THEN Off ELSE due[v]
    BY <2>1 DEF due
  <2>4. due \in [Timer -> Int \cup {Off}]
    BY DueFacts
  <2> HIDE DEF due
  <2>5. due' = [due EXCEPT ![t] = Off]
    BY <2>2, <2>3, <2>4
  <2> QED BY <2>1, <2>5
<1>2. ASSUME NEW m \in Nat, Count(t, m)
      PROVE  /\ due' = [due EXCEPT ![t] = m]
             /\ rem' \in [Timer -> Int \cup {Off}] /\ lost' \in [Timer -> Nat]
  <2>1. rem' = [rem EXCEPT ![t] = m] /\ lost' = [lost EXCEPT ![t] = 0]
    BY <1>2 DEF Count
  <2>2. due' = [v \in Timer |-> IF rem'[v] = Off THEN Off ELSE rem'[v] + lost'[v]]
    BY DEF due
  <2>3. m # Off /\ m + 0 = m
    BY TimerServerAssumption DEF TimerServerAssumption
  <2>4. \A v \in Timer : (IF rem'[v] = Off THEN Off ELSE rem'[v] + lost'[v])
                           = IF v = t THEN m ELSE due[v]
    BY <2>1, <2>3 DEF due
  <2>5. due \in [Timer -> Int \cup {Off}]
    BY DueFacts
  <2>6. due' = [due EXCEPT ![t] = m]
    BY <2>2, <2>4, <2>5
  <2>7. m \in Int /\ 0 \in Nat
    OBVIOUS
  <2> QED BY <2>1, <2>6, <2>7
<1> QED BY <1>1, <1>2

LEMMA SameGhosts == UNCHANGED <<rem, lost>> => due' = due
  BY DEF due

\* The numbers of a list.
LEMMA ShapeFacts ==
  ASSUME NEW s, NEW r, NEW N, NEW n, Shape(s, r, N, n)
  PROVE  /\ s \in State /\ r \in [Timer -> Int \cup {Off}]
         /\ n \in Nat /\ n <= MaxTimer /\ N[0] = s.Current
         /\ \A k \in 0 .. n - 1 : N[k] \in Timer
         /\ n > 0 => /\ 0 \in 0 .. n - 1 /\ s.Current \in Timer /\ s.Current # Nil
                     /\ s.Previous # s.Current
                     /\ s.TimerIDStatus[s.Current] = "Running"
         /\ n = 0 => s.Current = Nil
         /\ \A t \in Timer : s.TimerIDStatus[t] = "Running" => \E k \in 0 .. n - 1 : N[k] = t
<1>1. /\ n \in Nat /\ n <= MaxTimer
      /\ \A k \in 0 .. n - 1 : N[k] \in Timer
      /\ \A k \in 0 .. MaxTimer : k >= n => N[k] = Nil
      /\ N[0] = s.Current
  BY ListFacts DEF Shape
<1>2. Elems(N, n) = {t \in Timer : s.TimerIDStatus[t] = "Running"}
  BY DEF Shape
<1>3. n > 0 => /\ 0 \in 0 .. n - 1 /\ s.Current \in Timer /\ s.Current # Nil
               /\ s.TimerIDStatus[s.Current] = "Running"
  <2> SUFFICES ASSUME n > 0 PROVE /\ 0 \in 0 .. n - 1 /\ s.Current \in Timer /\ s.Current # Nil
                                  /\ s.TimerIDStatus[s.Current] = "Running"
    OBVIOUS
  <2>1. 0 \in 0 .. n - 1
    BY <1>1
  <2>2. s.Current \in Elems(N, n)
    BY <1>1, <2>1 DEF Elems
  <2> QED BY <1>1, <1>2, <2>1, <2>2, Bounds
<1>4. \A t \in Timer : s.TimerIDStatus[t] = "Running" => \E k \in 0 .. n - 1 : N[k] = t
  BY <1>2 DEF Elems
<1>5. n = 0 => s.Current = Nil
  BY <1>1, Bounds
<1>6. /\ s \in State /\ r \in [Timer -> Int \cup {Off}]
      /\ n > 0 => s.Previous # s.Current
  BY DEF Shape
<1> QED BY <1>1, <1>3, <1>4, <1>5, <1>6

\* A list does not depend on the fields that are not named here.
LEMMA Framed ==
  ASSUME NEW s, NEW u \in State, NEW r, NEW N, NEW n, Shape(s, r, N, n),
         \A t \in Timer : u.TimerIDStatus[t] = "Running" <=> s.TimerIDStatus[t] = "Running",
         u.CounterInit = s.CounterInit,
         u.NextID = s.NextID, u.PreviousID = s.PreviousID,
         u.Current = s.Current, u.Previous = s.Previous
  PROVE  Shape(u, r, N, n)
<1>1. {t \in Timer : u.TimerIDStatus[t] = "Running"} = {t \in Timer : s.TimerIDStatus[t] = "Running"}
  OBVIOUS
<1> QED BY <1>1 DEF Shape

\* In an empty list nothing is late.
LEMMA EmptyTimed ==
  ASSUME NEW c, NEW e, NEW r, NEW d, NEW N
  PROVE  Timed(c, e, r, d, N, 0)
<1>1. \A k \in 0 .. 0 - 1 : FALSE
  OBVIOUS
<1> QED BY <1>1 DEF Timed

\* While the counter runs, every timer has at least its ticks left to count.
LEMMA CounterRuns ==
  ASSUME ssr \in 0 .. Wrap - 1, NEW s, NEW r, NEW d, NEW N, NEW n,
         Shape(s, r, N, n), Timed(s.CountLeft, ReturnTimeElapsed(s), r, d, N, n),
         Armed(s, r, d, N, n), ~ s.pending,
         NEW k \in 0 .. n - 1
  PROVE  /\ r[N[k]] \in Int /\ s.wut > 0 /\ s.wut \in Nat
         /\ r[N[k]] >= s.wut /\ (s.Overpassed => r[N[k]] > s.wut)
<1>1. s \in State /\ ReturnTimeElapsed(s) \in Nat
  BY ElapsedFacts DEF Shape
<1>2. n \in Nat /\ \A j \in 0 .. n - 1 : N[j] \in Timer
  BY ShapeFacts
<1>3. 0 \in 0 .. n - 1 /\ 0 <= k /\ n > 0
  BY <1>2
<1>4. /\ s.CountLeft[N[0]] \in Nat /\ s.CountLeft[N[k]] \in Nat /\ s.wut \in Nat
      /\ s.Overpassed \in BOOLEAN
  BY <1>1, <1>2, <1>3, WBounds DEF State
<1>5. s.CountLeft[N[0]] <= s.CountLeft[N[k]]
  BY <1>3 DEF Timed
<1>6. Exact(s.CountLeft[N[k]] - ReturnTimeElapsed(s), r[N[k]])
  BY DEF Timed
<1>7. /\ s.wut > 0
      /\ s.Overpassed => s.wut < s.CountLeft[N[0]] - ReturnTimeElapsed(s)
      /\ ~ s.Overpassed => s.wut = s.CountLeft[N[0]] - ReturnTimeElapsed(s)
  BY <1>3 DEF Armed
<1>8. s.CountLeft[N[k]] - ReturnTimeElapsed(s) >= s.wut
      /\ (s.Overpassed => s.CountLeft[N[k]] - ReturnTimeElapsed(s) > s.wut)
  BY <1>1, <1>4, <1>5, <1>7
<1> QED BY <1>1, <1>4, <1>6, <1>7, <1>8 DEF Exact

\* The end of a call, or of the handler, that leaves the list u.
LEMMA ContinueInv ==
  ASSUME Types, NEW u, NEW changed, Continue(u, changed), NEW r, due' = r, NEW N, NEW n,
         Shape(u, r, N, n),
         \/ n = 0 /\ u.wut = 0 /\ ~ u.pending
         \/ /\ changed /\ Changed(u, late, n)
            /\ Timed(u.CountLeft, ReturnTimeElapsed(u), r,
                     IF u.pending THEN late ELSE late - Latency, N, n)
  PROVE  /\ Lists' /\ ssr' \in 0 .. Wrap - 1 /\ late' \in 0 .. Latency
         /\ pc' \in {"idle", "reschedule", "restart"}
         /\ wakeup_timer_value' \in 0 .. MaxWakeupTimerSetup
<1>1. /\ ts' = u /\ ssr' = ssr /\ wakeup_timer_value' = wakeup_timer_value
      /\ pc' = IF changed /\ u.Current # Nil /\ u.Previous # u.Current THEN "reschedule" ELSE "idle"
      /\ late' = IF u.pending \/ pc' = "reschedule" THEN late ELSE 0
  BY DEF Continue
<1>2. /\ ssr' \in 0 .. Wrap - 1 /\ late' \in 0 .. Latency
      /\ pc' \in {"idle", "reschedule", "restart"}
      /\ wakeup_timer_value' \in 0 .. MaxWakeupTimerSetup
  BY <1>1, WBounds DEF Types
<1>3. Elapsed' = ReturnTimeElapsed(u)
  BY <1>1 DEF Elapsed, ReturnTimeElapsed
<1>4. Shape(ts', due', N, n)
  BY <1>1
<1>5. CASE n = 0
  <2>1. u.Current = Nil /\ ~ u.pending /\ u.wut = 0
    BY <1>5, ShapeFacts DEF Changed
  <2>2. pc' = "idle" /\ late' = 0
    BY <1>1, <2>1
  <2>3. Timed(ts'.CountLeft, Elapsed', due', Lateness', N, n)
    BY <1>5, EmptyTimed
  <2>4. Armed(ts, due, late, N, n)'
    BY <1>1, <1>5, <2>1, <2>2 DEF Armed
  <2> QED BY <1>2, <1>4, <2>2, <2>3, <2>4 DEF Lists, Shape
<1>6. CASE n # 0
  <2>1. /\ changed /\ Changed(u, late, n) /\ n > 0
        /\ Timed(u.CountLeft, ReturnTimeElapsed(u), r,
                 IF u.pending THEN late ELSE late - Latency, N, n)
    BY <1>6 DEF Changed
  <2>2. pc' = "reschedule" /\ late' = late
    <3>1. u.Current # Nil /\ u.Previous # u.Current
      BY <2>1, ShapeFacts
    <3> QED BY <1>1, <2>1, <3>1
  <2>3. Timed(ts'.CountLeft, Elapsed', due', Lateness', N, n)
    <3>1. Lateness' = IF u.pending THEN late ELSE late - Latency
      BY <1>1, <2>2 DEF Lateness
    <3> QED BY <1>1, <1>3, <2>1, <3>1
  <2>4. Changed(ts, late, n)'
    <3>1. ReturnTimeElapsed(ts)' = ReturnTimeElapsed(u)
      BY <1>1 DEF ReturnTimeElapsed
    <3> QED BY <1>1, <2>1, <2>2, <3>1 DEF Changed
  <2> QED BY <1>2, <1>4, <2>2, <2>3, <2>4 DEF Lists
<1> QED BY <1>2, <1>5, <1>6

----------------------------------------------------------------------------
(* The calls of the thread                                                 *)

LEMMA InitInv == Init => IInv
<1> SUFFICES ASSUME Init PROVE IInv
  OBVIOUS
<1> DEFINE N == [k \in 0 .. MaxTimer |-> Nil]
<1>1. Reset \in State
  BY WBounds, Bounds DEF Reset, State, SSR_FORBIDDEN_VALUE, Timer, Nil
<1>2. List(Nil, ts.NextID, ts.PreviousID, N, 0)
  BY Bounds DEF List
<1>3. Elems(N, 0) = {}
  BY DEF Elems
<1>4. /\ ts = Reset /\ ssr = Wrap - 1 /\ pc = "idle" /\ wakeup_timer_value = 0
      /\ starting = None /\ late = 0
      /\ rem = [t \in Timer |-> Off] /\ lost = [t \in Timer |-> 0]
  BY DEF Init, NothingRuns
<1>5. Types
  BY <1>4, WBounds DEF Types
<1>6. due \in [Timer -> Int \cup {Off}] /\ \A t \in Timer : due[t] = Off
  BY <1>4, <1>5, DueFacts DEF Types
<1>7. Shape(ts, due, N, 0)
  <2>1. \A t \in Timer : ts.TimerIDStatus[t] = "Free"
    BY <1>4 DEF Reset
  <2>2. {t \in Timer : ts.TimerIDStatus[t] = "Running"} = {}
    BY <2>1
  <2>3. ts.Current = Nil
    BY <1>4 DEF Reset
  <2> HIDE DEF N
  <2> QED BY <1>1, <1>2, <1>3, <1>4, <1>6, <2>1, <2>2, <2>3 DEF Shape
<1>8. Armed(ts, due, late, N, 0)
  BY <1>4 DEF Armed, Reset
<1>9. Timed(ts.CountLeft, Elapsed, due, Lateness, N, 0)
  BY EmptyTimed
<1>10. Lists
  BY <1>4, <1>7, <1>8, <1>9 DEF Lists
<1> QED BY <1>4, <1>5, <1>10 DEF IInv

\* Between two calls.
LEMMA IdleFacts ==
  ASSUME IInv, pc = "idle"
  PROVE  /\ ssr \in 0 .. Wrap - 1 /\ late \in Nat /\ late <= Latency /\ Latency \in Nat
         /\ due \in [Timer -> Int \cup {Off}]
         /\ rem \in [Timer -> Int \cup {Off}] /\ lost \in [Timer -> Nat]
         /\ \E N, n : Consistent(ts, due, late, N, n) /\ Armed(ts, due, late, N, n)
<1>1. Elapsed = ReturnTimeElapsed(ts) /\ Lateness = late
  BY DEF Elapsed, Lateness
<1>2. PICK N, n : /\ Shape(ts, due, N, n) /\ Timed(ts.CountLeft, Elapsed, due, Lateness, N, n)
                  /\ Armed(ts, due, late, N, n)
  BY DEF IInv, Lists
<1>3. Consistent(ts, due, late, N, n)
  BY <1>1, <1>2 DEF Consistent
<1>4. late \in Nat /\ late <= Latency /\ Latency \in Nat
  BY WBounds DEF IInv, Types
<1>5. due \in [Timer -> Int \cup {Off}]
  BY <1>2 DEF Shape
<1> QED BY <1>2, <1>3, <1>4, <1>5 DEF IInv, Types

\* The counter that was set for a list still runs when a call changes it.
LEMMA ArmedChanged ==
  ASSUME NEW s \in State, NEW r, NEW d \in Nat, NEW N, NEW n \in Nat, n > 0,
         ReturnTimeElapsed(s) \in Nat, Armed(s, r, d, N, n)
  PROVE  Changed(s, d, n)
<1>1. s.wut \in Nat
  BY WBounds DEF State
<1>2. CASE s.pending
  <2>1. s.wut = 0 /\ ReturnTimeElapsed(s) <= MaxWakeupTimerSetup + d
    BY <1>2 DEF Armed
  <2> QED BY <2>1, WBounds DEF Changed
<1>3. CASE ~ s.pending
  <2>1. d = 0 /\ ReturnTimeElapsed(s) + s.wut <= MaxWakeupTimerSetup
    BY <1>3 DEF Armed
  <2> QED BY <1>3, <2>1, WBounds DEF Changed
<1> QED BY <1>2, <1>3

\* A call finds all timers in time when the interrupt is not pending.
LEMMA CallInTime ==
  ASSUME IInv, pc = "idle", NEW N, NEW n,
         Consistent(ts, due, late, N, n), Armed(ts, due, late, N, n)
  PROVE  Consistent(ts, due, IF ts.pending THEN late ELSE late - Latency, N, n)
<1>1. CASE ts.pending
  BY <1>1
<1>2. CASE ~ ts.pending
  <2>1. /\ ssr \in 0 .. Wrap - 1 /\ late \in Nat /\ Latency \in Nat /\ n \in Nat /\ n <= MaxTimer
        /\ Shape(ts, due, N, n) /\ Timed(ts.CountLeft, ReturnTimeElapsed(ts), due, late, N, n)
    BY IdleFacts, ShapeFacts DEF Consistent
  <2>2. ASSUME NEW k \in 0 .. n - 1 PROVE due[N[k]] + (late - Latency) + Latency >= 0
    <3>1. due[N[k]] \in Int /\ ts.wut > 0 /\ ts.wut \in Nat /\ due[N[k]] >= ts.wut
      BY <1>2, <2>1, CounterRuns
    <3> QED BY <2>1, <3>1
  <2>3. late - Latency \in Int /\ late - Latency >= - Latency
    BY <2>1
  <2>4. Timed(ts.CountLeft, ReturnTimeElapsed(ts), due, late - Latency, N, n)
    BY <2>1, <2>2, <2>3, TimedEarly
  <2> QED BY <1>2, <2>1, <2>4 DEF Consistent
<1> QED BY <1>1, <1>2

\* The critical section of HW_TS_Stop, for a running timer.
LEMMA Stopped ==
  ASSUME ssr \in 0 .. Wrap - 1, NEW s, NEW r, NEW d \in Int, NEW N, NEW n,
         Consistent(s, r, d, N, n), Changed(s, late, n),
         NEW t \in Timer, s.TimerIDStatus[t] = "Running"
  PROVE  LET u == StopTimer(s, t)  r2 == [r EXCEPT ![t] = Off] IN
         /\ u \in State
         /\ u.TimerIDStatus = [s.TimerIDStatus EXCEPT ![t] = "Created"]
         /\ \E M, m :
              /\ Shape(u, r2, M, m)
              /\ \/ m = 0 /\ u.wut = 0 /\ ~ u.pending
                 \/ /\ Changed(u, late, m) /\ u.pending = s.pending
                    /\ Timed(u.CountLeft, ReturnTimeElapsed(u), r2, d, M, m)
                    /\ t = s.Current =>
                         Timed(u.CountLeft, ReturnTimeElapsed(u), r2, d - Latency, M, m)
<1> DEFINE v == UnlinkTimer(s, t, TRUE)
           u == StopTimer(s, t)
           r2 == [r EXCEPT ![t] = Off]
<1>1. u = IF v.Current = Nil THEN [v EXCEPT !.wut = 0, !.pending = FALSE] ELSE v
  BY DEF StopTimer
<1>2. s \in State /\ Shape(s, r, N, n)
  BY DEF Consistent, Shape
<1>3. /\ v \in State /\ v.TimerIDStatus = [s.TimerIDStatus EXCEPT ![t] = "Created"]
      /\ v.wut = s.wut /\ v.pending = s.pending
      /\ v.Current # Nil => v.SSRValueOnLastSetup = s.SSRValueOnLastSetup
  BY <1>2, UnlinkFields, ListNotCounter
<1>4. PICK p \in 0 .. n - 1 :
        /\ Consistent(v, r2, d, Delete(N, p), n - 1)
        /\ t = s.Current => Consistent(v, r2, d - Latency, Delete(N, p), n - 1)
  BY Unlinked
<1> DEFINE M == Delete(N, p)
           m == n - 1
<1>5. Shape(v, r2, M, m)
  BY <1>4 DEF Consistent
<1> HIDE DEF u, v, r2, M, m
<1>6. m \in Nat /\ (m = 0 => v.Current = Nil) /\ (m > 0 => v.Current # Nil)
  BY <1>5, ShapeFacts
<1>7. CASE m = 0
  <2>1. u = [v EXCEPT !.wut = 0, !.pending = FALSE]
    BY <1>1, <1>6, <1>7
  <2>2. /\ u \in State /\ u.wut = 0 /\ u.pending = FALSE
        /\ u.TimerIDStatus = v.TimerIDStatus
        /\ u.CounterInit = v.CounterInit
        /\ u.NextID = v.NextID /\ u.PreviousID = v.PreviousID
        /\ u.Current = v.Current /\ u.Previous = v.Previous
    <3>1. 0 \in 0 .. MaxWakeupTimerSetup
      BY WBounds
    <3>2. u \in State /\ u.wut = 0 /\ u.pending = FALSE
      BY <1>3, <2>1, <3>1 DEF State
    <3>3. /\ u.TimerIDStatus = v.TimerIDStatus
          /\ u.CounterInit = v.CounterInit
          /\ u.NextID = v.NextID /\ u.PreviousID = v.PreviousID
          /\ u.Current = v.Current /\ u.Previous = v.Previous
      BY <1>3, <2>1 DEF State
    <3> QED BY <3>2, <3>3
  <2>3. Shape(u, r2, M, m)
    BY <1>5, <2>2, Framed
  <2> QED BY <1>3, <1>7, <2>2, <2>3 DEF u, r2
<1>8. CASE m # 0
  <2>1. u = v /\ ReturnTimeElapsed(v) = ReturnTimeElapsed(s) /\ m > 0
    BY <1>1, <1>3, <1>6, <1>8 DEF ReturnTimeElapsed
  <2>2. Changed(u, late, m)
    BY <1>3, <2>1 DEF Changed
  <2>3. /\ Timed(u.CountLeft, ReturnTimeElapsed(u), r2, d, M, m)
        /\ t = s.Current => Timed(u.CountLeft, ReturnTimeElapsed(u), r2, d - Latency, M, m)
    BY <1>4, <2>1 DEF Consistent, M, m
  <2> QED BY <1>3, <1>5, <2>1, <2>2, <2>3 DEF u, r2
<1> QED BY <1>7, <1>8

\* A call that stops a timer and leaves u, which may be free then.
LEMMA StopStep ==
  ASSUME IInv, pc = "idle", NEW t \in Timer, NEW u \in State, Forget(t),
         Continue(u, ts.TimerIDStatus[t] = "Running"),
         LET v == StopTimer(ts, t) IN
         /\ u.TimerIDStatus \in {v.TimerIDStatus, [v.TimerIDStatus EXCEPT ![t] = "Free"]}
         /\ u.CounterInit = v.CounterInit /\ u.CountLeft = v.CountLeft
         /\ u.NextID = v.NextID /\ u.PreviousID = v.PreviousID
         /\ u.Current = v.Current /\ u.Previous = v.Previous
         /\ u.SSRValueOnLastSetup = v.SSRValueOnLastSetup
         /\ u.wut = v.wut /\ u.pending = v.pending /\ u.Overpassed = v.Overpassed
  PROVE  Types' /\ Lists'
<1> DEFINE v == StopTimer(ts, t)
           r2 == [due EXCEPT ![t] = Off]
<1>1. PICK N, n : Consistent(ts, due, late, N, n) /\ Armed(ts, due, late, N, n)
  BY IdleFacts
<1>2. /\ Types /\ ssr \in 0 .. Wrap - 1 /\ late \in Nat /\ late <= Latency /\ Latency \in Nat
      /\ due \in [Timer -> Int \cup {Off}]
  BY IdleFacts DEF IInv
<1>3. due' = r2 /\ rem' \in [Timer -> Int \cup {Off}] /\ lost' \in [Timer -> Nat]
  BY <1>2, GhostSteps DEF Types
<1>4. ts \in State /\ ReturnTimeElapsed(ts) \in Nat /\ Shape(ts, due, N, n)
  BY <1>1, <1>2, ElapsedFacts DEF Consistent, Shape
<1>5. n \in Nat /\ n <= MaxTimer
  BY <1>4, ShapeFacts
<1>6. ReturnTimeElapsed(u) = ReturnTimeElapsed(v)
  BY DEF ReturnTimeElapsed
<1>7. CASE ts.TimerIDStatus[t] = "Running"
  <2> DEFINE d == IF ts.pending THEN late ELSE late - Latency
  <2>1. Consistent(ts, due, d, N, n) /\ d \in Int
    BY <1>1, <1>2, CallInTime
  <2>2. Changed(ts, late, n)
    <3>1. n > 0
      <4>1. \E k \in 0 .. n - 1 : N[k] = t
        BY <1>4, <1>7, ShapeFacts
      <4> QED BY <1>5, <4>1
    <3> QED BY <1>1, <1>2, <1>4, <1>5, <3>1, ArmedChanged
  <2> HIDE DEF v, d
  <2>3. /\ v \in State
        /\ v.TimerIDStatus = [ts.TimerIDStatus EXCEPT ![t] = "Created"]
        /\ \E M, m :
             /\ Shape(v, r2, M, m)
             /\ \/ m = 0 /\ v.wut = 0 /\ ~ v.pending
                \/ /\ Changed(v, late, m) /\ v.pending = ts.pending
                   /\ Timed(v.CountLeft, ReturnTimeElapsed(v), r2, d, M, m)
    <3>1. LET w == StopTimer(ts, t)  r == [due EXCEPT ![t] = Off] IN
          /\ w \in State
          /\ w.TimerIDStatus = [ts.TimerIDStatus EXCEPT ![t] = "Created"]
          /\ \E M, m :
               /\ Shape(w, r, M, m)
               /\ \/ m = 0 /\ w.wut = 0 /\ ~ w.pending
                  \/ /\ Changed(w, late, m) /\ w.pending = ts.pending
                     /\ Timed(w.CountLeft, ReturnTimeElapsed(w), r, d, M, m)
                     /\ t = ts.Current =>
                          Timed(w.CountLeft, ReturnTimeElapsed(w), r, d - Latency, M, m)
      BY <1>2, <1>7, <2>1, <2>2, Stopped
    <3> QED BY <3>1 DEF v
  <2>4. PICK M, m :
          /\ Shape(v, r2, M, m)
          /\ \/ m = 0 /\ v.wut = 0 /\ ~ v.pending
             \/ /\ Changed(v, late, m) /\ v.pending = ts.pending
                /\ Timed(v.CountLeft, ReturnTimeElapsed(v), r2, d, M, m)
    BY <2>3
  <2> HIDE DEF r2
  <2>5. \A w \in Timer : u.TimerIDStatus[w] = "Running" <=> v.TimerIDStatus[w] = "Running"
    BY <1>4, <2>3 DEF State, v
  <2>6. Shape(u, r2, M, m)
    BY <2>4, <2>5, Framed DEF v
  <2>7. \/ m = 0 /\ u.wut = 0 /\ ~ u.pending
        \/ /\ Changed(u, late, m)
           /\ Timed(u.CountLeft, ReturnTimeElapsed(u), r2,
                    IF u.pending THEN late ELSE late - Latency, M, m)
    BY <1>6, <2>4 DEF Changed, d, v
  <2> HIDE DEF due
  <2>8. Continue(u, TRUE) /\ Types
    BY <1>2, <1>7
  <2>9. /\ Lists' /\ ssr' \in 0 .. Wrap - 1 /\ late' \in 0 .. Latency
        /\ pc' \in {"idle", "reschedule", "restart"}
        /\ wakeup_timer_value' \in 0 .. MaxWakeupTimerSetup
    BY <1>3, <2>6, <2>7, <2>8, ContinueInv, ZenonT(60)
  <2> QED BY <1>3, <2>9 DEF Types
<1>8. CASE ts.TimerIDStatus[t] # "Running"
  <2>1. v = ts
    BY <1>8 DEF StopTimer
  <2>2. r2 = due
    BY <1>4, <1>8 DEF Shape
  <2> HIDE DEF v, r2
  <2>3. \A w \in Timer : u.TimerIDStatus[w] = "Running" <=> ts.TimerIDStatus[w] = "Running"
    BY <1>4, <1>8, <2>1 DEF State, v
  <2>4. Shape(u, due, N, n)
    BY <1>4, <2>1, <2>3, Framed DEF v
  <2>5. /\ ts' = u /\ pc' = "idle" /\ ssr' = ssr /\ wakeup_timer_value' = wakeup_timer_value
        /\ late' = IF u.pending THEN late ELSE 0
    BY <1>8 DEF Continue
  <2>6. late' = late
    <3>1. ~ ts.pending => late = 0
      BY <1>1 DEF Armed
    <3> QED BY <2>1, <2>5, <3>1 DEF v
  <2>7. ReturnTimeElapsed(ts)' = ReturnTimeElapsed(ts)
    BY <2>1, <2>5 DEF ReturnTimeElapsed, v
  <2>8. Elapsed' = ReturnTimeElapsed(ts) /\ Lateness' = late
    BY <2>5, <2>6, <2>7 DEF Elapsed, Lateness
  <2>9. Timed(ts'.CountLeft, Elapsed', due', Lateness', N, n)
    BY <1>1, <1>3, <2>1, <2>2, <2>5, <2>8 DEF Consistent, v
  <2>10. Armed(ts, due, late, N, n)'
    BY <1>1, <1>3, <2>1, <2>2, <2>5, <2>6, <2>7 DEF Armed, v
  <2>11. Lists'
    BY <1>3, <2>2, <2>4, <2>5, <2>9, <2>10 DEF Lists
  <2> QED BY <1>2, <1>3, <2>5, <2>6, <2>11 DEF Types
<1> QED BY <1>7, <1>8

LEMMA CreateInv ==
  ASSUME IInv, NEW t \in Timer, NEW mode \in {"SingleShot", "Repeated"}, HW_TS_Create(t, mode)
  PROVE  IInv'
<1>1. /\ pc = "idle" /\ starting = None /\ starting' = None
      /\ ts.TimerIDStatus[t] = "Free" /\ ssr' = ssr /\ late' = late /\ pc' = pc
      /\ wakeup_timer_value' = wakeup_timer_value /\ rem' = rem /\ lost' = lost
  BY DEF HW_TS_Create, Idle
<1>2. PICK N, n : Consistent(ts, due, late, N, n) /\ Armed(ts, due, late, N, n)
  BY <1>1, IdleFacts
<1>3. ts \in State /\ Shape(ts, due, N, n)
  BY <1>2 DEF Consistent, Shape
<1>4. /\ ts' \in State
      /\ ts'.TimerIDStatus = [ts.TimerIDStatus EXCEPT ![t] = "Created"]
      /\ ts'.CounterInit = ts.CounterInit /\ ts'.CountLeft = ts.CountLeft
      /\ ts'.NextID = ts.NextID /\ ts'.PreviousID = ts.PreviousID
      /\ ts'.Current = ts.Current /\ ts'.Previous = ts.Previous
      /\ ts'.SSRValueOnLastSetup = ts.SSRValueOnLastSetup
      /\ ts'.wut = ts.wut /\ ts'.pending = ts.pending /\ ts'.Overpassed = ts.Overpassed
  <2> DEFINE x == [ts EXCEPT !.TimerIDStatus[t] = "Created", !.TimerMode[t] = mode]
  <2>1. ts' = x
    BY DEF HW_TS_Create
  <2>2. x.pending = ts.pending /\ x.Overpassed = ts.Overpassed
    BY <1>3, Zenon DEF State
  <2>3. /\ x \in State
        /\ x.TimerIDStatus = [ts.TimerIDStatus EXCEPT ![t] = "Created"]
        /\ x.CounterInit = ts.CounterInit /\ x.CountLeft = ts.CountLeft
        /\ x.NextID = ts.NextID /\ x.PreviousID = ts.PreviousID
        /\ x.Current = ts.Current /\ x.Previous = ts.Previous
        /\ x.SSRValueOnLastSetup = ts.SSRValueOnLastSetup
        /\ x.wut = ts.wut
    BY <1>3 DEF State
  <2> QED BY <2>1, <2>2, <2>3
<1>5. \A v \in Timer : ts'.TimerIDStatus[v] = "Running" <=> ts.TimerIDStatus[v] = "Running"
  BY <1>1, <1>3, <1>4 DEF State
<1>6. due' = due
  BY <1>1, SameGhosts
<1>7. Shape(ts', due', N, n)
  <2>1. /\ ts' \in State /\ ts'.CounterInit = ts.CounterInit
        /\ ts'.NextID = ts.NextID /\ ts'.PreviousID = ts.PreviousID
        /\ ts'.Current = ts.Current /\ ts'.Previous = ts.Previous
    BY <1>4
  <2> HIDE DEF due
  <2>2. Shape(ts', due, N, n)
    BY <1>3, <1>5, <2>1, Framed, ZenonT(60)
  <2> QED BY <1>6, <2>2
<1>8. ReturnTimeElapsed(ts)' = ReturnTimeElapsed(ts)
  BY <1>1, <1>4 DEF ReturnTimeElapsed
<1>9. Timed(ts'.CountLeft, Elapsed', due', Lateness', N, n)
  BY <1>1, <1>2, <1>4, <1>6, <1>8 DEF Consistent, Elapsed, Lateness
<1>10. Armed(ts, due, late, N, n)'
  BY <1>1, <1>2, <1>4, <1>6, <1>8 DEF Armed
<1>11. Lists'
  BY <1>1, <1>7, <1>9, <1>10 DEF Lists
<1> QED BY <1>1, <1>11 DEF IInv, Types

\* What StopTimer leaves of the status.
LEMMA StopStatus ==
  ASSUME NEW s \in State, NEW t \in Timer
  PROVE  /\ StopTimer(s, t) \in State
         /\ s.TimerIDStatus[t] = "Running" =>
              StopTimer(s, t).TimerIDStatus = [s.TimerIDStatus EXCEPT ![t] = "Created"]
         /\ s.TimerIDStatus[t] # "Running" => StopTimer(s, t) = s
<1> DEFINE v == UnlinkTimer(s, t, TRUE)
           w == [v EXCEPT !.wut = 0, !.pending = FALSE]
<1>1. s.TimerIDStatus[t] = "Running" => StopTimer(s, t) \in {v, w}
  BY DEF StopTimer
<1>2. s.TimerIDStatus[t] # "Running" => StopTimer(s, t) = s
  BY DEF StopTimer
<1>3. v \in State /\ v.TimerIDStatus = [s.TimerIDStatus EXCEPT ![t] = "Created"]
  BY UnlinkFields
<1> HIDE DEF v
<1>4. w \in State /\ w.TimerIDStatus = v.TimerIDStatus
  <2>1. 0 \in 0 .. MaxWakeupTimerSetup
    BY WBounds
  <2> QED BY <1>3, <2>1 DEF State
<1> HIDE DEF w
<1> QED BY <1>1, <1>2, <1>3, <1>4

LEMMA StopInv ==
  ASSUME IInv, NEW t \in Timer, HW_TS_Stop(t)
  PROVE  IInv'
<1>1. /\ pc = "idle" /\ starting = None /\ starting' = None /\ Forget(t)
      /\ Continue(StopTimer(ts, t), ts.TimerIDStatus[t] = "Running")
  BY DEF HW_TS_Stop, Idle
<1>2. ts \in State
  BY ShapeFacts DEF IInv, Lists
<1>3. StopTimer(ts, t) \in State
  BY <1>2, StopStatus
<1>4. Types' /\ Lists'
  BY <1>1, <1>3, StopStep
<1> QED BY <1>1, <1>4 DEF IInv

LEMMA DeleteInv ==
  ASSUME IInv, NEW t \in Timer, HW_TS_Delete(t)
  PROVE  IInv'
<1> DEFINE v == StopTimer(ts, t)
           u == [v EXCEPT !.TimerIDStatus[t] = "Free"]
<1>1. /\ pc = "idle" /\ starting = None /\ starting' = None /\ Forget(t)
      /\ Continue(u, ts.TimerIDStatus[t] = "Running")
  BY DEF HW_TS_Delete, Idle
<1>2. ts \in State
  BY ShapeFacts DEF IInv, Lists
<1>3. v \in State
  BY <1>2, StopStatus
<1> HIDE DEF v
<1>4. u.pending = v.pending /\ u.Overpassed = v.Overpassed
  BY <1>3, Zenon DEF State
<1>5. /\ u \in State /\ u.TimerIDStatus = [v.TimerIDStatus EXCEPT ![t] = "Free"]
      /\ u.CounterInit = v.CounterInit /\ u.CountLeft = v.CountLeft
      /\ u.NextID = v.NextID /\ u.PreviousID = v.PreviousID
      /\ u.Current = v.Current /\ u.Previous = v.Previous
      /\ u.SSRValueOnLastSetup = v.SSRValueOnLastSetup
      /\ u.wut = v.wut
  BY <1>3 DEF State
<1> HIDE DEF u
<1>6. Types' /\ Lists'
  BY <1>1, <1>4, <1>5, StopStep DEF v
<1> QED BY <1>1, <1>6 DEF IInv

LEMMA StartInv ==
  ASSUME IInv, NEW t \in Timer, NEW m \in Timeouts, HW_TS_Start(t, m)
  PROVE  IInv'
<1>1. /\ pc = "idle" /\ starting' = [timer |-> t, ticks |-> m] /\ Forget(t)
      /\ Continue(StopTimer(ts, t), ts.TimerIDStatus[t] = "Running")
      /\ ts.TimerIDStatus[t] # "Free"
  BY DEF HW_TS_Start, Idle
<1>2. ts \in State
  BY ShapeFacts DEF IInv, Lists
<1>3. StopTimer(ts, t) \in State
  BY <1>2, StopStatus
<1>4. Types' /\ Lists'
  BY <1>1, <1>3, StopStep
<1>5. ts'.TimerIDStatus[t] = "Created"
  <2>1. ts.TimerIDStatus \in [Timer -> {"Free", "Created", "Running"}]
    BY <1>2 DEF State
  <2>2. ts' = StopTimer(ts, t)
    BY <1>1 DEF Continue
  <2> QED BY <1>1, <1>2, <2>1, <2>2, StopStatus
<1>6. starting'.timer = t /\ starting' \in [timer : Timer, ticks : Timeouts]
  BY <1>1
<1> QED BY <1>4, <1>5, <1>6 DEF IInv

\* The critical section of HW_TS_Start.
LEMMA Started ==
  ASSUME ssr \in 0 .. Wrap - 1, late \in Nat,
         NEW s, NEW r, NEW d \in Int, d >= - Latency, NEW N, NEW n,
         Consistent(s, r, d, N, n),
         n > 0 => Changed(s, late, n), n = 0 => s.wut = 0 /\ ~ s.pending,
         NEW t \in Timer, s.TimerIDStatus[t] # "Running", NEW m \in Nat, m > 0
  PROVE  LET u == StartTimer(s, t, m)  r2 == [r EXCEPT ![t] = m] IN
         /\ u.TimerIDStatus = [s.TimerIDStatus EXCEPT ![t] = "Running"]
         /\ u.pending = s.pending
         /\ \E M, k : /\ Shape(u, r2, M, k) /\ Changed(u, late, k)
                      /\ Timed(u.CountLeft, ReturnTimeElapsed(u), r2, d, M, k)
<1> DEFINE q == Marked(s, t, m)
           l == linkTimer(q, t)
           r2 == [r EXCEPT ![t] = m]
<1>1. /\ \E p \in 0 .. n : Consistent(l, r2, d, Insert(N, p, t), n + 1)
      /\ l.TimerIDStatus = [s.TimerIDStatus EXCEPT ![t] = "Running"]
  BY Linked
<1>2. PICK p \in 0 .. n : Consistent(l, r2, d, Insert(N, p, t), n + 1)
  BY <1>1
<1>3. /\ s \in State /\ n \in Nat /\ n + 1 > 0
      /\ n = 0 => s.Current = Nil
      /\ n > 0 => s.Current # Nil
  BY ShapeFacts DEF Consistent
<1>4. l.Previous # l.Current
  BY <1>2, <1>3 DEF Consistent, Shape
<1>5. StartTimer(s, t, m) = l
  BY <1>4 DEF StartTimer, Marked
<1>6. /\ q \in State /\ q.Current = s.Current
      /\ q.SSRValueOnLastSetup = s.SSRValueOnLastSetup
  <2>1. s \in State
    BY <1>3
  <2> HIDE DEF l, r2
  <2> QED BY <2>1, MarkedFields, ZenonT(60)
<1>7. q.wut = s.wut /\ q.pending = s.pending
  BY <1>3, Zenon DEF State, Marked
<1> HIDE DEF q
<1>8. /\ l.wut = s.wut /\ l.pending = s.pending
      /\ l.SSRValueOnLastSetup = IF s.Current = Nil THEN SSR_FORBIDDEN_VALUE
                                 ELSE s.SSRValueOnLastSetup
  BY <1>6, <1>7, ListNotCounter
<1> HIDE DEF l
<1>9. Changed(l, late, n + 1)
  <2>1. CASE n = 0
    <3>1. l.wut = 0 /\ ~ l.pending /\ ReturnTimeElapsed(l) = 0
      BY <1>3, <1>8, <2>1 DEF ReturnTimeElapsed
    <3> QED BY <1>3, <3>1, WBounds DEF Changed
  <2>2. CASE n # 0
    <3>1. ReturnTimeElapsed(l) = ReturnTimeElapsed(s) /\ n > 0
      BY <1>3, <1>8, <2>2 DEF ReturnTimeElapsed
    <3> QED BY <1>3, <1>8, <3>1 DEF Changed
  <2> QED BY <2>1, <2>2
<1>10. Shape(l, r2, Insert(N, p, t), n + 1)
       /\ Timed(l.CountLeft, ReturnTimeElapsed(l), r2, d, Insert(N, p, t), n + 1)
  BY <1>2 DEF Consistent
<1> QED BY <1>1, <1>5, <1>8, <1>9, <1>10

LEMMA StartedInv ==
  ASSUME IInv, HW_TS_Started
  PROVE  IInv'
<1> DEFINE t == starting.timer
           m == starting.ticks
           u == StartTimer(ts, t, m)
           d == IF ts.pending THEN late ELSE late - Latency
           r2 == [due EXCEPT ![t] = m]
<1>1. /\ pc = "idle" /\ starting # None /\ starting' = None
      /\ Continue(u, TRUE) /\ Count(t, m)
  BY DEF HW_TS_Started
<1>2. t \in Timer /\ m \in Timeouts /\ ts.TimerIDStatus[t] # "Running"
  BY <1>1 DEF IInv
<1>3. m \in Nat /\ m > 0
  <2>1. Timeouts \subseteq Nat \ {0}
    BY TimerServerAssumption DEF TimerServerAssumption
  <2> HIDE DEF m
  <2> QED BY <1>2, <2>1
<1>4. PICK N, n : Consistent(ts, due, late, N, n) /\ Armed(ts, due, late, N, n)
  BY <1>1, IdleFacts
<1>5. /\ Types /\ ssr \in 0 .. Wrap - 1 /\ late \in Nat /\ late <= Latency /\ Latency \in Nat
      /\ ts \in State /\ ReturnTimeElapsed(ts) \in Nat
      /\ n \in Nat
  BY <1>1, <1>4, IdleFacts, ElapsedFacts, ShapeFacts DEF IInv, Consistent
<1> HIDE DEF t, m, u, r2
<1>6. Consistent(ts, due, d, N, n) /\ d \in Int /\ d >= - Latency
  BY <1>1, <1>4, <1>5, CallInTime
<1> HIDE DEF d
<1>7. (n > 0 => Changed(ts, late, n)) /\ (n = 0 => ts.wut = 0 /\ ~ ts.pending)
  BY <1>4, <1>5, ArmedChanged DEF Armed
<1>8. LET w == StartTimer(ts, t, m)  r == [due EXCEPT ![t] = m] IN
      /\ w.TimerIDStatus = [ts.TimerIDStatus EXCEPT ![t] = "Running"]
      /\ w.pending = ts.pending
      /\ \E M, k : /\ Shape(w, r, M, k) /\ Changed(w, late, k)
                   /\ Timed(w.CountLeft, ReturnTimeElapsed(w), r, d, M, k)
  BY <1>2, <1>3, <1>5, <1>6, <1>7, Started
<1>9. PICK M, k : /\ Shape(u, r2, M, k) /\ Changed(u, late, k)
                  /\ Timed(u.CountLeft, ReturnTimeElapsed(u), r2, d, M, k)
  BY <1>8 DEF u, r2
<1>10. u.pending = ts.pending
  BY <1>8 DEF u
<1>11. Timed(u.CountLeft, ReturnTimeElapsed(u), r2, IF u.pending THEN late ELSE late - Latency, M, k)
  BY <1>9, <1>10 DEF d
<1>12. due' = r2 /\ rem' \in [Timer -> Int \cup {Off}] /\ lost' \in [Timer -> Nat]
  BY <1>1, <1>2, <1>3, <1>5, GhostSteps DEF Types, r2
<1>13. Types' /\ Lists'
  BY <1>1, <1>5, <1>9, <1>11, <1>12, ContinueInv DEF Types
<1> QED BY <1>1, <1>13 DEF IInv

----------------------------------------------------------------------------
(* The interrupt, and the two steps in which the list is rescheduled       *)

LEMMA HandlerInv ==
  ASSUME IInv, HW_TS_RTC_Wakeup_Handler
  PROVE  IInv'
<1> DEFINE t == ts.Current
           s == [ts EXCEPT !.pending = FALSE, !.wut = 0]
<1>1. /\ pc = "idle" /\ ts.pending /\ t # Nil /\ starting' = starting
      /\ s.Overpassed => /\ ts' = s /\ pc' = "reschedule"
                         /\ UNCHANGED <<ssr, wakeup_timer_value, late, rem, lost>>
      /\ ~ s.Overpassed /\ s.TimerMode[t] = "Repeated" =>
           /\ Continue(StartTimer(UnlinkTimer(s, t, FALSE), t, s.CounterInit[t]), TRUE)
           /\ Count(t, s.CounterInit[t])
      /\ ~ s.Overpassed /\ s.TimerMode[t] # "Repeated" =>
           /\ Continue(StopTimer(s, t), TRUE) /\ Forget(t)
  BY DEF HW_TS_RTC_Wakeup_Handler
<1>2. PICK N, n : Consistent(ts, due, late, N, n) /\ Armed(ts, due, late, N, n)
  BY <1>1, IdleFacts
<1>3. /\ Types /\ ssr \in 0 .. Wrap - 1 /\ late \in Nat /\ late <= Latency /\ Latency \in Nat
      /\ ts \in State /\ Shape(ts, due, N, n) /\ due \in [Timer -> Int \cup {Off}]
      /\ n \in Nat /\ n <= MaxTimer /\ N[0] = t
      /\ Timed(ts.CountLeft, ReturnTimeElapsed(ts), due, late, N, n)
  BY <1>1, <1>2, IdleFacts, ShapeFacts DEF IInv, Consistent
<1>4. n > 0 /\ t \in Timer /\ ts.TimerIDStatus[t] = "Running"
  BY <1>1, <1>3, ShapeFacts
<1>5. /\ s \in State /\ s.TimerIDStatus = ts.TimerIDStatus
      /\ s.CounterInit = ts.CounterInit /\ s.CountLeft = ts.CountLeft
      /\ s.NextID = ts.NextID /\ s.PreviousID = ts.PreviousID
      /\ s.Current = ts.Current /\ s.Previous = ts.Previous
      /\ s.SSRValueOnLastSetup = ts.SSRValueOnLastSetup
      /\ s.wut = 0
  <2>1. 0 \in 0 .. MaxWakeupTimerSetup
    BY WBounds
  <2> QED BY <1>3, <2>1 DEF State
<1>6. s.Overpassed = ts.Overpassed /\ s.pending = FALSE
  BY <1>3, Zenon DEF State
<1>7. s.CounterInit[t] \in Nat /\ s.CounterInit[t] > 0
  BY <1>3, <1>4, <1>5 DEF State, Shape
<1> HIDE DEF s, t
<1>8. ReturnTimeElapsed(s) = ReturnTimeElapsed(ts)
  BY <1>5 DEF ReturnTimeElapsed
<1>9. Consistent(s, due, late, N, n)
  <2>1. Shape(s, due, N, n)
    BY <1>3, <1>5, Framed
  <2> QED BY <1>3, <1>5, <1>8, <2>1 DEF Consistent
<1>10. Changed(s, late, n)
  <2>1. ReturnTimeElapsed(ts) <= MaxWakeupTimerSetup + late /\ ReturnTimeElapsed(ts) \in Nat
    BY <1>1, <1>2, <1>3, ElapsedFacts DEF Armed
  <2> QED BY <1>4, <1>5, <1>6, <1>8, <2>1 DEF Changed
<1>11. ASSUME starting # None
       PROVE  starting.timer \in Timer /\ starting.timer # t
              /\ ts.TimerIDStatus[starting.timer] = "Created"
  <2>1. ts.TimerIDStatus[starting.timer] = "Created" /\ starting.timer \in Timer
    BY <1>11 DEF IInv
  <2> QED BY <1>4, <2>1
<1>12. late \in Int /\ t \in Timer /\ s.TimerIDStatus[t] = "Running" /\ FALSE \in BOOLEAN
  BY <1>3, <1>4, <1>5
\* What the three cases have to leave.
<1>13. ASSUME Types', Lists', \A v \in Timer : v # t => ts'.TimerIDStatus[v] = ts.TimerIDStatus[v]
       PROVE  IInv'
  BY <1>1, <1>11, <1>13 DEF IInv
<1>14. CASE s.Overpassed
  <2>1. /\ ts' = s /\ pc' = "reschedule" /\ ssr' = ssr /\ wakeup_timer_value' = wakeup_timer_value
        /\ late' = late /\ rem' = rem /\ lost' = lost
    BY <1>1, <1>14
  <2>2. due' = due
    BY <2>1, SameGhosts
  <2>3. ReturnTimeElapsed(ts)' = ReturnTimeElapsed(ts)
    BY <1>5, <2>1 DEF ReturnTimeElapsed
  <2>4. Elapsed' = ReturnTimeElapsed(ts) /\ Lateness' = late - Latency
    BY <1>6, <2>1, <2>3 DEF Elapsed, Lateness
  <2>5. Timed(ts'.CountLeft, Elapsed', due', Lateness', N, n)
    <3>1. ASSUME NEW k \in 0 .. n - 1 PROVE due[N[k]] + (late - Latency) + Latency >= 0
      <4>1. due[N[k]] + late >= 1 /\ due[N[k]] \in Int
        BY <1>1, <1>2, <1>3, <1>6, <1>14 DEF Armed, Timed, Exact
      <4> QED BY <1>3, <4>1
    <3>2. late - Latency \in Int /\ late - Latency >= - Latency
      BY <1>3
    <3>3. Timed(ts.CountLeft, ReturnTimeElapsed(ts), due, late - Latency, N, n)
      BY <1>3, <3>1, <3>2, TimedEarly
    <3> QED BY <1>5, <2>1, <2>2, <2>4, <3>3
  <2>6. Changed(ts, late, n)'
    BY <1>5, <1>8, <1>10, <2>1, <2>3 DEF Changed
  <2>7. Shape(ts', due', N, n)
    BY <1>9, <2>1, <2>2 DEF Consistent
  <2>8. Lists'
    BY <2>1, <2>5, <2>6, <2>7 DEF Lists
  <2>9. Types'
    BY <1>3, <2>1 DEF Types
  <2> QED BY <1>5, <1>13, <2>1, <2>8, <2>9
<1>15. CASE ~ s.Overpassed /\ s.TimerMode[t] # "Repeated"
  <2> DEFINE u == StopTimer(s, t)
             r2 == [due EXCEPT ![t] = Off]
  <2>1. Continue(u, TRUE) /\ Forget(t)
    BY <1>1, <1>15
  <2>2. due' = r2 /\ rem' \in [Timer -> Int \cup {Off}] /\ lost' \in [Timer -> Nat]
    BY <1>3, <1>4, <2>1, GhostSteps DEF Types
  <2>3. LET w == StopTimer(s, t)  r == [due EXCEPT ![t] = Off] IN
        /\ w \in State
        /\ w.TimerIDStatus = [s.TimerIDStatus EXCEPT ![t] = "Created"]
        /\ \E M, m :
             /\ Shape(w, r, M, m)
             /\ \/ m = 0 /\ w.wut = 0 /\ ~ w.pending
                \/ /\ Changed(w, late, m) /\ w.pending = s.pending
                   /\ Timed(w.CountLeft, ReturnTimeElapsed(w), r, late, M, m)
                   /\ t = s.Current =>
                        Timed(w.CountLeft, ReturnTimeElapsed(w), r, late - Latency, M, m)
    <3>1. /\ ssr \in 0 .. Wrap - 1 /\ late \in Int /\ t \in Timer
          /\ s.TimerIDStatus[t] = "Running"
      BY <1>3, <1>12
    <3> HIDE DEF u, r2
    <3> QED BY <1>9, <1>10, <3>1, Stopped
  <2> HIDE DEF u
  <2>4. PICK M, m :
          /\ Shape(u, r2, M, m)
          /\ \/ m = 0 /\ u.wut = 0 /\ ~ u.pending
             \/ /\ Changed(u, late, m)
                /\ Timed(u.CountLeft, ReturnTimeElapsed(u), r2,
                         IF u.pending THEN late ELSE late - Latency, M, m)
    BY <1>5, <1>6, <2>3 DEF t, u
  <2> HIDE DEF r2
  <2>5. Types' /\ Lists'
    BY <1>3, <2>1, <2>2, <2>4, ContinueInv DEF Types
  <2>6. ts' = u /\ u.TimerIDStatus = [s.TimerIDStatus EXCEPT ![t] = "Created"]
    BY <2>1, <2>3 DEF Continue, u
  <2> QED BY <1>3, <1>5, <1>13, <2>5, <2>6 DEF State
<1>16. CASE ~ s.Overpassed /\ s.TimerMode[t] = "Repeated"
  <2> DEFINE v == UnlinkTimer(s, t, FALSE)
             m == s.CounterInit[t]
             u == StartTimer(v, t, m)
             r == [due EXCEPT ![t] = Off]
             r2 == [r EXCEPT ![t] = m]
             d == late - Latency
  <2>1. Continue(u, TRUE) /\ Count(t, m)
    BY <1>1, <1>16
  <2>2. /\ v \in State /\ v.TimerIDStatus = [s.TimerIDStatus EXCEPT ![t] = "Created"]
        /\ v.wut = s.wut /\ v.pending = s.pending
        /\ v.Current # Nil => v.SSRValueOnLastSetup = s.SSRValueOnLastSetup
    BY <1>4, <1>5, UnlinkFields, ListNotCounter
  <2>3. PICK p \in 0 .. n - 1 : Consistent(v, r, d, Delete(N, p), n - 1)
    <3>1. \E p \in 0 .. n - 1 :
            LET w == UnlinkTimer(s, t, FALSE)  x == [due EXCEPT ![t] = Off] IN
            /\ Consistent(w, x, late, Delete(N, p), n - 1)
            /\ t = s.Current => Consistent(w, x, late - Latency, Delete(N, p), n - 1)
      BY <1>3, <1>9, <1>12, Unlinked
    <3> QED BY <1>5, <3>1 DEF t
  <2>4. v.TimerIDStatus[t] # "Running"
    BY <1>4, <1>5, <2>2 DEF State
  <2>5. m \in Nat /\ m > 0 /\ d \in Int /\ d >= - Latency
    BY <1>3, <1>7
  <2> HIDE DEF v, m, u, r, d
  <2>6. n - 1 \in Nat /\ (n - 1 > 0 => v.Current # Nil)
    BY <2>3, ShapeFacts DEF Consistent
  <2>7. /\ n - 1 > 0 => Changed(v, late, n - 1)
        /\ n - 1 = 0 => v.wut = 0 /\ ~ v.pending
    <3>1. v.wut = 0 /\ ~ v.pending
      BY <1>5, <1>6, <2>2
    <3>2. n - 1 > 0 => ReturnTimeElapsed(v) = ReturnTimeElapsed(s)
      BY <2>2, <2>6 DEF ReturnTimeElapsed
    <3> QED BY <1>5, <1>10, <3>1, <3>2 DEF Changed
  <2>8. LET w == StartTimer(v, t, m)  x == [r EXCEPT ![t] = m] IN
        /\ w.TimerIDStatus = [v.TimerIDStatus EXCEPT ![t] = "Running"]
        /\ w.pending = v.pending
        /\ \E M, k : /\ Shape(w, x, M, k) /\ Changed(w, late, k)
                     /\ Timed(w.CountLeft, ReturnTimeElapsed(w), x, d, M, k)
    <3> DEFINE M0 == Delete(N, p)
               n0 == n - 1
    <3>1. Consistent(v, r, d, M0, n0)
      BY <2>3
    <3>2. (n0 > 0 => Changed(v, late, n0)) /\ (n0 = 0 => v.wut = 0 /\ ~ v.pending)
      BY <2>7
    <3>3. ssr \in 0 .. Wrap - 1 /\ late \in Nat /\ t \in Timer
      BY <1>3, <1>4
    <3> HIDE DEF M0, n0, r2
    <3> QED BY <2>4, <2>5, <3>1, <3>2, <3>3, Started
  <2>9. PICK M, k : /\ Shape(u, r2, M, k) /\ Changed(u, late, k)
                    /\ Timed(u.CountLeft, ReturnTimeElapsed(u), r2, d, M, k)
    BY <2>8 DEF u
  <2>10. u.pending = FALSE
    BY <1>6, <2>2, <2>8 DEF u
  <2>11. due' = r2 /\ rem' \in [Timer -> Int \cup {Off}] /\ lost' \in [Timer -> Nat]
    <3>1. due' = [due EXCEPT ![t] = m]
          /\ rem' \in [Timer -> Int \cup {Off}] /\ lost' \in [Timer -> Nat]
      BY <1>3, <1>4, <2>1, <2>5, GhostSteps DEF Types
    <3> QED BY <1>3, <3>1 DEF r
  <2> HIDE DEF r2
  <2>12. Timed(u.CountLeft, ReturnTimeElapsed(u), r2,
               IF u.pending THEN late ELSE late - Latency, M, k)
    BY <2>9, <2>10 DEF d
  <2>13. Types' /\ Lists'
    BY <1>3, <2>1, <2>9, <2>11, <2>12, ContinueInv DEF Types
  <2>14. ts' = u /\ u.TimerIDStatus = [v.TimerIDStatus EXCEPT ![t] = "Running"]
    BY <2>1, <2>8 DEF Continue, u
  <2> QED BY <1>3, <1>5, <1>13, <2>2, <2>13, <2>14 DEF State
<1> QED BY <1>14, <1>15, <1>16

\* What RescheduleTimerList leaves and changes.
LEMMA RescheduleFields ==
  ASSUME ssr \in 0 .. Wrap - 1, ts \in State, ts.Current \in Timer, RescheduleTimerList
  PROVE  LET e == ReturnTimeElapsed(ts)
             left == ts.CountLeft[ts.Current]
             over == left > e + MaxWakeupTimerSetup
         IN
         /\ ts' \in State
         /\ ts'.TimerIDStatus = ts.TimerIDStatus /\ ts'.CounterInit = ts.CounterInit
         /\ \A t \in Timer : t \in Listed(ts) =>
              ts'.CountLeft[t] = IF ts.CountLeft[t] < e THEN 0 ELSE ts.CountLeft[t] - e
         /\ ts'.NextID = ts.NextID /\ ts'.PreviousID = ts.PreviousID
         /\ ts'.Current = ts.Current /\ ts'.Previous = ts.Previous
         /\ ts'.Overpassed = over /\ ts'.wut = 0 /\ ts'.pending = ts.pending
<1> DEFINE e == ReturnTimeElapsed(ts)
           left == ts.CountLeft[ts.Current]
           over == left > e + MaxWakeupTimerSetup
           C == [t \in Timer |-> IF t \notin Listed(ts) THEN ts.CountLeft[t]
                                 ELSE IF ts.CountLeft[t] < e THEN 0 ELSE ts.CountLeft[t] - e]
           u == [ts EXCEPT !.wut = 0, !.Overpassed = over, !.CountLeft = C]
<1>1. e \in Nat /\ ts.CountLeft \in [Timer -> Nat]
  BY ElapsedFacts DEF State
<1>2. ts' = u
  BY DEF RescheduleTimerList
<1>3. over \in BOOLEAN
  OBVIOUS
<1> HIDE DEF e, over
<1>4. C \in [Timer -> Nat]
  BY <1>1
<1>5. \A t \in Timer : t \in Listed(ts) =>
        C[t] = IF ts.CountLeft[t] < e THEN 0 ELSE ts.CountLeft[t] - e
  OBVIOUS
<1> HIDE DEF C
<1>6. u.Overpassed = over /\ u.pending = ts.pending
  BY Zenon DEF State
<1>7. 0 \in 0 .. MaxWakeupTimerSetup
  BY WBounds
<1>8. /\ u \in State
      /\ u.TimerIDStatus = ts.TimerIDStatus /\ u.CounterInit = ts.CounterInit
      /\ u.CountLeft = C
      /\ u.NextID = ts.NextID /\ u.PreviousID = ts.PreviousID
      /\ u.Current = ts.Current /\ u.Previous = ts.Previous /\ u.wut = 0
  BY <1>3, <1>4, <1>7 DEF State
<1> HIDE DEF u
<1> QED BY <1>2, <1>5, <1>6, <1>8 DEF e, over

LEMMA RescheduleInv ==
  ASSUME IInv, RescheduleTimerList
  PROVE  IInv'
<1> DEFINE e    == ReturnTimeElapsed(ts)
           left == ts.CountLeft[ts.Current]
           over == left > e + MaxWakeupTimerSetup
<1>1. /\ pc = "reschedule" /\ pc' = "restart" /\ ssr' = ssr /\ starting' = starting
      /\ late' = late /\ rem' = rem /\ lost' = lost
      /\ wakeup_timer_value' = IF left < e THEN 0
                               ELSE IF over THEN MaxWakeupTimerSetup ELSE left - e
  BY DEF RescheduleTimerList
<1>2. PICK N, n : /\ Shape(ts, due, N, n) /\ Timed(ts.CountLeft, Elapsed, due, Lateness, N, n)
                  /\ Changed(ts, late, n)
  BY <1>1 DEF IInv, Lists
<1>3. /\ ts \in State /\ due \in [Timer -> Int \cup {Off}] /\ n > 0 /\ n \in Nat /\ n <= MaxTimer
      /\ \A k \in 0 .. n - 1 : N[k] \in Timer
      /\ ts.Current \in Timer /\ 0 \in 0 .. n - 1 /\ N[0] = ts.Current
  BY <1>2, ShapeFacts DEF Changed
<1>4. /\ ssr \in 0 .. Wrap - 1 /\ late \in 0 .. Latency /\ Types
      /\ ts.CountLeft \in [Timer -> Nat] /\ e \in Nat
  BY <1>3, ElapsedFacts DEF IInv, Types, State
<1>5. left \in Nat /\ left = ts.CountLeft[N[0]]
  BY <1>3, <1>4
<1>6. Lateness \in Int
  BY <1>4, WBounds DEF Lateness
<1>7. Elapsed = e
  BY <1>1 DEF Elapsed
<1>8. \A k \in 0 .. n - 1 : N[k] \in Listed(ts)
  <2>1. Node(ts) = N
    BY <1>2, NodeIs DEF Shape
  <2>2. \A k \in 0 .. n - 1 : k \in 0 .. MaxTimer /\ N[k] # Nil
    BY <1>3, Bounds
  <2> QED BY <2>1, <2>2 DEF Listed
<1>9. /\ ts' \in State
      /\ ts'.TimerIDStatus = ts.TimerIDStatus /\ ts'.CounterInit = ts.CounterInit
      /\ \A k \in 0 .. n - 1 :
           ts'.CountLeft[N[k]] = IF ts.CountLeft[N[k]] < e THEN 0 ELSE ts.CountLeft[N[k]] - e
      /\ ts'.NextID = ts.NextID /\ ts'.PreviousID = ts.PreviousID
      /\ ts'.Current = ts.Current /\ ts'.Previous = ts.Previous
      /\ (ts'.Overpassed <=> over) /\ ts'.wut = 0 /\ ts'.pending = ts.pending
  BY <1>3, <1>4, <1>8, RescheduleFields
<1> HIDE DEF e, left
<1>10. due' = due
  BY <1>1, SameGhosts
<1>11. Shape(ts', due', N, n)
  BY <1>2, <1>9, <1>10, Framed
<1>12. Elapsed' = 0 /\ Lateness' = Lateness
  BY <1>1, <1>9 DEF Elapsed, Lateness
<1>13. Timed(ts'.CountLeft, Elapsed', due', Lateness', N, n)
  <2>1. Timed(ts'.CountLeft, 0, due, Lateness, N, n)
    BY <1>2, <1>3, <1>4, <1>6, <1>7, <1>9, TimedReschedule
  <2> QED BY <1>10, <1>12, <2>1
<1>14. ts'.CountLeft[N[0]] = IF left < e THEN 0 ELSE left - e
  BY <1>3, <1>5, <1>9
<1>15. /\ wakeup_timer_value' \in 0 .. MaxWakeupTimerSetup
       /\ wakeup_timer_value' = 0 => ts'.CountLeft[N[0]] = 0 /\ ~ ts'.Overpassed
       /\ wakeup_timer_value' > 0 =>
            /\ ts'.Overpassed => wakeup_timer_value' < ts'.CountLeft[N[0]]
            /\ ~ ts'.Overpassed => wakeup_timer_value' = ts'.CountLeft[N[0]]
  <2>1. CASE left < e
    BY <1>1, <1>4, <1>5, <1>9, <1>14, <2>1, WBounds
  <2>2. CASE ~ (left < e) /\ over
    BY <1>1, <1>4, <1>5, <1>9, <1>14, <2>2, WBounds
  <2>3. CASE ~ (left < e) /\ ~ over
    BY <1>1, <1>4, <1>5, <1>9, <1>14, <2>3, WBounds
  <2> QED BY <2>1, <2>2, <2>3
<1> HIDE DEF over
<1>16. Programmed(ts, wakeup_timer_value, N, n)'
  BY <1>3, <1>9, <1>15 DEF Programmed
<1>17. Lists'
  BY <1>1, <1>11, <1>13, <1>16 DEF Lists
<1> QED BY <1>1, <1>4, <1>9, <1>15, <1>17 DEF IInv, Types

LEMMA RestartInv ==
  ASSUME IInv, RestartWakeupCounter
  PROVE  IInv'
<1> DEFINE v == wakeup_timer_value
           u == [ts EXCEPT !.SSRValueOnLastSetup = ssr, !.wut = v, !.pending = (v = 0)]
<1>1. /\ pc = "restart" /\ pc' = "idle" /\ ssr' = ssr /\ starting' = starting
      /\ ts' = u /\ wakeup_timer_value' = 0
      /\ late' = IF ts.pending /\ ts'.pending THEN late ELSE 0
      /\ rem' = rem /\ lost' = lost
  BY DEF RestartWakeupCounter
<1>2. PICK N, n : /\ Shape(ts, due, N, n) /\ Timed(ts.CountLeft, Elapsed, due, Lateness, N, n)
                  /\ Programmed(ts, v, N, n)
  BY <1>1 DEF IInv, Lists
<1>3. /\ ts \in State /\ due \in [Timer -> Int \cup {Off}] /\ n > 0 /\ n \in Nat /\ n <= MaxTimer
      /\ \A k \in 0 .. n - 1 : N[k] \in Timer
      /\ 0 \in 0 .. n - 1
  BY <1>2, ShapeFacts DEF Programmed
<1>4. /\ ssr \in 0 .. Wrap - 1 /\ late \in Nat /\ late <= Latency /\ Latency \in Nat /\ Types
      /\ v \in 0 .. MaxWakeupTimerSetup /\ ts.CountLeft \in [Timer -> Nat]
      /\ ssr \in -1 .. Wrap - 1
  BY <1>3, WBounds DEF IInv, Types, State
<1>5. u.Overpassed = ts.Overpassed /\ u.pending = (v = 0)
  BY <1>3, Zenon DEF State
<1>6. (v = 0) \in BOOLEAN
  OBVIOUS
<1>7. /\ u \in State /\ u.wut = v
      /\ u.TimerIDStatus = ts.TimerIDStatus
      /\ u.CounterInit = ts.CounterInit /\ u.CountLeft = ts.CountLeft
      /\ u.NextID = ts.NextID /\ u.PreviousID = ts.PreviousID
      /\ u.Current = ts.Current /\ u.Previous = ts.Previous
      /\ u.SSRValueOnLastSetup = ssr
  BY <1>3, <1>4, <1>6 DEF State
<1> HIDE DEF u, v
<1>8. due' = due
  BY <1>1, SameGhosts
<1>9. Shape(ts', due', N, n)
  BY <1>1, <1>2, <1>7, <1>8, Framed
<1>10. ReturnTimeElapsed(ts)' = 0
  BY <1>1, <1>4, <1>7, WBounds DEF ReturnTimeElapsed, SSR_FORBIDDEN_VALUE
<1>11. Elapsed = 0 /\ Elapsed' = 0 /\ Lateness' = late'
  BY <1>1, <1>10 DEF Elapsed, Lateness
<1>12. ts'.pending <=> v = 0
  BY <1>1, <1>5
<1>13. late' \in Nat /\ late' <= Latency
  BY <1>1, <1>4
<1>14. Timed(ts'.CountLeft, Elapsed', due', Lateness', N, n)
  <2>1. Timed(ts.CountLeft, 0, due, Lateness, N, n)
    BY <1>2, <1>11
  <2>2. CASE v = 0
    <3>1. Lateness \in Int /\ late' \in Int /\ late' >= Lateness
      BY <1>1, <1>4, <1>12, <2>2 DEF Lateness
    <3>2. Timed(ts.CountLeft, 0, due, late', N, n)
      BY <1>3, <2>1, <3>1, TimedLater
    <3> QED BY <1>1, <1>7, <1>8, <1>11, <3>2
  <2>3. CASE v # 0
    <3>1. ts.CountLeft[N[0]] > 0
      <4>1. v > 0
        BY <1>4, <2>3
      <4>2. ts.CountLeft[N[0]] \in Nat
        BY <1>3, <1>4
      <4> QED BY <1>2, <1>4, <4>1, <4>2 DEF Programmed
    <3>2. ASSUME NEW k \in 0 .. n - 1 PROVE due[N[k]] + 0 + Latency >= 0
      <4>1. ts.CountLeft[N[0]] <= ts.CountLeft[N[k]]
        BY <1>3, <2>1 DEF Timed
      <4>2. ts.CountLeft[N[0]] \in Nat /\ ts.CountLeft[N[k]] \in Nat
        BY <1>3, <1>4
      <4>3. Exact(ts.CountLeft[N[k]] - 0, due[N[k]])
        BY <2>1 DEF Timed
      <4> QED BY <1>4, <3>1, <4>1, <4>2, <4>3 DEF Exact
    <3>3. 0 \in Int /\ 0 >= - Latency
      BY <1>4
    <3>4. Timed(ts.CountLeft, 0, due, 0, N, n)
      BY <1>3, <2>1, <3>2, <3>3, TimedEarly
    <3>5. late' = 0
      BY <1>1, <1>12, <2>3
    <3> QED BY <1>1, <1>7, <1>8, <1>11, <3>4, <3>5
  <2> QED BY <2>2, <2>3
<1>15. Armed(ts, due, late, N, n)'
  <2>1. /\ n # 0 /\ ts'.SSRValueOnLastSetup # SSR_FORBIDDEN_VALUE
        /\ ts'.wut = v /\ (ts'.Overpassed <=> ts.Overpassed) /\ ts'.CountLeft = ts.CountLeft
    BY <1>1, <1>3, <1>4, <1>5, <1>7 DEF SSR_FORBIDDEN_VALUE
  <2>2. ts.CountLeft[N[0]] \in Nat /\ ts.CountLeft[N[0]] - 0 = ts.CountLeft[N[0]]
    BY <1>3, <1>4
  <2>3. CASE v = 0
    <3>1. ts'.pending /\ ts'.wut = 0 /\ ~ ts'.Overpassed /\ ts.CountLeft[N[0]] = 0
      BY <1>2, <1>12, <2>1, <2>3 DEF Programmed
    <3>2. 0 <= MaxWakeupTimerSetup + late' /\ ts'.CountLeft[N[0]] - 0 <= Jitter
      <4>1. 0 <= MaxWakeupTimerSetup + late'
        <5>1. \A x \in Nat : 0 <= MaxWakeupTimerSetup + x
          BY WBounds
        <5>2. late' \in Nat
          BY <1>13
        <5> QED BY <5>1, <5>2
      <4>2. ts'.CountLeft[N[0]] = 0 /\ 0 - 0 <= Jitter
        BY <2>1, <3>1, WBounds
      <4> QED BY <4>1, <4>2
    <3> QED BY <1>10, <2>1, <3>1, <3>2 DEF Armed
  <2>4. CASE v # 0
    <3>1. ~ ts'.pending /\ late' = 0 /\ ts'.wut > 0 /\ 0 + ts'.wut <= MaxWakeupTimerSetup
      BY <1>1, <1>4, <1>12, <2>1, <2>4
    <3>2. /\ ts'.Overpassed => ts'.wut < ts'.CountLeft[N[0]] - 0
          /\ ~ ts'.Overpassed => ts'.wut = ts'.CountLeft[N[0]] - 0
      BY <1>2, <1>4, <2>1, <2>2, <2>4 DEF Programmed
    <3> QED BY <1>10, <2>1, <3>1, <3>2 DEF Armed
  <2> QED BY <2>3, <2>4
<1>16. Lists'
  BY <1>1, <1>9, <1>14, <1>15 DEF Lists
<1>17. Types'
  BY <1>1, <1>4, <1>13, WBounds DEF Types
<1> QED BY <1>1, <1>7, <1>16, <1>17 DEF IInv

----------------------------------------------------------------------------
(* Time                                                                    *)

\* The sub-second register counts a tick, and may wrap.
LEMMA ElapsedTick ==
  ASSUME ssr \in 0 .. Wrap - 1, ssr' = IF ssr = 0 THEN Wrap - 1 ELSE ssr - 1,
         ts.SSRValueOnLastSetup \in 0 .. Wrap - 1,
         ts'.SSRValueOnLastSetup = ts.SSRValueOnLastSetup,
         ReturnTimeElapsed(ts) < Wrap - 1
  PROVE  ReturnTimeElapsed(ts)' = ReturnTimeElapsed(ts) + 1
  BY WBounds DEF ReturnTimeElapsed, SSR_FORBIDDEN_VALUE

\* A tick that is counted is one less to count; one that is lost is not.
LEMMA GhostTick ==
  ASSUME rem \in [Timer -> Int \cup {Off}], lost \in [Timer -> Nat], NEW counted \in BOOLEAN,
         rem' = [t \in Timer |-> IF rem[t] = Off THEN Off ELSE rem[t] - 1],
         lost' = [t \in Timer |-> IF rem[t] = Off \/ counted THEN lost[t] ELSE lost[t] + 1]
  PROVE  /\ rem' \in [Timer -> Int \cup {Off}] /\ lost' \in [Timer -> Nat]
         /\ counted => due' = [t \in Timer |-> IF due[t] = Off THEN Off ELSE due[t] - 1]
         /\ ~ counted \/ (\A t \in Timer : rem[t] = Off) => due' = due
<1>1. ASSUME NEW t \in Timer
      PROVE  /\ rem'[t] = (IF rem[t] = Off THEN Off ELSE rem[t] - 1)
             /\ rem'[t] \in Int \cup {Off} /\ lost'[t] \in Nat
             /\ lost'[t] = (IF rem[t] = Off \/ counted THEN lost[t] ELSE lost[t] + 1)
             /\ rem'[t] = Off <=> rem[t] = Off
  <2>1. CASE rem[t] = Off
    BY <2>1
  <2>2. CASE rem[t] # Off
    <3>1. rem[t] \in Int /\ rem[t] - 1 \in Int /\ Off \notin Int
      BY <2>2, TimerServerAssumption DEF TimerServerAssumption
    <3>2. rem'[t] = rem[t] - 1 /\ rem'[t] # Off
      BY <2>2, <3>1
    <3>3. lost[t] \in Nat /\ lost[t] + 1 \in Nat
      OBVIOUS
    <3> QED BY <2>2, <3>1, <3>2, <3>3
  <2> QED BY <2>1, <2>2
<1>2. due' = [t \in Timer |-> IF rem'[t] = Off THEN Off ELSE rem'[t] + lost'[t]]
  BY DEF due
<1>3. ASSUME counted, NEW t \in Timer
      PROVE  (IF rem'[t] = Off THEN Off ELSE rem'[t] + lost'[t])
               = IF due[t] = Off THEN Off ELSE due[t] - 1
  <2>1. CASE rem[t] = Off
    <3>1. rem'[t] = Off /\ due[t] = Off
      BY <1>1, <2>1, DueFacts
    <3> QED BY <3>1
  <2>2. CASE rem[t] # Off
    <3>1. /\ due[t] = rem[t] + lost[t] /\ rem[t] \in Int /\ lost[t] \in Nat /\ due[t] # Off
          /\ rem'[t] = rem[t] - 1 /\ lost'[t] = lost[t] /\ rem'[t] # Off
      BY <1>1, <1>3, <2>2, DueFacts
    <3> QED BY <3>1
  <2> QED BY <2>1, <2>2
<1>4. ASSUME ~ counted \/ (\A v \in Timer : rem[v] = Off), NEW t \in Timer
      PROVE  (IF rem'[t] = Off THEN Off ELSE rem'[t] + lost'[t]) = due[t]
  <2>1. CASE rem[t] = Off
    <3>1. rem'[t] = Off /\ due[t] = Off
      BY <1>1, <2>1, DueFacts
    <3> QED BY <3>1
  <2>2. CASE rem[t] # Off
    <3>1. /\ due[t] = rem[t] + lost[t] /\ rem[t] \in Int /\ lost[t] \in Nat
          /\ rem'[t] = rem[t] - 1 /\ lost'[t] = lost[t] + 1 /\ rem'[t] # Off
      BY <1>1, <1>4, <2>2, DueFacts
    <3> QED BY <3>1
  <2> QED BY <2>1, <2>2
<1>5. due \in [Timer -> Int \cup {Off}]
  BY DueFacts
<1>6. rem' \in [Timer -> Int \cup {Off}] /\ lost' \in [Timer -> Nat]
  BY <1>1
<1> HIDE DEF due
<1>7. counted => due' = [t \in Timer |-> IF due[t] = Off THEN Off ELSE due[t] - 1]
  BY <1>2, <1>3
<1>8. ~ counted \/ (\A t \in Timer : rem[t] = Off) => due' = due
  BY <1>2, <1>4, <1>5
<1> QED BY <1>6, <1>7, <1>8

\* What the counter leaves and changes when it counts, or expires.
LEMMA CounterFields ==
  ASSUME ts \in State, NEW w \in 0 .. MaxWakeupTimerSetup, NEW b \in BOOLEAN,
         ts' = [ts EXCEPT !.wut = w, !.pending = b]
  PROVE  /\ ts' \in State /\ ts'.wut = w /\ ts'.pending = b
         /\ ts'.TimerIDStatus = ts.TimerIDStatus
         /\ ts'.CounterInit = ts.CounterInit /\ ts'.CountLeft = ts.CountLeft
         /\ ts'.NextID = ts.NextID /\ ts'.PreviousID = ts.PreviousID
         /\ ts'.Current = ts.Current /\ ts'.Previous = ts.Previous
         /\ ts'.SSRValueOnLastSetup = ts.SSRValueOnLastSetup
         /\ ts'.Overpassed = ts.Overpassed
<1> DEFINE x == [ts EXCEPT !.wut = w, !.pending = b]
<1>1. x.Overpassed = ts.Overpassed /\ x.pending = b
  BY Zenon DEF State
<1>2. /\ x \in State /\ x.wut = w
      /\ x.TimerIDStatus = ts.TimerIDStatus
      /\ x.CounterInit = ts.CounterInit /\ x.CountLeft = ts.CountLeft
      /\ x.NextID = ts.NextID /\ x.PreviousID = ts.PreviousID
      /\ x.Current = ts.Current /\ x.Previous = ts.Previous
      /\ x.SSRValueOnLastSetup = ts.SSRValueOnLastSetup
  BY DEF State
<1> QED BY <1>1, <1>2

\* What a tick leaves and changes, in each of the steps of a call.
LEMMA TickFacts ==
  ASSUME IInv, Tick
  PROVE  /\ ts \in State /\ ts' \in State
         /\ ts'.wut = (IF ts.wut > 0 THEN ts.wut - 1 ELSE 0)
         /\ ts'.pending <=> ts.pending \/ ts.wut = 1
         /\ ts'.TimerIDStatus = ts.TimerIDStatus
         /\ ts'.CounterInit = ts.CounterInit /\ ts'.CountLeft = ts.CountLeft
         /\ ts'.NextID = ts.NextID /\ ts'.PreviousID = ts.PreviousID
         /\ ts'.Current = ts.Current /\ ts'.Previous = ts.Previous
         /\ ts'.SSRValueOnLastSetup = ts.SSRValueOnLastSetup
         /\ ts'.Overpassed = ts.Overpassed
         /\ Types' /\ starting' = starting /\ pc' = pc
         /\ wakeup_timer_value' = wakeup_timer_value
         /\ ts.pending \/ pc # "idle" => late < Latency
         /\ late' = IF ts.pending \/ pc # "idle" THEN late + 1 ELSE 0
         /\ ssr' = IF ssr = 0 THEN Wrap - 1 ELSE ssr - 1
         /\ Counting => due' = [t \in Timer |-> IF due[t] = Off THEN Off ELSE due[t] - 1]
         /\ ~ Counting \/ (\A t \in Timer : rem[t] = Off) => due' = due
<1> DEFINE w == IF ts.wut > 0 THEN ts.wut - 1 ELSE 0
           b == ts.pending \/ Expired(w)
<1>1. /\ ts.pending \/ pc # "idle" => late < Latency
      /\ ssr' = IF ssr = 0 THEN Wrap - 1 ELSE ssr - 1
      /\ ts' = [ts EXCEPT !.wut = w, !.pending = b]
      /\ late' = IF ts.pending \/ pc # "idle" THEN late + 1 ELSE 0
      /\ rem' = [t \in Timer |-> IF rem[t] = Off THEN Off ELSE rem[t] - 1]
      /\ lost' = [t \in Timer |-> IF rem[t] = Off \/ Counting THEN lost[t] ELSE lost[t] + 1]
      /\ starting' = starting /\ pc' = pc /\ wakeup_timer_value' = wakeup_timer_value
  BY DEF Tick
<1>2. /\ ts \in State /\ ts.wut \in 0 .. MaxWakeupTimerSetup /\ ts.pending \in BOOLEAN
  BY ShapeFacts DEF IInv, Lists, State
<1>3. /\ w \in 0 .. MaxWakeupTimerSetup /\ b \in BOOLEAN
      /\ b <=> ts.pending \/ ts.wut = 1
  BY <1>2, WBounds DEF Expired
<1> HIDE DEF w, b
<1>4. /\ ts' \in State /\ ts'.wut = w /\ ts'.pending = b
      /\ ts'.TimerIDStatus = ts.TimerIDStatus
      /\ ts'.CounterInit = ts.CounterInit /\ ts'.CountLeft = ts.CountLeft
      /\ ts'.NextID = ts.NextID /\ ts'.PreviousID = ts.PreviousID
      /\ ts'.Current = ts.Current /\ ts'.Previous = ts.Previous
      /\ ts'.SSRValueOnLastSetup = ts.SSRValueOnLastSetup
      /\ ts'.Overpassed = ts.Overpassed
  BY <1>1, <1>2, <1>3, CounterFields
<1>5. Counting \in BOOLEAN /\ rem \in [Timer -> Int \cup {Off}] /\ lost \in [Timer -> Nat]
  BY DEF Counting, IInv, Types
<1> HIDE DEF Counting
<1>6. /\ rem' \in [Timer -> Int \cup {Off}] /\ lost' \in [Timer -> Nat]
      /\ Counting => due' = [t \in Timer |-> IF due[t] = Off THEN Off ELSE due[t] - 1]
      /\ ~ Counting \/ (\A t \in Timer : rem[t] = Off) => due' = due
  BY <1>1, <1>5, GhostTick
<1>7. Types'
  BY <1>1, <1>6, WBounds DEF IInv, Types
<1>8. w = (IF ts.wut > 0 THEN ts.wut - 1 ELSE 0)
  BY DEF w
<1> QED BY <1>1, <1>2, <1>3, <1>4, <1>6, <1>7, <1>8

\* A tick is not lost for the shape of the list.
LEMMA TickShape ==
  ASSUME IInv, Tick, NEW N, NEW n, Shape(ts, due, N, n)
  PROVE  Shape(ts', due', N, n)
<1>1. /\ ts' \in State
      /\ ts'.TimerIDStatus = ts.TimerIDStatus
      /\ ts'.CounterInit = ts.CounterInit
      /\ ts'.NextID = ts.NextID /\ ts'.PreviousID = ts.PreviousID
      /\ ts'.Current = ts.Current /\ ts'.Previous = ts.Previous
      /\ due' = [t \in Timer |-> IF due[t] = Off THEN Off ELSE due[t] - 1] \/ due' = due
  BY TickFacts
<1>2. due \in [Timer -> Int \cup {Off}]
  BY DEF Shape
<1>3. /\ due' \in [Timer -> Int \cup {Off}]
      /\ \A t \in Timer : due'[t] = Off <=> due[t] = Off
  <2>1. CASE due' = due
    BY <1>2, <2>1
  <2>2. CASE due' = [t \in Timer |-> IF due[t] = Off THEN Off ELSE due[t] - 1]
    <3> SUFFICES ASSUME NEW t \in Timer
                 PROVE  /\ (IF due[t] = Off THEN Off ELSE due[t] - 1) \in Int \cup {Off}
                        /\ (IF due[t] = Off THEN Off ELSE due[t] - 1) = Off <=> due[t] = Off
      BY <2>2
    <3>1. CASE due[t] = Off
      BY <3>1
    <3>2. CASE due[t] # Off
      <4>1. due[t] \in Int /\ due[t] - 1 \in Int /\ Off \notin Int
        BY <1>2, <3>2, TimerServerAssumption DEF TimerServerAssumption
      <4> QED BY <3>2, <4>1
    <3> QED BY <3>1, <3>2
  <2> QED BY <1>1, <2>1, <2>2
<1>4. Shape(ts', due, N, n)
  BY <1>1, Framed
<1> HIDE DEF due
<1>5. \A d : Shape(ts', due, N, n) /\ d \in [Timer -> Int \cup {Off}]
               /\ (\A t \in Timer : d[t] = Off <=> due[t] = Off) => Shape(ts', d, N, n)
  BY DEF Shape
<1> QED BY <1>3, <1>4, <1>5

\* Between two calls every tick of a running timer is counted.
LEMMA TickIdle ==
  ASSUME IInv, Tick, pc = "idle"
  PROVE  Lists'
<1> DEFINE e == ReturnTimeElapsed(ts)
<1>1. PICK N, n : Consistent(ts, due, late, N, n) /\ Armed(ts, due, late, N, n)
  BY IdleFacts
<1>2. /\ ssr \in 0 .. Wrap - 1 /\ late \in Nat /\ late <= Latency
      /\ due \in [Timer -> Int \cup {Off}] /\ ts \in State
      /\ Shape(ts, due, N, n) /\ Timed(ts.CountLeft, e, due, late, N, n)
      /\ n \in Nat /\ n <= MaxTimer /\ N[0] = ts.Current
      /\ \A k \in 0 .. n - 1 : N[k] \in Timer
  BY <1>1, IdleFacts, ShapeFacts DEF Consistent
<1>3. /\ e \in Nat /\ ts.wut \in Nat /\ ts.pending \in BOOLEAN /\ ts.Overpassed \in BOOLEAN
      /\ ts.CountLeft \in [Timer -> Nat] /\ ts.SSRValueOnLastSetup \in -1 .. Wrap - 1
  BY <1>2, ElapsedFacts, WBounds DEF State
<1>4. /\ ts'.wut = (IF ts.wut > 0 THEN ts.wut - 1 ELSE 0)
      /\ ts'.pending <=> ts.pending \/ ts.wut = 1
      /\ ts'.CountLeft = ts.CountLeft
      /\ ts'.SSRValueOnLastSetup = ts.SSRValueOnLastSetup
      /\ ts'.Overpassed = ts.Overpassed
      /\ ts.pending => late < Latency
      /\ late' = IF ts.pending THEN late + 1 ELSE 0
      /\ ssr' = IF ssr = 0 THEN Wrap - 1 ELSE ssr - 1
      /\ Counting => due' = [t \in Timer |-> IF due[t] = Off THEN Off ELSE due[t] - 1]
      /\ pc' = "idle"
  BY TickFacts
<1>5. late' \in Nat
  BY <1>2, <1>4
<1>6. Shape(ts', due', N, n)
  BY <1>2, TickShape
<1>7. Elapsed' = ReturnTimeElapsed(ts)' /\ Lateness' = late'
  BY <1>4 DEF Elapsed, Lateness
<1> HIDE DEF e
<1>8. CASE n = 0
  <2>1. ~ ts.pending /\ ts.wut = 0
    BY <1>1, <1>8 DEF Armed
  <2>2. Armed(ts, due, late, N, n)'
    BY <1>4, <1>8, <2>1 DEF Armed
  <2>3. Timed(ts'.CountLeft, Elapsed', due', Lateness', N, n)
    BY <1>8, EmptyTimed
  <2> QED BY <1>4, <1>6, <2>2, <2>3 DEF Lists
<1>9. CASE n # 0
  <2>1. n > 0 /\ 0 \in 0 .. n - 1
    BY <1>2, <1>9
  <2>2. /\ ts.SSRValueOnLastSetup \in 0 .. Wrap - 1
        /\ ts.pending => /\ ts.wut = 0 /\ e <= MaxWakeupTimerSetup + late
                         /\ ~ ts.Overpassed => ts.CountLeft[N[0]] - e <= Jitter
                         /\ ts.Overpassed => \A k \in 0 .. n - 1 : due[N[k]] + late >= 1
        /\ ~ ts.pending => /\ ts.wut > 0 /\ e + ts.wut <= MaxWakeupTimerSetup
                           /\ ts.Overpassed => ts.wut < ts.CountLeft[N[0]] - e
                           /\ ~ ts.Overpassed => ts.wut = ts.CountLeft[N[0]] - e
    BY <1>1, <1>3, <2>1 DEF Armed, SSR_FORBIDDEN_VALUE, e
  <2>3. e + 1 <= Wrap - 1
    BY <1>2, <1>3, <1>4, <2>2, WBounds
  <2>4. ReturnTimeElapsed(ts)' = e + 1
    <3>1. ReturnTimeElapsed(ts) < Wrap - 1
      BY <1>3, <2>3, WBounds DEF e
    <3> QED BY <1>2, <1>4, <2>2, <3>1, ElapsedTick DEF e
  <2>5. due' = [t \in Timer |-> IF due[t] = Off THEN Off ELSE due[t] - 1]
    <3>1. Counting
      BY <2>2 DEF Counting, SSR_FORBIDDEN_VALUE
    <3> QED BY <1>4, <3>1
  <2>6. ASSUME NEW k \in 0 .. n - 1
        PROVE  /\ due[N[k]] \in Int /\ due'[N[k]] = due[N[k]] - 1
               /\ ~ ts.pending => /\ due[N[k]] >= ts.wut
                                  /\ ts.Overpassed => due[N[k]] > ts.wut
    <3>1. due[N[k]] \in Int /\ N[k] \in Timer
      BY <1>2 DEF Timed, Exact
    <3>2. due[N[k]] # Off
      BY <3>1, TimerServerAssumption DEF TimerServerAssumption
    <3> HIDE DEF due
    <3>3. due'[N[k]] = due[N[k]] - 1
      BY <2>5, <3>1, <3>2
    <3> QED BY <1>1, <1>2, <3>1, <3>3, CounterRuns DEF e
  <2>7. Timed(ts.CountLeft, e + 1, due', late', N, n)
    <3>1. late' >= late + 1 \/ (late' >= 0 /\ \A k \in 0 .. n - 1 : due[N[k]] > 0)
      <4>1. CASE ts.pending
        BY <1>2, <1>4, <4>1
      <4>2. CASE ~ ts.pending
        <5>1. \A k \in 0 .. n - 1 : due[N[k]] > 0
          BY <1>3, <2>2, <2>6, <4>2
        <5> QED BY <1>5, <5>1
      <4> QED BY <4>1, <4>2
    <3>2. late \in Int /\ late' \in Int
      BY <1>2, <1>5
    <3> HIDE DEF due
    <3>3. Timed(ts.CountLeft, e + 1, [t \in Timer |-> IF due[t] = Off THEN Off ELSE due[t] - 1],
                late', N, n)
      BY <1>2, <1>3, <3>1, <3>2, TimedTick
    <3> QED BY <2>5, <3>3
  <2>8. Timed(ts'.CountLeft, Elapsed', due', Lateness', N, n)
    BY <1>4, <1>7, <2>4, <2>7
  <2>9. Armed(ts, due, late, N, n)'
    <3>1. /\ ts.CountLeft[N[0]] \in Nat
          /\ ts'.CountLeft[N[0]] - (e + 1) = ts.CountLeft[N[0]] - e - 1
      BY <1>2, <1>3, <1>4, <2>1
    <3>2. /\ ts'.SSRValueOnLastSetup # SSR_FORBIDDEN_VALUE
          /\ ts'.Overpassed <=> ts.Overpassed
      BY <1>4, <2>2, WBounds DEF SSR_FORBIDDEN_VALUE
    <3>3. CASE ts.pending
      <4>1. ts'.pending /\ ts'.wut = 0 /\ late' = late + 1
        BY <1>4, <2>2, <3>3
      <4>2. e + 1 <= MaxWakeupTimerSetup + late'
        BY <1>2, <1>3, <2>2, <3>3, <4>1, WBounds
      <4>3. ~ ts.Overpassed => ts'.CountLeft[N[0]] - (e + 1) <= Jitter
        BY <1>3, <2>2, <3>1, <3>3, WBounds
      <4>4. ts.Overpassed => \A k \in 0 .. n - 1 : due'[N[k]] + late' >= 1
        BY <1>2, <2>2, <2>6, <3>3, <4>1
      <4> QED BY <1>9, <2>4, <3>2, <4>1, <4>2, <4>3, <4>4 DEF Armed
    <3>4. CASE ~ ts.pending /\ ts.wut = 1
      <4>1. ts'.pending /\ ts'.wut = 0 /\ late' = 0
        BY <1>4, <3>4
      <4>2. e + 1 <= MaxWakeupTimerSetup + late'
        BY <1>3, <2>2, <3>4, <4>1, WBounds
      <4>3. ~ ts.Overpassed => ts'.CountLeft[N[0]] - (e + 1) <= Jitter
        BY <1>3, <2>2, <3>1, <3>4, WBounds
      <4>4. ts.Overpassed => \A k \in 0 .. n - 1 : due'[N[k]] + late' >= 1
        BY <2>6, <3>4, <4>1
      <4> QED BY <1>9, <2>4, <3>2, <4>1, <4>2, <4>3, <4>4 DEF Armed
    <3>5. CASE ~ ts.pending /\ ts.wut # 1
      <4>1. ~ ts'.pending /\ ts'.wut = ts.wut - 1 /\ ts'.wut > 0 /\ late' = 0
        BY <1>3, <1>4, <2>2, <3>5
      <4>2. /\ (e + 1) + ts'.wut <= MaxWakeupTimerSetup
            /\ ts.Overpassed => ts'.wut < ts'.CountLeft[N[0]] - (e + 1)
            /\ ~ ts.Overpassed => ts'.wut = ts'.CountLeft[N[0]] - (e + 1)
        BY <1>3, <2>2, <3>1, <3>5, <4>1, WBounds
      <4> QED BY <1>9, <2>4, <3>2, <4>1, <4>2 DEF Armed
    <3> QED BY <3>3, <3>4, <3>5
  <2> QED BY <1>4, <1>6, <2>8, <2>9 DEF Lists
<1> QED BY <1>8, <1>9

\* In a call a tick is counted or lost; the register does not wrap twice.
LEMMA TickCalled ==
  ASSUME IInv, Tick, pc # "idle"
  PROVE  Lists'
<1>1. PICK N, n : /\ Shape(ts, due, N, n) /\ Timed(ts.CountLeft, Elapsed, due, Lateness, N, n)
                  /\ pc = "reschedule" => Changed(ts, late, n)
                  /\ pc = "restart" => Programmed(ts, wakeup_timer_value, N, n)
  BY DEF IInv, Lists
<1>2. /\ ssr \in 0 .. Wrap - 1 /\ late \in Nat /\ late <= Latency /\ Latency \in Nat
      /\ pc \in {"reschedule", "restart"}
      /\ due \in [Timer -> Int \cup {Off}] /\ ts \in State
      /\ n \in Nat /\ n <= MaxTimer
      /\ \A k \in 0 .. n - 1 : N[k] \in Timer
  BY <1>1, ShapeFacts, WBounds DEF IInv, Types
<1>3. /\ ReturnTimeElapsed(ts) \in Nat /\ ts.wut \in Nat /\ ts.pending \in BOOLEAN
      /\ ts.CountLeft \in [Timer -> Nat] /\ ts.SSRValueOnLastSetup \in -1 .. Wrap - 1
  BY <1>2, ElapsedFacts, WBounds DEF State
<1>4. /\ ts'.wut = (IF ts.wut > 0 THEN ts.wut - 1 ELSE 0)
      /\ ts'.pending <=> ts.pending \/ ts.wut = 1
      /\ ts'.CountLeft = ts.CountLeft
      /\ ts'.SSRValueOnLastSetup = ts.SSRValueOnLastSetup
      /\ ts'.Overpassed = ts.Overpassed
      /\ late < Latency /\ late' = late + 1
      /\ ssr' = IF ssr = 0 THEN Wrap - 1 ELSE ssr - 1
      /\ Counting => due' = [t \in Timer |-> IF due[t] = Off THEN Off ELSE due[t] - 1]
      /\ ~ Counting => due' = due
      /\ pc' = pc /\ wakeup_timer_value' = wakeup_timer_value
  BY TickFacts
<1>5. Shape(ts', due', N, n)
  BY <1>1, TickShape
<1>6. Lateness \in Int /\ Lateness' \in Int /\ Lateness' >= Lateness + 1
  BY <1>2, <1>3, <1>4 DEF Lateness
<1>7. CASE Counting
  <2>1. pc = "reschedule" /\ ts.SSRValueOnLastSetup \in 0 .. Wrap - 1
    BY <1>2, <1>3, <1>7 DEF Counting, SSR_FORBIDDEN_VALUE
  <2>2. n > 0 /\ (ts.pending => ts.wut = 0)
        /\ ReturnTimeElapsed(ts) + ts.wut <= MaxWakeupTimerSetup + late
    BY <1>1, <2>1 DEF Changed
  <2>3. ReturnTimeElapsed(ts)' = ReturnTimeElapsed(ts) + 1
    <3>1. ReturnTimeElapsed(ts) < Wrap - 1
      BY <1>2, <1>3, <1>4, <2>2, WBounds
    <3> QED BY <1>2, <1>4, <2>1, <3>1, ElapsedTick
  <2>4. Elapsed = ReturnTimeElapsed(ts) /\ Elapsed' = ReturnTimeElapsed(ts) + 1
    BY <1>4, <2>1, <2>3 DEF Elapsed
  <2>5. Timed(ts'.CountLeft, Elapsed', due', Lateness', N, n)
    <3>1. Elapsed \in Nat /\ Timed(ts.CountLeft, Elapsed, due, Lateness, N, n)
      BY <1>1, <1>3, <2>4
    <3> HIDE DEF due, Elapsed, Lateness
    <3>2. Timed(ts.CountLeft, Elapsed + 1,
                [t \in Timer |-> IF due[t] = Off THEN Off ELSE due[t] - 1], Lateness', N, n)
      BY <1>2, <1>3, <1>6, <3>1, TimedTick
    <3> QED BY <1>4, <1>7, <2>4, <3>2
  <2>6. Changed(ts, late, n)'
    <3>1. ts'.pending => ts'.wut = 0
      BY <1>3, <1>4, <2>2
    <3>2. ReturnTimeElapsed(ts)' + ts'.wut <= MaxWakeupTimerSetup + late'
      <4>1. ts'.wut \in Nat /\ ts'.wut <= ts.wut
        BY <1>3, <1>4
      <4> QED BY <1>2, <1>3, <1>4, <2>2, <2>3, <4>1, WBounds
    <3> QED BY <2>2, <3>1, <3>2 DEF Changed
  <2> QED BY <1>4, <1>5, <2>1, <2>5, <2>6 DEF Lists
<1>8. CASE ~ Counting
  <2>1. due' = due
    BY <1>4, <1>8
  <2>2. Elapsed' = Elapsed
    <3>1. CASE pc = "restart"
      BY <1>4, <3>1 DEF Elapsed
    <3>2. CASE pc # "restart"
      <4>1. ts.SSRValueOnLastSetup = SSR_FORBIDDEN_VALUE
        BY <1>8, <3>2 DEF Counting
      <4>2. ReturnTimeElapsed(ts) = 0 /\ ReturnTimeElapsed(ts)' = 0
        BY <1>4, <4>1 DEF ReturnTimeElapsed
      <4> QED BY <1>4, <3>2, <4>2 DEF Elapsed
    <3> QED BY <3>1, <3>2
  <2>3. Timed(ts'.CountLeft, Elapsed', due', Lateness', N, n)
    <3>1. Lateness' >= Lateness
      BY <1>6
    <3> HIDE DEF Elapsed, Lateness
    <3>2. Timed(ts.CountLeft, Elapsed, due, Lateness', N, n)
      BY <1>1, <1>2, <1>6, <3>1, TimedLater
    <3> QED BY <1>4, <2>1, <2>2, <3>2
  <2>4. CASE pc = "restart"
    <3>1. ts.wut = 0 /\ Programmed(ts, wakeup_timer_value, N, n)
      BY <1>1, <2>4 DEF Programmed
    <3>2. ts'.wut = 0
      BY <1>4, <3>1
    <3>3. Programmed(ts, wakeup_timer_value, N, n)'
      BY <1>4, <3>1, <3>2 DEF Programmed
    <3> QED BY <1>4, <1>5, <2>3, <2>4, <3>3 DEF Lists
  <2>5. CASE pc = "reschedule"
    <3>1. ts.SSRValueOnLastSetup = SSR_FORBIDDEN_VALUE
      BY <1>8, <2>5 DEF Counting
    <3>2. ReturnTimeElapsed(ts) = 0 /\ ReturnTimeElapsed(ts)' = 0
      BY <1>4, <3>1 DEF ReturnTimeElapsed
    <3>3. n > 0 /\ (ts.pending => ts.wut = 0) /\ 0 + ts.wut <= MaxWakeupTimerSetup + late
      BY <1>1, <2>5, <3>2 DEF Changed
    <3>4. (ts'.pending => ts'.wut = 0) /\ ts'.wut \in Nat /\ ts'.wut <= ts.wut
      BY <1>3, <1>4, <3>3
    <3>5. 0 + ts'.wut <= MaxWakeupTimerSetup + late'
      BY <1>2, <1>3, <1>4, <3>3, <3>4, WBounds
    <3>6. Changed(ts, late, n)'
      BY <3>2, <3>3, <3>4, <3>5 DEF Changed
    <3> QED BY <1>4, <1>5, <2>3, <2>5, <3>6 DEF Lists
  <2> QED BY <1>2, <2>4, <2>5
<1> QED BY <1>7, <1>8

LEMMA TickInv ==
  ASSUME IInv, Tick
  PROVE  IInv'
<1>1. Lists'
  BY TickIdle, TickCalled
<1>2. /\ Types' /\ starting' = starting /\ ts'.TimerIDStatus = ts.TimerIDStatus
  BY TickFacts
<1> QED BY <1>1, <1>2 DEF IInv

LEMMA EarlyInv ==
  ASSUME IInv, ExpireEarly
  PROVE  IInv'
<1>1. /\ ts.wut \in 1 .. Jitter /\ ~ ts.pending
      /\ ts' = [ts EXCEPT !.wut = 0, !.pending = TRUE]
      /\ late' = IF pc = "idle" THEN 0 ELSE late
      /\ ssr' = ssr /\ pc' = pc /\ wakeup_timer_value' = wakeup_timer_value
      /\ starting' = starting /\ rem' = rem /\ lost' = lost
  BY DEF ExpireEarly
<1>2. PICK N, n : /\ Shape(ts, due, N, n) /\ Timed(ts.CountLeft, Elapsed, due, Lateness, N, n)
                  /\ pc = "idle" => Armed(ts, due, late, N, n)
                  /\ pc = "reschedule" => Changed(ts, late, n)
                  /\ pc = "restart" => Programmed(ts, wakeup_timer_value, N, n)
  BY DEF IInv, Lists
<1>3. /\ ssr \in 0 .. Wrap - 1 /\ late \in Nat /\ late <= Latency /\ Latency \in Nat
      /\ pc \in {"idle", "reschedule", "restart"}
      /\ ts \in State /\ ReturnTimeElapsed(ts) \in Nat /\ ts.wut \in Nat /\ ts.wut > 0
      /\ n \in Nat /\ n <= MaxTimer
  BY <1>1, <1>2, ElapsedFacts, ShapeFacts, WBounds DEF IInv, Types
<1>4. pc \in {"idle", "reschedule"}
  BY <1>2, <1>3 DEF Programmed
<1>5. /\ ts' \in State /\ ts'.wut = 0 /\ ts'.pending
      /\ ts'.TimerIDStatus = ts.TimerIDStatus
      /\ ts'.CounterInit = ts.CounterInit /\ ts'.CountLeft = ts.CountLeft
      /\ ts'.NextID = ts.NextID /\ ts'.PreviousID = ts.PreviousID
      /\ ts'.Current = ts.Current /\ ts'.Previous = ts.Previous
      /\ ts'.SSRValueOnLastSetup = ts.SSRValueOnLastSetup
      /\ ts'.Overpassed = ts.Overpassed
  <2>1. 0 \in 0 .. MaxWakeupTimerSetup /\ TRUE \in BOOLEAN
    BY WBounds
  <2> QED BY <1>1, <1>3, <2>1, CounterFields
<1>6. due' = due
  BY <1>1, SameGhosts
<1>7. Shape(ts', due', N, n)
  BY <1>2, <1>5, <1>6, Framed
<1>8. ReturnTimeElapsed(ts)' = ReturnTimeElapsed(ts)
  BY <1>1, <1>5 DEF ReturnTimeElapsed
<1>9. Elapsed' = Elapsed
  BY <1>1, <1>8 DEF Elapsed
<1>10. Types'
  BY <1>1, WBounds DEF IInv, Types
<1>11. CASE pc = "idle"
  <2>1. Armed(ts, due, late, N, n) /\ late = 0 /\ late' = 0
    BY <1>1, <1>2, <1>11 DEF Armed
  <2>2. Lateness' = Lateness
    BY <1>1, <1>11, <2>1 DEF Lateness
  <2>3. Timed(ts'.CountLeft, Elapsed', due', Lateness', N, n)
    BY <1>2, <1>5, <1>6, <1>9, <2>2
  <2>4. n # 0 /\ n > 0
    BY <1>3, <2>1 DEF Armed
  <2>5. /\ ts.SSRValueOnLastSetup # SSR_FORBIDDEN_VALUE
        /\ ReturnTimeElapsed(ts) + ts.wut <= MaxWakeupTimerSetup
        /\ ~ ts.Overpassed => ts.wut = ts.CountLeft[N[0]] - ReturnTimeElapsed(ts)
    BY <1>1, <2>1, <2>4 DEF Armed
  <2>6. ReturnTimeElapsed(ts) <= MaxWakeupTimerSetup + late'
    BY <1>3, <2>1, <2>5, WBounds
  <2>7. ts.Overpassed => \A k \in 0 .. n - 1 : due'[N[k]] + late' >= 1
    <3> SUFFICES ASSUME NEW k \in 0 .. n - 1 PROVE due[N[k]] + 0 >= 1
      BY <1>6, <2>1
    <3>1. Elapsed = ReturnTimeElapsed(ts) /\ Lateness = late
      BY <1>11 DEF Elapsed, Lateness
    <3>2. Timed(ts.CountLeft, ReturnTimeElapsed(ts), due, late, N, n)
      BY <1>2, <3>1
    <3>3. due[N[k]] \in Int /\ ts.wut > 0 /\ ts.wut \in Nat /\ due[N[k]] >= ts.wut
      BY <1>1, <1>2, <1>3, <2>1, <3>2, CounterRuns
    <3> QED BY <3>3
  <2>8. ~ ts.Overpassed => ts'.CountLeft[N[0]] - ReturnTimeElapsed(ts) <= Jitter
    BY <1>1, <1>5, <2>5
  <2>9. Armed(ts, due, late, N, n)'
    BY <1>5, <1>8, <2>4, <2>5, <2>6, <2>7, <2>8 DEF Armed
  <2> QED BY <1>1, <1>5, <1>7, <1>10, <1>11, <2>3, <2>9 DEF IInv, Lists
<1>12. CASE pc = "reschedule"
  <2>1. Changed(ts, late, n) /\ late' = late
    BY <1>1, <1>2, <1>12
  <2>2. Lateness \in Int /\ Lateness' \in Int /\ Lateness' >= Lateness
    BY <1>1, <1>3, <1>5, <1>12 DEF Lateness
  <2>3. Timed(ts'.CountLeft, Elapsed', due', Lateness', N, n)
    <3> HIDE DEF Elapsed, Lateness, due
    <3>1. Timed(ts.CountLeft, Elapsed, due, Lateness', N, n)
      BY <1>2, <1>3, <2>2, TimedLater
    <3> QED BY <1>5, <1>6, <1>9, <3>1
  <2>4. Changed(ts, late, n)'
    <3>1. n > 0 /\ ReturnTimeElapsed(ts) + ts.wut <= MaxWakeupTimerSetup + late
      BY <2>1 DEF Changed
    <3>2. ReturnTimeElapsed(ts) + 0 <= MaxWakeupTimerSetup + late
      BY <1>3, <3>1, WBounds
    <3> QED BY <1>5, <1>8, <2>1, <3>1, <3>2 DEF Changed
  <2> QED BY <1>1, <1>5, <1>7, <1>10, <1>12, <2>3, <2>4 DEF IInv, Lists
<1> QED BY <1>4, <1>11, <1>12

LEMMA NextInv == IInv /\ [Next]_vars => IInv'
<1> SUFFICES ASSUME IInv, [Next]_vars PROVE IInv'
  OBVIOUS
<1>1. CASE Thread
  BY <1>1, CreateInv, StopInv, DeleteInv, StartInv DEF Thread
<1>2. CASE HW_TS_Started
  BY <1>2, StartedInv
<1>3. CASE HW_TS_RTC_Wakeup_Handler
  BY <1>3, HandlerInv
<1>4. CASE RescheduleTimerList
  BY <1>4, RescheduleInv
<1>5. CASE RestartWakeupCounter
  BY <1>5, RestartInv
<1>6. CASE Tick
  BY <1>6, TickInv
<1>7. CASE ExpireEarly
  BY <1>7, EarlyInv
<1>8. CASE UNCHANGED vars
  <2>1. /\ ts' = ts /\ ssr' = ssr /\ pc' = pc /\ wakeup_timer_value' = wakeup_timer_value
        /\ starting' = starting /\ late' = late /\ rem' = rem /\ lost' = lost
    BY <1>8 DEF vars
  <2>2. /\ due' = due /\ Elapsed' = Elapsed /\ Lateness' = Lateness
        /\ ReturnTimeElapsed(ts)' = ReturnTimeElapsed(ts)
    BY <2>1 DEF due, Elapsed, Lateness, ReturnTimeElapsed
  <2>3. Lists'
    <3> HIDE DEF due, Elapsed, Lateness
    <3>1. PICK N, n :
            /\ Shape(ts, due, N, n) /\ Timed(ts.CountLeft, Elapsed, due, Lateness, N, n)
            /\ pc = "idle" => Armed(ts, due, late, N, n)
            /\ pc = "reschedule" => Changed(ts, late, n)
            /\ pc = "restart" => Programmed(ts, wakeup_timer_value, N, n)
      BY DEF IInv, Lists
    <3>2. Shape(ts', due', N, n) /\ Timed(ts'.CountLeft, Elapsed', due', Lateness', N, n)
      BY <2>1, <2>2, <3>1
    <3>3. pc = "idle" => Armed(ts, due, late, N, n)'
      BY <2>1, <2>2, <3>1 DEF Armed
    <3>4. pc = "reschedule" => Changed(ts, late, n)'
      BY <2>1, <2>2, <3>1 DEF Changed
    <3>5. pc = "restart" => Programmed(ts, wakeup_timer_value, N, n)'
      BY <2>1, <3>1 DEF Programmed
    <3> QED BY <2>1, <3>2, <3>3, <3>4, <3>5 DEF Lists
  <2> QED BY <2>1, <2>3 DEF IInv, Types
<1> QED BY <1>1, <1>2, <1>3, <1>4, <1>5, <1>6, <1>7, <1>8 DEF Next

LEMMA Invariance == Spec => []IInv
<1>1. Init => IInv
  BY InitInv
<1>2. IInv /\ [Next]_vars => IInv'
  BY NextInv
<1> QED BY <1>1, <1>2, PTL DEF Spec

----------------------------------------------------------------------------
(* The theorems                                                            *)

\* Every variable has its type: no index of aTimerContext[] is out of range, no
\* count becomes negative, the counter is never set beyond its limit.
THEOREM TypeCorrect == Spec => []TypeOK
<1>1. IInv => TypeOK
  BY ShapeFacts DEF IInv, Types, Lists, State, TypeOK
<1> QED BY <1>1, Invariance, PTL

\* The list holds exactly the running timers, in order, however timers are
\* started, stopped and deleted.
THEOREM ListCorrect == Spec => []ListIsRunning
<1>1. IInv => ListIsRunning
  <2> SUFFICES ASSUME IInv PROVE ListIsRunning
    OBVIOUS
  <2>1. PICK N, n : Shape(ts, due, N, n) /\ Timed(ts.CountLeft, Elapsed, due, Lateness, N, n)
    BY DEF IInv, Lists
  <2>2. /\ n \in Nat /\ n <= MaxTimer
        /\ \A k \in 0 .. n - 1 : N[k] \in Timer
        /\ \A k \in 0 .. MaxTimer : k >= n => N[k] = Nil
        /\ \A k \in 0 .. n - 2 : ts.PreviousID[N[k + 1]] = N[k]
    BY <2>1, ListFacts DEF Shape
  <2>3. Node(ts) = N
    BY <2>1, NodeIs DEF Shape
  <2>4. Elems(N, n) = Running
    BY <2>1 DEF Shape, Running
  <2>5. Listed(ts) = Running
    <3>1. \A k \in 0 .. MaxTimer : N[k] # Nil <=> k \in 0 .. n - 1
      BY <2>2, Bounds
    <3>2. \A k \in 0 .. n - 1 : k \in 0 .. MaxTimer
      BY <2>2, Bounds
    <3> QED BY <2>3, <2>4, <3>1, <3>2 DEF Listed, Elems
  <2>6. Node(ts)[Cardinality(Running)] = Nil
    <3>1. Cardinality(Running) = n
      BY <2>1, <2>4, ElemsCount DEF Shape
    <3>2. n \in 0 .. MaxTimer /\ n >= n
      BY <2>2, Bounds
    <3> QED BY <2>2, <2>3, <3>1, <3>2
  <2>7. ASSUME NEW k \in 0 .. MaxTimer - 1, N[k] # Nil, N[k + 1] # Nil
        PROVE  ts.CountLeft[N[k]] <= ts.CountLeft[N[k + 1]] /\ ts.PreviousID[N[k + 1]] = N[k]
    <3>1. k + 1 < n
      BY <2>2, <2>7, Bounds
    <3>2. k \in 0 .. n - 1 /\ k + 1 \in 0 .. n - 1 /\ k \in 0 .. n - 2 /\ k <= k + 1
      BY <2>2, <3>1
    <3>3. ts.CountLeft[N[k]] <= ts.CountLeft[N[k + 1]]
      BY <2>1, <3>2 DEF Timed
    <3> QED BY <2>2, <3>2, <3>3
  <2> QED BY <2>3, <2>5, <2>6, <2>7 DEF ListIsRunning
<1> QED BY <1>1, Invariance, PTL

\* A running timer has a time left.
LEMMA RunningDue ==
  ASSUME IInv, NEW t \in Running
  PROVE  Due(t) = due[t] /\ due[t] \in Int
<1>1. PICK N, n : Shape(ts, due, N, n)
  BY DEF IInv, Lists
<1>2. t \in Timer /\ due[t] # Off
  BY <1>1 DEF Shape, Running
<1> HIDE DEF due
<1>3. rem[t] # Off
  BY <1>2, DueFacts DEF IInv, Types
<1>4. due[t] = rem[t] + lost[t] /\ rem[t] \in Int /\ lost[t] \in Nat
  BY <1>2, <1>3, DueFacts DEF IInv, Types
<1> QED BY <1>4 DEF Due

\* The program's count of a running timer differs from the real time it has left
\* by the ticks lost between two readings of the register, and by no other.
THEOREM CountsCorrect == Spec => []CountLeftIsExact
<1>1. IInv => CountLeftIsExact
  <2> SUFFICES ASSUME IInv, NEW t \in Running
               PROVE  LET left == ts.CountLeft[t] - Elapsed IN
                      IF left > 0 THEN Due(t) = left ELSE Due(t) <= 0
    BY DEF CountLeftIsExact
  <2>1. PICK N, n : Shape(ts, due, N, n) /\ Timed(ts.CountLeft, Elapsed, due, Lateness, N, n)
    BY DEF IInv, Lists
  <2>2. PICK k \in 0 .. n - 1 : N[k] = t
    BY <2>1, ShapeFacts DEF Running
  <2>3. Exact(ts.CountLeft[t] - Elapsed, due[t])
    BY <2>1, <2>2 DEF Timed
  <2>4. ts.CountLeft[t] \in Nat /\ Elapsed \in Nat
    BY <2>1, ElapsedFacts, ShapeFacts DEF State, Running, IInv, Types, Elapsed
  <2>5. Due(t) = due[t]
    BY RunningDue
  <2> HIDE DEF Due, due, Elapsed
  <2> QED BY <2>3, <2>4, <2>5 DEF Exact
<1> QED BY <1>1, Invariance, PTL

\* While a timer runs and no call is under way, the interrupt is pending, or it
\* will be before anything more than the first timer's time has been counted.
THEOREM NeverForgotten == Spec => []AlwaysArmed
<1>1. IInv => AlwaysArmed
  <2> SUFFICES ASSUME IInv, Running # {}, pc = "idle", ~ ts.pending
               PROVE  ts.wut > 0 /\ \A t \in Running : ts.wut <= Due(t)
    BY DEF AlwaysArmed
  <2>1. PICK N, n : Consistent(ts, due, late, N, n) /\ Armed(ts, due, late, N, n)
    BY IdleFacts
  <2>2. Shape(ts, due, N, n) /\ Timed(ts.CountLeft, ReturnTimeElapsed(ts), due, late, N, n)
        /\ ssr \in 0 .. Wrap - 1
    BY <2>1, IdleFacts DEF Consistent
  <2>3. \A t \in Running : \E k \in 0 .. n - 1 : N[k] = t
    BY <2>2, ShapeFacts DEF Running
  <2>4. \A k \in 0 .. n - 1 : /\ due[N[k]] \in Int /\ ts.wut > 0 /\ ts.wut \in Nat
                              /\ due[N[k]] >= ts.wut
    BY <2>1, <2>2, CounterRuns
  <2>5. \A t \in Running : Due(t) = due[t]
    BY RunningDue
  <2> HIDE DEF Due, due
  <2> QED BY <2>3, <2>4, <2>5
<1> QED BY <1>1, Invariance, PTL

\* The interrupt always finds a running timer at the head of the list.
THEOREM InterruptFindsTimer == Spec => []NoSpuriousInterrupt
<1>1. IInv => NoSpuriousInterrupt
  <2> SUFFICES ASSUME IInv, ts.pending PROVE ts.Current \in Running
    BY DEF NoSpuriousInterrupt
  <2>1. PICK N, n : /\ Shape(ts, due, N, n)
                    /\ pc = "idle" => Armed(ts, due, late, N, n)
                    /\ pc = "reschedule" => Changed(ts, late, n)
                    /\ pc = "restart" => Programmed(ts, wakeup_timer_value, N, n)
    BY DEF IInv, Lists
  <2>2. pc \in {"idle", "reschedule", "restart"} /\ n \in Nat
    BY <2>1, ShapeFacts DEF IInv, Types
  <2>3. n # 0
    BY <2>1, <2>2 DEF Armed, Changed, Programmed
  <2> QED BY <2>1, <2>2, <2>3, ShapeFacts DEF Running
<1> QED BY <1>1, Invariance, PTL

----------------------------------------------------------------------------
(* The refinement of Alarms                                                *)

\* The ticks that are still allowed for programming the counter.
LEMMA ServicePrograms ==
  ASSUME IInv'
  PROVE  Service!Programs
<1>1. late' \in Nat /\ late' <= Latency /\ Latency \in Nat
  BY WBounds DEF IInv, Types
<1>2. \A x \in Nat : x <= Latency => Latency - x \in 0 .. Latency /\ 0 \in 0 .. Latency
  BY <1>1
<1>3. (IF pc' = "idle" THEN 0 ELSE Latency - late') \in 0 .. Latency
  BY <1>1, <1>2
<1> QED BY <1>3 DEF Service!Programs

\* The steps that stop or start a timer, and those that leave all as they are.
LEMMA ServiceCalls ==
  ASSUME IInv, IInv', callback' = None
  PROVE  /\ UNCHANGED <<rem, lost>> => Service!Next
         /\ \A t \in Timer : Forget(t) => Service!Next
         /\ \A t \in Timer, m \in Nat \ {0} : Count(t, m) => Service!Next
<1>1. Service!Programs
  BY ServicePrograms
<1>2. ASSUME UNCHANGED <<rem, lost>> PROVE Service!Next
  BY <1>1, <1>2 DEF Service!Next, Service!Program
<1>3. ASSUME NEW t \in Timer, Forget(t) PROVE Service!Next
  BY <1>1, <1>3 DEF Service!Next, Service!Stop, Service!Clear, Forget
<1>4. ASSUME NEW t \in Timer, NEW m \in Nat \ {0}, Count(t, m) PROVE Service!Next
  <2>1. rem' = [rem EXCEPT ![t] = m] /\ lost' = [lost EXCEPT ![t] = 0]
    BY <1>4 DEF Count
  <2>2. rem'[t] = m
    BY <2>1 DEF IInv, Types
  <2> QED BY <1>1, <2>1, <2>2 DEF Service!Next, Service!Start, Service!Set
<1> QED BY <1>2, <1>3, <1>4

\* The interrupt: the first timer expires when its time has come, but for the
\* ticks the counter may be ahead; or the next part of its delay is programmed.
LEMMA ServiceExpires ==
  ASSUME IInv, IInv', HW_TS_RTC_Wakeup_Handler
  PROVE  Service!Next
<1> DEFINE t == ts.Current
<1>1. /\ pc = "idle" /\ ts.pending /\ t # Nil
      /\ [ts EXCEPT !.pending = FALSE, !.wut = 0].Overpassed =>
           callback' = None /\ UNCHANGED <<rem, lost>>
      /\ ~ [ts EXCEPT !.pending = FALSE, !.wut = 0].Overpassed =>
           /\ callback' = t
           /\ Count(t, [ts EXCEPT !.pending = FALSE, !.wut = 0].CounterInit[t]) \/ Forget(t)
  BY DEF HW_TS_RTC_Wakeup_Handler
<1>2. PICK N, n : Consistent(ts, due, late, N, n) /\ Armed(ts, due, late, N, n)
  BY <1>1, IdleFacts
<1>3. /\ ts \in State /\ Shape(ts, due, N, n)
      /\ Timed(ts.CountLeft, ReturnTimeElapsed(ts), due, late, N, n)
      /\ ReturnTimeElapsed(ts) \in Nat /\ ssr \in 0 .. Wrap - 1
      /\ n \in Nat /\ N[0] = t
  BY <1>1, <1>2, IdleFacts, ElapsedFacts, ShapeFacts DEF Consistent
<1>4. n > 0 /\ 0 \in 0 .. n - 1 /\ t \in Timer /\ ts.TimerIDStatus[t] = "Running"
  BY <1>1, <1>3, ShapeFacts
<1>5. /\ ts.Overpassed => callback' = None /\ UNCHANGED <<rem, lost>>
      /\ ~ ts.Overpassed => callback' = t /\ (Count(t, ts.CounterInit[t]) \/ Forget(t))
  BY <1>1, <1>3 DEF State
<1>6. CASE ts.Overpassed
  BY <1>5, <1>6, ServiceCalls
<1>7. CASE ~ ts.Overpassed
  <2>1. ts.CountLeft[t] - ReturnTimeElapsed(ts) <= Jitter /\ ts.CountLeft[t] \in Nat
    BY <1>1, <1>2, <1>3, <1>4, <1>7 DEF Armed, State
  <2>2. Exact(ts.CountLeft[t] - ReturnTimeElapsed(ts), due[t])
    BY <1>3, <1>4 DEF Timed
  <2>3. due[t] \in Int /\ due[t] <= Jitter
    BY <1>3, <2>1, <2>2, WBounds DEF Exact
  <2>4. Due(t) = due[t] /\ rem[t] # Off
    <3>1. t \in Running
      BY <1>4 DEF Running
    <3>2. due[t] # Off
      BY <2>3, TimerServerAssumption DEF TimerServerAssumption
    <3> HIDE DEF t, due
    <3> QED BY <1>4, <3>1, <3>2, RunningDue, DueFacts DEF IInv, Types
  <2>5. rem[t] \in Int /\ lost[t] \in Nat
    BY <1>4, <2>4, DueFacts DEF IInv, Types
  <2>6. rem[t] <= Jitter
    BY <2>3, <2>4, <2>5, WBounds DEF Due
  <2>7. ts.CounterInit[t] \in Nat \ {0}
    BY <1>3, <1>4 DEF Shape, State
  <2>8. Service!Clear(t) \/ Service!Set(t)
    <3>1. CASE Forget(t)
      BY <3>1 DEF Forget, Service!Clear
    <3>2. CASE Count(t, ts.CounterInit[t])
      <4>1. /\ rem' = [rem EXCEPT ![t] = ts.CounterInit[t]]
            /\ lost' = [lost EXCEPT ![t] = 0]
        BY <3>2 DEF Count
      <4>2. rem'[t] = ts.CounterInit[t]
        BY <1>4, <4>1 DEF IInv, Types
      <4> QED BY <2>7, <4>1, <4>2 DEF Service!Set
    <3> QED BY <1>5, <1>7, <3>1, <3>2
  <2>9. Service!Programs /\ callback' = t
    BY <1>5, <1>7, ServicePrograms
  <2> QED BY <1>4, <2>4, <2>6, <2>8, <2>9 DEF Service!Next, Service!Expire
<1> QED BY <1>6, <1>7

\* A tick: no timer is later than its place in the list, and a call, explain.
LEMMA ServiceTicks ==
  ASSUME IInv, IInv', Tick
  PROVE  Service!Next
<1>1. /\ ts.pending \/ pc # "idle" => late < Latency
      /\ late' = IF ts.pending \/ pc # "idle" THEN late + 1 ELSE 0
      /\ rem' = [t \in Timer |-> IF rem[t] = Off THEN Off ELSE rem[t] - 1]
      /\ lost' = [t \in Timer |-> IF rem[t] = Off \/ Counting THEN lost[t] ELSE lost[t] + 1]
      /\ callback' = None /\ pc' = pc
  BY DEF Tick
<1>2. PICK N, n : /\ Shape(ts, due, N, n) /\ Timed(ts.CountLeft, Elapsed, due, Lateness, N, n)
                  /\ pc = "idle" => Armed(ts, due, late, N, n)
  BY DEF IInv, Lists
<1>3. /\ n \in Nat /\ n <= MaxTimer /\ late \in Nat /\ late <= Latency /\ Latency \in Nat
      /\ rem \in [Timer -> Int \cup {Off}] /\ lost \in [Timer -> Nat]
      /\ ts.pending \in BOOLEAN /\ ssr \in 0 .. Wrap - 1
  BY <1>2, ShapeFacts, WBounds DEF IInv, Types, State
<1>4. ASSUME NEW t \in Timer, rem[t] # Off
      PROVE  rem[t] + lost[t] > - ((MaxTimer + 1) * Latency)
  <2>1. due[t] = rem[t] + lost[t] /\ due[t] # Off
    BY <1>3, <1>4, DueFacts
  <2>2. ts.TimerIDStatus[t] = "Running"
    BY <1>2, <2>1 DEF Shape
  <2>3. PICK k \in 0 .. n - 1 : N[k] = t
    BY <1>2, <2>2, ShapeFacts
  <2>4. due[t] + Lateness + Slack(k) >= 0 /\ due[t] \in Int
    BY <1>2, <2>3 DEF Timed, Exact
  <2>5. Slack(0) \in Nat /\ Slack(k) \in Nat /\ Slack(k) <= Slack(0)
    BY <1>3, Bounds, SlackFacts
  <2>6. (MaxTimer + 1) * Latency = Slack(0) + Latency
    BY SlackFacts
  <2> DEFINE d == due[t]
  <2>7. d > - (Slack(0) + Latency)
    <3>1. CASE ts.pending \/ pc # "idle"
      <4>1. Lateness \in Int /\ Lateness < Latency
        BY <1>1, <1>3, <3>1 DEF Lateness
      <4> HIDE DEF due, Lateness
      <4> QED BY <1>3, <2>4, <2>5, <4>1
    <3>2. CASE ~ ts.pending /\ pc = "idle"
      <4>1. Elapsed = ReturnTimeElapsed(ts) /\ Lateness = late
        BY <3>2 DEF Elapsed, Lateness
      <4>2. Timed(ts.CountLeft, ReturnTimeElapsed(ts), due, late, N, n)
            /\ Armed(ts, due, late, N, n)
        BY <1>2, <3>2, <4>1
      <4>3. due[t] >= ts.wut /\ ts.wut > 0 /\ ts.wut \in Nat
        BY <1>2, <1>3, <2>3, <3>2, <4>2, CounterRuns
      <4> HIDE DEF due
      <4> QED BY <1>3, <2>4, <2>5, <4>3
    <3> QED BY <3>1, <3>2
  <2> HIDE DEF d
  <2> QED BY <2>1, <2>6, <2>7 DEF d
<1>5. CASE pc = "idle"
  <2>1. Counting \/ \A t \in Timer : rem[t] = Off
    <3>1. CASE n = 0
      <4>1. \A t \in Timer : ts.TimerIDStatus[t] # "Running"
        BY <1>2, <3>1, ShapeFacts
      <4>2. \A t \in Timer : due[t] = Off
        BY <1>2, <4>1 DEF Shape
      <4> QED BY <1>3, <4>2, DueFacts
    <3>2. CASE n # 0
      <4>1. ts.SSRValueOnLastSetup # SSR_FORBIDDEN_VALUE
        BY <1>2, <1>3, <1>5, <3>2 DEF Armed
      <4> QED BY <1>5, <4>1 DEF Counting
    <3> QED BY <3>1, <3>2
  <2>2. lost' = lost
    BY <1>1, <1>3, <2>1
  <2>3. /\ (IF pc = "idle" THEN 0 ELSE Latency - late) = 0
        /\ (IF pc' = "idle" THEN 0 ELSE Latency - late') = 0
    BY <1>1, <1>5
  <2> QED BY <1>1, <1>4, <2>2, <2>3 DEF Service!Next, Service!Tick
<1>6. CASE pc # "idle"
  <2>1. lost' = lost \/ lost' = [t \in Timer |-> IF rem[t] = Off THEN lost[t] ELSE lost[t] + 1]
    BY <1>1, <1>3
  <2>2. /\ (IF pc = "idle" THEN 0 ELSE Latency - late) # 0
        /\ (IF pc' = "idle" THEN 0 ELSE Latency - late')
             = (IF pc = "idle" THEN 0 ELSE Latency - late) - 1
    BY <1>1, <1>3, <1>6
  <2> QED BY <1>1, <1>4, <2>1, <2>2 DEF Service!Next, Service!Tick
<1> QED BY <1>5, <1>6

LEMMA ServiceStep ==
  IInv /\ IInv' /\ [Next]_vars =>
    [Service!Next]_<<rem, lost, IF pc = "idle" THEN 0 ELSE Latency - late, callback>>
<1> SUFFICES ASSUME IInv, IInv', [Next]_vars
             PROVE  \/ Service!Next
                    \/ UNCHANGED <<rem, lost, IF pc = "idle" THEN 0 ELSE Latency - late, callback>>
  OBVIOUS
<1>1. CASE Thread
  <2>1. ASSUME NEW t \in Timer, NEW mode \in {"SingleShot", "Repeated"}, HW_TS_Create(t, mode)
        PROVE  Service!Next
    BY <2>1, ServiceCalls DEF HW_TS_Create
  <2>2. ASSUME NEW t \in Timer, HW_TS_Stop(t) \/ HW_TS_Delete(t)
        PROVE  Service!Next
    BY <2>2, ServiceCalls DEF HW_TS_Stop, HW_TS_Delete
  <2>3. ASSUME NEW t \in Timer, NEW m \in Timeouts, HW_TS_Start(t, m)
        PROVE  Service!Next
    BY <2>3, ServiceCalls DEF HW_TS_Start
  <2> QED BY <1>1, <2>1, <2>2, <2>3 DEF Thread
<1>2. CASE HW_TS_Started
  <2>1. starting \in [timer : Timer, ticks : Timeouts]
    BY <1>2 DEF HW_TS_Started, IInv
  <2>2. starting.timer \in Timer /\ starting.ticks \in Nat \ {0}
    BY <2>1, TimerServerAssumption DEF TimerServerAssumption
  <2> QED BY <1>2, <2>2, ServiceCalls DEF HW_TS_Started
<1>3. CASE HW_TS_RTC_Wakeup_Handler
  BY <1>3, ServiceExpires
<1>4. CASE RescheduleTimerList \/ RestartWakeupCounter \/ ExpireEarly
  BY <1>4, ServiceCalls DEF RescheduleTimerList, RestartWakeupCounter, ExpireEarly
<1>5. CASE Tick
  BY <1>5, ServiceTicks
<1>6. CASE UNCHANGED vars
  BY <1>6 DEF vars
<1> QED BY <1>1, <1>2, <1>3, <1>4, <1>5, <1>6 DEF Next

\* Every timer expires in time, but for the ticks lost while the counter was
\* programmed, and one that was stopped does not: the timer server implements
\* Alarms.
THEOREM ImplementsAlarms == Spec => TimersExpireInTime
<1>1. Init => Service!Init
  BY DEF Init, NothingRuns, Service!Init
<1>2. IInv /\ IInv' /\ [Next]_vars =>
        [Service!Next]_<<rem, lost, IF pc = "idle" THEN 0 ELSE Latency - late, callback>>
  BY ServiceStep
<1> QED BY <1>1, <1>2, Invariance, PTL DEF Spec, TimersExpireInTime, Service!Spec

=============================================================================
