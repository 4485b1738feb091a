---------------------------- MODULE UsageProofs ----------------------------
(***************************************************************************)
(* UsageSessions implements the meter of UsageMeter, no period is          *)
(* forgotten before it is billed or given up, and none is billed but for a *)
(* connection of its participant.                                          *)
(***************************************************************************)
EXTENDS UsageSessions, FiniteSetTheorems, TLAPS

TableRow == [subject : Subject, live : Live, channel : Channel, start : Nat,
             end : Nat \cup {None}, pushed : BOOLEAN, attempts : Nat]

(* What a table T of sessions looks like at clock c, when the periods E    *)
(* are over: a participant has one open row, started before now, and a     *)
(* period of each row that is closed is in E.                              *)
TableInv(T, c, E) ==
  /\ T \in [DOMAIN T -> TableRow] /\ DOMAIN T \subseteq Nat
  /\ \A i \in DOMAIN T : T[i].start <= c
  /\ \A i \in Open(T) : ~T[i].pushed
  /\ \A i, j \in Open(T) : T[i].subject = T[j].subject => i = j
  /\ \A i \in DOMAIN T \ Open(T) : PeriodOf(T[i]) \in E

UsageInv ==
  /\ clock \in Nat /\ lastId \in Nat /\ active \in Live \cup {None} /\ stored \in Live \cup {None}
  /\ \A i \in DOMAIN table : i <= lastId
  /\ TableInv(table, clock, ended)
  /\ batch \subseteq Pending(table)
  /\ billed \subseteq ended

(* Closing rows I at the moments e. *)
LEMMA ClosedRows ==
  ASSUME UsageInv, NEW I, NEW e \in [DOMAIN table -> Nat],
         \A i \in I \cap Open(table) : e[i] \in table[i].start..clock
  PROVE  LET T == Closed(I, e)
         IN  /\ DOMAIN T = DOMAIN table
             /\ Open(T) = Open(table) \ I
             /\ \A i \in DOMAIN table \ (I \cap Open(table)) : T[i] = table[i]
             /\ \A i \in I \cap Open(table) : T[i] = [table[i] EXCEPT !.end = e[i]]
             /\ TableInv(T, clock, AlsoEnded(T))
             /\ Pending(table) \subseteq Pending(T)
<1> DEFINE T == Closed(I, e)
           J == I \cap Open(table)
<1>1. /\ DOMAIN T = DOMAIN table
      /\ \A i \in DOMAIN table : T[i] = IF i \in J THEN [table[i] EXCEPT !.end = e[i]] ELSE table[i]
  BY DEF Closed
<1>2. table \in [DOMAIN table -> TableRow] /\ DOMAIN table \subseteq Nat /\ J \subseteq DOMAIN table
  BY DEF UsageInv, TableInv, Open
<1>3. \A i \in J : e[i] \in Nat /\ e[i] # None
  BY <1>2, ConstantsAssumption
<1> HIDE DEF T
<1>4. \A i \in J : /\ T[i] \in TableRow /\ T[i].end = e[i] /\ T[i].start = table[i].start
                   /\ T[i].subject = table[i].subject /\ T[i].pushed = table[i].pushed
  BY <1>1, <1>2, <1>3 DEF TableRow
<1>5. \A i \in DOMAIN table \ J : T[i] = table[i]
  BY <1>1
<1>6. T \in [DOMAIN T -> TableRow]
  <2>1. T = [i \in DOMAIN T |-> T[i]]
    BY DEF T, Closed
  <2> QED
    BY <2>1, <1>1, <1>2, <1>4, <1>5
<1>7. Open(T) = Open(table) \ I
  <2>1. ASSUME NEW i \in DOMAIN table
        PROVE  i \in Open(T) <=> i \in Open(table) \ I
    BY <1>1, <1>3, <1>4, <1>5 DEF Open
  <2> QED
    BY <2>1, <1>1 DEF Open
<1>8. \A i \in DOMAIN T : T[i].start <= clock
  BY <1>1, <1>4, <1>5 DEF UsageInv, TableInv
<1>9. \A i \in Open(T) : ~T[i].pushed
  BY <1>5, <1>7 DEF UsageInv, TableInv, Open
<1>10. \A i, j \in Open(T) : T[i].subject = T[j].subject => i = j
  <2>1. \A i \in Open(T) : i \in Open(table) /\ T[i] = table[i]
    BY <1>5, <1>7 DEF Open
  <2> QED
    BY <2>1 DEF UsageInv, TableInv
<1>11. \A i \in DOMAIN T \ Open(T) : PeriodOf(T[i]) \in AlsoEnded(T)
  <2>1. ASSUME NEW i \in DOMAIN T \ Open(T)
        PROVE  PeriodOf(T[i]) \in AlsoEnded(T)
    <3>1. CASE i \in Open(table)
      BY <3>1 DEF AlsoEnded
    <3>2. CASE i \notin Open(table)
      <4>1. T[i] = table[i] /\ PeriodOf(table[i]) \in ended
        BY <3>2, <1>1, <1>5 DEF UsageInv, TableInv
      <4> QED
        BY <4>1 DEF AlsoEnded
    <3> QED
      BY <3>1, <3>2
  <2> QED
    BY <2>1
<1>12. Pending(table) \subseteq Pending(T)
  <2>1. ASSUME NEW i \in Pending(table)
        PROVE  i \in Pending(T)
    <3>1. i \in DOMAIN table /\ i \notin Open(table) /\ ~table[i].pushed
      BY DEF Pending
    <3>2. T[i] = table[i] /\ i \in DOMAIN T /\ i \notin Open(T)
      BY <3>1, <1>1, <1>5, <1>7
    <3> QED
      BY <3>1, <3>2 DEF Pending
  <2> QED
    BY <2>1
<1>13. TableInv(T, clock, AlsoEnded(T))
  BY <1>1, <1>2, <1>6, <1>8, <1>9, <1>10, <1>11 DEF TableInv
<1>14. \A i \in J : T[i] = [table[i] EXCEPT !.end = e[i]]
  BY <1>1, <1>2
<1> QED
  BY <1>1, <1>5, <1>7, <1>12, <1>13, <1>14 DEF T

(* Pushed rows keep everything but their mark. *)
LEMMA PushedRows ==
  ASSUME NEW T, NEW c, NEW E, TableInv(T, c, E), NEW I \in SUBSET Pending(T)
  PROVE  LET P == Pushed(T, I)
         IN  /\ DOMAIN P = DOMAIN T /\ Open(P) = Open(T)
             /\ \A i \in DOMAIN T : /\ RunOf(P[i]) = RunOf(T[i])
                                    /\ PeriodOf(P[i]) = PeriodOf(T[i])
                                    /\ i \notin I => P[i] = T[i]
             /\ Pending(P) = Pending(T) \ I
             /\ TableInv(P, c, E)
<1> DEFINE P == Pushed(T, I)
<1>1. /\ DOMAIN P = DOMAIN T
      /\ \A i \in DOMAIN T : P[i] = IF i \in I THEN [T[i] EXCEPT !.pushed = TRUE] ELSE T[i]
      /\ P = [i \in DOMAIN P |-> P[i]]
  BY DEF Pushed
<1>2. /\ T \in [DOMAIN T -> TableRow] /\ DOMAIN T \subseteq Nat
      /\ I \subseteq DOMAIN T /\ \A i \in I : i \notin Open(T)
  BY DEF TableInv, Pending
<1> HIDE DEF P
<1>3. \A i \in DOMAIN T : /\ P[i] \in TableRow /\ P[i].end = T[i].end /\ P[i].start = T[i].start
                          /\ P[i].subject = T[i].subject /\ P[i].live = T[i].live
                          /\ P[i].pushed = (i \in I \/ T[i].pushed)
  <2>1. ASSUME NEW i \in DOMAIN T
        PROVE  /\ P[i] \in TableRow /\ P[i].end = T[i].end /\ P[i].start = T[i].start
               /\ P[i].subject = T[i].subject /\ P[i].live = T[i].live
               /\ P[i].pushed = (i \in I \/ T[i].pushed)
    <3>1. T[i] \in TableRow /\ T[i].pushed \in BOOLEAN
      BY <1>2 DEF TableRow
    <3>2. CASE i \in I
      BY <1>1, <3>1, <3>2 DEF TableRow
    <3>3. CASE i \notin I
      BY <1>1, <3>1, <3>3
    <3> QED
      BY <3>2, <3>3
  <2> QED
    BY <2>1
<1>4. Open(P) = Open(T)
  BY <1>1, <1>3 DEF Open
<1>5. \A i \in DOMAIN T : RunOf(P[i]) = RunOf(T[i]) /\ PeriodOf(P[i]) = PeriodOf(T[i])
  BY <1>3 DEF RunOf, PeriodOf
<1>6. Pending(P) = Pending(T) \ I
  BY <1>1, <1>3, <1>4 DEF Pending
<1>7. P \in [DOMAIN P -> TableRow]
  BY <1>1, <1>3
<1>8. \A i \in DOMAIN P : P[i].start <= c
  BY <1>1, <1>3 DEF TableInv
<1>9. \A i \in Open(P) : ~P[i].pushed
  BY <1>1, <1>2, <1>4 DEF TableInv, Open
<1>10. \A i, j \in Open(P) : P[i].subject = P[j].subject => i = j
  <2>1. Open(T) \subseteq DOMAIN T
    BY DEF Open
  <2> QED
    BY <2>1, <1>3, <1>4 DEF TableInv
<1>11. \A i \in DOMAIN P \ Open(P) : PeriodOf(P[i]) \in E
  BY <1>1, <1>4, <1>5 DEF TableInv
<1>12. TableInv(P, c, E)
  BY <1>1, <1>2, <1>7, <1>8, <1>9, <1>10, <1>11 DEF TableInv
<1> QED
  BY <1>1, <1>4, <1>5, <1>6, <1>12 DEF P

(* Closing rows stops their periods on the meter. *)
LEMMA ClosedStops ==
  ASSUME UsageInv, NEW I, NEW e \in [DOMAIN table -> Nat],
         \A i \in I \cap Open(table) : e[i] \in table[i].start..clock,
         Running' = {RunOf(Closed(I, e)[i]) : i \in Open(Closed(I, e))},
         ended' = AlsoEnded(Closed(I, e)), UNCHANGED <<clock, billed>>
  PROVE  Meter!Next
<1> DEFINE T == Closed(I, e)
           J == I \cap Open(table)
           R == {RunOf(table[i]) : i \in J}
           idx(r) == CHOOSE i \in J : RunOf(table[i]) = r
           end == [r \in R |-> e[idx(r)]]
<1>1. /\ Open(T) = Open(table) \ I
      /\ \A i \in DOMAIN table \ J : T[i] = table[i]
      /\ \A i \in J : T[i] = [table[i] EXCEPT !.end = e[i]]
  BY ClosedRows
<1>2. /\ table \in [DOMAIN table -> TableRow] /\ Open(table) \subseteq DOMAIN table
      /\ \A i, j \in Open(table) : table[i].subject = table[j].subject => i = j
      /\ clock \in Nat
  BY DEF UsageInv, TableInv, Open
<1>3. \A i \in J : idx(RunOf(table[i])) = i
  <2>1. ASSUME NEW i \in J
        PROVE  idx(RunOf(table[i])) = i
    <3>1. PICK j \in J : j = idx(RunOf(table[i])) /\ RunOf(table[j]) = RunOf(table[i])
      OBVIOUS
    <3>2. table[j].subject = table[i].subject
      BY <3>1 DEF RunOf
    <3> QED
      BY <3>1, <3>2, <1>2
  <2> QED
    BY <2>1
<1> HIDE DEF T, idx
<1>4. \A i \in J : end[RunOf(table[i])] = e[i]
  BY <1>3
<1>5. R \in SUBSET Running
  BY DEF Running
<1>6. end \in [R -> 0..clock]
  <2>1. ASSUME NEW i \in J
        PROVE  e[i] \in 0..clock
    BY <1>2 DEF TableRow
  <2> QED
    BY <2>1, <1>3
<1>7. \A r \in R : end[r] \in r.start..clock
  <2>1. ASSUME NEW i \in J
        PROVE  RunOf(table[i]).start = table[i].start /\ e[i] \in table[i].start..clock
    BY DEF RunOf
  <2> QED
    BY <2>1, <1>4
<1>8. Running' = Running \ R
  <2>1. Running' = {RunOf(table[i]) : i \in Open(table) \ I}
    BY <1>1, <1>2 DEF T
  <2>2. \A i \in Open(table) \ I, j \in J : RunOf(table[i]) # RunOf(table[j])
    BY <1>2 DEF RunOf
  <2> QED
    BY <2>1, <2>2 DEF Running
<1>9. ended' = ended \cup {Meter!Over(r, end[r]) : r \in R}
  <2>1. ASSUME NEW i \in J
        PROVE  PeriodOf(T[i]) = Meter!Over(RunOf(table[i]), end[RunOf(table[i])])
    <3>1. T[i] = [table[i] EXCEPT !.end = e[i]] /\ table[i] \in TableRow
      BY <1>1, <1>2
    <3>2. /\ T[i].subject = table[i].subject /\ T[i].live = table[i].live
          /\ T[i].start = table[i].start /\ T[i].end = e[i]
      BY <3>1 DEF TableRow
    <3> QED
      BY <3>2, <1>4 DEF PeriodOf, RunOf, Meter!Over
  <2>2. Open(table) \ Open(T) = J
    BY <1>1
  <2>3. {PeriodOf(T[i]) : i \in J} = {Meter!Over(r, end[r]) : r \in R}
    BY <2>1
  <2> QED
    BY <2>2, <2>3 DEF T, AlsoEnded
<1>10. Meter!Stop(R, end)
  BY <1>7, <1>8, <1>9 DEF Meter!Stop
<1> QED
  BY <1>5, <1>6, <1>10 DEF Meter!Next

Good == UsageInv /\ NothingForgotten

(* The period of a row that is closed stays to be sent. *)
LEMMA ClosedKept ==
  ASSUME Good, NEW I, NEW e \in [DOMAIN table -> Nat],
         \A i \in I \cap Open(table) : e[i] \in table[i].start..clock
  PROVE  LET T == Closed(I, e)
         IN  \A p \in AlsoEnded(T) :
               \/ p \in billed \/ p \in givenUp
               \/ \E i \in Pending(T) : PeriodOf(T[i]) = p
<1> DEFINE T == Closed(I, e)
           J == I \cap Open(table)
<1> USE DEF Good
<1>1. /\ DOMAIN T = DOMAIN table /\ Open(T) = Open(table) \ I
      /\ \A i \in DOMAIN table \ J : T[i] = table[i]
      /\ \A i \in J : T[i] = [table[i] EXCEPT !.end = e[i]]
      /\ Pending(table) \subseteq Pending(T)
  BY ClosedRows
<1> HIDE DEF T
<1>2. SUFFICES ASSUME NEW p \in AlsoEnded(T)
               PROVE  \/ p \in billed \/ p \in givenUp
                      \/ \E i \in Pending(T) : PeriodOf(T[i]) = p
  BY DEF T
<1>3. CASE p \in ended
  <2>1. ASSUME NEW i \in Pending(table)
        PROVE  T[i] = table[i]
    BY <1>1 DEF Pending
  <2> QED
    BY <1>1, <1>3, <2>1 DEF NothingForgotten
<1>4. CASE p \notin ended
  <2>1. PICK i \in J : p = PeriodOf(T[i])
    BY <1>1, <1>2, <1>4 DEF AlsoEnded
  <2>2. i \in DOMAIN table /\ ~table[i].pushed /\ table[i] \in TableRow
    BY <2>1 DEF UsageInv, TableInv, Open
  <2>3. ~T[i].pushed
    BY <1>1, <2>1, <2>2 DEF TableRow
  <2>4. i \in Pending(T)
    BY <1>1, <2>1, <2>2, <2>3 DEF Pending
  <2> QED
    BY <2>1, <2>4
<1> QED
  BY <1>3, <1>4

(* A webhook or the end of a channel closes rows now. *)
LEMMA CloseStep ==
  ASSUME Good, NEW I, CloseNow(I), UNCHANGED <<clock, code, hub>>
  PROVE  Good' /\ Meter!Next
<1> DEFINE e == [i \in DOMAIN table |-> clock]
           T == Closed(I, e)
<1>1. table' = T /\ ended' = AlsoEnded(T) /\ UNCHANGED <<lastId, clock, code, hub>>
  BY DEF CloseNow, sessions
<1>2. e \in [DOMAIN table -> Nat] /\ \A i \in I \cap Open(table) : e[i] \in table[i].start..clock
  <2>1. ASSUME NEW i \in DOMAIN table
        PROVE  clock \in Nat /\ clock \in table[i].start..clock
    BY DEF Good, UsageInv, TableInv, TableRow
  <2>2. clock \in Nat
    BY DEF Good, UsageInv
  <2> QED
    BY <2>1, <2>2 DEF Open
<1> HIDE DEF e
<1>3. /\ DOMAIN T = DOMAIN table /\ TableInv(T, clock, AlsoEnded(T))
      /\ Pending(table) \subseteq Pending(T)
  BY <1>2, ClosedRows DEF Good
<1>4. \A p \in AlsoEnded(T) : \/ p \in billed \/ p \in givenUp
                              \/ \E i \in Pending(T) : PeriodOf(T[i]) = p
  BY <1>2, ClosedKept
<1>5. Meter!Next
  <2>1. Running' = {RunOf(T[i]) : i \in Open(T)}
    BY <1>1 DEF Running, Open
  <2> QED
    BY <1>1, <1>2, <2>1, ClosedStops DEF Good, hub
<1>6. ended \subseteq AlsoEnded(T)
  BY DEF AlsoEnded
<1> HIDE DEF T
<1>7. Pending(table)' = Pending(T)
  BY <1>1 DEF Pending, Open
<1>8. UsageInv'
  <2>1. TableInv(table, clock, ended)'
    BY <1>1, <1>3 DEF TableInv, Open
  <2> QED
    BY <1>1, <1>3, <1>6, <1>7, <2>1 DEF Good, UsageInv, hub, code
<1>9. NothingForgotten'
  BY <1>1, <1>4, <1>7 DEF NothingForgotten, hub
<1> QED
  BY <1>5, <1>8, <1>9 DEF Good

(* A participant without an open session gets one. *)
LEMMA OpenStep ==
  ASSUME Good, NEW s \in Subject, active # None, MayOpen(s), OpenSession(s),
         UNCHANGED <<clock, code, hub>>
  PROVE  Good' /\ Meter!Next
<1> DEFINE k == lastId + 1
           new == [subject |-> s, live |-> active, channel |-> ChannelOf[s],
                   start |-> clock, end |-> None, pushed |-> FALSE, attempts |-> 0]
<1>1. /\ table \in [DOMAIN table -> TableRow] /\ DOMAIN table \subseteq Nat
      /\ \A i \in DOMAIN table : i <= lastId
      /\ lastId \in Nat /\ clock \in Nat /\ active \in Live
      /\ Open(table) \subseteq DOMAIN table
  BY DEF Good, UsageInv, TableInv, Open
<1>2. k \notin DOMAIN table /\ k \in Nat
  BY <1>1
<1>3. /\ lastId' = k /\ DOMAIN table' = DOMAIN table \cup {k}
      /\ table' = [i \in DOMAIN table' |-> table'[i]]
      /\ table'[k] = new /\ \A i \in DOMAIN table : table'[i] = table[i]
      /\ UNCHANGED <<ended, clock, active, stored, batch, billed, givenUp>>
  BY <1>2 DEF OpenSession, code, hub
<1>4. new \in TableRow /\ new.end = None /\ new.subject = s /\ new.start = clock /\ ~new.pushed
  BY <1>1, ConstantsAssumption DEF TableRow
<1>5. RunOf(new) = [subject |-> s, live |-> active, start |-> clock]
  BY DEF RunOf
<1> HIDE DEF k, new
<1>6. Open(table)' = Open(table) \cup {k}
  BY <1>2, <1>3, <1>4 DEF Open
<1>7. Pending(table)' = Pending(table)
  BY <1>2, <1>3, <1>6 DEF Pending
<1>8. UsageInv'
  <2>1. table' \in [DOMAIN table' -> TableRow]
    BY <1>1, <1>3, <1>4
  <2>2. DOMAIN table' \subseteq Nat /\ \A i \in DOMAIN table' : i <= lastId'
    BY <1>1, <1>2, <1>3 DEF k
  <2>3. \A i \in DOMAIN table' : table'[i].start <= clock'
    <3>1. clock <= clock
      BY <1>1
    <3> QED
      BY <1>3, <1>4, <3>1 DEF Good, UsageInv, TableInv
  <2>4. \A i \in Open(table') : ~table'[i].pushed
    BY <1>1, <1>3, <1>4, <1>6 DEF Good, UsageInv, TableInv
  <2>5. \A i, j \in Open(table') : table'[i].subject = table'[j].subject => i = j
    BY <1>1, <1>3, <1>4, <1>6 DEF Good, UsageInv, TableInv, MayOpen
  <2>6. \A i \in DOMAIN table' \ Open(table') : PeriodOf(table'[i]) \in ended'
    BY <1>3, <1>6 DEF Good, UsageInv, TableInv
  <2>7. TableInv(table', clock', ended')
    BY <2>1, <2>2, <2>3, <2>4, <2>5, <2>6 DEF TableInv
  <2> QED
    BY <1>2, <1>3, <1>7, <2>2, <2>7 DEF Good, UsageInv
<1>9. NothingForgotten'
  <2>1. \A i \in Pending(table) : table'[i] = table[i]
    BY <1>3 DEF Pending
  <2> QED
    BY <1>3, <1>7, <2>1 DEF Good, NothingForgotten
<1>10. Meter!Begin(s, active)
  <2>1. \A r \in Running : r.subject # s
    BY DEF Running, RunOf, MayOpen
  <2>2. Running' = Running \cup {RunOf(new)}
    <3>1. Running' = {RunOf(table'[i]) : i \in Open(table) \cup {k}}
      BY <1>6 DEF Running
    <3> QED
      BY <1>1, <1>3, <3>1 DEF Running
  <2> QED
    BY <1>3, <1>5, <2>1, <2>2 DEF Meter!Begin
<1> QED
  BY <1>1, <1>8, <1>9, <1>10 DEF Good, Meter!Next

(* The sweep: rows that are stale end at the cap, some of the batch are    *)
(* given up and the others posted.                                         *)
LEMMA SweepStep ==
  ASSUME Good, NEW B, Sweep(B)
  PROVE  Good' /\ Meter!Next
<1> DEFINE I == {i \in DOMAIN table : table[i].start < clock - MaxSeconds}
           e == [i \in DOMAIN table |-> table[i].start + MaxSeconds]
           T == Closed(I, e)
           used == {i \in B : UsedUp(T[i])}
           P == Pushed(T, used)
<1>1. /\ OldestOf(T, B) /\ table' = P /\ batch' = B \ used /\ ended' = AlsoEnded(T)
      /\ givenUp' = givenUp \cup
                    {PeriodOf(T[i]) : i \in {j \in used : T[j].attempts >= MaxAttempts}}
      /\ UNCHANGED <<clock, lastId, active, stored, billed>>
  BY DEF Sweep, Swept, code
<1>2. MaxSeconds \in Nat /\ clock \in Nat
      /\ \A i \in DOMAIN table : table[i].start \in Nat
  BY ConstantsAssumption DEF Good, UsageInv, TableInv, TableRow
<1>3. e \in [DOMAIN table -> Nat] /\ \A i \in I \cap Open(table) : e[i] \in table[i].start..clock
  <2>1. e \in [DOMAIN table -> Nat]
    BY <1>2
  <2>2. ASSUME NEW i \in I
        PROVE  e[i] \in table[i].start..clock
    BY <1>2
  <2> QED
    BY <2>1, <2>2
<1> HIDE DEF e, I
<1>4. DOMAIN T = DOMAIN table /\ TableInv(T, clock, AlsoEnded(T))
  BY <1>3, ClosedRows DEF Good
<1>5. \A p \in AlsoEnded(T) : \/ p \in billed \/ p \in givenUp
                              \/ \E i \in Pending(T) : PeriodOf(T[i]) = p
  BY <1>3, ClosedKept
<1>6. used \in SUBSET Pending(T) /\ B \subseteq Pending(T)
  BY <1>1 DEF OldestOf
<1>7. \A i \in used : T[i].attempts >= MaxAttempts
  BY DEF UsedUp
<1>8. ended \subseteq AlsoEnded(T)
  BY DEF AlsoEnded
<1>9. {RunOf(P[i]) : i \in Open(P)} = {RunOf(T[i]) : i \in Open(T)}
      /\ DOMAIN P = DOMAIN T /\ Open(P) = Open(T) /\ Pending(P) = Pending(T) \ used
      /\ TableInv(P, clock, AlsoEnded(T))
      /\ \A i \in DOMAIN T : PeriodOf(P[i]) = PeriodOf(T[i])
  <2>1. /\ DOMAIN P = DOMAIN T /\ Open(P) = Open(T) /\ Pending(P) = Pending(T) \ used
        /\ TableInv(P, clock, AlsoEnded(T))
        /\ \A i \in DOMAIN T : PeriodOf(P[i]) = PeriodOf(T[i]) /\ RunOf(P[i]) = RunOf(T[i])
    BY <1>4, <1>6, PushedRows
  <2>2. Open(T) \subseteq DOMAIN T
    BY DEF Open
  <2> QED
    BY <2>1, <2>2
<1> HIDE DEF P, used
<1>10. Meter!Next
  <2>1. Running' = {RunOf(T[i]) : i \in Open(T)}
    BY <1>1, <1>9 DEF Running, Open
  <2> QED
    BY <1>1, <1>3, <2>1, ClosedStops DEF Good
<1> HIDE DEF T
<1>11. Pending(table)' = Pending(T) \ used
  BY <1>1, <1>9 DEF Pending, Open
<1>12. UsageInv'
  <2>1. TableInv(table, clock, ended)'
    BY <1>1, <1>9 DEF TableInv, Open
  <2>2. billed \subseteq AlsoEnded(T)
    BY <1>8 DEF Good, UsageInv
  <2>3. batch' \subseteq Pending(table)'
    BY <1>1, <1>6, <1>11
  <2> QED
    BY <1>1, <1>4, <1>9, <2>1, <2>2, <2>3 DEF Good, UsageInv
<1>13. NothingForgotten'
  <2>1. SUFFICES ASSUME NEW p \in AlsoEnded(T)
                 PROVE  \/ p \in billed \/ p \in givenUp'
                        \/ \E i \in Pending(table)' : PeriodOf(P[i]) = p
    BY <1>1 DEF NothingForgotten
  <2>2. CASE p \in billed \/ p \in givenUp
    BY <1>1, <2>2
  <2>3. CASE \E i \in Pending(T) : PeriodOf(T[i]) = p
    <3>1. PICK i \in Pending(T) : PeriodOf(T[i]) = p
      BY <2>3
    <3>2. CASE i \in used
      BY <1>1, <1>7, <3>1, <3>2
    <3>3. CASE i \notin used
      <4>1. i \in DOMAIN T
        BY DEF Pending
      <4> QED
        BY <1>9, <1>11, <3>1, <3>3, <4>1
    <3> QED
      BY <3>2, <3>3
  <2> QED
    BY <1>5, <2>2, <2>3
<1> QED
  BY <1>10, <1>12, <1>13 DEF Good

(* Rows whose periods stay as they are, and pending unless they are        *)
(* billed, change nothing on the meter.                                    *)
LEMMA SameRows ==
  ASSUME Good, TableInv(table', clock, ended), \A i \in DOMAIN table' : i <= lastId,
         Running' = Running,
         UNCHANGED <<clock, ended, lastId, active, stored, givenUp>>,
         billed \subseteq billed' /\ billed' \subseteq ended,
         batch' \subseteq Pending(table'),
         \A i \in Pending(table) : \/ PeriodOf(table[i]) \in billed'
                                   \/ \E j \in Pending(table') : PeriodOf(table'[j]) = PeriodOf(table[i])
  PROVE  Good' /\ Meter!Next
<1>1. UsageInv'
  <2>1. TableInv(table, clock, ended)'
    BY DEF TableInv, Open
  <2>2. Pending(table)' = Pending(table')
    BY DEF Pending, Open
  <2> QED
    BY <2>1, <2>2 DEF Good, UsageInv
<1>2. NothingForgotten'
  <2>1. Pending(table)' = Pending(table')
    BY DEF Pending, Open
  <2> QED
    BY <2>1 DEF Good, NothingForgotten
<1>3. Meter!Bill
  BY DEF Meter!Bill
<1> QED
  BY <1>1, <1>2, <1>3 DEF Good, Meter!Next

(* The hub has received the batch; it answers. *)
LEMMA HubStep ==
  ASSUME Good, HubReceives \/ PushOk
  PROVE  Good' /\ Meter!Next
<1>1. TableInv(table, clock, ended) /\ batch \in SUBSET Pending(table)
  BY DEF Good, UsageInv
<1>2. \A i \in batch : PeriodOf(table[i]) \in ended
  BY <1>1 DEF TableInv, Pending
<1>3. CASE HubReceives
  <2>1. billed' = billed \cup {PeriodOf(table[i]) : i \in batch}
        /\ UNCHANGED <<clock, table, ended, lastId, active, stored, givenUp, batch>>
    BY <1>3 DEF HubReceives, code, sessions
  <2>2. billed \subseteq billed' /\ billed' \subseteq ended
    BY <1>2, <2>1 DEF Good, UsageInv
  <2>3. Running' = Running /\ TableInv(table', clock, ended)
    BY <1>1, <2>1 DEF Running, Open
  <2>4. \A i \in DOMAIN table' : i <= lastId
    BY <2>1 DEF Good, UsageInv
  <2>5. batch' \subseteq Pending(table') /\ Pending(table') = Pending(table)
    BY <1>1, <2>1
  <2>6. \A i \in Pending(table) : \E j \in Pending(table') : PeriodOf(table'[j]) = PeriodOf(table[i])
    BY <2>1, <2>5
  <2> QED
    BY <2>1, <2>2, <2>3, <2>4, <2>5, <2>6, SameRows
<1>4. CASE PushOk
  <2>1. table' = Pushed(table, batch) /\ batch' = {} /\ Answered
        /\ UNCHANGED <<clock, ended, lastId, active, stored, givenUp, billed>>
    BY <1>4 DEF PushOk, code
  <2>2. /\ DOMAIN table' = DOMAIN table /\ Open(table') = Open(table)
        /\ \A i \in DOMAIN table : /\ RunOf(table'[i]) = RunOf(table[i])
                                   /\ PeriodOf(table'[i]) = PeriodOf(table[i])
        /\ Pending(table') = Pending(table) \ batch
        /\ TableInv(table', clock, ended)
    BY <1>1, <2>1, PushedRows
  <2>3. Running' = Running
    <3>1. Running' = {RunOf(table'[i]) : i \in Open(table)}
      BY <2>2 DEF Running, Open
    <3>2. Open(table) \subseteq DOMAIN table
      BY DEF Open
    <3> QED
      BY <2>2, <3>1, <3>2 DEF Running
  <2>4. \A i \in DOMAIN table' : i <= lastId
    BY <2>2 DEF Good, UsageInv
  <2>5. \A i \in Pending(table) : \/ PeriodOf(table[i]) \in billed'
                                   \/ \E j \in Pending(table') : PeriodOf(table'[j]) = PeriodOf(table[i])
    BY <2>1, <2>2 DEF Answered, Pending
  <2>6. billed \subseteq billed' /\ billed' \subseteq ended
    BY <2>1 DEF Good, UsageInv
  <2> QED
    BY <2>1, <2>2, <2>3, <2>4, <2>5, <2>6, SameRows
<1> QED
  BY <1>3, <1>4

(* No answer came.                                                         *)
LEMMA FailStep ==
  ASSUME Good, PushFails
  PROVE  Good' /\ Meter!Next
<1>1. TableInv(table, clock, ended) /\ batch \subseteq Pending(table)
  BY DEF Good, UsageInv
<1>2. table \in [DOMAIN table -> TableRow] /\ DOMAIN table \subseteq Nat /\ Open(table) \subseteq DOMAIN table
  BY <1>1 DEF TableInv, Open
<1>3. /\ DOMAIN table' = DOMAIN table /\ batch' = {}
      /\ table' = [i \in DOMAIN table |-> table'[i]]
      /\ \A i \in DOMAIN table :
           table'[i] = IF i \in batch THEN [table[i] EXCEPT !.attempts = table[i].attempts + 1] ELSE table[i]
      /\ UNCHANGED <<clock, ended, lastId, active, stored, givenUp, billed>>
  BY DEF PushFails, Bumped, code
<1>4. \A i \in DOMAIN table :
        /\ table'[i] \in TableRow /\ table'[i].end = table[i].end /\ table'[i].start = table[i].start
        /\ table'[i].subject = table[i].subject /\ table'[i].live = table[i].live
        /\ table'[i].pushed = table[i].pushed
  <2>1. ASSUME NEW i \in DOMAIN table
        PROVE  /\ table'[i] \in TableRow /\ table'[i].end = table[i].end /\ table'[i].start = table[i].start
               /\ table'[i].subject = table[i].subject /\ table'[i].live = table[i].live
               /\ table'[i].pushed = table[i].pushed
    <3>1. table[i] \in TableRow
      BY <1>2
    <3> QED
      BY <1>3, <3>1 DEF TableRow
  <2> QED
    BY <2>1
<1>5. \A i \in DOMAIN table : RunOf(table'[i]) = RunOf(table[i]) /\ PeriodOf(table'[i]) = PeriodOf(table[i])
  BY <1>4 DEF RunOf, PeriodOf
<1>6. Open(table') = Open(table) /\ Pending(table') = Pending(table)
  BY <1>3, <1>4 DEF Open, Pending
<1>7. TableInv(table', clock, ended)
  <2>1. table' \in [DOMAIN table' -> TableRow] /\ DOMAIN table' \subseteq Nat
    BY <1>2, <1>3, <1>4
  <2>2. \A i \in DOMAIN table' : table'[i].start <= clock
    BY <1>1, <1>3, <1>4 DEF TableInv
  <2>3. \A i \in Open(table') : ~table'[i].pushed
    BY <1>1, <1>2, <1>4, <1>6 DEF TableInv
  <2>4. \A i, j \in Open(table') : table'[i].subject = table'[j].subject => i = j
    BY <1>1, <1>2, <1>4, <1>6 DEF TableInv
  <2>5. \A i \in DOMAIN table' \ Open(table') : PeriodOf(table'[i]) \in ended
    BY <1>1, <1>3, <1>5, <1>6 DEF TableInv
  <2> QED
    BY <2>1, <2>2, <2>3, <2>4, <2>5 DEF TableInv
<1>8. Running' = Running
  <2>1. Running' = {RunOf(table'[i]) : i \in Open(table)}
    BY <1>6 DEF Running, Open
  <2> QED
    BY <1>2, <1>5, <2>1 DEF Running
<1>9. \A i \in Pending(table) : \E j \in Pending(table') : PeriodOf(table'[j]) = PeriodOf(table[i])
  BY <1>5, <1>6 DEF Pending
<1>10. /\ \A i \in DOMAIN table' : i <= lastId
       /\ billed \subseteq billed' /\ billed' \subseteq ended
  BY <1>3 DEF Good, UsageInv
<1> QED
  BY <1>3, <1>7, <1>8, <1>9, <1>10, SameRows

(* A row that was pushed is purged. *)
LEMMA PurgeStep ==
  ASSUME Good, NEW i \in DOMAIN table, Purge(i)
  PROVE  Good' /\ Meter!Next
<1>1. TableInv(table, clock, ended) /\ batch \subseteq Pending(table)
  BY DEF Good, UsageInv
<1>2. /\ table' = [j \in DOMAIN table \ {i} |-> table[j]] /\ table[i].pushed
      /\ UNCHANGED <<clock, ended, lastId, active, stored, givenUp, billed, batch>>
  BY DEF Purge, Purgeable, code, hub
<1>3. i \notin Open(table) /\ i \notin Pending(table)
  BY <1>1, <1>2 DEF TableInv, Pending
<1>4. /\ DOMAIN table' = DOMAIN table \ {i}
      /\ \A j \in DOMAIN table' : table'[j] = table[j]
  BY <1>2
<1>5. Open(table') = Open(table)
  BY <1>3, <1>4 DEF Open
<1>6. Pending(table') = Pending(table)
  BY <1>3, <1>4, <1>5 DEF Pending
<1>7. Open(table) \subseteq DOMAIN table' /\ Pending(table) \subseteq DOMAIN table'
  BY <1>3, <1>4 DEF Open, Pending
<1>8. TableInv(table', clock, ended)
  <2>1. table' \in [DOMAIN table' -> TableRow]
    BY <1>1, <1>2, <1>4 DEF TableInv
  <2> QED
    BY <1>1, <1>4, <1>5, <1>7, <2>1 DEF TableInv
<1>9. Running' = Running
  <2>1. Running' = {RunOf(table'[j]) : j \in Open(table)}
    BY <1>5 DEF Running, Open
  <2> QED
    BY <1>4, <1>7, <2>1 DEF Running
<1>10. \A k \in Pending(table) : \E j \in Pending(table') : PeriodOf(table'[j]) = PeriodOf(table[k])
  BY <1>4, <1>6, <1>7
<1>11. /\ \A j \in DOMAIN table' : j <= lastId
       /\ billed \subseteq billed' /\ billed' \subseteq ended
       /\ batch' \subseteq Pending(table')
  BY <1>2, <1>4, <1>6 DEF Good, UsageInv
<1> QED
  BY <1>2, <1>8, <1>9, <1>10, <1>11, SameRows

(* The clock, the network, an authentication, a restart. *)
LEMMA OtherStep ==
  ASSUME Good, UNCHANGED <<table, lastId, ended, billed, givenUp>>,
         clock' \in {clock, clock + 1}, batch' \in {batch, {}},
         active' \in Live \cup {None}, stored' \in Live \cup {None}
  PROVE  Good' /\ [Meter!Next]_(Meter!meterVars)
<1>1. /\ Open(table)' = Open(table) /\ Pending(table)' = Pending(table) /\ Running' = Running
      /\ NothingForgotten'
  BY DEF Open, Pending, Running, Good, NothingForgotten
<1>2. UsageInv'
  <2>1. clock \in Nat /\ clock' \in Nat /\ clock <= clock'
    BY DEF Good, UsageInv
  <2>2. \A i \in DOMAIN table : table[i].start <= clock'
    <3>1. \A i \in DOMAIN table : table[i].start \in Nat /\ table[i].start <= clock
      BY DEF Good, UsageInv, TableInv, TableRow
    <3> QED
      BY <2>1, <3>1
  <2>3. TableInv(table, clock, ended)'
    BY <2>2 DEF Good, UsageInv, TableInv, Open
  <2> QED
    BY <1>1, <2>1, <2>3 DEF Good, UsageInv
<1>3. [Meter!Next]_(Meter!meterVars)
  <2>1. CASE clock' = clock
    BY <1>1, <2>1 DEF Meter!meterVars
  <2>2. CASE clock' = clock + 1
    BY <1>1, <2>2 DEF Meter!Tick, Meter!Next
  <2> QED
    BY <2>1, <2>2
<1> QED
  BY <1>1, <1>2, <1>3 DEF Good

(* The empty table is good, and every step keeps it so and is one of the   *)
(* meter.                                                                  *)
LEMMA GoodInit == Init => Good /\ Meter!Init
<1> SUFFICES ASSUME Init PROVE Good /\ Meter!Init
  OBVIOUS
<1>1. DOMAIN table = {} /\ table \in [DOMAIN table -> TableRow] /\ Open(table) = {}
  BY DEF Init, Open
<1>2. UsageInv
  BY <1>1 DEF Init, UsageInv, TableInv, Pending
<1>3. NothingForgotten
  BY DEF Init, NothingForgotten
<1> QED
  BY <1>1, <1>2, <1>3 DEF Init, Good, Running, Meter!Init

LEMMA GoodNext == Good /\ [Next]_vars => Good' /\ [Meter!Next]_(Meter!meterVars)
<1> SUFFICES ASSUME Good, [Next]_vars PROVE Good' /\ [Meter!Next]_(Meter!meterVars)
  OBVIOUS
<1>0. active \in Live \cup {None} /\ stored \in Live \cup {None}
  BY DEF Good, UsageInv
<1>1. CASE Tick
  BY <1>0, <1>1, OtherStep DEF Tick, network, code, sessions, hub
<1>2. CASE \E s \in Subject : Connect(s) \/ Disconnect(s)
  BY <1>0, <1>2, OtherStep DEF Connect, Disconnect, code, sessions, hub
<1>3. ASSUME NEW d \in Event, Deliver(d)
      PROVE  Good' /\ [Meter!Next]_(Meter!meterVars)
  <2>1. UNCHANGED <<clock, code, hub>> /\ d.subject \in Subject
    BY <1>3 DEF Deliver, Event
  <2>2. CASE UNCHANGED sessions
    BY <1>0, <2>1, <2>2, OtherStep DEF code, sessions, hub
  <2>3. CASE CloseNow({i \in DOMAIN table : table[i].subject = d.subject})
    BY <2>1, <2>3, CloseStep
  <2>4. CASE active # None /\ MayOpen(d.subject) /\ OpenSession(d.subject)
    BY <2>1, <2>4, OpenStep
  <2> QED
    BY <1>3, <2>2, <2>3, <2>4 DEF Deliver, Track
<1>4. ASSUME NEW c \in Channel, CloseChannel(c)
      PROVE  Good' /\ [Meter!Next]_(Meter!meterVars)
  BY <1>4, CloseStep DEF CloseChannel
<1>5. ASSUME NEW l \in Live, Authenticate(l)
      PROVE  Good' /\ [Meter!Next]_(Meter!meterVars)
  BY <1>0, <1>5, OtherStep DEF Authenticate, sessions, hub
<1>6. CASE \E B \in SUBSET DOMAIN table : Sweep(B)
  BY <1>6, SweepStep
<1>7. CASE HubReceives \/ PushOk
  BY <1>7, HubStep
<1>8. CASE PushFails
  BY <1>8, FailStep
<1>9. CASE \E i \in DOMAIN table : Purge(i)
  BY <1>9, PurgeStep
<1>10. CASE Restart
  BY <1>0, <1>10, OtherStep DEF Restart, sessions
<1>11. CASE UNCHANGED vars
  BY <1>0, <1>11, OtherStep DEF vars, code, sessions, hub
<1> QED
  BY <1>1, <1>2, <1>3, <1>4, <1>5, <1>6, <1>7, <1>8, <1>9, <1>10, <1>11 DEF Next

(* Whatever the hub answers and whenever the server restarts, a period     *)
(* that is over has been received, is pending or was sent MaxAttempts      *)
(* times.                                                                  *)
THEOREM NoneForgotten == Spec => []NothingForgotten
<1>1. Init => Good
  BY GoodInit
<1>2. Good /\ [Next]_vars => Good'
  BY GoodNext
<1>3. Good => NothingForgotten
  BY DEF Good
<1> QED
  BY <1>1, <1>2, <1>3, PTL DEF Spec

(* The sessions and the reports of the field server implement the meter.   *)
THEOREM Metered == Spec => ImplementsMeter
<1>1. Init => Good /\ Meter!Init
  BY GoodInit
<1>2. Good /\ [Next]_vars => Good' /\ [Meter!Next]_(Meter!meterVars)
  BY GoodNext
<1> QED
  BY <1>1, <1>2, PTL DEF Spec, ImplementsMeter, Meter!Spec

(* The hub is never told of two periods of one participant that overlap.   *)
MeterThm == INSTANCE UsageMeterProofs WITH now <- clock, running <- Running

THEOREM NobodyBilledTwice == Spec => []Meter!NoDoubleBilling
<1>1. Init => Good /\ MeterThm!MeterInv
  BY GoodInit DEF Meter!Init, MeterThm!MeterInv
<1>2. MeterThm!MeterInv /\ [Meter!Next]_(Meter!meterVars) => MeterThm!MeterInv'
  <2>1. [Meter!Next]_(Meter!meterVars) => [MeterThm!Next]_(MeterThm!meterVars)
    BY DEF Meter!Next, Meter!meterVars, Meter!Tick, Meter!Begin, Meter!Stop, Meter!Over, Meter!Bill,
           MeterThm!Next, MeterThm!meterVars, MeterThm!Tick, MeterThm!Begin, MeterThm!Stop, MeterThm!Over, MeterThm!Bill
  <2> QED
    BY <2>1, MeterThm!NextKeepsInv, ConstantsAssumption
<1>3. Good /\ MeterThm!MeterInv /\ [Next]_vars => Good' /\ MeterThm!MeterInv'
  BY <1>2, GoodNext
<1>4. MeterThm!MeterInv => Meter!NoDoubleBilling
  BY DEF MeterThm!MeterInv, Meter!NoDoubleBilling, Meter!Apart, MeterThm!Apart
<1> QED
  BY <1>1, <1>3, <1>4, PTL DEF Spec

-----------------------------------------------------------------------------
(* Types.  A row starts and ends before now; what the reporter waits for   *)
(* has an attempt left.                                                    *)
RowOK(r, c) == r \in Row /\ r.start <= c /\ (r.end # None => r.end <= c)

TypedInv ==
  /\ TypeOK
  /\ \A i \in DOMAIN table : RowOK(table[i], clock)
  /\ \A i \in batch : table[i].attempts < MaxAttempts

(* What may be written into a row. *)
LEMMA RowChanges ==
  ASSUME NEW c \in 0..MaxTime, NEW r, RowOK(r, c)
  PROVE  /\ \A t \in 0..c : /\ RowOK([r EXCEPT !.end = t], c)
                            /\ [r EXCEPT !.end = t].attempts = r.attempts
         /\ RowOK([r EXCEPT !.pushed = TRUE], c)
         /\ [r EXCEPT !.pushed = TRUE].attempts = r.attempts
         /\ r.attempts < MaxAttempts => RowOK([r EXCEPT !.attempts = r.attempts + 1], c)
<1>1. r \in Row /\ MaxTime \in Nat /\ MaxAttempts \in Nat
  BY ConstantsAssumption DEF RowOK
<1>2. ASSUME NEW t \in 0..c
      PROVE  RowOK([r EXCEPT !.end = t], c) /\ [r EXCEPT !.end = t].attempts = r.attempts
  BY <1>1, <1>2 DEF RowOK, Row
<1>3. RowOK([r EXCEPT !.pushed = TRUE], c) /\ [r EXCEPT !.pushed = TRUE].attempts = r.attempts
  BY <1>1 DEF RowOK, Row
<1>4. ASSUME r.attempts < MaxAttempts
      PROVE  RowOK([r EXCEPT !.attempts = r.attempts + 1], c)
  <2>1. r.attempts + 1 \in 0..MaxAttempts
    BY <1>1, <1>4 DEF Row
  <2> QED
    BY <1>1, <2>1 DEF RowOK, Row
<1> QED
  BY <1>2, <1>3, <1>4

(* A step that changes rows by what may be written, and neither the clock  *)
(* nor the network.                                                        *)
LEMMA RowsStayTyped ==
  ASSUME TypedInv, UNCHANGED <<clock, network, code, crashes>>,
         logged' \subseteq Hooks, Good', lastId' \in Nat, DOMAIN table' \subseteq 1..lastId',
         \A i \in DOMAIN table' : RowOK(table'[i], clock),
         givenUp' \subseteq ended',
         \A i \in batch' : table'[i].attempts < MaxAttempts
  PROVE  TypedInv'
<1>1. Hooks' = Hooks
  BY DEF Hooks, network
<1>2. /\ table' \in [DOMAIN table' -> Row] /\ billed' \subseteq ended'
      /\ batch' \subseteq Pending(table')
  <2>1. table' \in [DOMAIN table' -> TableRow]
    BY DEF Good, UsageInv, TableInv
  <2>2. \A i \in DOMAIN table' : table'[i] \in Row
    BY DEF RowOK
  <2>3. Pending(table)' = Pending(table')
    BY DEF Pending, Open
  <2> QED
    BY <2>1, <2>2, <2>3 DEF Good, UsageInv
<1>3. Pending(table)' = Pending(table')
  BY DEF Pending, Open
<1> QED
  BY <1>1, <1>2, <1>3 DEF TypedInv, TypeOK, network, code

(* Closing rows at moments that have come. *)
LEMMA ClosedStaysTyped ==
  ASSUME Good, TypedInv, NEW I, NEW e \in [DOMAIN table -> Nat],
         \A i \in I \cap Open(table) : e[i] \in table[i].start..clock
  PROVE  LET T == Closed(I, e)
         IN  /\ DOMAIN T = DOMAIN table
             /\ \A i \in DOMAIN T : RowOK(T[i], clock) /\ T[i].attempts = table[i].attempts
<1> DEFINE T == Closed(I, e)
<1>1. /\ DOMAIN T = DOMAIN table
      /\ \A i \in DOMAIN table \ (I \cap Open(table)) : T[i] = table[i]
      /\ \A i \in I \cap Open(table) : T[i] = [table[i] EXCEPT !.end = e[i]]
  BY ClosedRows DEF Good
<1> HIDE DEF T
<1>2. ASSUME NEW i \in DOMAIN T
      PROVE  RowOK(T[i], clock) /\ T[i].attempts = table[i].attempts
  <2>1. clock \in 0..MaxTime /\ RowOK(table[i], clock)
    BY <1>1 DEF TypedInv, TypeOK
  <2>2. CASE i \in I \cap Open(table)
    <3>1. e[i] \in 0..clock
      BY <2>1, <2>2 DEF RowOK, Row
    <3>2. /\ RowOK([table[i] EXCEPT !.end = e[i]], clock)
          /\ [table[i] EXCEPT !.end = e[i]].attempts = table[i].attempts
      BY <2>1, <3>1, RowChanges
    <3> QED
      BY <1>1, <2>2, <3>2
  <2>3. CASE i \notin I \cap Open(table)
    BY <1>1, <2>1, <2>3
  <2> QED
    BY <2>2, <2>3
<1> QED
  BY <1>1, <1>2 DEF T

LEMMA CloseStaysTyped ==
  ASSUME Good, TypedInv, NEW I, CloseNow(I), UNCHANGED <<clock, network, code, hub, crashes>>,
         logged' \subseteq Hooks
  PROVE  TypedInv'
<1> DEFINE e == [i \in DOMAIN table |-> clock]
           T == Closed(I, e)
<1>1. table' = T /\ ended' = AlsoEnded(T) /\ UNCHANGED <<lastId, batch, givenUp>> /\ Good'
  BY CloseStep DEF CloseNow, hub
<1>2. e \in [DOMAIN table -> Nat] /\ \A i \in I \cap Open(table) : e[i] \in table[i].start..clock
  <2>1. ASSUME NEW i \in DOMAIN table
        PROVE  clock \in Nat /\ clock \in table[i].start..clock
    BY DEF Good, UsageInv, TableInv, TableRow
  <2>2. clock \in Nat
    BY DEF Good, UsageInv
  <2> QED
    BY <2>1, <2>2 DEF Open
<1> HIDE DEF e
<1>3. /\ DOMAIN T = DOMAIN table
      /\ \A i \in DOMAIN T : RowOK(T[i], clock) /\ T[i].attempts = table[i].attempts
  BY <1>2, ClosedStaysTyped
<1>4. givenUp \subseteq AlsoEnded(T)
  BY DEF TypedInv, TypeOK, AlsoEnded
<1> HIDE DEF T
<1>5. \A i \in batch : i \in DOMAIN table
  BY DEF TypedInv, TypeOK, Pending
<1> QED
  BY <1>1, <1>3, <1>4, <1>5, RowsStayTyped DEF TypedInv, TypeOK

LEMMA OpenStaysTyped ==
  ASSUME Good, TypedInv, NEW s \in Subject, active # None, MayOpen(s), OpenSession(s),
         UNCHANGED <<clock, network, code, hub, crashes>>, logged' \subseteq Hooks
  PROVE  TypedInv'
<1> DEFINE k == lastId + 1
           new == [subject |-> s, live |-> active, channel |-> ChannelOf[s],
                   start |-> clock, end |-> None, pushed |-> FALSE, attempts |-> 0]
<1>1. /\ lastId \in Nat /\ DOMAIN table \subseteq 1..lastId /\ active \in Live
      /\ clock \in 0..MaxTime /\ batch \subseteq DOMAIN table
  BY DEF TypedInv, TypeOK, Pending
<1>2. /\ lastId' = k /\ DOMAIN table' = DOMAIN table \cup {k}
      /\ table'[k] = new /\ \A i \in DOMAIN table : table'[i] = table[i]
      /\ UNCHANGED <<ended, batch, givenUp>> /\ Good'
  BY <1>1, OpenStep DEF OpenSession, hub
<1>3. new \in Row /\ new.start = clock /\ new.end = None
  BY <1>1, ConstantsAssumption DEF Row
<1> HIDE DEF new
<1>4. RowOK(new, clock)
  BY <1>1, <1>3 DEF RowOK
<1>5. lastId' \in Nat /\ DOMAIN table' \subseteq 1..lastId'
  BY <1>1, <1>2
<1>6. \A i \in DOMAIN table' : RowOK(table'[i], clock)
  BY <1>2, <1>4 DEF TypedInv
<1>7. \A i \in batch' : table'[i].attempts < MaxAttempts
  BY <1>1, <1>2 DEF TypedInv
<1> QED
  BY <1>2, <1>5, <1>6, <1>7, RowsStayTyped DEF TypedInv, TypeOK

LEMMA SweepStaysTyped ==
  ASSUME Good, TypedInv, NEW B, Sweep(B)
  PROVE  TypedInv'
<1> DEFINE I == {i \in DOMAIN table : table[i].start < clock - MaxSeconds}
           e == [i \in DOMAIN table |-> table[i].start + MaxSeconds]
           T == Closed(I, e)
           used == {i \in B : UsedUp(T[i])}
<1>1. /\ OldestOf(T, B) /\ table' = Pushed(T, used) /\ batch' = B \ used /\ ended' = AlsoEnded(T)
      /\ givenUp' = givenUp \cup
                    {PeriodOf(T[i]) : i \in {j \in used : T[j].attempts >= MaxAttempts}}
      /\ UNCHANGED <<clock, network, code, crashes, lastId, logged>> /\ Good'
  BY SweepStep DEF Sweep, Swept
<1>2. MaxSeconds \in Nat /\ clock \in Nat /\ MaxAttempts \in Nat
      /\ \A i \in DOMAIN table : table[i].start \in Nat
  BY ConstantsAssumption DEF Good, UsageInv, TableInv, TableRow
<1>3. e \in [DOMAIN table -> Nat] /\ \A i \in I \cap Open(table) : e[i] \in table[i].start..clock
  <2>1. e \in [DOMAIN table -> Nat]
    BY <1>2
  <2>2. ASSUME NEW i \in I
        PROVE  e[i] \in table[i].start..clock
    BY <1>2
  <2> QED
    BY <2>1, <2>2
<1> HIDE DEF e, I
<1>4. /\ DOMAIN T = DOMAIN table
      /\ \A i \in DOMAIN T : RowOK(T[i], clock)
  BY <1>3, ClosedStaysTyped
<1>5. TableInv(T, clock, AlsoEnded(T))
  BY <1>3, ClosedRows DEF Good
<1>6. used \subseteq Pending(T) /\ B \subseteq Pending(T) /\ Pending(T) \subseteq DOMAIN T
  BY <1>1 DEF OldestOf, Pending
<1>7. \A i \in B \ used : T[i].attempts < MaxAttempts
  <2>1. \A i \in B : T[i].attempts \in Int
    BY <1>4, <1>6 DEF RowOK, Row
  <2> QED
    BY <1>2, <2>1 DEF UsedUp
<1>8. givenUp' \subseteq ended'
  <2>1. \A i \in used : PeriodOf(T[i]) \in AlsoEnded(T)
    BY <1>5, <1>6 DEF TableInv, Pending
  <2>2. givenUp \subseteq AlsoEnded(T)
    BY DEF TypedInv, TypeOK, AlsoEnded
  <2> QED
    BY <1>1, <2>1, <2>2
<1>9. /\ DOMAIN table' = DOMAIN T
      /\ \A i \in DOMAIN T : table'[i] = IF i \in used THEN [T[i] EXCEPT !.pushed = TRUE] ELSE T[i]
  BY <1>1 DEF Pushed
<1> HIDE DEF T, used
<1>10. \A i \in DOMAIN table' : RowOK(table'[i], clock) /\ table'[i].attempts = T[i].attempts
  <2>1. clock \in 0..MaxTime
    BY DEF TypedInv, TypeOK
  <2> QED
    BY <1>4, <1>9, <2>1, RowChanges
<1>11. \A i \in batch' : table'[i].attempts < MaxAttempts
  BY <1>1, <1>6, <1>7, <1>9, <1>10
<1> QED
  BY <1>1, <1>4, <1>8, <1>9, <1>10, <1>11, RowsStayTyped DEF TypedInv, TypeOK

LEMMA ReportStaysTyped ==
  ASSUME Good, TypedInv, HubReceives \/ PushOk \/ PushFails
  PROVE  TypedInv'
<1>1. /\ UNCHANGED <<clock, network, code, crashes, logged, lastId, ended, givenUp>>
      /\ batch' \in {batch, {}} /\ Good' /\ clock \in 0..MaxTime
      /\ batch \subseteq DOMAIN table
  BY HubStep, FailStep
     DEF HubReceives, PushOk, PushFails, sessions, TypedInv, TypeOK, Pending
<1>2. DOMAIN table' = DOMAIN table
  BY DEF HubReceives, PushOk, PushFails, sessions, Pushed
<1>3. \A i \in DOMAIN table : RowOK(table'[i], clock)
  <2>1. CASE HubReceives
    BY <2>1 DEF HubReceives, sessions, TypedInv
  <2>2. CASE PushOk
    BY <1>1, <2>2, RowChanges DEF PushOk, Pushed, TypedInv
  <2>3. CASE PushFails
    BY <1>1, <2>3, RowChanges DEF PushFails, Bumped, TypedInv
  <2> QED
    BY <2>1, <2>2, <2>3
<1>4. \A i \in batch' : table'[i].attempts < MaxAttempts
  BY DEF HubReceives, PushOk, PushFails, sessions, TypedInv
<1> QED
  BY <1>1, <1>2, <1>3, <1>4, RowsStayTyped DEF TypedInv, TypeOK

LEMMA PurgeStaysTyped ==
  ASSUME Good, TypedInv, NEW i \in DOMAIN table, Purge(i)
  PROVE  TypedInv'
<1>1. /\ DOMAIN table' = DOMAIN table \ {i} /\ \A j \in DOMAIN table' : table'[j] = table[j]
      /\ UNCHANGED <<clock, network, code, crashes, logged, lastId, ended, givenUp, batch>> /\ Good'
  BY PurgeStep DEF Purge, hub
<1>2. i \notin batch /\ batch \subseteq DOMAIN table
  BY DEF Purge, Purgeable, TypedInv, TypeOK, Pending
<1> QED
  BY <1>1, <1>2, RowsStayTyped DEF TypedInv, TypeOK

(* The network and the clock. *)
LEMMA OutsideStaysTyped ==
  ASSUME Good, TypedInv,
         \/ Tick \/ Restart \/ UNCHANGED vars
         \/ \E s \in Subject : Connect(s) \/ Disconnect(s)
         \/ \E l \in Live : Authenticate(l)
  PROVE  TypedInv'
<1>1. /\ UNCHANGED <<table, lastId, ended, billed, givenUp, logged>>
      /\ batch' \in {batch, {}}
      /\ clock \in 0..MaxTime /\ MaxTime \in Nat /\ joins \in [Subject -> 0..MaxJoin] /\ MaxJoin \in Nat
  BY ConstantsAssumption
     DEF Tick, Restart, vars, Connect, Disconnect, Authenticate, sessions, hub, TypedInv, TypeOK
<1>2. clock' \in 0..MaxTime /\ clock <= clock'
  BY <1>1 DEF Tick, Restart, vars, Connect, Disconnect, Authenticate
<1>3. /\ joins' \in [Subject -> 0..MaxJoin] /\ present' \subseteq Subject
      /\ Hooks \subseteq Hooks'
  <2>1. CASE UNCHANGED network
    BY <1>1, <2>1 DEF network, Hooks, TypedInv, TypeOK
  <2>2. ASSUME NEW s \in Subject, Connect(s)
        PROVE  <1>3
    <3>1. joins' \in [Subject -> 0..MaxJoin] /\ present' \subseteq Subject
      BY <1>1, <2>2 DEF Connect, TypedInv, TypeOK
    <3>2. ASSUME NEW e \in Hooks
          PROVE  e \in Hooks'
      <4>1. /\ e \in Event /\ e.n \in Nat /\ e.subject \in Subject /\ e.n <= joins[e.subject]
            /\ e.kind = "left" => e.n < joins[e.subject] \/ e.subject \notin present
        BY <1>1 DEF Hooks, Event
      <4>2. joins[e.subject] \in Nat /\ joins[s] \in Nat
        BY <1>1, <4>1
      <4>3. joins'[e.subject] = IF e.subject = s THEN joins[s] + 1 ELSE joins[e.subject]
        BY <1>1, <2>2, <4>1 DEF Connect
      <4>4. present' = present \cup {s}
        BY <2>2 DEF Connect
      <4> QED
        BY <4>1, <4>2, <4>3, <4>4 DEF Hooks
    <3> QED
      BY <3>1, <3>2
  <2>3. ASSUME NEW s \in Subject, Disconnect(s)
        PROVE  <1>3
    BY <1>1, <2>3 DEF Disconnect, Hooks, TypedInv, TypeOK
  <2> QED
    BY <2>1, <2>2, <2>3 DEF Tick, Restart, vars, Authenticate
<1>4. {active', stored'} \subseteq Live \cup {None} /\ crashes' \in 0..MaxCrash
  BY ConstantsAssumption
     DEF Tick, Restart, vars, Connect, Disconnect, Authenticate, code, TypedInv, TypeOK
<1>5. \A i \in DOMAIN table : RowOK(table[i], clock')
  <2> TAKE i \in DOMAIN table
  <2>1. RowOK(table[i], clock)
    BY DEF TypedInv
  <2>2. table[i].start \in Nat /\ (table[i].end # None => table[i].end \in Nat)
    BY <2>1 DEF RowOK, Row
  <2> QED
    BY <1>1, <1>2, <2>1, <2>2 DEF RowOK
<1>6. Pending(table)' = Pending(table)
  BY <1>1 DEF Pending, Open
<1> QED
  BY <1>1, <1>2, <1>3, <1>4, <1>5, <1>6 DEF TypedInv, TypeOK

LEMMA TypedNext == Good /\ TypedInv /\ [Next]_vars => TypedInv'
<1> SUFFICES ASSUME Good, TypedInv, [Next]_vars PROVE TypedInv'
  OBVIOUS
<1>1. CASE \/ Tick \/ Restart \/ UNCHANGED vars
           \/ \E s \in Subject : Connect(s) \/ Disconnect(s)
           \/ \E l \in Live : Authenticate(l)
  BY <1>1, OutsideStaysTyped
<1>2. ASSUME NEW d \in Event, Deliver(d)
      PROVE  TypedInv'
  <2>1. /\ UNCHANGED <<clock, network, code, hub, crashes>> /\ d.subject \in Subject
        /\ logged' \subseteq Hooks
    BY <1>2 DEF Deliver, Event, TypedInv, TypeOK
  <2>2. CASE UNCHANGED sessions
    <3>1. UNCHANGED <<table, lastId, ended, givenUp, batch>>
      BY <2>1, <2>2 DEF sessions, hub
    <3>2. Good'
      BY <1>2, GoodNext DEF Next
    <3> QED
      BY <2>1, <3>1, <3>2, RowsStayTyped DEF TypedInv, TypeOK
  <2>3. CASE CloseNow({i \in DOMAIN table : table[i].subject = d.subject})
    BY <2>1, <2>3, CloseStaysTyped
  <2>4. CASE active # None /\ MayOpen(d.subject) /\ OpenSession(d.subject)
    BY <2>1, <2>4, OpenStaysTyped
  <2> QED
    BY <1>2, <2>2, <2>3, <2>4 DEF Deliver, Track
<1>3. ASSUME NEW c \in Channel, CloseChannel(c)
      PROVE  TypedInv'
  BY <1>3, CloseStaysTyped DEF CloseChannel, TypedInv, TypeOK
<1>4. CASE \E B \in SUBSET DOMAIN table : Sweep(B)
  BY <1>4, SweepStaysTyped
<1>5. CASE HubReceives \/ PushOk \/ PushFails
  BY <1>5, ReportStaysTyped
<1>6. CASE \E i \in DOMAIN table : Purge(i)
  BY <1>6, PurgeStaysTyped
<1> QED
  BY <1>1, <1>2, <1>3, <1>4, <1>5, <1>6 DEF Next

LEMMA TypedInit == Init => TypedInv
<1> SUFFICES ASSUME Init PROVE TypedInv
  OBVIOUS
<1>1. DOMAIN table = {} /\ table \in [DOMAIN table -> Row] /\ batch = {}
  BY DEF Init
<1> QED
  BY <1>1, ConstantsAssumption DEF Init, TypedInv, TypeOK

(* Every variable keeps its type: no clock, cap or count of attempts       *)
(* leaves its range, and bills are of periods that are over.               *)
THEOREM TypeCorrect == Spec => []TypeOK
<1>1. Init => Good /\ TypedInv
  BY GoodInit, TypedInit
<1>2. Good /\ TypedInv /\ [Next]_vars => Good' /\ TypedInv'
  BY GoodNext, TypedNext
<1>3. TypedInv => TypeOK
  BY DEF TypedInv
<1> QED
  BY <1>1, <1>2, <1>3, PTL DEF Spec

-----------------------------------------------------------------------------
(* Counting.  The periods and the open sessions of a participant, and its  *)
(* connections of which the server has heard: each of these was the first  *)
(* delivery of its event and opened at most one session.                   *)
OverOf(s) == {p \in ended : p.subject = s}
OpenOf(s) == {i \in Open(table) : table[i].subject = s}
HeardOf(s) == {e \in logged : e.kind = "joined" /\ e.subject = s}

CountInv ==
  \A s \in Subject :
    /\ IsFiniteSet(OverOf(s))
    /\ Cardinality(OverOf(s)) + Cardinality(OpenOf(s)) <= Cardinality(HeardOf(s))

(* Events of joining of one participant, up to its n-th connection.        *)
LEMMA FewConnections ==
  ASSUME NEW s \in Subject, NEW n \in Nat, NEW H \in SUBSET Event,
         \A e \in H : e.kind = "joined" /\ e.subject = s /\ e.n <= n
  PROVE  IsFiniteSet(H) /\ Cardinality(H) <= n
<1>1. IsFiniteSet(1..n) /\ Cardinality(1..n) = n
  BY FS_Interval
<1>2. \A e \in H : e.n \in 1..n
  BY ConstantsAssumption DEF Event
<1>3. \A e, d \in H : e.n = d.n => e = d
  BY DEF Event
<1> DEFINE f == [e \in H |-> e.n]
<1>4. f \in Injection(H, 1..n)
  BY <1>2, <1>3 DEF Injection, IsInjective
<1> HIDE DEF f
<1> QED
  BY <1>1, <1>4, FS_Injection

LEMMA HeardOfConnections ==
  ASSUME TypeOK, NEW s \in Subject
  PROVE  /\ IsFiniteSet(HeardOf(s)) /\ Cardinality(HeardOf(s)) <= joins[s]
         /\ \A e \in Hooks \ HeardOf(s) : e.kind = "joined" /\ e.subject = s =>
              IsFiniteSet(HeardOf(s) \cup {e})
<1>1. joins[s] \in Nat
  BY ConstantsAssumption DEF TypeOK
<1>2. \A e \in HeardOf(s) : e \in Event /\ e.kind = "joined" /\ e.subject = s /\ e.n <= joins[s]
  BY DEF TypeOK, HeardOf, Hooks
<1>3. IsFiniteSet(HeardOf(s)) /\ Cardinality(HeardOf(s)) <= joins[s]
  BY <1>1, <1>2, FewConnections
<1> QED
  BY <1>3, FS_AddElement

(* A participant has one open session or none. *)
LEMMA OneOrNone ==
  ASSUME NEW S, \A i, j \in S : i = j
  PROVE  IsFiniteSet(S) /\ Cardinality(S) = IF S = {} THEN 0 ELSE 1
<1>1. CASE S = {}
  BY <1>1, FS_EmptySet
<1>2. CASE S # {}
  <2>1. PICK i \in S : TRUE
    BY <1>2
  <2>2. S = {i}
    BY <2>1
  <2>3. IsFiniteSet({i}) /\ Cardinality({i}) = 1
    BY FS_Singleton
  <2> QED
    BY <1>2, <2>2, <2>3
<1> QED
  BY <1>1, <1>2

(* A step that opens nothing and may end sessions.                         *)
LEMMA EndingKeepsCount ==
  ASSUME Good, TypedInv, CountInv, logged' = logged \/ \E e \in Hooks : logged' = logged \cup {e},
         Open(table)' \subseteq Open(table),
         \A i \in Open(table) : i \in DOMAIN table' /\ table'[i].subject = table[i].subject,
         ended' = ended \cup {PeriodOf(table'[i]) : i \in Open(table) \ Open(table)'}
  PROVE  CountInv'
<1> SUFFICES ASSUME NEW s \in Subject
             PROVE  /\ IsFiniteSet(OverOf(s)')
                    /\ Cardinality(OverOf(s)') + Cardinality(OpenOf(s)') <= Cardinality(HeardOf(s)')
  BY DEF CountInv
<1>1. /\ IsFiniteSet(OverOf(s)) /\ Cardinality(OverOf(s)) \in Nat
      /\ Cardinality(OverOf(s)) + Cardinality(OpenOf(s)) <= Cardinality(HeardOf(s))
  BY FS_CardinalityType DEF CountInv
<1>2. /\ \A i, j \in OpenOf(s) : i = j
      /\ \A i, j \in OpenOf(s)' : i = j
      /\ OpenOf(s)' = {i \in OpenOf(s) : i \in Open(table)'}
  BY DEF Good, UsageInv, TableInv, OpenOf
<1>3. /\ Cardinality(OpenOf(s)) = IF OpenOf(s) = {} THEN 0 ELSE 1
      /\ Cardinality(OpenOf(s)') = IF OpenOf(s)' = {} THEN 0 ELSE 1
  BY <1>2, OneOrNone
<1>4. /\ Cardinality(HeardOf(s)) \in Nat /\ Cardinality(HeardOf(s)') \in Nat
      /\ Cardinality(HeardOf(s)) <= Cardinality(HeardOf(s)')
  <2>1. HeardOf(s) \subseteq HeardOf(s)'
    BY DEF HeardOf
  <2>2. IsFiniteSet(HeardOf(s)')
    <3>1. CASE HeardOf(s)' = HeardOf(s)
      BY <3>1, HeardOfConnections DEF TypedInv
    <3>2. CASE HeardOf(s)' # HeardOf(s)
      <4>1. PICK e \in Hooks : logged' = logged \cup {e}
        BY <3>2 DEF HeardOf
      <4>2. e.kind = "joined" /\ e.subject = s /\ HeardOf(s)' = HeardOf(s) \cup {e}
        BY <3>2, <4>1 DEF HeardOf
      <4> QED
        BY <3>2, <4>2, HeardOfConnections DEF TypedInv
    <3> QED
      BY <3>1, <3>2
  <2> QED
    BY <2>1, <2>2, FS_Subset, FS_CardinalityType
<1>5. CASE OpenOf(s)' = OpenOf(s)
  <2>1. \A i \in Open(table) \ Open(table)' : PeriodOf(table'[i]).subject # s
    BY <1>5 DEF PeriodOf, OpenOf
  <2>2. OverOf(s)' = OverOf(s)
    BY <2>1 DEF OverOf
  <2> QED
    BY <1>1, <1>3, <1>4, <1>5, <2>2
<1>6. CASE OpenOf(s)' # OpenOf(s)
  <2>1. PICK i \in OpenOf(s) : i \notin Open(table)'
    BY <1>2, <1>6
  <2>2. OpenOf(s) = {i} /\ OpenOf(s)' = {}
    BY <1>2, <2>1
  <2>3. \A j \in Open(table) \ Open(table)' : PeriodOf(table'[j]).subject = s <=> j = i
    BY <2>1, <2>2 DEF PeriodOf, OpenOf
  <2>4. OverOf(s)' = OverOf(s) \cup {PeriodOf(table'[i])}
    BY <2>1, <2>3 DEF OverOf, OpenOf
  <2>5. IsFiniteSet(OverOf(s)') /\ Cardinality(OverOf(s)') <= Cardinality(OverOf(s)) + 1
        /\ Cardinality(OverOf(s)') \in Nat
    <3> DEFINE p == PeriodOf(table'[i])
    <3>1. /\ IsFiniteSet(OverOf(s) \cup {p})
          /\ Cardinality(OverOf(s) \cup {p}) =
               IF p \in OverOf(s) THEN Cardinality(OverOf(s)) ELSE Cardinality(OverOf(s)) + 1
      BY <1>1, FS_AddElement
    <3> QED
      BY <1>1, <2>4, <3>1
  <2> QED
    BY <1>1, <1>3, <1>4, <2>2, <2>5
<1> QED
  BY <1>5, <1>6

(* A session is opened for an event that was not heard of before.          *)
LEMMA OpeningKeepsCount ==
  ASSUME Good, TypedInv, CountInv, NEW d \in Hooks \ logged, d.kind = "joined",
         logged' = logged \cup {d}, MayOpen(d.subject), OpenSession(d.subject)
  PROVE  CountInv'
<1> DEFINE k == lastId + 1
<1>1. /\ k \notin DOMAIN table /\ DOMAIN table' = DOMAIN table \cup {k}
      /\ \A i \in DOMAIN table : table'[i] = table[i]
      /\ table'[k].subject = d.subject /\ table'[k].end = None
      /\ ended' = ended
  BY DEF OpenSession, TypedInv, TypeOK
<1> HIDE DEF k
<1>2. Open(table)' = Open(table) \cup {k}
  BY <1>1 DEF Open
<1> SUFFICES ASSUME NEW s \in Subject
             PROVE  /\ IsFiniteSet(OverOf(s)')
                    /\ Cardinality(OverOf(s)') + Cardinality(OpenOf(s)') <= Cardinality(HeardOf(s)')
  BY DEF CountInv
<1>3. /\ IsFiniteSet(OverOf(s)) /\ OverOf(s)' = OverOf(s) /\ Cardinality(OverOf(s)) \in Nat
      /\ Cardinality(OverOf(s)) + Cardinality(OpenOf(s)) <= Cardinality(HeardOf(s))
  BY <1>1, FS_CardinalityType DEF CountInv, OverOf
<1>4. IsFiniteSet(HeardOf(s)) /\ Cardinality(HeardOf(s)) \in Nat
  BY HeardOfConnections, FS_CardinalityType DEF TypedInv
<1>5. CASE s = d.subject
  <2>1. OpenOf(s) = {} /\ OpenOf(s)' = {k}
    BY <1>1, <1>2, <1>5 DEF OpenOf, MayOpen, Open
  <2>2. HeardOf(s)' = HeardOf(s) \cup {d} /\ d \notin HeardOf(s)
    BY <1>5 DEF HeardOf
  <2>3. Cardinality(HeardOf(s)') = Cardinality(HeardOf(s)) + 1
    BY <1>4, <2>2, FS_AddElement
  <2>4. Cardinality(OpenOf(s)) = 0 /\ Cardinality(OpenOf(s)') = 1
    BY <2>1, FS_EmptySet, FS_Singleton
  <2> QED
    BY <1>3, <1>4, <2>3, <2>4
<1>6. CASE s # d.subject
  <2>1. OpenOf(s)' = OpenOf(s)
    BY <1>1, <1>2, <1>6 DEF OpenOf, Open
  <2>2. HeardOf(s)' = HeardOf(s)
    BY <1>6 DEF HeardOf
  <2> QED
    BY <1>3, <2>1, <2>2
<1> QED
  BY <1>5, <1>6

-----------------------------------------------------------------------------
(* Steps that leave the open sessions and what is over alone.              *)
LEMMA SameKeepsCount ==
  ASSUME Good, TypedInv, CountInv, logged' = logged \/ \E e \in Hooks : logged' = logged \cup {e},
         Open(table)' = Open(table),
         \A i \in Open(table) : i \in DOMAIN table' /\ table'[i].subject = table[i].subject,
         ended' = ended
  PROVE  CountInv'
BY EndingKeepsCount

LEMMA CloseKeepsCount ==
  ASSUME Good, TypedInv, CountInv, logged' = logged \/ \E e \in Hooks : logged' = logged \cup {e},
         NEW I, CloseNow(I)
  PROVE  CountInv'
<1> DEFINE e == [i \in DOMAIN table |-> clock]
           T == Closed(I, e)
<1>1. table' = T /\ ended' = AlsoEnded(T)
  BY DEF CloseNow
<1>2. e \in [DOMAIN table -> Nat] /\ \A i \in I \cap Open(table) : e[i] \in table[i].start..clock
  <2>1. ASSUME NEW i \in DOMAIN table
        PROVE  clock \in Nat /\ clock \in table[i].start..clock
    BY DEF Good, UsageInv, TableInv, TableRow
  <2>2. clock \in Nat
    BY DEF Good, UsageInv
  <2> QED
    BY <2>1, <2>2 DEF Open
<1> HIDE DEF e
<1>3. /\ DOMAIN T = DOMAIN table /\ Open(T) \subseteq Open(table)
      /\ \A i \in Open(table) : T[i].subject = table[i].subject
  <2>1. /\ DOMAIN T = DOMAIN table /\ Open(T) \subseteq Open(table)
        /\ \A i \in DOMAIN table \ (I \cap Open(table)) : T[i] = table[i]
        /\ \A i \in I \cap Open(table) : T[i] = [table[i] EXCEPT !.end = e[i]]
    BY <1>2, ClosedRows DEF Good
  <2> HIDE DEF T
  <2>2. \A i \in Open(table) : i \in DOMAIN table /\ table[i] \in TableRow
    BY DEF Open, Good, UsageInv, TableInv
  <2> QED
    BY <2>1, <2>2 DEF TableRow
<1> HIDE DEF T
<1>4. Open(table)' = Open(T)
  BY <1>1 DEF Open
<1>5. \A i \in Open(table) : i \in DOMAIN T
  BY <1>3 DEF Open
<1> QED
  BY <1>1, <1>3, <1>4, <1>5, EndingKeepsCount DEF AlsoEnded

LEMMA SweepKeepsCount ==
  ASSUME Good, TypedInv, CountInv, NEW B, Sweep(B)
  PROVE  CountInv'
<1> DEFINE I == {i \in DOMAIN table : table[i].start < clock - MaxSeconds}
           e == [i \in DOMAIN table |-> table[i].start + MaxSeconds]
           T == Closed(I, e)
           used == {i \in B : UsedUp(T[i])}
<1>1. /\ OldestOf(T, B) /\ table' = Pushed(T, used) /\ ended' = AlsoEnded(T) /\ logged' = logged
  BY DEF Sweep, Swept
<1>2. MaxSeconds \in Nat /\ clock \in Nat
      /\ \A i \in DOMAIN table : table[i].start \in Nat
  BY ConstantsAssumption DEF Good, UsageInv, TableInv, TableRow
<1>3. e \in [DOMAIN table -> Nat] /\ \A i \in I \cap Open(table) : e[i] \in table[i].start..clock
  <2>1. e \in [DOMAIN table -> Nat]
    BY <1>2
  <2>2. ASSUME NEW i \in I
        PROVE  e[i] \in table[i].start..clock
    BY <1>2
  <2> QED
    BY <2>1, <2>2
<1> HIDE DEF e, I
<1>4. /\ DOMAIN T = DOMAIN table /\ Open(T) \subseteq Open(table)
      /\ TableInv(T, clock, AlsoEnded(T))
      /\ \A i \in Open(table) : T[i].subject = table[i].subject
  <2>1. /\ DOMAIN T = DOMAIN table /\ Open(T) \subseteq Open(table)
        /\ TableInv(T, clock, AlsoEnded(T))
        /\ \A i \in DOMAIN table \ (I \cap Open(table)) : T[i] = table[i]
        /\ \A i \in I \cap Open(table) : T[i] = [table[i] EXCEPT !.end = e[i]]
    BY <1>3, ClosedRows DEF Good
  <2> HIDE DEF T
  <2>2. \A i \in Open(table) : i \in DOMAIN table /\ table[i] \in TableRow
    BY DEF Open, Good, UsageInv, TableInv
  <2> QED
    BY <2>1, <2>2 DEF TableRow
<1>5. used \in SUBSET Pending(T)
  BY <1>1 DEF OldestOf
<1> HIDE DEF T, used
<1>6. /\ DOMAIN table' = DOMAIN T /\ Open(table)' = Open(T)
      /\ \A i \in DOMAIN T : PeriodOf(table'[i]) = PeriodOf(T[i]) /\ table'[i].subject = T[i].subject
  <2>1. /\ DOMAIN table' = DOMAIN T /\ Open(table') = Open(T)
        /\ \A i \in DOMAIN T : PeriodOf(table'[i]) = PeriodOf(T[i])
    BY <1>1, <1>4, <1>5, PushedRows
  <2>2. Open(table)' = Open(table')
    BY DEF Open
  <2> QED
    BY <2>1, <2>2 DEF PeriodOf
<1>7. Open(table) \subseteq DOMAIN T
  BY <1>4 DEF Open
<1>8. ended' = ended \cup {PeriodOf(table'[i]) : i \in Open(table) \ Open(table)'}
  BY <1>1, <1>6, <1>7 DEF AlsoEnded
<1> QED
  BY <1>1, <1>4, <1>6, <1>7, <1>8, EndingKeepsCount

LEMMA RestKeepsCount ==
  ASSUME Good, TypedInv, CountInv,
         \/ HubReceives \/ PushOk \/ PushFails \/ Tick \/ Restart \/ UNCHANGED vars
         \/ \E s \in Subject : Connect(s) \/ Disconnect(s)
         \/ \E l \in Live : Authenticate(l)
         \/ \E i \in DOMAIN table : Purge(i)
  PROVE  CountInv'
<1>1. /\ table \in [DOMAIN table -> TableRow] /\ Open(table) \subseteq DOMAIN table
      /\ batch \in SUBSET Pending(table) /\ TableInv(table, clock, ended)
  BY DEF Good, UsageInv, TableInv, Open
<1>2. CASE PushOk
  <2>1. table' = Pushed(table, batch) /\ UNCHANGED <<logged, ended>>
    BY <1>2 DEF PushOk
  <2>2. /\ DOMAIN table' = DOMAIN table /\ Open(table') = Open(table)
        /\ \A i \in DOMAIN table : RunOf(table'[i]) = RunOf(table[i])
    BY <1>1, <2>1, PushedRows
  <2>3. Open(table)' = Open(table) /\ \A i \in DOMAIN table : table'[i].subject = table[i].subject
    BY <2>2 DEF Open, RunOf
  <2> QED
    BY <1>1, <2>1, <2>2, <2>3, SameKeepsCount
<1>3. CASE PushFails
  <2>1. /\ DOMAIN table' = DOMAIN table /\ UNCHANGED <<logged, ended>>
        /\ \A i \in DOMAIN table : table'[i].subject = table[i].subject /\ table'[i].end = table[i].end
    BY <1>1, <1>3 DEF PushFails, TableRow
  <2>2. Open(table)' = Open(table)
    BY <2>1 DEF Open
  <2> QED
    BY <1>1, <2>1, <2>2, SameKeepsCount
<1>4. ASSUME NEW i \in DOMAIN table, Purge(i)
      PROVE  CountInv'
  <2>1. /\ DOMAIN table' = DOMAIN table \ {i} /\ UNCHANGED <<logged, ended>>
        /\ \A j \in DOMAIN table' : table'[j] = table[j]
    BY <1>4 DEF Purge
  <2>2. i \notin Open(table)
    BY <1>1, <1>4 DEF Purge, Purgeable, TableInv
  <2>3. Open(table)' = Open(table)
    BY <2>1, <2>2 DEF Open
  <2> QED
    BY <1>1, <2>1, <2>2, <2>3, SameKeepsCount
<1>5. CASE UNCHANGED <<table, logged, ended>>
  <2>1. Open(table)' = Open(table)
    BY <1>5 DEF Open
  <2> QED
    BY <1>1, <1>5, <2>1, SameKeepsCount
<1> QED
  BY <1>2, <1>3, <1>4, <1>5
     DEF HubReceives, Tick, Restart, vars, Connect, Disconnect, Authenticate, sessions

LEMMA CountNext == Good /\ TypedInv /\ CountInv /\ [Next]_vars => CountInv'
<1> SUFFICES ASSUME Good, TypedInv, CountInv, [Next]_vars PROVE CountInv'
  OBVIOUS
<1>1. ASSUME NEW d \in Event, Deliver(d)
      PROVE  CountInv'
  <2>1. d \in Hooks \ logged /\ logged' = logged \cup {d}
    BY <1>1 DEF Deliver, FirstDelivery
  <2>2. CASE UNCHANGED sessions
    <3>1. UNCHANGED <<table, ended>> /\ Open(table)' = Open(table) /\ Open(table) \subseteq DOMAIN table
      BY <2>2 DEF sessions, Open
    <3> QED
      BY <2>1, <3>1, SameKeepsCount
  <2>3. CASE CloseNow({i \in DOMAIN table : table[i].subject = d.subject})
    BY <2>1, <2>3, CloseKeepsCount
  <2>4. CASE d.kind = "joined" /\ MayOpen(d.subject) /\ OpenSession(d.subject)
    BY <2>1, <2>4, OpeningKeepsCount
  <2> QED
    BY <1>1, <2>2, <2>3, <2>4 DEF Deliver, Track, Event
<1>2. ASSUME NEW c \in Channel, CloseChannel(c)
      PROVE  CountInv'
  BY <1>2, CloseKeepsCount DEF CloseChannel
<1>3. CASE \E B \in SUBSET DOMAIN table : Sweep(B)
  BY <1>3, SweepKeepsCount
<1>4. CASE \/ HubReceives \/ PushOk \/ PushFails \/ Tick \/ Restart \/ UNCHANGED vars
           \/ \E s \in Subject : Connect(s) \/ Disconnect(s)
           \/ \E l \in Live : Authenticate(l)
           \/ \E i \in DOMAIN table : Purge(i)
  BY <1>4, RestKeepsCount
<1> QED
  BY <1>1, <1>2, <1>3, <1>4 DEF Next

LEMMA CountInit == Init => CountInv
<1> SUFFICES ASSUME Init, NEW s \in Subject
             PROVE  /\ IsFiniteSet(OverOf(s))
                    /\ Cardinality(OverOf(s)) + Cardinality(OpenOf(s)) <= Cardinality(HeardOf(s))
  BY DEF CountInv
<1>1. OverOf(s) = {} /\ OpenOf(s) = {} /\ HeardOf(s) = {}
  BY DEF Init, OverOf, OpenOf, HeardOf, Open
<1> QED
  BY <1>1, FS_EmptySet

(* However often webhooks are delivered and in whatever order, and however *)
(* often the server crashes between an event and its session, a            *)
(* participant is billed at most one period for each connection it made.   *)
THEOREM ConnectionsBilledOnce == Spec => []OnePeriodPerConnection
<1>1. Init => Good /\ TypedInv /\ CountInv
  BY GoodInit, TypedInit, CountInit
<1>2. Good /\ TypedInv /\ CountInv /\ [Next]_vars => Good' /\ TypedInv' /\ CountInv'
  BY GoodNext, TypedNext, CountNext
<1>3. Good /\ TypedInv /\ CountInv => OnePeriodPerConnection
  <2> SUFFICES ASSUME Good, TypedInv, CountInv, NEW s \in Subject
               PROVE  Cardinality(OverOf(s)) + Cardinality(OpenOf(s)) <= joins[s]
    BY DEF OnePeriodPerConnection, OverOf, OpenOf
  <2>1. \A i, j \in OpenOf(s) : i = j
    BY DEF Good, UsageInv, TableInv, OpenOf
  <2>2. /\ Cardinality(OverOf(s)) \in Nat /\ Cardinality(OpenOf(s)) \in Nat
        /\ Cardinality(HeardOf(s)) \in Nat /\ Cardinality(HeardOf(s)) <= joins[s]
        /\ joins[s] \in Nat
    BY <2>1, OneOrNone, HeardOfConnections, FS_CardinalityType, ConstantsAssumption
       DEF CountInv, TypedInv, TypeOK
  <2> QED
    BY <2>2 DEF CountInv
<1> QED
  BY <1>1, <1>2, <1>3, PTL DEF Spec
=============================================================================
