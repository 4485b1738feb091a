-------------------------- MODULE UsageMeterProofs -------------------------
(***************************************************************************)
(* The abstract meter bills no participant twice for the same time.        *)
(***************************************************************************)
EXTENDS UsageMeter, TLAPS

Run == [subject : Subject, live : Live, start : Nat]

MeterInv ==
  /\ now \in Nat
  /\ running \subseteq Run /\ ended \subseteq Period /\ billed \subseteq ended
  /\ \A r \in running : r.start <= now
  /\ \A q, r \in running : q.subject = r.subject => q = r
  /\ \A p \in ended : p.start <= p.end /\ p.end <= now
  /\ \A p \in ended, r \in running : p.subject = r.subject => p.end <= r.start
  /\ \A p, q \in ended : p = q \/ Apart(p, q)

(* Begin: the new period starts now, after all that are over. *)
LEMMA BeginKeepsInv ==
  ASSUME MeterInv, NEW s \in Subject, NEW l \in Live, Begin(s, l)
  PROVE  MeterInv'
<1> DEFINE new == [subject |-> s, live |-> l, start |-> now]
<1>1. new \in Run /\ new.subject = s /\ new.start = now
  BY DEF MeterInv, Run
<1>2. running' = running \cup {new} /\ now' = now /\ ended' = ended /\ billed' = billed
  BY DEF Begin
<1>3. \A r \in running : r.subject # s
  BY DEF Begin
<1> HIDE DEF new
<1>4. now' \in Nat /\ running' \subseteq Run /\ ended' \subseteq Period /\ billed' \subseteq ended'
  BY <1>1, <1>2 DEF MeterInv
<1>5. \A r \in running' : r.start <= now'
  BY <1>1, <1>2 DEF MeterInv
<1>6. \A q, r \in running' : q.subject = r.subject => q = r
  BY <1>1, <1>2, <1>3 DEF MeterInv
<1>7. \A p \in ended' : p.start <= p.end /\ p.end <= now'
  BY <1>2 DEF MeterInv
<1>8. \A p \in ended', r \in running' : p.subject = r.subject => p.end <= r.start
  BY <1>1, <1>2 DEF MeterInv
<1>9. \A p, q \in ended' : p = q \/ Apart(p, q)
  BY <1>2 DEF MeterInv
<1> QED
  BY <1>4, <1>5, <1>6, <1>7, <1>8, <1>9 DEF MeterInv

(* Stop: a period that ends now was begun after all that were over. *)
LEMMA StopKeepsInv ==
  ASSUME MeterInv, NEW R \in SUBSET running, NEW end \in [R -> 0..now], Stop(R, end)
  PROVE  MeterInv'
<1> DEFINE new == {Over(r, end[r]) : r \in R}
<1>1. /\ running' = running \ R /\ ended' = ended \cup new
      /\ now' = now /\ billed' = billed
  BY DEF Stop
<1>2. ASSUME NEW p \in new
      PROVE  \E r \in R : /\ p \in Period /\ p.subject = r.subject
                          /\ p.start = r.start /\ p.end = end[r]
                          /\ r.start <= end[r] /\ end[r] <= now /\ p = Over(r, end[r])
  <2>1. PICK r \in R : p = Over(r, end[r])
    OBVIOUS
  <2>2. r \in Run /\ end[r] \in r.start..now /\ end[r] \in 0..now
    BY DEF MeterInv, Stop
  <2>3. r.start \in Nat /\ now \in Nat
    BY <2>2 DEF MeterInv, Run
  <2> QED
    BY <2>1, <2>2, <2>3 DEF Over, Period, Run
<1> HIDE DEF new
<1>3. now' \in Nat /\ running' \subseteq Run /\ ended' \subseteq Period /\ billed' \subseteq ended'
  BY <1>1, <1>2 DEF MeterInv
<1>4. \A r \in running' : r.start <= now'
  BY <1>1 DEF MeterInv
<1>5. \A q, r \in running' : q.subject = r.subject => q = r
  BY <1>1 DEF MeterInv
<1>6. \A p \in ended' : p.start <= p.end /\ p.end <= now'
  BY <1>1, <1>2 DEF MeterInv
<1>7. ASSUME NEW p \in ended', NEW r \in running', p.subject = r.subject
      PROVE  p.end <= r.start
  <2>1. CASE p \in ended
    BY <1>1, <2>1, <1>7 DEF MeterInv
  <2>2. CASE p \in new
    <3>1. PICK q \in R : p.subject = q.subject
      BY <1>2, <2>2
    <3> QED
      BY <3>1, <1>1, <1>7 DEF MeterInv
  <2> QED
    BY <2>1, <2>2, <1>1
<1>8. ASSUME NEW p \in new, NEW q \in ended
      PROVE  Apart(p, q)
  <2>1. PICK r \in R : p.subject = r.subject /\ p.start = r.start
    BY <1>2
  <2> QED
    BY <2>1 DEF MeterInv, Apart
<1>9. ASSUME NEW p \in new, NEW q \in new
      PROVE  p = q \/ Apart(p, q)
  <2>1. PICK r \in R : p.subject = r.subject /\ p = Over(r, end[r])
    BY <1>2
  <2>2. PICK t \in R : q.subject = t.subject /\ q = Over(t, end[t])
    BY <1>2
  <2>3. CASE r.subject = t.subject
    BY <2>1, <2>2, <2>3 DEF MeterInv
  <2>4. CASE r.subject # t.subject
    BY <2>1, <2>2, <2>4 DEF Apart
  <2> QED
    BY <2>3, <2>4
<1>10. \A p, q \in ended' : p = q \/ Apart(p, q)
  <2>1. \A p, q : Apart(p, q) => Apart(q, p)
    BY DEF Apart
  <2> QED
    BY <1>1, <1>8, <1>9, <2>1 DEF MeterInv
<1> QED
  BY <1>3, <1>4, <1>5, <1>6, <1>7, <1>10 DEF MeterInv

LEMMA NextKeepsInv == MeterInv /\ [Next]_meterVars => MeterInv'
<1> SUFFICES ASSUME MeterInv, [Next]_meterVars
             PROVE  MeterInv'
  OBVIOUS
<1>1. CASE Tick
  <2>1. now \in Nat /\ now' = now + 1 /\ UNCHANGED <<running, ended, billed>>
    BY <1>1 DEF Tick, MeterInv
  <2>2. \A r \in running : r.start \in Nat
    BY DEF MeterInv, Run
  <2>3. \A p \in ended : p.end \in Nat
    BY DEF MeterInv, Period
  <2> QED
    BY <2>1, <2>2, <2>3 DEF MeterInv, Apart
<1>2. CASE Bill
  BY <1>2 DEF Bill, MeterInv, Apart
<1>3. ASSUME NEW s \in Subject, NEW l \in Live, Begin(s, l)
      PROVE  MeterInv'
  BY <1>3, BeginKeepsInv
<1>4. ASSUME NEW R \in SUBSET running, NEW end \in [R -> 0..now], Stop(R, end)
      PROVE  MeterInv'
  BY <1>4, StopKeepsInv
<1>5. CASE UNCHANGED meterVars
  BY <1>5 DEF meterVars, MeterInv, Apart
<1> QED
  BY <1>1, <1>2, <1>3, <1>4, <1>5 DEF Next

(* The hub is never told of two periods of one participant that overlap.   *)
THEOREM BilledOnce == Spec => []NoDoubleBilling
<1>1. Init => MeterInv
  BY DEF Init, MeterInv
<1>2. MeterInv => NoDoubleBilling
  BY DEF MeterInv, NoDoubleBilling
<1> QED
  BY <1>1, <1>2, NextKeepsInv, PTL DEF Spec
=============================================================================
