----------------------------- MODULE UsageMeter -----------------------------
(***************************************************************************)
(* What the usage accounting of the field server promises the hub, for     *)
(* every participant: the bills it receives are of periods that are over,  *)
(* each for one live from its beginning to its end, and two periods of a   *)
(* participant never overlap.  Implemented by UsageSessions.               *)
(***************************************************************************)
EXTENDS Integers

CONSTANTS
  Subject,  \* participants, by the hash of their identity
  Live      \* join codes of the lives usage is billed to

Period == [subject : Subject, live : Live, start : Nat, end : Nat]

VARIABLES
  now,      \* the clock
  running,  \* the periods that are not over: subject, live and start
  ended,    \* periods that are over
  billed    \* those of them the hub has received

meterVars == <<now, running, ended, billed>>

Init == now = 0 /\ running = {} /\ ended = {} /\ billed = {}

Tick == now' = now + 1 /\ UNCHANGED <<running, ended, billed>>

Begin(s, l) ==
  /\ \A r \in running : r.subject # s
  /\ running' = running \cup {[subject |-> s, live |-> l, start |-> now]}
  /\ UNCHANGED <<now, ended, billed>>

(* Any of the running periods stop, each at a moment that has been.        *)
Over(r, e) == [subject |-> r.subject, live |-> r.live, start |-> r.start, end |-> e]
Stop(R, end) ==
  /\ \A r \in R : end[r] \in r.start..now
  /\ running' = running \ R
  /\ ended' = ended \cup {Over(r, end[r]) : r \in R}
  /\ UNCHANGED <<now, billed>>

Bill ==
  /\ billed \subseteq billed' /\ billed' \subseteq ended
  /\ UNCHANGED <<now, running, ended>>

Next ==
  \/ Tick \/ Bill
  \/ \E s \in Subject, l \in Live : Begin(s, l)
  \/ \E R \in SUBSET running : \E end \in [R -> 0..now] : Stop(R, end)

Spec == Init /\ [][Next]_meterVars

(* The hub is never told of two periods of one participant that overlap.   *)
Apart(p, q) == p.subject # q.subject \/ p.end <= q.start \/ q.end <= p.start
NoDoubleBilling == \A p, q \in billed : p = q \/ Apart(p, q)
=============================================================================
