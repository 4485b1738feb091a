------------------------------ MODULE AiProofs ------------------------------
(***************************************************************************)
(* The safety of AI channels, for any number of slots, coroutines and      *)
(* openings.  The argument: what concerns a coroutine is stated for each   *)
(* alone (Sound); a step of one disturbs no other (OthersStaySound), for   *)
(* whoever waits before it closes a slot owns the slot's lock, and whoever *)
(* relies on the set of AI channels not to grow owns the rotation lock.    *)
(* Workers, rows and leases agree about every slot that is not just being  *)
(* closed (Settled).                                                       *)
(***************************************************************************)
EXTENDS AiChannels, FiniteSetTheorems, TLAPS

(* A worker that is not alive or was told to stop. *)
Told(w) == w \in DOMAIN run => w \in stopped

(* The worker that belongs to the row of a slot. *)
OwnWorker(c) == IF IsAi(c) THEN [slot |-> c, n |-> row[c].born] ELSE None

Closing == {"stop", "remove"}
Draining == {"stopping", "reap"}
Settled(c) ==
  \A t \in Task : (pc[t] \in Closing => ch[t] # c) /\ pc[t] \notin Draining

MatchInv == \A c \in Slot : Settled(c) => registry[c] = OwnWorker(c)

(* What is written of workers is of those started so far. *)
FreshInv ==
  /\ \A c \in Slot : row[c].born <= opened /\ (IsAi(c) => row[c].born >= 1)
  /\ \A w \in DOMAIN run : w.n <= opened
  /\ \A c \in Slot : registry[c] # None => registry[c].slot = c /\ registry[c].n <= opened
  /\ \A t \in Task : mine[t] # None => mine[t].n <= opened
  /\ \A t \in Task : \A w \in batch[t] : w.n <= opened

(* No set of AI channels has all its sources in itself. *)
AcyclicInv ==
  \A W \in SUBSET Slot : W # {} => \E d \in W : ~(IsAi(d) /\ row[d].source \in W)

(* What a coroutine is at each place. *)
Located == {"lock", "ensure", "ready", "rollback", "stop", "remove", "removeHuman", "cascade"}
PlaceOf(t) ==
  /\ pc[t] = "idle" <=> op[t] = "none"
  /\ pc[t] \in {"rooms", "stopAll"} \cup Draining <=> op[t] = "rotate"
  /\ pc[t] \in {"ensure", "ready", "rollback"} => op[t] = "create"
  /\ pc[t] = "sweep" => op[t] = "sweep"
  /\ pc[t] = "removeHuman" => op[t] = "close"
  /\ pc[t] \in Located => ch[t] \in Slot
  /\ pc[t] \in {"ready", "rollback"} => mine[t] # None
  /\ pc[t] \in {"ready", "rollback", "stop"} /\ mine[t] # None => mine[t].slot = ch[t]
  /\ wave[t] # {} => pc[t] \in {"cascade"} \cup Closing
  /\ wave[t] = {} => next[t] = {} /\ seen[t] = {} /\ cand[t] = {}
  /\ pc[t] = "cascade" => wave[t] # {} /\ cand[t] # {}
  /\ batch[t] # {} => pc[t] \in Draining

(* The locks it owns. *)
Exclusive(t) ==
  \/ op[t] \in {"delete", "close", "rotate"}
  \/ op[t] = "create" /\ pc[t] \in {"lock", "ensure"}
Owns(t) ==
  /\ Exclusive(t) => rotationLock = t
  /\ pc[t] \in {"ensure", "removeHuman"} \cup Closing => channelLock[ch[t]] = t

(* What it has checked, and what it has done. *)
Checked(t) ==
  /\ pc[t] = "ensure" => ~SourceCycle(ch[t], src[t])
  /\ pc[t] = "removeHuman" => row[ch[t]].kind = "human"
Stops(t) ==
  /\ pc[t] = "stop" => /\ registry[ch[t]] \in {mine[t], None}
                       /\ mine[t] # None => Told(mine[t])
  /\ pc[t] = "remove" => registry[ch[t]] = None
  /\ \A w \in batch[t] : Told(w)
  /\ pc[t] = "stopping" => \A c \in Slot : registry[c] # None => registry[c] \in batch[t]
  /\ pc[t] = "reap" => \A c \in Slot : registry[c] = None

(* Of a cascade under the rotation lock: no AI channel is left that        *)
(* interprets a slot it has examined, but for its candidates.              *)
Examined(t) == (wave[t] \cup seen[t]) \ next[t]
Cascades(t) ==
  op[t] \in {"delete", "close"} =>
    /\ next[t] \subseteq seen[t]
    /\ \A c \in seen[t] : ~IsAi(c)
    /\ \A d \in Slot : IsAi(d) /\ row[d].source \in Examined(t) =>
         row[d].source \in wave[t] /\ (d \in cand[t] \/ (pc[t] \in Closing /\ d = ch[t]))
    /\ pc[t] = "cascade" => ch[t] \in seen[t] \/ (next[t] = {} /\ ch[t] \in wave[t])

Sound(t) == PlaceOf(t) /\ Owns(t) /\ Checked(t) /\ Stops(t) /\ Cascades(t)

GlobalInv ==
  FreshInv /\ NoRunaway /\ EveryTaskTracked /\ MatchInv /\ LeaseOfOwnRow /\ AcyclicInv
Inv == TypeOK /\ GlobalInv /\ \A t \in Task : Sound(t)

(* The types, in two parts. *)
ControlType ==
  /\ rotationLock \in Task \cup {None}
  /\ channelLock \in [Slot -> Task \cup {None}]
  /\ pc \in [Task -> Pc] /\ op \in [Task -> Operation]
  /\ ch \in [Task -> Slot \cup {Floor}] /\ src \in [Task -> Slot \cup {Floor}]
  /\ mine \in [Task -> Worker \cup {None}]
  /\ seenLease \in [Task -> Worker \cup {None}]
  /\ todo \in [Task -> SUBSET Slot] /\ cand \in [Task -> SUBSET Slot]
  /\ wave \in [Task -> SUBSET Slot] /\ next \in [Task -> SUBSET Slot]
  /\ seen \in [Task -> SUBSET Slot]
  /\ batch \in [Task -> SUBSET Worker]
  /\ born \in [Task -> 0..MaxOpen]
StoreType ==
  /\ row \in [Slot -> Row] /\ opened \in 0..MaxOpen
  /\ lease \in [Slot -> Worker \cup {None}]
  /\ registry \in [Slot -> Worker \cup {None}] /\ leaked \subseteq DOMAIN run
  /\ DOMAIN run \subseteq Worker /\ run \in [DOMAIN run -> RunState]
  /\ stopped \subseteq DOMAIN run /\ ready \subseteq Worker
  /\ faults \in 0..MaxFaults

LEMMA TypeParts == TypeOK <=> ControlType /\ StoreType
BY DEF TypeOK, ControlType, StoreType

LEMMA NullFacts ==
  /\ None \notin Task /\ None \notin Worker
  /\ Floor \notin Slot /\ Slot \subseteq Nat
  /\ \A c \in Slot, n \in 1..MaxOpen :
       [slot |-> c, n |-> n] \in Worker /\ [slot |-> c, n |-> n] # None
  /\ \A w \in Worker : w.slot \in Slot /\ w.n \in 1..MaxOpen
                       /\ w = [slot |-> w.slot, n |-> w.n]
BY ConstantsAssumption DEF Worker, Slot, Floor

LEMMA ClosedRow == Closed \in Row /\ Closed.kind = "closed" /\ Closed.born = 0
BY ConstantsAssumption DEF Closed, Row

-----------------------------------------------------------------------------
LEMMA InitInv == Init => Inv
<1> SUFFICES ASSUME Init PROVE Inv
  OBVIOUS
<1>1. TypeOK
  BY ConstantsAssumption, ClosedRow DEF Init, TypeOK, Pc, Operation, Floor
<1>2. \A c \in Slot : ~IsAi(c) /\ row[c].born = 0 /\ registry[c] = None /\ lease[c] = None
  BY ClosedRow DEF Init, IsAi
<1>3. FreshInv /\ MatchInv /\ LeaseOfOwnRow /\ AcyclicInv
  BY <1>2, ConstantsAssumption
     DEF Init, FreshInv, MatchInv, OwnWorker, LeaseOfOwnRow, AcyclicInv
<1>4. NoRunaway /\ EveryTaskTracked
  BY DEF Init, NoRunaway, EveryTaskTracked
<1>5. ASSUME NEW t \in Task PROVE Sound(t)
  <2>1. PlaceOf(t) /\ Owns(t) /\ Checked(t)
    BY DEF Init, PlaceOf, Owns, Exclusive, Checked, Located, Closing, Draining
  <2>2. Stops(t) /\ Cascades(t)
    BY DEF Init, Stops, Cascades
  <2> QED
    BY <2>1, <2>2 DEF Sound
<1> QED
  BY <1>1, <1>3, <1>4, <1>5 DEF Inv, GlobalInv

-----------------------------------------------------------------------------
(* What a step of p leaves to the others: their places, local variables    *)
(* and locks; the rows and the workers they rely on.  A step that is no    *)
(* coroutine's is one of None.                                             *)
Apart(p) ==
  \A q \in Task \ {p} :
    /\ pc'[q] = pc[q] /\ op'[q] = op[q] /\ ch'[q] = ch[q] /\ src'[q] = src[q]
    /\ mine'[q] = mine[q] /\ wave'[q] = wave[q] /\ cand'[q] = cand[q]
    /\ next'[q] = next[q] /\ seen'[q] = seen[q] /\ batch'[q] = batch[q]
    /\ rotationLock = q => rotationLock' = q
    /\ \A c \in Slot : channelLock[c] = q => channelLock'[c] = q

FreeTo(p, c) == \A q \in Task \ {p} : channelLock[c] # q
FreeOfRotation(p) == \A q \in Task \ {p} : rotationLock # q

RowStep(p) ==
  \A c \in Slot :
    \/ row'[c] = row[c]
    \/ row'[c].kind = "human" /\ ~IsOpen(c)
    \/ row'[c].kind = "closed" /\ (IsAi(c) \/ FreeTo(p, c))
    \/ FreeOfRotation(p) /\ FreeTo(p, c)
RegistryStep(p) ==
  \A c \in Slot : \/ registry'[c] \in {registry[c], None}
                  \/ FreeOfRotation(p) /\ FreeTo(p, c)
TellStep == \A w \in Worker : w.n <= opened /\ Told(w) => Told(w)'

LEMMA OthersStaySound ==
  ASSUME Inv, NEW p, Apart(p), RowStep(p), RegistryStep(p), TellStep,
         NEW q \in Task \ {p}
  PROVE  Sound(q)'
<1>1. /\ pc'[q] = pc[q] /\ op'[q] = op[q] /\ ch'[q] = ch[q] /\ src'[q] = src[q]
      /\ mine'[q] = mine[q] /\ wave'[q] = wave[q] /\ cand'[q] = cand[q]
      /\ next'[q] = next[q] /\ seen'[q] = seen[q] /\ batch'[q] = batch[q]
      /\ rotationLock = q => rotationLock' = q
      /\ \A c \in Slot : channelLock[c] = q => channelLock'[c] = q
  BY DEF Apart
<1>2. Sound(q) /\ q \in Task
  BY DEF Inv
<1>3. /\ pc[q] \in Pc /\ mine[q] \in Worker \cup {None} /\ batch[q] \subseteq Worker
      /\ wave[q] \subseteq Slot /\ seen[q] \subseteq Slot
  BY <1>2 DEF Inv, TypeOK
<1>4. PlaceOf(q)'
  BY <1>1, <1>2 DEF Sound, PlaceOf
<1>5. Owns(q)'
  BY <1>1, <1>2 DEF Sound, PlaceOf, Owns, Exclusive, Located, Closing
<1>6. rotationLock = q => \A d \in Slot : IsAi(d)' => row'[d] = row[d] /\ IsAi(d)
  BY DEF RowStep, FreeOfRotation, IsAi
<1>7. Checked(q)'
  <2>1. ASSUME pc[q] = "ensure", SourceCycle(ch[q], src[q])'
        PROVE  FALSE
    <3>1. rotationLock = q /\ op[q] = "create"
      BY <1>2, <2>1 DEF Sound, PlaceOf, Owns, Exclusive
    <3>2. PICK W \in SUBSET Slot :
            src[q] \in W /\ \A d \in W \ {ch[q]} : IsAi(d)' /\ row'[d].source \in W
      BY <1>1, <2>1 DEF SourceCycle
    <3>3. \A d \in W \ {ch[q]} : IsAi(d) /\ row[d].source \in W
      BY <1>6, <3>1, <3>2
    <3> QED
      BY <1>2, <2>1, <3>2, <3>3 DEF Sound, Checked, SourceCycle
  <2>2. pc[q] = "removeHuman" => row'[ch[q]].kind = "human"
    BY <1>2 DEF Sound, PlaceOf, Owns, Checked, RowStep, FreeTo, IsAi, IsOpen, Located
  <2> QED
    BY <1>1, <2>1, <2>2 DEF Checked
<1>8. Stops(q)'
  <2>1. pc[q] \in Closing => ch[q] \in Slot /\ registry'[ch[q]] \in {registry[ch[q]], None}
    BY <1>2 DEF Sound, PlaceOf, Owns, RegistryStep, FreeTo, Located, Closing
  <2>2. pc[q] \in Draining => \A c \in Slot : registry'[c] \in {registry[c], None}
    BY <1>2 DEF Sound, PlaceOf, Owns, Exclusive, RegistryStep, FreeOfRotation, Draining
  <2>3. \A w \in Worker : w = mine[q] \/ w \in batch[q] => (Told(w) => Told(w)')
    BY <1>2, NullFacts DEF TellStep, Inv, GlobalInv, FreshInv
  <2>4. mine'[q] # None => mine'[q] \in Worker /\ mine'[q] = mine[q]
    BY <1>1, <1>3
  <2>5. mine[q] # None /\ Told(mine[q]) => Told(mine[q])'
    BY <1>1, <2>3, <2>4 DEF Told
  <2> QED
    BY <1>1, <1>2, <1>3, <2>1, <2>2, <2>3, <2>5 DEF Sound, Stops, Closing, Draining
<1>9. Cascades(q)'
  <2> SUFFICES ASSUME op[q] \in {"delete", "close"}
               PROVE  Cascades(q)'
    BY <1>1 DEF Cascades
  <2>1. rotationLock = q
    BY <1>2 DEF Sound, Owns, Exclusive
  <2> QED
    BY <1>1, <1>2, <1>3, <1>6, <2>1 DEF Sound, Cascades, Examined
<1> QED
  BY <1>4, <1>5, <1>7, <1>8, <1>9 DEF Sound

LEMMA StepKeepsSound ==
  ASSUME Inv, NEW p, Apart(p), RowStep(p), RegistryStep(p), TellStep,
         p \in Task => Sound(p)'
  PROVE  \A t \in Task : Sound(t)'
BY OthersStaySound

-----------------------------------------------------------------------------
(* Steps that leave rows, registry, leaked and running workers alone: they *)
(* may tell workers to stop and release leases, and if they are a          *)
(* coroutine's it neither was nor is done with a worker.                   *)
Quiet(p) ==
  /\ UNCHANGED <<row, opened, registry, leaked>>
  /\ DOMAIN run' = DOMAIN run
  /\ stopped \subseteq stopped'
  /\ \A c \in Slot : lease'[c] \in {lease[c], None}
  /\ p \in Task => /\ pc[p] \notin Closing \cup Draining
                   /\ batch[p] \subseteq batch'[p]
                   /\ mine'[p] # None => mine'[p].n <= opened
                   /\ \A w \in batch'[p] : w.n <= opened

LEMMA QuietKeepsInv ==
  ASSUME Inv, NEW p, Apart(p), Quiet(p), TypeOK', p \in Task => Sound(p)'
  PROVE  Inv'
<1>1. /\ UNCHANGED <<row, opened, registry, leaked>>
      /\ DOMAIN run' = DOMAIN run
      /\ stopped \subseteq stopped'
      /\ \A c \in Slot : lease'[c] \in {lease[c], None}
  BY DEF Quiet
<1>2. \A t \in Task : Sound(t)'
  <2>1. RowStep(p) /\ RegistryStep(p) /\ TellStep
    BY <1>1 DEF RowStep, RegistryStep, TellStep, Told
  <2> QED
    BY <2>1, StepKeepsSound
<1>3. \A c \in Slot : IsAi(c)' = IsAi(c) /\ OwnWorker(c)' = OwnWorker(c)
  BY <1>1 DEF IsAi, OwnWorker
<1>4. FreshInv'
  BY <1>1, <1>3 DEF Apart, Quiet, Inv, GlobalInv, FreshInv
<1>5. NoRunaway' /\ LeaseOfOwnRow' /\ AcyclicInv'
  BY <1>1, <1>3 DEF Inv, GlobalInv, NoRunaway, LeaseOfOwnRow, AcyclicInv
<1>6. EveryTaskTracked'
  BY <1>1 DEF Apart, Quiet, Inv, GlobalInv, EveryTaskTracked, Closing
<1>7. MatchInv'
  <2>1. ASSUME NEW c \in Slot, Settled(c)'
        PROVE  Settled(c)
    BY <2>1 DEF Settled, Apart, Quiet
  <2> QED
    BY <1>1, <1>3, <2>1 DEF Inv, GlobalInv, MatchInv
<1> QED
  BY <1>2, <1>4, <1>5, <1>6, <1>7 DEF Inv, GlobalInv

(* A coroutine that has ended is nowhere and owns nothing.                 *)
LEMMA FinishKeeps ==
  ASSUME Inv, NEW p \in Task, Finish(p)
  PROVE  /\ ControlType' /\ Apart(p) /\ Sound(p)'
         /\ pc'[p] = "idle" /\ mine'[p] = None /\ batch'[p] = {}
<1>1. ControlType
  BY TypeParts DEF Inv
<1>2. ControlType'
  BY <1>1, ConstantsAssumption
     DEF ControlType, Finish, Forget, ForgetWorker, Unlocked, Pc, Operation
<1>3. Apart(p)
  BY <1>1, NullFacts DEF ControlType, Apart, Finish, Forget, ForgetWorker, Unlocked
<1>4. /\ pc'[p] = "idle" /\ op'[p] = "none" /\ mine'[p] = None /\ batch'[p] = {}
      /\ wave'[p] = {} /\ next'[p] = {} /\ seen'[p] = {} /\ cand'[p] = {}
  BY <1>1 DEF ControlType, Finish, Forget, ForgetWorker
<1>5. Sound(p)'
  <2>1. PlaceOf(p)' /\ Owns(p)' /\ Checked(p)'
    BY <1>4 DEF PlaceOf, Owns, Exclusive, Checked, Located, Closing, Draining
  <2>2. Stops(p)' /\ Cascades(p)'
    BY <1>4 DEF Stops, Cascades
  <2> QED
    BY <2>1, <2>2 DEF Sound
<1> QED
  BY <1>2, <1>3, <1>4, <1>5

(* Ends that change nothing else. *)
LEMMA EndKeepsInv ==
  ASSUME Inv, NEW p \in Task, Finish(p), pc[p] \notin Closing \cup Draining,
         UNCHANGED <<table, manager, run, stopped, faults>>, ready' \subseteq Worker
  PROVE  Inv'
<1>1. /\ ControlType' /\ Apart(p) /\ Sound(p)'
      /\ pc'[p] = "idle" /\ mine'[p] = None /\ batch'[p] = {}
  BY FinishKeeps
<1>2. TypeOK'
  <2>1. StoreType'
    BY TypeParts DEF Inv, StoreType, table, manager
  <2> QED
    BY <1>1, <2>1, TypeParts DEF TypeOK, ControlType, StoreType
<1>3. batch[p] = {}
  BY DEF Inv, Sound, PlaceOf
<1>4. Quiet(p)
  BY <1>1, <1>3 DEF Quiet, table, manager
<1> QED
  BY <1>1, <1>2, <1>4, QuietKeepsInv

LEMMA EndsKeepInv ==
  ASSUME Inv, NEW t \in Task,
         \/ RefuseSource(t) \/ CreateFails(t) \/ Created(t) \/ RollbackSkipped(t)
         \/ NotFound(t) \/ SweepEnds(t) \/ RoomsFail(t)
  PROVE  Inv'
<1>1. Finish(t) /\ UNCHANGED <<table, manager, run, stopped, faults>>
  BY
     DEF RefuseSource, CreateFails, Created, RollbackSkipped, NotFound, SweepEnds, RoomsFail, tasks
<1>2. pc[t] \notin Closing \cup Draining
  BY
     DEF RefuseSource, CreateFails, Created, RollbackSkipped, NotFound, SweepEnds, RoomsFail,
         Closing, Draining
<1>3. ready' \subseteq Worker
  BY
     DEF RefuseSource, CreateFails, Created, RollbackSkipped, NotFound, SweepEnds, RoomsFail,
         tasks, Inv, TypeOK
<1> QED
  BY <1>1, <1>2, <1>3, EndKeepsInv

-----------------------------------------------------------------------------
(* Steps of a coroutine that goes on. *)

LEMMA RequestKeepsInv ==
  ASSUME Inv, NEW t \in Task, NEW o \in Operation \ {"sweep", "none"}, NEW c \in Slot \cup {Floor},
         NEW s \in Slot \cup {Floor}, o # "rotate" => c \in Slot, Request(t, o, c, s)
  PROVE  Inv'
<1>1. /\ pc[t] = "idle" /\ rotationLock = None /\ rotationLock' = t
      /\ pc' = [pc EXCEPT ![t] = IF o = "rotate" THEN "rooms" ELSE "lock"]
      /\ op' = [op EXCEPT ![t] = o]
      /\ ch' = [ch EXCEPT ![t] = c] /\ src' = [src EXCEPT ![t] = s]
      /\ UNCHANGED <<table, manager, tasks, channelLock, local, faults>>
  BY DEF Request
<1>2. TypeOK'
  BY <1>1 DEF Inv, TypeOK, table, manager, tasks, local, cascade, Pc
<1>3. Apart(t)
  BY <1>1, NullFacts DEF Inv, TypeOK, Apart, local, cascade
<1>4. Sound(t) /\ batch[t] = {} /\ wave[t] = {}
  BY <1>1 DEF Inv, Sound, PlaceOf, Closing, Draining
<1>5. Quiet(t)
  BY <1>1, <1>4 DEF Quiet, table, manager, tasks, local, cascade, Inv, GlobalInv, FreshInv,
                    Closing, Draining
<1>6. /\ pc'[t] \in {"rooms", "lock"} /\ (pc'[t] = "rooms" <=> o = "rotate") /\ op'[t] = o
      /\ ch'[t] = c
      /\ UNCHANGED <<row, registry, run, stopped, mine, wave, next, seen, cand, batch>>
  BY <1>1 DEF table, manager, tasks, local, cascade, Inv, TypeOK
<1>7. Sound(t)'
  <2>1. PlaceOf(t)' /\ Owns(t)' /\ Checked(t)'
    BY <1>1, <1>4, <1>6
       DEF Sound, PlaceOf, Owns, Exclusive, Checked, Located, Closing, Draining,
                            Operation
  <2>2. Stops(t)' /\ Cascades(t)'
    BY <1>4, <1>6 DEF Sound, PlaceOf, Stops, Cascades, Examined
  <2> QED
    BY <2>1, <2>2 DEF Sound
<1> QED
  BY <1>2, <1>3, <1>5, <1>7, QuietKeepsInv

LEMMA StartSweepKeepsInv ==
  ASSUME Inv, NEW t \in Task, StartSweep(t)
  PROVE  Inv'
<1>1. /\ pc[t] = "idle" /\ pc' = [pc EXCEPT ![t] = "sweep"] /\ op' = [op EXCEPT ![t] = "sweep"]
      /\ todo' = [todo EXCEPT ![t] = {d \in Slot : IsAi(d)}]
      /\ UNCHANGED <<ch, src, table, manager, tasks, locks, mine, seenLease, cascade, batch,
                     born, faults>>
  BY DEF StartSweep
<1>2. TypeOK'
  BY <1>1 DEF Inv, TypeOK, table, manager, tasks, locks, cascade, Pc, Operation
<1>3. Apart(t)
  BY <1>1 DEF Inv, TypeOK, Apart, locks, cascade
<1>4. Sound(t) /\ batch[t] = {} /\ wave[t] = {}
  BY <1>1 DEF Inv, Sound, PlaceOf, Closing, Draining
<1>5. Quiet(t)
  BY <1>1, <1>4
     DEF Quiet, table, manager, tasks, Inv, GlobalInv, FreshInv, Closing, Draining
<1>6. /\ pc'[t] = "sweep" /\ op'[t] = "sweep"
      /\ UNCHANGED <<ch, row, registry, run, stopped, mine, wave, next, seen, cand, batch>>
  BY <1>1 DEF table, manager, tasks, cascade, Inv, TypeOK
<1>7. Sound(t)'
  BY <1>4, <1>6
     DEF Sound, PlaceOf, Owns, Exclusive, Checked, Stops, Cascades, Located, Closing,
                    Draining
<1> QED
  BY <1>2, <1>3, <1>5, <1>7, QuietKeepsInv

LEMMA AcceptSourceKeepsInv ==
  ASSUME Inv, NEW t \in Task, AcceptSource(t)
  PROVE  Inv'
<1>1. /\ pc[t] = "lock" /\ op[t] = "create" /\ channelLock[ch[t]] = None
      /\ ~SourceCycle(ch[t], src[t])
      /\ channelLock' = [channelLock EXCEPT ![ch[t]] = t]
      /\ pc' = [pc EXCEPT ![t] = "ensure"]
      /\ UNCHANGED <<op, ch, src, table, manager, tasks, rotationLock, local, faults>>
  BY DEF AcceptSource, SourceAccepted, ChannelLockFree, Goto
<1>2. Sound(t) /\ ch[t] \in Slot /\ batch[t] = {} /\ wave[t] = {}
  BY <1>1 DEF Inv, Sound, PlaceOf, Located, Closing, Draining
<1>3. TypeOK'
  BY <1>1, <1>2 DEF Inv, TypeOK, table, manager, tasks, local, cascade, Pc
<1>4. Apart(t)
  BY <1>1, <1>2, NullFacts DEF Inv, TypeOK, Apart, local, cascade
<1>5. Quiet(t)
  BY <1>1, <1>2 DEF Quiet, table, manager, tasks, local, cascade, Inv, GlobalInv, FreshInv,
                    Closing, Draining
<1>6. /\ pc'[t] = "ensure" /\ channelLock'[ch[t]] = t
      /\ UNCHANGED <<op, ch, src, row, registry, run, stopped, mine, wave, next, seen, cand,
                     batch, rotationLock>>
  BY <1>1, <1>2 DEF table, manager, tasks, local, cascade, Inv, TypeOK
<1>7. SourceCycle(ch[t], src[t])' = SourceCycle(ch[t], src[t])
  BY <1>6 DEF SourceCycle, IsAi
<1>8. Sound(t)'
  <2>1. Checked(t)'
    BY <1>1, <1>6, <1>7 DEF Checked
  <2>2. PlaceOf(t)' /\ Owns(t)'
    BY <1>1, <1>2, <1>6 DEF Sound, PlaceOf, Owns, Exclusive, Located, Closing, Draining
  <2>3. Stops(t)' /\ Cascades(t)'
    BY <1>1, <1>2, <1>6 DEF Sound, PlaceOf, Stops, Cascades
  <2> QED
    BY <2>1, <2>2, <2>3 DEF Sound
<1> QED
  BY <1>3, <1>4, <1>5, <1>8, QuietKeepsInv



(* Steps that only go elsewhere. *)
LEMMA MovesKeepInv ==
  ASSUME Inv, NEW t \in Task,
         \/ ReadyTimeout(t) \/ RotateCommit(t) \/ \E c \in todo[t] : SweepNext(t, c)
         \/ SweepLocked(t) /\ ~IsAi(ch[t])
  PROVE  Inv'
<1>1. /\ pc[t] \in {"ready", "rooms", "sweep", "lock"}
      /\ UNCHANGED <<op, src, row, opened, manager, tasks, locks, mine, seenLease, cascade, batch,
                     born, faults>>
  BY DEF ReadyTimeout, RotateCommit, SweepNext, SweepLocked, Goto, table, local, tasks
<1>2. Sound(t) /\ batch[t] = {} /\ wave[t] = {}
  BY <1>1 DEF Inv, Sound, PlaceOf, Closing, Draining
<1>3. TypeOK'
  <2>1. CASE ReadyTimeout(t)
    BY <1>1, <2>1
       DEF ReadyTimeout, Goto, Inv, TypeOK, table, manager, tasks, locks, local, cascade, Pc
  <2>2. CASE RotateCommit(t)
    BY <1>1, <2>2
       DEF RotateCommit, Goto, Inv, TypeOK, manager, tasks, locks, local, cascade, Pc
  <2>3. CASE \E c \in todo[t] : SweepNext(t, c)
    BY <1>1, <2>3 DEF SweepNext, Inv, TypeOK, table, manager, tasks, locks, cascade, Pc
  <2>4. CASE SweepLocked(t) /\ ~IsAi(ch[t])
    BY <1>1, <2>4
       DEF SweepLocked, Goto, Inv, TypeOK, table, manager, tasks, locks, cascade, Pc
  <2> QED
    BY <2>1, <2>2, <2>3, <2>4
<1>4. /\ \A q \in Task \ {t} : pc'[q] = pc[q] /\ ch'[q] = ch[q]
      /\ \A c \in Slot : lease'[c] \in {lease[c], None}
      /\ \/ pc[t] = "ready" /\ pc'[t] = "rollback" /\ ch'[t] = ch[t]
         \/ pc[t] = "rooms" /\ pc'[t] = "stopAll" /\ ch'[t] = ch[t]
         \/ pc[t] = "sweep" /\ pc'[t] = "lock" /\ ch'[t] \in Slot
         \/ pc[t] = "lock" /\ op[t] = "sweep" /\ pc'[t] = "sweep" /\ ch'[t] = ch[t]
  BY DEF ReadyTimeout, RotateCommit, SweepNext, SweepLocked, Goto, table, Inv, TypeOK
<1>5. Apart(t)
  BY <1>1, <1>4 DEF Apart, locks, cascade
<1>6. Quiet(t)
  BY <1>1, <1>2, <1>4 DEF Quiet, manager, tasks, Inv, GlobalInv, FreshInv, Closing, Draining
<1>7. Sound(t)'
  <2>1. PlaceOf(t)' /\ Owns(t)'
    BY <1>1, <1>2, <1>4
       DEF Sound, PlaceOf, Owns, Exclusive, Located, Closing, Draining, locks, cascade
  <2>2. Checked(t)' /\ Stops(t)' /\ Cascades(t)'
    BY <1>1, <1>2, <1>4 DEF Sound, PlaceOf, Checked, Stops, Cascades, cascade
  <2> QED
    BY <2>1, <2>2 DEF Sound
<1> QED
  BY <1>3, <1>5, <1>6, <1>7, QuietKeepsInv

(* Its worker is told to stop: the slot is in the hands of p until it is   *)
(* closed.                                                                 *)
LEMMA BeginStopKeepsInv ==
  ASSUME Inv, NEW t \in Task, NEW c \in Slot, channelLock[c] = None, BeginStop(t, c),
         pc[t] \in {"rollback", "lock", "cascade"}, op[t] \in {"create", "delete", "close", "sweep"},
         pc[t] = "lock" => op[t] # "create",
         pc[t] = "cascade" => row[c].source \in wave[t],
         pc[t] = "cascade" => cand' = [cand EXCEPT ![t] = @ \ {c}],
         pc[t] # "cascade" => UNCHANGED cand,
         UNCHANGED <<table, manager, run, ready, todo, wave, next, seen, batch, faults>>
  PROVE  Inv'
<1>1. /\ channelLock' = [channelLock EXCEPT ![c] = t]
      /\ mine' = [mine EXCEPT ![t] = registry[c]]
      /\ born' = [born EXCEPT ![t] = row[c].born]
      /\ stopped' = stopped \cup {w \in {registry[c]} : Alive(w)}
      /\ ch' = [ch EXCEPT ![t] = c] /\ pc' = [pc EXCEPT ![t] = "stop"]
      /\ UNCHANGED <<op, src, rotationLock>>
  BY DEF BeginStop, Cancel
<1>2. Sound(t) /\ batch[t] = {} /\ (pc[t] # "cascade" => wave[t] = {} /\ cand[t] = {})
  BY DEF Inv, Sound, PlaceOf, Closing, Draining
<1>3. TypeOK'
  <2>1. row[c].born \in 0..MaxOpen
    BY DEF Inv, TypeOK, Row
  <2>2. seenLease' \in [Task -> Worker \cup {None}]
    BY DEF BeginStop, Inv, TypeOK
  <2>3. born' \in [Task -> 0..MaxOpen] /\ pc' \in [Task -> Pc]
    BY <1>1, <2>1 DEF Inv, TypeOK, Pc
  <2>5. cand' \in [Task -> SUBSET Slot]
    <3>1. cand \in [Task -> SUBSET Slot] /\ cand[t] \ {c} \in SUBSET Slot
      BY DEF Inv, TypeOK
    <3> QED
      BY <3>1
  <2>4. stopped' \subseteq DOMAIN run
    BY <1>1 DEF Inv, TypeOK, Alive
  <2> QED
    BY <1>1, <2>2, <2>3, <2>4, <2>5 DEF Inv, TypeOK, table, manager
<1>4. Apart(t)
  BY <1>1, NullFacts DEF Apart, Inv, TypeOK
<1>5. Quiet(t)
  BY <1>1, <1>2
     DEF Quiet, table, manager, Inv, TypeOK, GlobalInv, FreshInv, Closing, Draining
<1>6. /\ pc'[t] = "stop" /\ ch'[t] = c /\ mine'[t] = registry[c] /\ op'[t] = op[t]
      /\ channelLock'[c] = t /\ rotationLock' = rotationLock
      /\ cand'[t] = IF pc[t] = "cascade" THEN cand[t] \ {c} ELSE {}
      /\ UNCHANGED <<row, registry, run, wave, next, seen, batch>>
      /\ registry[c] # None => Told(registry[c])'
  BY <1>1, <1>2 DEF table, manager, Inv, TypeOK, Told, Alive
<1>7. Sound(t)'
  <2>1. PlaceOf(t)'
    BY <1>2, <1>6 DEF Sound, PlaceOf, Located, Closing, Draining, Inv, GlobalInv, FreshInv
  <2>2. Owns(t)' /\ Checked(t)'
    BY <1>2, <1>6 DEF Sound, Owns, Exclusive, Checked
  <2>3. Stops(t)'
    BY <1>2, <1>6 DEF Stops, Told
  <2>4. Cascades(t)'
    BY <1>2, <1>6 DEF Sound, PlaceOf, Cascades, Examined, Closing, IsAi
  <2> QED
    BY <2>1, <2>2, <2>3, <2>4 DEF Sound
<1> QED
  BY <1>3, <1>4, <1>5, <1>7, QuietKeepsInv

(* There is a least candidate. *)
LEMMA LeastIsIn ==
  ASSUME NEW S \in SUBSET Slot, S # {}
  PROVE  Least(S) \in S
<1>1. PICK c \in S : \A d \in S : <<d, c>> \notin OpToRel(<, Nat)
  BY NullFacts, NatLessThanWellFounded, WFMin, Zenon
<1>2. ASSUME NEW d \in S
      PROVE  c <= d
  <2>1. c \in Nat /\ d \in Nat
    BY NullFacts
  <2>2. ~(d < c)
    BY <1>1, <2>1 DEF OpToRel
  <2> QED
    BY <2>1, <2>2
<1> QED
  BY <1>2 DEF Least

LEMMA StopsBeginKeepInv ==
  ASSUME Inv, NEW t \in Task,
         \/ Rollback(t) \/ Delete(t) \/ CascadeStop(t)
         \/ SweepLocked(t) /\ IsAi(ch[t])
  PROVE  Inv'
<1>1. Sound(t)
  BY DEF Inv
<1>2. CASE Rollback(t)
  BY <1>1, <1>2, BeginStopKeepsInv
     DEF Rollback, ChannelLockFree, Sound, PlaceOf, Located, cascade
<1>3. CASE Delete(t)
  BY <1>1, <1>3, BeginStopKeepsInv
     DEF Delete, ChannelLockFree, Sound, PlaceOf, Located, cascade
<1>4. CASE SweepLocked(t) /\ IsAi(ch[t])
  BY <1>1, <1>4, BeginStopKeepsInv
     DEF SweepLocked, ChannelLockFree, Sound, PlaceOf, Located, cascade
<1>5. CASE CascadeStop(t)
  <2> DEFINE c == NextCandidate(t)
  <2>1. c \in Slot /\ pc[t] = "cascade" /\ channelLock[c] = None
    BY <1>1, <1>5, LeastIsIn
       DEF CascadeStop, CandidateReady, NextCandidate, Sound, PlaceOf, Inv, TypeOK
  <2>2. op[t] \in {"create", "delete", "close", "sweep"}
    BY <1>1, <2>1 DEF Sound, PlaceOf, Inv, TypeOK, Operation, Draining
  <2>3. /\ BeginStop(t, c) /\ row[c].source \in wave[t] /\ cand' = [cand EXCEPT ![t] = @ \ {c}]
        /\ UNCHANGED <<table, manager, run, ready, todo, wave, next, seen, batch, faults>>
    BY <1>5 DEF CascadeStop, Depends
  <2> HIDE DEF c
  <2> QED
    BY <2>1, <2>2, <2>3, BeginStopKeepsInv
<1> QED
  BY <1>2, <1>3, <1>4, <1>5

LEMMA StopAllKeepsInv ==
  ASSUME Inv, NEW t \in Task, StopAll(t)
  PROVE  Inv'
<1> DEFINE all == {registry[c] : c \in Slot} \ {None}
<1>1. /\ pc[t] = "stopAll" /\ batch' = [batch EXCEPT ![t] = all]
      /\ stopped' = stopped \cup {w \in all : Alive(w)}
      /\ pc' = [pc EXCEPT ![t] = "stopping"]
      /\ UNCHANGED <<op, ch, src, table, manager, run, ready, locks, mine, seenLease, todo,
                     cascade, born, faults>>
  BY DEF StopAll, Cancel, Goto
<1>2. /\ all \subseteq Worker /\ \A c \in Slot : registry[c] # None => registry[c] \in all
      /\ \A w \in all : w.n <= opened
  BY DEF Inv, TypeOK, GlobalInv, FreshInv
<1> HIDE DEF all
<1>3. Sound(t) /\ batch[t] = {} /\ wave[t] = {} /\ op[t] = "rotate"
  BY <1>1 DEF Inv, Sound, PlaceOf, Closing, Draining
<1>4. TypeOK'
  BY <1>1, <1>2 DEF Inv, TypeOK, table, manager, locks, cascade, Pc, Alive
<1>5. Apart(t)
  BY <1>1 DEF Apart, Inv, TypeOK, locks, cascade
<1>6. Quiet(t)
  BY <1>1, <1>2, <1>3
     DEF Quiet, table, manager, Inv, TypeOK, GlobalInv, FreshInv, Closing, Draining
<1>7. /\ pc'[t] = "stopping" /\ batch'[t] = all
      /\ UNCHANGED <<op, ch, registry, run, mine, wave, next, seen, cand, rotationLock>>
      /\ \A w \in all : Told(w)'
  BY <1>1 DEF table, manager, locks, cascade, Inv, TypeOK, Told, Alive
<1>8. Sound(t)'
  <2>1. PlaceOf(t)' /\ Owns(t)' /\ Checked(t)'
    BY <1>3, <1>7 DEF Sound, PlaceOf, Owns, Exclusive, Checked, Located, Closing, Draining
  <2>2. Stops(t)' /\ Cascades(t)'
    BY <1>2, <1>3, <1>7 DEF Stops, Cascades, Told
  <2> QED
    BY <2>1, <2>2 DEF Sound
<1> QED
  BY <1>4, <1>5, <1>6, <1>8, QuietKeepsInv

-----------------------------------------------------------------------------
(* People, webhooks and workers. *)

LEMMA OutsideIsApart ==
  ASSUME UNCHANGED <<locks, place, local>>
  PROVE  Apart(None)
BY DEF Apart, locks, place, local, cascade

LEMMA QuietOutside ==
  ASSUME Inv,
         \/ \E c \in Slot : LeaseReleased(c)
         \/ \E w \in DOMAIN run : Connect(w) \/ Crash(w)
  PROVE  Inv'
<1>1. /\ UNCHANGED <<row, opened, registry, leaked, stopped, locks, place, local>>
      /\ DOMAIN run' = DOMAIN run
      /\ \A c \in Slot : lease'[c] \in {lease[c], None}
  BY DEF LeaseReleased, Connect, Crash, Others, table, manager, tasks, Inv, TypeOK
<1>2. TypeOK'
  <2>1. StoreType'
    <3>1. CASE \E c \in Slot : LeaseReleased(c)
      BY <3>1, ConstantsAssumption
         DEF LeaseReleased, Fault, Others, tasks, manager, Inv, TypeOK, StoreType
    <3>2. CASE \E w \in DOMAIN run : Connect(w)
      BY <3>2 DEF Connect, Others, table, manager, Inv, TypeOK, StoreType
    <3>3. CASE \E w \in DOMAIN run : Crash(w)
      BY <3>3, ConstantsAssumption
         DEF Crash, Fault, Others, table, manager, Inv, TypeOK, StoreType, RunState
    <3> QED
      BY <3>1, <3>2, <3>3
  <2>2. ControlType'
    BY <1>1 DEF Inv, TypeOK, ControlType, locks, place, local, cascade
  <2> QED
    BY <2>1, <2>2 DEF TypeOK, StoreType, ControlType
<1>3. Apart(None) /\ Quiet(None)
  BY <1>1, OutsideIsApart, NullFacts DEF Quiet
<1> QED
  BY <1>2, <1>3, QuietKeepsInv, NullFacts

(* A person takes a slot that is closed: no worker is registered for it.   *)
LEMMA OpenHumanKeepsInv ==
  ASSUME Inv, NEW c \in Slot, OpenHuman(c)
  PROVE  Inv'
<1> DEFINE new == [kind |-> "human", born |-> opened + 1, source |-> Floor]
<1>1. /\ ~IsOpen(c) /\ opened < MaxOpen /\ opened' = opened + 1
      /\ row' = [row EXCEPT ![c] = new]
      /\ UNCHANGED <<lease, manager, tasks, locks, place, local, faults>>
  BY DEF OpenHuman
<1>2. opened' \in 0..MaxOpen /\ new \in Row /\ new.kind = "human" /\ new.born = opened'
  BY <1>1, ConstantsAssumption DEF Inv, TypeOK, Row, Floor
<1> HIDE DEF new
<1>3. TypeOK'
  BY <1>1, <1>2 DEF Inv, TypeOK, manager, tasks, locks, place, local, cascade
<1>4. \A d \in Slot : /\ IsAi(d)' <=> IsAi(d)
                      /\ IsAi(d) => row'[d] = row[d]
                      /\ OwnWorker(d)' = OwnWorker(d)
  BY <1>1, <1>2 DEF IsAi, IsOpen, OwnWorker, Inv, TypeOK
<1>5. \A t \in Task : Sound(t)'
  <2>1. Apart(None)
    BY <1>1, OutsideIsApart
  <2>2. RowStep(None) /\ RegistryStep(None) /\ TellStep
    BY <1>1, <1>2
       DEF RowStep, RegistryStep, TellStep, Told, manager, tasks, IsOpen, Inv, TypeOK
  <2> QED
    BY <2>1, <2>2, StepKeepsSound, NullFacts
<1>6. FreshInv'
  <2>1. \A d \in Slot : row'[d].born <= opened' /\ (IsAi(d)' => row'[d].born >= 1)
    BY <1>1, <1>2, <1>4 DEF Inv, TypeOK, Row, GlobalInv, FreshInv
  <2>2. \A w \in Worker : w.n <= opened => w.n <= opened'
    BY <1>1, NullFacts DEF Inv, TypeOK
  <2> QED
    BY <1>1, <2>1, <2>2 DEF Inv, TypeOK, GlobalInv, FreshInv, manager, tasks, local
<1>7. NoRunaway' /\ EveryTaskTracked'
  BY <1>1 DEF Inv, GlobalInv, NoRunaway, EveryTaskTracked, manager, tasks, place, local
<1>8. MatchInv' /\ LeaseOfOwnRow' /\ AcyclicInv'
  <2>1. AcyclicInv'
    BY <1>4 DEF Inv, GlobalInv, AcyclicInv
  <2>2. MatchInv'
    BY <1>1, <1>4 DEF Inv, GlobalInv, MatchInv, Settled, manager, place
  <2>3. LeaseOfOwnRow'
    BY <1>1, <1>4 DEF Inv, GlobalInv, LeaseOfOwnRow
  <2> QED
    BY <2>1, <2>2, <2>3
<1> QED
  BY <1>3, <1>5, <1>6, <1>7, <1>8 DEF Inv, GlobalInv

(* A worker that was not told to stop is that of its slot's row, also when *)
(* the slot is just being closed.                                          *)
LEMMA UntoldIsOwn ==
  ASSUME Inv, NEW w \in DOMAIN run, w \notin stopped
  PROVE  registry[w.slot] = w /\ w = OwnWorker(w.slot)
<1>1. w \in Worker /\ w.slot \in Slot /\ w # None /\ registry[w.slot] = w /\ ~Told(w)
  BY NullFacts DEF Inv, TypeOK, GlobalInv, NoRunaway, Told
<1>2. Settled(w.slot)
  <2> SUFFICES ASSUME NEW t \in Task
               PROVE  (pc[t] \in Closing => ch[t] # w.slot) /\ pc[t] \notin Draining
    BY DEF Settled
  <2> QED
    BY <1>1 DEF Inv, Sound, Stops, Closing, Draining
<1> QED
  BY <1>1, <1>2 DEF Inv, GlobalInv, MatchInv

LEMMA RetryKeepsInv ==
  ASSUME Inv, NEW w \in DOMAIN run, Retry(w)
  PROVE  Inv'
<1>1. /\ w \notin stopped /\ IsAi(w.slot)
      /\ run' = [run EXCEPT ![w] = "running"] /\ lease' = [lease EXCEPT ![w.slot] = w]
      /\ UNCHANGED <<row, opened, stopped, ready, faults, manager, locks, place, local>>
  BY DEF Retry, MayRetry, Others
<1>2. w \in Worker /\ w.slot \in Slot /\ w = [slot |-> w.slot, n |-> row[w.slot].born]
  BY <1>1, UntoldIsOwn, NullFacts DEF OwnWorker, Inv, TypeOK
<1>3. TypeOK'
  BY <1>1, <1>2 DEF Inv, TypeOK, manager, locks, place, local, cascade, RunState
<1>4. DOMAIN run' = DOMAIN run
  BY <1>1
<1>5. \A t \in Task : Sound(t)'
  <2>1. Apart(None)
    BY <1>1, OutsideIsApart
  <2>2. RowStep(None) /\ RegistryStep(None) /\ TellStep
    BY <1>1, <1>4 DEF RowStep, RegistryStep, TellStep, Told, manager
  <2> QED
    BY <2>1, <2>2, StepKeepsSound, NullFacts
<1>6. FreshInv' /\ NoRunaway' /\ EveryTaskTracked' /\ AcyclicInv'
  <2>1. FreshInv'
    BY <1>1, <1>4 DEF Inv, GlobalInv, FreshInv, IsAi, manager, local
  <2>2. NoRunaway' /\ EveryTaskTracked'
    BY <1>1, <1>4 DEF Inv, GlobalInv, NoRunaway, EveryTaskTracked, manager, place, local
  <2>3. AcyclicInv'
    BY <1>1 DEF Inv, GlobalInv, AcyclicInv, IsAi
  <2> QED
    BY <2>1, <2>2, <2>3
<1>7. MatchInv'
  BY <1>1 DEF Inv, GlobalInv, MatchInv, Settled, OwnWorker, IsAi, manager, place
<1>8. LeaseOfOwnRow'
  BY <1>1, <1>2 DEF Inv, TypeOK, GlobalInv, LeaseOfOwnRow, IsAi
<1> QED
  BY <1>3, <1>5, <1>6, <1>7, <1>8 DEF Inv, GlobalInv

LEMMA EndOfTaskKeepsInv ==
  ASSUME Inv, NEW w \in DOMAIN run, End(w)
  PROVE  Inv'
<1>1. /\ w \in stopped /\ run' = [v \in DOMAIN run \ {w} |-> run[v]]
      /\ stopped' = stopped \ {w} /\ leaked' = leaked \ {w}
      /\ UNCHANGED <<table, ready, registry, locks, place, local, faults>>
  BY DEF End
<1>2. DOMAIN run' = DOMAIN run \ {w}
  BY <1>1
<1>3. TypeOK'
  <2>1. StoreType'
    BY <1>1 DEF Inv, TypeOK, StoreType, table
  <2>2. ControlType'
    BY <1>1 DEF Inv, TypeOK, ControlType, locks, place, local, cascade
  <2> QED
    BY <2>1, <2>2 DEF TypeOK, StoreType, ControlType
<1>4. \A t \in Task : Sound(t)'
  <2>1. Apart(None)
    BY <1>1, OutsideIsApart
  <2>2. RowStep(None) /\ RegistryStep(None) /\ TellStep
    BY <1>1, <1>2 DEF RowStep, RegistryStep, TellStep, Told, table
  <2> QED
    BY <2>1, <2>2, StepKeepsSound, NullFacts
<1>5. FreshInv'
  BY <1>1, <1>2 DEF Inv, GlobalInv, FreshInv, IsAi, table, local
<1>6. NoRunaway' /\ EveryTaskTracked'
  BY <1>1, <1>2 DEF Inv, GlobalInv, NoRunaway, EveryTaskTracked, place, local
<1>7. MatchInv' /\ LeaseOfOwnRow' /\ AcyclicInv'
  BY <1>1 DEF Inv, GlobalInv, MatchInv, LeaseOfOwnRow, AcyclicInv, Settled, OwnWorker, IsAi,
              table, place
<1> QED
  BY <1>3, <1>4, <1>5, <1>6, <1>7 DEF Inv, GlobalInv

-----------------------------------------------------------------------------
(* A new AI channel. *)

(* Who owns both locks of a slot, and is not closing it, finds workers and *)
(* rows in agreement there.                                                *)
LEMMA LockedIsSettled ==
  ASSUME Inv, NEW p \in Task, NEW c \in Slot, rotationLock = p, FreeTo(p, c),
         pc[p] \notin Closing \cup Draining
  PROVE  registry[c] = OwnWorker(c)
<1>1. ASSUME NEW t \in Task
      PROVE  (pc[t] \in Closing => ch[t] # c) /\ pc[t] \notin Draining
  BY DEF Inv, Sound, PlaceOf, Owns, Exclusive, Closing, Draining, FreeTo
<1> QED
  BY <1>1 DEF Settled, Inv, GlobalInv, MatchInv

LEMMA OpenAiKeepsInv ==
  ASSUME Inv, NEW t \in Task, OpenAi(t)
  PROVE  Inv'
<1> DEFINE c == ch[t]
           w == [slot |-> c, n |-> opened + 1]
           new == [kind |-> "ai", born |-> opened + 1, source |-> src[t]]
<1>1. /\ pc[t] = "ensure" /\ ~IsOpen(c) /\ opened < MaxOpen
      /\ row' = [row EXCEPT ![c] = new] /\ opened' = opened + 1
      /\ lease' = [lease EXCEPT ![c] = w] /\ registry' = [registry EXCEPT ![c] = w]
      /\ run' = [v \in DOMAIN run \cup {w} |-> IF v = w THEN "running" ELSE run[v]]
      /\ mine' = [mine EXCEPT ![t] = w]
      /\ pc' = [pc EXCEPT ![t] = "ready"] /\ src' = [src EXCEPT ![t] = Floor]
      /\ UNCHANGED <<op, ch, leaked, stopped, ready, seenLease, todo, cascade, batch, born, faults>>
  BY DEF OpenAi
<1>2. /\ rotationLock' = IF rotationLock = t THEN None ELSE rotationLock
      /\ channelLock' = [d \in Slot |-> IF channelLock[d] = t THEN None ELSE channelLock[d]]
  BY DEF OpenAi, Unlocked
<1>3. /\ Sound(t) /\ c \in Slot /\ op[t] = "create" /\ wave[t] = {} /\ batch[t] = {}
      /\ rotationLock = t /\ channelLock[c] = t /\ ~SourceCycle(c, src[t])
  BY <1>1 DEF Inv, Sound, PlaceOf, Owns, Exclusive, Checked, Located, Closing, Draining
<1>4. /\ opened' \in 1..MaxOpen /\ w \in Worker /\ w # None /\ w.slot = c /\ w.n = opened'
      /\ new \in Row /\ new.kind = "ai" /\ new.born = opened' /\ new.source = src[t]
      /\ w = [slot |-> c, n |-> new.born]
  BY <1>1, <1>3, NullFacts, ConstantsAssumption DEF Inv, TypeOK, Row
<1> HIDE DEF c, w, new
<1>5. TypeOK'
  <2>1. StoreType'
    BY <1>1, <1>3, <1>4 DEF Inv, TypeOK, StoreType, RunState
  <2>2. ControlType'
    BY <1>1, <1>2, <1>4 DEF Inv, TypeOK, ControlType, cascade, Pc
  <2> QED
    BY <2>1, <2>2 DEF TypeOK, StoreType, ControlType
<1>6. \A v \in Worker : v.n <= opened => v # w /\ v.n <= opened'
  BY <1>1, <1>4, NullFacts DEF Inv, TypeOK
<1>7. registry[c] = None
  <2>1. pc[t] \notin Closing \cup Draining /\ FreeTo(t, c)
    BY <1>1, <1>3 DEF Closing, Draining, FreeTo
  <2> QED
    BY <1>1, <1>3, <2>1, LockedIsSettled DEF OwnWorker, IsAi, IsOpen
<1>8. DOMAIN run' = DOMAIN run \cup {w}
  BY <1>1
<1>9. Apart(t)
  BY <1>1, <1>2 DEF Apart, Inv, TypeOK, cascade
<1>10. /\ pc'[t] = "ready" /\ mine'[t] = w
       /\ \A q \in Task \ {t} : pc'[q] = pc[q] /\ mine'[q] = mine[q]
       /\ UNCHANGED <<op, ch, wave, next, seen, cand, batch, stopped, leaked>>
       /\ \A d \in Slot : row'[d] = (IF d = c THEN new ELSE row[d])
                          /\ registry'[d] = (IF d = c THEN w ELSE registry[d])
                          /\ lease'[d] = (IF d = c THEN w ELSE lease[d])
  BY <1>1 DEF cascade, Inv, TypeOK
<1>11. \A q \in Task : Sound(q)'
  <2>1. RowStep(t) /\ RegistryStep(t)
    BY <1>3, <1>10 DEF RowStep, RegistryStep, FreeOfRotation, FreeTo
  <2>2. TellStep
    BY <1>6, <1>8, <1>10 DEF TellStep, Told
  <2>3. Sound(t)'
    <3>1. PlaceOf(t)' /\ Owns(t)' /\ Checked(t)'
      BY <1>3, <1>4, <1>10
         DEF Sound, PlaceOf, Owns, Exclusive, Checked, Located, Closing, Draining, c
    <3>2. Stops(t)' /\ Cascades(t)'
      BY <1>3, <1>10 DEF Stops, Cascades
    <3> QED
      BY <3>1, <3>2 DEF Sound
  <2> QED
    BY <1>9, <2>1, <2>2, <2>3, StepKeepsSound
<1>12. FreshInv'
  <2>1. \A d \in Slot : row'[d].born <= opened' /\ (IsAi(d)' => row'[d].born >= 1)
    BY <1>1, <1>4, <1>10 DEF Inv, TypeOK, Row, GlobalInv, FreshInv, IsAi
  <2>2. \A v \in DOMAIN run' : v.n <= opened'
    BY <1>4, <1>6, <1>8 DEF Inv, TypeOK, GlobalInv, FreshInv
  <2>3. \A d \in Slot : registry'[d] # None => registry'[d].slot = d /\ registry'[d].n <= opened'
    BY <1>4, <1>6, <1>10 DEF Inv, TypeOK, GlobalInv, FreshInv
  <2>4. \A q \in Task : mine'[q] # None => mine'[q].n <= opened'
    BY <1>4, <1>6, <1>10 DEF Inv, TypeOK, GlobalInv, FreshInv
  <2>5. \A q \in Task : \A v \in batch'[q] : v.n <= opened'
    BY <1>6, <1>10 DEF Inv, TypeOK, GlobalInv, FreshInv
  <2> QED
    BY <2>1, <2>2, <2>3, <2>4, <2>5 DEF FreshInv
<1>13. NoRunaway'
  <2> SUFFICES ASSUME NEW v \in DOMAIN run', v \notin stopped'
               PROVE  registry'[v.slot] = v
    BY DEF NoRunaway
  <2>1. CASE v = w
    BY <1>3, <1>4, <1>10, <2>1
  <2>2. CASE v # w
    <3>1. v \in DOMAIN run /\ v \in Worker /\ v # None /\ v.slot \in Slot /\ registry[v.slot] = v
      BY <1>8, <1>10, <2>2, NullFacts DEF Inv, TypeOK, GlobalInv, NoRunaway
    <3> QED
      BY <1>7, <1>10, <3>1
  <2> QED
    BY <2>1, <2>2
<1>14. EveryTaskTracked'
  <2> SUFFICES ASSUME NEW v \in DOMAIN run'
               PROVE  \/ registry'[v.slot] = v
                      \/ v \in leaked'
                      \/ \E q \in Task : v \in batch'[q] \/ (pc'[q] = "stop" /\ mine'[q] = v)
    BY DEF EveryTaskTracked
  <2>1. CASE v = w
    BY <1>3, <1>4, <1>10, <2>1
  <2>2. CASE v # w
    <3>1. v \in DOMAIN run /\ v \in Worker /\ v # None /\ v.slot \in Slot
      BY <1>8, <2>2, NullFacts DEF Inv, TypeOK
    <3>2. \/ registry[v.slot] = v
          \/ v \in leaked
          \/ \E q \in Task : v \in batch[q] \/ (pc[q] = "stop" /\ mine[q] = v)
      BY <3>1 DEF Inv, GlobalInv, EveryTaskTracked
    <3> QED
      BY <1>1, <1>7, <1>10, <3>1, <3>2
  <2> QED
    BY <2>1, <2>2
<1>15. MatchInv' /\ LeaseOfOwnRow'
  <2>1. \A d \in Slot : /\ OwnWorker(d)' = IF d = c THEN w ELSE OwnWorker(d)
                        /\ IsAi(d)' <=> d = c \/ IsAi(d)
    BY <1>3, <1>4, <1>10 DEF OwnWorker, IsAi
  <2>2. ASSUME NEW d \in Slot, Settled(d)', d # c
        PROVE  registry[d] = OwnWorker(d)
    <3>1. Settled(d)
      BY <1>1, <1>10, <2>2 DEF Settled, Closing, Draining
    <3> QED
      BY <3>1 DEF Inv, GlobalInv, MatchInv
  <2>3. MatchInv'
    BY <1>3, <1>10, <2>1, <2>2 DEF MatchInv
  <2>4. ASSUME NEW d \in Slot, lease'[d] # None
        PROVE  IsAi(d)' /\ lease'[d] = [slot |-> d, n |-> row'[d].born]
    <3>1. CASE d = c
      BY <1>4, <1>10, <2>1, <3>1
    <3>2. CASE d # c
      BY <1>10, <2>1, <2>4, <3>2 DEF LeaseOfOwnRow, Inv, GlobalInv
    <3> QED
      BY <3>1, <3>2
  <2> QED
    BY <2>3, <2>4 DEF LeaseOfOwnRow
<1>16. AcyclicInv'
  <2> SUFFICES ASSUME NEW W \in SUBSET Slot, W # {}, \A d \in W : IsAi(d)' /\ row'[d].source \in W
               PROVE  FALSE
    BY DEF AcyclicInv
  <2>1. CASE c \in W
    <3>1. src[t] \in W /\ \A d \in W \ {c} : IsAi(d) /\ row[d].source \in W
      BY <1>3, <1>4, <1>10, <2>1 DEF IsAi
    <3> QED
      BY <1>3, <3>1 DEF SourceCycle
  <2>2. CASE c \notin W
    <3>1. \A d \in W : IsAi(d) /\ row[d].source \in W
      BY <1>10, <2>2 DEF IsAi
    <3> QED
      BY <3>1 DEF Inv, GlobalInv, AcyclicInv
  <2> QED
    BY <2>1, <2>2
<1> QED
  BY <1>5, <1>11, <1>12, <1>13, <1>14, <1>15, <1>16 DEF Inv, GlobalInv

-----------------------------------------------------------------------------
(* The cascade. *)

(* What it has examined when it goes on with the frontier w, the channels  *)
(* x closed at this level, all it closed, d, and the candidates c.         *)
CascadeHolds(t, w, x, d, c) ==
  op[t] \in {"delete", "close"} =>
    /\ c # {} => x \subseteq d
    /\ \A e \in d : ~IsAi(e)'
    /\ \A e \in Slot : IsAi(e)' /\ row'[e].source \in (w \cup d) \ x =>
         row'[e].source \in w /\ e \in c
    /\ ch[t] \in d \cup x \/ (x = {} /\ ch[t] \in w)

LEMMA CascadeKeeps ==
  ASSUME Inv, NEW t \in Task, NEW r, row' = r, pc[t] \in Located,
         NEW w \in SUBSET Slot, NEW x \in SUBSET Slot, NEW d \in SUBSET Slot,
         NEW c \in SUBSET Slot, c # {} => w # {},
         CascadeHolds(t, w, x, d, c), CascadeOn(t, r, w, x, d, c)
  PROVE  /\ ControlType' /\ Apart(t) /\ Sound(t)'
         /\ pc'[t] \notin Closing \cup Draining /\ mine'[t] = None /\ batch'[t] = {}
<1> DEFINE left == IF c = {} THEN Dependents(r, x) \ d ELSE c
<1>1. ControlType /\ Sound(t)
  BY DEF Inv, TypeOK, ControlType
<1>2. /\ ch[t] \in Slot /\ batch[t] = {} /\ op[t] \notin {"none", "rotate"}
  BY <1>1 DEF Sound, PlaceOf, Located, Draining
<1>3. left \in SUBSET Slot
  BY DEF Dependents
<1>4. CASE left # {}
  <2>1. /\ wave' = [wave EXCEPT ![t] = IF c = {} THEN x ELSE w]
        /\ next' = [next EXCEPT ![t] = IF c = {} THEN {} ELSE x]
        /\ seen' = [seen EXCEPT ![t] = d] /\ cand' = [cand EXCEPT ![t] = left]
        /\ channelLock' = [k \in Slot |-> IF channelLock[k] = t THEN None ELSE channelLock[k]]
        /\ pc' = [pc EXCEPT ![t] = "cascade"]
        /\ mine' = [mine EXCEPT ![t] = None] /\ seenLease' = [seenLease EXCEPT ![t] = None]
        /\ born' = [born EXCEPT ![t] = 0]
        /\ UNCHANGED <<op, ch, src, rotationLock, todo, batch>>
    BY <1>4 DEF CascadeOn, Goto, ForgetWorker
  <2> HIDE DEF left
  <2>2. ControlType'
    <3>1. /\ pc' \in [Task -> Pc] /\ born' \in [Task -> 0..MaxOpen]
          /\ mine' \in [Task -> Worker \cup {None}] /\ seenLease' \in [Task -> Worker \cup {None}]
          /\ channelLock' \in [Slot -> Task \cup {None}]
      BY <1>1, <2>1, ConstantsAssumption DEF ControlType, Pc
    <3>2. /\ wave' \in [Task -> SUBSET Slot] /\ next' \in [Task -> SUBSET Slot]
          /\ seen' \in [Task -> SUBSET Slot] /\ cand' \in [Task -> SUBSET Slot]
      BY <1>1, <1>3, <2>1 DEF ControlType
    <3> QED
      BY <1>1, <2>1, <3>1, <3>2 DEF ControlType
  <2>3. Apart(t)
    BY <1>1, <2>1 DEF ControlType, Apart
  <2>4. /\ pc'[t] = "cascade" /\ wave'[t] = (IF c = {} THEN x ELSE w) /\ cand'[t] = left
        /\ next'[t] = (IF c = {} THEN {} ELSE x) /\ seen'[t] = d
        /\ mine'[t] = None /\ batch'[t] = {} /\ op'[t] = op[t] /\ ch'[t] = ch[t]
        /\ rotationLock' = rotationLock
    BY <1>1, <1>2, <2>1 DEF ControlType
  <2>5. c = {} => left = Dependents(r, x) \ d /\ x # {}
    BY <1>4 DEF left, Dependents
  <2>6. c # {} => left = c
    BY DEF left
  <2>7. wave'[t] # {} /\ cand'[t] # {}
    BY <1>4, <2>4, <2>5
  <2>8. PlaceOf(t)' /\ Owns(t)' /\ Checked(t)'
    BY <1>1, <1>2, <2>4, <2>7
       DEF Sound, PlaceOf, Owns, Exclusive, Checked, Located, Closing, Draining
  <2>9. Stops(t)'
    BY <2>4 DEF Stops
  <2>10. Cascades(t)'
    <3> SUFFICES ASSUME op[t] \in {"delete", "close"}
                 PROVE  Cascades(t)'
      BY <2>4 DEF Cascades
    <3>1. CASE c = {}
      <4>1. \A e \in Slot : IsAi(e)' /\ row'[e].source \in x => e \in Dependents(r, x)
        BY DEF Dependents, IsAi
      <4> QED
        BY <2>4, <2>5, <3>1, <4>1 DEF CascadeHolds, Cascades, Examined
    <3>2. CASE c # {}
      BY <2>4, <2>6, <3>2 DEF CascadeHolds, Cascades, Examined
    <3> QED
      BY <3>1, <3>2
  <2> QED
    BY <2>2, <2>3, <2>4, <2>8, <2>9, <2>10 DEF Sound, Closing, Draining
<1>5. CASE left = {} /\ op[t] = "sweep"
  <2>1. /\ wave' = [wave EXCEPT ![t] = {}] /\ next' = [next EXCEPT ![t] = {}]
        /\ seen' = [seen EXCEPT ![t] = {}] /\ cand' = [cand EXCEPT ![t] = {}]
        /\ rotationLock' = (IF rotationLock = t THEN None ELSE rotationLock)
        /\ channelLock' = [k \in Slot |-> IF channelLock[k] = t THEN None ELSE channelLock[k]]
        /\ pc' = [pc EXCEPT ![t] = "sweep"]
        /\ mine' = [mine EXCEPT ![t] = None] /\ seenLease' = [seenLease EXCEPT ![t] = None]
        /\ born' = [born EXCEPT ![t] = 0]
        /\ UNCHANGED <<op, ch, src, todo, batch>>
    BY <1>5 DEF CascadeOn, Goto, ForgetWorker, Unlocked
  <2>2. ControlType'
    <3>1. /\ pc' \in [Task -> Pc] /\ born' \in [Task -> 0..MaxOpen]
          /\ mine' \in [Task -> Worker \cup {None}] /\ seenLease' \in [Task -> Worker \cup {None}]
          /\ channelLock' \in [Slot -> Task \cup {None}] /\ rotationLock' \in Task \cup {None}
      BY <1>1, <2>1, ConstantsAssumption DEF ControlType, Pc
    <3> QED
      BY <1>1, <2>1, <3>1 DEF ControlType
  <2>3. Apart(t)
    BY <1>1, <2>1 DEF ControlType, Apart
  <2>4. /\ pc'[t] = "sweep" /\ op'[t] = "sweep" /\ mine'[t] = None /\ batch'[t] = {}
        /\ wave'[t] = {} /\ cand'[t] = {} /\ next'[t] = {} /\ seen'[t] = {}
    BY <1>1, <1>2, <1>5, <2>1 DEF ControlType
  <2>5. Sound(t)'
    BY <2>4
       DEF Sound, PlaceOf, Owns, Exclusive, Checked, Stops, Cascades, Located, Closing, Draining
  <2> QED
    BY <2>2, <2>3, <2>4, <2>5 DEF Closing, Draining
<1>6. CASE left = {} /\ op[t] # "sweep"
  <2>1. Finish(t)
    BY <1>6 DEF CascadeOn
  <2> QED
    BY <2>1, FinishKeeps DEF Closing, Draining
<1> QED
  BY <1>4, <1>5, <1>6

(* When a request's cascade is over, nobody interprets what it closed.     *)
LEMMA CascadeReachesAll ==
  ASSUME Inv, NEW t \in Task, NEW r, row' = r, op[t] \in {"delete", "close"},
         NEW w \in SUBSET Slot, NEW x \in SUBSET Slot, NEW d \in SUBSET Slot,
         NEW c \in SUBSET Slot,
         CascadeHolds(t, w, x, d, c), CascadeOn(t, r, w, x, d, c), op'[t] = "none"
  PROVE  Dependents(row', x \cup w \cup d) = {}
<1>1. c = {} /\ Dependents(r, x) \ d = {}
  <2>1. (IF c = {} THEN Dependents(r, x) \ d ELSE c) = {}
    BY DEF CascadeOn, Goto
  <2> QED
    BY <2>1
<1>2. \A e \in Slot : IsAi(e)' <=> r[e].kind = "ai"
  BY DEF IsAi
<1> QED
  BY <1>1, <1>2 DEF Dependents, CascadeHolds

LEMMA CascadeSkipHolds ==
  ASSUME Inv, NEW t \in Task, CascadeSkip(t)
  PROVE  /\ pc[t] = "cascade" /\ wave[t] # {}
         /\ CascadeHolds(t, wave[t], next[t], seen[t], cand[t] \ {NextCandidate(t)})
         /\ CascadeOn(t, row, wave[t], next[t], seen[t], cand[t] \ {NextCandidate(t)})
         /\ row' = row
<1>1. pc[t] = "cascade" /\ UNCHANGED <<table, manager, tasks, faults>> /\ ~Depends(t, NextCandidate(t))
  BY DEF CascadeSkip, CandidateReady
<1>2. PlaceOf(t) /\ Cascades(t) /\ row' = row
  BY <1>1 DEF Inv, Sound, table
<1>3. \A e \in Slot : IsAi(e)' = IsAi(e)
  BY <1>2 DEF IsAi
<1> QED
  BY <1>1, <1>2, <1>3
     DEF CascadeSkip, PlaceOf, Cascades, Examined, CascadeHolds, Depends, Closing, Inv, TypeOK

LEMMA CascadeSkipKeepsInv ==
  ASSUME Inv, NEW t \in Task, CascadeSkip(t)
  PROVE  Inv'
<1> DEFINE c == cand[t] \ {NextCandidate(t)}
<1>1. /\ wave[t] \in SUBSET Slot /\ next[t] \in SUBSET Slot /\ seen[t] \in SUBSET Slot
      /\ c \in SUBSET Slot
  BY DEF Inv, TypeOK
<1>2. /\ pc[t] = "cascade" /\ wave[t] # {} /\ CascadeHolds(t, wave[t], next[t], seen[t], c)
      /\ CascadeOn(t, row, wave[t], next[t], seen[t], c) /\ row' = row
  BY CascadeSkipHolds
<1> HIDE DEF c
<1>3. /\ ControlType' /\ Apart(t) /\ Sound(t)' /\ mine'[t] = None /\ batch'[t] = {}
  BY <1>1, <1>2, CascadeKeeps DEF Located
<1>4. UNCHANGED <<table, manager, tasks, faults>>
  BY DEF CascadeSkip
<1>5. TypeOK'
  <2>1. StoreType'
    BY <1>4 DEF Inv, TypeOK, StoreType, table, manager, tasks
  <2> QED
    BY <1>3, <2>1 DEF TypeOK, StoreType, ControlType
<1>6. Quiet(t)
  BY <1>2, <1>3, <1>4
     DEF Quiet, table, manager, tasks, Inv, Sound, PlaceOf, Closing, Draining
<1> QED
  BY <1>3, <1>5, <1>6, QuietKeepsInv

-----------------------------------------------------------------------------
(* Closing a row. *)

LEMMA CloseHolds ==
  ASSUME Inv, NEW t \in Task, pc[t] \in {"lock", "removeHuman"} \cup Closing, Close(t)
  PROVE  \E w \in SUBSET Slot, x \in SUBSET Slot, d \in SUBSET Slot, c \in SUBSET Slot :
           /\ ch[t] \in x /\ wave[t] \subseteq w /\ seen[t] \subseteq d
           /\ c # {} => w # {}
           /\ CascadeHolds(t, w, x, d, c)
           /\ CascadeOn(t, [row EXCEPT ![ch[t]] = Closed], w, x, d, c)
<1>1. /\ row' = [row EXCEPT ![ch[t]] = Closed]
      /\ IF wave[t] = {}
         THEN CascadeOn(t, [row EXCEPT ![ch[t]] = Closed], {}, {ch[t]}, {}, {})
         ELSE CascadeOn(t, [row EXCEPT ![ch[t]] = Closed], wave[t], next[t] \cup {ch[t]},
                        seen[t] \cup {ch[t]}, cand[t])
  BY DEF Close
<1>2. PlaceOf(t) /\ Cascades(t) /\ ch[t] \in Slot
  BY DEF Inv, Sound, PlaceOf, Located, Closing
<1>3. /\ wave[t] \in SUBSET Slot /\ next[t] \in SUBSET Slot /\ seen[t] \in SUBSET Slot
      /\ cand[t] \in SUBSET Slot /\ row \in [Slot -> Row]
  BY DEF Inv, TypeOK
<1>4. \A e \in Slot : IsAi(e)' <=> IsAi(e) /\ e # ch[t]
  BY <1>1, <1>2, <1>3, ClosedRow DEF IsAi
<1>5. \A e \in Slot : e # ch[t] => row'[e] = row[e]
  BY <1>1, <1>3
<1>6. CASE wave[t] = {}
  <2>1. seen[t] = {}
    BY <1>2, <1>6 DEF PlaceOf
  <2>2. CascadeHolds(t, {}, {ch[t]}, {}, {})
    BY DEF CascadeHolds
  <2> QED
    BY <1>1, <1>2, <1>6, <2>1, <2>2
<1>7. CASE wave[t] # {}
  <2>1. CascadeHolds(t, wave[t], next[t] \cup {ch[t]}, seen[t] \cup {ch[t]}, cand[t])
    BY <1>2, <1>3, <1>4, <1>5, <1>7 DEF CascadeHolds, Cascades, Examined
  <2> QED
    BY <1>1, <1>2, <1>3, <1>7, <2>1
<1> QED
  BY <1>6, <1>7

(* The row is closed, its worker is out of the registry and told to stop,  *)
(* and as long as it is alive among the leaked ones.                       *)
LEMMA CloseKeepsInv ==
  ASSUME Inv, NEW t \in Task, pc[t] \in {"lock", "removeHuman"} \cup Closing, Close(t),
         FreeTo(t, ch[t]), UNCHANGED tasks,
         registry' \in [Slot -> Worker \cup {None}], registry'[ch[t]] = None,
         \A d \in Slot \ {ch[t]} : registry'[d] = registry[d],
         leaked \subseteq leaked', leaked' \subseteq DOMAIN run,
         registry[ch[t]] # None => Told(registry[ch[t]]),
         registry[ch[t]] \in DOMAIN run => registry[ch[t]] \in leaked',
         pc[t] = "stop" /\ mine[t] \in DOMAIN run => mine[t] \in leaked'
  PROVE  Inv'
<1> PICK k \in Slot : k = ch[t]
  BY DEF Inv, Sound, PlaceOf, Located, Closing
<1>1. /\ row' = [row EXCEPT ![k] = Closed] /\ lease' = [lease EXCEPT ![k] = None]
      /\ UNCHANGED <<opened, faults>>
  BY DEF Close
<1>2. /\ ControlType' /\ Apart(t) /\ Sound(t)'
      /\ pc'[t] \notin Closing \cup Draining /\ mine'[t] = None /\ batch'[t] = {}
  <2>1. PICK w \in SUBSET Slot, x \in SUBSET Slot, d \in SUBSET Slot, c \in SUBSET Slot :
          /\ c # {} => w # {}
          /\ CascadeHolds(t, w, x, d, c)
          /\ CascadeOn(t, [row EXCEPT ![ch[t]] = Closed], w, x, d, c)
    BY CloseHolds
  <2>2. pc[t] \in Located
    BY DEF Located, Closing
  <2> QED
    BY <1>1, <2>1, <2>2, CascadeKeeps
<1>3. TypeOK'
  <2>1. StoreType'
    BY <1>1, ClosedRow DEF Inv, TypeOK, StoreType, tasks
  <2> QED
    BY <1>2, <2>1 DEF TypeOK, StoreType, ControlType
<1>4. \A d \in Slot : /\ IsAi(d)' <=> IsAi(d) /\ d # k
                      /\ d # k => row'[d] = row[d]
                      /\ row'[k] = Closed /\ lease'[k] = None
                      /\ d # k => lease'[d] = lease[d]
  BY <1>1, ClosedRow DEF IsAi, Inv, TypeOK
<1>5. \A q \in Task : Sound(q)'
  <2>1. RowStep(t) /\ RegistryStep(t) /\ TellStep
    BY <1>4, ClosedRow DEF RowStep, RegistryStep, TellStep, Told, tasks, IsAi
  <2> QED
    BY <1>2, <2>1, StepKeepsSound
<1>6. \A d \in Slot : registry'[d] = IF d = k THEN None ELSE registry[d]
  OBVIOUS
<1>7. FreshInv'
  <2>1. \A d \in Slot : row'[d].born <= opened' /\ (IsAi(d)' => row'[d].born >= 1)
    BY <1>1, <1>4, ClosedRow DEF Inv, TypeOK, GlobalInv, FreshInv
  <2> QED
    BY <1>1, <1>2, <1>6, <2>1 DEF Inv, GlobalInv, FreshInv, Apart, tasks
<1>8. NoRunaway'
  BY <1>6, NullFacts DEF Inv, TypeOK, GlobalInv, NoRunaway, Told, tasks
<1>9. EveryTaskTracked'
  <2> SUFFICES ASSUME NEW v \in DOMAIN run
               PROVE  \/ registry'[v.slot] = v
                      \/ v \in leaked'
                      \/ \E q \in Task : v \in batch'[q] \/ (pc'[q] = "stop" /\ mine'[q] = v)
    BY DEF EveryTaskTracked, tasks
  <2>1. v \in Worker /\ v # None /\ v.slot \in Slot
    BY NullFacts DEF Inv, TypeOK
  <2>2. CASE registry[v.slot] = v
    BY <1>6, <2>1, <2>2
  <2>3. CASE v \in leaked
    BY <2>3
  <2>4. CASE \E q \in Task : v \in batch[q] \/ (pc[q] = "stop" /\ mine[q] = v)
    <3>1. batch[t] = {}
      BY DEF Inv, Sound, PlaceOf, Closing, Draining
    <3> QED
      BY <2>4, <3>1, <1>2 DEF Apart
  <2> QED
    BY <2>2, <2>3, <2>4 DEF Inv, GlobalInv, EveryTaskTracked
<1>10. MatchInv'
  <2> SUFFICES ASSUME NEW d \in Slot, Settled(d)'
               PROVE  registry'[d] = OwnWorker(d)'
    BY DEF MatchInv
  <2>1. CASE d = k
    BY <1>4, <1>6, <2>1 DEF OwnWorker
  <2>2. CASE d # k
    <3>1. Settled(d)
      BY <1>2, <2>2 DEF Settled, Apart, Closing, Draining
    <3> QED
      BY <1>4, <1>6, <2>2, <3>1 DEF Inv, GlobalInv, MatchInv, OwnWorker
  <2> QED
    BY <2>1, <2>2
<1>11. LeaseOfOwnRow' /\ AcyclicInv'
  <2>1. LeaseOfOwnRow'
    BY <1>4 DEF Inv, GlobalInv, LeaseOfOwnRow
  <2>2. AcyclicInv'
    BY <1>4 DEF Inv, GlobalInv, AcyclicInv
  <2> QED
    BY <2>1, <2>2
<1> QED
  BY <1>3, <1>5, <1>7, <1>8, <1>9, <1>10, <1>11 DEF Inv, GlobalInv

-----------------------------------------------------------------------------
(* The worker a coroutine waits for leaves the registry.                   *)
LEMMA StoppedKeeps ==
  ASSUME Inv, NEW t \in Task, pc[t] = "stop", Stopped(ch[t], mine[t])
  PROVE  /\ registry' \in [Slot -> Worker \cup {None}] /\ registry'[ch[t]] = None
         /\ \A d \in Slot \ {ch[t]} : registry'[d] = registry[d]
         /\ leaked \subseteq leaked' /\ leaked' \subseteq DOMAIN run
         /\ registry[ch[t]] # None => registry[ch[t]] = mine[t] /\ Told(mine[t])
         /\ mine[t] \in DOMAIN run => mine[t] \in leaked'
<1>1. /\ ch[t] \in Slot /\ registry[ch[t]] \in {mine[t], None}
      /\ mine[t] # None => Told(mine[t])
  BY DEF Inv, Sound, PlaceOf, Stops, Located
<1>2. /\ registry \in [Slot -> Worker \cup {None}] /\ leaked \subseteq DOMAIN run
      /\ DOMAIN run \subseteq Worker
  BY DEF Inv, TypeOK
<1>3. CASE mine[t] = None
  <2>1. UNCHANGED <<registry, leaked>>
    BY <1>3 DEF Stopped, manager
  <2> QED
    BY <1>1, <1>2, <1>3, <2>1, NullFacts
<1>4. CASE mine[t] # None
  <2>1. /\ registry' = [registry EXCEPT ![ch[t]] = None]
        /\ leaked' = IF mine[t] \in DOMAIN run THEN leaked \cup {mine[t]} ELSE leaked
    BY <1>4 DEF Stopped, Leak, Alive
  <2> QED
    BY <1>1, <1>2, <2>1
<1> QED
  BY <1>3, <1>4

LEMMA StopThenRemoveKeepsInv ==
  ASSUME Inv, NEW t \in Task, StopThenRemove(t)
  PROVE  Inv'
<1> DEFINE c == ch[t]
<1>1. /\ pc[t] = "stop" /\ pc' = [pc EXCEPT ![t] = "remove"]
      /\ UNCHANGED <<op, ch, src, table, tasks, locks, local, faults>>
  BY DEF StopThenRemove, Goto
<1>2. /\ registry' \in [Slot -> Worker \cup {None}] /\ registry'[c] = None
      /\ \A d \in Slot \ {c} : registry'[d] = registry[d]
      /\ leaked \subseteq leaked' /\ leaked' \subseteq DOMAIN run
      /\ registry[c] # None => registry[c] = mine[t] /\ Told(mine[t])
      /\ mine[t] \in DOMAIN run => mine[t] \in leaked'
  BY StoppedKeeps DEF StopThenRemove
<1>3. /\ Sound(t) /\ c \in Slot /\ pc \in [Task -> Pc]
  BY <1>1 DEF Inv, TypeOK, Sound, PlaceOf, Located
<1>4. /\ pc'[t] = "remove" /\ \A q \in Task \ {t} : pc'[q] = pc[q]
      /\ UNCHANGED <<row, opened, lease, run, stopped, rotationLock, channelLock, op, ch, src,
                     mine, wave, cand, next, seen, batch, born>>
  BY <1>1, <1>3 DEF table, tasks, locks, local, cascade
<1> HIDE DEF c
<1>5. TypeOK'
  BY <1>1, <1>2, <1>3 DEF Inv, TypeOK, table, tasks, locks, local, cascade, Pc
<1>6. \A q \in Task : Sound(q)'
  <2>1. Apart(t)
    BY <1>4 DEF Apart
  <2>2. RowStep(t) /\ RegistryStep(t) /\ TellStep
    BY <1>2, <1>4 DEF RowStep, RegistryStep, TellStep, Told
  <2>3. Sound(t)'
    <3>1. PlaceOf(t)' /\ Owns(t)' /\ Checked(t)'
      BY <1>1, <1>3, <1>4
         DEF Sound, PlaceOf, Owns, Exclusive, Checked, Located, Closing, Draining
    <3>2. Stops(t)' /\ Cascades(t)'
      BY <1>1, <1>2, <1>3, <1>4 DEF Sound, Stops, Cascades, Examined, Closing, Told, IsAi, c
    <3> QED
      BY <3>1, <3>2 DEF Sound
  <2> QED
    BY <2>1, <2>2, <2>3, StepKeepsSound
<1>7. FreshInv' /\ LeaseOfOwnRow' /\ AcyclicInv'
  BY <1>2, <1>4 DEF Inv, GlobalInv, FreshInv, LeaseOfOwnRow, AcyclicInv, IsAi
<1>8. NoRunaway'
  BY <1>2, <1>4, NullFacts DEF Inv, TypeOK, GlobalInv, NoRunaway, Told
<1>9. EveryTaskTracked'
  <2> SUFFICES ASSUME NEW v \in DOMAIN run
               PROVE  \/ registry'[v.slot] = v
                      \/ v \in leaked'
                      \/ \E q \in Task : v \in batch[q] \/ (pc'[q] = "stop" /\ mine[q] = v)
    BY <1>4 DEF EveryTaskTracked
  <2>1. v \in Worker /\ v # None /\ v.slot \in Slot
    BY NullFacts DEF Inv, TypeOK
  <2> QED
    BY <1>2, <1>4, <2>1 DEF Inv, GlobalInv, EveryTaskTracked
<1>10. MatchInv'
  <2>1. ASSUME NEW d \in Slot, Settled(d)'
        PROVE  Settled(d) /\ d # c
    BY <1>1, <1>4, <2>1 DEF Settled, Closing, Draining, c
  <2>2. \A d \in Slot : OwnWorker(d)' = OwnWorker(d)
    BY <1>4 DEF OwnWorker, IsAi
  <2> QED
    BY <1>2, <2>1, <2>2 DEF Inv, GlobalInv, MatchInv
<1> QED
  BY <1>5, <1>6, <1>7, <1>8, <1>9, <1>10 DEF Inv, GlobalInv

(* The closings, each with the worker of its slot out of the registry.     *)
LEMMA ClosingKeepsInv ==
  ASSUME Inv, NEW t \in Task,
         \/ StopThenClose(t) \/ RemoveThenClose(t)
         \/ (DeleteHuman(t) \/ HumanRemoved(t)) /\ Close(t)
  PROVE  Inv'
<1>1. CASE StopThenClose(t)
  <2>1. pc[t] = "stop" /\ Stopped(ch[t], mine[t]) /\ Close(t) /\ UNCHANGED tasks
    BY <1>1 DEF StopThenClose
  <2>2. FreeTo(t, ch[t])
    BY <2>1 DEF Inv, Sound, Owns, Closing, FreeTo
  <2>3. /\ registry' \in [Slot -> Worker \cup {None}] /\ registry'[ch[t]] = None
        /\ \A d \in Slot \ {ch[t]} : registry'[d] = registry[d]
        /\ leaked \subseteq leaked' /\ leaked' \subseteq DOMAIN run
        /\ registry[ch[t]] # None => registry[ch[t]] = mine[t] /\ Told(mine[t])
        /\ mine[t] \in DOMAIN run => mine[t] \in leaked'
    BY <2>1, StoppedKeeps
  <2>4. None \notin DOMAIN run
    BY NullFacts DEF Inv, TypeOK
  <2>5. /\ registry[ch[t]] # None => Told(registry[ch[t]])
        /\ registry[ch[t]] \in DOMAIN run => registry[ch[t]] \in leaked'
    BY <2>3, <2>4
  <2> QED
    BY <2>1, <2>2, <2>3, <2>5, CloseKeepsInv DEF Closing
<1>2. CASE RemoveThenClose(t)
  <2>1. pc[t] = "remove" /\ Close(t) /\ UNCHANGED <<manager, tasks>>
    BY <1>2 DEF RemoveThenClose
  <2>2. FreeTo(t, ch[t]) /\ registry[ch[t]] = None
    BY <2>1 DEF Inv, Sound, Owns, Stops, Closing, FreeTo
  <2>3. None \notin DOMAIN run
    BY NullFacts DEF Inv, TypeOK
  <2> QED
    BY <2>1, <2>2, <2>3, CloseKeepsInv DEF Closing, manager, Inv, TypeOK
<1>3. CASE (DeleteHuman(t) \/ HumanRemoved(t)) /\ Close(t)
  <2>1. /\ pc[t] \in {"lock", "removeHuman"} /\ op[t] = "close" /\ row[ch[t]].kind = "human"
        /\ Close(t) /\ UNCHANGED <<manager, tasks>>
    BY <1>3 DEF DeleteHuman, HumanRemoved, Inv, Sound, PlaceOf, Checked
  <2>2. ch[t] \in Slot /\ rotationLock = t /\ pc[t] \notin Closing \cup Draining
    BY <2>1 DEF Inv, Sound, PlaceOf, Owns, Exclusive, Located, Closing, Draining
  <2>3. FreeTo(t, ch[t])
    BY <1>3, NullFacts
       DEF DeleteHuman, HumanRemoved, ChannelLockFree, FreeTo, Inv, Sound, Owns
  <2>4. registry[ch[t]] = None
    BY <2>1, <2>2, <2>3, LockedIsSettled DEF OwnWorker, IsAi
  <2>5. None \notin DOMAIN run
    BY NullFacts DEF Inv, TypeOK
  <2> QED
    BY <2>1, <2>2, <2>3, <2>4, <2>5, CloseKeepsInv DEF manager, Inv, TypeOK
<1> QED
  BY <1>1, <1>2, <1>3

(* A person's channel that stays open, or whose holder has to go first.    *)
LEMMA HumanKeepsInv ==
  ASSUME Inv, NEW t \in Task, DeleteHuman(t) \/ HumanRemoved(t)
  PROVE  Inv'
<1>1. CASE Close(t)
  BY <1>1, ClosingKeepsInv
<1>2. CASE HumanRemoved(t) /\ ~Close(t)
  <2>1. pc[t] = "removeHuman" /\ Finish(t) /\ UNCHANGED <<table, faults, manager, tasks>>
    BY <1>2 DEF HumanRemoved
  <2>2. UNCHANGED <<run, stopped, ready>> /\ ready \subseteq Worker
    BY <2>1 DEF tasks, Inv, TypeOK
  <2> QED
    BY <2>1, <2>2, EndKeepsInv DEF Closing, Draining
<1>3. CASE DeleteHuman(t) /\ ~Close(t)
  <2>1. /\ pc[t] = "lock" /\ op[t] = "close" /\ channelLock[ch[t]] = None
        /\ row[ch[t]].kind = "human"
        /\ channelLock' = [channelLock EXCEPT ![ch[t]] = t]
        /\ born' = [born EXCEPT ![t] = row[ch[t]].born]
        /\ pc' = [pc EXCEPT ![t] = "removeHuman"] /\ UNCHANGED <<op, ch, src>>
        /\ UNCHANGED <<table, rotationLock, mine, seenLease, todo, cascade, batch, faults,
                       manager, tasks>>
    BY <1>3 DEF DeleteHuman, Goto, ChannelLockFree
  <2>2. Sound(t) /\ ch[t] \in Slot /\ wave[t] = {} /\ batch[t] = {} /\ TypeOK
    BY <2>1 DEF Inv, Sound, PlaceOf, Located, Closing, Draining
  <2>3. row[ch[t]].born \in 0..MaxOpen
    BY <2>2 DEF TypeOK, Row
  <2>4. TypeOK'
    <3>1. /\ channelLock' \in [Slot -> Task \cup {None}] /\ pc' \in [Task -> Pc]
          /\ born' \in [Task -> 0..MaxOpen]
      BY <2>1, <2>2, <2>3 DEF TypeOK, Pc
    <3> QED
      BY <2>1, <2>2, <3>1 DEF TypeOK, table, cascade, manager, tasks
  <2>5. Apart(t)
    BY <2>1, <2>2, NullFacts DEF Apart, TypeOK, cascade
  <2>6. Quiet(t)
    BY <2>1, <2>2
       DEF Quiet, table, manager, tasks, Inv, GlobalInv, FreshInv, Closing, Draining
  <2>7. /\ pc'[t] = "removeHuman" /\ channelLock'[ch[t]] = t
        /\ UNCHANGED <<row, registry, rotationLock, op, ch, mine, wave, next, seen, cand, batch>>
    BY <2>1, <2>2 DEF TypeOK, table, manager, cascade
  <2>8. Sound(t)'
    <3>1. PlaceOf(t)' /\ Owns(t)' /\ Checked(t)'
      BY <2>1, <2>2, <2>7
         DEF Sound, PlaceOf, Owns, Exclusive, Checked, Located, Closing, Draining
    <3>2. Stops(t)' /\ Cascades(t)'
      BY <2>1, <2>2, <2>7 DEF Sound, PlaceOf, Stops, Cascades, Examined
    <3> QED
      BY <3>1, <3>2 DEF Sound
  <2> QED
    BY <2>4, <2>5, <2>6, <2>8, QuietKeepsInv
<1> QED
  BY <1>1, <1>2, <1>3

-----------------------------------------------------------------------------
(* The rotation stops all workers, waits for each, and closes their rows.  *)
LEMMA OneStoppedKeepsInv ==
  ASSUME Inv, NEW t \in Task, NEW w \in batch[t], OneStopped(t, w)
  PROVE  Inv'
<1>1. w \in Worker /\ w # None /\ w.slot \in Slot
  BY NullFacts DEF Inv, TypeOK
<1>2. /\ pc[t] = "stopping" /\ registry' = [registry EXCEPT ![w.slot] = None]
      /\ leaked' = IF w \in DOMAIN run THEN leaked \cup {w} ELSE leaked
      /\ batch' = [batch EXCEPT ![t] = @ \ {w}]
      /\ UNCHANGED <<table, tasks, locks, place, mine, seenLease, todo, cascade, born, faults>>
  BY <1>1 DEF OneStopped, Stopped, Leak, Alive
<1>3. Sound(t) /\ TypeOK
  BY DEF Inv
<1>4. /\ \A d \in Slot : registry'[d] = IF d = w.slot THEN None ELSE registry[d]
      /\ batch'[t] = batch[t] \ {w} /\ \A q \in Task \ {t} : batch'[q] = batch[q]
      /\ UNCHANGED <<row, opened, lease, run, stopped, rotationLock, channelLock,
                     pc, op, ch, src, mine, wave, cand, next, seen>>
  BY <1>1, <1>2, <1>3 DEF TypeOK, table, tasks, locks, place, cascade
<1>5. TypeOK'
  BY <1>1, <1>2, <1>3 DEF TypeOK, table, tasks, locks, place, cascade
<1>6. \A q \in Task : Sound(q)'
  <2>1. Apart(t) /\ RowStep(t) /\ RegistryStep(t) /\ TellStep
    BY <1>4 DEF Apart, RowStep, RegistryStep, TellStep, Told
  <2>2. Sound(t)'
    <3>1. PlaceOf(t)' /\ Owns(t)' /\ Checked(t)'
      BY <1>2, <1>3, <1>4
         DEF Sound, PlaceOf, Owns, Exclusive, Checked, Located, Closing, Draining
    <3>2. Stops(t)'
      BY <1>1, <1>2, <1>3, <1>4, NullFacts
         DEF Inv, GlobalInv, FreshInv, Sound, Stops, Told
    <3>3. Cascades(t)'
      BY <1>2, <1>3, <1>4 DEF Sound, PlaceOf, Cascades, Draining
    <3> QED
      BY <3>1, <3>2, <3>3 DEF Sound
  <2> QED
    BY <2>1, <2>2, StepKeepsSound
<1>7. FreshInv' /\ LeaseOfOwnRow' /\ AcyclicInv'
  <2>1. FreshInv'
    BY <1>4 DEF Inv, GlobalInv, FreshInv, IsAi
  <2>2. LeaseOfOwnRow' /\ AcyclicInv'
    BY <1>4 DEF Inv, GlobalInv, LeaseOfOwnRow, AcyclicInv, IsAi
  <2> QED
    BY <2>1, <2>2
<1>8. NoRunaway' /\ EveryTaskTracked'
  <2>1. \A v \in DOMAIN run : v \in Worker /\ v # None /\ v.slot \in Slot
    BY <1>3, NullFacts DEF TypeOK
  <2>2. registry[w.slot] # None => registry[w.slot] \in batch[t] /\ Told(registry[w.slot])
    BY <1>1, <1>2, <1>3 DEF Sound, Stops
  <2>3. NoRunaway'
    BY <1>4, <2>1, <2>2 DEF Inv, GlobalInv, NoRunaway, Told
  <2>4. ASSUME NEW v \in DOMAIN run
        PROVE  \/ registry'[v.slot] = v
               \/ v \in leaked'
               \/ \E q \in Task : v \in batch'[q] \/ (pc[q] = "stop" /\ mine[q] = v)
    BY <1>2, <1>4, <2>1, <2>2 DEF Inv, GlobalInv, EveryTaskTracked
  <2>5. EveryTaskTracked'
    BY <1>4, <2>4 DEF EveryTaskTracked
  <2> QED
    BY <2>3, <2>5
<1>9. MatchInv'
  BY <1>2, <1>4 DEF MatchInv, Settled, Draining
<1> QED
  BY <1>5, <1>6, <1>7, <1>8, <1>9 DEF Inv, GlobalInv

LEMMA ReapKeepsInv ==
  ASSUME Inv, NEW t \in Task, Reap(t)
  PROVE  Inv'
<1>1. /\ pc[t] = "stopping" /\ batch[t] = {} /\ leaked' = {}
      /\ batch' = [batch EXCEPT ![t] = leaked] /\ pc' = [pc EXCEPT ![t] = "reap"]
      /\ UNCHANGED <<op, ch, src, table, registry, tasks, locks, mine, seenLease, todo, cascade,
                     born, faults>>
  BY DEF Reap, Goto
<1>2. Sound(t) /\ TypeOK /\ \A c \in Slot : registry[c] = None
  BY <1>1 DEF Inv, Sound, Stops
<1>3. /\ pc'[t] = "reap" /\ batch'[t] = leaked
      /\ \A q \in Task \ {t} : pc'[q] = pc[q] /\ batch'[q] = batch[q]
      /\ UNCHANGED <<row, opened, registry, lease, run, stopped, rotationLock, channelLock,
                     op, ch, src, mine, wave, cand, next, seen>>
  BY <1>1, <1>2 DEF TypeOK, table, tasks, locks, cascade
<1>4. \A v \in DOMAIN run : v \in Worker /\ v # None /\ v.slot \in Slot /\ Told(v)
  BY <1>2, NullFacts DEF Inv, TypeOK, GlobalInv, NoRunaway, Told
<1>5. TypeOK'
  BY <1>1, <1>2, <1>4 DEF TypeOK, table, tasks, locks, cascade, Pc
<1>6. \A q \in Task : Sound(q)'
  <2>1. Apart(t) /\ RowStep(t) /\ RegistryStep(t) /\ TellStep
    BY <1>3 DEF Apart, RowStep, RegistryStep, TellStep, Told
  <2>2. Sound(t)'
    <3>1. PlaceOf(t)' /\ Owns(t)' /\ Checked(t)'
      BY <1>1, <1>2, <1>3
         DEF Sound, PlaceOf, Owns, Exclusive, Checked, Located, Closing, Draining
    <3>2. Stops(t)'
      BY <1>2, <1>3, <1>4 DEF Stops, Told, TypeOK
    <3>3. Cascades(t)'
      BY <1>1, <1>2, <1>3 DEF Sound, PlaceOf, Cascades, Draining
    <3> QED
      BY <3>1, <3>2, <3>3 DEF Sound
  <2> QED
    BY <2>1, <2>2, StepKeepsSound
<1>7. FreshInv' /\ NoRunaway' /\ LeaseOfOwnRow' /\ AcyclicInv'
  <2>1. FreshInv'
    BY <1>2, <1>3 DEF Inv, TypeOK, GlobalInv, FreshInv, IsAi
  <2>2. NoRunaway' /\ LeaseOfOwnRow' /\ AcyclicInv'
    BY <1>3 DEF Inv, GlobalInv, NoRunaway, LeaseOfOwnRow, AcyclicInv, IsAi
  <2> QED
    BY <2>1, <2>2
<1>8. EveryTaskTracked'
  <2>1. ASSUME NEW v \in DOMAIN run
        PROVE  \E q \in Task : v \in batch'[q] \/ (pc'[q] = "stop" /\ mine[q] = v)
    BY <1>1, <1>2, <1>3, <1>4 DEF Inv, GlobalInv, EveryTaskTracked
  <2> QED
    BY <1>3, <2>1 DEF EveryTaskTracked
<1>9. MatchInv'
  BY <1>3 DEF MatchInv, Settled, Draining
<1> QED
  BY <1>5, <1>6, <1>7, <1>8, <1>9 DEF Inv, GlobalInv

LEMMA ReapEndsKeepsInv ==
  ASSUME Inv, NEW t \in Task, ReapEnds(t)
  PROVE  Inv'
<1>1. /\ pc[t] \in Draining /\ Finish(t)
      /\ leaked' = leaked \cup {w \in batch[t] : w \in DOMAIN run}
      /\ row' = [c \in Slot |-> IF IsAi(c) THEN Closed ELSE row[c]]
      /\ lease' = [c \in Slot |-> IF IsAi(c) THEN None ELSE lease[c]]
      /\ UNCHANGED <<opened, registry, tasks, faults>>
  BY DEF ReapEnds, Draining, Alive
<1>2. Sound(t) /\ TypeOK /\ \A c \in Slot : registry[c] = None
  BY DEF ReapEnds, Inv, Sound, Stops
<1>3. /\ ControlType' /\ Apart(t) /\ Sound(t)'
      /\ pc'[t] = "idle" /\ mine'[t] = None /\ batch'[t] = {}
  BY <1>1, FinishKeeps
<1>4. \A c \in Slot : /\ row'[c] = IF IsAi(c) THEN Closed ELSE row[c]
                      /\ lease'[c] = IF IsAi(c) THEN None ELSE lease[c]
                      /\ ~IsAi(c)'
  BY <1>1, ClosedRow DEF IsAi
<1>5. TypeOK'
  <2>1. StoreType'
    BY <1>1, <1>2, ClosedRow DEF TypeOK, StoreType, tasks
  <2> QED
    BY <1>3, <2>1 DEF TypeOK, StoreType, ControlType
<1>6. \A q \in Task : Sound(q)'
  <2>1. RowStep(t) /\ RegistryStep(t) /\ TellStep
    BY <1>1, <1>4, ClosedRow DEF RowStep, RegistryStep, TellStep, Told, tasks
  <2> QED
    BY <1>3, <2>1, StepKeepsSound
<1>7. FreshInv'
  <2>1. \A c \in Slot : row'[c].born <= opened'
    BY <1>1, <1>2, <1>4, ClosedRow DEF Inv, TypeOK, GlobalInv, FreshInv
  <2> QED
    BY <1>1, <1>3, <1>4, <2>1 DEF Apart, Inv, GlobalInv, FreshInv, tasks
<1>8. NoRunaway' /\ LeaseOfOwnRow' /\ AcyclicInv'
  <2>1. NoRunaway'
    BY <1>1 DEF Inv, GlobalInv, NoRunaway, tasks
  <2>2. LeaseOfOwnRow' /\ AcyclicInv'
    BY <1>4 DEF Inv, GlobalInv, LeaseOfOwnRow, AcyclicInv
  <2> QED
    BY <2>1, <2>2
<1>9. EveryTaskTracked'
  <2>1. pc[t] # "stop" /\ run' = run
    BY <1>1 DEF Draining, tasks
  <2>2. ASSUME NEW v \in DOMAIN run
        PROVE  \/ registry'[v.slot] = v
               \/ v \in leaked'
               \/ \E q \in Task : v \in batch'[q] \/ (pc'[q] = "stop" /\ mine'[q] = v)
    BY <1>1, <1>3, <2>1 DEF Apart, Inv, GlobalInv, EveryTaskTracked
  <2> QED
    BY <2>1, <2>2 DEF EveryTaskTracked
<1>10. MatchInv'
  BY <1>1, <1>2, <1>4 DEF MatchInv, OwnWorker
<1> QED
  BY <1>5, <1>6, <1>7, <1>8, <1>9, <1>10 DEF Inv, GlobalInv

-----------------------------------------------------------------------------
(* A boot with the rows r it finds.                                        *)
LEMMA BootKeepsInv ==
  ASSUME Inv, NEW r \in [Slot -> Row], Boot(r), opened' \in 0..MaxOpen,
         \A c \in Slot : r[c].born <= opened' /\ (r[c].kind = "ai" => r[c].born >= 1),
         \A W \in SUBSET Slot : W # {} => \E d \in W : ~(r[d].kind = "ai" /\ r[d].source \in W)
  PROVE  Inv'
<1> DEFINE w(c) == [slot |-> c, n |-> r[c].born]
<1>1. PICK K \in SUBSET {c \in Slot : r[c].kind = "ai"} :
        /\ row' = [c \in Slot |-> IF r[c].kind = "ai" /\ c \notin K THEN Closed ELSE r[c]]
        /\ lease' = [c \in Slot |-> IF c \in K THEN [k \in K |-> w(k)][c] ELSE None]
        /\ registry' = lease'
        /\ run' = [v \in {[k \in K |-> w(k)][c] : c \in K} |-> "running"]
        /\ leaked' = {} /\ stopped' = {} /\ ready' = {} /\ UNCHANGED faults
  BY DEF Boot
<1>2. /\ rotationLock' = None /\ channelLock' = [c \in Slot |-> None]
      /\ pc' = [t \in Task |-> "idle"] /\ op' = [t \in Task |-> "none"]
      /\ ch' = [t \in Task |-> Floor] /\ src' = [t \in Task |-> Floor]
      /\ mine' = [t \in Task |-> None] /\ seenLease' = [t \in Task |-> None]
      /\ todo' = [t \in Task |-> {}]
      /\ wave' = [t \in Task |-> {}] /\ cand' = [t \in Task |-> {}]
      /\ next' = [t \in Task |-> {}] /\ seen' = [t \in Task |-> {}]
      /\ batch' = [t \in Task |-> {}] /\ born' = [t \in Task |-> 0]
  BY DEF Boot
<1>3. ASSUME NEW c \in K
      PROVE  w(c) \in Worker /\ w(c) # None /\ w(c).slot = c /\ w(c).n = r[c].born
  <2>1. c \in Slot /\ r[c].born \in 1..MaxOpen
    BY <1>3, ConstantsAssumption DEF Row
  <2> QED
    BY <2>1, NullFacts
<1>4. DOMAIN run' = {w(c) : c \in K}
  BY <1>1
<1>5. \A c \in Slot : /\ row'[c] = IF r[c].kind = "ai" /\ c \notin K THEN Closed ELSE r[c]
                      /\ registry'[c] = IF c \in K THEN w(c) ELSE None
                      /\ lease'[c] = registry'[c]
  BY <1>1
<1>6. \A c \in Slot : IsAi(c)' <=> c \in K
  BY <1>1, <1>5, ClosedRow DEF IsAi
<1>7. \A c \in K : row'[c] = r[c] /\ c \in Slot
  BY <1>1, <1>5
<1>8. TypeOK'
  <2>1. StoreType'
    <3>1. row' \in [Slot -> Row]
      BY <1>1, ClosedRow
    <3>2. DOMAIN run' \subseteq Worker /\ run' \in [DOMAIN run' -> RunState]
      BY <1>1, <1>3, <1>4 DEF RunState
    <3>3. registry' \in [Slot -> Worker \cup {None}] /\ lease' \in [Slot -> Worker \cup {None}]
      BY <1>1, <1>3
    <3> QED
      BY <1>1, <3>1, <3>2, <3>3 DEF Inv, TypeOK, StoreType
  <2>2. ControlType'
    BY <1>2, ConstantsAssumption DEF ControlType, Pc, Operation
  <2> QED
    BY <2>1, <2>2 DEF TypeOK, StoreType, ControlType
<1> HIDE DEF w
<1>9. FreshInv'
  <2>1. \A c \in Slot : row'[c].born <= opened' /\ (IsAi(c)' => row'[c].born >= 1)
    BY <1>5, <1>6, <1>7, ClosedRow
  <2>2. \A v \in DOMAIN run' : v.n <= opened'
    BY <1>3, <1>4
  <2>3. \A c \in Slot : registry'[c] # None => registry'[c].slot = c /\ registry'[c].n <= opened'
    BY <1>3, <1>5
  <2>4. \A t \in Task : mine'[t] = None /\ batch'[t] = {}
    BY <1>2
  <2> QED
    BY <2>1, <2>2, <2>3, <2>4 DEF FreshInv
<1>10. NoRunaway' /\ EveryTaskTracked'
  <2>1. \A v \in DOMAIN run' : registry'[v.slot] = v
    BY <1>3, <1>4, <1>5
  <2> QED
    BY <2>1 DEF NoRunaway, EveryTaskTracked
<1>11. MatchInv' /\ LeaseOfOwnRow'
  <2>1. \A c \in K : registry'[c] = [slot |-> c, n |-> row'[c].born]
    BY <1>5, <1>7 DEF w
  <2> QED
    BY <1>5, <1>6, <2>1 DEF MatchInv, OwnWorker, LeaseOfOwnRow
<1>12. AcyclicInv'
  BY <1>6, <1>7 DEF AcyclicInv
<1>13. \A t \in Task : Sound(t)'
  <2> TAKE t \in Task
  <2>1. /\ pc'[t] = "idle" /\ op'[t] = "none" /\ wave'[t] = {} /\ cand'[t] = {}
        /\ next'[t] = {} /\ seen'[t] = {} /\ batch'[t] = {}
    BY <1>2
  <2> QED
    BY <2>1
       DEF Sound, PlaceOf, Owns, Exclusive, Checked, Stops, Cascades, Located, Closing, Draining
<1> QED
  BY <1>8, <1>9, <1>10, <1>11, <1>12, <1>13 DEF Inv, GlobalInv

LEMMA RestartKeepsInv ==
  ASSUME Inv, Restart
  PROVE  Inv'
<1>1. CASE Boot(row) /\ UNCHANGED opened
  <2>1. /\ row \in [Slot -> Row] /\ opened' \in 0..MaxOpen
        /\ \A c \in Slot : row[c].born <= opened' /\ (row[c].kind = "ai" => row[c].born >= 1)
        /\ \A W \in SUBSET Slot : W # {} => \E d \in W : ~(row[d].kind = "ai" /\ row[d].source \in W)
    BY <1>1 DEF Inv, TypeOK, GlobalInv, FreshInv, AcyclicInv, IsAi
  <2> QED
    BY <1>1, <2>1, BootKeepsInv
<1>2. ASSUME NEW t \in Task, pc[t] = "ensure", ~IsOpen(ch[t]), opened < MaxOpen,
             Boot([row EXCEPT ![ch[t]] = [kind |-> "ai", born |-> opened + 1, source |-> src[t]]]),
             opened' = opened + 1
      PROVE  Inv'
  <2> DEFINE c == ch[t]
             new == [kind |-> "ai", born |-> opened + 1, source |-> src[t]]
             r == [row EXCEPT ![c] = new]
  <2>1. Sound(t) /\ c \in Slot /\ ~SourceCycle(c, src[t]) /\ src[t] \in Slot \cup {Floor}
    BY <1>2 DEF Inv, TypeOK, Sound, PlaceOf, Checked, Located
  <2>2. /\ opened' \in 1..MaxOpen /\ opened' \in 0..MaxOpen /\ new \in Row
        /\ new.kind = "ai" /\ new.born = opened' /\ new.source = src[t]
    BY <1>2, <2>1, ConstantsAssumption DEF Inv, TypeOK, Row
  <2> HIDE DEF new
  <2>3. /\ r \in [Slot -> Row]
        /\ \A d \in Slot : r[d] = IF d = c THEN new ELSE row[d]
    BY <2>1, <2>2 DEF Inv, TypeOK
  <2>4. Boot(r)
    BY <1>2 DEF new
  <2> HIDE DEF r, c
  <2>5. \A d \in Slot : r[d].born <= opened' /\ (r[d].kind = "ai" => r[d].born >= 1)
    <3> TAKE d \in Slot
    <3>1. /\ row[d].born \in 0..MaxOpen /\ row[d].born <= opened
          /\ row[d].kind = "ai" => row[d].born >= 1
      BY DEF Inv, TypeOK, Row, GlobalInv, FreshInv, IsAi
    <3>2. opened \in Int /\ opened' \in Int /\ opened' = opened + 1 /\ opened' >= 1 /\ MaxOpen \in Int
      BY <1>2, <2>2, ConstantsAssumption DEF Inv, TypeOK
    <3>3. CASE d = c
      BY <2>2, <2>3, <3>2, <3>3
    <3>4. CASE d # c
      BY <2>3, <3>1, <3>2, <3>4
    <3> QED
      BY <3>3, <3>4
  <2>6. ASSUME NEW W \in SUBSET Slot, W # {}, \A d \in W : r[d].kind = "ai" /\ r[d].source \in W
        PROVE  FALSE
    <3>1. CASE c \in W
      <4>1. src[t] \in W /\ \A d \in W \ {c} : IsAi(d) /\ row[d].source \in W
        BY <2>2, <2>3, <2>6, <3>1 DEF IsAi
      <4> QED
        BY <2>1, <4>1 DEF SourceCycle
    <3>2. CASE c \notin W
      <4>1. \A d \in W : IsAi(d) /\ row[d].source \in W
        BY <2>3, <2>6, <3>2 DEF IsAi
      <4> QED
        BY <2>6, <4>1 DEF Inv, GlobalInv, AcyclicInv
    <3> QED
      BY <3>1, <3>2
  <2> QED
    BY <2>2, <2>3, <2>4, <2>5, <2>6, BootKeepsInv
<1> QED
  BY <1>1, <1>2 DEF Restart

-----------------------------------------------------------------------------
LEMMA BeginKeepsInv ==
  ASSUME Inv, NEW t \in Task, Begin(t)
  PROVE  Inv'
<1>1. CASE StartSweep(t)
  BY <1>1, StartSweepKeepsInv
<1>2. ASSUME NEW c \in Slot, NEW s \in Slot \cup {Floor}, NEW o \in {"create", "delete", "close"},
             Request(t, o, c, s)
      PROVE  Inv'
  BY <1>2, RequestKeepsInv DEF Operation
<1>3. CASE Request(t, "rotate", Floor, Floor)
  BY <1>3, RequestKeepsInv DEF Operation
<1> QED
  BY <1>1, <1>2, <1>3 DEF Begin

LEMMA TaskStepKeepsInv ==
  ASSUME Inv, NEW t \in Task, TaskStep(t)
  PROVE  Inv'
<1>1. CASE \/ RefuseSource(t) \/ CreateFails(t) \/ Created(t) \/ RollbackSkipped(t)
           \/ NotFound(t) \/ SweepEnds(t) \/ RoomsFail(t)
  BY <1>1, EndsKeepInv
<1>2. CASE AcceptSource(t) \/ OpenAi(t)
  BY <1>2, AcceptSourceKeepsInv, OpenAiKeepsInv
<1>3. CASE ReadyTimeout(t) \/ RotateCommit(t) \/ \E c \in todo[t] : SweepNext(t, c)
  BY <1>3, MovesKeepInv
<1>4. CASE \/ Rollback(t) \/ Delete(t) \/ CascadeStop(t)
           \/ SweepLocked(t) /\ IsAi(ch[t])
  BY <1>4, StopsBeginKeepInv
<1>5. CASE SweepLocked(t)
  BY <1>4, <1>5, MovesKeepInv
<1>6. CASE DeleteHuman(t) \/ HumanRemoved(t)
  BY <1>6, HumanKeepsInv
<1>7. CASE StopThenClose(t) \/ RemoveThenClose(t)
  BY <1>7, ClosingKeepsInv
<1>8. CASE CascadeSkip(t) \/ StopThenRemove(t)
  BY <1>8, CascadeSkipKeepsInv, StopThenRemoveKeepsInv
<1>9. CASE StopAll(t) \/ Reap(t) \/ ReapEnds(t) \/ \E w \in batch[t] : OneStopped(t, w)
  BY <1>9, StopAllKeepsInv, ReapKeepsInv, ReapEndsKeepsInv, OneStoppedKeepsInv
<1> QED
  BY <1>1, <1>2, <1>3, <1>4, <1>5, <1>6, <1>7, <1>8, <1>9, Zenon DEF TaskStep

LEMMA NextKeepsInv == Inv /\ [Next]_vars => Inv'
<1> SUFFICES ASSUME Inv, [Next]_vars
             PROVE  Inv'
  OBVIOUS
<1>1. CASE \E c \in Slot : OpenHuman(c) \/ LeaseReleased(c)
  BY <1>1, OpenHumanKeepsInv, QuietOutside
<1>2. CASE \E t \in Task : Begin(t) \/ TaskStep(t)
  BY <1>2, BeginKeepsInv, TaskStepKeepsInv
<1>3. CASE \E w \in DOMAIN run : WorkerStep(w)
  BY <1>3, QuietOutside, RetryKeepsInv, EndOfTaskKeepsInv DEF WorkerStep
<1>4. CASE Restart
  BY <1>4, RestartKeepsInv
<1>5. CASE UNCHANGED vars
  <2>1. UNCHANGED <<table, manager, tasks, locks, place, local, faults>>
    BY <1>5 DEF vars
  <2>2. Apart(None)
    BY <2>1, OutsideIsApart
  <2>3. TypeOK'
    BY <2>1 DEF Inv, TypeOK, table, manager, tasks, locks, place, local, cascade
  <2>4. Quiet(None)
    BY <2>1, NullFacts DEF Quiet, table, manager, tasks
  <2> QED
    BY <2>2, <2>3, <2>4, NullFacts, QuietKeepsInv
<1> QED
  BY <1>1, <1>2, <1>3, <1>4, <1>5 DEF Next

(* The inductive invariant of the AI channels.                             *)
THEOREM Invariance == Spec => []Inv
BY InitInv, NextKeepsInv, PTL DEF Spec

(* Every supervisor that has not ended is registered, leaked or waited     *)
(* for, and one that was never told to stop is its slot's: ai_channel.py   *)
(* loses no task, whatever times out or is overtaken.                      *)
THEOREM WorkersAreAccounted == Spec => []WorkersAccounted
<1>1. Inv => WorkersAccounted
  BY DEF Inv, GlobalInv, WorkersAccounted
<1> QED
  BY <1>1, Invariance, PTL

(* The table of workers and the rows agree about every slot nobody closes. *)
THEOREM RegistryMatchesRows == Spec => []RowsMatchRegistry
<1>1. Inv => RowsMatchRegistry
  <2> SUFFICES ASSUME Inv, NEW c \in Slot, channelLock[c] = None, \A t \in Task : ~Rotating(t)
               PROVE  registry[c] = OwnWorker(c)
    BY DEF RowsMatchRegistry, OwnWorker
  <2>1. Settled(c)
    BY NullFacts DEF Settled, Inv, Sound, Owns, Rotating, Closing, Draining
  <2> QED
    BY <2>1 DEF Inv, GlobalInv, MatchInv
<1> QED
  BY <1>1, Invariance, PTL

(* A lease held by an AI worker is that of the slot's present channel.     *)
THEOREM LeasesAreOfOwnRows == Spec => []LeaseOfOwnRow
<1>1. Inv => LeaseOfOwnRow
  BY DEF Inv, GlobalInv
<1> QED
  BY <1>1, Invariance, PTL

(* No AI channel interprets itself, directly or through others.            *)
THEOREM ChannelsNeverFeedBack == Spec => []NoFeedback
<1>1. Inv => NoFeedback
  <2> SUFFICES ASSUME Inv, NEW c \in Slot, IsAi(c), NEW W \in SUBSET Slot, row[c].source \in W,
                      \A d \in W \ {c} : IsAi(d) /\ row[d].source \in W
               PROVE  FALSE
    BY DEF NoFeedback, SourceCycle
  <2>1. W \cup {c} \in SUBSET Slot /\ W \cup {c} # {}
    OBVIOUS
  <2>2. \A d \in W \cup {c} : IsAi(d) /\ row[d].source \in W \cup {c}
    OBVIOUS
  <2> QED
    BY <2>1, <2>2 DEF Inv, GlobalInv, AcyclicInv
<1> QED
  BY <1>1, Invariance, PTL

-----------------------------------------------------------------------------
(* What a coroutine can do at the places two action properties speak of.   *)
LEMMA StepsOfRollback ==
  ASSUME NEW t, TaskStep(t), pc[t] = "rollback"
  PROVE  RollbackSkipped(t) \/ Rollback(t)
<1>1. ~(RefuseSource(t) \/ AcceptSource(t) \/ CreateFails(t) \/ OpenAi(t) \/ Created(t)
        \/ ReadyTimeout(t) \/ NotFound(t) \/ Delete(t) \/ DeleteHuman(t) \/ HumanRemoved(t))
  BY
     DEF RefuseSource, AcceptSource, CreateFails, OpenAi, Created, ReadyTimeout, NotFound, Delete,
         DeleteHuman, HumanRemoved
<1>2. ~(SweepEnds(t) \/ SweepLocked(t) \/ (\E c \in todo[t] : SweepNext(t, c))
        \/ CascadeSkip(t) \/ CascadeStop(t) \/ StopThenRemove(t) \/ StopThenClose(t)
        \/ RemoveThenClose(t))
  BY DEF SweepEnds, SweepLocked, SweepNext, CascadeSkip, CascadeStop, CandidateReady,
         StopThenRemove, StopThenClose, RemoveThenClose
<1>3. ~(RoomsFail(t) \/ RotateCommit(t) \/ StopAll(t) \/ Reap(t) \/ ReapEnds(t)
        \/ \E w \in batch[t] : OneStopped(t, w))
  BY DEF RoomsFail, RotateCommit, StopAll, Reap, ReapEnds, OneStopped
<1> QED
  BY <1>1, <1>2, <1>3 DEF TaskStep

LEMMA StepsOfClosing ==
  ASSUME NEW t, TaskStep(t), pc[t] \in {"stop", "remove", "removeHuman", "cascade"}
  PROVE  \/ HumanRemoved(t) \/ CascadeSkip(t) \/ CascadeStop(t)
         \/ StopThenRemove(t) \/ StopThenClose(t) \/ RemoveThenClose(t)
<1>1. ~(RefuseSource(t) \/ AcceptSource(t) \/ CreateFails(t) \/ OpenAi(t) \/ Created(t)
        \/ ReadyTimeout(t) \/ NotFound(t) \/ Delete(t) \/ DeleteHuman(t)
        \/ RollbackSkipped(t) \/ Rollback(t))
  BY
     DEF RefuseSource, AcceptSource, CreateFails, OpenAi, Created, ReadyTimeout, NotFound, Delete,
         DeleteHuman, RollbackSkipped, Rollback
<1>2. ~(SweepEnds(t) \/ SweepLocked(t) \/ (\E c \in todo[t] : SweepNext(t, c)))
  BY DEF SweepEnds, SweepLocked, SweepNext
<1>3. ~(RoomsFail(t) \/ RotateCommit(t) \/ StopAll(t) \/ Reap(t) \/ ReapEnds(t)
        \/ \E w \in batch[t] : OneStopped(t, w))
  BY DEF RoomsFail, RotateCommit, StopAll, Reap, ReapEnds, OneStopped
<1> QED
  BY <1>1, <1>2, <1>3 DEF TaskStep

(* A creation that is answered 503 leaves no worker of its own running.    *)
THEOREM RefusedIsAlwaysStopped == Spec => RefusedIsStopped
<1> DEFINE A == \A t \in Task : pc[t] = "rollback" /\ pc'[t] = "idle" /\ TaskStep(t) =>
                  mine[t] \notin DOMAIN run \ stopped
<1>1. Inv /\ [Next]_vars => [A]_vars
  <2> SUFFICES ASSUME Inv, NEW t \in Task, pc[t] = "rollback", pc'[t] = "idle", TaskStep(t),
                      mine[t] \in DOMAIN run \ stopped
               PROVE  FALSE
    OBVIOUS
  <2>1. ~Rollback(t)
    BY DEF Rollback, BeginStop, Inv, TypeOK
  <2>2. RollbackSkipped(t)
    BY <2>1, StepsOfRollback
  <2>3. mine[t].slot = ch[t] /\ mine[t] # None /\ ch[t] \in Slot
    BY DEF Inv, Sound, PlaceOf, Located
  <2>4. registry[ch[t]] = mine[t] /\ mine[t] = OwnWorker(ch[t])
    BY <2>3, UntoldIsOwn
  <2> QED
    BY <2>2, <2>3, <2>4 DEF RollbackSkipped, StillMine, OwnWorker
<1> HIDE DEF A
<1>2. Spec => [][A]_vars
  BY <1>1, Invariance, PTL DEF Spec
<1> QED
  BY <1>2, PTL DEF A, RefusedIsStopped

(* When a DELETE is answered its cascade has reached every channel that    *)
(* interpreted, directly or through others, the one it closed.             *)
THEOREM DeletesReachAll == Spec => DeleteReachesAll
<1> DEFINE A == \A t \in Task :
                  /\ op[t] \in {"delete", "close"} /\ op'[t] = "none"
                  /\ pc[t] \in {"stop", "remove", "removeHuman", "cascade"} /\ row'[ch[t]] = Closed
                  /\ TaskStep(t)
                  => Dependents(row', {ch[t]} \cup wave[t] \cup seen[t]) = {}
<1>1. Inv /\ [Next]_vars => [A]_vars
  <2> SUFFICES ASSUME Inv, NEW t \in Task, op[t] \in {"delete", "close"}, op'[t] = "none",
                      pc[t] \in {"stop", "remove", "removeHuman", "cascade"},
                      row'[ch[t]] = Closed, TaskStep(t)
               PROVE  Dependents(row', {ch[t]} \cup wave[t] \cup seen[t]) = {}
    OBVIOUS
  <2>1. ~CascadeStop(t) /\ ~StopThenRemove(t)
    BY DEF CascadeStop, StopThenRemove, BeginStop, Goto
  <2>2. CASE Close(t) /\ pc[t] # "cascade"
    <3>1. PICK w \in SUBSET Slot, x \in SUBSET Slot, d \in SUBSET Slot, c \in SUBSET Slot :
            /\ ch[t] \in x /\ wave[t] \subseteq w /\ seen[t] \subseteq d
            /\ CascadeHolds(t, w, x, d, c)
            /\ CascadeOn(t, [row EXCEPT ![ch[t]] = Closed], w, x, d, c)
      BY <2>2, CloseHolds DEF Closing
    <3>2. row' = [row EXCEPT ![ch[t]] = Closed]
      BY <2>2 DEF Close
    <3>3. Dependents(row', x \cup w \cup d) = {}
      BY <3>1, <3>2, CascadeReachesAll
    <3> QED
      BY <3>1, <3>3 DEF Dependents
  <2>3. CASE CascadeSkip(t)
    <3> DEFINE c == cand[t] \ {NextCandidate(t)}
    <3>1. /\ wave[t] \in SUBSET Slot /\ next[t] \in SUBSET Slot /\ seen[t] \in SUBSET Slot
          /\ c \in SUBSET Slot
      BY DEF Inv, TypeOK
    <3>2. /\ CascadeHolds(t, wave[t], next[t], seen[t], c)
          /\ CascadeOn(t, row, wave[t], next[t], seen[t], c) /\ row' = row
      BY <2>3, CascadeSkipHolds
    <3> HIDE DEF c
    <3>3. Dependents(row', next[t] \cup wave[t] \cup seen[t]) = {}
      BY <3>1, <3>2, CascadeReachesAll
    <3>4. ch[t] \in next[t] \cup wave[t] \cup seen[t]
      BY <3>2 DEF CascadeHolds
    <3> QED
      BY <3>3, <3>4 DEF Dependents
  <2>4. CASE HumanRemoved(t) /\ ~Close(t)
    <3>1. row' = row /\ row[ch[t]].kind = "human"
      BY <2>4 DEF HumanRemoved, table, Inv, Sound, Checked
    <3> QED
      BY <3>1, ClosedRow
  <2> QED
    BY <2>1, <2>2, <2>3, <2>4, StepsOfClosing
       DEF HumanRemoved, StopThenClose, RemoveThenClose
<1> HIDE DEF A
<1>2. Spec => [][A]_vars
  BY <1>1, Invariance, PTL DEF Spec
<1> QED
  BY <1>2, PTL DEF A, DeleteReachesAll
=============================================================================
