----------------------------- MODULE AiChannels -----------------------------
(***************************************************************************)
(* The life of AI interpretation channels: the rows that say which slots   *)
(* are open and from which source channel an AI channel interprets, the    *)
(* AiChannelManager with one supervisor per open AI channel, and the       *)
(* coroutines that open and close them: POST and DELETE /ai-channels,      *)
(* DELETE /channels, the cascade to dependent channels, the idle sweep and *)
(* the rotation of the send password.                                      *)
(*                                                                         *)
(* A step is what a coroutine does between two awaits.  A coroutine that   *)
(* waits for a lock nobody holds may be overtaken here; asyncio would let  *)
(* it run on.  Passwords and rooms are the matter of RelayControl.         *)
(***************************************************************************)
EXTENDS Integers, FiniteSets

CONSTANTS
  Task,     \* coroutines that may be in flight together
  None,     \* no worker, no owner of a lock
  MaxSlot,  \* max_channels: slots 1..MaxSlot; Floor, 0, is always a source
  MaxOpen,  \* bound: rows ever opened
  MaxFaults, \* bound: crashes of workers and leases released by webhooks
  MaxStuck  \* bound: tasks among the leaked ones when one more is added

ASSUME ConstantsAssumption ==
  /\ MaxSlot \in Nat /\ MaxOpen \in Nat /\ MaxFaults \in Nat /\ MaxStuck \in Nat
  /\ None \notin Task /\ None \notin [slot : 1..MaxSlot, n : 1..MaxOpen]

Floor == 0
Slot == 1..MaxSlot

(* One AiTranslateChannel object, named by its slot and the opening of the *)
(* row it was started for.                                                 *)
Worker == [slot : Slot, n : 1..MaxOpen]

(* A row: nothing is read of a closed one.  born counts the openings; no   *)
(* guard reads it.                                                         *)
Closed == [kind |-> "closed", born |-> 0, source |-> Floor]
Row == [kind : {"closed", "human", "ai"}, born : 0..MaxOpen,
        source : Slot \cup {Floor}]

RunState == {"running", "backoff"}
Operation == {"create", "delete", "close", "sweep", "rotate", "none"}
Pc == {"idle", "lock", "ensure", "ready", "rollback", "stop",
       "remove", "removeHuman", "cascade", "sweep", "rooms", "stopAll",
       "stopping", "reap"}

VARIABLES
  row,          \* the channels table
  opened,       \* history: rows opened so far
  lease,        \* the AI worker whose identity the lease of a slot names
  registry,     \* AiChannelManager._channels
  leaked,       \* AiChannelManager._leaked, without the tasks that ended in it
  run,          \* supervisors whose task has not ended -> what it does
  stopped,      \* those of them told to stop and cancelled
  ready,        \* supervisors whose ready event is set for a creation that waits
  rotationLock, channelLock,
  pc, op,       \* a coroutine's place and operation
  ch, src,      \* the slot and the source channel it works on
  mine,         \* the supervisor it started or stops
  seenLease,    \* the lease a sweep read
  todo,         \* slots it still has to look at
  wave,         \* _close_dependent_ai_channels: frontier, {} outside of it
  cand,         \* the same function's candidates that are left
  next, seen,   \* the same function's nxt and seen
  batch,        \* supervisors AiChannelManager.close waits for
  faults,       \* history: crashes and releases so far
  born          \* history: opening of the row it decided to close

table    == <<row, opened, lease>>
manager  == <<registry, leaked>>
tasks    == <<run, stopped, ready>>
locks    == <<rotationLock, channelLock>>
cascade  == <<wave, cand, next, seen>>
place    == <<pc, op, ch, src>>
local    == <<mine, seenLease, todo, cascade, batch, born>>
vars == <<table, manager, tasks, locks, place, local, faults>>

Init ==
  /\ row = [c \in Slot |-> Closed] /\ opened = 0
  /\ lease = [c \in Slot |-> None]
  /\ registry = [c \in Slot |-> None] /\ leaked = {}
  /\ run = [w \in {} |-> "running"] /\ stopped = {} /\ ready = {}
  /\ rotationLock = None /\ channelLock = [c \in Slot |-> None]
  /\ pc = [t \in Task |-> "idle"] /\ op = [t \in Task |-> "none"]
  /\ ch = [t \in Task |-> Floor] /\ src = [t \in Task |-> Floor]
  /\ mine = [t \in Task |-> None] /\ seenLease = [t \in Task |-> None]
  /\ todo = [t \in Task |-> {}]
  /\ wave = [t \in Task |-> {}] /\ cand = [t \in Task |-> {}]
  /\ next = [t \in Task |-> {}] /\ seen = [t \in Task |-> {}]
  /\ batch = [t \in Task |-> {}]
  /\ born = [t \in Task |-> 0]
  /\ faults = 0

-----------------------------------------------------------------------------
(* Helpers. *)

Alive(w) == w \in DOMAIN run

IsOpen(c) == row[c].kind # "closed"
IsAi(c) == row[c].kind = "ai"
Least(S) == CHOOSE c \in S : \A d \in S : c <= d

(* list_open_ai_channels_by_source, over the rows r. *)
Dependents(r, S) == {c \in Slot : r[c].kind = "ai" /\ r[c].source \in S}

(* _ai_source_cycle: the walk from s along the sources of open AI rows     *)
(* comes to c or never ends, that is, there is a set of slots it stays in. *)
SourceCycle(c, s) ==
  \E W \in SUBSET Slot : s \in W /\ \A d \in W \ {c} : IsAi(d) /\ row[d].source \in W

Unlocked(t) ==
  /\ rotationLock' = IF rotationLock = t THEN None ELSE rotationLock
  /\ channelLock' = [c \in Slot |-> IF channelLock[c] = t THEN None ELSE channelLock[c]]

ForgetWorker(t) ==
  /\ mine' = [mine EXCEPT ![t] = None] /\ seenLease' = [seenLease EXCEPT ![t] = None]
  /\ born' = [born EXCEPT ![t] = 0]

(* The coroutine ends and releases what it holds. *)
Forget(t) ==
  /\ pc' = [pc EXCEPT ![t] = "idle"] /\ op' = [op EXCEPT ![t] = "none"]
  /\ ch' = [ch EXCEPT ![t] = Floor] /\ src' = [src EXCEPT ![t] = Floor]
  /\ ForgetWorker(t)
  /\ todo' = [todo EXCEPT ![t] = {}]
  /\ wave' = [wave EXCEPT ![t] = {}] /\ cand' = [cand EXCEPT ![t] = {}]
  /\ next' = [next EXCEPT ![t] = {}] /\ seen' = [seen EXCEPT ![t] = {}]
  /\ batch' = [batch EXCEPT ![t] = {}]

Finish(t) == Forget(t) /\ Unlocked(t)

Goto(t, l) == pc' = [pc EXCEPT ![t] = l] /\ UNCHANGED <<op, ch, src>>

-----------------------------------------------------------------------------
(* A person's channel: POST /channels takes no lock.                       *)
OpenHuman(c) ==
  /\ ~IsOpen(c) /\ opened < MaxOpen
  /\ opened' = opened + 1
  /\ row' = [row EXCEPT ![c] = [kind |-> "human", born |-> opened + 1,
                                source |-> Floor]]
  /\ UNCHANGED <<lease, manager, tasks, locks, place, local, faults>>

(* A request takes the rotation lock.  One that waits for it has read      *)
(* nothing yet, and one that would find nothing to do changes nothing.  A  *)
(* creation takes the lowest free slot.                                    *)
LowestFree(c) == ~IsOpen(c) /\ \A d \in Slot : d < c => IsOpen(d)

Request(t, o, c, s) ==
  /\ pc[t] = "idle" /\ rotationLock = None
  /\ rotationLock' = t
  /\ pc' = [pc EXCEPT ![t] = IF o = "rotate" THEN "rooms" ELSE "lock"]
  /\ op' = [op EXCEPT ![t] = o]
  /\ ch' = [ch EXCEPT ![t] = c] /\ src' = [src EXCEPT ![t] = s]
  /\ UNCHANGED <<table, manager, tasks, channelLock, local, faults>>

(* The timer of the only idle sweep: it takes its list of AI channels, and *)
(* has nothing to do without one.                                          *)
StartSweep(t) ==
  /\ pc[t] = "idle" /\ \A q \in Task : op[q] # "sweep"
  /\ \E d \in Slot : IsAi(d)
  /\ pc' = [pc EXCEPT ![t] = "sweep"] /\ op' = [op EXCEPT ![t] = "sweep"]
  /\ todo' = [todo EXCEPT ![t] = {d \in Slot : IsAi(d)}]
  /\ UNCHANGED <<ch, src, table, manager, tasks, locks, mine, seenLease, cascade, batch,
                 born, faults>>

ChannelLockFree(t) == channelLock[ch[t]] = None

-----------------------------------------------------------------------------
(* POST /ai-channels. *)

(* Under the channel lock: another source, one that is open, no cycle. *)
Fault_NoCycleCheck(t) ==
  /\ src[t] # ch[t]
  /\ src[t] # Floor => IsOpen(src[t])
SourceAccepted(t) ==
  /\ src[t] # ch[t]
  /\ src[t] # Floor => IsOpen(src[t])
  /\ ~SourceCycle(ch[t], src[t])

RefuseSource(t) ==
  /\ pc[t] = "lock" /\ op[t] = "create" /\ ChannelLockFree(t)
  /\ ~SourceAccepted(t)
  /\ Finish(t)
  /\ UNCHANGED <<table, manager, tasks, faults>>

AcceptSource(t) ==
  /\ pc[t] = "lock" /\ op[t] = "create" /\ ChannelLockFree(t)
  /\ SourceAccepted(t)
  /\ channelLock' = [channelLock EXCEPT ![ch[t]] = t]
  /\ Goto(t, "ensure")
  /\ UNCHANGED <<table, manager, tasks, rotationLock, local, faults>>

(* ensure_room fails, or a person's channel took the slot meanwhile.       *)
CreateFails(t) ==
  /\ pc[t] = "ensure"
  /\ Finish(t)
  /\ UNCHANGED <<table, manager, tasks, faults>>

(* create_channel, acquire_lease and AiChannelManager.start; the locks are *)
(* released before the wait for the worker.                                *)
OpenAi(t) ==
  /\ pc[t] = "ensure" /\ ~IsOpen(ch[t]) /\ opened < MaxOpen
  /\ LET c == ch[t]
         w == [slot |-> c, n |-> opened + 1]
     IN  /\ row' = [row EXCEPT ![c] = [kind |-> "ai", born |-> opened + 1,
                                source |-> src[t]]]
         /\ opened' = opened + 1
         /\ lease' = [lease EXCEPT ![c] = w]
         /\ registry' = [registry EXCEPT ![c] = w]
         /\ run' = [v \in DOMAIN run \cup {w} |-> IF v = w THEN "running" ELSE run[v]]
         /\ mine' = [mine EXCEPT ![t] = w]
  /\ Unlocked(t)
  /\ pc' = [pc EXCEPT ![t] = "ready"] /\ src' = [src EXCEPT ![t] = Floor]
  /\ UNCHANGED <<op, ch, leaked, stopped, ready, seenLease, todo, cascade, batch,
                 born, faults>>

Created(t) ==
  /\ pc[t] = "ready" /\ mine[t] \in ready
  /\ ready' = ready \ {mine[t]}
  /\ Finish(t)
  /\ UNCHANGED <<table, manager, run, stopped, faults>>

ReadyTimeout(t) ==
  /\ pc[t] = "ready" /\ mine[t] \notin ready
  /\ Goto(t, "rollback")
  /\ UNCHANGED <<table, manager, tasks, locks, local, faults>>

(* The slot is rolled back only if it is still the one of this creation.   *)
Fault_LeaseStillMine(t) == lease[ch[t]] = mine[t]
StillMine(t) == registry[ch[t]] = mine[t] /\ IsAi(ch[t])

RollbackSkipped(t) ==
  /\ pc[t] = "rollback" /\ ChannelLockFree(t)
  /\ ~StillMine(t)
  /\ Finish(t)
  /\ UNCHANGED <<table, manager, tasks, faults>>

-----------------------------------------------------------------------------
(* Stopping a worker and closing its row: the same for every coroutine.    *)

(* AiChannelManager.stop, up to its await, with the channel lock of c in   *)
(* hand: the supervisor registered now is told to stop and cancelled.      *)
Cancel(S) == stopped' = stopped \cup {w \in S : Alive(w)}

BeginStop(t, c) ==
  /\ channelLock' = [channelLock EXCEPT ![c] = t]
  /\ mine' = [mine EXCEPT ![t] = registry[c]]
  /\ seenLease' = [seenLease EXCEPT ![t] = IF op[t] = "sweep" THEN lease[c] ELSE None]
  /\ born' = [born EXCEPT ![t] = row[c].born]
  /\ Cancel({registry[c]})
  /\ ch' = [ch EXCEPT ![t] = c]
  /\ pc' = [pc EXCEPT ![t] = "stop"]
  /\ UNCHANGED <<op, src, rotationLock>>

Rollback(t) ==
  /\ pc[t] = "rollback" /\ ChannelLockFree(t)
  /\ StillMine(t)
  /\ BeginStop(t, ch[t])
  /\ UNCHANGED <<table, manager, run, ready, todo, cascade, batch, faults>>

(* DELETE: the row is read again under the locks. *)
Deletable(t) == IF op[t] = "delete" THEN IsAi(ch[t]) ELSE IsOpen(ch[t])

NotFound(t) ==
  /\ pc[t] = "lock" /\ op[t] \in {"delete", "close"} /\ ChannelLockFree(t)
  /\ ~Deletable(t)
  /\ Finish(t)
  /\ UNCHANGED <<table, manager, tasks, faults>>

Delete(t) ==
  /\ pc[t] = "lock" /\ op[t] \in {"delete", "close"} /\ ChannelLockFree(t)
  /\ Deletable(t) /\ IsAi(ch[t])
  /\ BeginStop(t, ch[t])
  /\ UNCHANGED <<table, manager, run, ready, todo, cascade, batch, faults>>

(* The sweep goes on to a registered channel that has been idle for ten    *)
(* minutes and skips those before it.                                      *)
SweepNext(t, c) ==
  /\ pc[t] = "sweep" /\ c \in todo[t] /\ registry[c] # None
  /\ todo' = [todo EXCEPT ![t] = {d \in @ : d > c}]
  /\ ch' = [ch EXCEPT ![t] = c]
  /\ pc' = [pc EXCEPT ![t] = "lock"]
  /\ UNCHANGED <<op, src, table, manager, tasks, locks, mine, seenLease, cascade,
                 batch, born, faults>>

SweepEnds(t) ==
  /\ pc[t] = "sweep"
  /\ Finish(t)
  /\ UNCHANGED <<table, manager, tasks, faults>>

SweepLocked(t) ==
  /\ pc[t] = "lock" /\ op[t] = "sweep" /\ ChannelLockFree(t)
  /\ IF IsAi(ch[t])
     THEN BeginStop(t, ch[t])
     ELSE Goto(t, "sweep") /\ UNCHANGED <<locks, mine, seenLease, born, stopped>>
  /\ UNCHANGED <<table, manager, run, ready, todo, cascade, batch, faults>>

(* _close_dependent_ai_channels with the rows r, the frontier w, the       *)
(* channels x this level closed, all it closed, d, and the candidates c    *)
(* left of the level.  At its end a sweep goes on to its next channel and  *)
(* a request is answered.                                                  *)
CascadeOn(t, r, w, x, d, c) ==
  LET left == IF c = {} THEN Dependents(r, x) \ d ELSE c
  IN  IF left # {}
      THEN /\ wave' = [wave EXCEPT ![t] = IF c = {} THEN x ELSE w]
           /\ next' = [next EXCEPT ![t] = IF c = {} THEN {} ELSE x]
           /\ seen' = [seen EXCEPT ![t] = d]
           /\ cand' = [cand EXCEPT ![t] = left]
           /\ channelLock' = [k \in Slot |-> IF channelLock[k] = t THEN None
                                                                   ELSE channelLock[k]]
           /\ Goto(t, "cascade")
           /\ ForgetWorker(t)
           /\ UNCHANGED <<rotationLock, todo, batch>>
      ELSE IF op[t] = "sweep"
      THEN /\ wave' = [wave EXCEPT ![t] = {}] /\ next' = [next EXCEPT ![t] = {}]
           /\ seen' = [seen EXCEPT ![t] = {}] /\ cand' = [cand EXCEPT ![t] = {}]
           /\ Unlocked(t)
           /\ Goto(t, "sweep")
           /\ ForgetWorker(t)
           /\ UNCHANGED <<todo, batch>>
      ELSE Finish(t)

(* A candidate is taken in ascending order, with its own channel lock, and *)
(* only if it still interprets a channel of the frontier.                  *)
NextCandidate(t) == Least(cand[t])
CandidateReady(t) ==
  pc[t] = "cascade" /\ channelLock[NextCandidate(t)] = None

Fault_LastClosed(t, c) == IsAi(c) /\ row[c].source = ch[t]
Depends(t, c) == IsAi(c) /\ row[c].source \in wave[t]

CascadeSkip(t) ==
  /\ CandidateReady(t)
  /\ ~Depends(t, NextCandidate(t))
  /\ CascadeOn(t, row, wave[t], next[t], seen[t], cand[t] \ {NextCandidate(t)})
  /\ UNCHANGED <<table, manager, tasks, faults>>

CascadeStop(t) ==
  /\ CandidateReady(t)
  /\ Depends(t, NextCandidate(t))
  /\ BeginStop(t, NextCandidate(t))
  /\ cand' = [cand EXCEPT ![t] = @ \ {NextCandidate(t)}]
  /\ UNCHANGED <<table, manager, run, ready, todo, wave, next, seen, batch, faults>>

(* The supervisor w has ended, or five seconds have passed: it is taken    *)
(* out of the table, and kept among the leaked ones while its task lives.  *)
Fault_LeakForgotten(w) == UNCHANGED leaked
Leak(w) ==
  /\ Alive(w) => Cardinality(leaked) < MaxStuck
  /\ leaked' = IF Alive(w) THEN leaked \cup {w} ELSE leaked

Fault_NotTakenOut(c, w) ==
  IF w = None THEN UNCHANGED manager ELSE UNCHANGED registry /\ Leak(w)
Stopped(c, w) ==
  IF w = None THEN UNCHANGED manager
              ELSE registry' = [registry EXCEPT ![c] = None] /\ Leak(w)

(* db.close_channel of whatever row has the slot now, then the cascade.    *)
Close(t) ==
  LET c == ch[t]
      r == [row EXCEPT ![c] = Closed]
  IN  /\ row' = r
      /\ lease' = [lease EXCEPT ![c] = None]
      /\ IF wave[t] = {}
         THEN CascadeOn(t, r, {}, {c}, {}, {})
         ELSE CascadeOn(t, r, wave[t], next[t] \cup {c}, seen[t] \cup {c}, cand[t])
      /\ UNCHANGED <<opened, faults>>

(* The sweep read the lease before it stopped the worker, everybody else   *)
(* reads it now; if there is one its participant is removed, and whether   *)
(* that works makes no difference.                                         *)
LeaseToRemove(t) ==
  IF op[t] = "sweep" /\ wave[t] = {} THEN seenLease[t] ELSE lease[ch[t]]

StopThenRemove(t) ==
  /\ pc[t] = "stop" /\ LeaseToRemove(t) # None
  /\ Stopped(ch[t], mine[t])
  /\ Goto(t, "remove")
  /\ UNCHANGED <<table, tasks, locks, local, faults>>

StopThenClose(t) ==
  /\ pc[t] = "stop" /\ LeaseToRemove(t) = None
  /\ Stopped(ch[t], mine[t])
  /\ Close(t)
  /\ UNCHANGED tasks

RemoveThenClose(t) ==
  /\ pc[t] = "remove"
  /\ Close(t)
  /\ UNCHANGED <<manager, tasks>>

(* DELETE of a person's channel: the row is closed when nobody holds it or *)
(* its holder could be removed.                                            *)
DeleteHuman(t) ==
  /\ pc[t] = "lock" /\ op[t] = "close" /\ ChannelLockFree(t)
  /\ row[ch[t]].kind = "human"
  /\ \/ Close(t)
     \/ /\ channelLock' = [channelLock EXCEPT ![ch[t]] = t]
        /\ born' = [born EXCEPT ![t] = row[ch[t]].born]
        /\ Goto(t, "removeHuman")
        /\ UNCHANGED <<table, rotationLock, mine, seenLease, todo, cascade, batch, faults>>
  /\ UNCHANGED <<manager, tasks>>

HumanRemoved(t) ==
  /\ pc[t] = "removeHuman"
  /\ Close(t) \/ (Finish(t) /\ UNCHANGED <<table, faults>>)
  /\ UNCHANGED <<manager, tasks>>

-----------------------------------------------------------------------------
(* Rotation of the send password: rooms, commit, stop of all the workers.  *)

RoomsFail(t) ==
  /\ pc[t] = "rooms"
  /\ Finish(t)
  /\ UNCHANGED <<table, manager, tasks, faults>>

RotateCommit(t) ==
  /\ pc[t] = "rooms"
  /\ lease' = [c \in Slot |-> None]
  /\ Goto(t, "stopAll")
  /\ UNCHANGED <<row, opened, manager, tasks, locks, local, faults>>

(* AiChannelManager.close stops all that are registered, in parallel.      *)
StopAll(t) ==
  LET all == {registry[c] : c \in Slot} \ {None}
  IN  /\ pc[t] = "stopAll"
      /\ batch' = [batch EXCEPT ![t] = all]
      /\ Cancel(all)
      /\ Goto(t, "stopping")
      /\ UNCHANGED <<table, manager, run, ready, locks, mine, seenLease, todo, cascade,
                     born, faults>>

OneStopped(t, w) ==
  /\ pc[t] = "stopping" /\ w \in batch[t]
  /\ Stopped(w.slot, w)
  /\ batch' = [batch EXCEPT ![t] = @ \ {w}]
  /\ UNCHANGED <<table, tasks, locks, place, mine, seenLease, todo, cascade, born, faults>>

(* _reap_leaked takes the leaked set and puts back what does not end ...   *)
Reap(t) ==
  /\ pc[t] = "stopping" /\ batch[t] = {} /\ leaked # {}
  /\ batch' = [batch EXCEPT ![t] = leaked]
  /\ leaked' = {}
  /\ Goto(t, "reap")
  /\ UNCHANGED <<table, registry, tasks, locks, mine, seenLease, todo, cascade, born,
                 faults>>

(* ... and close_open_ai_channels closes every AI row. *)
ReapEnds(t) ==
  /\ pc[t] = "reap" \/ (pc[t] = "stopping" /\ batch[t] = {} /\ leaked = {})
  /\ leaked' = leaked \cup {w \in batch[t] : Alive(w)}
  /\ row' = [c \in Slot |-> IF IsAi(c) THEN Closed ELSE row[c]]
  /\ lease' = [c \in Slot |-> IF IsAi(c) THEN None ELSE lease[c]]
  /\ Finish(t)
  /\ UNCHANGED <<opened, registry, tasks, faults>>

-----------------------------------------------------------------------------
(* Supervisors, and the webhooks that release leases. *)

Others == <<manager, locks, place, local>>
Fault == faults < MaxFaults /\ faults' = faults + 1

Connect(w) ==
  /\ run[w] = "running" /\ w \notin stopped \cup ready
  /\ \E t \in Task : pc[t] = "ready" /\ mine[t] = w
  /\ ready' = ready \cup {w}
  /\ UNCHANGED <<table, run, stopped, faults, Others>>

Crash(w) ==
  /\ run[w] = "running" /\ w \notin stopped
  /\ Fault
  /\ run' = [run EXCEPT ![w] = "backoff"]
  /\ UNCHANGED <<table, stopped, ready, Others>>

(* After the backoff ai_token_provider overwrites the lease of the slot,   *)
(* with no lock, if its row is an open AI channel; otherwise it raises and *)
(* the supervisor backs off again.                                         *)
Fault_StopUnseen(w) == run[w] = "backoff"
MayRetry(w) == run[w] = "backoff" /\ w \notin stopped

Retry(w) ==
  /\ MayRetry(w) /\ IsAi(w.slot)
  /\ run' = [run EXCEPT ![w] = "running"]
  /\ lease' = [lease EXCEPT ![w.slot] = w]
  /\ UNCHANGED <<row, opened, stopped, ready, faults, Others>>

(* A cancelled task ends, sooner or later or never. *)
End(w) ==
  /\ w \in stopped
  /\ run' = [v \in DOMAIN run \ {w} |-> run[v]]
  /\ stopped' = stopped \ {w}
  /\ leaked' = leaked \ {w}
  /\ UNCHANGED <<table, ready, registry, locks, place, local, faults>>

LeaseReleased(c) ==
  /\ lease[c] # None
  /\ Fault
  /\ lease' = [lease EXCEPT ![c] = None]
  /\ UNCHANGED <<row, opened, tasks, Others>>

-----------------------------------------------------------------------------
(* The process ends anywhere and boots with the rows it finds: those of AI *)
(* channels get a worker and a lease again, except where that fails, and   *)
(* all are closed when the generation changed.  A row may have been        *)
(* committed when its worker was not started yet.                          *)
Boot(r) ==
  \E K \in SUBSET {c \in Slot : r[c].kind = "ai"} :
    LET worker == [c \in K |-> [slot |-> c, n |-> r[c].born]]
    IN  /\ row' = [c \in Slot |-> IF r[c].kind = "ai" /\ c \notin K THEN Closed ELSE r[c]]
        /\ lease' = [c \in Slot |-> IF c \in K THEN worker[c] ELSE None]
        /\ registry' = lease'
        /\ run' = [w \in {worker[c] : c \in K} |-> "running"]
        /\ leaked' = {} /\ stopped' = {} /\ ready' = {}
        /\ rotationLock' = None /\ channelLock' = [c \in Slot |-> None]
        /\ pc' = [t \in Task |-> "idle"] /\ op' = [t \in Task |-> "none"]
        /\ ch' = [t \in Task |-> Floor] /\ src' = [t \in Task |-> Floor]
        /\ mine' = [t \in Task |-> None] /\ seenLease' = [t \in Task |-> None]
        /\ todo' = [t \in Task |-> {}]
        /\ wave' = [t \in Task |-> {}] /\ cand' = [t \in Task |-> {}]
        /\ next' = [t \in Task |-> {}] /\ seen' = [t \in Task |-> {}]
        /\ batch' = [t \in Task |-> {}]
        /\ born' = [t \in Task |-> 0]
        /\ UNCHANGED faults

Restart ==
  \/ Boot(row) /\ UNCHANGED opened
  \/ \E t \in Task :
       /\ pc[t] = "ensure" /\ ~IsOpen(ch[t]) /\ opened < MaxOpen
       /\ Boot([row EXCEPT ![ch[t]] = [kind |-> "ai", born |-> opened + 1,
                                      source |-> src[t]]])
       /\ opened' = opened + 1

-----------------------------------------------------------------------------
Begin(t) ==
  \/ StartSweep(t)
  \/ \E c \in Slot :
       \/ LowestFree(c) /\ \E s \in Slot \cup {Floor} : Request(t, "create", c, s)
       \/ IsAi(c) /\ Request(t, "delete", c, Floor)
       \/ IsOpen(c) /\ Request(t, "close", c, Floor)
  \/ (\E c \in Slot : IsAi(c)) /\ Request(t, "rotate", Floor, Floor)

TaskStep(t) ==
  \/ RefuseSource(t) \/ AcceptSource(t) \/ CreateFails(t) \/ OpenAi(t)
  \/ Created(t) \/ ReadyTimeout(t) \/ RollbackSkipped(t) \/ Rollback(t)
  \/ NotFound(t) \/ Delete(t) \/ DeleteHuman(t) \/ HumanRemoved(t)
  \/ SweepEnds(t) \/ SweepLocked(t) \/ \E c \in todo[t] : SweepNext(t, c)
  \/ CascadeSkip(t) \/ CascadeStop(t)
  \/ StopThenRemove(t) \/ StopThenClose(t) \/ RemoveThenClose(t)
  \/ RoomsFail(t) \/ RotateCommit(t) \/ StopAll(t) \/ Reap(t) \/ ReapEnds(t)
  \/ \E w \in batch[t] : OneStopped(t, w)

WorkerStep(w) == Connect(w) \/ Crash(w) \/ Retry(w) \/ End(w)

Next ==
  \/ \E c \in Slot : OpenHuman(c) \/ LeaseReleased(c)
  \/ \E t \in Task : Begin(t) \/ TaskStep(t)
  \/ \E w \in DOMAIN run : WorkerStep(w)
  \/ Restart

Spec == Init /\ [][Next]_vars

-----------------------------------------------------------------------------
(* Properties. *)

(* Every variable keeps its type. *)
TypeOK ==
  /\ row \in [Slot -> Row] /\ opened \in 0..MaxOpen
  /\ lease \in [Slot -> Worker \cup {None}]
  /\ registry \in [Slot -> Worker \cup {None}] /\ leaked \subseteq DOMAIN run
  /\ DOMAIN run \subseteq Worker /\ run \in [DOMAIN run -> RunState]
  /\ stopped \subseteq DOMAIN run /\ ready \subseteq Worker
  /\ rotationLock \in Task \cup {None}
  /\ channelLock \in [Slot -> Task \cup {None}]
  /\ pc \in [Task -> Pc] /\ op \in [Task -> Operation]
  /\ ch \in [Task -> Slot \cup {Floor}] /\ src \in [Task -> Slot \cup {Floor}]
  /\ mine \in [Task -> Worker \cup {None}]
  /\ seenLease \in [Task -> Worker \cup {None}]
  /\ todo \in [Task -> SUBSET Slot] /\ cand \in [Task -> SUBSET Slot]
  /\ wave \in [Task -> SUBSET Slot] /\ next \in [Task -> SUBSET Slot]
  /\ seen \in [Task -> SUBSET Slot]
  /\ batch \in [Task -> SUBSET Worker]
  /\ born \in [Task -> 0..MaxOpen]
  /\ faults \in 0..MaxFaults

(* No supervisor runs on, and pays for a session, outside the manager's    *)
(* table: one that was never told to stop is registered for its slot.      *)
NoRunaway == \A w \in DOMAIN run : w \notin stopped => registry[w.slot] = w

(* A supervisor whose task has not ended is registered, among the leaked   *)
(* ones, or in the hands of a coroutine that waits for its end.            *)
EveryTaskTracked ==
  \A w \in DOMAIN run :
    \/ registry[w.slot] = w
    \/ w \in leaked
    \/ \E t \in Task : w \in batch[t] \/ (pc[t] = "stop" /\ mine[t] = w)

(* Both at once, and every variable of its type: whatever coroutine stops, *)
(* times out or is overtaken, a supervisor is accounted for until it ends. *)
WorkersAccounted == TypeOK /\ NoRunaway /\ EveryTaskTracked

(* The table of workers and the table of channels agree whenever nobody    *)
(* works on the slot: an open AI channel has its own supervisor and a      *)
(* closed or a person's channel has none.                                  *)
Rotating(t) == pc[t] \in {"stopAll", "stopping", "reap"}
RowsMatchRegistry ==
  \A c \in Slot :
    (channelLock[c] = None /\ \A t \in Task : ~Rotating(t)) =>
      registry[c] = IF IsAi(c) THEN [slot |-> c, n |-> row[c].born] ELSE None

(* The token provider writes leases without a lock: still a lease that an  *)
(* AI worker holds is always that of the slot's present AI channel.        *)
LeaseOfOwnRow ==
  \A c \in Slot : lease[c] # None =>
    IsAi(c) /\ lease[c] = [slot |-> c, n |-> row[c].born]

(* No AI channel interprets, directly or through others, itself, in        *)
(* whatever order slots are closed and used again.                         *)
NoFeedback == \A c \in Slot : IsAi(c) => ~SourceCycle(c, row[c].source)

(* A creation answered 503 leaves no worker of its own running: when the   *)
(* rollback finds the slot in other hands, its worker was stopped before.  *)
RefusedIsStopped ==
  [][\A t \in Task : pc[t] = "rollback" /\ pc'[t] = "idle" /\ TaskStep(t) =>
       mine[t] \notin DOMAIN run \ stopped]_vars

(* When a DELETE is answered, with the rotation lock in its hands all the  *)
(* time, no AI channel interprets a slot of its cascade any more.          *)
DeleteReachesAll ==
  [][\A t \in Task :
       /\ op[t] \in {"delete", "close"} /\ op'[t] = "none"
       /\ pc[t] \in {"stop", "remove", "removeHuman", "cascade"} /\ row'[ch[t]] = Closed
       /\ TaskStep(t)
       => Dependents(row', {ch[t]} \cup wave[t] \cup seen[t]) = {}]_vars

-----------------------------------------------------------------------------
(* What comments say and the code does not do. *)

(* A coroutine closes only the row it decided to close: the slot may have  *)
(* been given to somebody else while it waited.                            *)
OnlyOwnRowClosed ==
  [][\A t \in Task :
       (pc[t] \in {"stop", "remove"} /\ row[ch[t]] # row'[ch[t]] /\ row'[ch[t]] = Closed
          /\ TaskStep(t))
         => row[ch[t]].born = born[t]]_vars

(* The source of an AI channel is open: stated for a moment when nobody is *)
(* at work.                                                                *)
SourceIsOpen ==
  (\A t \in Task : pc[t] = "idle") =>
    \A c \in Slot : IsAi(c) /\ row[c].source # Floor => IsOpen(row[c].source)
=============================================================================
