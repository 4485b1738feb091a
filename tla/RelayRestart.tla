---------------------------- MODULE RelayRestart ----------------------------
(***************************************************************************)
(* RelayControl in a process that can stop at any moment and boots again:  *)
(* the ledger keeps what was committed, LiveKit keeps its rooms, its       *)
(* participants and the webhooks not acknowledged, the rest is forgotten;  *)
(* bootstrap() decides the generation, deletes the rooms of the others and *)
(* compares the leases with who is in the room, all before a request or a  *)
(* webhook is served.  A bootstrap that fails ends the process, and it is  *)
(* started again.                                                          *)
(*                                                                         *)
(* A definition named Fault_... is the one after it with a plausible       *)
(* mistake; only the checks use it.                                        *)
(***************************************************************************)
EXTENDS RelayControl

CONSTANT MaxCrash  \* bound: times the process ends

ASSUME MaxCrashAssumption == MaxCrash \in Nat

VARIABLES
  boot,     \* where bootstrap() is, "up" once it has ended
  purge,    \* rooms it has still to delete
  roster,   \* participants LiveKit listed
  orphans,  \* those it has still to remove
  crashes   \* history: times the process ended

bootstrap == <<boot, purge, roster, orphans, crashes>>
allVars == <<vars, bootstrap>>

BootPc == {"up", "down", "list", "create", "delete", "reconcile", "remove"}

RestartInit ==
  /\ Init
  /\ boot = "up"
  /\ purge = {} /\ roster = {} /\ orphans = {}
  /\ crashes = 0

Up == boot = "up"

-----------------------------------------------------------------------------
(* The process is killed. *)

(* What is kept in memory only, and what bootstrap clears.                 *)
MemoryLost ==
  /\ onAir' = {}
  /\ strikes' = [x \in {} |-> 0]
  /\ rotationLock' = None
  /\ channelLock' = [c \in Channel |-> None]
  /\ pc' = [p \in Request |-> "idle"]
  /\ op' = [p \in Request |-> "none"]
  /\ chan' = [p \in Request |-> None]
  /\ cred' = [p \in Request |-> 0]
  /\ held' = [p \in Request |-> None]
  /\ todo' = [p \in Request |-> {}]
  /\ hpc' = [h \in Hook |-> "idle"]
  /\ hev' = [h \in Hook |-> None]

(* The epoch of a takeover is committed, its lease is not.                 *)
KilledInTakeover ==
  \E p \in Request :
    /\ op[p] = "takeover"
    /\ pc[p] = "removed" \/ (pc[p] = "ensure" /\ holder[chan[p]] = None)
    /\ epoch' = [epoch EXCEPT ![chan[p]] = @ + 1]
    /\ UNCHANGED <<open, holder, joined, age, generation>>

(* The lease of an absent holder is released, the next is not acquired.    *)
KilledInPublish ==
  \E p \in Request :
    /\ pc[p] = "absent" /\ holder[chan[p]] = held[p] /\ held[p] # None
    /\ DeleteLease(chan[p])
    /\ UNCHANGED <<open, epoch, generation>>

(* What a webhook changes is committed, its event id is not.               *)
KilledInHandling ==
  \E e \in hooks :
    /\ InScope(e)
    /\ \/ /\ e.kind = "joined" /\ ~Blocked(e.who) /\ HoldsLease(e.who)
          /\ joined' = joined \cup {e.who.ch}
          /\ UNCHANGED <<holder, age>>
       \/ /\ e.kind = "left" /\ holder[e.who.ch] = e.who
          /\ DeleteLease(e.who.ch)
    /\ UNCHANGED <<open, epoch, generation>>

Kill ==
  /\ Up /\ crashes < MaxCrash
  /\ UNCHANGED ledger \/ KilledInTakeover \/ KilledInPublish \/ KilledInHandling
  /\ MemoryLost
  /\ boot' = "down"
  /\ crashes' = crashes + 1
  /\ UNCHANGED <<livekit, tokens, purge, roster, orphans>>

-----------------------------------------------------------------------------
(* bootstrap().  The first steps have no await between them, but two       *)
(* transactions: the generation goes up when the passwords configured are  *)
(* not those it was stored with, and then the leases are cleared.          *)

SameGeneration == UNCHANGED ledger

NextGeneration ==
  /\ generation < MaxGen
  /\ generation' = generation + 1
  /\ holder' = [c \in Channel |-> None]
  /\ joined' = {}
  /\ age' = [c \in Channel |-> 0]
  /\ UNCHANGED <<open, epoch>>

BootStart ==
  /\ boot = "down"
  /\ SameGeneration \/ NextGeneration
  /\ boot' = "list"
  /\ UNCHANGED <<memory, locks, requests, handlers, livekit, tokens,
                 purge, roster, orphans, crashes>>

KilledAtGeneration ==
  /\ boot = "down"
  /\ generation < MaxGen
  /\ generation' = generation + 1
  /\ UNCHANGED <<open, epoch, holder, joined, age, memory, locks, requests, handlers,
                 livekit, tokens, bootstrap>>

(* list_rooms.  No answer is a failure, never an empty list.               *)
Fault_NoAnswerIsEmpty == {rooms, {}}
Listings == {rooms}

BootList ==
  /\ boot = "list"
  /\ \E S \in Listings :
       /\ purge' = S \ {generation}
       /\ boot' = IF generation \in S THEN "delete" ELSE "create"
  /\ UNCHANGED <<vars, roster, orphans, crashes>>

BootCreate ==
  /\ boot = "create"
  /\ RoomEnsured
  /\ boot' = "delete"
  /\ UNCHANGED <<ledger, memory, locks, requests, handlers, tokens,
                 purge, roster, orphans, crashes>>

BootDelete(g) ==
  /\ boot = "delete" /\ g \in purge
  /\ rooms' = rooms \ {g}
  /\ Disconnect({s \in live : s.who.gen = g})
  /\ purge' = purge \ {g}
  /\ UNCHANGED <<ledger, memory, locks, requests, handlers, tokens,
                 boot, roster, orphans, crashes>>

(* list_participants, and at once: joined leases of people who are not     *)
(* there are released, those who hold one and publish are on air.          *)
Present == {s \in live : s.who.gen = generation}
Absent(c) == c \in joined /\ \A s \in Present : s.who # holder[c]
Fault_LeasesKept == {}
Released == {c \in Channel : Absent(c)}
HoldsAfter(x) == holder[x.ch] = x /\ x.ch \notin Released

BootReconcile ==
  /\ boot = "delete" /\ purge = {}
  /\ roster' = Present
  /\ holder' = [c \in Channel |-> IF c \in Released THEN None ELSE holder[c]]
  /\ joined' = joined \ Released
  /\ age' = [c \in Channel |-> IF c \in Released THEN 0 ELSE age[c]]
  /\ onAir' = {s.who.ch : s \in {t \in Present : HoldsAfter(t.who) /\ t.tracks > 0}}
  /\ orphans' = {s \in Present : ~HoldsAfter(s.who)}
  /\ boot' = "remove"
  /\ UNCHANGED <<open, epoch, generation, strikes, locks, requests, handlers, livekit,
                 tokens, purge, crashes>>

BootRemove(s) ==
  /\ boot = "remove" /\ s \in orphans
  /\ RemoveParticipant(s.who)
  /\ orphans' = orphans \ {s}
  /\ UNCHANGED <<ledger, memory, locks, requests, handlers, tokens,
                 boot, purge, roster, crashes>>

Fault_RemovalMayFail == TRUE
AllRemoved == orphans = {}

BootEnds ==
  /\ boot = "remove" /\ AllRemoved
  /\ boot' = "up"
  /\ purge' = {} /\ roster' = {} /\ orphans' = {}
  /\ UNCHANGED <<vars, crashes>>

(* A call fails, perhaps after it did its work: the process ends.          *)
BootFails ==
  /\ boot \in {"list", "create", "delete", "remove"} /\ crashes < MaxCrash
  /\ boot' = "down"
  /\ crashes' = crashes + 1
  /\ purge' = {} /\ roster' = {} /\ orphans' = {}
  /\ onAir' = {}
  /\ \/ UNCHANGED livekit
     \/ boot = "create" /\ RoomEnsured
  /\ UNCHANGED <<ledger, strikes, locks, requests, handlers, tokens>>

-----------------------------------------------------------------------------
Serve ==
  /\ Up
  /\ \/ \E c \in Channel : CreateChannel(c)
     \/ \E p \in Request : SubmitAny(p) \/ RequestStep(p)
     \/ \E e \in hooks : HandleEvent(e)
     \/ \E h \in Hook : HookStep(h)
  /\ UNCHANGED bootstrap

Outside == Environment /\ UNCHANGED bootstrap

BootStep ==
  \/ BootStart \/ BootList \/ BootCreate \/ BootReconcile \/ BootEnds
  \/ \E g \in purge : BootDelete(g)
  \/ \E s \in orphans : BootRemove(s)

RestartNext == Serve \/ Outside \/ Kill \/ KilledAtGeneration \/ BootStep \/ BootFails

RestartSpec == RestartInit /\ [][RestartNext]_allVars

(* RelayControl's fairness while the process is up, and the process is     *)
(* started again when it has ended (restart: unless-stopped).              *)
Served(A) == Up /\ A /\ UNCHANGED bootstrap

RestartFairness ==
  /\ \A p \in Request : /\ WF_allVars(Served(RequestStep(p)))
                        /\ SF_allVars(Served(LockStep(p)))
  /\ SF_allVars(Served(JudgeJoined))
  /\ \A h \in Hook : /\ WF_allVars(Served(HookStep(h)))
                     /\ SF_allVars(Served(Eject(h)))
  /\ WF_allVars(BootStep)

RestartFairSpec == RestartSpec /\ RestartFairness

-----------------------------------------------------------------------------
(* Properties. *)

(* Wherever the process was killed, in a rotation, between the generation  *)
(* and the leases of a bootstrap or in a room's deletion: once it serves   *)
(* again the rooms of older generations are gone and with them everybody   *)
(* who had a token for one.                                                *)
OldRoomsGoneWhenUp == Up => NoOldGenerationRoom

(* And a lease that says its holder is there is one of the present         *)
(* generation: what the clearing of the leases missed, because the process *)
(* was killed before it, is either found absent or runs out unused.        *)
RecoveredLeases ==
  Up => \A c \in Channel : holder[c] # None =>
          /\ c \in open /\ holder[c].ch = c
          /\ holder[c].epoch <= epoch[c] /\ holder[c].gen <= generation
          /\ c \in joined => holder[c].gen = generation

(* Whoever the bootstrap finds in the room without a lease is out of it    *)
(* when the server serves again, even if the webhook about it was lost.    *)
OrphansRemoved ==
  [][~Up /\ Up' => \A s \in roster, t \in live :
       t.who = s.who /\ t.sid = s.sid => holder[s.who.ch] = s.who]_allVars
=============================================================================
