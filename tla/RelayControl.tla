---------------------------- MODULE RelayControl ----------------------------
(***************************************************************************)
(* The relay side of the field server: the channel and lease ledger, the   *)
(* HTTP requests that change it, the webhook processor that enforces it    *)
(* and the rotation of the send password, around a LiveKit server that is  *)
(* external and delivers its webhooks in any order, more than once or not  *)
(* at all.                                                                 *)
(*                                                                         *)
(* The server is one asyncio process, so a step here is what a coroutine   *)
(* does from one await to the next.  An HTTP request is a member of        *)
(* Request and a webhook being handled is a member of Hook; what is kept   *)
(* across an await is kept in the request's or the handler's own fields.   *)
(*                                                                         *)
(* A definition named Fault_... is the definition after it with a          *)
(* plausible mistake in it; nothing uses it but the checks that show that  *)
(* a property notices the mistake.                                         *)
(***************************************************************************)
EXTENDS Integers, FiniteSets

CONSTANTS
  Channel,     \* channels people publish on (AI channels are another module)
  Request,     \* request coroutines that may be in flight together
  Hook,        \* webhook handlers that may be suspended together
  None,        \* no identity, no channel, no lock owner
  MaxNonce,    \* bound: publish tokens ever issued
  MaxGen,      \* bound: the generation the last rotation reaches
  MaxJoins,    \* bound: sessions one token opens
  MaxPending,  \* bound: webhooks outstanding when a client acts again
  MaxTracks,   \* bound: tracks one session publishes at once
  MaxLost      \* bound: webhooks LiveKit gives up delivering

(* An identity stands for the string speaker-ch-NN-e<epoch>-g<gen>-n<nonce>. *)
Identity == [ch : Channel, epoch : Nat, gen : Nat, nonce : Nat]

(* A participant of a LiveKit room: one connection of one identity, with   *)
(* the tracks it publishes.  heard is a history field: what became of its  *)
(* participant_joined.                                                     *)
Session == [who : Identity, sid : Nat, tracks : Nat,
            heard : {"pending", "admitted", "lost"}]

EventKind == {"joined", "left", "published", "badName", "unpublished"}
Event == [kind : EventKind, who : Identity, sid : Nat]

Operation == {"publish", "takeover", "close", "subscribe", "rotate", "none"}
RequestPc == {"idle", "rotation", "channel", "ensure", "lookup", "present",
              "absent", "remove", "removed", "create", "delete"}
HookPc == {"idle", "eject", "count"}

ASSUME ConstantsAssumption ==
  /\ None \notin Identity /\ None \notin Channel /\ None \notin Request
  /\ None \notin Event
  /\ MaxNonce \in Nat /\ MaxGen \in Nat /\ MaxJoins \in Nat
  /\ MaxPending \in Nat /\ MaxTracks \in Nat /\ MaxLost \in Nat

VARIABLES
  \* the SQLite ledger
  open,         \* channels whose row says open
  epoch,        \* epoch of each channel
  holder,       \* identity of the channel's lease row, None without a row
  joined,       \* channels whose lease row has joined_at
  age,          \* 0: issued under 120 s ago, 1: under an hour, 2: expired
  generation,   \* password generation (the process keeps the same value)
  \* process memory
  onAir,        \* OnAirTracker
  strikes,      \* Blocklist: identity -> strikes
  rotationLock, \* owner of the rotation lock
  channelLock,  \* owner of each channel's lock
  pc, op, chan, cred, held, todo, \* a request's place and local variables
  hpc, hev,     \* a suspended handler's place and event
  \* LiveKit and its clients
  rooms,        \* generations g whose room field-g<g> exists
  live,         \* sessions connected now
  hooks,        \* webhooks not committed yet
  sessions,     \* issued identities -> sessions each has opened
  nonce,        \* the next fresh nonce
  offenders,    \* history: identities that published a second or misnamed track
  lost          \* history: webhooks lost so far

ledger    == <<open, epoch, holder, joined, age, generation>>
memory    == <<onAir, strikes>>
locks     == <<rotationLock, channelLock>>
requests  == <<pc, op, chan, cred, held, todo>>
handlers  == <<hpc, hev>>
livekit   == <<rooms, live, hooks>>
tokens    == <<sessions, nonce, offenders, lost>>
vars == <<ledger, memory, locks, requests, handlers, livekit, tokens>>

Init ==
  /\ open = {}
  /\ epoch = [c \in Channel |-> 1]
  /\ holder = [c \in Channel |-> None]
  /\ joined = {}
  /\ age = [c \in Channel |-> 0]
  /\ generation = 1
  /\ onAir = {}
  /\ strikes = [x \in {} |-> 0]
  /\ rotationLock = None
  /\ channelLock = [c \in Channel |-> None]
  /\ pc = [p \in Request |-> "idle"]
  /\ op = [p \in Request |-> "none"]
  /\ chan = [p \in Request |-> None]
  /\ cred = [p \in Request |-> 0]
  /\ held = [p \in Request |-> None]
  /\ todo = [p \in Request |-> {}]
  /\ hpc = [h \in Hook |-> "idle"]
  /\ hev = [h \in Hook |-> None]
  /\ rooms = {1}
  /\ live = {}
  /\ hooks = {}
  /\ sessions = [x \in {} |-> 0]
  /\ nonce = 1
  /\ offenders = {}
  /\ lost = 0

-----------------------------------------------------------------------------
(* The ledger's helpers (db.py). *)

Issued == DOMAIN sessions

(* _lease_alive: a joined lease holds the channel until its TTL ends, one  *)
(* that never joined only during the grace period.                         *)
Alive(c) ==
  /\ holder[c] # None
  /\ IF c \in joined THEN age[c] < 2 ELSE age[c] < 1

(* The lease row of c is written for a new identity with a fresh nonce,    *)
(* and its token handed out.                                               *)
Fault_NoNonce(c, e) == [ch |-> c, epoch |-> e, gen |-> generation, nonce |-> 1]
NewIdentity(c, e) == [ch |-> c, epoch |-> e, gen |-> generation, nonce |-> nonce]

WriteLease(c, e) ==
  LET x == NewIdentity(c, e)
  IN  /\ holder' = [holder EXCEPT ![c] = x]
      /\ joined' = joined \ {c}
      /\ age' = [age EXCEPT ![c] = 0]
      /\ sessions' = [y \in Issued \cup {x} |-> IF y = x THEN 0 ELSE sessions[y]]
      /\ nonce' = nonce + 1
      /\ UNCHANGED <<offenders, lost>>

DeleteLease(c) ==
  /\ holder' = [holder EXCEPT ![c] = None]
  /\ joined' = joined \ {c}
  /\ age' = [age EXCEPT ![c] = 0]

-----------------------------------------------------------------------------
(* LiveKit's side of a call (external). *)

SessionsOf(x) == {s \in live : s.who = x}
Hooked(k, s) == [kind |-> k, who |-> s.who, sid |-> s.sid]

(* The sessions S leave the room and a participant_left goes out for each. *)
Disconnect(S) ==
  /\ live' = live \ S
  /\ hooks' = hooks \cup {Hooked("left", s) : s \in S}

(* RemoveParticipant; an identity that is not in the room is no error.     *)
RemoveParticipant(x) == Disconnect(SessionsOf(x)) /\ UNCHANGED rooms

(* A call that fails may have taken effect before its answer was lost.     *)
RemoveParticipantFails(x) ==
  \/ UNCHANGED livekit
  \/ RemoveParticipant(x)

-----------------------------------------------------------------------------
(* HTTP requests (main.py). *)

(* The end of a request: async with releases whatever it holds. *)
Fault_LockKept(p) ==
  /\ UNCHANGED rotationLock
  /\ channelLock' = [c \in Channel |-> IF channelLock[c] = p THEN None
                                                             ELSE channelLock[c]]
  /\ pc' = [pc EXCEPT ![p] = "idle"]
  /\ op' = [op EXCEPT ![p] = "none"]
  /\ chan' = [chan EXCEPT ![p] = None]
  /\ cred' = [cred EXCEPT ![p] = 0]
  /\ held' = [held EXCEPT ![p] = None]
  /\ todo' = [todo EXCEPT ![p] = {}]

Finish(p) ==
  /\ rotationLock' = IF rotationLock = p THEN None ELSE rotationLock
  /\ channelLock' = [c \in Channel |-> IF channelLock[c] = p THEN None
                                                             ELSE channelLock[c]]
  /\ pc' = [pc EXCEPT ![p] = "idle"]
  /\ op' = [op EXCEPT ![p] = "none"]
  /\ chan' = [chan EXCEPT ![p] = None]
  /\ cred' = [cred EXCEPT ![p] = 0]
  /\ held' = [held EXCEPT ![p] = None]
  /\ todo' = [todo EXCEPT ![p] = {}]

Goto(p, l) ==
  /\ pc' = [pc EXCEPT ![p] = l]
  /\ UNCHANGED <<op, chan, cred>>

(* POST /channels takes no lock and runs from its last await to the reply  *)
(* in one step.  A reopened row keeps its epoch.                           *)
CreateChannel(c) ==
  /\ c \notin open
  /\ open' = open \cup {c}
  /\ UNCHANGED <<epoch, holder, joined, age, generation, memory, locks, requests,
                 handlers, livekit, tokens>>

InFlight(o) == {q \in Request : op[q] \in o}

(* The bounds on tokens and generations, counting the requests in flight.  *)
WithinBounds(o) ==
  /\ o \in {"publish", "takeover"} =>
       nonce + Cardinality(InFlight({"publish", "takeover"})) <= MaxNonce
  /\ o = "rotate" => generation + Cardinality(InFlight({"rotate"})) < MaxGen

(* A request arrives with a valid password: the send password of the       *)
(* present generation, or (0) the admin password, or none needed.  What it *)
(* checks before the first await is not kept.                              *)
Submit(p, o, c, k) ==
  /\ pc[p] = "idle"
  /\ WithinBounds(o)
  /\ \/ o = "publish" /\ c \in open /\ k = generation
     \/ o = "close" /\ c \in open /\ k \in {0, generation}
     \/ o \in {"takeover", "subscribe"} /\ c \in open /\ k = 0
     \/ o = "rotate" /\ c = None /\ k = 0
  /\ pc' = [pc EXCEPT ![p] = "rotation"]
  /\ op' = [op EXCEPT ![p] = o]
  /\ chan' = [chan EXCEPT ![p] = c]
  /\ cred' = [cred EXCEPT ![p] = k]
  /\ UNCHANGED <<held, todo, ledger, memory, locks, handlers, livekit, tokens>>

(* asyncio.Lock: a coroutine acquires a lock that nobody holds. *)
Fault_NoMutualExclusion(lock) == TRUE
Free(lock) == lock = None

(* Under the rotation lock the password is checked again: a request whose  *)
(* password was rotated while it waited is refused (401).                  *)
Fault_NotCheckedAgain(p) == TRUE
Authorized(p) == cred[p] \in {0, generation}

RefuseStalePassword(p) ==
  /\ pc[p] = "rotation" /\ Free(rotationLock)
  /\ ~Authorized(p)
  /\ Finish(p)
  /\ UNCHANGED <<ledger, memory, handlers, livekit, tokens>>

AfterRotationLock(p) ==
  CASE op[p] = "rotate" -> "create"
    [] op[p] = "subscribe" -> "ensure"
    [] OTHER -> "channel"

TakeRotationLock(p) ==
  /\ pc[p] = "rotation" /\ Free(rotationLock)
  /\ Authorized(p)
  /\ rotationLock' = p
  /\ Goto(p, AfterRotationLock(p))
  /\ UNCHANGED <<channelLock, held, todo, ledger, memory, handlers, livekit, tokens>>

ChannelLockFree(p) == pc[p] = "channel" /\ Free(channelLock[chan[p]])

(* The row is read again under the channel lock: 404 if it was closed. *)
RowOpen(p) == chan[p] \in open

ChannelGone(p) ==
  /\ ChannelLockFree(p)
  /\ ~RowOpen(p)
  /\ Finish(p)
  /\ UNCHANGED <<ledger, memory, handlers, livekit, tokens>>

(* publish and takeover go on to ensure_room, close to the removal of the  *)
(* lease holder if there is one.                                           *)
TakeChannelLock(p) ==
  /\ ChannelLockFree(p)
  /\ RowOpen(p)
  /\ op[p] = "close" => holder[chan[p]] # None
  /\ channelLock' = [channelLock EXCEPT ![chan[p]] = p]
  /\ IF op[p] = "close"
     THEN Goto(p, "remove") /\ held' = [held EXCEPT ![p] = holder[chan[p]]]
     ELSE Goto(p, "ensure") /\ UNCHANGED held
  /\ UNCHANGED <<rotationLock, todo, ledger, memory, handlers, livekit, tokens>>

(* db.close_channel and on_air.clear_channel. *)
Fault_LeaseLeft(c) ==
  /\ open' = open \ {c}
  /\ onAir' = onAir \ {c}
  /\ UNCHANGED <<epoch, holder, joined, age, generation, strikes>>

CloseRow(c) ==
  /\ open' = open \ {c}
  /\ DeleteLease(c)
  /\ onAir' = onAir \ {c}
  /\ UNCHANGED <<epoch, generation, strikes>>

CloseVacant(p) ==
  /\ ChannelLockFree(p)
  /\ RowOpen(p)
  /\ op[p] = "close" /\ holder[chan[p]] = None
  /\ CloseRow(chan[p])
  /\ Finish(p)
  /\ UNCHANGED <<handlers, livekit, tokens>>

(* ensure_room: list_rooms, then create_room when the room is missing. *)
RoomEnsured == rooms' = rooms \cup {generation} /\ UNCHANGED <<live, hooks>>

(* create_room fails; the room may have been created before that.          *)
EnsureRoomFails(p) ==
  /\ pc[p] = "ensure"
  /\ RoomEnsured \/ UNCHANGED livekit
  /\ Finish(p)
  /\ UNCHANGED <<ledger, memory, handlers, tokens>>

Subscribe(p) ==
  /\ pc[p] = "ensure" /\ op[p] = "subscribe"
  /\ RoomEnsured
  /\ Finish(p)
  /\ UNCHANGED <<ledger, memory, handlers, tokens>>

(* acquire_lease of a publish request, with the epoch its row was read     *)
(* with; busy (409) when the lease is alive.                               *)
PublishDirect(p) ==
  /\ pc[p] = "ensure" /\ op[p] = "publish" /\ chan[p] \notin joined
  /\ RoomEnsured
  /\ IF Alive(chan[p])
     THEN UNCHANGED <<holder, joined, age, tokens>>
     ELSE WriteLease(chan[p], epoch[chan[p]])
  /\ Finish(p)
  /\ UNCHANGED <<open, epoch, generation, memory, handlers>>

(* A joined lease: ask LiveKit whether its holder is still in the room. *)
AskPresence(p) ==
  /\ pc[p] = "ensure" /\ op[p] = "publish" /\ chan[p] \in joined
  /\ RoomEnsured
  /\ held' = [held EXCEPT ![p] = holder[chan[p]]]
  /\ Goto(p, "lookup")
  /\ UNCHANGED <<todo, ledger, memory, locks, handlers, tokens>>

(* _publisher_present: LiveKit's answer, or present when it fails. *)
Fault_FailureMeansAbsent(x) == TRUE
MayBeAbsent(x) == SessionsOf(x) = {}

LookUp(p) ==
  /\ pc[p] = "lookup"
  /\ \E l \in {"present", "absent"} :
       /\ l = "absent" => MayBeAbsent(held[p])
       /\ Goto(p, l)
  /\ UNCHANGED <<held, todo, ledger, memory, locks, handlers, livekit, tokens>>

(* extend_lease_if_identity, then 409. *)
KeepHolder(p) ==
  /\ pc[p] = "present"
  /\ age' = IF holder[chan[p]] = held[p] THEN [age EXCEPT ![chan[p]] = 0] ELSE age
  /\ Finish(p)
  /\ UNCHANGED <<open, epoch, holder, joined, generation, memory, handlers, livekit,
                 tokens>>

(* release_lease_if_identity of the absent holder, then acquire_lease.     *)
(* on_air is left as it is.                                                *)
PublishAfterAbsent(p) ==
  /\ pc[p] = "absent"
  /\ IF holder[chan[p]] # held[p] /\ Alive(chan[p])
     THEN UNCHANGED <<holder, joined, age, tokens>>
     ELSE WriteLease(chan[p], epoch[chan[p]])
  /\ Finish(p)
  /\ UNCHANGED <<open, epoch, generation, memory, handlers, livekit>>

(* takeover, steps (2) and (3): epoch + 1, lease overwritten, on_air       *)
(* cleared.                                                                *)
Fault_OldEpoch(c) ==
  /\ epoch' = [epoch EXCEPT ![c] = @ + 1]
  /\ WriteLease(c, epoch[c])
  /\ onAir' = onAir \ {c}
  /\ UNCHANGED <<open, generation, strikes>>

TakeOverRow(c) ==
  /\ epoch' = [epoch EXCEPT ![c] = @ + 1]
  /\ WriteLease(c, epoch[c] + 1)
  /\ onAir' = onAir \ {c}
  /\ UNCHANGED <<open, generation, strikes>>

TakeOverVacant(p) ==
  /\ pc[p] = "ensure" /\ op[p] = "takeover" /\ holder[chan[p]] = None
  /\ RoomEnsured
  /\ TakeOverRow(chan[p])
  /\ Finish(p)
  /\ UNCHANGED handlers

TakeOverHeld(p) ==
  /\ pc[p] = "ensure" /\ op[p] = "takeover" /\ holder[chan[p]] # None
  /\ RoomEnsured
  /\ held' = [held EXCEPT ![p] = holder[chan[p]]]
  /\ Goto(p, "remove")
  /\ UNCHANGED <<todo, ledger, memory, locks, handlers, tokens>>

(* _try_remove of the holder read before; 502 and no change if it fails. *)
RemoveHolder(p) ==
  /\ pc[p] = "remove"
  /\ RemoveParticipant(held[p])
  /\ Goto(p, "removed")
  /\ UNCHANGED <<held, todo, ledger, memory, locks, handlers, tokens>>

RemoveHolderFails(p) ==
  /\ pc[p] = "remove"
  /\ RemoveParticipantFails(held[p])
  /\ Finish(p)
  /\ UNCHANGED <<ledger, memory, handlers, tokens>>

CloseAfterRemove(p) ==
  /\ pc[p] = "removed" /\ op[p] = "close"
  /\ CloseRow(chan[p])
  /\ Finish(p)
  /\ UNCHANGED <<handlers, livekit, tokens>>

TakeOverAfterRemove(p) ==
  /\ pc[p] = "removed" /\ op[p] = "takeover"
  /\ TakeOverRow(chan[p])
  /\ Finish(p)
  /\ UNCHANGED <<handlers, livekit>>

-----------------------------------------------------------------------------
(* Rotation of the send password (state.py), under the rotation lock. *)

(* create_room of the next generation and the list of rooms to delete. *)
RotateCreate(p) ==
  /\ pc[p] = "create"
  /\ rooms' = rooms \cup {generation + 1}
  /\ todo' = [todo EXCEPT ![p] = rooms \ {generation + 1}]
  /\ Goto(p, "delete")
  /\ UNCHANGED <<held, ledger, memory, locks, handlers, live, hooks, tokens>>

(* delete_room of one older generation; everyone in it is disconnected. *)
RotateDelete(p, g) ==
  /\ pc[p] = "delete" /\ g \in todo[p]
  /\ rooms' = rooms \ {g}
  /\ Disconnect({s \in live : s.who.gen = g})
  /\ todo' = [todo EXCEPT ![p] = @ \ {g}]
  /\ UNCHANGED <<pc, op, chan, cred, held, ledger, memory, locks, handlers, tokens>>

(* A LiveKit call fails: nothing is persisted (502). *)
RotateFails(p) ==
  /\ pc[p] \in {"create", "delete"}
  /\ Finish(p)
  /\ UNCHANGED <<ledger, memory, handlers, livekit, tokens>>

Fault_PersistFirst(p) == TRUE
RoomsDeleted(p) == todo[p] = {}

(* Every room is gone: one transaction stores the password and generation  *)
(* and drops every lease; the blocklist and on_air are cleared.            *)
RotateCommit(p) ==
  /\ pc[p] = "delete" /\ RoomsDeleted(p)
  /\ generation' = generation + 1
  /\ holder' = [c \in Channel |-> None]
  /\ joined' = {}
  /\ age' = [c \in Channel |-> 0]
  /\ strikes' = [x \in {} |-> 0]
  /\ onAir' = {}
  /\ Finish(p)
  /\ UNCHANGED <<open, epoch, handlers, livekit, tokens>>

-----------------------------------------------------------------------------
(* Webhooks (webhook.py).  hooks holds the events not committed: any of    *)
(* them may be delivered at any time, again while an earlier delivery is   *)
(* still being handled.  handle() takes no lock.                           *)

(* handle() works on events of the present generation's room only. *)
InScope(e) == e.who.gen = generation

(* History: what became of the participant_joined e. *)
Heard(e, what) ==
  {IF Hooked("joined", s) = e THEN [s EXCEPT !.heard = what] ELSE s : s \in live}

(* The event id is committed once handling has succeeded. *)
Commit(e) == hooks' = hooks \ {e}

StrikesOf(x) == IF x \in DOMAIN strikes THEN strikes[x] ELSE 0
Fault_OneStrikeMore(x) == StrikesOf(x) > 3
Blocked(x) == StrikesOf(x) >= 3

(* Blocklist.strike, counted up to the threshold. *)
Strike(x) ==
  strikes' = [y \in DOMAIN strikes \cup {x} |->
                IF y # x THEN strikes[y]
                ELSE IF Blocked(x) THEN 3 ELSE StrikesOf(x) + 1]

(* The identity is, as a whole, the one in the channel's lease. *)
HoldsLease(x) == x.epoch >= epoch[x.ch] /\ holder[x.ch] = x

Suspend(h, l, e) ==
  /\ hpc' = [hpc EXCEPT ![h] = l]
  /\ hev' = [hev EXCEPT ![h] = e]

Resume(h) ==
  /\ hpc' = [hpc EXCEPT ![h] = "idle"]
  /\ hev' = [hev EXCEPT ![h] = None]

(* An event of another room is committed without being handled. *)
SkipForeign(e) ==
  /\ e \in hooks /\ ~InScope(e)
  /\ Commit(e)
  /\ UNCHANGED <<ledger, memory, locks, requests, handlers, rooms, live, tokens>>

(* participant_joined of the lease holder: mark_lease_joined. *)
Admit(e) ==
  /\ e \in hooks /\ InScope(e) /\ e.kind = "joined"
  /\ ~Blocked(e.who) /\ HoldsLease(e.who)
  /\ joined' = joined \cup {e.who.ch}
  /\ live' = Heard(e, "admitted")
  /\ Commit(e)
  /\ UNCHANGED <<open, epoch, holder, age, generation, memory, locks, requests,
                 handlers, rooms, tokens>>

(* participant_joined of a blocked identity, or of one that is not the     *)
(* lease holder (a strike): it is removed from the room.                   *)
Reject(h, e) ==
  /\ hpc[h] = "idle"
  /\ e \in hooks /\ InScope(e) /\ e.kind = "joined"
  /\ \/ Blocked(e.who) /\ UNCHANGED strikes
     \/ ~Blocked(e.who) /\ ~HoldsLease(e.who) /\ Strike(e.who)
  /\ Suspend(h, "eject", e)
  /\ UNCHANGED <<ledger, onAir, locks, requests, livekit, tokens>>

(* track_published by the lease holder of an open channel, properly named: *)
(* ask LiveKit for its number of tracks.                                   *)
Fault_JoinedFirst(e) ==
  e.who.ch \in open \cap joined /\ HoldsLease(e.who) /\ e.kind = "published"
MayPublish(e) == e.who.ch \in open /\ HoldsLease(e.who) /\ e.kind = "published"

AskTracks(h, e) ==
  /\ hpc[h] = "idle"
  /\ e \in hooks /\ InScope(e) /\ e.kind \in {"published", "badName"}
  /\ MayPublish(e)
  /\ Suspend(h, "count", e)
  /\ UNCHANGED <<ledger, memory, locks, requests, livekit, tokens>>

RejectTrack(h, e) ==
  /\ hpc[h] = "idle"
  /\ e \in hooks /\ InScope(e) /\ e.kind \in {"published", "badName"}
  /\ ~MayPublish(e)
  /\ Strike(e.who)
  /\ Suspend(h, "eject", e)
  /\ UNCHANGED <<ledger, onAir, locks, requests, livekit, tokens>>

(* One track, or no answer from LiveKit: the channel is on air.  Nothing   *)
(* is checked again after the await.                                       *)
SetOnAir(h) ==
  /\ hpc[h] = "count"
  /\ onAir' = onAir \cup {hev[h].who.ch}
  /\ Commit(hev[h])
  /\ Resume(h)
  /\ UNCHANGED <<ledger, strikes, locks, requests, rooms, live, tokens>>

RejectSecondTrack(h) ==
  /\ hpc[h] = "count"
  /\ \E s \in SessionsOf(hev[h].who) : s.tracks > 1
  /\ Strike(hev[h].who)
  /\ Suspend(h, "eject", hev[h])
  /\ UNCHANGED <<ledger, onAir, locks, requests, livekit, tokens>>

(* _remove: success (or not found) commits the event; a failure is a 503   *)
(* and the event will be delivered again.                                  *)
Eject(h) ==
  /\ hpc[h] = "eject"
  /\ LET S == SessionsOf(hev[h].who)
     IN  /\ live' = live \ S
         /\ hooks' = (hooks \cup {Hooked("left", s) : s \in S}) \ {hev[h]}
  /\ Resume(h)
  /\ UNCHANGED <<ledger, memory, locks, requests, rooms, tokens>>

Fault_CommitAnyway(h) ==
  /\ hpc[h] = "eject"
  /\ Commit(hev[h])
  /\ Resume(h)
  /\ UNCHANGED <<ledger, memory, locks, requests, rooms, live, tokens>>

EjectFails(h) ==
  /\ hpc[h] = "eject"
  /\ RemoveParticipantFails(hev[h].who)
  /\ Resume(h)
  /\ UNCHANGED <<ledger, memory, locks, requests, tokens>>

(* track_unpublished counts only when it is the lease holder's. *)
TrackUnpublished(e) ==
  /\ e \in hooks /\ InScope(e) /\ e.kind = "unpublished"
  /\ onAir' = IF holder[e.who.ch] = e.who THEN onAir \ {e.who.ch} ELSE onAir
  /\ Commit(e)
  /\ UNCHANGED <<ledger, strikes, locks, requests, handlers, rooms, live, tokens>>

(* participant_left and participant_connection_aborted:                    *)
(* release_lease_if_identity, and on_air cleared when it released.         *)
ParticipantLeft(e) ==
  /\ e \in hooks /\ InScope(e) /\ e.kind = "left"
  /\ IF holder[e.who.ch] = e.who
     THEN DeleteLease(e.who.ch) /\ onAir' = onAir \ {e.who.ch}
     ELSE UNCHANGED <<holder, joined, age, onAir>>
  /\ Commit(e)
  /\ UNCHANGED <<open, epoch, generation, strikes, locks, requests, handlers, rooms,
                 live, tokens>>

-----------------------------------------------------------------------------
(* LiveKit, its clients and the passing of time (external). *)

ClientMayAct == Cardinality(hooks) < MaxPending

(* A token opens a session where its room exists; a second connection of   *)
(* one identity ends the first.                                            *)
Join(x) ==
  /\ ClientMayAct
  /\ x \in Issued /\ x.gen \in rooms /\ sessions[x] < MaxJoins
  /\ LET s == [who |-> x, sid |-> sessions[x] + 1, tracks |-> 0, heard |-> "pending"]
     IN  /\ live' = (live \ SessionsOf(x)) \cup {s}
         /\ hooks' = hooks \cup {Hooked("left", t) : t \in SessionsOf(x)}
                           \cup {Hooked("joined", s)}
  /\ sessions' = [sessions EXCEPT ![x] = @ + 1]
  /\ UNCHANGED <<rooms, nonce, offenders, lost, ledger, memory, locks, requests,
                 handlers>>

(* Signalling succeeded and media did not: participant_connection_aborted, *)
(* handled as participant_left.                                            *)
ConnectionAborted(x) ==
  /\ ClientMayAct
  /\ x \in Issued /\ x.gen \in rooms /\ sessions[x] < MaxJoins
  /\ sessions' = [sessions EXCEPT ![x] = @ + 1]
  /\ hooks' = hooks \cup {[kind |-> "left", who |-> x, sid |-> sessions[x] + 1]}
  /\ UNCHANGED <<rooms, live, nonce, offenders, lost, ledger, memory, locks,
                 requests, handlers>>

Leave(s) ==
  /\ ClientMayAct
  /\ Disconnect({s})
  /\ UNCHANGED <<rooms, ledger, memory, locks, requests, handlers, tokens>>

PublishTrack(s, k) ==
  /\ ClientMayAct
  /\ s.tracks < MaxTracks
  /\ k \in {"published", "badName"}
  /\ live' = (live \ {s}) \cup {[s EXCEPT !.tracks = @ + 1]}
  /\ hooks' = hooks \cup {Hooked(k, s)}
  /\ offenders' = IF k = "badName" \/ s.tracks > 0 THEN offenders \cup {s.who}
                                                  ELSE offenders
  /\ UNCHANGED <<rooms, sessions, nonce, lost, ledger, memory, locks, requests,
                 handlers>>

UnpublishTrack(s) ==
  /\ ClientMayAct
  /\ s.tracks > 0
  /\ live' = (live \ {s}) \cup {[s EXCEPT !.tracks = @ - 1]}
  /\ hooks' = hooks \cup {Hooked("unpublished", s)}
  /\ UNCHANGED <<rooms, ledger, memory, locks, requests, handlers, tokens>>

(* LiveKit restarts: its rooms and sessions are gone and no webhook says so. *)
LiveKitRestart ==
  /\ rooms' = {} /\ live' = {}
  /\ UNCHANGED <<hooks, ledger, memory, locks, requests, handlers, tokens>>

(* LiveKit gives up delivering a webhook. *)
LoseHook(e) ==
  /\ e \in hooks /\ lost < MaxLost
  /\ hooks' = hooks \ {e}
  /\ live' = Heard(e, "lost")
  /\ lost' = lost + 1
  /\ UNCHANGED <<rooms, sessions, nonce, offenders, ledger, memory, locks, requests,
                 handlers>>

(* 120 seconds, then an hour, since the lease was issued or extended; the  *)
(* hour makes no difference before the holder has joined.                  *)
AgeLease(c) ==
  /\ holder[c] # None /\ age[c] < (IF c \in joined THEN 2 ELSE 1)
  /\ age' = [age EXCEPT ![c] = @ + 1]
  /\ UNCHANGED <<open, epoch, holder, joined, generation, memory, locks, requests,
                 handlers, livekit, tokens>>

-----------------------------------------------------------------------------
SubmitAny(p) ==
  \E o \in Operation, c \in Channel \cup {None}, k \in {0, generation} :
    Submit(p, o, c, k)

RequestStep(p) ==
  \/ RefuseStalePassword(p) \/ TakeRotationLock(p)
  \/ ChannelGone(p) \/ TakeChannelLock(p) \/ CloseVacant(p)
  \/ EnsureRoomFails(p) \/ Subscribe(p) \/ PublishDirect(p)
  \/ AskPresence(p) \/ LookUp(p) \/ KeepHolder(p) \/ PublishAfterAbsent(p)
  \/ TakeOverVacant(p) \/ TakeOverHeld(p)
  \/ RemoveHolder(p) \/ RemoveHolderFails(p)
  \/ CloseAfterRemove(p) \/ TakeOverAfterRemove(p)
  \/ RotateCreate(p) \/ RotateFails(p) \/ RotateCommit(p)
  \/ \E g \in todo[p] : RotateDelete(p, g)

HandleEvent(e) ==
  \/ SkipForeign(e) \/ Admit(e) \/ TrackUnpublished(e) \/ ParticipantLeft(e)
  \/ \E h \in Hook : Reject(h, e) \/ AskTracks(h, e) \/ RejectTrack(h, e)

HookStep(h) == SetOnAir(h) \/ RejectSecondTrack(h) \/ Eject(h) \/ EjectFails(h)

Environment ==
  \/ \E x \in Issued : Join(x) \/ ConnectionAborted(x)
  \/ \E s \in live : Leave(s) \/ UnpublishTrack(s)
                     \/ \E k \in {"published", "badName"} : PublishTrack(s, k)
  \/ LiveKitRestart
  \/ \E e \in hooks : LoseHook(e)
  \/ \E c \in Channel : AgeLease(c)

Next ==
  \/ \E c \in Channel : CreateChannel(c)
  \/ \E p \in Request : SubmitAny(p) \/ RequestStep(p)
  \/ \E e \in hooks : HandleEvent(e)
  \/ \E h \in Hook : HookStep(h)
  \/ Environment

Spec == Init /\ [][Next]_vars

-----------------------------------------------------------------------------
(* Fairness.  asyncio runs every coroutine that is not waiting, its locks  *)
(* are first come first served, every LiveKit call ends (it may fail), a   *)
(* webhook answered 503 is sent again, and LiveKit does not refuse the     *)
(* removal of a participant for ever.  People and time owe nothing.        *)
LockStep(p) == RefuseStalePassword(p) \/ TakeRotationLock(p)
JudgeJoined ==
  \E e \in hooks : e.kind = "joined" /\ (Admit(e) \/ \E h \in Hook : Reject(h, e))

Fairness ==
  /\ \A p \in Request : WF_vars(RequestStep(p)) /\ SF_vars(LockStep(p))
  /\ SF_vars(JudgeJoined)
  /\ \A h \in Hook : WF_vars(HookStep(h)) /\ SF_vars(Eject(h))

FairSpec == Spec /\ Fairness

-----------------------------------------------------------------------------
(* Properties. *)

LedgerType ==
  /\ open \subseteq Channel
  /\ epoch \in [Channel -> Nat]
  /\ holder \in [Channel -> Identity \cup {None}]
  /\ joined \subseteq Channel
  /\ age \in [Channel -> 0..2]
  /\ generation \in Nat
MemoryType ==
  /\ onAir \subseteq Channel
  /\ DOMAIN strikes \subseteq Identity
  /\ strikes \in [DOMAIN strikes -> 0..3]
LockType ==
  /\ rotationLock \in Request \cup {None}
  /\ channelLock \in [Channel -> Request \cup {None}]
RequestType ==
  /\ pc \in [Request -> RequestPc]
  /\ op \in [Request -> Operation]
  /\ chan \in [Request -> Channel \cup {None}]
  /\ cred \in [Request -> Nat]
  /\ held \in [Request -> Identity \cup {None}]
  /\ todo \in [Request -> SUBSET Nat]
HandlerType ==
  /\ hpc \in [Hook -> HookPc]
  /\ hev \in [Hook -> Event \cup {None}]
LiveKitType ==
  /\ rooms \subseteq Nat
  /\ live \subseteq Session
  /\ hooks \subseteq Event
TokenType ==
  /\ Issued \subseteq Identity
  /\ sessions \in [Issued -> Nat]
  /\ nonce \in Nat
  /\ offenders \subseteq Identity
  /\ lost \in Nat

(* Every variable keeps its type: the ledger row, lock, request, handler   *)
(* and room fields of the code.                                            *)
TypeOK ==
  /\ LedgerType /\ MemoryType /\ LockType /\ RequestType /\ HandlerType
  /\ LiveKitType /\ TokenType

(* A lease row exists only for an open channel: a publish request that     *)
(* waited for its locks while the channel was closed must not write one.   *)
LeaseOnOpenChannel == \A c \in Channel : holder[c] # None => c \in open

(* A lease is for its channel, its present epoch and the present password  *)
(* generation, however takeovers, rotations and publishes interleave; the  *)
(* webhook checks rely on it.                                              *)
LeaseIsCurrent ==
  \A c \in Channel : holder[c] # None =>
    /\ holder[c] \in Issued
    /\ holder[c].ch = c /\ holder[c].epoch = epoch[c] /\ holder[c].gen = generation

(* A request past the password check works under the password it checked:  *)
(* no rotation commits while it waits for LiveKit or for a channel lock.   *)
PasswordStillValid ==
  \A p \in Request : pc[p] \notin {"idle", "rotation"} => cred[p] \in {0, generation}

(* Between reading the lease and changing the channel, takeover, close and *)
(* publish wait for LiveKit; meanwhile webhooks may release the lease they *)
(* read but nobody may write another one.                                  *)
LeaseHeldDuringAwait ==
  \A p \in Request :
    pc[p] \in {"lookup", "present", "absent", "remove", "removed"} =>
      holder[chan[p]] \in {held[p], None}

(* Rotation destroys the rooms of older generations for good: none is left *)
(* after the commit and no ensure_room brings one back, so a token of an   *)
(* older generation never connects again.                                  *)
NoOldGenerationRoom ==
  /\ \A g \in rooms : g >= generation
  /\ \A s \in live : s.who.gen = generation

(* An event is committed only after its handling succeeded: whoever is in  *)
(* the room was let in as the lease holder, or its participant_joined will *)
(* be delivered (again), unless LiveKit gave that up.                      *)
AdmittedOrPending ==
  \A s \in live : s.heard = "pending" => Hooked("joined", s) \in hooks

(* Clients that behave are never punished while they hold the channel,     *)
(* however late, repeated or reordered the webhooks about them or about    *)
(* earlier holders are.                                                    *)
HolderNotStruckUnjustly ==
  \A c \in Channel : holder[c] # None /\ StrikesOf(holder[c]) > 0
                       => holder[c] \in offenders

(* Whoever lost the channel never holds it again with the same token.      *)
NoReturn ==
  [][\A x \in Issued : holder[x.ch] # x => holder'[x.ch] # x]_vars

(* A publish request takes the channel from its holder only when the       *)
(* holder's grace period or time to live is over, or LiveKit said that it  *)
(* is gone: never within the grace period, and never from an admitted      *)
(* speaker that is in the room.  (A holder that reconnects while the       *)
(* answer is on its way can lose it: stated for tokens used once.)         *)
PublishSparesHolder ==
  [][\A c \in Channel :
       (holder[c] # None /\ holder'[c] \notin {None, holder[c]} /\ epoch'[c] = epoch[c])
         => /\ c \notin joined => age[c] > 0
            /\ MaxJoins = 1 => \A s \in SessionsOf(holder[c]) : s.heard # "admitted"]_vars

(* The ledger behind all the requests and webhooks is the simple one.      *)
Ledger == INSTANCE LeaseLedger WITH issued <- Issued
ImplementsLedger == Ledger!Spec

(* Every request is answered: the locks are never held for ever and nobody *)
(* waits in a circle.                                                      *)
RequestsFinish == \A p \in Request : (pc[p] # "idle") ~> (pc[p] = "idle")

(* Whoever connects without holding the channel is let in or gone in the   *)
(* end, although removals fail and webhooks are repeated.                  *)
Unjudged(n) == \E s \in live : s.who.nonce = n /\ s.heard = "pending"
EveryoneIsJudged == \A n \in 1..MaxNonce : Unjudged(n) ~> ~Unjudged(n)

-----------------------------------------------------------------------------
(* What the documents say and the code does not do. *)

(* monitor.py: a channel is on air by lease occupation and a published     *)
(* track.  The track check awaits LiveKit and the lease is not read again. *)
OnAirHasLease == \A c \in onAir : holder[c] # None

(* openapi.yaml: a stale participant_left must not erase the state of a    *)
(* new session.  A reconnection has the same identity and no timestamp is  *)
(* compared.                                                               *)
StaleLeftIsIgnored ==
  [][\A e \in hooks :
       ParticipantLeft(e) /\ holder' # holder =>
         ~\E s \in live : s.who = e.who /\ s.sid > e.sid]_vars

(* openapi.yaml: at any time only the lease holder can stay in the room as *)
(* the sender of a channel.  Stated for a moment when nothing is being     *)
(* handled: a holder that connects between its removal and the end of a    *)
(* takeover is admitted and stays.                                         *)
Quiet ==
  /\ hooks = {}
  /\ \A p \in Request : pc[p] = "idle"
  /\ \A h \in Hook : hpc[h] = "idle"
OnlyHoldersStay == Quiet => \A s \in live : holder[s.who.ch] = s.who
=============================================================================
