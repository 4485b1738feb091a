------------------------- MODULE RelayRestartProofs -------------------------
(***************************************************************************)
(* Theorems about RelayRestart, for any channels, requests and handlers,   *)
(* any bounds and any number of crashes: what bootstrap promises before    *)
(* the server serves again.                                                *)
(*                                                                         *)
(* While it serves, the process takes RelayControl's steps, and the lemmas *)
(* of RelayControlProofs about types, locks and rooms hold for them as     *)
(* they stand.  The leases are weaker here: a crash may leave a lease of   *)
(* an older generation or epoch behind.  What is left is shown to be       *)
(* harmless: it is never joined, unless of the present generation.         *)
(***************************************************************************)
EXTENDS RelayRestart, RelayControlProofs


(* A lease was given for its channel in the past or present. *)
LeaseInv ==
  \A c \in Channel : holder[c] # None =>
    /\ holder[c].ch = c /\ holder[c].epoch <= epoch[c]
    /\ holder[c].gen <= generation

(* A lease whose holder has joined is of the present generation. *)
JoinedInv ==
  \A c \in Channel : c \in joined /\ holder[c] # None => holder[c].gen = generation

(* Everybody connected is in a room, and in one of the sessions opened     *)
(* with the token.                                                         *)
SeatInv ==
  \A s \in live :
    s.who.gen \in rooms /\ s.who \in Issued /\ s.sid <= sessions[s.who]

(* Nobody takes another's seat: whoever is connected after a step was      *)
(* before it, or is in a session opened since.                             *)
Reseated ==
  \A t \in live' :
    \/ \E s \in live : t.who = s.who /\ t.sid = s.sid
    \/ t.who \in Issued /\ t.sid > sessions[t.who]

(* Tokens are not forgotten, nor the sessions they opened. *)
TokensGrow == \A x \in Issued : x \in Issued' /\ sessions[x] <= sessions'[x]

BootType ==
  /\ boot \in BootPc
  /\ purge \subseteq Nat
  /\ roster \subseteq Session /\ orphans \subseteq Session

(* Nothing is requested of a server that does not serve. *)
StoppedInv == ~Up => \A p \in Request : pc[p] = "idle"

(* Once bootstrap has listed the rooms, the older ones are on its list. *)
PurgeInv ==
  /\ boot \in {"create", "delete", "remove"} => rooms \subseteq {generation} \cup purge
  /\ boot = "remove" => purge = {}

(* Whoever was listed and is still connected holds the channel or is going *)
(* to be removed.                                                          *)
RosterInv ==
  \A s \in roster :
    /\ s.who \in Issued /\ s.sid <= sessions[s.who]
    /\ \A t \in live : t.who = s.who /\ t.sid = s.sid =>
         holder[s.who.ch] = s.who \/ \E o \in orphans : o.who = s.who

RestartInv ==
  /\ TypeInv /\ LockInv /\ IssuedInv /\ LeaseInv /\ SeatInv
  /\ BootType /\ StoppedInv /\ PurgeInv
  /\ Up => RoomsInv
  /\ boot \in {"up", "remove"} => JoinedInv
  /\ boot = "remove" => RosterInv
-----------------------------------------------------------------------------
(* The steps of a process that serves. *)

(* Every step keeps leases in their channel's past or present, and joined  *)
(* ones in the present generation: a new lease is of the present one, and  *)
(* only an event of the present one marks a lease joined.                  *)
LEMMA LeaseInvStep ==
  ASSUME TypeInv, LeaseInv, [Next]_vars
  PROVE  LeaseInv' /\ (JoinedInv => JoinedInv')
<1> USE DEF TypeInv, TypeOK, LedgerType, TokenType, LiveKitType, LeaseInv, JoinedInv
<1>1. CASE UNCHANGED <<epoch, holder, joined, generation>>
  BY <1>1
<1>2. ASSUME NEW p \in Request, CloseVacant(p) \/ CloseAfterRemove(p)
      PROVE  LeaseInv' /\ (JoinedInv => JoinedInv')
  BY <1>2 DEF CloseVacant, CloseAfterRemove, CloseRow, DeleteLease
<1>3. ASSUME NEW p \in Request, PublishDirect(p) \/ PublishAfterAbsent(p)
      PROVE  LeaseInv' /\ (JoinedInv => JoinedInv')
  <2>1. /\ \/ WriteLease(chan[p], epoch[chan[p]])
           \/ UNCHANGED <<holder, joined>>
        /\ UNCHANGED <<epoch, generation>>
    BY <1>3 DEF PublishDirect, PublishAfterAbsent
  <2> QED
    BY <2>1 DEF WriteLease, NewIdentity
<1>4. ASSUME NEW p \in Request, TakeOverVacant(p) \/ TakeOverAfterRemove(p)
      PROVE  LeaseInv' /\ (JoinedInv => JoinedInv')
  <2>1. /\ WriteLease(chan[p], epoch[chan[p]] + 1)
        /\ epoch' = [epoch EXCEPT ![chan[p]] = epoch[chan[p]] + 1]
        /\ UNCHANGED generation
    BY <1>4 DEF TakeOverVacant, TakeOverAfterRemove, TakeOverRow
  <2> QED
    BY <2>1 DEF WriteLease, NewIdentity
<1>5. ASSUME NEW p \in Request, RotateCommit(p)
      PROVE  LeaseInv' /\ (JoinedInv => JoinedInv')
  BY <1>5 DEF RotateCommit
<1>6. ASSUME NEW e \in hooks, Admit(e)
      PROVE  LeaseInv' /\ (JoinedInv => JoinedInv')
  <2>1. /\ joined' = joined \cup {e.who.ch}
        /\ holder[e.who.ch] = e.who /\ e.who.gen = generation
        /\ UNCHANGED <<epoch, holder, generation>>
    BY <1>6 DEF Admit, HoldsLease, InScope
  <2> QED
    BY <2>1
<1>7. ASSUME NEW e \in hooks, ParticipantLeft(e)
      PROVE  LeaseInv' /\ (JoinedInv => JoinedInv')
  BY <1>7 DEF ParticipantLeft, DeleteLease
<1> HIDE DEF TypeInv, TypeOK, LedgerType, TokenType, LiveKitType, LeaseInv, JoinedInv
<1> QED
  BY <1>1, <1>2, <1>3, <1>4, <1>5, <1>6, <1>7, LedgerWriters

(* A token is issued with a new lease only; it keeps the number of         *)
(* sessions it opened, but for the one it opens next.                      *)
LEMMA TokensStep ==
  ASSUME TypeInv, IssuedInv, [Next]_vars
  PROVE  IssuedInv' /\ TokensGrow
<1> USE DEF TypeInv, TypeOK, LedgerType, TokenType, IssuedInv, TokensGrow, Issued,
        tokens, ledger
<1>1. CASE UNCHANGED <<sessions, nonce, generation>>
  BY <1>1
<1>2. ASSUME NEW p \in Request, PublishDirect(p) \/ PublishAfterAbsent(p)
      PROVE  IssuedInv' /\ TokensGrow
  <2>1. /\ \/ WriteLease(chan[p], epoch[chan[p]])
           \/ UNCHANGED <<sessions, nonce>>
        /\ UNCHANGED generation
    BY <1>2 DEF PublishDirect, PublishAfterAbsent
  <2>2. CASE UNCHANGED <<sessions, nonce>>
    BY <2>1, <2>2
  <2>3. CASE WriteLease(chan[p], epoch[chan[p]])
    <3> DEFINE x == NewIdentity(chan[p], epoch[chan[p]])
    <3>1. x.nonce = nonce /\ x.gen = generation
      BY DEF NewIdentity
    <3>2. /\ sessions' = [y \in Issued \cup {x} |-> IF y = x THEN 0 ELSE sessions[y]]
          /\ nonce' = nonce + 1
      BY <2>3 DEF WriteLease
    <3>3. \A y \in Issued : y.nonce < nonce + 1 /\ y # x
      BY <3>1 DEF Identity
    <3> HIDE DEF x
    <3> QED
      BY <2>1, <3>1, <3>2, <3>3
  <2> QED
    BY <2>1, <2>2, <2>3
<1>3. ASSUME NEW p \in Request, TakeOverVacant(p) \/ TakeOverAfterRemove(p)
      PROVE  IssuedInv' /\ TokensGrow
  <2> DEFINE x == NewIdentity(chan[p], epoch[chan[p]] + 1)
  <2>1. x.nonce = nonce /\ x.gen = generation
    BY DEF NewIdentity
  <2>2. /\ sessions' = [y \in Issued \cup {x} |-> IF y = x THEN 0 ELSE sessions[y]]
        /\ nonce' = nonce + 1 /\ UNCHANGED generation
    BY <1>3 DEF TakeOverVacant, TakeOverAfterRemove, TakeOverRow, WriteLease
  <2>3. \A y \in Issued : y.nonce < nonce + 1 /\ y # x
    BY <2>1 DEF Identity
  <2> HIDE DEF x
  <2> QED
    BY <2>1, <2>2, <2>3
<1>4. ASSUME NEW p \in Request, RotateCommit(p)
      PROVE  IssuedInv' /\ TokensGrow
  <2>1. generation' = generation + 1 /\ UNCHANGED <<sessions, nonce>>
    BY <1>4 DEF RotateCommit
  <2>2. \A x \in Issued : x.gen <= generation + 1
    BY DEF Identity
  <2> QED
    BY <2>1, <2>2
<1>5. ASSUME NEW x \in Issued, Join(x) \/ ConnectionAborted(x)
      PROVE  IssuedInv' /\ TokensGrow
  <2>1. sessions' = [sessions EXCEPT ![x] = @ + 1] /\ UNCHANGED <<nonce, generation>>
    BY <1>5 DEF Join, ConnectionAborted
  <2> QED
    BY <2>1
<1>6. CASE UNCHANGED vars
  BY <1>6 DEF vars
<1>7. ASSUME NEW c \in Channel, CreateChannel(c) \/ AgeLease(c)
      PROVE  UNCHANGED <<sessions, nonce, generation>>
  BY <1>7 DEF CreateChannel, AgeLease
<1>8. ASSUME NEW p \in Request, SubmitAny(p)
      PROVE  UNCHANGED <<sessions, nonce, generation>>
  BY <1>8 DEF SubmitAny, Submit
<1>9. ASSUME NEW p \in Request,
             \/ RefuseStalePassword(p) \/ TakeRotationLock(p) \/ ChannelGone(p)
             \/ TakeChannelLock(p) \/ EnsureRoomFails(p) \/ Subscribe(p)
             \/ AskPresence(p) \/ LookUp(p) \/ KeepHolder(p) \/ TakeOverHeld(p)
      PROVE  UNCHANGED <<sessions, nonce, generation>>
  BY <1>9 DEF RefuseStalePassword, TakeRotationLock, ChannelGone, TakeChannelLock,
        EnsureRoomFails, Subscribe, AskPresence, LookUp, KeepHolder, TakeOverHeld
<1>10. ASSUME NEW p \in Request,
             \/ RemoveHolder(p) \/ RemoveHolderFails(p)
             \/ CloseVacant(p) \/ CloseAfterRemove(p)
             \/ RotateCreate(p) \/ RotateFails(p) \/ \E g \in todo[p] : RotateDelete(p, g)
      PROVE  UNCHANGED <<sessions, nonce, generation>>
  BY <1>10 DEF RemoveHolder, RemoveHolderFails, CloseVacant, CloseAfterRemove, CloseRow,
        RotateCreate, RotateFails, RotateDelete
<1>11. ASSUME NEW e \in hooks, HandleEvent(e) \/ LoseHook(e)
      PROVE  UNCHANGED <<sessions, nonce, generation>>
  BY <1>11 DEF HandleEvent, SkipForeign, Admit, TrackUnpublished, ParticipantLeft,
        Reject, AskTracks, RejectTrack, LoseHook
<1>12. ASSUME NEW h \in Hook, HookStep(h)
      PROVE  UNCHANGED <<sessions, nonce, generation>>
  BY <1>12 DEF HookStep, SetOnAir, RejectSecondTrack, Eject, EjectFails
<1>13. ASSUME NEW s \in live,
              \/ Leave(s) \/ UnpublishTrack(s)
              \/ \E k \in {"published", "badName"} : PublishTrack(s, k)
      PROVE  UNCHANGED <<sessions, nonce, generation>>
  BY <1>13 DEF Leave, UnpublishTrack, PublishTrack
<1>14. ASSUME LiveKitRestart
      PROVE  UNCHANGED <<sessions, nonce, generation>>
  BY <1>14 DEF LiveKitRestart
<1> HIDE DEF TypeInv, TypeOK, LedgerType, TokenType, IssuedInv, TokensGrow, Issued,
        tokens, ledger
<1> QED
  BY <1>1, <1>2, <1>3, <1>4, <1>5, <1>6, <1>7, <1>8, <1>9, <1>10, <1>11, <1>12, <1>13,
     <1>14 DEF Next, RequestStep, Environment

(* Another number of tracks is the same seat.                              *)
LEMMA TracksKeepSeat ==
  ASSUME LiveKitType, NEW s \in live,
         UnpublishTrack(s) \/ \E k \in {"published", "badName"} : PublishTrack(s, k)
  PROVE  /\ \A t \in live' : \E u \in live : t.who = u.who /\ t.sid = u.sid
         /\ UNCHANGED <<rooms, sessions>>
<1>1. s \in Session
  BY DEF LiveKitType
<1>2. CASE UnpublishTrack(s)
  <2> DEFINE t == [s EXCEPT !.tracks = s.tracks - 1]
  <2>1. t.who = s.who /\ t.sid = s.sid
    BY <1>1 DEF Session
  <2>2. live' = (live \ {s}) \cup {t} /\ UNCHANGED <<rooms, sessions>>
    BY <1>2 DEF UnpublishTrack, tokens
  <2> QED
    BY <2>1, <2>2
<1>3. ASSUME NEW k, PublishTrack(s, k)
      PROVE  /\ \A t \in live' : \E u \in live : t.who = u.who /\ t.sid = u.sid
             /\ UNCHANGED <<rooms, sessions>>
  <2> DEFINE t == [s EXCEPT !.tracks = s.tracks + 1]
  <2>1. t.who = s.who /\ t.sid = s.sid
    BY <1>1 DEF Session
  <2>2. live' = (live \ {s}) \cup {t} /\ UNCHANGED <<rooms, sessions>>
    BY <1>3 DEF PublishTrack
  <2> QED
    BY <2>1, <2>2
<1> QED
  BY <1>2, <1>3

(* Every step seats people in rooms that exist, with issued tokens; a room *)
(* that is deleted is emptied with it.                                     *)
LEMMA SeatInvStep ==
  ASSUME TypeInv, SeatInv, TokensGrow, [Next]_vars
  PROVE  SeatInv' /\ Reseated
<1> USE DEF TypeInv, TypeOK, LiveKitType, TokenType, SeatInv, Reseated, TokensGrow
<1>1. ASSUME \A t \in live' : \E s \in live : t.who = s.who /\ t.sid = s.sid,
             \A t \in live' : t.who.gen \in rooms => t.who.gen \in rooms'
      PROVE  SeatInv' /\ Reseated
  <2>1. \A s \in live :
          s.who.gen \in rooms /\ s.who \in Issued' /\ s.sid <= sessions'[s.who]
    <3> SUFFICES ASSUME NEW s \in live
                 PROVE  s.who \in Issued' /\ s.sid <= sessions'[s.who]
      OBVIOUS
    <3>1. s.sid \in Nat /\ s.who \in Issued /\ s.sid <= sessions[s.who]
      BY DEF Session
    <3>2. /\ sessions[s.who] \in Nat /\ s.who \in Issued'
          /\ sessions[s.who] <= sessions'[s.who]
      BY <3>1
    <3>3. sessions'[s.who] \in Nat
      BY <3>2, TypeInvStep
    <3> QED
      BY <3>1, <3>2, <3>3
  <2> QED
    BY <1>1, <2>1
<1>2. ASSUME live' \subseteq live, rooms \subseteq rooms'
      PROVE  SeatInv' /\ Reseated
  BY <1>1, <1>2
<1>3. ASSUME NEW p \in Request, NEW g \in todo[p], RotateDelete(p, g)
      PROVE  SeatInv' /\ Reseated
  <2>1. live' = live \ {s \in live : s.who.gen = g} /\ rooms' = rooms \ {g}
    BY <1>3 DEF RotateDelete, Disconnect
  <2> QED
    BY <1>1, <2>1
<1>4. ASSUME LiveKitRestart
      PROVE  SeatInv' /\ Reseated
  BY <1>4 DEF LiveKitRestart
<1>5. ASSUME NEW e \in hooks, Admit(e) \/ LoseHook(e)
      PROVE  SeatInv' /\ Reseated
  <2>1. \A t \in live' : \E s \in live : t.who = s.who /\ t.sid = s.sid
    BY <1>5, HeardKeeps DEF Admit, LoseHook
  <2>2. UNCHANGED rooms
    BY <1>5 DEF Admit, LoseHook
  <2> QED
    BY <1>1, <2>1, <2>2
<1>6. ASSUME NEW s \in live,
             UnpublishTrack(s) \/ \E k \in {"published", "badName"} : PublishTrack(s, k)
      PROVE  SeatInv' /\ Reseated
  BY <1>1, <1>6, TracksKeepSeat
<1>7. ASSUME NEW x \in Issued, Join(x)
      PROVE  SeatInv' /\ Reseated
  <2> DEFINE s == [who |-> x, sid |-> sessions[x] + 1, tracks |-> 0, heard |-> "pending"]
  <2>1. /\ live' = (live \ SessionsOf(x)) \cup {s}
        /\ sessions' = [sessions EXCEPT ![x] = @ + 1]
        /\ x.gen \in rooms /\ UNCHANGED rooms
    BY <1>7 DEF Join
  <2>2. s.who = x /\ s.sid = sessions[x] + 1
    OBVIOUS
  <2>3. /\ Issued' = Issued /\ sessions[x] \in Nat /\ sessions'[x] = sessions[x] + 1
        /\ \A y \in Issued : y # x => sessions'[y] = sessions[y]
    BY <2>1 DEF Issued
  <2>4. ASSUME NEW t \in live \ SessionsOf(x)
        PROVE  /\ t.who.gen \in rooms' /\ t.who \in Issued' /\ t.sid <= sessions'[t.who]
               /\ \E u \in live : t.who = u.who /\ t.sid = u.sid
    BY <2>1, <2>3, <2>4 DEF SessionsOf
  <2>5. /\ s.who.gen \in rooms' /\ s.who \in Issued' /\ s.sid <= sessions'[s.who]
        /\ s.who \in Issued /\ s.sid > sessions[s.who]
    BY <2>1, <2>2, <2>3
  <2> HIDE DEF s
  <2> QED
    BY <2>1, <2>4, <2>5
<1>8. CASE UNCHANGED vars
  BY <1>2, <1>8 DEF vars, livekit
<1>9. ASSUME NEW c \in Channel, CreateChannel(c) \/ AgeLease(c)
      PROVE  SeatInv' /\ Reseated
  BY <1>2, <1>9 DEF CreateChannel, AgeLease, livekit
<1>10. ASSUME NEW p \in Request, SubmitAny(p)
      PROVE  SeatInv' /\ Reseated
  BY <1>2, <1>10 DEF SubmitAny, Submit, livekit
<1>11. ASSUME NEW p \in Request,
             \/ RefuseStalePassword(p) \/ TakeRotationLock(p) \/ ChannelGone(p)
             \/ TakeChannelLock(p) \/ LookUp(p) \/ KeepHolder(p)
             \/ CloseVacant(p) \/ CloseAfterRemove(p)
             \/ PublishAfterAbsent(p) \/ TakeOverAfterRemove(p)
             \/ RotateFails(p) \/ RotateCommit(p)
      PROVE  live' \subseteq live /\ rooms \subseteq rooms'
  BY <1>11 DEF RefuseStalePassword, TakeRotationLock, ChannelGone, TakeChannelLock,
        LookUp, KeepHolder, CloseVacant, CloseAfterRemove, CloseRow, PublishAfterAbsent,
        TakeOverAfterRemove, RotateFails, RotateCommit, livekit
<1>12. ASSUME NEW p \in Request,
             \/ EnsureRoomFails(p) \/ Subscribe(p) \/ PublishDirect(p) \/ AskPresence(p)
             \/ TakeOverVacant(p) \/ TakeOverHeld(p) \/ RotateCreate(p)
             \/ RemoveHolder(p) \/ RemoveHolderFails(p)
      PROVE  live' \subseteq live /\ rooms \subseteq rooms'
  BY <1>12 DEF EnsureRoomFails, Subscribe, PublishDirect, AskPresence, TakeOverVacant,
        TakeOverHeld, RotateCreate, RoomEnsured, RemoveHolder, RemoveHolderFails,
        RemoveParticipantFails, RemoveParticipant, Disconnect, livekit
<1>13. ASSUME NEW e \in hooks,
             \/ SkipForeign(e) \/ TrackUnpublished(e) \/ ParticipantLeft(e)
             \/ \E h \in Hook : Reject(h, e) \/ AskTracks(h, e) \/ RejectTrack(h, e)
      PROVE  live' \subseteq live /\ rooms \subseteq rooms'
  BY <1>13 DEF SkipForeign, TrackUnpublished, ParticipantLeft, Reject, AskTracks,
        RejectTrack, livekit
<1>14. ASSUME NEW h \in Hook, HookStep(h)
      PROVE  live' \subseteq live /\ rooms \subseteq rooms'
  BY <1>14 DEF HookStep, SetOnAir, RejectSecondTrack, Eject, EjectFails,
        RemoveParticipantFails, RemoveParticipant, Disconnect, livekit
<1>15. ASSUME \/ \E s \in live : Leave(s)
              \/ \E x \in Issued : ConnectionAborted(x)
       PROVE  live' \subseteq live /\ rooms \subseteq rooms'
  BY <1>15 DEF Leave, ConnectionAborted, Disconnect
<1> HIDE DEF TypeInv, TypeOK, LiveKitType, TokenType, SeatInv, Reseated, TokensGrow
<1> QED
  BY <1>2, <1>3, <1>4, <1>5, <1>6, <1>7, <1>8, <1>9, <1>10, <1>11, <1>12, <1>13, <1>14,
     <1>15 DEF Next, RequestStep, HandleEvent, Environment
-----------------------------------------------------------------------------
(* The steps of RelayRestart. *)

(* What bootstrap and a crash leave alone of the relay is as it was.       *)
LEMMA RestartFrame ==
  ASSUME LockInv, IssuedInv, LeaseInv
  PROVE  /\ UNCHANGED <<ledger, locks, requests>> => LockInv'
         /\ UNCHANGED <<ledger, tokens>> => IssuedInv'
         /\ UNCHANGED ledger => LeaseInv' /\ (JoinedInv => JoinedInv')
<1>1. UNCHANGED <<ledger, locks, requests>> => LockInv'
  BY DEF ledger, locks, requests, LockInv, RotationLockInv, ChannelLockInv, OwnsChannel,
     PasswordStillValid, LeaseOnOpenChannel, LeaseHeldDuringAwait
<1>2. UNCHANGED <<ledger, tokens>> => IssuedInv'
  BY DEF ledger, tokens, IssuedInv, Issued
<1>3. UNCHANGED ledger => LeaseInv' /\ (JoinedInv => JoinedInv')
  BY DEF ledger, LeaseInv, JoinedInv
<1> QED
  BY <1>1, <1>2, <1>3

(* With no request under way the locks protect nothing; only a lease on a  *)
(* closed channel would be wrong.                                          *)
LEMMA StoppedLocks ==
  ASSUME TypeInv', \A p \in Request : pc'[p] = "idle", LeaseOnOpenChannel'
  PROVE  LockInv'
<1>1. RotationLockInv' /\ ChannelLockInv'
  BY DEF RotationLockInv, ChannelLockInv, OwnsChannel, Critical, Awaiting
<1>2. PasswordStillValid' /\ LeaseHeldDuringAwait'
  BY DEF PasswordStillValid, LeaseHeldDuringAwait
<1> QED
  BY <1>1, <1>2 DEF LockInv

(* The server serves: a step of RelayControl, bootstrap is over.           *)
LEMMA ServeKeeps ==
  ASSUME RestartInv, Serve
  PROVE  RestartInv'
<1>1. Up /\ [Next]_vars /\ UNCHANGED bootstrap
  BY DEF Serve, Next
<1>2. TypeInv' /\ LockInv' /\ RoomsInv'
  BY <1>1, TypeInvStep, LockInvStep, RoomsInvStep DEF RestartInv
<1>3. LeaseInv' /\ JoinedInv'
  BY <1>1, LeaseInvStep DEF RestartInv, Up
<1>4. IssuedInv' /\ TokensGrow
  BY <1>1, TokensStep DEF RestartInv
<1>5. SeatInv'
  BY <1>1, <1>4, SeatInvStep DEF RestartInv
<1>6. BootType' /\ StoppedInv' /\ PurgeInv' /\ boot' = "up"
  BY <1>1 DEF RestartInv, bootstrap, Up, BootType, StoppedInv, PurgeInv
<1> QED
  BY <1>2, <1>3, <1>4, <1>5, <1>6 DEF RestartInv

(* LiveKit, its clients and time touch no lease, request or generation,    *)
(* and create no room.                                                     *)
LEMMA EnvironmentFrame ==
  ASSUME Environment
  PROVE  /\ [Next]_vars
         /\ UNCHANGED <<holder, joined, generation, pc>> /\ rooms' \subseteq rooms
<1>1. [Next]_vars
  BY DEF Next
<1>2. UNCHANGED <<holder, joined, generation, pc>> /\ rooms' \subseteq rooms
  BY DEF Environment, Join, ConnectionAborted, Leave, UnpublishTrack, PublishTrack,
     LiveKitRestart, LoseHook, AgeLease, Disconnect, ledger, requests, livekit
<1> QED
  BY <1>1, <1>2

(* They go on while the server is down or boots.                           *)
LEMMA OutsideKeeps ==
  ASSUME RestartInv, Outside
  PROVE  RestartInv'
<1>1. Environment /\ UNCHANGED bootstrap
  BY DEF Outside
<1>2. /\ [Next]_vars /\ UNCHANGED <<holder, joined, generation, pc>>
      /\ rooms' \subseteq rooms
  BY <1>1, EnvironmentFrame
<1>3. TypeInv' /\ LockInv' /\ LeaseInv' /\ (JoinedInv => JoinedInv')
  BY <1>2, TypeInvStep, LockInvStep, LeaseInvStep DEF RestartInv
<1>4. IssuedInv' /\ TokensGrow
  BY <1>2, TokensStep DEF RestartInv
<1>5. SeatInv' /\ Reseated
  BY <1>2, <1>4, SeatInvStep DEF RestartInv
<1>6. Up => RoomsInv'
  BY <1>2, RoomsInvStep DEF RestartInv
<1>7. /\ boot' = boot /\ purge' = purge /\ roster' = roster /\ orphans' = orphans
      /\ Up' = Up
  BY <1>1 DEF bootstrap, Up
<1>8. BootType' /\ StoppedInv' /\ PurgeInv'
  BY <1>2, <1>7 DEF RestartInv, BootType, StoppedInv, PurgeInv
<1>9. RosterInv => RosterInv'
  <2> SUFFICES ASSUME RosterInv, NEW s \in roster
               PROVE  /\ s.who \in Issued' /\ s.sid <= sessions'[s.who]
                      /\ \A t \in live' : t.who = s.who /\ t.sid = s.sid =>
                           holder'[s.who.ch] = s.who \/ \E o \in orphans : o.who = s.who
    BY <1>7 DEF RosterInv
  <2>1. s.who \in Issued /\ s.sid <= sessions[s.who] /\ s.sid \in Nat
    BY DEF RosterInv, RestartInv, BootType, Session
  <2>2. s.who \in Issued' /\ sessions[s.who] <= sessions'[s.who]
    BY <1>4, <2>1 DEF TokensGrow
  <2>3. sessions[s.who] \in Nat /\ sessions'[s.who] \in Nat
    BY <1>3, <2>1, <2>2 DEF RestartInv, TypeInv, TypeOK, TokenType
  <2>4. ASSUME NEW t \in live', t.who = s.who, t.sid = s.sid
        PROVE  holder'[s.who.ch] = s.who \/ \E o \in orphans : o.who = s.who
    <3>1. \E u \in live : t.who = u.who /\ t.sid = u.sid
      BY <1>5, <2>1, <2>3, <2>4 DEF Reseated
    <3> QED
      BY <1>2, <2>4, <3>1 DEF RosterInv
  <2> QED
    BY <2>1, <2>2, <2>3, <2>4
<1> QED
  BY <1>3, <1>4, <1>5, <1>6, <1>7, <1>8, <1>9 DEF RestartInv

(* What is in memory is gone, and nothing of it was needed.                *)
LEMMA MemoryLostType ==
  ASSUME MemoryLost
  PROVE  /\ MemoryType' /\ LockType' /\ RequestType' /\ ProgramInv'
         /\ HandlerType' /\ HandlerInv'
         /\ \A p \in Request : pc'[p] = "idle"
<1>1. MemoryType' /\ LockType'
  BY DEF MemoryLost, MemoryType, LockType
<1>2. RequestType' /\ ProgramInv'
  BY DEF MemoryLost, RequestType, RequestPc, Operation, ProgramInv, Awaiting
<1>3. HandlerType' /\ HandlerInv'
  BY DEF MemoryLost, HandlerType, HookPc, HandlerInv
<1> QED
  BY <1>1, <1>2, <1>3 DEF MemoryLost

(* Whatever was committed when the process was killed is a ledger that     *)
(* could be: the epoch of a lease that was never written, a lease          *)
(* released and not given on, or a webhook's effect without its event id.  *)
LEMMA KilledLedger ==
  ASSUME TypeInv, LockInv, LeaseInv, JoinedInv,
         UNCHANGED ledger \/ KilledInTakeover \/ KilledInPublish \/ KilledInHandling
  PROVE  /\ LedgerType' /\ LeaseOnOpenChannel' /\ LeaseInv' /\ JoinedInv'
         /\ UNCHANGED generation
<1> USE DEF TypeInv, TypeOK, LedgerType, LockInv, LeaseOnOpenChannel, LeaseInv, JoinedInv
<1>1. CASE UNCHANGED ledger
  BY <1>1 DEF ledger
<1>2. CASE KilledInTakeover
  <2>1. PICK p \in Request :
          /\ pc[p] \in {"removed", "ensure"}
          /\ epoch' = [epoch EXCEPT ![chan[p]] = epoch[chan[p]] + 1]
          /\ UNCHANGED <<open, holder, joined, age, generation>>
    BY <1>2 DEF KilledInTakeover
  <2>2. epoch' \in [Channel -> Nat] /\ \A c \in Channel : epoch[c] <= epoch'[c]
    <3>1. chan[p] \in Channel
      BY <2>1 DEF ProgramInv, Awaiting
    <3>2. epoch \in [Channel -> Nat]
      OBVIOUS
    <3> HIDE DEF TypeInv, TypeOK, LedgerType, LockInv, LeaseOnOpenChannel, LeaseInv,
          JoinedInv
    <3> QED
      BY <2>1, <3>1, <3>2
  <2>3. LeaseInv'
    BY <2>1, <2>2 DEF Identity
  <2> QED
    BY <2>1, <2>2, <2>3
<1>3. ASSUME NEW c \in Channel, DeleteLease(c), UNCHANGED <<open, epoch, generation>>
      PROVE  /\ LedgerType' /\ LeaseOnOpenChannel' /\ LeaseInv' /\ JoinedInv'
             /\ UNCHANGED generation
  <2>1. LedgerType'
    BY <1>3, DeleteLeaseType
  <2>2. \A d \in Channel : holder'[d] # None => holder'[d] = holder[d]
    BY <1>3 DEF DeleteLease
  <2>3. joined' \subseteq joined
    BY <1>3 DEF DeleteLease
  <2> QED
    BY <1>3, <2>1, <2>2, <2>3
<1>4. CASE KilledInPublish
  BY <1>3, <1>4 DEF KilledInPublish, ProgramInv, Awaiting
<1>5. CASE KilledInHandling
  <2>1. PICK e \in hooks :
          /\ InScope(e)
          /\ \/ /\ e.kind = "joined" /\ ~Blocked(e.who) /\ HoldsLease(e.who)
                /\ joined' = joined \cup {e.who.ch}
                /\ UNCHANGED <<holder, age>>
             \/ /\ e.kind = "left" /\ holder[e.who.ch] = e.who
                /\ DeleteLease(e.who.ch)
          /\ UNCHANGED <<open, epoch, generation>>
    BY <1>5 DEF KilledInHandling
  <2>2. CASE DeleteLease(e.who.ch)
    BY <1>3, <2>1, <2>2 DEF LiveKitType, Event, Identity
  <2>3. CASE /\ HoldsLease(e.who)
             /\ joined' = joined \cup {e.who.ch} /\ UNCHANGED <<holder, age>>
    <3>1. e.who.gen = generation /\ holder[e.who.ch] = e.who
      BY <2>1, <2>3 DEF InScope, HoldsLease
    <3>2. e.who.ch \in Channel
      BY <2>1 DEF LiveKitType, Event, Identity
    <3> QED
      BY <2>1, <2>3, <3>1, <3>2
  <2> QED
    BY <2>1, <2>2, <2>3
<1> QED
  BY <1>1, <1>2, <1>4, <1>5

LEMMA KillKeeps ==
  ASSUME RestartInv, Kill
  PROVE  RestartInv'
<1>1. /\ Up /\ boot' = "down"
      /\ UNCHANGED ledger \/ KilledInTakeover \/ KilledInPublish \/ KilledInHandling
      /\ MemoryLost
      /\ UNCHANGED <<livekit, tokens, purge, roster, orphans>>
  BY DEF Kill
<1>2. /\ LedgerType' /\ LeaseOnOpenChannel' /\ LeaseInv' /\ JoinedInv'
      /\ UNCHANGED generation
  BY <1>1, KilledLedger DEF RestartInv, Up
<1>3. TypeInv'
  BY <1>1, <1>2, MemoryLostType, TypeFrame DEF RestartInv, TypeInv, TypeOK
<1>4. LockInv' /\ StoppedInv'
  BY <1>1, <1>2, <1>3, MemoryLostType, StoppedLocks DEF StoppedInv
<1>5. IssuedInv' /\ SeatInv'
  BY <1>1, <1>2 DEF RestartInv, IssuedInv, SeatInv, Issued, livekit, tokens
<1>6. BootType' /\ PurgeInv' /\ ~Up'
  BY <1>1 DEF RestartInv, BootType, BootPc, PurgeInv, Up
<1> QED
  BY <1>1, <1>2, <1>3, <1>4, <1>5, <1>6 DEF RestartInv

(* The generation goes up, with its leases or without them: the older      *)
(* leases that are left are of the past.                                   *)
LEMMA NextGenerationKeeps ==
  ASSUME RestartInv, boot = "down", NextGeneration \/ KilledAtGeneration,
         UNCHANGED <<memory, locks, requests, handlers, livekit, tokens>>
  PROVE  TypeInv' /\ LockInv' /\ IssuedInv' /\ LeaseInv' /\ SeatInv'
<1>1. /\ generation' = generation + 1 /\ UNCHANGED <<open, epoch>>
      /\ \/ /\ holder' = [c \in Channel |-> None] /\ joined' = {}
            /\ age' = [c \in Channel |-> 0]
         \/ UNCHANGED <<holder, joined, age>>
  BY DEF NextGeneration, KilledAtGeneration
<1>2. LedgerType' /\ LeaseOnOpenChannel' /\ LeaseInv'
  BY <1>1 DEF RestartInv, TypeInv, TypeOK, LedgerType, LockInv, LeaseOnOpenChannel,
     LeaseInv, Identity
<1>3. TypeInv'
  BY <1>2, TypeFrame DEF RestartInv, TypeInv, TypeOK
<1>4. \A p \in Request : pc'[p] = "idle"
  BY DEF RestartInv, StoppedInv, Up, requests
<1>5. IssuedInv'
  BY <1>1 DEF RestartInv, TypeInv, TypeOK, LedgerType, TokenType, IssuedInv, Issued,
     Identity, tokens
<1>6. SeatInv'
  BY DEF RestartInv, SeatInv, Issued, livekit, tokens
<1> QED
  BY <1>2, <1>3, <1>4, <1>5, <1>6, StoppedLocks

LEMMA BootStartKeeps ==
  ASSUME RestartInv, BootStart
  PROVE  RestartInv'
<1>1. /\ boot = "down" /\ boot' = "list"
      /\ UNCHANGED <<memory, locks, requests, handlers, livekit, tokens>>
      /\ UNCHANGED <<purge, roster, orphans>>
  BY DEF BootStart
<1>2. TypeInv' /\ LockInv' /\ IssuedInv' /\ LeaseInv' /\ SeatInv'
  <2>1. CASE NextGeneration
    BY <1>1, <2>1, NextGenerationKeeps
  <2>2. CASE SameGeneration
    <3>1. UNCHANGED ledger
      BY <2>2 DEF SameGeneration
    <3>2. TypeInv'
      BY <1>1, <3>1, TypeFrame DEF RestartInv, TypeInv, TypeOK
    <3>3. SeatInv'
      BY <1>1 DEF RestartInv, SeatInv, Issued, livekit, tokens
    <3> QED
      BY <1>1, <3>1, <3>2, <3>3, RestartFrame DEF RestartInv
  <2> QED
    BY <2>1, <2>2 DEF BootStart
<1>3. BootType' /\ StoppedInv' /\ PurgeInv' /\ ~Up'
  BY <1>1 DEF RestartInv, BootType, BootPc, StoppedInv, PurgeInv, Up, requests
<1> QED
  BY <1>1, <1>2, <1>3 DEF RestartInv, Up

LEMMA KilledAtGenerationKeeps ==
  ASSUME RestartInv, KilledAtGeneration
  PROVE  RestartInv'
<1>1. /\ boot = "down" /\ UNCHANGED bootstrap
      /\ UNCHANGED <<memory, locks, requests, handlers, livekit, tokens>>
  BY DEF KilledAtGeneration
<1>2. TypeInv' /\ LockInv' /\ IssuedInv' /\ LeaseInv' /\ SeatInv'
  BY <1>1, NextGenerationKeeps
<1>3. BootType' /\ StoppedInv' /\ PurgeInv' /\ boot' = "down"
  BY <1>1 DEF RestartInv, BootType, StoppedInv, PurgeInv, Up, requests, bootstrap
<1> QED
  BY <1>2, <1>3 DEF RestartInv, Up

(* The rooms of other generations are put on the list, all of them.        *)
LEMMA BootListKeeps ==
  ASSUME RestartInv, BootList
  PROVE  RestartInv'
<1>1. /\ boot = "list" /\ UNCHANGED <<vars, roster, orphans>>
      /\ purge' = rooms \ {generation} /\ boot' \in {"create", "delete"}
  BY DEF BootList, Listings
<1>2. UNCHANGED <<ledger, memory, locks, requests, handlers, livekit, tokens>>
  BY <1>1 DEF vars
<1>3. TypeInv'
  BY <1>2, TypeFrame DEF RestartInv, TypeInv, TypeOK
<1>4. LockInv' /\ IssuedInv' /\ LeaseInv'
  BY <1>2, RestartFrame DEF RestartInv
<1>5. SeatInv'
  BY <1>2 DEF RestartInv, SeatInv, Issued, livekit, tokens
<1>6. BootType' /\ StoppedInv' /\ PurgeInv' /\ ~Up'
  BY <1>1, <1>2 DEF RestartInv, TypeInv, TypeOK, LiveKitType, BootType, BootPc,
     StoppedInv, PurgeInv, Up, requests, livekit, ledger
<1> QED
  BY <1>1, <1>3, <1>4, <1>5, <1>6 DEF RestartInv, Up

(* ensure_room in a bootstrap. *)
LEMMA BootEnsured ==
  ASSUME RestartInv, RoomEnsured, UNCHANGED tokens
  PROVE  LiveKitType' /\ SeatInv'
<1>1. LiveKitType'
  BY RoomEnsuredType DEF RestartInv, TypeInv, TypeOK
<1>2. SeatInv'
  BY DEF RestartInv, RoomEnsured, SeatInv, Issued, tokens
<1> QED
  BY <1>1, <1>2

LEMMA BootCreateKeeps ==
  ASSUME RestartInv, BootCreate
  PROVE  RestartInv'
<1>1. /\ boot = "create" /\ boot' = "delete" /\ RoomEnsured
      /\ UNCHANGED <<ledger, memory, locks, requests, handlers, tokens>>
      /\ UNCHANGED <<purge, roster, orphans>>
  BY DEF BootCreate
<1>2. TypeInv' /\ SeatInv'
  BY <1>1, BootEnsured, TypeFrame DEF RestartInv, TypeInv, TypeOK
<1>3. LockInv' /\ IssuedInv' /\ LeaseInv'
  BY <1>1, RestartFrame DEF RestartInv
<1>4. BootType' /\ StoppedInv' /\ PurgeInv' /\ ~Up'
  BY <1>1 DEF RestartInv, BootType, BootPc, StoppedInv, PurgeInv, Up, requests, ledger,
     RoomEnsured
<1> QED
  BY <1>1, <1>2, <1>3, <1>4 DEF RestartInv, Up

(* Who leaves the room keeps nobody else from theirs.                      *)
LEMMA LeavingType ==
  ASSUME RestartInv, NEW S \in SUBSET live, Disconnect(S), UNCHANGED tokens,
         rooms' \subseteq rooms, \A t \in live \ S : t.who.gen \in rooms'
  PROVE  LiveKitType' /\ SeatInv'
<1>1. live' \subseteq Session /\ hooks' \subseteq Event
  BY DisconnectType DEF RestartInv, TypeInv, TypeOK
<1>2. LiveKitType'
  BY <1>1 DEF RestartInv, TypeInv, TypeOK, LiveKitType
<1>3. SeatInv'
  BY DEF RestartInv, Disconnect, SeatInv, Issued, tokens
<1> QED
  BY <1>2, <1>3

LEMMA BootDeleteKeeps ==
  ASSUME RestartInv, NEW g \in purge, BootDelete(g)
  PROVE  RestartInv'
<1>1. /\ boot = "delete" /\ rooms' = rooms \ {g} /\ purge' = purge \ {g}
      /\ Disconnect({s \in live : s.who.gen = g})
      /\ UNCHANGED <<ledger, memory, locks, requests, handlers, tokens>>
      /\ UNCHANGED <<boot, roster, orphans>>
  BY DEF BootDelete
<1>2. \A t \in live \ {s \in live : s.who.gen = g} : t.who.gen \in rooms'
  BY <1>1 DEF RestartInv, SeatInv
<1>3. TypeInv' /\ SeatInv'
  BY <1>1, <1>2, LeavingType, TypeFrame DEF RestartInv, TypeInv, TypeOK
<1>4. LockInv' /\ IssuedInv' /\ LeaseInv'
  BY <1>1, RestartFrame DEF RestartInv
<1>5. BootType' /\ StoppedInv' /\ PurgeInv' /\ ~Up'
  BY <1>1 DEF RestartInv, BootType, StoppedInv, PurgeInv, Up, requests, ledger
<1> QED
  BY <1>1, <1>3, <1>4, <1>5 DEF RestartInv, Up

(* Joined leases of who is absent are released; who is present without a   *)
(* lease is an orphan.                                                     *)
LEMMA BootReconcileKeeps ==
  ASSUME RestartInv, BootReconcile
  PROVE  RestartInv'
<1>1. /\ boot = "delete" /\ boot' = "remove" /\ purge = {} /\ UNCHANGED purge
      /\ roster' = Present /\ orphans' = {s \in Present : ~HoldsAfter(s.who)}
      /\ holder' = [c \in Channel |-> IF c \in Released THEN None ELSE holder[c]]
      /\ joined' = joined \ Released
      /\ age' = [c \in Channel |-> IF c \in Released THEN 0 ELSE age[c]]
      /\ UNCHANGED <<open, epoch, generation, strikes>>
      /\ UNCHANGED <<locks, requests, handlers, livekit, tokens>>
  BY DEF BootReconcile
<1>2. LedgerType' /\ LeaseOnOpenChannel' /\ LeaseInv'
  BY <1>1 DEF RestartInv, TypeInv, TypeOK, LedgerType, LockInv, LeaseOnOpenChannel,
     LeaseInv
<1>3. MemoryType'
  <2>1. \A s \in live : s.who.ch \in Channel
    BY DEF RestartInv, TypeInv, TypeOK, LiveKitType, Session, Identity
  <2>2. onAir' \subseteq Channel
    BY <2>1 DEF BootReconcile, Present
  <2> QED
    BY <1>1, <2>2 DEF RestartInv, TypeInv, TypeOK, MemoryType
<1>4. TypeInv'
  BY <1>1, <1>2, <1>3, TypeFrame DEF RestartInv, TypeInv, TypeOK
<1>5. \A p \in Request : pc'[p] = "idle"
  BY <1>1 DEF RestartInv, StoppedInv, Up, requests
<1>6. LockInv' /\ StoppedInv'
  BY <1>2, <1>4, <1>5, StoppedLocks DEF StoppedInv
<1>7. IssuedInv' /\ SeatInv'
  BY <1>1 DEF RestartInv, IssuedInv, SeatInv, Issued, livekit, tokens
<1>8. BootType' /\ PurgeInv' /\ ~Up'
  BY <1>1 DEF RestartInv, TypeInv, TypeOK, LiveKitType, BootType, BootPc, PurgeInv, Up,
     Present, livekit
<1>9. JoinedInv'
  <2> SUFFICES ASSUME NEW c \in Channel, c \in joined', holder'[c] # None
               PROVE  holder'[c].gen = generation'
    BY DEF JoinedInv
  <2>1. c \in joined /\ c \notin Released /\ holder'[c] = holder[c]
    BY <1>1
  <2>2. \E s \in Present : s.who = holder[c]
    BY <2>1 DEF Released, Absent
  <2> QED
    BY <1>1, <2>1, <2>2 DEF Present
<1>10. RosterInv'
  <2> SUFFICES ASSUME NEW s \in Present
               PROVE  /\ s.who \in Issued' /\ s.sid <= sessions'[s.who]
                      /\ holder'[s.who.ch] = s.who \/ \E o \in orphans' : o.who = s.who
    BY <1>1 DEF RosterInv
  <2>1. s \in live /\ s.who.ch \in Channel
    BY DEF Present, RestartInv, TypeInv, TypeOK, LiveKitType, Session, Identity
  <2>2. s.who \in Issued' /\ s.sid <= sessions'[s.who]
    BY <1>7, <1>1, <2>1 DEF SeatInv, livekit
  <2>3. HoldsAfter(s.who) => holder'[s.who.ch] = s.who
    BY <1>1, <2>1 DEF HoldsAfter
  <2> QED
    BY <1>1, <2>2, <2>3
<1> QED
  BY <1>1, <1>2, <1>4, <1>6, <1>7, <1>8, <1>9, <1>10 DEF RestartInv

(* An orphan is removed, in all its sessions.                              *)
LEMMA BootRemoveKeeps ==
  ASSUME RestartInv, NEW s \in orphans, BootRemove(s)
  PROVE  RestartInv'
<1>1. /\ boot = "remove" /\ Disconnect(SessionsOf(s.who)) /\ UNCHANGED rooms
      /\ orphans' = orphans \ {s}
      /\ UNCHANGED <<ledger, memory, locks, requests, handlers, tokens>>
      /\ UNCHANGED <<boot, purge, roster>>
  BY DEF BootRemove, RemoveParticipant
<1>2. SessionsOf(s.who) \in SUBSET live /\ \A t \in live : t.who.gen \in rooms'
  BY <1>1 DEF RestartInv, SeatInv, SessionsOf
<1>3. TypeInv' /\ SeatInv'
  BY <1>1, <1>2, LeavingType, TypeFrame DEF RestartInv, TypeInv, TypeOK
<1>4. LockInv' /\ IssuedInv' /\ LeaseInv' /\ JoinedInv'
  BY <1>1, RestartFrame DEF RestartInv
<1>5. BootType' /\ StoppedInv' /\ PurgeInv' /\ ~Up'
  BY <1>1 DEF RestartInv, BootType, StoppedInv, PurgeInv, Up, requests, ledger
<1>6. RosterInv'
  <2>1. UNCHANGED <<holder, sessions>> /\ live' = live \ SessionsOf(s.who)
    BY <1>1 DEF ledger, tokens, Disconnect
  <2>2. \A t \in live' : t.who # s.who
    BY <2>1 DEF SessionsOf
  <2> QED
    BY <1>1, <2>1, <2>2 DEF RestartInv, RosterInv, Issued
<1> QED
  BY <1>1, <1>3, <1>4, <1>5, <1>6 DEF RestartInv, Up

(* When bootstrap ends the older rooms are gone. *)
LEMMA BootEndsKeeps ==
  ASSUME RestartInv, BootEnds
  PROVE  RestartInv'
<1>1. /\ boot = "remove" /\ boot' = "up" /\ UNCHANGED vars
      /\ purge' = {} /\ roster' = {} /\ orphans' = {}
  BY DEF BootEnds
<1>2. UNCHANGED <<ledger, memory, locks, requests, handlers, livekit, tokens>>
  BY <1>1 DEF vars
<1>3. TypeInv'
  BY <1>2, TypeFrame DEF RestartInv, TypeInv, TypeOK
<1>4. LockInv' /\ IssuedInv' /\ LeaseInv' /\ JoinedInv'
  BY <1>1, <1>2, RestartFrame DEF RestartInv
<1>5. SeatInv'
  BY <1>2 DEF RestartInv, SeatInv, Issued, livekit, tokens
<1>6. BootType' /\ StoppedInv' /\ PurgeInv'
  BY <1>1 DEF BootType, BootPc, StoppedInv, PurgeInv, Up
<1>7. RoomsInv'
  <2>1. rooms' \subseteq {generation'} /\ \A p \in Request : pc'[p] = "idle"
    BY <1>1, <1>2 DEF RestartInv, PurgeInv, StoppedInv, Up, livekit, ledger, requests
  <2> QED
    BY <1>5, <2>1 DEF RoomsInv, SeatInv
<1> QED
  BY <1>1, <1>3, <1>4, <1>5, <1>6, <1>7 DEF RestartInv, Up

(* A bootstrap that fails leaves nothing but a room it may have created.   *)
LEMMA BootFailsKeeps ==
  ASSUME RestartInv, BootFails
  PROVE  RestartInv'
<1>1. /\ boot # "up" /\ boot' = "down" /\ purge' = {} /\ roster' = {} /\ orphans' = {}
      /\ onAir' = {} /\ UNCHANGED strikes
      /\ UNCHANGED livekit \/ RoomEnsured
      /\ UNCHANGED <<ledger, locks, requests, handlers, tokens>>
  BY DEF BootFails
<1>2. MemoryType'
  BY <1>1 DEF RestartInv, TypeInv, TypeOK, MemoryType
<1>3. LiveKitType' /\ SeatInv'
  <2>1. CASE RoomEnsured
    BY <1>1, <2>1, BootEnsured
  <2>2. CASE UNCHANGED livekit
    BY <1>1, <2>2 DEF RestartInv, TypeInv, TypeOK, LiveKitType, SeatInv, Issued,
       livekit, tokens
  <2> QED
    BY <1>1, <2>1, <2>2
<1>4. TypeInv'
  BY <1>1, <1>2, <1>3, TypeFrame DEF RestartInv, TypeInv, TypeOK
<1>5. LockInv' /\ IssuedInv' /\ LeaseInv'
  BY <1>1, RestartFrame DEF RestartInv
<1>6. BootType' /\ StoppedInv' /\ PurgeInv' /\ ~Up'
  BY <1>1 DEF RestartInv, BootType, BootPc, StoppedInv, PurgeInv, Up, requests
<1> QED
  BY <1>1, <1>3, <1>4, <1>5, <1>6 DEF RestartInv, Up
-----------------------------------------------------------------------------
(* The server first starts as RelayControl does, with nothing to repair.   *)
LEMMA RestartInvInit ==
  ASSUME RestartInit
  PROVE  RestartInv
<1>1. TypeInv /\ LockInv /\ IssuedInv /\ RoomsInv
  BY InvInit DEF RestartInit, Inv, TokenInv
<1>2. LeaseInv /\ JoinedInv /\ SeatInv
  BY DEF RestartInit, Init, LeaseInv, JoinedInv, SeatInv
<1>3. BootType /\ StoppedInv /\ PurgeInv /\ boot = "up"
  BY DEF RestartInit, BootType, BootPc, StoppedInv, PurgeInv, Up
<1> QED
  BY <1>1, <1>2, <1>3 DEF RestartInv, Up

LEMMA RestartInvStep ==
  ASSUME RestartInv, [RestartNext]_allVars
  PROVE  RestartInv'
<1>1. CASE UNCHANGED allVars
  <2>1. /\ UNCHANGED <<ledger, memory, locks, requests, handlers, livekit, tokens>>
        /\ UNCHANGED bootstrap
    BY <1>1 DEF allVars, vars
  <2>2. TypeInv'
    BY <2>1, TypeFrame DEF RestartInv, TypeInv, TypeOK
  <2>3. LockInv' /\ IssuedInv' /\ LeaseInv' /\ (JoinedInv => JoinedInv')
    BY <2>1, RestartFrame DEF RestartInv
  <2>4. SeatInv' /\ (RoomsInv => RoomsInv') /\ (RosterInv => RosterInv')
    BY <2>1 DEF RestartInv, SeatInv, RoomsInv, RosterInv, Issued, livekit, tokens,
       ledger, requests, bootstrap
  <2>5. BootType' /\ StoppedInv' /\ PurgeInv' /\ Up' = Up /\ boot' = boot
    BY <2>1 DEF RestartInv, BootType, StoppedInv, PurgeInv, Up, requests, bootstrap,
       livekit, ledger
  <2> QED
    BY <2>2, <2>3, <2>4, <2>5 DEF RestartInv
<1>2. CASE Serve \/ Outside \/ Kill \/ KilledAtGeneration \/ BootFails
  BY <1>2, ServeKeeps, OutsideKeeps, KillKeeps, KilledAtGenerationKeeps, BootFailsKeeps
<1>3. CASE BootStep
  BY <1>3, BootStartKeeps, BootListKeeps, BootCreateKeeps, BootReconcileKeeps,
     BootEndsKeeps, BootDeleteKeeps, BootRemoveKeeps DEF BootStep
<1> QED
  BY <1>1, <1>2, <1>3 DEF RestartNext

(* The invariant holds however often and wherever the process is killed.   *)
THEOREM RestartInvariance == RestartSpec => []RestartInv
<1> QED
  BY RestartInvInit, RestartInvStep, PTL DEF RestartSpec

(* Whenever the server serves, no room of an older generation exists and   *)
(* nobody is connected with an older token, wherever a rotation or a       *)
(* bootstrap was cut short.                                                *)
THEOREM OldRoomsGoneAfterRestart == RestartSpec => []OldRoomsGoneWhenUp
<1>1. RestartInv => OldRoomsGoneWhenUp
  <2> SUFFICES ASSUME RestartInv, Up
               PROVE  NoOldGenerationRoom
    BY DEF OldRoomsGoneWhenUp
  <2>1. generation \in Nat /\ \A g \in rooms : g \in {generation, generation + 1}
    BY DEF RestartInv, TypeInv, TypeOK, LedgerType, RoomsInv
  <2>2. ASSUME NEW s \in live
        PROVE  s.who.gen = generation
    <3>1. s.who.gen \in {generation, generation + 1}
      BY <2>1 DEF RestartInv, SeatInv
    <3>2. s.who.gen <= generation
      BY DEF RestartInv, SeatInv, IssuedInv
    <3> QED
      BY <2>1, <3>1, <3>2
  <2> QED
    BY <2>1, <2>2 DEF NoOldGenerationRoom
<1> QED
  BY RestartInvariance, <1>1, PTL

(* A lease that survived crashes is of an open channel, was given in its   *)
(* past or present, and is of the present generation if its holder is      *)
(* counted as being there.                                                 *)
THEOREM LeasesRecovered == RestartSpec => []RecoveredLeases
<1>1. RestartInv => RecoveredLeases
  BY DEF RestartInv, Up, RecoveredLeases, LockInv, LeaseOnOpenChannel, LeaseInv, JoinedInv
<1> QED
  BY RestartInvariance, <1>1, PTL

(* A bootstrap lets nobody stay whom it listed without a lease.            *)
THEOREM OrphansAreRemoved == RestartSpec => OrphansRemoved
<1>1. RestartInv /\ [RestartNext]_allVars =>
        [~Up /\ Up' => \A s \in roster, t \in live :
           t.who = s.who /\ t.sid = s.sid => holder[s.who.ch] = s.who]_allVars
  <2> SUFFICES ASSUME RestartInv, RestartNext, ~Up, Up',
                      NEW s \in roster, NEW t \in live, t.who = s.who, t.sid = s.sid
               PROVE  holder[s.who.ch] = s.who
    OBVIOUS
  <2>1. boot # "up" /\ boot' = "up"
    BY DEF Up
  <2>2. BootEnds
    BY <2>1 DEF RestartNext, Serve, Outside, Kill, KilledAtGeneration, BootStep,
       BootStart, BootList, BootCreate, BootReconcile, BootDelete, BootRemove,
       BootFails, Up, bootstrap
  <2>3. boot = "remove" /\ orphans = {}
    BY <2>2 DEF BootEnds, AllRemoved
  <2> QED
    BY <2>3 DEF RestartInv, RosterInv
<1> QED
  BY RestartInvariance, <1>1, PTL DEF RestartSpec, OrphansRemoved

(* The process serves under the same lock discipline after a restart as    *)
(* before the first: no request works on under a rotated password, and     *)
(* what it read of a lease is there after an await or released.            *)
THEOREM LocksHoldAfterRestart ==
  RestartSpec => [](PasswordStillValid /\ LeaseHeldDuringAwait)
<1>1. RestartInv => PasswordStillValid /\ LeaseHeldDuringAwait
  BY DEF RestartInv, LockInv
<1> QED
  BY RestartInvariance, <1>1, PTL

(* No step gives a lease back to a token that lost it: a new row is for a  *)
(* new nonce, and crashes and bootstraps only take leases away.            *)
LEMMA NoReturnStep ==
  ASSUME RestartInv, RestartNext, NEW x \in Issued, holder[x.ch] # x
  PROVE  holder'[x.ch] # x
<1> USE DEF RestartInv, TypeInv, TypeOK
<1>1. x \in Identity /\ x.ch \in Channel /\ x # None
  <2>1. x \in Identity
    BY DEF TokenType
  <2>2. x # None
    BY <2>1, ConstantsAssumption
  <2>3. x.ch \in Channel
    BY <2>1 DEF Identity
  <2> QED
    BY <2>1, <2>2, <2>3
<1>2. ASSUME \A c \in Channel : holder'[c] \in {holder[c], None}
      PROVE  holder'[x.ch] # x
  BY <1>1, <1>2
<1>3. ASSUME NEW c \in Channel, NEW i \in Nat, WriteLease(c, i)
      PROVE  holder'[x.ch] # x
  <2>1. PICK y \in Identity \ Issued : holder' = [holder EXCEPT ![c] = y]
    BY <1>3, WriteLeaseFresh DEF NewHolder
  <2> QED
    BY <1>1, <2>1 DEF LedgerType
<1>4. ASSUME [Next]_vars
      PROVE  holder'[x.ch] # x
  <2>1. CASE UNCHANGED <<epoch, holder, joined, generation>>
    BY <2>1
  <2>2. ASSUME NEW p \in Request,
               \/ CloseVacant(p) \/ CloseAfterRemove(p) \/ RotateCommit(p)
        PROVE  \A c \in Channel : holder'[c] \in {holder[c], None}
    BY <2>2 DEF CloseVacant, CloseAfterRemove, CloseRow, DeleteLease, RotateCommit,
       LedgerType
  <2>3. ASSUME NEW p \in Request, PublishDirect(p) \/ PublishAfterAbsent(p)
        PROVE  holder'[x.ch] # x
    <3>1. chan[p] \in Channel /\ epoch[chan[p]] \in Nat
      BY <2>3 DEF PublishDirect, PublishAfterAbsent, ProgramInv, Awaiting, LedgerType
    <3>2. WriteLease(chan[p], epoch[chan[p]]) \/ UNCHANGED holder
      BY <2>3 DEF PublishDirect, PublishAfterAbsent
    <3> QED
      BY <1>3, <3>1, <3>2
  <2>4. ASSUME NEW p \in Request, TakeOverVacant(p) \/ TakeOverAfterRemove(p)
        PROVE  holder'[x.ch] # x
    <3>1. chan[p] \in Channel /\ epoch[chan[p]] + 1 \in Nat
      BY <2>4 DEF TakeOverVacant, TakeOverAfterRemove, ProgramInv, Awaiting, LedgerType
    <3>2. WriteLease(chan[p], epoch[chan[p]] + 1)
      BY <2>4 DEF TakeOverVacant, TakeOverAfterRemove, TakeOverRow
    <3> QED
      BY <1>3, <3>1, <3>2
  <2>5. ASSUME NEW e \in hooks, Admit(e) \/ ParticipantLeft(e)
        PROVE  \A c \in Channel : holder'[c] \in {holder[c], None}
    BY <2>5 DEF Admit, ParticipantLeft, DeleteLease, LedgerType
  <2> HIDE DEF RestartInv, TypeInv, TypeOK
  <2> QED
    BY <1>2, <1>4, <2>1, <2>2, <2>3, <2>4, <2>5, LedgerWriters
<1>5. CASE Serve \/ Outside
  BY <1>4, <1>5 DEF Serve, Outside, Next
<1>6. CASE Kill
  <2>1. ASSUME KilledInTakeover \/ KilledInPublish \/ KilledInHandling \/ UNCHANGED ledger
        PROVE  \A c \in Channel : holder'[c] \in {holder[c], None}
    BY <2>1 DEF KilledInTakeover, KilledInPublish, KilledInHandling, DeleteLease,
       LedgerType, ledger
  <2> QED
    BY <1>2, <1>6, <2>1 DEF Kill
<1>7. CASE KilledAtGeneration \/ BootStep \/ BootFails
  <2>1. \A c \in Channel : holder'[c] \in {holder[c], None}
    BY <1>7 DEF KilledAtGeneration, BootStep, BootStart, SameGeneration, NextGeneration,
       BootList, BootCreate, BootDelete, BootReconcile, BootRemove, BootEnds, BootFails,
       ledger, vars
  <2> QED
    BY <1>2, <2>1
<1> QED
  BY <1>5, <1>6, <1>7 DEF RestartNext

(* Whoever lost the channel never holds it again with the same token, even *)
(* across crashes.                                                         *)
THEOREM LostIsLostAfterRestart == RestartSpec => NoReturn
<1>1. RestartInv /\ [RestartNext]_allVars =>
        [\A x \in Issued : holder[x.ch] # x => holder'[x.ch] # x]_vars
  BY NoReturnStep DEF allVars
<1> QED
  BY RestartInvariance, <1>1, PTL DEF RestartSpec, NoReturn
=============================================================================
