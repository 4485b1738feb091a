------------------------- MODULE RelayControlProofs -------------------------
(***************************************************************************)
(* Theorems about RelayControl, for any channels, requests and handlers    *)
(* and any bounds: its inductive invariant, the safety properties it       *)
(* implies, and that every behaviour is one of the abstract ledger.        *)
(*                                                                         *)
(* The invariant adds to the types who owns which lock at each place of a  *)
(* request, what a request may still assume of the row it read, which      *)
(* tokens are out and what a rotation has left of the rooms.  Its parts    *)
(* are shown one after the other, each from those before it.               *)
(***************************************************************************)
EXTENDS RelayControl, TLAPS

USE ConstantsAssumption

(* What a request is doing at each place. *)
Awaiting == {"lookup", "present", "absent", "remove", "removed"}
ProgramInv ==
  \A p \in Request :
    /\ pc[p] \in {"ensure", "channel"} \cup Awaiting => chan[p] \in Channel
    /\ pc[p] = "ensure" => op[p] \in {"publish", "takeover", "subscribe"}
    /\ pc[p] \in {"lookup", "present", "absent"} => op[p] = "publish"
    /\ pc[p] \in {"remove", "removed"} => op[p] \in {"close", "takeover"}
    /\ pc[p] \in {"create", "delete"} => op[p] = "rotate"
    /\ pc[p] = "channel" => op[p] \in {"publish", "takeover", "close"}
    /\ pc[p] = "rotation" => op[p] # "none" /\ (op[p] # "rotate" => chan[p] \in Channel)

(* A suspended handler has an event, and counts tracks only for a track.   *)
HandlerInv ==
  \A h \in Hook :
    /\ hpc[h] # "idle" => hev[h] \in Event
    /\ hpc[h] = "count" => hev[h].kind = "published"

TypeInv == TypeOK /\ ProgramInv /\ HandlerInv

(* A request owns the rotation lock from the password check to its end. *)
Critical == RequestPc \ {"idle", "rotation"}
RotationLockInv == \A p \in Request : pc[p] \in Critical => rotationLock = p

(* Past "channel", all but a subscription own the lock of an open channel. *)
OwnsChannel(p) ==
  pc[p] \in Awaiting \/ (pc[p] = "ensure" /\ op[p] \in {"publish", "takeover"})
ChannelLockInv ==
  \A p \in Request : OwnsChannel(p) =>
    chan[p] \in open /\ channelLock[chan[p]] = p

LockInv ==
  /\ RotationLockInv /\ ChannelLockInv /\ PasswordStillValid
  /\ LeaseOnOpenChannel /\ LeaseHeldDuringAwait

(* Tokens are older than the next nonce and no newer than the generation. *)
IssuedInv == \A x \in Issued : x.nonce < nonce /\ x.gen <= generation
TokenInv == LeaseIsCurrent /\ IssuedInv

(* The rooms a rotation has not deleted yet are on its list; everybody     *)
(* connected is in a room, with an issued token.                           *)
RoomsInv ==
  /\ \A p \in Request : pc[p] = "delete" => rooms \subseteq todo[p] \cup {generation + 1}
  /\ \A g \in rooms : g \in {generation, generation + 1}
  /\ \A s \in live : s.who.gen \in rooms /\ s.who \in Issued

(* Webhooks, strikes and second or misnamed tracks come from issued        *)
(* tokens, and only offenders leave a trace of an offence.                 *)
ConductInv ==
  /\ \A e \in hooks : e.who \in Issued /\ (e.kind = "badName" => e.who \in offenders)
  /\ \A h \in Hook : hpc[h] # "idle" =>
       hev[h].who \in Issued /\ (hev[h].kind = "badName" => hev[h].who \in offenders)
  /\ \A s \in live : s.tracks > 1 => s.who \in offenders
  /\ DOMAIN strikes \subseteq Issued
  /\ HolderNotStruckUnjustly

Inv ==
  TypeInv /\ LockInv /\ TokenInv /\ RoomsInv /\ AdmittedOrPending /\ ConductInv

(* x takes the lease of c with epoch i, as an identity never issued.       *)
NewHolder(x, c, i) ==
  /\ x.ch = c /\ x.epoch = i /\ x.gen = generation
  /\ holder' = [holder EXCEPT ![c] = x]
  /\ Issued' = Issued \cup {x}
-----------------------------------------------------------------------------

(* Noting what became of a participant_joined keeps the sessions sessions. *)
LEMMA HeardType ==
  ASSUME LiveKitType, NEW e, NEW what \in {"admitted", "lost"}
  PROVE Heard(e, what) \subseteq Session
<1> SUFFICES ASSUME NEW s \in live
             PROVE (IF Hooked("joined", s) = e THEN [s EXCEPT !.heard = what] ELSE s) \in Session
    BY DEF Heard
<1>1. s \in Session BY DEF LiveKitType
<1>2. [s EXCEPT !.heard = what] \in Session BY <1>1 DEF Session
<1> QED BY <1>1, <1>2

(* A strike (Blocklist.strike) keeps the counts of identities between 0    *)
(* and 3.                                                                  *)
LEMMA StrikeType ==
  ASSUME MemoryType, NEW x \in Identity, Strike(x)
  PROVE  /\ DOMAIN strikes' \subseteq Identity
         /\ strikes' \in [DOMAIN strikes' -> 0..3]
  BY DEF MemoryType, Strike, Blocked, StrikesOf

(* Writing a lease row keeps the types of the row and of the issued        *)
(* tokens.                                                                 *)
LEMMA WriteLeaseType ==
  ASSUME LedgerType, TokenType, NEW c \in Channel, NEW i \in Nat, WriteLease(c, i)
  PROVE  /\ holder' \in [Channel -> Identity \cup {None}]
         /\ joined' \subseteq Channel
         /\ age' \in [Channel -> 0..2]
         /\ TokenType'
<1>1. NewIdentity(c, i) \in Identity
  BY DEF NewIdentity, Identity, LedgerType, TokenType
<1>2. holder' = [holder EXCEPT ![c] = NewIdentity(c, i)] /\ joined' = joined \ {c}
      /\ age' = [age EXCEPT ![c] = 0]
  BY DEF WriteLease
<1>3. TokenType'
  BY <1>1 DEF WriteLease, TokenType, Issued
<1> QED BY <1>1, <1>2, <1>3 DEF LedgerType

(* Deleting a lease row keeps the types of the row.                        *)
LEMMA DeleteLeaseType ==
  ASSUME LedgerType, NEW c \in Channel, DeleteLease(c)
  PROVE  /\ holder' \in [Channel -> Identity \cup {None}]
         /\ joined' \subseteq Channel
         /\ age' \in [Channel -> 0..2]
  BY DEF DeleteLease, LedgerType

(* A session with another number of tracks is a session.                   *)
LEMMA TracksType ==
  ASSUME NEW s \in Session, NEW n \in Nat
  PROVE  [s EXCEPT !.tracks = n] \in Session
  BY DEF Session

(* Noting what became of a participant_joined changes nobody's identity,   *)
(* session number or tracks, and no other session's record.                *)
LEMMA HeardKeeps ==
  ASSUME LiveKitType, NEW e, NEW what, NEW t \in Heard(e, what)
  PROVE  \E s \in live :
           /\ t.who = s.who /\ t.sid = s.sid /\ t.tracks = s.tracks
           /\ \/ t = s /\ Hooked("joined", s) # e
              \/ t.heard = what /\ Hooked("joined", s) = e
<1>1. PICK s \in live :
        t = (IF Hooked("joined", s) = e THEN [s EXCEPT !.heard = what] ELSE s)
  BY DEF Heard
<1>2. s \in Session
  BY DEF LiveKitType
<1>3. /\ [s EXCEPT !.heard = what].who = s.who
      /\ [s EXCEPT !.heard = what].sid = s.sid
      /\ [s EXCEPT !.heard = what].tracks = s.tracks
      /\ [s EXCEPT !.heard = what].heard = what
  BY <1>2 DEF Session
<1> QED BY <1>1, <1>3

(* The row that acquire_lease and force_acquire_lease write is for an      *)
(* identity nobody was given before, since its nonce is new.               *)
LEMMA WriteLeaseFresh ==
  ASSUME LedgerType, TokenType, IssuedInv, NEW c \in Channel, NEW i \in Nat,
         WriteLease(c, i)
  PROVE  \E x \in Identity \ Issued : NewHolder(x, c, i)
<1>1. NewIdentity(c, i) \in Identity \ Issued
  BY DEF NewIdentity, Identity, LedgerType, TokenType, IssuedInv
<1>2. /\ holder' = [holder EXCEPT ![c] = NewIdentity(c, i)]
      /\ Issued' = Issued \cup {NewIdentity(c, i)}
  BY DEF WriteLease, Issued
<1>3. /\ NewIdentity(c, i).ch = c /\ NewIdentity(c, i).epoch = i
      /\ NewIdentity(c, i).gen = generation
  BY DEF NewIdentity
<1> QED BY <1>1, <1>2, <1>3 DEF NewHolder

(* What an action leaves alone keeps its type. *)
LEMMA TypeFrame ==
  ASSUME TypeInv
  PROVE  /\ UNCHANGED ledger => LedgerType'
         /\ UNCHANGED memory => MemoryType'
         /\ UNCHANGED locks => LockType'
         /\ UNCHANGED requests => RequestType' /\ ProgramInv'
         /\ UNCHANGED handlers => HandlerType' /\ HandlerInv'
         /\ UNCHANGED livekit => LiveKitType'
         /\ UNCHANGED tokens => TokenType'
<1> USE DEF TypeInv, TypeOK
<1>1. UNCHANGED ledger => LedgerType'
  BY DEF ledger, LedgerType
<1>2. UNCHANGED memory => MemoryType'
  BY DEF memory, MemoryType
<1>3. UNCHANGED locks => LockType'
  BY DEF locks, LockType
<1>4. UNCHANGED requests => RequestType' /\ ProgramInv'
  BY DEF requests, RequestType, ProgramInv
<1>5. UNCHANGED handlers => HandlerType' /\ HandlerInv'
  BY DEF handlers, HandlerType, HandlerInv
<1>6. UNCHANGED livekit => LiveKitType'
  BY DEF livekit, LiveKitType
<1>7. UNCHANGED tokens => TokenType'
  BY DEF tokens, TokenType, Issued
<1> QED
  BY <1>1, <1>2, <1>3, <1>4, <1>5, <1>6, <1>7

(* The end of a request leaves well-typed locks and an idle request.       *)
LEMMA FinishType ==
  ASSUME TypeInv, NEW p \in Request, Finish(p)
  PROVE  LockType' /\ RequestType' /\ ProgramInv'
<1>1. LockType'
  BY DEF TypeInv, TypeOK, LockType, Finish
<1>2. RequestType'
  BY DEF TypeInv, TypeOK, RequestType, RequestPc, Operation, Finish
<1>3. ProgramInv'
  <2> SUFFICES ASSUME NEW q \in Request, pc'[q] # "idle"
               PROVE  pc'[q] = pc[q] /\ op'[q] = op[q] /\ chan'[q] = chan[q]
    BY DEF TypeInv, ProgramInv, Awaiting
  <2> QED
    BY DEF TypeInv, TypeOK, RequestType, Finish
<1> QED
  BY <1>1, <1>2, <1>3

(* Going to another place keeps a request's local variables.               *)
LEMMA GotoType ==
  ASSUME TypeInv, NEW p \in Request, NEW l \in RequestPc, Goto(p, l)
  PROVE  /\ pc' \in [Request -> RequestPc] /\ op' \in [Request -> Operation]
         /\ chan' \in [Request -> Channel \cup {None}] /\ cred' \in [Request -> Nat]
         /\ pc'[p] = l
         /\ \A q \in Request : q # p => pc'[q] = pc[q]
         /\ op' = op /\ chan' = chan
  BY DEF TypeInv, TypeOK, RequestType, Goto

(* Where a request may go from where it is, given what it does.            *)
LEMMA GotoProgram ==
  ASSUME TypeInv, NEW p \in Request, NEW l \in RequestPc, Goto(p, l),
         chan[p] \in Channel,
         \/ l = "channel" /\ op[p] \in {"publish", "takeover", "close"}
         \/ l = "ensure" /\ op[p] \in {"publish", "takeover", "subscribe"}
         \/ l \in {"lookup", "present", "absent"} /\ op[p] = "publish"
         \/ l \in {"remove", "removed"} /\ op[p] \in {"close", "takeover"}
  PROVE  ProgramInv'
  BY GotoType DEF TypeInv, ProgramInv, Awaiting

(* Leaving the room keeps sessions and events what they are.               *)
LEMMA DisconnectType ==
  ASSUME LiveKitType, NEW S \in SUBSET live, Disconnect(S)
  PROVE  live' \subseteq Session /\ hooks' \subseteq Event
  BY DEF LiveKitType, Disconnect, Hooked, Session, Event, EventKind

(* So does RemoveParticipant, and a call of it that fails.                 *)
LEMMA RemoveParticipantType ==
  ASSUME LiveKitType, NEW x, RemoveParticipantFails(x) \/ RemoveParticipant(x)
  PROVE  LiveKitType'
<1>1. CASE RemoveParticipant(x)
  <2>1. SessionsOf(x) \in SUBSET live /\ Disconnect(SessionsOf(x)) /\ UNCHANGED rooms
    BY <1>1 DEF RemoveParticipant, SessionsOf
  <2>2. live' \subseteq Session /\ hooks' \subseteq Event
    BY <2>1, DisconnectType
  <2> QED
    BY <2>1, <2>2 DEF LiveKitType
<1>2. CASE UNCHANGED livekit
  BY <1>2 DEF livekit, LiveKitType
<1> QED
  BY <1>1, <1>2 DEF RemoveParticipantFails

(* ensure_room adds a room with a natural number for a generation.         *)
LEMMA RoomEnsuredType ==
  ASSUME LedgerType, LiveKitType, RoomEnsured
  PROVE  LiveKitType'
  BY DEF LedgerType, LiveKitType, RoomEnsured

(* A handler suspends with the event it handles.                           *)
LEMMA SuspendType ==
  ASSUME TypeInv, NEW h \in Hook, NEW l \in {"eject", "count"}, NEW e \in Event,
         l = "count" => e.kind = "published", Suspend(h, l, e)
  PROVE  HandlerType' /\ HandlerInv'
  BY DEF TypeInv, TypeOK, HandlerType, HandlerInv, HookPc, Suspend

(* A handler that is done has no event.                                    *)
LEMMA ResumeType ==
  ASSUME TypeInv, NEW h \in Hook, Resume(h)
  PROVE  HandlerType' /\ HandlerInv'
  BY DEF TypeInv, TypeOK, HandlerType, HandlerInv, HookPc, Resume

(* Every step of a request keeps the types and what a request is doing at  *)
(* each place.                                                             *)
LEMMA TypeInvRequestStep ==
  ASSUME TypeInv, NEW p \in Request, SubmitAny(p) \/ RequestStep(p)
  PROVE  TypeInv'
<1> USE TypeFrame DEF TypeInv, TypeOK
<1>0. /\ chan[p] \in Channel \cup {None}
      /\ pc[p] \in {"channel", "ensure"} \cup Awaiting => chan[p] \in Channel
  BY DEF RequestType, ProgramInv
<1>1. ASSUME NEW o \in Operation, NEW c \in Channel \cup {None}, NEW k \in {0, generation},
             Submit(p, o, c, k)
      PROVE  TypeInv'
  <2>1. RequestType'
    BY <1>1 DEF Submit, RequestType, RequestPc, LedgerType
  <2>2. ProgramInv'
    <3>1. o # "none" /\ (o # "rotate" => c \in Channel)
      BY <1>1 DEF Submit, LedgerType
    <3>2. /\ pc' = [pc EXCEPT ![p] = "rotation"] /\ op' = [op EXCEPT ![p] = o]
          /\ chan' = [chan EXCEPT ![p] = c]
      BY <1>1 DEF Submit
    <3> QED
      BY <3>1, <3>2 DEF RequestType, ProgramInv, Awaiting
  <2> QED
    BY <1>1, <2>1, <2>2 DEF Submit
<1>2. CASE RefuseStalePassword(p)
  BY <1>2, FinishType DEF RefuseStalePassword
<1>3. CASE TakeRotationLock(p)
  <2>1. AfterRotationLock(p) \in RequestPc /\ Goto(p, AfterRotationLock(p))
    BY <1>3 DEF TakeRotationLock, AfterRotationLock, RequestPc
  <2>2. RequestType'
    BY <1>3, <2>1, GotoType DEF TakeRotationLock, RequestType
  <2>3. ProgramInv'
    <3>1. op[p] \in Operation \ {"none"} /\ (op[p] # "rotate" => chan[p] \in Channel)
      BY <1>3 DEF TakeRotationLock, RequestType, ProgramInv
    <3>2. /\ pc'[p] = AfterRotationLock(p) /\ op' = op /\ chan' = chan
          /\ \A q \in Request : q # p => pc'[q] = pc[q]
      BY <2>1, GotoType
    <3> QED
      BY <3>1, <3>2 DEF ProgramInv, Awaiting, AfterRotationLock, Operation
  <2>4. LockType'
    BY <1>3 DEF TakeRotationLock, LockType
  <2> QED
    BY <1>3, <2>2, <2>3, <2>4 DEF TakeRotationLock
<1>4. CASE ChannelGone(p)
  BY <1>4, FinishType DEF ChannelGone
<1>5. CASE TakeChannelLock(p)
  <2>1. pc[p] = "channel" /\ chan[p] \in Channel
    BY <1>5, <1>0 DEF TakeChannelLock, ChannelLockFree
  <2>2. op[p] \in {"publish", "takeover", "close"}
    BY <2>1 DEF ProgramInv
  <2>3. PICK l \in {"remove", "ensure"} :
          Goto(p, l) /\ (l = "remove" <=> op[p] = "close")
    BY <1>5 DEF TakeChannelLock
  <2>4. held' \in [Request -> Identity \cup {None}] /\ todo' = todo
    BY <1>5, <2>1 DEF TakeChannelLock, RequestType, LedgerType
  <2>5. RequestType'
    BY <2>3, <2>4, GotoType DEF RequestType, RequestPc
  <2>6. ProgramInv'
    BY <2>1, <2>2, <2>3, GotoProgram DEF RequestPc
  <2>7. LockType'
    BY <1>5, <2>1 DEF TakeChannelLock, LockType
  <2> QED
    BY <1>5, <2>5, <2>6, <2>7 DEF TakeChannelLock
<1>6. CASE CloseVacant(p) \/ CloseAfterRemove(p)
  <2>1. chan[p] \in Channel /\ CloseRow(chan[p]) /\ Finish(p)
    BY <1>6, <1>0 DEF CloseVacant, ChannelLockFree, CloseAfterRemove, Awaiting
  <2>2. LedgerType' /\ MemoryType'
    BY <2>1, DeleteLeaseType DEF CloseRow, LedgerType, MemoryType
  <2> QED
    BY <1>6, <2>1, <2>2, FinishType DEF CloseVacant, CloseAfterRemove
<1>7. CASE EnsureRoomFails(p)
  <2>1. LiveKitType'
    BY <1>7, RoomEnsuredType DEF EnsureRoomFails
  <2> QED
    BY <1>7, <2>1, FinishType DEF EnsureRoomFails
<1>8. CASE Subscribe(p)
  BY <1>8, RoomEnsuredType, FinishType DEF Subscribe
<1>9. CASE PublishDirect(p) \/ PublishAfterAbsent(p)
  <2>1. chan[p] \in Channel /\ epoch[chan[p]] \in Nat
    BY <1>9, <1>0 DEF PublishDirect, PublishAfterAbsent, Awaiting, LedgerType
  <2>2. /\ WriteLease(chan[p], epoch[chan[p]]) \/ UNCHANGED <<holder, joined, age, tokens>>
        /\ UNCHANGED <<open, epoch, generation, memory, handlers>>
        /\ Finish(p)
    BY <1>9 DEF PublishDirect, PublishAfterAbsent
  <2>3. LedgerType' /\ TokenType'
    <3>1. CASE WriteLease(chan[p], epoch[chan[p]])
      BY <2>1, <2>2, <3>1, WriteLeaseType DEF LedgerType
    <3>2. CASE UNCHANGED <<holder, joined, age, tokens>>
      BY <2>2, <3>2 DEF LedgerType
    <3> QED
      BY <2>2, <3>1, <3>2
  <2>4. LiveKitType'
    BY <1>9, RoomEnsuredType DEF PublishDirect, PublishAfterAbsent
  <2> QED
    BY <2>2, <2>3, <2>4, FinishType
<1>10. CASE AskPresence(p)
  <2>1. chan[p] \in Channel /\ op[p] = "publish" /\ Goto(p, "lookup")
    BY <1>10, <1>0 DEF AskPresence
  <2>2. held' \in [Request -> Identity \cup {None}] /\ todo' = todo
    BY <1>10, <2>1 DEF AskPresence, RequestType, LedgerType
  <2>3. RequestType'
    BY <2>1, <2>2, GotoType DEF RequestType, RequestPc
  <2>4. ProgramInv'
    BY <2>1, GotoProgram DEF RequestPc
  <2> QED
    BY <1>10, <2>3, <2>4, RoomEnsuredType DEF AskPresence
<1>11. CASE LookUp(p)
  <2>1. PICK l \in {"present", "absent"} : Goto(p, l)
    BY <1>11 DEF LookUp
  <2>2. chan[p] \in Channel /\ op[p] = "publish"
    BY <1>11, <1>0 DEF LookUp, ProgramInv, Awaiting
  <2>3. RequestType'
    BY <1>11, <2>1, GotoType DEF LookUp, RequestType, RequestPc
  <2>4. ProgramInv'
    BY <2>1, <2>2, GotoProgram DEF RequestPc
  <2> QED
    BY <1>11, <2>3, <2>4 DEF LookUp
<1>12. CASE KeepHolder(p)
  <2>0. age' = age \/ age' = [age EXCEPT ![chan[p]] = 0]
    BY <1>12 DEF KeepHolder
  <2>1. age' \in [Channel -> 0..2]
    BY <2>0 DEF LedgerType
  <2>2. LedgerType'
    BY <1>12, <2>1 DEF KeepHolder, LedgerType
  <2> QED
    BY <1>12, <2>2, FinishType DEF KeepHolder
<1>13. CASE TakeOverVacant(p) \/ TakeOverAfterRemove(p)
  <2>1. chan[p] \in Channel /\ epoch[chan[p]] + 1 \in Nat
    BY <1>13, <1>0 DEF TakeOverVacant, TakeOverAfterRemove, Awaiting, LedgerType
  <2>2. /\ WriteLease(chan[p], epoch[chan[p]] + 1)
        /\ epoch' = [epoch EXCEPT ![chan[p]] = epoch[chan[p]] + 1]
        /\ onAir' = onAir \ {chan[p]}
        /\ UNCHANGED <<open, generation, strikes, handlers>>
        /\ Finish(p)
    BY <1>13 DEF TakeOverVacant, TakeOverAfterRemove, TakeOverRow
  <2>3. LedgerType' /\ MemoryType' /\ TokenType'
    BY <2>1, <2>2, WriteLeaseType DEF LedgerType, MemoryType
  <2>4. LiveKitType'
    BY <1>13, RoomEnsuredType DEF TakeOverVacant, TakeOverAfterRemove
  <2> QED
    BY <2>2, <2>3, <2>4, FinishType
<1>14. CASE TakeOverHeld(p)
  <2>1. chan[p] \in Channel /\ op[p] = "takeover" /\ Goto(p, "remove")
    BY <1>14, <1>0 DEF TakeOverHeld
  <2>2. held' \in [Request -> Identity \cup {None}] /\ todo' = todo
    BY <1>14, <2>1 DEF TakeOverHeld, RequestType, LedgerType
  <2>3. RequestType'
    BY <2>1, <2>2, GotoType DEF RequestType, RequestPc
  <2>4. ProgramInv'
    BY <2>1, GotoProgram DEF RequestPc
  <2> QED
    BY <1>14, <2>3, <2>4, RoomEnsuredType DEF TakeOverHeld
<1>15. CASE RemoveHolder(p)
  <2>1. chan[p] \in Channel /\ op[p] \in {"close", "takeover"} /\ Goto(p, "removed")
    BY <1>15, <1>0 DEF RemoveHolder, ProgramInv, Awaiting
  <2>2. RequestType'
    BY <1>15, <2>1, GotoType DEF RemoveHolder, RequestType, RequestPc
  <2>3. ProgramInv'
    BY <2>1, GotoProgram DEF RequestPc
  <2> QED
    BY <1>15, <2>2, <2>3, RemoveParticipantType DEF RemoveHolder
<1>16. CASE RemoveHolderFails(p)
  BY <1>16, RemoveParticipantType, FinishType DEF RemoveHolderFails
<1>17. CASE RotateCreate(p)
  <2>1. Goto(p, "delete") /\ op[p] = "rotate"
    BY <1>17 DEF RotateCreate, ProgramInv
  <2>2. RequestType'
    BY <1>17, <2>1, GotoType DEF RotateCreate, RequestType, RequestPc, LiveKitType
  <2>3. ProgramInv'
    <3>1. /\ pc'[p] = "delete" /\ op' = op /\ chan' = chan
          /\ \A q \in Request : q # p => pc'[q] = pc[q]
      BY <2>1, GotoType DEF RequestPc
    <3> QED
      BY <2>1, <3>1 DEF ProgramInv, Awaiting
  <2>4. LiveKitType'
    BY <1>17 DEF RotateCreate, LiveKitType, LedgerType
  <2> QED
    BY <1>17, <2>2, <2>3, <2>4 DEF RotateCreate
<1>18. CASE RotateFails(p)
  BY <1>18, FinishType DEF RotateFails
<1>19. CASE RotateCommit(p)
  <2>1. LedgerType' /\ MemoryType'
    BY <1>19 DEF RotateCommit, LedgerType, MemoryType
  <2> QED
    BY <1>19, <2>1, FinishType DEF RotateCommit
<1>20. ASSUME NEW g \in todo[p], RotateDelete(p, g)
       PROVE  TypeInv'
  <2>1. RequestType' /\ ProgramInv'
    BY <1>20 DEF RotateDelete, RequestType, ProgramInv
  <2>2. live' \subseteq Session /\ hooks' \subseteq Event
    BY <1>20, DisconnectType DEF RotateDelete
  <2>3. LiveKitType'
    BY <1>20, <2>2 DEF RotateDelete, LiveKitType
  <2> QED
    BY <1>20, <2>1, <2>3 DEF RotateDelete
<1> HIDE TypeFrame DEF TypeInv, TypeOK
<1> QED
  BY <1>1, <1>2, <1>3, <1>4, <1>5, <1>6, <1>7, <1>8, <1>9, <1>10, <1>11, <1>12,
     <1>13, <1>14, <1>15, <1>16, <1>17, <1>18, <1>19, <1>20
  DEF SubmitAny, RequestStep

(* Every step of a webhook handler keeps the types.                        *)
LEMMA TypeInvHookStep ==
  ASSUME TypeInv,
         \/ \E e \in hooks : HandleEvent(e)
         \/ \E h \in Hook : HookStep(h)
  PROVE  TypeInv'
<1> USE TypeFrame DEF TypeInv, TypeOK
<1>0. hooks \subseteq Event /\ \A e \in Event : e.who \in Identity /\ e.who.ch \in Channel
  BY DEF LiveKitType, Event, Identity
<1>1. ASSUME NEW e \in hooks, SkipForeign(e)
      PROVE  TypeInv'
  BY <1>1 DEF SkipForeign, Commit, LiveKitType
<1>2. ASSUME NEW e \in hooks, Admit(e)
      PROVE  TypeInv'
  <2>1. LiveKitType'
    BY <1>2, HeardType DEF Admit, Commit, LiveKitType
  <2>2. LedgerType'
    BY <1>0, <1>2 DEF Admit, LedgerType
  <2> QED
    BY <1>2, <2>1, <2>2 DEF Admit
<1>3. ASSUME NEW e \in hooks, TrackUnpublished(e)
      PROVE  TypeInv'
  <2>1. LiveKitType'
    BY <1>3 DEF TrackUnpublished, Commit, LiveKitType
  <2>2. MemoryType'
    BY <1>3 DEF TrackUnpublished, MemoryType
  <2> QED
    BY <1>3, <2>1, <2>2 DEF TrackUnpublished
<1>4. ASSUME NEW e \in hooks, ParticipantLeft(e)
      PROVE  TypeInv'
  <2>1. LiveKitType'
    BY <1>4 DEF ParticipantLeft, Commit, LiveKitType
  <2>2. LedgerType'
    BY <1>0, <1>4, DeleteLeaseType DEF ParticipantLeft, LedgerType
  <2>3. MemoryType'
    BY <1>4 DEF ParticipantLeft, MemoryType
  <2> QED
    BY <1>4, <2>1, <2>2, <2>3 DEF ParticipantLeft
<1>5. ASSUME NEW e \in hooks, NEW h \in Hook, Reject(h, e) \/ RejectTrack(h, e)
      PROVE  TypeInv'
  <2>1. Suspend(h, "eject", e) /\ (Strike(e.who) \/ UNCHANGED strikes) /\ UNCHANGED onAir
    BY <1>5 DEF Reject, RejectTrack
  <2>2. MemoryType'
    BY <1>0, <2>1, StrikeType DEF MemoryType
  <2>3. HandlerType' /\ HandlerInv'
    BY <1>0, <2>1, SuspendType
  <2> QED
    BY <1>5, <2>2, <2>3 DEF Reject, RejectTrack
<1>6. ASSUME NEW e \in hooks, NEW h \in Hook, AskTracks(h, e)
      PROVE  TypeInv'
  <2>1. Suspend(h, "count", e) /\ e.kind = "published"
    BY <1>6 DEF AskTracks, MayPublish
  <2>2. HandlerType' /\ HandlerInv'
    BY <1>0, <2>1, SuspendType
  <2> QED
    BY <1>6, <2>2 DEF AskTracks
<1>7. ASSUME NEW h \in Hook, SetOnAir(h)
      PROVE  TypeInv'
  <2>1. hev[h] \in Event
    BY <1>7 DEF SetOnAir, HandlerInv
  <2>2. MemoryType' /\ LiveKitType'
    BY <1>0, <1>7, <2>1 DEF SetOnAir, Commit, MemoryType, LiveKitType
  <2> QED
    BY <1>7, <2>2, ResumeType DEF SetOnAir
<1>8. ASSUME NEW h \in Hook, RejectSecondTrack(h)
      PROVE  TypeInv'
  <2>1. hev[h] \in Event
    BY <1>8 DEF RejectSecondTrack, HandlerInv
  <2>2. HandlerType' /\ HandlerInv'
    BY <1>8, <2>1, SuspendType DEF RejectSecondTrack
  <2>3. MemoryType'
    BY <1>0, <1>8, <2>1, StrikeType DEF RejectSecondTrack, MemoryType
  <2> QED
    BY <1>8, <2>2, <2>3 DEF RejectSecondTrack
<1>9. ASSUME NEW h \in Hook, Eject(h)
      PROVE  TypeInv'
  <2>1. live' \subseteq live /\ hooks' \subseteq Event
    BY <1>9 DEF Eject, SessionsOf, Hooked, LiveKitType, Event, Session, EventKind
  <2>2. LiveKitType'
    BY <1>9, <2>1 DEF Eject, LiveKitType
  <2> QED
    BY <1>9, <2>2, ResumeType DEF Eject
<1>10. ASSUME NEW h \in Hook, EjectFails(h)
       PROVE  TypeInv'
  BY <1>10, ResumeType, RemoveParticipantType DEF EjectFails
<1> HIDE TypeFrame DEF TypeInv, TypeOK
<1> QED
  BY <1>1, <1>2, <1>3, <1>4, <1>5, <1>6, <1>7, <1>8, <1>9, <1>10
  DEF HandleEvent, HookStep

(* Every step of LiveKit, its clients and time keeps the types.            *)
LEMMA TypeInvEnvironmentStep ==
  ASSUME TypeInv, Environment
  PROVE  TypeInv'
<1> USE TypeFrame DEF TypeInv, TypeOK
<1>1. ASSUME NEW x \in Issued, Join(x)
      PROVE  TypeInv'
  <2> DEFINE s == [who |-> x, sid |-> sessions[x] + 1, tracks |-> 0, heard |-> "pending"]
  <2>1. x \in Identity /\ sessions[x] + 1 \in Nat
    BY DEF TokenType
  <2>2. s \in Session
    BY <2>1 DEF Session
  <2>3. \A t \in Session, k \in EventKind : Hooked(k, t) \in Event
    BY DEF Hooked, Session, Event
  <2>4. /\ live' \subseteq live \cup {s}
        /\ hooks' = hooks \cup {Hooked("left", t) : t \in SessionsOf(x)}
                          \cup {Hooked("joined", s)}
        /\ UNCHANGED rooms
    BY <1>1 DEF Join
  <2> HIDE DEF s
  <2>5. LiveKitType'
    BY <2>2, <2>3, <2>4 DEF LiveKitType, SessionsOf, EventKind
  <2>6. TokenType'
    BY <1>1, <2>1 DEF Join, TokenType, Issued
  <2> QED
    BY <1>1, <2>5, <2>6 DEF Join
<1>2. ASSUME NEW x \in Issued, ConnectionAborted(x)
      PROVE  TypeInv'
  <2>1. x \in Identity /\ sessions[x] + 1 \in Nat
    BY DEF TokenType
  <2>2. LiveKitType'
    BY <1>2, <2>1 DEF ConnectionAborted, LiveKitType, Event, EventKind
  <2>3. TokenType'
    BY <1>2, <2>1 DEF ConnectionAborted, TokenType, Issued
  <2> QED
    BY <1>2, <2>2, <2>3 DEF ConnectionAborted
<1>3. ASSUME NEW s \in live, Leave(s)
      PROVE  TypeInv'
  <2>1. live' \subseteq Session /\ hooks' \subseteq Event /\ UNCHANGED rooms
    BY <1>3, DisconnectType DEF Leave
  <2>2. LiveKitType'
    BY <2>1 DEF LiveKitType
  <2> QED
    BY <1>3, <2>2 DEF Leave
<1>4. ASSUME NEW s \in live, UnpublishTrack(s)
      PROVE  TypeInv'
  <2>1. s \in Session /\ s.tracks - 1 \in Nat
    BY <1>4 DEF UnpublishTrack, LiveKitType, Session
  <2>2. live' = (live \ {s}) \cup {[s EXCEPT !.tracks = s.tracks - 1]}
    BY <1>4 DEF UnpublishTrack
  <2>3. [s EXCEPT !.tracks = s.tracks - 1] \in Session
    BY <2>1, TracksType
  <2>4. Hooked("unpublished", s) \in Event
    BY <2>1 DEF Hooked, Session, Event, EventKind
  <2>5. LiveKitType'
    BY <1>4, <2>2, <2>3, <2>4 DEF UnpublishTrack, LiveKitType
  <2> QED
    BY <1>4, <2>5 DEF UnpublishTrack
<1>5. ASSUME NEW s \in live, NEW k \in {"published", "badName"}, PublishTrack(s, k)
      PROVE  TypeInv'
  <2>1. s \in Session /\ s.tracks + 1 \in Nat /\ s.who \in Identity
    BY <1>5 DEF PublishTrack, LiveKitType, Session
  <2>2. live' = (live \ {s}) \cup {[s EXCEPT !.tracks = s.tracks + 1]}
    BY <1>5 DEF PublishTrack
  <2>3. [s EXCEPT !.tracks = s.tracks + 1] \in Session
    BY <2>1, TracksType
  <2>4. Hooked(k, s) \in Event
    BY <2>1 DEF Hooked, Session, Event, EventKind
  <2>5. LiveKitType'
    BY <1>5, <2>2, <2>3, <2>4 DEF PublishTrack, LiveKitType
  <2>6. TokenType'
    BY <1>5, <2>1 DEF PublishTrack, TokenType, Issued
  <2> QED
    BY <1>5, <2>5, <2>6 DEF PublishTrack
<1>6. CASE LiveKitRestart
  BY <1>6 DEF LiveKitRestart, LiveKitType
<1>7. ASSUME NEW e \in hooks, LoseHook(e)
      PROVE  TypeInv'
  <2>1. LiveKitType'
    BY <1>7, HeardType DEF LoseHook, LiveKitType
  <2>2. TokenType'
    BY <1>7 DEF LoseHook, TokenType, Issued
  <2> QED
    BY <1>7, <2>1, <2>2 DEF LoseHook
<1>8. ASSUME NEW c \in Channel, AgeLease(c)
      PROVE  TypeInv'
  BY <1>8 DEF AgeLease, LedgerType
<1> HIDE TypeFrame DEF TypeInv, TypeOK
<1> QED
  BY <1>1, <1>2, <1>3, <1>4, <1>5, <1>6, <1>7, <1>8 DEF Environment

(* Every step keeps the types and what a request is doing at each place.   *)
LEMMA TypeInvStep ==
  ASSUME TypeInv, [Next]_vars
  PROVE  TypeInv'
<1>1. CASE UNCHANGED vars
  BY <1>1, TypeFrame DEF vars, TypeInv, TypeOK
<1>2. ASSUME NEW c \in Channel, CreateChannel(c)
      PROVE  TypeInv'
  <2>1. LedgerType'
    BY <1>2 DEF CreateChannel, TypeInv, TypeOK, LedgerType
  <2> QED
    BY <1>2, <2>1, TypeFrame DEF CreateChannel, TypeInv, TypeOK
<1> QED
  BY <1>1, <1>2, TypeInvRequestStep, TypeInvHookStep, TypeInvEnvironmentStep DEF Next

(* Every step keeps the lock discipline of the requests: the owner of a    *)
(* lock is the only one that changes what the lock protects.               *)
LEMMA LockInvStep ==
  ASSUME TypeInv, LockInv, [Next]_vars
  PROVE  LockInv'
<1> USE DEF LockInv, RotationLockInv, ChannelLockInv, OwnsChannel, Critical,
      Awaiting, RequestPc, PasswordStillValid, LeaseOnOpenChannel,
      LeaseHeldDuringAwait, TypeInv, TypeOK, LedgerType, LockType, RequestType,
      ProgramInv, ledger, memory, locks, requests, handlers, livekit, tokens
<1>1. CASE UNCHANGED vars
  BY <1>1 DEF vars
<1>2. ASSUME NEW c \in Channel, CreateChannel(c)
      PROVE  LockInv'
  BY <1>2 DEF CreateChannel
<1>3. ASSUME NEW p \in Request, SubmitAny(p)
      PROVE  LockInv'
  BY <1>3 DEF SubmitAny, Submit
<1>4. ASSUME NEW p \in Request, RefuseStalePassword(p)
      PROVE  LockInv'
  BY <1>4 DEF RefuseStalePassword, Finish
<1>5. ASSUME NEW p \in Request, TakeRotationLock(p)
      PROVE  LockInv'
  BY <1>5 DEF TakeRotationLock, AfterRotationLock, Authorized, Free, Goto
<1>6. ASSUME NEW p \in Request, ChannelGone(p)
      PROVE  LockInv'
  BY <1>6 DEF ChannelGone, Finish
<1>7. ASSUME NEW p \in Request, TakeChannelLock(p)
      PROVE  LockInv'
  BY <1>7 DEF TakeChannelLock, ChannelLockFree, RowOpen, Free, Goto
<1>8. ASSUME NEW p \in Request, CloseVacant(p)
      PROVE  LockInv'
  BY <1>8 DEF CloseVacant, ChannelLockFree, CloseRow, DeleteLease, Finish
<1>9. ASSUME NEW p \in Request, EnsureRoomFails(p)
      PROVE  LockInv'
  BY <1>9 DEF EnsureRoomFails, RoomEnsured, Finish
<1>10. ASSUME NEW p \in Request, Subscribe(p)
      PROVE  LockInv'
  BY <1>10 DEF Subscribe, RoomEnsured, Finish
<1>11. ASSUME NEW p \in Request, PublishDirect(p)
      PROVE  LockInv'
  BY <1>11 DEF PublishDirect, RoomEnsured, WriteLease, NewIdentity, Finish
<1>12. ASSUME NEW p \in Request, AskPresence(p)
      PROVE  LockInv'
  BY <1>12 DEF AskPresence, RoomEnsured, Goto
<1>13. ASSUME NEW p \in Request, LookUp(p)
      PROVE  LockInv'
  BY <1>13 DEF LookUp, Goto
<1>14. ASSUME NEW p \in Request, KeepHolder(p)
      PROVE  LockInv'
  BY <1>14 DEF KeepHolder, Finish
<1>15. ASSUME NEW p \in Request, PublishAfterAbsent(p)
      PROVE  LockInv'
  BY <1>15 DEF PublishAfterAbsent, WriteLease, NewIdentity, Finish
<1>16. ASSUME NEW p \in Request, TakeOverVacant(p)
      PROVE  LockInv'
  BY <1>16 DEF TakeOverVacant, RoomEnsured, TakeOverRow, WriteLease,
        NewIdentity, Finish
<1>17. ASSUME NEW p \in Request, TakeOverHeld(p)
      PROVE  LockInv'
  BY <1>17 DEF TakeOverHeld, RoomEnsured, Goto
<1>18. ASSUME NEW p \in Request, RemoveHolder(p)
      PROVE  LockInv'
  BY <1>18 DEF RemoveHolder, RemoveParticipant, Disconnect, SessionsOf, Hooked,
        Goto
<1>19. ASSUME NEW p \in Request, RemoveHolderFails(p)
      PROVE  LockInv'
  BY <1>19 DEF RemoveHolderFails, RemoveParticipantFails, RemoveParticipant,
        Disconnect, SessionsOf, Hooked, Finish
<1>20. ASSUME NEW p \in Request, CloseAfterRemove(p)
      PROVE  LockInv'
  BY <1>20 DEF CloseAfterRemove, CloseRow, DeleteLease, Finish
<1>21. ASSUME NEW p \in Request, TakeOverAfterRemove(p)
      PROVE  LockInv'
  BY <1>21 DEF TakeOverAfterRemove, TakeOverRow, WriteLease, NewIdentity,
        Finish
<1>22. ASSUME NEW p \in Request, RotateCreate(p)
      PROVE  LockInv'
  BY <1>22 DEF RotateCreate, Goto
<1>23. ASSUME NEW p \in Request, RotateFails(p)
      PROVE  LockInv'
  BY <1>23 DEF RotateFails, Finish
<1>24. ASSUME NEW p \in Request, RotateCommit(p)
      PROVE  LockInv'
  <2>1. pc[p] \in Critical /\ rotationLock = p
    BY <1>24 DEF RotateCommit
  <2>2. \A q \in Request : q # p => pc[q] \in {"idle", "rotation"}
    BY <2>1
  <2>3. pc' = [pc EXCEPT ![p] = "idle"]
    BY <1>24 DEF RotateCommit, Finish
  <2>4. \A q \in Request : pc'[q] \in {"idle", "rotation"}
    BY <2>2, <2>3
  <2> QED
    BY <1>24, <2>4 DEF RotateCommit
<1>25. ASSUME NEW p \in Request, NEW g \in todo[p], RotateDelete(p, g)
      PROVE  LockInv'
  BY <1>25 DEF RotateDelete, Disconnect, Hooked
<1>26. ASSUME NEW e \in hooks, SkipForeign(e)
      PROVE  LockInv'
  BY <1>26 DEF SkipForeign, InScope, Commit
<1>27. ASSUME NEW e \in hooks, Admit(e)
      PROVE  LockInv'
  BY <1>27 DEF Admit, Commit
<1>28. ASSUME NEW e \in hooks, TrackUnpublished(e)
      PROVE  LockInv'
  BY <1>28 DEF TrackUnpublished, Commit
<1>29. ASSUME NEW e \in hooks, ParticipantLeft(e)
      PROVE  LockInv'
  BY <1>29 DEF ParticipantLeft, DeleteLease, Commit
<1>30. ASSUME NEW e \in hooks, NEW h \in Hook, Reject(h, e)
      PROVE  LockInv'
  BY <1>30 DEF Reject, Suspend
<1>31. ASSUME NEW e \in hooks, NEW h \in Hook, AskTracks(h, e)
      PROVE  LockInv'
  BY <1>31 DEF AskTracks, Suspend, MayPublish
<1>32. ASSUME NEW e \in hooks, NEW h \in Hook, RejectTrack(h, e)
      PROVE  LockInv'
  BY <1>32 DEF RejectTrack, Suspend
<1>33. ASSUME NEW h \in Hook, SetOnAir(h)
      PROVE  LockInv'
  BY <1>33 DEF SetOnAir, Commit, Resume
<1>34. ASSUME NEW h \in Hook, RejectSecondTrack(h)
      PROVE  LockInv'
  BY <1>34 DEF RejectSecondTrack, Suspend
<1>35. ASSUME NEW h \in Hook, Eject(h)
      PROVE  LockInv'
  BY <1>35 DEF Eject, Resume, SessionsOf, Hooked
<1>36. ASSUME NEW h \in Hook, EjectFails(h)
      PROVE  LockInv'
  BY <1>36 DEF EjectFails, RemoveParticipantFails, RemoveParticipant,
        Disconnect, SessionsOf, Hooked, Resume
<1>37. ASSUME NEW x \in Issued, Join(x)
      PROVE  LockInv'
  BY <1>37 DEF Join, SessionsOf, Hooked
<1>38. ASSUME NEW x \in Issued, ConnectionAborted(x)
      PROVE  LockInv'
  BY <1>38 DEF ConnectionAborted
<1>39. ASSUME NEW s \in live, Leave(s)
      PROVE  LockInv'
  BY <1>39 DEF Leave, Disconnect, Hooked
<1>40. ASSUME NEW s \in live, UnpublishTrack(s)
      PROVE  LockInv'
  BY <1>40 DEF UnpublishTrack, Hooked
<1>41. ASSUME NEW s \in live, NEW k \in {"published", "badName"}, PublishTrack(s, k)
      PROVE  LockInv'
  BY <1>41 DEF PublishTrack, Hooked
<1>42. ASSUME LiveKitRestart
      PROVE  LockInv'
  BY <1>42 DEF LiveKitRestart
<1>43. ASSUME NEW e \in hooks, LoseHook(e)
      PROVE  LockInv'
  BY <1>43 DEF LoseHook
<1>44. ASSUME NEW c \in Channel, AgeLease(c)
      PROVE  LockInv'
  BY <1>44 DEF AgeLease
<1> HIDE DEF LockInv, RotationLockInv, ChannelLockInv, OwnsChannel, Critical,
      Awaiting, RequestPc, PasswordStillValid, LeaseOnOpenChannel,
      LeaseHeldDuringAwait, TypeInv, TypeOK, LedgerType, LockType, RequestType,
      ProgramInv, ledger, memory, locks, requests, handlers, livekit, tokens
<1>45. QED
  BY <1>1, <1>2, <1>3, <1>4, <1>5, <1>6, <1>7, <1>8, <1>9, <1>10, <1>11, <1>12,
        <1>13, <1>14, <1>15, <1>16, <1>17, <1>18, <1>19, <1>20, <1>21, <1>22,
        <1>23, <1>24, <1>25, <1>26, <1>27, <1>28, <1>29, <1>30, <1>31, <1>32,
        <1>33, <1>34, <1>35, <1>36, <1>37, <1>38, <1>39, <1>40, <1>41, <1>42,
        <1>43, <1>44
  DEF Next, RequestStep, HandleEvent, HookStep, Environment

(* Every step keeps the leases current: rotation and takeover replace the  *)
(* lease together with what it is checked against.                         *)
LEMMA TokenInvStep ==
  ASSUME TypeInv, LockInv, TokenInv, [Next]_vars
  PROVE  TokenInv'
<1> USE DEF TokenInv, LeaseIsCurrent, IssuedInv, Issued, Identity, TypeInv,
      TypeOK, LedgerType, RequestType, TokenType, ProgramInv, ledger, memory,
      locks, requests, handlers, livekit, tokens
<1>1. CASE UNCHANGED vars
  BY <1>1 DEF vars
<1>2. ASSUME NEW c \in Channel, CreateChannel(c)
      PROVE  TokenInv'
  BY <1>2 DEF CreateChannel
<1>3. ASSUME NEW p \in Request, SubmitAny(p)
      PROVE  TokenInv'
  BY <1>3 DEF SubmitAny, Submit
<1>4. ASSUME NEW p \in Request, RefuseStalePassword(p)
      PROVE  TokenInv'
  BY <1>4 DEF RefuseStalePassword, Finish
<1>5. ASSUME NEW p \in Request, TakeRotationLock(p)
      PROVE  TokenInv'
  BY <1>5 DEF TakeRotationLock, AfterRotationLock, Authorized, Free, Goto
<1>6. ASSUME NEW p \in Request, ChannelGone(p)
      PROVE  TokenInv'
  BY <1>6 DEF ChannelGone, Finish
<1>7. ASSUME NEW p \in Request, TakeChannelLock(p)
      PROVE  TokenInv'
  BY <1>7 DEF TakeChannelLock, ChannelLockFree, RowOpen, Free, Goto
<1>8. ASSUME NEW p \in Request, CloseVacant(p)
      PROVE  TokenInv'
  BY <1>8 DEF CloseVacant, ChannelLockFree, CloseRow, DeleteLease, Finish
<1>9. ASSUME NEW p \in Request, EnsureRoomFails(p)
      PROVE  TokenInv'
  BY <1>9 DEF EnsureRoomFails, RoomEnsured, Finish
<1>10. ASSUME NEW p \in Request, Subscribe(p)
      PROVE  TokenInv'
  BY <1>10 DEF Subscribe, RoomEnsured, Finish
<1>11. ASSUME NEW p \in Request, PublishDirect(p)
      PROVE  TokenInv'
  BY <1>11 DEF PublishDirect, RoomEnsured, WriteLease, NewIdentity, Finish
<1>12. ASSUME NEW p \in Request, AskPresence(p)
      PROVE  TokenInv'
  BY <1>12 DEF AskPresence, RoomEnsured, Goto
<1>13. ASSUME NEW p \in Request, LookUp(p)
      PROVE  TokenInv'
  BY <1>13 DEF LookUp, Goto
<1>14. ASSUME NEW p \in Request, KeepHolder(p)
      PROVE  TokenInv'
  BY <1>14 DEF KeepHolder, Finish
<1>15. ASSUME NEW p \in Request, PublishAfterAbsent(p)
      PROVE  TokenInv'
  BY <1>15 DEF PublishAfterAbsent, WriteLease, NewIdentity, Finish
<1>16. ASSUME NEW p \in Request, TakeOverVacant(p)
      PROVE  TokenInv'
  BY <1>16 DEF TakeOverVacant, RoomEnsured, TakeOverRow, WriteLease,
        NewIdentity, Finish
<1>17. ASSUME NEW p \in Request, TakeOverHeld(p)
      PROVE  TokenInv'
  BY <1>17 DEF TakeOverHeld, RoomEnsured, Goto
<1>18. ASSUME NEW p \in Request, RemoveHolder(p)
      PROVE  TokenInv'
  BY <1>18 DEF RemoveHolder, RemoveParticipant, Disconnect, SessionsOf, Hooked,
        Goto
<1>19. ASSUME NEW p \in Request, RemoveHolderFails(p)
      PROVE  TokenInv'
  BY <1>19 DEF RemoveHolderFails, RemoveParticipantFails, RemoveParticipant,
        Disconnect, SessionsOf, Hooked, Finish
<1>20. ASSUME NEW p \in Request, CloseAfterRemove(p)
      PROVE  TokenInv'
  BY <1>20 DEF CloseAfterRemove, CloseRow, DeleteLease, Finish
<1>21. ASSUME NEW p \in Request, TakeOverAfterRemove(p)
      PROVE  TokenInv'
  BY <1>21 DEF TakeOverAfterRemove, TakeOverRow, WriteLease, NewIdentity,
        Finish
<1>22. ASSUME NEW p \in Request, RotateCreate(p)
      PROVE  TokenInv'
  BY <1>22 DEF RotateCreate, Goto
<1>23. ASSUME NEW p \in Request, RotateFails(p)
      PROVE  TokenInv'
  BY <1>23 DEF RotateFails, Finish
<1>24. ASSUME NEW p \in Request, RotateCommit(p)
      PROVE  TokenInv'
  BY <1>24 DEF RotateCommit, RoomsDeleted, Finish
<1>25. ASSUME NEW p \in Request, NEW g \in todo[p], RotateDelete(p, g)
      PROVE  TokenInv'
  BY <1>25 DEF RotateDelete, Disconnect, Hooked
<1>26. ASSUME NEW e \in hooks, SkipForeign(e)
      PROVE  TokenInv'
  BY <1>26 DEF SkipForeign, InScope, Commit
<1>27. ASSUME NEW e \in hooks, Admit(e)
      PROVE  TokenInv'
  BY <1>27 DEF Admit, Commit
<1>28. ASSUME NEW e \in hooks, TrackUnpublished(e)
      PROVE  TokenInv'
  BY <1>28 DEF TrackUnpublished, Commit
<1>29. ASSUME NEW e \in hooks, ParticipantLeft(e)
      PROVE  TokenInv'
  BY <1>29 DEF ParticipantLeft, DeleteLease, Commit
<1>30. ASSUME NEW e \in hooks, NEW h \in Hook, Reject(h, e)
      PROVE  TokenInv'
  BY <1>30 DEF Reject, Suspend
<1>31. ASSUME NEW e \in hooks, NEW h \in Hook, AskTracks(h, e)
      PROVE  TokenInv'
  BY <1>31 DEF AskTracks, Suspend, MayPublish
<1>32. ASSUME NEW e \in hooks, NEW h \in Hook, RejectTrack(h, e)
      PROVE  TokenInv'
  BY <1>32 DEF RejectTrack, Suspend
<1>33. ASSUME NEW h \in Hook, SetOnAir(h)
      PROVE  TokenInv'
  BY <1>33 DEF SetOnAir, Commit, Resume
<1>34. ASSUME NEW h \in Hook, RejectSecondTrack(h)
      PROVE  TokenInv'
  BY <1>34 DEF RejectSecondTrack, Suspend
<1>35. ASSUME NEW h \in Hook, Eject(h)
      PROVE  TokenInv'
  BY <1>35 DEF Eject, Resume, SessionsOf, Hooked
<1>36. ASSUME NEW h \in Hook, EjectFails(h)
      PROVE  TokenInv'
  BY <1>36 DEF EjectFails, RemoveParticipantFails, RemoveParticipant,
        Disconnect, SessionsOf, Hooked, Resume
<1>37. ASSUME NEW x \in Issued, Join(x)
      PROVE  TokenInv'
  BY <1>37 DEF Join, SessionsOf, Hooked
<1>38. ASSUME NEW x \in Issued, ConnectionAborted(x)
      PROVE  TokenInv'
  BY <1>38 DEF ConnectionAborted
<1>39. ASSUME NEW s \in live, Leave(s)
      PROVE  TokenInv'
  BY <1>39 DEF Leave, Disconnect, Hooked
<1>40. ASSUME NEW s \in live, UnpublishTrack(s)
      PROVE  TokenInv'
  BY <1>40 DEF UnpublishTrack, Hooked
<1>41. ASSUME NEW s \in live, NEW k \in {"published", "badName"}, PublishTrack(s, k)
      PROVE  TokenInv'
  BY <1>41 DEF PublishTrack, Hooked
<1>42. ASSUME LiveKitRestart
      PROVE  TokenInv'
  BY <1>42 DEF LiveKitRestart
<1>43. ASSUME NEW e \in hooks, LoseHook(e)
      PROVE  TokenInv'
  BY <1>43 DEF LoseHook
<1>44. ASSUME NEW c \in Channel, AgeLease(c)
      PROVE  TokenInv'
  BY <1>44 DEF AgeLease
<1> HIDE DEF TokenInv, LeaseIsCurrent, IssuedInv, Issued, Identity, TypeInv,
      TypeOK, LedgerType, RequestType, TokenType, ProgramInv, ledger, memory,
      locks, requests, handlers, livekit, tokens
<1>45. QED
  BY <1>1, <1>2, <1>3, <1>4, <1>5, <1>6, <1>7, <1>8, <1>9, <1>10, <1>11, <1>12,
        <1>13, <1>14, <1>15, <1>16, <1>17, <1>18, <1>19, <1>20, <1>21, <1>22,
        <1>23, <1>24, <1>25, <1>26, <1>27, <1>28, <1>29, <1>30, <1>31, <1>32,
        <1>33, <1>34, <1>35, <1>36, <1>37, <1>38, <1>39, <1>40, <1>41, <1>42,
        <1>43, <1>44
  DEF Next, RequestStep, HandleEvent, HookStep, Environment

(* Every step keeps the rooms to the present generation, and to the next   *)
(* while a rotation is under way: a new room is created under the rotation *)
(* lock only, and a rotation deletes every room on its list.               *)
LEMMA RoomsInvStep ==
  ASSUME TypeInv, LockInv, IssuedInv, RoomsInv, [Next]_vars
  PROVE  RoomsInv'
<1> USE DEF RoomsInv, IssuedInv, Issued, LockInv, RotationLockInv,
      Critical, RequestPc, TypeInv, TypeOK, LedgerType, RequestType,
      LiveKitType, LockType, TokenType, ledger, memory, locks, requests,
      handlers, livekit, tokens
<1>1. CASE UNCHANGED vars
  BY <1>1 DEF vars
<1>2. ASSUME NEW c \in Channel, CreateChannel(c)
      PROVE  RoomsInv'
  BY <1>2 DEF CreateChannel
<1>3. ASSUME NEW p \in Request, SubmitAny(p)
      PROVE  RoomsInv'
  BY <1>3 DEF SubmitAny, Submit
<1>4. ASSUME NEW p \in Request, RefuseStalePassword(p)
      PROVE  RoomsInv'
  BY <1>4 DEF RefuseStalePassword, Finish
<1>5. ASSUME NEW p \in Request, TakeRotationLock(p)
      PROVE  RoomsInv'
  BY <1>5 DEF TakeRotationLock, AfterRotationLock, Authorized, Free, Goto
<1>6. ASSUME NEW p \in Request, ChannelGone(p)
      PROVE  RoomsInv'
  BY <1>6 DEF ChannelGone, Finish
<1>7. ASSUME NEW p \in Request, TakeChannelLock(p)
      PROVE  RoomsInv'
  BY <1>7 DEF TakeChannelLock, ChannelLockFree, RowOpen, Free, Goto
<1>8. ASSUME NEW p \in Request, CloseVacant(p)
      PROVE  RoomsInv'
  BY <1>8 DEF CloseVacant, ChannelLockFree, CloseRow, DeleteLease, Finish
<1>9. ASSUME NEW p \in Request, EnsureRoomFails(p)
      PROVE  RoomsInv'
  BY <1>9 DEF EnsureRoomFails, RoomEnsured, Finish
<1>10. ASSUME NEW p \in Request, Subscribe(p)
      PROVE  RoomsInv'
  BY <1>10 DEF Subscribe, RoomEnsured, Finish
<1>11. ASSUME NEW p \in Request, PublishDirect(p)
      PROVE  RoomsInv'
  BY <1>11 DEF PublishDirect, RoomEnsured, WriteLease, NewIdentity, Finish
<1>12. ASSUME NEW p \in Request, AskPresence(p)
      PROVE  RoomsInv'
  BY <1>12 DEF AskPresence, RoomEnsured, Goto
<1>13. ASSUME NEW p \in Request, LookUp(p)
      PROVE  RoomsInv'
  BY <1>13 DEF LookUp, Goto
<1>14. ASSUME NEW p \in Request, KeepHolder(p)
      PROVE  RoomsInv'
  BY <1>14 DEF KeepHolder, Finish
<1>15. ASSUME NEW p \in Request, PublishAfterAbsent(p)
      PROVE  RoomsInv'
  BY <1>15 DEF PublishAfterAbsent, WriteLease, NewIdentity, Finish
<1>16. ASSUME NEW p \in Request, TakeOverVacant(p)
      PROVE  RoomsInv'
  BY <1>16 DEF TakeOverVacant, RoomEnsured, TakeOverRow, WriteLease,
        NewIdentity, Finish
<1>17. ASSUME NEW p \in Request, TakeOverHeld(p)
      PROVE  RoomsInv'
  BY <1>17 DEF TakeOverHeld, RoomEnsured, Goto
<1>18. ASSUME NEW p \in Request, RemoveHolder(p)
      PROVE  RoomsInv'
  BY <1>18 DEF RemoveHolder, RemoveParticipant, Disconnect, SessionsOf, Hooked,
        Goto
<1>19. ASSUME NEW p \in Request, RemoveHolderFails(p)
      PROVE  RoomsInv'
  BY <1>19 DEF RemoveHolderFails, RemoveParticipantFails, RemoveParticipant,
        Disconnect, SessionsOf, Hooked, Finish
<1>20. ASSUME NEW p \in Request, CloseAfterRemove(p)
      PROVE  RoomsInv'
  BY <1>20 DEF CloseAfterRemove, CloseRow, DeleteLease, Finish
<1>21. ASSUME NEW p \in Request, TakeOverAfterRemove(p)
      PROVE  RoomsInv'
  BY <1>21 DEF TakeOverAfterRemove, TakeOverRow, WriteLease, NewIdentity,
        Finish
<1>22. ASSUME NEW p \in Request, RotateCreate(p)
      PROVE  RoomsInv'
  BY <1>22 DEF RotateCreate, Goto
<1>23. ASSUME NEW p \in Request, RotateFails(p)
      PROVE  RoomsInv'
  BY <1>23 DEF RotateFails, Finish
<1>24. ASSUME NEW p \in Request, RotateCommit(p)
      PROVE  RoomsInv'
  BY <1>24 DEF RotateCommit, RoomsDeleted, Finish
<1>25. ASSUME NEW p \in Request, NEW g \in todo[p], RotateDelete(p, g)
      PROVE  RoomsInv'
  BY <1>25 DEF RotateDelete, Disconnect, Hooked
<1>26. ASSUME NEW e \in hooks, SkipForeign(e)
      PROVE  RoomsInv'
  BY <1>26 DEF SkipForeign, InScope, Commit
<1>27. ASSUME NEW e \in hooks, Admit(e)
      PROVE  RoomsInv'
  <2>1. \A t \in live' : \E s \in live :
          /\ t.who = s.who /\ t.sid = s.sid
          /\ (t = s /\ Hooked("joined", s) # e) \/ t.heard # "pending"
    BY <1>27, HeardKeeps DEF Admit
  <2> QED
    BY <1>27, <2>1 DEF Admit, Commit
<1>28. ASSUME NEW e \in hooks, TrackUnpublished(e)
      PROVE  RoomsInv'
  BY <1>28 DEF TrackUnpublished, Commit
<1>29. ASSUME NEW e \in hooks, ParticipantLeft(e)
      PROVE  RoomsInv'
  BY <1>29 DEF ParticipantLeft, DeleteLease, Commit
<1>30. ASSUME NEW e \in hooks, NEW h \in Hook, Reject(h, e)
      PROVE  RoomsInv'
  BY <1>30 DEF Reject, Suspend
<1>31. ASSUME NEW e \in hooks, NEW h \in Hook, AskTracks(h, e)
      PROVE  RoomsInv'
  BY <1>31 DEF AskTracks, Suspend, MayPublish
<1>32. ASSUME NEW e \in hooks, NEW h \in Hook, RejectTrack(h, e)
      PROVE  RoomsInv'
  BY <1>32 DEF RejectTrack, Suspend
<1>33. ASSUME NEW h \in Hook, SetOnAir(h)
      PROVE  RoomsInv'
  BY <1>33 DEF SetOnAir, Commit, Resume
<1>34. ASSUME NEW h \in Hook, RejectSecondTrack(h)
      PROVE  RoomsInv'
  BY <1>34 DEF RejectSecondTrack, Suspend
<1>35. ASSUME NEW h \in Hook, Eject(h)
      PROVE  RoomsInv'
  BY <1>35 DEF Eject, Resume, SessionsOf, Hooked
<1>36. ASSUME NEW h \in Hook, EjectFails(h)
      PROVE  RoomsInv'
  BY <1>36 DEF EjectFails, RemoveParticipantFails, RemoveParticipant,
        Disconnect, SessionsOf, Hooked, Resume
<1>37. ASSUME NEW x \in Issued, Join(x)
      PROVE  RoomsInv'
  BY <1>37 DEF Join, SessionsOf, Hooked
<1>38. ASSUME NEW x \in Issued, ConnectionAborted(x)
      PROVE  RoomsInv'
  BY <1>38 DEF ConnectionAborted
<1>39. ASSUME NEW s \in live, Leave(s)
      PROVE  RoomsInv'
  BY <1>39 DEF Leave, Disconnect, Hooked
<1>40. ASSUME NEW s \in live, UnpublishTrack(s)
      PROVE  RoomsInv'
  <2> DEFINE t == [s EXCEPT !.tracks = s.tracks - 1]
  <2>1. s \in Session
    BY DEF LiveKitType
  <2>2. t.who = s.who /\ t.sid = s.sid /\ t.heard = s.heard
    BY <2>1 DEF Session
  <2>3. live' = (live \ {s}) \cup {t}
    BY <1>40 DEF UnpublishTrack
  <2>4. \A v \in live' : \E u \in live :
          v.who = u.who /\ v.sid = u.sid /\ v.heard = u.heard
    BY <2>2, <2>3
  <2>5. UNCHANGED <<pc, rooms, todo, generation, sessions>>
    BY <1>40 DEF UnpublishTrack
  <2> QED
    BY <2>4, <2>5
<1>41. ASSUME NEW s \in live, NEW k \in {"published", "badName"}, PublishTrack(s, k)
      PROVE  RoomsInv'
  <2> DEFINE t == [s EXCEPT !.tracks = s.tracks + 1]
  <2>1. s \in Session
    BY DEF LiveKitType
  <2>2. t.who = s.who /\ t.sid = s.sid /\ t.heard = s.heard
    BY <2>1 DEF Session
  <2>3. live' = (live \ {s}) \cup {t}
    BY <1>41 DEF PublishTrack
  <2>4. \A v \in live' : \E u \in live :
          v.who = u.who /\ v.sid = u.sid /\ v.heard = u.heard
    BY <2>2, <2>3
  <2>5. UNCHANGED <<pc, rooms, todo, generation, sessions>>
    BY <1>41 DEF PublishTrack
  <2> QED
    BY <2>4, <2>5
<1>42. ASSUME LiveKitRestart
      PROVE  RoomsInv'
  BY <1>42 DEF LiveKitRestart
<1>43. ASSUME NEW e \in hooks, LoseHook(e)
      PROVE  RoomsInv'
  <2>1. \A t \in live' : \E s \in live :
          /\ t.who = s.who /\ t.sid = s.sid
          /\ (t = s /\ Hooked("joined", s) # e) \/ t.heard # "pending"
    BY <1>43, HeardKeeps DEF LoseHook
  <2> QED
    BY <1>43, <2>1 DEF LoseHook
<1>44. ASSUME NEW c \in Channel, AgeLease(c)
      PROVE  RoomsInv'
  BY <1>44 DEF AgeLease
<1> HIDE DEF RoomsInv, IssuedInv, Issued, LockInv, RotationLockInv,
      Critical, RequestPc, TypeInv, TypeOK, LedgerType, RequestType,
      LiveKitType, LockType, TokenType, ledger, memory, locks, requests,
      handlers, livekit, tokens
<1>45. QED
  BY <1>1, <1>2, <1>3, <1>4, <1>5, <1>6, <1>7, <1>8, <1>9, <1>10, <1>11, <1>12,
        <1>13, <1>14, <1>15, <1>16, <1>17, <1>18, <1>19, <1>20, <1>21, <1>22,
        <1>23, <1>24, <1>25, <1>26, <1>27, <1>28, <1>29, <1>30, <1>31, <1>32,
        <1>33, <1>34, <1>35, <1>36, <1>37, <1>38, <1>39, <1>40, <1>41, <1>42,
        <1>43, <1>44
  DEF Next, RequestStep, HandleEvent, HookStep, Environment

(* Every step keeps the participant_joined of whoever has not been judged: *)
(* the processor commits one after a removal or an admission only.         *)
LEMMA AdmissionStep ==
  ASSUME TypeInv, TokenInv, RoomsInv, AdmittedOrPending, [Next]_vars
  PROVE  AdmittedOrPending'
<1> USE DEF AdmittedOrPending, HandlerInv, TypeInv, TypeOK, HandlerType,
      LiveKitType, Hooked, ledger, memory, locks, requests, handlers, livekit,
      tokens
<1>1. CASE UNCHANGED vars
  BY <1>1 DEF vars
<1>2. ASSUME NEW c \in Channel, CreateChannel(c)
      PROVE  AdmittedOrPending'
  BY <1>2 DEF CreateChannel
<1>3. ASSUME NEW p \in Request, SubmitAny(p)
      PROVE  AdmittedOrPending'
  BY <1>3 DEF SubmitAny, Submit
<1>4. ASSUME NEW p \in Request, RefuseStalePassword(p)
      PROVE  AdmittedOrPending'
  BY <1>4 DEF RefuseStalePassword, Finish
<1>5. ASSUME NEW p \in Request, TakeRotationLock(p)
      PROVE  AdmittedOrPending'
  BY <1>5 DEF TakeRotationLock, AfterRotationLock, Authorized, Free, Goto
<1>6. ASSUME NEW p \in Request, ChannelGone(p)
      PROVE  AdmittedOrPending'
  BY <1>6 DEF ChannelGone, Finish
<1>7. ASSUME NEW p \in Request, TakeChannelLock(p)
      PROVE  AdmittedOrPending'
  BY <1>7 DEF TakeChannelLock, ChannelLockFree, RowOpen, Free, Goto
<1>8. ASSUME NEW p \in Request, CloseVacant(p)
      PROVE  AdmittedOrPending'
  BY <1>8 DEF CloseVacant, ChannelLockFree, CloseRow, DeleteLease, Finish
<1>9. ASSUME NEW p \in Request, EnsureRoomFails(p)
      PROVE  AdmittedOrPending'
  BY <1>9 DEF EnsureRoomFails, RoomEnsured, Finish
<1>10. ASSUME NEW p \in Request, Subscribe(p)
      PROVE  AdmittedOrPending'
  BY <1>10 DEF Subscribe, RoomEnsured, Finish
<1>11. ASSUME NEW p \in Request, PublishDirect(p)
      PROVE  AdmittedOrPending'
  BY <1>11 DEF PublishDirect, RoomEnsured, WriteLease, NewIdentity, Finish
<1>12. ASSUME NEW p \in Request, AskPresence(p)
      PROVE  AdmittedOrPending'
  BY <1>12 DEF AskPresence, RoomEnsured, Goto
<1>13. ASSUME NEW p \in Request, LookUp(p)
      PROVE  AdmittedOrPending'
  BY <1>13 DEF LookUp, Goto
<1>14. ASSUME NEW p \in Request, KeepHolder(p)
      PROVE  AdmittedOrPending'
  BY <1>14 DEF KeepHolder, Finish
<1>15. ASSUME NEW p \in Request, PublishAfterAbsent(p)
      PROVE  AdmittedOrPending'
  BY <1>15 DEF PublishAfterAbsent, WriteLease, NewIdentity, Finish
<1>16. ASSUME NEW p \in Request, TakeOverVacant(p)
      PROVE  AdmittedOrPending'
  BY <1>16 DEF TakeOverVacant, RoomEnsured, TakeOverRow, WriteLease,
        NewIdentity, Finish
<1>17. ASSUME NEW p \in Request, TakeOverHeld(p)
      PROVE  AdmittedOrPending'
  BY <1>17 DEF TakeOverHeld, RoomEnsured, Goto
<1>18. ASSUME NEW p \in Request, RemoveHolder(p)
      PROVE  AdmittedOrPending'
  BY <1>18 DEF RemoveHolder, RemoveParticipant, Disconnect, SessionsOf, Hooked,
        Goto
<1>19. ASSUME NEW p \in Request, RemoveHolderFails(p)
      PROVE  AdmittedOrPending'
  BY <1>19 DEF RemoveHolderFails, RemoveParticipantFails, RemoveParticipant,
        Disconnect, SessionsOf, Hooked, Finish
<1>20. ASSUME NEW p \in Request, CloseAfterRemove(p)
      PROVE  AdmittedOrPending'
  BY <1>20 DEF CloseAfterRemove, CloseRow, DeleteLease, Finish
<1>21. ASSUME NEW p \in Request, TakeOverAfterRemove(p)
      PROVE  AdmittedOrPending'
  BY <1>21 DEF TakeOverAfterRemove, TakeOverRow, WriteLease, NewIdentity,
        Finish
<1>22. ASSUME NEW p \in Request, RotateCreate(p)
      PROVE  AdmittedOrPending'
  BY <1>22 DEF RotateCreate, Goto
<1>23. ASSUME NEW p \in Request, RotateFails(p)
      PROVE  AdmittedOrPending'
  BY <1>23 DEF RotateFails, Finish
<1>24. ASSUME NEW p \in Request, RotateCommit(p)
      PROVE  AdmittedOrPending'
  BY <1>24 DEF RotateCommit, RoomsDeleted, Finish
<1>25. ASSUME NEW p \in Request, NEW g \in todo[p], RotateDelete(p, g)
      PROVE  AdmittedOrPending'
  BY <1>25 DEF RotateDelete, Disconnect, Hooked
<1>26. ASSUME NEW e \in hooks, SkipForeign(e)
      PROVE  AdmittedOrPending'
  <2>1. e.who.gen # generation
    BY <1>26 DEF SkipForeign, InScope
  <2>2. \A s \in live : s.who.gen = generation
    BY DEF RoomsInv, TokenInv, IssuedInv, Issued, TokenType, LedgerType, Identity
  <2>3. \A s \in live : Hooked("joined", s) # e
    BY <2>1, <2>2
  <2> QED
    BY <1>26, <2>3 DEF SkipForeign, Commit
<1>27. ASSUME NEW e \in hooks, Admit(e)
      PROVE  AdmittedOrPending'
  <2>1. \A t \in live' : \E s \in live :
          /\ t.who = s.who /\ t.sid = s.sid
          /\ (t = s /\ Hooked("joined", s) # e) \/ t.heard # "pending"
    BY <1>27, HeardKeeps DEF Admit
  <2> QED
    BY <1>27, <2>1 DEF Admit, Commit
<1>28. ASSUME NEW e \in hooks, TrackUnpublished(e)
      PROVE  AdmittedOrPending'
  BY <1>28 DEF TrackUnpublished, Commit
<1>29. ASSUME NEW e \in hooks, ParticipantLeft(e)
      PROVE  AdmittedOrPending'
  BY <1>29 DEF ParticipantLeft, DeleteLease, Commit
<1>30. ASSUME NEW e \in hooks, NEW h \in Hook, Reject(h, e)
      PROVE  AdmittedOrPending'
  BY <1>30 DEF Reject, Suspend
<1>31. ASSUME NEW e \in hooks, NEW h \in Hook, AskTracks(h, e)
      PROVE  AdmittedOrPending'
  BY <1>31 DEF AskTracks, Suspend, MayPublish
<1>32. ASSUME NEW e \in hooks, NEW h \in Hook, RejectTrack(h, e)
      PROVE  AdmittedOrPending'
  BY <1>32 DEF RejectTrack, Suspend
<1>33. ASSUME NEW h \in Hook, SetOnAir(h)
      PROVE  AdmittedOrPending'
  BY <1>33 DEF SetOnAir, Commit, Resume
<1>34. ASSUME NEW h \in Hook, RejectSecondTrack(h)
      PROVE  AdmittedOrPending'
  BY <1>34 DEF RejectSecondTrack, Suspend
<1>35. ASSUME NEW h \in Hook, Eject(h)
      PROVE  AdmittedOrPending'
  BY <1>35 DEF Eject, Resume, SessionsOf, Hooked
<1>36. ASSUME NEW h \in Hook, EjectFails(h)
      PROVE  AdmittedOrPending'
  BY <1>36 DEF EjectFails, RemoveParticipantFails, RemoveParticipant,
        Disconnect, SessionsOf, Hooked, Resume
<1>37. ASSUME NEW x \in Issued, Join(x)
      PROVE  AdmittedOrPending'
  BY <1>37 DEF Join, SessionsOf, Hooked
<1>38. ASSUME NEW x \in Issued, ConnectionAborted(x)
      PROVE  AdmittedOrPending'
  BY <1>38 DEF ConnectionAborted
<1>39. ASSUME NEW s \in live, Leave(s)
      PROVE  AdmittedOrPending'
  BY <1>39 DEF Leave, Disconnect, Hooked
<1>40. ASSUME NEW s \in live, UnpublishTrack(s)
      PROVE  AdmittedOrPending'
  <2> DEFINE t == [s EXCEPT !.tracks = s.tracks - 1]
  <2>1. s \in Session
    BY DEF LiveKitType
  <2>2. t.who = s.who /\ t.sid = s.sid /\ t.heard = s.heard
    BY <2>1 DEF Session
  <2>3. live' = (live \ {s}) \cup {t}
    BY <1>40 DEF UnpublishTrack
  <2>4. \A v \in live' : \E u \in live :
          v.who = u.who /\ v.sid = u.sid /\ v.heard = u.heard
    BY <2>2, <2>3
  <2>5. hooks \subseteq hooks'
    BY <1>40 DEF UnpublishTrack
  <2> QED
    BY <2>4, <2>5
<1>41. ASSUME NEW s \in live, NEW k \in {"published", "badName"}, PublishTrack(s, k)
      PROVE  AdmittedOrPending'
  <2> DEFINE t == [s EXCEPT !.tracks = s.tracks + 1]
  <2>1. s \in Session
    BY DEF LiveKitType
  <2>2. t.who = s.who /\ t.sid = s.sid /\ t.heard = s.heard
    BY <2>1 DEF Session
  <2>3. live' = (live \ {s}) \cup {t}
    BY <1>41 DEF PublishTrack
  <2>4. \A v \in live' : \E u \in live :
          v.who = u.who /\ v.sid = u.sid /\ v.heard = u.heard
    BY <2>2, <2>3
  <2>5. hooks \subseteq hooks'
    BY <1>41 DEF PublishTrack
  <2> QED
    BY <2>4, <2>5
<1>42. ASSUME LiveKitRestart
      PROVE  AdmittedOrPending'
  BY <1>42 DEF LiveKitRestart
<1>43. ASSUME NEW e \in hooks, LoseHook(e)
      PROVE  AdmittedOrPending'
  <2>1. \A t \in live' : \E s \in live :
          /\ t.who = s.who /\ t.sid = s.sid
          /\ (t = s /\ Hooked("joined", s) # e) \/ t.heard # "pending"
    BY <1>43, HeardKeeps DEF LoseHook
  <2> QED
    BY <1>43, <2>1 DEF LoseHook
<1>44. ASSUME NEW c \in Channel, AgeLease(c)
      PROVE  AdmittedOrPending'
  BY <1>44 DEF AgeLease
<1> HIDE DEF AdmittedOrPending, HandlerInv, TypeInv, TypeOK, HandlerType,
      LiveKitType, Hooked, ledger, memory, locks, requests, handlers, livekit,
      tokens
<1>45. QED
  BY <1>1, <1>2, <1>3, <1>4, <1>5, <1>6, <1>7, <1>8, <1>9, <1>10, <1>11, <1>12,
        <1>13, <1>14, <1>15, <1>16, <1>17, <1>18, <1>19, <1>20, <1>21, <1>22,
        <1>23, <1>24, <1>25, <1>26, <1>27, <1>28, <1>29, <1>30, <1>31, <1>32,
        <1>33, <1>34, <1>35, <1>36, <1>37, <1>38, <1>39, <1>40, <1>41, <1>42,
        <1>43, <1>44
  DEF Next, RequestStep, HandleEvent, HookStep, Environment

(* Every step keeps the strikes to those who earned them: for the holder   *)
(* the code reaches Strike after a second or a misnamed track only.        *)
LEMMA ConductInvStep ==
  ASSUME TypeInv, TokenInv, LockInv, RoomsInv, ConductInv, [Next]_vars
  PROVE  ConductInv'
<1>0. \A c \in Channel, i \in Nat : WriteLease(c, i) =>
        \E x \in Identity \ Issued :
           holder' = [holder EXCEPT ![c] = x] /\ Issued' = Issued \cup {x}
  BY WriteLeaseFresh DEF NewHolder, TypeInv, TypeOK, TokenInv
<1> USE DEF ConductInv, HolderNotStruckUnjustly, StrikesOf, IssuedInv,
      TokenInv, LeaseIsCurrent, RoomsInv, HandlerInv, LeaseOnOpenChannel,
      LockInv, Issued, TypeInv, TypeOK, LedgerType, MemoryType, RequestType,
      HandlerType, LiveKitType, TokenType, ProgramInv, ledger, memory, locks,
      requests, handlers, livekit, tokens
<1>1. CASE UNCHANGED vars
  BY <1>1 DEF vars
<1>2. ASSUME NEW c \in Channel, CreateChannel(c)
      PROVE  ConductInv'
  BY <1>2 DEF CreateChannel
<1>3. ASSUME NEW p \in Request, SubmitAny(p)
      PROVE  ConductInv'
  BY <1>3 DEF SubmitAny, Submit
<1>4. ASSUME NEW p \in Request, RefuseStalePassword(p)
      PROVE  ConductInv'
  BY <1>4 DEF RefuseStalePassword, Finish
<1>5. ASSUME NEW p \in Request, TakeRotationLock(p)
      PROVE  ConductInv'
  BY <1>5 DEF TakeRotationLock, AfterRotationLock, Authorized, Free, Goto
<1>6. ASSUME NEW p \in Request, ChannelGone(p)
      PROVE  ConductInv'
  BY <1>6 DEF ChannelGone, Finish
<1>7. ASSUME NEW p \in Request, TakeChannelLock(p)
      PROVE  ConductInv'
  BY <1>7 DEF TakeChannelLock, ChannelLockFree, RowOpen, Free, Goto
<1>8. ASSUME NEW p \in Request, CloseVacant(p)
      PROVE  ConductInv'
  BY <1>8 DEF CloseVacant, ChannelLockFree, CloseRow, DeleteLease, Finish
<1>9. ASSUME NEW p \in Request, EnsureRoomFails(p)
      PROVE  ConductInv'
  BY <1>9 DEF EnsureRoomFails, RoomEnsured, Finish
<1>10. ASSUME NEW p \in Request, Subscribe(p)
      PROVE  ConductInv'
  BY <1>10 DEF Subscribe, RoomEnsured, Finish
<1>11. ASSUME NEW p \in Request, PublishDirect(p)
      PROVE  ConductInv'
  <2>1. CASE Alive(chan[p])
    BY <1>11, <2>1 DEF PublishDirect, RoomEnsured, Finish
  <2>2. CASE ~Alive(chan[p])
    <3>1. chan[p] \in Channel /\ epoch[chan[p]] \in Nat /\ WriteLease(chan[p], epoch[chan[p]])
      BY <1>11, <2>2 DEF PublishDirect
    <3>2. PICK x \in Identity \ Issued :
            /\ holder' = [holder EXCEPT ![chan[p]] = x]
            /\ Issued' = Issued \cup {x}
      BY <3>1, <1>0
    <3>3. UNCHANGED <<live, hooks, strikes, hpc, hev, offenders>>
      BY <1>11, <3>1 DEF PublishDirect, RoomEnsured, WriteLease
    <3> QED
      BY <3>1, <3>2, <3>3
  <2> QED
    BY <2>1, <2>2
<1>12. ASSUME NEW p \in Request, AskPresence(p)
      PROVE  ConductInv'
  BY <1>12 DEF AskPresence, RoomEnsured, Goto
<1>13. ASSUME NEW p \in Request, LookUp(p)
      PROVE  ConductInv'
  BY <1>13 DEF LookUp, Goto
<1>14. ASSUME NEW p \in Request, KeepHolder(p)
      PROVE  ConductInv'
  BY <1>14 DEF KeepHolder, Finish
<1>15. ASSUME NEW p \in Request, PublishAfterAbsent(p)
      PROVE  ConductInv'
  BY <1>15 DEF PublishAfterAbsent, WriteLease, NewIdentity, Finish
<1>16. ASSUME NEW p \in Request, TakeOverVacant(p)
      PROVE  ConductInv'
  BY <1>16 DEF TakeOverVacant, RoomEnsured, TakeOverRow, WriteLease,
        NewIdentity, Finish
<1>17. ASSUME NEW p \in Request, TakeOverHeld(p)
      PROVE  ConductInv'
  BY <1>17 DEF TakeOverHeld, RoomEnsured, Goto
<1>18. ASSUME NEW p \in Request, RemoveHolder(p)
      PROVE  ConductInv'
  BY <1>18 DEF RemoveHolder, RemoveParticipant, Disconnect, SessionsOf, Hooked,
        Goto
<1>19. ASSUME NEW p \in Request, RemoveHolderFails(p)
      PROVE  ConductInv'
  BY <1>19 DEF RemoveHolderFails, RemoveParticipantFails, RemoveParticipant,
        Disconnect, SessionsOf, Hooked, Finish
<1>20. ASSUME NEW p \in Request, CloseAfterRemove(p)
      PROVE  ConductInv'
  BY <1>20 DEF CloseAfterRemove, CloseRow, DeleteLease, Finish
<1>21. ASSUME NEW p \in Request, TakeOverAfterRemove(p)
      PROVE  ConductInv'
  BY <1>21 DEF TakeOverAfterRemove, TakeOverRow, WriteLease, NewIdentity,
        Finish
<1>22. ASSUME NEW p \in Request, RotateCreate(p)
      PROVE  ConductInv'
  BY <1>22 DEF RotateCreate, Goto
<1>23. ASSUME NEW p \in Request, RotateFails(p)
      PROVE  ConductInv'
  BY <1>23 DEF RotateFails, Finish
<1>24. ASSUME NEW p \in Request, RotateCommit(p)
      PROVE  ConductInv'
  BY <1>24 DEF RotateCommit, RoomsDeleted, Finish
<1>25. ASSUME NEW p \in Request, NEW g \in todo[p], RotateDelete(p, g)
      PROVE  ConductInv'
  BY <1>25 DEF RotateDelete, Disconnect, Hooked
<1>26. ASSUME NEW e \in hooks, SkipForeign(e)
      PROVE  ConductInv'
  BY <1>26 DEF SkipForeign, InScope, Commit
<1>27. ASSUME NEW e \in hooks, Admit(e)
      PROVE  ConductInv'
  <2>1. \A t \in live' : \E s \in live : t.who = s.who /\ t.tracks = s.tracks
    BY <1>27, HeardKeeps DEF Admit
  <2> QED
    BY <1>27, <2>1 DEF Admit, Commit
<1>28. ASSUME NEW e \in hooks, TrackUnpublished(e)
      PROVE  ConductInv'
  BY <1>28 DEF TrackUnpublished, Commit
<1>29. ASSUME NEW e \in hooks, ParticipantLeft(e)
      PROVE  ConductInv'
  BY <1>29 DEF ParticipantLeft, DeleteLease, Commit
<1>30. ASSUME NEW e \in hooks, NEW h \in Hook, Reject(h, e)
      PROVE  ConductInv'
  BY <1>30 DEF Reject, Suspend, Strike, HoldsLease
<1>31. ASSUME NEW e \in hooks, NEW h \in Hook, AskTracks(h, e)
      PROVE  ConductInv'
  BY <1>31 DEF AskTracks, Suspend, MayPublish
<1>32. ASSUME NEW e \in hooks, NEW h \in Hook, RejectTrack(h, e)
      PROVE  ConductInv'
  BY <1>32 DEF RejectTrack, Suspend, Strike, HoldsLease, MayPublish
<1>33. ASSUME NEW h \in Hook, SetOnAir(h)
      PROVE  ConductInv'
  BY <1>33 DEF SetOnAir, Commit, Resume
<1>34. ASSUME NEW h \in Hook, RejectSecondTrack(h)
      PROVE  ConductInv'
  BY <1>34 DEF RejectSecondTrack, Suspend, Strike, HoldsLease, SessionsOf
<1>35. ASSUME NEW h \in Hook, Eject(h)
      PROVE  ConductInv'
  BY <1>35 DEF Eject, Resume, SessionsOf, Hooked
<1>36. ASSUME NEW h \in Hook, EjectFails(h)
      PROVE  ConductInv'
  BY <1>36 DEF EjectFails, RemoveParticipantFails, RemoveParticipant,
        Disconnect, SessionsOf, Hooked, Resume
<1>37. ASSUME NEW x \in Issued, Join(x)
      PROVE  ConductInv'
  BY <1>37 DEF Join, SessionsOf, Hooked
<1>38. ASSUME NEW x \in Issued, ConnectionAborted(x)
      PROVE  ConductInv'
  BY <1>38 DEF ConnectionAborted
<1>39. ASSUME NEW s \in live, Leave(s)
      PROVE  ConductInv'
  BY <1>39 DEF Leave, Disconnect, Hooked
<1>40. ASSUME NEW s \in live, UnpublishTrack(s)
      PROVE  ConductInv'
  <2> DEFINE t == [s EXCEPT !.tracks = s.tracks - 1]
  <2>1. s \in Session
    BY DEF LiveKitType
  <2>2. t.who = s.who /\ t.tracks = s.tracks - 1
    BY <2>1 DEF Session
  <2>3. live' = (live \ {s}) \cup {t}
    BY <1>40 DEF UnpublishTrack
  <2>4. s.who \in Issued /\ s.tracks \in Nat
    BY <2>1 DEF RoomsInv, Session
  <2> HIDE DEF t
  <2>5. \A v \in live' : v.tracks > 1 => v.who \in offenders'
    BY <1>40, <2>2, <2>3, <2>4 DEF UnpublishTrack
  <2> QED
    BY <1>40, <2>4, <2>5 DEF UnpublishTrack, Hooked
<1>41. ASSUME NEW s \in live, NEW k \in {"published", "badName"}, PublishTrack(s, k)
      PROVE  ConductInv'
  <2> DEFINE t == [s EXCEPT !.tracks = s.tracks + 1]
  <2>1. s \in Session
    BY DEF LiveKitType
  <2>2. t.who = s.who /\ t.tracks = s.tracks + 1
    BY <2>1 DEF Session
  <2>3. live' = (live \ {s}) \cup {t}
    BY <1>41 DEF PublishTrack
  <2>4. s.who \in Issued /\ s.tracks \in Nat
    BY <2>1 DEF RoomsInv, Session
  <2> HIDE DEF t
  <2>5. \A v \in live' : v.tracks > 1 => v.who \in offenders'
    BY <1>41, <2>2, <2>3, <2>4 DEF PublishTrack
  <2> QED
    BY <1>41, <2>4, <2>5 DEF PublishTrack, Hooked
<1>42. ASSUME LiveKitRestart
      PROVE  ConductInv'
  BY <1>42 DEF LiveKitRestart
<1>43. ASSUME NEW e \in hooks, LoseHook(e)
      PROVE  ConductInv'
  <2>1. \A t \in live' : \E s \in live : t.who = s.who /\ t.tracks = s.tracks
    BY <1>43, HeardKeeps DEF LoseHook
  <2> QED
    BY <1>43, <2>1 DEF LoseHook
<1>44. ASSUME NEW c \in Channel, AgeLease(c)
      PROVE  ConductInv'
  BY <1>44 DEF AgeLease
<1> HIDE DEF ConductInv, HolderNotStruckUnjustly, StrikesOf, IssuedInv,
      TokenInv, LeaseIsCurrent, RoomsInv, HandlerInv, LeaseOnOpenChannel,
      LockInv, Issued, TypeInv, TypeOK, LedgerType, MemoryType, RequestType,
      HandlerType, LiveKitType, TokenType, ProgramInv, ledger, memory, locks,
      requests, handlers, livekit, tokens
<1>45. QED
  BY <1>1, <1>2, <1>3, <1>4, <1>5, <1>6, <1>7, <1>8, <1>9, <1>10, <1>11, <1>12,
        <1>13, <1>14, <1>15, <1>16, <1>17, <1>18, <1>19, <1>20, <1>21, <1>22,
        <1>23, <1>24, <1>25, <1>26, <1>27, <1>28, <1>29, <1>30, <1>31, <1>32,
        <1>33, <1>34, <1>35, <1>36, <1>37, <1>38, <1>39, <1>40, <1>41, <1>42,
        <1>43, <1>44
  DEF Next, RequestStep, HandleEvent, HookStep, Environment
-----------------------------------------------------------------------------
(* The program starts in the invariant: no channel, no request, the room   *)
(* of the first generation and nobody in it.                               *)
LEMMA InvInit ==
  ASSUME Init
  PROVE  Inv
<1>1. TypeInv
  <2>1. LedgerType /\ MemoryType /\ LockType
    BY DEF Init, LedgerType, MemoryType, LockType
  <2>2. RequestType /\ HandlerType
    BY DEF Init, RequestType, RequestPc, Operation, HandlerType, HookPc
  <2>3. LiveKitType /\ TokenType
    BY DEF Init, LiveKitType, TokenType, Issued
  <2>4. ProgramInv /\ HandlerInv
    BY DEF Init, ProgramInv, HandlerInv, Awaiting
  <2> QED
    BY <2>1, <2>2, <2>3, <2>4 DEF TypeInv, TypeOK
<1>2. LockInv
  <2>1. RotationLockInv /\ ChannelLockInv
    BY DEF Init, RotationLockInv, Critical, ChannelLockInv, OwnsChannel, Awaiting
  <2>2. PasswordStillValid /\ LeaseOnOpenChannel /\ LeaseHeldDuringAwait
    BY DEF Init, PasswordStillValid, LeaseOnOpenChannel, LeaseHeldDuringAwait
  <2> QED
    BY <2>1, <2>2 DEF LockInv
<1>3. TokenInv /\ RoomsInv
  BY DEF Init, TokenInv, LeaseIsCurrent, IssuedInv, Issued, RoomsInv
<1>4. AdmittedOrPending
  BY DEF Init, AdmittedOrPending
<1>5. ConductInv
  BY DEF Init, ConductInv, HolderNotStruckUnjustly
<1> QED
  BY <1>1, <1>2, <1>3, <1>4, <1>5 DEF Inv

(* The invariant holds in every behaviour of the field server. *)
THEOREM Invariance == Spec => []Inv
<1>1. Init => Inv
  BY InvInit
<1>2. Inv /\ [Next]_vars => Inv'
  <2> SUFFICES ASSUME Inv, [Next]_vars PROVE Inv'
    OBVIOUS
  <2>1. TypeInv' /\ LockInv' /\ TokenInv'
    BY TypeInvStep, LockInvStep, TokenInvStep DEF Inv
  <2>2. RoomsInv' /\ AdmittedOrPending' /\ ConductInv'
    BY RoomsInvStep, AdmissionStep, ConductInvStep DEF Inv, TokenInv
  <2> QED
    BY <2>1, <2>2 DEF Inv
<1> QED
  BY <1>1, <1>2, PTL DEF Spec

(* Every variable keeps its type. *)
THEOREM TypeCorrect == Spec => []TypeOK
<1>1. Inv => TypeOK
  BY DEF Inv, TypeInv
<1> QED
  BY Invariance, <1>1, PTL

(* No request leaves a lease on a closed channel, however long it waited   *)
(* for its locks.                                                          *)
THEOREM NoLeaseOnClosedChannel == Spec => []LeaseOnOpenChannel
<1>1. Inv => LeaseOnOpenChannel
  BY DEF Inv, LockInv
<1> QED
  BY Invariance, <1>1, PTL

(* The lease in force is the one of the present epoch and generation.      *)
THEOREM LeasesAreCurrent == Spec => []LeaseIsCurrent
<1>1. Inv => LeaseIsCurrent
  BY DEF Inv, TokenInv
<1> QED
  BY Invariance, <1>1, PTL

(* A request never works on under a password that has been rotated.        *)
THEOREM PasswordsStayValid == Spec => []PasswordStillValid
<1>1. Inv => PasswordStillValid
  BY DEF Inv, LockInv
<1> QED
  BY Invariance, <1>1, PTL

(* What a request read of the lease before it awaited LiveKit is still     *)
(* there, or released, when it goes on.                                    *)
THEOREM LeasesSurviveAwaits == Spec => []LeaseHeldDuringAwait
<1>1. Inv => LeaseHeldDuringAwait
  BY DEF Inv, LockInv
<1> QED
  BY Invariance, <1>1, PTL

(* After a rotation no room of an older generation exists, and nobody is   *)
(* connected with an older token.                                          *)
THEOREM OldRoomsStayGone == Spec => []NoOldGenerationRoom
<1>1. Inv => NoOldGenerationRoom
  <2> SUFFICES ASSUME Inv PROVE NoOldGenerationRoom
    OBVIOUS
  <2>1. generation \in Nat /\ \A g \in rooms : g >= generation
    BY DEF Inv, TypeInv, TypeOK, LedgerType, RoomsInv
  <2>2. ASSUME NEW s \in live PROVE s.who.gen = generation
    <3>1. s.who \in Issued /\ s.who.gen \in {generation, generation + 1}
      BY DEF Inv, RoomsInv
    <3>2. s.who.gen <= generation
      BY <3>1 DEF Inv, TokenInv, IssuedInv
    <3> QED
      BY <2>1, <3>1, <3>2
  <2> QED
    BY <2>1, <2>2 DEF NoOldGenerationRoom
<1> QED
  BY Invariance, <1>1, PTL

(* Whoever is in the room and has not been judged will be: the webhook is  *)
(* committed only after it was handled.                                    *)
THEOREM NobodyIsForgotten == Spec => []AdmittedOrPending
<1>1. Inv => AdmittedOrPending
  BY DEF Inv
<1> QED
  BY Invariance, <1>1, PTL

(* The holder of a channel has strikes only for tracks of its own.         *)
THEOREM HoldersKeepTheirGoodName == Spec => []HolderNotStruckUnjustly
<1>1. Inv => HolderNotStruckUnjustly
  BY DEF Inv, ConductInv
<1> QED
  BY Invariance, <1>1, PTL
-----------------------------------------------------------------------------

(* Every step of the requests, the webhook handlers and the environment is *)
(* a step of the abstract ledger or leaves it alone.                       *)
LEMMA LedgerStep ==
  ASSUME Inv, [Next]_vars
  PROVE  [Ledger!Next]_(Ledger!vars)
<1>0. /\ epoch \in [Channel -> Nat] /\ holder \in [Channel -> Identity \cup {None}]
      /\ hooks \subseteq Event
      /\ \A p \in Request :
           /\ pc[p] \in {"channel", "ensure", "absent", "removed"} => chan[p] \in Channel
           /\ pc[p] \in {"absent", "removed"} => chan[p] \in open
           /\ pc[p] = "ensure" /\ op[p] \in {"publish", "takeover"} => chan[p] \in open
  BY DEF Inv, TypeInv, TypeOK, LedgerType, LiveKitType, ProgramInv, Awaiting,
         LockInv, ChannelLockInv, OwnsChannel
<1>1. UNCHANGED <<open, epoch, generation, holder, sessions>>
        => UNCHANGED Ledger!vars
  BY DEF Ledger!vars, Issued
<1>2. \A c \in Channel, i \in Nat : WriteLease(c, i) =>
        \E x \in Identity \ Issued : NewHolder(x, c, i)
  BY WriteLeaseFresh DEF NewHolder, Inv, TypeInv, TypeOK, TokenInv
<1> USE DEF ledger, tokens
<1>3. CASE UNCHANGED vars
  BY <1>3, <1>1 DEF vars
<1>4. ASSUME NEW c \in Channel, CreateChannel(c)
      PROVE  [Ledger!Next]_(Ledger!vars)
  <2>1. Ledger!Open(c)
    BY <1>4 DEF CreateChannel, Ledger!Open, Issued
  <2> QED
    BY <2>1 DEF Ledger!Next
<1>5. ASSUME NEW p \in Request, SubmitAny(p)
      PROVE  [Ledger!Next]_(Ledger!vars)
  BY <1>5, <1>1 DEF SubmitAny, Submit
<1>6. ASSUME NEW p \in Request, RefuseStalePassword(p)
      PROVE  [Ledger!Next]_(Ledger!vars)
  BY <1>6, <1>1 DEF RefuseStalePassword
<1>7. ASSUME NEW p \in Request, TakeRotationLock(p)
      PROVE  [Ledger!Next]_(Ledger!vars)
  BY <1>7, <1>1 DEF TakeRotationLock
<1>8. ASSUME NEW p \in Request, ChannelGone(p)
      PROVE  [Ledger!Next]_(Ledger!vars)
  BY <1>8, <1>1 DEF ChannelGone
<1>9. ASSUME NEW p \in Request, TakeChannelLock(p)
      PROVE  [Ledger!Next]_(Ledger!vars)
  BY <1>9, <1>1 DEF TakeChannelLock
<1>10. ASSUME NEW p \in Request, CloseVacant(p)
      PROVE  [Ledger!Next]_(Ledger!vars)
  <2>1. chan[p] \in open /\ chan[p] \in Channel
    BY <1>10, <1>0 DEF CloseVacant, ChannelLockFree, RowOpen
  <2>2. Ledger!Close(chan[p])
    BY <1>10, <2>1 DEF CloseVacant, CloseRow, DeleteLease, Ledger!Close, Issued
  <2> QED
    BY <2>1, <2>2 DEF Ledger!Next
<1>11. ASSUME NEW p \in Request, EnsureRoomFails(p)
      PROVE  [Ledger!Next]_(Ledger!vars)
  BY <1>11, <1>1 DEF EnsureRoomFails
<1>12. ASSUME NEW p \in Request, Subscribe(p)
      PROVE  [Ledger!Next]_(Ledger!vars)
  BY <1>12, <1>1 DEF Subscribe
<1>13. ASSUME NEW p \in Request, PublishDirect(p)
      PROVE  [Ledger!Next]_(Ledger!vars)
  <2>1. CASE UNCHANGED <<holder, sessions>>
    BY <1>13, <2>1, <1>1 DEF PublishDirect
  <2>2. CASE WriteLease(chan[p], epoch[chan[p]])
    <3>1. chan[p] \in open /\ chan[p] \in Channel /\ epoch[chan[p]] \in Nat
      BY <1>13, <1>0 DEF PublishDirect
    <3>2. UNCHANGED <<open, epoch, generation>>
      BY <1>13 DEF PublishDirect
    <3>3. PICK x \in Identity \ Issued : NewHolder(x, chan[p], epoch[chan[p]])
      BY <2>2, <3>1, <1>2
    <3>4. Ledger!Grant(chan[p])
      BY <3>1, <3>2, <3>3, <1>0
      DEF NewHolder, Ledger!Grant, Ledger!GrantFresh, Ledger!Identity, Identity
    <3> QED
      BY <3>1, <3>4 DEF Ledger!Next
  <2> QED
    BY <1>13, <2>1, <2>2 DEF PublishDirect
<1>14. ASSUME NEW p \in Request, AskPresence(p)
      PROVE  [Ledger!Next]_(Ledger!vars)
  BY <1>14, <1>1 DEF AskPresence
<1>15. ASSUME NEW p \in Request, LookUp(p)
      PROVE  [Ledger!Next]_(Ledger!vars)
  BY <1>15, <1>1 DEF LookUp
<1>16. ASSUME NEW p \in Request, KeepHolder(p)
      PROVE  [Ledger!Next]_(Ledger!vars)
  BY <1>16, <1>1 DEF KeepHolder
<1>17. ASSUME NEW p \in Request, PublishAfterAbsent(p)
      PROVE  [Ledger!Next]_(Ledger!vars)
  <2>1. CASE UNCHANGED <<holder, sessions>>
    BY <1>17, <2>1, <1>1 DEF PublishAfterAbsent
  <2>2. CASE WriteLease(chan[p], epoch[chan[p]])
    <3>1. chan[p] \in open /\ chan[p] \in Channel /\ epoch[chan[p]] \in Nat
      BY <1>17, <1>0 DEF PublishAfterAbsent
    <3>2. UNCHANGED <<open, epoch, generation>>
      BY <1>17 DEF PublishAfterAbsent
    <3>3. PICK x \in Identity \ Issued : NewHolder(x, chan[p], epoch[chan[p]])
      BY <2>2, <3>1, <1>2
    <3>4. Ledger!Grant(chan[p])
      BY <3>1, <3>2, <3>3, <1>0
      DEF NewHolder, Ledger!Grant, Ledger!GrantFresh, Ledger!Identity, Identity
    <3> QED
      BY <3>1, <3>4 DEF Ledger!Next
  <2> QED
    BY <1>17, <2>1, <2>2 DEF PublishAfterAbsent
<1>18. ASSUME NEW p \in Request, TakeOverVacant(p)
      PROVE  [Ledger!Next]_(Ledger!vars)
  <2>1. chan[p] \in open /\ chan[p] \in Channel /\ epoch[chan[p]] + 1 \in Nat
    BY <1>18, <1>0 DEF TakeOverVacant
  <2>2. /\ epoch' = [epoch EXCEPT ![chan[p]] = epoch[chan[p]] + 1]
        /\ WriteLease(chan[p], epoch[chan[p]] + 1)
        /\ UNCHANGED <<open, generation>>
    BY <1>18 DEF TakeOverVacant, TakeOverRow
  <2>3. PICK x \in Identity \ Issued : NewHolder(x, chan[p], epoch[chan[p]] + 1)
    BY <2>1, <2>2, <1>2
  <2>4. Ledger!TakeOver(chan[p])
    BY <2>1, <2>2, <2>3, <1>0
    DEF NewHolder, Ledger!TakeOver, Ledger!GrantFresh, Ledger!Identity, Identity
  <2> QED
    BY <2>1, <2>4 DEF Ledger!Next
<1>19. ASSUME NEW p \in Request, TakeOverHeld(p)
      PROVE  [Ledger!Next]_(Ledger!vars)
  BY <1>19, <1>1 DEF TakeOverHeld
<1>20. ASSUME NEW p \in Request, RemoveHolder(p)
      PROVE  [Ledger!Next]_(Ledger!vars)
  BY <1>20, <1>1 DEF RemoveHolder
<1>21. ASSUME NEW p \in Request, RemoveHolderFails(p)
      PROVE  [Ledger!Next]_(Ledger!vars)
  BY <1>21, <1>1 DEF RemoveHolderFails
<1>22. ASSUME NEW p \in Request, CloseAfterRemove(p)
      PROVE  [Ledger!Next]_(Ledger!vars)
  <2>1. chan[p] \in open /\ chan[p] \in Channel
    BY <1>22, <1>0 DEF CloseAfterRemove, ChannelLockFree, RowOpen
  <2>2. Ledger!Close(chan[p])
    BY <1>22, <2>1 DEF CloseAfterRemove, CloseRow, DeleteLease, Ledger!Close, Issued
  <2> QED
    BY <2>1, <2>2 DEF Ledger!Next
<1>23. ASSUME NEW p \in Request, TakeOverAfterRemove(p)
      PROVE  [Ledger!Next]_(Ledger!vars)
  <2>1. chan[p] \in open /\ chan[p] \in Channel /\ epoch[chan[p]] + 1 \in Nat
    BY <1>23, <1>0 DEF TakeOverAfterRemove
  <2>2. /\ epoch' = [epoch EXCEPT ![chan[p]] = epoch[chan[p]] + 1]
        /\ WriteLease(chan[p], epoch[chan[p]] + 1)
        /\ UNCHANGED <<open, generation>>
    BY <1>23 DEF TakeOverAfterRemove, TakeOverRow
  <2>3. PICK x \in Identity \ Issued : NewHolder(x, chan[p], epoch[chan[p]] + 1)
    BY <2>1, <2>2, <1>2
  <2>4. Ledger!TakeOver(chan[p])
    BY <2>1, <2>2, <2>3, <1>0
    DEF NewHolder, Ledger!TakeOver, Ledger!GrantFresh, Ledger!Identity, Identity
  <2> QED
    BY <2>1, <2>4 DEF Ledger!Next
<1>24. ASSUME NEW p \in Request, RotateCreate(p)
      PROVE  [Ledger!Next]_(Ledger!vars)
  BY <1>24, <1>1 DEF RotateCreate
<1>25. ASSUME NEW p \in Request, RotateFails(p)
      PROVE  [Ledger!Next]_(Ledger!vars)
  BY <1>25, <1>1 DEF RotateFails
<1>26. ASSUME NEW p \in Request, RotateCommit(p)
      PROVE  [Ledger!Next]_(Ledger!vars)
  <2>1. Ledger!Rotate
    BY <1>26 DEF RotateCommit, Ledger!Rotate, Issued
  <2> QED
    BY <2>1 DEF Ledger!Next
<1>27. ASSUME NEW p \in Request, NEW g \in todo[p], RotateDelete(p, g)
      PROVE  [Ledger!Next]_(Ledger!vars)
  BY <1>27, <1>1 DEF RotateDelete
<1>28. ASSUME NEW e \in hooks, SkipForeign(e)
      PROVE  [Ledger!Next]_(Ledger!vars)
  BY <1>28, <1>1 DEF SkipForeign
<1>29. ASSUME NEW e \in hooks, Admit(e)
      PROVE  [Ledger!Next]_(Ledger!vars)
  BY <1>29, <1>1 DEF Admit
<1>30. ASSUME NEW e \in hooks, TrackUnpublished(e)
      PROVE  [Ledger!Next]_(Ledger!vars)
  BY <1>30, <1>1 DEF TrackUnpublished
<1>31. ASSUME NEW e \in hooks, ParticipantLeft(e)
      PROVE  [Ledger!Next]_(Ledger!vars)
  <2>1. CASE holder[e.who.ch] = e.who
    <3>1. e.who.ch \in Channel
      BY <1>0 DEF Event, Identity
    <3>2. Ledger!Release(e.who.ch)
      BY <1>31, <2>1 DEF ParticipantLeft, DeleteLease, Ledger!Release, Issued
    <3> QED
      BY <3>1, <3>2 DEF Ledger!Next
  <2>2. CASE holder[e.who.ch] # e.who
    BY <1>31, <2>2, <1>1 DEF ParticipantLeft
  <2> QED
    BY <2>1, <2>2
<1>32. ASSUME NEW e \in hooks, NEW h \in Hook, Reject(h, e)
      PROVE  [Ledger!Next]_(Ledger!vars)
  BY <1>32, <1>1 DEF Reject
<1>33. ASSUME NEW e \in hooks, NEW h \in Hook, AskTracks(h, e)
      PROVE  [Ledger!Next]_(Ledger!vars)
  BY <1>33, <1>1 DEF AskTracks
<1>34. ASSUME NEW e \in hooks, NEW h \in Hook, RejectTrack(h, e)
      PROVE  [Ledger!Next]_(Ledger!vars)
  BY <1>34, <1>1 DEF RejectTrack
<1>35. ASSUME NEW h \in Hook, SetOnAir(h)
      PROVE  [Ledger!Next]_(Ledger!vars)
  BY <1>35, <1>1 DEF SetOnAir
<1>36. ASSUME NEW h \in Hook, RejectSecondTrack(h)
      PROVE  [Ledger!Next]_(Ledger!vars)
  BY <1>36, <1>1 DEF RejectSecondTrack
<1>37. ASSUME NEW h \in Hook, Eject(h)
      PROVE  [Ledger!Next]_(Ledger!vars)
  BY <1>37, <1>1 DEF Eject
<1>38. ASSUME NEW h \in Hook, EjectFails(h)
      PROVE  [Ledger!Next]_(Ledger!vars)
  BY <1>38, <1>1 DEF EjectFails
<1>39. ASSUME NEW x \in Issued, Join(x)
      PROVE  [Ledger!Next]_(Ledger!vars)
  <2>1. Issued' = Issued
    BY <1>39 DEF Join, Issued
  <2> QED
    BY <1>39, <2>1 DEF Join, Ledger!vars
<1>40. ASSUME NEW x \in Issued, ConnectionAborted(x)
      PROVE  [Ledger!Next]_(Ledger!vars)
  <2>1. Issued' = Issued
    BY <1>40 DEF ConnectionAborted, Issued
  <2> QED
    BY <1>40, <2>1 DEF ConnectionAborted, Ledger!vars
<1>41. ASSUME NEW s \in live, Leave(s)
      PROVE  [Ledger!Next]_(Ledger!vars)
  BY <1>41, <1>1 DEF Leave
<1>42. ASSUME NEW s \in live, UnpublishTrack(s)
      PROVE  [Ledger!Next]_(Ledger!vars)
  BY <1>42, <1>1 DEF UnpublishTrack
<1>43. ASSUME NEW s \in live, NEW k \in {"published", "badName"}, PublishTrack(s, k)
      PROVE  [Ledger!Next]_(Ledger!vars)
  BY <1>43, <1>1 DEF PublishTrack
<1>44. ASSUME LiveKitRestart
      PROVE  [Ledger!Next]_(Ledger!vars)
  BY <1>44, <1>1 DEF LiveKitRestart
<1>45. ASSUME NEW e \in hooks, LoseHook(e)
      PROVE  [Ledger!Next]_(Ledger!vars)
  BY <1>45, <1>1 DEF LoseHook
<1>46. ASSUME NEW c \in Channel, AgeLease(c)
      PROVE  [Ledger!Next]_(Ledger!vars)
  BY <1>46, <1>1 DEF AgeLease
<1>47. QED
  BY <1>3, <1>4, <1>5, <1>6, <1>7, <1>8, <1>9, <1>10, <1>11, <1>12, <1>13,
        <1>14, <1>15, <1>16, <1>17, <1>18, <1>19, <1>20, <1>21, <1>22, <1>23,
        <1>24, <1>25, <1>26, <1>27, <1>28, <1>29, <1>30, <1>31, <1>32, <1>33,
        <1>34, <1>35, <1>36, <1>37, <1>38, <1>39, <1>40, <1>41, <1>42, <1>43,
        <1>44, <1>45, <1>46
  DEF Next, RequestStep, HandleEvent, HookStep, Environment

(* The field server implements the abstract ledger of LeaseLedger.         *)
THEOREM Refinement == Spec => ImplementsLedger
<1>1. Init => Ledger!Init
  BY DEF Init, Ledger!Init, Issued
<1>2. Inv /\ [Next]_vars => [Ledger!Next]_(Ledger!vars)
  BY LedgerStep
<1> QED
  BY <1>1, <1>2, Invariance, PTL DEF Spec, ImplementsLedger, Ledger!Spec

(* Nobody who lost a channel holds it again with the same token: a step of *)
(* the ledger gives a channel to identities never issued only.             *)
THEOREM LostIsLost == Spec => NoReturn
<1> DEFINE Never == \A x \in Issued : holder[x.ch] # x => holder'[x.ch] # x
<1>1. Inv /\ [Next]_vars => [Never]_vars
  <2> SUFFICES ASSUME Inv, [Next]_vars PROVE Never
    OBVIOUS
  <2> SUFFICES ASSUME NEW x \in Issued, holder[x.ch] # x
               PROVE  holder'[x.ch] # x
    OBVIOUS
  <2>0. x \in Identity /\ holder \in [Channel -> Identity \cup {None}]
    BY DEF Inv, TypeInv, TypeOK, TokenType, LedgerType
  <2>1. x.ch \in Channel /\ x # None /\ holder \in [Channel -> Identity \cup {None}]
    BY <2>0, ConstantsAssumption DEF Identity
  <2>2. [Ledger!Next]_(Ledger!vars)
    BY LedgerStep
  <2>3. CASE UNCHANGED Ledger!vars
    BY <2>3 DEF Ledger!vars
  <2>4. CASE Ledger!Rotate
    BY <2>1, <2>4 DEF Ledger!Rotate
  <2>5. ASSUME NEW c \in Channel,
               Ledger!Open(c) \/ Ledger!Release(c) \/ Ledger!Close(c)
        PROVE  holder'[x.ch] # x
    BY <2>1, <2>5 DEF Ledger!Open, Ledger!Release, Ledger!Close
  <2>6. ASSUME NEW c \in Channel, NEW i, Ledger!GrantFresh(c, i)
        PROVE  holder'[x.ch] # x
    <3>1. holder'[c] \notin Issued /\ holder' = [holder EXCEPT ![c] = holder'[c]]
      BY <2>6 DEF Ledger!GrantFresh
    <3> QED
      BY <2>1, <3>1
  <2> QED
    BY <2>2, <2>3, <2>4, <2>5, <2>6 DEF Ledger!Next, Ledger!Grant, Ledger!TakeOver
<1> QED
  BY <1>1, Invariance, PTL DEF Spec, NoReturn
-----------------------------------------------------------------------------
(* What a publish request may do to a lease. *)

(* The steps that write the ledger's rows; all others leave them alone.    *)
LEMMA LedgerWriters ==
  ASSUME [Next]_vars
  PROVE  \/ UNCHANGED <<epoch, holder, joined, generation>>
         \/ \E p \in Request :
              \/ CloseVacant(p) \/ CloseAfterRemove(p)
              \/ PublishDirect(p) \/ PublishAfterAbsent(p)
              \/ TakeOverVacant(p) \/ TakeOverAfterRemove(p) \/ RotateCommit(p)
         \/ \E e \in hooks : Admit(e) \/ ParticipantLeft(e)
<1> USE DEF ledger
<1>1. CASE UNCHANGED vars
  BY <1>1 DEF vars
<1>2. ASSUME NEW c \in Channel, CreateChannel(c)
      PROVE  UNCHANGED <<epoch, holder, joined, generation>>
  BY <1>2 DEF CreateChannel
<1>3. ASSUME NEW p \in Request, SubmitAny(p)
      PROVE  UNCHANGED <<epoch, holder, joined, generation>>
  BY <1>3 DEF SubmitAny, Submit
<1>4. ASSUME NEW p \in Request,
             \/ RefuseStalePassword(p) \/ TakeRotationLock(p) \/ ChannelGone(p)
             \/ TakeChannelLock(p) \/ EnsureRoomFails(p) \/ Subscribe(p)
             \/ AskPresence(p) \/ LookUp(p) \/ KeepHolder(p) \/ TakeOverHeld(p)
      PROVE  UNCHANGED <<epoch, holder, joined, generation>>
  BY <1>4 DEF RefuseStalePassword, TakeRotationLock, ChannelGone, TakeChannelLock,
        EnsureRoomFails, Subscribe, AskPresence, LookUp, KeepHolder, TakeOverHeld
<1>5. ASSUME NEW p \in Request,
             \/ RemoveHolder(p) \/ RemoveHolderFails(p)
             \/ RotateCreate(p) \/ RotateFails(p) \/ \E g \in todo[p] : RotateDelete(p, g)
      PROVE  UNCHANGED <<epoch, holder, joined, generation>>
  BY <1>5 DEF RemoveHolder, RemoveHolderFails, RotateCreate, RotateFails, RotateDelete
<1>6. ASSUME NEW e \in hooks,
             \/ SkipForeign(e) \/ TrackUnpublished(e)
             \/ \E h \in Hook : Reject(h, e) \/ AskTracks(h, e) \/ RejectTrack(h, e)
      PROVE  UNCHANGED <<epoch, holder, joined, generation>>
  BY <1>6 DEF SkipForeign, TrackUnpublished, Reject, AskTracks, RejectTrack
<1>7. ASSUME NEW h \in Hook, HookStep(h)
      PROVE  UNCHANGED <<epoch, holder, joined, generation>>
  BY <1>7 DEF HookStep, SetOnAir, RejectSecondTrack, Eject, EjectFails
<1>8. ASSUME Environment
      PROVE  UNCHANGED <<epoch, holder, joined, generation>>
  BY <1>8 DEF Environment, Join, ConnectionAborted, Leave, UnpublishTrack,
        PublishTrack, LiveKitRestart, LoseHook, AgeLease
<1> HIDE DEF ledger
<1> QED
  BY <1>1, <1>2, <1>3, <1>4, <1>5, <1>6, <1>7, <1>8 DEF Next, RequestStep, HandleEvent

(* Whoever has joined, or was read to have, has opened a session; whoever  *)
(* is admitted and holds the channel has joined; and who was found absent  *)
(* with a token used once is absent still.                                 *)
PresenceInv ==
  /\ \A c \in joined : holder[c] # None /\ sessions[holder[c]] >= 1
  /\ \A e \in hooks : e.kind = "joined" => sessions[e.who] >= 1
  /\ \A s \in live : s.heard = "admitted" /\ holder[s.who.ch] = s.who => s.who.ch \in joined
  /\ \A p \in Request : pc[p] \in {"lookup", "present", "absent"} =>
       /\ held[p] \in Issued /\ sessions[held[p]] >= 1
       /\ holder[chan[p]] = held[p] => chan[p] \in joined
       /\ pc[p] = "absent" /\ MaxJoins = 1 => \A s \in live : s.who # held[p]

(* Deleting leases with their joined_at keeps it.                          *)
LEMMA PresenceAfterDelete ==
  ASSUME Inv, PresenceInv,
         \A c \in Channel : holder'[c] \in {holder[c], None},
         \A c \in joined' : c \in joined /\ holder'[c] = holder[c],
         \A c \in joined : c \in joined' \/ holder'[c] = None,
         \A p \in Request : pc'[p] = "idle"
             \/ (pc'[p] = pc[p] /\ held'[p] = held[p] /\ chan'[p] = chan[p]),
         UNCHANGED <<live, sessions>>, hooks' \subseteq hooks
  PROVE  PresenceInv'
<1>1. \A c \in joined' : holder'[c] # None /\ sessions'[holder'[c]] >= 1
  BY DEF PresenceInv
<1>2. \A e \in hooks' : e.kind = "joined" => sessions'[e.who] >= 1
  BY DEF PresenceInv
<1>3. \A x \in Identity : holder'[x.ch] = x =>
        holder[x.ch] = x /\ (x.ch \in joined => x.ch \in joined')
  <2>1. \A x \in Identity : x # None
    OBVIOUS
  <2>2. \A x \in Identity : x.ch \in Channel
    BY DEF Identity
  <2> QED
    BY <2>1, <2>2
<1>4. \A s \in live : s.who \in Identity
  BY DEF Inv, TypeInv, TypeOK, LiveKitType, Session
<1>5. ASSUME NEW p \in Request, pc'[p] \in {"lookup", "present", "absent"}
      PROVE  /\ held'[p] \in Issued' /\ sessions'[held'[p]] >= 1
             /\ holder'[chan'[p]] = held'[p] => chan'[p] \in joined'
             /\ pc'[p] = "absent" /\ MaxJoins = 1 => \A s \in live' : s.who # held'[p]
  <2>1. pc'[p] = pc[p] /\ held'[p] = held[p] /\ chan'[p] = chan[p]
    BY <1>5
  <2>2. chan[p] \in Channel
    BY <1>5, <2>1 DEF Inv, TypeInv, ProgramInv, Awaiting
  <2>3. held[p] \in Issued /\ held[p] # None
    <3>1. held[p] \in Issued
      BY <1>5, <2>1 DEF PresenceInv
    <3>2. Issued \subseteq Identity
      BY DEF Inv, TypeInv, TypeOK, TokenType
    <3> QED
      BY <3>1, <3>2
  <2> QED
    BY <1>5, <2>1, <2>2, <2>3 DEF PresenceInv, Issued
<1> QED
  BY <1>1, <1>2, <1>3, <1>4, <1>5 DEF PresenceInv

(* Every step keeps it: a lease is marked joined by a participant_joined   *)
(* only, and written anew for a token nobody has joined with.              *)
LEMMA PresenceStep ==
  ASSUME Inv, PresenceInv, [Next]_vars
  PROVE  PresenceInv'
<1> USE DEF PresenceInv, SessionsOf, Inv, IssuedInv, TokenInv, LeaseIsCurrent, RoomsInv,
      ConductInv, Issued, TypeInv, TypeOK, LedgerType, RequestType, LiveKitType,
      TokenType, ProgramInv, ledger, memory, locks, requests, handlers, livekit,
      tokens
<1>1. CASE UNCHANGED vars
  BY <1>1 DEF vars
<1>2. ASSUME NEW c \in Channel, CreateChannel(c)
      PROVE  PresenceInv'
  BY <1>2 DEF CreateChannel
<1>3. ASSUME NEW p \in Request, SubmitAny(p)
      PROVE  PresenceInv'
  BY <1>3 DEF SubmitAny, Submit
<1>4. ASSUME NEW p \in Request, RefuseStalePassword(p)
      PROVE  PresenceInv'
  BY <1>4 DEF RefuseStalePassword, Finish
<1>5. ASSUME NEW p \in Request, TakeRotationLock(p)
      PROVE  PresenceInv'
  BY <1>5 DEF TakeRotationLock, AfterRotationLock, Authorized, Free, Goto
<1>6. ASSUME NEW p \in Request, ChannelGone(p)
      PROVE  PresenceInv'
  BY <1>6 DEF ChannelGone, Finish
<1>7. ASSUME NEW p \in Request, TakeChannelLock(p)
      PROVE  PresenceInv'
  BY <1>7 DEF TakeChannelLock, ChannelLockFree, RowOpen, Free, Goto
<1>8. ASSUME NEW p \in Request, CloseVacant(p)
      PROVE  PresenceInv'
  BY <1>8 DEF CloseVacant, ChannelLockFree, CloseRow, DeleteLease, Finish
<1>9. ASSUME NEW p \in Request, EnsureRoomFails(p)
      PROVE  PresenceInv'
  BY <1>9 DEF EnsureRoomFails, RoomEnsured, Finish
<1>10. ASSUME NEW p \in Request, Subscribe(p)
      PROVE  PresenceInv'
  BY <1>10 DEF Subscribe, RoomEnsured, Finish
<1>11. ASSUME NEW p \in Request, PublishDirect(p)
      PROVE  PresenceInv'
  <2>1. chan[p] \in Channel /\ epoch[chan[p]] \in Nat
    BY <1>11 DEF PublishDirect, Awaiting
  <2>2. CASE WriteLease(chan[p], epoch[chan[p]])
    <3>1. PICK x \in Identity \ Issued : NewHolder(x, chan[p], epoch[chan[p]])
      BY <2>1, <2>2, WriteLeaseFresh
    <3>2. /\ joined' = joined \ {chan[p]}
          /\ \A y \in Issued : y \in Issued' /\ sessions'[y] = sessions[y]
      BY <3>1, <2>2 DEF NewHolder, WriteLease
    <3>3. /\ UNCHANGED <<live, hooks>> /\ Finish(p)
      BY <1>11 DEF PublishDirect, RoomEnsured
    <3> QED
      BY <2>1, <3>1, <3>2, <3>3 DEF NewHolder, Finish
  <2>3. CASE UNCHANGED <<holder, joined, age, tokens>>
    BY <1>11, <2>3 DEF PublishDirect, RoomEnsured, Finish
  <2> QED
    BY <1>11, <2>2, <2>3 DEF PublishDirect
<1>12. ASSUME NEW p \in Request, AskPresence(p)
      PROVE  PresenceInv'
  BY <1>12 DEF AskPresence, RoomEnsured, Goto
<1>13. ASSUME NEW p \in Request, LookUp(p)
      PROVE  PresenceInv'
  BY <1>13 DEF LookUp, MayBeAbsent, Goto
<1>14. ASSUME NEW p \in Request, KeepHolder(p)
      PROVE  PresenceInv'
  BY <1>14 DEF KeepHolder, Finish
<1>15. ASSUME NEW p \in Request, PublishAfterAbsent(p)
      PROVE  PresenceInv'
  <2>1. chan[p] \in Channel /\ epoch[chan[p]] \in Nat
    BY <1>15 DEF PublishAfterAbsent, Awaiting
  <2>2. CASE WriteLease(chan[p], epoch[chan[p]])
    <3>1. PICK x \in Identity \ Issued : NewHolder(x, chan[p], epoch[chan[p]])
      BY <2>1, <2>2, WriteLeaseFresh
    <3>2. /\ joined' = joined \ {chan[p]}
          /\ \A y \in Issued : y \in Issued' /\ sessions'[y] = sessions[y]
      BY <3>1, <2>2 DEF NewHolder, WriteLease
    <3>3. /\ UNCHANGED <<live, hooks>> /\ Finish(p)
      BY <1>15 DEF PublishAfterAbsent, RoomEnsured
    <3> QED
      BY <2>1, <3>1, <3>2, <3>3 DEF NewHolder, Finish
  <2>3. CASE UNCHANGED <<holder, joined, age, tokens>>
    BY <1>15, <2>3 DEF PublishAfterAbsent, RoomEnsured, Finish
  <2> QED
    BY <1>15, <2>2, <2>3 DEF PublishAfterAbsent
<1>16. ASSUME NEW p \in Request, TakeOverVacant(p)
      PROVE  PresenceInv'
  BY <1>16 DEF TakeOverVacant, RoomEnsured, TakeOverRow, WriteLease,
        NewIdentity, Finish
<1>17. ASSUME NEW p \in Request, TakeOverHeld(p)
      PROVE  PresenceInv'
  BY <1>17 DEF TakeOverHeld, RoomEnsured, Goto
<1>18. ASSUME NEW p \in Request, RemoveHolder(p)
      PROVE  PresenceInv'
  BY <1>18 DEF RemoveHolder, RemoveParticipant, Disconnect, SessionsOf, Hooked,
        Goto
<1>19. ASSUME NEW p \in Request, RemoveHolderFails(p)
      PROVE  PresenceInv'
  BY <1>19 DEF RemoveHolderFails, RemoveParticipantFails, RemoveParticipant,
        Disconnect, SessionsOf, Hooked, Finish
<1>20. ASSUME NEW p \in Request, CloseAfterRemove(p)
      PROVE  PresenceInv'
  BY <1>20, PresenceAfterDelete DEF CloseAfterRemove, CloseRow, DeleteLease, Finish,
        Awaiting
<1>21. ASSUME NEW p \in Request, TakeOverAfterRemove(p)
      PROVE  PresenceInv'
  BY <1>21 DEF TakeOverAfterRemove, TakeOverRow, WriteLease, NewIdentity,
        Finish
<1>22. ASSUME NEW p \in Request, RotateCreate(p)
      PROVE  PresenceInv'
  BY <1>22 DEF RotateCreate, Goto
<1>23. ASSUME NEW p \in Request, RotateFails(p)
      PROVE  PresenceInv'
  BY <1>23 DEF RotateFails, Finish
<1>24. ASSUME NEW p \in Request, RotateCommit(p)
      PROVE  PresenceInv'
  <2>1. /\ holder' = [c \in Channel |-> None] /\ joined' = {}
        /\ UNCHANGED <<live, sessions, hooks>> /\ Finish(p)
    BY <1>24 DEF RotateCommit
  <2>2. \A c \in joined : c \in Channel
    OBVIOUS
  <2>3. \A q \in Request : pc'[q] = "idle"
          \/ (pc'[q] = pc[q] /\ held'[q] = held[q] /\ chan'[q] = chan[q])
    BY <2>1 DEF Finish
  <2> HIDE DEF PresenceInv, Inv
  <2> QED
    BY <2>1, <2>2, <2>3, PresenceAfterDelete
<1>25. ASSUME NEW p \in Request, NEW g \in todo[p], RotateDelete(p, g)
      PROVE  PresenceInv'
  BY <1>25 DEF RotateDelete, Disconnect, Hooked
<1>26. ASSUME NEW e \in hooks, SkipForeign(e)
      PROVE  PresenceInv'
  BY <1>26 DEF SkipForeign, InScope, Commit
<1>27. ASSUME NEW e \in hooks, Admit(e)
      PROVE  PresenceInv'
  <2>1. /\ e.kind = "joined" /\ HoldsLease(e.who)
        /\ joined' = joined \cup {e.who.ch} /\ live' = Heard(e, "admitted")
        /\ hooks' \subseteq hooks /\ UNCHANGED <<holder, sessions, requests>>
    BY <1>27 DEF Admit, Commit
  <2>2. \A t \in live' : \E s \in live :
          t.who = s.who /\ (t = s \/ t.who = e.who)
    BY <2>1, HeardKeeps DEF Hooked
  <2>3. holder[e.who.ch] = e.who /\ e.who # None /\ sessions[e.who] >= 1
    BY <2>1 DEF HoldsLease, Event
  <2> QED
    BY <2>1, <2>2, <2>3
<1>28. ASSUME NEW e \in hooks, TrackUnpublished(e)
      PROVE  PresenceInv'
  BY <1>28 DEF TrackUnpublished, Commit
<1>29. ASSUME NEW e \in hooks, ParticipantLeft(e)
      PROVE  PresenceInv'
  <2>1. hooks' \subseteq hooks /\ UNCHANGED <<live, sessions, requests>>
    BY <1>29 DEF ParticipantLeft, Commit
  <2>2. CASE DeleteLease(e.who.ch)
    BY <2>1, <2>2, PresenceAfterDelete DEF DeleteLease
  <2>3. CASE UNCHANGED <<holder, joined>>
    BY <2>1, <2>3
  <2> QED
    BY <1>29, <2>2, <2>3 DEF ParticipantLeft
<1>30. ASSUME NEW e \in hooks, NEW h \in Hook, Reject(h, e)
      PROVE  PresenceInv'
  BY <1>30 DEF Reject, Suspend
<1>31. ASSUME NEW e \in hooks, NEW h \in Hook, AskTracks(h, e)
      PROVE  PresenceInv'
  BY <1>31 DEF AskTracks, Suspend, MayPublish
<1>32. ASSUME NEW e \in hooks, NEW h \in Hook, RejectTrack(h, e)
      PROVE  PresenceInv'
  BY <1>32 DEF RejectTrack, Suspend
<1>33. ASSUME NEW h \in Hook, SetOnAir(h)
      PROVE  PresenceInv'
  BY <1>33 DEF SetOnAir, Commit, Resume
<1>34. ASSUME NEW h \in Hook, RejectSecondTrack(h)
      PROVE  PresenceInv'
  BY <1>34 DEF RejectSecondTrack, Suspend
<1>35. ASSUME NEW h \in Hook, Eject(h)
      PROVE  PresenceInv'
  BY <1>35 DEF Eject, Resume, SessionsOf, Hooked
<1>36. ASSUME NEW h \in Hook, EjectFails(h)
      PROVE  PresenceInv'
  BY <1>36 DEF EjectFails, RemoveParticipantFails, RemoveParticipant,
        Disconnect, SessionsOf, Hooked, Resume
<1>37. ASSUME NEW x \in Issued, Join(x)
      PROVE  PresenceInv'
  BY <1>37 DEF Join, SessionsOf, Hooked
<1>38. ASSUME NEW x \in Issued, ConnectionAborted(x)
      PROVE  PresenceInv'
  BY <1>38 DEF ConnectionAborted
<1>39. ASSUME NEW s \in live, Leave(s)
      PROVE  PresenceInv'
  BY <1>39 DEF Leave, Disconnect, Hooked
<1>40. ASSUME NEW s \in live, UnpublishTrack(s)
      PROVE  PresenceInv'
  <2> DEFINE t == [s EXCEPT !.tracks = s.tracks - 1]
  <2>1. s \in Session
    BY DEF LiveKitType
  <2>2. t.who = s.who /\ t.sid = s.sid /\ t.heard = s.heard
    BY <2>1 DEF Session
  <2>3. live' = (live \ {s}) \cup {t}
    BY <1>40 DEF UnpublishTrack
  <2>4. \A v \in live' : \E u \in live :
          v.who = u.who /\ v.sid = u.sid /\ v.heard = u.heard
    BY <2>2, <2>3
  <2>5. /\ UNCHANGED <<holder, joined, sessions, requests>>
        /\ \A e \in hooks' : e \in hooks \/ e.kind # "joined"
    BY <1>40 DEF UnpublishTrack, Hooked
  <2> QED
    BY <2>4, <2>5
<1>41. ASSUME NEW s \in live, NEW k \in {"published", "badName"}, PublishTrack(s, k)
      PROVE  PresenceInv'
  <2> DEFINE t == [s EXCEPT !.tracks = s.tracks + 1]
  <2>1. s \in Session
    BY DEF LiveKitType
  <2>2. t.who = s.who /\ t.sid = s.sid /\ t.heard = s.heard
    BY <2>1 DEF Session
  <2>3. live' = (live \ {s}) \cup {t}
    BY <1>41 DEF PublishTrack
  <2>4. \A v \in live' : \E u \in live :
          v.who = u.who /\ v.sid = u.sid /\ v.heard = u.heard
    BY <2>2, <2>3
  <2>5. /\ UNCHANGED <<holder, joined, sessions, requests>>
        /\ \A e \in hooks' : e \in hooks \/ e.kind # "joined"
    BY <1>41 DEF PublishTrack, Hooked
  <2> QED
    BY <2>4, <2>5
<1>42. ASSUME LiveKitRestart
      PROVE  PresenceInv'
  BY <1>42 DEF LiveKitRestart
<1>43. ASSUME NEW e \in hooks, LoseHook(e)
      PROVE  PresenceInv'
  <2>1. /\ hooks' \subseteq hooks /\ live' = Heard(e, "lost")
        /\ UNCHANGED <<holder, joined, sessions, requests>>
    BY <1>43 DEF LoseHook
  <2>2. \A t \in live' : \E s \in live : t.who = s.who /\ (t = s \/ t.heard = "lost")
    BY <2>1, HeardKeeps
  <2> QED
    BY <2>1, <2>2
<1>44. ASSUME NEW c \in Channel, AgeLease(c)
      PROVE  PresenceInv'
  BY <1>44 DEF AgeLease
<1> HIDE DEF PresenceInv, SessionsOf, Inv, IssuedInv, TokenInv, LeaseIsCurrent, RoomsInv,
      ConductInv, Issued, TypeInv, TypeOK, LedgerType, RequestType, LiveKitType,
      TokenType, ProgramInv, ledger, memory, locks, requests, handlers, livekit,
      tokens
<1>45. QED
  BY <1>1, <1>2, <1>3, <1>4, <1>5, <1>6, <1>7, <1>8, <1>9, <1>10, <1>11, <1>12,
        <1>13, <1>14, <1>15, <1>16, <1>17, <1>18, <1>19, <1>20, <1>21, <1>22,
        <1>23, <1>24, <1>25, <1>26, <1>27, <1>28, <1>29, <1>30, <1>31, <1>32,
        <1>33, <1>34, <1>35, <1>36, <1>37, <1>38, <1>39, <1>40, <1>41, <1>42,
        <1>43, <1>44
  DEF Next, RequestStep, HandleEvent, HookStep, Environment


(* A lease that is written over another one of the same epoch is a         *)
(* publish request's, of an expired lease or one whose holder was absent.  *)
LEMMA SparingStep ==
  ASSUME Inv, PresenceInv, [Next]_vars,
         NEW c \in Channel, holder[c] # None, holder'[c] \notin {None, holder[c]},
         epoch'[c] = epoch[c]
  PROVE  /\ c \notin joined => age[c] > 0
         /\ MaxJoins = 1 => \A s \in SessionsOf(holder[c]) : s.heard # "admitted"
<1> USE DEF Inv, TypeInv, TypeOK, LedgerType, RequestType, ledger
<1>1. \A s \in SessionsOf(holder[c]) : s \in live /\ s.who.ch = c /\ s.who = holder[c]
  BY DEF SessionsOf, TokenInv, LeaseIsCurrent
<1>2. ASSUME NEW p \in Request, PublishDirect(p)
      PROVE  /\ c \notin joined => age[c] > 0
             /\ MaxJoins = 1 => \A s \in SessionsOf(holder[c]) : s.heard # "admitted"
  <2>1. WriteLease(chan[p], epoch[chan[p]]) /\ ~Alive(chan[p]) /\ chan[p] \notin joined
    BY <1>2 DEF PublishDirect
  <2>2. c = chan[p]
    BY <2>1 DEF WriteLease
  <2>3. age[c] > 0
    BY <2>1, <2>2 DEF Alive
  <2> QED
    BY <1>1, <2>1, <2>2, <2>3 DEF PresenceInv
<1>3. ASSUME NEW p \in Request, PublishAfterAbsent(p)
      PROVE  /\ c \notin joined => age[c] > 0
             /\ MaxJoins = 1 => \A s \in SessionsOf(holder[c]) : s.heard # "admitted"
  <2>1. pc[p] = "absent" /\ WriteLease(chan[p], epoch[chan[p]])
    BY <1>3 DEF PublishAfterAbsent
  <2>2. c = chan[p]
    BY <2>1 DEF WriteLease
  <2>3. holder[c] = held[p]
    BY <2>1, <2>2 DEF LockInv, LeaseHeldDuringAwait
  <2> QED
    BY <1>1, <2>1, <2>2, <2>3 DEF PresenceInv
<1>4. ASSUME NEW p \in Request, TakeOverVacant(p) \/ TakeOverAfterRemove(p)
      PROVE  FALSE
  <2>1. /\ WriteLease(chan[p], epoch[chan[p]] + 1)
        /\ epoch' = [epoch EXCEPT ![chan[p]] = epoch[chan[p]] + 1]
    BY <1>4 DEF TakeOverVacant, TakeOverAfterRemove, TakeOverRow
  <2>2. c = chan[p]
    BY <2>1 DEF WriteLease
  <2> QED
    BY <2>1, <2>2
<1>5. ASSUME NEW p \in Request, CloseVacant(p) \/ CloseAfterRemove(p) \/ RotateCommit(p)
      PROVE  FALSE
  BY <1>5 DEF CloseVacant, CloseAfterRemove, CloseRow, DeleteLease, RotateCommit
<1>6. ASSUME NEW e \in hooks, Admit(e) \/ ParticipantLeft(e)
      PROVE  FALSE
  BY <1>6 DEF Admit, ParticipantLeft, DeleteLease
<1> QED
  BY <1>2, <1>3, <1>4, <1>5, <1>6, LedgerWriters

(* A publish request takes the channel only from a holder whose lease has  *)
(* run out or who is not in the room.                                      *)
THEOREM HoldersAreSpared == Spec => PublishSparesHolder
<1>1. Init => PresenceInv
  BY DEF Init, PresenceInv
<1>2. Inv /\ PresenceInv /\ [Next]_vars => PresenceInv'
  BY PresenceStep
<1>3. Inv /\ PresenceInv /\ [Next]_vars =>
        [\A c \in Channel :
           (holder[c] # None /\ holder'[c] \notin {None, holder[c]} /\ epoch'[c] = epoch[c])
             => /\ c \notin joined => age[c] > 0
                /\ MaxJoins = 1 => \A s \in SessionsOf(holder[c]) : s.heard # "admitted"]_vars
  BY SparingStep
<1> QED
  BY Invariance, <1>1, <1>2, <1>3, PTL DEF Spec, PublishSparesHolder
=============================================================================
