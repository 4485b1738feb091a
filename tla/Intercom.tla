------------------------------ MODULE Intercom ------------------------------
(***************************************************************************)
(* The intercom side of the field server: channels people open with a      *)
(* password of their own and talk on, the requests that open, enter and    *)
(* monitor them, the lock that slows the guessing of a password down, and  *)
(* every request that makes sure a room exists, the start of a recording   *)
(* among them, beside the rotation that destroys the rooms.                *)
(*                                                                         *)
(* As in RelayControl a step is what a coroutine does from one await to    *)
(* the next and LiveKit is external.  A definition named Fault_... is the  *)
(* one after it with a plausible mistake; only the checks use it.          *)
(***************************************************************************)
EXTENDS Integers, FiniteSets

CONSTANTS
  MaxChannel,  \* slots 0 .. MaxChannel - 1 (INTERCOM_MAX_CHANNELS)
  Relay,       \* the relay's room field-g<g>, as a place
  Lobby,       \* the intercom without channels, room intercom-g<g>
  Request,     \* request coroutines that may be in flight together
  Ip,          \* addresses requests come from
  None,
  SendAuth,    \* {"password"}, {"callback"} or both (FIELD_SEND_AUTH_MODE)
  FailLimit,   \* wrong passwords that lock an address out of a channel
  Scrypts,     \* password checks that run at once
  Watched,     \* bound: the places monitors and recordings are asked for
  MaxGen,      \* bound: the last password generation
  MaxHash      \* bound: rows ever created with a password

Slot == 0 .. MaxChannel - 1
Place == Slot \cup {Relay, Lobby}
Room == [of : Place, gen : Nat]

(* A row: the generation it was created in (a history field) and the       *)
(* salted hash of its password, 0 without one.                             *)
Row == [gen : Nat, hash : Nat]

(* A request: word is the hash the password in its body fits (0: the body  *)
(* has none, MaxHash + 1: it fits none; for a creation 1 or 0), cred the   *)
(* generation of the send password it came with (0: the admin's, or a live *)
(* code that the hub vouches for, which no rotation changes).              *)
Operation == {"talk", "create", "enter", "listen", "record", "rotate"}
Job == [op : Operation, ip : Ip, of : Place \cup {None}, word : Nat, cred : Nat]
Key == Ip \X Slot
Pc == {"idle", "key", "scrypt", "verify", "rotation", "list", "make", "count",
       "newRoom", "survey", "delete"}

ASSUME ConstantsAssumption ==
  /\ MaxChannel \in Nat \ {0} /\ FailLimit \in Nat \ {0} /\ Scrypts \in Nat \ {0}
  /\ MaxGen \in Nat /\ MaxHash \in Nat /\ Watched \subseteq Slot \cup {Relay}
  /\ Relay \notin Slot /\ Lobby \notin Slot /\ Relay # Lobby
  /\ SendAuth \subseteq {"password", "callback"}
  /\ None \notin Place \cup Request \cup Row \cup Room \cup Job

VARIABLES
  generation, rows,      \* the ledger
  hashes,                \* hashes made so far
  fails, locked,         \* FailureLock: failures and locked keys
  guesses,               \* history: wrong words since a key was last unlocked
  rotationLock, keyLock, \* owners
  pc, job, seen, target, todo, \* a request's place and local variables
  rooms                  \* rooms LiveKit has

ledger   == <<generation, rows, hashes>>
failures == <<fails, locked, guesses>>
locks    == <<rotationLock, keyLock>>
locals   == <<seen, target, todo>>
vars == <<ledger, failures, locks, pc, job, locals, rooms>>

Init ==
  /\ generation = 1
  /\ rows = [c \in Slot |-> None]
  /\ hashes = 0
  /\ fails = [k \in Key |-> 0]
  /\ locked = {}
  /\ guesses = [k \in Key |-> 0]
  /\ rotationLock = None
  /\ keyLock = [k \in Key |-> None]
  /\ pc = [p \in Request |-> "idle"]
  /\ job = [p \in Request |-> None]
  /\ seen = [p \in Request |-> None]
  /\ target = [p \in Request |-> None]
  /\ todo = [p \in Request |-> {}]
  /\ rooms = {[of |-> Relay, gen |-> 1]}

-----------------------------------------------------------------------------
(* The start and the end of a request. *)

Is(p, o) == job[p] # None /\ job[p].op = o

(* What _auth_send accepts, by FIELD_SEND_AUTH_MODE. *)
SendCredentials ==
  {k \in {0, generation} : IF k = 0 THEN "callback" \in SendAuth
                                    ELSE "password" \in SendAuth}

(* A password accepted before the first await.  The start of a recording   *)
(* reads its channel and takes no lock; the others come to one.            *)
Submit(p, j) ==
  /\ pc[p] = "idle"
  /\ j.cred \in IF j.op \in {"talk", "create", "enter"} THEN SendCredentials ELSE {0}
  /\ j.op = "rotate" =>
       generation + Cardinality({q \in Request : Is(q, "rotate")}) < MaxGen
  /\ CASE j.op \in {"create", "rotate"} -> j.of = None
       [] j.op = "talk" -> j.of = Lobby
       [] j.op = "enter" -> j.of \in Slot
       [] j.op = "listen" -> j.of \in Watched
       [] j.op = "record" -> j.of \in Watched /\ (j.of \in Slot => rows[j.of] # None)
  /\ j.op \notin {"create", "enter"} => j.word = 0
  /\ job' = [job EXCEPT ![p] = j]
  /\ pc' = [pc EXCEPT ![p] = CASE j.op = "enter" -> "key"
                               [] j.op = "record" -> "list"
                               [] OTHER -> "rotation"]
  /\ target' = [target EXCEPT ![p] = IF j.op = "record"
                                     THEN [of |-> j.of, gen |-> generation]
                                     ELSE None]
  /\ UNCHANGED <<ledger, failures, locks, seen, todo, rooms>>

(* The answer: async with gives back whatever the request holds. *)
Fault_KeyKept(p) == UNCHANGED keyLock
KeyGivenBack(p) ==
  keyLock' = [k \in Key |-> IF keyLock[k] = p THEN None ELSE keyLock[k]]

Finish(p) ==
  /\ rotationLock' = IF rotationLock = p THEN None ELSE rotationLock
  /\ KeyGivenBack(p)
  /\ pc' = [pc EXCEPT ![p] = "idle"]
  /\ job' = [job EXCEPT ![p] = None]
  /\ seen' = [seen EXCEPT ![p] = None]
  /\ target' = [target EXCEPT ![p] = None]
  /\ todo' = [todo EXCEPT ![p] = {}]

Goto(p, l) == pc' = [pc EXCEPT ![p] = l] /\ UNCHANGED job

(* asyncio.Lock and Semaphore. *)
Fault_NoMutualExclusion(lock) == TRUE
Free(lock) == lock = None

-----------------------------------------------------------------------------
(* The password of a channel, one request at a time for an address and a   *)
(* channel.                                                                *)

KeyOf(p) == <<job[p].ip, job[p].of>>

RecordFailure(k) ==
  /\ fails' = [fails EXCEPT ![k] = IF @ + 1 >= FailLimit THEN 0 ELSE @ + 1]
  /\ locked' = IF fails[k] + 1 >= FailLimit THEN locked \cup {k} ELSE locked
  /\ guesses' = [guesses EXCEPT ![k] = @ + 1]

RecordSuccess(k) ==
  /\ fails' = [fails EXCEPT ![k] = 0]
  /\ locked' = locked \ {k}
  /\ guesses' = [guesses EXCEPT ![k] = 0]

AtKey(p) == pc[p] = "key" /\ Free(keyLock[KeyOf(p)])

(* 423 or 404. *)
EnterRefused(p) ==
  /\ AtKey(p)
  /\ KeyOf(p) \in locked \/ rows[job[p].of] = None
  /\ Finish(p)
  /\ UNCHANGED <<ledger, failures, rooms>>

(* A channel without a password needs no check, a body without one fails   *)
(* at once, and a word is checked in a thread.                             *)
EnterFreely(p) ==
  /\ AtKey(p) /\ KeyOf(p) \notin locked
  /\ rows[job[p].of] # None /\ rows[job[p].of].hash = 0
  /\ seen' = [seen EXCEPT ![p] = [gen |-> generation, hash |-> 0]]
  /\ Goto(p, "rotation")
  /\ UNCHANGED <<ledger, failures, locks, target, todo, rooms>>

EnterWithoutWord(p) ==
  /\ AtKey(p) /\ KeyOf(p) \notin locked
  /\ rows[job[p].of] # None /\ rows[job[p].of].hash # 0
  /\ RecordFailure(KeyOf(p))
  /\ Finish(p)
  /\ UNCHANGED <<ledger, rooms>>

EnterWithWord(p) ==
  /\ AtKey(p) /\ KeyOf(p) \notin locked
  /\ rows[job[p].of] # None /\ rows[job[p].of].hash # 0
  /\ keyLock' = [keyLock EXCEPT ![KeyOf(p)] = p]
  /\ seen' = [seen EXCEPT ![p] = [gen |-> generation, hash |-> rows[job[p].of].hash]]
  /\ Goto(p, "scrypt")
  /\ UNCHANGED <<ledger, failures, rotationLock, target, todo, rooms>>

Checking == {q \in Request : pc[q] = "verify"}
BeginScrypt(p) ==
  /\ pc[p] = "scrypt" /\ Cardinality(Checking) < Scrypts
  /\ Goto(p, "verify")
  /\ UNCHANGED <<ledger, failures, locks, locals, rooms>>

WordMatches(p) ==
  /\ pc[p] = "verify" /\ job[p].word = seen[p].hash
  /\ RecordSuccess(KeyOf(p))
  /\ KeyGivenBack(p)
  /\ Goto(p, "rotation")
  /\ UNCHANGED <<ledger, rotationLock, locals, rooms>>

WordFails(p) ==
  /\ pc[p] = "verify" /\ job[p].word # seen[p].hash
  /\ RecordFailure(KeyOf(p))
  /\ Finish(p)
  /\ UNCHANGED <<ledger, rooms>>

-----------------------------------------------------------------------------
(* Under the rotation lock everything that was checked is checked again.   *)

Authorized(p) == job[p].cred \in {0, generation}
FreeSlots == {c \in Slot : rows[c] = None}
LowestFree == CHOOSE c \in FreeSlots : \A d \in FreeSlots : c <= d

(* Another channel in the slot has another generation or another hash.     *)
Fault_OnlyThere(p) == rows[job[p].of] # None
AsVerified(p) ==
  /\ rows[job[p].of] # None
  /\ generation = seen[p].gen /\ rows[job[p].of].hash = seen[p].hash

Acceptable(p) ==
  /\ Authorized(p)
  /\ Is(p, "enter") => AsVerified(p)
  /\ Is(p, "create") => FreeSlots # {}
  /\ Is(p, "listen") /\ job[p].of \in Slot => rows[job[p].of] # None

(* 401, 404 or 409; the hub may not vouch for a live code a second time.   *)
ByLiveCode(p) == job[p].cred = 0 /\ job[p].op \in {"talk", "create", "enter"}

Refuse(p) ==
  /\ pc[p] = "rotation" /\ Free(rotationLock)
  /\ ~Acceptable(p) \/ ByLiveCode(p)
  /\ Finish(p)
  /\ UNCHANGED <<ledger, failures, rooms>>

TakeRotationLock(p) ==
  /\ pc[p] = "rotation" /\ Free(rotationLock)
  /\ Acceptable(p)
  /\ rotationLock' = p
  /\ LET of == IF Is(p, "create") THEN LowestFree ELSE job[p].of
     IN  /\ job' = [job EXCEPT ![p].of = of]
         /\ target' = [target EXCEPT ![p] = IF Is(p, "rotate") THEN None
                                            ELSE [of |-> of, gen |-> generation]]
  /\ pc' = [pc EXCEPT ![p] = IF Is(p, "rotate") THEN "newRoom" ELSE "list"]
  /\ UNCHANGED <<ledger, failures, keyLock, seen, todo, rooms>>

-----------------------------------------------------------------------------
(* ensure_room, ensure_intercom_room and ensure_intercom_channel_room: ask *)
(* LiveKit for its rooms (no answer counts as no rooms), create the one    *)
(* that is missing.  The channel's room was named before the question, the *)
(* others are named after it.                                              *)

Wanted(p) == IF job[p].of \in Slot THEN target[p]
                                   ELSE [of |-> job[p].of, gen |-> generation]

(* What follows: participants are counted before a token is given out, a   *)
(* new channel gets its row, a recording and a monitor need no more.       *)
InsertRow(p) ==
  LET h == IF job[p].word = 0 THEN 0 ELSE hashes + 1
  IN  /\ rows' = [rows EXCEPT ![job[p].of] = [gen |-> generation, hash |-> h]]
      /\ hashes' = IF h = 0 THEN hashes ELSE h
      /\ UNCHANGED generation

RoomThere(p) ==
  \/ /\ job[p].op \in {"enter", "talk"}
     /\ Goto(p, "count")
     /\ UNCHANGED <<ledger, locks, locals>>
  \/ Is(p, "create") /\ InsertRow(p) /\ Finish(p)
  \/ job[p].op \in {"listen", "record"} /\ Finish(p) /\ UNCHANGED ledger

RoomFound(p) ==
  /\ pc[p] = "list" /\ Wanted(p) \in rooms
  /\ RoomThere(p)
  /\ UNCHANGED <<failures, rooms>>

RoomMissing(p) ==
  /\ pc[p] = "list"
  /\ target' = [target EXCEPT ![p] = Wanted(p)]
  /\ Goto(p, "make")
  /\ UNCHANGED <<ledger, failures, locks, seen, todo, rooms>>

MakeRoom(p) ==
  /\ pc[p] = "make"
  /\ rooms' = rooms \cup {target[p]}
  /\ RoomThere(p)
  /\ UNCHANGED failures

(* create_room fails, perhaps after it did its work. *)
MakeRoomFails(p) ==
  /\ pc[p] = "make"
  /\ rooms' \in {rooms, rooms \cup {target[p]}}
  /\ Finish(p)
  /\ UNCHANGED <<ledger, failures>>

(* A token, or none: no answer from LiveKit (502), or the room is full.    *)
Answer(p) ==
  /\ pc[p] = "count"
  /\ Finish(p)
  /\ UNCHANGED <<ledger, failures, rooms>>

-----------------------------------------------------------------------------
(* The rotation of the send password.  The room of the new generation is   *)
(* made, the others are deleted one by one, then all is committed.         *)

RotateCreate(p) ==
  /\ pc[p] = "newRoom"
  /\ rooms' = rooms \cup {[of |-> Relay, gen |-> generation + 1]}
  /\ Goto(p, "survey")
  /\ UNCHANGED <<ledger, failures, locks, locals>>

Kept == [of : {Relay, Lobby}, gen : {generation + 1}]

RotateSurvey(p) ==
  /\ pc[p] = "survey"
  /\ todo' = [todo EXCEPT ![p] = rooms \ Kept]
  /\ Goto(p, "delete")
  /\ UNCHANGED <<ledger, failures, locks, seen, target, rooms>>

RotateDelete(p, r) ==
  /\ pc[p] = "delete" /\ r \in todo[p]
  /\ rooms' = rooms \ {r}
  /\ todo' = [todo EXCEPT ![p] = @ \ {r}]
  /\ Goto(p, "delete")
  /\ UNCHANGED <<ledger, failures, locks, seen, target>>

(* A call fails, before or after it did its work. *)
RotateFails(p) ==
  /\ pc[p] \in {"newRoom", "survey", "delete"}
  /\ \/ UNCHANGED rooms
     \/ pc[p] = "newRoom" /\ rooms' = rooms \cup {[of |-> Relay, gen |-> generation + 1]}
     \/ pc[p] = "delete" /\ \E r \in todo[p] : rooms' = rooms \ {r}
  /\ Finish(p)
  /\ UNCHANGED <<ledger, failures>>

(* rotate_send_password: one transaction. *)
Fault_RowsKept == rows
RowsDropped == [c \in Slot |-> None]

RotateCommit(p) ==
  /\ pc[p] = "delete" /\ todo[p] = {}
  /\ generation' = generation + 1
  /\ rows' = RowsDropped
  /\ Finish(p)
  /\ UNCHANGED <<hashes, failures, rooms>>

-----------------------------------------------------------------------------
(* LiveKit, time and restarts. *)

(* A room is closed when it was empty for long.  Bound: an intercom room   *)
(* of the present generation (RelayControl closes the relay's).            *)
RoomCloses(r) ==
  /\ r \in rooms /\ r.of # Relay /\ r.gen = generation
  /\ rooms' = rooms \ {r}
  /\ UNCHANGED <<ledger, failures, locks, pc, job, locals>>

LockExpires(k) ==
  /\ k \in locked
  /\ locked' = locked \ {k}
  /\ guesses' = [guesses EXCEPT ![k] = 0]
  /\ UNCHANGED <<ledger, fails, locks, pc, job, locals, rooms>>

(* The server stops in the middle of anything and boots, with the same     *)
(* passwords or with new ones in its environment: rooms of older           *)
(* generations, all the intercom rooms and the rows are dropped before it  *)
(* serves again.                                                           *)
Restart ==
  /\ \E g \in {generation, generation + 1} :
       /\ g <= MaxGen
       /\ generation' = g
       /\ rooms' = {[of |-> Relay, gen |-> g]}
  /\ rows' = [c \in Slot |-> None]
  /\ fails' = [k \in Key |-> 0]
  /\ locked' = {}
  /\ guesses' = [k \in Key |-> 0]
  /\ rotationLock' = None
  /\ keyLock' = [k \in Key |-> None]
  /\ pc' = [p \in Request |-> "idle"]
  /\ job' = [p \in Request |-> None]
  /\ seen' = [p \in Request |-> None]
  /\ target' = [p \in Request |-> None]
  /\ todo' = [p \in Request |-> {}]
  /\ UNCHANGED hashes

-----------------------------------------------------------------------------
(* Bound: the passwords worth trying on a slot. *)
Words(c) == {0, MaxHash + 1} \cup
            (IF c \in Slot /\ rows[c] # None THEN {rows[c].hash} ELSE {})

SubmitAny(p) ==
  \E o \in Operation, i \in Ip, c \in Place \cup {None}, w \in 0 .. MaxHash + 1,
     g \in {0, generation} :
    /\ o = "create" => w <= 1 /\ w + Cardinality({q \in Request : Is(q, "create")}) <=
                                   MaxHash - hashes
    /\ o = "enter" => w \in Words(c)
    /\ Submit(p, [op |-> o, ip |-> i, of |-> c, word |-> w, cred |-> g])

LockStep(p) ==
  \/ EnterRefused(p) \/ EnterFreely(p) \/ EnterWithoutWord(p) \/ EnterWithWord(p)
  \/ BeginScrypt(p) \/ Refuse(p) \/ TakeRotationLock(p)

RequestStep(p) ==
  \/ LockStep(p)
  \/ WordMatches(p) \/ WordFails(p)
  \/ RoomFound(p) \/ RoomMissing(p) \/ MakeRoom(p) \/ MakeRoomFails(p) \/ Answer(p)
  \/ RotateCreate(p) \/ RotateSurvey(p) \/ RotateFails(p) \/ RotateCommit(p)
  \/ \E r \in todo[p] : RotateDelete(p, r)

Next ==
  \/ \E p \in Request : SubmitAny(p) \/ RequestStep(p)
  \/ \E r \in rooms : RoomCloses(r)
  \/ \E k \in locked : LockExpires(k)
  \/ Restart

Spec == Init /\ [][Next]_vars

(* asyncio's locks and its semaphore are first come first served, LiveKit  *)
(* and the thread answer.                                                  *)
FairSpec ==
  Spec /\ \A p \in Request : WF_vars(RequestStep(p)) /\ SF_vars(LockStep(p))

-----------------------------------------------------------------------------
(* Properties. *)

(* Every variable keeps its type, and no address keeps FailLimit failures. *)
TypeOK ==
  /\ generation \in Nat /\ hashes \in Nat
  /\ rows \in [Slot -> Row \cup {None}]
  /\ fails \in [Key -> 0 .. FailLimit - 1]
  /\ locked \subseteq Key
  /\ guesses \in [Key -> Nat]
  /\ rotationLock \in Request \cup {None}
  /\ keyLock \in [Key -> Request \cup {None}]
  /\ pc \in [Request -> Pc]
  /\ job \in [Request -> Job \cup {None}]
  /\ seen \in [Request -> Row \cup {None}]
  /\ target \in [Request -> Room \cup {None}]
  /\ todo \in [Request -> SUBSET Room]
  /\ rooms \subseteq Room

(* While a request that holds the rotation lock waits for LiveKit, the     *)
(* ledger stays as it checked it: who is about to enter has proved the     *)
(* password of the channel that is in the slot now (not of one that was    *)
(* there when it was checked, in a thread, before), the slot a creation    *)
(* chose is free, and the room is one of the present generation.           *)
ChecksStayTrue ==
  \A p \in Request : (pc[p] \in {"list", "make", "count"} /\ ~Is(p, "record")) =>
    /\ job[p].cred \in {0, generation}
    /\ target[p].gen = generation
    /\ Is(p, "create") => rows[job[p].of] = None
    /\ Is(p, "enter") => /\ rows[job[p].of] # None
                         /\ rows[job[p].of].hash \in {0, job[p].word}

(* An address tries at most FailLimit wrong passwords on a channel before  *)
(* it is locked out, however many requests it sends at once.               *)
GuessesLimited == \A k \in Key : guesses[k] <= FailLimit

(* A channel lives in one generation: its row goes with its room. *)
RowsAreCurrent == \A c \in Slot : rows[c] # None => rows[c].gen = generation

(* Every request is answered: the key locks, the two threads and the       *)
(* rotation lock are given back on every way out.                          *)
RequestsFinish == \A p \in Request : (pc[p] # "idle") ~> (pc[p] = "idle")

(* main.py says at the locks of the token requests that no ensure_room may *)
(* bring back a room that a rotation deleted.  The start of a recording    *)
(* takes no lock.                                                          *)
NoOldRoom == \A r \in rooms : r.gen >= generation
=============================================================================
