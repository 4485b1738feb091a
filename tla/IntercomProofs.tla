--------------------------- MODULE IntercomProofs ---------------------------
(***************************************************************************)
(* The safety of the intercom, for any number of channels, requests and    *)
(* addresses.  The argument: what concerns a request is stated for each    *)
(* request alone (Sound), and a step of one request disturbs no other,     *)
(* since whoever waits for a thread owns its key and whoever waits for     *)
(* LiveKit after a check owns the rotation lock.                           *)
(***************************************************************************)
EXTENDS Intercom, WellFoundedInduction, TLAPS

Waiting == {"list", "make", "count"}
Rotating == {"newRoom", "survey", "delete"}

(* What a request is at each place, and what it owns there. *)
PlaceOf(p) ==
  /\ pc[p] = "idle" <=> job[p] = None
  /\ pc[p] \in {"key", "scrypt", "verify"} => Is(p, "enter")
  /\ Is(p, "enter") => job[p].of \in Slot
  /\ pc[p] = "rotation" /\ ~Is(p, "create") /\ ~Is(p, "rotate") => job[p].of \in Place
  /\ pc[p] \in Waiting => /\ ~Is(p, "rotate") /\ job[p].of \in Place /\ target[p] # None
                          /\ Is(p, "create") => job[p].of \in Slot

Owns(p) ==
  /\ pc[p] \in {"scrypt", "verify"} => keyLock[KeyOf(p)] = p /\ KeyOf(p) \notin locked
  /\ pc[p] \in Rotating => rotationLock = p
  /\ pc[p] \in Waiting /\ ~Is(p, "record") => rotationLock = p

(* What it has checked. *)
Checked(p) ==
  /\ pc[p] \in {"scrypt", "verify"} => seen[p] # None
  /\ pc[p] = "rotation" /\ Is(p, "enter") =>
       seen[p] # None /\ seen[p].hash \in {0, job[p].word}
  /\ pc[p] \in Waiting /\ ~Is(p, "record") =>
       /\ job[p].cred \in {0, generation}
       /\ target[p].gen = generation
       /\ Is(p, "create") => rows[job[p].of] = None
       /\ Is(p, "enter") => /\ rows[job[p].of] # None
                            /\ rows[job[p].of].hash \in {0, job[p].word}

Sound(p) == PlaceOf(p) /\ Owns(p) /\ Checked(p)

(* As long as a key is not locked its failures are the guesses made.       *)
GuessInv ==
  \A k \in Key : IF k \in locked THEN fails[k] = 0 /\ guesses[k] = FailLimit
                                 ELSE fails[k] = guesses[k]

Inv == TypeOK /\ GuessInv /\ RowsAreCurrent /\ \A p \in Request : Sound(p)

-----------------------------------------------------------------------------
LEMMA InitInv == Init => Inv
<1> SUFFICES ASSUME Init PROVE Inv
  OBVIOUS
<1> USE ConstantsAssumption
<1>1. TypeOK
  BY DEF Init, TypeOK, Row, Room, Place, Pc
<1>2. GuessInv /\ RowsAreCurrent
  BY DEF Init, GuessInv, RowsAreCurrent
<1>3. \A p \in Request : Sound(p)
  BY DEF Init, Sound, PlaceOf, Owns, Checked, Is, Waiting, Rotating
<1> QED
  BY <1>1, <1>2, <1>3 DEF Inv

(* What a step of p leaves to the others: their places and local           *)
(* variables, the locks they own, and unless p owns the rotation lock the  *)
(* ledger.                                                                 *)
Apart(p) ==
  \A q \in Request \ {p} :
    /\ pc'[q] = pc[q] /\ job'[q] = job[q] /\ seen'[q] = seen[q] /\ target'[q] = target[q]
    /\ rotationLock = q => rotationLock' = q
    /\ \A k \in Key : keyLock[k] = q => keyLock'[k] = q

Harmless(p) ==
  /\ \A q \in Request \ {p} : \A k \in Key : keyLock[k] = q /\ k \in locked' => k \in locked
  /\ rotationLock = p \/ UNCHANGED ledger

LEMMA OthersStaySound ==
  ASSUME Inv, NEW p \in Request, Apart(p), Harmless(p), NEW q \in Request \ {p}
  PROVE  Sound(q)'
<1>1. /\ pc'[q] = pc[q] /\ job'[q] = job[q] /\ seen'[q] = seen[q] /\ target'[q] = target[q]
      /\ rotationLock = q => rotationLock' = q
      /\ \A k \in Key : keyLock[k] = q => keyLock'[k] = q
      /\ \A k \in Key : keyLock[k] = q /\ k \in locked' => k \in locked
      /\ rotationLock = q => UNCHANGED <<generation, rows>>
  BY DEF Apart, Harmless, ledger
<1>2. Sound(q) /\ (job[q] # None => job[q] \in Job)
  BY DEF Inv, TypeOK
<1>3. \A o \in Operation : Is(q, o)' = Is(q, o)
  BY <1>1 DEF Is
<1>4. PlaceOf(q)'
  BY <1>1, <1>2 DEF Sound, PlaceOf, Is
<1>5. Owns(q)'
  <2>1. pc[q] \in {"scrypt", "verify"} => KeyOf(q) \in Key /\ KeyOf(q)' = KeyOf(q)
    BY <1>1, <1>2 DEF Sound, PlaceOf, Is, KeyOf, Key, Job
  <2> QED
    BY <1>1, <1>2, <1>3, <2>1 DEF Sound, Owns, Operation
<1>6. Checked(q)'
  BY <1>1, <1>2 DEF Sound, Checked, Owns, Is
<1> QED
  BY <1>4, <1>5, <1>6 DEF Sound

LEMMA StepKeepsInv ==
  ASSUME Inv, NEW p \in Request, Apart(p), Harmless(p),
         TypeOK', GuessInv', RowsAreCurrent', Sound(p)'
  PROVE  Inv'
BY OthersStaySound DEF Inv

(* A request that has ended owns nothing and is nowhere.                   *)
FinishTypes ==
  /\ rotationLock' \in Request \cup {None} /\ keyLock' \in [Key -> Request \cup {None}]
  /\ pc' \in [Request -> Pc] /\ job' \in [Request -> Job \cup {None}]
  /\ seen' \in [Request -> Row \cup {None}] /\ target' \in [Request -> Room \cup {None}]
  /\ todo' \in [Request -> SUBSET Room]

LEMMA FinishKeeps ==
  ASSUME Inv, NEW p \in Request, Finish(p)
  PROVE  FinishTypes /\ Apart(p) /\ Sound(p)'
<1> USE ConstantsAssumption
<1>1. FinishTypes
  BY DEF FinishTypes, Finish, KeyGivenBack, Inv, TypeOK, Pc
<1>2. Apart(p)
  BY DEF Apart, Finish, KeyGivenBack, Inv, TypeOK
<1>3. pc'[p] = "idle" /\ job'[p] = None
  BY DEF Finish, Inv, TypeOK
<1>4. Sound(p)'
  BY <1>3 DEF Sound, PlaceOf, Owns, Checked, Is, Waiting, Rotating
<1> QED
  BY <1>1, <1>2, <1>4

(* So has one that leaves the ledger and the failures alone.               *)
LEMMA FinishKeepsInv ==
  ASSUME Inv, NEW p \in Request, Finish(p), UNCHANGED <<ledger, failures>>,
         rooms' \subseteq Room
  PROVE  Inv'
<1>1. FinishTypes /\ Apart(p) /\ Sound(p)'
  BY FinishKeeps
<1>2. TypeOK'
  BY <1>1 DEF FinishTypes, ledger, failures, Inv, TypeOK
<1>3. GuessInv' /\ RowsAreCurrent'
  BY DEF ledger, failures, Inv, GuessInv, RowsAreCurrent
<1>4. Harmless(p)
  BY DEF Harmless, failures
<1> QED
  BY <1>1, <1>2, <1>3, <1>4, StepKeepsInv

-----------------------------------------------------------------------------
(* The password of a channel. *)
LEMMA KeyType ==
  ASSUME Inv, NEW p \in Request, pc[p] \in {"key", "scrypt", "verify"}
  PROVE  KeyOf(p) \in Key /\ job[p] \in Job /\ job[p].of \in Slot
BY DEF Inv, TypeOK, Sound, PlaceOf, Is, KeyOf, Key, Job

LEMMA RecordFailureKeeps ==
  ASSUME Inv, NEW k \in Key, k \notin locked, RecordFailure(k)
  PROVE  /\ fails' \in [Key -> 0 .. FailLimit - 1] /\ locked' \subseteq Key
         /\ guesses' \in [Key -> Nat] /\ GuessInv'
         /\ locked' \subseteq locked \cup {k}
<1> USE ConstantsAssumption
<1>1. fails[k] \in 0 .. FailLimit - 1 /\ guesses[k] = fails[k]
  BY DEF Inv, TypeOK, GuessInv
<1>2. fails' \in [Key -> 0 .. FailLimit - 1] /\ guesses' \in [Key -> Nat]
  BY <1>1 DEF RecordFailure, Inv, TypeOK
<1>3. locked' \subseteq Key /\ locked' \subseteq locked \cup {k}
  BY DEF RecordFailure, Inv, TypeOK
<1>4. ASSUME NEW j \in Key
      PROVE  IF j \in locked' THEN fails'[j] = 0 /\ guesses'[j] = FailLimit
                              ELSE fails'[j] = guesses'[j]
  <2>1. CASE j = k
    BY <1>1, <2>1 DEF RecordFailure, Inv, TypeOK
  <2>2. CASE j # k
    BY <2>2 DEF RecordFailure, Inv, TypeOK, GuessInv
  <2> QED
    BY <2>1, <2>2
<1> QED
  BY <1>2, <1>3, <1>4 DEF GuessInv

(* A failed attempt, with the key free or its own. *)
LEMMA FailureKeepsInv ==
  ASSUME Inv, NEW p \in Request, pc[p] \in {"key", "scrypt", "verify"},
         keyLock[KeyOf(p)] \in {None, p}, KeyOf(p) \notin locked,
         RecordFailure(KeyOf(p)), Finish(p), UNCHANGED <<ledger, rooms>>
  PROVE  Inv'
<1>1. KeyOf(p) \in Key
  BY KeyType
<1>2. /\ fails' \in [Key -> 0 .. FailLimit - 1] /\ locked' \subseteq Key
      /\ guesses' \in [Key -> Nat] /\ GuessInv'
      /\ locked' \subseteq locked \cup {KeyOf(p)}
  BY <1>1, RecordFailureKeeps
<1>3. FinishTypes /\ Apart(p) /\ Sound(p)'
  BY FinishKeeps
<1>4. TypeOK'
  BY <1>2, <1>3 DEF FinishTypes, ledger, Inv, TypeOK
<1>5. Harmless(p)
  BY <1>2, ConstantsAssumption DEF Harmless
<1>6. RowsAreCurrent'
  BY DEF ledger, Inv, RowsAreCurrent
<1> QED
  BY <1>2, <1>3, <1>4, <1>5, <1>6, StepKeepsInv

LEMMA EnterFreelyKeepsInv ==
  ASSUME Inv, NEW p \in Request, EnterFreely(p)
  PROVE  Inv'
<1>1. KeyOf(p) \in Key /\ job[p] \in Job /\ job[p].of \in Slot
  BY KeyType DEF EnterFreely, AtKey
<1> DEFINE s == [gen |-> generation, hash |-> 0]
<1>2. s \in Row /\ s.hash = 0
  BY DEF Row, Inv, TypeOK
<1>3. /\ pc' = [pc EXCEPT ![p] = "rotation"] /\ seen' = [seen EXCEPT ![p] = s]
      /\ UNCHANGED <<job, ledger, failures, locks, target, todo, rooms>>
  BY DEF EnterFreely, Goto
<1> HIDE DEF s
<1>4. TypeOK'
  BY <1>2, <1>3 DEF ledger, failures, locks, Inv, TypeOK, Pc
<1>5. GuessInv' /\ RowsAreCurrent'
  BY <1>3 DEF ledger, failures, Inv, GuessInv, RowsAreCurrent
<1>6. Apart(p) /\ Harmless(p)
  BY <1>3 DEF failures, locks, Apart, Harmless, Inv, TypeOK
<1>7. Is(p, "enter") /\ job[p] # None
  BY DEF EnterFreely, AtKey, Inv, Sound, PlaceOf, Is
<1>8. Sound(p)'
  BY <1>1, <1>2, <1>3, <1>7, ConstantsAssumption
     DEF Sound, PlaceOf, Owns, Checked, Is, Waiting, Rotating, Place, Inv, TypeOK
<1> QED
  BY <1>4, <1>5, <1>6, <1>8, StepKeepsInv

LEMMA EnterWithWordKeepsInv ==
  ASSUME Inv, NEW p \in Request, EnterWithWord(p)
  PROVE  Inv'
<1>1. KeyOf(p) \in Key /\ job[p] \in Job /\ job[p].of \in Slot
  BY KeyType DEF EnterWithWord, AtKey
<1> DEFINE s == [gen |-> generation, hash |-> rows[job[p].of].hash]
<1>2. s \in Row
  BY <1>1 DEF EnterWithWord, Row, Inv, TypeOK
<1>3. /\ pc' = [pc EXCEPT ![p] = "scrypt"] /\ seen' = [seen EXCEPT ![p] = s]
      /\ keyLock' = [keyLock EXCEPT ![KeyOf(p)] = p]
      /\ UNCHANGED <<job, ledger, failures, rotationLock, target, todo, rooms>>
  BY DEF EnterWithWord, Goto
<1> HIDE DEF s
<1>4. TypeOK'
  BY <1>1, <1>2, <1>3 DEF ledger, failures, Inv, TypeOK, Pc
<1>5. GuessInv' /\ RowsAreCurrent'
  BY <1>3 DEF ledger, failures, Inv, GuessInv, RowsAreCurrent
<1>6. keyLock[KeyOf(p)] = None /\ KeyOf(p) \notin locked
  BY DEF EnterWithWord, AtKey, Free
<1>7. Apart(p) /\ Harmless(p)
  BY <1>1, <1>3, <1>6, ConstantsAssumption DEF failures, Apart, Harmless, Inv, TypeOK
<1>8. Is(p, "enter") /\ job[p] # None
  BY DEF EnterWithWord, AtKey, Inv, Sound, PlaceOf, Is
<1>9. Sound(p)'
  <2>1. KeyOf(p)' = KeyOf(p)
    BY <1>3 DEF KeyOf
  <2>2. PlaceOf(p)' /\ Checked(p)'
    BY <1>1, <1>2, <1>3, <1>8, ConstantsAssumption
       DEF PlaceOf, Checked, Is, Waiting, Rotating, Place, Inv, TypeOK
  <2>3. Owns(p)'
    BY <1>1, <1>3, <1>6, <2>1 DEF failures, Owns, Waiting, Rotating, Inv, TypeOK
  <2> QED
    BY <2>2, <2>3 DEF Sound
<1> QED
  BY <1>4, <1>5, <1>7, <1>9, StepKeepsInv

(* Other steps that go on: the type of what they write, and that a step    *)
(* that leaves ledger and failures alone disturbs nobody.                  *)
LEMMA GoOn ==
  ASSUME Inv, NEW p \in Request, UNCHANGED <<ledger, failures>>, TypeOK', Apart(p), Sound(p)'
  PROVE  Inv'
<1>1. GuessInv' /\ RowsAreCurrent' /\ Harmless(p)
  BY DEF ledger, failures, Inv, GuessInv, RowsAreCurrent, Harmless
<1> QED
  BY <1>1, StepKeepsInv

LEMMA BeginScryptKeepsInv ==
  ASSUME Inv, NEW p \in Request, BeginScrypt(p)
  PROVE  Inv'
<1>1. /\ pc[p] = "scrypt" /\ pc' = [pc EXCEPT ![p] = "verify"]
      /\ UNCHANGED <<job, ledger, failures, locks, locals, rooms>>
  BY DEF BeginScrypt, Goto
<1>2. TypeOK'
  BY <1>1 DEF ledger, failures, locks, locals, Inv, TypeOK, Pc
<1>3. Apart(p)
  BY <1>1 DEF locks, locals, Apart, Inv, TypeOK
<1>4. Sound(p)'
  BY <1>1 DEF failures, locks, locals, Inv, TypeOK, Sound, PlaceOf, Owns, Checked, Is, KeyOf,
              Waiting, Rotating
<1> QED
  BY <1>1, <1>2, <1>3, <1>4, GoOn

LEMMA WordMatchesKeepsInv ==
  ASSUME Inv, NEW p \in Request, WordMatches(p)
  PROVE  Inv'
<1> USE ConstantsAssumption
<1> DEFINE k == KeyOf(p)
<1>1. k \in Key /\ job[p] \in Job /\ job[p].of \in Slot
  BY KeyType DEF WordMatches
<1>2. k \notin locked /\ keyLock[k] = p /\ seen[p] # None /\ Is(p, "enter") /\ job[p] # None
  BY DEF WordMatches, Inv, Sound, PlaceOf, Owns, Checked, Is
<1>3. /\ fails' = [fails EXCEPT ![k] = 0] /\ locked' = locked \ {k}
      /\ guesses' = [guesses EXCEPT ![k] = 0]
      /\ pc' = [pc EXCEPT ![p] = "rotation"] /\ job[p].word = seen[p].hash
      /\ UNCHANGED <<job, ledger, rotationLock, locals, rooms>>
  BY DEF WordMatches, RecordSuccess, Goto
<1>4. /\ keyLock' \in [Key -> Request \cup {None}]
      /\ \A q \in Request \ {p}, j \in Key : keyLock[j] = q => keyLock'[j] = q
  BY DEF WordMatches, KeyGivenBack, Inv, TypeOK
<1> HIDE DEF k
<1>5. TypeOK'
  <2>1. 0 \in 0 .. FailLimit - 1 /\ 0 \in Nat
    OBVIOUS
  <2>2. fails' \in [Key -> 0 .. FailLimit - 1] /\ guesses' \in [Key -> Nat]
    BY <1>3, <2>1 DEF Inv, TypeOK
  <2>3. pc' \in [Request -> Pc] /\ locked' \subseteq Key
    BY <1>3 DEF Inv, TypeOK, Pc
  <2> QED
    BY <1>3, <1>4, <2>2, <2>3 DEF ledger, locals, Inv, TypeOK
<1>6. GuessInv'
  BY <1>1, <1>3 DEF Inv, TypeOK, GuessInv
<1>7. RowsAreCurrent'
  BY <1>3 DEF ledger, Inv, RowsAreCurrent
<1>8. Apart(p) /\ Harmless(p)
  BY <1>3, <1>4 DEF locals, Apart, Harmless, Inv, TypeOK
<1>9. Sound(p)'
  BY <1>1, <1>2, <1>3 DEF locals, Sound, PlaceOf, Owns, Checked, Is, Waiting, Rotating, Place,
                          Inv, TypeOK
<1> QED
  BY <1>5, <1>6, <1>7, <1>8, <1>9, StepKeepsInv

-----------------------------------------------------------------------------
(* Under the rotation lock. *)

(* There is a lowest slot among those that are free. *)
LEMMA LowestFreeIsFree ==
  ASSUME ConstantsAssumption, FreeSlots # {}
  PROVE  LowestFree \in FreeSlots
<1>1. FreeSlots \subseteq Nat
  BY DEF FreeSlots, Slot, ConstantsAssumption
<1>2. PICK c \in FreeSlots : \A d \in FreeSlots : ~ (<<d, c>> \in OpToRel(<, Nat))
  BY <1>1, NatLessThanWellFounded, WFMin, Zenon
<1>3. ASSUME NEW d \in FreeSlots
      PROVE  c <= d
  <2>1. c \in Nat /\ d \in Nat
    BY <1>1
  <2>2. ~ (d < c)
    BY <1>2, <2>1 DEF OpToRel
  <2> QED
    BY <2>1, <2>2
<1> QED
  BY <1>3 DEF LowestFree

LEMMA TakeRotationLockKeepsInv ==
  ASSUME Inv, NEW p \in Request, TakeRotationLock(p)
  PROVE  Inv'
<1> USE ConstantsAssumption
<1> DEFINE of == IF Is(p, "create") THEN LowestFree ELSE job[p].of
           t  == IF Is(p, "rotate") THEN None ELSE [of |-> of, gen |-> generation]
           l  == IF Is(p, "rotate") THEN "newRoom" ELSE "list"
           j  == [job[p] EXCEPT !.of = of]
<1>1. pc[p] = "rotation" /\ job[p] # None /\ job[p] \in Job
  BY DEF TakeRotationLock, Inv, TypeOK, Sound, PlaceOf
<1>2. of \in Place \cup {None} /\ (~Is(p, "rotate") => of \in Place)
      /\ (Is(p, "create") \/ Is(p, "enter") => of \in Slot)
      /\ (Is(p, "create") => rows[of] = None)
  <2>1. CASE Is(p, "create")
    BY <2>1, LowestFreeIsFree DEF TakeRotationLock, Acceptable, FreeSlots, Place, Is
  <2>2. CASE ~Is(p, "create")
    BY <1>1, <2>2 DEF Inv, Sound, PlaceOf, Job, Is
  <2> QED
    BY <2>1, <2>2
<1>3. j \in Job /\ j.of = of /\ j.op = job[p].op /\ j.word = job[p].word /\ j.cred = job[p].cred
  BY <1>1, <1>2 DEF Job
<1>4. t \in Room \cup {None} /\ (~Is(p, "rotate") => t # None /\ t.gen = generation)
  BY <1>2 DEF Room, Inv, TypeOK
<1>5. job' = [job EXCEPT ![p] = j]
  BY <1>1 DEF TakeRotationLock, Inv, TypeOK, Job
<1>6. /\ target' = [target EXCEPT ![p] = t] /\ pc' = [pc EXCEPT ![p] = l]
      /\ rotationLock' = p /\ rotationLock = None
      /\ UNCHANGED <<ledger, failures, keyLock, seen, todo, rooms>>
  BY DEF TakeRotationLock, Free
<1>7. Acceptable(p)
  BY DEF TakeRotationLock
<1> HIDE DEF of, t, j
<1>8. TypeOK'
  BY <1>3, <1>4, <1>5, <1>6 DEF ledger, failures, Inv, TypeOK, Pc
<1>9. Apart(p)
  BY <1>5, <1>6 DEF Apart, Inv, TypeOK
<1>10. Sound(p)'
  <2>1. job'[p] = j /\ target'[p] = t /\ pc'[p] = l /\ j # None
    BY <1>3, <1>5, <1>6 DEF Inv, TypeOK
  <2>2. PlaceOf(p)'
    BY <1>1, <1>2, <1>3, <1>4, <2>1 DEF PlaceOf, Is, Waiting, Rotating
  <2>3. Owns(p)'
    BY <1>6, <2>1 DEF Owns, Waiting, Rotating
  <2>4. Checked(p)'
    <3>1. generation' = generation /\ rows' = rows
      BY <1>6 DEF ledger
    <3>2. Is(p, "enter") => seen[p].hash \in {0, job[p].word}
      BY <1>1 DEF Inv, Sound, Checked
    <3>3. Is(p, "enter") => of = job[p].of
      BY DEF Is, of
    <3> QED
      BY <1>1, <1>2, <1>3, <1>4, <1>7, <2>1, <3>1, <3>2, <3>3
         DEF Checked, Is, Acceptable, Authorized, AsVerified, Waiting
  <2> QED
    BY <2>2, <2>3, <2>4 DEF Sound
<1> QED
  BY <1>6, <1>8, <1>9, <1>10, GoOn

(* What follows when the room is there. *)
LEMMA RoomThereKeepsInv ==
  ASSUME Inv, NEW p \in Request, pc[p] \in {"list", "make"}, RoomThere(p),
         UNCHANGED failures, rooms' \subseteq Room
  PROVE  Inv'
<1> USE ConstantsAssumption
<1>1. job[p] \in Job /\ Sound(p) /\ job[p] # None
  BY DEF Inv, TypeOK, Sound, PlaceOf
<1>2. CASE /\ job[p].op \in {"enter", "talk"} /\ Goto(p, "count")
           /\ UNCHANGED <<ledger, locks, locals>>
  <2>1. TypeOK'
    BY <1>2 DEF Goto, ledger, failures, locks, locals, Inv, TypeOK, Pc
  <2>2. Apart(p)
    BY <1>2 DEF Goto, locks, locals, Apart, Inv, TypeOK
  <2>3. Sound(p)'
    BY <1>1, <1>2 DEF Goto, ledger, failures, locks, locals, Inv, TypeOK, Sound, PlaceOf, Owns,
                      Checked, Is, KeyOf, Waiting, Rotating
  <2> QED
    BY <1>2, <2>1, <2>2, <2>3, GoOn
<1>3. CASE Is(p, "create") /\ InsertRow(p) /\ Finish(p)
  <2>1. rotationLock = p /\ job[p].of \in Slot
    BY <1>1, <1>3 DEF Sound, PlaceOf, Owns, Is, Waiting
  <2>2. FinishTypes /\ Apart(p) /\ Sound(p)'
    BY <1>3, FinishKeeps
  <2> DEFINE h == IF job[p].word = 0 THEN 0 ELSE hashes + 1
             r == [gen |-> generation, hash |-> h]
  <2>3. h \in Nat /\ r \in Row /\ r.gen = generation
    BY DEF Row, Inv, TypeOK
  <2>4. /\ rows' = [rows EXCEPT ![job[p].of] = r] /\ hashes' \in Nat /\ generation' = generation
    BY <1>3, <2>3 DEF InsertRow, Inv, TypeOK
  <2> HIDE DEF r
  <2>5. TypeOK'
    BY <2>2, <2>3, <2>4 DEF FinishTypes, failures, Inv, TypeOK
  <2>6. GuessInv' /\ RowsAreCurrent'
    BY <2>1, <2>3, <2>4 DEF failures, Inv, TypeOK, GuessInv, RowsAreCurrent
  <2>7. Harmless(p)
    BY <2>1 DEF Harmless, failures
  <2> QED
    BY <2>2, <2>5, <2>6, <2>7, StepKeepsInv
<1>4. CASE Finish(p) /\ UNCHANGED ledger
  BY <1>4, FinishKeepsInv
<1> QED
  BY <1>2, <1>3, <1>4 DEF RoomThere

LEMMA WantedIsRoom ==
  ASSUME Inv, NEW p \in Request, pc[p] = "list"
  PROVE  /\ Wanted(p) \in Room
         /\ ~Is(p, "record") => Wanted(p).gen = generation
BY DEF Inv, TypeOK, Sound, PlaceOf, Checked, Wanted, Room, Waiting

LEMMA RoomMissingKeepsInv ==
  ASSUME Inv, NEW p \in Request, RoomMissing(p)
  PROVE  Inv'
<1> USE ConstantsAssumption
<1> DEFINE w == Wanted(p)
<1>1. w \in Room /\ w # None /\ (~Is(p, "record") => w.gen = generation)
  BY WantedIsRoom DEF RoomMissing
<1>2. /\ pc[p] = "list" /\ target' = [target EXCEPT ![p] = w]
      /\ pc' = [pc EXCEPT ![p] = "make"]
      /\ UNCHANGED <<job, ledger, failures, locks, seen, todo, rooms>>
  BY DEF RoomMissing, Goto
<1> HIDE DEF w
<1>3. TypeOK'
  BY <1>1, <1>2 DEF ledger, failures, locks, Inv, TypeOK, Pc
<1>4. Apart(p)
  BY <1>2 DEF locks, Apart, Inv, TypeOK
<1>5. Sound(p)'
  <2>1. target'[p] = w /\ pc'[p] = "make" /\ job'[p] = job[p] /\ Sound(p)
    BY <1>2 DEF Inv, TypeOK
  <2>2. UNCHANGED <<generation, rows, rotationLock>>
    BY <1>2 DEF ledger, locks
  <2>3. PlaceOf(p)'
    BY <1>1, <1>2, <2>1 DEF Sound, PlaceOf, Is, Waiting, Rotating
  <2>4. Owns(p)'
    BY <1>2, <2>1, <2>2 DEF Sound, Owns, Is, Waiting, Rotating
  <2>5. Checked(p)'
    BY <1>1, <1>2, <2>1, <2>2 DEF Sound, Checked, Is, Waiting
  <2> QED
    BY <2>3, <2>4, <2>5 DEF Sound
<1> QED
  BY <1>2, <1>3, <1>4, <1>5, GoOn

LEMMA MakeRoomKeepsInv ==
  ASSUME Inv, NEW p \in Request, MakeRoom(p) \/ RoomFound(p) \/ MakeRoomFails(p)
  PROVE  Inv'
<1>1. pc[p] = "make" => target[p] \in Room
  BY DEF Inv, TypeOK, Sound, PlaceOf, Waiting
<1>2. rooms' \subseteq Room
  BY <1>1 DEF MakeRoom, RoomFound, MakeRoomFails, Inv, TypeOK
<1> QED
  BY <1>2, RoomThereKeepsInv, FinishKeepsInv DEF MakeRoom, RoomFound, MakeRoomFails

-----------------------------------------------------------------------------
(* The rotation. *)
LEMMA RotateStepKeepsInv ==
  ASSUME Inv, NEW p \in Request,
         RotateCreate(p) \/ RotateSurvey(p) \/ \E r \in todo[p] : RotateDelete(p, r)
  PROVE  Inv'
<1>1. PICK l \in Rotating : pc' = [pc EXCEPT ![p] = l]
  BY DEF RotateCreate, RotateSurvey, RotateDelete, Goto, Rotating
<1>2. UNCHANGED <<job, ledger, failures, locks, seen, target>> /\ pc[p] \in Rotating
  BY DEF RotateCreate, RotateSurvey, RotateDelete, Goto, Rotating, locals
<1>3. rooms' \subseteq Room /\ todo' \in [Request -> SUBSET Room]
  BY DEF RotateCreate, RotateSurvey, RotateDelete, locals, Inv, TypeOK, Room, Place
<1>4. TypeOK'
  BY <1>1, <1>2, <1>3 DEF ledger, failures, locks, Inv, TypeOK, Pc, Rotating
<1>5. Apart(p)
  BY <1>1, <1>2 DEF locks, Apart, Inv, TypeOK
<1>6. Sound(p)'
  BY <1>1, <1>2 DEF ledger, failures, locks, Inv, TypeOK, Sound, PlaceOf, Owns, Checked, Is,
                    KeyOf, Waiting, Rotating
<1> QED
  BY <1>2, <1>4, <1>5, <1>6, GoOn

LEMMA RotateFailsKeepsInv ==
  ASSUME Inv, NEW p \in Request, RotateFails(p)
  PROVE  Inv'
<1>1. rooms' \subseteq Room
  BY DEF RotateFails, Inv, TypeOK, Room, Place
<1> QED
  BY <1>1, FinishKeepsInv DEF RotateFails

LEMMA RotateCommitKeepsInv ==
  ASSUME Inv, NEW p \in Request, RotateCommit(p)
  PROVE  Inv'
<1>1. rotationLock = p
  BY DEF RotateCommit, Inv, Sound, Owns, Rotating
<1>2. FinishTypes /\ Apart(p) /\ Sound(p)'
  BY FinishKeeps DEF RotateCommit
<1>3. /\ generation' \in Nat /\ rows' \in [Slot -> Row \cup {None}]
      /\ \A c \in Slot : rows'[c] = None
      /\ UNCHANGED <<hashes, failures, rooms>>
  BY DEF RotateCommit, RowsDropped, Inv, TypeOK
<1>4. TypeOK'
  BY <1>2, <1>3 DEF FinishTypes, failures, Inv, TypeOK
<1>5. GuessInv' /\ RowsAreCurrent'
  BY <1>3 DEF failures, Inv, GuessInv, RowsAreCurrent
<1>6. Harmless(p)
  BY <1>1, <1>3 DEF Harmless, failures
<1> QED
  BY <1>2, <1>4, <1>5, <1>6, StepKeepsInv

-----------------------------------------------------------------------------
(* Requests begin, rooms close, locks expire and the server restarts. *)
LEMMA SubmitKeepsInv ==
  ASSUME Inv, NEW p \in Request, SubmitAny(p)
  PROVE  Inv'
<1> USE ConstantsAssumption
<1>1. PICK o \in Operation, i \in Ip, c \in Place \cup {None}, w \in 0 .. MaxHash + 1,
           g \in {0, generation} :
        Submit(p, [op |-> o, ip |-> i, of |-> c, word |-> w, cred |-> g])
  BY DEF SubmitAny
<1> DEFINE j == [op |-> o, ip |-> i, of |-> c, word |-> w, cred |-> g]
           l == CASE o = "enter" -> "key" [] o = "record" -> "list" [] OTHER -> "rotation"
           t == IF o = "record" THEN [of |-> c, gen |-> generation] ELSE None
<1>2. j \in Job /\ j # None
  BY DEF Job, Inv, TypeOK
<1>3. /\ o = "enter" => c \in Slot
      /\ o \in {"talk", "enter", "listen", "record"} => c \in Place
  BY <1>1 DEF Submit, Place
<1>4. /\ pc[p] = "idle" /\ job' = [job EXCEPT ![p] = j] /\ pc' = [pc EXCEPT ![p] = l]
      /\ target' = [target EXCEPT ![p] = t]
      /\ UNCHANGED <<ledger, failures, locks, seen, todo, rooms>>
  BY <1>1 DEF Submit
<1>5. t \in Room \cup {None} /\ (o = "record" => t # None)
  BY <1>3 DEF Room, Inv, TypeOK
<1>6. /\ l \in {"key", "list", "rotation"}
      /\ (l = "key" <=> o = "enter") /\ (l = "list" <=> o = "record")
  OBVIOUS
<1>7. j.op = o /\ j.of = c
  OBVIOUS
<1> HIDE DEF j, l, t
<1>8. TypeOK'
  BY <1>2, <1>4, <1>5, <1>6 DEF ledger, failures, locks, Inv, TypeOK, Pc
<1>9. Apart(p)
  BY <1>4 DEF locks, Apart, Inv, TypeOK
<1>10. Sound(p)'
  <2>1. job'[p] = j /\ target'[p] = t /\ pc'[p] = l
    BY <1>4 DEF Inv, TypeOK
  <2> QED
    BY <1>2, <1>3, <1>5, <1>6, <1>7, <2>1
       DEF Operation, Sound, PlaceOf, Owns, Checked, Is, Waiting, Rotating
<1> QED
  BY <1>4, <1>8, <1>9, <1>10, GoOn

(* What no request does: the view of each of them stays, or all are gone.  *)
LEMMA OutsideKeepsInv ==
  ASSUME Inv, \/ \E r \in rooms : RoomCloses(r)
              \/ \E k \in locked : LockExpires(k)
              \/ UNCHANGED vars
  PROVE  Inv'
<1>1. /\ UNCHANGED <<ledger, fails, locks, pc, job, locals>>
      /\ rooms' \subseteq rooms
      /\ \/ UNCHANGED <<locked, guesses>>
         \/ \E k \in locked : locked' = locked \ {k} /\ guesses' = [guesses EXCEPT ![k] = 0]
  BY DEF RoomCloses, LockExpires, failures, vars
<1>2. TypeOK'
  BY <1>1 DEF ledger, locks, locals, Inv, TypeOK
<1>3. GuessInv' /\ RowsAreCurrent'
  BY <1>1 DEF ledger, Inv, TypeOK, GuessInv, RowsAreCurrent
<1>4. \A p \in Request : Sound(p)'
  BY <1>1 DEF ledger, locks, locals, Inv, Sound, PlaceOf, Owns, Checked, Is, KeyOf
<1> QED
  BY <1>2, <1>3, <1>4 DEF Inv

LEMMA RestartKeepsInv ==
  ASSUME Inv, Restart
  PROVE  Inv'
<1> USE ConstantsAssumption
<1>1. TypeOK'
  BY DEF Restart, Inv, TypeOK, Row, Room, Place, Pc
<1>2. GuessInv' /\ RowsAreCurrent'
  BY DEF Restart, GuessInv, RowsAreCurrent
<1>3. \A p \in Request : Sound(p)'
  BY DEF Restart, Sound, PlaceOf, Owns, Checked, Is, Waiting, Rotating
<1> QED
  BY <1>1, <1>2, <1>3 DEF Inv

LEMMA RequestStepKeepsInv ==
  ASSUME Inv, NEW p \in Request, RequestStep(p)
  PROVE  Inv'
<1>1. CASE EnterRefused(p) \/ Refuse(p) \/ Answer(p)
  BY <1>1, FinishKeepsInv DEF EnterRefused, Refuse, Answer, Inv, TypeOK
<1>2. CASE EnterWithoutWord(p)
  BY <1>2, FailureKeepsInv DEF EnterWithoutWord, AtKey, Free
<1>3. CASE WordFails(p)
  <2>1. pc[p] = "verify" /\ keyLock[KeyOf(p)] = p /\ KeyOf(p) \notin locked
    BY <1>3 DEF WordFails, Inv, Sound, Owns
  <2> QED
    BY <1>3, <2>1, FailureKeepsInv DEF WordFails
<1>4. CASE EnterFreely(p) \/ EnterWithWord(p) \/ BeginScrypt(p) \/ WordMatches(p)
  BY <1>4, EnterFreelyKeepsInv, EnterWithWordKeepsInv, BeginScryptKeepsInv, WordMatchesKeepsInv
<1>5. CASE TakeRotationLock(p) \/ RoomMissing(p)
  BY <1>5, TakeRotationLockKeepsInv, RoomMissingKeepsInv
<1>6. CASE RoomFound(p) \/ MakeRoom(p) \/ MakeRoomFails(p)
  BY <1>6, MakeRoomKeepsInv
<1>7. CASE RotateCreate(p) \/ RotateSurvey(p) \/ \E r \in todo[p] : RotateDelete(p, r)
  BY <1>7, RotateStepKeepsInv
<1>8. CASE RotateFails(p) \/ RotateCommit(p)
  BY <1>8, RotateFailsKeepsInv, RotateCommitKeepsInv
<1> QED
  BY <1>1, <1>2, <1>3, <1>4, <1>5, <1>6, <1>7, <1>8 DEF RequestStep, LockStep

LEMMA NextKeepsInv == Inv /\ [Next]_vars => Inv'
BY SubmitKeepsInv, RequestStepKeepsInv, OutsideKeepsInv, RestartKeepsInv DEF Next

-----------------------------------------------------------------------------
(* The inductive invariant: what each request is, owns and has checked at  *)
(* its place, and that failures count the guesses.                         *)
THEOREM Invariance == Spec => []Inv
BY InitInv, NextKeepsInv, PTL DEF Spec

(* Every variable keeps its type. *)
THEOREM TypeCorrect == Spec => []TypeOK
<1>1. Inv => TypeOK
  BY DEF Inv
<1> QED
  BY <1>1, Invariance, PTL

(* What was checked outside the rotation lock is true inside it, until the *)
(* answer (enter_intercom_channel, create_intercom_channel, and the token  *)
(* requests).                                                              *)
THEOREM ChecksHold == Spec => []ChecksStayTrue
<1>1. Inv => ChecksStayTrue
  BY DEF Inv, Sound, Checked, Waiting, ChecksStayTrue
<1> QED
  BY <1>1, Invariance, PTL

(* An address guesses FailLimit times at most before it is locked out.     *)
THEOREM GuessesAreLimited == Spec => []GuessesLimited
<1>1. Inv => GuessesLimited
  BY ConstantsAssumption DEF Inv, TypeOK, GuessInv, GuessesLimited
<1> QED
  BY <1>1, Invariance, PTL

(* No channel outlives the generation of its room.                         *)
THEOREM RowsGoWithRooms == Spec => []RowsAreCurrent
<1>1. Inv => RowsAreCurrent
  BY DEF Inv
<1> QED
  BY <1>1, Invariance, PTL
=============================================================================
