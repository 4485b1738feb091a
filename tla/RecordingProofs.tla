--------------------------- MODULE RecordingProofs --------------------------
(***************************************************************************)
(* The safety of recordings, for any number of channels, recordings,       *)
(* faults and shutdowns.                                                   *)
(***************************************************************************)
EXTENDS Recording, TLAPS

(* An active recording has no files yet; if it is being stopped, it is by  *)
(* its failing start, which keeps no file.                                 *)
ActiveInv ==
  \A r \in active : /\ rec[r].files = {}
                    /\ rec[r].stop # "none" => ~rec[r].finalize

(* Of one recording: a stop gets to writer and stdin only with an encoder;  *)
(* stdin is closed when the writer is at its end, or was *)
(* given up; only then the encoder ends well, and has made an mp3 of what  *)
(* was written; the files appear when the stop is over.                    *)
Complete(n) == n.made = "all" \/ (n.made = "part" /\ n.givenUp)

Sound(n) ==
  /\ n.start = "spawn" => n.encoder = "none"
  /\ n.encoder = "none" => n.stop \in {"none", "leave", "over"}
  /\ n.stop \in {"close", "exit"} => n.writer = "ended" \/ (n.writer = "cancelled" /\ n.givenUp)
  /\ n.encoder = "ended" => n.stop \in {"close", "exit"} /\ Complete(n)
  /\ n.files # {} => n.stop = "over"
  /\ n.files = {"mp3", "json"} => Complete(n)

FilesInv == \A r \in Rec : Sound(rec[r])

(* What the shutdown has not come to yet includes all that is active.      *)
ClosingInv == ~Serving => active \subseteq closing /\ stops < MaxStop

Inv == TypeOK /\ IndexedIsActive /\ ActiveInv /\ FilesInv /\ ClosingInv

-----------------------------------------------------------------------------
(* At the start nothing is recorded. *)
LEMMA InitInv == Init => Inv
<1> SUFFICES ASSUME Init PROVE Inv
  OBVIOUS
<1> USE ConstantsAssumption
<1>1. Unused \in Session
  BY DEF Unused, Session
<1>2. TypeOK
  BY <1>1 DEF Init, TypeOK
<1>3. IndexedIsActive /\ ActiveInv /\ FilesInv /\ ClosingInv
  BY DEF Init, IndexedIsActive, ActiveInv, FilesInv, Sound, ClosingInv, Serving, Unused
<1> QED
  BY <1>2, <1>3 DEF Inv

(* One recording is replaced by one of its type. *)
LEMMA Replaced ==
  ASSUME TypeOK, NEW r \in Rec, NEW n \in Session, rec' = [rec EXCEPT ![r] = n]
  PROVE  /\ rec' \in [Rec -> Session] /\ rec'[r] = n
         /\ \A q \in Rec : q # r => rec'[q] = rec[q]
BY DEF TypeOK

(* Two changes of a recording that keep its type. *)
LEMMA DrainedType ==
  ASSUME NEW s \in Session, NEW b \in BOOLEAN, NEW g \in BOOLEAN,
         NEW w \in {"ended", "cancelled"}
  PROVE  [s EXCEPT !.stop = "close", !.rest = b, !.writer = w, !.givenUp = g] \in Session
BY DEF Session

LEMMA EncodedType ==
  ASSUME NEW s \in Session, NEW m \in {"part", "all"}
  PROVE  [s EXCEPT !.encoder = "ended", !.made = m] \in Session
BY DEF Session

(* Most steps leave the files of a recording r alone, and where they begin *)
(* its stop they take it out of the tables or keep no file of it.          *)
Kept(r, n) ==
  /\ n \in Session /\ rec' = [rec EXCEPT ![r] = n]
  /\ n.chan = rec[r].chan /\ n.files = rec[r].files /\ Sound(n)

Ordinary(r) ==
  /\ \E n \in Session :
       /\ Kept(r, n)
       /\ \/ Forget(r)
          \/ /\ UNCHANGED <<active, index>>
             /\ r \in active => (n.stop # "none" => ~n.finalize)
  /\ \/ UNCHANGED closing
     \/ ~Serving /\ r \notin active' /\ closing' = closing \ {r} /\ closing' # None
  /\ owed' \subseteq Rec /\ closed' \in Rec \cup {None}
  /\ faults' \in 0 .. MaxFault /\ stops' = stops

LEMMA OrdinaryKeepsInv ==
  ASSUME Inv, NEW r \in Rec, Ordinary(r)
  PROVE  Inv'
<1> USE ConstantsAssumption
<1>1. PICK n \in Session :
        /\ Kept(r, n)
        /\ \/ Forget(r)
           \/ /\ UNCHANGED <<active, index>>
              /\ r \in active => (n.stop # "none" => ~n.finalize)
  BY DEF Ordinary
<1>2. /\ rec' \in [Rec -> Session] /\ rec'[r] = n
      /\ \A q \in Rec : q # r => rec'[q] = rec[q]
  BY <1>1, Replaced DEF Kept, Inv
<1>3. active' \subseteq active /\ index' \in [Channel -> Rec \cup {None}]
  BY <1>1 DEF Forget, Inv, TypeOK
<1>4. TypeOK'
  BY <1>2, <1>3 DEF Ordinary, Inv, TypeOK, Serving
<1>5. IndexedIsActive'
  <2>1. \A q \in Rec : rec'[q].chan = rec[q].chan
    BY <1>1, <1>2 DEF Kept
  <2>2. CASE Forget(r)
    BY <2>1, <2>2 DEF Forget, Inv, TypeOK, IndexedIsActive
  <2>3. CASE UNCHANGED <<active, index>>
    BY <2>1, <2>3 DEF Inv, TypeOK, IndexedIsActive
  <2> QED
    BY <1>1, <2>2, <2>3
<1>6. ActiveInv'
  <2> SUFFICES ASSUME NEW q \in active'
               PROVE  /\ rec'[q].files = {}
                      /\ rec'[q].stop # "none" => ~rec'[q].finalize
    BY DEF ActiveInv
  <2>1. q \in active /\ q \in Rec
    BY <1>3 DEF Inv, TypeOK
  <2>2. CASE q # r
    BY <1>2, <2>1, <2>2 DEF Inv, ActiveInv
  <2>3. CASE q = r
    BY <1>1, <1>2, <2>1, <2>3 DEF Inv, ActiveInv, Kept, Forget
  <2> QED
    BY <2>2, <2>3
<1>7. FilesInv'
  BY <1>1, <1>2 DEF Inv, FilesInv, Kept
<1>8. ClosingInv'
  BY <1>3 DEF Inv, ClosingInv, Ordinary, Serving
<1> QED
  BY <1>4, <1>5, <1>6, <1>7, <1>8 DEF Inv

-----------------------------------------------------------------------------
(* Which steps are ordinary: those of a start, *)
LEMMA SpawnedIsOrdinary ==
  ASSUME Inv, NEW r \in Rec, Spawned(r) PROVE Ordinary(r)
<1>1. rec[r] \in Session /\ Sound(rec[r])
  BY DEF Inv, TypeOK, FilesInv
<1> DEFINE w == IF rec[r].stop = "over" THEN "ended" ELSE "writing"
<1>2. w \in {"ended", "writing"} /\ (rec[r].stop = "over" => w = "ended")
  OBVIOUS
<1> DEFINE n == [rec[r] EXCEPT !.start = "connect", !.encoder = "running",
                   !.writer = w, !.part = TRUE]
<1>3. /\ n \in Session /\ n.files = rec[r].files /\ n.chan = rec[r].chan
      /\ n.finalize = rec[r].finalize /\ n.start = "connect" /\ n.stop = rec[r].stop
      /\ n.encoder = "running" /\ n.writer = w
      /\ n.made = rec[r].made /\ n.givenUp = rec[r].givenUp
  <2>1. n \in Session
    <3> HIDE DEF w
    <3> QED
      BY <1>1, <1>2 DEF Session
  <2> HIDE DEF w
  <2> QED
    BY <1>1, <2>1 DEF Session
<1>4. rec' = [rec EXCEPT ![r] = n]
  BY <1>1 DEF Spawned, Inv, TypeOK, Session
<1> HIDE DEF n, w
<1>5. Kept(r, n)
  BY <1>1, <1>2, <1>3, <1>4 DEF Spawned, Kept, Sound, Complete
<1> QED
  BY <1>3, <1>5 DEF Ordinary, Spawned, memory, counts, Inv, TypeOK, ActiveInv

LEMMA SpawnFailsIsOrdinary ==
  ASSUME Inv, NEW r \in Rec, SpawnFails(r) PROVE Ordinary(r)
<1> DEFINE n == [rec[r] EXCEPT !.start = "over"]
<1>1. rec[r] \in Session
  BY DEF Inv, TypeOK
<1>2. Kept(r, n)
  BY <1>1 DEF SpawnFails, Kept, Inv, TypeOK, Session,
              FilesInv, Sound, Complete
<1>3. n \in Session /\ ((n.stop = rec[r].stop /\ n.finalize = rec[r].finalize) \/ ~n.finalize)
  BY <1>1 DEF Session
<1> QED
  BY <1>2, <1>3 DEF Ordinary, SpawnFails, StartFails, memory, counts, Inv,
                    TypeOK, ActiveInv

LEMMA ConnectedIsOrdinary ==
  ASSUME Inv, NEW r \in Rec, Connected(r) PROVE Ordinary(r)
<1> DEFINE n == [rec[r] EXCEPT !.start = "over", !.present = TRUE]
<1>1. rec[r] \in Session
  BY DEF Inv, TypeOK
<1>2. Kept(r, n)
  BY <1>1 DEF Connected, Kept, Inv, TypeOK, Session,
              FilesInv, Sound, Complete
<1>3. n \in Session /\ ((n.stop = rec[r].stop /\ n.finalize = rec[r].finalize) \/ ~n.finalize)
  BY <1>1 DEF Session
<1> QED
  BY <1>2, <1>3 DEF Ordinary, Connected, memory, counts, Inv,
                    TypeOK, ActiveInv

LEMMA ConnectFailsIsOrdinary ==
  ASSUME Inv, NEW r \in Rec, ConnectFails(r) PROVE Ordinary(r)
<1> DEFINE n == [rec[r] EXCEPT !.start = "failing", !.stop = "leave", !.finalize = FALSE]
<1>1. rec[r] \in Session
  BY DEF Inv, TypeOK
<1>2. Kept(r, n)
  BY <1>1 DEF ConnectFails, Stopping, Kept, Inv, TypeOK, Session,
              FilesInv, Sound, Complete
<1>3. n \in Session /\ ((n.stop = rec[r].stop /\ n.finalize = rec[r].finalize) \/ ~n.finalize)
  BY <1>1 DEF Session
<1> QED
  BY <1>2, <1>3 DEF Ordinary, ConnectFails, memory, counts, Inv,
                    TypeOK, ActiveInv

LEMMA ConnectFailsStoppedIsOrdinary ==
  ASSUME Inv, NEW r \in Rec, ConnectFailsStopped(r) PROVE Ordinary(r)
<1> DEFINE n == [rec[r] EXCEPT !.start = "over"]
<1>1. rec[r] \in Session
  BY DEF Inv, TypeOK
<1>2. Kept(r, n)
  BY <1>1 DEF ConnectFailsStopped, Kept, Inv, TypeOK, Session,
              FilesInv, Sound, Complete
<1>3. n \in Session /\ ((n.stop = rec[r].stop /\ n.finalize = rec[r].finalize) \/ ~n.finalize)
  BY <1>1 DEF Session
<1> QED
  BY <1>2, <1>3 DEF Ordinary, ConnectFailsStopped, StartFails, memory, counts, Inv,
                    TypeOK, ActiveInv

LEMMA FailedStartEndsIsOrdinary ==
  ASSUME Inv, NEW r \in Rec, FailedStartEnds(r) PROVE Ordinary(r)
<1> DEFINE n == [rec[r] EXCEPT !.start = "over"]
<1>1. rec[r] \in Session
  BY DEF Inv, TypeOK
<1>2. Kept(r, n)
  BY <1>1 DEF FailedStartEnds, Kept, Inv, TypeOK, Session,
              FilesInv, Sound, Complete
<1>3. n \in Session /\ ((n.stop = rec[r].stop /\ n.finalize = rec[r].finalize) \/ ~n.finalize)
  BY <1>1 DEF Session
<1> QED
  BY <1>2, <1>3 DEF Ordinary, FailedStartEnds, StartFails, memory, counts, Inv,
                    TypeOK, ActiveInv

(* those of a stop, *)
LEMMA BeginStopKeeps ==
  ASSUME Inv, NEW r \in Rec, BeginStop(r)
  PROVE  Forget(r) /\ \E n \in Session : Kept(r, n)
<1>1. rec[r] \in Session
  BY DEF Inv, TypeOK
<1>2. CASE Stopping(r)
  <2>1. Kept(r, rec[r])
    BY <1>1, <1>2 DEF BeginStop, Kept, Inv, TypeOK, FilesInv
  <2> QED
    BY <1>1, <2>1 DEF BeginStop
<1>3. CASE ~Stopping(r)
  <2> DEFINE n == [rec[r] EXCEPT !.stop = "leave"]
  <2>1. n \in Session /\ Kept(r, n)
    BY <1>1, <1>3 DEF BeginStop, Kept, Stopping, Inv, TypeOK, Session, FilesInv, Sound,
                      Complete
  <2> QED
    BY <2>1 DEF BeginStop
<1> QED
  BY <1>2, <1>3

LEMMA RequestStopIsOrdinary ==
  ASSUME Inv, NEW r \in Rec, RequestStop(r) PROVE Ordinary(r)
BY BeginStopKeeps DEF RequestStop, Ordinary, counts, Inv, TypeOK

LEMMA Idle == ASSUME Inv, NEW r \in Rec, UNCHANGED <<rec, active, index>>
              PROVE  \E n \in Session :
                        /\ Kept(r, n)
                        /\ UNCHANGED <<active, index>>
                        /\ r \in active => (n.stop # "none" => ~n.finalize)
<1>1. rec[r] \in Session /\ Kept(r, rec[r])
  BY DEF Inv, TypeOK, Kept, FilesInv
<1> QED
  BY <1>1 DEF Inv, ActiveInv

LEMMA StopAfterDisconnectIsOrdinary ==
  ASSUME Inv, NEW r \in Rec, StopAfterDisconnect(r) PROVE Ordinary(r)
<1>1. CASE r \in active
  BY <1>1, BeginStopKeeps DEF StopAfterDisconnect, Ordinary, counts, Inv, TypeOK
<1>2. CASE r \notin active
  BY <1>2, Idle DEF StopAfterDisconnect, Ordinary, counts, Inv, TypeOK
<1> QED
  BY <1>1, <1>2

LEMMA CloseOneIsOrdinary ==
  ASSUME Inv, NEW r \in Rec, CloseOne(r) PROVE Ordinary(r)
<1> USE ConstantsAssumption
<1>1. closing' # None
  BY DEF CloseOne, Serving, Inv, TypeOK
<1>2. r \notin active'
  BY DEF CloseOne, BeginStop, Forget
<1>3. CASE r \in active
  BY <1>1, <1>2, <1>3, BeginStopKeeps DEF CloseOne, Ordinary, counts, Inv, TypeOK
<1>4. CASE r \notin active
  BY <1>1, <1>2, <1>4, Idle DEF CloseOne, Ordinary, counts, Inv, TypeOK
<1> QED
  BY <1>3, <1>4

LEMMA LeaveRoomIsOrdinary ==
  ASSUME Inv, NEW r \in Rec, LeaveRoom(r) PROVE Ordinary(r)
<1> DEFINE n == [rec[r] EXCEPT !.present = FALSE,
            !.stop = IF rec[r].encoder = "none" THEN "over" ELSE "drain"]
<1>1. rec[r] \in Session
  BY DEF Inv, TypeOK
<1>2. Kept(r, n)
  BY <1>1 DEF LeaveRoom, Kept, Inv, TypeOK, Session,
              FilesInv, Sound, Complete
<1>3. n \in Session /\ rec[r].stop # "none" /\ n.finalize = rec[r].finalize
  BY <1>1 DEF LeaveRoom, Session
<1> QED
  BY <1>2, <1>3 DEF Ordinary, LeaveRoom, memory, counts, Inv,
                    TypeOK, ActiveInv

LEMMA DrainIsOrdinary ==
  ASSUME Inv, NEW r \in Rec, Drain(r) PROVE Ordinary(r)
<1>1. rec[r] \in Session /\ Sound(rec[r])
  BY DEF Inv, TypeOK, FilesInv
<1>2. PICK b \in BOOLEAN :
        rec' = [rec EXCEPT ![r].stop = "close", ![r].rest = b,
                           ![r].writer = IF @ = "ended" THEN "ended" ELSE "cancelled",
                           ![r].givenUp = rec[r].writer # "ended"]
  BY DEF Drain
<1> DEFINE w == IF rec[r].writer = "ended" THEN "ended" ELSE "cancelled"
           g == rec[r].writer # "ended"
<1>3. w \in {"ended", "cancelled"} /\ g \in BOOLEAN /\ (w = "cancelled" => g)
  OBVIOUS
<1> DEFINE n == [rec[r] EXCEPT !.stop = "close", !.rest = b, !.writer = w,
                   !.givenUp = g]
<1>4. /\ n \in Session /\ n.files = rec[r].files /\ n.chan = rec[r].chan
      /\ n.finalize = rec[r].finalize /\ n.start = rec[r].start /\ n.stop = "close"
      /\ n.encoder = rec[r].encoder /\ n.writer = w
      /\ n.made = rec[r].made /\ n.givenUp = g
  <2>1. n \in Session
    <3> HIDE DEF w, g
    <3> QED
      BY <1>1, <1>3, DrainedType
  <2> HIDE DEF w, g
  <2> QED
    BY <1>1, <2>1 DEF Session
<1>5. rec' = [rec EXCEPT ![r] = n]
  BY <1>1, <1>2 DEF Drain, Inv, TypeOK, Session
<1> HIDE DEF n, w, g
<1>6. Kept(r, n)
  BY <1>1, <1>4, <1>5, <1>3 DEF Drain, Kept, Sound, Complete
<1> QED
  BY <1>4, <1>6, <1>2 DEF Ordinary, Drain, memory, counts, Inv, TypeOK, ActiveInv

LEMMA DrainRaisesIsOrdinary ==
  ASSUME Inv, NEW r \in Rec, DrainRaises(r) PROVE Ordinary(r)
<1> DEFINE n == [rec[r] EXCEPT !.stop = "over"]
<1>1. rec[r] \in Session
  BY DEF Inv, TypeOK
<1>2. Kept(r, n)
  BY <1>1 DEF DrainRaises, Kept, Inv, TypeOK, Session,
              FilesInv, Sound, Complete
<1>3. n \in Session /\ rec[r].stop # "none" /\ n.finalize = rec[r].finalize
  BY <1>1 DEF DrainRaises, Session
<1> QED
  BY <1>2, <1>3 DEF Ordinary, DrainRaises, memory, counts, Inv,
                    TypeOK, ActiveInv

LEMMA StdinClosedIsOrdinary ==
  ASSUME Inv, NEW r \in Rec, StdinClosed(r) PROVE Ordinary(r)
<1>1. rec[r] \in Session /\ Sound(rec[r])
  BY DEF Inv, TypeOK, FilesInv
<1> DEFINE n == [rec[r] EXCEPT !.stop = "exit", !.rest = FALSE]
<1>2. /\ n \in Session /\ n.files = rec[r].files /\ n.chan = rec[r].chan
      /\ n.finalize = rec[r].finalize /\ n.start = rec[r].start /\ n.stop = "exit"
      /\ n.encoder = rec[r].encoder /\ n.writer = rec[r].writer
      /\ n.made = rec[r].made /\ n.givenUp = rec[r].givenUp
  BY <1>1 DEF Session
<1>3. rec' = [rec EXCEPT ![r] = n]
  BY <1>1 DEF StdinClosed, Inv, TypeOK, Session
<1> HIDE DEF n
<1>4. Kept(r, n)
  BY <1>1, <1>2, <1>3 DEF StdinClosed, Kept, Sound, Complete
<1> QED
  BY <1>2, <1>4 DEF Ordinary, StdinClosed, memory, counts, Inv, TypeOK, ActiveInv

(* and what happens to recorder, encoder and writer.                       *)
LEMMA DisconnectedIsOrdinary ==
  ASSUME Inv, NEW r \in Rec, Disconnected(r) PROVE Ordinary(r)
<1>1. rec[r] \in Session /\ Sound(rec[r])
  BY DEF Inv, TypeOK, FilesInv
<1> DEFINE n == [rec[r] EXCEPT !.present = FALSE]
<1>2. /\ n \in Session /\ n.files = rec[r].files /\ n.chan = rec[r].chan
      /\ n.finalize = rec[r].finalize /\ n.start = rec[r].start /\ n.stop = rec[r].stop
      /\ n.encoder = rec[r].encoder /\ n.writer = rec[r].writer
      /\ n.made = rec[r].made /\ n.givenUp = rec[r].givenUp
  BY <1>1 DEF Session
<1>3. rec' = [rec EXCEPT ![r] = n]
  BY <1>1 DEF Disconnected, Inv, TypeOK, Session
<1> HIDE DEF n
<1>4. Kept(r, n)
  BY <1>1, <1>2, <1>3 DEF Disconnected, Kept, Sound, Complete
<1>5. faults' \in 0 .. MaxFault
  BY ConstantsAssumption DEF Disconnected, Inv, TypeOK
<1> QED
  BY <1>2, <1>4, <1>5 DEF Ordinary, Disconnected, memory, counts, Inv, TypeOK, ActiveInv

LEMMA WriterEndsIsOrdinary ==
  ASSUME Inv, NEW r \in Rec, WriterEnds(r) PROVE Ordinary(r)
<1>1. rec[r] \in Session /\ Sound(rec[r])
  BY DEF Inv, TypeOK, FilesInv
<1>2. PICK w \in {"ended", "broken"} : rec' = [rec EXCEPT ![r].writer = w]
  BY DEF WriterEnds
<1> DEFINE n == [rec[r] EXCEPT !.writer = w]
<1>3. /\ n \in Session /\ n.files = rec[r].files /\ n.chan = rec[r].chan
      /\ n.finalize = rec[r].finalize /\ n.start = rec[r].start /\ n.stop = rec[r].stop
      /\ n.encoder = rec[r].encoder /\ n.writer = w
      /\ n.made = rec[r].made /\ n.givenUp = rec[r].givenUp
  BY <1>1, <1>2 DEF Session
<1>4. rec' = [rec EXCEPT ![r] = n]
  BY <1>1, <1>2 DEF WriterEnds, Inv, TypeOK, Session
<1> HIDE DEF n
<1>5. Kept(r, n)
  BY <1>1, <1>3, <1>4, <1>2 DEF WriterEnds, Kept, Sound, Complete
<1> QED
  BY <1>3, <1>5, <1>2 DEF Ordinary, WriterEnds, memory, counts, Inv, TypeOK, ActiveInv

LEMMA EncoderFailsIsOrdinary ==
  ASSUME Inv, NEW r \in Rec, EncoderFails(r) PROVE Ordinary(r)
<1>1. PICK e \in {"dead", "stuck"} : rec' = [rec EXCEPT ![r].encoder = e]
  BY DEF EncoderFails
<1> DEFINE n == [rec[r] EXCEPT !.encoder = e]
<1>2. rec[r] \in Session
  BY DEF Inv, TypeOK
<1>3. Kept(r, n)
  BY <1>1, <1>2 DEF EncoderFails, Kept, Inv, TypeOK, Session, FilesInv, Sound, Complete
<1>4. n \in Session /\ n.stop = rec[r].stop /\ n.finalize = rec[r].finalize
  BY <1>1, <1>2 DEF Session
<1>5. faults' \in 0 .. MaxFault
  BY ConstantsAssumption DEF EncoderFails, Inv, TypeOK
<1> HIDE DEF n
<1> QED
  BY <1>3, <1>4, <1>5 DEF Ordinary, EncoderFails, memory, counts, Inv, TypeOK, ActiveInv

LEMMA EncoderReadsIsOrdinary ==
  ASSUME Inv, NEW r \in Rec, EncoderReads(r) PROVE Ordinary(r)
<1> DEFINE n == [rec[r] EXCEPT !.rest = FALSE]
<1>1. rec[r] \in Session
  BY DEF Inv, TypeOK
<1>2. Kept(r, n)
  BY <1>1 DEF EncoderReads, Kept, Inv, TypeOK, Session,
              FilesInv, Sound, Complete
<1>3. n \in Session /\ n.stop = rec[r].stop /\ n.finalize = rec[r].finalize
  BY <1>1 DEF Session
<1> HIDE DEF n
<1> QED
  BY <1>2, <1>3 DEF Ordinary, EncoderReads, memory, counts, Inv,
                    TypeOK, ActiveInv

LEMMA EncoderEndsIsOrdinary ==
  ASSUME Inv, NEW r \in Rec, EncoderEnds(r) PROVE Ordinary(r)
<1>1. rec[r] \in Session /\ Sound(rec[r])
  BY DEF Inv, TypeOK, FilesInv
<1> DEFINE m == IF rec[r].writer = "ended" THEN "all" ELSE "part"
<1>2. m \in {"all", "part"} /\ (m = "part" => rec[r].writer # "ended")
  OBVIOUS
<1> DEFINE n == [rec[r] EXCEPT !.encoder = "ended", !.made = m]
<1>3. /\ n \in Session /\ n.files = rec[r].files /\ n.chan = rec[r].chan
      /\ n.finalize = rec[r].finalize /\ n.start = rec[r].start /\ n.stop = rec[r].stop
      /\ n.encoder = "ended" /\ n.writer = rec[r].writer
      /\ n.made = m /\ n.givenUp = rec[r].givenUp
  <2>1. n \in Session
    <3> HIDE DEF m
    <3> QED
      BY <1>1, <1>2, EncodedType
  <2> HIDE DEF m
  <2> QED
    BY <1>1, <2>1 DEF Session
<1>4. rec' = [rec EXCEPT ![r] = n]
  BY <1>1 DEF EncoderEnds, Inv, TypeOK, Session
<1> HIDE DEF n, m
<1>5. Kept(r, n)
  BY <1>1, <1>2, <1>3, <1>4 DEF EncoderEnds, Kept, Sound, Complete
<1> QED
  BY <1>3, <1>5 DEF Ordinary, EncoderEnds, memory, counts, Inv, TypeOK, ActiveInv

-----------------------------------------------------------------------------
(* The steps that are not: a recording begins, its files appear or go, the *)
(* shutdown begins and the server boots.                                   *)
LEMMA StartKeepsInv ==
  ASSUME Inv, NEW r \in Rec, NEW c \in Channel, Start(r, c)
  PROVE  Inv'
<1> USE ConstantsAssumption
<1> DEFINE n == [Unused EXCEPT !.chan = c, !.start = "spawn"]
<1>1. n \in Session /\ n.chan = c /\ n.files = {} /\ n.stop = "none" /\ Sound(n)
  BY DEF Unused, Session, Sound
<1>2. rec[r] = Unused /\ rec' = [rec EXCEPT ![r] = n] /\ rec[r].chan = None
  BY DEF Start, Unused, Inv, TypeOK, Session
<1>3. /\ rec' \in [Rec -> Session] /\ rec'[r] = n
      /\ \A q \in Rec : q # r => rec'[q] = rec[q]
  BY <1>1, <1>2, Replaced DEF Inv
<1> HIDE DEF n
<1>4. active' = active \cup {r} /\ index' = [index EXCEPT ![c] = r]
  BY DEF Start
<1>5. TypeOK'
  BY <1>3, <1>4 DEF Start, counts, Inv, TypeOK
<1>6. IndexedIsActive'
  BY <1>1, <1>2, <1>3, <1>4 DEF Inv, TypeOK, IndexedIsActive
<1>7. ActiveInv'
  BY <1>1, <1>3, <1>4 DEF Inv, TypeOK, ActiveInv
<1>8. FilesInv'
  BY <1>1, <1>3 DEF Inv, FilesInv
<1>9. ClosingInv'
  BY DEF Start, Serving, ClosingInv
<1> QED
  BY <1>5, <1>6, <1>7, <1>8, <1>9 DEF Inv

LEMMA FilesKeepInv ==
  ASSUME Inv, NEW r \in Rec, Finalize(r) \/ Delete(r)
  PROVE  Inv'
<1>1. rec[r] \in Session /\ Sound(rec[r])
  BY DEF Inv, TypeOK, FilesInv
<1>2. PICK n \in Session :
        /\ rec' = [rec EXCEPT ![r] = n]
        /\ n.chan = rec[r].chan /\ Sound(n)
        /\ n.files # {} => n.finalize
        /\ r \in active => rec[r].stop # "none" /\ n.finalize = rec[r].finalize
  <2>1. CASE Finalize(r)
    <3> DEFINE fs == IF rec[r].finalize /\ EncodedWell(r) THEN {"mp3", "json"} ELSE {}
               n == [rec[r] EXCEPT !.stop = "over", !.part = FALSE,
                       !.encoder = "none", !.writer = "none", !.files = fs]
    <3>4. fs \in SUBSET {"mp3", "json"} /\ (fs # {} => rec[r].finalize /\ EncodedWell(r))
      OBVIOUS
    <3>1. /\ n \in Session /\ n.chan = rec[r].chan /\ n.finalize = rec[r].finalize
          /\ n.start = rec[r].start /\ n.stop = "over" /\ n.encoder = "none"
          /\ n.made = rec[r].made /\ n.givenUp = rec[r].givenUp
          /\ n.files = fs
      <4> HIDE DEF fs
      <4> QED
        BY <1>1, <3>4 DEF Session
    <3>2. rec' = [rec EXCEPT ![r] = n]
      BY <1>1, <2>1 DEF Finalize, Inv, TypeOK, Session
    <3> HIDE DEF n, fs
    <3>3. Sound(n) /\ (n.files # {} => n.finalize)
      BY <1>1, <2>1, <3>1, <3>4 DEF Finalize, EncodedWell, Sound, Complete
    <3> QED
      BY <2>1, <3>1, <3>2, <3>3 DEF Finalize
  <2>2. CASE Delete(r)
    <3> DEFINE n == [rec[r] EXCEPT !.files = {}]
    <3>1. n \in Session /\ n.chan = rec[r].chan /\ n.files = {} /\ Sound(n)
      BY <1>1 DEF Session, Sound, Complete
    <3>2. rec' = [rec EXCEPT ![r] = n]
      BY <1>1, <2>2 DEF Delete, Inv, TypeOK, Session
    <3> QED
      BY <2>2, <3>1, <3>2 DEF Delete
  <2> QED
    BY <2>1, <2>2
<1>3. UNCHANGED <<memory, counts>>
  BY DEF Finalize, Delete
<1>4. /\ rec' \in [Rec -> Session] /\ rec'[r] = n
      /\ \A q \in Rec : q # r => rec'[q] = rec[q]
  BY <1>2, Replaced DEF Inv
<1>5. TypeOK'
  BY <1>3, <1>4 DEF memory, counts, Inv, TypeOK
<1>6. IndexedIsActive'
  BY <1>2, <1>3, <1>4 DEF memory, Inv, TypeOK, IndexedIsActive
<1>7. ActiveInv'
  BY <1>2, <1>3, <1>4 DEF memory, Inv, TypeOK, ActiveInv
<1>8. FilesInv'
  BY <1>2, <1>4 DEF Inv, FilesInv
<1>9. ClosingInv'
  BY <1>3 DEF memory, counts, Serving, Inv, ClosingInv
<1> QED
  BY <1>5, <1>6, <1>7, <1>8, <1>9 DEF Inv

LEMMA ClosingStartsKeepsInv ==
  ASSUME Inv, ClosingStarts
  PROVE  Inv'
BY DEF Inv, ClosingStarts, counts, TypeOK, IndexedIsActive, ActiveInv, FilesInv,
       ClosingInv, Serving

(* Whatever files a stopped process leaves, those it listed were complete.  *)
LEMMA BootKeepsInv ==
  ASSUME Inv, NEW f \in [Rec -> SUBSET {"mp3", "json"}], Boot(f), stops < MaxStop,
         \A r \in Rec : f[r] = {"mp3", "json"} => Listed(r)
  PROVE  Inv'
<1> USE ConstantsAssumption
<1> DEFINE n(r) == [Unused EXCEPT !.chan = rec[r].chan, !.start = "over",
                      !.stop = "over", !.made = rec[r].made,
                      !.givenUp = rec[r].givenUp, !.files = f[r]]
<1>1. Unused \in Session /\ Sound(Unused)
  BY DEF Unused, Session, Sound
<1>2. ASSUME NEW r \in Rec
      PROVE  n(r) \in Session /\ Sound(n(r))
  <2>1. rec[r] \in Session /\ Sound(rec[r])
    BY DEF Inv, TypeOK, FilesInv
  <2>2. f[r] \in SUBSET {"mp3", "json"} /\ (f[r] = {"mp3", "json"} => Complete(rec[r]))
    BY <2>1 DEF Listed, Sound
  <2>3. /\ n(r) \in Session /\ n(r).files = f[r] /\ n(r).stop = "over"
        /\ n(r).start = "over" /\ n(r).encoder = "none"
        /\ n(r).made = rec[r].made /\ n(r).givenUp = rec[r].givenUp
    <3>1. /\ rec[r].chan \in Channel \cup {None} /\ rec[r].givenUp \in BOOLEAN
          /\ rec[r].made \in {"nothing", "part", "all"}
      BY <2>1 DEF Session
    <3> QED
      BY <2>2, <3>1 DEF Unused, Session
  <2> QED
    BY <2>2, <2>3 DEF Sound, Complete
<1>3. \A r \in Rec : rec'[r] = IF rec[r] = Unused THEN Unused ELSE n(r)
  BY DEF Boot, Recovered
<1>4. rec' \in [Rec -> Session]
  BY <1>1, <1>2 DEF Boot, Recovered
<1> HIDE DEF n
<1>5. active' = {} /\ index' = [c \in Channel |-> None] /\ closing' = None
  BY DEF Boot
<1>6. TypeOK'
  <2>1. stops' \in 0 .. MaxStop /\ faults' \in 0 .. MaxFault
    <3>1. stops' = stops + 1 /\ faults' = faults
      BY DEF Boot
    <3> QED
      BY <3>1 DEF Inv, TypeOK
  <2> QED
    BY <1>4, <1>5, <2>1 DEF Boot, TypeOK
<1>7. IndexedIsActive' /\ ActiveInv' /\ ClosingInv'
  BY <1>5 DEF IndexedIsActive, ActiveInv, ClosingInv, Serving
<1>8. FilesInv'
  BY <1>1, <1>2, <1>3 DEF FilesInv
<1> QED
  BY <1>6, <1>7, <1>8 DEF Inv

(* The two ways a process stops. *)
LEMMA FilesType == Inv => Files \in [Rec -> SUBSET {"mp3", "json"}]
BY DEF Inv, TypeOK, Session, Files

LEMMA CrashKeepsInv ==
  ASSUME Inv, Crash
  PROVE  Inv'
<1>1. Files \in [Rec -> SUBSET {"mp3", "json"}] /\ \A r \in Rec : Files[r] = rec[r].files
  BY FilesType DEF Files
<1>2. stops < MaxStop
  BY DEF Crash
<1>3. CASE Boot(Files)
  BY <1>1, <1>2, <1>3, BootKeepsInv DEF Listed
<1>4. ASSUME NEW r \in Rec, NEW g \in {{"mp3"}, {"json"}}, Boot([Files EXCEPT ![r] = g])
      PROVE  Inv'
  <2> DEFINE f == [Files EXCEPT ![r] = g]
  <2>1. f \in [Rec -> SUBSET {"mp3", "json"}]
    BY <1>1
  <2>2. g # {"mp3", "json"}
    OBVIOUS
  <2>3. \A q \in Rec : f[q] = {"mp3", "json"} => Listed(q)
    BY <1>1, <2>2 DEF Listed
  <2> HIDE DEF f
  <2> QED
    BY <1>2, <1>4, <2>1, <2>3, BootKeepsInv DEF f
<1> QED
  BY <1>3, <1>4 DEF Crash

LEMMA ExitKeepsInv ==
  ASSUME Inv, Exit
  PROVE  Inv'
<1>1. stops < MaxStop
  BY DEF Exit, Inv, ClosingInv
<1>2. Files \in [Rec -> SUBSET {"mp3", "json"}] /\ \A r \in Rec : Files[r] = rec[r].files
  BY FilesType DEF Files
<1> QED
  BY <1>1, <1>2, BootKeepsInv DEF Exit, Listed

LEMMA NextKeepsInv == Inv /\ [Next]_vars => Inv'
<1> SUFFICES ASSUME Inv, [Next]_vars PROVE Inv'
  OBVIOUS
<1>1. ASSUME NEW r \in Rec, StartStep(r) PROVE Inv'
  <2>1. Ordinary(r)
    BY <1>1, SpawnedIsOrdinary, SpawnFailsIsOrdinary, ConnectedIsOrdinary,
       ConnectFailsIsOrdinary, ConnectFailsStoppedIsOrdinary, FailedStartEndsIsOrdinary
       DEF StartStep
  <2> QED
    BY <2>1, OrdinaryKeepsInv
<1>2. ASSUME NEW r \in Rec, StopStep(r) PROVE Inv'
  <2>1. Ordinary(r) \/ Finalize(r)
    BY <1>2, StopAfterDisconnectIsOrdinary, LeaveRoomIsOrdinary, DrainIsOrdinary,
       DrainRaisesIsOrdinary, StdinClosedIsOrdinary DEF StopStep
  <2> QED
    BY <2>1, OrdinaryKeepsInv, FilesKeepInv
<1>3. ASSUME NEW r \in Rec,
             \/ RequestStop(r) \/ CloseOne(r) \/ EncoderStep(r)
             \/ Disconnected(r) \/ WriterEnds(r) \/ EncoderFails(r)
      PROVE  Inv'
  <2>1. Ordinary(r)
    BY <1>3, RequestStopIsOrdinary, CloseOneIsOrdinary, DisconnectedIsOrdinary,
       WriterEndsIsOrdinary, EncoderFailsIsOrdinary, EncoderReadsIsOrdinary,
       EncoderEndsIsOrdinary DEF EncoderStep
  <2> QED
    BY <2>1, OrdinaryKeepsInv
<1>4. ASSUME NEW r \in Rec, Delete(r) PROVE Inv'
  BY <1>4, FilesKeepInv
<1>5. ASSUME NEW r \in Rec, NEW c \in Channel, Start(r, c) PROVE Inv'
  BY <1>5, StartKeepsInv
<1>6. ASSUME UNCHANGED vars PROVE Inv'
  BY <1>6 DEF vars, memory, counts, Inv, TypeOK, IndexedIsActive, ActiveInv, FilesInv,
              ClosingInv, Serving
<1> QED
  BY <1>1, <1>2, <1>3, <1>4, <1>5, <1>6, ClosingStartsKeepsInv, ExitKeepsInv, CrashKeepsInv
     DEF Next

-----------------------------------------------------------------------------
(* The inductive invariant: an active recording has no file, files are     *)
(* there only after a stop that ended well, the shutdown forgets nobody.   *)
THEOREM Invariance == Spec => []Inv
BY InitInv, NextKeepsInv, PTL DEF Spec

(* Every variable keeps its type. *)
THEOREM TypeCorrect == Spec => []TypeOK
<1>1. Inv => TypeOK
  BY DEF Inv
<1> QED
  BY <1>1, Invariance, PTL

(* A channel that may not be recorded is being recorded (409 of a start).  *)
THEOREM NobodyBlocksAChannel == Spec => []IndexedIsActive
<1>1. Inv => IndexedIsActive
  BY DEF Inv
<1> QED
  BY <1>1, Invariance, PTL

(* What the list offers is over, and was made by an encoder that came to   *)
(* the end of the mixed audio, or of what was written of it by a writer    *)
(* that the stop gave up after five seconds.                               *)
THEOREM CompletedIsComplete == Spec => []ListedIsComplete
<1>1. Inv => ListedIsComplete
  BY DEF Inv, TypeOK, ActiveInv, FilesInv, Sound, Complete, Listed, ListedIsComplete
<1> QED
  BY <1>1, Invariance, PTL

(* A shutdown leaves no recording active (close).                          *)
THEOREM ShutdownsAreComplete == Spec => ShutdownStopsAll
<1>1. Inv /\ [Next]_vars => [Exit => active = {}]_vars
  BY DEF Inv, ClosingInv, Exit, AllClosed
<1> QED
  BY <1>1, Invariance, PTL DEF Spec, ShutdownStopsAll

-----------------------------------------------------------------------------
(* Which steps take a completed recording off the list. *)
Off(q) == Listed(q) /\ rec'[q].files # rec[q].files

LEMMA OrdinaryTakesNoneOff ==
  ASSUME Inv, NEW r \in Rec, Ordinary(r), NEW q \in Rec
  PROVE  ~Off(q)
<1>1. PICK n \in Session : Kept(r, n)
  BY DEF Ordinary
<1>2. rec'[r] = n /\ (q # r => rec'[q] = rec[q])
  BY <1>1, Replaced DEF Kept, Inv
<1> QED
  BY <1>1, <1>2 DEF Kept, Off

LEMMA EncoderTakesNoneOff ==
  ASSUME Inv, NEW r \in Rec, Finalize(r) \/ (\E c \in Channel : Start(r, c)),
         NEW q \in Rec
  PROVE  ~Off(q)
<1>1. q # r => rec'[q] = rec[q]
  BY DEF Finalize, Start, Inv, TypeOK
<1>2. ~Listed(r)
  <2>1. CASE Finalize(r)
    BY <2>1 DEF Finalize, Inv, FilesInv, Sound, Listed
  <2>2. CASE \E c \in Channel : Start(r, c)
    BY <2>2 DEF Start, Unused, Listed
  <2> QED
    BY <2>1, <2>2
<1> QED
  BY <1>1, <1>2 DEF Off

LEMMA DeleteTakesOneOff ==
  ASSUME Inv, NEW r \in Rec, Delete(r), NEW q \in Rec, Off(q)
  PROVE  q = r
BY DEF Delete, Off, Inv, TypeOK

(* A boot takes off those whose files the end of the process took.         *)
LEMMA BootKeepsFiles ==
  ASSUME Inv, NEW f \in [Rec -> SUBSET {"mp3", "json"}], Boot(f),
         NEW q \in Rec, Off(q)
  PROVE  f[q] # rec[q].files
<1>1. rec[q] # Unused
  BY DEF Off, Listed, Unused
<1>2. rec'[q] = [Unused EXCEPT !.chan = rec[q].chan, !.start = "over",
                   !.stop = "over", !.made = rec[q].made,
                   !.givenUp = rec[q].givenUp, !.files = f[q]]
  BY <1>1 DEF Boot, Recovered
<1>3. rec'[q].files = f[q]
  BY <1>2 DEF Unused
<1> QED
  BY <1>3 DEF Off

LEMMA ExitTakesNoneOff ==
  ASSUME Inv, Exit, NEW q \in Rec
  PROVE  ~Off(q)
BY FilesType, BootKeepsFiles DEF Exit, Files

LEMMA CrashTakesOneOff ==
  ASSUME Inv, Crash
  PROVE  \E r \in Rec \cup {None} : \A q \in Rec : Off(q) => q = r
<1>1. Files \in [Rec -> SUBSET {"mp3", "json"}] /\ \A r \in Rec : Files[r] = rec[r].files
  BY FilesType DEF Files
<1>2. CASE Boot(Files)
  BY <1>1, <1>2, BootKeepsFiles
<1>3. ASSUME NEW r \in Rec, NEW g \in {{"mp3"}, {"json"}}, Boot([Files EXCEPT ![r] = g]),
             NEW q \in Rec, Off(q)
      PROVE  q = r
  <2> DEFINE f == [Files EXCEPT ![r] = g]
  <2>1. f \in [Rec -> SUBSET {"mp3", "json"}] /\ (q # r => f[q] = rec[q].files)
    BY <1>1
  <2> HIDE DEF f
  <2>2. Boot(f)
    BY <1>3 DEF f
  <2> QED
    BY <1>3, <2>1, <2>2, BootKeepsFiles
<1> QED
  BY <1>2, <1>3 DEF Crash

LEMMA StepTakesOneOff ==
  ASSUME Inv, [Next]_vars
  PROVE  \A r \in Vanishing : Vanishing = {r} /\ (Delete(r) \/ Crash)
<1>1. Vanishing = {q \in Rec : Off(q)}
  BY DEF Vanishing, Off
<1>2. ASSUME NEW r \in Rec, Delete(r)
      PROVE  \A q \in Vanishing : Vanishing = {q} /\ Delete(q)
  BY <1>1, <1>2, DeleteTakesOneOff
<1>3. ASSUME Crash PROVE \A q \in Vanishing : Vanishing = {q}
  BY <1>1, <1>3, CrashTakesOneOff
<1>4. ASSUME NEW r \in Rec,
             \/ \E c \in Channel : Start(r, c)
             \/ StartStep(r) \/ StopStep(r) \/ EncoderStep(r) \/ RequestStop(r)
             \/ CloseOne(r) \/ Disconnected(r) \/ WriterEnds(r) \/ EncoderFails(r)
      PROVE  Vanishing = {}
  <2>1. Ordinary(r) \/ Finalize(r) \/ (\E c \in Channel : Start(r, c))
    BY <1>4, SpawnedIsOrdinary, SpawnFailsIsOrdinary, ConnectedIsOrdinary,
       ConnectFailsIsOrdinary, ConnectFailsStoppedIsOrdinary, FailedStartEndsIsOrdinary,
       StopAfterDisconnectIsOrdinary, LeaveRoomIsOrdinary, DrainIsOrdinary,
       DrainRaisesIsOrdinary, RequestStopIsOrdinary, CloseOneIsOrdinary,
       DisconnectedIsOrdinary, WriterEndsIsOrdinary, EncoderFailsIsOrdinary,
       StdinClosedIsOrdinary, EncoderReadsIsOrdinary, EncoderEndsIsOrdinary
       DEF StartStep, StopStep, EncoderStep
  <2> QED
    BY <1>1, <2>1, OrdinaryTakesNoneOff, EncoderTakesNoneOff
<1>5. ASSUME Exit PROVE Vanishing = {}
  BY <1>1, <1>5, ExitTakesNoneOff
<1>6. ASSUME ClosingStarts \/ UNCHANGED vars PROVE Vanishing = {}
  BY <1>1, <1>6 DEF ClosingStarts, vars, Off
<1> QED
  BY <1>2, <1>3, <1>4, <1>5, <1>6 DEF Next

(* A completed recording is taken off the list by its deletion or by a     *)
(* crash in the middle of it, and no other with it.                        *)
THEOREM CompletedStays == Spec => ListedStays
<1>1. Inv /\ [Next]_vars =>
        [\A r \in Vanishing : Vanishing = {r} /\ (Delete(r) \/ Crash)]_vars
  BY StepTakesOneOff
<1> QED
  BY <1>1, Invariance, PTL DEF Spec, ListedStays

=============================================================================
