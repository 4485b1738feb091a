------------------------------ MODULE Recording ------------------------------
(***************************************************************************)
(* Recordings of channels: the manager's table of active recordings and    *)
(* its index by channel, and for each recording the coroutine that starts  *)
(* it, the one that stops it, its encoder process, the task that writes    *)
(* to it, the recorder that LiveKit has in the room and the files.         *)
(*                                                                         *)
(* The manager's lock is held over no await, so nobody ever waits for it.  *)
(* A definition named Fault_... is the one after it with a plausible       *)
(* mistake; only the checks use it.                                        *)
(***************************************************************************)
EXTENDS Integers, FiniteSets

CONSTANTS
  Channel,   \* what is recorded: (kind, channel_id)
  None,
  MaxRec,    \* bound: recordings ever started
  MaxFault,  \* bound: encoders that die or hang, recorders put out of the room
  MaxStop    \* bound: times the server is shut down or killed

Rec == 1 .. MaxRec

(* One recording.  A writer that was given up is cancelled; rest are bytes *)
(* it wrote that the encoder has not read when stdin is closed; an encoder *)
(* that is stuck reads no more.  Two fields are history: what of the mixed *)
(* audio the encoder made an mp3 of, and whether the stop gave its writer  *)
(* up after five seconds.                                                  *)
Session == [
  chan     : Channel \cup {None},
  start    : {"none", "spawn", "connect", "failing", "over"},
  stop     : {"none", "leave", "drain", "close", "exit", "over"},
  finalize : BOOLEAN,
  encoder  : {"none", "running", "stuck", "ended", "dead"},
  writer   : {"none", "writing", "ended", "broken", "cancelled"},
  rest     : BOOLEAN,
  present  : BOOLEAN,
  part     : BOOLEAN,
  files    : SUBSET {"mp3", "json"},
  made     : {"nothing", "part", "all"},
  givenUp  : BOOLEAN]

ASSUME ConstantsAssumption ==
  /\ None \notin Channel \cup Rec /\ \A R \in SUBSET Rec : R # None
  /\ MaxRec \in Nat /\ MaxFault \in Nat /\ MaxStop \in Nat

VARIABLES
  rec,     \* the recordings
  active,  \* RecordingManager._active
  index,   \* RecordingManager._channel_index
  owed,    \* tasks made by the disconnected callback and not run yet
  closing, \* what close() has still to stop, None while the server serves
  closed,  \* what close() stops at the moment
  faults, stops \* history: how many there were

memory == <<active, index, owed, closing, closed>>
counts == <<faults, stops>>
vars == <<rec, memory, counts>>

Unused == [chan |-> None, start |-> "none", stop |-> "none", finalize |-> TRUE,
           encoder |-> "none", writer |-> "none", rest |-> FALSE, present |-> FALSE,
           part |-> FALSE, files |-> {}, made |-> "nothing", givenUp |-> FALSE]

Init ==
  /\ rec = [r \in Rec |-> Unused]
  /\ active = {}
  /\ index = [c \in Channel |-> None]
  /\ owed = {}
  /\ closing = None
  /\ closed = None
  /\ faults = 0 /\ stops = 0

Serving == closing = None
Stopping(r) == rec[r].stop # "none"
Listed(r) == rec[r].files = {"mp3", "json"}

(* Both tables forget a recording; the index by channel, whoever is in it. *)
Fault_IndexKept(r) == active' = active \ {r} /\ UNCHANGED index
Forget(r) ==
  /\ active' = active \ {r}
  /\ index' = [index EXCEPT ![rec[r].chan] = None]

-----------------------------------------------------------------------------
(* The start of a recording. *)

Start(r, c) ==
  /\ Serving
  /\ rec[r] = Unused /\ \A q \in Rec : q < r => rec[q] # Unused
  /\ index[c] = None
  /\ rec' = [rec EXCEPT ![r].chan = c, ![r].start = "spawn"]
  /\ active' = active \cup {r}
  /\ index' = [index EXCEPT ![c] = r]
  /\ UNCHANGED <<owed, closing, closed, counts>>

(* The encoder runs and the writer with it; if the recording was stopped   *)
(* meanwhile the mixer has no more input for the writer.                   *)
Spawned(r) ==
  /\ rec[r].start = "spawn"
  /\ rec' = [rec EXCEPT ![r].start = "connect", ![r].encoder = "running",
                        ![r].writer = IF rec[r].stop = "over" THEN "ended"
                                                              ELSE "writing",
                        ![r].part = TRUE]
  /\ UNCHANGED <<memory, counts>>

StartFails(r) ==
  /\ Forget(r)
  /\ UNCHANGED <<owed, closing, closed, counts>>

SpawnFails(r) ==
  /\ rec[r].start = "spawn"
  /\ rec' = [rec EXCEPT ![r].start = "over"]
  /\ StartFails(r)

Connected(r) ==
  /\ rec[r].start = "connect"
  /\ rec' = [rec EXCEPT ![r].start = "over", ![r].present = TRUE]
  /\ UNCHANGED <<memory, counts>>

(* The session is stopped without a file, unless it is stopped already.    *)
ConnectFails(r) ==
  /\ rec[r].start = "connect" /\ ~Stopping(r)
  /\ rec' = [rec EXCEPT ![r].start = "failing", ![r].stop = "leave",
                        ![r].finalize = FALSE]
  /\ UNCHANGED <<memory, counts>>

ConnectFailsStopped(r) ==
  /\ rec[r].start = "connect" /\ Stopping(r)
  /\ rec' = [rec EXCEPT ![r].start = "over"]
  /\ StartFails(r)

(* The stop of a failed start is over; the start raises.                   *)
FailedStartEnds(r) ==
  /\ rec[r].start = "failing" /\ rec[r].stop = "over"
  /\ rec' = [rec EXCEPT ![r].start = "over"]
  /\ StartFails(r)

-----------------------------------------------------------------------------
(* RecordingManager.stop, for a request, a disconnected recorder or the    *)
(* shutdown.  A session that is stopped by its failing start is left to it *)
(* (and the answer is an error).                                           *)
BeginStop(r) ==
  /\ r \in active
  /\ rec' = IF Stopping(r) THEN rec ELSE [rec EXCEPT ![r].stop = "leave"]
  /\ Forget(r)

RequestStop(r) ==
  /\ Serving
  /\ BeginStop(r)
  /\ UNCHANGED <<owed, closing, closed, counts>>

(* The disconnected callback.                                              *)
Disconnected(r) ==
  /\ rec[r].present /\ faults < MaxFault
  /\ rec' = [rec EXCEPT ![r].present = FALSE]
  /\ owed' = IF Stopping(r) THEN owed ELSE owed \cup {r}
  /\ faults' = faults + 1
  /\ UNCHANGED <<active, index, closing, closed, stops>>

StopAfterDisconnect(r) ==
  /\ r \in owed
  /\ owed' = owed \ {r}
  /\ IF r \in active THEN BeginStop(r) ELSE UNCHANGED <<rec, active, index>>
  /\ UNCHANGED <<closing, closed, counts>>

(* The recorder leaves the room and the mixer gets no more input.  A       *)
(* session that has no encoder yet ends here, without a file.              *)
LeaveRoom(r) ==
  /\ rec[r].stop = "leave"
  /\ rec' = [rec EXCEPT ![r].present = FALSE,
                        ![r].stop = IF rec[r].encoder = "none" THEN "over"
                                                               ELSE "drain"]
  /\ UNCHANGED <<memory, counts>>

(* The writer comes to the end of the mixer or to the end of the pipe.     *)
WriterEnds(r) ==
  /\ rec[r].writer = "writing"
  /\ \E w \in {"ended", "broken"} :
       /\ w = "ended" => rec[r].stop = "drain"
       /\ w = "broken" => rec[r].encoder = "dead"
       /\ rec' = [rec EXCEPT ![r].writer = w]
  /\ UNCHANGED <<memory, counts>>

(* The encoder ends badly, or stalls and reads no more.                    *)
EncoderFails(r) ==
  /\ rec[r].encoder \in {"running", "stuck"} /\ faults < MaxFault
  /\ \E e \in {"dead", "stuck"} \ {rec[r].encoder} :
       rec' = [rec EXCEPT ![r].encoder = e]
  /\ faults' = faults + 1
  /\ UNCHANGED <<memory, stops>>

(* The writer is waited for five seconds and cancelled then, with what the *)
(* mixer still has; stdin is closed, maybe with bytes in its buffer.       *)
Fault_WaitsForever(r) == rec[r].writer = "ended"
Drainable(r) == rec[r].writer \in {"ended", "writing"}

Drain(r) ==
  /\ rec[r].stop = "drain" /\ Drainable(r)
  /\ \E b \in BOOLEAN :
       rec' = [rec EXCEPT ![r].stop = "close", ![r].rest = b,
                          ![r].writer = IF @ = "ended" THEN "ended" ELSE "cancelled",
                          ![r].givenUp = rec[r].writer # "ended"]
  /\ UNCHANGED <<memory, counts>>

(* Nobody catches what the writer raises: the part file stays.             *)
DrainRaises(r) ==
  /\ rec[r].stop = "drain" /\ rec[r].writer = "broken"
  /\ rec' = [rec EXCEPT ![r].stop = "over"]
  /\ UNCHANGED <<memory, counts>>

(* The encoder reads what is in the buffer of its closed stdin, and ends   *)
(* well at the end of it.                                                  *)
EncoderReads(r) ==
  /\ rec[r].encoder = "running" /\ rec[r].rest
  /\ rec' = [rec EXCEPT ![r].rest = FALSE]
  /\ UNCHANGED <<memory, counts>>

EncoderEnds(r) ==
  /\ rec[r].encoder = "running" /\ ~rec[r].rest
  /\ rec[r].stop \in {"close", "exit"}
  /\ rec' = [rec EXCEPT ![r].encoder = "ended",
                        ![r].made = IF rec[r].writer = "ended" THEN "all" ELSE "part"]
  /\ UNCHANGED <<memory, counts>>

(* wait_closed() has no time limit: it returns when the buffer is empty or *)
(* the pipe is broken.                                                     *)
StdinClosed(r) ==
  /\ rec[r].stop = "close"
  /\ ~rec[r].rest \/ rec[r].encoder = "dead"
  /\ rec' = [rec EXCEPT ![r].stop = "exit", ![r].rest = FALSE]
  /\ UNCHANGED <<memory, counts>>

(* The encoder is waited for: it ended, or it is killed after ten seconds. *)
(* The part file becomes the mp3 and the metadata are written, or neither. *)
Fault_AnyExit(r) == TRUE
EncodedWell(r) == rec[r].encoder = "ended"

Finalize(r) ==
  /\ rec[r].stop = "exit"
  /\ rec' = [rec EXCEPT ![r].stop = "over", ![r].part = FALSE,
                        ![r].encoder = "none", ![r].writer = "none",
                        ![r].files = IF rec[r].finalize /\ EncodedWell(r)
                                     THEN {"mp3", "json"} ELSE {}]
  /\ UNCHANGED <<memory, counts>>

-----------------------------------------------------------------------------
(* Deleting, shutting down, crashing and booting. *)

Delete(r) ==
  /\ Serving
  /\ r \notin active /\ "mp3" \in rec[r].files
  /\ rec' = [rec EXCEPT ![r].files = {}]
  /\ UNCHANGED <<memory, counts>>

(* What a stopped process leaves: files, without the parts, which the next *)
(* start of the server deletes.                                            *)
Fault_AnyMp3(f) == f \ {"mp3"}
Recovered(f) == f

Boot(f) ==
  /\ rec' = [r \in Rec |->
       IF rec[r] = Unused THEN Unused
       ELSE [Unused EXCEPT !.chan = rec[r].chan, !.start = "over", !.stop = "over",
                           !.made = rec[r].made, !.givenUp = rec[r].givenUp,
                           !.files = Recovered(f[r])]]
  /\ active' = {}
  /\ index' = [c \in Channel |-> None]
  /\ owed' = {}
  /\ closing' = None
  /\ closed' = None
  /\ stops' = stops + 1
  /\ UNCHANGED faults

Files == [r \in Rec |-> rec[r].files]

(* The process is killed: anywhere, or between the two files of a          *)
(* recording that is finished or deleted.                                  *)
Crash ==
  /\ stops < MaxStop
  /\ \/ Boot(Files)
     \/ \E r \in Rec : /\ rec[r].stop = "exit" /\ rec[r].finalize
                       /\ rec[r].encoder = "ended"
                       /\ Boot([Files EXCEPT ![r] = {"mp3"}])
     \/ \E r \in Rec : Listed(r) /\ Boot([Files EXCEPT ![r] = {"json"}])

(* close(): once the requests are answered the active recordings are       *)
(* stopped one after the other, whether or not one of them fails.  One     *)
(* that a disconnection stops meanwhile is not waited for.                 *)
ClosingStarts ==
  /\ Serving /\ stops < MaxStop
  /\ \A r \in Rec : rec[r].start \in {"none", "over"}
  /\ closing' = active
  /\ UNCHANGED <<rec, active, index, owed, closed, counts>>

OneIsClosed == closed # None => rec[closed].stop = "over"

CloseOne(r) ==
  /\ ~Serving /\ OneIsClosed /\ r \in closing
  /\ closing' = closing \ {r}
  /\ closed' = IF r \in active THEN r ELSE None
  /\ IF r \in active THEN BeginStop(r) ELSE UNCHANGED <<rec, active, index>>
  /\ UNCHANGED <<owed, counts>>

Fault_StopsAtTheFirstError ==
  closing = {} \/ (closed # None /\ ~Listed(closed))
AllClosed == closing = {}

(* The end of the loop cancels the stops that are left.  One that waits    *)
(* for its writer takes that for its timeout, and is waited for.           *)
Exit ==
  /\ ~Serving /\ OneIsClosed /\ AllClosed
  /\ \A r \in Rec : rec[r].stop # "drain"
  /\ Boot(Files)

-----------------------------------------------------------------------------
StartStep(r) ==
  \/ Spawned(r) \/ SpawnFails(r) \/ Connected(r)
  \/ ConnectFails(r) \/ ConnectFailsStopped(r) \/ FailedStartEnds(r)
StopStep(r) ==
  \/ StopAfterDisconnect(r) \/ LeaveRoom(r) \/ Drain(r) \/ DrainRaises(r)
  \/ StdinClosed(r) \/ Finalize(r)
EncoderStep(r) == EncoderReads(r) \/ EncoderEnds(r)

Next ==
  \/ \E r \in Rec : \/ \E c \in Channel : Start(r, c)
                    \/ RequestStop(r) \/ Delete(r)
                    \/ StartStep(r) \/ StopStep(r) \/ EncoderStep(r)
                    \/ Disconnected(r) \/ WriterEnds(r) \/ EncoderFails(r)
                    \/ CloseOne(r)
  \/ ClosingStarts \/ Exit \/ Crash

Spec == Init /\ [][Next]_vars

(* The coroutines of a start and a stop are run: LiveKit and the waits     *)
(* with a time limit come to an end, and an encoder that is not stuck      *)
(* reads what is in its pipe.  A writer need not end, nor an encoder.      *)
FairSpec ==
  Spec /\ \A r \in Rec : /\ WF_vars(StartStep(r)) /\ WF_vars(StopStep(r))
                         /\ WF_vars(EncoderReads(r))

-----------------------------------------------------------------------------
(* Properties. *)

(* Every variable keeps its type. *)
TypeOK ==
  /\ rec \in [Rec -> Session]
  /\ active \subseteq Rec /\ owed \subseteq Rec
  /\ index \in [Channel -> Rec \cup {None}]
  /\ closing = None \/ closing \subseteq Rec
  /\ closed \in Rec \cup {None}
  /\ faults \in 0 .. MaxFault /\ stops \in 0 .. MaxStop

(* A channel that may not be recorded (409) is being recorded: however a   *)
(* start fails or is overtaken by a stop, nothing blocks the channel.      *)
IndexedIsActive ==
  \A c \in Channel : index[c] # None => index[c] \in active /\ rec[index[c]].chan = c

(* What the list offers is over, and its encoder came to the end of all    *)
(* the mixed audio, or, when the stop gave its writer up, of what that had *)
(* written: whatever died, hung or was killed, and in whatever order.      *)
ListedIsComplete ==
  \A r \in Rec : Listed(r) =>
    /\ r \notin active
    /\ rec[r].made = "all" \/ (rec[r].made = "part" /\ rec[r].givenUp)

(* A completed recording stays on the list until somebody deletes it: no  *)
(* start or stop, of this recording or another, takes it off, nor does a   *)
(* shutdown and the boot after it; a crash takes off none but the one      *)
(* whose deletion it interrupts.                                           *)
Vanishing == {r \in Rec : Listed(r) /\ rec'[r].files # rec[r].files}
ListedStays ==
  [][\A r \in Vanishing : Vanishing = {r} /\ (Delete(r) \/ Crash)]_vars

(* A stop ends, though the writer or the encoder hangs or dies, but for    *)
(* one case: an encoder that hangs and has not read what the closed stdin  *)
(* holds is waited for without a limit.  A recording that LiveKit put out  *)
(* of the room is stopped too.                                             *)
MustEnd(r) ==
  r \in owed \cap active \/ rec[r].stop \in {"leave", "drain", "close", "exit"}
Unread(r) == rec[r].stop = "close" /\ rec[r].encoder = "stuck" /\ rec[r].rest
StopsEnd == \A r \in Rec : MustEnd(r) ~> (rec[r].stop = "over" \/ Unread(r))

(* A shutdown stops every active recording before the process exits,       *)
(* although stopping some of them fails.                                   *)
ShutdownStopsAll == [][Exit => active = {}]_vars

(* openapi.yaml: a channel that is already recorded is not recorded again  *)
(* (409).                                                                  *)
OneRecordingPerChannel ==
  \A r, s \in active : rec[r].chan = rec[s].chan => r = s

(* recording.py:288: what ended abnormally is not on the list, since it    *)
(* need not be complete.                                                   *)
NothingCutIsListed == \A r \in Rec : Listed(r) => rec[r].made = "all"
=============================================================================
