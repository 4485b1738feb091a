--------------------------- MODULE TranslateWorker --------------------------
(***************************************************************************)
(* One run of an AI interpreter: it joins the LiveKit room, opens a        *)
(* session upstream, and until it is cancelled or loses that session it    *)
(* sends the frames the gate lets through, publishes what comes back, and  *)
(* renews the session: it makes a new one, switches to it, and drains and  *)
(* closes the old one.  Then it cancels its tasks and cleans up.           *)
(*                                                                         *)
(* The supervisor, which cancels the run or starts another one, is part of *)
(* AiChannels.  Captions, and frames dropped when the queue is full, are   *)
(* left out.                                                               *)
(***************************************************************************)
EXTENDS Integers, SequencesExt, SilenceGate

CONSTANTS
  MaxSession,  \* bound: sessions a run opens
  MaxFrame,    \* bound: frames of the source
  MaxOutput,   \* bound: outputs of a session
  MaxCancel    \* bound: cancellations of the run

ASSUME WorkerAssumption == {MaxSession, MaxFrame, MaxOutput, MaxCancel} \subseteq Nat

Session == 1..MaxSession
None == 0
Message == [session : Session, kind : {"output", "over", "end"}]

VARIABLES
  pc,        \* where run() waits
  room,      \* the connection to LiveKit: "none", "up" or "gone"
  sock,      \* sessions' sockets
  current,   \* self._session
  making,    \* the session _renew_session connects
  draining,  \* self._draining
  drain,     \* tasks of _drain_and_close
  queue,     \* self._event_q
  receiving, \* the receive loop goes on
  sending,   \* the send loop goes on
  target,    \* the session it waits for in append_audio
  todo,      \* frames the gate has released and the loop has not yet appended
  gate,
  heard,     \* history: for every frame fed, whether it was loud
  appended,  \* history: frames upstream accepted
  emitted,   \* history: outputs of each session
  published, \* history: those published
  lost,      \* history: sessions upstream has ended or reported an error of
  torn,      \* history: sessions whose connect or closing was cancelled half way
  cut,       \* history: the clean-up was cancelled
  cancels    \* history

audio   == <<sending, target, todo, gate, heard, appended>>
output  == <<queue, receiving, emitted, published>>
drains  == <<draining, drain>>
marks   == <<lost, torn, cut, cancels>>
vars == <<pc, room, sock, current, making, drains, output, audio, marks>>

Nothing == [s \in Session |-> 0]

Init ==
  /\ pc = "livekit" /\ room = "none"
  /\ sock = [s \in Session |-> "none"] /\ current = None /\ making = None
  /\ draining = {} /\ drain = [s \in Session |-> "none"]
  /\ queue = <<>> /\ receiving = TRUE /\ emitted = Nothing /\ published = Nothing
  /\ sending = TRUE /\ target = None /\ todo = <<>>
  /\ gate = NewGate /\ heard = <<>> /\ appended = <<>>
  /\ lost = {} /\ torn = {} /\ cut = FALSE /\ cancels = 0

Socket(s) == sock[s] \in {"open", "up"}

-----------------------------------------------------------------------------
(* Upstream: a session speaks, reports an error or its end, or its socket  *)
(* breaks.  A reader puts what it receives into the queue.                 *)

Read(s, kind) == queue' = Append(queue, [session |-> s, kind |-> kind])
Reading(s) == pc = "wait" /\ sock[s] = "up"

Speaks(s) ==
  /\ Reading(s) /\ emitted[s] < MaxOutput
  /\ emitted' = [emitted EXCEPT ![s] = @ + 1]
  /\ Read(s, "output")
  /\ UNCHANGED <<pc, room, sock, current, making, drains, receiving, published, audio, marks>>

Reports(s) ==
  /\ Reading(s) /\ s \notin lost
  /\ lost' = lost \cup {s}
  /\ Read(s, "over")
  /\ UNCHANGED <<pc, room, sock, current, making, drains, receiving, emitted, published, audio,
                 torn, cut, cancels>>

Breaks(s) ==
  /\ Socket(s)
  /\ sock' = [sock EXCEPT ![s] = "gone"]
  /\ lost' = lost \cup {s}
  /\ IF Reading(s) THEN Read(s, "end") ELSE UNCHANGED queue
  /\ UNCHANGED <<pc, room, current, making, drains, receiving, emitted, published, audio,
                 torn, cut, cancels>>

-----------------------------------------------------------------------------
(* Connecting, and the end of the tasks. *)

Fresh(s) == sock[s] = "none" /\ \A r \in 1..(s - 1) : sock[r] # "none"

(* _connect_livekit: room.connect, then publish_track; a connect that fails *)
(* or is cancelled is taken to leave no participant.                       *)
JoinRoom ==
  /\ pc = "livekit" /\ room = "none"
  /\ room' = "up"
  /\ UNCHANGED <<pc, sock, current, making, drains, output, audio, marks>>

(* The track is published; the first session is connected.                 *)
TrackPublished ==
  /\ pc = "livekit" /\ room = "up" /\ MaxSession > 0
  /\ pc' = "connect"
  /\ current' = 1 /\ sock' = [sock EXCEPT ![1] = "opening"]
  /\ UNCHANGED <<room, making, drains, output, audio, marks>>

Opens(s) ==
  /\ sock[s] = "opening"
  /\ sock' = [sock EXCEPT ![s] = "open"]
  /\ UNCHANGED <<pc, room, current, making, drains, output, audio, marks>>

(* session.update is sent: the tasks start. *)
Ready ==
  /\ pc = "connect" /\ sock[current] = "open"
  /\ pc' = "wait" /\ sock' = [sock EXCEPT ![current] = "up"]
  /\ UNCHANGED <<room, current, making, drains, output, audio, marks>>

(* The tasks are cancelled where they wait: in a connect, in a drain, in   *)
(* the closing of a drained session.  What the loops were at, and the      *)
(* history of what they did, are forgotten.                                *)
Leave ==
  /\ pc' = IF pc = "wait" THEN "gather" ELSE "close"
  /\ queue' = <<>> /\ receiving' = TRUE /\ emitted' = Nothing /\ published' = Nothing
  /\ sending' = TRUE /\ target' = None /\ todo' = <<>>
  /\ gate' = NewGate /\ heard' = <<>> /\ appended' = <<>>
  /\ sock' = [s \in Session |-> IF sock[s] = "opening" THEN "gone" ELSE sock[s]]
  /\ torn' = torn \cup {s \in Session : Socket(s) /\ (s = making \/ drain[s] = "closing")}
  /\ making' = None
  /\ drain' = [s \in Session |-> "none"]

(* Joining, publishing or connecting the first session fails: the run ends *)
(* in error.                                                               *)
StartFails ==
  /\ pc \in {"livekit", "connect"}
  /\ pc = "connect" => sock[current] # "open"
  /\ Leave
  /\ UNCHANGED <<room, current, draining, lost, cut, cancels>>

(* The send or the receive loop has ended. *)
WaitEnds ==
  /\ pc = "wait" /\ ~(sending /\ receiving)
  /\ Leave
  /\ UNCHANGED <<room, current, draining, lost, cut, cancels>>

-----------------------------------------------------------------------------
(* The renewal. *)

RenewStarts(s) ==
  /\ pc = "wait" /\ making = None /\ Fresh(s)
  /\ making' = s
  /\ sock' = [sock EXCEPT ![s] = "opening"]
  /\ UNCHANGED <<pc, room, current, drains, output, audio, marks>>

(* connect raises: there is no socket, or it was closed before the update. *)
RenewFails ==
  /\ making # None /\ sock[making] # "open"
  /\ sock' = [sock EXCEPT ![making] = "gone"]
  /\ making' = None
  /\ UNCHANGED <<pc, room, current, drains, output, audio, marks>>

Fault_OldForgotten == draining
WithOld == draining \cup {current}

Switch ==
  /\ making # None /\ sock[making] = "open"
  /\ sock' = [sock EXCEPT ![making] = "up"]
  /\ draining' = WithOld
  /\ drain' = [drain EXCEPT ![current] = "sleep"]
  /\ current' = making /\ making' = None
  /\ UNCHANGED <<pc, room, output, audio, marks>>

(* _drain_and_close *)
DrainEnds(s) ==
  /\ drain[s] = "sleep"
  /\ drain' = [drain EXCEPT ![s] = "closing"]
  /\ draining' = draining \ {s}
  /\ UNCHANGED <<pc, room, sock, current, making, output, audio, marks>>

DrainCloses(s) ==
  /\ drain[s] = "closing"
  /\ drain' = [drain EXCEPT ![s] = "none"]
  /\ sock' = [sock EXCEPT ![s] = "gone"]
  /\ IF Reading(s) THEN Read(s, "end") ELSE UNCHANGED queue
  /\ UNCHANGED <<pc, room, current, making, draining, receiving, emitted, published, audio, marks>>

-----------------------------------------------------------------------------
(* The receive loop: what any session says is published, but only the end  *)
(* of the session in use ends the loop.                                    *)
Active(s) == s = current

Fault_ReportsOnly(m) == m.kind = "over" /\ Active(m.session)
EndsLoop(m) == m.kind # "output" /\ Active(m.session)

Fault_ActiveOnly(m) == m.kind = "output" /\ m.session = current
Publishes(m) == m.kind = "output"

Receive ==
  /\ pc = "wait" /\ receiving /\ queue # <<>>
  /\ LET m == Head(queue) IN
       /\ receiving' = ~EndsLoop(m)
       /\ published' = IF Publishes(m) THEN [published EXCEPT ![m.session] = @ + 1]
                                       ELSE published
  /\ queue' = Tail(queue)
  /\ UNCHANGED <<pc, room, sock, current, making, drains, emitted, audio, marks>>

(* The send loop: the session is read again for every chunk. *)
Waiting(chunks) == IF chunks = <<>> THEN None ELSE current

TakeFrame(loud) ==
  /\ pc = "wait" /\ sending /\ target = None /\ Len(heard) < MaxFrame
  /\ LET f == Len(heard) + 1 IN
       /\ heard' = Append(heard, loud)
       /\ gate' = Fed(gate, f, loud)
       /\ todo' = Released(gate, f, loud)
       /\ target' = Waiting(todo')
  /\ UNCHANGED <<pc, room, sock, current, making, drains, output, sending, appended, marks>>

AppendAudio ==
  /\ pc = "wait" /\ sending /\ target # None /\ sock[target] = "up"
  /\ appended' = Append(appended, Head(todo))
  /\ todo' = Tail(todo)
  /\ target' = Waiting(todo')
  /\ UNCHANGED <<pc, room, sock, current, making, drains, output, sending, gate, heard, marks>>

AppendFails ==
  /\ pc = "wait" /\ sending /\ target # None /\ sock[target] # "up"
  /\ sending' = FALSE
  /\ UNCHANGED <<pc, room, sock, current, making, drains, output, target, todo, gate, heard,
                 appended, marks>>

-----------------------------------------------------------------------------
(* The clean-up, and the cancellation of the run. *)

Gathered ==
  /\ pc = "gather"
  /\ pc' = "close"
  /\ UNCHANGED <<room, sock, current, making, drains, output, audio, marks>>

(* aclose: the drained sessions, the one in use, the room. *)
Fault_OnlyOpen(s) == s \in draining /\ Socket(s)
Closable(s) == s \in draining

CloseOld(s) ==
  /\ pc = "close" /\ Closable(s)
  /\ sock' = [sock EXCEPT ![s] = "gone"]
  /\ draining' = draining \ {s}
  /\ UNCHANGED <<pc, room, current, making, drain, output, audio, marks>>

CloseCurrent ==
  /\ pc = "close" /\ draining = {}
  /\ sock' = IF current = None THEN sock ELSE [sock EXCEPT ![current] = "gone"]
  /\ current' = None
  /\ pc' = "leave"
  /\ UNCHANGED <<room, making, drains, output, audio, marks>>

LeaveRoom ==
  /\ pc = "leave"
  /\ room' = IF room = "up" THEN "gone" ELSE room
  /\ pc' = "over"
  /\ UNCHANGED <<sock, current, making, drains, output, audio, marks>>

(* CancelledError is raised where the run waits: once there its tasks are  *)
(* cancelled and it cleans up, in the clean-up itself it ends at once.     *)
Cancellable == {"livekit", "connect", "wait"}

Cancel ==
  /\ pc # "over" /\ cancels < MaxCancel
  /\ cancels' = cancels + 1
  /\ \/ /\ pc \in Cancellable
        /\ Leave /\ UNCHANGED cut
     \/ /\ pc \in {"gather", "close", "leave"}
        /\ pc' = "over" /\ cut' = TRUE
        /\ UNCHANGED <<sock, making, drain, torn, output, audio>>
  /\ UNCHANGED <<room, current, draining, lost>>

-----------------------------------------------------------------------------
Drains == \E s \in Session : DrainEnds(s) \/ DrainCloses(s)
Loops == Receive \/ (\E loud \in BOOLEAN : TakeFrame(loud)) \/ AppendAudio \/ AppendFails
CleanUp == Gathered \/ (\E s \in Session : CloseOld(s)) \/ CloseCurrent \/ LeaveRoom

Next ==
  \/ \E s \in Session : Speaks(s) \/ Reports(s) \/ Breaks(s) \/ Opens(s) \/ RenewStarts(s)
  \/ JoinRoom \/ TrackPublished \/ Ready \/ StartFails
  \/ RenewFails \/ Switch \/ Drains
  \/ Loops \/ WaitEnds
  \/ CleanUp \/ Cancel

(* What the event loop runs when it can run; drains sleep eight seconds,   *)
(* sockets and rooms are closed within a time limit.                       *)
Fairness ==
  /\ WF_vars(Receive) /\ WF_vars(WaitEnds) /\ WF_vars(Drains) /\ WF_vars(CleanUp)

Spec == Init /\ [][Next]_vars /\ Fairness

-----------------------------------------------------------------------------
(* Properties. *)

(* Every variable keeps its type. *)
TypeOK ==
  /\ pc \in {"livekit", "connect", "wait", "gather", "close", "leave", "over"}
  /\ room \in {"none", "up", "gone"}
  /\ sock \in [Session -> {"none", "opening", "open", "up", "gone"}]
  /\ {current, making, target} \subseteq Session \cup {None}
  /\ draining \subseteq Session /\ drain \in [Session -> {"none", "sleep", "closing"}]
  /\ queue \in Seq(Message) /\ {receiving, sending, cut} \subseteq BOOLEAN
  /\ heard \in Seq(BOOLEAN) /\ {Range(todo), Range(appended)} \subseteq SUBSET (1..Len(heard))
  /\ gate.silence <= Hangover /\ Len(gate.buffer) <= Prebuffer
  /\ {emitted, published} \subseteq [Session -> 0..MaxOutput]
  /\ {lost, torn} \subseteq SUBSET Session
  /\ cancels \in 0..MaxCancel

(* Every loud frame is sent, or about to be, with the frames of the        *)
(* prebuffer before it, each once and in order, across the gate's closing  *)
(* and the switch of sessions.                                             *)
Output == appended \o todo
SpeechIsSent ==
  /\ \A i, j \in 1..Len(Output) : i < j => Output[i] < Output[j]
  /\ \A f \in 1..Len(heard) :
       heard[f] => {n \in 1..f : n >= f - Prebuffer} \subseteq Range(Output)

(* A frame is withheld only in a silence that has lasted for the hangover, *)
(* and the figures of the status say how much was sent and how much not.   *)
SilenceCounted ==
  /\ \A f \in (1..Len(heard)) \ Range(Output) :
       f >= Hangover /\ \A n \in (f - Hangover + 1)..f : ~heard[n]
  /\ gate.sent = Len(Output) /\ gate.gated = Len(heard) - Len(Output)

(* Both at once, and every variable of its type: the gate is exact at each *)
(* of its thresholds.                                                      *)
GateIsExact == TypeOK /\ SpeechIsSent /\ SilenceCounted

(* Nothing that any session has said is dropped or published twice when    *)
(* sessions are switched.                                                  *)
Queued(s) == {i \in 1..Len(queue) : queue[i] = [session |-> s, kind |-> "output"]}
OutputKept == \A s \in Session : emitted[s] = published[s] + Cardinality(Queued(s))

(* A socket that is open is known to somebody who will close it, unless    *)
(* its connect or its closing was cancelled; so a run that is over leaves  *)
(* none but those, and no participant in the room, unless its clean-up was *)
(* cancelled too.                                                          *)
EverySocketKnown ==
  /\ \A s \in Session \ torn :
       Socket(s) => s \in {current, making} \cup draining \/ drain[s] = "closing"
  /\ pc = "over" /\ ~cut => /\ room # "up"
                            /\ \A s \in Session \ torn : ~Socket(s)

(* The receive loop ends only when the session in use was lost: the end or *)
(* an error of an old one, however late it is read, does not end it.       *)
ReceivesUntilLost == [][receiving /\ ~receiving' => current \in lost]_vars

(* A run whose session was lost ends or goes on with another one. *)
LostIsNoticed == (pc = "wait" /\ current \in lost) ~> ~(pc = "wait" /\ current \in lost)

(* Both at once: the loss of the session in use, and of no other, is acted *)
(* upon.                                                                   *)
LossIsActedUpon == ReceivesUntilLost /\ LostIsNoticed

(* A run that is cancelled ends. *)
CancelledEnds == cancels > 0 ~> pc = "over"

(* The clean-up of a run leaves no socket open.                            *)
NothingLeftOpen == pc = "over" => \A s \in Session : ~Socket(s)
=============================================================================
