---------------------------- MODULE UsageSessions ---------------------------
(***************************************************************************)
(* Usage sessions: rows of the table usage_sessions, opened and closed by  *)
(* LiveKit's participant_joined and participant_left webhooks, by the end  *)
(* of a channel and by a sweep, and reported to the hub in batches by the  *)
(* UsageReporter until it answers or the attempts are used up.             *)
(*                                                                         *)
(* What becomes of a webhook otherwise is the matter of RelayControl: it   *)
(* may be delivered again after its usage was recorded.  The kind and the  *)
(* language of a session are data the reporter passes on.                  *)
(***************************************************************************)
EXTENDS Integers, FiniteSets

CONSTANTS
  Subject,     \* participants, by the hash of their identity
  Channel,
  ChannelOf,   \* the channel of a speaker, or of a listener's token
  Live,        \* join codes
  None,        \* no live yet, no end yet
  MaxSeconds,  \* USAGE_SESSION_MAX_SECONDS
  MaxAttempts, \* MAX_ATTEMPTS
  BatchSize,   \* BATCH_SIZE
  MaxTime,     \* bound of the clock
  MaxJoin,     \* bound: connections of a participant
  MaxCrash     \* bound: restarts of the server

ASSUME ConstantsAssumption ==
  /\ ChannelOf \in [Subject -> Channel]
  /\ Live # {} /\ None \notin Live /\ None \notin Nat
  /\ {MaxSeconds, MaxAttempts, BatchSize} \subseteq Nat \ {0}
  /\ {MaxTime, MaxJoin, MaxCrash} \subseteq Nat

Event == [kind : {"joined", "left"}, subject : Subject, n : 1..MaxJoin]
Row == [subject : Subject, live : Live, channel : Channel,
        start : 0..MaxTime, end : (0..MaxTime) \cup {None},
        pushed : BOOLEAN, attempts : 0..MaxAttempts]

VARIABLES
  clock,
  joins,    \* connections a participant has made
  present,  \* participants that are connected
  logged,   \* signal_events: the source_event_id of events recorded
  active,   \* AppState._active_join_code
  stored,   \* the setting active_join_code
  table,    \* usage_sessions: id -> row
  lastId,   \* AUTOINCREMENT
  batch,    \* ids the reporter has posted and waits for, {} when it sleeps
  billed,   \* periods the hub has received
  ended,    \* history: periods of rows that were closed
  givenUp,  \* history: those of rows that were sent MaxAttempts times
  crashes   \* history

network  == <<joins, present>>
sessions == <<table, lastId, ended>>
code     == <<active, stored>>
hub      == <<batch, billed, givenUp>>
vars == <<clock, network, logged, code, sessions, hub, crashes>>

Init ==
  /\ clock = 0
  /\ joins = [s \in Subject |-> 0] /\ present = {}
  /\ logged = {}
  /\ active = None /\ stored = None
  /\ table = [i \in {} |-> None] /\ lastId = 0
  /\ batch = {} /\ billed = {}
  /\ ended = {} /\ givenUp = {} /\ crashes = 0

-----------------------------------------------------------------------------
(* LiveKit and the clock. *)

Tick ==
  /\ clock < MaxTime
  /\ clock' = clock + 1
  /\ UNCHANGED <<network, logged, code, sessions, hub, crashes>>

Connect(s) ==
  /\ s \notin present /\ joins[s] < MaxJoin
  /\ joins' = [joins EXCEPT ![s] = @ + 1]
  /\ present' = present \cup {s}
  /\ UNCHANGED <<clock, logged, code, sessions, hub, crashes>>

Disconnect(s) ==
  /\ s \in present
  /\ present' = present \ {s}
  /\ UNCHANGED <<clock, joins, logged, code, sessions, hub, crashes>>

(* The events LiveKit may deliver, once, again, in any order or never. *)
Hooks ==
  {e \in Event : /\ e.n <= joins[e.subject]
                 /\ e.kind = "left" => e.n < joins[e.subject] \/ e.subject \notin present}

-----------------------------------------------------------------------------
(* Sessions. *)

Open(T) == {i \in DOMAIN T : T[i].end = None}
Pending(T) == {i \in DOMAIN T \ Open(T) : ~T[i].pushed}
RunOf(r) == [subject |-> r.subject, live |-> r.live, start |-> r.start]
PeriodOf(r) == [subject |-> r.subject, live |-> r.live, start |-> r.start, end |-> r.end]

(* UPDATE usage_sessions SET ended_at: the open ones among I end at e[i].  *)
Closed(I, e) ==
  [i \in DOMAIN table |-> IF i \in I \cap Open(table) THEN [table[i] EXCEPT !.end = e[i]]
                                                     ELSE table[i]]
AlsoEnded(T) == ended \cup {PeriodOf(T[i]) : i \in Open(table) \ Open(T)}

CloseNow(I) ==
  LET T == Closed(I, [i \in DOMAIN table |-> clock])
  IN  table' = T /\ ended' = AlsoEnded(T) /\ UNCHANGED lastId

(* open_usage_session: not if the participant has an open one. *)
Fault_AlwaysNew(s) == TRUE
MayOpen(s) == \A i \in Open(table) : table[i].subject # s

OpenSession(s) ==
  /\ lastId' = lastId + 1
  /\ table' = [i \in DOMAIN table \cup {lastId + 1} |->
                 IF i = lastId + 1
                 THEN [subject |-> s, live |-> active, channel |-> ChannelOf[s],
                       start |-> clock, end |-> None, pushed |-> FALSE, attempts |-> 0]
                 ELSE table[i]]
  /\ UNCHANGED ended

(* _track_usage *)
Track(e) ==
  IF e.kind = "left"
  THEN CloseNow({i \in DOMAIN table : table[i].subject = e.subject})
  ELSE IF active # None /\ MayOpen(e.subject)
  THEN OpenSession(e.subject)
  ELSE UNCHANGED sessions

(* record_signal_event: only the first delivery of an event is recorded,   *)
(* and its usage tracked in a transaction of its own, which may fail or be *)
(* cut off by a crash.  Joins are delivered only while a session that is   *)
(* opened can still become stale before the clock stops.                   *)
Fault_AnyDelivery(e) == TRUE
FirstDelivery(e) == e \notin logged

Deliver(e) ==
  /\ e \in Hooks /\ FirstDelivery(e)
  /\ e.kind = "joined" => clock + MaxSeconds < MaxTime
  /\ logged' = logged \cup {e}
  /\ Track(e) \/ UNCHANGED sessions
  /\ UNCHANGED <<clock, network, code, hub, crashes>>

(* close_channel and close_open_ai_channels *)
CloseChannel(c) ==
  /\ CloseNow({i \in DOMAIN table : table[i].channel = c})
  /\ UNCHANGED <<clock, network, logged, code, hub, crashes>>

(* note_active_join_code: the setting may not be written. *)
Authenticate(l) ==
  /\ l # active
  /\ active' = l
  /\ stored' \in {l, stored}
  /\ UNCHANGED <<clock, network, logged, sessions, hub, crashes>>

-----------------------------------------------------------------------------
(* The sweep and the reporter. *)

(* close_stale_usage_sessions *)
Swept ==
  Closed({i \in DOMAIN table : table[i].start < clock - MaxSeconds},
         [i \in DOMAIN table |-> table[i].start + MaxSeconds])

(* pending_usage_sessions: B is one of the batches of the oldest ones. *)
OldestOf(T, B) ==
  /\ B \subseteq Pending(T)
  /\ Cardinality(B) = BatchSize \/ B = Pending(T)
  /\ Cardinality(B) <= BatchSize
  /\ \A i \in B, j \in Pending(T) \ B : T[i].end <= T[j].end

Pushed(T, I) == [i \in DOMAIN T |-> IF i \in I THEN [T[i] EXCEPT !.pushed = TRUE] ELSE T[i]]

Fault_OneMore(r) == r.attempts > MaxAttempts
UsedUp(r) == r.attempts >= MaxAttempts

(* _usage_push_sweep up to its await: stale sessions are closed; of the    *)
(* batch those tried too often are given up, and the others are sent.      *)
Sweep(B) ==
  LET T    == Swept
      used == {i \in B : UsedUp(T[i])}
  IN  /\ batch = {} /\ OldestOf(T, B)
      /\ table' = Pushed(T, used)
      /\ batch' = B \ used
      /\ ended' = AlsoEnded(T)
      /\ givenUp' = givenUp \cup
                    {PeriodOf(T[i]) : i \in {j \in used : T[j].attempts >= MaxAttempts}}
      /\ UNCHANGED <<clock, network, logged, code, lastId, billed, crashes>>

HubReceives ==
  /\ batch # {}
  /\ billed' = billed \cup {PeriodOf(table[i]) : i \in batch}
  /\ UNCHANGED <<clock, network, logged, code, sessions, batch, givenUp, crashes>>

(* The hub answers 201 ... *)
Answered == \A i \in batch : PeriodOf(table[i]) \in billed
PushOk ==
  /\ batch # {} /\ Answered
  /\ table' = Pushed(table, batch) /\ batch' = {}
  /\ UNCHANGED <<clock, network, logged, code, lastId, ended, billed, givenUp, crashes>>

(* ... or it does not, whether it has received the batch or not.           *)
Fault_NotCounted(i) == table[i].attempts
Bumped(i) == table[i].attempts + 1

PushFails ==
  /\ batch # {}
  /\ table' = [i \in DOMAIN table |->
                 IF i \in batch THEN [table[i] EXCEPT !.attempts = Bumped(i)] ELSE table[i]]
  /\ batch' = {}
  /\ UNCHANGED <<clock, network, logged, code, lastId, ended, billed, givenUp, crashes>>

(* purge_usage_sessions: rows pushed a week ago. *)
Fault_AnyEnded(i) == i \notin Open(table)
Purgeable(i) == table[i].pushed

Purge(i) ==
  /\ i \in DOMAIN table /\ Purgeable(i)
  /\ table' = [j \in DOMAIN table \ {i} |-> table[j]]
  /\ UNCHANGED <<clock, network, logged, code, lastId, ended, hub, crashes>>

(* The server stops and starts: the live is read from the settings. *)
Restart ==
  /\ crashes < MaxCrash
  /\ crashes' = crashes + 1
  /\ batch' = {} /\ active' = stored
  /\ UNCHANGED <<clock, network, logged, stored, sessions, billed, givenUp>>

-----------------------------------------------------------------------------
Next ==
  \/ Tick
  \/ \E s \in Subject : Connect(s) \/ Disconnect(s)
  \/ \E e \in Event : Deliver(e)
  \/ \E c \in Channel : CloseChannel(c)
  \/ \E l \in Live : Authenticate(l)
  \/ \E B \in SUBSET DOMAIN table : Sweep(B)
  \/ HubReceives \/ PushOk \/ PushFails
  \/ \E i \in DOMAIN table : Purge(i)
  \/ Restart

(* Time goes on, the loop sweeps every minute, and a post to the hub ends  *)
(* after ten seconds at the latest.                                        *)
Fairness ==
  /\ WF_vars(Tick)
  /\ WF_vars(\E B \in SUBSET DOMAIN table : Sweep(B))
  /\ WF_vars(PushOk \/ PushFails)

Spec == Init /\ [][Next]_vars /\ Fairness

-----------------------------------------------------------------------------
(* Properties. *)

(* Every variable keeps its type. *)
TypeOK ==
  /\ clock \in 0..MaxTime
  /\ joins \in [Subject -> 0..MaxJoin] /\ present \subseteq Subject
  /\ logged \subseteq Hooks
  /\ {active, stored} \subseteq Live \cup {None}
  /\ lastId \in Nat /\ DOMAIN table \subseteq 1..lastId
  /\ table \in [DOMAIN table -> Row]
  /\ batch \subseteq Pending(table)
  /\ billed \subseteq ended /\ givenUp \subseteq ended
  /\ crashes \in 0..MaxCrash

(* However often a webhook is delivered and however a participant comes    *)
(* and goes, it is billed at most one period for each connection it made.  *)
OnePeriodPerConnection ==
  \A s \in Subject :
    Cardinality({p \in ended : p.subject = s})
      + Cardinality({i \in Open(table) : table[i].subject = s}) <= joins[s]

(* A period that is over has reached the hub, or will still be sent, or    *)
(* was sent as often as the reporter may: no crash, purge or lost answer   *)
(* makes it disappear before.                                              *)
NothingForgotten ==
  \A p \in ended :
    \/ p \in billed \/ p \in givenUp
    \/ \E i \in Pending(table) : PeriodOf(table[i]) = p

(* Every session is closed some day, and reported or given up: neither a   *)
(* lost webhook nor a hub that never answers leaves it pending for ever.   *)
EverySessionSettled ==
  \A i \in 1..(MaxJoin * Cardinality(Subject)) :
    i \in DOMAIN table ~> (i \in DOMAIN table => table[i].pushed)

(* Reports that are repeated, given up or cut off by a crash are bills of  *)
(* the meter: periods that are over and never overlap.                     *)
Running == {RunOf(table[i]) : i \in Open(table)}
Meter == INSTANCE UsageMeter WITH now <- clock, running <- Running
ImplementsMeter == Meter!Spec
=============================================================================
