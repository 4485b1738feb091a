----------------------------- MODULE SilenceGate ----------------------------
(***************************************************************************)
(* The gate in front of an interpreter's upstream session: after Hangover  *)
(* frames of silence it withholds what comes, keeps the last Prebuffer     *)
(* frames, and releases them with the first loud frame.  Frames have one   *)
(* length, so that the gate's bytes are frames; it is enabled.             *)
(***************************************************************************)
EXTENDS Naturals, Sequences

CONSTANTS
  Hangover,   \* AI_GATE_HANGOVER_SECONDS, in frames
  Prebuffer   \* AI_GATE_PREBUFFER_SECONDS, in frames

ASSUME GateAssumption == Hangover \in Nat \ {0} /\ Prebuffer \in Nat

NewGate == [open |-> TRUE, silence |-> 0, buffer |-> <<>>, sent |-> 0, gated |-> 0]

(* _buffer: the window drops what is older. *)
Fault_OneFrameLess(b) == IF Len(b) >= Prebuffer /\ b # <<>> THEN Tail(b) ELSE b
Window(b) == IF Len(b) > Prebuffer THEN Tail(b) ELSE b

Withheld(g, loud) == ~loud /\ (g.open => g.silence + 1 >= Hangover)

(* What feed(f) has appended: f with the frames kept before it, or nothing. *)
Released(g, f, loud) == IF Withheld(g, loud) THEN <<>> ELSE Append(g.buffer, f)

(* The gate after feed(f). *)
GatedAfter(g) == g.gated - Len(g.buffer)

Fed(g, f, loud) ==
  IF Withheld(g, loud)
  THEN [g EXCEPT !.open    = FALSE,
                 !.silence = IF g.open THEN @ + 1 ELSE @,
                 !.buffer  = Window(Append(@, f)),
                 !.gated   = @ + 1]
  ELSE [open    |-> TRUE,
        silence |-> IF loud THEN 0 ELSE g.silence + 1,
        buffer  |-> <<>>,
        sent    |-> g.sent + Len(g.buffer) + 1,
        gated   |-> GatedAfter(g)]
=============================================================================
