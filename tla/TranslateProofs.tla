--------------------------- MODULE TranslateProofs --------------------------
(***************************************************************************)
(* The safety of one run of an interpreter, for any hangover and           *)
(* prebuffer of the gate and any number of sessions, frames, outputs and   *)
(* cancellations.                                                          *)
(***************************************************************************)
EXTENDS TranslateWorker, SequenceTheorems, FiniteSetTheorems, TLAPS

(***************************************************************************)
(* The gate: what it knows after the frames h, of which it has let o       *)
(* through.                                                                *)
(***************************************************************************)
Has(o, k) == \E i \in 1..Len(o) : o[i] = k

GateRecord ==
  [open : BOOLEAN, silence : Nat, buffer : Seq(Nat), sent : Int, gated : Int]

GateTyped(o, h, g) == o \in Seq(Nat) /\ h \in Seq(BOOLEAN) /\ g \in GateRecord

(* The buffer is what came last, at most a window of it, and nothing of    *)
(* that was sent.                                                          *)
BufferInv(o, h, g) ==
  /\ Len(g.buffer) <= Prebuffer /\ Len(g.buffer) <= Len(h)
  /\ \A i \in 1..Len(g.buffer) : g.buffer[i] = Len(h) - Len(g.buffer) + i
  /\ \A i \in 1..Len(o) : 1 <= o[i] /\ o[i] <= Len(h) - Len(g.buffer)
  /\ g.open => g.buffer = <<>>

(* The frames of the window were sent or are in the buffer. *)
WindowInv(o, h, g) ==
  \A k \in 1..Len(h) : k > Len(h) - Prebuffer => Has(o, k) \/ k > Len(h) - Len(g.buffer)

(* The silence counted has been heard; it is the hangover when the gate is *)
(* closed.                                                                 *)
SilenceInv(h, g) ==
  /\ g.silence <= Len(h)
  /\ \A n \in 1..Len(h) : n > Len(h) - g.silence => ~h[n]
  /\ IF g.open THEN g.silence < Hangover ELSE g.silence = Hangover

InOrder(o) == \A i, j \in 1..Len(o) : i < j => o[i] < o[j]
LoudSent(o, h) ==
  \A f \in 1..Len(h) : h[f] => \A n \in 1..f : n >= f - Prebuffer => Has(o, n)
QuietKept(o, h) ==
  \A f \in 1..Len(h) :
    ~Has(o, f) => f >= Hangover /\ \A n \in (f - Hangover + 1)..f : ~h[n]
Counted(o, h, g) == g.sent = Len(o) /\ g.gated = Len(h) - Len(o)

GateInv(o, h, g) ==
  /\ GateTyped(o, h, g) /\ BufferInv(o, h, g) /\ WindowInv(o, h, g) /\ SilenceInv(h, g)
  /\ InOrder(o) /\ LoudSent(o, h) /\ QuietKept(o, h) /\ Counted(o, h, g)

(* A new gate has heard nothing. *)
LEMMA NewGateInv == GateInv(<<>>, <<>>, NewGate)
<1> USE GateAssumption
<1>1. /\ <<>> \in Seq(Nat) /\ <<>> \in Seq(BOOLEAN)
      /\ Len(<<>>) = 0
  OBVIOUS
<1>2. GateTyped(<<>>, <<>>, NewGate)
  BY <1>1 DEF GateTyped, GateRecord, NewGate
<1>3. BufferInv(<<>>, <<>>, NewGate) /\ WindowInv(<<>>, <<>>, NewGate) /\ SilenceInv(<<>>, NewGate)
  BY <1>1 DEF BufferInv, WindowInv, SilenceInv, NewGate
<1>4. InOrder(<<>>) /\ LoudSent(<<>>, <<>>) /\ QuietKept(<<>>, <<>>) /\ Counted(<<>>, <<>>, NewGate)
  BY <1>1 DEF InOrder, LoudSent, QuietKept, Counted, NewGate
<1> QED
  BY <1>2, <1>3, <1>4 DEF GateInv

(* What was sent stays sent, whatever is sent after it. *)
LEMMA HasConcat ==
  ASSUME NEW o \in Seq(Nat), NEW b \in Seq(Nat)
  PROVE  /\ \A k : Has(o, k) => Has(o \o b, k)
         /\ \A k : Has(b, k) => Has(o \o b, k)
         /\ \A k : Has(o \o b, k) => Has(o, k) \/ Has(b, k)
<1>1. /\ Len(o \o b) = Len(o) + Len(b) /\ Len(o) \in Nat /\ Len(b) \in Nat
      /\ \A i \in 1..Len(o) + Len(b) :
           (o \o b)[i] = IF i <= Len(o) THEN o[i] ELSE b[i - Len(o)]
  BY ConcatProperties, LenProperties
<1>2. ASSUME NEW k, Has(o, k) PROVE Has(o \o b, k)
  <2>1. PICK i \in 1..Len(o) : o[i] = k
    BY <1>2 DEF Has
  <2>2. i \in 1..Len(o \o b) /\ (o \o b)[i] = k
    BY <1>1, <2>1
  <2> QED
    BY <2>2 DEF Has
<1>3. ASSUME NEW k, Has(b, k) PROVE Has(o \o b, k)
  <2>1. PICK i \in 1..Len(b) : b[i] = k
    BY <1>3 DEF Has
  <2>2. Len(o) + i \in 1..Len(o \o b) /\ ~(Len(o) + i <= Len(o)) /\ (Len(o) + i) - Len(o) = i
    BY <1>1, <2>1
  <2>3. (o \o b)[Len(o) + i] = k
    BY <1>1, <2>1, <2>2
  <2> QED
    BY <2>2, <2>3 DEF Has
<1>4. ASSUME NEW k, Has(o \o b, k) PROVE Has(o, k) \/ Has(b, k)
  <2>1. PICK i \in 1..Len(o) + Len(b) : (o \o b)[i] = k
    BY <1>1, <1>4 DEF Has
  <2>2. CASE i <= Len(o)
    BY <1>1, <2>1, <2>2 DEF Has
  <2>3. CASE ~(i <= Len(o))
    <3>1. i - Len(o) \in 1..Len(b) /\ b[i - Len(o)] = k
      BY <1>1, <2>1, <2>3
    <3> QED
      BY <3>1 DEF Has
  <2> QED
    BY <2>2, <2>3
<1> QED
  BY <1>2, <1>3, <1>4

(* A gate that closes, or stays closed, is a gate. *)
LEMMA ClosedRecord ==
  ASSUME NEW S, NEW n \in Nat, NEW b \in S, NEW k \in Int, NEW G,
         NEW g \in [open : BOOLEAN, silence : Nat, buffer : S, sent : Int, gated : Int],
         G = [g EXCEPT !.open = FALSE, !.silence = n, !.buffer = b, !.gated = k]
  PROVE  /\ G \in [open : BOOLEAN, silence : Nat, buffer : S, sent : Int, gated : Int]
         /\ G.open = FALSE /\ G.silence = n /\ G.buffer = b /\ G.gated = k /\ G.sent = g.sent
OBVIOUS

(* A frame that is withheld joins the buffer, and the oldest one leaves it *)
(* when the window is full.                                                *)
LEMMA WithheldInv ==
  ASSUME NEW o, NEW h, NEW g, NEW loud \in BOOLEAN,
         GateInv(o, h, g), Withheld(g, loud)
  PROVE  GateInv(o, Append(h, loud), Fed(g, Len(h) + 1, loud))
<1> USE GateAssumption
<1> DEFINE N == Len(h)
           H == Append(h, loud)
           B == Append(g.buffer, N + 1)
           W == Window(B)
           G == Fed(g, N + 1, loud)
<1>1. /\ o \in Seq(Nat) /\ h \in Seq(BOOLEAN) /\ g \in GateRecord
      /\ g.buffer \in Seq(Nat) /\ g.open \in BOOLEAN /\ g.silence \in Nat
      /\ g.sent \in Int /\ g.gated \in Int
  BY DEF GateInv, GateTyped, GateRecord
<1>2. N \in Nat /\ Len(o) \in Nat /\ Len(g.buffer) \in Nat
  BY <1>1, LenProperties
<1>3. /\ H \in Seq(BOOLEAN) /\ Len(H) = N + 1 /\ H[N + 1] = loud
      /\ \A i \in 1..N : H[i] = h[i]
  BY <1>1, <1>2, AppendProperties
<1>4. B \in Seq(Nat) /\ B # <<>> /\ Len(B) = Len(g.buffer) + 1
  BY <1>1, <1>2, AppendProperties
<1>4a. B[Len(g.buffer) + 1] = N + 1 /\ \A i \in 1..Len(g.buffer) : B[i] = g.buffer[i]
  BY <1>1, <1>2, AppendProperties
<1> HIDE DEF H, B, N
<1>5. \A i \in 1..Len(B) : B[i] = N + 1 - Len(B) + i
  <2> SUFFICES ASSUME NEW i \in 1..Len(B) PROVE B[i] = N + 1 - Len(B) + i
    OBVIOUS
  <2>1. CASE i = Len(g.buffer) + 1
    BY <1>2, <1>4, <1>4a, <2>1
  <2>2. CASE i # Len(g.buffer) + 1
    <3>1. i \in 1..Len(g.buffer)
      BY <1>2, <1>4, <2>2
    <3>2. g.buffer[i] = N - Len(g.buffer) + i
      BY <3>1 DEF GateInv, BufferInv, N
    <3>3. B[i] = g.buffer[i]
      BY <1>4a, <3>1
    <3>4. N + 1 - Len(B) + i = N - Len(g.buffer) + i
      BY <1>2, <1>4
    <3> QED
      BY <3>2, <3>3, <3>4
  <2> QED
    BY <2>1, <2>2
<1>6. /\ W \in Seq(Nat) /\ Len(W) \in Nat
      /\ Len(W) = IF Len(B) > Prebuffer THEN Len(B) - 1 ELSE Len(B)
      /\ \A i \in 1..Len(W) : W[i] = N + 1 - Len(W) + i
  <2>1. CASE Len(B) > Prebuffer
    <3> DEFINE T == Tail(B)
    <3>1. Window(B) = T
      BY <2>1 DEF Window
    <3>2. T \in Seq(Nat) /\ Len(T) = Len(B) - 1 /\ \A i \in 1..Len(T) : T[i] = B[i + 1]
      BY <1>4, HeadTailProperties
    <3> HIDE DEF T
    <3>3. Len(B) \in Nat /\ Len(T) \in Nat
      BY <1>2, <1>4, <3>2
    <3>4. ASSUME NEW i \in 1..Len(T) PROVE T[i] = N + 1 - Len(T) + i
      <4>1. i + 1 \in 1..Len(B) /\ i \in Int
        BY <3>2, <3>3
      <4>2. T[i] = N + 1 - Len(B) + (i + 1)
        BY <1>5, <3>2, <4>1
      <4> QED
        BY <1>2, <3>2, <3>3, <4>1, <4>2
    <3> QED
      BY <2>1, <3>1, <3>2, <3>3, <3>4
  <2>2. CASE ~(Len(B) > Prebuffer)
    <3>1. Window(B) = B
      BY <2>2 DEF Window
    <3>2. Len(B) \in Nat
      BY <1>2, <1>4
    <3> QED
      BY <1>4, <1>5, <2>2, <3>1, <3>2
  <2> QED
    BY <2>1, <2>2
<1> HIDE DEF W
<1>7. /\ G \in GateRecord /\ ~G.open /\ G.buffer = W
      /\ G.silence = (IF g.open THEN g.silence + 1 ELSE g.silence)
      /\ G.sent = g.sent /\ G.gated = g.gated + 1
  <2>1. G = [g EXCEPT !.open    = FALSE,
                      !.silence = IF g.open THEN @ + 1 ELSE @,
                      !.buffer  = W,
                      !.gated   = @ + 1]
    BY DEF Fed, G, B, W
  <2>2. W \in Seq(Nat)
    BY <1>6
  <2> HIDE DEF G
  <2>3. CASE g.open
    <3>1. G = [g EXCEPT !.open = FALSE, !.silence = g.silence + 1, !.buffer = W,
                        !.gated = g.gated + 1]
      BY <2>1, <2>3
    <3> QED
      BY <1>1, <2>2, <2>3, <3>1, g.silence + 1 \in Nat, g.gated + 1 \in Int, ClosedRecord DEF GateRecord
  <2>4. CASE ~g.open
    <3>1. G = [g EXCEPT !.open = FALSE, !.silence = g.silence, !.buffer = W,
                        !.gated = g.gated + 1]
      BY <2>1, <2>4
    <3> QED
      BY <1>1, <2>2, <2>4, <3>1, g.silence \in Nat, g.gated + 1 \in Int, ClosedRecord DEF GateRecord
  <2> QED
    BY <2>3, <2>4
<1>8. ~loud /\ (g.open => g.silence + 1 >= Hangover)
  BY DEF Withheld
<1> HIDE DEF G
<1>9. GateTyped(o, H, G)
  BY <1>1, <1>3, <1>7 DEF GateTyped
<1>10. BufferInv(o, H, G)
  <2>0. \A i \in 1..Len(G.buffer) : G.buffer[i] = Len(H) - Len(G.buffer) + i
    <3>1. G.buffer = W /\ Len(H) = N + 1
      BY <1>3, <1>7
    <3>2. \A i \in 1..Len(W) : N + 1 - Len(W) + i = (N + 1) - Len(W) + i
      BY <1>2, <1>6
    <3> QED
      BY <1>6, <3>1, <3>2
  <2>1. /\ Len(g.buffer) <= Prebuffer /\ Len(g.buffer) <= N
        /\ \A i \in 1..Len(o) : 1 <= o[i] /\ o[i] <= N - Len(g.buffer)
    BY DEF GateInv, BufferInv, N
  <2>2. Len(G.buffer) <= Len(g.buffer) + 1 /\ Len(G.buffer) <= Prebuffer
    BY <1>2, <1>4, <1>6, <1>7, <2>1
  <2>3. \A i \in 1..Len(o) : 1 <= o[i] /\ o[i] <= Len(H) - Len(G.buffer)
    <3> SUFFICES ASSUME NEW i \in 1..Len(o) PROVE 1 <= o[i] /\ o[i] <= Len(H) - Len(G.buffer)
      OBVIOUS
    <3>1. o[i] \in Nat
      BY <1>1, ElementOfSeq
    <3> QED
      BY <1>2, <1>3, <1>6, <1>7, <2>1, <2>2, <3>1
  <2> QED
    BY <1>2, <1>3, <1>6, <1>7, <2>0, <2>1, <2>2, <2>3 DEF BufferInv
<1>11. WindowInv(o, H, G)
  <2> SUFFICES ASSUME NEW k \in 1..Len(H), k > Len(H) - Prebuffer, ~(k > Len(H) - Len(G.buffer))
               PROVE  Has(o, k)
    BY DEF WindowInv
  <2>1. k \in 1..N /\ k > N - Prebuffer /\ ~(k > N - Len(g.buffer))
    BY <1>2, <1>3, <1>4, <1>6, <1>7
  <2> QED
    BY <2>1 DEF GateInv, WindowInv, N
<1>12. SilenceInv(H, G)
  <2>1. /\ g.silence <= N /\ \A n \in 1..N : n > N - g.silence => ~h[n]
        /\ IF g.open THEN g.silence < Hangover ELSE g.silence = Hangover
    BY DEF GateInv, SilenceInv, N
  <2>2. G.silence <= g.silence + 1 /\ G.silence = Hangover
    BY <1>1, <1>7, <1>8, <2>1
  <2>3. ASSUME NEW n \in 1..Len(H), n > Len(H) - G.silence PROVE ~H[n]
    <3>1. CASE n = N + 1
      BY <1>3, <1>8, <3>1
    <3>2. CASE n # N + 1
      <4>1. n \in 1..N /\ n > N - g.silence
        BY <1>1, <1>2, <1>3, <2>2, <2>3, <3>2
      <4> QED
        BY <1>3, <2>1, <4>1
    <3> QED
      BY <3>1, <3>2
  <2> QED
    BY <1>1, <1>2, <1>3, <1>7, <2>1, <2>2, <2>3 DEF SilenceInv
<1>13. InOrder(o) /\ Counted(o, H, G)
  BY <1>1, <1>2, <1>3, <1>7 DEF GateInv, Counted, N
<1>14. LoudSent(o, H)
  <2> SUFFICES ASSUME NEW f \in 1..Len(H), H[f], NEW n \in 1..f, n >= f - Prebuffer
               PROVE  Has(o, n)
    BY DEF LoudSent
  <2>1. f \in 1..N /\ h[f]
    BY <1>2, <1>3, <1>8
  <2> QED
    BY <2>1 DEF GateInv, LoudSent, N
<1>15. QuietKept(o, H)
  <2> SUFFICES ASSUME NEW f \in 1..Len(H), ~Has(o, f)
               PROVE  f >= Hangover /\ \A n \in (f - Hangover + 1)..f : ~H[n]
    BY DEF QuietKept
  <2>1. CASE f = N + 1
    <3>1. G.silence = Hangover /\ G.silence <= N + 1
      BY <1>3, <1>7, <1>12 DEF SilenceInv
    <3>2. ASSUME NEW n \in (f - Hangover + 1)..f PROVE ~H[n]
      <4>1. n \in 1..Len(H) /\ n > Len(H) - G.silence
        BY <1>2, <1>3, <2>1, <3>1
      <4> QED
        BY <1>12, <4>1 DEF SilenceInv
    <3> QED
      BY <2>1, <3>1, <3>2
  <2>2. CASE f # N + 1
    <3>1. f \in 1..N
      BY <1>2, <1>3, <2>2
    <3>2. f >= Hangover /\ \A n \in (f - Hangover + 1)..f : ~h[n]
      BY <3>1 DEF GateInv, QuietKept, N
    <3>3. \A n \in (f - Hangover + 1)..f : n \in 1..N
      BY <1>2, <3>1, <3>2
    <3> QED
      BY <1>3, <3>2, <3>3
  <2> QED
    BY <2>1, <2>2
<1> QED
  BY <1>9, <1>10, <1>11, <1>12, <1>13, <1>14, <1>15 DEF GateInv, G, H, N

(* A frame that is let through comes after what was kept before it.        *)
LEMMA ReleasedInv ==
  ASSUME NEW o, NEW h, NEW g, NEW loud \in BOOLEAN,
         GateInv(o, h, g), ~Withheld(g, loud)
  PROVE  GateInv(o \o Append(g.buffer, Len(h) + 1), Append(h, loud), Fed(g, Len(h) + 1, loud))
<1> USE GateAssumption
<1> DEFINE N == Len(h)
           H == Append(h, loud)
           B == Append(g.buffer, N + 1)
           O == o \o B
           G == Fed(g, N + 1, loud)
           L == Len(g.buffer)
<1>1. /\ o \in Seq(Nat) /\ h \in Seq(BOOLEAN) /\ g \in GateRecord
      /\ g.buffer \in Seq(Nat) /\ g.open \in BOOLEAN /\ g.silence \in Nat
      /\ g.sent \in Int /\ g.gated \in Int
  BY DEF GateInv, GateTyped, GateRecord
<1>2. N \in Nat /\ Len(o) \in Nat /\ L \in Nat
  BY <1>1, LenProperties
<1>3. /\ H \in Seq(BOOLEAN) /\ Len(H) = N + 1 /\ H[N + 1] = loud
      /\ \A i \in 1..N : H[i] = h[i]
  BY <1>1, <1>2, AppendProperties
<1>4. B \in Seq(Nat) /\ Len(B) = L + 1
  BY <1>1, <1>2, AppendProperties
<1>5. B[L + 1] = N + 1 /\ \A i \in 1..L : B[i] = g.buffer[i]
  BY <1>1, <1>2, AppendProperties
<1>6. G = [open    |-> TRUE,
           silence |-> IF loud THEN 0 ELSE g.silence + 1,
           buffer  |-> <<>>,
           sent    |-> g.sent + L + 1,
           gated   |-> g.gated - L]
  BY DEF Fed, GatedAfter
<1>7. /\ G \in GateRecord /\ G.open = TRUE /\ G.buffer = <<>> /\ Len(<<>>) = 0
      /\ G.silence = (IF loud THEN 0 ELSE g.silence + 1)
      /\ G.sent = g.sent + L + 1 /\ G.gated = g.gated - L
  <2> HIDE DEF G, L
  <2>1. <<>> \in Seq(Nat)
    OBVIOUS
  <2> QED
    BY <1>1, <1>2, <1>6, <2>1 DEF GateRecord
<1>8. ~loud => g.open /\ g.silence + 1 < Hangover
  BY <1>1 DEF Withheld
<1>9. /\ O \in Seq(Nat) /\ Len(O) = Len(o) + Len(B)
      /\ \A i \in 1..Len(o) + Len(B) : O[i] = IF i <= Len(o) THEN o[i] ELSE B[i - Len(o)]
  BY <1>1, <1>4, ConcatProperties
<1>10. /\ \A k : Has(o, k) => Has(O, k)
       /\ \A k : Has(B, k) => Has(O, k)
  BY <1>1, <1>4, HasConcat
<1>11. /\ L <= N /\ L <= Prebuffer
       /\ \A i \in 1..L : g.buffer[i] = (N - L) + i
       /\ \A i \in 1..Len(o) : 1 <= o[i] /\ o[i] <= N - L
  BY <1>1, <1>2 DEF GateInv, BufferInv
<1> HIDE DEF G, H, O, B, L, N
<1>12. \A i \in 1..L + 1 : B[i] = (N - L) + i
  <2> SUFFICES ASSUME NEW i \in 1..L + 1 PROVE B[i] = (N - L) + i
    OBVIOUS
  <2>1. CASE i = L + 1
    BY <1>2, <1>5, <2>1
  <2>2. CASE i # L + 1
    <3>1. i \in 1..L
      BY <1>2, <2>2
    <3>2. B[i] = g.buffer[i] /\ g.buffer[i] = (N - L) + i
      BY <1>5, <1>11, <3>1
    <3> QED
      BY <3>2
  <2> QED
    BY <2>1, <2>2
<1>13. \A k \in 1..N + 1 : k > N - L => Has(O, k)
  <2> SUFFICES ASSUME NEW k \in 1..N + 1, k > N - L PROVE Has(B, k)
    BY <1>10
  <2>1. k - (N - L) \in 1..L + 1 /\ (N - L) + (k - (N - L)) = k
    BY <1>2, <1>11
  <2>2. B[k - (N - L)] = k
    BY <1>12, <2>1
  <2> QED
    BY <1>4, <2>1, <2>2 DEF Has
<1>14. GateTyped(O, H, G)
  BY <1>1, <1>3, <1>7, <1>9 DEF GateTyped
<1>15. \A i \in 1..Len(o) : i \in 1..Len(O) /\ O[i] = o[i] /\ o[i] \in Nat
  <2> SUFFICES ASSUME NEW i \in 1..Len(o) PROVE i \in 1..Len(O) /\ O[i] = o[i] /\ o[i] \in Nat
    OBVIOUS
  <2>1. i \in 1..Len(o) + Len(B) /\ i \in 1..Len(O) /\ i <= Len(o)
    BY <1>2, <1>4, <1>9
  <2>2. O[i] = o[i]
    BY <1>9, <2>1
  <2> QED
    BY <1>1, <2>1, <2>2, ElementOfSeq
<1>15a. \A i \in 1..Len(O) : ~(i <= Len(o)) => O[i] = (N - L) + (i - Len(o))
  <2> SUFFICES ASSUME NEW i \in 1..Len(O), ~(i <= Len(o))
               PROVE  O[i] = (N - L) + (i - Len(o))
    OBVIOUS
  <2>1. i - Len(o) \in 1..L + 1 /\ i \in 1..Len(o) + Len(B)
    BY <1>2, <1>4, <1>9
  <2>2. O[i] = B[i - Len(o)]
    BY <1>9, <2>1
  <2> QED
    BY <1>12, <2>1, <2>2
<1>15b. \A i \in 1..Len(O) : 1 <= O[i] /\ O[i] <= N + 1
  <2> SUFFICES ASSUME NEW i \in 1..Len(O) PROVE 1 <= O[i] /\ O[i] <= N + 1
    OBVIOUS
  <2>1. CASE i <= Len(o)
    <3>1. i \in 1..Len(o)
      BY <1>2, <1>4, <1>9, <2>1
    <3>2. O[i] = o[i] /\ 1 <= o[i] /\ o[i] <= N - L /\ o[i] \in Nat
      BY <1>11, <1>15, <3>1
    <3> QED
      BY <1>2, <3>2
  <2>2. CASE ~(i <= Len(o))
    <3>1. O[i] = (N - L) + (i - Len(o))
      BY <1>15a, <2>2
    <3>2. i \in Int /\ i - Len(o) <= L + 1 /\ i - Len(o) >= 1
      BY <1>2, <1>4, <1>9, <2>2
    <3>3. 1 <= (N - L) + (i - Len(o)) /\ (N - L) + (i - Len(o)) <= N + 1
      BY <1>2, <1>11, <3>2
    <3> QED
      BY <3>1, <3>3
  <2> QED
    BY <2>1, <2>2
<1>16. BufferInv(O, H, G)
  <2>1. Len(G.buffer) = 0 /\ G.buffer = <<>>
    BY <1>7
  <2>2. \A i \in 1..Len(O) : 1 <= O[i] /\ O[i] <= Len(H) - Len(G.buffer)
    BY <1>2, <1>3, <1>15b, <2>1
  <2> QED
    BY <1>2, <1>3, <2>1, <2>2 DEF BufferInv
<1>17. WindowInv(O, H, G)
  <2> SUFFICES ASSUME NEW k \in 1..Len(H), k > Len(H) - Prebuffer PROVE Has(O, k)
    BY DEF WindowInv
  <2>1. CASE k > N - L
    BY <1>3, <1>13, <2>1
  <2>2. CASE ~(k > N - L)
    <3>1. k \in 1..N /\ k > N - Prebuffer /\ ~(k > N - L)
      BY <1>2, <1>3, <1>11, <2>2
    <3> QED
      BY <1>10, <3>1 DEF GateInv, WindowInv, N, L
  <2> QED
    BY <2>1, <2>2
<1>18. SilenceInv(H, G)
  <2>1. /\ g.silence <= N /\ \A n \in 1..N : n > N - g.silence => ~h[n]
    BY DEF GateInv, SilenceInv, N
  <2>2. CASE loud
    <3>1. G.silence = 0 /\ G.open /\ 0 < Hangover
      BY <1>7, <2>2
    <3> QED
      BY <1>2, <1>3, <3>1 DEF SilenceInv
  <2>3. CASE ~loud
    <3>1. G.silence = g.silence + 1 /\ G.open /\ G.silence < Hangover
      BY <1>7, <1>8, <2>3
    <3>2. ASSUME NEW n \in 1..Len(H), n > Len(H) - G.silence PROVE ~H[n]
      <4>1. CASE n = N + 1
        BY <1>3, <2>3, <4>1
      <4>2. CASE n # N + 1
        <5>1. n \in 1..N /\ n > N - g.silence
          BY <1>1, <1>2, <1>3, <3>1, <3>2, <4>2
        <5> QED
          BY <1>3, <2>1, <5>1
      <4> QED
        BY <4>1, <4>2
    <3> QED
      BY <1>1, <1>2, <1>3, <2>1, <3>1, <3>2 DEF SilenceInv
  <2> QED
    BY <2>2, <2>3
<1>19. InOrder(O)
  <2> SUFFICES ASSUME NEW i \in 1..Len(O), NEW j \in 1..Len(O), i < j PROVE O[i] < O[j]
    BY DEF InOrder
  <2>1. CASE j <= Len(o)
    <3>1. i \in 1..Len(o) /\ j \in 1..Len(o)
      BY <1>2, <2>1
    <3>2. o[i] < o[j]
      BY <3>1 DEF GateInv, InOrder
    <3>3. O[i] = o[i] /\ O[j] = o[j]
      BY <1>15, <3>1
    <3> QED
      BY <3>2, <3>3
  <2>2. CASE ~(j <= Len(o))
    <3>1. O[j] = (N - L) + (j - Len(o)) /\ j - Len(o) >= 1 /\ j - Len(o) \in Int
      BY <1>2, <1>15a, <2>2
    <3>2. CASE i <= Len(o)
      <4>1. i \in 1..Len(o)
        BY <1>2, <3>2
      <4>2. O[i] = o[i] /\ o[i] <= N - L /\ o[i] \in Nat
        BY <1>11, <1>15, <4>1
      <4>3. N - L < (N - L) + (j - Len(o))
        BY <1>2, <3>1
      <4>4. o[i] < (N - L) + (j - Len(o))
        BY <1>2, <3>1, <4>2, <4>3
      <4> QED
        BY <3>1, <4>2, <4>4
    <3>3. CASE ~(i <= Len(o))
      <4>1. O[i] = (N - L) + (i - Len(o))
        BY <1>15a, <3>3
      <4>2. (N - L) + (i - Len(o)) < (N - L) + (j - Len(o))
        BY <1>2
      <4> QED
        BY <3>1, <4>1, <4>2
    <3> QED
      BY <3>2, <3>3
  <2> QED
    BY <2>1, <2>2
<1>20. LoudSent(O, H)
  <2> SUFFICES ASSUME NEW f \in 1..Len(H), H[f], NEW n \in 1..f, n >= f - Prebuffer
               PROVE  Has(O, n)
    BY DEF LoudSent
  <2>1. CASE f = N + 1
    <3>1. CASE n > N - L
      BY <1>2, <1>13, <2>1, <3>1
    <3>2. CASE ~(n > N - L)
      <4>1. n \in 1..N /\ n > N - Prebuffer
        BY <1>2, <2>1, <3>2
      <4> QED
        BY <1>10, <3>2, <4>1 DEF GateInv, WindowInv, N, L
    <3> QED
      BY <3>1, <3>2
  <2>2. CASE f # N + 1
    <3>1. f \in 1..N /\ h[f]
      BY <1>2, <1>3, <2>2
    <3> QED
      BY <1>10, <3>1 DEF GateInv, LoudSent, N
  <2> QED
    BY <2>1, <2>2
<1>21. QuietKept(O, H)
  <2> SUFFICES ASSUME NEW f \in 1..Len(H), ~Has(O, f)
               PROVE  f >= Hangover /\ \A n \in (f - Hangover + 1)..f : ~H[n]
    BY DEF QuietKept
  <2>1. f \in 1..N /\ ~Has(o, f)
    BY <1>2, <1>3, <1>10, <1>11, <1>13
  <2>2. f >= Hangover /\ \A n \in (f - Hangover + 1)..f : ~h[n]
    BY <2>1 DEF GateInv, QuietKept, N
  <2>3. \A n \in (f - Hangover + 1)..f : n \in 1..N
    BY <1>2, <2>1, <2>2
  <2> QED
    BY <1>3, <2>2, <2>3
<1>22. Counted(O, H, G)
  <2>1. g.sent = Len(o) /\ g.gated = N - Len(o)
    BY DEF GateInv, Counted, N
  <2> QED
    BY <1>1, <1>2, <1>3, <1>4, <1>7, <1>9, <2>1 DEF Counted
<1> QED
  BY <1>14, <1>16, <1>17, <1>18, <1>19, <1>20, <1>21, <1>22 DEF GateInv, G, H, O, B, N

(* The gate after any frame. *)
LEMMA FedInv ==
  ASSUME NEW o, NEW h, NEW g, NEW loud \in BOOLEAN, GateInv(o, h, g)
  PROVE  GateInv(o \o Released(g, Len(h) + 1, loud), Append(h, loud), Fed(g, Len(h) + 1, loud))
<1>1. CASE Withheld(g, loud)
  <2>1. Released(g, Len(h) + 1, loud) = <<>> /\ o \o <<>> = o
    BY <1>1, ConcatEmptySeq DEF Released, GateInv, GateTyped
  <2> QED
    BY <1>1, <2>1, WithheldInv
<1>2. CASE ~Withheld(g, loud)
  BY <1>2, ReleasedInv DEF Released
<1> QED
  BY <1>1, <1>2

-----------------------------------------------------------------------------
(***************************************************************************)
(* The run: its invariant.                                                 *)
(***************************************************************************)
Place == {"livekit", "connect", "wait", "gather", "close", "leave", "over"}
SocketState == {"none", "opening", "open", "up", "gone"}

TypeInv ==
  /\ pc \in Place /\ room \in {"none", "up", "gone"}
  /\ sock \in [Session -> SocketState]
  /\ current \in Session \cup {None} /\ making \in Session \cup {None}
  /\ draining \subseteq Session /\ drain \in [Session -> {"none", "sleep", "closing"}]
  /\ queue \in Seq(Message) /\ receiving \in BOOLEAN /\ sending \in BOOLEAN
  /\ emitted \in [Session -> 0..MaxOutput] /\ published \in [Session -> Nat]
  /\ lost \subseteq Session /\ torn \subseteq Session /\ cut \in BOOLEAN
  /\ cancels \in 0..MaxCancel

(* The send loop has frames to append exactly when it waits for a session  *)
(* to take one.                                                            *)
AudioInv ==
  /\ todo \in Seq(Nat) /\ appended \in Seq(Nat) /\ target \in Session \cup {None}
  /\ todo = <<>> <=> target = None
  /\ GateInv(Output, heard, gate)

(* Where the run is, and what it has there.                                *)
PlaceInv ==
  /\ pc = "livekit" => current = None
  /\ pc \in {"connect", "wait"} => current # None
  /\ pc = "wait" => sock[current] \in {"up", "gone"}
  /\ pc # "wait" => /\ making = None /\ queue = <<>> /\ receiving
                    /\ \A s \in Session : drain[s] = "none"
  /\ pc = "leave" => current = None /\ draining = {}
  /\ pc = "over" /\ ~cut => current = None /\ draining = {} /\ room # "up"

(* Who will close a socket, and that a session is in one role at a time.   *)
Known(s) == s \in {current, making} \cup draining \/ drain[s] = "closing"
SocketInv ==
  /\ \A s \in Session \ torn : Socket(s) => Known(s)
  /\ \A s \in Session : sock[s] = "opening" => s \in {current, making}
  /\ \A s \in Session :
       /\ drain[s] # "none" => s \notin {current, making} /\ sock[s] # "none"
       /\ drain[s] = "sleep" => s \in draining
  /\ making # None => making # current

(* The end of a session that is read was upstream's doing, or the session  *)
(* has been drained and is no longer in use.                               *)
EndsInv ==
  \A i \in 1..Len(queue) :
    queue[i].kind # "output" => LET s == queue[i].session IN
      s \in lost \/ (s # current /\ sock[s] = "gone")

Inv == TypeInv /\ AudioInv /\ PlaceInv /\ SocketInv /\ EndsInv /\ OutputKept

(* None is no session. *)
LEMMA NoneIsNoSession == \A s \in Session : s # None
BY WorkerAssumption DEF Session, None

(* What reading an event does to the queue. *)
LEMMA ReadEvent ==
  ASSUME Inv, NEW s \in Session, NEW kind \in {"output", "over", "end"}, Read(s, kind)
  PROVE  /\ queue' \in Seq(Message) /\ Len(queue) \in Nat /\ Len(queue') = Len(queue) + 1
         /\ queue'[Len(queue) + 1] = [session |-> s, kind |-> kind]
         /\ \A i \in 1..Len(queue) : queue'[i] = queue[i]
<1>1. queue \in Seq(Message) /\ [session |-> s, kind |-> kind] \in Message
  BY DEF Inv, TypeInv, Message
<1> QED
  BY <1>1, AppendProperties, LenProperties DEF Read

(* What taking one does. *)
LEMMA TakeEvent ==
  ASSUME Inv, queue # <<>>, queue' = Tail(queue)
  PROVE  /\ Head(queue) \in Message /\ Head(queue) = queue[1]
         /\ queue' \in Seq(Message) /\ Len(queue) \in Nat /\ Len(queue') = Len(queue) - 1
         /\ \A i \in 1..Len(queue') : queue'[i] = queue[i + 1]
<1>1. queue \in Seq(Message)
  BY DEF Inv, TypeInv
<1>2. Head(queue) = queue[1]
  OBVIOUS
<1> QED
  BY <1>1, <1>2, HeadTailProperties, LenProperties

(* What the tasks leave behind when they are cancelled. *)
LEMMA LeaveTyped ==
  ASSUME Inv, Leave, UNCHANGED <<room, current, draining, lost>>,
         cut' \in BOOLEAN, cancels' \in 0..MaxCancel
  PROVE  TypeInv'
<1> USE DEF Inv, TypeInv
<1>1. MaxOutput \in Nat
  BY WorkerAssumption
<1>2. /\ emitted' \in [Session -> 0..MaxOutput] /\ published' \in [Session -> Nat]
      /\ queue' \in Seq(Message)
  BY <1>1 DEF Leave, Nothing
<1>3. /\ sock' \in [Session -> SocketState] /\ drain' \in [Session -> {"none", "sleep", "closing"}]
      /\ torn' \subseteq Session
  BY DEF Leave, SocketState
<1>4. /\ pc' \in Place /\ making' \in Session \cup {None}
      /\ receiving' \in BOOLEAN /\ sending' \in BOOLEAN
  BY DEF Leave, Place
<1> QED
  BY <1>2, <1>3, <1>4

(* Every variable keeps its type. *)
LEMMA TypeStep == ASSUME Inv, Next PROVE TypeInv'
<1> USE DEF Inv, TypeInv, Place, SocketState, drains, output, audio, marks
<1>1. ASSUME NEW s \in Session, Speaks(s) PROVE TypeInv'
  <2>1. emitted[s] + 1 \in 0..MaxOutput
    BY <1>1, WorkerAssumption DEF Speaks
  <2>2. queue' \in Seq(Message)
    BY <1>1, ReadEvent DEF Speaks
  <2> QED
    BY <1>1, <2>1, <2>2 DEF Speaks
<1>2. ASSUME NEW s \in Session, Reports(s) PROVE TypeInv'
  <2>1. queue' \in Seq(Message)
    BY <1>2, ReadEvent DEF Reports
  <2> QED
    BY <1>2, <2>1 DEF Reports
<1>3. ASSUME NEW s \in Session, Breaks(s) PROVE TypeInv'
  <2>1. queue' \in Seq(Message)
    BY <1>3, ReadEvent DEF Breaks
  <2> QED
    BY <1>3, <2>1 DEF Breaks
<1>4. ASSUME NEW s \in Session, Opens(s) PROVE TypeInv'
  BY <1>4 DEF Opens
<1>5. ASSUME NEW s \in Session, RenewStarts(s) PROVE TypeInv'
  BY <1>5 DEF RenewStarts, Fresh
<1>6a. ASSUME JoinRoom PROVE TypeInv'
  BY <1>6a DEF JoinRoom
<1>6. ASSUME TrackPublished PROVE TypeInv'
  <2>1. 1 \in Session
    BY <1>6, WorkerAssumption DEF TrackPublished, Session
  <2> QED
    BY <1>6, <2>1 DEF TrackPublished
<1>7. ASSUME Ready PROVE TypeInv'
  BY <1>7 DEF Ready
<1>8. ASSUME StartFails PROVE TypeInv'
  BY <1>8, LeaveTyped DEF StartFails
<1>9. ASSUME RenewFails PROVE TypeInv'
  BY <1>9 DEF RenewFails
<1>10. ASSUME Switch PROVE TypeInv'
  <2>1. current \in Session /\ making \in Session
    BY <1>10 DEF Switch, PlaceInv
  <2> QED
    BY <1>10, <2>1 DEF Switch, WithOld
<1>11. ASSUME NEW s \in Session, DrainEnds(s) PROVE TypeInv'
  BY <1>11 DEF DrainEnds
<1>12. ASSUME NEW s \in Session, DrainCloses(s) PROVE TypeInv'
  <2>1. queue' \in Seq(Message)
    BY <1>12, ReadEvent DEF DrainCloses
  <2> QED
    BY <1>12, <2>1 DEF DrainCloses
<1>13. ASSUME Receive PROVE TypeInv'
  <2>1. Head(queue).session \in Session /\ queue' \in Seq(Message)
    BY <1>13, TakeEvent DEF Receive, Message
  <2>2. published' \in [Session -> Nat]
    BY <1>13, <2>1 DEF Receive
  <2>3. receiving' \in BOOLEAN
    BY <1>13 DEF Receive
  <2> QED
    BY <1>13, <2>1, <2>2, <2>3 DEF Receive
<1>14. ASSUME NEW loud \in BOOLEAN, TakeFrame(loud) PROVE TypeInv'
  BY <1>14 DEF TakeFrame
<1>15. ASSUME AppendAudio PROVE TypeInv'
  BY <1>15 DEF AppendAudio
<1>16. ASSUME AppendFails PROVE TypeInv'
  BY <1>16 DEF AppendFails
<1>17. ASSUME WaitEnds PROVE TypeInv'
  BY <1>17, LeaveTyped DEF WaitEnds
<1>18. ASSUME Gathered PROVE TypeInv'
  BY <1>18 DEF Gathered
<1>19. ASSUME NEW s \in Session, CloseOld(s) PROVE TypeInv'
  BY <1>19 DEF CloseOld, Closable
<1>20. ASSUME CloseCurrent PROVE TypeInv'
  BY <1>20 DEF CloseCurrent
<1>21. ASSUME LeaveRoom PROVE TypeInv'
  BY <1>21 DEF LeaveRoom
<1>22. ASSUME Cancel PROVE TypeInv'
  <2>1. cancels' \in 0..MaxCancel
    BY <1>22, WorkerAssumption DEF Cancel
  <2>2. CASE pc \in Cancellable /\ Leave /\ UNCHANGED cut
    BY <1>22, <2>1, <2>2, LeaveTyped DEF Cancel
  <2>3. CASE pc \in {"gather", "close", "leave"}
    BY <1>22, <2>1, <2>3 DEF Cancel, Cancellable
  <2> QED
    BY <1>22, <2>2, <2>3 DEF Cancel
<1> QED
  BY <1>1, <1>2, <1>3, <1>4, <1>5, <1>6a, <1>6, <1>7, <1>8, <1>9, <1>10, <1>11, <1>12, <1>13,
     <1>14, <1>15, <1>16, <1>17, <1>18, <1>19, <1>20, <1>21, <1>22
  DEF Next, Drains, Loops, CleanUp

(* Where the run is agrees with what it has. *)
LEMMA PlaceStep == ASSUME Inv, Next PROVE PlaceInv'
<1> USE DEF Inv, PlaceInv, SocketInv, TypeInv, Place, SocketState, drains, output, marks
<1>1. ASSUME NEW s \in Session, Speaks(s) PROVE PlaceInv'
  BY <1>1 DEF Speaks, Reading, Read, Socket
<1>2. ASSUME NEW s \in Session, Reports(s) PROVE PlaceInv'
  BY <1>2 DEF Reports, Reading, Read
<1>3. ASSUME NEW s \in Session, Breaks(s) PROVE PlaceInv'
  BY <1>3 DEF Breaks, Socket, Reading, Read
<1>4. ASSUME NEW s \in Session, Opens(s) PROVE PlaceInv'
  BY <1>4 DEF Opens
<1>5. ASSUME NEW s \in Session, RenewStarts(s) PROVE PlaceInv'
  BY <1>5 DEF RenewStarts, Fresh
<1>6a. ASSUME JoinRoom PROVE PlaceInv'
  BY <1>6a DEF JoinRoom
<1>6. ASSUME TrackPublished PROVE PlaceInv'
  <2>1. 1 \in Session /\ 1 # None
    BY <1>6, WorkerAssumption DEF TrackPublished, Session, None
  <2> QED
    BY <1>6, <2>1 DEF TrackPublished
<1>7. ASSUME Ready PROVE PlaceInv'
  BY <1>7 DEF Ready
<1>8. ASSUME StartFails PROVE PlaceInv'
  BY <1>8 DEF StartFails, Leave
<1>9. ASSUME RenewFails PROVE PlaceInv'
  BY <1>9 DEF RenewFails
<1>10. ASSUME Switch PROVE PlaceInv'
  BY <1>10 DEF Switch, WithOld
<1>11. ASSUME NEW s \in Session, DrainEnds(s) PROVE PlaceInv'
  BY <1>11 DEF DrainEnds
<1>12. ASSUME NEW s \in Session, DrainCloses(s) PROVE PlaceInv'
  BY <1>12 DEF DrainCloses, Reading, Read
<1>13. ASSUME Receive PROVE PlaceInv'
  BY <1>13 DEF Receive
<1>14. ASSUME NEW loud \in BOOLEAN, TakeFrame(loud) PROVE PlaceInv'
  BY <1>14 DEF TakeFrame
<1>15. ASSUME AppendAudio PROVE PlaceInv'
  BY <1>15 DEF AppendAudio
<1>16. ASSUME AppendFails PROVE PlaceInv'
  BY <1>16 DEF AppendFails
<1>17. ASSUME WaitEnds PROVE PlaceInv'
  BY <1>17 DEF WaitEnds, Leave
<1>18. ASSUME Gathered PROVE PlaceInv'
  BY <1>18 DEF Gathered
<1>19. ASSUME NEW s \in Session, CloseOld(s) PROVE PlaceInv'
  BY <1>19 DEF CloseOld, Closable
<1>20. ASSUME CloseCurrent PROVE PlaceInv'
  BY <1>20 DEF CloseCurrent
<1>21. ASSUME LeaveRoom PROVE PlaceInv'
  BY <1>21 DEF LeaveRoom
<1>22. ASSUME Cancel PROVE PlaceInv'
  <2>1. CASE pc \in Cancellable /\ Leave /\ UNCHANGED cut
    BY <1>22, <2>1 DEF Cancel, Leave
  <2>2. CASE pc \in {"gather", "close", "leave"}
    BY <1>22, <2>2 DEF Cancel, Cancellable
  <2> QED
    BY <1>22, <2>1, <2>2 DEF Cancel
<1> QED
  BY <1>1, <1>2, <1>3, <1>4, <1>5, <1>6a, <1>6, <1>7, <1>8, <1>9, <1>10, <1>11, <1>12, <1>13,
     <1>14, <1>15, <1>16, <1>17, <1>18, <1>19, <1>20, <1>21, <1>22
  DEF Next, Drains, Loops, CleanUp

(* Every socket stays known, and every session in one role. *)
LEMMA SocketStep == ASSUME Inv, Next PROVE SocketInv'
<1> USE DEF Inv, SocketInv, PlaceInv, TypeInv, Known, SocketState, Socket, drains, marks
<1>1. ASSUME NEW s \in Session, Speaks(s) PROVE SocketInv'
  BY <1>1 DEF Speaks, Reading, Read, Socket
<1>2. ASSUME NEW s \in Session, Reports(s) PROVE SocketInv'
  BY <1>2 DEF Reports, Reading, Read
<1>3. ASSUME NEW s \in Session, Breaks(s) PROVE SocketInv'
  BY <1>3 DEF Breaks, Socket, Reading, Read
<1>4. ASSUME NEW s \in Session, Opens(s) PROVE SocketInv'
  BY <1>4 DEF Opens
<1>5. ASSUME NEW s \in Session, RenewStarts(s) PROVE SocketInv'
  <2>1. sock[s] = "none" /\ s # current /\ drain[s] = "none"
    BY <1>5 DEF RenewStarts, Fresh
  <2>2. /\ sock'[s] = "opening" /\ making = None /\ making' = s
        /\ \A q \in Session : q # s => sock'[q] = sock[q]
        /\ UNCHANGED <<current, draining, drain, torn>>
    BY <1>5 DEF RenewStarts
  <2> QED
    BY <2>1, <2>2, NoneIsNoSession
<1>6a. ASSUME JoinRoom PROVE SocketInv'
  BY <1>6a DEF JoinRoom
<1>6. ASSUME TrackPublished PROVE SocketInv'
  <2>1. 1 \in Session
    BY <1>6, WorkerAssumption DEF TrackPublished, Session
  <2>2. /\ current = None /\ making = None /\ current' = 1 /\ sock'[1] = "opening"
        /\ \A q \in Session : drain[q] = "none" /\ (q # 1 => sock'[q] = sock[q])
        /\ UNCHANGED <<making, draining, drain, torn>>
    BY <1>6, <2>1, NoneIsNoSession DEF TrackPublished
  <2> QED
    BY <2>1, <2>2, NoneIsNoSession
<1>7. ASSUME Ready PROVE SocketInv'
  BY <1>7 DEF Ready
<1>8. ASSUME StartFails PROVE SocketInv'
  BY <1>8 DEF StartFails, Leave
<1>9. ASSUME RenewFails PROVE SocketInv'
  <2>1. /\ making \in Session /\ making' = None /\ sock'[making] = "gone"
        /\ \A q \in Session : q # making => sock'[q] = sock[q]
        /\ UNCHANGED <<current, draining, drain, torn>>
    BY <1>9 DEF RenewFails
  <2> QED
    BY <2>1, NoneIsNoSession
<1>10. ASSUME Switch PROVE SocketInv'
  <2>1. current \in Session /\ making \in Session /\ making # current
    BY <1>10 DEF Switch
  <2>2. /\ sock'[making] = "up" /\ draining' = draining \cup {current}
        /\ \A q \in Session : q # making => sock'[q] = sock[q]
        /\ drain'[current] = "sleep" /\ \A q \in Session : q # current => drain'[q] = drain[q]
        /\ current' = making /\ making' = None /\ torn' = torn
        /\ sock[current] \in {"up", "gone"} /\ drain[making] = "none"
    BY <1>10, <2>1 DEF Switch, WithOld
  <2> QED
    BY <2>1, <2>2, NoneIsNoSession
<1>11. ASSUME NEW s \in Session, DrainEnds(s) PROVE SocketInv'
  BY <1>11 DEF DrainEnds
<1>12. ASSUME NEW s \in Session, DrainCloses(s) PROVE SocketInv'
  BY <1>12 DEF DrainCloses, Reading, Read
<1>13. ASSUME Receive PROVE SocketInv'
  BY <1>13 DEF Receive
<1>14. ASSUME NEW loud \in BOOLEAN, TakeFrame(loud) PROVE SocketInv'
  BY <1>14 DEF TakeFrame
<1>15. ASSUME AppendAudio PROVE SocketInv'
  BY <1>15 DEF AppendAudio
<1>16. ASSUME AppendFails PROVE SocketInv'
  BY <1>16 DEF AppendFails
<1>17. ASSUME WaitEnds PROVE SocketInv'
  BY <1>17 DEF WaitEnds, Leave
<1>18. ASSUME Gathered PROVE SocketInv'
  BY <1>18 DEF Gathered
<1>19. ASSUME NEW s \in Session, CloseOld(s) PROVE SocketInv'
  BY <1>19 DEF CloseOld, Closable
<1>20. ASSUME CloseCurrent PROVE SocketInv'
  BY <1>20 DEF CloseCurrent
<1>21. ASSUME LeaveRoom PROVE SocketInv'
  BY <1>21 DEF LeaveRoom
<1>22. ASSUME Cancel PROVE SocketInv'
  <2>1. CASE pc \in Cancellable /\ Leave /\ UNCHANGED cut
    BY <1>22, <2>1 DEF Cancel, Leave
  <2>2. CASE pc \in {"gather", "close", "leave"}
    BY <1>22, <2>2 DEF Cancel, Cancellable
  <2> QED
    BY <1>22, <2>1, <2>2 DEF Cancel
<1> QED
  BY <1>1, <1>2, <1>3, <1>4, <1>5, <1>6a, <1>6, <1>7, <1>8, <1>9, <1>10, <1>11, <1>12, <1>13,
     <1>14, <1>15, <1>16, <1>17, <1>18, <1>19, <1>20, <1>21, <1>22
  DEF Next, Drains, Loops, CleanUp

(* The end of a session is read after it was lost or drained. *)
LEMMA EndsStep == ASSUME Inv, Next PROVE EndsInv'
<1> USE DEF Inv, EndsInv, SocketInv, PlaceInv, TypeInv, SocketState, drains, output, marks
<1>1. ASSUME NEW s \in Session, Speaks(s) PROVE EndsInv'
  BY <1>1 DEF Speaks, Reading, Read, Socket
<1>2. ASSUME NEW s \in Session, Reports(s) PROVE EndsInv'
  BY <1>2 DEF Reports, Reading, Read
<1>3. ASSUME NEW s \in Session, Breaks(s) PROVE EndsInv'
  <2>1. CASE Reading(s)
    <3>1. /\ Len(queue') = Len(queue) + 1 /\ Len(queue) \in Nat
          /\ queue'[Len(queue) + 1] = [session |-> s, kind |-> "end"]
          /\ \A i \in 1..Len(queue) : queue'[i] = queue[i]
      BY <1>3, <2>1, ReadEvent DEF Breaks
    <3>2. \A i \in 1..Len(queue') : \/ i \in 1..Len(queue) /\ queue'[i] = queue[i]
                                   \/ queue'[i].session = s
      BY <3>1
    <3> QED
      BY <1>3, <3>2 DEF Breaks
  <2>2. CASE ~Reading(s)
    BY <1>3, <2>2 DEF Breaks
  <2> QED
    BY <2>1, <2>2
<1>4. ASSUME NEW s \in Session, Opens(s) PROVE EndsInv'
  BY <1>4 DEF Opens
<1>5. ASSUME NEW s \in Session, RenewStarts(s) PROVE EndsInv'
  BY <1>5 DEF RenewStarts, Fresh
<1>6a. ASSUME JoinRoom PROVE EndsInv'
  BY <1>6a DEF JoinRoom
<1>6. ASSUME TrackPublished PROVE EndsInv'
  BY <1>6 DEF TrackPublished
<1>7. ASSUME Ready PROVE EndsInv'
  BY <1>7 DEF Ready
<1>8. ASSUME StartFails PROVE EndsInv'
  BY <1>8 DEF StartFails, Leave
<1>9. ASSUME RenewFails PROVE EndsInv'
  BY <1>9 DEF RenewFails
<1>10. ASSUME Switch PROVE EndsInv'
  BY <1>10 DEF Switch, WithOld
<1>11. ASSUME NEW s \in Session, DrainEnds(s) PROVE EndsInv'
  BY <1>11 DEF DrainEnds
<1>12. ASSUME NEW s \in Session, DrainCloses(s) PROVE EndsInv'
  <2>0. s # current /\ sock'[s] = "gone"
    BY <1>12 DEF DrainCloses
  <2>1. CASE Reading(s)
    <3>1. /\ Len(queue') = Len(queue) + 1 /\ Len(queue) \in Nat
          /\ queue'[Len(queue) + 1] = [session |-> s, kind |-> "end"]
          /\ \A i \in 1..Len(queue) : queue'[i] = queue[i]
      BY <1>12, <2>1, ReadEvent DEF DrainCloses
    <3>2. \A i \in 1..Len(queue') : \/ i \in 1..Len(queue) /\ queue'[i] = queue[i]
                                   \/ queue'[i].session = s
      BY <3>1
    <3> QED
      BY <1>12, <2>0, <3>2 DEF DrainCloses
  <2>2. CASE ~Reading(s)
    BY <1>12, <2>2 DEF DrainCloses
  <2> QED
    BY <2>1, <2>2
<1>13. ASSUME Receive PROVE EndsInv'
  <2>1. /\ Len(queue) \in Nat /\ Len(queue') = Len(queue) - 1
        /\ \A i \in 1..Len(queue') : queue'[i] = queue[i + 1]
    BY <1>13, TakeEvent DEF Receive
  <2>2. \A i \in 1..Len(queue') : i + 1 \in 1..Len(queue)
    BY <2>1
  <2> QED
    BY <1>13, <2>1, <2>2 DEF Receive
<1>14. ASSUME NEW loud \in BOOLEAN, TakeFrame(loud) PROVE EndsInv'
  BY <1>14 DEF TakeFrame
<1>15. ASSUME AppendAudio PROVE EndsInv'
  BY <1>15 DEF AppendAudio
<1>16. ASSUME AppendFails PROVE EndsInv'
  BY <1>16 DEF AppendFails
<1>17. ASSUME WaitEnds PROVE EndsInv'
  BY <1>17 DEF WaitEnds, Leave
<1>18. ASSUME Gathered PROVE EndsInv'
  BY <1>18 DEF Gathered
<1>19. ASSUME NEW s \in Session, CloseOld(s) PROVE EndsInv'
  BY <1>19 DEF CloseOld, Closable
<1>20. ASSUME CloseCurrent PROVE EndsInv'
  BY <1>20 DEF CloseCurrent
<1>21. ASSUME LeaveRoom PROVE EndsInv'
  BY <1>21 DEF LeaveRoom
<1>22. ASSUME Cancel PROVE EndsInv'
  BY <1>22 DEF Cancel, Leave, Cancellable
<1> QED
  BY <1>1, <1>2, <1>3, <1>4, <1>5, <1>6a, <1>6, <1>7, <1>8, <1>9, <1>10, <1>11, <1>12, <1>13,
     <1>14, <1>15, <1>16, <1>17, <1>18, <1>19, <1>20, <1>21, <1>22
  DEF Next, Drains, Loops, CleanUp

(* Steps that leave the audio alone leave its invariant. *)
LEMMA AudioKept ==
  ASSUME Inv, UNCHANGED <<target, todo, gate, heard, appended>>
  PROVE  AudioInv'
BY DEF Inv, AudioInv, Output, GateInv, GateTyped, BufferInv, WindowInv, SilenceInv, LoudSent,
       QuietKept, Counted, InOrder, Has

(* A run that leaves forgets it. *)
LEMMA AudioForgotten ==
  ASSUME Inv, Leave
  PROVE  AudioInv'
<1>1. <<>> \o <<>> = <<>> /\ <<>> \in Seq(Nat)
  BY ConcatEmptySeq, EmptySeq
<1>2. todo' = <<>> /\ appended' = <<>> /\ heard' = <<>> /\ gate' = NewGate /\ target' = None
  BY DEF Leave
<1>3. GateInv(Output', heard', gate')
  BY <1>1, <1>2, NewGateInv DEF Output
<1> QED
  BY <1>1, <1>2, <1>3 DEF AudioInv, None

(* The send loop feeds the gate a frame. *)
LEMMA AudioTaken ==
  ASSUME Inv, NEW loud \in BOOLEAN, TakeFrame(loud)
  PROVE  AudioInv'
<1> DEFINE f == Len(heard) + 1
<1>1. /\ todo = <<>> /\ appended \in Seq(Nat) /\ heard \in Seq(BOOLEAN)
      /\ gate.buffer \in Seq(Nat) /\ f \in Nat
  <2>1. heard \in Seq(BOOLEAN) /\ gate \in GateRecord
    BY DEF Inv, AudioInv, GateInv, GateTyped
  <2> QED
    BY <2>1, LenProperties DEF TakeFrame, Inv, AudioInv, GateRecord
<1>2. /\ heard' = Append(heard, loud) /\ gate' = Fed(gate, f, loud)
      /\ todo' = Released(gate, f, loud) /\ appended' = appended
      /\ target' = (IF todo' = <<>> THEN None ELSE current)
  BY DEF TakeFrame, Waiting, marks
<1>3. Output = appended
  BY <1>1, ConcatEmptySeq DEF Output
<1>4. GateInv(Output', heard', gate')
  <2>1. GateInv(appended, heard, gate)
    BY <1>3 DEF Inv, AudioInv
  <2> QED
    BY <1>2, <2>1, FedInv DEF Output
<1>5. todo' \in Seq(Nat)
  BY <1>1, <1>2, AppendProperties, EmptySeq DEF Released
<1>6. current \in Session /\ current # None
  BY DEF TakeFrame, Inv, PlaceInv, TypeInv
<1> QED
  BY <1>1, <1>2, <1>4, <1>5, <1>6 DEF AudioInv

(* What has been appended goes from one side to the other. *)
LEMMA Moved ==
  ASSUME NEW a \in Seq(Nat), NEW b \in Seq(Nat), b # <<>>
  PROVE  Append(a, Head(b)) \o Tail(b) = a \o b
<1> DEFINE A == Append(a, Head(b))
           T == Tail(b)
<1>1. /\ T \in Seq(Nat) /\ Len(T) = Len(b) - 1 /\ Head(b) \in Nat /\ Head(b) = b[1]
      /\ \A i \in 1..Len(T) : T[i] = b[i + 1]
  BY HeadTailProperties
<1>2. A \in Seq(Nat) /\ Len(A) = Len(a) + 1 /\ A[Len(a) + 1] = b[1]
  BY <1>1, AppendProperties
<1>3. \A i \in 1..Len(a) : A[i] = a[i]
  BY <1>1, AppendProperties
<1>4. Len(a) \in Nat /\ Len(b) \in Nat
  BY LenProperties
<1> HIDE DEF A, T
<1>5. /\ A \o T \in Seq(Nat) /\ Len(A \o T) = Len(A) + Len(T)
      /\ \A i \in 1..Len(A) + Len(T) :
           (A \o T)[i] = IF i <= Len(A) THEN A[i] ELSE T[i - Len(A)]
  BY <1>1, <1>2, ConcatProperties
<1>6. /\ a \o b \in Seq(Nat) /\ Len(a \o b) = Len(a) + Len(b)
      /\ \A i \in 1..Len(a) + Len(b) :
           (a \o b)[i] = IF i <= Len(a) THEN a[i] ELSE b[i - Len(a)]
  BY ConcatProperties
<1>7. Len(A) + Len(T) = Len(a) + Len(b)
  BY <1>1, <1>2, <1>4
<1>8. ASSUME NEW i \in 1..Len(A) + Len(T) PROVE (A \o T)[i] = (a \o b)[i]
  <2>1. CASE i <= Len(a)
    <3>1. i \in 1..Len(a) /\ i <= Len(A)
      BY <1>2, <1>4, <2>1
    <3> QED
      BY <1>3, <1>5, <1>6, <1>7, <2>1, <3>1
  <2>2. CASE i = Len(a) + 1
    <3>1. i <= Len(A) /\ ~(i <= Len(a)) /\ i - Len(a) = 1
      BY <1>2, <1>4, <2>2
    <3> QED
      BY <1>2, <1>5, <1>6, <1>7, <2>2, <3>1
  <2>3. CASE i > Len(a) + 1
    <3>1. /\ ~(i <= Len(A)) /\ ~(i <= Len(a)) /\ i - Len(A) \in 1..Len(T)
          /\ (i - Len(A)) + 1 = i - Len(a)
      BY <1>1, <1>2, <1>4, <2>3
    <3> QED
      BY <1>1, <1>5, <1>6, <1>7, <3>1
  <2>4. i \in Int /\ (i <= Len(a) \/ i = Len(a) + 1 \/ i > Len(a) + 1)
    BY <1>4
  <2> QED
    BY <2>1, <2>2, <2>3, <2>4
<1>9. A \o T = a \o b
  BY <1>5, <1>6, <1>7, <1>8, SeqEqual
<1> QED
  BY <1>9 DEF A, T

(* Upstream accepts a frame. *)
LEMMA AudioAppended ==
  ASSUME Inv, AppendAudio
  PROVE  AudioInv'
<1>1. todo # <<>> /\ todo \in Seq(Nat) /\ appended \in Seq(Nat)
  BY DEF AppendAudio, Inv, AudioInv
<1>2. /\ appended' = Append(appended, Head(todo)) /\ todo' = Tail(todo)
      /\ target' = (IF todo' = <<>> THEN None ELSE current)
      /\ heard' = heard /\ gate' = gate
  BY DEF AppendAudio, Waiting
<1>3. appended' \in Seq(Nat) /\ todo' \in Seq(Nat)
  BY <1>1, <1>2, HeadTailProperties, AppendProperties
<1>4. Output' = Output
  BY <1>1, <1>2, Moved DEF Output
<1>5. GateInv(Output', heard', gate')
  BY <1>2, <1>4 DEF Inv, AudioInv
<1>6. current \in Session /\ current # None
  BY DEF AppendAudio, Inv, PlaceInv, TypeInv
<1> QED
  BY <1>2, <1>3, <1>5, <1>6 DEF AudioInv

(* The gate and the send loop agree after every step. *)
LEMMA AudioStep == ASSUME Inv, Next PROVE AudioInv'
<1>1. ASSUME NEW s \in Session, Speaks(s) \/ Reports(s) \/ Breaks(s) \/ Opens(s) \/ RenewStarts(s)
      PROVE  AudioInv'
  BY <1>1, AudioKept DEF Speaks, Reports, Breaks, Opens, RenewStarts, audio
<1>2. CASE JoinRoom \/ TrackPublished \/ Ready \/ RenewFails \/ Switch
  BY <1>2, AudioKept DEF JoinRoom, TrackPublished, Ready, RenewFails, Switch, audio
<1>3. CASE Drains
  BY <1>3, AudioKept DEF Drains, DrainEnds, DrainCloses, audio
<1>4. CASE Receive \/ AppendFails
  BY <1>4, AudioKept DEF Receive, AppendFails, audio
<1>5. ASSUME NEW loud \in BOOLEAN, TakeFrame(loud) PROVE AudioInv'
  BY <1>5, AudioTaken
<1>6. CASE AppendAudio
  BY <1>6, AudioAppended
<1>7. CASE StartFails \/ WaitEnds
  BY <1>7, AudioForgotten DEF StartFails, WaitEnds
<1>8. CASE CleanUp
  BY <1>8, AudioKept DEF CleanUp, Gathered, CloseOld, CloseCurrent, LeaveRoom, audio
<1>9. CASE Cancel
  <2>1. CASE Leave
    BY <2>1, AudioForgotten
  <2>2. CASE UNCHANGED audio
    BY <2>2, AudioKept DEF audio
  <2> QED
    BY <1>9, <2>1, <2>2 DEF Cancel
<1> QED
  BY <1>1, <1>2, <1>3, <1>4, <1>5, <1>6, <1>7, <1>8, <1>9 DEF Next, Loops

-----------------------------------------------------------------------------
(***************************************************************************)
(* Counting the outputs that wait in the queue.                            *)
(***************************************************************************)
LEMMA QueuedFinite ==
  ASSUME Inv, NEW s \in Session
  PROVE  IsFiniteSet(Queued(s)) /\ Cardinality(Queued(s)) \in Nat
<1>1. Len(queue) \in Nat
  BY LenProperties DEF Inv, TypeInv
<1>2. IsFiniteSet(1..Len(queue)) /\ Queued(s) \in SUBSET (1..Len(queue))
  BY <1>1, FS_Interval DEF Queued
<1> QED
  BY <1>2, FS_Subset, FS_CardinalityType

(* An output that is read is counted, another event is not. *)
LEMMA QueuedRead ==
  ASSUME Inv, NEW s \in Session, NEW kind \in {"output", "over", "end"}, Read(s, kind),
         NEW q \in Session
  PROVE  Cardinality(Queued(q)') = IF q = s /\ kind = "output"
                                   THEN Cardinality(Queued(q)) + 1 ELSE Cardinality(Queued(q))
<1> DEFINE n == Len(queue)
<1>1. /\ n \in Nat /\ Len(queue') = n + 1 /\ queue'[n + 1] = [session |-> s, kind |-> kind]
      /\ \A i \in 1..n : queue'[i] = queue[i]
  BY ReadEvent
<1>2. IsFiniteSet(Queued(q)) /\ n + 1 \notin Queued(q)
  BY <1>1, QueuedFinite DEF Queued
<1>3. CASE q = s /\ kind = "output"
  <2>1. Queued(q)' = Queued(q) \cup {n + 1}
    BY <1>1, <1>3 DEF Queued
  <2> QED
    BY <1>2, <1>3, <2>1, FS_AddElement
<1>4. CASE ~(q = s /\ kind = "output")
  <2>1. [session |-> s, kind |-> kind] # [session |-> q, kind |-> "output"]
    BY <1>4
  <2>2. Queued(q)' = Queued(q)
    BY <1>1, <2>1 DEF Queued
  <2> QED
    BY <1>4, <2>2
<1> QED
  BY <1>3, <1>4

(* Two finite sets of numbers of which one is the other, moved by one.     *)
LEMMA MovedByOne ==
  ASSUME NEW S \in SUBSET Int, NEW T \in SUBSET Int, IsFiniteSet(S),
         \A x \in S : x + 1 \in T, \A y \in T : y - 1 \in S
  PROVE  Cardinality(T) = Cardinality(S)
<1> DEFINE f == [x \in S |-> x + 1]
<1>1. f \in Bijection(S, T)
  <2>1. f \in [S -> T]
    OBVIOUS
  <2>2. \A x, y \in S : f[x] = f[y] => x = y
    OBVIOUS
  <2>3. \A y \in T : \E x \in S : f[x] = y
    <3> SUFFICES ASSUME NEW y \in T PROVE \E x \in S : f[x] = y
      OBVIOUS
    <3>1. y - 1 \in S /\ (y - 1) + 1 = y
      OBVIOUS
    <3> QED
      BY <3>1
  <2> HIDE DEF f
  <2> QED
    BY <2>1, <2>2, <2>3 DEF Bijection, Injection, Surjection, IsInjective
<1> HIDE DEF f
<1>2. ExistsBijection(S, T)
  BY <1>1 DEF ExistsBijection
<1> QED
  BY <1>2, FS_Bijection

(* The event that is taken is no longer counted. *)
LEMMA QueuedTaken ==
  ASSUME Inv, queue # <<>>, queue' = Tail(queue), NEW q \in Session
  PROVE  Cardinality(Queued(q)) = IF Head(queue) = [session |-> q, kind |-> "output"]
                                  THEN Cardinality(Queued(q)') + 1 ELSE Cardinality(Queued(q)')
<1> DEFINE m == [session |-> q, kind |-> "output"]
           R == Queued(q) \ {1}
<1>1. /\ Head(queue) = queue[1] /\ Len(queue) \in Nat /\ Len(queue') = Len(queue) - 1
      /\ \A i \in 1..Len(queue') : queue'[i] = queue[i + 1]
  BY TakeEvent
<1>2. IsFiniteSet(Queued(q)) /\ Cardinality(Queued(q)) \in Nat
  BY QueuedFinite
<1>3. /\ IsFiniteSet(R)
      /\ Cardinality(R) = IF 1 \in Queued(q) THEN Cardinality(Queued(q)) - 1
                                             ELSE Cardinality(Queued(q))
  BY <1>2, FS_RemoveElement
<1>4. Cardinality(R) = Cardinality(Queued(q)')
  <2>1. Queued(q)' \in SUBSET Int /\ R \in SUBSET Int
    BY DEF Queued
  <2>2. ASSUME NEW x \in Queued(q)' PROVE x + 1 \in R
    BY <1>1, <2>2 DEF Queued
  <2>3. ASSUME NEW y \in R PROVE y - 1 \in Queued(q)'
    <3>1. y \in 1..Len(queue) /\ y # 1 /\ queue[y] = m
      BY <2>3 DEF Queued
    <3>2. y - 1 \in 1..Len(queue') /\ (y - 1) + 1 = y
      BY <1>1, <3>1
    <3>3. queue'[y - 1] = m
      BY <1>1, <3>1, <3>2
    <3> QED
      BY <3>2, <3>3 DEF Queued
  <2>4. IsFiniteSet(Queued(q)')
    <3>1. Len(queue') \in Nat
      <4>1. queue' \in Seq(Message)
        BY TakeEvent
      <4> QED
        BY <4>1, LenProperties
    <3>2. IsFiniteSet(1..Len(queue')) /\ Queued(q)' \in SUBSET (1..Len(queue'))
      BY <3>1, FS_Interval DEF Queued
    <3> QED
      BY <3>2, FS_Subset
  <2> HIDE DEF R
  <2> QED
    BY <2>1, <2>2, <2>3, <2>4, MovedByOne
<1>5. 1 \in Queued(q) <=> Head(queue) = m
  <2>1. 1 \in 1..Len(queue)
    BY <1>1, EmptySeq DEF Inv, TypeInv
  <2> QED
    BY <1>1, <2>1 DEF Queued
<1> QED
  BY <1>2, <1>3, <1>4, <1>5

(* A session's outputs, as long as the queue has them. *)
LEMMA OutputStays ==
  ASSUME Inv, UNCHANGED <<emitted, published>>,
         \A s \in Session : Cardinality(Queued(s)') = Cardinality(Queued(s))
  PROVE  OutputKept'
BY DEF Inv, OutputKept

LEMMA OutputUnchanged ==
  ASSUME Inv, UNCHANGED <<emitted, published, queue>>
  PROVE  OutputKept'
BY OutputStays DEF Queued

LEMMA OutputForgotten ==
  ASSUME Leave
  PROVE  OutputKept'
<1> SUFFICES ASSUME NEW s \in Session
             PROVE  emitted'[s] = published'[s] + Cardinality(Queued(s)')
  BY DEF OutputKept
<1>1. emitted'[s] = 0 /\ published'[s] = 0 /\ Queued(s)' = {}
  BY DEF Leave, Nothing, Queued
<1> QED
  BY <1>1, FS_EmptySet

(* Nothing that was said is dropped or counted twice. *)
LEMMA OutputStep == ASSUME Inv, Next PROVE OutputKept'
<1>1. ASSUME NEW s \in Session, Speaks(s) PROVE OutputKept'
  <2> SUFFICES ASSUME NEW q \in Session
               PROVE  emitted'[q] = published'[q] + Cardinality(Queued(q)')
    BY DEF OutputKept
  <2>1. /\ emitted' = [emitted EXCEPT ![s] = @ + 1] /\ published' = published
        /\ Read(s, "output")
    BY <1>1 DEF Speaks
  <2>2. Cardinality(Queued(q)') = IF q = s THEN Cardinality(Queued(q)) + 1 ELSE Cardinality(Queued(q))
    BY <2>1, QueuedRead
  <2>3. /\ emitted[q] = published[q] + Cardinality(Queued(q)) /\ Cardinality(Queued(q)) \in Nat
        /\ published[q] \in Nat /\ emitted \in [Session -> 0..MaxOutput]
    BY QueuedFinite DEF Inv, OutputKept, TypeInv
  <2> QED
    BY <2>1, <2>2, <2>3
<1>2. ASSUME NEW s \in Session, Reports(s) PROVE OutputKept'
  <2>1. Read(s, "over") /\ UNCHANGED <<emitted, published>>
    BY <1>2 DEF Reports
  <2> QED
    BY <2>1, QueuedRead, OutputStays
<1>3. ASSUME NEW s \in Session, Breaks(s) \/ DrainCloses(s) PROVE OutputKept'
  <2>1. (Read(s, "end") \/ UNCHANGED queue) /\ UNCHANGED <<emitted, published>>
    BY <1>3 DEF Breaks, DrainCloses
  <2>2. CASE Read(s, "end")
    BY <2>1, <2>2, QueuedRead, OutputStays
  <2>3. CASE UNCHANGED queue
    BY <2>1, <2>3, OutputUnchanged
  <2> QED
    BY <2>1, <2>2, <2>3
<1>4. ASSUME NEW s \in Session, Opens(s) \/ RenewStarts(s) \/ DrainEnds(s) \/ CloseOld(s)
      PROVE  OutputKept'
  BY <1>4, OutputUnchanged DEF Opens, RenewStarts, DrainEnds, CloseOld, output
<1>5. CASE JoinRoom \/ TrackPublished \/ Ready \/ RenewFails \/ Switch
  BY <1>5, OutputUnchanged DEF JoinRoom, TrackPublished, Ready, RenewFails, Switch, output
<1>6. CASE Receive
  <2> SUFFICES ASSUME NEW q \in Session
               PROVE  emitted'[q] = published'[q] + Cardinality(Queued(q)')
    BY DEF OutputKept
  <2> DEFINE m == Head(queue)
  <2>1. queue # <<>> /\ queue' = Tail(queue) /\ emitted' = emitted
    BY <1>6 DEF Receive
  <2>2. published' = IF m.kind = "output" THEN [published EXCEPT ![m.session] = @ + 1] ELSE published
    BY <1>6 DEF Receive, Publishes
  <2>3. m \in Message
    BY <2>1, TakeEvent
  <2>4. m = [session |-> q, kind |-> "output"] <=> m.session = q /\ m.kind = "output"
    BY <2>3 DEF Message
  <2>5. Cardinality(Queued(q)) = IF m.session = q /\ m.kind = "output"
                                 THEN Cardinality(Queued(q)') + 1 ELSE Cardinality(Queued(q)')
    BY <2>1, <2>4, QueuedTaken
  <2>6. /\ emitted[q] = published[q] + Cardinality(Queued(q)) /\ Cardinality(Queued(q)) \in Nat
        /\ published \in [Session -> Nat]
    BY QueuedFinite DEF Inv, OutputKept, TypeInv
  <2>7. published'[q] = IF m.session = q /\ m.kind = "output" THEN published[q] + 1 ELSE published[q]
    BY <2>2, <2>6
  <2>8. Cardinality(Queued(q)') \in Nat
    <3>1. queue' \in Seq(Message)
      BY <2>1, TakeEvent
    <3>2. Len(queue') \in Nat
      BY <3>1, LenProperties
    <3>3. IsFiniteSet(1..Len(queue')) /\ Queued(q)' \in SUBSET (1..Len(queue'))
      BY <3>2, FS_Interval DEF Queued
    <3> QED
      BY <3>3, FS_Subset, FS_CardinalityType
  <2> QED
    BY <2>1, <2>5, <2>6, <2>7, <2>8
<1>7. ASSUME NEW loud \in BOOLEAN, TakeFrame(loud) PROVE OutputKept'
  BY <1>7, OutputUnchanged DEF TakeFrame, output
<1>8. CASE AppendAudio \/ AppendFails
  BY <1>8, OutputUnchanged DEF AppendAudio, AppendFails, output
<1>9. CASE StartFails \/ WaitEnds
  BY <1>9, OutputForgotten DEF StartFails, WaitEnds
<1>10. CASE Gathered \/ CloseCurrent \/ LeaveRoom
  BY <1>10, OutputUnchanged DEF Gathered, CloseCurrent, LeaveRoom, output
<1>11. CASE Cancel
  <2>1. CASE Leave
    BY <2>1, OutputForgotten
  <2>2. CASE UNCHANGED output
    BY <2>2, OutputUnchanged DEF output
  <2> QED
    BY <1>11, <2>1, <2>2 DEF Cancel
<1> QED
  BY <1>1, <1>2, <1>3, <1>4, <1>5, <1>6, <1>7, <1>8, <1>9, <1>10, <1>11
  DEF Next, Drains, Loops, CleanUp

-----------------------------------------------------------------------------
(* At the start nothing is open, said or heard. *)
LEMMA InitInv == Init => Inv
<1> SUFFICES ASSUME Init PROVE Inv
  OBVIOUS
<1>1. MaxOutput \in Nat /\ MaxCancel \in Nat
  BY WorkerAssumption
<1>2. <<>> \in Seq(Message) /\ <<>> \in Seq(Nat) /\ Len(<<>>) = 0 /\ <<>> \o <<>> = <<>>
  BY ConcatEmptySeq, EmptySeq
<1>3. TypeInv
  <2>1. emitted \in [Session -> 0..MaxOutput] /\ published \in [Session -> Nat] /\ cancels \in 0..MaxCancel
    BY <1>1 DEF Init, Nothing
  <2>2. queue \in Seq(Message) /\ receiving \in BOOLEAN /\ sending \in BOOLEAN /\ cut \in BOOLEAN
    BY <1>2 DEF Init
  <2> QED
    BY <2>1, <2>2 DEF Init, TypeInv, Place, SocketState
<1>4. AudioInv
  <2>1. Output = <<>> /\ heard = <<>> /\ gate = NewGate
    BY <1>2 DEF Init, Output
  <2> QED
    BY <1>2, <2>1, NewGateInv DEF Init, AudioInv
<1>5. PlaceInv /\ SocketInv /\ EndsInv
  BY <1>2 DEF Init, PlaceInv, SocketInv, EndsInv, Socket, Known
<1>6. OutputKept
  <2> SUFFICES ASSUME NEW s \in Session
               PROVE  emitted[s] = published[s] + Cardinality(Queued(s))
    BY DEF OutputKept
  <2>1. emitted[s] = 0 /\ published[s] = 0 /\ Queued(s) = {}
    BY <1>2 DEF Init, Nothing, Queued
  <2> QED
    BY <2>1, FS_EmptySet
<1> QED
  BY <1>3, <1>4, <1>5, <1>6 DEF Inv

(* Nothing happens. *)
LEMMA StutterInv == ASSUME Inv, UNCHANGED vars PROVE Inv'
<1> USE DEF vars, drains, output, audio, marks
<1>1. TypeInv' /\ PlaceInv' /\ SocketInv' /\ EndsInv'
  BY DEF Inv, TypeInv, PlaceInv, SocketInv, EndsInv, Socket, Known
<1>2. AudioInv' /\ OutputKept'
  BY AudioKept, OutputUnchanged
<1> QED
  BY <1>1, <1>2 DEF Inv

(* One step of the run keeps the invariant, so that it holds throughout:   *)
(* what the run is, knows, owns and has in its queue at each place where   *)
(* run(), its tasks and aclose() wait.                                     *)
THEOREM Invariance == Spec => []Inv
<1>1. Inv /\ [Next]_vars => Inv'
  <2>1. ASSUME Inv, Next PROVE Inv'
    BY <2>1, TypeStep, AudioStep, PlaceStep, SocketStep, EndsStep, OutputStep DEF Inv
  <2> QED
    BY <2>1, StutterInv
<1> QED
  BY InitInv, <1>1, PTL DEF Spec

-----------------------------------------------------------------------------
(* What the invariant means. *)

(* The figures and the contents of the gate: GateIsExact of SilenceGate's  *)
(* feed, in one state.                                                     *)
LEMMA GateFollows == Inv => GateIsExact
<1> SUFFICES ASSUME Inv PROVE GateIsExact
  OBVIOUS
<1> USE DEF Inv, AudioInv
<1> DEFINE o == Output
           N == Len(heard)
<1>1. /\ o \in Seq(Nat) /\ heard \in Seq(BOOLEAN) /\ gate.buffer \in Seq(Nat)
      /\ N \in Nat /\ Len(o) \in Nat /\ Len(gate.buffer) \in Nat
  <2>1. o \in Seq(Nat) /\ heard \in Seq(BOOLEAN) /\ gate \in GateRecord
    BY DEF GateInv, GateTyped
  <2> QED
    BY <2>1, LenProperties DEF GateRecord
<1>2. \A k : k \in Range(o) <=> Has(o, k)
  BY <1>1, RangeEquality DEF Has
<1>3. \A i \in 1..Len(o) : o[i] \in 1..N
  <2> SUFFICES ASSUME NEW i \in 1..Len(o) PROVE o[i] \in 1..N
    OBVIOUS
  <2>1. 1 <= o[i] /\ o[i] <= N - Len(gate.buffer)
    BY DEF GateInv, BufferInv
  <2>2. o[i] \in Nat
    BY <1>1, ElementOfSeq
  <2> HIDE DEF o, N
  <2> QED
    BY <1>1, <2>1, <2>2
<1>4. Range(o) \subseteq 1..N /\ Range(todo) \subseteq 1..N /\ Range(appended) \subseteq 1..N
  <2>1. Range(o) = Range(appended) \cup Range(todo)
    BY RangeConcatenation DEF Output
  <2>2. Range(o) = {o[i] : i \in 1..Len(o)}
    BY <1>1, RangeEquality
  <2>3. Range(o) \subseteq 1..N
    BY <1>3, <2>2
  <2> HIDE DEF o
  <2> QED
    BY <2>1, <2>3
<1> HIDE DEF o, N
<1>5. TypeOK
  <2>1. gate.silence <= Hangover /\ Len(gate.buffer) <= Prebuffer
    BY GateAssumption DEF GateInv, GateTyped, GateRecord, SilenceInv, BufferInv
  <2>2. published \in [Session -> 0..MaxOutput]
    <3> SUFFICES ASSUME NEW s \in Session PROVE published[s] \in 0..MaxOutput
      BY DEF TypeInv
    <3>1. /\ emitted[s] = published[s] + Cardinality(Queued(s)) /\ Cardinality(Queued(s)) \in Nat
          /\ published[s] \in Nat /\ emitted[s] \in 0..MaxOutput
      BY QueuedFinite DEF OutputKept, TypeInv
    <3> QED
      BY <3>1, WorkerAssumption
  <2>3. heard \in Seq(BOOLEAN) /\ {Range(todo), Range(appended)} \subseteq SUBSET (1..Len(heard))
    BY <1>1, <1>4 DEF N
  <2>4. {current, making, target} \subseteq Session \cup {None}
    BY DEF TypeInv
  <2>5. /\ {receiving, sending, cut} \subseteq BOOLEAN /\ {lost, torn} \subseteq SUBSET Session
        /\ {emitted, published} \subseteq [Session -> 0..MaxOutput]
    BY <2>2 DEF TypeInv
  <2> QED
    BY <2>1, <2>3, <2>4, <2>5 DEF TypeOK, TypeInv, Place, SocketState
<1>6. SpeechIsSent
  <2>1. \A i, j \in 1..Len(o) : i < j => o[i] < o[j]
    BY DEF GateInv, InOrder, o
  <2>2. ASSUME NEW f \in 1..N, heard[f], NEW n \in 1..f, n >= f - Prebuffer PROVE n \in Range(o)
    BY <1>2, <2>2 DEF GateInv, LoudSent, o, N
  <2> QED
    BY <2>1, <2>2 DEF SpeechIsSent, o, N
<1>7. SilenceCounted
  <2>1. ASSUME NEW f \in (1..N) \ Range(o)
        PROVE  f >= Hangover /\ \A n \in (f - Hangover + 1)..f : ~heard[n]
    BY <1>2, <2>1 DEF GateInv, QuietKept, o, N
  <2>2. gate.sent = Len(o) /\ gate.gated = N - Len(o)
    BY DEF GateInv, Counted, o, N
  <2> QED
    BY <2>1, <2>2 DEF SilenceCounted, o, N
<1> QED
  BY <1>5, <1>6, <1>7 DEF GateIsExact

(* For any hangover and prebuffer, SilenceGate.feed sends every loud frame *)
(* and the prebuffer before it, once and in order, across sessions; it     *)
(* withholds a frame only when the hangover of silence is over; and the    *)
(* figures of the status are right.  And every variable keeps its type.    *)
THEOREM GateStaysExact == Spec => []GateIsExact
BY Invariance, GateFollows, PTL

(* What _receive_loop publishes of a session and what of it waits in       *)
(* _event_q is all it has said, before and after _renew_session switches.  *)
THEOREM OutputStaysKept == Spec => []OutputKept
<1>1. Inv => OutputKept
  BY DEF Inv
<1> QED
  BY <1>1, Invariance, PTL

(* A session whose socket is open is one that run(), _renew_session, a     *)
(* drain or aclose() will close, wherever a cancellation or a failure came *)
(* in between; and a run that has cleaned up has closed all and left the   *)
(* room.                                                                   *)
THEOREM SocketsStayKnown == Spec => []EverySocketKnown
<1>1. Inv => EverySocketKnown
  BY NoneIsNoSession DEF Inv, EverySocketKnown, PlaceInv, SocketInv, Known
<1> QED
  BY <1>1, Invariance, PTL

(* _receive_loop returns only on the end or an error of the session in     *)
(* use: that of a drained session, read late, never ends it.               *)
THEOREM OldEndsAreIgnored == Spec => ReceivesUntilLost
<1>1. ASSUME Inv, [Next]_vars, receiving, ~receiving' PROVE current \in lost
  <2>1. CASE Receive
    <3> DEFINE m == Head(queue)
    <3>1. queue # <<>> /\ queue' = Tail(queue) /\ EndsLoop(m)
      BY <1>1, <2>1 DEF Receive
    <3>2. m = queue[1] /\ Len(queue) \in Nat /\ Len(queue') = Len(queue) - 1
      BY <1>1, <3>1, TakeEvent
    <3>3. 1 \in 1..Len(queue)
      BY <1>1, <3>1, <3>2, EmptySeq DEF Inv, TypeInv
    <3>4. m.kind # "output" /\ m.session = current
      BY <3>1 DEF EndsLoop, Active
    <3> QED
      BY <1>1, <3>2, <3>3, <3>4 DEF Inv, EndsInv
  <2>2. CASE receiving' = receiving \/ receiving' = TRUE
    BY <1>1, <2>2
  <2>3. Receive \/ receiving' = receiving \/ receiving' = TRUE
    BY <1>1 DEF Next, Drains, Loops, CleanUp, Speaks, Reports, Breaks, Opens, RenewStarts, JoinRoom,
       TrackPublished, Ready, StartFails, RenewFails, Switch, DrainEnds, DrainCloses, TakeFrame, AppendAudio,
       AppendFails, WaitEnds, Gathered, CloseOld, CloseCurrent, LeaveRoom, Cancel, Leave, vars, output
  <2> QED
    BY <2>1, <2>2, <2>3
<1>2. Inv /\ [Next]_vars => [receiving /\ ~receiving' => current \in lost]_vars
  BY <1>1
<1> QED
  BY <1>2, Invariance, PTL DEF Spec, ReceivesUntilLost
=============================================================================
