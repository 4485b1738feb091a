---------------------------- MODULE LeaseLedger ----------------------------
(***************************************************************************)
(* What the channel ledger promises, with no requests, locks, webhooks or  *)
(* LiveKit in sight: a channel is sent on under at most one identity, the  *)
(* identity is a fresh one each time, it carries the epoch and the         *)
(* generation it was granted under, and whoever lost it never holds the    *)
(* channel again.                                                          *)
(***************************************************************************)
EXTENDS Integers

CONSTANTS Channel, None

VARIABLES
  open,       \* channels that can be sent on
  epoch,      \* takeovers of each channel so far
  generation, \* rotations of the send password so far
  holder,     \* the identity that may send on each channel, or None
  issued      \* every identity ever granted

vars == <<open, epoch, generation, holder, issued>>

Identity == [ch : Channel, epoch : Nat, gen : Nat, nonce : Nat]

Init ==
  /\ open = {}
  /\ epoch = [c \in Channel |-> 1]
  /\ generation = 1
  /\ holder = [c \in Channel |-> None]
  /\ issued = {}

Open(c) ==
  /\ c \notin open
  /\ open' = open \cup {c}
  /\ UNCHANGED <<epoch, generation, holder, issued>>

(* The new holder is an identity nobody was ever given. *)
GrantFresh(c, e) ==
  LET x == holder'[c]
  IN  /\ x \in Identity \ issued
      /\ x.ch = c /\ x.epoch = e /\ x.gen = generation
      /\ holder' = [holder EXCEPT ![c] = x]
      /\ issued' = issued \cup {x}

Grant(c) ==
  /\ c \in open
  /\ GrantFresh(c, epoch[c])
  /\ UNCHANGED <<open, epoch, generation>>

TakeOver(c) ==
  /\ c \in open
  /\ epoch' = [epoch EXCEPT ![c] = @ + 1]
  /\ GrantFresh(c, epoch[c] + 1)
  /\ UNCHANGED <<open, generation>>

Release(c) ==
  /\ holder' = [holder EXCEPT ![c] = None]
  /\ UNCHANGED <<open, epoch, generation, issued>>

Close(c) ==
  /\ c \in open
  /\ open' = open \ {c}
  /\ holder' = [holder EXCEPT ![c] = None]
  /\ UNCHANGED <<epoch, generation, issued>>

Rotate ==
  /\ generation' = generation + 1
  /\ holder' = [c \in Channel |-> None]
  /\ UNCHANGED <<open, epoch, issued>>

Next ==
  \/ \E c \in Channel : Open(c) \/ Grant(c) \/ TakeOver(c) \/ Release(c) \/ Close(c)
  \/ Rotate

Spec == Init /\ [][Next]_vars
=============================================================================
