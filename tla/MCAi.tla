-------------------------------- MODULE MCAi --------------------------------
(* Small instances of AiChannels for TLC: coroutines are interchangeable.  *)
EXTENDS AiChannels, TLC

Symmetry == Permutations(Task)

(* After a fault, a task that was given up and lives is followed only if   *)
(* it is the one that crashed: the other pairs double the states.          *)
OneTrouble == faults = 0 \/ \A w \in leaked : Alive(w) => run[w] = "backoff"
=============================================================================
