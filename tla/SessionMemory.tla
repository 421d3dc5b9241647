---------------------------- MODULE SessionMemory ----------------------------
(***************************************************************************)
(* What the snapshot store of a session promises (snapshot-protocol.ts, the  *)
(* commit contract of session-store.ts), without workers, files, versions or *)
(* attempts: for each transcript epoch one memory that begins once and then  *)
(* grows by one body at a time, and answers that are given only for bodies   *)
(* in it, in the order of the memory.  An epoch may be forfeited: its chain  *)
(* was deleted by a reset or written by a legacy put, and nothing is         *)
(* promised of it any more.  SnapshotProtocol implements this module.        *)
(***************************************************************************)
EXTENDS Integers, Sequences

CONSTANTS
  Epochs,  \* the transcript epochs
  Runs     \* the runs of turn bodies

VARIABLES
  memory,    \* epoch -> the bodies it remembers, in order
  told,      \* the answers given: the epoch and the body of each
  forfeited  \* epochs of which nothing is promised any more

vars == <<memory, told, forfeited>>

(* The places of body b in the memory s.                                    *)
Places(s, b) == {n \in DOMAIN s : s[n] = b}

WithoutRepeats(s) == \A m, n \in DOMAIN s : m # n => s[m] # s[n]

-----------------------------------------------------------------------------
Init ==
  /\ memory = [e \in Epochs |-> <<>>]
  /\ told = <<>>
  /\ forfeited = {}

(* The first snapshot of an epoch.                                          *)
Begin(e) ==
  /\ e \notin forfeited
  /\ memory[e] = <<>>
  /\ memory'[e] \in Seq(Runs)
  /\ WithoutRepeats(memory'[e])
  /\ memory' = [memory EXCEPT ![e] = memory'[e]]
  /\ UNCHANGED <<told, forfeited>>

(* A later snapshot is the one before with one body more.                   *)
Remember(e, b) ==
  /\ e \notin forfeited
  /\ Places(memory[e], b) = {}
  /\ memory' = [memory EXCEPT ![e] = Append(@, b)]
  /\ UNCHANGED <<told, forfeited>>

(* An answer: its body is remembered, behind those of all earlier answers.  *)
Tell(e, b) ==
  /\ e \notin forfeited =>
       /\ Places(memory[e], b) # {}
       /\ \A k \in DOMAIN told : told[k].epoch = e =>
            \A m \in Places(memory[e], told[k].body), n \in Places(memory[e], b) : m < n
  /\ told' = Append(told, [epoch |-> e, body |-> b])
  /\ UNCHANGED <<memory, forfeited>>

Forfeit(E) ==
  /\ forfeited' = forfeited \union E
  /\ memory' = [e \in Epochs |-> IF e \in E THEN <<>> ELSE memory[e]]
  /\ UNCHANGED told

Next ==
  \/ \E e \in Epochs : Begin(e)
  \/ \E e \in Epochs, b \in Runs : Remember(e, b) \/ Tell(e, b)
  \/ \E E \in SUBSET Epochs : Forfeit(E)

Spec == Init /\ [][Next]_vars

-----------------------------------------------------------------------------
(* What was told stays remembered, in the order in which it was told.       *)
ToldIsRemembered ==
  \A k \in DOMAIN told : told[k].epoch \notin forfeited =>
    /\ Places(memory[told[k].epoch], told[k].body) # {}
    /\ \A l \in 1 .. k - 1 : told[l].epoch = told[k].epoch =>
         \A m \in Places(memory[told[k].epoch], told[l].body),
            n \in Places(memory[told[k].epoch], told[k].body) : m < n
=============================================================================
