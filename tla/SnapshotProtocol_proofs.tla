----------------------- MODULE SnapshotProtocol_proofs -----------------------
(***************************************************************************)
(* Proofs about the memory of a session: for any number of workers, turns,  *)
(* deliveries, faults and epochs, the files a worker trusts are true, no    *)
(* epoch takes the memory of another, a turn loses its memory to another    *)
(* writer only, and the protocol implements SessionMemory.                  *)
(*                                                                          *)
(* The argument.  The lock of a worker makes an attempt the only one that   *)
(* touches the files while it works (Alone), so that they stay what it      *)
(* found (Files, LocalIsTrue, LastOwn).  While nothing bypasses an epoch,   *)
(* an attempt that nobody has overtaken has the stored version as its base  *)
(* and the stored memory in its files (BaseKept): its compare-and-swap can  *)
(* only add its own body.  One that was overtaken has an older base, and    *)
(* its swap fails.  What was committed stays (CommitKept), so that an       *)
(* answer names a stored body, and because a chain only grows at its end,   *)
(* later turns are stored behind earlier ones (Ordered).                    *)
(*                                                                          *)
(* The steps of an attempt are treated first, by what they do to the        *)
(* attempts, to the files and to the store; then the steps of the           *)
(* orchestration and of a worker's process, which are calm.                 *)
(*                                                                          *)
(* The last part is about SessionMemory: what takes its steps keeps its     *)
(* promise, and so the protocol does.                                       *)
(***************************************************************************)
EXTENDS SnapshotProtocol, SequenceTheorems, TLAPS

(* The attempt has taken a base, ...                                        *)
Based(i) == att[i].pc \in {"create", "lost", "body", "ran", "replayed", "commit", "marker",
                           "clear", "adopt"}

(* ... is at work after its first commit, ...                               *)
Wrote(i) == att[i].pc \in {"commit", "marker", "clear", "adopt"}

(* ... or has run its body.                                                 *)
Ran(i) == att[i].pc \in {"ran", "replayed", "commit", "marker", "clear", "adopt", "done", "dead"}

(* The attempts have their types and are no more than their bound.          *)
AttTypes == att \in Seq(Attempt) /\ Len(att) <= MaxAttempts

(* The delivery of an attempt never changes, and a body that has run stays  *)
(* a body that has run.                                                     *)
Keeps(i) ==
  /\ att'[i].key = att[i].key
  /\ att'[i].index = att[i].index
  /\ att'[i].epoch = att[i].epoch
  /\ att'[i].start = att[i].start
  /\ att'[i].worker = att[i].worker
  /\ Ran(i) => Ran(i)'

(* What an attempt keeps when it only goes on.                              *)
Rest(i) ==
  /\ att'[i].base = att[i].base
  /\ att'[i].passed = att[i].passed
  /\ att'[i].how = att[i].how
  /\ att'[i].body = att[i].body

(* The steps that mark the other attempts of the epoch as overtaken.        *)
Marks(i) == CommitSwaps(i) \/ CommitAnswerLost(i)

(* Another attempt may only be marked as overtaken.                         *)
Aside(i, j) ==
  \/ att'[j] = att[j]
  \/ Marks(i) /\ Active(j) /\ att'[j] = [att[j] EXCEPT !.passed = TRUE]

(* What a step of attempt i does to the attempts.                           *)
AttStep(i) ==
  /\ i \in Attempts
  /\ AttTypes'
  /\ Len(att') = Len(att)
  /\ Keeps(i)
  /\ \A j \in Attempts \ {i} : Aside(i, j)

(* A record is put in the place of attempt i.                               *)
LEMMA Update ==
  ASSUME AttTypes, NEW i \in Attempts, NEW a \in Attempt, att' = [att EXCEPT ![i] = a]
  PROVE  /\ AttTypes'
         /\ Len(att') = Len(att)
         /\ att'[i] = a
         /\ \A j \in Attempts \ {i} : att'[j] = att[j]
<1>1. i \in 1 .. Len(att) /\ att \in Seq(Attempt)
  BY DEF Attempts, AttTypes
<1>2. /\ [att EXCEPT ![i] = a] \in Seq(Attempt)
      /\ Len([att EXCEPT ![i] = a]) = Len(att)
      /\ \A j \in 1 .. Len(att) : [att EXCEPT ![i] = a][j] = IF j = i THEN a ELSE att[j]
  BY <1>1, ExceptSeq
<1> QED
  BY <1>1, <1>2 DEF Attempts, AttTypes

(* An attempt is a record of its type.                                      *)
LEMMA AttemptType ==
  ASSUME AttTypes, NEW i \in Attempts
  PROVE  att[i] \in Attempt
BY ElementOfSeq DEF AttTypes, Attempts

(* The attempt goes on and keeps its base, its mark and its answer.         *)
LEMMA GotoStep ==
  ASSUME AttTypes, NEW i \in Attempts, NEW pc \in Pcs, Goto(i, pc),
         Ran(i) => pc \in {"ran", "replayed", "commit", "marker", "clear", "adopt", "done", "dead"}
  PROVE  /\ AttStep(i)
         /\ att'[i].pc = pc /\ Rest(i)
         /\ \A j \in Attempts \ {i} : att'[j] = att[j]
<1>1. att[i] \in Attempt
  BY AttemptType
<1>2. [att[i] EXCEPT !.pc = pc] \in Attempt
  BY <1>1 DEF Attempt
<1>3. att' = [att EXCEPT ![i] = [att[i] EXCEPT !.pc = pc]]
  BY DEF Goto
<1>4. /\ AttTypes'
      /\ Len(att') = Len(att)
      /\ att'[i] = [att[i] EXCEPT !.pc = pc]
      /\ \A j \in Attempts \ {i} : att'[j] = att[j]
  BY <1>2, <1>3, Update
<1>5. Keeps(i) /\ att'[i].pc = pc /\ Rest(i)
  BY <1>1, <1>4 DEF Keeps, Rest, Ran, Attempt
<1> QED
  BY <1>4, <1>5 DEF AttStep, Aside

(* A dead attempt is an attempt.                                            *)
LEMMA DeadType ==
  ASSUME NEW a \in Attempt
  PROVE  Dead(a) \in Attempt
<1>1. 0 \in 0 .. MaxAttempts
  BY SnapshotConstants
<1> QED
  BY <1>1 DEF Attempt, Dead, Pcs, Hows

(* The attempt returns, or is dead if nobody waits for it.                  *)
LEMMA ReturnStep ==
  ASSUME AttTypes, NEW i \in Attempts, NEW how \in Hows, NEW body \in 0 .. MaxAttempts,
         NEW version \in Nat, Return(i, how, body, version)
  PROVE  /\ AttStep(i)
         /\ att'[i].pc \in {"done", "dead"}
         /\ att'[i].pc = "done" => /\ att'[i].passed = att[i].passed /\ att'[i].how = how
                                   /\ att'[i].body = body /\ att'[i].base = version
         /\ \A j \in Attempts \ {i} : att'[j] = att[j]
<1>1. att[i] \in Attempt
  BY AttemptType
<1> DEFINE a == IF att[i].key <= Len(answers) THEN Dead(att[i])
                ELSE [att[i] EXCEPT !.pc = "done", !.how = how, !.body = body,
                           !.base = version, !.fresh = FALSE]
<1>2. a \in Attempt /\ a.pc \in {"done", "dead"}
  <2>1. Dead(att[i]) \in Attempt /\ Dead(att[i]).pc = "dead"
    BY <1>1, DeadType DEF Attempt, Dead
  <2> QED
    BY <1>1, <2>1 DEF Attempt, Pcs
<1>3. att' = [att EXCEPT ![i] = a]
  BY DEF Return
<1>4. /\ AttTypes'
      /\ Len(att') = Len(att)
      /\ att'[i] = a
      /\ \A j \in Attempts \ {i} : att'[j] = att[j]
  <2> HIDE DEF a
  <2> QED BY <1>2, <1>3, Update
<1>5. Keeps(i)
  BY <1>1, <1>2, <1>4 DEF Keeps, Ran, Attempt, Dead
<1>6. att'[i].pc = "done" => /\ att'[i].passed = att[i].passed /\ att'[i].how = how
                             /\ att'[i].body = body /\ att'[i].base = version
  BY <1>1, <1>4 DEF Attempt, Dead
<1> QED
  BY <1>2, <1>4, <1>5, <1>6 DEF AttStep, Aside

(* The compare-and-swap lets the attempt go on and marks the others at      *)
(* work.                                                                    *)
LEMMA WriteStep ==
  ASSUME AttTypes, NEW i \in Attempts, NEW pc \in {"marker", "commit"}, Marks(i),
         Write(i, pc)
  PROVE  /\ AttStep(i)
         /\ att'[i].pc = pc /\ Rest(i)
         /\ \A j \in Attempts \ {i} : att[j].epoch = att[i].epoch /\ Active(j) =>
              att'[j] = [att[j] EXCEPT !.passed = TRUE]
         /\ \A j \in Attempts \ {i} : ~(att[j].epoch = att[i].epoch /\ Active(j)) =>
              att'[j] = att[j]
<1> DEFINE e == att[i].epoch
           b == [att[i] EXCEPT !.pc = pc]
           new == Overtaking(e, att)
<1>1. \A j \in Attempts : att[j] \in Attempt
  BY AttemptType
<1>2. DOMAIN att = Attempts /\ Len(att) \in Nat
  BY LenProperties DEF AttTypes, Attempts
<1>3. \A j \in Attempts : new[j] \in Attempt
  BY <1>1, <1>2 DEF Overtaking, Attempt
<1>4. new \in [1 .. Len(att) -> Attempt]
  BY <1>2, <1>3 DEF Overtaking, Attempts
<1>5. new \in Seq(Attempt) /\ Len(new) = Len(att)
  BY <1>2, <1>4 
<1>6. b \in Attempt
  BY <1>1 DEF Attempt, Pcs
<1>7. att' = [new EXCEPT ![i] = b]
  BY DEF Write
<1>8. /\ att' \in Seq(Attempt)
      /\ Len(att') = Len(att)
      /\ \A j \in 1 .. Len(att) : att'[j] = IF j = i THEN b ELSE new[j]
  <2> HIDE DEF b, new
  <2>1. i \in 1 .. Len(new)
    BY <1>5 DEF Attempts
  <2> QED
    BY <1>5, <1>6, <1>7, <2>1, ExceptSeq
<1>9. Keeps(i) /\ att'[i].pc = pc /\ Rest(i)
  BY <1>1, <1>8 DEF Keeps, Rest, Ran, Attempt, Attempts
<1>10. \A j \in Attempts \ {i} : att[j].epoch = att[i].epoch /\ Active(j) =>
              att'[j] = [att[j] EXCEPT !.passed = TRUE]
  BY <1>2, <1>8 DEF Overtaking, Active, Attempts
<1>11. \A j \in Attempts \ {i} : ~(att[j].epoch = att[i].epoch /\ Active(j)) =>
              att'[j] = att[j]
  BY <1>2, <1>8 DEF Overtaking, Active, Attempts
<1> QED
  BY <1>8, <1>9, <1>10, <1>11 DEF AttStep, Aside, AttTypes, Attempts

-----------------------------------------------------------------------------
(* A turn index is never ahead of the answers, and no attempt is ahead of   *)
(* the turns.                                                               *)
Keys ==
  /\ index <= Len(answers)
  /\ \A i \in Attempts : att[i].key <= asked

(* The run-turn lock: one attempt at work on each worker, none while the    *)
(* worker writes a legacy snapshot.                                         *)
Alone ==
  /\ \A i, j \in Attempts : Active(i) /\ Active(j) /\ att[i].worker = att[j].worker => i = j
  /\ \A w \in evicting : ~memory[w].live /\ \A i \in Attempts : att[i].worker = w => ~Active(i)

(* What is not there is empty, what carries no marker has no version; the   *)
(* body runs in a warm session.                                             *)
Files ==
  /\ \A w \in Workers : ~dir[w].here => dir[w].content = <<>>
  /\ \A w \in Workers : ~memory[w].live => memory[w].content = <<>>
  /\ \A w \in Workers : ~dir[w].marker.set => dir[w].marker.version = 0 /\ dir[w].marker.epoch = 0
  /\ \A i \in Attempts : att[i].pc = "body" => memory[att[i].worker].live
  /\ \A i \in Attempts : att[i].pc = "clear" =>
       dir[att[i].worker].content = dir[att[i].worker].marker.hash

(* A memory is made of attempts that ran, each once.                        *)
Proper(s) ==
  /\ \A n \in 1 .. Len(s) : s[n] \in Attempts /\ Ran(s[n])
  /\ \A m, n \in 1 .. Len(s) : m # n => s[m] # s[n]

(* All files and all chains are such memories.                              *)
Contents ==
  /\ \A w \in Workers : Proper(dir[w].content)
  /\ \A e \in Epochs : Proper(store[e].content)

(* After its body, an attempt is the last in its files.                     *)
LastOwn ==
  \A i \in Attempts : att[i].pc \in {"ran", "replayed", "commit", "marker", "clear",
                               "adopt"} =>
    /\ dir[att[i].worker].content # <<>>
    /\ Last(dir[att[i].worker].content) = i

(* All bodies of the memory s are of epoch e.                               *)
Pure(s, e) == \A n \in 1 .. Len(s) : att[s[n]].epoch = e

(* Chains of later epochs and files with a marker of one are of this epoch, *)
(* and so are the files an attempt works on.                                *)
Epoched ==
  /\ \A e \in Epochs \ {0} : Pure(store[e].content, e)
  /\ \A w \in Workers : dir[w].marker.epoch # 0 => Pure(dir[w].content, dir[w].marker.epoch)
  /\ \A i \in Attempts : Based(i) =>
       /\ dir[att[i].worker].marker.set => dir[att[i].worker].marker.epoch = att[i].epoch
       /\ att[i].epoch # 0 => Pure(dir[att[i].worker].content, att[i].epoch)

(* An absent chain is empty, a versioned one is not, and a legacy one was   *)
(* written past the compare-and-swap.                                       *)
Chains ==
  \A e \in Epochs :
    /\ store[e].version = -1 => store[e].content = <<>>
    /\ store[e].version = 0 => e \in bypassed
    /\ store[e].version >= 1 => store[e].content # <<>>

(* The store is never behind a marker of an epoch that was not bypassed.    *)
Markers ==
  \A w \in Workers : dir[w].marker.version >= 1 /\ dir[w].marker.epoch \notin bypassed =>
     store[dir[w].marker.epoch].version >= dir[w].marker.version

(* Until its commit, an attempt that has not been overtaken has the stored  *)
(* version as its base and works on the stored memory; one that has been    *)
(* overtaken has an older base.                                             *)
BaseKept(i, w, e) ==
  LET c == store[e]
      a == att[i]
  IN  /\ a.passed => a.base < c.version
      /\ ~a.passed /\ ~Exists(c) => a.base = 0
      /\ ~a.passed /\ Exists(c) =>
           /\ a.base = c.version
           /\ a.pc # "replayed"
           /\ a.pc = "create" => dir[w].here
           /\ a.pc \in {"create", "body"} => dir[w].content = c.content
           /\ a.pc = "ran" => dir[w].content = Append(c.content, i)

(* From its commit on, its snapshot, or that of another attempt of its      *)
(* turn, is stored, or has been built upon.                                 *)
CommitKept(i, e) ==
  LET c == store[e]
      a == att[i]
  IN  /\ Wrote(i) => c.version > a.base
      /\ a.pc \in {"commit", "adopt"} /\ ~a.passed => c.version = a.base + 1 /\ Bears(c, a.key)
      /\ a.pc \in {"marker", "clear"} => \E n \in 1 .. Len(c.content) : c.content[n] = i
      /\ a.pc = "done" /\ a.how \in {"committed", "stored"} =>
           \E n \in 1 .. Len(c.content) : c.content[n] = a.body /\ KeyOf(c.content[n]) = a.key
      /\ a.pc = "done" /\ a.how = "superseded" => a.passed

(* Both, for attempt i on worker w and the chain of epoch e.                *)
Kept(i, w, e) == (Based(i) /\ ~Wrote(i) => BaseKept(i, w, e)) /\ CommitKept(i, e)

(* They hold of every attempt whose epoch was not bypassed.                 *)
AllKept ==
  \A i \in Attempts : att[i].epoch \notin bypassed => Kept(i, att[i].worker, att[i].epoch)

(* What was told is stored, before every body of a later turn.              *)
InOrder(t, s) ==
  /\ \E n \in 1 .. Len(s) : s[n] = t.body /\ KeyOf(s[n]) <= Len(answers)
  /\ \A m, n \in 1 .. Len(s) : s[m] = t.body /\ KeyOf(s[n]) > KeyOf(s[m]) => m < n

(* All that was told is in order.                                           *)
Ordered ==
  \A k \in 1 .. Len(told) :
    told[k].epoch \notin bypassed => InOrder(told[k], store[told[k].epoch].content)

(* An answer for a turn that was committed names an attempt.                *)
Named ==
  \A i \in Attempts : att[i].pc = "done" /\ att[i].how \in {"committed", "stored"} =>
    att[i].body \in Attempts

(* The inductive invariant.                                                 *)
Inv ==
  /\ TypeOK /\ Keys /\ Alone /\ Files /\ LocalIsTrue /\ Contents /\ LastOwn /\ Epoched /\ Chains
  /\ Markers /\ AllKept /\ Ordered /\ Named

(* A step of attempt i.                                                     *)
Works(i) == Preamble(i) \/ getOrCreate(i) \/ RunBody(i) \/ ReplayBody(i) \/ runTurnCommit(i)
            \/ AttemptThrows(i)

(* The attempt takes a base.                                                *)
LEMMA BaseStep ==
  ASSUME AttTypes, NEW i \in Attempts, NEW pc \in {"create", "body"}, NEW v \in Nat,
         NEW f \in BOOLEAN, ~Ran(i),
         att' = [att EXCEPT ![i].pc = pc, ![i].base = v, ![i].fresh = f, ![i].passed = FALSE]
  PROVE  /\ AttStep(i)
         /\ att'[i].pc = pc /\ att'[i].base = v /\ ~att'[i].passed
         /\ \A j \in Attempts \ {i} : att'[j] = att[j]
<1> DEFINE a == [att[i] EXCEPT !.pc = pc, !.base = v, !.fresh = f, !.passed = FALSE]
<1>1. att[i] \in Attempt
  BY AttemptType
<1>2. a \in Attempt
  BY <1>1 DEF Attempt, Pcs
<1>3. att' = [att EXCEPT ![i] = a]
  OBVIOUS
<1>4. /\ AttTypes'
      /\ Len(att') = Len(att)
      /\ att'[i] = a
      /\ \A j \in Attempts \ {i} : att'[j] = att[j]
  <2> HIDE DEF a
  <2> QED BY <1>2, <1>3, Update
<1>5. Keeps(i)
  <2>1. /\ a.key = att[i].key /\ a.index = att[i].index /\ a.epoch = att[i].epoch
        /\ a.start = att[i].start /\ a.worker = att[i].worker
    BY <1>1 DEF Attempt
  <2> HIDE DEF a
  <2> QED
    BY <1>4, <2>1 DEF Keeps
<1>6. a.pc = pc /\ a.base = v /\ ~a.passed
  BY <1>1 DEF Attempt
<1> HIDE DEF a
<1> QED
  BY <1>4, <1>5, <1>6 DEF AttStep, Aside

(* The same when the attempt stays as fresh as it was.                      *)
LEMMA RebaseStep ==
  ASSUME AttTypes, NEW i \in Attempts, NEW pc \in {"create", "body"}, NEW v \in Nat, ~Ran(i),
         att' = [att EXCEPT ![i].pc = pc, ![i].base = v, ![i].passed = FALSE]
  PROVE  /\ AttStep(i)
         /\ att'[i].pc = pc /\ att'[i].base = v /\ ~att'[i].passed
         /\ \A j \in Attempts \ {i} : att'[j] = att[j]
<1> DEFINE a == [att[i] EXCEPT !.pc = pc, !.base = v, !.passed = FALSE]
<1>1. att[i] \in Attempt
  BY AttemptType
<1>2. a \in Attempt
  BY <1>1 DEF Attempt, Pcs
<1>3. att' = [att EXCEPT ![i] = a]
  OBVIOUS
<1>4. /\ AttTypes'
      /\ Len(att') = Len(att)
      /\ att'[i] = a
      /\ \A j \in Attempts \ {i} : att'[j] = att[j]
  <2> HIDE DEF a
  <2> QED BY <1>2, <1>3, Update
<1>5. Keeps(i)
  <2>1. /\ a.key = att[i].key /\ a.index = att[i].index /\ a.epoch = att[i].epoch
        /\ a.start = att[i].start /\ a.worker = att[i].worker
    BY <1>1 DEF Attempt
  <2> HIDE DEF a
  <2> QED
    BY <1>4, <2>1 DEF Keeps
<1>6. a.pc = pc /\ a.base = v /\ ~a.passed
  BY <1>1 DEF Attempt
<1> HIDE DEF a
<1> QED
  BY <1>4, <1>5, <1>6 DEF AttStep, Aside

(* The version of a chain that exists is a base, and the last body of one   *)
(* that bears a key is an attempt.                                          *)
LEMMA ChainFacts ==
  ASSUME Inv, NEW e \in Epochs
  PROVE  /\ store[e] \in Chain
         /\ Exists(store[e]) => store[e].version \in Nat
         /\ \A key : Bears(store[e], key) =>
              /\ Len(store[e].content) \in 1 .. Len(store[e].content)
              /\ Last(store[e].content) \in Attempts
              /\ Last(store[e].content) \in 0 .. MaxAttempts
              /\ KeyOf(Last(store[e].content)) = key
<1>1. store[e] \in Chain
  BY DEF Inv, TypeOK
<1>2. Exists(store[e]) => store[e].version \in Nat
  BY <1>1 DEF Chain, Exists
<1>3. ASSUME NEW key, Bears(store[e], key)
      PROVE  Len(store[e].content) \in 1 .. Len(store[e].content)
  <2>1. store[e].content \in Seq(Runs) /\ store[e].content # <<>>
    BY <1>1, <1>3 DEF Bears, Chain, Inv, Chains
  <2> QED
    BY <2>1, EmptySeq, LenProperties
<1>4. ASSUME NEW key, Bears(store[e], key)
      PROVE  /\ Last(store[e].content) \in Attempts
             /\ Last(store[e].content) \in 0 .. MaxAttempts
             /\ KeyOf(Last(store[e].content)) = key
  <2>1. Last(store[e].content) \in Attempts
    BY <1>3, <1>4 DEF Last, Inv, Contents, Proper
  <2>2. Len(att) \in Nat /\ Len(att) <= MaxAttempts
    BY LenProperties DEF Inv, TypeOK
  <2> QED
    BY <1>4, <2>1, <2>2, SnapshotConstants DEF Bears, Attempts
<1> QED
  BY <1>1, <1>2, <1>3, <1>4

(* A step of an attempt changes this attempt, and marks others at most.     *)
LEMMA AttemptSteps ==
  ASSUME Inv, NEW i \in 1 .. MaxAttempts, Works(i)
  PROVE  AttStep(i)
<1> DEFINE c == store[att[i].epoch]
           w == att[i].worker
<1>a. AttTypes
  BY DEF Inv, TypeOK, AttTypes
<1>b. i \in Attempts
  BY DEF Works, Preamble, getOrCreate, runTurnCommit, At, FindCommitted, Acquire, UseLocal,
     StartFresh, UseStore, resolveFromStore, recoverAlreadyCommitted, NothingToHydrate, Throw,
     CreateFirst, CreateNew, CreateEpoch, Resume, Resuming, ResumeStored, ResumeLost,
     attemptStoreRecovery, LossyReplay, CreationFails, RunBody, ReplayBody, DiscardStopped,
     CommitSwaps, Committing, CommitAnswerLost, CommitFindsOwn, CommitConflicts, WriteMarker,
     ClearSentinel, AdoptWinner, AdoptNothing, AttemptThrows
<1>c. att[i] \in Attempt /\ att[i].epoch \in Epochs /\ att[i].base \in Nat /\ w \in Workers
  BY <1>a, <1>b, AttemptType DEF Attempt
<1>d. /\ Exists(c) => c.version \in Nat
      /\ \A key : Bears(c, key) => Last(c.content) \in 0 .. MaxAttempts
  BY <1>c, ChainFacts
<1>e. /\ 0 \in Nat /\ 0 \in 0 .. MaxAttempts /\ i \in 0 .. MaxAttempts
      /\ att[i].base + 1 \in Nat
      /\ dir[w].marker.version \in Nat
  <2>1. dir[w] \in Directory
    BY <1>c DEF Inv, TypeOK
  <2>2. dir[w].marker.version \in Nat
    BY <2>1 DEF Directory, MarkerFile
  <2> QED
    BY <1>c, <2>2, SnapshotConstants
<1>1. ASSUME FindCommitted(i) PROVE AttStep(i)
  BY <1>1, <1>a, <1>b, GotoStep DEF FindCommitted, Acquire, At, Ran, Pcs
<1>2. ASSUME UseLocal(i) PROVE AttStep(i)
  BY <1>2, <1>a, <1>b, <1>d, <1>e, RebaseStep DEF UseLocal, Acquire, At, Ran
<1>3. ASSUME StartFresh(i) PROVE AttStep(i)
  BY <1>3, <1>a, <1>b, <1>e, BaseStep DEF StartFresh, Acquire, At, Ran
<1>4. ASSUME UseStore(i) PROVE AttStep(i)
  BY <1>4, <1>a, <1>b, GotoStep DEF UseStore, Acquire, At, Ran, Pcs
<1>5. ASSUME resolveFromStore(i) PROVE AttStep(i)
  BY <1>5, <1>a, <1>b, <1>d, <1>e, RebaseStep DEF resolveFromStore, At, Ran
<1>6. ASSUME recoverAlreadyCommitted(i) PROVE AttStep(i)
  BY <1>6, <1>a, <1>b, <1>d, <1>e, ReturnStep, RebaseStep DEF recoverAlreadyCommitted, Hows, At, Ran
<1>7. ASSUME NothingToHydrate(i) PROVE AttStep(i)
  BY <1>7, <1>a, <1>b, <1>c, <1>d, <1>e, ReturnStep DEF NothingToHydrate, Throw, Hows
<1>8. ASSUME CreateFirst(i) PROVE AttStep(i)
  BY <1>8, <1>a, <1>b, GotoStep DEF CreateFirst, CreateNew, At, Ran, Pcs
<1>9. ASSUME CreateEpoch(i) PROVE AttStep(i)
  BY <1>9, <1>a, <1>b, GotoStep DEF CreateEpoch, CreateNew, At, Ran, Pcs
<1>10. ASSUME Resume(i) PROVE AttStep(i)
  BY <1>10, <1>a, <1>b, GotoStep DEF Resume, Resuming, At, Ran, Pcs
<1>11. ASSUME ResumeStored(i) PROVE AttStep(i)
  BY <1>11, <1>a, <1>b, <1>e, ReturnStep, GotoStep
  DEF ResumeStored, Resuming, Throw, Hows, At, Ran, Pcs
<1>12. ASSUME ResumeLost(i) PROVE AttStep(i)
  BY <1>12, <1>a, <1>b, GotoStep DEF ResumeLost, Resuming, At, Ran, Pcs
<1>13. ASSUME attemptStoreRecovery(i) PROVE AttStep(i)
  BY <1>13, <1>a, <1>b, <1>d, <1>e, RebaseStep DEF attemptStoreRecovery, At, Ran
<1>14. ASSUME LossyReplay(i) PROVE AttStep(i)
  BY <1>14, <1>a, <1>b, GotoStep DEF LossyReplay, CreateNew, At, Ran, Pcs
<1>15. ASSUME CreationFails(i) PROVE AttStep(i)
  BY <1>15, <1>a, <1>b, <1>c, <1>d, <1>e, ReturnStep DEF CreationFails, Hows
<1>16. ASSUME RunBody(i) PROVE AttStep(i)
  BY <1>16, <1>a, <1>b, GotoStep DEF RunBody, At, Ran, Pcs
<1>17. ASSUME ReplayBody(i) PROVE AttStep(i)
  BY <1>17, <1>a, <1>b, GotoStep DEF ReplayBody, At, Ran, Pcs
<1>18. ASSUME DiscardStopped(i) PROVE AttStep(i)
  BY <1>18, <1>a, <1>b, <1>c, <1>d, <1>e, ReturnStep DEF DiscardStopped, Hows
<1>19. ASSUME CommitSwaps(i) PROVE AttStep(i)
  BY <1>19, <1>a, <1>b, WriteStep DEF Marks, CommitSwaps, Committing
<1>20. ASSUME CommitAnswerLost(i) PROVE AttStep(i)
  BY <1>20, <1>a, <1>b, WriteStep DEF Marks, CommitAnswerLost, Committing
<1>21. ASSUME CommitFindsOwn(i) PROVE AttStep(i)
  BY <1>21, <1>a, <1>b, GotoStep DEF CommitFindsOwn, Committing, At, Ran, Pcs
<1>22. ASSUME CommitConflicts(i) PROVE AttStep(i)
  BY <1>22, <1>a, <1>b, <1>c, <1>d, <1>e, ReturnStep DEF CommitConflicts, Committing, Hows
<1>23. ASSUME WriteMarker(i) PROVE AttStep(i)
  BY <1>23, <1>a, <1>b, GotoStep DEF WriteMarker, At, Ran, Pcs
<1>24. ASSUME ClearSentinel(i) PROVE AttStep(i)
  BY <1>24, <1>a, <1>b, <1>c, <1>d, <1>e, ReturnStep DEF ClearSentinel, Hows
<1>25. ASSUME AdoptWinner(i) PROVE AttStep(i)
  BY <1>25, <1>a, <1>b, <1>c, <1>d, <1>e, ReturnStep DEF AdoptWinner, Hows
<1>26. ASSUME AdoptNothing(i) PROVE AttStep(i)
  BY <1>26, <1>a, <1>b, GotoStep DEF AdoptNothing, At, Ran, Pcs
<1>27. ASSUME AttemptThrows(i) PROVE AttStep(i)
  BY <1>27, <1>a, <1>b, <1>c, <1>d, <1>e, ReturnStep DEF AttemptThrows, Throw, Hows
<1> QED
  BY <1>1, <1>2, <1>3, <1>4, <1>5, <1>6, <1>7, <1>8, <1>9, <1>10, <1>11, <1>12, <1>13, <1>14,
     <1>15, <1>16, <1>17, <1>18, <1>19, <1>20, <1>21, <1>22, <1>23, <1>24, <1>25, <1>26, <1>27
  DEF Works, Preamble, getOrCreate, runTurnCommit

-----------------------------------------------------------------------------
(* The files and the warm session of a worker agree.                        *)
Sound(w) ==
  /\ dir[w] \in Directory
  /\ memory[w] \in Session
  /\ dir[w].marker.set => dir[w].here
  /\ ~dir[w].here => dir[w].content = <<>>
  /\ ~dir[w].marker.set => dir[w].marker.version = 0 /\ dir[w].marker.epoch = 0
  /\ memory[w].live => dir[w].here /\ memory[w].content = dir[w].content
  /\ ~memory[w].live => memory[w].content = <<>>
  /\ dir[w].marker.version >= 1 /\ ~dir[w].dirty => dir[w].content = dir[w].marker.hash

(* A step of attempt i touches only the files of its own worker.            *)
FileStep(w) ==
  /\ dir' = [dir EXCEPT ![w] = dir'[w]]
  /\ memory' = [memory EXCEPT ![w] = memory'[w]]
  /\ Sound(w)'

(* In the invariant, the files of every worker are sound.                   *)
LEMMA InvSound ==
  ASSUME Inv, NEW w \in Workers
  PROVE  Sound(w)
<1>1. dir[w] \in Directory /\ memory[w] \in Session /\ (dir[w].marker.set => dir[w].here)
  BY DEF Inv, TypeOK
<1>2. /\ ~dir[w].marker.set => dir[w].marker.version = 0 /\ dir[w].marker.epoch = 0
      /\ ~memory[w].live => memory[w].content = <<>>
      /\ ~dir[w].here => dir[w].content = <<>>
  BY DEF Inv, Files
<1>3. /\ memory[w].live => dir[w].here /\ memory[w].content = dir[w].content
      /\ dir[w].marker.version >= 1 /\ ~dir[w].dirty => dir[w].content = dir[w].marker.hash
  BY DEF Inv, LocalIsTrue
<1> QED
  BY <1>1, <1>2, <1>3 DEF Sound

(* The types of what files and sessions are set to.                         *)
LEMMA ConstantTypes ==
  ASSUME NEW s \in Seq(Runs), NEW e \in Epochs, NEW v \in Nat
  PROVE  /\ <<>> \in Seq(Runs)
         /\ 0 \in Epochs
         /\ NoMarker \in MarkerFile
         /\ Marker(v, s, e) \in MarkerFile
         /\ NoDir \in Directory
         /\ \A marker \in MarkerFile : Clean(s, marker) \in Directory
         /\ Cold \in Session
         /\ Warm(s) \in Session
<1>1. <<>> \in Seq(Runs) /\ 0 \in Epochs
  BY SnapshotConstants DEF Epochs
<1>2. NoMarker \in MarkerFile /\ Marker(v, s, e) \in MarkerFile
  BY <1>1 DEF NoMarker, Marker, MarkerFile
<1> QED
  BY <1>1, <1>2 DEF NoDir, Clean, Directory, Cold, Warm, Session

(* The three ways in which the files and the session are set together.      *)
LEMMA ClearedSound ==
  ASSUME Inv, NEW w \in Workers, dir' = [dir EXCEPT ![w] = NoDir],
         memory' = [memory EXCEPT ![w] = Cold]
  PROVE  Sound(w)' /\ dir'[w] = NoDir /\ memory'[w] = Cold
<1>1. dir'[w] = NoDir /\ memory'[w] = Cold
  BY DEF Inv, TypeOK
<1>2. NoDir \in Directory /\ Cold \in Session
  <2>1. <<>> \in Seq(Runs) /\ 0 \in Epochs /\ 0 \in Nat
    BY SnapshotConstants DEF Epochs
  <2> QED
    BY <2>1, ConstantTypes
<1> QED
  BY <1>1, <1>2 DEF Sound, NoDir, Cold, NoMarker

(* Files restored from the store, with the marker of the restore.           *)
LEMMA RestoredSound ==
  ASSUME Inv, NEW w \in Workers, NEW e \in Epochs, Exists(store[e]),
         dir' = [dir EXCEPT ![w] = Clean(store[e].content, MarkerFromHydrate(store[e], e))],
         NEW m \in {Cold, Warm(store[e].content)}, memory' = [memory EXCEPT ![w] = m]
  PROVE  /\ Sound(w)'
         /\ dir'[w].content = store[e].content
         /\ dir'[w].marker = MarkerFromHydrate(store[e], e)
         /\ dir'[w].here /\ ~dir'[w].dirty
         /\ memory'[w] = m
<1> DEFINE c == store[e]
           mark == MarkerFromHydrate(c, e)
<1>1. /\ dir'[w] = Clean(c.content, mark)
      /\ memory'[w] = m
  BY DEF Inv, TypeOK
<1>2. c.content \in Seq(Runs) /\ c.version \in Nat /\ <<>> \in Seq(Runs)
  BY ChainFacts DEF Chain
<1>3. mark \in MarkerFile /\ mark.set /\ (mark.version >= 1 => mark.hash = c.content)
  <2>1. (IF c.version >= 1 THEN c.content ELSE <<>>) \in Seq(Runs)
    BY <1>2
  <2>2. mark \in MarkerFile
    BY <1>2, <2>1, ConstantTypes DEF MarkerFromHydrate
  <2> QED
    BY <2>2 DEF MarkerFromHydrate, Marker
<1>4. dir'[w] \in Directory /\ memory'[w] \in Session
  <2> HIDE DEF mark
  <2> QED
    BY <1>1, <1>2, <1>3, ConstantTypes
<1>5. /\ dir'[w].content = c.content /\ dir'[w].marker = mark
      /\ dir'[w].here /\ ~dir'[w].dirty
  BY <1>1 DEF Clean
<1> QED
  BY <1>1, <1>3, <1>4, <1>5 DEF Sound, Cold, Warm

(* The files of a new session.                                              *)
LEMMA NewSound ==
  ASSUME Inv, NEW w \in Workers, NEW s \in Seq(Runs), NEW mark \in MarkerFile,
         mark.version = 0, ~mark.set => mark.epoch = 0,
         dir' = [dir EXCEPT ![w] = Clean(s, mark)], memory' = [memory EXCEPT ![w] = Warm(s)]
  PROVE  /\ Sound(w)'
         /\ dir'[w].content = s /\ memory'[w].content = s
         /\ dir'[w].marker = mark
         /\ dir'[w].here /\ memory'[w].live /\ ~dir'[w].dirty
<1>1. dir'[w] = Clean(s, mark) /\ memory'[w] = Warm(s)
  BY DEF Inv, TypeOK
<1>2. dir'[w] \in Directory /\ memory'[w] \in Session
  <2>1. 0 \in Epochs /\ 0 \in Nat
    BY SnapshotConstants DEF Epochs
  <2> QED
    BY <1>1, <2>1, ConstantTypes
<1> QED
  BY <1>1, <1>2 DEF Sound, Clean, Warm

(* What a step of an attempt does to the files of its worker.               *)
LEMMA FileSteps ==
  ASSUME Inv, NEW i \in 1 .. MaxAttempts, Works(i), NEW w \in Workers, w = att[i].worker
  PROVE  FileStep(w)
<1>a. AttStep(i) /\ i \in Attempts
  BY AttemptSteps DEF AttStep
<1>b. att[i] \in Attempt
  BY <1>a, AttemptType DEF Inv, TypeOK, AttTypes
<1>c. PICK e \in Epochs : e = att[i].epoch
  BY <1>b DEF Attempt
<1> DEFINE c == store[e]
<1>d. dir \in [Workers -> Directory] /\ memory \in [Workers -> Session]
  BY DEF Inv, TypeOK
<1>e. Sound(w)
  BY <1>c, InvSound
<1>f. /\ <<>> \in Seq(Runs) /\ <<i>> \in Seq(Runs)
      /\ NoMarker \in MarkerFile /\ NoMarker.version = 0 /\ NoMarker.epoch = 0
  <2>1. <<>> \in Seq(Runs) /\ i \in Runs
    BY DEF Runs
  <2>2. NoMarker \in MarkerFile
    BY <1>c, <2>1, ConstantTypes
  <2> QED
    BY <2>1, <2>2 DEF NoMarker
<1>g. c.content \in Seq(Runs)
  BY <1>c, ChainFacts DEF Chain
<1>h. ASSUME UNCHANGED <<dir, memory>> PROVE FileStep(w)
  BY <1>d, <1>e, <1>h DEF FileStep, Sound
<1>k. ASSUME NEW d, NEW m, dir' = [dir EXCEPT ![w] = d], memory' = [memory EXCEPT ![w] = m],
             Sound(w)'
      PROVE  FileStep(w)
  BY <1>c, <1>d, <1>k DEF FileStep
<1>1. ASSUME FindCommitted(i) PROVE FileStep(w)
  BY <1>1, <1>h DEF FindCommitted, workerVars
<1>2. ASSUME UseLocal(i) PROVE FileStep(w)
  BY <1>2, <1>h DEF UseLocal, workerVars
<1>3. ASSUME StartFresh(i) PROVE FileStep(w)
  <2>1. dir' = [dir EXCEPT ![w] = NoDir] /\ memory' = [memory EXCEPT ![w] = Cold]
    BY <1>3, <1>c DEF StartFresh
  <2> QED
    BY <1>c, <1>k, <2>1, ClearedSound
<1>4. ASSUME UseStore(i) PROVE FileStep(w)
  BY <1>4, <1>h DEF UseStore, workerVars
<1>5. ASSUME resolveFromStore(i) PROVE FileStep(w)
  <2>1. /\ Exists(c)
        /\ dir' = [dir EXCEPT ![w] = Clean(c.content, MarkerFromHydrate(c, e))]
        /\ memory' = [memory EXCEPT ![w] = Cold]
    BY <1>5, <1>c DEF resolveFromStore, Restored
  <2> QED
    BY <1>c, <1>k, <2>1, RestoredSound
<1>6. ASSUME recoverAlreadyCommitted(i) PROVE FileStep(w)
  <2>1. /\ Exists(c)
        /\ dir' = [dir EXCEPT ![w] = Clean(c.content, MarkerFromHydrate(c, e))]
        /\ memory' = [memory EXCEPT ![w] = Cold]
    BY <1>6, <1>c DEF recoverAlreadyCommitted, Restored
  <2> QED
    BY <1>c, <1>k, <2>1, RestoredSound
<1>7. ASSUME NothingToHydrate(i) PROVE FileStep(w)
  <2>1. UNCHANGED dir /\ memory' = [memory EXCEPT ![w] = Cold]
    BY <1>7, <1>c DEF NothingToHydrate
  <2>2. memory'[w] = Cold /\ dir' = [dir EXCEPT ![w] = dir[w]] /\ dir'[w] = dir[w]
    BY <1>c, <1>d, <2>1
  <2>3. Sound(w)'
    <3>1. Cold \in Session
      BY <1>f DEF Cold, Session
    <3> QED
      BY <1>e, <2>2, <3>1 DEF Sound, Cold
  <2> QED
    BY <1>k, <2>1, <2>2, <2>3
<1>8. ASSUME CreateFirst(i) PROVE FileStep(w)
  <2>1. dir' = [dir EXCEPT ![w] = Clean(<<>>, NoMarker)]
          /\ memory' = [memory EXCEPT ![w] = Warm(<<>>)]
    BY <1>8, <1>c DEF CreateFirst, CreateNew
  <2> QED
    BY <1>c, <1>f, <1>k, <2>1, NewSound
<1>9. ASSUME CreateEpoch(i) PROVE FileStep(w)
  <2> DEFINE mark == Marker(0, <<>>, e)
  <2>1. dir' = [dir EXCEPT ![w] = Clean(<<>>, mark)] /\ memory' = [memory EXCEPT ![w] = Warm(<<>>)]
    BY <1>9, <1>c DEF CreateEpoch, CreateNew
  <2>2. mark \in MarkerFile /\ mark.version = 0 /\ mark.set
    BY <1>c, <1>f, ConstantTypes DEF Marker
  <2> HIDE DEF mark
  <2> QED
    BY <1>c, <1>f, <1>k, <2>1, <2>2, NewSound
<1>10. ASSUME Resume(i) PROVE FileStep(w)
  <2>1. /\ memory[w].live \/ dir[w].here
        /\ memory' = [memory EXCEPT ![w] = IF @.live THEN @ ELSE Warm(dir[w].content)]
        /\ UNCHANGED dir
    BY <1>10, <1>c DEF Resume
  <2>2. /\ dir' = [dir EXCEPT ![w] = dir[w]] /\ dir'[w] = dir[w]
        /\ memory'[w] = IF memory[w].live THEN memory[w] ELSE Warm(dir[w].content)
    BY <1>c, <1>d, <2>1
  <2>3. Sound(w)'
    <3>1. Warm(dir[w].content) \in Session
      BY <1>e DEF Warm, Session, Sound, Directory
    <3> QED
      BY <1>e, <2>1, <2>2, <3>1 DEF Sound, Warm
  <2> QED
    BY <1>k, <2>1, <2>2, <2>3
<1>11. ASSUME ResumeStored(i) PROVE FileStep(w)
  <2>1. CASE e = 0
    <3>1. dir' = [dir EXCEPT ![w] = Clean(c.content, NoMarker)]
            /\ memory' = [memory EXCEPT ![w] = Warm(c.content)]
      BY <1>11, <1>c, <2>1 DEF ResumeStored
    <3> QED
      BY <1>c, <1>f, <1>g, <1>k, <3>1, NewSound
  <2>2. CASE e # 0
    BY <1>11, <1>c, <1>h, <2>2 DEF ResumeStored
  <2> QED
    BY <2>1, <2>2
<1>12. ASSUME ResumeLost(i) PROVE FileStep(w)
  BY <1>12, <1>h DEF ResumeLost, workerVars
<1>13. ASSUME attemptStoreRecovery(i) PROVE FileStep(w)
  <2>1. /\ Exists(c)
        /\ dir' = [dir EXCEPT ![w] = Clean(c.content, MarkerFromHydrate(c, e))]
        /\ memory' = [memory EXCEPT ![w] = Warm(c.content)]
    BY <1>13, <1>c DEF attemptStoreRecovery
  <2> QED
    BY <1>c, <1>k, <2>1, RestoredSound
<1>14. ASSUME LossyReplay(i) PROVE FileStep(w)
  <2>1. dir' = [dir EXCEPT ![w] = Clean(<<>>, NoMarker)]
          /\ memory' = [memory EXCEPT ![w] = Warm(<<>>)]
    BY <1>14, <1>c DEF LossyReplay, CreateNew
  <2> QED
    BY <1>c, <1>f, <1>k, <2>1, NewSound
<1>15. ASSUME CreationFails(i) PROVE FileStep(w)
  <2>1. dir' = [dir EXCEPT ![w] = NoDir] /\ memory' = [memory EXCEPT ![w] = Cold]
    BY <1>15, <1>c DEF CreationFails
  <2> QED
    BY <1>c, <1>k, <2>1, ClearedSound
<1>16. ASSUME RunBody(i) PROVE FileStep(w)
  <2> DEFINE now == Append(memory[w].content, i)
  <2>1. /\ dir' = [dir EXCEPT ![w].content = now, ![w].dirty = TRUE]
        /\ memory' = [memory EXCEPT ![w].content = now]
    BY <1>16, <1>c DEF RunBody
  <2>2. memory[w].live /\ dir[w].here
    BY <1>16, <1>a, <1>e DEF RunBody, At, Inv, Files, Sound
  <2>3. now \in Seq(Runs)
    <3>1. memory[w].content \in Seq(Runs) /\ i \in Runs
      BY <1>e DEF Sound, Session, Runs
    <3> QED
      BY <3>1, AppendProperties
  <2> HIDE DEF now
  <2>4. /\ dir'[w] = [dir[w] EXCEPT !.content = now, !.dirty = TRUE]
        /\ memory'[w] = [memory[w] EXCEPT !.content = now]
        /\ dir' = [dir EXCEPT ![w] = dir'[w]]
        /\ memory' = [memory EXCEPT ![w] = memory'[w]]
    BY <1>c, <1>d, <2>1
  <2>5. dir[w] \in Directory /\ memory[w] \in Session
    BY <1>c, <1>d
  <2>6. dir'[w] \in Directory /\ memory'[w] \in Session
    BY <2>3, <2>4, <2>5 DEF Directory, Session
  <2>7. /\ dir'[w].here /\ dir'[w].dirty /\ dir'[w].content = now /\ dir'[w].marker = dir[w].marker
        /\ memory'[w].live /\ memory'[w].content = now
    BY <2>2, <2>4, <2>5 DEF Directory, Session
  <2>8. Sound(w)'
    <3> QED
      BY <1>e, <2>6, <2>7 DEF Sound
  <2> QED
    BY <1>k, <2>4, <2>8
<1>17. ASSUME ReplayBody(i) PROVE FileStep(w)
  <2>1. dir' = [dir EXCEPT ![w] = Clean(<<i>>, NoMarker)]
          /\ memory' = [memory EXCEPT ![w] = Warm(<<i>>)]
    BY <1>17, <1>c DEF ReplayBody
  <2> QED
    BY <1>c, <1>f, <1>k, <2>1, NewSound
<1>18. ASSUME DiscardStopped(i) PROVE FileStep(w)
  BY <1>18, <1>h DEF DiscardStopped, workerVars
<1>19. ASSUME CommitSwaps(i) PROVE FileStep(w)
  BY <1>19, <1>h DEF CommitSwaps, workerVars
<1>20. ASSUME CommitAnswerLost(i) PROVE FileStep(w)
  BY <1>20, <1>h DEF CommitAnswerLost, workerVars
<1>21. ASSUME CommitFindsOwn(i) PROVE FileStep(w)
  BY <1>21, <1>h DEF CommitFindsOwn, workerVars
<1>22. ASSUME CommitConflicts(i) PROVE FileStep(w)
  BY <1>22, <1>h DEF CommitConflicts, workerVars
<1>23. ASSUME WriteMarker(i) PROVE FileStep(w)
  <2> DEFINE mark == Marker(att[i].base + 1, dir[w].content, e)
  <2>1. dir' = [dir EXCEPT ![w].marker = mark] /\ UNCHANGED memory
    BY <1>23, <1>c DEF WriteMarker
  <2>2. dir[w].here
    BY <1>23, <1>a, <1>e DEF WriteMarker, At, Inv, LastOwn, Sound
  <2>3. mark \in MarkerFile /\ mark.hash = dir[w].content /\ mark.set
    <3>1. att[i].base + 1 \in Nat /\ dir[w].content \in Seq(Runs)
      BY <1>b, <1>e DEF Sound, Directory, Attempt
    <3> QED
      BY <1>c, <3>1, ConstantTypes DEF Marker
  <2> HIDE DEF mark
  <2>4. /\ dir'[w] = [dir[w] EXCEPT !.marker = mark]
        /\ dir' = [dir EXCEPT ![w] = dir'[w]]
        /\ memory' = [memory EXCEPT ![w] = memory[w]] /\ memory'[w] = memory[w]
    BY <1>c, <1>d, <2>1
  <2>5. dir'[w] \in Directory
    BY <1>e, <2>3, <2>4 DEF Sound, Directory
  <2>6. /\ dir'[w].here /\ dir'[w].content = dir[w].content /\ dir'[w].marker = mark
    BY <1>e, <2>2, <2>4 DEF Sound, Directory
  <2>7. Sound(w)'
    <3> QED
      BY <1>e, <2>3, <2>4, <2>5, <2>6 DEF Sound
  <2> QED
    BY <1>k, <2>4, <2>7
<1>24. ASSUME ClearSentinel(i) PROVE FileStep(w)
  <2>1. dir' = [dir EXCEPT ![w].dirty = FALSE] /\ UNCHANGED memory
    BY <1>24, <1>c DEF ClearSentinel
  <2>2. dir[w].content = dir[w].marker.hash
    BY <1>24, <1>a DEF ClearSentinel, At, Inv, Files
  <2>4. /\ dir'[w] = [dir[w] EXCEPT !.dirty = FALSE]
        /\ dir' = [dir EXCEPT ![w] = dir'[w]]
        /\ memory' = [memory EXCEPT ![w] = memory[w]] /\ memory'[w] = memory[w]
    BY <1>c, <1>d, <2>1
  <2>5. dir'[w] \in Directory
    BY <1>e, <2>4 DEF Sound, Directory
  <2>6. /\ dir'[w].here = dir[w].here /\ dir'[w].content = dir[w].content
        /\ dir'[w].marker = dir[w].marker
    BY <1>e, <2>4 DEF Sound, Directory
  <2>7. Sound(w)'
    <3> QED
      BY <1>e, <2>2, <2>4, <2>5, <2>6 DEF Sound
  <2> QED
    BY <1>k, <2>4, <2>7
<1>25. ASSUME AdoptWinner(i) PROVE FileStep(w)
  <2>1. /\ Exists(c)
        /\ dir' = [dir EXCEPT ![w] = Clean(c.content, MarkerFromHydrate(c, e))]
        /\ memory' = [memory EXCEPT ![w] = Cold]
    BY <1>25, <1>c DEF AdoptWinner, Restored
  <2> QED
    BY <1>c, <1>k, <2>1, RestoredSound
<1>26. ASSUME AdoptNothing(i) PROVE FileStep(w)
  <2>1. UNCHANGED dir /\ memory' = [memory EXCEPT ![w] = Cold]
    BY <1>26, <1>c DEF AdoptNothing
  <2>2. memory'[w] = Cold /\ dir' = [dir EXCEPT ![w] = dir[w]] /\ dir'[w] = dir[w]
    BY <1>c, <1>d, <2>1
  <2>3. Sound(w)'
    <3>1. Cold \in Session
      BY <1>f DEF Cold, Session
    <3> QED
      BY <1>e, <2>2, <3>1 DEF Sound, Cold
  <2> QED
    BY <1>k, <2>1, <2>2, <2>3
<1>27. ASSUME AttemptThrows(i) PROVE FileStep(w)
  BY <1>27, <1>h DEF AttemptThrows, workerVars
<1> QED
  BY <1>1, <1>2, <1>3, <1>4, <1>5, <1>6, <1>7, <1>8, <1>9, <1>10, <1>11, <1>12, <1>13, <1>14,
     <1>15, <1>16, <1>17, <1>18, <1>19, <1>20, <1>21, <1>22, <1>23, <1>24, <1>25, <1>26, <1>27
  DEF Works, Preamble, getOrCreate, runTurnCommit

(* What holds of an attempt and of the files it works on.                   *)
Hand(i, w) ==
  /\ att[i].pc = "body" => memory[w].live
  /\ att[i].pc = "clear" => dir[w].content = dir[w].marker.hash
  /\ att[i].pc \in {"ran", "replayed", "commit", "marker", "clear", "adopt"} =>
       dir[w].content # <<>> /\ Last(dir[w].content) = i

(* A step of an attempt leaves its own files as its next step needs them.   *)
LEMMA HandSteps ==
  ASSUME Inv, NEW i \in 1 .. MaxAttempts, Works(i), NEW w \in Workers, w = att[i].worker
  PROVE  Hand(i, w)'
<1> DEFINE e == att[i].epoch
           c == store[e]
<1>a. AttTypes /\ i \in Attempts
  BY AttemptSteps DEF AttStep, Inv, TypeOK, AttTypes
<1>b. att[i] \in Attempt /\ e \in Epochs /\ att[i].base \in Nat
  BY <1>a, AttemptType DEF Attempt
<1>c. dir \in [Workers -> Directory] /\ memory \in [Workers -> Session]
  BY DEF Inv, TypeOK
<1>d. /\ Exists(c) => c.version \in Nat
      /\ \A key : Bears(c, key) => Last(c.content) \in 0 .. MaxAttempts
  BY <1>b, ChainFacts
<1>e. /\ 0 \in Nat /\ 0 \in 0 .. MaxAttempts /\ i \in 0 .. MaxAttempts
      /\ att[i].base + 1 \in Nat
      /\ dir[w].marker.version \in Nat
  <2>1. dir[w] \in Directory
    BY <1>c
  <2>2. dir[w].marker.version \in Nat
    BY <2>1 DEF Directory, MarkerFile
  <2> QED
    BY <1>b, <2>2, SnapshotConstants
<1>f. Hand(i, w)
  BY <1>a DEF Hand, Inv, Files, LastOwn
<1>1. ASSUME FindCommitted(i) PROVE Hand(i, w)'
  <2>1. att'[i].pc \in {"recover"}
    BY <1>1, <1>a, <1>b, GotoStep DEF FindCommitted, Acquire, At, Ran, Pcs
  <2> QED
    BY <2>1 DEF Hand
<1>2. ASSUME UseLocal(i) PROVE Hand(i, w)'
  <2>1. att'[i].pc \in {"create"}
    BY <1>2, <1>a, <1>b, <1>d, <1>e, RebaseStep DEF UseLocal, Acquire, At, Ran
  <2> QED
    BY <2>1 DEF Hand
<1>3. ASSUME StartFresh(i) PROVE Hand(i, w)'
  <2>1. att'[i].pc \in {"create"}
    BY <1>3, <1>a, <1>b, <1>e, BaseStep DEF StartFresh, Acquire, At, Ran
  <2> QED
    BY <2>1 DEF Hand
<1>4. ASSUME UseStore(i) PROVE Hand(i, w)'
  <2>1. att'[i].pc \in {"resolve"}
    BY <1>4, <1>a, <1>b, GotoStep DEF UseStore, Acquire, At, Ran, Pcs
  <2> QED
    BY <2>1 DEF Hand
<1>5. ASSUME resolveFromStore(i) PROVE Hand(i, w)'
  <2>1. att'[i].pc \in {"create"}
    BY <1>5, <1>a, <1>b, <1>d, <1>e, RebaseStep DEF resolveFromStore, At, Ran
  <2> QED
    BY <2>1 DEF Hand
<1>6. ASSUME recoverAlreadyCommitted(i) PROVE Hand(i, w)'
  <2>1. att'[i].pc \in {"create", "done", "dead"}
    BY <1>6, <1>a, <1>b, <1>d, <1>e, ReturnStep, RebaseStep
    DEF recoverAlreadyCommitted, Hows, At, Ran
  <2> QED
    BY <2>1 DEF Hand
<1>7. ASSUME NothingToHydrate(i) PROVE Hand(i, w)'
  <2>1. att'[i].pc \in {"done", "dead"}
    BY <1>7, <1>a, <1>b, <1>d, <1>e, ReturnStep DEF NothingToHydrate, Throw, Hows
  <2> QED
    BY <2>1 DEF Hand
<1>8. ASSUME CreateFirst(i) PROVE Hand(i, w)'
  <2>1. att'[i].pc \in {"body"}
    BY <1>8, <1>a, <1>b, GotoStep DEF CreateFirst, CreateNew, At, Ran, Pcs
  <2>2. memory'[w].live
    BY <1>8, <1>c DEF CreateFirst, Warm, CreateNew
  <2> QED
    BY <2>1, <2>2 DEF Hand
<1>9. ASSUME CreateEpoch(i) PROVE Hand(i, w)'
  <2>1. att'[i].pc \in {"body"}
    BY <1>9, <1>a, <1>b, GotoStep DEF CreateEpoch, CreateNew, At, Ran, Pcs
  <2>2. memory'[w].live
    BY <1>9, <1>c DEF CreateEpoch, Warm, CreateNew
  <2> QED
    BY <2>1, <2>2 DEF Hand
<1>10. ASSUME Resume(i) PROVE Hand(i, w)'
  <2>1. att'[i].pc \in {"body"}
    BY <1>10, <1>a, <1>b, GotoStep DEF Resume, Resuming, At, Ran, Pcs
  <2>2. memory'[w].live
    BY <1>10, <1>c DEF Resume, Warm
  <2> QED
    BY <2>1, <2>2 DEF Hand
<1>11. ASSUME ResumeStored(i) PROVE Hand(i, w)'
  <2>1. att'[i].pc \in {"body", "done", "dead"}
    BY <1>11, <1>a, <1>b, <1>e, ReturnStep, GotoStep
    DEF ResumeStored, Resuming, Throw, Hows, At, Ran, Pcs
  <2>2. att'[i].pc = "body" => memory'[w].live
    <3>1. CASE e = 0
      BY <1>11, <1>c, <3>1 DEF ResumeStored, Warm
    <3>2. CASE e # 0
      <4>1. Return(i, "failed", 0, 0)
        BY <1>11, <3>2 DEF ResumeStored, Throw
      <4>2. att'[i].pc \in {"done", "dead"}
        BY <4>1, <1>a, <1>b, <1>e, ReturnStep DEF Hows
      <4> QED
        BY <4>2
    <3> QED
      BY <3>1, <3>2
  <2> QED
    BY <2>1, <2>2 DEF Hand
<1>12. ASSUME ResumeLost(i) PROVE Hand(i, w)'
  <2>1. att'[i].pc \in {"lost"}
    BY <1>12, <1>a, <1>b, GotoStep DEF ResumeLost, Resuming, At, Ran, Pcs
  <2> QED
    BY <2>1 DEF Hand
<1>13. ASSUME attemptStoreRecovery(i) PROVE Hand(i, w)'
  <2>1. att'[i].pc \in {"body"}
    BY <1>13, <1>a, <1>b, <1>d, <1>e, RebaseStep DEF attemptStoreRecovery, At, Ran
  <2>2. memory'[w].live
    BY <1>13, <1>c DEF attemptStoreRecovery, Warm
  <2> QED
    BY <2>1, <2>2 DEF Hand
<1>14. ASSUME LossyReplay(i) PROVE Hand(i, w)'
  <2>1. att'[i].pc \in {"body"}
    BY <1>14, <1>a, <1>b, GotoStep DEF LossyReplay, CreateNew, At, Ran, Pcs
  <2>2. memory'[w].live
    BY <1>14, <1>c DEF LossyReplay, Warm, CreateNew
  <2> QED
    BY <2>1, <2>2 DEF Hand
<1>15. ASSUME CreationFails(i) PROVE Hand(i, w)'
  <2>1. att'[i].pc \in {"done", "dead"}
    BY <1>15, <1>a, <1>b, <1>d, <1>e, ReturnStep DEF CreationFails, Hows
  <2> QED
    BY <2>1 DEF Hand
<1>16. ASSUME RunBody(i) PROVE Hand(i, w)'
  <2>1. att'[i].pc \in {"ran"}
    BY <1>16, <1>a, <1>b, GotoStep DEF RunBody, At, Ran, Pcs
  <2>2. dir'[w].content = Append(memory[w].content, i)
    BY <1>16, <1>c DEF RunBody, Directory
  <2>3. memory[w].content \in Seq(Runs)
    BY <1>c DEF Session
  <2>4. /\ Append(memory[w].content, i) # <<>>
        /\ Last(Append(memory[w].content, i)) = i
    BY <2>3, AppendProperties DEF Last, Runs
  <2> QED
    BY <2>1, <2>2, <2>4 DEF Hand, Last
<1>17. ASSUME ReplayBody(i) PROVE Hand(i, w)'
  <2>1. att'[i].pc \in {"replayed"}
    BY <1>17, <1>a, <1>b, GotoStep DEF ReplayBody, At, Ran, Pcs
  <2>2. dir'[w].content = <<i>>
    BY <1>17, <1>c DEF ReplayBody, Clean
  <2> QED
    BY <2>1, <2>2 DEF Hand, Last
<1>18. ASSUME DiscardStopped(i) PROVE Hand(i, w)'
  <2>1. att'[i].pc \in {"done", "dead"}
    BY <1>18, <1>a, <1>b, <1>d, <1>e, ReturnStep DEF DiscardStopped, Hows
  <2> QED
    BY <2>1 DEF Hand
<1>19. ASSUME CommitSwaps(i) PROVE Hand(i, w)'
  <2>1. att'[i].pc \in {"marker"}
    BY <1>19, <1>a, <1>b, WriteStep DEF Marks, CommitSwaps, Committing
  <2> QED
    BY <1>19, <1>f, <2>1 DEF CommitSwaps, Committing, At, Hand, Last, workerVars
<1>20. ASSUME CommitAnswerLost(i) PROVE Hand(i, w)'
  <2>1. att'[i].pc \in {"commit"}
    BY <1>20, <1>a, <1>b, WriteStep DEF Marks, CommitAnswerLost, Committing
  <2> QED
    BY <1>20, <1>f, <2>1 DEF CommitAnswerLost, Committing, At, Hand, Last, workerVars
<1>21. ASSUME CommitFindsOwn(i) PROVE Hand(i, w)'
  <2>1. att'[i].pc \in {"adopt"}
    BY <1>21, <1>a, <1>b, GotoStep DEF CommitFindsOwn, Committing, At, Ran, Pcs
  <2> QED
    BY <1>21, <1>f, <2>1 DEF CommitFindsOwn, Committing, At, Hand, Last, workerVars
<1>22. ASSUME CommitConflicts(i) PROVE Hand(i, w)'
  <2>1. att'[i].pc \in {"done", "dead"}
    BY <1>22, <1>a, <1>b, <1>d, <1>e, ReturnStep DEF CommitConflicts, Committing, Hows
  <2> QED
    BY <2>1 DEF Hand
<1>23. ASSUME WriteMarker(i) PROVE Hand(i, w)'
  <2>1. att'[i].pc \in {"clear"}
    BY <1>23, <1>a, <1>b, GotoStep DEF WriteMarker, At, Ran, Pcs
  <2>2. dir'[w].content = dir[w].content /\ dir'[w].marker.hash = dir[w].content
    BY <1>23, <1>c DEF WriteMarker, Directory, Marker
  <2> QED
    BY <1>23, <1>f, <2>1, <2>2 DEF WriteMarker, At, Hand, Last
<1>24. ASSUME ClearSentinel(i) PROVE Hand(i, w)'
  <2>1. att'[i].pc \in {"done", "dead"}
    BY <1>24, <1>a, <1>b, <1>d, <1>e, ReturnStep DEF ClearSentinel, Hows
  <2> QED
    BY <2>1 DEF Hand
<1>25. ASSUME AdoptWinner(i) PROVE Hand(i, w)'
  <2>1. att'[i].pc \in {"done", "dead"}
    BY <1>25, <1>a, <1>b, <1>d, <1>e, ReturnStep DEF AdoptWinner, Hows
  <2> QED
    BY <2>1 DEF Hand
<1>26. ASSUME AdoptNothing(i) PROVE Hand(i, w)'
  <2>1. att'[i].pc \in {"commit"}
    BY <1>26, <1>a, <1>b, GotoStep DEF AdoptNothing, At, Ran, Pcs
  <2> QED
    BY <1>26, <1>f, <2>1 DEF AdoptNothing, At, Hand, Last, workerVars
<1>27. ASSUME AttemptThrows(i) PROVE Hand(i, w)'
  <2>1. att'[i].pc \in {"done", "dead"}
    BY <1>27, <1>a, <1>b, <1>d, <1>e, ReturnStep DEF AttemptThrows, Throw, Hows
  <2> QED
    BY <2>1 DEF Hand
<1> QED
  BY <1>1, <1>2, <1>3, <1>4, <1>5, <1>6, <1>7, <1>8, <1>9, <1>10, <1>11, <1>12, <1>13, <1>14,
     <1>15, <1>16, <1>17, <1>18, <1>19, <1>20, <1>21, <1>22, <1>23, <1>24, <1>25, <1>26, <1>27
  DEF Works, Preamble, getOrCreate, runTurnCommit

(* The ways in which a step of attempt i, of epoch e, changes the files of  *)
(* its worker.                                                              *)
Untouched(i, w) ==
  /\ dir'[w].content = dir[w].content
  /\ dir'[w].marker = dir[w].marker
  /\ Based(i)' => Based(i) \/ UseLocal(i)
Emptied(i, w) == dir'[w].content \in {<<>>, <<i>>} /\ dir'[w].marker = NoMarker
                 /\ (dir'[w].content = <<i>> => Ran(i)')
Born(i, w, e) == dir'[w].content = <<>> /\ dir'[w].marker = Marker(0, <<>>, e)
Hydrated(w, e) ==
  /\ Exists(store[e])
  /\ dir'[w].content = store[e].content
  /\ \/ dir'[w].marker = MarkerFromHydrate(store[e], e)
     \/ dir'[w].marker = NoMarker /\ e = 0
Grown(i, w) ==
  /\ Based(i) /\ ~Ran(i) /\ Ran(i)'
  /\ dir'[w].content = Append(dir[w].content, i)
  /\ dir'[w].marker = dir[w].marker
Marked(i, w, e) ==
  /\ Based(i) /\ att[i].pc = "marker"
  /\ dir'[w].content = dir[w].content
  /\ dir'[w].marker = Marker(att[i].base + 1, dir[w].content, e)

(* The ways in which a step of an attempt changes the files are these.      *)
LEMMA DirShapes ==
  ASSUME Inv, NEW i \in 1 .. MaxAttempts, Works(i), NEW w \in Workers, w = att[i].worker,
         NEW e \in Epochs, e = att[i].epoch
  PROVE  Untouched(i, w) \/ Emptied(i, w) \/ Born(i, w, e) \/ Hydrated(w, e) \/ Grown(i, w)
         \/ Marked(i, w, e)
<1> DEFINE c == store[e]
           Shape == Untouched(i, w) \/ Emptied(i, w) \/ Born(i, w, e) \/ Hydrated(w, e)
                      \/ Grown(i, w) \/ Marked(i, w, e)
<1>a. AttTypes /\ i \in Attempts
  BY AttemptSteps DEF AttStep, Inv, TypeOK, AttTypes
<1>b. att[i] \in Attempt
  BY <1>a, AttemptType
<1>c. dir \in [Workers -> Directory] /\ memory \in [Workers -> Session]
  BY DEF Inv, TypeOK
<1>d. \A key : Bears(c, key) => Last(c.content) \in 0 .. MaxAttempts
  BY ChainFacts
<1>e. 0 \in Nat /\ 0 \in 0 .. MaxAttempts /\ i \in 0 .. MaxAttempts
  BY SnapshotConstants
<1>f. dir[w] \in Directory
  BY <1>c
<1>1. ASSUME FindCommitted(i) PROVE Shape
  <2>1. att'[i].pc \in {"recover"}
    BY <1>1, <1>a, GotoStep DEF FindCommitted, Acquire, At, Ran, Pcs
  <2>2. Untouched(i, w)
    BY <1>1, <2>1 DEF FindCommitted, Acquire, At, Untouched, Based, workerVars
  <2> QED
    BY <2>2
<1>2. ASSUME UseLocal(i) PROVE Shape
  <2>1. Untouched(i, w)
    BY <1>2 DEF UseLocal, Untouched
  <2> QED
    BY <2>1
<1>3. ASSUME StartFresh(i) PROVE Shape
  <2>1. dir'[w] = NoDir
    BY <1>3, <1>c DEF StartFresh
  <2>2. Emptied(i, w)
    BY <2>1 DEF Emptied, NoDir
  <2> QED
    BY <2>2
<1>4. ASSUME UseStore(i) PROVE Shape
  <2>1. att'[i].pc \in {"resolve"}
    BY <1>4, <1>a, GotoStep DEF UseStore, Acquire, At, Ran, Pcs
  <2>2. Untouched(i, w)
    BY <1>4, <2>1 DEF UseStore, Acquire, At, Untouched, Based, workerVars
  <2> QED
    BY <2>2
<1>5. ASSUME resolveFromStore(i) PROVE Shape
  <2>1. Exists(c) /\ dir'[w] = Clean(c.content, MarkerFromHydrate(c, e))
    BY <1>5, <1>c DEF resolveFromStore, Restored
  <2>2. Hydrated(w, e)
    BY <2>1 DEF Hydrated, Clean
  <2> QED
    BY <2>2
<1>6. ASSUME recoverAlreadyCommitted(i) PROVE Shape
  <2>1. Exists(c) /\ dir'[w] = Clean(c.content, MarkerFromHydrate(c, e))
    BY <1>6, <1>c DEF recoverAlreadyCommitted, Restored
  <2>2. Hydrated(w, e)
    BY <2>1 DEF Hydrated, Clean
  <2> QED
    BY <2>2
<1>7. ASSUME NothingToHydrate(i) PROVE Shape
  <2>1. att'[i].pc \in {"done", "dead"}
    <3>1. \E how \in Hows, body \in 0 .. MaxAttempts, version \in Nat : Return(i, how, body,
            version)
      BY <1>7, <1>b, <1>e DEF NothingToHydrate, Throw, Hows, Attempt
    <3> QED
      BY <1>a, <3>1, ReturnStep
  <2>2. dir'[w].content = dir[w].content /\ dir'[w].marker = dir[w].marker
    BY <1>7, <1>c, <1>f DEF NothingToHydrate, workerVars, Directory
  <2>3. Untouched(i, w)
    BY <2>1, <2>2 DEF Untouched, Based
  <2> QED
    BY <2>3
<1>8. ASSUME CreateFirst(i) PROVE Shape
  <2>1. dir'[w] = Clean(<<>>, NoMarker)
    BY <1>8, <1>c DEF CreateFirst, CreateNew
  <2>2. Emptied(i, w)
    BY <2>1 DEF Emptied, Clean
  <2> QED
    BY <2>2
<1>9. ASSUME CreateEpoch(i) PROVE Shape
  <2>1. dir'[w] = Clean(<<>>, Marker(0, <<>>, e))
    BY <1>9, <1>c DEF CreateEpoch, CreateNew
  <2>2. Born(i, w, e)
    BY <2>1 DEF Born, Clean
  <2> QED
    BY <2>2
<1>10. ASSUME Resume(i) PROVE Shape
  <2>1. Untouched(i, w)
    BY <1>10 DEF Resume, Resuming, At, Untouched, Based
  <2> QED
    BY <2>1
<1>11. ASSUME ResumeStored(i) PROVE Shape
  <2>1. CASE e = 0
    <3>1. Exists(c) /\ dir'[w] = Clean(c.content, NoMarker)
      BY <1>11, <1>c, <2>1 DEF ResumeStored
    <3>2. Hydrated(w, e)
      BY <2>1, <3>1 DEF Hydrated, Clean
    <3> QED
      BY <3>2
  <2>2. CASE e # 0
    <3>1. Untouched(i, w)
      BY <1>11, <2>2 DEF ResumeStored, Resuming, At, Untouched, Based
    <3> QED
      BY <3>1
  <2> QED
    BY <2>1, <2>2
<1>12. ASSUME ResumeLost(i) PROVE Shape
  <2>1. att'[i].pc \in {"lost"}
    BY <1>12, <1>a, GotoStep DEF ResumeLost, Resuming, At, Ran, Pcs
  <2>2. Untouched(i, w)
    BY <1>12, <2>1 DEF ResumeLost, Resuming, At, Untouched, Based, workerVars
  <2> QED
    BY <2>2
<1>13. ASSUME attemptStoreRecovery(i) PROVE Shape
  <2>1. Exists(c) /\ dir'[w] = Clean(c.content, MarkerFromHydrate(c, e))
    BY <1>13, <1>c DEF attemptStoreRecovery
  <2>2. Hydrated(w, e)
    BY <2>1 DEF Hydrated, Clean
  <2> QED
    BY <2>2
<1>14. ASSUME LossyReplay(i) PROVE Shape
  <2>1. dir'[w] = Clean(<<>>, NoMarker)
    BY <1>14, <1>c DEF LossyReplay, CreateNew
  <2>2. Emptied(i, w)
    BY <2>1 DEF Emptied, Clean
  <2> QED
    BY <2>2
<1>15. ASSUME CreationFails(i) PROVE Shape
  <2>1. dir'[w] = NoDir
    BY <1>15, <1>c DEF CreationFails
  <2>2. Emptied(i, w)
    BY <2>1 DEF Emptied, NoDir
  <2> QED
    BY <2>2
<1>16. ASSUME RunBody(i) PROVE Shape
  <2>1. Ran(i)' /\ ~Ran(i) /\ Based(i)
    BY <1>16, <1>a, GotoStep DEF RunBody, At, Ran, Pcs, Based
  <2>2. memory[w].content = dir[w].content
    BY <1>16, <1>a DEF RunBody, At, Inv, Files, LocalIsTrue
  <2>3. /\ dir'[w].content = Append(dir[w].content, i)
        /\ dir'[w].marker = dir[w].marker
    BY <1>16, <1>c, <1>f, <2>2 DEF RunBody, Directory
  <2>4. Grown(i, w)
    BY <2>1, <2>3 DEF Grown
  <2> QED
    BY <2>4
<1>17. ASSUME ReplayBody(i) PROVE Shape
  <2>1. dir'[w] = Clean(<<i>>, NoMarker)
    BY <1>17, <1>c DEF ReplayBody
  <2>2. Ran(i)'
    BY <1>17, <1>a, GotoStep DEF ReplayBody, At, Ran, Pcs
  <2>3. Emptied(i, w)
    BY <2>1, <2>2 DEF Emptied, Clean
  <2> QED
    BY <2>3
<1>18. ASSUME DiscardStopped(i) PROVE Shape
  <2>1. att'[i].pc \in {"done", "dead"}
    <3>1. \E how \in Hows, body \in 0 .. MaxAttempts, version \in Nat : Return(i, how, body,
            version)
      BY <1>18, <1>b, <1>e DEF DiscardStopped, Hows, Attempt
    <3> QED
      BY <1>a, <3>1, ReturnStep
  <2>2. dir'[w].content = dir[w].content /\ dir'[w].marker = dir[w].marker
    BY <1>18, <1>c, <1>f DEF DiscardStopped, workerVars, Directory
  <2>3. Untouched(i, w)
    BY <2>1, <2>2 DEF Untouched, Based
  <2> QED
    BY <2>3
<1>19. ASSUME CommitSwaps(i) PROVE Shape
  <2>1. Untouched(i, w)
    BY <1>19 DEF CommitSwaps, Committing, At, Untouched, Based, workerVars
  <2> QED
    BY <2>1
<1>20. ASSUME CommitAnswerLost(i) PROVE Shape
  <2>1. Untouched(i, w)
    BY <1>20 DEF CommitAnswerLost, Committing, At, Untouched, Based, workerVars
  <2> QED
    BY <2>1
<1>21. ASSUME CommitFindsOwn(i) PROVE Shape
  <2>1. att'[i].pc \in {"adopt"}
    BY <1>21, <1>a, GotoStep DEF CommitFindsOwn, Committing, At, Ran, Pcs
  <2>2. Untouched(i, w)
    BY <1>21, <2>1 DEF CommitFindsOwn, Committing, At, Untouched, Based, workerVars
  <2> QED
    BY <2>2
<1>22. ASSUME CommitConflicts(i) PROVE Shape
  <2>1. att'[i].pc \in {"done", "dead"}
    <3>1. \E how \in Hows, body \in 0 .. MaxAttempts, version \in Nat : Return(i, how, body,
            version)
      BY <1>22, <1>b, <1>e DEF CommitConflicts, Committing, Hows, Attempt
    <3> QED
      BY <1>a, <3>1, ReturnStep
  <2>2. dir'[w].content = dir[w].content /\ dir'[w].marker = dir[w].marker
    BY <1>22, <1>c, <1>f DEF CommitConflicts, workerVars, Directory
  <2>3. Untouched(i, w)
    BY <2>1, <2>2 DEF Untouched, Based
  <2> QED
    BY <2>3
<1>23. ASSUME WriteMarker(i) PROVE Shape
  <2>1. /\ dir'[w].content = dir[w].content
        /\ dir'[w].marker = Marker(att[i].base + 1, dir[w].content, e)
    BY <1>23, <1>c, <1>f DEF WriteMarker, Directory
  <2>2. Marked(i, w, e)
    BY <1>23, <2>1 DEF WriteMarker, At, Based, Marked
  <2> QED
    BY <2>2
<1>24. ASSUME ClearSentinel(i) PROVE Shape
  <2>1. att'[i].pc \in {"done", "dead"}
    <3>1. \E how \in Hows, body \in 0 .. MaxAttempts, version \in Nat : Return(i, how, body,
            version)
      BY <1>24, <1>b, <1>e DEF ClearSentinel, Hows, Attempt
    <3> QED
      BY <1>a, <3>1, ReturnStep
  <2>2. dir'[w].content = dir[w].content /\ dir'[w].marker = dir[w].marker
    BY <1>24, <1>c, <1>f DEF ClearSentinel, workerVars, Directory
  <2>3. Untouched(i, w)
    BY <2>1, <2>2 DEF Untouched, Based
  <2> QED
    BY <2>3
<1>25. ASSUME AdoptWinner(i) PROVE Shape
  <2>1. Exists(c) /\ dir'[w] = Clean(c.content, MarkerFromHydrate(c, e))
    BY <1>25, <1>c DEF AdoptWinner, Restored
  <2>2. Hydrated(w, e)
    BY <2>1 DEF Hydrated, Clean
  <2> QED
    BY <2>2
<1>26. ASSUME AdoptNothing(i) PROVE Shape
  <2>1. att'[i].pc \in {"commit"}
    BY <1>26, <1>a, GotoStep DEF AdoptNothing, At, Ran, Pcs
  <2>2. Untouched(i, w)
    BY <1>26, <2>1 DEF AdoptNothing, At, Untouched, Based, workerVars
  <2> QED
    BY <2>2
<1>27. ASSUME AttemptThrows(i) PROVE Shape
  <2>1. att'[i].pc \in {"done", "dead"}
    <3>1. \E how \in Hows, body \in 0 .. MaxAttempts, version \in Nat : Return(i, how, body,
            version)
      BY <1>27, <1>b, <1>e DEF AttemptThrows, Throw, Hows, Attempt
    <3> QED
      BY <1>a, <3>1, ReturnStep
  <2>2. dir'[w].content = dir[w].content /\ dir'[w].marker = dir[w].marker
    BY <1>27, <1>c, <1>f DEF AttemptThrows, workerVars, Directory
  <2>3. Untouched(i, w)
    BY <2>1, <2>2 DEF Untouched, Based
  <2> QED
    BY <2>3
<1> QED
  BY <1>1, <1>2, <1>3, <1>4, <1>5, <1>6, <1>7, <1>8, <1>9, <1>10, <1>11, <1>12, <1>13, <1>14,
     <1>15, <1>16, <1>17, <1>18, <1>19, <1>20, <1>21, <1>22, <1>23, <1>24, <1>25, <1>26, <1>27
  DEF Works, Preamble, getOrCreate, runTurnCommit

(* The ways in which a step of attempt i, of epoch e, changes the store: a  *)
(* reset forfeits the chains it finds, a write is the compare-and-swap.     *)
Dropped(e) ==
  /\ store' \in [Epochs -> Chain]
  /\ bypassed \subseteq bypassed' /\ bypassed' \subseteq Epochs
  /\ \A f \in Epochs : store'[f] \in {store[f], NoChain}
  /\ \A f \in Epochs \ bypassed' : store'[f] = store[f]
  /\ e \notin bypassed' => ~Exists(store[e])
Written(i, w, e) ==
  /\ Marks(i)
  /\ att[i].pc \in {"ran", "replayed", "commit"}
  /\ Matches(i) /\ ~AlreadyCommitted(i)
  /\ \E pc \in {"marker", "commit"} : Write(i, pc)
  /\ store' = [store EXCEPT ![e] = [version |-> att[i].base + 1, content |-> dir[w].content]]
  /\ UNCHANGED <<dir, memory, bypassed>>

(* A reset forfeits what it finds.                                          *)
LEMMA ResetDrops ==
  ASSUME Inv, NEW i \in Attempts, NEW e \in Epochs, e = att[i].epoch, NEW cost, Reset(i, cost)
  PROVE  Dropped(e)
<1>1. PICK failed \in {0, 1} :
        /\ store' = [f \in Epochs |-> IF failed = 0 /\ f \in Gone(i) THEN NoChain ELSE store[f]]
        /\ bypassed' = bypassed \union {f \in Gone(i) \union {e} : Exists(store[f])}
  BY DEF Reset
<1>2. Gone(i) \subseteq Epochs
  <2>1. 0 \in Epochs
    BY SnapshotConstants DEF Epochs
  <2> QED
    BY <2>1 DEF Gone
<1>3. store \in [Epochs -> Chain] /\ bypassed \subseteq Epochs
  BY DEF Inv, TypeOK
<1>4. NoChain \in Chain
  BY DEF NoChain, Chain
<1>5. \A f \in Epochs : store'[f] = IF failed = 0 /\ f \in Gone(i) THEN NoChain ELSE store[f]
  BY <1>1
<1>6. ASSUME NEW f \in Epochs, ~Exists(store[f]) PROVE store[f] = NoChain
  <2>1. store[f] \in Chain /\ store[f].version = -1
    BY <1>3, <1>6 DEF Exists, Chain
  <2>2. store[f].content = <<>>
    BY <2>1 DEF Inv, Chains
  <2> QED
    BY <2>1, <2>2 DEF Chain, NoChain
<1>7. store' \in [Epochs -> Chain]
  BY <1>1, <1>3, <1>4
<1>8. bypassed \subseteq bypassed' /\ bypassed' \subseteq Epochs
  BY <1>1, <1>2, <1>3
<1>9. \A f \in Epochs \ bypassed' : store'[f] = store[f]
  BY <1>1, <1>5, <1>6
<1>10. e \notin bypassed' => ~Exists(store[e])
  BY <1>1
<1> QED
  BY <1>5, <1>7, <1>8, <1>9, <1>10 DEF Dropped

(* A step of an attempt leaves the store alone, resets or commits.          *)
LEMMA StoreShapes ==
  ASSUME Inv, NEW i \in 1 .. MaxAttempts, Works(i), NEW w \in Workers, w = att[i].worker,
         NEW e \in Epochs, e = att[i].epoch
  PROVE  UNCHANGED <<store, bypassed>> \/ Dropped(e) \/ Written(i, w, e)
<1>a. i \in Attempts
  BY AttemptSteps DEF AttStep
<1>1. ASSUME FindCommitted(i) PROVE UNCHANGED <<store, bypassed>> \/ Dropped(e) \/ Written(i, w, e)
  BY <1>1 DEF FindCommitted
<1>2. ASSUME UseLocal(i) PROVE UNCHANGED <<store, bypassed>> \/ Dropped(e) \/ Written(i, w, e)
  BY <1>2 DEF UseLocal
<1>3. ASSUME StartFresh(i) PROVE UNCHANGED <<store, bypassed>> \/ Dropped(e) \/ Written(i, w, e)
  BY <1>3 DEF StartFresh
<1>4. ASSUME UseStore(i) PROVE UNCHANGED <<store, bypassed>> \/ Dropped(e) \/ Written(i, w, e)
  BY <1>4 DEF UseStore
<1>5. ASSUME resolveFromStore(i)
      PROVE  UNCHANGED <<store, bypassed>> \/ Dropped(e) \/ Written(i, w, e)
  BY <1>5 DEF resolveFromStore
<1>6. ASSUME recoverAlreadyCommitted(i)
      PROVE  UNCHANGED <<store, bypassed>> \/ Dropped(e) \/ Written(i, w, e)
  BY <1>6 DEF recoverAlreadyCommitted
<1>7. ASSUME NothingToHydrate(i)
      PROVE  UNCHANGED <<store, bypassed>> \/ Dropped(e) \/ Written(i, w, e)
  BY <1>7 DEF NothingToHydrate
<1>8. ASSUME CreateFirst(i) PROVE UNCHANGED <<store, bypassed>> \/ Dropped(e) \/ Written(i, w, e)
  BY <1>8, <1>a, ResetDrops DEF CreateFirst
<1>9. ASSUME CreateEpoch(i) PROVE UNCHANGED <<store, bypassed>> \/ Dropped(e) \/ Written(i, w, e)
  BY <1>9, <1>a, ResetDrops DEF CreateEpoch
<1>10. ASSUME Resume(i) PROVE UNCHANGED <<store, bypassed>> \/ Dropped(e) \/ Written(i, w, e)
  BY <1>10 DEF Resume
<1>11. ASSUME ResumeStored(i) PROVE UNCHANGED <<store, bypassed>> \/ Dropped(e) \/ Written(i, w, e)
  BY <1>11 DEF ResumeStored
<1>12. ASSUME ResumeLost(i) PROVE UNCHANGED <<store, bypassed>> \/ Dropped(e) \/ Written(i, w, e)
  BY <1>12 DEF ResumeLost
<1>13. ASSUME attemptStoreRecovery(i)
       PROVE  UNCHANGED <<store, bypassed>> \/ Dropped(e) \/ Written(i, w, e)
  BY <1>13 DEF attemptStoreRecovery
<1>14. ASSUME LossyReplay(i) PROVE UNCHANGED <<store, bypassed>> \/ Dropped(e) \/ Written(i, w, e)
  BY <1>14, <1>a, ResetDrops DEF LossyReplay
<1>15. ASSUME CreationFails(i) PROVE UNCHANGED <<store, bypassed>> \/ Dropped(e) \/ Written(i, w, e)
  BY <1>15, <1>a, ResetDrops DEF CreationFails
<1>16. ASSUME RunBody(i) PROVE UNCHANGED <<store, bypassed>> \/ Dropped(e) \/ Written(i, w, e)
  BY <1>16 DEF RunBody
<1>17. ASSUME ReplayBody(i) PROVE UNCHANGED <<store, bypassed>> \/ Dropped(e) \/ Written(i, w, e)
  BY <1>17, <1>a, ResetDrops DEF ReplayBody
<1>18. ASSUME DiscardStopped(i)
       PROVE  UNCHANGED <<store, bypassed>> \/ Dropped(e) \/ Written(i, w, e)
  BY <1>18 DEF DiscardStopped
<1>19. ASSUME CommitSwaps(i) PROVE UNCHANGED <<store, bypassed>> \/ Dropped(e) \/ Written(i, w, e)
  BY <1>19 DEF CommitSwaps, Committing, At, Write, Written, Marks, workerVars
<1>20. ASSUME CommitAnswerLost(i)
       PROVE  UNCHANGED <<store, bypassed>> \/ Dropped(e) \/ Written(i, w, e)
  BY <1>20 DEF CommitAnswerLost, Committing, At, Write, Written, Marks, workerVars
<1>21. ASSUME CommitFindsOwn(i)
       PROVE  UNCHANGED <<store, bypassed>> \/ Dropped(e) \/ Written(i, w, e)
  BY <1>21 DEF CommitFindsOwn
<1>22. ASSUME CommitConflicts(i)
       PROVE  UNCHANGED <<store, bypassed>> \/ Dropped(e) \/ Written(i, w, e)
  BY <1>22 DEF CommitConflicts
<1>23. ASSUME WriteMarker(i) PROVE UNCHANGED <<store, bypassed>> \/ Dropped(e) \/ Written(i, w, e)
  BY <1>23 DEF WriteMarker
<1>24. ASSUME ClearSentinel(i) PROVE UNCHANGED <<store, bypassed>> \/ Dropped(e) \/ Written(i, w, e)
  BY <1>24 DEF ClearSentinel
<1>25. ASSUME AdoptWinner(i) PROVE UNCHANGED <<store, bypassed>> \/ Dropped(e) \/ Written(i, w, e)
  BY <1>25 DEF AdoptWinner
<1>26. ASSUME AdoptNothing(i) PROVE UNCHANGED <<store, bypassed>> \/ Dropped(e) \/ Written(i, w, e)
  BY <1>26 DEF AdoptNothing
<1>27. ASSUME AttemptThrows(i) PROVE UNCHANGED <<store, bypassed>> \/ Dropped(e) \/ Written(i, w, e)
  BY <1>27 DEF AttemptThrows
<1> QED
  BY <1>1, <1>2, <1>3, <1>4, <1>5, <1>6, <1>7, <1>8, <1>9, <1>10, <1>11, <1>12, <1>13, <1>14,
     <1>15, <1>16, <1>17, <1>18, <1>19, <1>20, <1>21, <1>22, <1>23, <1>24, <1>25, <1>26, <1>27
  DEF Works, Preamble, getOrCreate, runTurnCommit

(* An attempt that works holds the lock of its worker, or takes it.         *)
LEMMA LockSteps ==
  ASSUME NEW i, Works(i)
  PROVE  /\ i \in Attempts
         /\ Active(i) \/ Acquire(i)
BY DEF Works, At, Active, Preamble, getOrCreate, runTurnCommit, FindCommitted, Acquire, UseLocal,
   StartFresh, UseStore, resolveFromStore, recoverAlreadyCommitted, NothingToHydrate, Throw,
   CreateFirst, CreateNew, CreateEpoch, Resume, Resuming, ResumeStored, ResumeLost,
   attemptStoreRecovery, LossyReplay, CreationFails, RunBody, ReplayBody, DiscardStopped,
   CommitSwaps, Committing, CommitAnswerLost, CommitFindsOwn, CommitConflicts, WriteMarker,
   ClearSentinel, AdoptWinner, AdoptNothing, AttemptThrows

(* A step of an attempt leaves the orchestration alone.                     *)
LEMMA OrchSteps ==
  ASSUME Inv, NEW i \in 1 .. MaxAttempts, Works(i)
  PROVE  /\ UNCHANGED <<orchVars, evicting>>
         /\ touched \subseteq touched' /\ touched' \subseteq Workers
         /\ faults' \in 0 .. MaxFaults
<1>a. touched \subseteq Workers /\ faults \in 0 .. MaxFaults
  BY DEF Inv, TypeOK
<1>b. att[i].worker \in Workers
  BY LockSteps, AttemptType DEF Attempt, AttTypes, Inv, TypeOK
<1>1. ASSUME FindCommitted(i)
      PROVE  /\ UNCHANGED <<orchVars, evicting>>
             /\ touched \subseteq touched' /\ touched' \subseteq Workers
             /\ faults' \in 0 .. MaxFaults
  BY <1>1, <1>a, <1>b, SnapshotConstants DEF FindCommitted, workerVars, Acquire
<1>2. ASSUME UseLocal(i)
      PROVE  /\ UNCHANGED <<orchVars, evicting>>
             /\ touched \subseteq touched' /\ touched' \subseteq Workers
             /\ faults' \in 0 .. MaxFaults
  BY <1>2, <1>a, <1>b, SnapshotConstants DEF UseLocal, workerVars, Acquire
<1>3. ASSUME StartFresh(i)
      PROVE  /\ UNCHANGED <<orchVars, evicting>>
             /\ touched \subseteq touched' /\ touched' \subseteq Workers
             /\ faults' \in 0 .. MaxFaults
  BY <1>3, <1>a, <1>b, SnapshotConstants DEF StartFresh, workerVars, Acquire
<1>4. ASSUME UseStore(i)
      PROVE  /\ UNCHANGED <<orchVars, evicting>>
             /\ touched \subseteq touched' /\ touched' \subseteq Workers
             /\ faults' \in 0 .. MaxFaults
  BY <1>4, <1>a, <1>b, SnapshotConstants DEF UseStore, workerVars, Acquire
<1>5. ASSUME resolveFromStore(i)
      PROVE  /\ UNCHANGED <<orchVars, evicting>>
             /\ touched \subseteq touched' /\ touched' \subseteq Workers
             /\ faults' \in 0 .. MaxFaults
  BY <1>5, <1>a, <1>b, SnapshotConstants DEF resolveFromStore, workerVars
<1>6. ASSUME recoverAlreadyCommitted(i)
      PROVE  /\ UNCHANGED <<orchVars, evicting>>
             /\ touched \subseteq touched' /\ touched' \subseteq Workers
             /\ faults' \in 0 .. MaxFaults
  BY <1>6, <1>a, <1>b, SnapshotConstants DEF recoverAlreadyCommitted, workerVars
<1>7. ASSUME NothingToHydrate(i)
      PROVE  /\ UNCHANGED <<orchVars, evicting>>
             /\ touched \subseteq touched' /\ touched' \subseteq Workers
             /\ faults' \in 0 .. MaxFaults
  BY <1>7, <1>a, <1>b, SnapshotConstants DEF NothingToHydrate, workerVars
<1>8. ASSUME CreateFirst(i)
      PROVE  /\ UNCHANGED <<orchVars, evicting>>
             /\ touched \subseteq touched' /\ touched' \subseteq Workers
             /\ faults' \in 0 .. MaxFaults
  <2>1. PICK cost \in {0, 1} : Reset(i, cost)
    BY <1>8 DEF CreateFirst
  <2>2. faults' \in 0 .. MaxFaults
    BY <1>a, <2>1, SnapshotConstants DEF Reset
  <2> QED
    BY <1>8, <1>a, <2>2 DEF CreateFirst, CreateNew
<1>9. ASSUME CreateEpoch(i)
      PROVE  /\ UNCHANGED <<orchVars, evicting>>
             /\ touched \subseteq touched' /\ touched' \subseteq Workers
             /\ faults' \in 0 .. MaxFaults
  <2>1. PICK cost \in {0, 1} : Reset(i, cost)
    BY <1>9 DEF CreateEpoch
  <2>2. faults' \in 0 .. MaxFaults
    BY <1>a, <2>1, SnapshotConstants DEF Reset
  <2> QED
    BY <1>9, <1>a, <2>2 DEF CreateEpoch, CreateNew
<1>10. ASSUME Resume(i)
      PROVE  /\ UNCHANGED <<orchVars, evicting>>
             /\ touched \subseteq touched' /\ touched' \subseteq Workers
             /\ faults' \in 0 .. MaxFaults
  BY <1>10, <1>a, <1>b, SnapshotConstants DEF Resume, workerVars
<1>11. ASSUME ResumeStored(i)
      PROVE  /\ UNCHANGED <<orchVars, evicting>>
             /\ touched \subseteq touched' /\ touched' \subseteq Workers
             /\ faults' \in 0 .. MaxFaults
  BY <1>11, <1>a, <1>b, SnapshotConstants DEF ResumeStored, workerVars
<1>12. ASSUME ResumeLost(i)
      PROVE  /\ UNCHANGED <<orchVars, evicting>>
             /\ touched \subseteq touched' /\ touched' \subseteq Workers
             /\ faults' \in 0 .. MaxFaults
  BY <1>12, <1>a, <1>b, SnapshotConstants DEF ResumeLost, workerVars
<1>13. ASSUME attemptStoreRecovery(i)
      PROVE  /\ UNCHANGED <<orchVars, evicting>>
             /\ touched \subseteq touched' /\ touched' \subseteq Workers
             /\ faults' \in 0 .. MaxFaults
  BY <1>13, <1>a, <1>b, SnapshotConstants DEF attemptStoreRecovery, workerVars
<1>14. ASSUME LossyReplay(i)
      PROVE  /\ UNCHANGED <<orchVars, evicting>>
             /\ touched \subseteq touched' /\ touched' \subseteq Workers
             /\ faults' \in 0 .. MaxFaults
  <2>1. PICK cost \in {0, 1} : Reset(i, cost)
    BY <1>14 DEF LossyReplay
  <2>2. faults' \in 0 .. MaxFaults
    BY <1>a, <2>1, SnapshotConstants DEF Reset
  <2> QED
    BY <1>14, <1>a, <2>2 DEF LossyReplay, CreateNew
<1>15. ASSUME CreationFails(i)
      PROVE  /\ UNCHANGED <<orchVars, evicting>>
             /\ touched \subseteq touched' /\ touched' \subseteq Workers
             /\ faults' \in 0 .. MaxFaults
  <2>1. PICK cost \in {0, 1} : Reset(i, cost)
    BY <1>15 DEF CreationFails
  <2>2. faults' \in 0 .. MaxFaults
    BY <1>a, <2>1, SnapshotConstants DEF Reset
  <2> QED
    BY <1>15, <1>a, <2>2 DEF CreationFails
<1>16. ASSUME RunBody(i)
      PROVE  /\ UNCHANGED <<orchVars, evicting>>
             /\ touched \subseteq touched' /\ touched' \subseteq Workers
             /\ faults' \in 0 .. MaxFaults
  BY <1>16, <1>a, <1>b, SnapshotConstants DEF RunBody, workerVars
<1>17. ASSUME ReplayBody(i)
      PROVE  /\ UNCHANGED <<orchVars, evicting>>
             /\ touched \subseteq touched' /\ touched' \subseteq Workers
             /\ faults' \in 0 .. MaxFaults
  <2>1. PICK cost \in {0, 1} : Reset(i, cost)
    BY <1>17 DEF ReplayBody
  <2>2. faults' \in 0 .. MaxFaults
    BY <1>a, <2>1, SnapshotConstants DEF Reset
  <2> QED
    BY <1>17, <1>a, <2>2 DEF ReplayBody
<1>18. ASSUME DiscardStopped(i)
      PROVE  /\ UNCHANGED <<orchVars, evicting>>
             /\ touched \subseteq touched' /\ touched' \subseteq Workers
             /\ faults' \in 0 .. MaxFaults
  BY <1>18, <1>a, <1>b, SnapshotConstants DEF DiscardStopped, workerVars
<1>19. ASSUME CommitSwaps(i)
      PROVE  /\ UNCHANGED <<orchVars, evicting>>
             /\ touched \subseteq touched' /\ touched' \subseteq Workers
             /\ faults' \in 0 .. MaxFaults
  BY <1>19, <1>a, <1>b, SnapshotConstants DEF CommitSwaps, workerVars
<1>20. ASSUME CommitAnswerLost(i)
      PROVE  /\ UNCHANGED <<orchVars, evicting>>
             /\ touched \subseteq touched' /\ touched' \subseteq Workers
             /\ faults' \in 0 .. MaxFaults
  BY <1>20, <1>a, <1>b, SnapshotConstants DEF CommitAnswerLost, workerVars
<1>21. ASSUME CommitFindsOwn(i)
      PROVE  /\ UNCHANGED <<orchVars, evicting>>
             /\ touched \subseteq touched' /\ touched' \subseteq Workers
             /\ faults' \in 0 .. MaxFaults
  BY <1>21, <1>a, <1>b, SnapshotConstants DEF CommitFindsOwn, workerVars
<1>22. ASSUME CommitConflicts(i)
      PROVE  /\ UNCHANGED <<orchVars, evicting>>
             /\ touched \subseteq touched' /\ touched' \subseteq Workers
             /\ faults' \in 0 .. MaxFaults
  BY <1>22, <1>a, <1>b, SnapshotConstants DEF CommitConflicts, workerVars
<1>23. ASSUME WriteMarker(i)
      PROVE  /\ UNCHANGED <<orchVars, evicting>>
             /\ touched \subseteq touched' /\ touched' \subseteq Workers
             /\ faults' \in 0 .. MaxFaults
  BY <1>23, <1>a, <1>b, SnapshotConstants DEF WriteMarker, workerVars
<1>24. ASSUME ClearSentinel(i)
      PROVE  /\ UNCHANGED <<orchVars, evicting>>
             /\ touched \subseteq touched' /\ touched' \subseteq Workers
             /\ faults' \in 0 .. MaxFaults
  BY <1>24, <1>a, <1>b, SnapshotConstants DEF ClearSentinel, workerVars
<1>25. ASSUME AdoptWinner(i)
      PROVE  /\ UNCHANGED <<orchVars, evicting>>
             /\ touched \subseteq touched' /\ touched' \subseteq Workers
             /\ faults' \in 0 .. MaxFaults
  BY <1>25, <1>a, <1>b, SnapshotConstants DEF AdoptWinner, workerVars
<1>26. ASSUME AdoptNothing(i)
      PROVE  /\ UNCHANGED <<orchVars, evicting>>
             /\ touched \subseteq touched' /\ touched' \subseteq Workers
             /\ faults' \in 0 .. MaxFaults
  BY <1>26, <1>a, <1>b, SnapshotConstants DEF AdoptNothing, workerVars
<1>27. ASSUME AttemptThrows(i)
      PROVE  /\ UNCHANGED <<orchVars, evicting>>
             /\ touched \subseteq touched' /\ touched' \subseteq Workers
             /\ faults' \in 0 .. MaxFaults
  BY <1>27, <1>a, <1>b, SnapshotConstants DEF AttemptThrows, workerVars
<1> QED
  BY <1>1, <1>2, <1>3, <1>4, <1>5, <1>6, <1>7, <1>8, <1>9, <1>10, <1>11, <1>12, <1>13, <1>14,
     <1>15, <1>16, <1>17, <1>18, <1>19, <1>20, <1>21, <1>22, <1>23, <1>24, <1>25, <1>26, <1>27
  DEF Works, Preamble, getOrCreate, runTurnCommit

-----------------------------------------------------------------------------
(* The deliveries of all attempts are kept.                                 *)
AttsKept ==
  /\ AttTypes'
  /\ Len(att) <= Len(att')
  /\ \A j \in Attempts : Keeps(j)

(* A step of an attempt keeps all deliveries.                               *)
LEMMA StepKeeps ==
  ASSUME AttTypes, NEW i, AttStep(i)
  PROVE  AttsKept
<1>1. Len(att) \in Nat
  BY LenProperties DEF AttTypes
<1>2. ASSUME NEW j \in Attempts \ {i} PROVE Keeps(j)
  <2>1. att[j] \in Attempt
    BY AttemptType
  <2>2. CASE att'[j] = att[j]
    BY <2>2 DEF Keeps, Ran
  <2>3. CASE att'[j] = [att[j] EXCEPT !.passed = TRUE]
    BY <2>1, <2>3 DEF Keeps, Ran, Attempt
  <2> QED
    BY <2>2, <2>3 DEF AttStep, Aside
<1> QED
  BY <1>1, <1>2 DEF AttStep, AttsKept

(* Memories stay what they are while deliveries are kept.                   *)
LEMMA ContentKept ==
  ASSUME AttTypes, AttsKept, NEW s, Proper(s)
  PROVE  Proper(s)' /\ \A e : Pure(s, e) => Pure(s, e)'
<1>1. Attempts \subseteq Attempts'
  <2>1. Len(att) \in Nat /\ Len(att') \in Nat
    BY LenProperties DEF AttTypes, AttsKept
  <2> QED
    BY <2>1 DEF Attempts, AttsKept
<1> QED
  BY <1>1 DEF Proper, Pure, AttsKept, Keeps

(* The files and the sessions of the other workers stay.                    *)
LEMMA OtherFiles ==
  ASSUME Inv, NEW i \in 1 .. MaxAttempts, Works(i), NEW w \in Workers, w = att[i].worker
  PROVE  /\ Sound(w)'
         /\ \A v \in Workers \ {w} : dir'[v] = dir[v] /\ memory'[v] = memory[v]
         /\ dir' \in [Workers -> Directory]
         /\ memory' \in [Workers -> Session]
<1>1. dir \in [Workers -> Directory] /\ memory \in [Workers -> Session]
  BY DEF Inv, TypeOK
<1>2. /\ dir' = [dir EXCEPT ![w] = dir'[w]]
      /\ memory' = [memory EXCEPT ![w] = memory'[w]]
      /\ Sound(w)'
  BY FileSteps DEF FileStep
<1>3. dir'[w] \in Directory /\ memory'[w] \in Session
  BY <1>2 DEF Sound
<1> QED
  BY <1>1, <1>2, <1>3

(* The contents the steps of an attempt leave are made of bodies that ran,  *)
(* each once.                                                               *)
LEMMA WorksContents ==
  ASSUME Inv, NEW i \in 1 .. MaxAttempts, Works(i), NEW w \in Workers, w = att[i].worker,
         NEW e \in Epochs, e = att[i].epoch
  PROVE  Contents'
<1>1. AttTypes /\ i \in Attempts /\ AttsKept
  BY AttemptSteps, StepKeeps DEF AttStep, Inv, TypeOK, AttTypes
<1>2. ASSUME NEW s, Proper(s) PROVE Proper(s)'
  BY <1>1, <1>2, ContentKept
<1>3. Proper(<<>>)'
  BY DEF Proper
<1>4. i \in Attempts'
  BY <1>1, LenProperties DEF Attempts, AttTypes, AttsKept
<1>5. /\ \A v \in Workers : Proper(dir[v].content) /\ dir[v] \in Directory
      /\ \A f \in Epochs : Proper(store[f].content)
  BY DEF Inv, Contents, TypeOK
<1>6. \A v \in Workers \ {w} : dir'[v] = dir[v]
  BY OtherFiles
<1>7. ASSUME NEW n, n = dir'[w].content PROVE Proper(n)'
  <2>1. CASE n = dir[w].content \/ n = store[e].content \/ n = <<>>
    BY <1>2, <1>3, <1>5, <2>1
  <2>2. CASE n = <<i>> /\ Ran(i)'
    BY <1>4, <2>2 DEF Proper
  <2>3. CASE Grown(i, w)
    <3>1. PICK s : s = dir[w].content
      OBVIOUS
    <3>2. s \in Seq(Runs) /\ Proper(s) /\ Proper(s)'
      BY <1>2, <1>5, <3>1 DEF Directory
    <3>3. \A k \in 1 .. Len(s) : s[k] # i
      BY <2>3, <3>2 DEF Grown, Proper
    <3>4. n = Append(s, i) /\ Ran(i)'
      BY <1>7, <2>3, <3>1 DEF Grown
    <3>5. /\ Len(n) = Len(s) + 1 /\ Len(s) \in Nat
          /\ \A k \in 1 .. Len(s) : n[k] = s[k]
          /\ n[Len(s) + 1] = i
      BY <3>2, <3>4, AppendProperties, LenProperties DEF Runs
    <3> QED
      BY <1>4, <3>2, <3>3, <3>4, <3>5 DEF Proper
  <2> QED
    BY <1>7, <2>1, <2>2, <2>3, DirShapes
    DEF Untouched, Emptied, Born, Hydrated, Marked
<1>8. ASSUME NEW v \in Workers PROVE Proper(dir[v].content)'
  <2>1. PICK n : n = dir'[v].content
    OBVIOUS
  <2>2. Proper(n)'
    <3>1. CASE v = w
      BY <1>7, <2>1, <3>1
    <3>2. CASE v # w
      BY <1>2, <1>5, <1>6, <2>1, <3>2
    <3> QED
      BY <3>1, <3>2
  <2> QED
    BY <2>1, <2>2 DEF Proper, Ran
<1>9. ASSUME NEW f \in Epochs PROVE Proper(store[f].content)'
  <2>1. PICK n : n = store'[f].content
    OBVIOUS
  <2>2. n \in {<<>>, store[f].content, dir[w].content}
    <3>1. CASE UNCHANGED <<store, bypassed>>
      BY <2>1, <3>1
    <3>2. CASE Dropped(e)
      BY <2>1, <3>2 DEF Dropped, NoChain
    <3>3. CASE Written(i, w, e)
      BY <2>1, <3>3 DEF Written, Inv, TypeOK
    <3> QED
      BY <3>1, <3>2, <3>3, StoreShapes
  <2>3. Proper(n)'
    BY <1>2, <1>3, <1>5, <2>2
  <2> QED
    BY <2>1, <2>3 DEF Proper, Ran
<1> QED
  BY <1>8, <1>9 DEF Contents

(* ... and of the bodies of one epoch, where a marker or a chain of a later *)
(* epoch says so.                                                           *)
LEMMA WorksEpoched ==
  ASSUME Inv, NEW i \in 1 .. MaxAttempts, Works(i), NEW w \in Workers, w = att[i].worker,
         NEW e \in Epochs, e = att[i].epoch
  PROVE  Epoched'
<1>1. AttTypes /\ i \in Attempts /\ AttsKept /\ AttStep(i)
  BY AttemptSteps, StepKeeps DEF AttStep, Inv, TypeOK, AttTypes
<1>2. ASSUME NEW s, Proper(s), NEW f, Pure(s, f) PROVE Pure(s, f)'
  BY <1>1, <1>2, ContentKept
<1>3. \A f : Pure(<<>>, f)'
  BY DEF Pure
<1>4. Proper(dir[w].content) /\ Proper(store[e].content) /\ dir[w] \in Directory
  BY DEF Inv, Contents, TypeOK
<1>5. /\ e # 0 => Pure(store[e].content, e)
      /\ dir[w].marker.epoch # 0 => Pure(dir[w].content, dir[w].marker.epoch)
      /\ Based(i) => /\ dir[w].marker.set => dir[w].marker.epoch = e
                     /\ e # 0 => Pure(dir[w].content, e)
      /\ ~dir[w].marker.set => dir[w].marker.epoch = 0
  BY <1>1 DEF Inv, Epoched, Files
<1>6. ASSUME NEW n, n = dir'[w].content, NEW m, m = dir'[w].marker.epoch
      PROVE  /\ m # 0 => Pure(n, m)'
             /\ Based(i)' => /\ dir'[w].marker.set => m = e
                             /\ e # 0 => Pure(n, e)'
  <2>1. CASE Untouched(i, w)
    <3>1. n = dir[w].content /\ m = dir[w].marker.epoch /\ dir'[w].marker = dir[w].marker
      BY <1>6, <2>1 DEF Untouched
    <3>2. UseLocal(i) => /\ dir[w].marker.set => dir[w].marker.epoch = e
                         /\ e # 0 => Pure(dir[w].content, e)
      <4>1. UseLocal(i) => EpochMatches(dir[w].marker, e)
        BY DEF UseLocal, LocalTrusted
      <4>2. EpochMatches(dir[w].marker, e) => dir[w].marker.epoch = e
        BY SnapshotConstants DEF EpochMatches, Epochs
      <4> QED
        BY <1>5, <4>1, <4>2
    <3>3. Based(i)' => /\ dir[w].marker.set => dir[w].marker.epoch = e
                       /\ e # 0 => Pure(dir[w].content, e)
      BY <1>5, <2>1, <3>2 DEF Untouched
    <3> QED
      BY <1>2, <1>4, <1>5, <3>1, <3>3
  <2>2. CASE Emptied(i, w)
    <3>1. m = 0 /\ ~dir'[w].marker.set
      BY <1>6, <2>2 DEF Emptied, NoMarker
    <3>2. Pure(<<i>>, e)'
      BY <1>1 DEF Pure, AttStep, Keeps
    <3> QED
      BY <1>3, <1>6, <2>2, <3>1, <3>2 DEF Emptied
  <2>3. CASE Born(i, w, e)
    <3>1. n = <<>> /\ m = e
      BY <1>6, <2>3 DEF Born, Marker
    <3> QED
      BY <1>3, <3>1
  <2>4. CASE Hydrated(w, e)
    <3>1. n = store[e].content /\ m = e
      BY <1>6, <2>4 DEF Hydrated, MarkerFromHydrate, Marker, NoMarker
    <3> QED
      BY <1>2, <1>4, <1>5, <3>1
  <2>5. CASE Grown(i, w)
    <3>1. /\ m = dir[w].marker.epoch /\ dir'[w].marker = dir[w].marker /\ Based(i)
          /\ n = Append(dir[w].content, i)
      BY <1>6, <2>5 DEF Grown
    <3>2. m # 0 => m = e
      BY <1>5, <3>1
    <3>3. ASSUME e # 0 PROVE Pure(n, e)'
      <4>1. PICK s : s = dir[w].content
        OBVIOUS
      <4>2. s \in Seq(Runs) /\ Pure(s, e)'
        BY <1>2, <1>4, <1>5, <3>1, <3>3, <4>1 DEF Directory
      <4>3. att'[i].epoch = e
        BY <1>1 DEF AttStep, Keeps
      <4>4. /\ Len(n) = Len(s) + 1 /\ Len(s) \in Nat
            /\ \A k \in 1 .. Len(s) : n[k] = s[k]
            /\ n[Len(s) + 1] = i
        BY <3>1, <4>1, <4>2, AppendProperties, LenProperties DEF Runs
      <4> QED
        BY <4>2, <4>3, <4>4 DEF Pure
    <3> QED
      BY <1>5, <3>1, <3>2, <3>3
  <2>6. CASE Marked(i, w, e)
    <3>1. n = dir[w].content /\ m = e /\ Based(i)
      BY <1>6, <2>6 DEF Marked, Marker
    <3> QED
      BY <1>2, <1>4, <1>5, <3>1
  <2> QED
    BY <2>1, <2>2, <2>3, <2>4, <2>5, <2>6, DirShapes
<1>7. \A v \in Workers \ {w} : dir'[v] = dir[v]
  BY OtherFiles
<1>8. ASSUME NEW v \in Workers, (dir[v].marker.epoch # 0)'
      PROVE  Pure(dir[v].content, dir[v].marker.epoch)'
  <2>1. PICK n, m : n = dir'[v].content /\ m = dir'[v].marker.epoch
    OBVIOUS
  <2>2. Pure(n, m)'
    <3>1. CASE v = w
      BY <1>6, <1>8, <2>1, <3>1
    <3>2. CASE v # w
      <4>1. Proper(dir[v].content) /\ Pure(dir[v].content, dir[v].marker.epoch)
        BY <1>7, <1>8, <2>1, <3>2 DEF Inv, Contents, Epoched
      <4> QED
        BY <1>2, <1>7, <2>1, <3>2, <4>1
    <3> QED
      BY <3>1, <3>2
  <2> QED
    BY <2>1, <2>2 DEF Pure
<1>9. ASSUME NEW f \in Epochs \ {0} PROVE Pure(store[f].content, f)'
  <2>1. PICK n : n = store'[f].content
    OBVIOUS
  <2>2. n = <<>> \/ n = store[f].content \/ (n = dir[w].content /\ f = e /\ Based(i))
    <3>1. CASE UNCHANGED <<store, bypassed>>
      BY <2>1, <3>1
    <3>2. CASE Dropped(e)
      BY <2>1, <3>2 DEF Dropped, NoChain
    <3>3. CASE Written(i, w, e)
      BY <2>1, <3>3 DEF Written, Inv, TypeOK, Based
    <3> QED
      BY <3>1, <3>2, <3>3, StoreShapes
  <2>3. Proper(store[f].content) /\ Pure(store[f].content, f)
    BY DEF Inv, Contents, Epoched
  <2>4. Pure(n, f)'
    BY <1>2, <1>3, <1>4, <1>5, <2>2, <2>3
  <2> QED
    BY <2>1, <2>4 DEF Pure
<1>10. ASSUME NEW j \in Attempts', Based(j)'
       PROVE  /\ (dir[att[j].worker].marker.set => dir[att[j].worker].marker.epoch = att[j].epoch)'
              /\ (att[j].epoch # 0 => Pure(dir[att[j].worker].content, att[j].epoch))'
  <2>1. j \in Attempts
    BY <1>1 DEF AttStep, Attempts
  <2>2. PICK v \in Workers, f \in Epochs : v = att[j].worker /\ f = att[j].epoch
    BY <1>1, <2>1, AttemptType DEF Attempt
  <2>3. v = att'[j].worker /\ f = att'[j].epoch
    BY <1>1, <2>1, <2>2 DEF AttsKept, Keeps
  <2>4. PICK n : n = dir'[v].content
    OBVIOUS
  <2>5. /\ dir'[v].marker.set => dir'[v].marker.epoch = f
        /\ f # 0 => Pure(n, f)'
    <3>1. CASE j = i
      BY <1>6, <1>10, <2>2, <2>4, <3>1
    <3>2. CASE j # i
      <4>1. att'[j].pc = att[j].pc
        <5>1. Aside(i, j) /\ att[j] \in Attempt
          BY <1>1, <2>1, <3>2, AttemptType DEF AttStep
        <5> QED
          BY <5>1 DEF Aside, Attempt
      <4>2. Based(j) /\ Active(j)
        BY <1>10, <4>1 DEF Based, Active
      <4>3. v # w
        BY <1>1, <2>1, <2>2, <3>2, <4>2, LockSteps DEF Inv, Alone, Acquire
      <4>4. /\ dir[v].marker.set => dir[v].marker.epoch = f
            /\ f # 0 => Pure(dir[v].content, f)
            /\ Proper(dir[v].content)
        BY <2>1, <2>2, <4>2 DEF Inv, Epoched, Contents
      <4> QED
        BY <1>2, <1>7, <2>4, <4>3, <4>4
    <3> QED
      BY <3>1, <3>2
  <2> QED
    BY <2>3, <2>4, <2>5 DEF Pure
<1> QED
  BY <1>8, <1>9, <1>10 DEF Epoched

(* Another attempt only gets the mark that it has been overtaken; one that  *)
(* is at work is at work elsewhere.                                         *)
LEMMA Others ==
  ASSUME Inv, NEW i \in 1 .. MaxAttempts, Works(i), NEW j \in Attempts', j # i
  PROVE  /\ j \in Attempts
         /\ att'[j].pc = att[j].pc /\ att'[j].base = att[j].base /\ att'[j].how = att[j].how
         /\ att'[j].body = att[j].body /\ Keeps(j)
         /\ Active(j) => att[j].worker # att[i].worker
         /\ att[j].worker \in Workers /\ att'[j].worker = att[j].worker
<1>1. AttTypes /\ i \in Attempts /\ AttStep(i) /\ AttsKept
  BY AttemptSteps, StepKeeps DEF AttStep, Inv, TypeOK, AttTypes
<1>2. j \in Attempts
  BY <1>1 DEF AttStep, Attempts
<1>3. att[j] \in Attempt /\ Aside(i, j) /\ Keeps(j)
  BY <1>1, <1>2, AttemptType DEF AttStep, AttsKept
<1>4. Active(j) => att[j].worker # att[i].worker
  BY <1>1, <1>2, LockSteps DEF Inv, Alone, Acquire
<1>5. /\ att'[j].pc = att[j].pc /\ att'[j].base = att[j].base /\ att'[j].how = att[j].how
      /\ att'[j].body = att[j].body
  BY <1>3 DEF Aside, Attempt
<1> QED
  BY <1>2, <1>3, <1>4, <1>5 DEF Attempt, Keeps

(* A step of an attempt keeps the lock and the keys.                        *)
LEMMA WorksAlone ==
  ASSUME Inv, NEW i \in 1 .. MaxAttempts, Works(i), NEW w \in Workers, w = att[i].worker,
         NEW e \in Epochs, e = att[i].epoch
  PROVE  Alone' /\ Keys'
<1>1. AttTypes /\ i \in Attempts /\ AttStep(i) /\ AttsKept
  BY AttemptSteps, StepKeeps DEF AttStep, Inv, TypeOK, AttTypes
<1>2. ASSUME NEW j \in Attempts', j # i
      PROVE  j \in Attempts /\ (Active(j)' <=> Active(j)) /\ att'[j].worker = att[j].worker
  BY <1>2, Others DEF Active
<1>3. att'[i].worker = w /\ Attempts' = Attempts
  BY <1>1 DEF AttStep, Keeps, Attempts
<1>4. ASSUME NEW j \in Attempts, j # i, Active(j) PROVE att[j].worker # w
  BY <1>3, <1>4, Others
<1>5. w \notin evicting
  BY <1>1, LockSteps DEF Inv, Alone, Acquire
<1>6. evicting' = evicting /\ \A v \in Workers \ {w} : memory'[v] = memory[v]
  BY OrchSteps, OtherFiles
<1>7. evicting \subseteq Workers
  BY DEF Inv, TypeOK
<1>8. Alone'
  <2>1. ASSUME NEW j \in Attempts', NEW k \in Attempts', Active(j)', Active(k)',
               att'[j].worker = att'[k].worker
        PROVE  j = k
    <3>1. CASE j = i \/ k = i
      BY <1>2, <1>3, <1>4, <2>1, <3>1
    <3>2. CASE j # i /\ k # i
      BY <1>2, <2>1, <3>2 DEF Inv, Alone
    <3> QED
      BY <3>1, <3>2
  <2>2. ASSUME NEW v \in evicting'
        PROVE  /\ ~memory'[v].live
               /\ \A j \in Attempts' : att'[j].worker = v => ~Active(j)'
    BY <1>2, <1>3, <1>5, <1>6, <1>7, <2>2 DEF Inv, Alone
  <2> QED
    BY <2>1, <2>2 DEF Alone
<1>9. Keys'
  <2>1. UNCHANGED <<index, answers, asked>>
    BY OrchSteps DEF orchVars
  <2>2. \A j \in Attempts' : att'[j].key = att[j].key
    BY <1>1, <1>3 DEF AttsKept, Keeps
  <2> QED
    BY <1>3, <2>1, <2>2 DEF Inv, Keys
<1> QED
  BY <1>8, <1>9

(* A step of an attempt keeps the files true on every worker.               *)
LEMMA WorksFiles ==
  ASSUME Inv, NEW i \in 1 .. MaxAttempts, Works(i), NEW w \in Workers, w = att[i].worker,
         NEW e \in Epochs, e = att[i].epoch
  PROVE  Files' /\ LocalIsTrue' /\ LastOwn'
<1>1. AttTypes /\ i \in Attempts /\ AttStep(i) /\ att'[i].worker = w
  BY AttemptSteps DEF AttStep, Inv, TypeOK, AttTypes, Keeps
<1>2. ASSUME NEW v \in Workers PROVE Sound(v)'
  <2>1. CASE v = w
    BY <2>1, OtherFiles
  <2>2. CASE v # w
    BY <2>2, OtherFiles, InvSound DEF Sound
  <2> QED
    BY <2>1, <2>2
<1>3. ASSUME NEW j \in Attempts' PROVE Hand(j, att[j].worker)'
  <2>1. CASE j = i
    BY <1>1, <2>1, HandSteps DEF Hand
  <2>2. CASE j # i
    <3>1. PICK v \in Workers : v = att[j].worker
      BY <2>2, Others
    <3>2. j \in Attempts /\ att'[j].pc = att[j].pc /\ att'[j].worker = v /\ (Active(j) => v # w)
      BY <2>2, <3>1, Others
    <3>3. Active(j) => dir'[v] = dir[v] /\ memory'[v] = memory[v]
      BY <3>2, OtherFiles
    <3>4. Hand(j, v)
      BY <3>1, <3>2 DEF Hand, Inv, Files, LastOwn
    <3> QED
      BY <3>2, <3>3, <3>4 DEF Hand, Active, Last
  <2> QED
    BY <2>1, <2>2
<1> QED
  BY <1>2, <1>3 DEF Files, LocalIsTrue, LastOwn, Sound, Hand

(* A step of an attempt keeps the shape of the chains.                      *)
LEMMA WorksChains ==
  ASSUME Inv, NEW i \in 1 .. MaxAttempts, Works(i), NEW w \in Workers, w = att[i].worker,
         NEW e \in Epochs, e = att[i].epoch
  PROVE  /\ store' \in [Epochs -> Chain]
         /\ bypassed \subseteq bypassed' /\ bypassed' \subseteq Epochs
         /\ Chains'
<1>1. store \in [Epochs -> Chain] /\ bypassed \subseteq Epochs
  BY DEF Inv, TypeOK
<1>2. CASE UNCHANGED <<store, bypassed>>
  BY <1>1, <1>2 DEF Inv, Chains
<1>3. CASE Dropped(e)
  BY <1>3 DEF Dropped, Inv, Chains, NoChain
<1>4. CASE Written(i, w, e)
  <2> DEFINE new == [version |-> att[i].base + 1, content |-> dir[w].content]
  <2>1. i \in Attempts /\ att[i] \in Attempt /\ dir[w] \in Directory
    BY LockSteps, AttemptType DEF Inv, TypeOK, AttTypes
  <2>2. att[i].base \in Nat /\ dir[w].content \in Seq(Runs)
    BY <2>1 DEF Attempt, Directory
  <2>3. dir[w].content # <<>>
    BY <1>4, <2>1 DEF Written, Inv, LastOwn
  <2>4. new \in Chain /\ new.version >= 1 /\ new.content # <<>>
    BY <2>2, <2>3 DEF Chain
  <2>5. store' = [store EXCEPT ![e] = new] /\ bypassed' = bypassed
    BY <1>4 DEF Written
  <2> HIDE DEF new
  <2>6. store' \in [Epochs -> Chain] /\ \A f \in Epochs :
          store'[f] = IF f = e THEN new ELSE store[f]
    BY <1>1, <2>4, <2>5
  <2>7. Chains'
    BY <2>4, <2>5, <2>6 DEF Inv, Chains, Chain
  <2> QED
    BY <1>1, <2>5, <2>6, <2>7
<1> QED
  BY <1>2, <1>3, <1>4, StoreShapes

(* A step of an attempt keeps the types.                                    *)
LEMMA WorksTypes ==
  ASSUME Inv, NEW i \in 1 .. MaxAttempts, Works(i), NEW w \in Workers, w = att[i].worker,
         NEW e \in Epochs, e = att[i].epoch
  PROVE  TypeOK'
<1>1. /\ UNCHANGED <<asked, answers, index, epoch, starting, told, evicting>>
      /\ touched \subseteq touched' /\ touched' \subseteq Workers
      /\ faults' \in 0 .. MaxFaults
  BY OrchSteps DEF orchVars
<1>2. att' \in Seq(Attempt) /\ Len(att') <= MaxAttempts
  BY AttemptSteps DEF AttStep, AttTypes
<1>3. dir' \in [Workers -> Directory] /\ memory' \in [Workers -> Session]
  BY OtherFiles
<1>4. ASSUME NEW v \in Workers PROVE dir'[v].marker.set => dir'[v].here
  <2>1. CASE v = w
    BY <2>1, OtherFiles DEF Sound
  <2>2. CASE v # w
    BY <2>2, OtherFiles DEF Inv, TypeOK
  <2> QED
    BY <2>1, <2>2
<1>5. store' \in [Epochs -> Chain] /\ bypassed' \subseteq Epochs
  BY WorksChains
<1>6. /\ asked \in 0 .. MaxTurns /\ index \in 0 .. MaxTurns /\ epoch \in Epochs
      /\ starting \in BOOLEAN /\ answers \in Seq(Answer) /\ Len(answers) \in {asked - 1, asked}
      /\ told \in Seq([epoch : Epochs, body : 0 .. MaxAttempts]) /\ evicting \subseteq touched
  BY DEF Inv, TypeOK
<1> QED
  BY <1>1, <1>2, <1>3, <1>4, <1>5, <1>6 DEF TypeOK

(* The compare-and-swap on a chain that nothing has bypassed begins it, or  *)
(* adds the body of the attempt to what is stored.                          *)
LEMMA SwapGrows ==
  ASSUME Inv, NEW i \in Attempts, NEW w \in Workers, w = att[i].worker, NEW e \in Epochs,
         e = att[i].epoch, e \notin bypassed, Written(i, w, e)
  PROVE  \/ ~Exists(store[e]) /\ store[e].content = <<>>
         \/ /\ Exists(store[e]) /\ store[e].version = att[i].base
            /\ dir[w].content = Append(store[e].content, i)
<1>1. Kept(i, w, e)
  BY DEF Inv, AllKept
<1>2. att[i].base \in Nat /\ att[i].passed \in BOOLEAN
  BY AttemptType DEF Inv, TypeOK, AttTypes, Attempt
<1>3. store[e] \in Chain
  BY ChainFacts
<1>4. CASE ~Exists(store[e])
  <2>1. store[e].version = -1
    BY <1>3, <1>4 DEF Exists, Chain
  <2> QED
    BY <1>4, <2>1 DEF Inv, Chains
<1>5. CASE Exists(store[e])
  <2>1. store[e].version = att[i].base
    BY <1>5 DEF Written, Matches
  <2>2. att[i].pc # "commit"
    BY <1>1, <1>2, <2>1 DEF Kept, CommitKept, Wrote
  <2>3. att[i].pc \in {"ran", "replayed"} /\ BaseKept(i, w, e)
    BY <1>1, <2>2 DEF Written, Kept, Based, Wrote
  <2>4. ~att[i].passed
    BY <1>2, <2>1, <2>3 DEF BaseKept
  <2> QED
    BY <1>5, <2>1, <2>3, <2>4 DEF BaseKept
<1> QED
  BY <1>4, <1>5

(* The version of a chain that is not bypassed never falls.                 *)
LEMMA VersionsGrow ==
  ASSUME Inv, NEW i \in 1 .. MaxAttempts, Works(i), NEW w \in Workers, w = att[i].worker,
         NEW e \in Epochs, e = att[i].epoch,
         NEW f \in Epochs, f \notin bypassed'
  PROVE  store'[f].version >= store[f].version /\ f \notin bypassed
<1>1. store \in [Epochs -> Chain] /\ f \notin bypassed
  BY WorksChains DEF Inv, TypeOK
<1>2. store[f].version \in Int
  BY <1>1 DEF Chain
<1>3. CASE store'[f] = store[f]
  BY <1>1, <1>2, <1>3
<1>4. CASE Written(i, w, e) /\ f = e
  <2>1. i \in Attempts /\ att[i].base \in Nat
    BY LockSteps, AttemptType DEF Inv, TypeOK, AttTypes, Attempt
  <2>2. store'[f].version = att[i].base + 1
    BY <1>1, <1>4 DEF Written
  <2>3. store[f].version < 0 \/ store[f].version = att[i].base
    BY <1>2, <1>4 DEF Written, Matches, Exists
  <2> QED
    BY <1>1, <1>2, <2>1, <2>2, <2>3
<1> QED
  BY <1>1, <1>3, <1>4, StoreShapes DEF Dropped, Written

(* A step of an attempt leaves no marker ahead of the store.                *)
LEMMA WorksMarkers ==
  ASSUME Inv, NEW i \in 1 .. MaxAttempts, Works(i), NEW w \in Workers, w = att[i].worker,
         NEW e \in Epochs, e = att[i].epoch
  PROVE  Markers'
<1>1. SUFFICES ASSUME NEW v \in Workers, dir'[v].marker.version >= 1,
                      dir'[v].marker.epoch \notin bypassed'
               PROVE  store'[dir'[v].marker.epoch].version >= dir'[v].marker.version
  BY DEF Markers
<1>2. /\ dir \in [Workers -> Directory] /\ dir' \in [Workers -> Directory]
      /\ store \in [Epochs -> Chain] /\ store' \in [Epochs -> Chain]
  BY OtherFiles, WorksChains DEF Inv, TypeOK
<1>3. PICK f \in Epochs : f = dir'[v].marker.epoch
  BY <1>2 DEF Directory, MarkerFile
<1>4. /\ store'[f].version >= store[f].version /\ f \notin bypassed
      /\ store[f].version \in Int /\ store'[f].version \in Int
      /\ dir'[v].marker.version \in Int /\ dir[v].marker.version \in Int
  <2>1. store'[f].version >= store[f].version /\ f \notin bypassed
    BY <1>1, <1>3, VersionsGrow
  <2>2. store[f] \in Chain /\ store'[f] \in Chain /\ dir[v] \in Directory /\ dir'[v] \in Directory
    BY <1>2
  <2>3. store[f].version \in Int /\ store'[f].version \in Int
    BY <2>2 DEF Chain
  <2>4. dir[v].marker.version \in Int /\ dir'[v].marker.version \in Int
    BY <2>2 DEF Directory, MarkerFile
  <2> QED
    BY <2>1, <2>3, <2>4
<1>5. CASE dir'[v].marker = dir[v].marker
  <2>1. store[f].version >= dir[v].marker.version
    BY <1>1, <1>3, <1>4, <1>5 DEF Inv, Markers
  <2> QED
    BY <1>3, <1>4, <1>5, <2>1
<1>6. CASE v = w /\ dir'[v].marker # dir[v].marker
  <2>1. dir'[w].marker # NoMarker /\ dir'[w].marker # Marker(0, <<>>, e)
    BY <1>1, <1>6 DEF NoMarker, Marker
  <2>2. CASE Hydrated(w, e)
    <3>1. dir'[w].marker = MarkerFromHydrate(store[e], e)
      BY <2>1, <2>2 DEF Hydrated
    <3>2. f = e /\ dir'[w].marker.version = store[e].version
      BY <1>3, <1>6, <3>1 DEF MarkerFromHydrate, Marker
    <3> QED
      BY <1>3, <1>4, <1>6, <3>2
  <2>3. CASE Marked(i, w, e)
    <3>1. i \in Attempts /\ att[i].base \in Nat
      BY LockSteps, AttemptType DEF Inv, TypeOK, AttTypes, Attempt
    <3>2. f = e /\ dir'[w].marker.version = att[i].base + 1
      BY <1>3, <1>6, <2>3 DEF Marked, Marker
    <3>3. store[e].version > att[i].base
      BY <1>4, <2>3, <3>1, <3>2 DEF Marked, Wrote, Inv, AllKept, Kept, CommitKept
    <3> QED
      BY <1>3, <1>4, <1>6, <3>1, <3>2, <3>3
  <2> QED
    BY <1>6, <2>1, <2>2, <2>3, DirShapes DEF Untouched, Emptied, Born, Grown
<1> QED
  BY <1>5, <1>6, OtherFiles

(* A step of an attempt keeps what was told in order: a chain only gets one *)
(* body more, behind all others.                                            *)
LEMMA WorksOrdered ==
  ASSUME Inv, NEW i \in 1 .. MaxAttempts, Works(i), NEW w \in Workers, w = att[i].worker,
         NEW e \in Epochs, e = att[i].epoch
  PROVE  Ordered'
<1>1. AttTypes /\ i \in Attempts /\ AttsKept
  BY AttemptSteps, StepKeeps DEF AttStep, Inv, TypeOK, AttTypes
<1>2. UNCHANGED <<told, answers>>
  BY OrchSteps DEF orchVars
<1>3. SUFFICES ASSUME NEW k \in 1 .. Len(told), told[k].epoch \notin bypassed'
               PROVE  InOrder(told[k], store[told[k].epoch].content)'
  BY <1>2 DEF Ordered
<1>4. PICK f \in Epochs, t \in [epoch : Epochs, body : 0 .. MaxAttempts] : f = told[k].epoch /\ t = told[k]
  <2>1. told[k] \in [epoch : Epochs, body : 0 .. MaxAttempts]
    BY ElementOfSeq DEF Inv, TypeOK
  <2> QED
    BY <2>1
<1>5. PICK s, n : s = store[f].content /\ n = store'[f].content
  OBVIOUS
<1>6. f \notin bypassed /\ InOrder(t, s)
  BY <1>3, <1>4, <1>5, WorksChains DEF Inv, Ordered
<1>7. s \in Seq(Runs) /\ Proper(s)
  BY <1>5, ChainFacts DEF Inv, Contents, Chain
<1>8. \A m \in 1 .. Len(s) : att'[s[m]].key = att[s[m]].key
  BY <1>1, <1>7 DEF Proper, AttsKept, Keeps
<1>9. CASE n = s
  <2>1. \E q \in 1 .. Len(n) : n[q] = t.body /\ att'[n[q]].key <= Len(answers')
    BY <1>2, <1>6, <1>8, <1>9 DEF InOrder, KeyOf
  <2>2. \A m, q \in 1 .. Len(n) : n[m] = t.body /\ att'[n[q]].key > att'[n[m]].key => m < q
    BY <1>6, <1>8, <1>9 DEF InOrder, KeyOf
  <2> QED
    BY <1>2, <1>4, <1>5, <2>1, <2>2 DEF InOrder, KeyOf
<1>10. CASE n = Append(s, i)
  <2>1. /\ Len(n) = Len(s) + 1 /\ Len(s) \in Nat
        /\ \A m \in 1 .. Len(s) : n[m] = s[m]
        /\ n[Len(s) + 1] = i
    BY <1>7, <1>10, AppendProperties, LenProperties DEF Runs
  <2>2. PICK p \in 1 .. Len(s) : s[p] = t.body /\ KeyOf(s[p]) <= Len(answers)
    BY <1>6 DEF InOrder
  <2>3. t.body # i
    <3>1. Proper(n)'
      <4>1. Proper(store[f].content)'
        BY WorksContents DEF Contents
      <4> QED
        BY <1>5, <4>1 DEF Proper, Ran
    <3> QED
      BY <2>1, <2>2, <3>1 DEF Proper
  <2>4. \E q \in 1 .. Len(n) : n[q] = t.body /\ att'[n[q]].key <= Len(answers')
    BY <1>2, <1>8, <2>1, <2>2 DEF KeyOf
  <2>5. ASSUME NEW m \in 1 .. Len(n), NEW q \in 1 .. Len(n), n[m] = t.body,
               att'[n[q]].key > att'[n[m]].key
        PROVE  m < q
    <3>1. m \in 1 .. Len(s) /\ s[m] = t.body
      BY <2>1, <2>3, <2>5
    <3>2. CASE q \in 1 .. Len(s)
      BY <1>6, <1>8, <2>1, <2>5, <3>1, <3>2 DEF InOrder, KeyOf
    <3>3. CASE q = Len(s) + 1
      BY <2>1, <3>1, <3>3
    <3> QED
      BY <2>1, <3>2, <3>3
  <2> QED
    BY <1>4, <1>5, <1>2, <2>4, <2>5 DEF InOrder, KeyOf
<1>11. n = s \/ n = Append(s, i)
  <2>1. CASE UNCHANGED <<store, bypassed>>
    BY <1>5, <2>1
  <2>2. CASE Dropped(e)
    BY <1>3, <1>4, <1>5, <2>2 DEF Dropped
  <2>3. CASE Written(i, w, e)
    <3>1. store \in [Epochs -> Chain]
      BY DEF Inv, TypeOK
    <3>2. CASE f # e
      BY <1>5, <2>3, <3>1, <3>2 DEF Written
    <3>3. CASE f = e
      <4>1. n = dir[w].content
        BY <1>5, <2>3, <3>1, <3>3 DEF Written
      <4>2. s # <<>>
        BY <1>6 DEF InOrder
      <4> QED
        BY <1>1, <1>5, <1>6, <2>3, <3>3, <4>1, <4>2, SwapGrows
    <3> QED
      BY <3>2, <3>3
  <2> QED
    BY <2>1, <2>2, <2>3, StoreShapes
<1> QED
  BY <1>2, <1>4, <1>5, <1>9, <1>10, <1>11 DEF InOrder, KeyOf

(* A reset of a chain that is not bypassed found none: the base is that of  *)
(* an empty chain.                                                          *)
LEMMA DroppedBase ==
  ASSUME Inv, NEW i \in Attempts, NEW w \in Workers, NEW e \in Epochs, Dropped(e),
         e \notin bypassed', Based(i), ~Wrote(i), BaseKept(i, w, e), att[i] \in Attempt
  PROVE  ~Exists(store[e]) /\ store'[e] = store[e] /\ ~att[i].passed /\ att[i].base = 0
<1>1. ~Exists(store[e]) /\ store'[e] = store[e]
  BY DEF Dropped
<1>2. store[e] \in Chain
  BY ChainFacts
<1>3. store[e].version = -1
  BY <1>1, <1>2 DEF Exists, Chain
<1>4. att[i].base \in Nat /\ att[i].passed \in BOOLEAN
  BY DEF Attempt
<1>5. ~att[i].passed
  BY <1>3, <1>4 DEF BaseKept
<1> QED
  BY <1>1, <1>5 DEF BaseKept

(* A step of an attempt keeps its base or its commit right.                 *)
LEMMA SelfKept ==
  ASSUME Inv, NEW i \in 1 .. MaxAttempts, Works(i), NEW w \in Workers, w = att[i].worker,
         NEW e \in Epochs, e = att[i].epoch
         , e \notin bypassed'
  PROVE  Kept(i, w, e)'
<1> DEFINE c == store[e]
<1>a. AttTypes /\ i \in Attempts
  BY AttemptSteps DEF AttStep, Inv, TypeOK, AttTypes
<1>b. att[i] \in Attempt /\ att[i].base \in Nat /\ att[i].passed \in BOOLEAN
  BY <1>a, AttemptType DEF Attempt
<1>c. dir \in [Workers -> Directory] /\ store \in [Epochs -> Chain]
  BY DEF Inv, TypeOK
<1>d. /\ Exists(c) => c.version \in Nat /\ c.version >= 1
      /\ ~Exists(c) => c.version = -1
      /\ c.version \in Int
      /\ e \notin bypassed
  <2>1. e \notin bypassed /\ c \in Chain
    BY <1>c, WorksChains
  <2>2. c.version # 0
    BY <2>1 DEF Inv, Chains
  <2> QED
    BY <2>1, <2>2 DEF Exists, Chain
<1>e. /\ 0 \in Nat /\ 0 \in 0 .. MaxAttempts /\ i \in 0 .. MaxAttempts
      /\ att[i].base + 1 \in Nat
      /\ dir[w].marker.version \in Nat
  <2>1. dir[w] \in Directory
    BY <1>c
  <2>2. dir[w].marker.version \in Nat
    BY <2>1 DEF Directory, MarkerFile
  <2> QED
    BY <1>b, <2>2, SnapshotConstants
<1>f. \A key : Bears(c, key) =>
        /\ Len(c.content) \in 1 .. Len(c.content)
        /\ Last(c.content) \in Attempts
        /\ Last(c.content) \in 0 .. MaxAttempts
        /\ KeyOf(Last(c.content)) = key
  BY ChainFacts
<1>g. Kept(i, w, e)
  BY <1>a, <1>d DEF Inv, AllKept
<1>h. AttsKept /\ att'[i].key = att[i].key
  BY <1>a, AttemptSteps, StepKeeps DEF AttStep, Keeps
<1>i. \A b \in Attempts : att'[b].key = att[b].key
  BY <1>h DEF AttsKept, Keeps
<1>j. ASSUME att'[i].pc \in {"done", "dead", "recover", "resolve"},
             att'[i].pc = "done" => att'[i].how \notin {"committed", "stored", "superseded"}
      PROVE  Kept(i, w, e)'
  BY <1>j DEF Kept, CommitKept, Based, Wrote
<1>k. ASSUME att'[i].pc \in {"create", "lost", "body", "ran", "replayed"}, BaseKept(i, w, e)'
      PROVE  Kept(i, w, e)'
  BY <1>k DEF Kept, CommitKept, Based, Wrote
<1>l. ASSUME att'[i].pc = "done", att'[i].how = "stored", att'[i].body = Last(c.content),
             Bears(c, att[i].key), store' = store
      PROVE  Kept(i, w, e)'
  <2>1. PICK n \in 1 .. Len(c.content) : c.content[n] = att'[i].body
          /\ att[c.content[n]].key = att[i].key
    BY <1>f, <1>l DEF Last, KeyOf
  <2>2. c.content[n] \in Attempts
    BY <1>f, <1>l, <2>1
  <2>3. \E m \in 1 .. Len(store'[e].content) :
          store'[e].content[m] = att'[i].body /\ att'[store'[e].content[m]].key = att'[i].key
    BY <1>h, <1>i, <1>l, <2>1, <2>2
  <2> QED
    BY <1>l, <2>3 DEF Kept, CommitKept, Based, Wrote, KeyOf
<1>1. ASSUME FindCommitted(i) PROVE Kept(i, w, e)'
  <2>1. att'[i].pc = "recover" /\ Rest(i)
    BY <1>1, <1>a, GotoStep DEF FindCommitted, Acquire, At, Ran, Pcs
  <2> QED
    BY <1>j, <2>1
<1>2. ASSUME UseLocal(i) PROVE Kept(i, w, e)'
  <2>1. att'[i].pc = "create" /\ att'[i].base = dir[w].marker.version /\ ~att'[i].passed
    BY <1>2, <1>a, <1>e, RebaseStep DEF UseLocal, Acquire, At, Ran
  <2>2. /\ UNCHANGED <<dir, store>>
        /\ dir[w].here /\ ~dir[w].dirty /\ EpochMatches(dir[w].marker, e)
        /\ c.version >= 1 => dir[w].marker.version = c.version /\ dir[w].marker.hash = c.content
    BY <1>2 DEF UseLocal, LocalTrusted
  <2>3. dir[w].marker.epoch = e
    BY <2>2, SnapshotConstants DEF EpochMatches, Epochs
  <2>4. ~Exists(c) => dir[w].marker.version = 0
    BY <1>d, <1>e, <2>3 DEF Inv, Markers
  <2>5. Exists(c) => dir[w].content = c.content
    BY <1>d, <2>2 DEF Inv, LocalIsTrue
  <2>6. BaseKept(i, w, e)'
    BY <1>d, <2>1, <2>2, <2>4, <2>5 DEF BaseKept, Exists
  <2> QED
    BY <1>k, <2>1, <2>6
<1>3. ASSUME StartFresh(i) PROVE Kept(i, w, e)'
  <2>1. att'[i].pc = "create" /\ att'[i].base = 0 /\ ~att'[i].passed
    BY <1>3, <1>a, <1>e, BaseStep DEF StartFresh, Acquire, At, Ran
  <2>2. ~Exists(c) /\ UNCHANGED store
    BY <1>3 DEF StartFresh
  <2>3. BaseKept(i, w, e)'
    BY <2>1, <2>2 DEF BaseKept, Exists
  <2> QED
    BY <1>k, <2>1, <2>3
<1>4. ASSUME UseStore(i) PROVE Kept(i, w, e)'
  <2>1. att'[i].pc = "resolve" /\ Rest(i)
    BY <1>4, <1>a, GotoStep DEF UseStore, Acquire, At, Ran, Pcs
  <2> QED
    BY <1>j, <2>1
<1>5. ASSUME resolveFromStore(i) PROVE Kept(i, w, e)'
  <2>1. att'[i].pc = "create" /\ att'[i].base = c.version /\ ~att'[i].passed
    BY <1>5, <1>a, <1>d, RebaseStep DEF resolveFromStore, At, Ran
  <2>2. /\ Exists(c) /\ UNCHANGED store
        /\ dir'[w] = Clean(c.content, MarkerFromHydrate(c, e))
    BY <1>5, <1>c DEF resolveFromStore, Restored
  <2>3. BaseKept(i, w, e)'
    BY <2>1, <2>2 DEF BaseKept, Exists, Clean
  <2> QED
    BY <1>k, <2>1, <2>3
<1>6. ASSUME recoverAlreadyCommitted(i) PROVE Kept(i, w, e)'
  <2>1. /\ Exists(c) /\ UNCHANGED store
        /\ dir'[w] = Clean(c.content, MarkerFromHydrate(c, e))
    BY <1>6, <1>c DEF recoverAlreadyCommitted, Restored
  <2>2. CASE Bears(c, att[i].key)
    <3>1. Return(i, "stored", Last(c.content), c.version)
      BY <1>6, <2>2 DEF recoverAlreadyCommitted
    <3>2. /\ att'[i].pc \in {"done", "dead"}
          /\ att'[i].pc = "done" => att'[i].how = "stored" /\ att'[i].body = Last(c.content)
      <4>1. Last(c.content) \in 0 .. MaxAttempts /\ c.version \in Nat /\ "stored" \in Hows
        BY <1>d, <1>f, <2>1, <2>2 DEF Hows
      <4> QED
        BY <1>a, <3>1, <4>1, ReturnStep
    <3> QED
      BY <1>j, <1>l, <2>1, <2>2, <3>2
  <2>3. CASE ~Bears(c, att[i].key)
    <3>1. att'[i].pc = "create" /\ att'[i].base = c.version /\ ~att'[i].passed
      BY <1>6, <1>a, <1>d, <2>3, RebaseStep DEF recoverAlreadyCommitted, At, Ran
    <3>2. BaseKept(i, w, e)'
      BY <2>1, <3>1 DEF BaseKept, Exists, Clean
    <3> QED
      BY <1>k, <3>1, <3>2
  <2> QED
    BY <2>2, <2>3
<1>7. ASSUME NothingToHydrate(i) PROVE Kept(i, w, e)'
  <2>1. PICK how \in {"failed", "error", "stopped"}, body \in 0 .. MaxAttempts, v \in Nat :
          Return(i, how, body, v)
    BY <1>7, <1>b, <1>e DEF NothingToHydrate, Throw
  <2>2. how \in Hows
    BY DEF Hows
  <2>3. att'[i].pc \in {"done", "dead"} /\ (att'[i].pc = "done" => att'[i].how = how)
    BY <1>a, <2>1, <2>2, ReturnStep
  <2> QED
    BY <1>j, <2>3
<1>8. ASSUME CreateFirst(i) PROVE Kept(i, w, e)'
  <2>1. att'[i].pc = "body" /\ Rest(i)
    BY <1>8, <1>a, GotoStep DEF CreateFirst, CreateNew, At, Ran, Pcs
  <2>2. PICK cost \in {0, 1} : Reset(i, cost)
    BY <1>8 DEF CreateFirst
  <2>3. Based(i) /\ ~Wrote(i)
    BY <1>8 DEF CreateFirst, At, Based, Wrote
  <2>4. ~Exists(c) /\ store'[e] = c /\ ~att[i].passed /\ att[i].base = 0
    BY <1>a, <1>b, <1>g, <2>2, <2>3, ResetDrops, DroppedBase DEF Kept
  <2>5. BaseKept(i, w, e)'
    BY <2>1, <2>4 DEF BaseKept, Exists, Rest
  <2> QED
    BY <1>k, <2>1, <2>5
<1>9. ASSUME CreateEpoch(i) PROVE Kept(i, w, e)'
  <2>1. att'[i].pc = "body" /\ Rest(i)
    BY <1>9, <1>a, GotoStep DEF CreateEpoch, CreateNew, At, Ran, Pcs
  <2>2. PICK cost \in {0, 1} : Reset(i, cost)
    BY <1>9 DEF CreateEpoch
  <2>3. Based(i) /\ ~Wrote(i)
    BY <1>9 DEF CreateEpoch, At, Based, Wrote
  <2>4. ~Exists(c) /\ store'[e] = c /\ ~att[i].passed /\ att[i].base = 0
    BY <1>a, <1>b, <1>g, <2>2, <2>3, ResetDrops, DroppedBase DEF Kept
  <2>5. BaseKept(i, w, e)'
    BY <2>1, <2>4 DEF BaseKept, Exists, Rest
  <2> QED
    BY <1>k, <2>1, <2>5
<1>10. ASSUME Resume(i) PROVE Kept(i, w, e)'
  <2>1. att'[i].pc = "body" /\ Rest(i)
    BY <1>10, <1>a, GotoStep DEF Resume, Resuming, At, Ran, Pcs
  <2>2. att[i].pc = "create" /\ BaseKept(i, w, e) /\ UNCHANGED <<dir, store>>
    BY <1>10, <1>g DEF Resume, Resuming, At, Kept, Based, Wrote, workerVars
  <2>3. BaseKept(i, w, e)'
    BY <2>1, <2>2 DEF BaseKept, Exists, Rest
  <2> QED
    BY <1>k, <2>1, <2>3
<1>11. ASSUME ResumeStored(i) PROVE Kept(i, w, e)'
  <2>1. att[i].pc = "create" /\ BaseKept(i, w, e) /\ Exists(c) /\ ~dir[w].here /\ UNCHANGED store
    BY <1>11, <1>g DEF ResumeStored, Resuming, Throw, At, Kept, Based, Wrote
  <2>2. att[i].passed /\ att[i].base < c.version
    BY <2>1 DEF BaseKept
  <2>3. CASE e = 0
    <3>1. Goto(i, "body")
      BY <1>11, <2>3 DEF ResumeStored
    <3>2. att'[i].pc = "body" /\ Rest(i)
      BY <1>a, <2>1, <3>1, GotoStep DEF Ran, Pcs
    <3>3. BaseKept(i, w, e)'
      BY <1>b, <2>1, <2>2, <3>2 DEF BaseKept, Rest
    <3> QED
      BY <1>k, <3>2, <3>3
  <2>4. CASE e # 0
    <3>1. Return(i, "failed", 0, 0) /\ "failed" \in Hows
      BY <1>11, <2>4 DEF ResumeStored, Throw, Hows
    <3>2. att'[i].pc \in {"done", "dead"} /\ (att'[i].pc = "done" => att'[i].how = "failed")
      BY <1>a, <1>e, <3>1, ReturnStep
    <3> QED
      BY <1>j, <3>2
  <2> QED
    BY <2>3, <2>4
<1>12. ASSUME ResumeLost(i) PROVE Kept(i, w, e)'
  <2>1. att'[i].pc = "lost" /\ Rest(i)
    BY <1>12, <1>a, GotoStep DEF ResumeLost, Resuming, At, Ran, Pcs
  <2>2. att[i].pc = "create" /\ BaseKept(i, w, e) /\ UNCHANGED <<dir, store>>
    BY <1>12, <1>g DEF ResumeLost, Resuming, At, Kept, Based, Wrote, workerVars
  <2>3. BaseKept(i, w, e)'
    BY <2>1, <2>2 DEF BaseKept, Exists, Rest
  <2> QED
    BY <1>k, <2>1, <2>3
<1>13. ASSUME attemptStoreRecovery(i) PROVE Kept(i, w, e)'
  <2>1. att'[i].pc = "body" /\ att'[i].base = c.version /\ ~att'[i].passed
    BY <1>13, <1>a, <1>d, RebaseStep DEF attemptStoreRecovery, At, Ran
  <2>2. /\ Exists(c) /\ UNCHANGED store
        /\ dir'[w] = Clean(c.content, MarkerFromHydrate(c, e))
    BY <1>13, <1>c DEF attemptStoreRecovery, Restored
  <2>3. BaseKept(i, w, e)'
    BY <2>1, <2>2 DEF BaseKept, Exists, Clean
  <2> QED
    BY <1>k, <2>1, <2>3
<1>14. ASSUME LossyReplay(i) PROVE Kept(i, w, e)'
  <2>1. att'[i].pc = "body" /\ Rest(i)
    BY <1>14, <1>a, GotoStep DEF LossyReplay, CreateNew, At, Ran, Pcs
  <2>2. PICK cost \in {0, 1} : Reset(i, cost)
    BY <1>14 DEF LossyReplay
  <2>3. Based(i) /\ ~Wrote(i)
    BY <1>14 DEF LossyReplay, At, Based, Wrote
  <2>4. ~Exists(c) /\ store'[e] = c /\ ~att[i].passed /\ att[i].base = 0
    BY <1>a, <1>b, <1>g, <2>2, <2>3, ResetDrops, DroppedBase DEF Kept
  <2>5. BaseKept(i, w, e)'
    BY <2>1, <2>4 DEF BaseKept, Exists, Rest
  <2> QED
    BY <1>k, <2>1, <2>5
<1>15. ASSUME CreationFails(i) PROVE Kept(i, w, e)'
  <2>1. PICK how \in {"failed", "error", "stopped"}, body \in 0 .. MaxAttempts, v \in Nat :
          Return(i, how, body, v)
    BY <1>15, <1>b, <1>e DEF CreationFails
  <2>2. how \in Hows
    BY DEF Hows
  <2>3. att'[i].pc \in {"done", "dead"} /\ (att'[i].pc = "done" => att'[i].how = how)
    BY <1>a, <2>1, <2>2, ReturnStep
  <2> QED
    BY <1>j, <2>3
<1>16. ASSUME RunBody(i) PROVE Kept(i, w, e)'
  <2>1. att'[i].pc = "ran" /\ Rest(i)
    BY <1>16, <1>a, GotoStep DEF RunBody, At, Ran, Pcs
  <2>2. att[i].pc = "body" /\ BaseKept(i, w, e) /\ UNCHANGED store
    BY <1>16, <1>g DEF RunBody, At, Kept, Based, Wrote
  <2>3. memory[w].content = dir[w].content
    BY <1>a, <2>2 DEF Inv, Files, LocalIsTrue
  <2>4. dir'[w].content = Append(dir[w].content, i)
    BY <1>16, <1>c, <2>3 DEF RunBody, Directory
  <2>5. BaseKept(i, w, e)'
    BY <2>1, <2>2, <2>4 DEF BaseKept, Exists, Rest
  <2> QED
    BY <1>k, <2>1, <2>5
<1>17. ASSUME ReplayBody(i) PROVE Kept(i, w, e)'
  <2>1. att'[i].pc = "replayed" /\ Rest(i)
    BY <1>17, <1>a, GotoStep DEF ReplayBody, At, Ran, Pcs
  <2>2. PICK cost \in {0, 1} : Reset(i, cost)
    BY <1>17 DEF ReplayBody
  <2>3. Based(i) /\ ~Wrote(i)
    BY <1>17 DEF ReplayBody, At, Based, Wrote
  <2>4. ~Exists(c) /\ store'[e] = c /\ ~att[i].passed /\ att[i].base = 0
    BY <1>a, <1>b, <1>g, <2>2, <2>3, ResetDrops, DroppedBase DEF Kept
  <2>5. BaseKept(i, w, e)'
    BY <2>1, <2>4 DEF BaseKept, Exists, Rest
  <2> QED
    BY <1>k, <2>1, <2>5
<1>18. ASSUME DiscardStopped(i) PROVE Kept(i, w, e)'
  <2>1. PICK how \in {"failed", "error", "stopped"}, body \in 0 .. MaxAttempts, v \in Nat :
          Return(i, how, body, v)
    BY <1>18, <1>b, <1>e DEF DiscardStopped
  <2>2. how \in Hows
    BY DEF Hows
  <2>3. att'[i].pc \in {"done", "dead"} /\ (att'[i].pc = "done" => att'[i].how = how)
    BY <1>a, <2>1, <2>2, ReturnStep
  <2> QED
    BY <1>j, <2>3
<1>19. ASSUME CommitSwaps(i) PROVE Kept(i, w, e)'
  <2>1. att'[i].pc = "marker" /\ Rest(i)
    BY <1>19, <1>a, WriteStep DEF Marks, CommitSwaps, Committing
  <2>2. /\ store' = [store EXCEPT ![e] = [version |-> att[i].base + 1, content |-> dir[w].content]]
        /\ att[i].pc \in {"ran", "replayed", "commit"}
    BY <1>19 DEF CommitSwaps, Committing, Write, At
  <2>3. store'[e].version = att[i].base + 1 /\ store'[e].content = dir[w].content
    BY <1>c, <2>2
  <2>4. /\ dir[w].content # <<>> /\ Last(dir[w].content) = i
        /\ dir[w].content \in Seq(Runs)
    BY <1>a, <1>c, <2>2 DEF Inv, LastOwn, Directory
  <2>5. Len(dir[w].content) \in 1 .. Len(dir[w].content)
    BY <2>4, EmptySeq, LenProperties
  <2>6. \E n \in 1 .. Len(store'[e].content) : store'[e].content[n] = i
    BY <2>3, <2>4, <2>5 DEF Last
  <2>7. store'[e].version > att'[i].base
    BY <1>b, <2>1, <2>3 DEF Rest
  <2> QED
    BY <2>1, <2>6, <2>7 DEF Kept, CommitKept, Based, Wrote
<1>20. ASSUME CommitAnswerLost(i) PROVE Kept(i, w, e)'
  <2>1. att'[i].pc = "commit" /\ Rest(i)
    BY <1>20, <1>a, WriteStep DEF Marks, CommitAnswerLost, Committing
  <2>2. /\ store' = [store EXCEPT ![e] = [version |-> att[i].base + 1, content |-> dir[w].content]]
        /\ att[i].pc \in {"ran", "replayed", "commit"}
    BY <1>20 DEF CommitAnswerLost, Committing, Write, At
  <2>3. store'[e].version = att[i].base + 1 /\ store'[e].content = dir[w].content
    BY <1>c, <2>2
  <2>4. /\ dir[w].content # <<>> /\ Last(dir[w].content) = i
        /\ dir[w].content \in Seq(Runs)
    BY <1>a, <1>c, <2>2 DEF Inv, LastOwn, Directory
  <2>5. Len(dir[w].content) \in 1 .. Len(dir[w].content)
    BY <2>4, EmptySeq, LenProperties
  <2>6. Bears(store[e], att[i].key)'
    BY <1>b, <1>h, <2>3, <2>4 DEF Bears, KeyOf, Last
  <2>7. store'[e].version > att'[i].base /\ store'[e].version = att'[i].base + 1
    BY <1>b, <2>1, <2>3 DEF Rest
  <2> QED
    BY <2>1, <2>6, <2>7 DEF Kept, CommitKept, Based, Wrote
<1>21. ASSUME CommitFindsOwn(i) PROVE Kept(i, w, e)'
  <2>1. att'[i].pc = "adopt" /\ Rest(i)
    BY <1>21, <1>a, GotoStep DEF CommitFindsOwn, Committing, At, Ran, Pcs
  <2>2. c.version = att[i].base + 1 /\ Bears(c, att[i].key) /\ UNCHANGED store
    BY <1>21 DEF CommitFindsOwn, AlreadyCommitted
  <2>3. Last(c.content) \in Attempts
    BY <1>f, <2>2
  <2>4. Bears(store[e], att[i].key)'
    BY <1>h, <1>i, <2>2, <2>3 DEF Bears, KeyOf, Last
  <2>5. store'[e].version > att'[i].base /\ store'[e].version = att'[i].base + 1
    BY <1>b, <2>1, <2>2 DEF Rest
  <2> QED
    BY <2>1, <2>4, <2>5 DEF Kept, CommitKept, Based, Wrote
<1>22. ASSUME CommitConflicts(i) PROVE Kept(i, w, e)'
  <2>1. /\ att'[i].pc \in {"done", "dead"}
        /\ att'[i].pc = "done" => att'[i].passed = att[i].passed /\ att'[i].how = "superseded"
    BY <1>22, <1>a, <1>b, <1>e, ReturnStep DEF CommitConflicts, Hows
  <2>2. /\ att[i].pc \in {"ran", "replayed", "commit"} /\ ~Matches(i) /\ ~AlreadyCommitted(i)
    BY <1>22 DEF CommitConflicts, Committing, At
  <2>3. att[i].passed
    <3>1. CASE att[i].pc = "commit"
      BY <1>g, <2>2, <3>1 DEF Kept, CommitKept, AlreadyCommitted
    <3>2. CASE att[i].pc \in {"ran", "replayed"}
      BY <1>g, <2>2, <3>2 DEF Kept, BaseKept, Based, Wrote, Matches
    <3> QED
      BY <2>2, <3>1, <3>2
  <2> QED
    BY <2>1, <2>3 DEF Kept, CommitKept, Based, Wrote
<1>23. ASSUME WriteMarker(i) PROVE Kept(i, w, e)'
  <2>1. att'[i].pc = "clear" /\ Rest(i)
    BY <1>23, <1>a, GotoStep DEF WriteMarker, At, Ran, Pcs
  <2>2. att[i].pc = "marker" /\ UNCHANGED store
    BY <1>23 DEF WriteMarker, At
  <2>3. /\ c.version > att[i].base
        /\ \E n \in 1 .. Len(c.content) : c.content[n] = i
    BY <1>g, <2>2 DEF Kept, CommitKept, Wrote
  <2> QED
    BY <2>1, <2>2, <2>3 DEF Kept, CommitKept, Based, Wrote, Rest
<1>24. ASSUME ClearSentinel(i) PROVE Kept(i, w, e)'
  <2>1. /\ att'[i].pc \in {"done", "dead"}
        /\ att'[i].pc = "done" => att'[i].body = i /\ att'[i].how = "committed"
    BY <1>24, <1>a, <1>e, ReturnStep DEF ClearSentinel, Hows
  <2>2. att[i].pc = "clear" /\ UNCHANGED store
    BY <1>24 DEF ClearSentinel, At
  <2>3. PICK n \in 1 .. Len(c.content) : c.content[n] = i
    BY <1>g, <2>2 DEF Kept, CommitKept
  <2> QED
    BY <2>1, <2>2, <2>3 DEF Kept, CommitKept, Based, Wrote, KeyOf
<1>25. ASSUME AdoptWinner(i) PROVE Kept(i, w, e)'
  <2>1. Exists(c) /\ UNCHANGED store
    BY <1>25 DEF AdoptWinner
  <2>2. CASE Bears(c, att[i].key)
    <3>1. Return(i, "stored", Last(c.content), att[i].base + 1)
      BY <1>25, <2>2 DEF AdoptWinner
    <3>2. /\ att'[i].pc \in {"done", "dead"}
          /\ att'[i].pc = "done" => att'[i].how = "stored" /\ att'[i].body = Last(c.content)
      <4>1. Last(c.content) \in 0 .. MaxAttempts /\ "stored" \in Hows
        BY <1>f, <2>2 DEF Hows
      <4> QED
        BY <1>a, <1>e, <3>1, <4>1, ReturnStep
    <3> QED
      BY <1>j, <1>l, <2>1, <2>2, <3>2
  <2>3. CASE ~Bears(c, att[i].key)
    <3>1. Return(i, "overtaken", i, att[i].base + 1) /\ "overtaken" \in Hows
      BY <1>25, <2>3 DEF AdoptWinner, Hows
    <3>2. att'[i].pc \in {"done", "dead"} /\ (att'[i].pc = "done" => att'[i].how = "overtaken")
      BY <1>a, <1>e, <3>1, ReturnStep
    <3> QED
      BY <1>j, <3>2
  <2> QED
    BY <2>2, <2>3
<1>26. ASSUME AdoptNothing(i) PROVE Kept(i, w, e)'
  <2>1. att[i].pc = "adopt" /\ ~Exists(c)
    BY <1>26 DEF AdoptNothing, At
  <2>2. c.version > att[i].base
    BY <1>g, <2>1 DEF Kept, CommitKept, Wrote
  <2> QED
    BY <1>b, <1>d, <2>1, <2>2
<1>27. ASSUME AttemptThrows(i) PROVE Kept(i, w, e)'
  <2>1. PICK how \in {"failed", "error", "stopped"}, body \in 0 .. MaxAttempts, v \in Nat :
          Return(i, how, body, v)
    BY <1>27, <1>b, <1>e DEF AttemptThrows, Throw
  <2>2. how \in Hows
    BY DEF Hows
  <2>3. att'[i].pc \in {"done", "dead"} /\ (att'[i].pc = "done" => att'[i].how = how)
    BY <1>a, <2>1, <2>2, ReturnStep
  <2> QED
    BY <1>j, <2>3
<1> QED
  BY <1>1, <1>2, <1>3, <1>4, <1>5, <1>6, <1>7, <1>8, <1>9, <1>10, <1>11, <1>12, <1>13, <1>14,
     <1>15, <1>16, <1>17, <1>18, <1>19, <1>20, <1>21, <1>22, <1>23, <1>24, <1>25, <1>26, <1>27
  DEF Works, Preamble, getOrCreate, runTurnCommit

(* A step of an attempt answers with an attempt if it answers for a commit. *)
LEMMA WorksNamed ==
  ASSUME Inv, NEW i \in 1 .. MaxAttempts, Works(i), NEW w \in Workers, w = att[i].worker,
         NEW e \in Epochs, e = att[i].epoch
  PROVE  Named'
<1> DEFINE c == store[e]
           Fine == att'[i].pc = "done" /\ att'[i].how \in {"committed", "stored"} =>
                     att'[i].body \in Attempts
<1>a. AttTypes /\ i \in Attempts
  BY AttemptSteps DEF AttStep, Inv, TypeOK, AttTypes
<1>b. att[i] \in Attempt /\ att[i].base \in Nat
  BY <1>a, AttemptType DEF Attempt
<1>d. /\ Exists(c) => c.version \in Nat
      /\ \A key : Bears(c, key) => Last(c.content) \in 0 .. MaxAttempts
           /\ Last(c.content) \in Attempts
  BY ChainFacts
<1>e. /\ 0 \in Nat /\ 0 \in 0 .. MaxAttempts /\ i \in 0 .. MaxAttempts
      /\ att[i].base + 1 \in Nat
      /\ dir[w].marker.version \in Nat
  <2>1. dir[w] \in Directory
    BY DEF Inv, TypeOK
  <2>2. dir[w].marker.version \in Nat
    BY <2>1 DEF Directory, MarkerFile
  <2> QED
    BY <1>b, <2>2, SnapshotConstants
<1>1. ASSUME FindCommitted(i) PROVE Fine
  <2>1. att'[i].pc \in {"recover"}
    BY <1>1, <1>a, <1>b, GotoStep DEF FindCommitted, Acquire, At, Ran, Pcs
  <2> QED
    BY <2>1
<1>2. ASSUME UseLocal(i) PROVE Fine
  <2>1. att'[i].pc \in {"create"}
    BY <1>2, <1>a, <1>b, <1>d, <1>e, RebaseStep DEF UseLocal, Acquire, At, Ran
  <2> QED
    BY <2>1
<1>3. ASSUME StartFresh(i) PROVE Fine
  <2>1. att'[i].pc \in {"create"}
    BY <1>3, <1>a, <1>b, <1>e, BaseStep DEF StartFresh, Acquire, At, Ran
  <2> QED
    BY <2>1
<1>4. ASSUME UseStore(i) PROVE Fine
  <2>1. att'[i].pc \in {"resolve"}
    BY <1>4, <1>a, <1>b, GotoStep DEF UseStore, Acquire, At, Ran, Pcs
  <2> QED
    BY <2>1
<1>5. ASSUME resolveFromStore(i) PROVE Fine
  <2>1. att'[i].pc \in {"create"}
    BY <1>5, <1>a, <1>b, <1>d, <1>e, RebaseStep DEF resolveFromStore, At, Ran
  <2> QED
    BY <2>1
<1>6. ASSUME recoverAlreadyCommitted(i) PROVE Fine
  <2>1. CASE ~Bears(c, att[i].key)
    <3>1. att'[i].pc = "create"
      BY <1>6, <1>a, <1>d, <2>1, RebaseStep DEF recoverAlreadyCommitted, At, Ran
    <3> QED
      BY <3>1
  <2>2. CASE Bears(c, att[i].key)
    <3>1. Return(i, "stored", Last(c.content), c.version) /\ "stored" \in Hows /\ c.version \in Nat
      BY <1>6, <1>d, <2>2 DEF recoverAlreadyCommitted, Hows
    <3> QED
      BY <1>a, <1>d, <2>2, <3>1, ReturnStep
  <2> QED
    BY <2>1, <2>2
<1>7. ASSUME NothingToHydrate(i) PROVE Fine
  <2>1. PICK how \in {"failed", "error", "stopped", "superseded"}, body \in 0 .. MaxAttempts,
          v \in Nat :
          Return(i, how, body, v)
    BY <1>7, <1>b, <1>e DEF NothingToHydrate, Throw
  <2>2. how \in Hows
    BY DEF Hows
  <2>3. att'[i].pc = "done" => att'[i].how = how
    BY <1>a, <2>1, <2>2, ReturnStep
  <2> QED
    BY <2>3
<1>8. ASSUME CreateFirst(i) PROVE Fine
  <2>1. att'[i].pc \in {"body"}
    BY <1>8, <1>a, <1>b, GotoStep DEF CreateFirst, CreateNew, At, Ran, Pcs
  <2> QED
    BY <2>1
<1>9. ASSUME CreateEpoch(i) PROVE Fine
  <2>1. att'[i].pc \in {"body"}
    BY <1>9, <1>a, <1>b, GotoStep DEF CreateEpoch, CreateNew, At, Ran, Pcs
  <2> QED
    BY <2>1
<1>10. ASSUME Resume(i) PROVE Fine
  <2>1. att'[i].pc \in {"body"}
    BY <1>10, <1>a, <1>b, GotoStep DEF Resume, Resuming, At, Ran, Pcs
  <2> QED
    BY <2>1
<1>11. ASSUME ResumeStored(i) PROVE Fine
  <2>1. CASE e = 0
    <3>1. att'[i].pc = "body"
      BY <1>11, <1>a, <2>1, GotoStep DEF ResumeStored, Resuming, Throw, At, Ran, Pcs
    <3> QED
      BY <3>1
  <2>2. CASE e # 0
    <3>1. Return(i, "failed", 0, 0) /\ "failed" \in Hows
      BY <1>11, <2>2 DEF ResumeStored, Throw, Hows
    <3> QED
      BY <1>a, <1>e, <3>1, ReturnStep
  <2> QED
    BY <2>1, <2>2
<1>12. ASSUME ResumeLost(i) PROVE Fine
  <2>1. att'[i].pc \in {"lost"}
    BY <1>12, <1>a, <1>b, GotoStep DEF ResumeLost, Resuming, At, Ran, Pcs
  <2> QED
    BY <2>1
<1>13. ASSUME attemptStoreRecovery(i) PROVE Fine
  <2>1. att'[i].pc \in {"body"}
    BY <1>13, <1>a, <1>b, <1>d, <1>e, RebaseStep DEF attemptStoreRecovery, At, Ran
  <2> QED
    BY <2>1
<1>14. ASSUME LossyReplay(i) PROVE Fine
  <2>1. att'[i].pc \in {"body"}
    BY <1>14, <1>a, <1>b, GotoStep DEF LossyReplay, CreateNew, At, Ran, Pcs
  <2> QED
    BY <2>1
<1>15. ASSUME CreationFails(i) PROVE Fine
  <2>1. PICK how \in {"failed", "error", "stopped", "superseded"}, body \in 0 .. MaxAttempts,
          v \in Nat :
          Return(i, how, body, v)
    BY <1>15, <1>b, <1>e DEF CreationFails
  <2>2. how \in Hows
    BY DEF Hows
  <2>3. att'[i].pc = "done" => att'[i].how = how
    BY <1>a, <2>1, <2>2, ReturnStep
  <2> QED
    BY <2>3
<1>16. ASSUME RunBody(i) PROVE Fine
  <2>1. att'[i].pc \in {"ran"}
    BY <1>16, <1>a, <1>b, GotoStep DEF RunBody, At, Ran, Pcs
  <2> QED
    BY <2>1
<1>17. ASSUME ReplayBody(i) PROVE Fine
  <2>1. att'[i].pc \in {"replayed"}
    BY <1>17, <1>a, <1>b, GotoStep DEF ReplayBody, At, Ran, Pcs
  <2> QED
    BY <2>1
<1>18. ASSUME DiscardStopped(i) PROVE Fine
  <2>1. PICK how \in {"failed", "error", "stopped", "superseded"}, body \in 0 .. MaxAttempts,
          v \in Nat :
          Return(i, how, body, v)
    BY <1>18, <1>b, <1>e DEF DiscardStopped
  <2>2. how \in Hows
    BY DEF Hows
  <2>3. att'[i].pc = "done" => att'[i].how = how
    BY <1>a, <2>1, <2>2, ReturnStep
  <2> QED
    BY <2>3
<1>19. ASSUME CommitSwaps(i) PROVE Fine
  <2>1. att'[i].pc \in {"marker"}
    BY <1>19, <1>a, <1>b, WriteStep DEF Marks, CommitSwaps, Committing
  <2> QED
    BY <2>1
<1>20. ASSUME CommitAnswerLost(i) PROVE Fine
  <2>1. att'[i].pc \in {"commit"}
    BY <1>20, <1>a, <1>b, WriteStep DEF Marks, CommitAnswerLost, Committing
  <2> QED
    BY <2>1
<1>21. ASSUME CommitFindsOwn(i) PROVE Fine
  <2>1. att'[i].pc \in {"adopt"}
    BY <1>21, <1>a, <1>b, GotoStep DEF CommitFindsOwn, Committing, At, Ran, Pcs
  <2> QED
    BY <2>1
<1>22. ASSUME CommitConflicts(i) PROVE Fine
  <2>1. PICK how \in {"failed", "error", "stopped", "superseded"}, body \in 0 .. MaxAttempts,
          v \in Nat :
          Return(i, how, body, v)
    BY <1>22, <1>b, <1>e DEF CommitConflicts
  <2>2. how \in Hows
    BY DEF Hows
  <2>3. att'[i].pc = "done" => att'[i].how = how
    BY <1>a, <2>1, <2>2, ReturnStep
  <2> QED
    BY <2>3
<1>23. ASSUME WriteMarker(i) PROVE Fine
  <2>1. att'[i].pc \in {"clear"}
    BY <1>23, <1>a, <1>b, GotoStep DEF WriteMarker, At, Ran, Pcs
  <2> QED
    BY <2>1
<1>24. ASSUME ClearSentinel(i) PROVE Fine
  <2>1. Return(i, "committed", i, att[i].base + 1) /\ "committed" \in Hows
    BY <1>24 DEF ClearSentinel, Hows
  <2> QED
    BY <1>a, <1>e, <2>1, ReturnStep
<1>25. ASSUME AdoptWinner(i) PROVE Fine
  <2>1. CASE Bears(c, att[i].key)
    <3>1. Return(i, "stored", Last(c.content), att[i].base + 1) /\ "stored" \in Hows
      BY <1>25, <2>1 DEF AdoptWinner, Hows
    <3> QED
      BY <1>a, <1>d, <1>e, <2>1, <3>1, ReturnStep
  <2>2. CASE ~Bears(c, att[i].key)
    <3>1. Return(i, "overtaken", i, att[i].base + 1) /\ "overtaken" \in Hows
      BY <1>25, <2>2 DEF AdoptWinner, Hows
    <3> QED
      BY <1>a, <1>e, <3>1, ReturnStep
  <2> QED
    BY <2>1, <2>2
<1>26. ASSUME AdoptNothing(i) PROVE Fine
  <2>1. att'[i].pc \in {"commit"}
    BY <1>26, <1>a, <1>b, GotoStep DEF AdoptNothing, At, Ran, Pcs
  <2> QED
    BY <2>1
<1>27. ASSUME AttemptThrows(i) PROVE Fine
  <2>1. PICK how \in {"failed", "error", "stopped", "superseded"}, body \in 0 .. MaxAttempts,
          v \in Nat :
          Return(i, how, body, v)
    BY <1>27, <1>b, <1>e DEF AttemptThrows, Throw
  <2>2. how \in Hows
    BY DEF Hows
  <2>3. att'[i].pc = "done" => att'[i].how = how
    BY <1>a, <2>1, <2>2, ReturnStep
  <2> QED
    BY <2>3
<1>28. Fine
  BY <1>1, <1>2, <1>3, <1>4, <1>5, <1>6, <1>7, <1>8, <1>9, <1>10, <1>11, <1>12, <1>13, <1>14,
     <1>15, <1>16, <1>17, <1>18, <1>19, <1>20, <1>21, <1>22, <1>23, <1>24, <1>25, <1>26, <1>27
  DEF Works, Preamble, getOrCreate, runTurnCommit
<1>29. Attempts' = Attempts
  BY AttemptSteps DEF AttStep, Attempts
<1>30. ASSUME NEW j \in Attempts', j # i
       PROVE  att'[j].pc = att[j].pc /\ att'[j].how = att[j].how /\ att'[j].body = att[j].body
  BY <1>30, Others
<1> QED
  BY <1>28, <1>29, <1>30 DEF Named, Inv

(* What is kept of an attempt stays so while the attempt rests, its files   *)
(* are left alone and its chain does not move.                              *)
LEMMA KeptStays ==
  ASSUME Inv, AttsKept, NEW j \in Attempts, NEW v \in Workers, NEW f \in Epochs, Kept(j, v, f),
         att'[j] = att[j], store'[f] = store[f], Active(j) => dir'[v] = dir[v]
  PROVE  Kept(j, v, f)'
<1>1. \A b \in Attempts : att'[b].key = att[b].key
  BY DEF AttsKept, Keeps
<1>2. \A key : Bears(store[f], key) => Last(store[f].content) \in Attempts
  BY ChainFacts
<1>3. \A key : Bears(store[f], key) => Bears(store[f], key)'
  BY <1>1, <1>2 DEF Bears, KeyOf, Last
<1>4. \A n \in 1 .. Len(store[f].content) : store[f].content[n] \in Attempts
  BY DEF Inv, Contents, Proper
<1>5. ASSUME Based(j)', ~Wrote(j)' PROVE BaseKept(j, v, f)'
  <2>1. Based(j) /\ ~Wrote(j) /\ Active(j)
    BY <1>5 DEF Based, Wrote, Active
  <2>2. BaseKept(j, v, f) /\ dir'[v] = dir[v]
    BY <2>1 DEF Kept
  <2> QED
    BY <2>2 DEF BaseKept, Exists
<1>6. CommitKept(j, f)'
  <2>1. CommitKept(j, f)
    BY DEF Kept
  <2>2. Wrote(j)' => store'[f].version > att'[j].base
    BY <2>1 DEF CommitKept, Wrote
  <2>3. att'[j].pc \in {"commit", "adopt"} /\ ~att'[j].passed =>
          store'[f].version = att'[j].base + 1 /\ Bears(store[f], att[j].key)'
    BY <1>3, <2>1 DEF CommitKept
  <2>4. att'[j].pc \in {"marker", "clear"} =>
          \E n \in 1 .. Len(store'[f].content) : store'[f].content[n] = j
    BY <2>1 DEF CommitKept
  <2>5. att'[j].pc = "done" /\ att'[j].how \in {"committed", "stored"} =>
          \E n \in 1 .. Len(store'[f].content) :
            store'[f].content[n] = att'[j].body /\ att'[store'[f].content[n]].key = att'[j].key
    BY <1>1, <1>4, <2>1 DEF CommitKept, KeyOf
  <2>6. att'[j].pc = "done" /\ att'[j].how = "superseded" => att'[j].passed
    BY <2>1 DEF CommitKept
  <2> QED
    BY <2>2, <2>3, <2>4, <2>5, <2>6 DEF CommitKept, KeyOf
<1> QED
  BY <1>5, <1>6 DEF Kept

(* A commit overtakes every other attempt that is at work on the epoch, and *)
(* keeps what those before it have committed.                               *)
LEMMA OvertakenKept ==
  ASSUME Inv, AttsKept, NEW i \in Attempts, NEW w \in Workers, w = att[i].worker,
         NEW e \in Epochs, e = att[i].epoch, e \notin bypassed, Written(i, w, e),
         NEW j \in Attempts, j # i, att[j].epoch = e, NEW v \in Workers, v = att[j].worker
  PROVE  Kept(j, v, e)'
<1> DEFINE c == store[e]
<1>1. att[i].base \in Nat /\ att[j].base \in Nat /\ att[j].passed \in BOOLEAN /\ att[j] \in Attempt
  BY AttemptType DEF Inv, TypeOK, AttTypes, Attempt
<1>2. Kept(j, v, e)
  BY DEF Inv, AllKept
<1>3. c.version \in Int /\ c.content \in Seq(Runs)
  BY ChainFacts DEF Chain
<1>4. store'[e].version = att[i].base + 1 /\ store'[e].content = dir[w].content
  BY DEF Written, Inv, TypeOK
<1>5. c.version < 0 \/ c.version = att[i].base
  BY <1>3 DEF Written, Matches, Exists
<1>6. c.content # <<>> => dir[w].content = Append(c.content, i)
  BY SwapGrows
<1>7. c.content # <<>> => \A n \in 1 .. Len(c.content) :
        n \in 1 .. Len(store'[e].content) /\ store'[e].content[n] = c.content[n]
  <2>1. i \in Runs /\ Len(c.content) \in Nat
    BY <1>3, LenProperties, SnapshotConstants DEF Runs, Attempts, Inv, TypeOK
  <2> QED
    BY <1>3, <1>4, <1>6, <2>1, AppendProperties
<1>8. \A b \in Attempts : att'[b].key = att[b].key
  BY DEF AttsKept, Keeps
<1>9. CASE Active(j)
  <2>1. att'[j] = [att[j] EXCEPT !.passed = TRUE]
    BY <1>9, WriteStep DEF Written, Inv, TypeOK, AttTypes
  <2>2. att'[j].passed /\ att'[j].base = att[j].base /\ att'[j].pc = att[j].pc
    BY <1>1, <2>1 DEF Attempt
  <2>3. ASSUME Based(j), ~Wrote(j) PROVE att[j].base < att[i].base + 1
    <3>1. BaseKept(j, v, e)
      BY <1>2, <2>3 DEF Kept
    <3> QED
      BY <1>1, <1>3, <1>5, <3>1 DEF BaseKept, Exists
  <2>4. Wrote(j) => att[i].base + 1 > att[j].base
    BY <1>1, <1>2, <1>3, <1>5 DEF Kept, CommitKept
  <2>5. att[j].pc \in {"marker", "clear"} =>
          \E n \in 1 .. Len(store'[e].content) : store'[e].content[n] = j
    BY <1>2, <1>3, <1>7 DEF Kept, CommitKept
  <2> QED
    BY <1>4, <1>9, <2>2, <2>3, <2>4, <2>5 DEF Kept, BaseKept, CommitKept, Based, Wrote, Active
<1>10. CASE ~Active(j)
  <2>1. att'[j] = att[j]
    BY <1>10, WriteStep DEF Written, Inv, TypeOK, AttTypes
  <2>2. att[j].pc = "done" /\ att[j].how \in {"committed", "stored"} =>
          \E n \in 1 .. Len(c.content) : c.content[n] = att[j].body
            /\ KeyOf(c.content[n]) = att[j].key
    BY <1>2 DEF Kept, CommitKept
  <2>3. \A n \in 1 .. Len(c.content) : c.content[n] \in Attempts
    BY DEF Inv, Contents, Proper
  <2>4. att[j].pc = "done" /\ att[j].how \in {"committed", "stored"} =>
          \E n \in 1 .. Len(store'[e].content) :
            store'[e].content[n] = att[j].body /\ att'[store'[e].content[n]].key = att'[j].key
    BY <1>3, <1>7, <1>8, <2>2, <2>3 DEF KeyOf
  <2>5. att[j].pc = "done" /\ att[j].how = "superseded" => att[j].passed
    BY <1>2 DEF Kept, CommitKept
  <2> QED
    BY <1>10, <2>1, <2>4, <2>5 DEF Kept, CommitKept, Based, Wrote, Active, KeyOf
<1> QED
  BY <1>9, <1>10

(* A step of an attempt keeps the bases and the commits of all attempts     *)
(* right.                                                                   *)
LEMMA WorksKept ==
  ASSUME Inv, NEW i \in 1 .. MaxAttempts, Works(i), NEW w \in Workers, w = att[i].worker,
         NEW e \in Epochs, e = att[i].epoch
  PROVE  AllKept'
<1>1. AttTypes /\ i \in Attempts /\ AttsKept /\ AttStep(i) /\ Attempts' = Attempts
  BY AttemptSteps, StepKeeps DEF AttStep, Inv, TypeOK, AttTypes, Attempts
<1>2. SUFFICES ASSUME NEW j \in Attempts', att'[j].epoch \notin bypassed'
               PROVE  Kept(j, att[j].worker, att[j].epoch)'
  BY DEF AllKept
<1>3. PICK v \in Workers, f \in Epochs : v = att[j].worker /\ f = att[j].epoch
  BY <1>1, AttemptType DEF Attempt
<1>4. v = att'[j].worker /\ f = att'[j].epoch
  BY <1>1, <1>3 DEF AttsKept, Keeps
<1>5. f \notin bypassed' /\ f \notin bypassed /\ Kept(j, v, f)
  BY <1>1, <1>2, <1>3, <1>4, WorksChains DEF Inv, AllKept
<1>6. Kept(j, v, f)'
  <2>1. CASE j = i
    BY <1>3, <1>5, <2>1, SelfKept
  <2>2. CASE j # i /\ ~Marks(i)
    <3>1. att'[j] = att[j]
      BY <1>1, <2>2 DEF AttStep, Aside
    <3>2. Active(j) => dir'[v] = dir[v]
      BY <1>3, <2>2, Others, OtherFiles
    <3>3. store'[f] = store[f]
      BY <1>5, <2>2, StoreShapes DEF Dropped, Written
    <3> QED
      BY <1>1, <1>5, <3>1, <3>2, <3>3, KeptStays
  <2>3. CASE j # i /\ Marks(i)
    <3>1. Written(i, w, e)
      BY <2>3 DEF Marks, CommitSwaps, CommitAnswerLost, Committing, At, Write, Written, workerVars
    <3>2. CASE f = e
      BY <1>1, <1>3, <1>5, <2>3, <3>1, <3>2, OvertakenKept
    <3>3. CASE f # e
      <4>1. store'[f] = store[f] /\ dir' = dir
        BY <3>1, <3>3 DEF Written, Inv, TypeOK
      <4>2. att'[j] = att[j]
        BY <1>1, <1>3, <2>3, <3>1, <3>3, WriteStep DEF Written
      <4> QED
        BY <1>1, <1>5, <4>1, <4>2, KeptStays
    <3> QED
      BY <3>2, <3>3
  <2> QED
    BY <2>1, <2>2, <2>3
<1> QED
  BY <1>4, <1>6 DEF Kept, BaseKept, CommitKept, Based, Wrote, Bears, KeyOf, Exists, Last

(* Every step of an attempt keeps the invariant.                            *)
LEMMA WorksInv ==
  ASSUME Inv, NEW i \in 1 .. MaxAttempts, Works(i)
  PROVE  Inv'
<1>1. PICK w \in Workers, e \in Epochs : w = att[i].worker /\ e = att[i].epoch
  BY LockSteps, AttemptType DEF Attempt, AttTypes, Inv, TypeOK
<1> QED
  BY <1>1, WorksTypes, WorksAlone, WorksFiles, WorksContents, WorksEpoched, WorksChains,
     WorksMarkers, WorksKept, WorksOrdered, WorksNamed
  DEF Inv

-----------------------------------------------------------------------------
(* The steps of the orchestration and of a worker's own process: an attempt *)
(* rests, dies, is marked as overtaken in an epoch that is bypassed, or is  *)
(* new and waits.                                                           *)
Resting(j) ==
  \/ att'[j] = att[j]
  \/ att'[j] = Dead(att[j])
  \/ att[j].epoch \in bypassed' /\ att'[j] = [att[j] EXCEPT !.passed = TRUE]

(* All attempts rest in this sense.                                         *)
AttRest ==
  /\ AttTypes'
  /\ Len(att) <= Len(att')
  /\ \A j \in Attempts : Resting(j)
  /\ \A j \in Attempts' \ Attempts : att'[j].pc = "waiting"

(* No attempt is at work on w after the step.                               *)
Vacated(w) == \A j \in Attempts' : att'[j].worker = w => ~Active(j)'

(* Such a step changes the files and the session of one worker w at most,   *)
(* where no attempt is at work then, and no chain but that of epoch 0,      *)
(* which it bypasses.                                                       *)
Calm(w) ==
  /\ AttRest
  /\ dir' \in [Workers -> Directory] /\ memory' \in [Workers -> Session]
  /\ \A v \in Workers \ {w} : dir'[v] = dir[v] /\ memory'[v] = memory[v]
  /\ \/ dir'[w] = dir[w] /\ memory'[w] = memory[w]
     \/ /\ \/ dir'[w] \in {dir[w], NoDir}
           \/ \E f \in Epochs : dir'[w] = Clean(store[f].content, NoMarker)
        /\ memory'[w] = Cold
        /\ Vacated(w)
  /\ \A v \in evicting' \ evicting : v = w /\ memory'[w] = Cold /\ Vacated(w)
  /\ evicting' \subseteq Workers
  /\ store' \in [Epochs -> Chain] /\ bypassed \subseteq bypassed' /\ bypassed' \subseteq Epochs
  /\ \A f \in Epochs : \/ store'[f] = store[f]
                        \/ /\ f = 0 /\ f \in bypassed'
                           /\ store'[f] = [version |-> 0, content |-> dir[w].content]

(* Resting keeps the deliveries and sets nobody to work.                    *)
LEMMA RestKeeps ==
  ASSUME Inv, AttRest
  PROVE  /\ AttsKept /\ Attempts \subseteq Attempts'
         /\ \A j \in Attempts' : Active(j)' => j \in Attempts /\ Active(j)
<1>1. AttTypes /\ Len(att) \in Nat /\ Len(att') \in Nat
  BY LenProperties DEF AttRest, AttTypes, Inv, TypeOK
<1>2. ASSUME NEW j \in Attempts PROVE Keeps(j) /\ (Active(j)' => Active(j))
  <2>1. att[j] \in Attempt
    BY <1>1, AttemptType
  <2>2. CASE att'[j] = att[j]
    BY <2>2 DEF Keeps, Ran, Active
  <2>3. CASE att'[j] = [att[j] EXCEPT !.passed = TRUE]
    BY <2>1, <2>3 DEF Keeps, Ran, Active, Attempt
  <2>4. CASE att'[j] = Dead(att[j])
    BY <2>1, <2>4 DEF Keeps, Ran, Active, Attempt, Dead
  <2> QED
    BY <2>2, <2>3, <2>4 DEF AttRest, Resting
<1>3. Attempts \subseteq Attempts'
  BY <1>1 DEF AttRest, Attempts
<1>4. ASSUME NEW j \in Attempts', Active(j)' PROVE j \in Attempts
  BY <1>4 DEF AttRest, Active
<1> QED
  BY <1>2, <1>3, <1>4 DEF AttRest, AttsKept

(* Calm steps keep the memories proper, ...                                 *)
LEMMA CalmContents ==
  ASSUME Inv, NEW w \in Workers, Calm(w)
  PROVE  Contents'
<1>1. AttTypes /\ AttsKept
  BY RestKeeps DEF Calm, Inv, TypeOK, AttTypes
<1>2. ASSUME NEW s, Proper(s) PROVE Proper(s)'
  BY <1>1, <1>2, ContentKept
<1>3. Proper(<<>>)'
  BY DEF Proper
<1>4. ASSUME NEW v \in Workers PROVE Proper(dir[v].content)'
  <2>1. PICK n : n = dir'[v].content
    OBVIOUS
  <2>2. n = <<>> \/ n = dir[v].content \/ \E f \in Epochs : n = store[f].content
    BY <2>1 DEF Calm, NoDir, Clean
  <2>3. Proper(n)'
    BY <1>2, <1>3, <2>2 DEF Inv, Contents
  <2> QED
    BY <2>1, <2>3 DEF Proper, Ran
<1>5. ASSUME NEW f \in Epochs PROVE Proper(store[f].content)'
  <2>1. PICK n : n = store'[f].content
    OBVIOUS
  <2>2. n = store[f].content \/ n = dir[w].content
    BY <2>1 DEF Calm
  <2>3. Proper(n)'
    BY <1>2, <2>2 DEF Inv, Contents
  <2> QED
    BY <2>1, <2>3 DEF Proper, Ran
<1> QED
  BY <1>4, <1>5 DEF Contents

(* ... in their epoch, ...                                                  *)
LEMMA CalmEpoched ==
  ASSUME Inv, NEW w \in Workers, Calm(w)
  PROVE  Epoched'
<1>1. AttTypes /\ AttsKept
  BY RestKeeps DEF Calm, Inv, TypeOK, AttTypes
<1>2. ASSUME NEW s, Proper(s), NEW f, Pure(s, f) PROVE Pure(s, f)'
  BY <1>1, <1>2, ContentKept
<1>3. ASSUME NEW v \in Workers, (dir[v].marker.epoch # 0)'
      PROVE  Pure(dir[v].content, dir[v].marker.epoch)'
  <2>1. PICK n, m : n = dir'[v].content /\ m = dir'[v].marker.epoch
    OBVIOUS
  <2>2. dir'[v] = dir[v]
    BY <1>3 DEF Calm, NoDir, Clean, NoMarker
  <2>3. Pure(n, m) /\ Proper(n)
    BY <1>3, <2>1, <2>2 DEF Inv, Epoched, Contents
  <2>4. Pure(n, m)'
    BY <1>2, <2>3
  <2> QED
    BY <2>1, <2>4 DEF Pure
<1>4. ASSUME NEW f \in Epochs \ {0} PROVE Pure(store[f].content, f)'
  <2>1. PICK n : n = store'[f].content
    OBVIOUS
  <2>2. n = store[f].content
    BY <2>1 DEF Calm
  <2>3. Pure(n, f)'
    BY <1>2, <2>2 DEF Inv, Epoched, Contents
  <2> QED
    BY <2>1, <2>3 DEF Pure
<1>5. ASSUME NEW j \in Attempts', Based(j)'
      PROVE  /\ (dir[att[j].worker].marker.set => dir[att[j].worker].marker.epoch = att[j].epoch)'
             /\ (att[j].epoch # 0 => Pure(dir[att[j].worker].content, att[j].epoch))'
  <2>1. Active(j)'
    BY <1>5 DEF Based, Active
  <2>2. j \in Attempts /\ Active(j)
    BY <2>1, RestKeeps DEF Calm
  <2>3. PICK v \in Workers, f \in Epochs : v = att[j].worker /\ f = att[j].epoch
    BY <1>1, <2>2, AttemptType DEF Attempt
  <2>4. v = att'[j].worker /\ f = att'[j].epoch
    BY <1>1, <2>2, <2>3 DEF AttsKept, Keeps
  <2>5. dir'[v] = dir[v]
    BY <1>5, <2>1, <2>4 DEF Calm, Vacated
  <2>6. Based(j)
    <3>1. att[j] \in Attempt /\ Resting(j)
      BY <1>1, <2>2, AttemptType DEF Calm, AttRest
    <3> QED
      BY <1>5, <3>1 DEF Resting, Based, Attempt, Dead
  <2>7. PICK n : n = dir[v].content
    OBVIOUS
  <2>8. /\ dir[v].marker.set => dir[v].marker.epoch = f
        /\ f # 0 => Pure(n, f)
        /\ Proper(n)
    BY <2>2, <2>3, <2>6, <2>7 DEF Inv, Epoched, Contents
  <2>9. f # 0 => Pure(n, f)'
    BY <1>2, <2>8
  <2> QED
    BY <2>4, <2>5, <2>7, <2>8, <2>9 DEF Pure
<1> QED
  BY <1>3, <1>4, <1>5 DEF Epoched

(* ... the chains in shape and the markers behind them, ...                 *)
LEMMA CalmChains ==
  ASSUME Inv, NEW w \in Workers, Calm(w)
  PROVE  Chains' /\ Markers'
<1>1. Chains'
  <2>1. ASSUME NEW f \in Epochs
        PROVE  /\ store'[f].version = -1 => store'[f].content = <<>>
               /\ store'[f].version = 0 => f \in bypassed'
               /\ store'[f].version >= 1 => store'[f].content # <<>>
    <3>1. CASE store'[f] = store[f]
      BY <3>1 DEF Calm, Inv, Chains
    <3>2. CASE f \in bypassed' /\ store'[f] = [version |-> 0, content |-> dir[w].content]
      BY <3>2
    <3> QED
      BY <3>1, <3>2 DEF Calm
  <2> QED
    BY <2>1 DEF Chains
<1>2. Markers'
  <2>1. SUFFICES ASSUME NEW v \in Workers, dir'[v].marker.version >= 1,
                        dir'[v].marker.epoch \notin bypassed'
                 PROVE  store'[dir'[v].marker.epoch].version >= dir'[v].marker.version
    BY DEF Markers
  <2>2. dir'[v] = dir[v]
    BY <2>1 DEF Calm, NoDir, Clean, NoMarker
  <2>3. dir[v].marker.epoch \in Epochs
    BY DEF Inv, TypeOK, Directory, MarkerFile
  <2>4. store'[dir[v].marker.epoch] = store[dir[v].marker.epoch] /\ bypassed \subseteq bypassed'
    BY <2>1, <2>2, <2>3 DEF Calm
  <2> QED
    BY <2>1, <2>2, <2>4 DEF Inv, Markers
<1> QED
  BY <1>1, <1>2

(* ... the lock, ...                                                        *)
LEMMA CalmAlone ==
  ASSUME Inv, NEW w \in Workers, Calm(w)
  PROVE  Alone'
<1>1. AttTypes /\ AttsKept
  BY RestKeeps DEF Calm, Inv, TypeOK, AttTypes
<1>2. ASSUME NEW j \in Attempts', Active(j)'
      PROVE  j \in Attempts /\ Active(j) /\ att'[j].worker = att[j].worker
  BY <1>1, <1>2, RestKeeps DEF Calm, AttsKept, Keeps
<1>3. ASSUME NEW j \in Attempts', NEW k \in Attempts', Active(j)', Active(k)',
             att'[j].worker = att'[k].worker
      PROVE  j = k
  BY <1>2, <1>3 DEF Inv, Alone
<1>4. ASSUME NEW v \in evicting'
      PROVE  /\ ~memory'[v].live
             /\ \A j \in Attempts' : att'[j].worker = v => ~Active(j)'
  <2>1. CASE v \in evicting
    <3>1. ~memory[v].live /\ v \in Workers
      BY <2>1 DEF Inv, Alone, Calm
    <3>2. memory'[v] = memory[v] \/ memory'[v] = Cold
      BY <3>1 DEF Calm
    <3> QED
      BY <1>2, <2>1, <3>1, <3>2 DEF Inv, Alone, Cold
  <2>2. CASE v \notin evicting
    BY <1>4, <2>2 DEF Calm, Cold, Vacated
  <2> QED
    BY <2>1, <2>2
<1> QED
  BY <1>3, <1>4 DEF Alone

(* ... the files true, ...                                                  *)
LEMMA CalmFiles ==
  ASSUME Inv, NEW w \in Workers, Calm(w)
  PROVE  /\ Files' /\ LocalIsTrue' /\ LastOwn'
         /\ \A v \in Workers : dir'[v].marker.set => dir'[v].here
<1>1. AttTypes /\ AttsKept
  BY RestKeeps DEF Calm, Inv, TypeOK, AttTypes
<1>2. ASSUME NEW v \in Workers PROVE Sound(v)'
  <2>1. Sound(v) /\ dir'[v] \in Directory /\ memory'[v] \in Session
    BY InvSound DEF Calm
  <2>2. CASE dir'[v] = dir[v] /\ memory'[v] = memory[v]
    BY <2>1, <2>2 DEF Sound
  <2>3. CASE dir'[v] = dir[v] /\ memory'[v] = Cold
    BY <2>1, <2>3 DEF Sound, Cold
  <2>4. CASE dir'[v] = NoDir /\ memory'[v] = Cold
    BY <2>1, <2>4 DEF Sound, NoDir, NoMarker, Cold
  <2>5. CASE \E f \in Epochs : dir'[v] = Clean(store[f].content, NoMarker) /\ memory'[v] = Cold
    BY <2>1, <2>5 DEF Sound, Clean, NoMarker, Cold
  <2> QED
    BY <2>2, <2>3, <2>4, <2>5 DEF Calm
<1>3. ASSUME NEW j \in Attempts' PROVE Hand(j, att[j].worker)'
  <2>1. CASE ~Active(j)'
    BY <2>1 DEF Active, Hand
  <2>2. CASE Active(j)'
    <3>1. j \in Attempts /\ Active(j)
      BY <2>2, RestKeeps DEF Calm
    <3>2. PICK v \in Workers : v = att[j].worker
      BY <1>1, <3>1, AttemptType DEF Attempt
    <3>3. v = att'[j].worker
      BY <1>1, <3>1, <3>2 DEF AttsKept, Keeps
    <3>4. dir'[v] = dir[v] /\ memory'[v] = memory[v]
      BY <1>3, <2>2, <3>3 DEF Calm, Vacated
    <3>5. att'[j].pc = att[j].pc
      <4>1. att[j] \in Attempt /\ Resting(j)
        BY <1>1, <3>1, AttemptType DEF Calm, AttRest
      <4> QED
        BY <2>2, <4>1 DEF Resting, Active, Attempt, Dead
    <3>6. Hand(j, v)
      BY <3>1, <3>2 DEF Hand, Inv, Files, LastOwn
    <3> QED
      BY <3>3, <3>4, <3>5, <3>6 DEF Hand, Last
  <2> QED
    BY <2>1, <2>2
<1> QED
  BY <1>2, <1>3 DEF Files, LocalIsTrue, LastOwn, Sound, Hand

(* ... the bases and the commits right, ...                                 *)
LEMMA CalmKept ==
  ASSUME Inv, NEW w \in Workers, Calm(w)
  PROVE  AllKept'
<1>1. AttTypes /\ AttsKept
  BY RestKeeps DEF Calm, Inv, TypeOK, AttTypes
<1>2. SUFFICES ASSUME NEW j \in Attempts', att'[j].epoch \notin bypassed'
               PROVE  Kept(j, att[j].worker, att[j].epoch)'
  BY DEF AllKept
<1>3. CASE att'[j].pc \in {"waiting", "dead"}
  BY <1>3 DEF Kept, CommitKept, Based, Wrote
<1>4. CASE att'[j].pc \notin {"waiting", "dead"}
  <2>1. j \in Attempts
    BY <1>4 DEF Calm, AttRest
  <2>2. att[j] \in Attempt /\ Resting(j) /\ att'[j].epoch = att[j].epoch
          /\ att'[j].worker = att[j].worker
    BY <1>1, <2>1, AttemptType DEF Calm, AttRest, AttsKept, Keeps
  <2>3. att'[j] = att[j]
    BY <1>2, <1>4, <2>2 DEF Resting, Dead, Attempt
  <2>4. PICK v \in Workers, f \in Epochs : v = att[j].worker /\ f = att[j].epoch
    BY <2>2 DEF Attempt
  <2>5. Kept(j, v, f) /\ store'[f] = store[f]
    BY <1>2, <2>1, <2>2, <2>4 DEF Calm, Inv, AllKept
  <2>6. Active(j) => dir'[v] = dir[v]
    BY <2>3, <2>4, <1>2 DEF Calm, Vacated, Active
  <2>7. Kept(j, v, f)'
    BY <1>1, <2>1, <2>3, <2>5, <2>6, KeptStays
  <2> QED
    BY <2>2, <2>4, <2>7 DEF Kept, BaseKept, CommitKept, Based, Wrote, Bears, KeyOf, Exists, Last
<1> QED
  BY <1>3, <1>4

(* What was told before the step stays in order.                            *)
LEMMA CalmOrdered ==
  ASSUME Inv, NEW w \in Workers, Calm(w),
         NEW f \in Epochs, f \notin bypassed', NEW t, InOrder(t, store[f].content),
         Len(answers) <= Len(answers'), Len(answers) \in Nat, Len(answers') \in Nat
  PROVE  InOrder(t, store[f].content)'
<1>1. AttTypes /\ AttsKept
  BY RestKeeps DEF Calm, Inv, TypeOK, AttTypes
<1>2. store'[f] = store[f] /\ Proper(store[f].content)
  BY DEF Calm, Inv, Contents
<1>3. \A n \in 1 .. Len(store[f].content) :
        /\ att'[store[f].content[n]].key = att[store[f].content[n]].key
        /\ att[store[f].content[n]].key \in Nat
  <2>1. \A b \in Attempts : att'[b].key = att[b].key /\ att[b].key \in Nat
    BY <1>1, AttemptType, SnapshotConstants DEF AttsKept, Keeps, Attempt
  <2> QED
    BY <1>2, <2>1 DEF Proper
<1>4. \E n \in 1 .. Len(store'[f].content) :
        store'[f].content[n] = t.body /\ att'[store'[f].content[n]].key <= Len(answers')
  BY <1>2, <1>3 DEF InOrder, KeyOf
<1>5. \A m, n \in 1 .. Len(store'[f].content) :
        store'[f].content[m] = t.body
        /\ att'[store'[f].content[n]].key > att'[store'[f].content[m]].key => m < n
  BY <1>2, <1>3 DEF InOrder, KeyOf
<1> QED
  BY <1>4, <1>5 DEF InOrder, KeyOf

(* ... and the answers named.                                               *)
LEMMA CalmNamed ==
  ASSUME Inv, NEW w \in Workers, Calm(w)
  PROVE  Named'
<1>1. SUFFICES ASSUME NEW j \in Attempts', att'[j].pc = "done", att'[j].how \in {"committed",
                      "stored"}
               PROVE  att'[j].body \in Attempts'
  BY DEF Named
<1>2. j \in Attempts
  BY <1>1 DEF Calm, AttRest
<1>3. att[j] \in Attempt /\ Resting(j) /\ Attempts \subseteq Attempts'
  BY <1>2, AttemptType, RestKeeps DEF Calm, AttRest, Inv, TypeOK, AttTypes
<1>4. att'[j].pc = att[j].pc /\ att'[j].how = att[j].how /\ att'[j].body = att[j].body
  BY <1>1, <1>3 DEF Resting, Dead, Attempt
<1> QED
  BY <1>1, <1>2, <1>3, <1>4 DEF Inv, Named

(* All attempts there were rest, and there is no new one.                   *)
LEMMA RestStep ==
  ASSUME Inv, att' = [j \in Attempts |-> att'[j]], \A j \in Attempts : Resting(j)
  PROVE  AttRest
<1>1. AttTypes /\ Len(att) \in Nat
  BY LenProperties DEF AttTypes, Inv, TypeOK
<1>2. ASSUME NEW j \in Attempts PROVE att'[j] \in Attempt
  <2>1. att[j] \in Attempt /\ Dead(att[j]) \in Attempt
    BY <1>1, AttemptType, DeadType
  <2>2. [att[j] EXCEPT !.passed = TRUE] \in Attempt
    BY <2>1 DEF Attempt
  <2> QED
    BY <2>1, <2>2 DEF Resting
<1>3. att' \in [1 .. Len(att) -> Attempt]
  BY <1>2 DEF Attempts
<1>4. att' \in Seq(Attempt) /\ Len(att') = Len(att)
  BY <1>1, <1>3
<1> QED
  BY <1>1, <1>4 DEF AttRest, AttTypes, Attempts, Inv, TypeOK

(* Attempts that do not change rest, ...                                    *)
LEMMA StillAtts ==
  ASSUME Inv, att' = att
  PROVE  AttRest
BY DEF AttRest, AttTypes, Resting, Inv, TypeOK, Attempts

(* ... and so do those whose answers are dropped.                           *)
LEMMA DropStep ==
  ASSUME Inv, DropAnswers
  PROVE  AttRest /\ Attempts' = Attempts
<1>1. att' = [j \in Attempts |-> att'[j]]
  BY DEF DropAnswers
<1>2. \A j \in Attempts : Resting(j)
  BY DEF DropAnswers, Resting
<1>3. AttRest
  BY <1>1, <1>2, RestStep
<1>4. /\ Len(att') \in Nat /\ Len(att) \in Nat
      /\ DOMAIN att' = 1 .. Len(att') /\ DOMAIN att' = 1 .. Len(att)
  BY <1>1, <1>3, LenProperties DEF AttRest, AttTypes, Inv, TypeOK, Attempts
<1> QED
  BY <1>3, <1>4 DEF Attempts

(* A step that touches neither the workers nor the store.                   *)
LEMMA StillCalm ==
  ASSUME Inv, NEW w \in Workers, AttRest, UNCHANGED <<dir, memory, evicting, store, bypassed>>
  PROVE  Calm(w)
<1>1. /\ dir \in [Workers -> Directory] /\ memory \in [Workers -> Session]
      /\ store \in [Epochs -> Chain] /\ bypassed \subseteq Epochs /\ evicting \subseteq Workers
  BY DEF Inv, TypeOK
<1> QED
  BY <1>1 DEF Calm

(* The types of the orchestration's state.                                  *)
OrchTypes ==
  /\ asked \in 0 .. MaxTurns
  /\ index \in 0 .. MaxTurns
  /\ epoch \in Epochs
  /\ starting \in BOOLEAN
  /\ answers \in Seq(Answer)
  /\ Len(answers) \in {asked - 1, asked}
  /\ told \in Seq([epoch : Epochs, body : 0 .. MaxAttempts])

(* A calm step keeps the invariant if the orchestration keeps its part.     *)
LEMMA CalmInv ==
  ASSUME Inv, NEW w \in Workers, Calm(w), OrchTypes', Keys', Ordered',
         (touched \subseteq Workers)', (evicting \subseteq touched)', (faults \in 0 .. MaxFaults)'
  PROVE  Inv'
<1>1. TypeOK'
  <2>1. att' \in Seq(Attempt) /\ Len(att') <= MaxAttempts
    BY DEF Calm, AttRest, AttTypes
  <2>2. \A v \in Workers : dir'[v].marker.set => dir'[v].here
    BY CalmFiles
  <2>3. /\ dir' \in [Workers -> Directory] /\ memory' \in [Workers -> Session]
        /\ store' \in [Epochs -> Chain] /\ bypassed' \subseteq Epochs
    BY DEF Calm
  <2> QED
    BY <2>1, <2>2, <2>3 DEF TypeOK, OrchTypes
<1> QED
  BY <1>1, CalmContents, CalmEpoched, CalmChains, CalmAlone, CalmFiles, CalmKept, CalmNamed DEF Inv

(* What was told stays in order if nothing is told.                         *)
LEMMA OrderedStays ==
  ASSUME Inv, NEW w \in Workers, Calm(w), told' = told, Len(answers) <= Len(answers'),
         Len(answers') \in Nat
  PROVE  Ordered'
<1>1. SUFFICES ASSUME NEW k \in 1 .. Len(told), told[k].epoch \notin bypassed'
               PROVE  InOrder(told[k], store[told[k].epoch].content)'
  BY DEF Ordered
<1>2. PICK f \in Epochs, t \in [epoch : Epochs, body : 0 .. MaxAttempts] : f = told[k].epoch /\ t = told[k]
  <2>1. told[k] \in [epoch : Epochs, body : 0 .. MaxAttempts]
    BY ElementOfSeq DEF Inv, TypeOK
  <2> QED
    BY <2>1
<1>3. f \notin bypassed' /\ InOrder(t, store[f].content)
  BY <1>1, <1>2 DEF Calm, Inv, Ordered
<1>4. Len(answers) \in Nat
  BY LenProperties DEF Inv, TypeOK
<1>5. InOrder(t, store[f].content)'
  BY <1>3, <1>4, CalmOrdered
<1> QED
  BY <1>2, <1>5 DEF InOrder, KeyOf

(* What the orchestration holds, and its bounds.                            *)
LEMMA OrchFacts ==
  ASSUME Inv
  PROVE  /\ OrchTypes /\ Len(answers) \in Nat /\ index <= Len(answers) /\ asked \in Nat
         /\ touched \subseteq Workers /\ evicting \subseteq touched /\ faults \in 0 .. MaxFaults
         /\ \A i \in Attempts : att[i].key <= asked /\ att[i].key \in Nat
         /\ Len(answers) <= asked
<1>1. OrchTypes /\ touched \subseteq Workers /\ evicting \subseteq touched
        /\ faults \in 0 .. MaxFaults
  BY DEF Inv, TypeOK, OrchTypes
<1>2. Len(answers) \in Nat /\ asked \in Nat
  BY <1>1, LenProperties, SnapshotConstants DEF OrchTypes
<1>3. \A i \in Attempts : att[i].key <= asked /\ att[i].key \in Nat
  BY AttemptType, SnapshotConstants DEF Inv, Keys, TypeOK, AttTypes, Attempt
<1> QED
  BY <1>1, <1>2, <1>3 DEF Inv, Keys, OrchTypes

(* Keys of attempts that rest.                                              *)
LEMMA KeysStay ==
  ASSUME Inv, AttRest, Attempts' = Attempts, asked' = asked, index' <= Len(answers')
  PROVE  Keys'
<1>1. \A j \in Attempts : att'[j].key = att[j].key
  BY RestKeeps DEF AttsKept, Keeps
<1> QED
  BY <1>1 DEF Keys, Inv

(* The steps of the orchestration keep the invariant.                       *)
LEMMA AskInv ==
  ASSUME Inv, Ask
  PROVE  Inv'
<1>1. PICK w : w \in Workers
  BY SnapshotConstants
<1>2. AttRest /\ UNCHANGED <<dir, memory, evicting, touched, store, faults, bypassed, att, told,
        answers, index>>
  BY StillAtts DEF Ask, workerVars
<1>3. Calm(w)
  BY <1>1, <1>2, StillCalm
<1>4. asked' = asked + 1 /\ Len(answers) = asked /\ asked' \in 0 .. MaxTurns
  BY OrchFacts, SnapshotConstants DEF Ask, Waiting, OrchTypes
<1>5. OrchTypes'
  BY <1>2, <1>4, OrchFacts DEF OrchTypes, Ask
<1>6. Keys'
  BY <1>2, <1>4, OrchFacts DEF Keys, Attempts
<1>7. Ordered'
  BY <1>1, <1>2, <1>3, OrderedStays, OrchFacts
<1> QED
  BY <1>1, <1>2, <1>3, <1>5, <1>6, <1>7, CalmInv, OrchFacts

(* A regeneration keeps the invariant.                                      *)
LEMMA RegenerateInv ==
  ASSUME Inv, Regenerate
  PROVE  Inv'
<1>1. PICK w : w \in Workers
  BY SnapshotConstants
<1>2. /\ AttRest
      /\ UNCHANGED <<dir, memory, evicting, touched, store, faults, bypassed, att, told, answers,
           index, asked>>
  BY StillAtts DEF Regenerate, workerVars
<1>3. Calm(w)
  BY <1>1, <1>2, StillCalm
<1>4. epoch' \in Epochs /\ starting' \in BOOLEAN
  BY OrchFacts, SnapshotConstants DEF Regenerate, OrchTypes, Epochs
<1>5. OrchTypes'
  BY <1>2, <1>4, OrchFacts DEF OrchTypes
<1>6. Keys'
  BY <1>2, OrchFacts DEF Keys, Attempts
<1>7. Ordered'
  BY <1>1, <1>2, <1>3, OrderedStays, OrchFacts
<1> QED
  BY <1>1, <1>2, <1>3, <1>5, <1>6, <1>7, CalmInv, OrchFacts

(* A stop keeps the invariant.                                              *)
LEMMA StopTurnInv ==
  ASSUME Inv, StopTurn
  PROVE  Inv'
<1>1. PICK w : w \in Workers
  BY SnapshotConstants
<1>2. /\ AttRest /\ Attempts' = Attempts
      /\ UNCHANGED <<dir, memory, evicting, touched, store, faults, bypassed, told, asked, epoch,
           starting>>
  BY DropStep DEF StopTurn, workerVars
<1>3. Calm(w)
  BY <1>1, <1>2, StillCalm
<1>4. /\ answers' \in Seq(Answer) /\ Len(answers') = Len(answers) + 1 /\ Len(answers) = asked - 1
      /\ index' = index + 1
  <2>1. Stopped \in Answer
    <3>1. 0 \in 0 .. MaxAttempts /\ 0 \in Epochs
      BY SnapshotConstants DEF Epochs
    <3> QED
      BY <3>1 DEF Stopped, Answer, Hows
  <2>2. answers' = Append(answers, Stopped)
    BY DEF StopTurn
  <2>3. answers' \in Seq(Answer) /\ Len(answers') = Len(answers) + 1
    BY <2>1, <2>2, AppendProperties, OrchFacts DEF OrchTypes
  <2> QED
    BY <2>3, OrchFacts DEF StopTurn, Waiting, OrchTypes
<1>5. OrchTypes'
  <2>1. index' \in 0 .. MaxTurns
    BY <1>4, OrchFacts, SnapshotConstants DEF OrchTypes
  <2>2. Len(answers') \in {asked' - 1, asked'}
    BY <1>2, <1>4, OrchFacts
  <2> QED
    BY <1>2, <1>4, <2>1, <2>2, OrchFacts DEF OrchTypes
<1>6. Keys'
  <2>1. index' <= Len(answers')
    BY <1>4, OrchFacts DEF OrchTypes
  <2> QED
    BY <1>2, <2>1, KeysStay
<1>7. Ordered'
  BY <1>1, <1>2, <1>3, <1>4, OrderedStays, OrchFacts
<1> QED
  BY <1>1, <1>2, <1>3, <1>5, <1>6, <1>7, CalmInv, OrchFacts

(* The answer that is accepted: what was told before stays in order, and    *)
(* the body of a committed answer is stored, with no body of a later turn.  *)
LEMMA AcceptOrdered ==
  ASSUME Inv, NEW w \in Workers, Calm(w), NEW i, Accept(i)
  PROVE  Ordered'
<1>1. i \in Attempts /\ att[i].pc = "done" /\ att[i].key = asked /\ att[i] \in Attempt
  BY AttemptType DEF Accept, At, Inv, TypeOK, AttTypes
<1>2. Len(answers') = Len(answers) + 1 /\ Len(answers) = asked - 1
  <2>1. [how |-> att[i].how, body |-> att[i].body, epoch |-> att[i].epoch] \in Answer
    BY <1>1 DEF Attempt, Answer
  <2>2. Len(answers') = Len(answers) + 1
    BY <2>1, AppendProperties, OrchFacts DEF Accept, OrchTypes
  <2> QED
    BY <2>2, OrchFacts DEF Accept, Waiting, OrchTypes
<1>3. CASE told' = told
  BY <1>2, <1>3, OrderedStays, OrchFacts
<1>4. CASE att[i].how \in {"committed", "stored"}
  <2> DEFINE T == [epoch : Epochs, body : 0 .. MaxAttempts]
  <2>1. PICK t : t = [epoch |-> att[i].epoch, body |-> att[i].body]
    OBVIOUS
  <2>2. t \in T /\ told \in Seq(T) /\ told' = Append(told, t)
    BY <1>1, <1>4, <2>1 DEF Accept, Attempt, Inv, TypeOK
  <2>3. /\ Len(told') = Len(told) + 1 /\ Len(told) \in Nat
        /\ \A k \in 1 .. Len(told) : told'[k] = told[k] /\ told[k] \in T
        /\ told'[Len(told) + 1] = t
    <3> HIDE DEF T
    <3> QED
      BY <2>2, AppendProperties, LenProperties, ElementOfSeq
  <2>4. ASSUME NEW k \in 1 .. Len(told'), told'[k].epoch \notin bypassed'
        PROVE  InOrder(told[k], store[told[k].epoch].content)'
    <3>1. PICK f \in Epochs, u \in T : f = told'[k].epoch /\ u = told'[k]
      <4>1. told'[k] \in T
        <5>1. k \in 1 .. Len(told) \/ k = Len(told) + 1
          BY <2>3
        <5> HIDE DEF T
        <5> QED
          BY <2>2, <2>3, <5>1
      <4> QED
        BY <4>1
    <3>2. f \notin bypassed' /\ f \notin bypassed
      BY <2>4, <3>1 DEF Calm
    <3>3. CASE k \in 1 .. Len(told)
      <4>1. InOrder(u, store[f].content)
        BY <2>3, <3>1, <3>2, <3>3 DEF Inv, Ordered
      <4>2. InOrder(u, store[f].content)'
        BY <1>2, <3>2, <4>1, CalmOrdered, OrchFacts
      <4> QED
        BY <3>1, <4>2 DEF InOrder, KeyOf
    <3>4. CASE k = Len(told) + 1
      <4>1. u.epoch = f /\ u.body = att[i].body /\ f = att[i].epoch
        BY <2>1, <2>3, <3>1, <3>4
      <4>2. PICK p \in 1 .. Len(store[f].content) :
              store[f].content[p] = u.body /\ KeyOf(store[f].content[p]) = asked
        BY <1>1, <1>4, <3>2, <4>1 DEF Inv, AllKept, Kept, CommitKept
      <4>3. store'[f] = store[f] /\ Proper(store[f].content) /\ AttsKept
        BY <3>2, RestKeeps DEF Calm, Inv, Contents
      <4>4. \A n \in 1 .. Len(store[f].content) :
              /\ att'[store[f].content[n]].key = att[store[f].content[n]].key
              /\ att[store[f].content[n]].key <= asked
              /\ att[store[f].content[n]].key \in Nat
        BY <4>3, OrchFacts DEF Proper, AttsKept, Keeps
      <4>5. \E n \in 1 .. Len(store'[f].content) :
              store'[f].content[n] = u.body /\ att'[store'[f].content[n]].key <= Len(answers')
        <5>1. att'[store'[f].content[p]].key = asked /\ asked <= Len(answers')
          <6>1. asked \in Nat /\ Len(answers) \in Nat
            BY OrchFacts
          <6>2. asked <= Len(answers')
            BY <1>2, <6>1
          <6>3. att'[store'[f].content[p]].key = asked
            BY <4>2, <4>3, <4>4 DEF KeyOf
          <6> QED
            BY <6>2, <6>3
        <5> QED
          BY <4>2, <4>3, <5>1
      <4>6. \A m, n \in 1 .. Len(store'[f].content) :
              ~(store'[f].content[m] = u.body
                /\ att'[store'[f].content[n]].key > att'[store'[f].content[m]].key)
        <5>1. \A m \in 1 .. Len(store[f].content) : store[f].content[m] = u.body =>
                att[store[f].content[m]].key = asked
          BY <4>2 DEF KeyOf
        <5> QED
          <6>1. asked \in Nat
            BY OrchFacts
          <6>2. ASSUME NEW m \in 1 .. Len(store[f].content), NEW n \in 1 .. Len(store[f].content),
                       store[f].content[m] = u.body
                PROVE  ~(att'[store[f].content[n]].key > att'[store[f].content[m]].key)
            <7>1. att'[store[f].content[m]].key = asked
              BY <4>4, <5>1, <6>2
            <7>2. att'[store[f].content[n]].key <= asked /\ att'[store[f].content[n]].key \in Nat
              BY <4>4
            <7> QED
              BY <6>1, <7>1, <7>2
          <6> QED
            BY <4>3, <6>2
      <4> QED
        BY <3>1, <4>5, <4>6 DEF InOrder, KeyOf
    <3> QED
      BY <2>3, <3>3, <3>4
  <2> QED
    BY <2>4 DEF Ordered
<1> QED
  BY <1>3, <1>4 DEF Accept

(* Accepting an answer keeps the invariant.                                 *)
LEMMA AcceptInv ==
  ASSUME Inv, NEW i, Accept(i)
  PROVE  Inv'
<1>1. PICK w : w \in Workers
  BY SnapshotConstants
<1>2. /\ AttRest /\ Attempts' = Attempts
      /\ UNCHANGED <<dir, memory, evicting, touched, store, faults, bypassed, asked, epoch>>
  BY DropStep DEF Accept, workerVars
<1>3. Calm(w)
  BY <1>1, <1>2, StillCalm
<1>4. att[i] \in Attempt
  BY AttemptType DEF Accept, At, Inv, TypeOK, AttTypes
<1>5. answers' \in Seq(Answer) /\ Len(answers') = Len(answers) + 1 /\ Len(answers) = asked - 1
  <2>1. [how |-> att[i].how, body |-> att[i].body, epoch |-> att[i].epoch] \in Answer
    BY <1>4 DEF Attempt, Answer
  <2>2. answers' \in Seq(Answer) /\ Len(answers') = Len(answers) + 1
    BY <2>1, AppendProperties, OrchFacts DEF Accept, OrchTypes
  <2> QED
    BY <2>2, OrchFacts DEF Accept, Waiting, OrchTypes
<1>6. index' \in {index, index + 1} /\ starting' \in BOOLEAN
  BY DEF Accept
<1>7. told' \in Seq([epoch : Epochs, body : 0 .. MaxAttempts])
  <2> DEFINE T == [epoch : Epochs, body : 0 .. MaxAttempts]
  <2>1. [epoch |-> att[i].epoch, body |-> att[i].body] \in T
    BY <1>4 DEF Attempt
  <2>2. told \in Seq(T)
    BY DEF Inv, TypeOK
  <2>3. told' = told \/ told' = Append(told, [epoch |-> att[i].epoch, body |-> att[i].body])
    BY DEF Accept
  <2> HIDE DEF T
  <2>4. told' \in Seq(T)
    BY <2>1, <2>2, <2>3, AppendProperties
  <2> QED
    BY <2>4 DEF T
<1>8. OrchTypes'
  <2>1. index' \in 0 .. MaxTurns
    BY <1>5, <1>6, OrchFacts, SnapshotConstants DEF OrchTypes
  <2>2. Len(answers') \in {asked' - 1, asked'}
    BY <1>2, <1>5, OrchFacts
  <2> QED
    BY <1>2, <1>5, <1>6, <1>7, <2>1, <2>2, OrchFacts DEF OrchTypes
<1>9. Keys'
  <2>1. index' <= Len(answers')
    BY <1>5, <1>6, OrchFacts DEF OrchTypes
  <2> QED
    BY <1>2, <2>1, KeysStay
<1>10. Ordered'
  BY <1>1, <1>3, AcceptOrdered
<1> QED
  BY <1>1, <1>2, <1>3, <1>8, <1>9, <1>10, CalmInv, OrchFacts

(* A delivery keeps the invariant.                                          *)
LEMMA DeliverInv ==
  ASSUME Inv, NEW w \in Workers, Deliver(w)
  PROVE  Inv'
<1> DEFINE a == [key |-> asked, index |-> index, epoch |-> epoch, start |-> starting, worker |-> w,
                 pc |-> "waiting", base |-> 0, fresh |-> FALSE, passed |-> FALSE,
                 how |-> "none", body |-> 0]
<1>1. /\ UNCHANGED <<dir, memory, evicting, touched, store, faults, bypassed>>
      /\ UNCHANGED <<asked, answers, index, epoch, starting, told>>
      /\ att' = Append(att, a)
  BY DEF Deliver, workerVars, orchVars
<1>2. a \in Attempt
  <2>1. asked \in 1 .. MaxTurns
    BY OrchFacts, SnapshotConstants DEF Deliver, Waiting, OrchTypes
  <2>2. 0 \in 0 .. MaxAttempts /\ 0 \in Nat
    BY SnapshotConstants
  <2>3. index \in 0 .. MaxTurns /\ epoch \in Epochs /\ starting \in BOOLEAN
    BY OrchFacts DEF OrchTypes
  <2> QED
    BY <2>1, <2>2, <2>3 DEF Attempt, Pcs, Hows
<1>3. a.pc = "waiting" /\ a.key = asked
  OBVIOUS
<1> HIDE DEF a
<1>4. /\ att' \in Seq(Attempt) /\ Len(att') = Len(att) + 1 /\ Len(att) \in Nat
      /\ \A j \in 1 .. Len(att) : att'[j] = att[j]
      /\ att'[Len(att) + 1] = a
  BY <1>1, <1>2, AppendProperties, LenProperties DEF Inv, TypeOK
<1>5. Len(att') <= MaxAttempts
  BY <1>4, SnapshotConstants DEF Deliver
<1>6. AttRest
  BY <1>3, <1>4, <1>5 DEF AttRest, AttTypes, Attempts, Resting
<1>7. Calm(w)
  BY <1>1, <1>6, StillCalm
<1>8. OrchTypes'
  BY <1>1, OrchFacts DEF OrchTypes
<1>9. Keys'
  BY <1>1, <1>3, <1>4, OrchFacts DEF Keys, Attempts
<1>10. Ordered'
  BY <1>1, <1>7, OrderedStays, OrchFacts
<1> QED
  BY <1>1, <1>7, <1>8, <1>9, <1>10, CalmInv, OrchFacts

(* Constants of the right type.                                             *)
LEMMA Blank ==
  /\ NoDir \in Directory /\ Cold \in Session
  /\ \A s \in Seq(Runs) : Clean(s, NoMarker) \in Directory
<1>1. <<>> \in Seq(Runs) /\ 0 \in Epochs /\ 0 \in Nat
  BY SnapshotConstants DEF Epochs
<1> QED
  BY <1>1, ConstantTypes

(* A step of a worker's process keeps the invariant if it is calm and       *)
(* leaves the orchestration alone.                                          *)
LEMMA ProcessInv ==
  ASSUME Inv, NEW w \in Workers, Calm(w), Attempts' = Attempts, UNCHANGED orchVars,
         (touched \subseteq Workers)', (evicting \subseteq touched)', (faults \in 0 .. MaxFaults)'
  PROVE  Inv'
<1>1. UNCHANGED <<asked, answers, index, epoch, starting, told>>
  BY DEF orchVars
<1>2. OrchTypes'
  BY <1>1, OrchFacts DEF OrchTypes
<1>3. Keys'
  BY <1>1, OrchFacts, KeysStay DEF Calm
<1>4. Ordered'
  BY <1>1, OrderedStays, OrchFacts
<1> QED
  BY <1>2, <1>3, <1>4, CalmInv

(* A crash keeps the invariant, whatever it leaves of a restore.            *)
LEMMA CrashInv ==
  ASSUME Inv, NEW w \in Workers, Crash(w)
  PROVE  Inv'
<1>1. att' = [j \in Attempts |-> att'[j]] /\ \A j \in Attempts : Resting(j)
  BY DEF Crash, Resting
<1>2. AttRest /\ Attempts' = Attempts
  <2>1. AttRest
    BY <1>1, RestStep
  <2>2. /\ Len(att') \in Nat /\ Len(att) \in Nat
        /\ DOMAIN att' = 1 .. Len(att') /\ DOMAIN att' = 1 .. Len(att)
    BY <1>1, <2>1, LenProperties DEF AttRest, AttTypes, Inv, TypeOK, Attempts
  <2> QED
    BY <2>1, <2>2 DEF Attempts
<1>3. Vacated(w)
  <2>1. ASSUME NEW j \in Attempts, att'[j].worker = w PROVE att'[j].pc = "dead"
    <3>1. att[j] \in Attempt /\ att[j].worker = w
      BY <1>2, <2>1, RestKeeps, AttemptType DEF AttsKept, Keeps, Inv, TypeOK, AttTypes
    <3>2. att'[j] = Dead(att[j])
      BY <3>1 DEF Crash
    <3> QED
      BY <3>1, <3>2 DEF Dead, Attempt
  <2> QED
    BY <1>2, <2>1 DEF Vacated, Active
<1>4. /\ dir \in [Workers -> Directory] /\ memory \in [Workers -> Session]
      /\ store \in [Epochs -> Chain] /\ bypassed \subseteq Epochs /\ evicting \subseteq touched
      /\ touched \subseteq Workers
  BY DEF Inv, TypeOK
<1>5. memory' \in [Workers -> Session] /\ memory'[w] = Cold /\ \A v \in Workers \ {w} :
        memory'[v] = memory[v]
  BY <1>4, Blank DEF Crash
<1>6. PICK d \in Directory :
        /\ dir' = [dir EXCEPT ![w] = d]
        /\ d \in {dir[w], NoDir} \/ \E f \in Epochs : d = Clean(store[f].content, NoMarker)
  <2>1. CASE UNCHANGED dir
    BY <1>4, <2>1
  <2>2. CASE dir' = [dir EXCEPT ![w] = NoDir]
    BY <2>2, Blank
  <2>3. ASSUME NEW j \in Attempts, dir' = [dir EXCEPT ![w] = Clean(store[att[j].epoch].content,
               NoMarker)]
        PROVE  \E f \in Epochs : dir' = [dir EXCEPT ![w] = Clean(store[f].content, NoMarker)]
    BY <2>3, AttemptType DEF Attempt, Inv, TypeOK, AttTypes
  <2>4. \A f \in Epochs : Clean(store[f].content, NoMarker) \in Directory
    BY <1>4, Blank DEF Chain
  <2> QED
    BY <2>1, <2>2, <2>3, <2>4 DEF Crash
<1>7. dir' \in [Workers -> Directory] /\ dir'[w] = d /\ \A v \in Workers \ {w} : dir'[v] = dir[v]
  BY <1>4, <1>6
<1>8. Calm(w)
  <2>1. evicting' \subseteq evicting /\ evicting' \subseteq Workers /\ UNCHANGED <<store, bypassed>>
    BY <1>4 DEF Crash
  <2> QED
    BY <1>2, <1>3, <1>4, <1>5, <1>6, <1>7, <2>1 DEF Calm
<1>9. (touched \subseteq Workers)' /\ (evicting \subseteq touched)' /\ UNCHANGED orchVars
  BY <1>4 DEF Crash
<1>10. (faults \in 0 .. MaxFaults)'
  BY OrchFacts, SnapshotConstants DEF Crash
<1> QED
  BY <1>2, <1>8, <1>9, <1>10, ProcessInv

(* The start of an eviction keeps the invariant.                            *)
LEMMA EvictInv ==
  ASSUME Inv, NEW w \in Workers, Evict(w)
  PROVE  Inv'
<1>1. AttRest /\ Attempts' = Attempts /\ UNCHANGED <<att, store, bypassed, faults, orchVars>>
  BY StillAtts DEF Evict, Attempts
<1>2. Vacated(w)
  BY <1>1 DEF Evict, Vacated, Active
<1>3. /\ dir \in [Workers -> Directory] /\ memory \in [Workers -> Session]
      /\ store \in [Epochs -> Chain] /\ bypassed \subseteq Epochs /\ evicting \subseteq touched
      /\ touched \subseteq Workers /\ w \in touched /\ w \notin evicting
  BY DEF Inv, TypeOK, Evict
<1>4. memory' \in [Workers -> Session] /\ memory'[w] = Cold /\ \A v \in Workers \ {w} :
        memory'[v] = memory[v]
  BY <1>3, Blank DEF Evict
<1>5. dir' \in [Workers -> Directory] /\ dir'[w] \in {dir[w], NoDir} /\ \A v \in Workers \ {w} :
        dir'[v] = dir[v]
  <2>1. dir' = dir \/ dir' = [dir EXCEPT ![w] = NoDir]
    BY DEF Evict
  <2> QED
    BY <1>3, <2>1, Blank
<1>6. /\ evicting' \subseteq evicting \union {w} /\ evicting' \subseteq touched'
      /\ touched' \subseteq Workers
  BY <1>3 DEF Evict
<1>7. Calm(w)
  BY <1>1, <1>2, <1>3, <1>4, <1>5, <1>6 DEF Calm
<1>8. (faults \in 0 .. MaxFaults)'
  BY <1>1, OrchFacts
<1> QED
  BY <1>1, <1>6, <1>7, <1>8, ProcessInv

(* The legacy write of an eviction keeps the invariant.                     *)
LEMMA DehydrateInv ==
  ASSUME Inv, NEW w \in Workers, dehydrate(w)
  PROVE  Inv'
<1>1. /\ dir \in [Workers -> Directory] /\ memory \in [Workers -> Session]
      /\ store \in [Epochs -> Chain] /\ bypassed \subseteq Epochs /\ evicting \subseteq touched
      /\ touched \subseteq Workers /\ 0 \in Epochs
  BY SnapshotConstants DEF Inv, TypeOK, Epochs
<1>2. AttRest /\ Attempts' = Attempts
  <2>1. CASE UNCHANGED att
    BY <2>1, StillAtts DEF Attempts
  <2>2. CASE att' = Overtaking(0, att) /\ bypassed' = bypassed \union {0}
    <3>1. DOMAIN att = Attempts /\ Len(att) \in Nat
      BY LenProperties DEF Inv, TypeOK, Attempts
    <3>2. att' = [j \in Attempts |-> att'[j]] /\ \A j \in Attempts : Resting(j)
      BY <2>2, <3>1 DEF Overtaking, Resting
    <3>3. AttRest
      BY <3>2, RestStep
    <3>4. Len(att') \in Nat /\ DOMAIN att' = 1 .. Len(att') /\ DOMAIN att' = 1 .. Len(att)
      BY <3>2, <3>3, LenProperties DEF AttRest, AttTypes, Attempts
    <3> QED
      BY <3>1, <3>3, <3>4 DEF Attempts
  <2> QED
    BY <2>1, <2>2 DEF dehydrate
<1>3. w \in evicting /\ ~memory[w].live /\ \A j \in Attempts : att[j].worker = w => ~Active(j)
  BY DEF dehydrate, Inv, Alone
<1>4. Vacated(w)
  BY <1>2, <1>3, RestKeeps DEF Vacated, AttsKept, Keeps
<1>5. memory' = memory /\ memory[w] = Cold
  <2>1. memory[w] \in Session /\ memory[w].content = <<>>
    BY <1>1, <1>3 DEF Inv, Files
  <2>2. memory[w] = Cold
    BY <1>3, <2>1 DEF Session, Cold
  <2> QED
    BY <2>2 DEF dehydrate
<1>6. dir' \in [Workers -> Directory] /\ dir'[w] = NoDir /\ \A v \in Workers \ {w} :
        dir'[v] = dir[v]
  BY <1>1, Blank DEF dehydrate
<1>7. /\ store' \in [Epochs -> Chain] /\ bypassed \subseteq bypassed' /\ bypassed' \subseteq Epochs
      /\ \A f \in Epochs : \/ store'[f] = store[f]
                            \/ /\ f = 0 /\ f \in bypassed'
                               /\ store'[f] = [version |-> 0, content |-> dir[w].content]
  <2>1. CASE UNCHANGED <<store, bypassed>>
    BY <1>1, <2>1
  <2>2. CASE /\ store' = [store EXCEPT ![0] = [version |-> 0, content |-> dir[w].content]]
             /\ bypassed' = bypassed \union {0}
    <3>1. dir[w].content \in Seq(Runs)
      BY <1>1 DEF Directory
    <3>2. [version |-> 0, content |-> dir[w].content] \in Chain
      BY <3>1 DEF Chain
    <3> QED
      BY <1>1, <2>2, <3>2
  <2> QED
    BY <2>1, <2>2 DEF dehydrate
<1>8. /\ evicting' \subseteq evicting /\ evicting' \subseteq touched' /\ touched' \subseteq Workers
      /\ evicting' \subseteq Workers
  BY <1>1 DEF dehydrate
<1>9. Calm(w)
  <2>1. memory' \in [Workers -> Session] /\ memory'[w] = Cold /\ \A v \in Workers :
          memory'[v] = memory[v]
    BY <1>1, <1>5
  <2> QED
    BY <1>2, <1>4, <1>6, <1>7, <1>8, <2>1 DEF Calm
<1>10. (faults \in 0 .. MaxFaults)' /\ UNCHANGED orchVars
  BY OrchFacts DEF dehydrate
<1> QED
  BY <1>2, <1>8, <1>9, <1>10, ProcessInv

(* The invariant holds at first, ...                                        *)
LEMMA InitInv == Init => Inv
<1> SUFFICES ASSUME Init PROVE Inv
  OBVIOUS
<1>1. /\ NoDir \in Directory /\ Cold \in Session /\ NoChain \in Chain /\ 0 \in Epochs
      /\ 0 \in 0 .. MaxTurns /\ 0 \in 0 .. MaxFaults /\ 0 <= MaxAttempts
  BY Blank, SnapshotConstants DEF NoChain, Chain, Epochs
<1>2. Attempts = {} /\ Len(att) = 0 /\ Len(answers) = 0 /\ Len(told) = 0
  BY DEF Init, Attempts
<1>3. TypeOK
  <2>1. \A w \in Workers : dir[w] = NoDir /\ ~dir[w].marker.set
    BY DEF Init, NoDir, NoMarker
  <2> QED
    <3>1. /\ dir \in [Workers -> Directory] /\ memory \in [Workers -> Session]
          /\ store \in [Epochs -> Chain]
      BY <1>1 DEF Init
    <3>2. /\ answers \in Seq(Answer) /\ att \in Seq(Attempt)
          /\ told \in Seq([epoch : Epochs, body : 0 .. MaxAttempts])
      BY DEF Init
    <3>3. Len(answers) \in {asked - 1, asked} /\ Len(att) <= MaxAttempts
      BY <1>1, <1>2 DEF Init
    <3>4. /\ asked \in 0 .. MaxTurns /\ index \in 0 .. MaxTurns /\ epoch \in Epochs
          /\ starting \in BOOLEAN /\ touched \subseteq Workers /\ evicting \subseteq touched
          /\ faults \in 0 .. MaxFaults /\ bypassed \subseteq Epochs
      BY <1>1 DEF Init
    <3> QED
      BY <2>1, <3>1, <3>2, <3>3, <3>4 DEF TypeOK
<1>4. Keys /\ Alone /\ LastOwn /\ AllKept /\ Ordered /\ Named
  BY <1>2 DEF Init, Keys, Alone, LastOwn, AllKept, Ordered, Named
<1>5. Files /\ LocalIsTrue
  BY <1>2 DEF Init, Files, LocalIsTrue, NoDir, NoMarker, Cold
<1>6. Contents /\ Epoched
  BY <1>2 DEF Init, Contents, Epoched, Proper, Pure, NoDir, NoChain, NoMarker
<1>7. Chains /\ Markers
  BY DEF Init, Chains, Markers, NoChain, NoDir, NoMarker
<1> QED
  BY <1>3, <1>4, <1>5, <1>6, <1>7 DEF Inv

(* ... and every step keeps it.                                             *)
LEMMA NextInv == Inv /\ [Next]_vars => Inv'
<1> SUFFICES ASSUME Inv, [Next]_vars PROVE Inv'
  OBVIOUS
<1>1. CASE Orchestration
  BY <1>1, AskInv, StopTurnInv, RegenerateInv, DeliverInv, AcceptInv DEF Orchestration
<1>2. ASSUME NEW i \in 1 .. MaxAttempts, Works(i) PROVE Inv'
  BY <1>2, WorksInv
<1>3. ASSUME NEW w \in Workers, Crash(w) \/ Evict(w) \/ dehydrate(w) PROVE Inv'
  BY <1>3, CrashInv, EvictInv, DehydrateInv
<1>4. CASE UNCHANGED vars
  <2>1. PICK w : w \in Workers
    BY SnapshotConstants
  <2>2. /\ UNCHANGED <<att, dir, memory, touched, evicting, store, faults, bypassed>>
        /\ UNCHANGED orchVars
    BY <1>4 DEF vars, workerVars
  <2>3. AttRest /\ Attempts' = Attempts
    BY <2>2, StillAtts DEF Attempts
  <2>4. Calm(w)
    BY <2>1, <2>2, <2>3, StillCalm
  <2>5. (touched \subseteq Workers)' /\ (evicting \subseteq touched)'
          /\ (faults \in 0 .. MaxFaults)'
    BY <2>2, OrchFacts
  <2> QED
    BY <2>1, <2>2, <2>3, <2>4, <2>5, ProcessInv
<1> QED
  BY <1>1, <1>2, <1>3, <1>4 DEF Next, Works

(* The invariant holds in every state.                                      *)
THEOREM Invariance == Spec => []Inv
BY InitInv, NextInv, PTL DEF Spec

-----------------------------------------------------------------------------
(* The state has its types; a turn is over at most once.                    *)
THEOREM TypeCorrect == Spec => []TypeOK
<1>1. Inv => TypeOK
  BY DEF Inv
<1> QED
  BY <1>1, Invariance, PTL

(* What the worker trusts is true: warm sessions know what the files say,   *)
(* clean files are what their marker says.                                  *)
THEOREM FilesAreTrue == Spec => []LocalIsTrue
<1>1. Inv => LocalIsTrue
  BY DEF Inv
<1> QED
  BY <1>1, Invariance, PTL

(* The chain of an epoch that a regeneration has begun holds bodies of this *)
(* epoch only.                                                              *)
THEOREM NoEpochReturns == Spec => []NoResurrection
<1>1. Inv => NoResurrection
  BY DEF Inv, Epoched, Pure, NoResurrection, Bodies
<1> QED
  BY <1>1, Invariance, PTL

(* A turn gives up its memory only to another writer.                       *)
THEOREM SupersededByAnother == Spec => []SupersededOnlyIfOvertaken
<1>1. Inv => SupersededOnlyIfOvertaken
  BY DEF Inv, AllKept, Kept, CommitKept, SupersededOnlyIfOvertaken
<1> QED
  BY <1>1, Invariance, PTL

-----------------------------------------------------------------------------
(* The memory of the abstract specification.                                *)
Remembered == [e \in Epochs |-> IF e \in bypassed THEN <<>> ELSE store[e].content]

(* Nothing stored and nothing told is no step of the abstract memory.       *)
LEMMA MemoryStutters ==
  ASSUME UNCHANGED <<store, bypassed, told>>
  PROVE  UNCHANGED Memory!vars
BY DEF Memory!vars

(* A reset is a Forfeit.                                                    *)
LEMMA DropForfeits ==
  ASSUME Inv, NEW e \in Epochs, Dropped(e), told' = told
  PROVE  Memory!Next
<1>1. bypassed' \in SUBSET Epochs /\ bypassed' = bypassed \union bypassed'
  BY DEF Dropped
<1>2. \A f \in Epochs : (IF f \in bypassed' THEN <<>> ELSE store'[f].content)
        = IF f \in bypassed' THEN <<>> ELSE (IF f \in bypassed THEN <<>> ELSE store[f].content)
  BY DEF Dropped
<1>3. Remembered' = [f \in Epochs |-> IF f \in bypassed' THEN <<>> ELSE Remembered[f]]
  BY <1>2 DEF Remembered
<1>4. PICK E \in SUBSET Epochs : E = bypassed'
  BY <1>1
<1>5. Memory!Forfeit(E)
  BY <1>1, <1>3, <1>4 DEF Memory!Forfeit, Remembered
<1> QED
  BY <1>5 DEF Memory!Next

(* A commit is a Begin or a Remember, or is not seen in a bypassed epoch.   *)
LEMMA WriteRemembers ==
  ASSUME Inv, Inv', NEW i \in Attempts, NEW w \in Workers, w = att[i].worker, NEW e \in Epochs,
         e = att[i].epoch, Written(i, w, e), told' = told
  PROVE  Memory!Next \/ UNCHANGED Memory!vars
<1>1. store \in [Epochs -> Chain] /\ dir[w].content \in Seq(Runs)
  BY DEF Inv, TypeOK, Directory
<1>2. /\ store'[e].content = dir[w].content /\ bypassed' = bypassed
      /\ \A f \in Epochs \ {e} : store'[f] = store[f]
  BY <1>1 DEF Written
<1>3. CASE e \in bypassed
  <2>1. Remembered' = Remembered
    BY <1>2, <1>3 DEF Remembered
  <2> QED
    BY <1>2, <2>1 DEF Memory!vars, Remembered
<1>4. CASE e \notin bypassed
  <2>1. /\ Remembered[e] = store[e].content /\ Remembered'[e] = dir[w].content
        /\ Remembered' = [Remembered EXCEPT ![e] = dir[w].content]
    BY <1>2, <1>4 DEF Remembered
  <2>2. \A m, n \in 1 .. Len(dir[w].content) : m # n => dir[w].content[m] # dir[w].content[n]
    BY DEF Inv, Contents, Proper
  <2>3. DOMAIN dir[w].content = 1 .. Len(dir[w].content)
    BY <1>1, LenProperties
  <2>4. CASE ~Exists(store[e]) /\ store[e].content = <<>>
    <3>1. Memory!Begin(e)
      <4>1. PICK s : s = dir[w].content
        OBVIOUS
      <4>2. /\ Remembered[e] = <<>> /\ Remembered'[e] = s /\ s \in Seq(Runs)
            /\ Remembered' = [Remembered EXCEPT ![e] = Remembered'[e]]
        BY <1>1, <2>1, <2>4, <4>1
      <4>3. \A m, n \in DOMAIN s : m # n => s[m] # s[n]
        BY <2>2, <2>3, <4>1
      <4> QED
        BY <1>2, <1>4, <4>2, <4>3 DEF Memory!Begin, Remembered, Memory!WithoutRepeats
    <3> QED
      BY <3>1 DEF Memory!Next
  <2>5. CASE dir[w].content = Append(store[e].content, i)
    <3>1. i \in Runs /\ store[e].content \in Seq(Runs)
      BY <1>1, LenProperties, SnapshotConstants DEF Runs, Attempts, Inv, TypeOK, Chain
    <3>2. /\ Len(dir[w].content) = Len(store[e].content) + 1 /\ Len(store[e].content) \in Nat
          /\ \A k \in 1 .. Len(store[e].content) : dir[w].content[k] = store[e].content[k]
          /\ dir[w].content[Len(store[e].content) + 1] = i
          /\ DOMAIN store[e].content = 1 .. Len(store[e].content)
      <4>1. PICK s \in Seq(Runs) : s = store[e].content
        BY <3>1
      <4>2. dir[w].content = Append(s, i) /\ Len(s) \in Nat /\ DOMAIN s = 1 .. Len(s)
        BY <2>5, <4>1, LenProperties
      <4>3. /\ Len(Append(s, i)) = Len(s) + 1
            /\ \A k \in 1 .. Len(s) : Append(s, i)[k] = s[k]
            /\ Append(s, i)[Len(s) + 1] = i
        BY <3>1, <4>1, AppendProperties
      <4> QED
        BY <4>1, <4>2, <4>3
    <3>3. Memory!Places(store[e].content, i) = {}
      <4>1. \A k \in 1 .. Len(store[e].content) :
              k \in 1 .. Len(dir[w].content) /\ k # Len(store[e].content) + 1
        BY <3>2
      <4>2. Len(store[e].content) + 1 \in 1 .. Len(dir[w].content)
        BY <3>2
      <4>3. ASSUME NEW k \in 1 .. Len(store[e].content) PROVE store[e].content[k] # i
        <5>1. dir[w].content[k] # dir[w].content[Len(store[e].content) + 1]
          BY <2>2, <4>1, <4>2
        <5>2. dir[w].content[k] = store[e].content[k]
                /\ dir[w].content[Len(store[e].content) + 1] = i
          BY <3>2
        <5> QED
          BY <5>1, <5>2
      <4> QED
        BY <3>2, <4>3 DEF Memory!Places
    <3>4. Memory!Remember(e, i)
      BY <1>2, <1>4, <2>1, <2>5, <3>3 DEF Memory!Remember, Remembered
    <3> QED
      BY <3>1, <3>4 DEF Memory!Next
  <2> QED
    BY <1>4, <2>4, <2>5, SwapGrows
<1> QED
  BY <1>3, <1>4

(* The answer that is accepted for a committed turn is a Tell.              *)
LEMMA AcceptTells ==
  ASSUME Inv, NEW i, Accept(i)
  PROVE  Memory!Next \/ UNCHANGED Memory!vars
<1>1. UNCHANGED <<store, bypassed>> /\ i \in Attempts /\ att[i].pc = "done" /\ att[i].key = asked
  BY DEF Accept, At
<1>2. att[i] \in Attempt
  BY <1>1, AttemptType DEF Inv, TypeOK, AttTypes
<1>3. CASE told' = told
  BY <1>1, <1>3, MemoryStutters
<1>4. CASE att[i].how \in {"committed", "stored"}
  <2>1. PICK e \in Epochs, b \in Runs : e = att[i].epoch /\ b = att[i].body
    <3>1. att[i].body \in Attempts /\ Len(att) \in Nat /\ Len(att) <= MaxAttempts
      BY <1>1, <1>4, LenProperties DEF Inv, Named, TypeOK
    <3>2. att[i].body \in Runs
      BY <3>1, SnapshotConstants DEF Attempts, Runs
    <3> QED
      BY <1>2, <3>2 DEF Attempt
  <2>2. told' = Append(told, [epoch |-> e, body |-> b])
    BY <1>4, <2>1 DEF Accept
  <2>3. Remembered' = Remembered
    BY <1>1 DEF Remembered
  <2>4. ASSUME e \notin bypassed
        PROVE  /\ Memory!Places(store[e].content, b) # {}
               /\ \A k \in DOMAIN told : told[k].epoch = e =>
                    \A m \in Memory!Places(store[e].content, told[k].body),
                       n \in Memory!Places(store[e].content, b) : m < n
    <3>1. PICK s \in Seq(Runs) : s = store[e].content
      BY ChainFacts DEF Chain
    <3>2. DOMAIN s = 1 .. Len(s) /\ DOMAIN told = 1 .. Len(told)
      BY <3>1, LenProperties DEF Inv, TypeOK
    <3>3. PICK p \in 1 .. Len(s) : s[p] = b /\ KeyOf(s[p]) = asked
      BY <1>1, <1>4, <2>1, <2>4, <3>1 DEF Inv, AllKept, Kept, CommitKept
    <3>4. ASSUME NEW k \in 1 .. Len(told), told[k].epoch = e, NEW m \in 1 .. Len(s),
                 s[m] = told[k].body,
                 NEW n \in 1 .. Len(s), s[n] = b
          PROVE  m < n
      <4>1. InOrder(told[k], s)
        BY <2>4, <3>1, <3>4 DEF Inv, Ordered
      <4>2. KeyOf(s[m]) <= Len(answers)
        BY <3>4, <4>1 DEF InOrder
      <4>3. KeyOf(s[n]) = asked
        BY <3>3, <3>4
      <4>4. KeyOf(s[m]) \in Nat /\ Len(answers) \in Nat /\ asked \in Nat
        <5>1. s[m] \in Attempts
          BY <3>1 DEF Inv, Contents, Proper
        <5> QED
          BY <5>1, OrchFacts DEF KeyOf
      <4>5. KeyOf(s[n]) > KeyOf(s[m])
        BY <4>2, <4>3, <4>4 DEF Accept, Waiting
      <4> QED
        BY <3>4, <4>1, <4>5 DEF InOrder
    <3> QED
      BY <3>1, <3>2, <3>3, <3>4 DEF Memory!Places
  <2>5. Memory!Tell(e, b)
    <3>1. e \notin bypassed => Remembered[e] = store[e].content
      BY DEF Remembered
    <3> QED
      BY <1>1, <2>2, <2>3, <2>4, <3>1 DEF Memory!Tell, Remembered
  <2> QED
    BY <2>5 DEF Memory!Next
<1> QED
  BY <1>3, <1>4 DEF Accept

(* A legacy write is a Forfeit of epoch 0.                                  *)
LEMMA DehydrateForfeits ==
  ASSUME Inv, NEW w \in Workers, dehydrate(w)
  PROVE  Memory!Next \/ UNCHANGED Memory!vars
<1>1. told' = told
  BY DEF dehydrate, orchVars
<1>2. CASE UNCHANGED <<store, bypassed>>
  BY <1>1, <1>2, MemoryStutters
<1>3. CASE /\ store' = [store EXCEPT ![0] = [version |-> 0, content |-> dir[w].content]]
           /\ bypassed' = bypassed \union {0}
  <2>1. store \in [Epochs -> Chain] /\ 0 \in Epochs
    BY SnapshotConstants DEF Inv, TypeOK, Epochs
  <2>2. PICK E \in SUBSET Epochs : E = {0}
    BY <2>1
  <2>3. Remembered' = [f \in Epochs |-> IF f \in E THEN <<>> ELSE Remembered[f]]
    BY <1>3, <2>1, <2>2 DEF Remembered
  <2>4. Memory!Forfeit(E)
    BY <1>1, <1>3, <2>2, <2>3 DEF Memory!Forfeit, Remembered
  <2> QED
    BY <2>4 DEF Memory!Next
<1> QED
  BY <1>2, <1>3 DEF dehydrate

(* Every step is a step of the abstract memory or a stutter.                *)
LEMMA NextRefines ==
  ASSUME Inv, Inv', [Next]_vars
  PROVE  Memory!Next \/ UNCHANGED Memory!vars
<1>1. CASE Ask \/ StopTurn \/ Regenerate
  BY <1>1, MemoryStutters DEF Ask, StopTurn, Regenerate
<1>2. ASSUME NEW w \in Workers, Deliver(w) PROVE UNCHANGED Memory!vars
  BY <1>2, MemoryStutters DEF Deliver, orchVars
<1>3. ASSUME NEW w \in Workers, Crash(w) \/ Evict(w) PROVE UNCHANGED Memory!vars
  BY <1>3, MemoryStutters DEF Crash, Evict, orchVars
<1>4. ASSUME NEW i \in 1 .. MaxAttempts, Works(i) PROVE Memory!Next \/ UNCHANGED Memory!vars
  <2>1. i \in Attempts /\ told' = told
    BY <1>4, LockSteps, OrchSteps DEF orchVars
  <2>2. PICK w \in Workers, e \in Epochs : w = att[i].worker /\ e = att[i].epoch
    BY <2>1, AttemptType DEF Attempt, AttTypes, Inv, TypeOK
  <2>3. CASE UNCHANGED <<store, bypassed>>
    BY <2>1, <2>3, MemoryStutters
  <2>4. CASE Dropped(e)
    BY <2>1, <2>4, DropForfeits
  <2>5. CASE Written(i, w, e)
    BY <2>1, <2>2, <2>5, WriteRemembers
  <2> QED
    BY <1>4, <2>2, <2>3, <2>4, <2>5, StoreShapes
<1>5. CASE UNCHANGED vars
  BY <1>5, MemoryStutters DEF vars, orchVars
<1> QED
  BY <1>1, <1>2, <1>3, <1>4, <1>5, AcceptTells, DehydrateForfeits DEF Next, Orchestration, Works

(* The snapshot protocol implements the memory it promises.                 *)
THEOREM SnapshotsImplementMemory == Spec => ImplementsMemory
<1>1. Init => Memory!Init
  BY DEF Init, Memory!Init, NoChain
<1>2. Inv /\ Inv' /\ [Next]_vars => [Memory!Next]_(Memory!vars)
  BY NextRefines
<1> QED
  BY <1>1, <1>2, Invariance, PTL DEF Spec, ImplementsMemory, Memory!Spec

-----------------------------------------------------------------------------
(* The promise that SessionMemory makes is kept by whatever takes its       *)
(* steps, of which only the types are known here.                           *)
Told == [epoch : Epochs, body : Runs]

MemoryType == Remembered \in [Epochs -> Seq(Runs)] /\ told \in Seq(Told)

(* What SessionMemory promises of a memory m, the answers t and the         *)
(* forfeited epochs f.                                                      *)
Promise(m, t, f) ==
  \A k \in DOMAIN t : t[k].epoch \notin f =>
    /\ Memory!Places(m[t[k].epoch], t[k].body) # {}
    /\ \A l \in 1 .. k - 1 : t[l].epoch = t[k].epoch =>
         \A i \in Memory!Places(m[t[k].epoch], t[l].body),
            j \in Memory!Places(m[t[k].epoch], t[k].body) : i < j

(* It is the promise made of the stored memory.                             *)
LEMMA PromiseMeant == Memory!ToldIsRemembered <=> Promise(Remembered, told, bypassed)
BY Zenon DEF Memory!ToldIsRemembered, Promise, Remembered

(* A body that is not added keeps its places when another one is appended.  *)
LEMMA PlacesKept ==
  ASSUME NEW s \in Seq(Runs), NEW b, NEW c \in Runs, b # c
  PROVE  Memory!Places(Append(s, c), b) = Memory!Places(s, b)
BY DEF Memory!Places

(* Every step of SessionMemory keeps the types.                             *)
LEMMA MemoryTypeKept ==
  ASSUME MemoryType, Memory!Next \/ UNCHANGED Memory!vars
  PROVE  MemoryType'
<1>1. Remembered \in [Epochs -> Seq(Runs)] /\ told \in Seq(Told) /\ <<>> \in Seq(Runs)
  BY DEF MemoryType
<1>2. ASSUME NEW e \in Epochs, Memory!Begin(e) PROVE MemoryType'
  <2>1. /\ told' = told /\ Remembered'[e] \in Seq(Runs)
        /\ Remembered' = [Remembered EXCEPT ![e] = Remembered'[e]]
    BY <1>2, Zenon DEF Memory!Begin, Remembered
  <2> QED
    BY <1>1, <2>1 DEF MemoryType
<1>3. ASSUME NEW e \in Epochs, NEW b \in Runs, Memory!Remember(e, b) PROVE MemoryType'
  <2>1. told' = told /\ Remembered' = [Remembered EXCEPT ![e] = Append(@, b)]
    BY <1>3, Zenon DEF Memory!Remember, Remembered
  <2>2. Append(Remembered[e], b) \in Seq(Runs)
    BY <1>1
  <2> QED
    BY <1>1, <2>1, <2>2 DEF MemoryType
<1>4. ASSUME NEW e \in Epochs, NEW b \in Runs, Memory!Tell(e, b) PROVE MemoryType'
  <2>1. Remembered' = Remembered /\ told' = Append(told, [epoch |-> e, body |-> b])
    BY <1>4, Zenon DEF Memory!Tell, Remembered
  <2>2. [epoch |-> e, body |-> b] \in Told
    BY DEF Told
  <2>3. told' \in Seq(Told)
    BY <1>1, <2>1, <2>2
  <2> QED
    BY <1>1, <2>1, <2>3 DEF MemoryType
<1>5. ASSUME NEW E \in SUBSET Epochs, Memory!Forfeit(E) PROVE MemoryType'
  <2>1. told' = told /\ Remembered' = [e \in Epochs |-> IF e \in E THEN <<>> ELSE Remembered[e]]
    BY <1>5, Zenon DEF Memory!Forfeit, Remembered
  <2> QED
    BY <1>1, <2>1 DEF MemoryType
<1>6. CASE UNCHANGED Memory!vars
  <2>1. Remembered' = Remembered /\ told' = told
    BY <1>6, Zenon DEF Memory!vars, Remembered
  <2> QED
    BY <1>1, <2>1 DEF MemoryType
<1> QED
  BY <1>2, <1>3, <1>4, <1>5, <1>6 DEF Memory!Next

(* The promise is kept while the memory of what was told keeps its places.  *)
LEMMA PromiseUnmoved ==
  ASSUME NEW t \in Seq(Told), NEW m, NEW n, NEW f, NEW g, Promise(m, t, f), f \subseteq g,
         \A k, l \in DOMAIN t :
           t[k].epoch \notin g /\ t[l].epoch = t[k].epoch =>
             Memory!Places(n[t[k].epoch], t[l].body) = Memory!Places(m[t[k].epoch], t[l].body)
  PROVE  Promise(n, t, g)
<1>1. \A k \in DOMAIN t : \A l \in 1 .. k - 1 : l \in DOMAIN t
  OBVIOUS
<1> QED
  BY <1>1 DEF Promise

(* Another answer keeps it, if it is remembered behind the others.          *)
LEMMA PromiseTold ==
  ASSUME NEW t \in Seq(Told), NEW m, NEW f, Promise(m, t, f), NEW e, NEW b,
         e \notin f =>
           /\ Memory!Places(m[e], b) # {}
           /\ \A k \in DOMAIN t : t[k].epoch = e =>
                \A i \in Memory!Places(m[e], t[k].body), j \in Memory!Places(m[e], b) : i < j,
         NEW u, u = Append(t, [epoch |-> e, body |-> b])
  PROVE  Promise(m, u, f)
<1>1. /\ \A k \in DOMAIN t : u[k] = t[k]
      /\ u[Len(t) + 1] = [epoch |-> e, body |-> b]
      /\ DOMAIN u = DOMAIN t \union {Len(t) + 1}
      /\ DOMAIN t = 1 .. Len(t) /\ Len(t) \in Nat
  OBVIOUS
<1> SUFFICES ASSUME NEW k \in DOMAIN u, u[k].epoch \notin f
             PROVE  /\ Memory!Places(m[u[k].epoch], u[k].body) # {}
                    /\ \A l \in 1 .. k - 1 : u[l].epoch = u[k].epoch =>
                         \A i \in Memory!Places(m[u[k].epoch], u[l].body),
                            j \in Memory!Places(m[u[k].epoch], u[k].body) : i < j
  BY DEF Promise
<1>2. \A l \in 1 .. k - 1 : l \in DOMAIN t /\ u[l] = t[l]
  BY <1>1
<1>3. CASE k \in DOMAIN t
  BY <1>1, <1>2, <1>3 DEF Promise
<1>4. CASE k = Len(t) + 1
  <2>1. u[k].epoch = e /\ u[k].body = b
    BY <1>1, <1>4
  <2> QED
    BY <1>2, <2>1
<1> QED
  BY <1>1, <1>3, <1>4

(* Every step of the abstract memory keeps the promise: an epoch that has   *)
(* told something has begun, an added body is not one of those told, and a  *)
(* new answer is placed behind the others.                                  *)
LEMMA PromiseKept ==
  ASSUME MemoryType, Promise(Remembered, told, bypassed), Memory!Next \/ UNCHANGED Memory!vars
  PROVE  Promise(Remembered', told', bypassed')
<1>1. told \in Seq(Told) /\ \A k \in DOMAIN told : told[k].epoch \in Epochs
  <2>1. told \in Seq(Told)
    BY DEF MemoryType
  <2>2. \A k \in DOMAIN told : told[k] \in Told
    BY <2>1
  <2> QED
    BY <2>1, <2>2 DEF Told
<1>2. \A k \in DOMAIN told : told[k].epoch \notin bypassed =>
        Memory!Places(Remembered[told[k].epoch], told[k].body) # {}
  BY DEF Promise
<1>3. ASSUME NEW e \in Epochs, Memory!Begin(e) PROVE Promise(Remembered', told', bypassed')
  <2>1. /\ Remembered[e] = <<>> /\ told' = told /\ bypassed' = bypassed
        /\ Remembered' = [Remembered EXCEPT ![e] = Remembered'[e]]
    BY <1>3, Zenon DEF Memory!Begin, Remembered
  <2>2. \A b : Memory!Places(<<>>, b) = {}
    BY DEF Memory!Places
  <2>3. \A k \in DOMAIN told : told[k].epoch \notin bypassed => told[k].epoch # e
    BY <1>2, <2>1, <2>2
  <2>4. \A f \in Epochs : f # e => Remembered'[f] = Remembered[f]
    BY <2>1 DEF Remembered
  <2>5. \A k \in DOMAIN told :
          told[k].epoch \notin bypassed => Remembered'[told[k].epoch] = Remembered[told[k].epoch]
    BY <1>1, <2>3, <2>4
  <2> QED
    BY <1>1, <2>1, <2>5, PromiseUnmoved
<1>4. ASSUME NEW e \in Epochs, NEW b \in Runs, Memory!Remember(e, b)
      PROVE  Promise(Remembered', told', bypassed')
  <2>1. /\ e \notin bypassed /\ Memory!Places(Remembered[e], b) = {}
        /\ told' = told /\ bypassed' = bypassed
        /\ Remembered' = [Remembered EXCEPT ![e] = Append(@, b)]
    BY <1>4, Zenon DEF Memory!Remember, Remembered
  <2>2. Remembered[e] \in Seq(Runs)
    BY DEF MemoryType
  <2>3. /\ \A f \in Epochs : f # e => Remembered'[f] = Remembered[f]
        /\ Remembered'[e] = Append(Remembered[e], b)
    BY <2>1 DEF Remembered
  <2>4. ASSUME NEW k \in DOMAIN told, NEW l \in DOMAIN told,
               told[k].epoch \notin bypassed, told[l].epoch = told[k].epoch
        PROVE  Memory!Places(Remembered'[told[k].epoch], told[l].body)
                 = Memory!Places(Remembered[told[k].epoch], told[l].body)
    <3>1. CASE told[k].epoch = e
      <4>1. told[l].body # b
        BY <1>2, <2>1, <2>4, <3>1
      <4> QED
        BY <2>2, <2>3, <3>1, <4>1, PlacesKept
    <3>2. CASE told[k].epoch # e
      BY <1>1, <2>3, <2>4, <3>2
    <3> QED
      BY <3>1, <3>2
  <2>5. \A k, l \in DOMAIN told :
          told[k].epoch \notin bypassed /\ told[l].epoch = told[k].epoch =>
            Memory!Places(Remembered'[told[k].epoch], told[l].body)
              = Memory!Places(Remembered[told[k].epoch], told[l].body)
    BY <2>4
  <2>6. Promise(Remembered', told, bypassed)
    BY <1>1, <2>5, PromiseUnmoved
  <2> QED
    BY <2>1, <2>6
<1>5. ASSUME NEW e \in Epochs, NEW b \in Runs, Memory!Tell(e, b)
      PROVE  Promise(Remembered', told', bypassed')
  <2>1. /\ Remembered' = Remembered /\ bypassed' = bypassed
        /\ told' = Append(told, [epoch |-> e, body |-> b])
        /\ e \notin bypassed =>
             /\ Memory!Places(Remembered[e], b) # {}
             /\ \A k \in DOMAIN told : told[k].epoch = e =>
                  \A m \in Memory!Places(Remembered[e], told[k].body),
                     n \in Memory!Places(Remembered[e], b) : m < n
    BY <1>5, Zenon DEF Memory!Tell, Remembered
  <2> QED
    BY <1>1, <2>1, PromiseTold
<1>6. ASSUME NEW E \in SUBSET Epochs, Memory!Forfeit(E)
      PROVE  Promise(Remembered', told', bypassed')
  <2>1. /\ bypassed' = bypassed \union E /\ told' = told
        /\ Remembered' = [e \in Epochs |-> IF e \in E THEN <<>> ELSE Remembered[e]]
    BY <1>6, Zenon DEF Memory!Forfeit, Remembered
  <2>2. \A k \in DOMAIN told :
          told[k].epoch \notin bypassed' => Remembered'[told[k].epoch] = Remembered[told[k].epoch]
    BY <1>1, <2>1
  <2> QED
    BY <1>1, <2>1, <2>2, PromiseUnmoved
<1>7. CASE UNCHANGED Memory!vars
  <2>1. Remembered' = Remembered /\ told' = told /\ bypassed' = bypassed
    BY <1>7, Zenon DEF Memory!vars, Remembered
  <2> QED
    BY <2>1
<1> QED
  BY <1>3, <1>4, <1>5, <1>6, <1>7 DEF Memory!Next

(* What was told stays remembered, in the order in which it was told, by    *)
(* whatever implements SessionMemory (the commit contract of                *)
(* session-store.ts).                                                       *)
THEOREM MemoryKeepsItsPromise == ImplementsMemory => []Memory!ToldIsRemembered
<1>1. Memory!Init => MemoryType /\ Promise(Remembered, told, bypassed)
  <2> SUFFICES ASSUME Memory!Init PROVE MemoryType /\ Promise(Remembered, told, bypassed)
    OBVIOUS
  <2>1. Remembered = [e \in Epochs |-> <<>>] /\ told = <<>>
    BY Zenon DEF Memory!Init, Remembered
  <2>2. <<>> \in Seq(Runs) /\ <<>> \in Seq(Told) /\ DOMAIN <<>> = {}
    OBVIOUS
  <2> QED
    BY <2>1, <2>2 DEF MemoryType, Promise
<1>2. MemoryType /\ Promise(Remembered, told, bypassed) /\ [Memory!Next]_(Memory!vars)
        => (MemoryType /\ Promise(Remembered, told, bypassed))'
  BY MemoryTypeKept, PromiseKept
<1>3. Promise(Remembered, told, bypassed) => Memory!ToldIsRemembered
  BY PromiseMeant
<1> QED
  BY <1>1, <1>2, <1>3, PTL DEF ImplementsMemory, Memory!Spec

(* What the orchestration was told of a committed turn stays in the store,  *)
(* behind what it was told before, until its epoch is reset or written by a *)
(* legacy put: the promise of SessionMemory, which the protocol keeps since *)
(* its steps are steps of SessionMemory (commitSnapshot, runTurnPreamble).  *)
THEOREM ToldStaysRemembered == Spec => []Memory!ToldIsRemembered
BY SnapshotsImplementMemory, MemoryKeepsItsPromise
=============================================================================
