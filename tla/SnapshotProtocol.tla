--------------------------- MODULE SnapshotProtocol ---------------------------
(***************************************************************************)
(* The memory of one session: how the attempts of its turns find it, change *)
(* it and store it (session-lifecycle.ts, snapshot-protocol.ts, the commit  *)
(* contract of session-store.ts and blob-store.ts, and runTurn and          *)
(* getOrCreate where they touch the session's directory).                   *)
(*                                                                          *)
(* The orchestration asks for one turn at a time, under a fresh turn key.   *)
(* The activity may be delivered more than once: again after a crash, or    *)
(* while an earlier attempt is still at work.  A stopped turn is over for   *)
(* the orchestration, but its attempts go on.  On a worker, the run-turn    *)
(* lock admits one attempt at a time; attempts on different workers share   *)
(* only the store.                                                          *)
(*                                                                          *)
(* Memory is abstracted to the sequence of the bodies that made it; a body  *)
(* is named by the attempt that ran it, and two attempts of one turn never  *)
(* write the same thing.  A content hash is the content.  The turn-commit   *)
(* file rides in the snapshot, so that it holds the key and the result of   *)
(* the last body of a committed snapshot.                                   *)
(***************************************************************************)
EXTENDS Integers, Sequences

CONSTANTS
  Workers,
  MaxTurns,     \* bound: turns the orchestration asks for
  MaxAttempts,  \* bound: deliveries of the activity
  MaxFaults,    \* bound: crashes, failing calls and lost answers
  MaxEpoch,     \* bound: regenerations
  MaxWork       \* bound: deliveries, regenerations and faults together

ASSUME SnapshotConstants ==
  /\ Workers # {}
  /\ MaxTurns \in Nat
  /\ MaxAttempts \in Nat
  /\ MaxFaults \in Nat
  /\ MaxEpoch \in Nat
  /\ MaxWork \in Nat

VARIABLES
  asked,      \* how many turns were asked for; the last one is the turn key
  answers,    \* key -> how the turn ended for the orchestration
  index,      \* iteration
  epoch,      \* transcriptEpoch
  starting,   \* epochStartPending
  att,        \* the attempts, in the order of their delivery
  dir,        \* worker -> its session directory
  memory,     \* worker -> its warm session
  touched,    \* workers whose eviction clock knows the session
  evicting,   \* workers that are writing a legacy snapshot on eviction
  store,      \* epoch -> the snapshot chain
  faults,     \* how many faults have happened
  \* Observations; no action reads them.
  told,       \* the answers accepted for a turn that was committed
  bypassed    \* epochs whose chain was deleted, given a new session or written
              \* otherwise than by the compare-and-swap of a resumed session

orchVars   == <<asked, answers, index, epoch, starting, told>>
workerVars == <<dir, memory, touched, evicting>>
vars == <<orchVars, att, workerVars, store, faults, bypassed>>

Attempts == 1 .. Len(att)
Epochs == 0 .. MaxEpoch

-----------------------------------------------------------------------------
(* The store: version -1 is an absent chain, 0 a legacy snapshot, which     *)
(* carries no version and no turn key.                                      *)

NoChain == [version |-> -1, content |-> <<>>]
Exists(c) == c.version >= 0
KeyOf(body) == att[body].key

Last(s) == s[Len(s)]

(* The store bears this turn's own key.                                     *)
Bears(c, key) == c.version >= 1 /\ KeyOf(Last(c.content)) = key

(* The session directory of a worker, with its marker and its sentinel.     *)
NoMarker == [set |-> FALSE, version |-> 0, hash |-> <<>>, epoch |-> 0]
NoDir == [here |-> FALSE, content |-> <<>>, marker |-> NoMarker, dirty |-> FALSE]
Clean(content, marker) ==
  [here |-> TRUE, content |-> content, marker |-> marker, dirty |-> FALSE]
Marker(version, content, e) ==
  [set |-> TRUE, version |-> version, hash |-> content, epoch |-> e]

Cold == [live |-> FALSE, content |-> <<>>]
Warm(content) == [live |-> TRUE, content |-> content]

MarkerFromHydrate(c, e) ==
  Marker(c.version, IF c.version >= 1 THEN c.content ELSE <<>>, e)

At(i, pc) == i \in Attempts /\ att[i].pc = pc
Active(i) == att[i].pc \notin {"waiting", "done", "dead"}
Waiting == asked > Len(answers)
Stopped == [how |-> "stopped", body |-> 0, epoch |-> 0]

(* Nobody asks after the attempt any more.                                  *)
Dead(a) == [a EXCEPT !.pc = "dead", !.base = 0, !.fresh = FALSE, !.passed = FALSE,
                     !.how = "none", !.body = 0]

(* Attempt i goes on to pc.                                                 *)
Goto(i, pc) == att' = [att EXCEPT ![i].pc = pc]

(* Attempt i returns the result of `body`, with its snapshot `version`; the *)
(* orchestration no longer waits for it if the turn is over.                *)
Return(i, how, body, version) ==
  att' = [att EXCEPT ![i] =
            IF @.key <= Len(answers) THEN Dead(@)
            ELSE [@ EXCEPT !.pc = "done", !.how = how, !.body = body,
                           !.base = version, !.fresh = FALSE]]

(* The turn is over: the answers of its other attempts are dropped.         *)
DropAnswers ==
  att' = [i \in Attempts |-> IF att[i].pc = "done" THEN Dead(att[i]) ELSE att[i]]

Throw(i) == Return(i, "failed", 0, 0)

(* Whatever an attempt has done to the store, the others at work on the     *)
(* epoch have been overtaken.                                               *)
Overtaking(e, new) ==
  [j \in DOMAIN new |->
     IF new[j].epoch = e /\ new[j].pc \notin {"waiting", "done", "dead"}
       THEN [new[j] EXCEPT !.passed = TRUE] ELSE new[j]]

(* The bound on deliveries, regenerations and faults together.              *)
MoreWork == Len(att) + epoch + faults < MaxWork

-----------------------------------------------------------------------------
(* The orchestration (processPrompt, handleTurnStopped).                    *)

Ask ==
  /\ ~Waiting
  /\ asked < MaxTurns
  /\ asked' = asked + 1
  /\ UNCHANGED <<answers, index, epoch, starting, told, att, workerVars, store, faults, bypassed>>

(* The runtime hands the activity to a worker: first, again after a crash,  *)
(* or because it believes the earlier attempt lost.                         *)
Deliver(w) ==
  /\ Waiting
  /\ Len(att) < MaxAttempts /\ MoreWork
  /\ att' = Append(att, [key |-> asked, index |-> index, epoch |-> epoch,
                         start |-> starting, worker |-> w, pc |-> "waiting",
                         base |-> 0, fresh |-> FALSE, passed |-> FALSE,
                         how |-> "none", body |-> 0])
  /\ UNCHANGED <<orchVars, workerVars, store, faults, bypassed>>

(* The answer of an attempt ends the turn.  A throw leads to a retry under  *)
(* a new key; a result with a snapshot version proves the epoch.            *)
Accept(i) ==
  /\ Waiting
  /\ At(i, "done")
  /\ att[i].key = asked
  /\ answers' = Append(answers, [how |-> att[i].how, body |-> att[i].body,
                                 epoch |-> att[i].epoch])
  /\ index' = IF att[i].how = "failed" THEN index ELSE index + 1
  /\ starting' = (starting /\ ~(att[i].how # "failed" /\ att[i].base >= 1))
  /\ told' = IF att[i].how \in {"committed", "stored"}
               THEN Append(told, [epoch |-> att[i].epoch, body |-> att[i].body]) ELSE told
  /\ DropAnswers
  /\ UNCHANGED <<asked, epoch, workerVars, store, faults, bypassed>>

(* Bug: a stop ends a turn that is over.                                    *)
StopAnyTurn ==
  /\ asked > 0
  /\ answers' = Append(answers, Stopped)
  /\ index' = index + 1
  /\ DropAnswers
  /\ UNCHANGED <<asked, epoch, starting, told, workerVars, store, faults, bypassed>>

StopTurn ==
  /\ Waiting
  /\ answers' = Append(answers, Stopped)
  /\ index' = index + 1
  /\ DropAnswers
  /\ UNCHANGED <<asked, epoch, starting, told, workerVars, store, faults, bypassed>>

(* A regeneration (RegenPipeline) has flipped the epoch.                    *)
Regenerate ==
  /\ ~Waiting
  /\ ~starting
  /\ epoch < MaxEpoch /\ MoreWork
  /\ epoch' = epoch + 1
  /\ starting' = TRUE
  /\ UNCHANGED <<asked, answers, index, told, att, workerVars, store, faults, bypassed>>

-----------------------------------------------------------------------------
(* The preamble of an attempt (runTurnPreamble), under the run-turn lock of *)
(* its worker.                                                              *)

Acquire(i) ==
  /\ At(i, "waiting")
  /\ \A j \in Attempts : att[j].worker = att[i].worker => ~Active(j)
  /\ att[i].worker \notin evicting
  /\ touched' = touched \union {att[i].worker}

(* Bug: files are trusted whatever their epoch is.                          *)
AnyEpoch(marker, e) == TRUE

(* Local files of the current epoch, and not mid-mutation.                  *)
EpochMatches(marker, e) ==
  IF e > 0 THEN marker.set /\ marker.epoch = e ELSE marker.epoch = 0

LocalTrusted(d, e) == ~d.dirty /\ d.here /\ EpochMatches(d.marker, e)

(* The one probe of the store is the oracle.  The attempt finds its turn    *)
(* committed, ...                                                           *)
FindCommitted(i) ==
  /\ Acquire(i)
  /\ Bears(store[att[i].epoch], att[i].key)
  /\ Goto(i, "recover")
  /\ UNCHANGED <<orchVars, dir, memory, evicting, store, faults, bypassed>>

(* ... or continues from the local files, ...                               *)
UseLocal(i) ==
  LET d == dir[att[i].worker]
      c == store[att[i].epoch]
  IN  /\ Acquire(i)
      /\ ~Bears(c, att[i].key)
      /\ LocalTrusted(d, att[i].epoch)
      /\ c.version >= 1 => /\ d.marker.set
                           /\ d.marker.version = c.version
                           /\ d.marker.hash = c.content
      /\ att' = [att EXCEPT ![i].pc = "create", ![i].base = d.marker.version,
                         ![i].passed = FALSE]
      /\ UNCHANGED <<orchVars, dir, memory, evicting, store, faults, bypassed>>

(* ... or has nothing to continue from, ...                                 *)
StartFresh(i) ==
  LET w == att[i].worker
  IN  /\ Acquire(i)
      /\ ~Exists(store[att[i].epoch])
      /\ ~LocalTrusted(dir[w], att[i].epoch)
      /\ att' = [att EXCEPT ![i].pc = "create", ![i].base = 0, ![i].fresh = TRUE,
                         ![i].passed = FALSE]
      /\ dir' = [dir EXCEPT ![w] = NoDir]
      /\ memory' = [memory EXCEPT ![w] = Cold]
      /\ UNCHANGED <<orchVars, evicting, store, faults, bypassed>>

(* ... or lets the store win.                                               *)
UseStore(i) ==
  LET d == dir[att[i].worker]
      c == store[att[i].epoch]
  IN  /\ Acquire(i)
      /\ Exists(c)
      /\ ~Bears(c, att[i].key)
      /\ \/ ~LocalTrusted(d, att[i].epoch)
         \/ /\ c.version >= 1
            /\ \/ ~d.marker.set
               \/ d.marker.version # c.version
               \/ d.marker.hash # c.content
      /\ Goto(i, "resolve")
      /\ UNCHANGED <<orchVars, dir, memory, evicting, store, faults, bypassed>>

(* Bug: the warm session survives the swap of its files.                    *)
RestoredUnderWarm(w, c, e) ==
  /\ dir' = [dir EXCEPT ![w] = Clean(c.content, MarkerFromHydrate(c, e))]
  /\ UNCHANGED memory

(* The directory becomes the stored snapshot, whatever it has become since  *)
(* the probe, with a marker and without a sentinel; the warm session goes.  *)
Restored(w, c, e) ==
  /\ dir' = [dir EXCEPT ![w] = Clean(c.content, MarkerFromHydrate(c, e))]
  /\ memory' = [memory EXCEPT ![w] = Cold]

(* Bug: the base is not the version that was restored.                      *)
ResolveKeepsBase(i) ==
  LET c == store[att[i].epoch]
  IN  /\ At(i, "resolve")
      /\ Exists(c)
      /\ Restored(att[i].worker, c, att[i].epoch)
      /\ att' = [att EXCEPT ![i].pc = "create", ![i].passed = FALSE]
      /\ UNCHANGED <<orchVars, touched, evicting, store, faults, bypassed>>

resolveFromStore(i) ==
  LET c == store[att[i].epoch]
  IN  /\ At(i, "resolve")
      /\ Exists(c)
      /\ Restored(att[i].worker, c, att[i].epoch)
      /\ att' = [att EXCEPT ![i].pc = "create", ![i].base = c.version, ![i].passed = FALSE]
      /\ UNCHANGED <<orchVars, touched, evicting, store, faults, bypassed>>

(* The stored result is returned, the body does not run; a snapshot that    *)
(* carries another turn's result degrades to a run on the stored state.     *)
recoverAlreadyCommitted(i) ==
  LET c == store[att[i].epoch]
  IN  /\ At(i, "recover")
      /\ Exists(c)
      /\ Restored(att[i].worker, c, att[i].epoch)
      /\ IF Bears(c, att[i].key)
           THEN Return(i, "stored", Last(c.content), c.version)
           ELSE att' = [att EXCEPT ![i].pc = "create", ![i].base = c.version,
                                   ![i].passed = FALSE]
      /\ UNCHANGED <<orchVars, touched, evicting, store, faults, bypassed>>

(* The snapshot has gone since the probe.                                   *)
NothingToHydrate(i) ==
  LET w == att[i].worker
  IN  /\ At(i, "resolve") \/ At(i, "recover")
      /\ ~Exists(store[att[i].epoch])
      /\ memory' = [memory EXCEPT ![w] = Cold]
      /\ Throw(i)
      /\ UNCHANGED <<orchVars, dir, touched, evicting, store, faults, bypassed>>

-----------------------------------------------------------------------------
(* The SDK session (getOrCreate, and runTurn's recovery around it).         *)

(* The chain that the reset before a new SDK session deletes: a new epoch   *)
(* clears its own; a first turn, when it finds anything of an older session, *)
(* and a replay clear the chain of epoch 0, whatever their epoch is.        *)
Gone(i) ==
  LET w == att[i].worker
      stale == memory[w].live \/ dir[w].here \/ Exists(store[att[i].epoch])
  IN  IF att[i].pc = "create" /\ att[i].index > 0 THEN {att[i].epoch}
      ELSE IF att[i].pc # "create" \/ stale THEN {0} ELSE {}

(* The reset; a delete that fails is not noticed.  `cost` counts the fault  *)
(* that led here.                                                           *)
Reset(i, cost) ==
  \E failed \in {0, 1} :
    /\ failed = 1 => \E e \in Gone(i) : Exists(store[e])
    /\ faults + cost + failed <= MaxFaults
    /\ Len(att) + epoch + faults + cost + failed <= MaxWork
    /\ faults' = faults + cost + failed
    /\ store' = [e \in Epochs |->
                   IF failed = 0 /\ e \in Gone(i) THEN NoChain ELSE store[e]]
    /\ bypassed' = bypassed \union {e \in Gone(i) \union {att[i].epoch} : Exists(store[e])}

CreateNew(i, marker) ==
  LET w == att[i].worker
  IN  /\ dir' = [dir EXCEPT ![w] = Clean(<<>>, marker)]
      /\ memory' = [memory EXCEPT ![w] = Warm(<<>>)]
      /\ Goto(i, "body")
      /\ UNCHANGED <<orchVars, touched, evicting>>

(* The first turn of the session discards every trace of an older one.      *)
CreateFirst(i) ==
  /\ At(i, "create")
  /\ att[i].index = 0
  /\ Reset(i, 0)
  /\ CreateNew(i, NoMarker)

(* The first turn of an epoch, if the preamble found its chain empty; the   *)
(* new session gets a birth marker.                                         *)
CreateEpoch(i) ==
  /\ At(i, "create")
  /\ att[i].index > 0
  /\ att[i].start /\ att[i].fresh
  /\ Reset(i, 0)
  /\ CreateNew(i, Marker(0, <<>>, att[i].epoch))

Resuming(i) ==
  /\ At(i, "create")
  /\ att[i].index > 0
  /\ ~(att[i].start /\ att[i].fresh)

(* The warm session goes on, or the SDK resumes the local files, ...        *)
Resume(i) ==
  LET w == att[i].worker
  IN  /\ Resuming(i)
      /\ memory[w].live \/ dir[w].here
      /\ memory' = [memory EXCEPT ![w] = IF @.live THEN @ ELSE Warm(dir[w].content)]
      /\ Goto(i, "body")
      /\ UNCHANGED <<orchVars, dir, touched, evicting, store, faults, bypassed>>

(* ... or the legacy restore, which writes no marker and knows only the     *)
(* chain of epoch 0, brings back a snapshot committed since the preamble.   *)
ResumeStored(i) ==
  LET w == att[i].worker
      c == store[att[i].epoch]
  IN  /\ Resuming(i)
      /\ ~memory[w].live /\ ~dir[w].here
      /\ Exists(c)
      /\ IF att[i].epoch = 0
           THEN /\ dir' = [dir EXCEPT ![w] = Clean(c.content, NoMarker)]
                /\ memory' = [memory EXCEPT ![w] = Warm(c.content)]
                /\ Goto(i, "body")
           ELSE Throw(i) /\ UNCHANGED <<dir, memory>>
      /\ UNCHANGED <<orchVars, touched, evicting, store, faults, bypassed>>

(* No state is found, the store does not answer, or the SDK refuses the     *)
(* files.                                                                   *)
ResumeLost(i) ==
  LET w == att[i].worker
  IN  /\ Resuming(i)
      /\ ~memory[w].live
      /\ \/ ~dir[w].here /\ ~Exists(store[att[i].epoch]) /\ UNCHANGED faults
         \/ (dir[w].here \/ Exists(store[att[i].epoch])) /\ faults < MaxFaults /\ MoreWork /\ faults' = faults + 1
      /\ Goto(i, "lost")
      /\ UNCHANGED <<orchVars, workerVars, store, bypassed>>

attemptStoreRecovery(i) ==
  LET w == att[i].worker
      e == att[i].epoch
      c == store[e]
  IN  /\ At(i, "lost")
      /\ Exists(c)
      /\ dir' = [dir EXCEPT ![w] = Clean(c.content, MarkerFromHydrate(c, e))]
      /\ memory' = [memory EXCEPT ![w] = Warm(c.content)]
      /\ att' = [att EXCEPT ![i].pc = "body", ![i].base = c.version, ![i].passed = FALSE]
      /\ UNCHANGED <<orchVars, touched, evicting, store, faults, bypassed>>

(* The store holds nothing, or restoring it or resuming from it has failed: *)
(* a new session under turn index 0, and without an epoch.                  *)
LossyReplay(i) ==
  /\ At(i, "lost")
  /\ Reset(i, IF Exists(store[att[i].epoch]) THEN 1 ELSE 0)
  /\ CreateNew(i, NoMarker)

(* The SDK creates no session after the reset: the activity throws, and in  *)
(* a replay it answers with an error instead.                               *)
CreationFails(i) ==
  LET w == att[i].worker
  IN  /\ \/ At(i, "create") /\ (att[i].index = 0 \/ (att[i].start /\ att[i].fresh))
         \/ At(i, "lost") \/ At(i, "ran")
      /\ Reset(i, 1)
      /\ dir' = [dir EXCEPT ![w] = NoDir]
      /\ memory' = [memory EXCEPT ![w] = Cold]
      /\ Return(i, IF att[i].pc = "create" THEN "failed" ELSE "error", 0, 0)
      /\ UNCHANGED <<orchVars, touched, evicting>>

(* From the sentinel on, the body changes the files.                        *)
RunBody(i) ==
  LET w == att[i].worker
      now == Append(memory[w].content, i)
  IN  /\ At(i, "body")
      /\ dir' = [dir EXCEPT ![w].content = now, ![w].dirty = TRUE]
      /\ memory' = [memory EXCEPT ![w].content = now]
      /\ Goto(i, "ran")
      /\ UNCHANGED <<orchVars, touched, evicting, store, faults, bypassed>>

(* The transcript has become inconsistent, or the first turn has lost its   *)
(* live session: after a reset, which takes the sentinel too, the body runs *)
(* again in a new session.  (A later turn that loses its session goes on    *)
(* from its files.)                                                         *)
ReplayBody(i) ==
  LET w == att[i].worker
  IN  /\ At(i, "ran")
      /\ Reset(i, 1)
      /\ dir' = [dir EXCEPT ![w] = Clean(<<i>>, NoMarker)]
      /\ memory' = [memory EXCEPT ![w] = Warm(<<i>>)]
      /\ Goto(i, "replayed")
      /\ UNCHANGED <<orchVars, touched, evicting>>

-----------------------------------------------------------------------------
(* The commit (runTurnCommit).                                              *)

(* A body that was interrupted by the user's stop is not committed: the     *)
(* sentinel stays.                                                          *)
DiscardStopped(i) ==
  /\ At(i, "ran") \/ At(i, "replayed")
  /\ att[i].key <= Len(answers)
  /\ answers[att[i].key] = Stopped
  /\ Return(i, "stopped", i, att[i].base)
  /\ UNCHANGED <<orchVars, workerVars, store, faults, bypassed>>

(* Bug: a commit is a plain put.                                            *)
AlwaysMatches(i) == TRUE

Committing(i) == At(i, "ran") \/ At(i, "replayed") \/ At(i, "commit")

(* The compare-and-swap (commitSnapshot).                                   *)
Matches(i) ==
  LET c == store[att[i].epoch] IN ~Exists(c) \/ c.version = att[i].base

AlreadyCommitted(i) ==
  LET c == store[att[i].epoch]
  IN  c.version = att[i].base + 1 /\ Bears(c, att[i].key)

Write(i, pc) ==
  LET e == att[i].epoch
  IN  /\ store' = [store EXCEPT ![e] = [version |-> att[i].base + 1,
                                        content |-> dir[att[i].worker].content]]
      /\ att' = [Overtaking(e, att) EXCEPT ![i] = [att[i] EXCEPT !.pc = pc]]

CommitSwaps(i) ==
  /\ Committing(i)
  /\ ~AlreadyCommitted(i)
  /\ Matches(i)
  /\ Write(i, "marker")
  /\ UNCHANGED <<orchVars, workerVars, faults, bypassed>>

(* The swap lands and its answer is lost: the commit is tried again.        *)
CommitAnswerLost(i) ==
  /\ Committing(i)
  /\ ~AlreadyCommitted(i)
  /\ Matches(i)
  /\ faults < MaxFaults /\ MoreWork
  /\ faults' = faults + 1
  /\ Write(i, "commit")
  /\ UNCHANGED <<orchVars, workerVars, bypassed>>

(* Another attempt of this turn was first, or this one was, unheard.        *)
CommitFindsOwn(i) ==
  /\ Committing(i)
  /\ AlreadyCommitted(i)
  /\ Goto(i, "adopt")
  /\ UNCHANGED <<orchVars, workerVars, store, faults, bypassed>>

(* Bug: a conflict is taken for a commit.                                   *)
ConflictTakenForCommit(i) ==
  /\ Committing(i)
  /\ ~AlreadyCommitted(i)
  /\ ~Matches(i)
  /\ Return(i, "committed", i, att[i].base + 1)
  /\ UNCHANGED <<orchVars, workerVars, store, faults, bypassed>>

(* The store has moved off the base: the result is returned all the same,   *)
(* the memory of the turn is not published and the sentinel stays.          *)
CommitConflicts(i) ==
  /\ Committing(i)
  /\ ~AlreadyCommitted(i)
  /\ ~Matches(i)
  /\ Return(i, "superseded", i, att[i].base)
  /\ UNCHANGED <<orchVars, workerVars, store, faults, bypassed>>

WriteMarker(i) ==
  LET w == att[i].worker
  IN  /\ At(i, "marker")
      /\ dir' = [dir EXCEPT ![w].marker =
                   Marker(att[i].base + 1, dir[w].content, att[i].epoch)]
      /\ Goto(i, "clear")
      /\ UNCHANGED <<orchVars, memory, touched, evicting, store, faults, bypassed>>

ClearSentinel(i) ==
  /\ At(i, "clear")
  /\ dir' = [dir EXCEPT ![att[i].worker].dirty = FALSE]
  /\ Return(i, "committed", i, att[i].base + 1)
  /\ UNCHANGED <<orchVars, memory, touched, evicting, store, faults, bypassed>>

(* Restore, not replay: the winner's snapshot and result are taken over.    *)
(* If the store has moved on, the result is the attempt's own.              *)
AdoptWinner(i) ==
  LET c == store[att[i].epoch]
  IN  /\ At(i, "adopt")
      /\ Exists(c)
      /\ Restored(att[i].worker, c, att[i].epoch)
      /\ IF Bears(c, att[i].key)
           THEN Return(i, "stored", Last(c.content), att[i].base + 1)
           ELSE Return(i, "overtaken", i, att[i].base + 1)
      /\ UNCHANGED <<orchVars, touched, evicting, store, faults, bypassed>>

(* The snapshot has gone again: that counts as a failed try of the commit.  *)
AdoptNothing(i) ==
  /\ At(i, "adopt")
  /\ ~Exists(store[att[i].epoch])
  /\ memory' = [memory EXCEPT ![att[i].worker] = Cold]
  /\ Goto(i, "commit")
  /\ UNCHANGED <<orchVars, dir, touched, evicting, store, faults, bypassed>>

-----------------------------------------------------------------------------
(* Faults, and the cache eviction of a worker.                              *)

(* A call of the attempt fails for good: the activity throws.               *)
AttemptThrows(i) ==
  /\ i \in Attempts
  /\ att[i].pc \in {"resolve", "recover", "create", "body", "ran", "replayed", "commit",
                   "adopt"}
  /\ faults < MaxFaults /\ MoreWork
  /\ faults' = faults + 1
  /\ Throw(i)
  /\ UNCHANGED <<orchVars, workerVars, store, bypassed>>

(* The worker is restarted.  A restore it was busy with has or has not      *)
(* removed the old directory, and has or has not put the new one in place,  *)
(* which is without a marker then.                                          *)
Crash(w) ==
  /\ faults < MaxFaults /\ MoreWork
  /\ faults' = faults + 1
  /\ att' = [i \in Attempts |->
               IF att[i].worker = w THEN Dead(att[i]) ELSE att[i]]
  /\ \/ UNCHANGED dir
     \/ \E i \in Attempts :
          /\ att[i].worker = w
          /\ att[i].pc \in {"resolve", "recover", "adopt", "lost"}
          /\ LET c == store[att[i].epoch]
             IN  \/ dir' = [dir EXCEPT ![w] = NoDir]
                 \/ Exists(c) /\ dir' = [dir EXCEPT ![w] = Clean(c.content, NoMarker)]
  /\ memory' = [memory EXCEPT ![w] = Cold]
  /\ touched' = touched \ {w}
  /\ evicting' = evicting \ {w}
  /\ UNCHANGED <<orchVars, store, bypassed>>

(* sweepIdleSessions: files with a marker, and files of a session whose     *)
(* chain of epoch 0 is versioned, are a cache and are deleted; others are   *)
(* taken for a legacy session, ...                                          *)
Evict(w) ==
  /\ w \in touched \ evicting
  /\ \A i \in Attempts : att[i].worker = w => ~Active(i)
  /\ memory' = [memory EXCEPT ![w] = Cold]
  /\ IF dir[w].here /\ ~dir[w].marker.set /\ store[0].version < 1
       THEN /\ evicting' = evicting \union {w}
            /\ UNCHANGED <<dir, touched>>
       ELSE /\ dir' = [dir EXCEPT ![w] = NoDir]
            /\ touched' = touched \ {w}
            /\ UNCHANGED evicting
  /\ UNCHANGED <<orchVars, att, store, faults, bypassed>>

(* ... and written to the chain of epoch 0.  A commit that was first is      *)
(* spared if the fence sees it, and overwritten if it lands after the fence. *)
dehydrate(w) ==
  /\ w \in evicting
  /\ evicting' = evicting \ {w}
  /\ touched' = touched \ {w}
  /\ \/ /\ store' = [store EXCEPT ![0] = [version |-> 0, content |-> dir[w].content]]
        /\ att' = Overtaking(0, att)
        /\ bypassed' = bypassed \union {0}
     \/ /\ store[0].version >= 1
        /\ UNCHANGED <<store, att, bypassed>>
  /\ dir' = [dir EXCEPT ![w] = NoDir]
  /\ UNCHANGED <<orchVars, memory, faults>>

-----------------------------------------------------------------------------
Init ==
  /\ asked = 0
  /\ answers = <<>>
  /\ index = 0
  /\ epoch = 0
  /\ starting = FALSE
  /\ att = <<>>
  /\ dir = [w \in Workers |-> NoDir]
  /\ memory = [w \in Workers |-> Cold]
  /\ touched = {}
  /\ evicting = {}
  /\ store = [e \in Epochs |-> NoChain]
  /\ faults = 0
  /\ told = <<>>
  /\ bypassed = {}

Orchestration ==
  \/ Ask
  \/ StopTurn
  \/ Regenerate
  \/ \E w \in Workers : Deliver(w)
  \/ \E i \in 1 .. MaxAttempts : Accept(i)

Preamble(i) ==
  \/ FindCommitted(i)
  \/ UseLocal(i)
  \/ StartFresh(i)
  \/ UseStore(i)
  \/ resolveFromStore(i)
  \/ recoverAlreadyCommitted(i)
  \/ NothingToHydrate(i)

getOrCreate(i) ==
  \/ CreateFirst(i)
  \/ CreateEpoch(i)
  \/ Resume(i)
  \/ ResumeStored(i)
  \/ ResumeLost(i)
  \/ attemptStoreRecovery(i)
  \/ LossyReplay(i)
  \/ CreationFails(i)

runTurnCommit(i) ==
  \/ DiscardStopped(i)
  \/ CommitSwaps(i)
  \/ CommitAnswerLost(i)
  \/ CommitFindsOwn(i)
  \/ CommitConflicts(i)
  \/ WriteMarker(i)
  \/ ClearSentinel(i)
  \/ AdoptWinner(i)
  \/ AdoptNothing(i)

Next ==
  \/ Orchestration
  \/ \E i \in 1 .. MaxAttempts :
       Preamble(i) \/ getOrCreate(i) \/ RunBody(i) \/ ReplayBody(i) \/ runTurnCommit(i) \/ AttemptThrows(i)
  \/ \E w \in Workers : Crash(w) \/ Evict(w) \/ dehydrate(w)

Spec == Init /\ [][Next]_vars

-----------------------------------------------------------------------------
Bodies(s) == {s[n] : n \in 1 .. Len(s)}

Runs == 1 .. MaxAttempts
Hows == {"none", "stored", "committed", "superseded", "overtaken", "stopped", "error", "failed"}
Pcs == {"waiting", "resolve", "recover", "create", "lost", "body", "ran", "replayed", "commit",
        "marker", "clear", "adopt", "done", "dead"}

Answer == [how : Hows, body : 0 .. MaxAttempts, epoch : Epochs]
Attempt == [key : 1 .. MaxTurns, index : 0 .. MaxTurns, epoch : Epochs, start : BOOLEAN,
            worker : Workers, pc : Pcs, base : Nat, fresh : BOOLEAN, passed : BOOLEAN,
            how : Hows, body : 0 .. MaxAttempts]
MarkerFile == [set : BOOLEAN, version : Nat, hash : Seq(Runs), epoch : Epochs]
Directory == [here : BOOLEAN, content : Seq(Runs), marker : MarkerFile, dirty : BOOLEAN]
Session == [live : BOOLEAN, content : Seq(Runs)]
Chain == [version : Nat \union {-1}, content : Seq(Runs)]

(* The state has its types; a turn is over at most once (one answer for     *)
(* each turn asked for), and a marker lies in a directory.                  *)
TypeOK ==
  /\ asked \in 0 .. MaxTurns
  /\ index \in 0 .. MaxTurns
  /\ epoch \in Epochs
  /\ starting \in BOOLEAN
  /\ answers \in Seq(Answer)
  /\ Len(answers) \in {asked - 1, asked}
  /\ att \in Seq(Attempt)
  /\ Len(att) <= MaxAttempts
  /\ dir \in [Workers -> Directory]
  /\ \A w \in Workers : dir[w].marker.set => dir[w].here
  /\ memory \in [Workers -> Session]
  /\ touched \subseteq Workers
  /\ evicting \subseteq touched
  /\ store \in [Epochs -> Chain]
  /\ faults \in 0 .. MaxFaults
  /\ told \in Seq([epoch : Epochs, body : 0 .. MaxAttempts])
  /\ bypassed \subseteq Epochs

(* What the store promises.  Nothing is promised of an epoch once it was    *)
(* bypassed; before, its memory is the content of its chain.                *)
Memory == INSTANCE SessionMemory WITH
  Epochs <- Epochs,
  Runs <- Runs,
  memory <- [e \in Epochs |-> IF e \in bypassed THEN <<>> ELSE store[e].content],
  told <- told,
  forfeited <- bypassed

(* Stored memory only grows, and answers are given only for what it holds:  *)
(* whatever attempts race, are delivered again, crash or lose the answer of *)
(* a commit, a snapshot is replaced only by that one with one body added    *)
(* (the compare-and-swap of commitSnapshot, on a base the local files       *)
(* really have), and an answer accepted as committed names a body that is   *)
(* stored behind those of all answers before it.                            *)
ImplementsMemory == Memory!Spec

(* The warm session of a worker knows what its files say, and clean files  *)
(* are what their marker says, so that trusting a marker that names the     *)
(* stored snapshot (runTurnPreamble) is right.                              *)
LocalIsTrue ==
  \A w \in Workers :
    /\ memory[w].live => dir[w].here /\ memory[w].content = dir[w].content
    /\ dir[w].marker.version >= 1 /\ ~dir[w].dirty => dir[w].content = dir[w].marker.hash

(* No incarnation rises again: the chain of an epoch that a regeneration    *)
(* has begun holds no body of another epoch, although the directory and the *)
(* warm session of the dead epoch stay on every worker that served it.      *)
(* (The chain of epoch 0 may take a body of a later epoch: a session that   *)
(* was replayed has no marker, and a late attempt of epoch 0 trusts it.)    *)
NoResurrection ==
  \A e \in Epochs \ {0} : \A b \in Bodies(store[e].content) : att[b].epoch = e

(* The memory of a turn the orchestration still waits for is given up       *)
(* (unpublishedReason "superseded") only if another writer has moved the    *)
(* chain since the attempt took its base.                                   *)
SupersededOnlyIfOvertaken ==
  \A i \in Attempts : att[i].pc = "done" /\ att[i].how = "superseded" =>
    att[i].passed \/ att[i].epoch \in bypassed
=============================================================================
