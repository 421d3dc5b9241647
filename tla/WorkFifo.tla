------------------------------ MODULE WorkFifo ------------------------------
(***************************************************************************)
(* The durable work FIFO of a session (orchestration/queue.ts).            *)
(*                                                                         *)
(* Work that `drain` accepted waits in a fixed number of key/value         *)
(* buckets, each holding a JSON array of bounded length.  The array of     *)
(* buckets never wraps: items are appended to the last occupied bucket,    *)
(* spill into the next one when they do not fit, and are taken from the    *)
(* first occupied bucket.  `decide` takes the next interactive item,       *)
(* merges the prompts that follow it into one turn, and puts back the      *)
(* first item it cannot merge.                                             *)
(*                                                                         *)
(* Items are numbered in arrival order.  An item's `size` is the length of *)
(* its JSON text plus its separator, so that a bucket fits when its sizes  *)
(* add up to at most BucketBytes.                                          *)
(***************************************************************************)
EXTENDS Integers, Sequences, FiniteSets, SequencesExt

CONSTANTS
  BucketCount,   \* FIFO_BUCKET_COUNT
  BucketBytes,   \* MAX_BUCKET_BYTES
  Kinds,         \* kinds of work that arrive
  Sizes,         \* item sizes
  MaxBatch,      \* bound: items one drain pass stashes
  MaxItems       \* bound: items that ever arrive

ASSUME WorkFifoConstants ==
  /\ BucketCount \in Nat \ {0}
  /\ BucketBytes \in Nat \ {0}
  /\ Kinds \subseteq {"prompt", "bootstrap", "answer", "timer"}
  /\ Sizes \subseteq Nat \ {0}
  /\ MaxBatch \in Nat \ {0}
  /\ MaxItems \in Nat

VARIABLES
  bucket,      \* the key/value buckets: bucket index -> sequence of items
  arrived,     \* how many items have been handed to the FIFO (also: the next id)
  \* Observations; no action reads them.
  dispatched,  \* items in the order in which decide dispatched them
  dropped,     \* ids an overflowing append left out
  putBack      \* worst fate of a put-back so far: "head", "appended" or "lost"

vars == <<bucket, arrived, dispatched, dropped, putBack>>

Buckets == 0 .. BucketCount - 1

Item == [id : 1 .. MaxItems, kind : Kinds, size : Sizes]

-----------------------------------------------------------------------------
(* Bucket primitives.                                                       *)

Bytes(s) ==
  LET upTo[n \in 0 .. Len(s)] == IF n = 0 THEN 0 ELSE upTo[n - 1] + s[n].size
  IN  upTo[Len(s)]

Occupied(b) == {i \in Buckets : b[i] # <<>>}

FirstBucket(b) ==
  IF Occupied(b) = {} THEN 0 ELSE CHOOSE i \in Occupied(b) : \A j \in Occupied(b) : i <= j

LastBucket(b) ==
  IF Occupied(b) = {} THEN 0 ELSE CHOOSE i \in Occupied(b) : \A j \in Occupied(b) : i >= j

Ids(s) == {s[i].id : i \in DOMAIN s}

Queued(b) == UNION {Ids(b[i]) : i \in Buckets}

(* Plausible bugs, against which the properties are checked: each stands    *)
(* before the definition it replaces.                                       *)

(* Bug: the fit test looks at the bucket before the item is added.          *)
AppendOneTooMany(acc, item) ==
  LET w == LastBucket(acc.b) IN
  IF Bytes(acc.b[w]) <= BucketBytes THEN [acc EXCEPT !.b[w] = Append(@, item)]
  ELSE IF w + 1 \in Buckets THEN [acc EXCEPT !.b[w + 1] = <<item>>]
  ELSE [acc EXCEPT !.left = Append(@, item)]

(* appendToFifo.  The result names what was left out: the first item that   *)
(* finds no bucket ends the loop, and everything after it is left out too.  *)
AppendOne(acc, item) ==
  IF acc.left # <<>> THEN [acc EXCEPT !.left = Append(@, item)]
  ELSE LET w == LastBucket(acc.b) IN
       CASE Bytes(Append(acc.b[w], item)) <= BucketBytes ->
              [acc EXCEPT !.b[w] = Append(@, item)]
         [] Bytes(Append(acc.b[w], item)) > BucketBytes /\ w + 1 \in Buckets ->
              [acc EXCEPT !.b[w + 1] = <<item>>]
         [] OTHER -> [acc EXCEPT !.left = <<item>>]

appendToFifo(b, items) ==
  LET after[n \in 0 .. Len(items)] ==
        IF n = 0 THEN [b |-> b, left |-> <<>>] ELSE AppendOne(after[n - 1], items[n])
  IN  after[Len(items)]

Fits(b, item) == Bytes(<<item>> \o b[FirstBucket(b)]) <= BucketBytes

(* Bug: the put-back appends, as an earlier version of the code did.        *)
PrependByAppend(b, item) == appendToFifo(b, <<item>>)

(* prependToFifo: the head of the first occupied bucket, or else an append. *)
prependToFifo(b, item) ==
  IF Fits(b, item)
  THEN [b |-> [b EXCEPT ![FirstBucket(b)] = <<item>> \o @], left |-> <<>>]
  ELSE appendToFifo(b, <<item>>)

(* Bug: the pop does not write the shortened bucket back.                   *)
PopWithoutWrite(b) == [item |-> Head(b[FirstBucket(b)]), b |-> b]

popFifoItem(b) == [item |-> Head(b[FirstBucket(b)]),
                   b    |-> [b EXCEPT ![FirstBucket(b)] = Tail(@)]]

Interactive(item) == item.kind \in {"prompt", "bootstrap", "answer"}

(* popFirstFifoItemMatching, for items known to be present.                 *)
popFirstInteractive(b) ==
  LET has(i) == \E k \in DOMAIN b[i] : Interactive(b[i][k])
      i == CHOOSE i \in Buckets : has(i) /\ \A j \in 0 .. i - 1 : ~has(j)
      k == CHOOSE k \in DOMAIN b[i] :
             Interactive(b[i][k]) /\ \A m \in 1 .. k - 1 : ~Interactive(b[i][m])
  IN  [item |-> b[i][k], b |-> [b EXCEPT ![i] = RemoveAt(@, k)]]

popNextDispatchFifoItem(b) ==
  IF \E i \in Buckets : \E k \in DOMAIN b[i] : Interactive(b[i][k])
  THEN popFirstInteractive(b)
  ELSE popFifoItem(b)

Prompt(item) == item.kind \in {"prompt", "bootstrap"}

(* One round of decide's merge loop: a head that merges with the dispatched *)
(* prompt `first` is taken, one that does not is put back and ends it.      *)
Peek(first, acc) ==
  IF acc.done \/ Occupied(acc.b) = {} THEN [acc EXCEPT !.done = TRUE]
  ELSE LET p == popFifoItem(acc.b) IN
       IF p.item.kind = first.kind
       THEN [acc EXCEPT !.b = p.b, !.taken = Append(@, p.item)]
       ELSE LET back == prependToFifo(p.b, p.item) IN
            [acc EXCEPT !.b = back.b, !.left = back.left, !.done = TRUE,
                        !.appended = ~Fits(p.b, p.item)]

(* The loop: a round for each item queued, and one that finds none.         *)
MergePrompts(first, b) ==
  LET rounds == Cardinality(Queued(b)) + 1
      after[n \in 0 .. rounds] ==
        IF n = 0
        THEN [b |-> b, taken |-> <<first>>, left |-> <<>>, done |-> FALSE, appended |-> FALSE]
        ELSE Peek(first, after[n - 1])
  IN  after[rounds]

-----------------------------------------------------------------------------
Init ==
  /\ bucket = [i \in Buckets |-> <<>>]
  /\ arrived = 0
  /\ dispatched = <<>>
  /\ dropped = {}
  /\ putBack = "head"

(* drain ends by appending its stash (appendPromptStashToFifo).             *)
Drain ==
  \E n \in 1 .. MaxBatch : \E stash \in [1 .. n -> [kind : Kinds, size : Sizes]] :
    /\ arrived + n <= MaxItems
    /\ LET items == [i \in 1 .. n |-> [id |-> arrived + i, kind |-> stash[i].kind,
                                       size |-> stash[i].size]]
           r == appendToFifo(bucket, items)
       IN /\ bucket' = r.b
          /\ dropped' = dropped \union Ids(r.left)
    /\ arrived' = arrived + n
    /\ UNCHANGED <<dispatched, putBack>>

(* decide, priority 3, for a prompt: one turn for a run of prompts.         *)
DecidePrompt ==
  /\ Occupied(bucket) # {}
  /\ LET p == popNextDispatchFifoItem(bucket)
         m == MergePrompts(p.item, p.b)
     IN /\ Prompt(p.item)
        /\ bucket' = m.b
        /\ dispatched' = dispatched \o m.taken
        /\ dropped' = dropped \union Ids(m.left)
        /\ putBack' = CASE m.left # <<>> -> "lost"
                         [] m.left = <<>> /\ m.appended /\ putBack = "head" -> "appended"
                         [] OTHER -> putBack
  /\ UNCHANGED arrived

(* decide, priority 3, for an answer or a fired timer.                      *)
DecideOther ==
  /\ Occupied(bucket) # {}
  /\ LET p == popNextDispatchFifoItem(bucket)
     IN /\ ~Prompt(p.item)
        /\ bucket' = p.b
        /\ dispatched' = Append(dispatched, p.item)
  /\ UNCHANGED <<arrived, dropped, putBack>>

Next == Drain \/ DecidePrompt \/ DecideOther

Spec == Init /\ [][Next]_vars

-----------------------------------------------------------------------------
(* The type invariant.  The writers never grow a stored bucket past         *)
(* MAX_BUCKET_BYTES: one over the limit holds a single item that is.        *)
TypeOK ==
  /\ bucket \in [Buckets -> Seq(Item)]
  /\ \A i \in Buckets : Bytes(bucket[i]) > BucketBytes => Len(bucket[i]) = 1
  /\ arrived \in 0 .. MaxItems
  /\ dispatched \in Seq(Item)
  /\ dropped \subseteq 1 .. MaxItems
  /\ putBack \in {"head", "appended", "lost"}

(* No item is twice in a sequence, or twice in the buckets.                 *)
OnceIn(s) == \A i, j \in DOMAIN s : s[i].id = s[j].id => i = j

OnceQueued(b) ==
  \A i, j \in Buckets : \A k \in DOMAIN b[i], m \in DOMAIN b[j] :
    b[i][k].id = b[j][m].id => i = j /\ k = m

(* Every item handed to the FIFO is queued, dispatched or dropped by an     *)
(* overflow, and in exactly one of these: the pop / merge / put-back loop   *)
(* of decide neither duplicates nor forgets an item.                        *)
EachItemInOnePlace ==
  /\ Queued(bucket) \union Ids(dispatched) \union dropped = 1 .. arrived
  /\ OnceQueued(bucket) /\ OnceIn(dispatched)
  /\ Queued(bucket) \intersect Ids(dispatched) = {}
  /\ (Queued(bucket) \union Ids(dispatched)) \intersect dropped = {}

(* Of two items of the same class, people's words or timers, the first one  *)
(* arrived before the other.                                                *)
InTurn(x, y) == (Interactive(x) <=> Interactive(y)) => x.id < y.id

(* What was dispatched, then the buckets one after the other, are in turn.  *)
InOrder(s, b) ==
  /\ \A i, j \in DOMAIN s : i < j => InTurn(s[i], s[j])
  /\ \A i \in DOMAIN s, j \in Buckets : \A k \in DOMAIN b[j] : InTurn(s[i], b[j][k])
  /\ \A i, j \in Buckets : \A k \in DOMAIN b[i], m \in DOMAIN b[j] :
       i < j \/ (i = j /\ k < m) => InTurn(b[i][k], b[j][m])

(* As long as every put-back found room at the head, people's words are     *)
(* dispatched in the order in which they arrived although timers are        *)
(* overtaken, and timers keep their order among themselves.                 *)
DispatchedInArrivalOrder == putBack = "head" => InOrder(dispatched, bucket)
=============================================================================
