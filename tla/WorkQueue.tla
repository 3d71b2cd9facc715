----------------------------- MODULE WorkQueue ------------------------------
(***************************************************************************)
(* The rate limited work queue of client-go as controller.go uses it:      *)
(*                                                                         *)
(*   queue.go           queue, dirty and processing under one lock, and    *)
(*                      the condition variable workers sleep on;           *)
(*   delaying_queue.go  the bounded channel AddAfter sends to, and the     *)
(*                      goroutine waitingLoop that keeps what is not due;  *)
(*   default_rate_limiters.go  the number of failures of each key;         *)
(*   controller.go      handlers that post a key for every event           *)
(*                      (enqueueKanary), workers that take a key, process  *)
(*                      it and retry or forget it (processNextWorkItem,    *)
(*                      handleErr).                                        *)
(*                                                                         *)
(* Time is abstracted: a delay ends at any moment.  The smallest delay of  *)
(* the rate limiter is 5 ms, so AddAfter always goes through the channel.  *)
(* The number of failures is compared with MaxRetries and with nothing     *)
(* else, so it is kept up to MaxRetries.  ShutDown of the delaying queue   *)
(* sets shuttingDown and closes its stopCh at once.                        *)
(***************************************************************************)
EXTENDS Naturals, FiniteSets, Sequences, SequencesExt

CONSTANTS
    Keys,         \* namespace/name of Kanaries
    Workers,      \* goroutines that call processNextWorkItem
    Handlers,     \* goroutines that call enqueueKanary
    None,
    MaxRetries,   \* maxRetries, 15 in the code
    Buffer        \* capacity of waitingForAddCh, 1000 in the code

ASSUME QueueAssumption ==
    /\ None \notin Keys
    /\ IsFiniteSet(Workers)
    /\ MaxRetries \in Nat
    /\ Buffer \in Nat \ {0}

VARIABLES
    queue,         \* keys to be taken, in order
    dirty,         \* keys that need processing
    processing,    \* keys being processed
    shuttingDown,
    channel,       \* waitingForAddCh
    delayed,       \* waitingEntryByData: keys whose delay has not ended
    failures,      \* ItemExponentialFailureRateLimiter.failures
    wk,            \* worker -> [pc, key]
    posting,       \* handler -> the key it is about to send, or None
    streak         \* history: failed turns of a key since it was forgotten

queueVars == <<queue, dirty, processing, shuttingDown, channel, delayed,
               failures, wk, posting, streak>>

Away == [pc |-> "away", key |-> None]
Calling == [pc |-> "get", key |-> None]
Asleep == [pc |-> "asleep", key |-> None]

QueueInit ==
    /\ queue = <<>>
    /\ dirty = {}
    /\ processing = {}
    /\ shuttingDown = FALSE
    /\ channel = <<>>
    /\ delayed = {}
    /\ failures = [k \in Keys |-> 0]
    /\ wk = [w \in Workers |-> Away]
    /\ posting = [h \in Handlers |-> None]
    /\ streak = [k \in Keys |-> 0]

-----------------------------------------------------------------------------
(* queue.go *)

SignalNobody(workers) == {workers}

\* cond.Signal: one of the sleeping workers, if any, looks again.
Signal(workers) ==
    LET sleepers == {v \in Workers : workers[v] = Asleep}
    IN  IF sleepers = {} THEN {workers}
        ELSE {[workers EXCEPT ![v] = Calling] : v \in sleepers}

AddAlways(k) ==
    \/ /\ shuttingDown \/ k \in dirty
       /\ UNCHANGED <<queue, dirty, wk>>
    \/ /\ ~shuttingDown /\ k \notin dirty
       /\ dirty' = dirty \cup {k}
       /\ queue' = Append(queue, k) /\ wk' \in Signal(wk)

\* A key becomes dirty; it is queued unless it is being processed, in which
\* case Done queues it.
Add(k) ==
    \/ /\ shuttingDown \/ k \in dirty
       /\ UNCHANGED <<queue, dirty, wk>>
    \/ /\ ~shuttingDown /\ k \notin dirty
       /\ dirty' = dirty \cup {k}
       /\ IF k \in processing
          THEN UNCHANGED <<queue, wk>>
          ELSE queue' = Append(queue, k) /\ wk' \in Signal(wk)

GetLatest(w) ==
    /\ wk[w] = Calling
    /\ \/ /\ queue # <<>>
          /\ queue' = Front(queue)
          /\ processing' = processing \cup {queue[Len(queue)]}
          /\ dirty' = dirty \ {queue[Len(queue)]}
          /\ wk' = [wk EXCEPT ![w] =
                      [pc |-> "sync", key |-> queue[Len(queue)]]]
       \/ /\ queue = <<>>
          /\ wk' = [wk EXCEPT ![w] = IF shuttingDown THEN Away ELSE Asleep]
          /\ UNCHANGED <<queue, processing, dirty>>
    /\ UNCHANGED <<shuttingDown, channel, delayed, failures, posting, streak>>

\* Get sleeps while the queue is empty and open, and tells the worker to quit
\* when it is empty and shut down.
Get(w) ==
    /\ wk[w] = Calling
    /\ \/ /\ queue # <<>>
          /\ queue' = Tail(queue)
          /\ processing' = processing \cup {Head(queue)}
          /\ dirty' = dirty \ {Head(queue)}
          /\ wk' = [wk EXCEPT ![w] = [pc |-> "sync", key |-> Head(queue)]]
       \/ /\ queue = <<>>
          /\ wk' = [wk EXCEPT ![w] = IF shuttingDown THEN Away ELSE Asleep]
          /\ UNCHANGED <<queue, processing, dirty>>
    /\ UNCHANGED <<shuttingDown, channel, delayed, failures, posting, streak>>

DoneAndClean(w) ==
    /\ wk[w].pc = "done"
    /\ processing' = processing \ {wk[w].key}
    /\ wk' = [wk EXCEPT ![w] = Calling]
    /\ UNCHANGED <<queue, dirty, shuttingDown, channel, delayed, failures,
                   posting, streak>>

\* Done queues a key that became dirty while it was processed.
Done(w) ==
    LET k == wk[w].key
        free == [wk EXCEPT ![w] = Calling]
    IN  /\ wk[w].pc = "done"
        /\ processing' = processing \ {k}
        /\ IF k \in dirty
           THEN queue' = Append(queue, k) /\ wk' \in Signal(free)
           ELSE wk' = free /\ UNCHANGED queue
        /\ UNCHANGED <<dirty, shuttingDown, channel, delayed, failures,
                       posting, streak>>

ShutDown ==
    /\ shuttingDown' = TRUE
    /\ wk' = [v \in Workers |-> IF wk[v] = Asleep THEN Calling ELSE wk[v]]
    /\ UNCHANGED <<queue, dirty, processing, channel, delayed, failures,
                   posting, streak>>

-----------------------------------------------------------------------------
(* delaying_queue.go and default_rate_limiters.go *)

When(k) == [failures EXCEPT ![k] = IF @ < MaxRetries THEN @ + 1 ELSE @]
Forget(k) ==
    /\ failures' = [failures EXCEPT ![k] = 0]
    /\ streak' = [streak EXCEPT ![k] = 0]

SendAtOnce(k) ==
    \/ channel' = Append(channel, k)
    \/ shuttingDown /\ UNCHANGED channel

\* The end of AddAfter: the key is sent as soon as the channel has room, or
\* the queue is found shut down.
Send(k) ==
    \/ Len(channel) < Buffer /\ channel' = Append(channel, k)
    \/ shuttingDown /\ UNCHANGED channel

\* waitingLoop receives a key: it is due already, or it is kept.  A key that
\* is kept already stays, with the earlier of the two times (insert).
Receive ==
    /\ channel # <<>>
    /\ channel' = Tail(channel)
    /\ \/ Add(Head(channel)) /\ UNCHANGED delayed
       \/ /\ delayed' = delayed \cup {Head(channel)}
          /\ UNCHANGED <<queue, dirty, wk>>
    /\ UNCHANGED <<processing, shuttingDown, failures, posting, streak>>

\* The delay of a key ends.
Expire(k) ==
    /\ k \in delayed
    /\ delayed' = delayed \ {k}
    /\ Add(k)
    /\ UNCHANGED <<processing, shuttingDown, channel, failures, posting, streak>>

-----------------------------------------------------------------------------
(* controller.go *)

\* enqueueKanary, for an event or a resync: AddRateLimited counts it like a
\* failure, then sends the key.
enqueueKanary(h, k) ==
    /\ posting[h] = None
    /\ failures' = When(k)
    /\ posting' = [posting EXCEPT ![h] = k]
    /\ UNCHANGED <<queue, dirty, processing, shuttingDown, channel, delayed,
                   wk, streak>>

Enqueued(h) ==
    /\ posting[h] # None
    /\ Send(posting[h])
    /\ posting' = [posting EXCEPT ![h] = None]
    /\ UNCHANGED <<queue, dirty, processing, shuttingDown, delayed, failures,
                   wk, streak>>

\* The loop of worker begins.
Enter(w) ==
    /\ wk[w] = Away
    /\ wk' = [wk EXCEPT ![w] = Calling]
    /\ UNCHANGED <<queue, dirty, processing, shuttingDown, channel, delayed,
                   failures, posting, streak>>

\* handleErr without an error, and with one: the key is sent again until it
\* has failed, or has been added, MaxRetries times.
Succeed(w) ==
    /\ wk[w].pc = "sync"
    /\ Forget(wk[w].key)
    /\ wk' = [wk EXCEPT ![w].pc = "done"]
    /\ UNCHANGED <<queue, dirty, processing, shuttingDown, channel, delayed,
                   posting>>

FailOnceMore(w) ==
    LET k == wk[w].key
    IN  /\ wk[w].pc = "sync"
        /\ IF failures[k] <= MaxRetries
           THEN wk' = [wk EXCEPT ![w].pc = "count"] /\ UNCHANGED <<failures, streak>>
           ELSE Forget(k) /\ wk' = [wk EXCEPT ![w].pc = "done"]
        /\ UNCHANGED <<queue, dirty, processing, shuttingDown, channel,
                       delayed, posting>>

Fail(w) ==
    LET k == wk[w].key
    IN  /\ wk[w].pc = "sync"
        /\ IF failures[k] < MaxRetries
           THEN wk' = [wk EXCEPT ![w].pc = "count"] /\ UNCHANGED <<failures, streak>>
           ELSE Forget(k) /\ wk' = [wk EXCEPT ![w].pc = "done"]
        /\ UNCHANGED <<queue, dirty, processing, shuttingDown, channel,
                       delayed, posting>>

\* AddRateLimited takes the lock of the rate limiter again: handlers may have
\* counted the key since it was compared.
AddRateLimited(w) ==
    /\ wk[w].pc = "count"
    /\ failures' = When(wk[w].key)
    /\ streak' = [streak EXCEPT ![wk[w].key] = @ + 1]
    /\ wk' = [wk EXCEPT ![w].pc = "retry"]
    /\ UNCHANGED <<queue, dirty, processing, shuttingDown, channel, delayed,
                   posting>>

Retry(w) ==
    /\ wk[w].pc = "retry"
    /\ Send(wk[w].key)
    /\ wk' = [wk EXCEPT ![w].pc = "done"]
    /\ UNCHANGED <<queue, dirty, processing, shuttingDown, delayed, failures,
                   posting, streak>>

WorkerStep(w) ==
    \/ Get(w) \/ Succeed(w) \/ Fail(w) \/ AddRateLimited(w) \/ Retry(w)
    \/ Done(w)

\* The queue with its workers and handlers, whoever starts and stops them.
QueueNext ==
    \/ Receive \/ ShutDown
    \/ \E k \in Keys : Expire(k)
    \/ \E h \in Handlers : Enqueued(h) \/ \E k \in Keys : enqueueKanary(h, k)
    \/ \E w \in Workers : Enter(w) \/ WorkerStep(w)

QueueSpec == QueueInit /\ [][QueueNext]_queueVars

-----------------------------------------------------------------------------
(* What must hold in every state *)

QueueTypeOK ==
    /\ queue \in Seq(Keys)
    /\ dirty \subseteq Keys
    /\ processing \subseteq Keys
    /\ shuttingDown \in BOOLEAN
    /\ channel \in Seq(Keys) /\ Len(channel) <= Buffer
    /\ delayed \subseteq Keys
    /\ failures \in [Keys -> 0..MaxRetries]
    /\ wk \in [Workers -> {Away, Calling, Asleep}
                  \cup [pc : {"sync", "count", "retry", "done"}, key : Keys]]
    /\ posting \in [Handlers -> Keys \cup {None}]
    /\ streak \in [Keys -> Nat]

\* queue.go:48-50, "Every element of queue should be in the dirty set and not
\* in the processing set", and the other way round: what is dirty and not in
\* processing is queued, once, so nothing that was marked is forgotten by Done.
QueueHoldsWhatIsDirty ==
    /\ ToSet(queue) = dirty \ processing
    /\ IsInjective(queue)

\* One signal for each key queued is enough (queue.go:105 and 153, Signal, not
\* Broadcast): while a worker sleeps, each queued key has a worker of its own
\* that is awake and on its way to it.
NoSleeperIsMissed ==
    (\E w \in Workers : wk[w] = Asleep) =>
        Len(queue) <= Cardinality({w \in Workers : wk[w] = Calling})

\* handleErr (controller.go:194-209): a key that keeps failing gets at most
\* MaxRetries more turns before it is forgotten, whatever the handlers count
\* between its failures, or between the comparison and the count of one.
RetriesAreBounded == \A k \in Keys : streak[k] <= MaxRetries

-----------------------------------------------------------------------------
(* What the queue implements *)

\* A key can wait in three places.
Waiting == dirty \cup delayed \cup ToSet(channel)

KQ == INSTANCE KeyQueue WITH
        waiting <- Waiting,
        held <- [w \in Workers |-> wk[w].key],
        open <- ~shuttingDown

\* The three places, the locks and the channel amount to
\* KeyQueue: nothing is lost while the queue is open, and no key is held by
\* two workers (controller.go:175-176).
ImplementsKeyQueue == KQ!Spec
=============================================================================
