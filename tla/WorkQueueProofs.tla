--------------------------- MODULE WorkQueueProofs --------------------------
(***************************************************************************)
(* Theorems about WorkQueue, for any number of keys, workers and handlers, *)
(* any number of retries and any capacity of the channel.                  *)
(***************************************************************************)
EXTENDS WorkQueue, FiniteSetTheorems, TLAPS

\* The states a worker can be in.
WorkerStates ==
    {Away, Calling, Asleep} \cup [pc : {"sync", "count", "retry", "done"}, key : Keys]

-----------------------------------------------------------------------------
(* Sequences, and the operators the actions are built from *)

\* What Append does to the elements of a sequence.
LEMMA AppendElements ==
    ASSUME NEW S, NEW q \in Seq(S), NEW x \in S
    PROVE  /\ Append(q, x) \in Seq(S)
           /\ Len(Append(q, x)) = Len(q) + 1
           /\ ToSet(Append(q, x)) = ToSet(q) \cup {x}
<1>1. /\ Append(q, x) \in Seq(S)
      /\ Len(Append(q, x)) = Len(q) + 1
      /\ Len(q) \in Nat
  OBVIOUS
<1>2. ASSUME NEW y \in ToSet(Append(q, x)) PROVE y \in ToSet(q) \cup {x}
  BY <1>1 DEF ToSet
<1>3. ASSUME NEW y \in ToSet(q) PROVE y \in ToSet(Append(q, x))
  <2>1. PICK i \in DOMAIN q : y = q[i]
    BY DEF ToSet
  <2>2. i \in DOMAIN Append(q, x) /\ Append(q, x)[i] = q[i]
    BY <1>1, <2>1
  <2> QED
    BY <2>1, <2>2 DEF ToSet
<1>4. x \in ToSet(Append(q, x))
  <2>1. /\ Len(q) + 1 \in DOMAIN Append(q, x)
        /\ Append(q, x)[Len(q) + 1] = x
    BY <1>1
  <2> QED
    BY <2>1 DEF ToSet
<1> QED
  BY <1>1, <1>2, <1>3, <1>4

\* What Head and Tail do to them.
LEMMA TailElements ==
    ASSUME NEW S, NEW q \in Seq(S), q # <<>>
    PROVE  /\ Head(q) \in S
           /\ Tail(q) \in Seq(S)
           /\ Len(Tail(q)) = Len(q) - 1
           /\ ToSet(q) = {Head(q)} \cup ToSet(Tail(q))
<1>1. /\ Head(q) \in S /\ Tail(q) \in Seq(S)
      /\ Len(q) \in Nat \ {0} /\ Len(Tail(q)) = Len(q) - 1
      /\ Head(q) = q[1]
  OBVIOUS
<1>2. \A i \in 1..Len(q) - 1 : Tail(q)[i] = q[i + 1]
  OBVIOUS
<1>3. DOMAIN q = 1..Len(q) /\ DOMAIN Tail(q) = 1..Len(q) - 1
  BY <1>1
<1>4. ASSUME NEW y \in ToSet(q) PROVE y \in {Head(q)} \cup ToSet(Tail(q))
  <2>1. PICK i \in 1..Len(q) : y = q[i]
    BY <1>3 DEF ToSet
  <2>2. CASE i = 1
    BY <1>1, <2>1, <2>2
  <2>3. CASE i # 1
    <3>1. i - 1 \in 1..Len(q) - 1 /\ Tail(q)[i - 1] = q[(i - 1) + 1]
      BY <1>1, <1>2, <2>3
    <3>2. Tail(q)[i - 1] = y
      BY <2>1, <3>1
    <3> QED
      BY <1>3, <3>1, <3>2 DEF ToSet
  <2> QED
    BY <2>2, <2>3
<1>5. ASSUME NEW y \in ToSet(Tail(q)) PROVE y \in ToSet(q)
  <2>1. PICK i \in 1..Len(q) - 1 : y = Tail(q)[i]
    BY <1>3 DEF ToSet
  <2>2. i + 1 \in 1..Len(q) /\ y = q[i + 1]
    BY <1>1, <1>2, <2>1
  <2> QED
    BY <1>3, <2>2 DEF ToSet
<1>6. Head(q) \in ToSet(q)
  BY <1>1, <1>3 DEF ToSet
<1> QED
  BY <1>1, <1>4, <1>5, <1>6

\* A key that is not in the queue may be appended to it.
LEMMA AppendDistinct ==
    ASSUME NEW S, NEW q \in Seq(S), NEW x \in S, x \notin ToSet(q),
           IsInjective(q)
    PROVE  IsInjective(Append(q, x))
<1> SUFFICES ASSUME NEW p, p = Append(q, x)
             PROVE  IsInjective(p)
  BY Zenon
<1>1. /\ Len(q) \in Nat /\ Len(p) = Len(q) + 1
      /\ DOMAIN p = 1..Len(q) + 1 /\ DOMAIN q = 1..Len(q)
      /\ p[Len(q) + 1] = x
      /\ \A i \in 1..Len(q) : p[i] = q[i]
  OBVIOUS
<1>2. \A i \in 1..Len(q) : q[i] # x
  BY <1>1 DEF ToSet
<1>3. \A i, j \in 1..Len(q) : q[i] = q[j] => i = j
  BY <1>1 DEF IsInjective
<1>4. \A i, j \in 1..Len(q) + 1 : p[i] = p[j] => i = j
  <2> SUFFICES ASSUME NEW i \in 1..Len(q) + 1, NEW j \in 1..Len(q) + 1,
                      p[i] = p[j]
               PROVE  i = j
    OBVIOUS
  <2>1. (i \in 1..Len(q) \/ i = Len(q) + 1) /\ (j \in 1..Len(q) \/ j = Len(q) + 1)
    BY <1>1
  <2> QED
    BY <1>1, <1>2, <1>3, <2>1
<1> QED
  BY <1>1, <1>4 DEF IsInjective

\* Without its head the queue holds each key once as before, and not the head.
LEMMA TailDistinct ==
    ASSUME NEW S, NEW q \in Seq(S), q # <<>>, IsInjective(q)
    PROVE  IsInjective(Tail(q)) /\ Head(q) \notin ToSet(Tail(q))
<1>1. /\ Len(q) \in Nat \ {0} /\ Head(q) = q[1]
      /\ DOMAIN q = 1..Len(q) /\ DOMAIN Tail(q) = 1..Len(q) - 1
      /\ \A i \in 1..Len(q) - 1 : Tail(q)[i] = q[i + 1]
  OBVIOUS
<1>2. \A i, j \in 1..Len(q) : q[i] = q[j] => i = j
  BY <1>1 DEF IsInjective
<1>3. \A i \in 1..Len(q) - 1 : Tail(q)[i] # q[1]
  BY <1>1, <1>2
<1>4. \A i, j \in 1..Len(q) - 1 : Tail(q)[i] = Tail(q)[j] => i = j
  <2> SUFFICES ASSUME NEW i \in 1..Len(q) - 1, NEW j \in 1..Len(q) - 1,
                      Tail(q)[i] = Tail(q)[j]
               PROVE  i = j
    OBVIOUS
  <2>1. /\ i + 1 \in 1..Len(q) /\ j + 1 \in 1..Len(q)
        /\ q[i + 1] = q[j + 1]
    BY <1>1
  <2>2. i + 1 = j + 1
    BY <1>2, <2>1
  <2> QED
    BY <2>2
<1> QED
  BY <1>1, <1>3, <1>4 DEF IsInjective, ToSet

\* A signal leaves every worker's key alone, and either nobody sleeps and
\* nothing changes or one sleeper looks again.
LEMMA SignalEffect ==
    ASSUME NEW f \in [Workers -> WorkerStates], NEW g \in Signal(f)
    PROVE  /\ g \in [Workers -> WorkerStates]
           /\ \A w \in Workers : g[w].key = f[w].key
           /\ \/ g = f /\ \A w \in Workers : f[w] # Asleep
              \/ \E v \in Workers : f[v] = Asleep /\ g = [f EXCEPT ![v] = Calling]
<1> DEFINE sleepers == {v \in Workers : f[v] = Asleep}
<1>1. CASE sleepers = {}
  <2>1. g = f
    BY <1>1 DEF Signal
  <2> QED
    BY <1>1, <2>1
<1>2. CASE sleepers # {}
  <2>1. PICK v \in Workers : f[v] = Asleep /\ g = [f EXCEPT ![v] = Calling]
    BY <1>2 DEF Signal
  <2>2. Calling \in WorkerStates /\ Asleep.key = Calling.key
    BY DEF WorkerStates, Calling, Asleep
  <2> QED
    BY <2>1, <2>2
<1> QED
  BY <1>1, <1>2

\* The states of a worker.
LEMMA WorkerStateFacts ==
    /\ Away.key = None /\ Calling.key = None /\ Asleep.key = None
    /\ Away # Calling /\ Away # Asleep /\ Calling # Asleep
    /\ {Away, Calling, Asleep} \subseteq WorkerStates
    /\ \A s \in WorkerStates :
          /\ s.key \in Keys \cup {None}
          /\ s.key # None <=> s.pc \in {"sync", "count", "retry", "done"}
          /\ s.key = None <=> s \in {Away, Calling, Asleep}
    /\ \A k \in Keys : \A pc \in {"sync", "count", "retry", "done"} :
          [pc |-> pc, key |-> k] \in WorkerStates
BY QueueAssumption DEF WorkerStates, Away, Calling, Asleep

-----------------------------------------------------------------------------
(* Types *)

\* Every variable of the queue and its users.
LEMMA AddType ==
    ASSUME QueueTypeOK, NEW k \in Keys, Add(k)
    PROVE  /\ queue' \in Seq(Keys)
           /\ dirty' \subseteq Keys
           /\ wk' \in [Workers -> WorkerStates]
<1>1. CASE UNCHANGED <<queue, dirty, wk>>
  BY <1>1 DEF QueueTypeOK, WorkerStates
<1>2. CASE dirty' = dirty \cup {k} /\ UNCHANGED <<queue, wk>>
  BY <1>2 DEF QueueTypeOK, WorkerStates
<1>3. CASE dirty' = dirty \cup {k} /\ queue' = Append(queue, k) /\ wk' \in Signal(wk)
  <2>1. wk \in [Workers -> WorkerStates]
    BY DEF QueueTypeOK, WorkerStates
  <2>2. wk' \in [Workers -> WorkerStates]
    BY <1>3, <2>1, SignalEffect
  <2> QED
    BY <1>3, <2>2 DEF QueueTypeOK
<1> QED
  BY <1>1, <1>2, <1>3 DEF Add

\* A key that is sent finds room in the channel, or is dropped.
LEMMA SendType ==
    ASSUME QueueTypeOK, NEW k \in Keys, Send(k)
    PROVE  channel' \in Seq(Keys) /\ Len(channel') <= Buffer
<1>1. /\ Buffer \in Nat /\ Len(channel) \in Nat
      /\ channel \in Seq(Keys) /\ Len(channel) <= Buffer
  BY QueueAssumption DEF QueueTypeOK
<1>2. Append(channel, k) \in Seq(Keys) /\ Len(Append(channel, k)) = Len(channel) + 1
  BY <1>1, AppendElements
<1> QED
  BY <1>1, <1>2 DEF Send

\* Each step keeps every type.
LEMMA TypeStep ==
    ASSUME QueueTypeOK, [QueueNext]_queueVars
    PROVE  QueueTypeOK'
<1> USE DEF WorkerStates
<1>1. CASE UNCHANGED queueVars
  BY <1>1 DEF QueueTypeOK, queueVars
<1>2. CASE Receive
  <2>1. Head(channel) \in Keys /\ channel' \in Seq(Keys) /\ Len(channel') <= Buffer
    <3>1. /\ channel # <<>> /\ channel' = Tail(channel)
          /\ channel \in Seq(Keys) /\ Len(channel) <= Buffer /\ Buffer \in Nat
      BY <1>2, QueueAssumption DEF Receive, QueueTypeOK
    <3> QED
      BY <3>1, TailElements
  <2>2. CASE Add(Head(channel)) /\ UNCHANGED delayed
    BY <1>2, <2>1, <2>2, AddType DEF QueueTypeOK, Receive
  <2>3. CASE delayed' = delayed \cup {Head(channel)} /\ UNCHANGED <<queue, dirty, wk>>
    BY <1>2, <2>1, <2>3 DEF QueueTypeOK, Receive
  <2> QED
    BY <1>2, <2>2, <2>3 DEF Receive
<1>3. CASE ShutDown
  <2>1. wk' \in [Workers -> WorkerStates]
    BY <1>3 DEF ShutDown, QueueTypeOK
  <2> QED
    BY <1>3, <2>1 DEF QueueTypeOK, ShutDown
<1>4. ASSUME NEW k \in Keys, Expire(k) PROVE QueueTypeOK'
  BY <1>4, AddType DEF QueueTypeOK, Expire
<1>5. ASSUME NEW h \in Handlers, Enqueued(h) PROVE QueueTypeOK'
  <2>1. posting[h] \in Keys
    BY <1>5 DEF Enqueued, QueueTypeOK
  <2>2. channel' \in Seq(Keys) /\ Len(channel') <= Buffer
    BY <1>5, <2>1, SendType DEF Enqueued
  <2>3. posting' \in [Handlers -> Keys \cup {None}]
    BY <1>5 DEF Enqueued, QueueTypeOK
  <2> QED
    BY <1>5, <2>2, <2>3 DEF QueueTypeOK, Enqueued
<1>6. ASSUME NEW h \in Handlers, NEW k \in Keys, enqueueKanary(h, k)
      PROVE  QueueTypeOK'
  <2>1. failures' \in [Keys -> 0..MaxRetries]
    BY <1>6, QueueAssumption DEF enqueueKanary, When, QueueTypeOK
  <2>2. posting' \in [Handlers -> Keys \cup {None}]
    BY <1>6 DEF enqueueKanary, QueueTypeOK
  <2> QED
    BY <1>6, <2>1, <2>2 DEF QueueTypeOK, enqueueKanary
<1>7. ASSUME NEW w \in Workers, Enter(w) PROVE QueueTypeOK'
  <2>1. wk' \in [Workers -> WorkerStates]
    BY <1>7 DEF Enter, QueueTypeOK
  <2> QED
    BY <1>7, <2>1 DEF QueueTypeOK, Enter
<1>8. ASSUME NEW w \in Workers, Get(w) PROVE QueueTypeOK'
  <2>1. CASE /\ queue # <<>>
             /\ queue' = Tail(queue)
             /\ processing' = processing \cup {Head(queue)}
             /\ dirty' = dirty \ {Head(queue)}
             /\ wk' = [wk EXCEPT ![w] = [pc |-> "sync", key |-> Head(queue)]]
    <3>1. Head(queue) \in Keys /\ queue' \in Seq(Keys)
      BY <2>1, TailElements DEF QueueTypeOK
    <3>2. wk' \in [Workers -> WorkerStates]
      BY <2>1, <3>1 DEF QueueTypeOK
    <3> QED
      BY <1>8, <2>1, <3>1, <3>2 DEF QueueTypeOK, Get
  <2>2. CASE /\ wk' = [wk EXCEPT ![w] = IF shuttingDown THEN Away ELSE Asleep]
             /\ UNCHANGED <<queue, processing, dirty>>
    <3>1. wk' \in [Workers -> WorkerStates]
      BY <2>2 DEF QueueTypeOK
    <3> QED
      BY <1>8, <2>2, <3>1 DEF QueueTypeOK, Get
  <2> QED
    BY <1>8, <2>1, <2>2 DEF Get
<1>9. ASSUME NEW w \in Workers, Succeed(w) \/ Fail(w) \/ AddRateLimited(w) PROVE QueueTypeOK'
  <2>1. wk[w].key \in Keys
    BY <1>9, WorkerStateFacts DEF Succeed, Fail, AddRateLimited, QueueTypeOK
  <2>2. wk' \in [Workers -> WorkerStates]
    <3>1. PICK pc \in {"count", "retry", "done"} : wk' = [wk EXCEPT ![w].pc = pc]
      BY <1>9 DEF Succeed, Fail, AddRateLimited
    <3>2. wk[w] \in [pc : {"sync", "count", "retry", "done"}, key : Keys]
      BY <1>9 DEF Succeed, Fail, AddRateLimited, QueueTypeOK, Away, Calling, Asleep
    <3>3. PICK n : n = [wk[w] EXCEPT !.pc = pc]
      OBVIOUS
    <3>4. n \in WorkerStates
      BY <3>2, <3>3 DEF WorkerStates
    <3>5. wk \in [Workers -> WorkerStates] /\ wk' = [wk EXCEPT ![w] = n]
      BY <3>1, <3>3 DEF QueueTypeOK, WorkerStates
    <3> QED
      BY <3>4, <3>5
  <2>3. failures' \in [Keys -> 0..MaxRetries]
    <3>1. failures \in [Keys -> 0..MaxRetries] /\ MaxRetries \in Nat
      BY QueueAssumption DEF QueueTypeOK
    <3>2. \/ failures' = failures
          \/ failures' = [failures EXCEPT ![wk[w].key] = 0]
          \/ failures' = When(wk[w].key)
      BY <1>9 DEF Succeed, Fail, AddRateLimited, Forget
    <3> QED
      BY <2>1, <3>1, <3>2 DEF When
  <2>4. streak' \in [Keys -> Nat]
    <3>1. streak \in [Keys -> Nat]
      BY DEF QueueTypeOK
    <3>2. \/ streak' = streak
          \/ streak' = [streak EXCEPT ![wk[w].key] = 0]
          \/ streak' = [streak EXCEPT ![wk[w].key] = @ + 1]
      BY <1>9 DEF Succeed, Fail, AddRateLimited, Forget
    <3> QED
      BY <2>1, <3>1, <3>2
  <2> QED
    BY <1>9, <2>2, <2>3, <2>4 DEF QueueTypeOK, Succeed, Fail, AddRateLimited
<1>10. ASSUME NEW w \in Workers, Retry(w) PROVE QueueTypeOK'
  <2>1. wk[w] \in [pc : {"sync", "count", "retry", "done"}, key : Keys]
    BY <1>10 DEF Retry, QueueTypeOK, Away, Calling, Asleep
  <2>2. wk' \in [Workers -> WorkerStates]
    BY <1>10, <2>1 DEF Retry, QueueTypeOK
  <2>3. channel' \in Seq(Keys) /\ Len(channel') <= Buffer
    BY <1>10, <2>1, SendType DEF Retry
  <2> QED
    BY <1>10, <2>2, <2>3 DEF QueueTypeOK, Retry
<1>11. ASSUME NEW w \in Workers, Done(w) PROVE QueueTypeOK'
  <2> DEFINE free == [wk EXCEPT ![w] = Calling]
  <2>1. wk[w].key \in Keys /\ free \in [Workers -> WorkerStates]
    BY <1>11, WorkerStateFacts DEF Done, QueueTypeOK
  <2>2. queue' \in Seq(Keys)
    <3>1. queue' = Append(queue, wk[w].key) \/ queue' = queue
      BY <1>11 DEF Done
    <3>2. queue \in Seq(Keys)
      BY DEF QueueTypeOK
    <3>3. Append(queue, wk[w].key) \in Seq(Keys)
      BY <2>1, <3>2, AppendElements
    <3> QED
      BY <3>1, <3>2, <3>3
  <2>3. wk' \in Signal(free) \/ wk' = free
    BY <1>11 DEF Done
  <2> HIDE DEF free
  <2>4. wk' \in [Workers -> WorkerStates]
    BY <2>1, <2>3, SignalEffect
  <2> QED
    BY <1>11, <2>2, <2>4 DEF QueueTypeOK, Done
<1> QED
  BY <1>1, <1>2, <1>3, <1>4, <1>5, <1>6, <1>7, <1>8, <1>9, <1>10, <1>11
     DEF QueueNext, WorkerStep

\* QueueTypeOK holds in every state: the channel never holds more than its
\* capacity, and the count of failures never passes MaxRetries.
THEOREM QueueTypeCorrect == QueueSpec => []QueueTypeOK
<1>1. QueueInit => QueueTypeOK
  <2> SUFFICES ASSUME QueueInit PROVE QueueTypeOK
    OBVIOUS
  <2>1. /\ <<>> \in Seq(Keys) /\ Len(<<>>) = 0 /\ 0 <= Buffer
        /\ 0 \in 0..MaxRetries
    BY QueueAssumption
  <2>2. /\ queue \in Seq(Keys) /\ channel \in Seq(Keys) /\ Len(channel) <= Buffer
        /\ failures \in [Keys -> 0..MaxRetries] /\ streak \in [Keys -> Nat]
    BY <2>1 DEF QueueInit
  <2>3. /\ dirty \subseteq Keys /\ processing \subseteq Keys /\ delayed \subseteq Keys
        /\ shuttingDown \in BOOLEAN
        /\ wk \in [Workers -> WorkerStates]
        /\ posting \in [Handlers -> Keys \cup {None}]
    BY WorkerStateFacts DEF QueueInit
  <2> QED
    BY <2>2, <2>3 DEF QueueTypeOK, WorkerStates
<1>2. QueueTypeOK /\ [QueueNext]_queueVars => QueueTypeOK'
  BY TypeStep
<1> QED
  BY <1>1, <1>2, PTL DEF QueueSpec

-----------------------------------------------------------------------------
(* What is queued, and who holds what *)

\* No key is held by two workers.
OneHolder ==
    \A v, w \in Workers : wk[v].key = wk[w].key /\ wk[v].key # None => v = w

\* What the queue takes for processed is what the workers hold.
ProcessingIsHeld ==
    \A k \in Keys : k \in processing <=> \E w \in Workers : wk[w].key = k

\* Both are facts about the keys of the workers and about processing only.
LEMMA KeysKept ==
    ASSUME OneHolder, ProcessingIsHeld, processing' = processing,
           \A w \in Workers : wk[w].key' = wk[w].key
    PROVE  OneHolder' /\ ProcessingIsHeld'
BY DEF OneHolder, ProcessingIsHeld

\* A key that is added is queued unless it is dirty already or held.
LEMMA AddQueues ==
    ASSUME QueueTypeOK, QueueHoldsWhatIsDirty, NEW k \in Keys, Add(k),
           processing' = processing
    PROVE  /\ QueueHoldsWhatIsDirty'
           /\ \A w \in Workers : wk[w].key' = wk[w].key
<1>1. queue \in Seq(Keys) /\ wk \in [Workers -> WorkerStates]
  BY DEF QueueTypeOK, WorkerStates
<1>2. ToSet(queue) = dirty \ processing /\ IsInjective(queue)
  BY DEF QueueHoldsWhatIsDirty
<1>3. CASE UNCHANGED <<queue, dirty, wk>>
  <2>1. ToSet(queue)' = dirty' \ processing' /\ IsInjective(queue)'
    BY <1>2, <1>3
  <2> QED
    BY <1>3, <2>1 DEF QueueHoldsWhatIsDirty
<1>4. CASE k \in processing /\ dirty' = dirty \cup {k} /\ UNCHANGED <<queue, wk>>
  <2>1. ToSet(queue)' = dirty' \ processing' /\ IsInjective(queue)'
    BY <1>2, <1>4
  <2> QED
    BY <1>4, <2>1 DEF QueueHoldsWhatIsDirty
<1>5. CASE /\ k \notin processing /\ k \notin dirty /\ dirty' = dirty \cup {k}
           /\ queue' = Append(queue, k) /\ wk' \in Signal(wk)
  <2>1. k \notin ToSet(queue)
    BY <1>2, <1>5
  <2>2. ToSet(Append(queue, k)) = dirty' \ processing'
    BY <1>1, <1>2, <1>5, AppendElements
  <2>3. IsInjective(Append(queue, k))
    BY <1>1, <1>2, <2>1, AppendDistinct
  <2>4. \A w \in Workers : wk'[w].key = wk[w].key
    BY <1>1, <1>5, SignalEffect
  <2> QED
    BY <1>5, <2>2, <2>3, <2>4 DEF QueueHoldsWhatIsDirty
<1> QED
  BY <1>3, <1>4, <1>5 DEF Add

\* The inductive invariant of the queue.
HoldInv == QueueHoldsWhatIsDirty /\ OneHolder /\ ProcessingIsHeld

\* The worker that takes a key is its only holder.
LEMMA GetHolds ==
    ASSUME QueueTypeOK, HoldInv, NEW w \in Workers, Get(w)
    PROVE  HoldInv'
<1>1. queue \in Seq(Keys) /\ wk \in [Workers -> WorkerStates]
  BY DEF QueueTypeOK, WorkerStates
<1>2. ToSet(queue) = dirty \ processing /\ IsInjective(queue)
  BY DEF HoldInv, QueueHoldsWhatIsDirty
<1>3. wk[w].key = None
  BY WorkerStateFacts DEF Get
<1>4. CASE /\ queue = <<>>
           /\ wk' = [wk EXCEPT ![w] = IF shuttingDown THEN Away ELSE Asleep]
           /\ UNCHANGED <<queue, processing, dirty>>
  <2>1. \A v \in Workers : wk'[v].key = wk[v].key
    BY <1>1, <1>3, <1>4, WorkerStateFacts
  <2>2. OneHolder' /\ ProcessingIsHeld'
    BY <1>4, <2>1, KeysKept DEF HoldInv
  <2>3. QueueHoldsWhatIsDirty'
    BY <1>4 DEF HoldInv, QueueHoldsWhatIsDirty
  <2> QED
    BY <2>2, <2>3 DEF HoldInv
<1>5. CASE /\ queue # <<>>
           /\ queue' = Tail(queue)
           /\ processing' = processing \cup {Head(queue)}
           /\ dirty' = dirty \ {Head(queue)}
           /\ wk' = [wk EXCEPT ![w] = [pc |-> "sync", key |-> Head(queue)]]
  <2> DEFINE k == Head(queue)
  <2>1. k \in Keys /\ k \in dirty \ processing /\ k # None
    BY <1>1, <1>2, <1>5, TailElements, QueueAssumption
  <2>2. \A v \in Workers : wk[v].key # k
    BY <2>1 DEF HoldInv, ProcessingIsHeld
  <2>3. \A v \in Workers : wk'[v].key = IF v = w THEN k ELSE wk[v].key
    BY <1>1, <1>5
  <2>4. ToSet(Tail(queue)) = dirty' \ processing'
    BY <1>1, <1>2, <1>5, TailElements, TailDistinct
  <2>5. IsInjective(Tail(queue))
    BY <1>1, <1>2, <1>5, TailDistinct
  <2>6. QueueHoldsWhatIsDirty'
    BY <1>5, <2>4, <2>5 DEF QueueHoldsWhatIsDirty
  <2>7. processing' = processing \cup {k}
    BY <1>5
  <2> HIDE DEF k
  <2>8. OneHolder'
    BY <2>2, <2>3 DEF HoldInv, OneHolder
  <2>9. ProcessingIsHeld'
    BY <1>3, <2>1, <2>2, <2>3, <2>7, QueueAssumption DEF HoldInv, ProcessingIsHeld
  <2> QED
    BY <2>6, <2>8, <2>9 DEF HoldInv
<1> QED
  BY <1>4, <1>5 DEF Get

\* Done lets go of the key, and queues it when it is dirty.
LEMMA DoneHolds ==
    ASSUME QueueTypeOK, HoldInv, NEW w \in Workers, Done(w)
    PROVE  HoldInv' /\ \A v \in Workers : wk'[v].key = IF v = w THEN None ELSE wk[v].key
<1> DEFINE k == wk[w].key
           free == [wk EXCEPT ![w] = Calling]
<1>1. queue \in Seq(Keys) /\ wk \in [Workers -> WorkerStates]
  BY DEF QueueTypeOK, WorkerStates
<1>2. ToSet(queue) = dirty \ processing /\ IsInjective(queue)
  BY DEF HoldInv, QueueHoldsWhatIsDirty
<1>3. k \in Keys /\ k # None /\ k \in processing /\ wk[w].key = k
  BY <1>1, WorkerStateFacts, QueueAssumption DEF Done, HoldInv, ProcessingIsHeld
<1>4. /\ free \in [Workers -> WorkerStates]
      /\ \A v \in Workers : free[v].key = IF v = w THEN None ELSE wk[v].key
  BY <1>1, WorkerStateFacts
<1>5. /\ processing' = processing \ {k} /\ dirty' = dirty
      /\ \/ k \in dirty /\ queue' = Append(queue, k) /\ wk' \in Signal(free)
         \/ k \notin dirty /\ queue' = queue /\ wk' = free
  BY DEF Done
<1> HIDE DEF k, free
<1>6. \A v \in Workers : wk'[v].key = IF v = w THEN None ELSE wk[v].key
  <2>1. CASE wk' \in Signal(free)
    BY <1>4, <2>1, SignalEffect
  <2> QED
    BY <1>4, <1>5, <2>1
<1>7. QueueHoldsWhatIsDirty'
  <2>1. CASE k \in dirty /\ queue' = Append(queue, k)
    <3>1. k \notin ToSet(queue)
      BY <1>2, <1>3
    <3>2. ToSet(Append(queue, k)) = dirty' \ processing'
      BY <1>1, <1>2, <1>3, <1>5, <2>1, AppendElements
    <3>3. IsInjective(Append(queue, k))
      BY <1>1, <1>2, <1>3, <3>1, AppendDistinct
    <3> QED
      BY <2>1, <3>2, <3>3 DEF QueueHoldsWhatIsDirty
  <2>2. CASE k \notin dirty /\ queue' = queue
    <3>1. ToSet(queue) = dirty' \ processing'
      BY <1>2, <1>3, <1>5, <2>2
    <3> QED
      BY <1>2, <2>2, <3>1 DEF QueueHoldsWhatIsDirty
  <2> QED
    BY <1>5, <2>1, <2>2
<1>8. OneHolder'
  BY <1>6 DEF HoldInv, OneHolder
<1>9. ProcessingIsHeld'
  <2> SUFFICES ASSUME NEW j \in Keys
               PROVE  j \in processing' <=> \E v \in Workers : wk'[v].key = j
    BY DEF ProcessingIsHeld
  <2>1. j \in processing <=> \E v \in Workers : wk[v].key = j
    BY DEF HoldInv, ProcessingIsHeld
  <2>2. \A v \in Workers : wk[v].key = k => v = w
    BY <1>3 DEF HoldInv, OneHolder
  <2>3. j # None
    BY QueueAssumption
  <2> QED
    BY <1>3, <1>5, <1>6, <2>1, <2>2, <2>3
<1> QED
  BY <1>6, <1>7, <1>8, <1>9 DEF HoldInv

\* Each step keeps what is queued, held and processed in accord.
LEMMA HoldStep ==
    ASSUME QueueTypeOK, HoldInv, [QueueNext]_queueVars
    PROVE  HoldInv'
<1>1. CASE UNCHANGED <<queue, dirty, processing, wk>>
  BY <1>1 DEF HoldInv, QueueHoldsWhatIsDirty, OneHolder, ProcessingIsHeld
<1>2. ASSUME NEW k \in Keys, Add(k), processing' = processing
      PROVE  HoldInv'
  <2>1. QueueHoldsWhatIsDirty' /\ \A w \in Workers : wk[w].key' = wk[w].key
    BY <1>2, AddQueues DEF HoldInv
  <2> QED
    BY <1>2, <2>1, KeysKept DEF HoldInv
<1>3. CASE Receive
  <2>1. CASE Add(Head(channel))
    <3>1. Head(channel) \in Keys
      BY <1>3 DEF Receive, QueueTypeOK
    <3> QED
      BY <1>2, <1>3, <2>1, <3>1 DEF Receive
  <2>2. CASE UNCHANGED <<queue, dirty, wk>>
    BY <1>1, <1>3, <2>2 DEF Receive
  <2> QED
    BY <1>3, <2>1, <2>2 DEF Receive
<1>4. ASSUME UNCHANGED <<queue, dirty, processing>>,
             \A w \in Workers : wk[w].key' = wk[w].key
      PROVE  HoldInv'
  <2>1. QueueHoldsWhatIsDirty'
    BY <1>4 DEF HoldInv, QueueHoldsWhatIsDirty
  <2> QED
    BY <1>4, <2>1, KeysKept DEF HoldInv
<1>5. wk \in [Workers -> WorkerStates]
  BY DEF QueueTypeOK, WorkerStates
<1>6. CASE ShutDown
  <2>1. \A w \in Workers : wk'[w].key = wk[w].key
    BY <1>5, <1>6, WorkerStateFacts DEF ShutDown
  <2> QED
    BY <1>4, <1>6, <2>1 DEF ShutDown
<1>7. ASSUME NEW w \in Workers, Enter(w) PROVE HoldInv'
  <2>1. \A v \in Workers : wk'[v].key = wk[v].key
    BY <1>5, <1>7, WorkerStateFacts DEF Enter
  <2> QED
    BY <1>4, <1>7, <2>1 DEF Enter
<1>8. ASSUME NEW w \in Workers, Succeed(w) \/ Fail(w) \/ AddRateLimited(w) \/ Retry(w) PROVE HoldInv'
  <2>1. \E pc \in {"count", "retry", "done"} : wk' = [wk EXCEPT ![w].pc = pc]
    BY <1>8 DEF Succeed, Fail, AddRateLimited, Retry
  <2>2. wk[w] \in [pc : {"sync", "count", "retry", "done"}, key : Keys]
    BY <1>5, <1>8 DEF Succeed, Fail, AddRateLimited, Retry, WorkerStates, Away, Calling, Asleep
  <2>3. \A v \in Workers : wk'[v].key = wk[v].key
    BY <1>5, <2>1, <2>2
  <2> QED
    BY <1>4, <1>8, <2>3 DEF Succeed, Fail, AddRateLimited, Retry
<1> QED
  BY <1>1, <1>2, <1>3, <1>6, <1>7, <1>8, GetHolds, DoneHolds
     DEF QueueNext, WorkerStep, queueVars, Expire, Enqueued, enqueueKanary

\* At first nothing is queued and nothing is held.
LEMMA HoldInitially == QueueInit => HoldInv
<1> SUFFICES ASSUME QueueInit PROVE HoldInv
  OBVIOUS
<1>1. QueueHoldsWhatIsDirty
  BY DEF QueueInit, QueueHoldsWhatIsDirty, ToSet, IsInjective
<1>2. \A w \in Workers : wk[w].key = None
  BY WorkerStateFacts DEF QueueInit
<1>3. OneHolder /\ ProcessingIsHeld
  BY <1>2, QueueAssumption DEF QueueInit, OneHolder, ProcessingIsHeld
<1> QED
  BY <1>1, <1>3 DEF HoldInv

\* The queue and its workers agree for ever.
LEMMA HoldAlways == QueueSpec => []HoldInv
<1>1. QueueInit => HoldInv
  BY HoldInitially
<1>2. QueueTypeOK /\ HoldInv /\ [QueueNext]_queueVars => HoldInv'
  BY HoldStep
<1> QED
  BY <1>1, <1>2, QueueTypeCorrect, PTL DEF QueueSpec

\* What the comment of queue.go:48-50 says of the three sets, and that a key
\* marked while it was processed is queued once by Done.
THEOREM QueueIsDirty == QueueSpec => []QueueHoldsWhatIsDirty
<1>1. HoldInv => QueueHoldsWhatIsDirty
  BY DEF HoldInv
<1> QED
  BY <1>1, HoldAlways, PTL

\* controller.go:175-176, "the syncHandler is never invoked concurrently with
\* the same key", of the queue with its locks, delays and retries.
THEOREM OneHolderAlways == QueueSpec => []OneHolder
<1>1. HoldInv => OneHolder
  BY DEF HoldInv
<1> QED
  BY <1>1, HoldAlways, PTL

-----------------------------------------------------------------------------
(* Retries *)

\* The strengthening: every failed turn of a key since it was forgotten is
\* among its failures, and a worker that found room for one more has it still.
FailuresAreCounted == \A k \in Keys : streak[k] <= failures[k]

RoomIsKept ==
    \A w \in Workers : wk[w].pc = "count" => streak[wk[w].key] < MaxRetries

\* Nobody is about to count a failure but who was, and who has just compared.
LEMMA CountersStay ==
    ASSUME QueueTypeOK, HoldInv, [QueueNext]_queueVars,
           NEW w \in Workers, ~Fail(w), wk'[w].pc = "count"
    PROVE  wk'[w] = wk[w]
<1>1. wk \in [Workers -> WorkerStates]
  BY DEF QueueTypeOK, WorkerStates
<1>2. Away.pc # "count" /\ Calling.pc # "count" /\ Asleep.pc # "count"
  BY DEF Away, Calling, Asleep
<1>3. ASSUME NEW f \in [Workers -> WorkerStates], wk' \in Signal(f)
      PROVE  wk'[w] = f[w]
  BY <1>2, <1>3, SignalEffect
<1>4. ASSUME NEW k \in Keys, Add(k) PROVE wk'[w] = wk[w]
  BY <1>1, <1>3, <1>4 DEF Add
<1>5. CASE Receive
  BY <1>4, <1>5 DEF Receive, QueueTypeOK
<1>6. CASE ShutDown
  BY <1>1, <1>2, <1>6 DEF ShutDown
<1>7. ASSUME NEW v \in Workers, Enter(v) \/ Get(v) PROVE wk'[w] = wk[w]
  <2>1. PICK s : wk' = [wk EXCEPT ![v] = s] /\ s.pc # "count"
    BY <1>2, <1>7 DEF Enter, Get
  <2> QED
    BY <1>1, <2>1
<1>8. ASSUME NEW v \in Workers, Succeed(v) \/ Fail(v) \/ AddRateLimited(v) \/ Retry(v)
      PROVE  wk'[w] = wk[w]
  <2>1. CASE v = w
    <3>1. \/ wk' = [wk EXCEPT ![w].pc = "retry"]
          \/ wk' = [wk EXCEPT ![w].pc = "done"]
      BY <1>8, <2>1 DEF Succeed, AddRateLimited, Retry
    <3>2. wk[w] \in [pc : {"sync", "count", "retry", "done"}, key : Keys]
      BY <1>1, <1>8, <2>1
         DEF Succeed, AddRateLimited, Retry, WorkerStates, Away, Calling, Asleep
    <3>3. wk'[w].pc \in {"retry", "done"}
      BY <1>1, <3>1, <3>2
    <3> QED
      BY <3>3
  <2>2. CASE v # w
    <3>1. \E pc \in {"count", "retry", "done"} : wk' = [wk EXCEPT ![v].pc = pc]
      BY <1>8 DEF Succeed, Fail, AddRateLimited, Retry
    <3> QED
      BY <1>1, <2>2, <3>1
  <2> QED
    BY <2>1, <2>2
<1>9. ASSUME NEW v \in Workers, Done(v) PROVE wk'[w] = wk[w]
  <2> DEFINE free == [wk EXCEPT ![v] = Calling]
  <2>1. free \in [Workers -> WorkerStates] /\ free[w] \in {wk[w], Calling}
    BY <1>1, WorkerStateFacts
  <2>2. wk' \in Signal(free) \/ wk' = free
    BY <1>9 DEF Done
  <2> HIDE DEF free
  <2>3. wk'[w] = free[w]
    BY <1>3, <2>1, <2>2
  <2> QED
    BY <1>2, <2>1, <2>3
<1> QED
  BY <1>4, <1>5, <1>6, <1>7, <1>8, <1>9
     DEF QueueNext, WorkerStep, queueVars, Expire, Enqueued, enqueueKanary

\* Only AddRateLimited raises streak, and it raises failures with it where
\* failures is not yet MaxRetries.
LEMMA CountStep ==
    ASSUME QueueTypeOK, HoldInv, FailuresAreCounted, RoomIsKept,
           [QueueNext]_queueVars
    PROVE  FailuresAreCounted' /\ RoomIsKept'
<1>1. /\ failures \in [Keys -> 0..MaxRetries] /\ streak \in [Keys -> Nat]
      /\ MaxRetries \in Nat /\ wk \in [Workers -> WorkerStates]
      /\ \A k \in Keys : streak[k] <= failures[k]
  BY QueueAssumption DEF QueueTypeOK, FailuresAreCounted, WorkerStates
<1>2. \A w \in Workers : wk[w].pc \in {"sync", "count"} => wk[w].key \in Keys
  BY <1>1, QueueAssumption DEF WorkerStates, Away, Calling, Asleep
<1>3. \/ UNCHANGED <<failures, streak>>
      \/ \E k \in Keys : failures' = When(k) /\ streak' = streak
      \/ \E k \in Keys : Forget(k)
      \/ \E w \in Workers : AddRateLimited(w)
  BY <1>2
     DEF QueueNext, WorkerStep, queueVars, Receive, ShutDown, Expire, Enqueued,
         enqueueKanary, Enter, Get, Succeed, Fail, Retry, Done
<1>4. ASSUME NEW k \in Keys, failures' = When(k) PROVE FailuresAreCounted' \/ streak' # streak
  BY <1>1, <1>4 DEF FailuresAreCounted, When
<1>5. ASSUME NEW v \in Workers, AddRateLimited(v)
      PROVE  /\ FailuresAreCounted'
             /\ \A w \in Workers \ {v} : wk[w].pc = "count" =>
                   streak'[wk[w].key] = streak[wk[w].key]
  <2>1. PICK k \in Keys : k = wk[v].key
    BY <1>2, <1>5 DEF AddRateLimited
  <2>2. streak[k] < MaxRetries
    BY <1>5, <2>1 DEF AddRateLimited, RoomIsKept
  <2>3. failures' = When(k) /\ streak' = [streak EXCEPT ![k] = @ + 1]
    BY <1>5, <2>1 DEF AddRateLimited
  <2>4. FailuresAreCounted'
    BY <1>1, <2>2, <2>3 DEF FailuresAreCounted, When
  <2>5. \A w \in Workers \ {v} : wk[w].key # k
    BY <2>1, QueueAssumption DEF HoldInv, OneHolder
  <2> QED
    BY <1>1, <1>2, <2>3, <2>4, <2>5
<1>6. ASSUME NEW k \in Keys, Forget(k)
      PROVE  FailuresAreCounted' /\ \A j \in Keys : streak'[j] <= streak[j]
  BY <1>1, <1>6 DEF FailuresAreCounted, Forget
<1>7. FailuresAreCounted'
  BY <1>3, <1>4, <1>5, <1>6 DEF FailuresAreCounted
<1>8. ASSUME NEW w \in Workers, wk'[w].pc = "count"
      PROVE  streak'[wk'[w].key] < MaxRetries
  <2>1. CASE Fail(w)
    <3>1. PICK k \in Keys : k = wk[w].key
      BY <1>2, <2>1 DEF Fail
    <3>2. wk' = [wk EXCEPT ![w].pc = "count"] \/ wk' = [wk EXCEPT ![w].pc = "done"]
      BY <2>1 DEF Fail
    <3>3. wk'[w].pc # "done"
      BY <1>8
    <3>4. wk[w] \in [pc : {"sync", "count", "retry", "done"}, key : Keys]
      BY <1>1, <2>1 DEF Fail, WorkerStates, Away, Calling, Asleep
    <3>5. wk'[w].key = k /\ wk' # [wk EXCEPT ![w].pc = "done"]
      BY <1>1, <3>1, <3>2, <3>3, <3>4
    <3>6. streak' = streak /\ failures[k] < MaxRetries
      BY <2>1, <3>1, <3>5 DEF Fail
    <3> QED
      BY <1>1, <3>5, <3>6
  <2>2. CASE ~Fail(w)
    <3>1. wk'[w] = wk[w]
      BY <1>8, <2>2, CountersStay
    <3>2. wk[w].pc = "count"
      BY <1>8, <3>1
    <3>3. PICK k \in Keys : k = wk[w].key
      BY <1>2, <3>2
    <3>4. streak[k] < MaxRetries
      BY <3>2, <3>3 DEF RoomIsKept
    <3>5. ASSUME NEW v \in Workers, AddRateLimited(v) PROVE v # w
      <4>1. CASE v = w
        <5>1. wk'[w].pc = "retry"
          BY <1>1, <3>5, <4>1 DEF AddRateLimited
        <5> QED
          BY <1>8, <5>1
      <4> QED
        BY <4>1
    <3>6. streak'[k] <= streak[k]
      BY <1>1, <1>3, <1>5, <1>6, <3>2, <3>3, <3>5
    <3>7. streak'[k] \in Nat
      BY <1>1, <3>3, TypeStep DEF QueueTypeOK
    <3> QED
      BY <1>1, <3>1, <3>3, <3>4, <3>6, <3>7
  <2> QED
    BY <2>1, <2>2
<1> QED
  BY <1>7, <1>8 DEF RoomIsKept

\* handleErr lets a key fail at most MaxRetries times before it is forgotten,
\* whatever handlers count meanwhile, and between its comparison and its count.
THEOREM RetriesEnd == QueueSpec => []RetriesAreBounded
<1>1. QueueInit => FailuresAreCounted /\ RoomIsKept
  BY DEF QueueInit, FailuresAreCounted, RoomIsKept, Away
<1>2. /\ QueueTypeOK /\ HoldInv
      /\ FailuresAreCounted /\ RoomIsKept
      /\ [QueueNext]_queueVars
      => FailuresAreCounted' /\ RoomIsKept'
  BY CountStep
<1>3. QueueTypeOK /\ FailuresAreCounted => RetriesAreBounded
  <2> SUFFICES ASSUME QueueTypeOK, FailuresAreCounted, NEW k \in Keys
               PROVE  streak[k] <= MaxRetries
    BY DEF RetriesAreBounded
  <2>1. failures[k] \in 0..MaxRetries /\ streak[k] \in Nat /\ streak[k] <= failures[k]
    BY DEF QueueTypeOK, FailuresAreCounted
  <2> QED
    BY <2>1, QueueAssumption
<1> QED
  BY <1>1, <1>2, <1>3, QueueTypeCorrect, HoldAlways, PTL DEF QueueSpec

-----------------------------------------------------------------------------
(* Sleeping workers *)

NoMiss(q, f) ==
    (\E w \in Workers : f[w] = Asleep) =>
        Len(q) <= Cardinality({w \in Workers : f[w] = Calling})

\* The workers that look at the queue can be counted.
LEMMA CallingCount ==
    ASSUME NEW f \in [Workers -> WorkerStates]
    PROVE  Cardinality({w \in Workers : f[w] = Calling}) \in Nat
BY QueueAssumption, FS_Subset, FS_CardinalityType

\* One more worker looks at the queue.
LEMMA OneMoreCalls ==
    ASSUME NEW f \in [Workers -> WorkerStates], NEW v \in Workers, f[v] # Calling
    PROVE  Cardinality({w \in Workers : [f EXCEPT ![v] = Calling][w] = Calling})
             = Cardinality({w \in Workers : f[w] = Calling}) + 1
<1> DEFINE C == {w \in Workers : f[w] = Calling}
<1>1. {w \in Workers : [f EXCEPT ![v] = Calling][w] = Calling} = C \cup {v}
  OBVIOUS
<1>2. IsFiniteSet(C) /\ v \notin C
  BY QueueAssumption, FS_Subset
<1> HIDE DEF C
<1>3. Cardinality(C \cup {v}) = Cardinality(C) + 1
  BY <1>2, FS_AddElement
<1> QED
  BY <1>1, <1>3 DEF C

\* One less does.
LEMMA OneLessCalls ==
    ASSUME NEW f \in [Workers -> WorkerStates], NEW v \in Workers, f[v] = Calling,
           NEW s \in WorkerStates, s # Calling
    PROVE  Cardinality({w \in Workers : [f EXCEPT ![v] = s][w] = Calling})
             = Cardinality({w \in Workers : f[w] = Calling}) - 1
<1> DEFINE C == {w \in Workers : f[w] = Calling}
<1>1. {w \in Workers : [f EXCEPT ![v] = s][w] = Calling} = C \ {v}
  OBVIOUS
<1>2. IsFiniteSet(C) /\ v \in C
  BY QueueAssumption, FS_Subset
<1> HIDE DEF C
<1>3. Cardinality(C \ {v}) = Cardinality(C) - 1
  BY <1>2, FS_RemoveElement
<1> QED
  BY <1>1, <1>3 DEF C

\* One signal for one key.
LEMMA SignalIsEnough ==
    ASSUME NEW f \in [Workers -> WorkerStates], NEW g \in Signal(f),
           NEW p \in Seq(Keys), NEW q \in Seq(Keys), NoMiss(q, f),
           Len(p) = Len(q) + 1
    PROVE  NoMiss(p, g)
<1>1. CASE g = f /\ \A w \in Workers : f[w] # Asleep
  BY <1>1 DEF NoMiss
<1>2. CASE \E v \in Workers : f[v] = Asleep /\ g = [f EXCEPT ![v] = Calling]
  <2>1. PICK v \in Workers : f[v] = Asleep /\ g = [f EXCEPT ![v] = Calling]
    BY <1>2
  <2>2. Len(q) <= Cardinality({w \in Workers : f[w] = Calling})
    BY <2>1 DEF NoMiss
  <2>3. f[v] # Calling
    BY <2>1, WorkerStateFacts
  <2>4. Cardinality({w \in Workers : g[w] = Calling})
          = Cardinality({w \in Workers : f[w] = Calling}) + 1
    BY <2>1, <2>3, OneMoreCalls
  <2>5. Len(p) <= Cardinality({w \in Workers : g[w] = Calling})
    BY <2>2, <2>4, CallingCount
  <2> QED
    BY <2>5 DEF NoMiss
<1> QED
  BY <1>1, <1>2, SignalEffect

\* A key that is queued by Add brings a worker with it, if one sleeps.
LEMMA AddMissesNone ==
    ASSUME QueueTypeOK, NoMiss(queue, wk), NEW k \in Keys, Add(k)
    PROVE  NoMiss(queue', wk')
<1>1. queue \in Seq(Keys) /\ wk \in [Workers -> WorkerStates]
  BY DEF QueueTypeOK, WorkerStates
<1>2. CASE UNCHANGED <<queue, wk>>
  BY <1>2
<1>3. CASE queue' = Append(queue, k) /\ wk' \in Signal(wk)
  <2>1. queue' \in Seq(Keys) /\ Len(queue') = Len(queue) + 1
    BY <1>1, <1>3, AppendElements
  <2> QED
    BY <1>1, <1>3, <2>1, SignalIsEnough
<1> QED
  BY <1>2, <1>3 DEF Add

\* Each step leaves a worker for each queued key while another sleeps.
LEMMA NoMissStep ==
    ASSUME QueueTypeOK, NoMiss(queue, wk), [QueueNext]_queueVars
    PROVE  NoMiss(queue', wk')
<1>1. queue \in Seq(Keys) /\ wk \in [Workers -> WorkerStates]
  BY DEF QueueTypeOK, WorkerStates
<1>2. CASE UNCHANGED <<queue, wk>>
  BY <1>2
<1>3. CASE Receive
  <2>1. Head(channel) \in Keys
    BY <1>3 DEF Receive, QueueTypeOK
  <2> QED
    BY <1>2, <1>3, <2>1, AddMissesNone DEF Receive
<1>4. CASE ShutDown
  <2>1. \A w \in Workers : wk'[w] # Asleep
    BY <1>4, WorkerStateFacts DEF ShutDown
  <2> QED
    BY <2>1 DEF NoMiss
<1>5. ASSUME NEW w \in Workers, wk[w] \notin {Calling, Asleep},
             queue' = queue, wk' = [wk EXCEPT ![w] = Calling]
      PROVE  NoMiss(queue', wk')
  <2> SUFFICES ASSUME NEW v \in Workers, wk'[v] = Asleep
               PROVE  Len(queue') <= Cardinality({u \in Workers : wk'[u] = Calling})
    BY DEF NoMiss
  <2>1. wk[v] = Asleep
    BY <1>1, <1>5, WorkerStateFacts
  <2>2. Len(queue) <= Cardinality({u \in Workers : wk[u] = Calling})
    BY <2>1 DEF NoMiss
  <2>3. Cardinality({u \in Workers : wk'[u] = Calling})
          = Cardinality({u \in Workers : wk[u] = Calling}) + 1
    BY <1>1, <1>5, OneMoreCalls
  <2> QED
    BY <1>1, <1>5, <2>2, <2>3, CallingCount
<1>6. ASSUME NEW w \in Workers, Enter(w) PROVE NoMiss(queue', wk')
  <2>1. wk[w] \notin {Calling, Asleep}
    BY <1>6, WorkerStateFacts DEF Enter
  <2>2. queue' = queue /\ wk' = [wk EXCEPT ![w] = Calling]
    BY <1>1, <1>6 DEF Enter
  <2> QED
    BY <1>1, <1>5, <2>1, <2>2
<1>7. ASSUME NEW w \in Workers, Get(w) PROVE NoMiss(queue', wk')
  <2>1. wk[w] = Calling
    BY <1>7 DEF Get
  <2>2. CASE queue = <<>> /\ queue' = queue /\ wk' \in [Workers -> WorkerStates]
    <3>1. Len(queue') = 0
      BY <2>2
    <3> QED
      BY <2>2, <3>1, CallingCount DEF NoMiss
  <2>3. CASE /\ queue # <<>> /\ queue' = Tail(queue)
             /\ wk' = [wk EXCEPT ![w] = [pc |-> "sync", key |-> Head(queue)]]
    <3> DEFINE s == [pc |-> "sync", key |-> Head(queue)]
    <3>1. Head(queue) \in Keys /\ Len(queue') = Len(queue) - 1 /\ Len(queue) \in Nat
      BY <1>1, <2>3, TailElements
    <3>2. s \in WorkerStates /\ s # Calling /\ s # Asleep
      BY <3>1 DEF WorkerStates, Calling, Asleep
    <3> HIDE DEF s
    <3>3. wk' = [wk EXCEPT ![w] = s]
      BY <2>3 DEF s
    <3> SUFFICES ASSUME NEW v \in Workers, wk'[v] = Asleep
                 PROVE  Len(queue') <= Cardinality({u \in Workers : wk'[u] = Calling})
      BY DEF NoMiss
    <3>4. wk[v] = Asleep
      BY <1>1, <3>2, <3>3
    <3>5. Len(queue) <= Cardinality({u \in Workers : wk[u] = Calling})
      BY <3>4 DEF NoMiss
    <3>6. Cardinality({u \in Workers : wk'[u] = Calling})
            = Cardinality({u \in Workers : wk[u] = Calling}) - 1
      BY <1>1, <2>1, <3>2, <3>3, OneLessCalls
    <3> QED
      BY <1>1, <3>1, <3>5, <3>6, CallingCount
  <2>4. wk' \in [Workers -> WorkerStates] \/ queue # <<>>
    BY <1>1, <1>7, WorkerStateFacts DEF Get
  <2> QED
    BY <1>7, <2>2, <2>3, <2>4 DEF Get
<1>8. ASSUME NEW w \in Workers, Succeed(w) \/ Fail(w) \/ AddRateLimited(w) \/ Retry(w)
      PROVE  NoMiss(queue', wk')
  <2>1. PICK pc \in {"count", "retry", "done"} : wk' = [wk EXCEPT ![w].pc = pc]
    BY <1>8 DEF Succeed, Fail, AddRateLimited, Retry
  <2>2. wk[w] \in [pc : {"sync", "count", "retry", "done"}, key : Keys]
    BY <1>1, <1>8 DEF Succeed, Fail, AddRateLimited, Retry, WorkerStates, Away, Calling, Asleep
  <2>3. /\ wk[w] \notin {Calling, Asleep} /\ wk'[w] \notin {Calling, Asleep}
        /\ \A v \in Workers : v # w => wk'[v] = wk[v]
    BY <1>1, <2>1, <2>2, QueueAssumption DEF Calling, Asleep
  <2>4. {v \in Workers : wk'[v] = Calling} = {v \in Workers : wk[v] = Calling}
    BY <2>3
  <2>5. (\E v \in Workers : wk'[v] = Asleep) => \E v \in Workers : wk[v] = Asleep
    BY <2>3
  <2>6. queue' = queue
    BY <1>8 DEF Succeed, Fail, AddRateLimited, Retry
  <2> QED
    BY <2>4, <2>5, <2>6 DEF NoMiss
<1>9. ASSUME NEW w \in Workers, Done(w) PROVE NoMiss(queue', wk')
  <2> DEFINE free == [wk EXCEPT ![w] = Calling]
  <2>1. wk[w] \notin {Calling, Asleep} /\ wk[w].key \in Keys
    BY <1>1, <1>9, WorkerStateFacts DEF Done, Calling, Asleep
  <2>2. CASE queue' = queue /\ wk' = free
    BY <1>1, <1>5, <2>1, <2>2
  <2>3. CASE queue' = Append(queue, wk[w].key) /\ wk' \in Signal(free)
    <3>1. free \in [Workers -> WorkerStates]
      BY <1>1, WorkerStateFacts
    <3>2. NoMiss(queue, free)
      <4> SUFFICES ASSUME NEW v \in Workers, free[v] = Asleep
                   PROVE  Len(queue) <= Cardinality({u \in Workers : free[u] = Calling})
        BY DEF NoMiss
      <4>1. wk[v] = Asleep
        BY <1>1, WorkerStateFacts
      <4>2. Len(queue) <= Cardinality({u \in Workers : wk[u] = Calling})
        BY <4>1 DEF NoMiss
      <4>3. Cardinality({u \in Workers : free[u] = Calling})
              = Cardinality({u \in Workers : wk[u] = Calling}) + 1
        BY <1>1, <2>1, OneMoreCalls
      <4> HIDE DEF free
      <4> QED
        BY <1>1, <4>2, <4>3, CallingCount
    <3>3. queue' \in Seq(Keys) /\ Len(queue') = Len(queue) + 1
      BY <1>1, <2>1, <2>3, AppendElements
    <3> HIDE DEF free
    <3> QED
      BY <1>1, <2>3, <3>1, <3>2, <3>3, SignalIsEnough
  <2> QED
    BY <1>9, <2>2, <2>3 DEF Done
<1> QED
  BY <1>2, <1>3, <1>4, <1>6, <1>7, <1>8, <1>9, AddMissesNone
     DEF QueueNext, WorkerStep, queueVars, Expire, Enqueued, enqueueKanary

\* Signal instead of Broadcast is enough in Add and Done: a worker sleeps only
\* while every queued key has a worker of its own that is awake.
THEOREM SleepersAreNotMissed == QueueSpec => []NoSleeperIsMissed
<1>1. QueueInit => NoMiss(queue, wk)
  BY WorkerStateFacts DEF QueueInit, NoMiss
<1>2. QueueTypeOK /\ NoMiss(queue, wk) /\ [QueueNext]_queueVars => NoMiss(queue, wk)'
  BY NoMissStep DEF NoMiss
<1>3. NoMiss(queue, wk) => NoSleeperIsMissed
  BY DEF NoMiss, NoSleeperIsMissed
<1> QED
  BY <1>1, <1>2, <1>3, QueueTypeCorrect, PTL DEF QueueSpec

-----------------------------------------------------------------------------
(* The queue implements KeyQueue *)

Held == [w \in Workers |-> wk[w].key]

\* The variables KeyQueue is about.
LEMMA Unseen ==
    ASSUME Waiting' = Waiting, Held' = Held, shuttingDown' = shuttingDown
    PROVE  UNCHANGED KQ!vars
BY DEF Held, KQ!vars

\* A key that is added stays where it was, or gets lost if the queue is shut
\* down; in either case no worker gets or loses a key.
LEMMA MoveKey ==
    ASSUME QueueTypeOK, QueueHoldsWhatIsDirty, NEW k \in Keys, Add(k),
           k \in Waiting, processing' = processing, shuttingDown' = shuttingDown,
           Waiting \ {k} \subseteq dirty \cup delayed' \cup ToSet(channel'),
           delayed' \cup ToSet(channel') \subseteq Waiting
    PROVE  KQ!Next \/ UNCHANGED KQ!vars
<1>1. \A w \in Workers : wk[w].key' = wk[w].key
  BY AddQueues
<1>2. Held' = Held
  BY <1>1 DEF Held
<1>3. CASE shuttingDown
  <2>1. dirty' = dirty
    BY <1>3 DEF Add
  <2>2. Waiting' = Waiting \/ Waiting' = Waiting \ {k}
    BY <2>1 DEF Waiting
  <2>3. CASE Waiting' = Waiting
    BY <1>2, <2>3, Unseen
  <2>4. CASE Waiting' = Waiting \ {k}
    BY <1>2, <1>3, <2>4 DEF Held, KQ!Next, KQ!Lose
  <2> QED
    BY <2>2, <2>3, <2>4
<1>4. CASE ~shuttingDown
  <2>1. dirty' = dirty \cup {k}
    BY <1>4 DEF Add
  <2>2. Waiting' = Waiting
    BY <2>1 DEF Waiting
  <2> QED
    BY <1>2, <2>2, Unseen
<1> QED
  BY <1>3, <1>4

\* A key that is sent waits in the channel, or is dropped.
LEMMA SendKey ==
    ASSUME QueueTypeOK, NEW k \in Keys, Send(k), Held' = Held,
           UNCHANGED <<dirty, delayed, shuttingDown>>
    PROVE  KQ!Next \/ UNCHANGED KQ!vars
<1>1. CASE channel' = Append(channel, k)
  <2>1. ToSet(channel') = ToSet(channel) \cup {k}
    BY <1>1, AppendElements DEF QueueTypeOK
  <2>2. Waiting' = Waiting \cup {k}
    BY <2>1 DEF Waiting
  <2>3. KQ!Add({k})
    BY <2>2 DEF Held, KQ!Add
  <2> QED
    BY <2>3 DEF KQ!Next
<1>2. CASE UNCHANGED channel
  <2>1. Waiting' = Waiting
    BY <1>2 DEF Waiting
  <2> QED
    BY <2>1, Unseen
<1> QED
  BY <1>1, <1>2 DEF Send

\* Each step of the queue is a step of KeyQueue, or nothing KeyQueue sees.
LEMMA RefinementStep ==
    ASSUME QueueTypeOK, HoldInv, [QueueNext]_queueVars
    PROVE  KQ!Next \/ UNCHANGED KQ!vars
<1>1. /\ wk \in [Workers -> WorkerStates] /\ queue \in Seq(Keys)
      /\ QueueHoldsWhatIsDirty
  BY DEF QueueTypeOK, WorkerStates, HoldInv
<1>2. ASSUME \A w \in Workers : wk'[w].key = wk[w].key,
             UNCHANGED <<dirty, delayed, channel, shuttingDown>>
      PROVE  UNCHANGED KQ!vars
  <2>1. Waiting' = Waiting /\ Held' = Held
    BY <1>2 DEF Waiting, Held
  <2> QED
    BY <1>2, <2>1, Unseen
<1>3. CASE UNCHANGED queueVars
  BY <1>2, <1>3 DEF queueVars
<1>4. CASE Receive
  <2> DEFINE k == Head(channel)
  <2>1. /\ k \in Keys /\ ToSet(channel) = {k} \cup ToSet(channel')
        /\ UNCHANGED <<processing, shuttingDown>>
    BY <1>4, TailElements DEF Receive, QueueTypeOK
  <2>2. CASE Add(k) /\ UNCHANGED delayed
    BY <1>1, <2>1, <2>2, MoveKey DEF Waiting
  <2>3. CASE delayed' = delayed \cup {k} /\ UNCHANGED <<queue, dirty, wk>>
    <3>1. Waiting' = Waiting /\ Held' = Held
      BY <2>1, <2>3 DEF Waiting, Held
    <3> QED
      BY <2>1, <3>1, Unseen
  <2> QED
    BY <1>4, <2>2, <2>3 DEF Receive
<1>5. ASSUME NEW k \in Keys, Expire(k) PROVE KQ!Next \/ UNCHANGED KQ!vars
  BY <1>1, <1>5, MoveKey DEF Expire, Waiting
<1>6. CASE ShutDown
  <2>1. \A w \in Workers : wk'[w].key = wk[w].key
    BY <1>1, <1>6, WorkerStateFacts DEF ShutDown
  <2>2. Waiting' = Waiting /\ Held' = Held /\ shuttingDown' = TRUE
    BY <1>6, <2>1 DEF ShutDown, Waiting, Held
  <2>3. CASE shuttingDown
    BY <2>2, <2>3, Unseen DEF QueueTypeOK
  <2>4. CASE ~shuttingDown
    BY <2>2, <2>4 DEF Held, KQ!Next, KQ!Close
  <2> QED
    BY <2>3, <2>4
<1>7. ASSUME NEW h \in Handlers, Enqueued(h) PROVE KQ!Next \/ UNCHANGED KQ!vars
  <2>1. posting[h] \in Keys /\ Held' = Held
    BY <1>7 DEF Enqueued, QueueTypeOK, Held
  <2> QED
    BY <1>7, <2>1, SendKey DEF Enqueued
<1>8. ASSUME NEW h \in Handlers, NEW k \in Keys, enqueueKanary(h, k)
      PROVE  UNCHANGED KQ!vars
  BY <1>2, <1>8 DEF enqueueKanary
<1>9. ASSUME NEW w \in Workers, Enter(w) PROVE UNCHANGED KQ!vars
  <2>1. \A v \in Workers : wk'[v].key = wk[v].key
    BY <1>1, <1>9, WorkerStateFacts DEF Enter
  <2> QED
    BY <1>2, <1>9, <2>1 DEF Enter
<1>10. ASSUME NEW w \in Workers, Get(w) PROVE KQ!Next \/ UNCHANGED KQ!vars
  <2>1. wk[w].key = None
    BY <1>10, WorkerStateFacts DEF Get
  <2>2. CASE /\ wk' = [wk EXCEPT ![w] = IF shuttingDown THEN Away ELSE Asleep]
             /\ UNCHANGED <<queue, processing, dirty>>
    <3>1. \A v \in Workers : wk'[v].key = wk[v].key
      BY <1>1, <2>1, <2>2, WorkerStateFacts
    <3> QED
      BY <1>2, <1>10, <2>2, <3>1 DEF Get
  <2>3. CASE /\ queue # <<>>
             /\ dirty' = dirty \ {Head(queue)}
             /\ wk' = [wk EXCEPT ![w] = [pc |-> "sync", key |-> Head(queue)]]
    <3>1. Head(queue) \in Keys /\ Head(queue) \in dirty \ processing
      BY <1>1, <2>3, TailElements DEF QueueHoldsWhatIsDirty
    <3>2. PICK k \in Keys : k = Head(queue)
      BY <3>1
    <3>3. k \in Waiting /\ \A v \in Workers : Held[v] # k
      BY <3>1, <3>2 DEF HoldInv, ProcessingIsHeld, Waiting, Held
    <3>4. Held[w] = None
      BY <2>1 DEF Held
    <3>5. Held' = [Held EXCEPT ![w] = k]
      BY <1>1, <2>3, <3>2 DEF Held
    <3>6. UNCHANGED <<delayed, channel, shuttingDown>>
      BY <1>10 DEF Get
    <3>7. Waiting' \in {Waiting, Waiting \ {k}}
      BY <2>3, <3>2, <3>6 DEF Waiting
    <3>8. KQ!Take(w, k)
      BY <3>3, <3>4, <3>5, <3>6, <3>7 DEF Held, KQ!Take
    <3> QED
      BY <3>2, <3>8 DEF KQ!Next
  <2> QED
    BY <1>10, <2>2, <2>3 DEF Get
<1>11. ASSUME NEW w \in Workers, Succeed(w) \/ Fail(w) \/ AddRateLimited(w) \/ Retry(w)
       PROVE  KQ!Next \/ UNCHANGED KQ!vars
  <2>1. \E pc \in {"count", "retry", "done"} : wk' = [wk EXCEPT ![w].pc = pc]
    BY <1>11 DEF Succeed, Fail, AddRateLimited, Retry
  <2>2. wk[w] \in [pc : {"sync", "count", "retry", "done"}, key : Keys]
    BY <1>1, <1>11 DEF Succeed, Fail, AddRateLimited, Retry, WorkerStates, Away, Calling, Asleep
  <2>3. \A v \in Workers : wk'[v].key = wk[v].key
    BY <1>1, <2>1, <2>2
  <2>4. CASE Succeed(w) \/ Fail(w) \/ AddRateLimited(w)
    BY <1>2, <2>3, <2>4 DEF Succeed, Fail, AddRateLimited
  <2>5. CASE Retry(w)
    <3>1. Held' = Held
      BY <2>3 DEF Held
    <3> QED
      BY <2>2, <2>5, <3>1, SendKey DEF Retry
  <2> QED
    BY <1>11, <2>4, <2>5
<1>12. ASSUME NEW w \in Workers, Done(w) PROVE KQ!Next \/ UNCHANGED KQ!vars
  <2>1. \A v \in Workers : wk'[v].key = IF v = w THEN None ELSE wk[v].key
    BY <1>12, DoneHolds
  <2>2. wk[w].key # None
    BY <1>1, <1>12, WorkerStateFacts DEF Done
  <2>3. Held[w] # None /\ Held' = [Held EXCEPT ![w] = None]
    BY <2>1, <2>2 DEF Held
  <2>4. Waiting' = Waiting /\ UNCHANGED shuttingDown
    BY <1>12 DEF Done, Waiting
  <2>5. KQ!Release(w)
    BY <2>3, <2>4 DEF Held, KQ!Release
  <2> QED
    BY <2>5 DEF KQ!Next
<1> QED
  BY <1>3, <1>4, <1>5, <1>6, <1>7, <1>8, <1>9, <1>10, <1>11, <1>12
     DEF QueueNext, WorkerStep

\* The work queue is the abstract queue its users rely on: a key that was added
\* waits until it is taken, and at most one worker holds it.
THEOREM QueueImplements == QueueSpec => ImplementsKeyQueue
<1>1. QueueInit => KQ!Init
  <2> SUFFICES ASSUME QueueInit PROVE KQ!Init
    OBVIOUS
  <2>1. Waiting = {}
    BY DEF QueueInit, Waiting, ToSet
  <2>2. [w \in Workers |-> wk[w].key] = [w \in Workers |-> None]
    BY WorkerStateFacts DEF QueueInit
  <2> QED
    BY <2>1, <2>2 DEF QueueInit, KQ!Init
<1>2. QueueTypeOK /\ HoldInv /\ [QueueNext]_queueVars => [KQ!Next]_(KQ!vars)
  BY RefinementStep
<1> QED
  BY <1>1, <1>2, QueueTypeCorrect, HoldAlways, PTL
     DEF QueueSpec, ImplementsKeyQueue, KQ!Spec
=============================================================================
