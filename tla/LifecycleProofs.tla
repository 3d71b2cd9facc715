-------------------------- MODULE LifecycleProofs ---------------------------
(***************************************************************************)
(* Theorems about Lifecycle, for any number of kinds, keys, workers and    *)
(* handlers.  A process only ever takes steps of its queue, so what is     *)
(* proved of QueueSpec holds of it.                                        *)
(***************************************************************************)
EXTENDS Lifecycle, WorkQueueProofs

-----------------------------------------------------------------------------
(* A process uses the queue as WorkQueue says *)

\* Whatever main, the informers and the signal handler do, the queue does one
\* of its own steps or none.
LEMMA QueueStep == Next => [QueueNext]_queueVars
<1> SUFFICES ASSUME Next PROVE [QueueNext]_queueVars
  OBVIOUS
<1>1. CASE Setup \/ NewController \/ StartWorkers \/ Exit \/ ReceiveSignal
  BY <1>1 DEF Setup, NewController, Wire, StartWorkers, Exit, ReceiveSignal
<1>2. CASE RunReturns
  BY <1>2 DEF RunReturns, QueueNext
<1>3. CASE Deliver
  BY <1>3 DEF Deliver, QueueNext
<1>4. ASSUME NEW f \in Kinds, Start(f) \/ Sync(<<f, informers[f]>>)
      PROVE  UNCHANGED queueVars
  BY <1>4 DEF Start, Sync
<1>5. ASSUME NEW h \in Handlers, Post(h) \/ \E k \in Keys : Event(h, k)
      PROVE  QueueNext
  BY <1>5 DEF Post, Event, QueueNext
<1>6. ASSUME NEW w \in Workers, Work(w) PROVE QueueNext
  BY <1>6 DEF Work, QueueNext
<1> QED
  BY <1>1, <1>2, <1>3, <1>4, <1>5, <1>6 DEF Next

\* Run, its workers and the handlers use the queue as the queue expects, from
\* the start of the process to its end (controller.go:144-192).
THEOREM ProcessUsesTheQueue == Spec => QueueSpec
<1>1. Init => QueueInit
  BY DEF Init
<1>2. [Next]_vars => [QueueNext]_queueVars
  BY QueueStep DEF vars
<1> QED
  BY <1>1, <1>2, PTL DEF Spec, QueueSpec

\* In the process no mark is lost: the keys queued are those that are dirty
\* and not being processed, each once (queue.go:48-50).
THEOREM ProcessQueueIsDirty == Spec => []QueueHoldsWhatIsDirty
BY ProcessUsesTheQueue, QueueIsDirty, PTL

\* In the process every queued key finds a worker that is awake, whenever one
\* sleeps (queue.go:105, 153).
THEOREM ProcessSleepersAreNotMissed == Spec => []NoSleeperIsMissed
BY ProcessUsesTheQueue, SleepersAreNotMissed, PTL

\* In the process a key that keeps failing is forgotten after at most
\* MaxRetries more turns (controller.go:194-209).
THEOREM ProcessRetriesEnd == Spec => []RetriesAreBounded
BY ProcessUsesTheQueue, RetriesEnd, PTL

\* The process with its handlers and workers gets from the queue what
\* KeyQueue promises (controller.go:175-176).
THEOREM ProcessImplementsKeyQueue == Spec => ImplementsKeyQueue
BY ProcessUsesTheQueue, QueueImplements, PTL

-----------------------------------------------------------------------------
(* Types *)

\* The variables of main, the factories and the signal handler.
LEMMA ProcessTypeStep ==
    ASSUME ProcessTypeOK, QueueTypeOK', [Next]_vars
    PROVE  ProcessTypeOK'
<1>1. CASE UNCHANGED processVars
  BY <1>1 DEF ProcessTypeOK, processVars
<1>2. CASE Setup \/ StartWorkers \/ RunReturns \/ Exit \/ ReceiveSignal
  <2>1. UNCHANGED <<informers, wired, starting, started, synced>>
    BY <1>2 DEF Setup, StartWorkers, RunReturns, Exit, ReceiveSignal
  <2>2. main' \in {main, "lister", "fatal", "run", "flush"}
    BY <1>2 DEF Setup, StartWorkers, RunReturns, Exit, ReceiveSignal
  <2>3. (stop' = stop \/ stop' = TRUE) /\ exit' \in {exit, 0, 1, 255}
    BY <1>2 DEF Setup, StartWorkers, RunReturns, Exit, ReceiveSignal
  <2>4. main' \in {"setup", "sync", "run", "flush", "fatal"} \cup Uses
    BY <2>2 DEF ProcessTypeOK, Uses
  <2>5. stop' \in BOOLEAN /\ exit' \in {None, 0, 1, 255}
    <3>1. stop \in BOOLEAN /\ exit \in {None, 0, 1, 255}
      BY DEF ProcessTypeOK
    <3>2. stop' \in BOOLEAN
      BY <2>3, <3>1
    <3>3. exit' = exit \/ exit' \in {0, 1, 255}
      BY <2>3
    <3>4. exit' \in {None, 0, 1, 255}
      BY <3>1, <3>3
    <3> QED
      BY <3>2, <3>4
  <2> QED
    BY <2>1, <2>4, <2>5 DEF ProcessTypeOK
<1>3. ASSUME NEW use \in Uses, NEW next \in {"synced", "handler", "sync"},
             Wire(use, next)
      PROVE  ProcessTypeOK'
  <2>1. informers' \in [Kinds -> Nat]
    BY <1>3 DEF Wire, InformerFor, ProcessTypeOK
  <2>2. wired' \in [Uses -> [Kinds -> Nat]]
    BY <1>3, <2>1 DEF Wire, ProcessTypeOK
  <2> QED
    BY <1>3, <2>1, <2>2 DEF Wire, ProcessTypeOK, Uses
<1>4. ASSUME NEW f \in Kinds, Start(f) PROVE ProcessTypeOK'
  BY <1>4 DEF Start, ProcessTypeOK
<1>5. ASSUME NEW f \in Kinds, Sync(<<f, informers[f]>>) PROVE ProcessTypeOK'
  BY <1>5 DEF Sync, ProcessTypeOK
<1>6. CASE NewController
  BY <1>3, <1>6 DEF NewController, Uses
<1>7. CASE \/ UNCHANGED vars
           \/ Deliver
           \/ \E h \in Handlers : Post(h) \/ \E k \in Keys : Event(h, k)
           \/ \E w \in Workers : Work(w)
  <2>1. UNCHANGED processVars
    BY <1>7 DEF vars, Deliver, Post, Event, Work
  <2> QED
    BY <1>1, <2>1
<1> QED
  BY <1>2, <1>4, <1>5, <1>6, <1>7 DEF Next

\* The types of a process, with those of its queue.
THEOREM ProcessTypeCorrect == Spec => []ProcessTypeOK
<1>1. Init /\ QueueTypeOK => ProcessTypeOK
  <2> SUFFICES ASSUME Init, QueueTypeOK PROVE ProcessTypeOK
    OBVIOUS
  <2>1. informers \in [Kinds -> Nat]
    BY DEF Init
  <2>2. wired \in [Uses -> [Kinds -> Nat]]
    BY DEF Init
  <2> QED
    BY <2>1, <2>2 DEF Init, ProcessTypeOK
<1>2. ProcessTypeOK /\ QueueTypeOK' /\ [Next]_vars => ProcessTypeOK'
  BY ProcessTypeStep
<1> QED
  BY <1>1, <1>2, ProcessUsesTheQueue, QueueTypeCorrect, PTL DEF Spec

-----------------------------------------------------------------------------
(* Workers read full caches *)

\* From the point where NewController took it, each use has the one informer
\* its factory has registered.
Wiring ==
    /\ main \in {"synced", "handler", "sync", "run", "flush"} =>
          \A f \in Kinds : informers[f] # 0 /\ wired["lister"][f] = informers[f]
    /\ main \in {"handler", "sync", "run", "flush"} =>
          \A f \in Kinds : wired["synced"][f] = informers[f]
    /\ main \in {"sync", "run", "flush"} =>
          \A f \in Kinds : wired["handler"][f] = informers[f]

\* Run starts the workers, and it does so after the caches are full.
StartedInOrder ==
    /\ main \in {"run", "flush"} => WaitForCacheSync
    /\ (\E w \in Workers : wk[w] # Away) => main \in {"run", "flush"}

ProcessInv == Wiring /\ StartedInOrder

\* A worker that is away is not woken by a key: only its own loop brings it in.
LEMMA AwayStaysAway ==
    ASSUME QueueTypeOK, \A w \in Workers : wk[w] = Away,
           Deliver \/ RunReturns \/ \E h \in Handlers :
                          Post(h) \/ \E k \in Keys : Event(h, k)
    PROVE  \A w \in Workers : wk'[w] = Away
<1>1. wk \in [Workers -> WorkerStates]
  BY DEF QueueTypeOK, WorkerStates
<1>2. ASSUME NEW k, Add(k) PROVE wk' = wk
  <2>1. wk' = wk \/ wk' \in Signal(wk)
    BY <1>2 DEF Add
  <2>2. \A w \in Workers : wk[w] # Asleep
    BY WorkerStateFacts
  <2> QED
    BY <1>1, <2>1, <2>2, SignalEffect
<1>3. CASE Deliver
  BY <1>2, <1>3 DEF Deliver, Receive, Expire
<1>4. CASE RunReturns
  BY <1>4, WorkerStateFacts DEF RunReturns, ShutDown
<1>5. CASE \E h \in Handlers : Post(h) \/ \E k \in Keys : Event(h, k)
  BY <1>5 DEF Post, Enqueued, Event, enqueueKanary
<1> QED
  BY <1>3, <1>4, <1>5

\* NewController takes its informers in order, and each is the one that is
\* registered.
LEMMA WireStep ==
    ASSUME ProcessTypeOK, Wiring, NewController
    PROVE  Wiring'
<1>1. informers \in [Kinds -> Nat] /\ wired \in [Uses -> [Kinds -> Nat]]
  BY DEF ProcessTypeOK
<1>2. \A f \in Kinds : informers'[f] \in Nat \ {0}
  BY <1>1 DEF NewController, Wire, InformerFor
<1>3. \A f \in Kinds : informers[f] # 0 => informers'[f] = informers[f]
  BY <1>1 DEF NewController, Wire, InformerFor
<1>4. CASE Wire("lister", "synced")
  <2>1. main' = "synced"
    BY <1>4 DEF Wire
  <2>2. wired'["lister"] = informers'
    BY <1>1, <1>4 DEF Wire, Uses
  <2> QED
    BY <1>2, <2>1, <2>2 DEF Wiring
<1>5. CASE Wire("synced", "handler")
  <2>1. main = "synced" /\ main' = "handler"
    BY <1>5 DEF Wire
  <2>2. wired'["lister"] = wired["lister"] /\ wired'["synced"] = informers'
    BY <1>1, <1>5 DEF Wire, Uses
  <2>3. \A f \in Kinds : informers[f] # 0 /\ wired["lister"][f] = informers[f]
    BY <2>1 DEF Wiring
  <2>4. \A f \in Kinds : wired'["lister"][f] = informers'[f]
    BY <1>3, <2>2, <2>3
  <2> QED
    BY <1>2, <2>1, <2>2, <2>4 DEF Wiring
<1>6. CASE Wire("handler", "sync")
  <2>1. main = "handler" /\ main' = "sync"
    BY <1>6 DEF Wire
  <2>2. /\ wired'["lister"] = wired["lister"]
        /\ wired'["synced"] = wired["synced"]
        /\ wired'["handler"] = informers'
    BY <1>1, <1>6 DEF Wire, Uses
  <2>3. \A f \in Kinds : /\ informers[f] # 0
                        /\ wired["lister"][f] = informers[f]
                        /\ wired["synced"][f] = informers[f]
    BY <2>1 DEF Wiring
  <2>4. \A f \in Kinds : /\ wired'["lister"][f] = informers'[f]
                        /\ wired'["synced"][f] = informers'[f]
    BY <1>3, <2>2, <2>3
  <2> QED
    BY <1>2, <2>1, <2>2, <2>4 DEF Wiring
<1> QED
  BY <1>4, <1>5, <1>6 DEF NewController

\* Each step keeps the wiring and the order of the start.
LEMMA ProcessStep ==
    ASSUME ProcessTypeOK, ProcessInv, [Next]_vars
    PROVE  ProcessInv'
<1> USE DEF ProcessInv, StartedInOrder
<1>1. CASE UNCHANGED vars
  BY <1>1 DEF Wiring, WaitForCacheSync, vars, queueVars, processVars
<1>2. CASE Setup \/ StartWorkers \/ Exit \/ ReceiveSignal
  BY <1>2 DEF Wiring, WaitForCacheSync, queueVars, Setup, StartWorkers, Exit,
              ReceiveSignal
<1>3. CASE NewController
  <2>1. main \in Uses /\ main' \in {"synced", "handler", "sync"}
    BY <1>3 DEF NewController, Wire, Uses
  <2>2. \A w \in Workers : wk'[w] = Away
    BY <1>3, <2>1 DEF NewController, Wire, queueVars, Uses
  <2>3. Wiring'
    BY <1>3, WireStep DEF NewController, Uses
  <2> QED
    BY <2>1, <2>2, <2>3
<1>4. ASSUME NEW f \in Kinds, Start(f) \/ Sync(<<f, informers[f]>>)
      PROVE  ProcessInv'
  BY <1>4 DEF Wiring, WaitForCacheSync, queueVars, Start, Sync
<1>5. CASE RunReturns
  <2>1. Wiring' /\ (main' \in {"run", "flush"} => WaitForCacheSync')
    BY <1>5 DEF Wiring, WaitForCacheSync, RunReturns
  <2>2. CASE main = "run"
    BY <1>5, <2>1, <2>2 DEF RunReturns
  <2>3. CASE main # "run"
    <3>1. main = "sync" /\ \A w \in Workers : wk[w] = Away
      BY <1>5, <2>3 DEF RunReturns
    <3>2. \A w \in Workers : wk'[w] = Away
      BY <1>5, <3>1, AwayStaysAway DEF ProcessTypeOK
    <3> QED
      BY <2>1, <3>2
  <2> QED
    BY <2>2, <2>3
<1>6. CASE Deliver \/ \E h \in Handlers : Post(h) \/ \E k \in Keys : Event(h, k)
  <2>1. UNCHANGED processVars
    BY <1>6 DEF Deliver, Post, Event
  <2>2. Wiring' /\ (main' \in {"run", "flush"} => WaitForCacheSync')
    BY <2>1 DEF Wiring, WaitForCacheSync, processVars
  <2>3. CASE \A w \in Workers : wk[w] = Away
    <3>1. \A w \in Workers : wk'[w] = Away
      BY <1>6, <2>3, AwayStaysAway DEF ProcessTypeOK
    <3> QED
      BY <2>2, <3>1
  <2>4. CASE \E w \in Workers : wk[w] # Away
    BY <2>1, <2>2, <2>4 DEF processVars
  <2> QED
    BY <2>3, <2>4
<1>7. ASSUME NEW w \in Workers, Work(w) PROVE ProcessInv'
  BY <1>7 DEF Wiring, WaitForCacheSync, processVars, Work
<1> QED
  BY <1>1, <1>2, <1>3, <1>4, <1>5, <1>6, <1>7 DEF Next

\* When a worker runs, every lister reads the index of an informer that runs,
\* has its first list and calls the handlers (controller.go:153-158).
THEOREM CachesAreFull == Spec => []WorkersReadFullCaches
<1>1. Init => ProcessInv
  BY DEF Init, QueueInit, ProcessInv, Wiring, StartedInOrder
<1>2. ProcessTypeOK /\ ProcessInv /\ [Next]_vars => ProcessInv'
  BY ProcessStep
<1>3. ProcessInv => WorkersReadFullCaches
  BY DEF ProcessInv, Wiring, StartedInOrder, WaitForCacheSync,
         WorkersReadFullCaches
<1> QED
  BY <1>1, <1>2, <1>3, ProcessTypeCorrect, PTL DEF Spec
=============================================================================
