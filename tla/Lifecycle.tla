----------------------------- MODULE Lifecycle ------------------------------
(***************************************************************************)
(* One life of the operator's process, from main to its exit, around the   *)
(* work queue of WorkQueue:                                                *)
(*                                                                         *)
(*   main.go       main builds clients, factories and the controller,      *)
(*                 starts the factories in goroutines and calls Run;       *)
(*   controller.go NewController takes listers, HasSynced functions and    *)
(*                 handlers from the factories' informers; Run waits for   *)
(*                 the caches, starts the workers and waits for a stop;    *)
(*   signal.go     the first signal closes stopCh, the second exits;       *)
(*   factory.go    one informer for each type, run at most once.           *)
(*                                                                         *)
(* A factory is named by the kind it is asked for.  Informers of a factory *)
(* are numbered in the order they are made; 0 is none.                     *)
(***************************************************************************)
EXTENDS WorkQueue

CONSTANT Kinds      \* the kinds watched: Kanary and Endpoints

\* A handler is named by the kind of its informer.
ASSUME LifecycleAssumption == Handlers \subseteq Kinds

\* What NewController takes an informer for, in the order it does.
Uses == {"lister", "synced", "handler"}

VARIABLES
    main,       \* where the main goroutine is
    informers,  \* kind -> the informer its factory has registered
    wired,      \* use -> kind -> the informer it was taken from
    starting,   \* kinds whose factory.Start has not run yet
    started,    \* informers that run: <<kind, number>>
    synced,     \* informers whose first list is in their index
    stop,       \* stopCh is closed
    exit        \* the exit code, or None while the process lives

processVars == <<main, informers, wired, starting, started, synced, stop, exit>>
vars == <<queueVars, processVars>>

Init ==
    /\ QueueInit
    /\ main = "setup"
    /\ informers = [f \in Kinds |-> 0]
    /\ wired = [u \in Uses |-> [f \in Kinds |-> 0]]
    /\ starting = Kinds
    /\ started = {}
    /\ synced = {}
    /\ stop = FALSE
    /\ exit = None

-----------------------------------------------------------------------------
(* main, NewController and Run *)

\* A kubeconfig that cannot be used is fatal; otherwise the controller is made.
Setup ==
    /\ main = "setup"
    /\ main' \in {"lister", "fatal"}
    /\ UNCHANGED <<queueVars, informers, wired, starting, started, synced, stop,
                   exit>>

InformerForAnew(n) == n + 1

\* The registered informer, made on the first request.
InformerFor(n) == IF n # 0 THEN n ELSE 1

\* NewController asks both factories for an informer, once for each use.
Wire(use, next) ==
    /\ main = use
    /\ main' = next
    /\ informers' = [f \in Kinds |-> InformerFor(informers[f])]
    /\ wired' = [wired EXCEPT ![use] = informers']
    /\ UNCHANGED <<queueVars, starting, started, synced, stop, exit>>

NewController ==
    Wire("lister", "synced") \/ Wire("synced", "handler") \/ Wire("handler", "sync")

\* The goroutines that main starts after NewController, each with the lock of
\* its factory: what is registered and does not run yet is run, once.
Start(f) ==
    /\ main \notin {"setup"} \cup Uses
    /\ f \in starting
    /\ starting' = starting \ {f}
    /\ started' = IF informers[f] = 0 THEN started
                  ELSE started \cup {<<f, informers[f]>>}
    /\ UNCHANGED <<queueVars, main, informers, wired, synced, stop, exit>>

\* The first list of an informer is in the index behind its lister.
Sync(i) ==
    /\ i \in started \ synced
    /\ synced' = synced \cup {i}
    /\ UNCHANGED <<queueVars, main, informers, wired, starting, started, stop,
                   exit>>

WaitForCacheSyncOfOne ==
    \E f \in Kinds : <<f, wired["synced"][f]>> \in synced

WaitForCacheSync ==
    \A f \in Kinds : <<f, wired["synced"][f]>> \in synced

\* The caches are populated: the workers start, and main waits for stopCh.
StartWorkers ==
    /\ main = "sync"
    /\ WaitForCacheSync
    /\ main' = "run"
    /\ UNCHANGED <<queueVars, informers, wired, starting, started, synced, stop,
                   exit>>

RunReturnsSynced ==
    /\ stop
    /\ main = "run"
    /\ main' = "flush"
    /\ ShutDown
    /\ UNCHANGED <<informers, wired, starting, started, synced, stop, exit>>

\* Run returns: with an error when it was stopped before the caches were
\* populated, with nil after the workers were started.  Both ways the deferred
\* ShutDown runs; neither way does it wait for a worker.
RunReturns ==
    /\ stop
    /\ \/ main = "sync" /\ ~WaitForCacheSync /\ main' = "fatal"
       \/ main = "run" /\ main' = "flush"
    /\ ShutDown
    /\ UNCHANGED <<informers, wired, starting, started, synced, stop, exit>>

\* glog.Fatalf, or the end of main.
Exit ==
    /\ main \in {"fatal", "flush"}
    /\ exit' = IF main = "flush" THEN 0 ELSE 255
    /\ UNCHANGED <<queueVars, main, informers, wired, starting, started, synced,
                   stop>>

\* The goroutine of SetupSignalHandler.
ReceiveSignal ==
    /\ IF stop THEN exit' = 1 /\ UNCHANGED stop
               ELSE stop' = TRUE /\ UNCHANGED exit
    /\ UNCHANGED <<queueVars, main, informers, wired, starting, started, synced>>

-----------------------------------------------------------------------------
(* Informers and workers on the queue *)

\* An event reaches the handlers that were added to a running informer.
Event(h, k) ==
    /\ <<h, wired["handler"][h]>> \in started
    /\ enqueueKanary(h, k)
    /\ UNCHANGED processVars

\* wait.Until: worker runs unless stopCh is closed, again one second after it
\* returned.
Work(w) ==
    /\ main \in {"run", "flush"}
    /\ \/ ~stop /\ Enter(w)
       \/ WorkerStep(w)
    /\ UNCHANGED processVars

Deliver ==
    /\ Receive \/ \E k \in Keys : Expire(k)
    /\ UNCHANGED processVars

Post(h) == Enqueued(h) /\ UNCHANGED processVars

Alive == exit = None

Next ==
    /\ Alive
    /\ \/ Setup \/ NewController \/ StartWorkers \/ RunReturns \/ Exit
       \/ ReceiveSignal \/ Deliver
       \/ \E f \in Kinds : Start(f) \/ Sync(<<f, informers[f]>>)
       \/ \E h \in Handlers : Post(h) \/ \E k \in Keys : Event(h, k)
       \/ \E w \in Workers : Work(w)

Spec == Init /\ [][Next]_vars

\* While the process lives its goroutines run, the API server answers a list
\* and delays end: weak fairness.  Senders blocked on a channel are served in
\* their order, so one that finds room again and again gets it: strong
\* fairness.  Nothing is assumed of signals and events, nor of how a turn ends.
Fairness ==
    /\ WF_vars(Alive /\ Setup)
    /\ WF_vars(Alive /\ NewController)
    /\ WF_vars(Alive /\ StartWorkers)
    /\ WF_vars(Alive /\ RunReturns)
    /\ WF_vars(Alive /\ Exit)
    /\ \A f \in Kinds : /\ WF_vars(Alive /\ Start(f))
                       /\ WF_vars(Alive /\ ~stop /\ Sync(<<f, informers[f]>>))
    /\ \A h \in Handlers : SF_vars(Alive /\ Post(h))
    /\ WF_vars(Alive /\ Receive /\ UNCHANGED processVars)
    /\ \A k \in Keys : WF_vars(Alive /\ Expire(k) /\ UNCHANGED processVars)
    /\ \A w \in Workers : /\ WF_vars(Alive /\ Work(w))
                         /\ SF_vars(Alive /\ Retry(w) /\ UNCHANGED processVars)

FairSpec == Spec /\ Fairness

-----------------------------------------------------------------------------
(* What must hold in every state *)

ProcessTypeOK ==
    /\ QueueTypeOK
    /\ main \in {"setup", "sync", "run", "flush", "fatal"} \cup Uses
    /\ informers \in [Kinds -> Nat]
    /\ wired \in [Uses -> [Kinds -> Nat]]
    /\ starting \subseteq Kinds
    /\ started \subseteq Kinds \X (Nat \ {0})
    /\ synced \subseteq started
    /\ stop \in BOOLEAN
    /\ exit \in {None, 0, 1, 255}

\* controller.go:153-158: when a worker takes its first key, every lister reads
\* the index of an informer that runs and has its first list, and the handlers
\* were given to that very informer, so no event of what the lister shows is
\* missed.  A lister of an informer that never runs would be empty for good,
\* and every Kanary would look deleted.
WorkersReadFullCaches ==
    (\E w \in Workers : wk[w] # Away) =>
        \A f \in Kinds : /\ <<f, wired["lister"][f]>> \in synced
                        /\ wired["handler"][f] = wired["lister"][f]

-----------------------------------------------------------------------------
(* What must happen in the end *)

\* A controller that was made gets its workers, or is told to stop: Run does
\* not wait for a cache that nobody fills (main.go:58-61, controller.go:156).
WorkersStart == (main = "sync") ~> (main = "run" \/ stop)

\* After a signal the process exits, wherever it is (signal.go:34-39, "a stop
\* channel is returned which is closed on one of these signals"): neither Run
\* nor a blocked queue keeps it.
StopsWhenTold == stop ~> (exit # None)

\* A key that waits anywhere in the queue is taken by a worker, unless the
\* process is told to stop first: the delays, the retries of another key that
\* fails for ever and the events that keep arriving hold none back.
KeysAreServed ==
    \A k \in Keys :
        (k \in Waiting) ~> (stop \/ \E w \in Workers : wk[w].key = k)

-----------------------------------------------------------------------------
(* What the documentation says and the code does not do *)

\* controller.go:144-147, Run "will block until stopCh is closed, at which point
\* it will shutdown the workqueue and wait for workers to finish processing
\* their current work items": a process that ends in order has no worker left
\* in the middle of an item.
RunWaitsForWorkers ==
    (exit = 0) => \A w \in Workers : wk[w].key = None
=============================================================================
