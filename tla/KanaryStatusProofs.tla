------------------------- MODULE KanaryStatusProofs -------------------------
(***************************************************************************)
(* What the status of a Kanary says: the list of backends is one for the   *)
(* routes the Kanary has when the list is recorded, and the four parts of  *)
(* the status are recorded in the order of Provisioning.                   *)
(***************************************************************************)
EXTENDS KanaryOwnershipProofs

\* One backend for each route, in order, with its weight.
ListFor(status, routes) ==
    /\ Len(status) = Len(routes)
    /\ \A i \in DOMAIN status : /\ status[i].service = routes[i].service
                                /\ status[i].weight = routes[i].weight

\* The list a worker has built is one for the routes of its copy.
Builds == \A w \in Workers :
              wk[w] # IdleWorker => ListFor(wk[w].exp, wk[w].ky.spec.routes)

\* A part of the status is there only with those before it.
InOrder(o) ==
    o # None => /\ o.svc # None => o.proxy
                /\ o.proxy => o.eps # <<>>
                /\ o.eps # <<>> => o.config

\* What a worker relies on when it makes its calls.
WorkerInOrder(r) ==
    /\ InOrder(r.ky)
    /\ r.pc # "idle" => r.exp # <<>>
    /\ r.pc = "statusEndpoint" => r.ky.config
    /\ r.pc \in {"ref", "deployment", "statusDeployment"} => r.ky.eps # <<>>
    /\ r.pc \in {"service", "recreateService", "statusService"} => r.ky.proxy

AllInOrder ==
    /\ \A k \in Kanaries : /\ InOrder(kan[k]) /\ InOrder(kc[k])
                           /\ \A i \in DOMAIN kwatch[k] : InOrder(kwatch[k][i])
    /\ \A w \in Workers : WorkerInOrder(wk[w])

-----------------------------------------------------------------------------
(* How a worker goes on *)

\* After a call that does not write the Kanary.
Follows(r, n) ==
    /\ n.key = r.key /\ n.ky = r.ky /\ n.exp = r.exp
    /\ \/ n.pc \in {"rollout", "statusConfigMap"}
       \/ r.pc = "ref" /\ n.pc \in {"ref", "deployment"}
       \/ r.ky.proxy /\ n.pc = "service"
       \/ r.pc = "deployment" /\ n.pc = "statusDeployment"
       \/ /\ r.pc \in {"service", "recreateService"}
          /\ n.pc \in {"recreateService", "statusService"}

OtherCall(w) ==
    \/ CreateConfigMap(w) \/ UpdateConfigMap(w) \/ performRollingUpdate(w)
    \/ AddKanaryRef(w) \/ CreateDeployment(w)
    \/ CreateService(w) \/ DeleteService(w) \/ Refuse(w)

\* The steps that are skipped when nothing is left to do.
LEMMA Skips ==
    ASSUME NEW r \in Busy
    PROVE  /\ \A p \in Calls : /\ At(r, p).key = r.key /\ At(r, p).ky = r.ky
                               /\ At(r, p).exp = r.exp /\ At(r, p).pc = p
           /\ \/ ToDeployment(r) \in {At(r, "deployment"), IdleWorker}
              \/ r.ky.proxy /\ ToDeployment(r) = At(r, "service")
           /\ \/ ToRefs(r) \in {At(r, "ref"), At(r, "deployment"), IdleWorker}
              \/ r.ky.proxy /\ ToRefs(r) = At(r, "service")
<1>1. \A p \in Calls : /\ At(r, p).key = r.key /\ At(r, p).ky = r.ky
                       /\ At(r, p).exp = r.exp /\ At(r, p).pc = p
  BY DEF At, Busy
<1>2. \/ ToDeployment(r) \in {At(r, "deployment"), IdleWorker}
      \/ r.ky.proxy /\ ToDeployment(r) = At(r, "service")
  BY DEF ToDeployment, ToService, HAProxyCreationNeeded
<1>3. \/ ToRefs(r) \in {At(r, "ref"), At(r, "deployment"), IdleWorker}
      \/ r.ky.proxy /\ ToRefs(r) = At(r, "service")
  BY <1>2 DEF ToRefs
<1> QED
  BY <1>1, <1>2, <1>3

\* A call that does not write the Kanary.
LEMMA CallFollows ==
    ASSUME TypeOK, NEW w \in Workers, OtherCall(w)
    PROVE  /\ UNCHANGED kan /\ wk[w] \in Busy /\ wk[w].pc \in Calls
           /\ \E n : /\ wk' = [wk EXCEPT ![w] = n]
                     /\ n = IdleWorker \/ Follows(wk[w], n)
<1>1. UNCHANGED kan /\ wk[w] \in Busy /\ wk[w].pc \in Calls
  <2>1. wk[w].pc \in Calls /\ UNCHANGED kan
    BY ControllerAssumption
    DEF OtherCall, CreateConfigMap, UpdateConfigMap, performRollingUpdate,
        AddKanaryRef, CreateDeployment, CreateService, DeleteService, Refuse,
        api, Calls
  <2> QED
    BY <2>1, BusyWorker
<1>2. CASE wk' = [wk EXCEPT ![w] = IdleWorker]
  BY <1>1, <1>2
<1>3. ASSUME NEW p \in Calls, wk' = [wk EXCEPT ![w] = At(wk[w], p)],
             \/ p \in {"rollout", "statusConfigMap"}
             \/ wk[w].pc = "deployment" /\ p = "statusDeployment"
             \/ /\ wk[w].pc \in {"service", "recreateService"}
                /\ p \in {"recreateService", "statusService"}
      PROVE  \E n : wk' = [wk EXCEPT ![w] = n] /\ Follows(wk[w], n)
  <2>1. PICK n : n = At(wk[w], p)
    OBVIOUS
  <2>2. n.key = wk[w].key /\ n.ky = wk[w].ky /\ n.exp = wk[w].exp /\ n.pc = p
    BY <1>1, <2>1, Skips
  <2>3. Follows(wk[w], n)
    BY <1>3, <2>2 DEF Follows
  <2> QED
    BY <1>3, <2>1, <2>3
<1>4. CASE /\ OtherCall(w) /\ ~AddKanaryRef(w)
           /\ wk' # [wk EXCEPT ![w] = IdleWorker]
  <2>1. \E p \in {"rollout", "statusConfigMap", "statusDeployment",
                  "recreateService", "statusService"} :
          /\ wk' = [wk EXCEPT ![w] = At(wk[w], p)]
          /\ \/ p \in {"rollout", "statusConfigMap"}
             \/ wk[w].pc = "deployment" /\ p = "statusDeployment"
             \/ /\ wk[w].pc \in {"service", "recreateService"}
                /\ p \in {"recreateService", "statusService"}
    BY <1>4 DEF OtherCall, CreateConfigMap, UpdateConfigMap, performRollingUpdate,
        CreateDeployment, CreateService, DeleteService, Refuse, handleErr,
        Answer, Return
  <2> QED
    BY <1>1, <1>3, <2>1 DEF Calls
<1>5. CASE AddKanaryRef(w) /\ wk' # [wk EXCEPT ![w] = IdleWorker]
  <2>1. PICK r : r = [wk[w] EXCEPT !.i = @ + 1]
    OBVIOUS
  <2>2. /\ r \in Busy /\ r.key = wk[w].key /\ r.ky = wk[w].ky
        /\ r.exp = wk[w].exp /\ wk[w].pc = "ref"
    <3>1. wk[w].pc = "ref"
      BY <1>5 DEF AddKanaryRef
    <3>2. PICK old \in Busy : old = wk[w]
      BY <1>1
    <3>3. r = [old EXCEPT !.i = old.i + 1] /\ old.i + 1 \in Nat \ {0}
      BY <2>1, <3>2 DEF Busy
    <3>4. r \in Busy /\ r.key = old.key /\ r.ky = old.ky /\ r.exp = old.exp
      BY <3>2, <3>3 DEF Busy
    <3> QED
      BY <3>1, <3>2, <3>4
  <2>3. wk' = [wk EXCEPT ![w] = ToRefs(r)]
    BY <1>5, <2>1 DEF AddKanaryRef, Answer, Return
  <2>4. PICK n : n = ToRefs(r)
    OBVIOUS
  <2>5. n = IdleWorker \/ Follows(wk[w], n)
    <3>1. \A p \in {"ref", "deployment", "service"} :
            /\ At(r, p).key = wk[w].key /\ At(r, p).ky = wk[w].ky
            /\ At(r, p).exp = wk[w].exp /\ At(r, p).pc = p
      BY <2>2, Skips DEF Calls
    <3>2. \/ n \in {At(r, "ref"), At(r, "deployment"), IdleWorker}
          \/ wk[w].ky.proxy /\ n = At(r, "service")
      BY <2>2, <2>4, Skips
    <3> QED
      BY <2>2, <3>1, <3>2 DEF Follows
  <2> QED
    BY <1>1, <2>3, <2>4, <2>5
<1> QED
  BY <1>2, <1>4, <1>5

\* A call, of either kind.
LEMMA CallEffect ==
    ASSUME TypeOK, Copies, NEW w \in Workers, SyncStep(w) \/ Refuse(w),
           NEW k, k = wk[w].key
    PROVE  /\ wk[w] \in Busy /\ wk[w].pc \in Calls /\ k \in Kanaries
           /\ \/ /\ UNCHANGED kan
                 /\ \E n : /\ wk' = [wk EXCEPT ![w] = n]
                           /\ n = IdleWorker \/ Follows(wk[w], n)
              \/ \E o2 \in KanaryObjects : \E m :
                    /\ Recording(wk[w], o2, m) /\ wk[w].ky = kan[k]
                    /\ kan' = [kan EXCEPT ![k] = o2]
                    /\ \E n \in {m, IdleWorker} : wk' = [wk EXCEPT ![w] = n]
<1>1. wk[w].pc \in Calls /\ wk[w] \in Busy /\ k \in Kanaries
  BY StepEffect, BusyWorker
<1>2. CASE OtherCall(w)
  BY <1>1, <1>2, CallFollows
<1>3. CASE GivesUp(w)
  BY <1>1, <1>3 DEF GivesUp
<1>4. CASE Records(w, k)
  <2>1. wk[w].ky = kan[k]
    <3>1. wk[w].ky # None
      BY <1>1, BusyWorker, NoneAssumption
    <3>2. CopyOf(wk[w].ky, kan[k], LastUid)
      BY <1>1 DEF Copies
    <3> QED
      BY <1>4, <3>1, <3>2 DEF Records, IsCurrent, CopyOf
  <2>2. kan \in [Kanaries -> Objects]
    BY TypeParts DEF KanariesTyped
  <2>3. kan = [kan EXCEPT ![k] = kan[k]]
    BY <2>2
  <2>4. PICK o2, m :
           /\ o2 \in KanaryObjects
           /\ Recording(wk[w], o2, m)
           /\ StoresAs(w, k, o2)
           /\ \E n \in {m, IdleWorker} : wk' = [wk EXCEPT ![w] = n]
    BY <1>4 DEF Records
  <2>5. kan' = [kan EXCEPT ![k] = o2]
    BY <2>1, <2>3, <2>4 DEF StoresAs, PutKanary
  <2> QED
    BY <1>1, <2>1, <2>4, <2>5
<1>5. \/ OtherCall(w)
      \/ updateStatusConfigMap(w) \/ updateStatusEndpoint(w)
      \/ updateStatusDeployment(w) \/ updateStatusService(w)
  BY DEF SyncStep, OtherCall
<1> QED
  BY <1>2, <1>3, <1>4, <1>5, RecordStep

-----------------------------------------------------------------------------
(* The list of backends is one for the routes of the Kanary *)

\* buildExpectedEndpointStatus returns a list for the routes it is given.
LEMMA BuildsList ==
    ASSUME NEW spec \in Specs, NEW e
    PROVE  ListFor(buildExpectedEndpointStatus(spec.routes, e), spec.routes)
<1> DEFINE built == buildExpectedEndpointStatus(spec.routes, e)
<1>1. /\ DOMAIN spec.routes = 1..Len(spec.routes) /\ Len(spec.routes) \in Nat
  <2>1. spec.routes \in Seq(ToSet(spec.routes))
    BY ControllerAssumption
  <2> QED
    BY <2>1
<1>2. /\ DOMAIN built = DOMAIN spec.routes
      /\ \A i \in DOMAIN spec.routes : built[i] = Resolve(spec.routes[i], e)
  BY DEF buildExpectedEndpointStatus
<1>3. Len(built) = Len(spec.routes)
  BY <1>1, <1>2
<1>4. \A i \in DOMAIN spec.routes :
        /\ Resolve(spec.routes[i], e).service = spec.routes[i].service
        /\ Resolve(spec.routes[i], e).weight = spec.routes[i].weight
  BY DEF Resolve
<1> HIDE DEF built
<1>5. ListFor(built, spec.routes)
  BY <1>2, <1>3, <1>4 DEF ListFor
<1> QED
  BY <1>5 DEF built

\* Which steps concern a worker.
LEMMA WorkersOnly ==
    ASSUME [Next]_vars
    PROVE  \/ UNCHANGED wk
           \/ wk' = [w \in Workers |-> IdleWorker]
           \/ \E w \in Workers : SyncStep(w) \/ Refuse(w)
           \/ \E w \in Workers, k \in Kanaries : StartSync(w, k)
BY DEF Next, Environment, CreateKanary, EditKanary, DeleteKanary, ChangeEndpoints,
       Restart, RelistKanaries, RelistEndpoints, Panic, ProcessStart,
       DeliverKanary, Resync, CollectGarbage, DeliverEndpoints, DeletionStep,
       EndDeletion, DeleteKyRefInEp, DeletionPanics, vars

\* Every step keeps a worker's list with the routes of its copy.
LEMMA BuildsStep == TypeOK /\ Copies /\ Builds /\ [Next]_vars => Builds'
<1> SUFFICES ASSUME TypeOK, Copies, Builds, [Next]_vars PROVE Builds'
  OBVIOUS
<1>t. \A w \in Workers : \A n : wk' = [wk EXCEPT ![w] = n] =>
         \A v \in Workers : wk'[v] = IF v = w THEN n ELSE wk[v]
  BY TypeParts DEF WorkersTyped
<1>1. ASSUME NEW w \in Workers, NEW n, wk' = [wk EXCEPT ![w] = n],
             n # IdleWorker => ListFor(n.exp, n.ky.spec.routes)
      PROVE  Builds'
  <2>1. \A v \in Workers : wk'[v] = IF v = w THEN n ELSE wk[v]
    BY <1>t, <1>1
  <2> SUFFICES ASSUME NEW v \in Workers, wk'[v] # IdleWorker
               PROVE  ListFor(wk'[v].exp, wk'[v].ky.spec.routes)
    BY DEF Builds
  <2> QED
    BY <1>1, <2>1 DEF Builds
<1>2. ASSUME NEW w \in Workers, SyncStep(w) \/ Refuse(w) PROVE Builds'
  <2>1. PICK n : /\ wk' = [wk EXCEPT ![w] = n]
                 /\ \/ n = IdleWorker
                    \/ n.exp = wk[w].exp /\ n.ky.spec = wk[w].ky.spec
    BY <1>2, CallEffect DEF Follows, Recording
  <2>2. wk[w] # IdleWorker
    BY <1>2, StepEffect, IdleWorkerOK DEF Calls
  <2> QED
    BY <1>1, <2>1, <2>2 DEF Builds
<1>3. ASSUME NEW w \in Workers, NEW k \in Kanaries, StartSync(w, k)
      PROVE  Builds'
  <2>1. CASE wk' = [wk EXCEPT ![w] = IdleWorker]
    BY <1>1, <2>1
  <2>2. ASSUME NEW r \in Busy, r.ky = kc[k],
               r.exp = buildExpectedEndpointStatus(kc[k].spec.routes, ec),
               \/ wk' = [wk EXCEPT ![w] = r]
               \/ wk' = [wk EXCEPT ![w] = ToDeployment(r)]
        PROVE  Builds'
    <3>1. ListFor(r.exp, r.ky.spec.routes)
      <4>1. r.ky.spec \in Specs
        BY DEF Busy, KanaryObjects
      <4> QED
        BY <2>2, <4>1, BuildsList
    <3>2. PICK n : n \in {r, ToDeployment(r)} /\ wk' = [wk EXCEPT ![w] = n]
      BY <2>2
    <3>3. n = IdleWorker \/ (n.ky = r.ky /\ n.exp = r.exp)
      BY <3>2, SkipTo
    <3> QED
      BY <1>1, <3>1, <3>2, <3>3
  <2> QED
    BY <1>3, <2>1, <2>2, StartTurn
<1>4. CASE UNCHANGED wk \/ wk' = [w \in Workers |-> IdleWorker]
  BY <1>4 DEF Builds
<1> QED
  BY <1>2, <1>3, <1>4, WorkersOnly

\* The list a worker has built is one for its copy throughout its turn.
LEMMA BuildsInvariant == Spec => []Builds
<1>1. Init => Builds
  BY DEF Init, Builds
<1> QED
  BY <1>1, BuildsStep, TypeCorrect, CopiesInvariant, PTL DEF Spec

\* A worker builds the list from a cached Kanary and from cached Endpoints
\* and records it several calls later; all the same it is never recorded for
\* routes that the user has replaced meanwhile (controller.go:276-331).
THEOREM ListsAreCurrent == Spec => RecordedRoutesAreCurrent
<1>1. TypeOK /\ Copies /\ Builds /\ [Next]_vars
        => [\A k \in Kanaries : SameKanary(k) /\ kan'[k].eps # kan[k].eps =>
              /\ Len(kan'[k].eps) = Len(kan[k].spec.routes)
              /\ \A i \in DOMAIN kan'[k].eps :
                    /\ kan'[k].eps[i].service = kan[k].spec.routes[i].service
                    /\ kan'[k].eps[i].weight = kan[k].spec.routes[i].weight]_vars
  <2> SUFFICES ASSUME TypeOK, Copies, Builds, [Next]_vars, NEW k \in Kanaries,
                      SameKanary(k), kan'[k].eps # kan[k].eps
               PROVE  ListFor(kan'[k].eps, kan[k].spec.routes)
    BY DEF ListFor
  <2>1. PICK w \in Workers :
           /\ wk[w].pc = "statusEndpoint" /\ wk[w].key = k /\ wk[w].ky = kan[k]
           /\ kan'[k].eps = wk[w].exp
    BY ListWrite
  <2>2. wk[w] # IdleWorker
    BY <2>1 DEF IdleWorker
  <2> QED
    BY <2>1, <2>2 DEF Builds
<1> QED
  BY <1>1, TypeCorrect, CopiesInvariant, BuildsInvariant, PTL
  DEF Spec, RecordedRoutesAreCurrent

-----------------------------------------------------------------------------
(* The parts of the status are recorded in their order *)

\* The prefixes of Provisioning.
LEMMA FirstParts ==
    /\ P!Prefix(0) = {}
    /\ P!Prefix(1) = {"config"}
    /\ P!Prefix(2) = {"config", "list"}
    /\ P!Prefix(3) = {"config", "list", "proxy"}
    /\ P!Prefix(4) = {"config", "list", "proxy", "service"}
<1>1. /\ P!Order[1] = "config" /\ P!Order[2] = "list"
      /\ P!Order[3] = "proxy" /\ P!Order[4] = "service"
  BY DEF P!Order
<1>2. /\ 1..0 = {} /\ 1..1 = {1} /\ 1..2 = {1, 2} /\ 1..3 = {1, 2, 3}
      /\ 1..4 = {1, 2, 3, 4}
  OBVIOUS
<1> QED
  BY <1>1, <1>2 DEF P!Prefix

\* What a status in order shows.
LEMMA Shown ==
    ASSUME NEW o \in KanaryObjects, InOrder(o)
    PROVE  /\ ~o.config => Recorded(o) = P!Prefix(0)
           /\ o.config /\ o.eps = <<>> => Recorded(o) = P!Prefix(1)
           /\ o.eps # <<>> /\ ~o.proxy => Recorded(o) = P!Prefix(2)
           /\ o.proxy /\ o.svc = None => Recorded(o) = P!Prefix(3)
           /\ o.svc # None => Recorded(o) = P!Prefix(4)
<1>1. o # None
  BY NoneAssumption
<1>2. \A x : x \in Recorded(o) <=> \/ x = "config" /\ o.config
                                   \/ x = "list" /\ o.eps # <<>>
                                   \/ x = "proxy" /\ o.proxy
                                   \/ x = "service" /\ o.svc # None
  BY <1>1 DEF Recorded
<1>3. /\ o.svc # None => o.proxy
      /\ o.proxy => o.eps # <<>>
      /\ o.eps # <<>> => o.config
  BY <1>1 DEF InOrder
<1>4. \E S : S = Recorded(o) /\ \A x : x \in S <=> x \in Recorded(o)
  OBVIOUS
<1>5. ~o.config => Recorded(o) = {}
  <2>1. ~o.config => \A x : x \notin Recorded(o)
    BY <1>2, <1>3
  <2> QED
    BY <2>1
<1>6. o.config /\ o.eps = <<>> => Recorded(o) = {"config"}
  <2>1. o.config /\ o.eps = <<>>
          => \A x : x \in Recorded(o) <=> x \in {"config"}
    BY <1>2, <1>3
  <2> QED
    BY <2>1, <1>1 DEF Recorded
<1>7. o.eps # <<>> /\ ~o.proxy => Recorded(o) = {"config", "list"}
  <2>1. o.eps # <<>> /\ ~o.proxy
          => \A x : x \in Recorded(o) <=> x \in {"config", "list"}
    BY <1>2, <1>3
  <2> QED
    BY <2>1, <1>1 DEF Recorded
<1>8. o.proxy /\ o.svc = None => Recorded(o) = {"config", "list", "proxy"}
  <2>1. o.proxy /\ o.svc = None
          => \A x : x \in Recorded(o) <=> x \in {"config", "list", "proxy"}
    BY <1>2, <1>3
  <2> QED
    BY <2>1, <1>1 DEF Recorded
<1>9. o.svc # None => Recorded(o) = {"config", "list", "proxy", "service"}
  <2>1. o.svc # None
          => \A x : x \in Recorded(o) <=> x \in {"config", "list", "proxy", "service"}
    BY <1>2, <1>3
  <2> QED
    BY <2>1, <1>1 DEF Recorded
<1> QED
  BY <1>5, <1>6, <1>7, <1>8, <1>9, FirstParts

\* From o to o2 the next part is recorded, or none.
Advances(o, o2) ==
    \/ Recorded(o2) = Recorded(o)
    \/ \E n \in 1..4 : /\ Recorded(o) = P!Prefix(n - 1)
                       /\ Recorded(o2) = P!Prefix(n)

\* A worker that writes the status adds the part that comes next.
LEMMA RecordingInOrder ==
    ASSUME NEW r \in Busy, WorkerInOrder(r),
           NEW o2 \in KanaryObjects, NEW m, Recording(r, o2, m)
    PROVE  WorkerInOrder(m) /\ InOrder(o2) /\ Advances(r.ky, o2)
<1>1. /\ r.ky \in KanaryObjects /\ r.ky # None /\ o2 # None
      /\ InOrder(r.ky) /\ m.ky = o2 /\ m.exp = r.exp
  BY NoneAssumption DEF Busy, WorkerInOrder, Recording
<1>2. /\ r.ky.svc # None => r.ky.proxy
      /\ r.ky.proxy => r.ky.eps # <<>>
      /\ r.ky.eps # <<>> => r.ky.config
  BY <1>1 DEF InOrder
<1>3. ASSUME NEW n \in 1..4, Recorded(r.ky) = P!Prefix(n - 1),
             Recorded(o2) = P!Prefix(n)
      PROVE  Advances(r.ky, o2)
  BY <1>3 DEF Advances
<1>4. CASE r.pc = "statusConfigMap"
  <2>1. /\ m.pc = "statusEndpoint" /\ o2.config
        /\ o2.eps = r.ky.eps /\ o2.proxy = r.ky.proxy /\ o2.svc = r.ky.svc
        /\ r.exp # <<>>
    BY <1>4 DEF Recording, WorkerInOrder
  <2>2. InOrder(o2)
    BY <1>2, <2>1 DEF InOrder
  <2>3. WorkerInOrder(m)
    BY <1>1, <2>1, <2>2 DEF WorkerInOrder
  <2>4. CASE r.ky.config
    <3>1. Recorded(o2) = Recorded(r.ky)
      BY <1>1, <2>1, <2>4 DEF Recorded
    <3> QED
      BY <2>2, <2>3, <3>1 DEF Advances
  <2>5. CASE ~r.ky.config
    <3>1. Recorded(r.ky) = P!Prefix(0) /\ Recorded(o2) = P!Prefix(1)
      BY <1>1, <1>2, <2>1, <2>2, <2>5, Shown
    <3> QED
      BY <1>3, <2>2, <2>3, <3>1
  <2> QED
    BY <2>4, <2>5
<1>5. CASE r.pc = "statusEndpoint"
  <2>1. /\ m.pc \in LaterCalls /\ (m.pc = "service" => o2.proxy)
        /\ o2.eps = r.exp /\ o2.config = r.ky.config
        /\ o2.proxy = r.ky.proxy /\ o2.svc = r.ky.svc
        /\ r.exp # <<>> /\ r.ky.config
    BY <1>5 DEF Recording, WorkerInOrder
  <2>2. InOrder(o2)
    BY <1>2, <2>1 DEF InOrder
  <2>3. WorkerInOrder(m)
    BY <1>1, <2>1, <2>2 DEF WorkerInOrder, LaterCalls
  <2>4. CASE r.ky.eps # <<>>
    <3>1. Recorded(o2) = Recorded(r.ky)
      BY <1>1, <2>1, <2>4 DEF Recorded
    <3> QED
      BY <2>2, <2>3, <3>1 DEF Advances
  <2>5. CASE r.ky.eps = <<>>
    <3>1. Recorded(r.ky) = P!Prefix(1) /\ Recorded(o2) = P!Prefix(2)
      BY <1>1, <1>2, <2>1, <2>2, <2>5, Shown
    <3> QED
      BY <1>3, <2>2, <2>3, <3>1
  <2> QED
    BY <2>4, <2>5
<1>6. CASE r.pc = "statusDeployment"
  <2>1. /\ m.pc = "service" /\ o2.proxy
        /\ o2.eps = r.ky.eps /\ o2.config = r.ky.config /\ o2.svc = r.ky.svc
        /\ r.exp # <<>> /\ r.ky.eps # <<>>
    BY <1>6 DEF Recording, WorkerInOrder
  <2>2. InOrder(o2)
    BY <1>2, <2>1 DEF InOrder
  <2>3. WorkerInOrder(m)
    BY <1>1, <2>1, <2>2 DEF WorkerInOrder
  <2>4. CASE r.ky.proxy
    <3>1. Recorded(o2) = Recorded(r.ky)
      BY <1>1, <2>1, <2>4 DEF Recorded
    <3> QED
      BY <2>2, <2>3, <3>1 DEF Advances
  <2>5. CASE ~r.ky.proxy
    <3>1. Recorded(r.ky) = P!Prefix(2) /\ Recorded(o2) = P!Prefix(3)
      BY <1>1, <1>2, <2>1, <2>2, <2>5, Shown
    <3> QED
      BY <1>3, <2>2, <2>3, <3>1
  <2> QED
    BY <2>4, <2>5
<1>7. CASE r.pc = "statusService"
  <2>1. /\ m.pc = "service" /\ o2.svc = r.ky.spec.dest
        /\ o2.eps = r.ky.eps /\ o2.config = r.ky.config /\ o2.proxy = r.ky.proxy
        /\ r.exp # <<>> /\ r.ky.proxy
    BY <1>7 DEF Recording, WorkerInOrder
  <2>2. o2.svc # None
    BY <1>1, <2>1, ControllerAssumption DEF KanaryObjects, Names
  <2>3. InOrder(o2)
    BY <1>2, <2>1 DEF InOrder
  <2>4. WorkerInOrder(m)
    BY <1>1, <2>1, <2>3 DEF WorkerInOrder
  <2>5. CASE r.ky.svc # None
    <3>1. Recorded(o2) = Recorded(r.ky)
      BY <1>1, <2>1, <2>2, <2>5 DEF Recorded
    <3> QED
      BY <2>3, <2>4, <3>1 DEF Advances
  <2>6. CASE r.ky.svc = None
    <3>1. Recorded(r.ky) = P!Prefix(3) /\ Recorded(o2) = P!Prefix(4)
      BY <1>1, <2>1, <2>2, <2>3, <2>6, Shown
    <3> QED
      BY <1>3, <2>3, <2>4, <3>1
  <2> QED
    BY <2>5, <2>6
<1> QED
  BY <1>4, <1>5, <1>6, <1>7 DEF Recording

\* A step changes at most one Kanary: its creation, its deletion, or a change
\* that advances its status.
KanaryAdvances ==
    \/ UNCHANGED kan
    \/ \E k \in Kanaries, o2 \in Objects :
          /\ kan' = [kan EXCEPT ![k] = o2]
          /\ InOrder(o2)
          /\ \/ kan[k] = None /\ Recorded(o2) = {}
             \/ kan[k] # None /\ o2 = None
             \/ Advances(kan[k], o2)

\* Every step leaves each Kanary as it is, or advances its status by a part.
LEMMA KanaryStep ==
    ASSUME TypeOK, Copies, AllInOrder, [Next]_vars
    PROVE  KanaryAdvances
<1>t. \A k \in Kanaries : kan[k] \in Objects /\ InOrder(kan[k])
  BY TypeParts DEF KanariesTyped, AllInOrder
<1>1. ASSUME NEW k \in Kanaries, CreateKanary(k) PROVE KanaryAdvances
  <2>1. PICK spec \in Specs :
          kan' = [kan EXCEPT ![k] = NewKanary(LastUid + 1, spec)]
    BY <1>1 DEF CreateKanary, PutKanary, LastUid
  <2>2. PICK o2 : o2 = NewKanary(LastUid + 1, spec)
    OBVIOUS
  <2>3. LastUid + 1 \in Nat /\ <<>> \in Statuses
    <3>1. Limits \in Budget
      BY ControllerAssumption
    <3> QED
      BY <3>1, TypeParts DEF LastUid, BudgetTyped, Budget, Statuses
  <2>4. o2 \in KanaryObjects /\ ~o2.config /\ InOrder(o2)
    <3> HIDE DEF LastUid
    <3> QED
      BY <2>2, <2>3 DEF NewKanary, KanaryObjects, InOrder
  <2>5. Recorded(o2) = {}
    BY <2>4, Shown, FirstParts
  <2> QED
    BY <1>1, <2>1, <2>2, <2>4, <2>5 DEF KanaryAdvances, CreateKanary, Objects
<1>2. ASSUME NEW k \in Kanaries, EditKanary(k) PROVE KanaryAdvances
  <2>1. PICK spec, o2 :
          /\ spec \in Specs
          /\ o2 = NextVersion([kan[k] EXCEPT !.spec = spec])
          /\ kan' = [kan EXCEPT ![k] = o2]
    BY <1>2 DEF EditKanary, PutKanary
  <2>2. kan[k] \in KanaryObjects /\ kan[k] # None
    BY <1>t, <1>2 DEF EditKanary, Objects
  <2>3. o2 \in KanaryObjects /\ o2 # None
    BY <2>1, <2>2, NewKanaryType, NoneAssumption
  <2>4. /\ o2.config = kan[k].config /\ o2.proxy = kan[k].proxy
        /\ o2.eps = kan[k].eps /\ o2.svc = kan[k].svc
    BY <2>1, <2>2 DEF NextVersion, KanaryObjects
  <2>5. Recorded(o2) = Recorded(kan[k]) /\ InOrder(o2)
    BY <1>t, <2>2, <2>3, <2>4 DEF Recorded, InOrder
  <2> QED
    BY <2>1, <2>3, <2>5 DEF KanaryAdvances, Advances, Objects
<1>3. ASSUME NEW k \in Kanaries, DeleteKanary(k) PROVE KanaryAdvances
  BY <1>3 DEF DeleteKanary, PutKanary, KanaryAdvances, InOrder, Objects
<1>4. ASSUME NEW w \in Workers, SyncStep(w) \/ Refuse(w) PROVE KanaryAdvances
  <2>1. PICK k : k = wk[w].key
    OBVIOUS
  <2>2. CASE UNCHANGED kan
    BY <2>2 DEF KanaryAdvances
  <2>3. ASSUME NEW o2 \in KanaryObjects, NEW m, Recording(wk[w], o2, m),
               wk[w].ky = kan[k], kan' = [kan EXCEPT ![k] = o2]
        PROVE  KanaryAdvances
    <3>1. wk[w] \in Busy /\ k \in Kanaries /\ WorkerInOrder(wk[w])
      BY <1>4, <2>1, CallEffect DEF AllInOrder
    <3>2. InOrder(o2) /\ Advances(kan[k], o2)
      BY <2>3, <3>1, RecordingInOrder
    <3> QED
      BY <2>3, <3>1, <3>2 DEF KanaryAdvances, Objects
  <2> QED
    BY <1>4, <2>1, <2>2, <2>3, CallEffect
<1>5. CASE UNCHANGED kan
  BY <1>5 DEF KanaryAdvances
<1> QED
  BY <1>1, <1>2, <1>3, <1>4, <1>5
  DEF Next, Environment, ChangeEndpoints, Restart, RelistKanaries,
      RelistEndpoints, Panic, ProcessStart, DeliverKanary, Resync, CollectGarbage,
      DeliverEndpoints, DeletionStep, EndDeletion, DeleteKyRefInEp,
      DeletionPanics, StartSync, vars, api

\* A Kanary that has routes is never given an empty list: the theorems below
\* are about these.
HaveRoutes == \A spec \in Specs : spec.routes # <<>>

\* What a turn that begins relies on.
LEMMA StartInOrder ==
    ASSUME HaveRoutes, TypeOK, AllInOrder, NEW w \in Workers, NEW k \in Kanaries,
           StartSync(w, k)
    PROVE  \E n : wk' = [wk EXCEPT ![w] = n] /\ WorkerInOrder(n)
<1>i. WorkerInOrder(IdleWorker)
  BY DEF WorkerInOrder, InOrder, IdleWorker
<1>1. CASE wk' = [wk EXCEPT ![w] = IdleWorker]
  BY <1>i, <1>1
<1>2. ASSUME NEW r \in Busy, r.pc = "configMap", r.ky = kc[k],
             r.exp = buildExpectedEndpointStatus(kc[k].spec.routes, ec),
             NEW n, wk' = [wk EXCEPT ![w] = n],
             \/ n = r
             \/ deepEqualEndpointStatusList(r.exp, r.ky.eps) /\ n = ToDeployment(r)
      PROVE  WorkerInOrder(n)
  <2>1. InOrder(r.ky)
    BY <1>2 DEF AllInOrder
  <2>2. r.exp # <<>> /\ Len(r.exp) # 0
    <3>1. r.ky.spec \in Specs
      BY DEF Busy, KanaryObjects
    <3>2. r.ky.spec.routes # <<>> /\ r.ky.spec.routes \in Seq(ToSet(r.ky.spec.routes))
      BY <3>1, ControllerAssumption DEF HaveRoutes
    <3>3. Len(r.ky.spec.routes) # 0
      BY <3>2
    <3>4. Len(r.exp) = Len(r.ky.spec.routes)
      <4>1. r.exp = buildExpectedEndpointStatus(r.ky.spec.routes, ec)
        BY <1>2
      <4>2. ListFor(r.exp, r.ky.spec.routes)
        BY <3>1, <4>1, BuildsList
      <4> QED
        BY <4>2 DEF ListFor
    <3>5. Len(<<>>) = 0
      OBVIOUS
    <3> QED
      BY <3>3, <3>4, <3>5
  <2>3. CASE n = r
    BY <1>2, <2>1, <2>2, <2>3 DEF WorkerInOrder
  <2>4. CASE deepEqualEndpointStatusList(r.exp, r.ky.eps) /\ n = ToDeployment(r)
    <3>1. r.ky.eps # <<>>
      <4>1. Len(r.exp) = Len(r.ky.eps) /\ Len(<<>>) = 0
        BY <2>4 DEF deepEqualEndpointStatusList
      <4> QED
        BY <2>2, <4>1
    <3>2. \/ n = IdleWorker
          \/ /\ n.ky = r.ky /\ n.exp = r.exp
             /\ n.pc = "deployment" \/ (n.pc = "service" /\ r.ky.proxy)
      BY <2>4, Skips DEF Calls
    <3> QED
      BY <1>i, <2>1, <2>2, <3>1, <3>2 DEF WorkerInOrder
  <2> QED
    BY <1>2, <2>3, <2>4
<1> QED
  BY <1>1, <1>2, StartTurn

\* What a worker relies on after a call.
LEMMA CallInOrder ==
    ASSUME TypeOK, Copies, AllInOrder, NEW w \in Workers, SyncStep(w) \/ Refuse(w)
    PROVE  \E n : wk' = [wk EXCEPT ![w] = n] /\ WorkerInOrder(n)
<1>i. WorkerInOrder(IdleWorker)
  BY DEF WorkerInOrder, InOrder, IdleWorker
<1>1. wk[w] \in Busy /\ wk[w].pc \in Calls /\ WorkerInOrder(wk[w])
  BY CallEffect DEF AllInOrder
<1>2. ASSUME NEW n, Follows(wk[w], n) PROVE WorkerInOrder(n)
  BY <1>1, <1>2 DEF Follows, WorkerInOrder, Calls
<1>3. ASSUME NEW o2 \in KanaryObjects, NEW m, Recording(wk[w], o2, m)
      PROVE  WorkerInOrder(m)
  BY <1>1, <1>3, RecordingInOrder
<1> QED
  BY <1>i, <1>2, <1>3, CallEffect

\* Every step keeps the stored objects and their copies in order.
LEMMA AllInOrderStep ==
    ASSUME HaveRoutes, TypeOK, Copies, AllInOrder, [Next]_vars
    PROVE  AllInOrder'
<1>1. \A k \in Kanaries : InOrder(kan'[k])
  <2>1. kan \in [Kanaries -> Objects]
    BY TypeParts DEF KanariesTyped
  <2> QED
    BY <2>1, KanaryStep DEF KanaryAdvances, AllInOrder
<1>2. \A k \in Kanaries : /\ InOrder(kc'[k])
                          /\ \A i \in DOMAIN kwatch'[k] : InOrder(kwatch'[k][i])
  BY <1>1, TracksStep DEF Tracks, AllInOrder
<1>3. ASSUME NEW w \in Workers, NEW n, wk' = [wk EXCEPT ![w] = n], WorkerInOrder(n)
      PROVE  \A v \in Workers : WorkerInOrder(wk'[v])
  <2>1. \A v \in Workers : wk'[v] = IF v = w THEN n ELSE wk[v]
    BY <1>3, TypeParts DEF WorkersTyped
  <2> QED
    BY <1>3, <2>1 DEF AllInOrder
<1>4. CASE UNCHANGED wk \/ wk' = [w \in Workers |-> IdleWorker]
  <2>1. WorkerInOrder(IdleWorker)
    BY DEF WorkerInOrder, InOrder, IdleWorker
  <2> QED
    BY <1>1, <1>2, <1>4, <2>1 DEF AllInOrder
<1>5. \A v \in Workers : WorkerInOrder(wk'[v])
  BY <1>3, <1>4, WorkersOnly, StartInOrder, CallInOrder DEF AllInOrder
<1> QED
  BY <1>1, <1>2, <1>5 DEF AllInOrder

\* Stored, delivered and held copies of a status are all in order.
LEMMA InOrderInvariant ==
    ASSUME HaveRoutes
    PROVE  Spec => []AllInOrder
<1>1. Init => AllInOrder
  <2> SUFFICES ASSUME Init PROVE AllInOrder
    OBVIOUS
  <2>1. /\ \A k \in Kanaries : kan[k] = None /\ kc[k] = None /\ kwatch[k] = <<>>
        /\ \A w \in Workers : wk[w] = IdleWorker
    BY DEF Init
  <2>2. WorkerInOrder(IdleWorker) /\ InOrder(None)
    BY DEF WorkerInOrder, InOrder, IdleWorker
  <2> QED
    BY <2>1, <2>2 DEF AllInOrder
<1>2. TypeOK /\ Copies /\ AllInOrder /\ [Next]_vars => AllInOrder'
  BY AllInOrderStep
<1> QED
  BY <1>1, <1>2, TypeCorrect, CopiesInvariant, PTL DEF Spec

-----------------------------------------------------------------------------
(* The controller implements Provisioning *)

Parts == [k \in Kanaries |-> Recorded(kan[k])]

\* Each step of the controller is a step of Provisioning or changes no status.
LEMMA ProvisioningStep ==
    ASSUME TypeOK, KanaryAdvances
    PROVE  P!Next \/ UNCHANGED Parts
<1>t. kan \in [Kanaries -> Objects]
  BY TypeParts DEF KanariesTyped
<1>1. CASE UNCHANGED kan
  BY <1>1 DEF Parts
<1>2. ASSUME NEW k \in Kanaries, NEW o2 \in Objects, kan' = [kan EXCEPT ![k] = o2],
             \/ kan[k] = None /\ Recorded(o2) = {}
             \/ kan[k] # None /\ o2 = None
             \/ Advances(kan[k], o2)
      PROVE  P!Next \/ UNCHANGED Parts
  <2>1. Parts' = [Parts EXCEPT ![k] = Recorded(o2)] /\ Parts[k] = Recorded(kan[k])
    <3>1. \A j \in Kanaries : kan'[j] = IF j = k THEN o2 ELSE kan[j]
      BY <1>t, <1>2
    <3>2. Parts' = [j \in Kanaries |-> Recorded(kan'[j])]
      BY DEF Parts
    <3>3. \A j \in Kanaries : Recorded(kan'[j]) = IF j = k THEN Recorded(o2)
                                                  ELSE Recorded(kan[j])
      BY <3>1
    <3> QED
      BY <3>2, <3>3 DEF Parts
  <2>2. Parts = [Parts EXCEPT ![k] = Parts[k]]
    BY DEF Parts
  <2>3. CASE Recorded(o2) = Recorded(kan[k])
    BY <2>1, <2>2, <2>3
  <2>4. CASE kan[k] = None /\ Recorded(o2) = {}
    <3>1. Recorded(kan[k]) = None
      BY <2>4 DEF Recorded
    <3>2. P!Create(k)
      BY <2>1, <2>4, <3>1 DEF P!Create, Parts
    <3> QED
      BY <3>2 DEF P!Next
  <2>5. CASE o2 = None /\ Recorded(o2) # Recorded(kan[k])
    <3>1. Recorded(o2) = None
      BY <2>5 DEF Recorded
    <3>2. P!Delete(k)
      BY <2>1, <2>5, <3>1 DEF P!Delete, Parts
    <3> QED
      BY <3>2 DEF P!Next
  <2>6. ASSUME NEW n \in 1..4, Recorded(kan[k]) = P!Prefix(n - 1),
               Recorded(o2) = P!Prefix(n)
        PROVE  P!Next
    <3>1. P!Record(k, n)
      BY <2>1, <2>6 DEF P!Record, Parts
    <3>2. n \in DOMAIN P!Order
      BY DEF P!Order
    <3> QED
      BY <3>1, <3>2 DEF P!Next
  <2> QED
    BY <1>2, <2>3, <2>4, <2>5, <2>6 DEF Advances
<1> QED
  BY <1>1, <1>2 DEF KanaryAdvances

\* Through conflicts, failed and unanswered calls, restarts and a second life
\* of the name, the parts of a status are recorded one at a time in their
\* order and never taken back, for specifications that have routes
\* (syncKanary, controller.go:296-404).
THEOREM ProvisioningIsImplemented ==
    ASSUME HaveRoutes
    PROVE  Spec => ImplementsProvisioning
<1>1. Init => P!Init
  BY DEF Init, P!Init, Recorded
<1>2. TypeOK /\ Copies /\ AllInOrder /\ [Next]_vars
        => [P!Next]_Parts
  BY KanaryStep, ProvisioningStep
<1>3. Spec => []AllInOrder
  BY InOrderInvariant
<1> QED
  BY <1>1, <1>2, <1>3, TypeCorrect, CopiesInvariant, PTL
  DEF Spec, ImplementsProvisioning, P!Spec, Parts
=============================================================================
