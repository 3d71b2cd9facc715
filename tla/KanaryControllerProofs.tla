----------------------- MODULE KanaryControllerProofs -----------------------
(***************************************************************************)
(* Theorems about KanaryController, for every number of Kanaries, services *)
(* and workers, all specifications and every bound of the environment.     *)
(***************************************************************************)
EXTENDS KanaryController, WellFoundedInduction, TLAPS

-----------------------------------------------------------------------------
(* The operators the actions are built from *)

\* A build depends on the subsets of the Endpoints only, so what syncKanary
\* builds from its cache is a status of the type.
LEMMA BuildType ==
    ASSUME NEW spec \in Specs, NEW e \in [Services -> EndpointsObjects]
    PROVE  buildExpectedEndpointStatus(spec.routes, e) \in Statuses
<1> DEFINE f == [s \in Services |-> [subsets |-> e[s].subsets]]
<1>1. f \in [Services -> [subsets : Subsets]]
  BY DEF EndpointsObjects
<1>2. ASSUME NEW i \in DOMAIN spec.routes
      PROVE  Resolve(spec.routes[i], e) = Resolve(spec.routes[i], f)
  <2>1. spec.routes[i].service \in Services
    BY ControllerAssumption
  <2>2. f[spec.routes[i].service].subsets = e[spec.routes[i].service].subsets
    BY <2>1
  <2> QED
    BY <2>2 DEF Resolve
<1>3. buildExpectedEndpointStatus(spec.routes, e)
        = buildExpectedEndpointStatus(spec.routes, f)
  BY <1>2, Zenon DEF buildExpectedEndpointStatus
<1> HIDE DEF f
<1> QED
  BY <1>1, <1>3 DEF Statuses

\* Every entry of a status is about a known service.
LEMMA StatusService ==
    ASSUME NEW status \in Statuses, NEW i \in DOMAIN status
    PROVE  status[i].service \in Services
<1>1. CASE status = <<>>
  BY <1>1
<1>2. ASSUME NEW spec \in Specs, NEW e \in [Services -> [subsets : Subsets]],
             status = buildExpectedEndpointStatus(spec.routes, e)
      PROVE  status[i].service \in Services
  <2>1. i \in DOMAIN spec.routes /\ status[i] = Resolve(spec.routes[i], e)
    BY <1>2 DEF buildExpectedEndpointStatus
  <2>2. status[i].service = spec.routes[i].service
    BY <2>1 DEF Resolve
  <2> QED
    BY <2>1, <2>2, ControllerAssumption
<1> QED
  BY <1>1, <1>2 DEF Statuses

\* The smallest of some positions of a sequence is one of them.
LEMMA MinMember ==
    ASSUME NEW n \in Nat, NEW I \in SUBSET (1..n), I # {}
    PROVE  Min(I) \in I
<1> DEFINE R == OpToRel(<, Nat)
<1>1. \E x \in I : \A y \in I : <<y, x>> \notin R
  <2>1. IsWellFoundedOn(R, Nat)
    BY NatLessThanWellFounded
  <2>2. I \subseteq Nat
    OBVIOUS
  <2> HIDE DEF R
  <2> QED
    BY <2>1, <2>2, WFMin
<1>2. \E x \in I : \A y \in I : x =< y
  <2>1. PICK x \in I : \A y \in I : <<y, x>> \notin R
    BY <1>1
  <2>2. ASSUME NEW y \in I PROVE x =< y
    <3>1. <<y, x>> \notin R
      BY <2>1
    <3>2. x \in Nat /\ y \in Nat
      OBVIOUS
    <3>3. ~(y < x)
      BY <3>1, <3>2 DEF OpToRel
    <3> QED
      BY <3>2, <3>3
  <2> QED
    BY <2>2
<1> QED
  BY <1>2 DEF Min

\* Adding a name to an annotation, and removing one that is there.
LEMMA RefsType ==
    ASSUME NEW refs \in Seq(Kanaries), NEW k \in Kanaries
    PROVE  /\ addKanaryRefInEp(refs, k) \in Seq(Kanaries)
           /\ Contains(refs, k) => deleteRef(refs, k) \in Seq(Kanaries)
<1>1. addKanaryRefInEp(refs, k) \in Seq(Kanaries)
  BY DEF addKanaryRefInEp
<1>2. ASSUME Contains(refs, k)
      PROVE  deleteRef(refs, k) \in Seq(Kanaries)
  <2> DEFINE I == {i \in 1..Len(refs) : refs[i] = k}
  <2>1. I # {} /\ I \subseteq 1..Len(refs)
    BY <1>2 DEF Contains
  <2>2. Min(I) \in 1..Len(refs)
    <3>1. Len(refs) \in Nat /\ I \in SUBSET (1..Len(refs))
      BY <2>1
    <3> HIDE DEF I
    <3>2. Min(I) \in I
      BY <2>1, <3>1, MinMember, Zenon
    <3> QED
      BY <3>1, <3>2
  <2>3. getEltToDeleteIndex(refs, k) + 1 = Min(I)
    BY <2>1, <2>2 DEF getEltToDeleteIndex, SelectInSeq
  <2>4. \A n \in 1..Len(refs) : RemoveAt(refs, n) \in Seq(Kanaries)
    BY DEF RemoveAt
  <2> QED
    BY <2>2, <2>3, <2>4 DEF deleteRef
<1> QED
  BY <1>1, <1>2

-----------------------------------------------------------------------------
(* Types: the parts of TypeOK, and what each helper keeps *)

Objects == KanaryObjects \cup {None}

WorkerOK(r) == r \in Busy \cup {IdleWorker}
               /\ (r.pc = "ref" => r.i \in DOMAIN r.ky.eps)

KanariesTyped ==
    kan \in [Kanaries -> Objects] /\ kwatch \in [Kanaries -> Seq(Objects)]

EndpointsTyped ==
    /\ ep \in [Services -> EndpointsObjects]
    /\ ewatch \in [Services -> Seq(EndpointsObjects)]

WorkersTyped == wk \in [Workers -> Busy \cup {IdleWorker}]
                /\ \A w \in Workers : WorkerOK(wk[w])

BudgetTyped == budget \in Budget /\ budget.create <= Limits.create

OwnedTyped ==
    /\ cm \in [Kanaries -> ConfigMapObjects \cup {None}]
    /\ dep \in [Kanaries -> DeploymentObjects \cup {None}]
    /\ svc \in [Names -> [owner : Kanaries, uid : Nat] \cup {None}]

CachesTyped ==
    /\ kc \in [Kanaries -> Objects]
    /\ ec \in [Services -> EndpointsObjects]

ProcessTyped ==
    /\ pending \subseteq Kanaries
    /\ deleted \in Seq(Deletions)
    /\ panicked \in BOOLEAN

\* TypeOK in parts, of which an action disturbs a few.
LEMMA TypeParts ==
    TypeOK <=> /\ KanariesTyped /\ EndpointsTyped /\ OwnedTyped /\ CachesTyped
               /\ WorkersTyped /\ ProcessTyped /\ BudgetTyped
BY DEF TypeOK, KanariesTyped, EndpointsTyped, OwnedTyped, CachesTyped,
       WorkersTyped, ProcessTyped, BudgetTyped, Objects, WorkerOK

\* The same after the step.
LEMMA TypePartsNext ==
    TypeOK' <=> /\ KanariesTyped' /\ EndpointsTyped' /\ OwnedTyped'
                /\ CachesTyped' /\ WorkersTyped' /\ ProcessTyped'
                /\ BudgetTyped'
BY DEF TypeOK, KanariesTyped, EndpointsTyped, OwnedTyped, CachesTyped,
       WorkersTyped, ProcessTyped, BudgetTyped, Objects, WorkerOK

\* The idle worker is a worker.
LEMMA IdleWorkerOK == WorkerOK(IdleWorker) /\ IdleWorker.pc = "idle"
BY DEF WorkerOK, IdleWorker

\* Taking one step from the budget leaves a budget.
LEMMA SpendType ==
    ASSUME BudgetTyped, NEW what \in DOMAIN budget, Spend(what)
    PROVE  BudgetTyped'
<1>1. Limits \in Budget
  BY ControllerAssumption
<1> QED
  BY <1>1 DEF BudgetTyped, Spend, Budget

\* What a worker in the middle of a turn may become.
LEMMA NextStepType ==
    ASSUME NEW r \in Busy
    PROVE  /\ \A p \in Calls \ {"ref"} : WorkerOK(At(r, p))
           /\ WorkerOK(ToService(r))
           /\ WorkerOK(ToDeployment(r))
           /\ WorkerOK(ToRefs(r))
<1>1. \A p \in Calls : At(r, p) \in Busy /\ At(r, p).pc = p
                       /\ At(r, p).i = r.i /\ At(r, p).ky = r.ky
  BY DEF At, Busy
<1>2. \A p \in Calls \ {"ref"} : WorkerOK(At(r, p))
  BY <1>1 DEF WorkerOK
<1>3. WorkerOK(ToService(r))
  BY <1>2, IdleWorkerOK DEF ToService, Calls
<1>4. WorkerOK(ToDeployment(r))
  BY <1>2, <1>3 DEF ToDeployment, Calls
<1>5. WorkerOK(ToRefs(r))
  BY <1>1, <1>4 DEF ToRefs, WorkerOK, Calls
<1> QED
  BY <1>2, <1>3, <1>4, <1>5

\* Replacing the state of one worker.
LEMMA WorkerStepType ==
    ASSUME WorkersTyped, NEW w \in Workers, NEW r, WorkerOK(r),
           wk' = [wk EXCEPT ![w] = r]
    PROVE  WorkersTyped'
<1>1. r \in Busy \cup {IdleWorker}
  BY DEF WorkerOK
<1>2. \A v \in Workers : wk'[v] = IF v = w THEN r ELSE wk[v]
  BY DEF WorkersTyped
<1> QED
  BY <1>1, <1>2 DEF WorkersTyped

\* A turn that ends keeps the types.
LEMMA ReturnType ==
    ASSUME WorkersTyped, BudgetTyped, NEW w \in Workers, Return(w)
    PROVE  WorkersTyped' /\ BudgetTyped'
BY WorkerStepType, IdleWorkerOK DEF Return, BudgetTyped

\* So does an answer, with or without the loss of it.
LEMMA AnswerType ==
    ASSUME WorkersTyped, BudgetTyped, NEW w \in Workers, NEW r, WorkerOK(r),
           Answer(w, r)
    PROVE  WorkersTyped' /\ BudgetTyped'
<1>1. CASE wk' = [wk EXCEPT ![w] = r] /\ UNCHANGED budget
  BY <1>1, WorkerStepType DEF BudgetTyped
<1>2. CASE wk' = [wk EXCEPT ![w] = IdleWorker] /\ Spend("fault")
  <2>1. "fault" \in DOMAIN budget
    BY DEF BudgetTyped, Budget
  <2> QED
    BY <1>2, <2>1, SpendType, WorkerStepType, IdleWorkerOK
<1> QED
  BY <1>1, <1>2 DEF Answer

\* Every write to a watched object stores a typed object and its event.
LEMMA PutKanaryType ==
    ASSUME KanariesTyped, NEW k \in Kanaries, NEW o \in Objects, PutKanary(k, o)
    PROVE  KanariesTyped'
BY DEF KanariesTyped, PutKanary

\* And a write of an Endpoints object.
LEMMA PutEndpointsType ==
    ASSUME EndpointsTyped, NEW s \in Services, NEW e \in EndpointsObjects,
           PutEndpoints(s, e)
    PROVE  EndpointsTyped'
BY DEF EndpointsTyped, PutEndpoints

-----------------------------------------------------------------------------
(* Types: every action *)

\* The types hold at first.
LEMMA InitType == Init => TypeOK
<1> SUFFICES ASSUME Init PROVE TypeOK
  OBVIOUS
<1>1. EndpointsTyped
  <2>1. AbsentEndpoints(0) \in EndpointsObjects
    BY DEF AbsentEndpoints, EndpointsObjects, Subsets
  <2>2. \A l \in SubsetLists : NewEndpoints(l) \in EndpointsObjects
    BY DEF NewEndpoints, EndpointsObjects, Subsets
  <2>3. ep \in [Services -> EndpointsObjects]
    BY <2>1, <2>2 DEF Init
  <2>4. ewatch = [s \in Services |-> <<>>]
    BY DEF Init
  <2> QED
    BY <2>3, <2>4 DEF EndpointsTyped
<1>2. KanariesTyped /\ OwnedTyped /\ ProcessTyped
  <2>1. /\ kan = [k \in Kanaries |-> None]
        /\ kwatch = [k \in Kanaries |-> <<>>]
        /\ cm = [k \in Kanaries |-> None] /\ dep = [k \in Kanaries |-> None]
        /\ svc = [n \in Names |-> None]
        /\ pending = {} /\ deleted = <<>> /\ panicked = FALSE
    BY DEF Init
  <2>2. KanariesTyped
    BY <2>1 DEF KanariesTyped, Objects
  <2>3. OwnedTyped
    BY <2>1 DEF OwnedTyped
  <2>4. ProcessTyped
    <3>1. <<>> \in Seq(Deletions)
      OBVIOUS
    <3>2. deleted \in Seq(Deletions)
      BY <2>1, <3>1
    <3>3. panicked \in BOOLEAN
      BY <2>1, Zenon
    <3>4. pending \subseteq Kanaries
      BY <2>1
    <3> QED
      BY <3>2, <3>3, <3>4 DEF ProcessTyped
  <2> QED
    BY <2>2, <2>3, <2>4
<1>3. CachesTyped
  BY <1>1, <1>2 DEF Init, CachesTyped, EndpointsTyped, KanariesTyped
<1>4. WorkersTyped
  BY IdleWorkerOK DEF Init, WorkersTyped
<1>5. BudgetTyped
  <2>1. budget = Limits
    BY DEF Init
  <2> QED
    BY <2>1, ControllerAssumption DEF BudgetTyped, Budget
<1> QED
  BY <1>1, <1>2, <1>3, <1>4, <1>5, TypeParts

\* A process that starts.
LEMMA ProcessStartType ==
    ASSUME TypeOK, ProcessStart, UNCHANGED api, panicked' \in BOOLEAN,
           BudgetTyped'
    PROVE  TypeOK'
<1>1. KanariesTyped' /\ EndpointsTyped' /\ CachesTyped'
  BY TypeParts DEF ProcessStart, api, KanariesTyped, EndpointsTyped, CachesTyped
<1>2. OwnedTyped'
  BY TypeParts DEF api, OwnedTyped
<1>3. WorkersTyped'
  BY IdleWorkerOK DEF ProcessStart, WorkersTyped
<1>4. ProcessTyped'
  BY DEF ProcessStart, ProcessTyped
<1> QED
  BY <1>1, <1>2, <1>3, <1>4, TypePartsNext

\* Events and listings.
LEMMA EnqueuedType ==
    ASSUME NEW refs \in Seq(Kanaries)
    PROVE  EnqueuedBy(refs) \subseteq Kanaries
BY DEF EnqueuedBy

\* Events of Kanaries, and the resync.
LEMMA KanaryInformerType ==
    ASSUME TypeOK, NEW k \in Kanaries, DeliverKanary(k) \/ Resync(k)
    PROVE  TypeOK'
<1> USE TypeParts, TypePartsNext
<1>1. CASE DeliverKanary(k)
  <2> USE <1>1
  <2>1. Head(kwatch[k]) \in Objects /\ Tail(kwatch[k]) \in Seq(Objects)
    BY DEF DeliverKanary, KanariesTyped
  <2>2. KanariesTyped' /\ EndpointsTyped' /\ OwnedTyped' /\ CachesTyped'
    BY <2>1 DEF DeliverKanary, api, KanariesTyped, EndpointsTyped, OwnedTyped,
                CachesTyped
  <2>3. WorkersTyped' /\ BudgetTyped'
    BY DEF DeliverKanary, WorkersTyped, BudgetTyped
  <2>4. ProcessTyped'
    <3>1. [name |-> k, ky |-> kc[k], i |-> 1] \in Deletions
      BY DEF CachesTyped, Deletions, Objects
    <3>2. CASE Head(kwatch[k]) # None
      BY <3>2 DEF DeliverKanary, ProcessTyped
    <3>3. CASE Head(kwatch[k]) = None
      <4>1. deleted' = Append(deleted, [name |-> k, ky |-> kc[k], i |-> 1])
            /\ pending' = pending /\ panicked' = panicked
        BY <3>3 DEF DeliverKanary
      <4> QED
        BY <3>1, <4>1 DEF ProcessTyped
    <3> QED
      BY <3>2, <3>3
  <2> QED
    BY <2>2, <2>3, <2>4
<1>2. CASE Resync(k)
  BY <1>2 DEF Resync, api, informers, KanariesTyped, EndpointsTyped, OwnedTyped,
              CachesTyped, WorkersTyped, ProcessTyped, BudgetTyped
<1> QED
  BY <1>1, <1>2

\* Events of Endpoints.
LEMMA EndpointsInformerType ==
    ASSUME TypeOK, NEW s \in Services, DeliverEndpoints(s)
    PROVE  TypeOK'
<1> USE TypeParts, TypePartsNext
<1>1. /\ Head(ewatch[s]) \in EndpointsObjects
      /\ Tail(ewatch[s]) \in Seq(EndpointsObjects)
  BY DEF DeliverEndpoints, EndpointsTyped
<1>2. KanariesTyped' /\ EndpointsTyped' /\ OwnedTyped' /\ CachesTyped'
  BY <1>1 DEF DeliverEndpoints, api, KanariesTyped, EndpointsTyped, OwnedTyped,
              CachesTyped
<1>3. WorkersTyped' /\ BudgetTyped'
  BY DEF DeliverEndpoints, WorkersTyped, BudgetTyped
<1>4. ProcessTyped'
  <2>1. ec[s].refs \in Seq(Kanaries)
    BY DEF CachesTyped, EndpointsObjects
  <2> QED
    BY <2>1, EnqueuedType DEF DeliverEndpoints, updateEndpoint, ProcessTyped
<1> QED
  BY <1>2, <1>3, <1>4

\* A watch that breaks and lists again.
LEMMA RelistType ==
    ASSUME TypeOK, RelistKanaries \/ RelistEndpoints
    PROVE  TypeOK'
<1> USE TypeParts, TypePartsNext
<1>b. "relist" \in DOMAIN budget
  BY DEF BudgetTyped, Budget
<1>1. CASE RelistKanaries
  <2> USE <1>1
  <2>1. BudgetTyped'
    BY <1>b, SpendType DEF RelistKanaries
  <2>2. CASE Panic
    BY <2>1, <2>2, ProcessStartType DEF Panic
  <2>3. CASE ~Panic
    <3>0. /\ kc' = kan /\ kwatch' = [j \in Kanaries |-> <<>>]
          /\ UNCHANGED <<kan, ep, cm, dep, svc, ewatch, ec>>
      BY <2>3 DEF RelistKanaries, api
    <3>1. KanariesTyped' /\ EndpointsTyped' /\ OwnedTyped' /\ CachesTyped'
      BY <3>0 DEF KanariesTyped, EndpointsTyped, OwnedTyped, CachesTyped
    <3>2. WorkersTyped' /\ ProcessTyped'
      BY <2>3 DEF RelistKanaries, WorkersTyped, ProcessTyped
    <3> QED
      BY <2>1, <3>1, <3>2
  <2> QED
    BY <2>2, <2>3
<1>2. CASE RelistEndpoints
  <2> USE <1>2
  <2>1. BudgetTyped'
    BY <1>b, SpendType DEF RelistEndpoints
  <2>2. KanariesTyped' /\ EndpointsTyped' /\ OwnedTyped' /\ CachesTyped'
    BY DEF RelistEndpoints, api, KanariesTyped, EndpointsTyped, OwnedTyped,
           CachesTyped
  <2>3. \A t \in Services : EnqueuedBy(ec[t].refs) \subseteq Kanaries
    BY EnqueuedType DEF CachesTyped, EndpointsObjects
  <2>4. WorkersTyped' /\ ProcessTyped'
    BY <2>3 DEF RelistEndpoints, WorkersTyped, ProcessTyped
  <2> QED
    BY <2>1, <2>2, <2>4
<1> QED
  BY <1>1, <1>2

\* The objects the actions write.
LEMMA NewEndpointsType ==
    ASSUME NEW e \in EndpointsObjects
    PROVE  /\ \A refs \in Seq(Kanaries) :
                /\ [e EXCEPT !.refs = refs, !.rv = @ + 1] \in EndpointsObjects
                /\ [e EXCEPT !.refs = refs, !.annotated = TRUE, !.rv = @ + 1]
                      \in EndpointsObjects
           /\ \A l \in SubsetLists :
                NextVersion([e EXCEPT !.exists = TRUE, !.subsets = l])
                  \in EndpointsObjects
           /\ AbsentEndpoints(e.rv + 1) \in EndpointsObjects
<1>1. e.rv \in Nat /\ e.rv + 1 \in Nat
  BY DEF EndpointsObjects
<1>2. ASSUME NEW refs \in Seq(Kanaries)
      PROVE  /\ [e EXCEPT !.refs = refs, !.rv = @ + 1] \in EndpointsObjects
             /\ [e EXCEPT !.refs = refs, !.annotated = TRUE, !.rv = @ + 1]
                   \in EndpointsObjects
  <2>1. [e EXCEPT !.refs = refs, !.rv = @ + 1] \in EndpointsObjects
    BY <1>1 DEF EndpointsObjects
  <2>2. [e EXCEPT !.refs = refs, !.annotated = TRUE, !.rv = @ + 1]
          = [[[e EXCEPT !.refs = refs] EXCEPT !.annotated = TRUE]
               EXCEPT !.rv = e.rv + 1]
    OBVIOUS
  <2>3. /\ \A f \in EndpointsObjects : [f EXCEPT !.refs = refs] \in EndpointsObjects
        /\ \A f \in EndpointsObjects : [f EXCEPT !.annotated = TRUE] \in EndpointsObjects
    BY DEF EndpointsObjects
  <2>4. \A f \in EndpointsObjects, n \in Nat : [f EXCEPT !.rv = n] \in EndpointsObjects
    BY DEF EndpointsObjects
  <2> QED
    BY <1>1, <2>1, <2>2, <2>3, <2>4
<1>3. ASSUME NEW l \in SubsetLists
      PROVE  NextVersion([e EXCEPT !.exists = TRUE, !.subsets = l])
               \in EndpointsObjects
  <2>1. l \in Subsets
    BY DEF Subsets
  <2>2. [e EXCEPT !.exists = TRUE, !.subsets = l] \in EndpointsObjects
    BY <2>1 DEF EndpointsObjects
  <2>3. \A f \in EndpointsObjects : NextVersion(f) \in EndpointsObjects
    BY DEF EndpointsObjects, NextVersion
  <2> QED
    BY <2>2, <2>3
<1>4. AbsentEndpoints(e.rv + 1) \in EndpointsObjects
  BY <1>1 DEF EndpointsObjects, AbsentEndpoints, Subsets
<1> QED
  BY <1>2, <1>3, <1>4

\* Each way a Kanary is changed gives a Kanary.
LEMMA NewKanaryType ==
    ASSUME NEW o \in KanaryObjects
    PROVE  /\ NextVersion(o) \in KanaryObjects
           /\ \A spec \in Specs : [o EXCEPT !.spec = spec] \in KanaryObjects
           /\ \A eps \in Statuses : [o EXCEPT !.eps = eps] \in KanaryObjects
           /\ [o EXCEPT !.config = TRUE] \in KanaryObjects
           /\ [o EXCEPT !.proxy = TRUE] \in KanaryObjects
           /\ [o EXCEPT !.svc = o.spec.dest] \in KanaryObjects
<1>1. NextVersion(o) \in KanaryObjects
  BY DEF KanaryObjects, NextVersion
<1>2. o.spec.dest \in Names
  BY DEF KanaryObjects, Names
<1>3. [o EXCEPT !.svc = o.spec.dest] \in KanaryObjects
  BY <1>2 DEF KanaryObjects
<1>4. /\ \A spec \in Specs : [o EXCEPT !.spec = spec] \in KanaryObjects
      /\ \A eps \in Statuses : [o EXCEPT !.eps = eps] \in KanaryObjects
  BY DEF KanaryObjects
<1>5. /\ [o EXCEPT !.config = TRUE] \in KanaryObjects
      /\ [o EXCEPT !.proxy = TRUE] \in KanaryObjects
  BY DEF KanaryObjects
<1> QED
  BY <1>1, <1>3, <1>4, <1>5

\* deleteKanary.
LEMMA DeletionType ==
    ASSUME TypeOK, DeletionStep
    PROVE  TypeOK'
<1> USE TypeParts, TypePartsNext
<1>1. ASSUME NEW s \in Services, DeleteKyRefInEp(s) PROVE TypeOK'
  <2> DEFINE d == Head(deleted)
             e == [ec[s] EXCEPT !.refs = deleteRef(@, d.name), !.rv = @ + 1]
  <2>1. d \in Deletions /\ deleted # <<>>
    <3>1. deleted # <<>>
      BY <1>1 DEF DeleteKyRefInEp, DeletingFrom
    <3> QED
      BY <3>1 DEF ProcessTyped
  <2>2. ec[s] \in EndpointsObjects
    BY DEF CachesTyped
  <2>3. e \in EndpointsObjects
    <3>1. ec[s].refs \in Seq(Kanaries) /\ d.name \in Kanaries
      BY <2>1, <2>2 DEF EndpointsObjects, Deletions
    <3>2. Contains(ec[s].refs, d.name)
      BY <1>1 DEF DeleteKyRefInEp
    <3>3. deleteRef(ec[s].refs, d.name) \in Seq(Kanaries)
      BY <3>1, <3>2, RefsType
    <3> QED
      BY <2>2, <3>3, NewEndpointsType
  <2>4. PutEndpoints(s, e)
    BY <1>1 DEF DeleteKyRefInEp
  <2>5. EndpointsTyped'
    <3> HIDE DEF e
    <3> QED
      BY <2>3, <2>4, PutEndpointsType
  <2>6. \/ deleted' = [deleted EXCEPT ![1].i = @ + 1] /\ UNCHANGED budget
        \/ deleted' = Tail(deleted) /\ Spend("fault")
    BY <1>1 DEF DeleteKyRefInEp
  <2>7. deleted' \in Seq(Deletions)
    <3>1. deleted \in Seq(Deletions) /\ Len(deleted) \in Nat /\ 1 \in 1..Len(deleted)
          /\ d = deleted[1]
      BY <2>1 DEF ProcessTyped
    <3>2. [d EXCEPT !.i = @ + 1] \in Deletions
      BY <2>1 DEF Deletions
    <3>3. \/ deleted' = [deleted EXCEPT ![1] = [d EXCEPT !.i = @ + 1]]
          \/ deleted' = Tail(deleted)
      BY <2>6, <3>1
    <3>4. Tail(deleted) \in Seq(Deletions)
      BY <2>1, <3>1
    <3> HIDE DEF d
    <3>5. [deleted EXCEPT ![1] = [d EXCEPT !.i = @ + 1]] \in Seq(Deletions)
      BY <3>1, <3>2
    <3> QED
      BY <3>3, <3>4, <3>5, Zenon
  <2>8. KanariesTyped' /\ OwnedTyped' /\ CachesTyped'
    BY <1>1 DEF DeleteKyRefInEp, KanariesTyped, OwnedTyped, CachesTyped
  <2>9. ProcessTyped' /\ WorkersTyped' /\ BudgetTyped'
    <3>1. BudgetTyped'
      <4>1. "fault" \in DOMAIN budget
        BY DEF BudgetTyped, Budget
      <4> QED
        BY <2>6, <4>1, SpendType DEF BudgetTyped
    <3> QED
      BY <1>1, <2>7, <3>1 DEF DeleteKyRefInEp, ProcessTyped, WorkersTyped
  <2> QED
    BY <2>5, <2>8, <2>9
<1>2. ASSUME NEW s \in Services, DeletionPanics(s) PROVE TypeOK'
  <2>1. BudgetTyped' /\ panicked' \in BOOLEAN
    BY <1>2 DEF DeletionPanics, Panic, BudgetTyped
  <2> QED
    BY <1>2, <2>1, ProcessStartType DEF DeletionPanics, Panic
<1>3. ASSUME EndDeletion PROVE TypeOK'
  <2>1. BudgetTyped'
    <3>1. "fault" \in DOMAIN budget
      BY DEF BudgetTyped, Budget
    <3>2. Spend("fault") \/ UNCHANGED budget
      BY <1>3 DEF EndDeletion
    <3> QED
      BY <3>1, <3>2, SpendType DEF BudgetTyped
  <2>2. /\ deleted # <<>> /\ deleted' = Tail(deleted)
        /\ UNCHANGED <<api, informers, pending, wk, panicked>>
    BY <1>3 DEF EndDeletion
  <2>3. KanariesTyped' /\ EndpointsTyped' /\ OwnedTyped' /\ CachesTyped'
    BY <2>2 DEF api, informers, KanariesTyped, EndpointsTyped, OwnedTyped,
                CachesTyped
  <2>4. ProcessTyped' /\ WorkersTyped'
    BY <2>2 DEF ProcessTyped, WorkersTyped
  <2> QED
    BY <2>1, <2>3, <2>4
<1> QED
  BY <1>1, <1>2, <1>3 DEF DeletionStep

\* What an action leaves alone keeps its type.
LEMMA FrameType ==
    ASSUME TypeOK
    PROVE  /\ UNCHANGED <<kan, kwatch>> => KanariesTyped'
           /\ UNCHANGED <<ep, ewatch>> => EndpointsTyped'
           /\ UNCHANGED <<cm, dep, svc>> => OwnedTyped'
           /\ UNCHANGED <<kc, ec>> => CachesTyped'
           /\ UNCHANGED <<pending, deleted, panicked>> => ProcessTyped'
           /\ UNCHANGED wk => WorkersTyped'
           /\ UNCHANGED budget => BudgetTyped'
<1> USE TypeParts
<1>1. UNCHANGED <<kan, kwatch>> => KanariesTyped'
  BY DEF KanariesTyped
<1>2. UNCHANGED <<ep, ewatch>> => EndpointsTyped'
  BY DEF EndpointsTyped
<1>3. UNCHANGED <<cm, dep, svc>> => OwnedTyped'
  BY DEF OwnedTyped
<1>4. UNCHANGED <<kc, ec>> => CachesTyped'
  BY DEF CachesTyped
<1>5. UNCHANGED <<pending, deleted, panicked>> => ProcessTyped'
  BY DEF ProcessTyped
<1>6. UNCHANGED wk => WorkersTyped'
  BY DEF WorkersTyped
<1>7. UNCHANGED budget => BudgetTyped'
  BY DEF BudgetTyped
<1> QED
  BY <1>1, <1>2, <1>3, <1>4, <1>5, <1>6, <1>7

\* A worker that is about to make a call is in the middle of a turn.
LEMMA BusyWorker ==
    ASSUME TypeOK, NEW w \in Workers, wk[w].pc \in Calls
    PROVE  /\ wk[w] \in Busy /\ wk[w].key \in Kanaries
           /\ wk[w].ky \in KanaryObjects /\ wk[w].exp \in Statuses
<1>1. wk[w] \in Busy
  BY TypeParts, IdleWorkerOK DEF WorkersTyped, Calls
<1> QED
  BY <1>1 DEF Busy

\* The updateStatus functions, whatever field they set and however the worker
\* goes on.
LEMMA UpdateStatusType ==
    ASSUME TypeOK, NEW w \in Workers, wk[w].pc \in Calls,
           NEW new \in KanaryObjects, NEW next, WorkerOK(next),
           UpdateStatus(w, new, next)
    PROVE  KanariesTyped' /\ WorkersTyped' /\ BudgetTyped'
<1>1. NextVersion(new) \in Objects
  BY NewKanaryType DEF Objects
<1>2. UNCHANGED <<kan, kwatch>> \/ PutKanary(wk[w].key, NextVersion(new))
  BY DEF UpdateStatus
<1>3. KanariesTyped'
  BY <1>1, <1>2, BusyWorker, FrameType, PutKanaryType, TypeParts
<1>4. Answer(w, next) \/ Return(w)
  BY DEF UpdateStatus
<1>5. WorkersTyped' /\ BudgetTyped'
  BY <1>4, AnswerType, ReturnType, TypeParts
<1> QED
  BY <1>3, <1>5

\* A worker goes on with what it has stored.
LEMMA StoredType ==
    ASSUME NEW r \in Busy, NEW new \in KanaryObjects
    PROVE  /\ Stored(r, new) \in Busy
           /\ Stored(r, new).key = r.key
           /\ Stored(r, new).ky = IF new = r.ky THEN new ELSE NextVersion(new)
<1>1. (IF new = r.ky THEN new ELSE NextVersion(new)) \in KanaryObjects
  BY NewKanaryType
<1>2. \A o \in KanaryObjects : /\ [r EXCEPT !.ky = o] \in Busy
                               /\ [r EXCEPT !.ky = o].key = r.key
                               /\ [r EXCEPT !.ky = o].ky = o
  BY DEF Busy
<1> QED
  BY <1>1, <1>2 DEF Stored

\* The steps of syncKanary that write the Kanary.
LEMMA StatusStepType ==
    ASSUME TypeOK, NEW w \in Workers,
           updateStatusConfigMap(w) \/ updateStatusEndpoint(w)
             \/ updateStatusDeployment(w)
    PROVE  TypeOK'
<1>1. CASE updateStatusConfigMap(w)
  <2> DEFINE new == [wk[w].ky EXCEPT !.config = TRUE]
             r == Stored(wk[w], new)
  <2>1. wk[w].pc \in Calls
    BY <1>1 DEF updateStatusConfigMap, Calls
  <2>2. new \in KanaryObjects
    BY <2>1, BusyWorker, NewKanaryType
  <2>3. WorkerOK(At(r, "statusEndpoint"))
    <3>1. r \in Busy
      BY <2>1, <2>2, BusyWorker, StoredType
    <3> HIDE DEF r
    <3> QED
      BY <3>1, NextStepType DEF Calls
  <2>4. KanariesTyped' /\ WorkersTyped' /\ BudgetTyped'
    <3>1. UpdateStatus(w, new, At(r, "statusEndpoint"))
      BY <1>1 DEF updateStatusConfigMap
    <3> HIDE DEF new, r
    <3> QED
      BY <2>1, <2>2, <2>3, <3>1, UpdateStatusType
  <2> QED
    BY <1>1, <2>4, FrameType, TypePartsNext DEF updateStatusConfigMap
<1>2. CASE updateStatusEndpoint(w)
  <2> DEFINE new == [wk[w].ky EXCEPT !.eps = wk[w].exp]
             r == Stored(wk[w], new)
  <2>1. wk[w].pc \in Calls
    BY <1>2 DEF updateStatusEndpoint, Calls
  <2>2. new \in KanaryObjects
    BY <2>1, BusyWorker, NewKanaryType
  <2>3. WorkerOK(ToRefs(r))
    <3>1. r \in Busy
      BY <2>1, <2>2, BusyWorker, StoredType
    <3> HIDE DEF r
    <3> QED
      BY <3>1, NextStepType
  <2>4. KanariesTyped' /\ WorkersTyped' /\ BudgetTyped'
    <3>1. UpdateStatus(w, new, ToRefs(r))
      BY <1>2 DEF updateStatusEndpoint
    <3> HIDE DEF new, r
    <3> QED
      BY <2>1, <2>2, <2>3, <3>1, UpdateStatusType
  <2> QED
    BY <1>2, <2>4, FrameType, TypePartsNext DEF updateStatusEndpoint
<1>3. CASE updateStatusDeployment(w)
  <2> DEFINE new == [wk[w].ky EXCEPT !.proxy = TRUE]
             r == Stored(wk[w], new)
  <2>1. wk[w].pc \in Calls
    BY <1>3 DEF updateStatusDeployment, Calls
  <2>2. new \in KanaryObjects
    BY <2>1, BusyWorker, NewKanaryType
  <2>3. WorkerOK(ToService(r))
    <3>1. r \in Busy
      BY <2>1, <2>2, BusyWorker, StoredType
    <3> HIDE DEF r
    <3> QED
      BY <3>1, NextStepType
  <2>4. KanariesTyped' /\ WorkersTyped' /\ BudgetTyped'
    <3>1. UpdateStatus(w, new, ToService(r))
      BY <1>3 DEF updateStatusDeployment
    <3> HIDE DEF new, r
    <3> QED
      BY <2>1, <2>2, <2>3, <3>1, UpdateStatusType
  <2> QED
    BY <1>3, <2>4, FrameType, TypePartsNext DEF updateStatusDeployment
<1> QED
  BY <1>1, <1>2, <1>3

\* What a worker creates, and what a pod started now mounts.
LEMMA OwnedObjectsType ==
    ASSUME TypeOK, NEW w \in Workers, wk[w] \in Busy
    PROVE  /\ newConfigMap(wk[w]) \in ConfigMapObjects
           /\ Mounted(wk[w].key) \in Configs \cup {None}
           /\ newDeployementHA(wk[w]) \in DeploymentObjects
<1>1. wk[w].key \in Kanaries /\ wk[w].ky.uid \in Nat /\ wk[w].exp \in Statuses
  BY DEF Busy, KanaryObjects
<1>2. newConfigMap(wk[w]) \in ConfigMapObjects
  BY <1>1 DEF newConfigMap, Configs, ConfigMapObjects
<1>3. Mounted(wk[w].key) \in Configs \cup {None}
  BY <1>1, TypeParts DEF Mounted, OwnedTyped, ConfigMapObjects
<1>4. newDeployementHA(wk[w]) \in DeploymentObjects
  BY <1>1, <1>3 DEF newDeployementHA, DeploymentObjects
<1> QED
  BY <1>2, <1>3, <1>4

\* The steps of syncKanary that write a ConfigMap, a Deployment or a Service.
LEMMA OwnedStepType ==
    ASSUME TypeOK, NEW w \in Workers,
           \/ CreateConfigMap(w) \/ UpdateConfigMap(w)
           \/ performRollingUpdate(w) \/ CreateDeployment(w)
           \/ CreateService(w) \/ DeleteService(w)
    PROVE  TypeOK'
<1> DEFINE r == wk[w]
<1>1. r.pc \in Calls
  BY DEF CreateConfigMap, UpdateConfigMap, performRollingUpdate, CreateDeployment,
         CreateService, DeleteService, Calls
<1>2. r \in Busy /\ r.key \in Kanaries /\ r.ky \in KanaryObjects
  BY <1>1, BusyWorker
<1>3. \A p \in Calls \ {"ref"} : WorkerOK(At(r, p))
  BY <1>2, NextStepType
<1>4. newConfigMap(r) \in ConfigMapObjects
  BY <1>2, OwnedObjectsType
<1>5. Mounted(r.key) \in Configs \cup {None}
  BY <1>2, OwnedObjectsType
<1>6. newDeployementHA(r) \in DeploymentObjects
  BY <1>2, OwnedObjectsType
<1>7. newService(r) \in [owner : Kanaries, uid : Nat] /\ r.ky.spec.dest \in Names
  BY <1>2 DEF newService, KanaryObjects, Names
<1>8. KanariesTyped' /\ EndpointsTyped' /\ CachesTyped' /\ ProcessTyped'
  <2>1. UNCHANGED <<kan, ep, informers, pending, deleted, panicked>>
    BY DEF CreateConfigMap, UpdateConfigMap, performRollingUpdate,
           CreateDeployment, CreateService, DeleteService
  <2> QED
    BY <2>1, FrameType DEF informers
<1>9. WorkersTyped' /\ BudgetTyped'
  <2>1. \/ Return(w) \/ \E p \in Calls \ {"ref"} : Answer(w, At(r, p))
    BY DEF CreateConfigMap, UpdateConfigMap, performRollingUpdate,
           CreateDeployment, CreateService, DeleteService, Calls
  <2> QED
    BY <1>3, <2>1, AnswerType, ReturnType, TypeParts
<1>10. OwnedTyped'
  <2> USE TypeParts
  <2> HIDE DEF r
  <2>1. CASE UNCHANGED <<cm, dep, svc>>
    BY <2>1, FrameType
  <2>2. CASE cm' = [cm EXCEPT ![r.key] = newConfigMap(r)] /\ UNCHANGED <<dep, svc>>
    BY <1>2, <1>4, <2>2 DEF OwnedTyped
  <2>3. CASE dep' = [dep EXCEPT ![r.key] = newDeployementHA(r)]
             /\ UNCHANGED <<cm, svc>>
    BY <1>2, <1>6, <2>3 DEF OwnedTyped
  <2>4. CASE dep' = [dep EXCEPT ![r.key].rolled = Mounted(r.key)] /\ dep[r.key] # None
             /\ UNCHANGED <<cm, svc>>
    <3>1. dep[r.key] \in DeploymentObjects
      BY <1>2, <2>4 DEF OwnedTyped
    <3>2. \A d \in DeploymentObjects, c \in Configs \cup {None} :
             [d EXCEPT !.rolled = c] \in DeploymentObjects
      BY DEF DeploymentObjects
    <3>3. dep' = [dep EXCEPT ![r.key] = [dep[r.key] EXCEPT !.rolled = Mounted(r.key)]]
      BY <2>4
    <3>4. [dep[r.key] EXCEPT !.rolled = Mounted(r.key)] \in DeploymentObjects
      BY <3>1, <3>2, <1>5
    <3> QED
      BY <1>2, <2>4, <3>3, <3>4 DEF OwnedTyped
  <2>5. CASE svc' = [svc EXCEPT ![r.ky.spec.dest] = newService(r)]
             /\ UNCHANGED <<cm, dep>>
    BY <1>7, <2>5 DEF OwnedTyped
  <2>6. CASE svc' = [svc EXCEPT ![r.ky.svc] = None] /\ UNCHANGED <<cm, dep>>
    BY <2>6 DEF OwnedTyped
  <2> QED
    BY <2>1, <2>2, <2>3, <2>4, <2>5, <2>6
    DEF CreateConfigMap, UpdateConfigMap, performRollingUpdate, CreateDeployment,
        CreateService, DeleteService, r
<1> QED
  BY <1>8, <1>9, <1>10, TypePartsNext

\* The annotation.
LEMMA RefStepType ==
    ASSUME TypeOK, NEW w \in Workers, AddKanaryRef(w)
    PROVE  TypeOK'
<1> DEFINE r    == wk[w]
           s    == r.ky.eps[r.i].service
           refs == addKanaryRefInEp(ec[s].refs, r.key)
           e    == [ec[s] EXCEPT !.refs = refs, !.annotated = TRUE, !.rv = @ + 1]
           n    == [r EXCEPT !.i = @ + 1]
<1> USE TypeParts
<1>1. r.pc = "ref" /\ r.pc \in Calls
  BY DEF AddKanaryRef, Calls
<1>2. r \in Busy /\ r.key \in Kanaries /\ r.ky \in KanaryObjects
  BY <1>1, BusyWorker
<1>3. s \in Services
  <2>1. r.i \in DOMAIN r.ky.eps
    BY <1>1 DEF WorkersTyped, WorkerOK
  <2>2. r.ky.eps \in Statuses
    BY <1>2 DEF KanaryObjects
  <2> QED
    BY <2>1, <2>2, StatusService
<1>4. e \in EndpointsObjects
  <2>1. ec[s] \in EndpointsObjects
    BY <1>3 DEF CachesTyped
  <2>2. ec[s].refs \in Seq(Kanaries)
    BY <2>1 DEF EndpointsObjects
  <2>3. refs \in Seq(Kanaries)
    BY <1>2, <2>2, RefsType
  <2> HIDE DEF r, s, refs
  <2> QED
    BY <2>1, <2>3, NewEndpointsType
<1>5. WorkerOK(ToRefs(n))
  <2>1. \A b \in Busy : [b EXCEPT !.i = @ + 1] \in Busy
    BY DEF Busy
  <2>2. n \in Busy
    BY <1>2, <2>1
  <2> HIDE DEF n
  <2> QED
    BY <2>2, NextStepType
<1>6. WorkersTyped' /\ BudgetTyped'
  <2>1. Answer(w, ToRefs(n)) \/ Return(w)
    BY DEF AddKanaryRef
  <2> HIDE DEF n
  <2> QED
    BY <1>5, <2>1, AnswerType, ReturnType
<1>7. EndpointsTyped'
  <2>1. PutEndpoints(s, e) \/ UNCHANGED <<ep, ewatch>>
    BY DEF AddKanaryRef
  <2> HIDE DEF s, e
  <2> QED
    BY <1>3, <1>4, <2>1, FrameType, PutEndpointsType
<1>8. KanariesTyped' /\ OwnedTyped' /\ CachesTyped' /\ ProcessTyped'
  BY FrameType DEF AddKanaryRef
<1> QED
  BY <1>6, <1>7, <1>8, TypePartsNext

\* The end of a turn that returns an error, and a turn's first step.
LEMMA HandleErrType ==
    ASSUME TypeOK, NEW w \in Workers, wk[w].pc \in Calls, handleErr(w),
           UNCHANGED <<deleted, panicked>>
    PROVE  WorkersTyped' /\ ProcessTyped'
<1>1. WorkersTyped'
  BY IdleWorkerOK, WorkerStepType, TypeParts DEF handleErr
<1>2. wk[w].key \in Kanaries
  BY BusyWorker
<1>3. ProcessTyped'
  BY <1>2, TypeParts DEF handleErr, ProcessTyped
<1> QED
  BY <1>1, <1>3

\* The last call of a turn, and a call that is refused.
LEMMA LastStepType ==
    ASSUME TypeOK, NEW w \in Workers, updateStatusService(w) \/ Refuse(w)
    PROVE  TypeOK'
<1> USE TypeParts
<1>f. "fault" \in DOMAIN budget
  BY DEF BudgetTyped, Budget
<1>1. CASE updateStatusService(w)
  <2>1. wk[w].pc \in Calls
    BY <1>1 DEF updateStatusService, Calls
  <2>2. NextVersion([wk[w].ky EXCEPT !.svc = wk[w].ky.spec.dest]) \in Objects
    BY <2>1, BusyWorker, NewKanaryType DEF Objects
  <2>3. KanariesTyped'
    <3>1. \/ PutKanary(wk[w].key,
                       NextVersion([wk[w].ky EXCEPT !.svc = wk[w].ky.spec.dest]))
          \/ UNCHANGED <<kan, kwatch>>
      BY <1>1 DEF updateStatusService
    <3> QED
      BY <2>1, <2>2, <3>1, BusyWorker, PutKanaryType, FrameType
  <2>4. WorkersTyped' /\ ProcessTyped' /\ BudgetTyped'
    <3>1. UNCHANGED <<deleted, panicked>>
      BY <1>1 DEF updateStatusService
    <3>2. CASE Return(w) /\ UNCHANGED pending
      BY <3>1, <3>2, ReturnType, FrameType
    <3>3. CASE handleErr(w) /\ (Spend("fault") \/ UNCHANGED budget)
      BY <1>f, <2>1, <3>1, <3>3, HandleErrType, SpendType, FrameType
    <3> QED
      BY <1>1, <3>2, <3>3 DEF updateStatusService
  <2>5. EndpointsTyped' /\ OwnedTyped' /\ CachesTyped'
    BY <1>1, FrameType DEF updateStatusService
  <2> QED
    BY <2>3, <2>4, <2>5, TypePartsNext
<1>2. CASE Refuse(w)
  <2>1. wk[w].pc \in Calls /\ UNCHANGED <<deleted, panicked>>
    BY <1>2, ControllerAssumption DEF Refuse
  <2>2. BudgetTyped'
    BY <1>2, <1>f, SpendType DEF Refuse
  <2>3. CASE handleErr(w)
    <3>1. WorkersTyped' /\ ProcessTyped'
      BY <2>1, <2>3, HandleErrType
    <3>2. KanariesTyped' /\ EndpointsTyped' /\ OwnedTyped' /\ CachesTyped'
      BY <1>2, FrameType DEF Refuse, api, informers
    <3> QED
      BY <2>2, <3>1, <3>2, TypePartsNext
  <2>4. CASE wk' = [wk EXCEPT ![w] = IdleWorker] /\ UNCHANGED pending
    <3>1. WorkersTyped'
      BY <2>4, IdleWorkerOK, WorkerStepType
    <3>2. KanariesTyped' /\ EndpointsTyped' /\ OwnedTyped' /\ CachesTyped'
          /\ ProcessTyped'
      BY <1>2, <2>4, FrameType DEF Refuse, api, informers
    <3> QED
      BY <2>2, <3>1, <3>2, TypePartsNext
  <2> QED
    BY <1>2, <2>3, <2>4 DEF Refuse
<1> QED
  BY <1>1, <1>2

\* A turn that begins.
LEMMA StartSyncType ==
    ASSUME TypeOK, NEW w \in Workers, NEW k \in Kanaries, StartSync(w, k)
    PROVE  TypeOK'
<1> DEFINE o == kc[k]
           expected == buildExpectedEndpointStatus(o.spec.routes, ec)
           r == [pc |-> "configMap", key |-> k, ky |-> o, exp |-> expected,
                 i |-> 1]
           next == IF o = None \/ ~Buildable(o.spec.routes, ec) THEN IdleWorker
                   ELSE IF deepEqualEndpointStatusList(expected, o.eps)
                        THEN ToDeployment(r)
                        ELSE r
<1> USE TypeParts
<1>1. o \in Objects
  BY DEF CachesTyped
<1>2. ASSUME o # None PROVE r \in Busy
  <2>1. o \in KanaryObjects
    BY <1>1, <1>2 DEF Objects
  <2>2. o.spec \in Specs
    BY <2>1 DEF KanaryObjects
  <2>3. expected \in Statuses
    BY <2>2, BuildType DEF CachesTyped
  <2> HIDE DEF o, expected
  <2> QED
    BY <2>1, <2>3 DEF Busy, Calls
<1>3. r.pc = "configMap"
  OBVIOUS
<1>4. WorkerOK(next)
  <2> HIDE DEF o, expected, r
  <2>1. o # None => WorkerOK(ToDeployment(r)) /\ WorkerOK(r)
    BY <1>2, <1>3, NextStepType DEF WorkerOK
  <2> QED
    BY <2>1, IdleWorkerOK
<1>5. wk' = [wk EXCEPT ![w] = next]
  BY DEF StartSync
<1>6. WorkersTyped'
  <2> HIDE DEF next
  <2> QED
    BY <1>4, <1>5, WorkerStepType
<1>7. ProcessTyped'
  BY DEF StartSync, ProcessTyped
<1>8. KanariesTyped' /\ EndpointsTyped' /\ OwnedTyped' /\ CachesTyped'
      /\ BudgetTyped'
  BY FrameType DEF StartSync, api, informers
<1> QED
  BY <1>6, <1>7, <1>8, TypePartsNext

\* Users, pods and the garbage collector.
LEMMA EnvironmentType ==
    ASSUME TypeOK, Environment
    PROVE  TypeOK'
<1> USE TypeParts
<1>b. {"create", "edit", "delete", "change"} \subseteq DOMAIN budget
  BY DEF BudgetTyped, Budget
<1>1. ASSUME NEW k \in Kanaries, CreateKanary(k) PROVE TypeOK'
  <2> DEFINE uid == Limits.create - budget.create + 1
  <2>1. uid \in Nat
    BY ControllerAssumption DEF BudgetTyped, Budget
  <2>2. PICK spec \in Specs : PutKanary(k, NewKanary(uid, spec))
    BY <1>1 DEF CreateKanary
  <2>3. <<>> \in Statuses
    BY DEF Statuses
  <2>4. NewKanary(uid, spec) \in Objects
    <3> HIDE DEF uid
    <3> QED
      BY <2>1, <2>3 DEF NewKanary, Objects, KanaryObjects
  <2>5. KanariesTyped'
    <3> HIDE DEF uid
    <3> QED
      BY <2>2, <2>4, PutKanaryType
  <2>6. BudgetTyped'
    BY <1>1, <1>b, SpendType DEF CreateKanary
  <2> QED
    BY <1>1, <2>5, <2>6, FrameType, TypePartsNext DEF CreateKanary
<1>2. ASSUME NEW k \in Kanaries, EditKanary(k) PROVE TypeOK'
  <2>1. PICK spec \in Specs :
          PutKanary(k, NextVersion([kan[k] EXCEPT !.spec = spec]))
    BY <1>2 DEF EditKanary
  <2>2. kan[k] \in KanaryObjects
    BY <1>2 DEF EditKanary, KanariesTyped, Objects
  <2>3. NextVersion([kan[k] EXCEPT !.spec = spec]) \in Objects
    BY <2>2, NewKanaryType DEF Objects
  <2>4. KanariesTyped'
    BY <2>1, <2>3, PutKanaryType
  <2>5. BudgetTyped'
    BY <1>2, <1>b, SpendType DEF EditKanary
  <2> QED
    BY <1>2, <2>4, <2>5, FrameType, TypePartsNext DEF EditKanary
<1>3. ASSUME NEW k \in Kanaries, DeleteKanary(k) PROVE TypeOK'
  <2>1. KanariesTyped'
    BY <1>3, PutKanaryType DEF DeleteKanary, Objects
  <2>2. BudgetTyped'
    BY <1>3, <1>b, SpendType DEF DeleteKanary
  <2> QED
    BY <1>3, <2>1, <2>2, FrameType, TypePartsNext DEF DeleteKanary
<1>4. ASSUME NEW s \in Services, ChangeEndpoints(s) PROVE TypeOK'
  <2>1. ep[s] \in EndpointsObjects
    BY DEF EndpointsTyped
  <2>2. \E e \in EndpointsObjects : PutEndpoints(s, e)
    BY <1>4, <2>1, NewEndpointsType DEF ChangeEndpoints
  <2>3. EndpointsTyped'
    BY <2>2, PutEndpointsType
  <2>4. BudgetTyped'
    BY <1>4, <1>b, SpendType DEF ChangeEndpoints
  <2> QED
    BY <1>4, <2>3, <2>4, FrameType, TypePartsNext DEF ChangeEndpoints
<1> QED
  BY <1>1, <1>2, <1>3, <1>4 DEF Environment

\* The collection of what an earlier Kanary owned.
LEMMA GarbageType ==
    ASSUME TypeOK, NEW k \in Kanaries, CollectGarbage(k)
    PROVE  TypeOK'
<1> USE TypeParts
<1>1. OwnedTyped'
  <2>1. CASE cm' = [cm EXCEPT ![k] = None] /\ UNCHANGED <<dep, svc>>
    BY <2>1 DEF OwnedTyped
  <2>2. CASE dep' = [dep EXCEPT ![k] = None] /\ UNCHANGED <<cm, svc>>
    BY <2>2 DEF OwnedTyped
  <2>3. ASSUME NEW n \in Names,
               svc' = [svc EXCEPT ![n] = None] /\ UNCHANGED <<cm, dep>>
        PROVE  OwnedTyped'
    BY <2>3 DEF OwnedTyped
  <2> QED
    BY <2>1, <2>2, <2>3 DEF CollectGarbage
<1> QED
  BY <1>1, FrameType, TypePartsNext DEF CollectGarbage, informers

\* Every step keeps the types.
LEMMA TypeStep == TypeOK /\ [Next]_vars => TypeOK'
<1> SUFFICES ASSUME TypeOK, [Next]_vars PROVE TypeOK'
  OBVIOUS
<1>1. CASE Environment
  BY <1>1, EnvironmentType
<1>2. CASE Restart
  <2>1. BudgetTyped'
    <3>1. BudgetTyped /\ "restart" \in DOMAIN budget
      BY TypeParts DEF BudgetTyped, Budget
    <3> QED
      BY <1>2, <3>1, SpendType DEF Restart
  <2>2. panicked' \in BOOLEAN
    BY <1>2, TypeParts DEF Restart, ProcessTyped
  <2> QED
    BY <1>2, <2>1, <2>2, ProcessStartType DEF Restart
<1>3. ASSUME NEW k \in Kanaries, DeliverKanary(k) \/ Resync(k) PROVE TypeOK'
  BY <1>3, KanaryInformerType
<1>4. ASSUME NEW s \in Services, DeliverEndpoints(s) PROVE TypeOK'
  BY <1>4, EndpointsInformerType
<1>5. CASE RelistKanaries \/ RelistEndpoints
  BY <1>5, RelistType
<1>6. ASSUME NEW k \in Kanaries, CollectGarbage(k) PROVE TypeOK'
  BY <1>6, GarbageType
<1>7. CASE DeletionStep
  BY <1>7, DeletionType
<1>8. ASSUME NEW w \in Workers, SyncStep(w) \/ Refuse(w) PROVE TypeOK'
  BY <1>8, LastStepType, StatusStepType, OwnedStepType, RefStepType DEF SyncStep
<1>9. ASSUME NEW w \in Workers, NEW k \in Kanaries, StartSync(w, k) PROVE TypeOK'
  BY <1>9, StartSyncType
<1>10. CASE UNCHANGED vars
  BY <1>10, FrameType, TypePartsNext DEF vars, api, informers
<1> QED
  BY <1>1, <1>2, <1>3, <1>4, <1>5, <1>6, <1>7, <1>8, <1>9, <1>10 DEF Next

\* Every variable keeps its type: in particular a status and a configuration
\* are always the result of one whole build (buildExpectedEndpointStatus and
\* newHAProxyController, controller.go:289-335), whatever calls fail, conflict
\* or lose their answer and wherever the process ends.
THEOREM TypeCorrect == Spec => []TypeOK
BY InitType, TypeStep, PTL DEF Spec

-----------------------------------------------------------------------------
(* What one call of syncKanary does to its worker and to the Kanary *)

\* The worker ends its turn or goes on with the same key and a copy of the
\* Kanary that it had or has just stored.
GoesOn(w, n) ==
    \/ n = IdleWorker
    \/ n.key = wk[w].key /\ n.ky \in {wk[w].ky, kan'[wk[w].key]}

Moves(w) == \E n : wk' = [wk EXCEPT ![w] = n] /\ GoesOn(w, n)

\* The next version of a Kanary, as a call of the controller may write it.
Succeeds(old, new) ==
    /\ new.uid = old.uid /\ new.rv = old.rv + 1 /\ new.spec = old.spec
    /\ old.config => new.config
    /\ old.proxy => new.proxy
    /\ old.svc # None => new.svc # None

\* Nothing is written, or the next version of the copy of worker w.
Writes(w) ==
    \/ UNCHANGED <<kan, kwatch>>
    \/ \E new \in KanaryObjects : /\ IsCurrent(wk[w].key, wk[w].ky)
                                 /\ Succeeds(wk[w].ky, new)
                                 /\ PutKanary(wk[w].key, new)

\* A call moves its worker and no other.
LEMMA MoveOne ==
    ASSUME NEW w \in Workers, NEW n, GoesOn(w, n), Return(w) \/ Answer(w, n)
    PROVE  Moves(w)
BY DEF Moves, GoesOn, Return, Answer

\* Skipping steps keeps the key and the copy.
Keeps(r, n) == n = IdleWorker \/ (n.key = r.key /\ n.ky = r.ky)

\* The tests of syncKanary that skip steps change neither key nor copy.
LEMMA SkipKeeps ==
    ASSUME NEW r \in Busy
    PROVE  /\ \A p \in Calls : At(r, p).key = r.key /\ At(r, p).ky = r.ky
           /\ Keeps(r, ToService(r))
           /\ Keeps(r, ToDeployment(r))
           /\ Keeps(r, ToRefs(r))
<1>1. \A p \in Calls : At(r, p).key = r.key /\ At(r, p).ky = r.ky
  BY DEF At, Busy
<1>2. Keeps(r, ToService(r))
  BY <1>1 DEF ToService, Calls, Keeps
<1>3. Keeps(r, ToDeployment(r))
  BY <1>1, <1>2 DEF ToDeployment, Calls, Keeps
<1>4. Keeps(r, ToRefs(r))
  BY <1>1, <1>3 DEF ToRefs, Calls, Keeps
<1> QED
  BY <1>1, <1>2, <1>3, <1>4

\* What the updateStatus functions write.
LEMMA FieldSucceeds ==
    ASSUME NEW o \in KanaryObjects
    PROVE  /\ \A eps \in Statuses :
                Succeeds(o, NextVersion([o EXCEPT !.eps = eps]))
           /\ Succeeds(o, NextVersion([o EXCEPT !.config = TRUE]))
           /\ Succeeds(o, NextVersion([o EXCEPT !.proxy = TRUE]))
           /\ Succeeds(o, NextVersion([o EXCEPT !.svc = o.spec.dest]))
<1>1. \A eps \in Statuses : Succeeds(o, NextVersion([o EXCEPT !.eps = eps]))
  BY DEF Succeeds, NextVersion, KanaryObjects
<1>2. Succeeds(o, NextVersion([o EXCEPT !.config = TRUE]))
  BY DEF Succeeds, NextVersion, KanaryObjects
<1>3. Succeeds(o, NextVersion([o EXCEPT !.proxy = TRUE]))
  BY DEF Succeeds, NextVersion, KanaryObjects
<1>4. Succeeds(o, NextVersion([o EXCEPT !.svc = o.spec.dest]))
  <2>1. o.spec.dest # None
    BY ControllerAssumption DEF KanaryObjects, Names
  <2> QED
    BY <2>1 DEF Succeeds, NextVersion, KanaryObjects
<1> QED
  BY <1>1, <1>2, <1>3, <1>4

\* UpdateStatus, for whatever step follows.
LEMMA UpdateStatusEffect ==
    ASSUME TypeOK, NEW w \in Workers, wk[w].pc \in Calls,
           NEW new \in KanaryObjects, Succeeds(wk[w].ky, NextVersion(new)),
           NEW next, Keeps(Stored(wk[w], new), next),
           UpdateStatus(w, new, next)
    PROVE  Moves(w) /\ Writes(w)
<1>1. /\ wk[w] \in Busy /\ wk[w].key \in Kanaries /\ wk[w].ky \in KanaryObjects
      /\ NextVersion(new) \in KanaryObjects
  BY BusyWorker, NewKanaryType
<1>2. next = IdleWorker
      \/ /\ next.key = wk[w].key
         /\ next.ky = IF new = wk[w].ky THEN new ELSE NextVersion(new)
  BY <1>1, StoredType DEF Keeps
<1>3. Writes(w)
  BY <1>1 DEF Writes, UpdateStatus
<1>4. CASE ~IsCurrent(wk[w].key, wk[w].ky) \/ new = wk[w].ky
  <2>1. (GoesOn(w, next) /\ Answer(w, next)) \/ Return(w)
    BY <1>2, <1>4 DEF GoesOn, UpdateStatus
  <2>2. GoesOn(w, IdleWorker)
    BY DEF GoesOn
  <2> QED
    BY <1>3, <2>1, <2>2, MoveOne
<1>5. CASE IsCurrent(wk[w].key, wk[w].ky) /\ new # wk[w].ky
  <2>1. kan'[wk[w].key] = NextVersion(new)
    <3>1. kan \in [Kanaries -> Objects]
      BY TypeParts DEF KanariesTyped
    <3> QED
      BY <1>1, <1>5, <3>1 DEF PutKanary, UpdateStatus
  <2>2. GoesOn(w, next)
    BY <1>2, <1>5, <2>1 DEF GoesOn
  <2>3. Answer(w, next)
    BY <1>5 DEF UpdateStatus
  <2> QED
    BY <1>3, <2>2, <2>3, MoveOne
<1> QED
  BY <1>4, <1>5

\* Every call: the worker, the Kanary, and the cache, which is not touched.
LEMMA StepEffect ==
    ASSUME TypeOK, NEW w \in Workers, SyncStep(w) \/ Refuse(w)
    PROVE  /\ wk[w].pc \in Calls /\ Moves(w) /\ Writes(w)
           /\ UNCHANGED kc /\ budget'.create = budget.create
<1>i. GoesOn(w, IdleWorker)
  BY DEF GoesOn
<1>1. ASSUME updateStatusConfigMap(w) PROVE Moves(w) /\ Writes(w)
  <2> DEFINE new == [wk[w].ky EXCEPT !.config = TRUE]
             r == Stored(wk[w], new)
  <2>1. wk[w].pc \in Calls
    BY <1>1 DEF updateStatusConfigMap, Calls
  <2>2. new \in KanaryObjects /\ Succeeds(wk[w].ky, NextVersion(new))
    BY <2>1, BusyWorker, NewKanaryType, FieldSucceeds
  <2>3. Keeps(r, At(r, "statusEndpoint"))
    <3>1. r \in Busy
      BY <2>1, <2>2, BusyWorker, StoredType
    <3> HIDE DEF r
    <3> QED
      BY <3>1, SkipKeeps DEF Keeps, Calls
  <2>4. UpdateStatus(w, new, At(r, "statusEndpoint"))
    BY <1>1 DEF updateStatusConfigMap
  <2> HIDE DEF new
  <2> QED
    BY <2>1, <2>2, <2>3, <2>4, UpdateStatusEffect
<1>2. ASSUME updateStatusEndpoint(w) PROVE Moves(w) /\ Writes(w)
  <2> DEFINE new == [wk[w].ky EXCEPT !.eps = wk[w].exp]
             r == Stored(wk[w], new)
  <2>1. wk[w].pc \in Calls
    BY <1>2 DEF updateStatusEndpoint, Calls
  <2>2. new \in KanaryObjects /\ Succeeds(wk[w].ky, NextVersion(new))
    BY <2>1, BusyWorker, NewKanaryType, FieldSucceeds
  <2>3. Keeps(r, ToRefs(r))
    <3>1. r \in Busy
      BY <2>1, <2>2, BusyWorker, StoredType
    <3> HIDE DEF r
    <3> QED
      BY <3>1, SkipKeeps
  <2>4. UpdateStatus(w, new, ToRefs(r))
    BY <1>2 DEF updateStatusEndpoint
  <2> HIDE DEF new
  <2> QED
    BY <2>1, <2>2, <2>3, <2>4, UpdateStatusEffect
<1>3. ASSUME updateStatusDeployment(w) PROVE Moves(w) /\ Writes(w)
  <2> DEFINE new == [wk[w].ky EXCEPT !.proxy = TRUE]
             r == Stored(wk[w], new)
  <2>1. wk[w].pc \in Calls
    BY <1>3 DEF updateStatusDeployment, Calls
  <2>2. new \in KanaryObjects /\ Succeeds(wk[w].ky, NextVersion(new))
    BY <2>1, BusyWorker, NewKanaryType, FieldSucceeds
  <2>3. Keeps(r, ToService(r))
    <3>1. r \in Busy
      BY <2>1, <2>2, BusyWorker, StoredType
    <3> HIDE DEF r
    <3> QED
      BY <3>1, SkipKeeps
  <2>4. UpdateStatus(w, new, ToService(r))
    BY <1>3 DEF updateStatusDeployment
  <2> HIDE DEF new
  <2> QED
    BY <2>1, <2>2, <2>3, <2>4, UpdateStatusEffect
<1>4. ASSUME \/ CreateConfigMap(w) \/ UpdateConfigMap(w)
             \/ performRollingUpdate(w) \/ CreateDeployment(w)
             \/ CreateService(w) \/ DeleteService(w)
      PROVE  Moves(w) /\ Writes(w)
  <2>1. wk[w].pc \in Calls
    BY <1>4 DEF CreateConfigMap, UpdateConfigMap, performRollingUpdate,
                CreateDeployment, CreateService, DeleteService, Calls
  <2>2. \A p \in Calls : GoesOn(w, At(wk[w], p))
    BY <2>1, BusyWorker, SkipKeeps DEF GoesOn
  <2>3. Return(w) \/ \E p \in Calls : Answer(w, At(wk[w], p))
    BY <1>4 DEF CreateConfigMap, UpdateConfigMap, performRollingUpdate,
                CreateDeployment, CreateService, DeleteService, Calls
  <2>4. Moves(w)
    BY <1>i, <2>2, <2>3, MoveOne
  <2>5. Writes(w)
    BY <1>4 DEF CreateConfigMap, UpdateConfigMap, performRollingUpdate,
                CreateDeployment, CreateService, DeleteService, informers, Writes
  <2> QED
    BY <2>4, <2>5
<1>5. ASSUME AddKanaryRef(w) PROVE Moves(w) /\ Writes(w)
  <2> DEFINE n == [wk[w] EXCEPT !.i = @ + 1]
  <2>1. wk[w] \in Busy
    BY <1>5, BusyWorker DEF AddKanaryRef, Calls
  <2>2. n \in Busy /\ n.key = wk[w].key /\ n.ky = wk[w].ky
    BY <2>1 DEF Busy
  <2>3. Answer(w, ToRefs(n)) \/ Return(w)
    BY <1>5 DEF AddKanaryRef
  <2>4. GoesOn(w, ToRefs(n))
    <3> HIDE DEF n
    <3> QED
      BY <2>2, SkipKeeps DEF GoesOn, Keeps
  <2>5. Moves(w)
    <3> HIDE DEF n
    <3> QED
      BY <1>i, <2>3, <2>4, MoveOne
  <2> QED
    BY <1>5, <2>5 DEF AddKanaryRef, Writes
<1>6. ASSUME updateStatusService(w) PROVE Moves(w) /\ Writes(w)
  <2> DEFINE new == NextVersion([wk[w].ky EXCEPT !.svc = wk[w].ky.spec.dest])
  <2>1. new \in KanaryObjects /\ Succeeds(wk[w].ky, new)
    BY <1>6, BusyWorker, NewKanaryType, FieldSucceeds DEF updateStatusService, Calls
  <2>2. (IsCurrent(wk[w].key, wk[w].ky) /\ PutKanary(wk[w].key, new))
        \/ UNCHANGED <<kan, kwatch>>
    BY <1>6 DEF updateStatusService
  <2>3. Writes(w)
    <3> HIDE DEF new
    <3> QED
      BY <2>1, <2>2 DEF Writes
  <2>4. Moves(w)
    BY <1>i, <1>6 DEF updateStatusService, Return, handleErr, Moves
  <2> QED
    BY <2>3, <2>4
<1>7. ASSUME Refuse(w) PROVE Moves(w) /\ Writes(w)
  BY <1>i, <1>7 DEF Refuse, handleErr, Moves, Writes, api, informers
<1>8. Moves(w) /\ Writes(w)
  BY <1>1, <1>2, <1>3, <1>4, <1>5, <1>6, <1>7 DEF SyncStep
<1>9. wk[w].pc \in Calls
  BY ControllerAssumption
  DEF SyncStep, updateStatusConfigMap, updateStatusEndpoint, updateStatusDeployment,
      CreateConfigMap, UpdateConfigMap, performRollingUpdate, AddKanaryRef,
      CreateDeployment, CreateService, DeleteService, updateStatusService, Refuse,
      Calls
<1>10. UNCHANGED kc
  BY DEF SyncStep, updateStatusConfigMap, updateStatusEndpoint,
      updateStatusDeployment, CreateConfigMap, UpdateConfigMap,
      performRollingUpdate, AddKanaryRef, CreateDeployment, CreateService,
      DeleteService, updateStatusService, Refuse, informers
<1>11. budget'.create = budget.create
  <2>1. Spend("fault") => budget'.create = budget.create
    BY TypeParts DEF BudgetTyped, Budget, Spend
  <2>2. Spend("fault") \/ UNCHANGED budget
    BY DEF SyncStep, updateStatusConfigMap, updateStatusEndpoint,
        updateStatusDeployment, CreateConfigMap, UpdateConfigMap,
        performRollingUpdate, AddKanaryRef, CreateDeployment, CreateService,
        DeleteService, updateStatusService, Refuse, UpdateStatus, Answer, Return
  <2> QED
    BY <2>1, <2>2
<1> QED
  BY <1>8, <1>9, <1>10, <1>11

\* The first step of a turn: what the worker takes up.
LEMMA StartWorker ==
    ASSUME TypeOK, NEW w \in Workers, NEW k \in Kanaries, StartSync(w, k)
    PROVE  \E n : /\ wk' = [wk EXCEPT ![w] = n]
                  /\ n = IdleWorker \/ (n.key = k /\ n.ky = kc[k])
<1> DEFINE o == kc[k]
           r == [pc |-> "configMap", key |-> k, ky |-> o,
                 exp |-> buildExpectedEndpointStatus(o.spec.routes, ec),
                 i |-> 1]
<1>1. kc[k] = None \/ r \in Busy
  <2>1. kc[k] # None => kc[k] \in KanaryObjects /\ kc[k].spec \in Specs
    BY TypeParts DEF CachesTyped, Objects, KanaryObjects
  <2>2. ec \in [Services -> EndpointsObjects]
    BY TypeParts DEF CachesTyped
  <2> QED
    BY <2>1, <2>2, BuildType DEF Busy, Calls
<1>2. \/ wk' = [wk EXCEPT ![w] = IdleWorker]
      \/ kc[k] # None /\ wk' = [wk EXCEPT ![w] = ToDeployment(r)]
      \/ kc[k] # None /\ wk' = [wk EXCEPT ![w] = r]
  BY DEF StartSync
<1>3. r.key = k /\ r.ky = kc[k]
  OBVIOUS
<1>4. r \in Busy => Keeps(r, ToDeployment(r))
  <2> HIDE DEF r
  <2> QED
    BY SkipKeeps
<1> HIDE DEF r
<1> QED
  BY <1>1, <1>2, <1>3, <1>4 DEF Keeps

-----------------------------------------------------------------------------
(* One worker for each key *)

\* What the guard Available gives the proofs that follow: the worker of a turn
\* is the only one that writes for its Kanary.
OneWorkerPerKey ==
    \A v, w \in Workers : v # w /\ wk[v] # IdleWorker => wk[v].key # wk[w].key

\* A key is taken only when nobody holds it, and goes with its worker.
LEMMA OneWorkerStep ==
    TypeOK /\ OneWorkerPerKey /\ [Next]_vars => OneWorkerPerKey'
<1> SUFFICES ASSUME TypeOK, OneWorkerPerKey, [Next]_vars PROVE OneWorkerPerKey'
  OBVIOUS
<1>1. CASE UNCHANGED wk
  BY <1>1 DEF OneWorkerPerKey
<1>2. CASE ProcessStart
  BY <1>2 DEF ProcessStart, OneWorkerPerKey
<1>3. ASSUME NEW w \in Workers, SyncStep(w) \/ Refuse(w) PROVE OneWorkerPerKey'
  <2>1. PICK n : wk' = [wk EXCEPT ![w] = n] /\ GoesOn(w, n)
    BY <1>3, StepEffect DEF Moves
  <2>2. wk[w].pc \in Calls /\ wk[w] # IdleWorker /\ wk[w].key # None
    BY <1>3, StepEffect, BusyWorker, IdleWorkerOK, ControllerAssumption DEF Calls
  <2>3. \A v \in Workers : wk'[v] = IF v = w THEN n ELSE wk[v]
    BY <2>1, TypeParts DEF WorkersTyped
  <2>4. \A v \in Workers : wk[v] # IdleWorker => wk[v].key \in Kanaries
    BY TypeParts DEF WorkersTyped, Busy
  <2>5. IdleWorker.key \notin Kanaries
    BY ControllerAssumption DEF IdleWorker
  <2> QED
    BY <2>1, <2>2, <2>3, <2>4, <2>5 DEF OneWorkerPerKey, GoesOn
<1>4. ASSUME NEW w \in Workers, NEW k \in Kanaries, StartSync(w, k)
      PROVE  OneWorkerPerKey'
  <2>1. PICK n : /\ wk' = [wk EXCEPT ![w] = n]
                 /\ n = IdleWorker \/ n.key = k
    BY <1>4, StartWorker
  <2>2. wk[w] = IdleWorker /\ \A v \in Workers : wk[v].key # k
    BY <1>4 DEF StartSync, Available
  <2>3. \A v \in Workers : wk'[v] = IF v = w THEN n ELSE wk[v]
    BY <2>1, TypeParts DEF WorkersTyped
  <2>4. \A v \in Workers : wk[v] # IdleWorker => wk[v].key \in Kanaries
    BY TypeParts DEF WorkersTyped, Busy
  <2>5. IdleWorker.key \notin Kanaries
    BY ControllerAssumption DEF IdleWorker
  <2> QED
    BY <2>1, <2>2, <2>3, <2>4, <2>5 DEF OneWorkerPerKey
<1> QED
  BY <1>1, <1>2, <1>3, <1>4
  DEF Next, Environment, CreateKanary, EditKanary, DeleteKanary, ChangeEndpoints,
      Restart, RelistKanaries, RelistEndpoints, Panic, DeliverKanary, Resync,
      CollectGarbage, DeliverEndpoints, DeletionStep, EndDeletion,
      DeleteKyRefInEp, DeletionPanics, vars

\* Two workers never process one key at once.
LEMMA OneWorker == Spec => []OneWorkerPerKey
<1>1. Init => OneWorkerPerKey
  BY DEF Init, OneWorkerPerKey
<1> QED
  BY <1>1, OneWorkerStep, TypeCorrect, PTL DEF Spec

-----------------------------------------------------------------------------
(* Versions: what optimistic locking gives the whole-object writes *)

LastUid == Limits.create - budget.create

\* A copy that has the identity of the stored object is not newer, and with
\* the same version it is that object.
CopyOf(o, stored, last) ==
    o # None =>
        /\ o.uid =< last
        /\ stored # None /\ o.uid = stored.uid =>
              /\ o.rv =< stored.rv
              /\ o.rv = stored.rv => o = stored

\* All copies there are: stored, on the way, in the cache, held by a worker.
Copies ==
    \A k \in Kanaries :
        /\ CopyOf(kan[k], kan[k], LastUid)
        /\ CopyOf(kc[k], kan[k], LastUid)
        /\ \A i \in DOMAIN kwatch[k] : CopyOf(kwatch[k][i], kan[k], LastUid)
        /\ \A w \in Workers : wk[w].key = k => CopyOf(wk[w].ky, kan[k], LastUid)

\* How a stored Kanary may change, last and last2 being the latest identity
\* given before and after.
Evolves(stored, stored2, last, last2) ==
    \/ stored2 = stored
    \/ stored2 = None
    \/ stored2.uid = last2 /\ last < last2
    \/ /\ stored # None
       /\ stored2.uid = stored.uid /\ stored2.rv = stored.rv + 1

\* A copy stays a copy when the stored object evolves.
LEMMA CopyLater ==
    ASSUME NEW last \in Int, NEW last2 \in Int, last =< last2,
           NEW stored \in Objects, NEW stored2 \in Objects,
           Evolves(stored, stored2, last, last2), CopyOf(stored, stored, last)
    PROVE  /\ CopyOf(stored2, stored2, last2)
           /\ \A o \in Objects :
                CopyOf(o, stored, last) => CopyOf(o, stored2, last2)
<1>1. \A o \in Objects : o # None => o.uid \in Nat /\ o.rv \in Nat
  BY DEF Objects, KanaryObjects
<1>2. CopyOf(stored2, stored2, last2)
  BY <1>1 DEF CopyOf, Evolves
<1>3. ASSUME NEW o \in Objects, CopyOf(o, stored, last)
      PROVE  CopyOf(o, stored2, last2)
  BY <1>1, <1>3 DEF CopyOf, Evolves
<1> QED
  BY <1>2, <1>3

\* What every step respects: stored objects evolve, and no copy comes from
\* nowhere.
Tracks ==
    /\ LastUid =< LastUid'
    /\ \A k \in Kanaries :
        /\ Evolves(kan[k], kan'[k], LastUid, LastUid')
        /\ \/ kc'[k] \in {kc[k], kan'[k]}
           \/ \E j \in DOMAIN kwatch[k] : kc'[k] = kwatch[k][j]
        /\ \A i \in DOMAIN kwatch'[k] :
              \/ kwatch'[k][i] = kan'[k]
              \/ \E j \in DOMAIN kwatch[k] : kwatch'[k][i] = kwatch[k][j]
        /\ \A w \in Workers : wk'[w].key = k =>
              \/ wk'[w].ky \in {kc[k], kan'[k]}
              \/ wk[w].key = k /\ wk'[w].ky = wk[w].ky

\* The last identity given is a number.
LEMMA LastUidType == TypeOK => LastUid \in Int
BY ControllerAssumption, TypeParts DEF LastUid, BudgetTyped, Budget

\* Copies are kept by whatever evolves and tracks.
LEMMA CopiesStep ==
    ASSUME TypeOK, TypeOK', Copies, Tracks
    PROVE  Copies'
<1>1. LastUid \in Int /\ LastUid' \in Int /\ LastUid =< LastUid'
  <2>1. TypeOK' => LastUid' \in Int
    BY ControllerAssumption, TypePartsNext DEF LastUid, BudgetTyped, Budget
  <2> QED
    BY <2>1, LastUidType DEF Tracks
<1> SUFFICES ASSUME NEW k \in Kanaries
             PROVE  /\ CopyOf(kan'[k], kan'[k], LastUid')
                    /\ CopyOf(kc'[k], kan'[k], LastUid')
                    /\ \A i \in DOMAIN kwatch'[k] :
                          CopyOf(kwatch'[k][i], kan'[k], LastUid')
                    /\ \A w \in Workers : wk'[w].key = k =>
                          CopyOf(wk'[w].ky, kan'[k], LastUid')
  BY DEF Copies
<1>2. /\ kan[k] \in Objects /\ kan'[k] \in Objects /\ kc[k] \in Objects
      /\ \A i \in DOMAIN kwatch[k] : kwatch[k][i] \in Objects
      /\ \A w \in Workers : wk[w].key = k => wk[w].ky \in Objects
  <2>1. kan[k] \in Objects /\ kwatch[k] \in Seq(Objects) /\ kc[k] \in Objects
    BY TypeParts DEF KanariesTyped, CachesTyped
  <2>2. kan'[k] \in Objects
    BY TypePartsNext DEF KanariesTyped
  <2>3. \A i \in DOMAIN kwatch[k] : kwatch[k][i] \in Objects
    BY <2>1
  <2>4. ASSUME NEW w \in Workers, wk[w].key = k PROVE wk[w].ky \in Objects
    <3>1. wk[w] \in Busy \cup {IdleWorker} /\ IdleWorker.ky = None
      BY TypeParts DEF WorkersTyped, IdleWorker
    <3> QED
      BY <3>1 DEF Busy, Objects
  <2> QED
    BY <2>1, <2>2, <2>3, <2>4
<1>3. /\ CopyOf(kan'[k], kan'[k], LastUid')
      /\ \A o \in Objects :
            CopyOf(o, kan[k], LastUid) => CopyOf(o, kan'[k], LastUid')
  <2>1. CopyOf(kan[k], kan[k], LastUid)
    BY DEF Copies
  <2>2. Evolves(kan[k], kan'[k], LastUid, LastUid')
    BY DEF Tracks
  <2> QED
    BY <1>1, <1>2, <2>1, <2>2, CopyLater
<1>4. /\ CopyOf(kc[k], kan'[k], LastUid')
      /\ \A i \in DOMAIN kwatch[k] : CopyOf(kwatch[k][i], kan'[k], LastUid')
      /\ \A w \in Workers :
            wk[w].key = k => CopyOf(wk[w].ky, kan'[k], LastUid')
  BY <1>2, <1>3 DEF Copies
<1>5. CopyOf(kc'[k], kan'[k], LastUid')
  BY <1>3, <1>4 DEF Tracks
<1>6. \A i \in DOMAIN kwatch'[k] : CopyOf(kwatch'[k][i], kan'[k], LastUid')
  BY <1>3, <1>4 DEF Tracks
<1>7. \A w \in Workers :
         wk'[w].key = k => CopyOf(wk'[w].ky, kan'[k], LastUid')
  BY <1>3, <1>4 DEF Tracks
<1> QED
  BY <1>3, <1>5, <1>6, <1>7

\* Spending anything but "create" gives no new identity.
LEMMA SpendLast ==
    ASSUME TypeOK
    PROVE  /\ \A what \in DOMAIN budget \ {"create"} :
                Spend(what) => LastUid' = LastUid
           /\ Spend("create") => LastUid' = LastUid + 1
           /\ UNCHANGED budget => LastUid' = LastUid
<1>1. budget \in Budget /\ Limits.create \in Nat
  BY TypeParts, ControllerAssumption DEF BudgetTyped, Budget
<1>2. \A what \in DOMAIN budget \ {"create"} : Spend(what) => LastUid' = LastUid
  BY <1>1 DEF Spend, LastUid, Budget
<1>3. Spend("create") => LastUid' = LastUid + 1
  BY <1>1 DEF Spend, LastUid, Budget
<1> QED
  BY <1>2, <1>3 DEF LastUid

\* A step that leaves the Kanaries, their events, the cache and the workers.
LEMMA IdleTracks ==
    ASSUME TypeOK, UNCHANGED <<kan, kwatch, kc, wk>>, LastUid' = LastUid
    PROVE  Tracks
BY LastUidType DEF Tracks, Evolves

\* A write of one Kanary.
LEMMA PutTracks ==
    ASSUME TypeOK, NEW k \in Kanaries, NEW o \in Objects, PutKanary(k, o),
           UNCHANGED <<kc, wk>>, LastUid =< LastUid',
           Evolves(kan[k], o, LastUid, LastUid')
    PROVE  Tracks
<1>1. /\ kan \in [Kanaries -> Objects] /\ kwatch \in [Kanaries -> Seq(Objects)]
  BY TypeParts DEF KanariesTyped
<1>2. \A j \in Kanaries : kan'[j] = IF j = k THEN o ELSE kan[j]
  BY <1>1 DEF PutKanary
<1>3. \A j \in Kanaries : kwatch'[j] = IF j = k THEN Append(kwatch[k], o) ELSE kwatch[j]
  BY <1>1 DEF PutKanary
<1>4. \A i \in DOMAIN kwatch'[k] :
        kwatch'[k][i] = o \/ \E j \in DOMAIN kwatch[k] : kwatch'[k][i] = kwatch[k][j]
  <2>1. kwatch'[k] = Append(kwatch[k], o) /\ kwatch[k] \in Seq(Objects)
    BY <1>1, <1>3
  <2> QED
    BY <2>1
<1>5. \A j \in Kanaries : Evolves(kan[j], kan'[j], LastUid, LastUid')
  BY <1>2 DEF Evolves
<1> QED
  BY <1>2, <1>3, <1>4, <1>5 DEF Tracks

\* One call of syncKanary.
LEMMA SyncTracks ==
    ASSUME TypeOK, NEW w \in Workers, SyncStep(w) \/ Refuse(w)
    PROVE  Tracks
<1>1. /\ wk[w].pc \in Calls /\ Moves(w) /\ Writes(w)
      /\ UNCHANGED kc /\ LastUid' = LastUid
  BY StepEffect DEF LastUid
<1>2. wk[w].key \in Kanaries /\ wk[w].ky \in KanaryObjects
  BY <1>1, BusyWorker
<1>3. /\ kan \in [Kanaries -> Objects] /\ kwatch \in [Kanaries -> Seq(Objects)]
      /\ LastUid \in Int
  BY TypeParts, LastUidType DEF KanariesTyped
<1>4. ASSUME NEW k \in Kanaries
      PROVE  /\ Evolves(kan[k], kan'[k], LastUid, LastUid')
             /\ \A i \in DOMAIN kwatch'[k] :
                   \/ kwatch'[k][i] = kan'[k]
                   \/ \E j \in DOMAIN kwatch[k] : kwatch'[k][i] = kwatch[k][j]
  <2>1. CASE UNCHANGED <<kan, kwatch>>
    BY <2>1 DEF Evolves
  <2>2. ASSUME NEW new \in KanaryObjects, IsCurrent(wk[w].key, wk[w].ky),
               Succeeds(wk[w].ky, new), PutKanary(wk[w].key, new)
        PROVE  /\ Evolves(kan[k], kan'[k], LastUid, LastUid')
               /\ \A i \in DOMAIN kwatch'[k] :
                     \/ kwatch'[k][i] = kan'[k]
                     \/ \E j \in DOMAIN kwatch[k] : kwatch'[k][i] = kwatch[k][j]
    <3>1. CASE k # wk[w].key
      BY <1>3, <2>2, <3>1 DEF PutKanary, Evolves
    <3>2. CASE k = wk[w].key
      <4>1. kan'[k] = new /\ kwatch'[k] = Append(kwatch[k], new)
        BY <1>3, <2>2, <3>2 DEF PutKanary
      <4>2. Evolves(kan[k], kan'[k], LastUid, LastUid')
        BY <2>2, <3>2, <4>1 DEF IsCurrent, Succeeds, Evolves
      <4>3. kwatch[k] \in Seq(Objects)
        BY <1>3
      <4> QED
        BY <4>1, <4>2, <4>3
    <3> QED
      BY <3>1, <3>2
  <2> QED
    BY <1>1, <2>1, <2>2 DEF Writes
<1>5. ASSUME NEW k \in Kanaries, NEW v \in Workers, wk'[v].key = k
      PROVE  wk'[v].ky = kan'[k] \/ (wk[v].key = k /\ wk'[v].ky = wk[v].ky)
  <2>1. PICK n : wk' = [wk EXCEPT ![w] = n] /\ GoesOn(w, n)
    BY <1>1 DEF Moves
  <2>2. wk'[v] = IF v = w THEN n ELSE wk[v]
    BY <2>1, TypeParts DEF WorkersTyped
  <2>3. IdleWorker.key \notin Kanaries
    BY ControllerAssumption DEF IdleWorker
  <2> QED
    BY <1>5, <2>1, <2>2, <2>3 DEF GoesOn
<1> QED
  BY <1>1, <1>3, <1>4, <1>5 DEF Tracks

\* The first step of a turn: the worker takes its copy from the cache.
LEMMA StartTracks ==
    ASSUME TypeOK, NEW w \in Workers, NEW k \in Kanaries, StartSync(w, k)
    PROVE  Tracks
<1>1. PICK n : /\ wk' = [wk EXCEPT ![w] = n]
               /\ n = IdleWorker \/ (n.key = k /\ n.ky = kc[k])
  BY StartWorker
<1>2. \A v \in Workers : wk'[v] = IF v = w THEN n ELSE wk[v]
  BY <1>1, TypeParts DEF WorkersTyped
<1>3. IdleWorker.key \notin Kanaries
  BY ControllerAssumption DEF IdleWorker
<1>4. UNCHANGED <<kan, kwatch, kc, budget>>
  BY DEF StartSync, api, informers
<1> QED
  BY <1>1, <1>2, <1>3, <1>4, LastUidType DEF Tracks, Evolves, LastUid

\* A process that starts copies what is stored.
LEMMA ProcessStartTracks ==
    ASSUME TypeOK, ProcessStart, UNCHANGED api, LastUid' = LastUid
    PROVE  Tracks
<1>1. IdleWorker.key \notin Kanaries
  BY ControllerAssumption DEF IdleWorker
<1>2. UNCHANGED kan
  BY DEF api
<1> QED
  BY <1>1, <1>2, LastUidType DEF ProcessStart, Tracks, Evolves

\* Users: a new Kanary gets a new identity, an edit a new version.
LEMMA UserTracks ==
    ASSUME TypeOK, NEW k \in Kanaries,
           CreateKanary(k) \/ EditKanary(k) \/ DeleteKanary(k)
    PROVE  Tracks
<1>b. /\ {"create", "edit", "delete"} \subseteq DOMAIN budget
      /\ kan \in [Kanaries -> Objects] /\ LastUid \in Int
  BY TypeParts, LastUidType DEF BudgetTyped, Budget, KanariesTyped
<1>1. CASE CreateKanary(k)
  <2>1. PICK spec \in Specs :
          PutKanary(k, NewKanary(Limits.create - budget.create + 1, spec))
    BY <1>1 DEF CreateKanary
  <2>2. LastUid' = LastUid + 1
    BY <1>1, SpendLast DEF CreateKanary
  <2>3. NewKanary(LastUid + 1, spec) \in Objects
    <3>1. LastUid + 1 \in Nat
      BY ControllerAssumption, TypeParts DEF LastUid, BudgetTyped, Budget
    <3>2. <<>> \in Statuses
      BY DEF Statuses
    <3> HIDE DEF LastUid
    <3> QED
      BY <3>1, <3>2 DEF NewKanary, Objects, KanaryObjects
  <2>4. Evolves(kan[k], NewKanary(LastUid + 1, spec), LastUid, LastUid')
    BY <1>b, <2>2 DEF Evolves, NewKanary
  <2>5. UNCHANGED <<kc, wk>> /\ PutKanary(k, NewKanary(LastUid + 1, spec))
        /\ LastUid =< LastUid'
    BY <1>1, <1>b, <2>1, <2>2 DEF CreateKanary, LastUid
  <2> QED
    BY <2>3, <2>4, <2>5, PutTracks
<1>2. CASE EditKanary(k)
  <2>1. PICK spec \in Specs :
          PutKanary(k, NextVersion([kan[k] EXCEPT !.spec = spec]))
    BY <1>2 DEF EditKanary
  <2>2. kan[k] \in KanaryObjects /\ kan[k] # None
    BY <1>b, <1>2 DEF EditKanary, Objects
  <2>3. NextVersion([kan[k] EXCEPT !.spec = spec]) \in Objects
    BY <2>2, NewKanaryType DEF Objects
  <2>4. Evolves(kan[k], NextVersion([kan[k] EXCEPT !.spec = spec]), LastUid, LastUid')
    BY <2>2 DEF Evolves, NextVersion, KanaryObjects
  <2>5. UNCHANGED <<kc, wk>> /\ LastUid' = LastUid
    BY <1>2, <1>b, SpendLast DEF EditKanary
  <2> QED
    BY <1>b, <2>1, <2>3, <2>4, <2>5, PutTracks
<1>3. CASE DeleteKanary(k)
  <2>1. UNCHANGED <<kc, wk>> /\ LastUid' = LastUid
    BY <1>3, <1>b, SpendLast DEF DeleteKanary
  <2> QED
    BY <1>3, <1>b, <2>1, PutTracks DEF DeleteKanary, Evolves, Objects
<1> QED
  BY <1>1, <1>2, <1>3

\* Events and listings.
LEMMA DeliverTracks ==
    ASSUME TypeOK, NEW k \in Kanaries, DeliverKanary(k)
    PROVE  Tracks
<1>1. /\ kwatch \in [Kanaries -> Seq(Objects)] /\ kc \in [Kanaries -> Objects]
      /\ kwatch[k] # <<>> /\ LastUid' = LastUid /\ LastUid \in Int
      /\ UNCHANGED <<kan, wk>>
      /\ kwatch' = [kwatch EXCEPT ![k] = Tail(@)]
      /\ kc' = [kc EXCEPT ![k] = Head(kwatch[k])]
  BY TypeParts, LastUidType
  DEF KanariesTyped, CachesTyped, DeliverKanary, api, LastUid
<1>2. /\ Head(kwatch[k]) = kwatch[k][1] /\ 1 \in DOMAIN kwatch[k]
      /\ \A i \in DOMAIN Tail(kwatch[k]) :
           /\ i + 1 \in DOMAIN kwatch[k]
           /\ Tail(kwatch[k])[i] = kwatch[k][i + 1]
  <2>1. kwatch[k] \in Seq(Objects) /\ kwatch[k] # <<>>
    BY <1>1
  <2> QED
    BY <2>1
<1>3. \A j \in Kanaries : /\ kwatch'[j] = IF j = k THEN Tail(kwatch[k]) ELSE kwatch[j]
                          /\ kc'[j] = IF j = k THEN Head(kwatch[k]) ELSE kc[j]
  BY <1>1
<1> QED
  BY <1>1, <1>2, <1>3 DEF Tracks, Evolves

\* So does a watch that lists again.
LEMMA RelistTracks ==
    ASSUME TypeOK, RelistKanaries \/ RelistEndpoints
    PROVE  Tracks
<1>1. LastUid' = LastUid
  <2>1. "relist" \in DOMAIN budget
    BY TypeParts DEF BudgetTyped, Budget
  <2> QED
    BY <2>1, SpendLast DEF RelistKanaries, RelistEndpoints
<1>2. CASE Panic
  BY <1>1, <1>2, ProcessStartTracks DEF Panic
<1>3. CASE RelistKanaries /\ ~Panic
  <2>1. /\ kc' = kan /\ kwatch' = [k \in Kanaries |-> <<>>]
        /\ UNCHANGED <<kan, wk>>
    BY <1>3 DEF RelistKanaries, api
  <2> QED
    BY <1>1, <2>1, LastUidType DEF Tracks, Evolves
<1>4. CASE RelistEndpoints
  BY <1>1, <1>4, IdleTracks DEF RelistEndpoints, api
<1> QED
  BY <1>2, <1>3, <1>4

\* Every step evolves the objects, and no copy comes from nowhere.
LEMMA TracksStep == TypeOK /\ [Next]_vars => Tracks
<1> SUFFICES ASSUME TypeOK, [Next]_vars PROVE Tracks
  OBVIOUS
<1>b. {"restart", "change", "fault"} \subseteq DOMAIN budget \ {"create"}
  BY TypeParts DEF BudgetTyped, Budget
<1>1. ASSUME NEW k \in Kanaries,
             \/ CreateKanary(k) \/ EditKanary(k) \/ DeleteKanary(k)
             \/ DeliverKanary(k) \/ Resync(k) \/ CollectGarbage(k)
      PROVE  Tracks
  BY <1>1, UserTracks, DeliverTracks, IdleTracks
  DEF Resync, CollectGarbage, api, informers, LastUid
<1>2. ASSUME NEW s \in Services, ChangeEndpoints(s) \/ DeliverEndpoints(s)
                                   \/ DeleteKyRefInEp(s)
      PROVE  Tracks
  <2>1. LastUid' = LastUid
    <3>1. Spend("change") \/ Spend("fault") => LastUid' = LastUid
      BY <1>b, SpendLast
    <3> QED
      BY <1>2, <3>1 DEF ChangeEndpoints, DeliverEndpoints, DeleteKyRefInEp, LastUid
  <2> QED
    BY <1>2, <2>1, IdleTracks
    DEF ChangeEndpoints, DeliverEndpoints, DeleteKyRefInEp, api
<1>3. ASSUME NEW s \in Services, DeletionPanics(s) PROVE Tracks
  BY <1>3, ProcessStartTracks DEF DeletionPanics, Panic, LastUid
<1>4. CASE EndDeletion
  <2>1. LastUid' = LastUid
    BY <1>4, <1>b, SpendLast DEF EndDeletion
  <2> QED
    BY <1>4, <2>1, IdleTracks DEF EndDeletion, api, informers
<1>5. CASE Restart
  <2>1. LastUid' = LastUid
    BY <1>5, <1>b, SpendLast DEF Restart
  <2> QED
    BY <1>5, <2>1, ProcessStartTracks DEF Restart
<1>6. CASE UNCHANGED vars
  BY <1>6, IdleTracks DEF vars, api, informers, LastUid
<1> QED
  BY <1>1, <1>2, <1>3, <1>4, <1>5, <1>6, RelistTracks, SyncTracks, StartTracks
  DEF Next, Environment, DeletionStep

\* Spec => []Copies: a copy with the stored version is the stored object
\* (the optimistic locking of every status write).
LEMMA CopiesInvariant == Spec => []Copies
<1>1. Init => Copies
  <2> SUFFICES ASSUME Init PROVE Copies
    OBVIOUS
  <2>1. /\ kan = [k \in Kanaries |-> None] /\ kc = kan
        /\ kwatch = [k \in Kanaries |-> <<>>]
        /\ wk = [w \in Workers |-> IdleWorker]
    BY DEF Init
  <2>2. \A stored, last : CopyOf(None, stored, last)
    BY DEF CopyOf
  <2> QED
    BY <2>1, <2>2 DEF Copies, IdleWorker
<1>2. TypeOK /\ Copies /\ [Next]_vars => Copies'
  BY TypeStep, TracksStep, CopiesStep
<1> QED
  BY <1>1, <1>2, TypeCorrect, PTL DEF Spec

\* Every write of a Kanary by a worker is the next version of the very object
\* that is stored; every other write is a user's.
LEMMA WritesSucceed ==
    ASSUME TypeOK, Copies, [Next]_vars, NEW k \in Kanaries, SameKanary(k)
    PROVE  \/ kan'[k] = kan[k]
           \/ Succeeds(kan[k], kan'[k])
           \/ EditKanary(k)
<1>t. kan \in [Kanaries -> Objects]
  BY TypeParts DEF KanariesTyped
<1>1. CASE UNCHANGED kan
  BY <1>1
<1>2. ASSUME NEW j \in Kanaries, CreateKanary(j) \/ DeleteKanary(j)
      PROVE  kan'[k] = kan[k]
  <2>1. kan[j] = None \/ kan'[j] = None
    BY <1>2, <1>t DEF CreateKanary, DeleteKanary, PutKanary
  <2>2. j # k
    BY <2>1 DEF SameKanary
  <2> QED
    BY <1>2, <1>t, <2>2 DEF CreateKanary, DeleteKanary, PutKanary
<1>3. ASSUME NEW j \in Kanaries, EditKanary(j)
      PROVE  kan'[k] = kan[k] \/ EditKanary(k)
  BY <1>3, <1>t DEF EditKanary, PutKanary
<1>4. ASSUME NEW w \in Workers, SyncStep(w) \/ Refuse(w)
      PROVE  kan'[k] = kan[k] \/ Succeeds(kan[k], kan'[k])
  <2>1. wk[w].pc \in Calls /\ Writes(w)
    BY <1>4, StepEffect
  <2>2. wk[w].key \in Kanaries /\ wk[w].ky \in KanaryObjects
    BY <2>1, BusyWorker
  <2>3. ASSUME NEW new \in KanaryObjects, IsCurrent(wk[w].key, wk[w].ky),
               Succeeds(wk[w].ky, new), PutKanary(wk[w].key, new), wk[w].key = k
        PROVE  Succeeds(kan[k], kan'[k])
    <3>1. wk[w].ky # None
      BY <2>2, NoneAssumption
    <3>2. CopyOf(wk[w].ky, kan[k], LastUid)
      BY <2>3 DEF Copies
    <3>3. wk[w].ky = kan[k]
      BY <2>3, <3>1, <3>2 DEF CopyOf, IsCurrent
    <3>4. kan'[k] = new
      BY <1>t, <2>3 DEF PutKanary
    <3> QED
      BY <2>3, <3>3, <3>4
  <2>4. ASSUME NEW new, PutKanary(wk[w].key, new), wk[w].key # k
        PROVE  kan'[k] = kan[k]
    BY <1>t, <2>4 DEF PutKanary
  <2> QED
    BY <2>1, <2>3, <2>4 DEF Writes
<1> QED
  BY <1>1, <1>2, <1>3, <1>4
  DEF Next, Environment, ChangeEndpoints, Restart, RelistKanaries,
      RelistEndpoints, Panic, ProcessStart, DeliverKanary, Resync, CollectGarbage,
      DeliverEndpoints, DeletionStep, EndDeletion, DeleteKyRefInEp,
      DeletionPanics, StartSync, vars, api

\* However stale the copy a worker started from, its whole-object writes
\* (updateStatusConfigMap, updateStatusEndpoint, updateStatusDeployment and
\* updateStatusService, controller.go:435-461) never bring back a specification
\* that was replaced.
THEOREM SpecIsTheUsers == Spec => SpecUntouched
<1>1. TypeOK /\ Copies /\ [Next]_vars
        => [\A k \in Kanaries :
              SameKanary(k) /\ kan'[k].spec # kan[k].spec => EditKanary(k)]_vars
  BY WritesSucceed DEF Succeeds
<1> QED
  BY <1>1, TypeCorrect, CopiesInvariant, PTL DEF Spec, SpecUntouched

\* Nor do they clear a name that was recorded in the status.
THEOREM StatusGrows == Spec => StatusMonotone
<1>1. ASSUME TypeOK, Copies, [Next]_vars
      PROVE  \A k \in Kanaries : SameKanary(k) =>
               /\ kan[k].config => kan'[k].config
               /\ kan[k].proxy => kan'[k].proxy
               /\ kan[k].svc # None => kan'[k].svc # None
  <2> SUFFICES ASSUME NEW k \in Kanaries, SameKanary(k)
               PROVE  /\ kan[k].config => kan'[k].config
                      /\ kan[k].proxy => kan'[k].proxy
                      /\ kan[k].svc # None => kan'[k].svc # None
    OBVIOUS
  <2>1. CASE kan'[k] = kan[k]
    BY <2>1
  <2>2. CASE Succeeds(kan[k], kan'[k])
    BY <2>2 DEF Succeeds
  <2>3. CASE EditKanary(k)
    <3>1. PICK spec \in Specs :
            PutKanary(k, NextVersion([kan[k] EXCEPT !.spec = spec]))
      BY <2>3 DEF EditKanary
    <3>2. kan \in [Kanaries -> Objects] /\ kan[k] \in KanaryObjects
      <4>1. kan \in [Kanaries -> Objects]
        BY <1>1, TypeParts DEF KanariesTyped
      <4>2. kan[k] # None
        BY DEF SameKanary
      <4> QED
        BY <4>1, <4>2 DEF Objects
    <3>3. kan'[k] = NextVersion([kan[k] EXCEPT !.spec = spec])
      BY <3>1, <3>2 DEF PutKanary
    <3> QED
      BY <3>2, <3>3 DEF NextVersion, KanaryObjects
  <2>4. kan'[k] = kan[k] \/ Succeeds(kan[k], kan'[k]) \/ EditKanary(k)
    BY <1>1, WritesSucceed
  <2> QED
    BY <2>1, <2>2, <2>3, <2>4
<1> QED
  BY <1>1, TypeCorrect, CopiesInvariant, PTL DEF Spec, StatusMonotone
=============================================================================
