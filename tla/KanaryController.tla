-------------------------- MODULE KanaryController --------------------------
(***************************************************************************)
(* The controller of pkg/controller/controller.go together with the parts  *)
(* of Kubernetes it talks to, for one namespace.                           *)
(*                                                                         *)
(*   API server      Kanary and Endpoints objects with a resource version  *)
(*                   that every update must match, ConfigMaps, Deployments *)
(*                   and Services, and the garbage collector that removes  *)
(*                   what a deleted Kanary owned.                          *)
(*   informers       the two caches the listers read, each behind the API  *)
(*                   server by a queue of undelivered watch events.        *)
(*   handlers        addKanary, updateKanary, deleteKanary, updateEndpoint.*)
(*   work queue      the set of keys that wait, with the promises of       *)
(*                   KeyQueue taken for granted: a key is held by one      *)
(*                   worker at a time, and a key added while it is held    *)
(*                   waits for the next turn (WorkQueue shows both).       *)
(*   workers         syncKanary, one action for each call to the API       *)
(*                   server.  A call may be refused, or applied with its   *)
(*                   answer lost.                                          *)
(*   process         it may stop at any point and start again; the calls   *)
(*                   already applied stay, everything in memory goes.      *)
(*                                                                         *)
(* Names are abstracted: the ConfigMap and the Deployment of a Kanary are  *)
(* functions of its name in the code, so they are indexed by it here and   *)
(* status.configName and status.proxyName are "set" or not.  Events,       *)
(* logging, labels and the pod template are left out.                      *)
(***************************************************************************)
EXTENDS EndpointStatus, FiniteSets

CONSTANTS
    Kanaries,      \* names of Kanary objects
    Services,      \* names of the backend services, hence of Endpoints
    Workers,       \* the goroutines started by Run
    Specs,         \* the values [dest, routes] a user may write
    SubsetLists,   \* the values Endpoints.subsets may take
    None,          \* an object that does not exist, a name that is empty
    Refused,       \* the calls, by program counter, that may be refused
    Unanswered,    \* the calls that may be applied without an answer
    Calm,          \* TRUE: the cluster changes only between reconciliations
    Limits         \* bounds on the steps of the environment, see Budget

Budget == [create : Nat, edit : Nat, delete : Nat, change : Nat,
           fault : Nat, restart : Nat, relist : Nat]

Calls == {"configMap", "rollout", "statusConfigMap", "statusEndpoint", "ref",
          "deployment", "statusDeployment", "service", "recreateService",
          "statusService"}

Names == {spec.dest : spec \in Specs}

ASSUME ControllerAssumption ==
    /\ None \notin Kanaries
    /\ None \notin Names
    /\ Refused \subseteq Calls
    /\ Unanswered \subseteq Calls
    /\ Calm \in BOOLEAN
    /\ Limits \in Budget
    /\ \A spec \in Specs :
          /\ spec.routes \in Seq(ToSet(spec.routes))
          /\ \A i \in DOMAIN spec.routes : spec.routes[i].service \in Services

VARIABLES
    kan,      \* Kanary objects:   name -> object or None
    ep,       \* Endpoints objects: service -> object
    cm,       \* ConfigMaps:       Kanary name -> object or None
    dep,      \* Deployments:      Kanary name -> object or None
    svc,      \* destination Services: name -> owner or None
    kwatch,   \* undelivered versions of each Kanary
    ewatch,   \* undelivered versions of each Endpoints object
    kc,       \* the cache behind kanaryLister
    ec,       \* the cache behind epLister
    pending,  \* keys in the work queue, delayed ones included
    wk,       \* the state of each worker
    deleted,  \* deletions the handler deleteKanary has not finished
    panicked, \* some step has panicked, which stops the process
    budget    \* what is left of Limits

api == <<kan, ep, cm, dep, svc>>
informers == <<kwatch, ewatch, kc, ec>>
vars == <<api, informers, pending, wk, deleted, panicked, budget>>

-----------------------------------------------------------------------------
(* Objects *)

NewKanary(uid, spec) ==
    [uid |-> uid, rv |-> 1, spec |-> spec,
     config |-> FALSE, proxy |-> FALSE, svc |-> None, eps |-> <<>>]

AbsentEndpoints(rv) ==
    [exists |-> FALSE, rv |-> rv, subsets |-> <<>>,
     annotated |-> FALSE, refs |-> <<>>]

NewEndpoints(l) ==
    [exists |-> TRUE, rv |-> 1, subsets |-> l,
     annotated |-> FALSE, refs |-> <<>>]

IdleWorker == [pc |-> "idle", key |-> None, ky |-> None, exp |-> <<>>, i |-> 1]

\* Every write to a watched object becomes an event of its informer.
PutKanary(k, o) ==
    /\ kan' = [kan EXCEPT ![k] = o]
    /\ kwatch' = [kwatch EXCEPT ![k] = Append(@, o)]

PutEndpoints(s, e) ==
    /\ ep' = [ep EXCEPT ![s] = e]
    /\ ewatch' = [ewatch EXCEPT ![s] = Append(@, e)]

\* Optimistic locking: an update of a Kanary, or of an Endpoints object as
\* cached, is accepted only for the version that is stored.
IsCurrentUnlocked(k, o) == kan[k] # None /\ kan[k].uid = o.uid
IsCurrent(k, o) == kan[k] # None /\ kan[k].uid = o.uid /\ kan[k].rv = o.rv

CacheIsCurrentUnlocked(s) == ec[s].exists /\ ep[s].exists
CacheIsCurrent(s) == ec[s].exists /\ ep[s].exists /\ ep[s].rv = ec[s].rv

Spend(what) == budget[what] > 0 /\ budget' = [budget EXCEPT ![what] = @ - 1]

Owned(object, k) == object # None /\ kan[k] # None /\ object.uid = kan[k].uid

Init ==
    /\ kan = [k \in Kanaries |-> None]
    /\ ep \in [Services ->
                 {AbsentEndpoints(0)} \cup {NewEndpoints(l) : l \in SubsetLists}]
    /\ cm = [k \in Kanaries |-> None]
    /\ dep = [k \in Kanaries |-> None]
    /\ svc = [n \in Names |-> None]
    /\ kwatch = [k \in Kanaries |-> <<>>]
    /\ ewatch = [s \in Services |-> <<>>]
    /\ kc = kan
    /\ ec = ep
    /\ pending = {}
    /\ wk = [w \in Workers |-> IdleWorker]
    /\ deleted = <<>>
    /\ panicked = FALSE
    /\ budget = Limits

-----------------------------------------------------------------------------
(* Process, informers and event handlers *)

\* A new process lists every object and gets an "add" for each Kanary.
ProcessStart ==
    /\ kc' = kan
    /\ ec' = ep
    /\ kwatch' = [k \in Kanaries |-> <<>>]
    /\ ewatch' = [s \in Services |-> <<>>]
    /\ pending' = {k \in Kanaries : kan[k] # None}
    /\ wk' = [w \in Workers |-> IdleWorker]
    /\ deleted' = <<>>

\* SIGTERM, a crash or an eviction.  Run does not wait for its workers, so
\* the workers may be anywhere.
Restart ==
    /\ ProcessStart
    /\ Spend("restart")
    /\ UNCHANGED <<api, panicked>>

\* HandleCrash panics again: the process ends and its container restarts.
Panic ==
    /\ ProcessStart
    /\ panicked' = TRUE
    /\ UNCHANGED api

\* addKanary and updateKanary enqueue the key; a deletion is given to the
\* handler deleteKanary, with the last state of the object.
DeliverKanary(k) ==
    /\ kwatch[k] # <<>>
    /\ kwatch' = [kwatch EXCEPT ![k] = Tail(@)]
    /\ kc' = [kc EXCEPT ![k] = Head(kwatch[k])]
    /\ IF Head(kwatch[k]) # None
       THEN pending' = pending \cup {k} /\ UNCHANGED deleted
       ELSE /\ deleted' = Append(deleted, [name |-> k, ky |-> kc[k], i |-> 1])
            /\ UNCHANGED pending
    /\ UNCHANGED <<api, ewatch, ec, wk, panicked, budget>>

\* Every 30 seconds the informer hands each cached Kanary to updateKanary.
\* (The resync of Endpoints enqueues a subset of the same keys.)
Resync(k) ==
    /\ kc[k] # None
    /\ pending' = pending \cup {k}
    /\ UNCHANGED <<api, informers, wk, deleted, panicked, budget>>

\* The watch of Kanaries broke and the informer lists again.  An object that
\* has gone meanwhile reaches deleteKanary as a DeletedFinalStateUnknown, on
\* which its type assertion panics.
RelistKanaries ==
    /\ Spend("relist")
    /\ IF \E k \in Kanaries : kc[k] # None /\ kan[k] = None
       THEN Panic
       ELSE /\ kc' = kan
            /\ kwatch' = [k \in Kanaries |-> <<>>]
            /\ pending' = pending \cup {k \in Kanaries : kan[k] # None}
            /\ UNCHANGED <<api, ewatch, ec, wk, deleted, panicked>>

\* updateEndpoint: the keys in the annotation of the OLD object are enqueued,
\* up to the first one the lister does not know.
EnqueuedBy(refs) ==
    {refs[i] : i \in {j \in DOMAIN refs : \A h \in 1..j : kc[refs[h]] # None}}

updateEndpoint(s, new) ==
    pending' = IF ec[s].exists /\ new.exists
               THEN pending \cup EnqueuedBy(ec[s].refs)
               ELSE pending

DeliverEndpoints(s) ==
    /\ ewatch[s] # <<>>
    /\ ewatch' = [ewatch EXCEPT ![s] = Tail(@)]
    /\ ec' = [ec EXCEPT ![s] = Head(ewatch[s])]
    /\ updateEndpoint(s, Head(ewatch[s]))
    /\ UNCHANGED <<api, kwatch, kc, wk, deleted, panicked, budget>>

\* The watch of Endpoints broke: one call of updateEndpoint for each object
\* stands for all the versions missed.
RelistEndpoints ==
    /\ Spend("relist")
    /\ ec' = ep
    /\ ewatch' = [s \in Services |-> <<>>]
    /\ pending' = pending \cup
          UNION {EnqueuedBy(ec[s].refs) :
                   s \in {t \in Services : ec[t].exists /\ ep[t].exists}}
    /\ UNCHANGED <<api, kwatch, kc, wk, deleted, panicked>>

\* deleteKyRefInEp on the first deletion that waits, one Endpoints object of
\* its status at a time: remove the name from the cached annotation, update.
\* An update whose answer is lost ends the loop like one that is refused.
DeletingFrom(s) ==
    /\ deleted # <<>>
    /\ Head(deleted).i \in DOMAIN Head(deleted).ky.eps
    /\ s = Head(deleted).ky.eps[Head(deleted).i].service

DeleteKyRefInEp(s) ==
    LET d == Head(deleted)
    IN  /\ DeletingFrom(s)
        /\ ec[s].annotated
        /\ Contains(ec[s].refs, d.name)
        /\ CacheIsCurrent(s)
        /\ PutEndpoints(s, [ec[s] EXCEPT !.refs = deleteRef(@, d.name),
                                         !.rv = @ + 1])
        /\ \/ deleted' = [deleted EXCEPT ![1].i = @ + 1] /\ UNCHANGED budget
           \/ /\ "ref" \in Unanswered
              /\ deleted' = Tail(deleted)
              /\ Spend("fault")
        /\ UNCHANGED <<kan, cm, dep, svc, kwatch, kc, ec, pending, wk,
                       panicked>>

\* The loop ends after the last object, or returns its first error: no such
\* object, no annotation to decode, a version conflict, a refused call.
\* Nothing tries again.
EndDeletion ==
    /\ deleted # <<>>
    /\ deleted' = Tail(deleted)
    /\ \/ /\ \/ Head(deleted).i \notin DOMAIN Head(deleted).ky.eps
             \/ \E s \in Services :
                   /\ DeletingFrom(s)
                   /\ \/ ~ec[s].annotated
                      \/ /\ Contains(ec[s].refs, Head(deleted).name)
                         /\ ~CacheIsCurrent(s)
          /\ UNCHANGED budget
       \/ /\ "ref" \in Refused
          /\ \E s \in Services : DeletingFrom(s) /\ ec[s].annotated
                                 /\ Contains(ec[s].refs, Head(deleted).name)
          /\ Spend("fault")
    /\ UNCHANGED <<api, informers, pending, wk, panicked>>

\* An annotation that does not name the Kanary gives the index -1, and the
\* slice kyRef[:-1] panics.
DeletionPanics(s) ==
    /\ DeletingFrom(s)
    /\ ec[s].annotated
    /\ getEltToDeleteIndex(ec[s].refs, Head(deleted).name) = -1
    /\ Panic
    /\ UNCHANGED budget

-----------------------------------------------------------------------------
(* syncKanary *)

At(r, p) == [r EXCEPT !.pc = p]

Return(w) == wk' = [wk EXCEPT ![w] = IdleWorker] /\ UNCHANGED budget

\* A call has been applied: the worker goes on as r, or never gets the
\* answer and returns.
Answer(w, r) ==
    \/ wk' = [wk EXCEPT ![w] = r] /\ UNCHANGED budget
    \/ /\ wk[w].pc \in Unanswered
       /\ wk' = [wk EXCEPT ![w] = IdleWorker]
       /\ Spend("fault")

\* The remaining steps of syncKanary, each skipped when there is nothing to do.
ToServiceOnce(r) == IF r.ky.svc # None THEN IdleWorker ELSE At(r, "service")
ToService(r) ==
    IF r.ky.spec.dest = r.ky.svc THEN IdleWorker ELSE At(r, "service")
HAProxyCreationDone(o) == o.proxy
HAProxyCreationNeeded(o) == ~o.proxy
ToDeployment(r) ==
    IF HAProxyCreationNeeded(r.ky) THEN At(r, "deployment") ELSE ToService(r)
ToRefs(r) ==
    IF r.i \in DOMAIN r.ky.eps THEN At(r, "ref") ELSE ToDeployment(r)

\* Get: a key that waits and is not being processed.
Available(k) == k \in pending /\ \A v \in Workers : wk[v].key # k

\* An idle worker gets a key, reads the caches and compares.
\* A Kanary that has gone or cannot be resolved ends the turn.
StartSync(w, k) ==
    LET o == kc[k]
        expected == buildExpectedEndpointStatus(o.spec.routes, ec)
        r == [pc |-> "configMap", key |-> k, ky |-> o, exp |-> expected, i |-> 1]
    IN  /\ wk[w] = IdleWorker
        /\ Available(k)
        /\ pending' = pending \ {k}
        /\ wk' = [wk EXCEPT ![w] =
                    IF o = None \/ ~Buildable(o.spec.routes, ec) THEN IdleWorker
                    ELSE IF deepEqualEndpointStatusList(expected, o.eps)
                         THEN ToDeployment(r)
                         ELSE r]
        /\ UNCHANGED <<api, informers, deleted, panicked, budget>>

newConfigMap(r) == [uid |-> r.ky.uid, servers |-> newHAProxyController(r.exp)]

CreateConfigMapOrKeep(w) ==
    LET r == wk[w]
    IN  /\ r.pc = "configMap" /\ ~r.ky.config
        /\ cm' = IF cm[r.key] = None
                 THEN [cm EXCEPT ![r.key] = newConfigMap(r)] ELSE cm
        /\ Answer(w, At(r, "statusConfigMap"))
        /\ UNCHANGED <<kan, ep, dep, svc, informers, pending, deleted, panicked>>

\* status.configName is empty: create; it must not exist.
CreateConfigMap(w) ==
    LET r == wk[w]
    IN  /\ r.pc = "configMap" /\ ~r.ky.config
        /\ IF cm[r.key] = None
           THEN /\ cm' = [cm EXCEPT ![r.key] = newConfigMap(r)]
                /\ Answer(w, At(r, "statusConfigMap"))
           ELSE Return(w) /\ UNCHANGED cm
        /\ UNCHANGED <<kan, ep, dep, svc, informers, pending, deleted, panicked>>

UpdateConfigMapUnrolled(w) ==
    LET r == wk[w]
    IN  /\ r.pc = "configMap" /\ r.ky.config
        /\ IF cm[r.key] # None
           THEN /\ cm' = [cm EXCEPT ![r.key] = newConfigMap(r)]
                /\ Answer(w, At(r, "statusConfigMap"))
           ELSE Return(w) /\ UNCHANGED cm
        /\ UNCHANGED <<kan, ep, dep, svc, informers, pending, deleted, panicked>>

\* Otherwise replace it, whatever its version; it must exist.
UpdateConfigMap(w) ==
    LET r == wk[w]
    IN  /\ r.pc = "configMap" /\ r.ky.config
        /\ IF cm[r.key] # None
           THEN /\ cm' = [cm EXCEPT ![r.key] = newConfigMap(r)]
                /\ Answer(w, At(r, "rollout"))
           ELSE Return(w) /\ UNCHANGED cm
        /\ UNCHANGED <<kan, ep, dep, svc, informers, pending, deleted, panicked>>

\* The servers a pod started now is configured with.
Mounted(k) == IF cm[k] = None THEN None ELSE cm[k].servers

\* A new pod template revision; the pods that replace the old ones read the
\* ConfigMap anew.  Get with an empty status.proxyName is an error.
performRollingUpdate(w) ==
    LET r == wk[w]
    IN  /\ r.pc = "rollout"
        /\ IF r.ky.proxy /\ dep[r.key] # None
           THEN /\ dep' = [dep EXCEPT ![r.key].rolled = Mounted(r.key)]
                /\ Answer(w, At(r, "statusConfigMap"))
           ELSE Return(w) /\ UNCHANGED dep
        /\ UNCHANGED <<kan, ep, cm, svc, informers, pending, deleted, panicked>>

NextVersion(o) == [o EXCEPT !.rv = @ + 1]

\* The worker after a write of new: it holds what the server returned.
\* Writing what is already there keeps the version.
Stored(r, new) ==
    [r EXCEPT !.ky = IF new = r.ky THEN new ELSE NextVersion(new)]

\* The updateStatus functions: write the whole Kanary as this worker
\* last saw it with one field of the status set, and go on as next; a conflict
\* ends the turn.
UpdateStatus(w, new, next) ==
    LET r == wk[w]
    IN  IF IsCurrent(r.key, r.ky)
        THEN /\ IF new = r.ky THEN UNCHANGED <<kan, kwatch>>
                              ELSE PutKanary(r.key, NextVersion(new))
             /\ Answer(w, next)
        ELSE Return(w) /\ UNCHANGED <<kan, kwatch>>

updateStatusConfigMap(w) ==
    LET new == [wk[w].ky EXCEPT !.config = TRUE]
    IN  /\ wk[w].pc = "statusConfigMap"
        /\ UpdateStatus(w, new, At(Stored(wk[w], new), "statusEndpoint"))
        /\ UNCHANGED <<ep, cm, dep, svc, ewatch, kc, ec, pending, deleted,
                       panicked>>

updateStatusEndpointForced(w) ==
    LET k == wk[w].key
    IN  /\ wk[w].pc = "statusEndpoint" /\ kan[k] # None
        /\ PutKanary(k, NextVersion([kan[k] EXCEPT !.eps = wk[w].exp]))
        /\ Answer(w, ToRefs([wk[w] EXCEPT !.ky = kan'[k]]))
        /\ UNCHANGED <<ep, cm, dep, svc, ewatch, kc, ec, pending, deleted,
                       panicked>>

updateStatusEndpoint(w) ==
    LET new == [wk[w].ky EXCEPT !.eps = wk[w].exp]
    IN  /\ wk[w].pc = "statusEndpoint"
        /\ UpdateStatus(w, new, ToRefs(Stored(wk[w], new)))
        /\ UNCHANGED <<ep, cm, dep, svc, ewatch, kc, ec, pending, deleted,
                       panicked>>

\* Add the Kanary to the annotation of one Endpoints object, as cached.
AddKanaryRef(w) ==
    LET r    == wk[w]
        s    == r.ky.eps[r.i].service
        refs == addKanaryRefInEp(ec[s].refs, r.key)
    IN  /\ r.pc = "ref"
        /\ IF CacheIsCurrent(s)
           THEN /\ IF refs = ec[s].refs THEN UNCHANGED <<ep, ewatch>>
                   ELSE PutEndpoints(s, [ec[s] EXCEPT !.refs = refs,
                                           !.annotated = TRUE, !.rv = @ + 1])
                /\ Answer(w, ToRefs([r EXCEPT !.i = @ + 1]))
           ELSE Return(w) /\ UNCHANGED <<ep, ewatch>>
        /\ UNCHANGED <<kan, cm, dep, svc, kwatch, kc, ec, pending, deleted,
                       panicked>>

newDeployementHA(r) == [uid |-> r.ky.uid, rolled |-> Mounted(r.key)]

CreateDeploymentOrKeep(w) ==
    LET r == wk[w]
    IN  /\ r.pc = "deployment" /\ r.ky.config
        /\ dep' = IF dep[r.key] = None
                  THEN [dep EXCEPT ![r.key] = newDeployementHA(r)] ELSE dep
        /\ Answer(w, At(r, "statusDeployment"))
        /\ UNCHANGED <<kan, ep, cm, svc, informers, pending, deleted, panicked>>

\* The API server refuses a pod template that mounts a ConfigMap with no name.
CreateDeployment(w) ==
    LET r == wk[w]
    IN  /\ r.pc = "deployment"
        /\ IF dep[r.key] = None /\ r.ky.config
           THEN /\ dep' = [dep EXCEPT ![r.key] = newDeployementHA(r)]
                /\ Answer(w, At(r, "statusDeployment"))
           ELSE Return(w) /\ UNCHANGED dep
        /\ UNCHANGED <<kan, ep, cm, svc, informers, pending, deleted, panicked>>

updateStatusDeployment(w) ==
    LET new == [wk[w].ky EXCEPT !.proxy = TRUE]
    IN  /\ wk[w].pc = "statusDeployment"
        /\ UpdateStatus(w, new, ToService(Stored(wk[w], new)))
        /\ UNCHANGED <<ep, cm, dep, svc, ewatch, kc, ec, pending, deleted,
                       panicked>>

newService(r) == [owner |-> r.key, uid |-> r.ky.uid]

\* status.serviceName is empty, or the old Service has just been deleted.
CreateService(w) ==
    LET r == wk[w]
    IN  /\ \/ r.pc = "service" /\ r.ky.svc = None
           \/ r.pc = "recreateService"
        /\ IF svc[r.ky.spec.dest] = None
           THEN /\ svc' = [svc EXCEPT ![r.ky.spec.dest] = newService(r)]
                /\ Answer(w, At(r, "statusService"))
           ELSE Return(w) /\ UNCHANGED svc
        /\ UNCHANGED <<kan, ep, cm, dep, informers, pending, deleted, panicked>>

\* The destination has another name now: delete the Service of the old name,
\* whoever owns it.
DeleteService(w) ==
    LET r == wk[w]
    IN  /\ r.pc = "service" /\ r.ky.svc # None
        /\ IF svc[r.ky.svc] # None
           THEN /\ svc' = [svc EXCEPT ![r.ky.svc] = None]
                /\ Answer(w, At(r, "recreateService"))
           ELSE Return(w) /\ UNCHANGED svc
        /\ UNCHANGED <<kan, ep, cm, dep, informers, pending, deleted, panicked>>

\* handleErr: the key is added again unless it was already retried maxRetries
\* times.  This is the only step whose error syncKanary returns.
handleErr(w) ==
    /\ wk' = [wk EXCEPT ![w] = IdleWorker]
    /\ pending' \in {pending, pending \cup {wk[w].key}}

updateStatusServiceOwner(w) ==
    LET r == wk[w]
    IN  /\ r.pc = "statusService"
        /\ IsCurrent(r.key, r.ky)
        /\ PutKanary(r.key, NextVersion([r.ky EXCEPT !.svc = r.key]))
        /\ Return(w)
        /\ UNCHANGED <<ep, cm, dep, svc, ewatch, kc, ec, pending, deleted,
                       panicked>>

\* As UpdateStatus, but a conflict or a lost answer is an error returned.
updateStatusService(w) ==
    LET r == wk[w]
    IN  /\ r.pc = "statusService"
        /\ \/ /\ IsCurrent(r.key, r.ky)
              /\ PutKanary(r.key,
                           NextVersion([r.ky EXCEPT !.svc = r.ky.spec.dest]))
              /\ \/ Return(w) /\ UNCHANGED pending
                 \/ "statusService" \in Unanswered /\ handleErr(w) /\ Spend("fault")
           \/ /\ ~IsCurrent(r.key, r.ky)
              /\ handleErr(w)
              /\ UNCHANGED <<kan, kwatch, budget>>
        /\ UNCHANGED <<ep, cm, dep, svc, ewatch, kc, ec, deleted, panicked>>

\* The call the worker is about to make is refused.
Refuse(w) ==
    /\ wk[w].pc \in Refused
    /\ Spend("fault")
    /\ IF wk[w].pc = "statusService" THEN handleErr(w)
       ELSE wk' = [wk EXCEPT ![w] = IdleWorker] /\ UNCHANGED pending
    /\ UNCHANGED <<api, informers, deleted, panicked>>

SyncStep(w) ==
    \/ CreateConfigMap(w) \/ UpdateConfigMap(w) \/ performRollingUpdate(w)
    \/ updateStatusConfigMap(w) \/ updateStatusEndpoint(w) \/ AddKanaryRef(w)
    \/ CreateDeployment(w) \/ updateStatusDeployment(w)
    \/ CreateService(w) \/ DeleteService(w) \/ updateStatusService(w)

-----------------------------------------------------------------------------
(* Users and Kubernetes *)

\* What the Kanary asks for is in place, up to what the comparison of
\* syncKanary lets stand: a pod that has gone may still be recorded.
Converged(k) ==
    LET o == kan[k]
        expected == buildExpectedEndpointStatus(o.spec.routes, ep)
    IN  /\ deepEqualEndpointStatusList(expected, o.eps)
        /\ o.proxy
        /\ o.svc = o.spec.dest
        /\ Owned(cm[k], k) /\ cm[k].servers = newHAProxyController(o.eps)
        /\ Owned(dep[k], k) /\ dep[k].rolled = cm[k].servers
        /\ Owned(svc[o.spec.dest], k) /\ svc[o.spec.dest].owner = k

\* A Kanary the controller has to provision: its routes can be resolved.
Served(k) ==
    /\ kan[k] # None
    /\ kan[k].spec.routes # <<>>
    /\ Buildable(kan[k].spec.routes, ep)

\* Nothing is under way.
AtRest ==
    /\ pending = {}
    /\ deleted = <<>>
    /\ \A w \in Workers : wk[w] = IdleWorker
    /\ \A k \in Kanaries : kwatch[k] = <<>>
    /\ \A s \in Services : ewatch[s] = <<>>

\* What a deleted Kanary owned has been removed.
NoGarbage ==
    /\ \A k \in Kanaries : /\ cm[k] # None => Owned(cm[k], k)
                          /\ dep[k] # None => Owned(dep[k], k)
    /\ \A n \in Names : svc[n] # None => Owned(svc[n], svc[n].owner)

\* And no Kanary is half provisioned.
Quiet == AtRest /\ NoGarbage /\ \A k \in Kanaries : Served(k) => Converged(k)

CreateKanary(k) ==
    /\ kan[k] = None
    /\ Spend("create")
    /\ \E spec \in Specs :
          PutKanary(k, NewKanary(Limits.create - budget.create + 1, spec))
    /\ UNCHANGED <<ep, cm, dep, svc, ewatch, kc, ec, pending, wk, deleted,
                   panicked>>

EditKanary(k) ==
    /\ kan[k] # None
    /\ Spend("edit")
    /\ \E spec \in Specs \ {kan[k].spec} :
          PutKanary(k, NextVersion([kan[k] EXCEPT !.spec = spec]))
    /\ UNCHANGED <<ep, cm, dep, svc, ewatch, kc, ec, pending, wk, deleted,
                   panicked>>

DeleteKanary(k) ==
    /\ kan[k] # None
    /\ Spend("delete")
    /\ PutKanary(k, None)
    /\ UNCHANGED <<ep, cm, dep, svc, ewatch, kc, ec, pending, wk, deleted,
                   panicked>>

\* The endpoints controller keeps annotations; a Service that goes takes its
\* Endpoints object with it.
ChangeEndpoints(s) ==
    /\ Spend("change")
    /\ \/ \E l \in SubsetLists :
             /\ ~ep[s].exists \/ ep[s].subsets # l
             /\ PutEndpoints(s, NextVersion([ep[s] EXCEPT !.exists = TRUE,
                                                         !.subsets = l]))
       \/ /\ ep[s].exists
          /\ PutEndpoints(s, AbsentEndpoints(ep[s].rv + 1))
    /\ UNCHANGED <<kan, cm, dep, svc, kwatch, kc, ec, pending, wk, deleted,
                   panicked>>

\* The garbage collector removes an object whose owner no longer exists.
CollectGarbage(k) ==
    /\ \/ /\ cm[k] # None /\ ~Owned(cm[k], k)
          /\ cm' = [cm EXCEPT ![k] = None] /\ UNCHANGED <<dep, svc>>
       \/ /\ dep[k] # None /\ ~Owned(dep[k], k)
          /\ dep' = [dep EXCEPT ![k] = None] /\ UNCHANGED <<cm, svc>>
       \/ \E n \in Names :
             /\ svc[n] # None /\ svc[n].owner = k /\ ~Owned(svc[n], k)
             /\ svc' = [svc EXCEPT ![n] = None] /\ UNCHANGED <<cm, dep>>
    /\ UNCHANGED <<kan, ep, informers, pending, wk, deleted, panicked, budget>>

Environment ==
    /\ Calm => Quiet
    /\ \/ \E k \in Kanaries : CreateKanary(k) \/ EditKanary(k) \/ DeleteKanary(k)
       \/ \E s \in Services : ChangeEndpoints(s)

-----------------------------------------------------------------------------

DeletionStep ==
    \/ EndDeletion
    \/ \E s \in Services : DeleteKyRefInEp(s) \/ DeletionPanics(s)

Next ==
    \/ Environment
    \/ Restart \/ RelistKanaries \/ RelistEndpoints
    \/ \E k \in Kanaries : DeliverKanary(k) \/ Resync(k) \/ CollectGarbage(k)
    \/ \E s \in Services : DeliverEndpoints(s)
    \/ DeletionStep
    \/ \E w \in Workers : SyncStep(w) \/ Refuse(w)
    \/ \E w \in Workers, k \in Kanaries : StartSync(w, k)

Spec == Init /\ [][Next]_vars

\* Goroutines run, watch events arrive and the resync timer fires; the work
\* queue is first in first out, so a key that keeps being available is taken.
\* Nothing is assumed of users, of pods or of failures.
Fairness ==
    /\ \A k \in Kanaries : /\ WF_vars(DeliverKanary(k))
                          /\ WF_vars(Resync(k))
                          /\ WF_vars(CollectGarbage(k))
                          /\ SF_vars(\E w \in Workers : StartSync(w, k))
    /\ \A s \in Services : WF_vars(DeliverEndpoints(s))
    /\ WF_vars(DeletionStep)
    /\ \A w \in Workers : WF_vars(SyncStep(w))

FairSpec == Spec /\ Fairness
-----------------------------------------------------------------------------
(* What must hold in every state *)

\* Each variable has its type.  A status and a configuration are always one
\* that a whole build gave, for one specification and one state of the
\* Endpoints: nothing is ever patched in part (controller.go:296-335).
Subsets == SubsetLists \cup {<<>>}

Statuses ==
    {<<>>} \cup UNION {{buildExpectedEndpointStatus(spec.routes, e) :
                           e \in [Services -> [subsets : Subsets]]} :
                         spec \in Specs}

Configs == {newHAProxyController(status) : status \in Statuses}

KanaryObjects ==
    [uid : Nat, rv : Nat, spec : Specs, config : BOOLEAN, proxy : BOOLEAN,
     svc : Names \cup {None}, eps : Statuses]

ConfigMapObjects == [uid : Nat, servers : Configs]

DeploymentObjects == [uid : Nat, rolled : Configs \cup {None}]

\* A missing object is not an object, a missing configuration not an empty one.
ASSUME NoneAssumption ==
    /\ None \notin KanaryObjects
    /\ None \notin ConfigMapObjects
    /\ None \notin DeploymentObjects
    /\ None \notin Configs

EndpointsObjects ==
    [exists : BOOLEAN, rv : Nat, subsets : Subsets, annotated : BOOLEAN,
     refs : Seq(Kanaries)]

Busy == [pc : Calls, key : Kanaries, ky : KanaryObjects, exp : Statuses,
         i : Nat \ {0}]

Deletions ==
    [name : Kanaries, ky : KanaryObjects \cup {None}, i : Nat \ {0}]

TypeOK ==
    /\ kan \in [Kanaries -> KanaryObjects \cup {None}]
    /\ ep \in [Services -> EndpointsObjects]
    /\ cm \in [Kanaries -> ConfigMapObjects \cup {None}]
    /\ dep \in [Kanaries -> DeploymentObjects \cup {None}]
    /\ svc \in [Names -> [owner : Kanaries, uid : Nat] \cup {None}]
    /\ kwatch \in [Kanaries -> Seq(KanaryObjects \cup {None})]
    /\ ewatch \in [Services -> Seq(EndpointsObjects)]
    /\ kc \in [Kanaries -> KanaryObjects \cup {None}]
    /\ ec \in [Services -> EndpointsObjects]
    /\ pending \subseteq Kanaries
    /\ wk \in [Workers -> Busy \cup {IdleWorker}]
    /\ \A w \in Workers :
          wk[w].pc = "ref" => wk[w].i \in DOMAIN wk[w].ky.eps
    /\ deleted \in Seq(Deletions)
    /\ panicked \in BOOLEAN
    /\ budget \in Budget /\ budget.create <= Limits.create

\* What the status of a Kanary names exists and belongs to this very object,
\* never to an earlier Kanary of the same name: the ConfigMap once configName
\* is set (controller.go:304-330), the Deployment once proxyName is set
\* (controller.go:359-369).  Otherwise the create-or-update choice of
\* controller.go:304 goes wrong for good.
StatusBacked ==
    \A k \in Kanaries : kan[k] # None =>
        /\ kan[k].config => Owned(cm[k], k)
        /\ kan[k].proxy => Owned(dep[k], k)

\* No proxy ever starts without a configuration of its own Kanary to mount
\* (controller.go:358-365 after 297-330, newPodTemplate).
DeploymentHasConfig ==
    \A k \in Kanaries : Owned(dep[k], k) =>
        Owned(cm[k], k) /\ dep[k].rolled # None

-----------------------------------------------------------------------------
(* What a step may never do *)

SameKanary(k) == kan[k] # None /\ kan'[k] # None /\ kan'[k].uid = kan[k].uid

\* The whole-object writes of the updateStatus functions (controller.go:
\* 435-461) never undo what was recorded, by this worker, by the worker
\* before it or by a process before it.
StatusMonotone ==
    [][\A k \in Kanaries : SameKanary(k) =>
         /\ kan[k].config => kan'[k].config
         /\ kan[k].proxy => kan'[k].proxy
         /\ kan[k].svc # None => kan'[k].svc # None]_vars

\* Nor do they ever bring back a specification the user has replaced: the
\* worker's copy carries the spec it read before its calls.
SpecUntouched ==
    [][\A k \in Kanaries :
         SameKanary(k) /\ kan'[k].spec # kan[k].spec => EditKanary(k)]_vars

\* The list of backends is recorded only for the routes the Kanary has at
\* that moment, although it was built from a cache, several calls earlier.
RecordedRoutesAreCurrent ==
    [][\A k \in Kanaries : SameKanary(k) /\ kan'[k].eps # kan[k].eps =>
         /\ Len(kan'[k].eps) = Len(kan[k].spec.routes)
         /\ \A i \in DOMAIN kan'[k].eps :
               /\ kan'[k].eps[i].service = kan[k].spec.routes[i].service
               /\ kan'[k].eps[i].weight = kan[k].spec.routes[i].weight]_vars

\* The list is recorded only when the ConfigMap holds the servers of that
\* very list and the pods, where there are any, were replaced after it was
\* written: the record that stops the next reconciliation from writing comes
\* last (controller.go:296-331).
RecordedIsRolledOut ==
    [][\A k \in Kanaries : SameKanary(k) /\ kan'[k].eps # kan[k].eps =>
         /\ cm[k] # None
         /\ cm[k].servers = newHAProxyController(kan'[k].eps)
         /\ kan[k].proxy => dep[k].rolled = cm[k].servers]_vars

\* Adding or removing one Kanary in a "kanaryRef" annotation never drops the
\* name of another, although both are computed from a cached annotation
\* (addKanaryRefInEp and deleteKyRefInEp, controller.go:488-542).
RefsKept ==
    [][\A s \in Services : ep[s].exists /\ ep'[s].exists =>
         \A k \in ToSet(ep[s].refs) \ ToSet(ep'[s].refs) :
             deleted # <<>> /\ Head(deleted).name = k]_vars

-----------------------------------------------------------------------------
(* What the controller implements *)

Recorded(o) ==
    IF o = None THEN None
    ELSE {part \in {"config", "list", "proxy", "service"} :
            \/ part = "config" /\ o.config
            \/ part = "list" /\ o.eps # <<>>
            \/ part = "proxy" /\ o.proxy
            \/ part = "service" /\ o.svc # None}

P == INSTANCE Provisioning WITH recorded <- [k \in Kanaries |-> Recorded(kan[k])]

\* The parts of a status are recorded one at a time, in their order, and never
\* taken back, through conflicts, failed calls, restarts and a second life of
\* the name (syncKanary, controller.go:296-404; for specifications that have
\* routes).  A Kanary whose Service is recorded has a recorded proxy, list and
\* configuration.
ImplementsProvisioning == P!Spec

-----------------------------------------------------------------------------
(* What must happen in the end *)

\* Every Kanary whose routes can be resolved is, in the end and for good,
\* provisioned as it asks (syncKanary, driven by the handlers and the resync).
Converges == <>[](\A k \in Kanaries : Served(k) => Converged(k))

-----------------------------------------------------------------------------
(* What the documentation says and the code does not do *)

\* README.md:53-54, "Manage configuration and update" and "Reference pod
\* endpoint directly": in the end the proxies of a Kanary send traffic to
\* every ready pod of its backends.
EveryPodIsProxied ==
    <>[](\A k \in Kanaries : Served(k) =>
            /\ Owned(dep[k], k)
            /\ \A i \in DOMAIN kan[k].spec.routes :
                 \A pod \in ToSet(AllAddresses(
                                ep[kan[k].spec.routes[i].service].subsets)) :
                     \E server \in ToSet(dep[k].rolled) : server.ip[1] = pod)

\* README.md:44, "HAProxy will be exposed by myapp service, indicated in
\* destination field": in the end it is.
DestinationIsExposed ==
    <>[](\A k \in Kanaries : Served(k) => Owned(svc[kan[k].spec.dest], k))

\* controller.go:337, "Add Kanary owner ref to follow update": when nothing is
\* under way, the Endpoints of every recorded backend name the Kanary.
RefFollowsStatus ==
    AtRest => \A k \in Kanaries : kan[k] # None =>
        \A i \in DOMAIN kan[k].eps :
            LET e == ep[kan[k].eps[i].service]
            IN  e.exists => Contains(e.refs, k)

\* The tools/cache contract of a handler (controller.go of client-go,
\* ResourceEventHandler): "OnDelete will get the final state of the item if
\* it is known, otherwise it will get an object of type
\* DeletedFinalStateUnknown".  Handlers survive both.
NoPanic == ~panicked
=============================================================================
