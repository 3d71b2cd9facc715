---------------------------- MODULE HAProxyConfig ----------------------------
(***************************************************************************)
(* One Kanary, its backends and the HAProxy configuration the operator     *)
(* derives from them, with every reconciliation taken in one step: what    *)
(* the algorithms of EndpointStatus achieve when nothing interferes.       *)
(* Concurrency, caches and failures are the business of KanaryController.  *)
(***************************************************************************)
EXTENDS KanaryMemory

CONSTANTS
    Services,     \* the backend services routes may name
    RouteLists,   \* the values of spec.routes a user may write
    SubsetLists   \* the values Endpoints.subsets may take

\* Routes, subsets and addresses are Go slices: lists.  A weight is an int.
ASSUME ConfigAssumption ==
    /\ \A r \in RouteLists :
          /\ r \in Seq(ToSet(r))
          /\ \A i \in DOMAIN r : r[i].service \in Services /\ r[i].weight \in Int
    /\ \A subsets \in SubsetLists :
          /\ subsets \in Seq(ToSet(subsets))
          /\ \A i \in DOMAIN subsets :
                subsets[i].addresses \in Seq(ToSet(subsets[i].addresses))

VARIABLES
    routes,   \* spec.routes of the Kanary
    eps,      \* service -> its Endpoints object
    status,   \* status.endpointStatuses of the Kanary
    servers,  \* the server lines of the ConfigMap
    settled   \* the last step was a reconciliation that did not fail

vars == <<routes, eps, status, servers, settled>>

Absent == [exists |-> FALSE, subsets |-> <<>>]
Endpoints == [exists : {TRUE}, subsets : SubsetLists] \cup {Absent}

Init ==
    /\ routes \in RouteLists
    /\ eps = [s \in Services |-> Absent]
    /\ status = <<>>
    /\ servers = <<>>
    /\ settled = FALSE

-----------------------------------------------------------------------------

\* The user rewrites spec.routes.
EditRoutes ==
    /\ routes' \in RouteLists \ {routes}
    /\ settled' = FALSE
    /\ UNCHANGED <<eps, status, servers>>

\* Kubernetes writes or removes the Endpoints object of a service.
ChangeEndpoints(s) ==
    /\ eps' \in {[eps EXCEPT ![s] = e] : e \in Endpoints \ {eps[s]}}
    /\ settled' = FALSE
    /\ UNCHANGED <<routes, status, servers>>

ReconcileStatusOnly ==
    LET expected == buildExpectedEndpointStatus(routes, eps)
    IN  /\ Buildable(routes, eps)
        /\ settled' = TRUE
        /\ status' = expected
        /\ servers' = IF deepEqualEndpointStatusList(expected, status)
                      THEN servers ELSE newHAProxyController(expected)
        /\ UNCHANGED <<routes, eps>>

\* syncKanary, the part that concerns the configuration: build the expected
\* status, compare, and rewrite configuration and status when they differ.
Reconcile ==
    LET expected == buildExpectedEndpointStatus(routes, eps)
    IN  /\ Buildable(routes, eps)
        /\ settled' = TRUE
        /\ IF deepEqualEndpointStatusList(expected, status)
           THEN UNCHANGED <<status, servers>>
           ELSE /\ servers' = newHAProxyController(expected)
                /\ status' = expected
        /\ UNCHANGED <<routes, eps>>

Next ==
    \/ EditRoutes
    \/ \E s \in Services : ChangeEndpoints(s)
    \/ Reconcile

Spec == Init /\ [][Next]_vars

-----------------------------------------------------------------------------

\* Every variable has its type, and the lines always belong to the status.
TypeOK ==
    /\ routes \in RouteLists
    /\ eps \in [Services -> Endpoints]
    /\ servers = newHAProxyController(status)
    /\ settled \in BOOLEAN

\* After a reconciliation every ready pod of every route is a server
\* (syncKanary's comparison never hides a pod that has appeared).
EveryReadyPodIsServed ==
    settled => \A i \in DOMAIN routes :
                  \A a \in ToSet(AllAddresses(eps[routes[i].service].subsets)) :
                      \E server \in ToSet(servers) :
                          /\ server.name[1] = routes[i].service
                          /\ server.ip[1] = a

\* The lines of a service carry, together, the weight of the route to it but
\* for what the rounding of float32s costs, one part in 2^24 at most: for any
\* number of pods, and however the routes and the pods have changed since
\* (newHAProxyController's division).  A route that has a ready pod has lines.
\* Lists that name a service twice are outside it.
DistinctServices == \A i, j \in DOMAIN routes :
    routes[i].service = routes[j].service => i = j

RouteWeightIsShared ==
    settled /\ DistinctServices =>
        \A i \in DOMAIN routes :
            LET r     == routes[i]
                lines == {j \in DOMAIN servers : servers[j].name[1] = r.service}
            IN  /\ Magnitude(r.weight) < Exact
                /\ lines # {} \/ AllAddresses(eps[r.service].subsets) # <<>>
                => \E d \in {servers[j].weight.den : j \in lines} :
                      /\ \A j \in lines : servers[j].weight.den = d
                      /\ Magnitude(MapThenSumSet(LAMBDA l : servers[l].weight.num,
                                                lines) - r.weight * d)
                            =< (Magnitude(r.weight) * d) \div Exact

\* zz_generated.deepcopy.go, for the Kanary there is now and for one that has
\* just been created, in the answer to a list: a copy shows what the original
\* shows and shares no array with it or with another copy, so whoever changes
\* a copy (controller.go:436-458) changes nothing a lister hands out.
CopiesAreIndependent ==
    LET first == Decoded(<<>>, routes, status)
        second == Decoded(first.memory, routes, <<>>)
        kys == <<first.out, second.out>>
        items == Made(second.memory, kys)
        list == DeepCopyKanaryList(items.memory, items.out)
        all == kys \o list.memory[list.out]
    IN  /\ \A i \in 1..2 :
              /\ Routes(list.memory, all[i + 2]) = Routes(items.memory, kys[i])
              /\ Status(list.memory, all[i + 2]) = Status(items.memory, kys[i])
        /\ \A i, j \in 1..4 : i # j =>
              Reached(list.memory, all[i]) \cap Reached(list.memory, all[j]) = {}

\* The status of a cached Kanary is recorded, and the annotation of a cached
\* Endpoints object is extended, without a write to anything that was in
\* memory before (controller.go:435-440, 488-516): informers, handlers and the
\* other worker read the same objects meanwhile.
CachedObjectsAreNotWritten ==
    LET ky == Decoded(<<>>, routes, status)
        list == Made(ky.memory, <<>>)
        recorded == RecordInCopy(list.memory, ky.out, list.out)
    IN  /\ IsPrefix(list.memory, recorded.memory)
        /\ Status(recorded.memory, recorded.out) = <<>>
        /\ Routes(recorded.memory, recorded.out) = routes
        /\ \A owner, other \in Services :
              LET map == Made(list.memory, <<other>>)
                  ep == [annotations |-> map.out]
                  new == AnnotateCopy(map.memory, ep, owner)
              IN  /\ IsPrefix(map.memory, new.memory)
                  /\ ToSet(new.memory[new.out.annotations]) = {owner, other}

-----------------------------------------------------------------------------
(* What the documentation says and the code does not do *)

\* controller.go:295, "Check for diff update if different", and README.md:55,
\* "Trigger automatic HAProxy rolling update when configuration changed": after
\* a reconciliation no server is a pod that has gone.
NoDeadPodIsServed ==
    settled => \A server \in ToSet(servers) :
        \E i \in DOMAIN routes :
            \E a \in ToSet(AllAddresses(eps[routes[i].service].subsets)) :
                server.ip[1] = a
=============================================================================
