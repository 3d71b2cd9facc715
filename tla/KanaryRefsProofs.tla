-------------------------- MODULE KanaryRefsProofs --------------------------
(***************************************************************************)
(* The "kanaryRef" annotation, which every worker and the handler of       *)
(* deletions compute from a cached Endpoints object: no write loses the    *)
(* name of another Kanary.                                                 *)
(***************************************************************************)
EXTENDS KanaryControllerProofs, SequenceTheorems

\* A copy is not newer than the stored object, and with the same version it
\* is that object.
EndpointsCopyOf(e, stored) ==
    e.rv =< stored.rv /\ (e.rv = stored.rv => e = stored)

\* All copies there are: on the way and in the cache.
EndpointsCopies ==
    \A s \in Services :
        /\ EndpointsCopyOf(ec[s], ep[s])
        /\ \A i \in DOMAIN ewatch[s] : EndpointsCopyOf(ewatch[s][i], ep[s])

\* What every step respects: a stored object changes with its version, and no
\* copy comes from nowhere.
EndpointsTracks ==
    \A s \in Services :
        /\ ep'[s] = ep[s] \/ ep'[s].rv = ep[s].rv + 1
        /\ \/ ec'[s] \in {ec[s], ep'[s]}
           \/ \E j \in DOMAIN ewatch[s] : ec'[s] = ewatch[s][j]
        /\ \A i \in DOMAIN ewatch'[s] :
              \/ ewatch'[s][i] = ep'[s]
              \/ \E j \in DOMAIN ewatch[s] : ewatch'[s][i] = ewatch[s][j]

-----------------------------------------------------------------------------
(* The annotation *)

\* Adding a name removes none.
LEMMA AddKeepsRefs ==
    ASSUME NEW refs \in Seq(Kanaries), NEW k \in Kanaries
    PROVE  ToSet(refs) \subseteq ToSet(addKanaryRefInEp(refs, k))
<1> DEFINE more == Append(refs, k)
<1>1. \A i \in DOMAIN refs : i \in DOMAIN more /\ more[i] = refs[i]
  OBVIOUS
<1>2. ToSet(refs) \subseteq ToSet(more)
  <2> HIDE DEF more
  <2> QED
    BY <1>1 DEF ToSet
<1> QED
  BY <1>2 DEF addKanaryRefInEp

\* Cutting one position out of a sequence loses the name at that position.
LEMMA CutKeepsRefs ==
    ASSUME NEW refs \in Seq(Kanaries), NEW n \in 1..Len(refs),
           NEW x \in ToSet(refs), x # refs[n]
    PROVE  x \in ToSet(RemoveAt(refs, n))
<1> DEFINE t == RemoveAt(refs, n)
<1>1. /\ DOMAIN t = 1..(Len(refs) - 1)
      /\ \A i \in 1..(Len(refs) - 1) :
            t[i] = IF i < n THEN refs[i] ELSE refs[i + 1]
  <2> DEFINE left == SubSeq(refs, 1, n - 1)
             right == SubSeq(refs, n + 1, Len(refs))
  <2>1. /\ left \in Seq(Kanaries) /\ Len(left) = n - 1
        /\ \A i \in 1..(n - 1) : left[i] = refs[i]
    OBVIOUS
  <2>2. /\ right \in Seq(Kanaries) /\ Len(right) = Len(refs) - n
        /\ \A i \in 1..(Len(refs) - n) : right[i] = refs[n + i]
    OBVIOUS
  <2>3. t = left \o right
    BY DEF RemoveAt
  <2> HIDE DEF left, right, t
  <2>4. t \in Seq(Kanaries) /\ Len(t) = Len(refs) - 1
    <3>1. t \in Seq(Kanaries) /\ Len(t) = Len(left) + Len(right)
      BY <2>1, <2>2, <2>3, ConcatProperties
    <3>2. Len(refs) \in Nat /\ n \in Nat
      OBVIOUS
    <3> QED
      BY <2>1, <2>2, <3>1, <3>2
  <2>5. ASSUME NEW i \in 1..(Len(refs) - 1)
        PROVE  t[i] = IF i < n THEN refs[i] ELSE refs[i + 1]
    <3>1. CASE i < n
      BY <2>1, <2>2, <2>3, <3>1
    <3>2. CASE i >= n
      <4>1. t[i] = right[i - (n - 1)]
        BY <2>1, <2>2, <2>3, <3>2
      <4>2. i - (n - 1) \in 1..(Len(refs) - n) /\ n + (i - (n - 1)) = i + 1
        BY <3>2
      <4> QED
        BY <2>2, <3>2, <4>1, <4>2
    <3> QED
      BY <3>1, <3>2
  <2> QED
    BY <2>4, <2>5
<1>2. PICK i \in 1..Len(refs) : x = refs[i]
  BY DEF ToSet
<1>3. \E j \in DOMAIN t : t[j] = x
  <2> HIDE DEF t
  <2>1. CASE i < n
    <3>1. i \in 1..(Len(refs) - 1)
      BY <2>1
    <3> QED
      BY <1>1, <1>2, <2>1, <3>1
  <2>2. CASE i > n
    <3>1. i - 1 \in 1..(Len(refs) - 1) /\ ~(i - 1 < n) /\ (i - 1) + 1 = i
      BY <2>2
    <3> QED
      BY <1>1, <1>2, <3>1
  <2> QED
    BY <1>2, <2>1, <2>2
<1> HIDE DEF t
<1> QED
  BY <1>3 DEF ToSet, t

\* Removing a name that is there removes no other.
LEMMA DeleteKeepsRefs ==
    ASSUME NEW refs \in Seq(Kanaries), NEW k \in Kanaries, Contains(refs, k)
    PROVE  \A x \in ToSet(refs) \ ToSet(deleteRef(refs, k)) : x = k
<1> DEFINE I == {i \in 1..Len(refs) : refs[i] = k}
<1>1. I # {} /\ I \subseteq 1..Len(refs)
  BY DEF Contains
<1>2. Min(I) \in I
  <2>1. Len(refs) \in Nat /\ I \in SUBSET (1..Len(refs))
    BY <1>1
  <2> HIDE DEF I
  <2> QED
    BY <1>1, <2>1, MinMember, Zenon
<1>3. getEltToDeleteIndex(refs, k) + 1 = Min(I)
  BY <1>1, <1>2 DEF getEltToDeleteIndex, SelectInSeq
<1>4. Min(I) \in 1..Len(refs) /\ refs[Min(I)] = k
  BY <1>2
<1> HIDE DEF I
<1> QED
  BY <1>3, <1>4, CutKeepsRefs DEF deleteRef

-----------------------------------------------------------------------------
(* Copies of Endpoints objects *)

\* A write of one Endpoints object.
LEMMA PutEndpointsTracks ==
    ASSUME TypeOK, NEW s \in Services, NEW e, e.rv = ep[s].rv + 1,
           PutEndpoints(s, e), UNCHANGED ec
    PROVE  EndpointsTracks
<1>1. ep \in [Services -> EndpointsObjects]
      /\ ewatch \in [Services -> Seq(EndpointsObjects)]
  BY TypeParts DEF EndpointsTyped
<1>2. \A t \in Services : ep'[t] = IF t = s THEN e ELSE ep[t]
  BY <1>1 DEF PutEndpoints
<1>3. \A t \in Services :
         ewatch'[t] = IF t = s THEN Append(ewatch[s], e) ELSE ewatch[t]
  BY <1>1 DEF PutEndpoints
<1>4. \A i \in DOMAIN ewatch'[s] :
         ewatch'[s][i] = e \/ \E j \in DOMAIN ewatch[s] : ewatch'[s][i] = ewatch[s][j]
  <2>1. ewatch'[s] = Append(ewatch[s], e) /\ ewatch[s] \in Seq(EndpointsObjects)
    BY <1>1, <1>3
  <2> QED
    BY <2>1
<1> QED
  BY <1>2, <1>3, <1>4 DEF EndpointsTracks

\* With optimistic locking a write starts from the stored object.
LEMMA CacheIsStored ==
    ASSUME EndpointsCopies, NEW s \in Services, CacheIsCurrent(s)
    PROVE  ec[s] = ep[s]
BY DEF EndpointsCopies, EndpointsCopyOf, CacheIsCurrent

\* What adding the Kanary to an annotation writes.
LEMMA AddRefEffect ==
    ASSUME TypeOK, NEW w \in Workers, AddKanaryRef(w)
    PROVE  \/ UNCHANGED <<ep, ewatch>>
           \/ \E s \in Services, k \in Kanaries :
                 /\ CacheIsCurrent(s)
                 /\ PutEndpoints(s, [ec[s] EXCEPT
                                       !.refs = addKanaryRefInEp(ec[s].refs, k),
                                       !.annotated = TRUE, !.rv = @ + 1])
<1> DEFINE s == wk[w].ky.eps[wk[w].i].service
<1>1. wk[w].pc = "ref" /\ wk[w].pc \in Calls
  BY DEF AddKanaryRef, Calls
<1>2. wk[w].key \in Kanaries /\ wk[w].ky \in KanaryObjects
  BY <1>1, BusyWorker
<1>3. s \in Services
  <2>1. wk[w].i \in DOMAIN wk[w].ky.eps
    BY <1>1, TypeParts DEF WorkersTyped, WorkerOK
  <2>2. wk[w].ky.eps \in Statuses
    BY <1>2 DEF KanaryObjects
  <2> QED
    BY <2>1, <2>2, StatusService
<1>4. \/ UNCHANGED <<ep, ewatch>>
      \/ /\ CacheIsCurrent(s)
         /\ PutEndpoints(s, [ec[s] EXCEPT
                               !.refs = addKanaryRefInEp(ec[s].refs, wk[w].key),
                               !.annotated = TRUE, !.rv = @ + 1])
  BY DEF AddKanaryRef
<1> HIDE DEF s
<1> QED
  BY <1>2, <1>3, <1>4

\* What the handler of deletions writes, for the deletion it works on.
LEMMA DeleteRefEffect ==
    ASSUME TypeOK, NEW s \in Services, DeleteKyRefInEp(s)
    PROVE  /\ deleted # <<>> /\ Head(deleted).name \in Kanaries
           /\ CacheIsCurrent(s) /\ Contains(ec[s].refs, Head(deleted).name)
           /\ PutEndpoints(s, [ec[s] EXCEPT
                                 !.refs = deleteRef(@, Head(deleted).name),
                                 !.rv = @ + 1])
           /\ UNCHANGED ec
<1>1. deleted # <<>> /\ deleted \in Seq(Deletions)
  BY TypeParts DEF DeleteKyRefInEp, DeletingFrom, ProcessTyped
<1>2. Head(deleted).name \in Kanaries
  <2>1. Head(deleted) \in Deletions
    BY <1>1
  <2> QED
    BY <2>1 DEF Deletions
<1> QED
  BY <1>1, <1>2 DEF DeleteKyRefInEp

\* Every step stores a later version or the same object, and no copy of
\* Endpoints comes from nowhere.
LEMMA EndpointsTracksStep ==
    ASSUME TypeOK, EndpointsCopies, [Next]_vars
    PROVE  EndpointsTracks
<1>t. /\ ep \in [Services -> EndpointsObjects] /\ ec \in [Services -> EndpointsObjects]
      /\ ewatch \in [Services -> Seq(EndpointsObjects)]
  BY TypeParts DEF EndpointsTyped, CachesTyped
<1>1. CASE UNCHANGED <<ep, ewatch, ec>>
  BY <1>1 DEF EndpointsTracks
<1>2. CASE UNCHANGED ep /\ ec' = ep /\ ewatch' = [s \in Services |-> <<>>]
  BY <1>2 DEF EndpointsTracks
<1>3. ASSUME NEW s \in Services, ChangeEndpoints(s) PROVE EndpointsTracks
  <2>1. ep[s] \in EndpointsObjects
    BY <1>t
  <2>2. /\ \A l \in SubsetLists :
               NextVersion([ep[s] EXCEPT !.exists = TRUE, !.subsets = l]).rv
                 = ep[s].rv + 1
        /\ AbsentEndpoints(ep[s].rv + 1).rv = ep[s].rv + 1
    BY <2>1 DEF NextVersion, AbsentEndpoints, EndpointsObjects
  <2> QED
    BY <1>3, <2>2, PutEndpointsTracks DEF ChangeEndpoints
<1>4. ASSUME NEW s \in Services, DeleteKyRefInEp(s) PROVE EndpointsTracks
  <2>1. ec[s] \in EndpointsObjects /\ ec[s].rv = ep[s].rv
    BY <1>4, <1>t DEF DeleteKyRefInEp, CacheIsCurrent
  <2>2. [ec[s] EXCEPT !.refs = deleteRef(@, Head(deleted).name),
                      !.rv = @ + 1].rv = ep[s].rv + 1
    BY <2>1 DEF EndpointsObjects
  <2> QED
    BY <1>4, <2>2, DeleteRefEffect, PutEndpointsTracks
<1>5. ASSUME NEW w \in Workers, AddKanaryRef(w) PROVE EndpointsTracks
  <2>1. UNCHANGED ec
    BY <1>5 DEF AddKanaryRef
  <2>2. ASSUME NEW s \in Services, NEW k \in Kanaries, CacheIsCurrent(s),
               PutEndpoints(s, [ec[s] EXCEPT
                                  !.refs = addKanaryRefInEp(ec[s].refs, k),
                                  !.annotated = TRUE, !.rv = @ + 1])
        PROVE  EndpointsTracks
    <3>1. ec[s] \in EndpointsObjects /\ ec[s].rv = ep[s].rv
      BY <2>2, <1>t DEF CacheIsCurrent
    <3>2. [ec[s] EXCEPT !.refs = addKanaryRefInEp(ec[s].refs, k),
                        !.annotated = TRUE, !.rv = @ + 1].rv = ep[s].rv + 1
      BY <3>1 DEF EndpointsObjects
    <3> QED
      BY <2>1, <2>2, <3>2, PutEndpointsTracks
  <2> QED
    BY <1>5, <1>1, <2>1, <2>2, AddRefEffect
<1>6. ASSUME NEW s \in Services, DeliverEndpoints(s) PROVE EndpointsTracks
  <2>1. /\ ewatch[s] # <<>> /\ ewatch[s] \in Seq(EndpointsObjects)
        /\ UNCHANGED ep
        /\ ewatch' = [ewatch EXCEPT ![s] = Tail(@)]
        /\ ec' = [ec EXCEPT ![s] = Head(ewatch[s])]
    BY <1>6, <1>t DEF DeliverEndpoints, api
  <2>2. /\ Head(ewatch[s]) = ewatch[s][1] /\ 1 \in DOMAIN ewatch[s]
        /\ \A i \in DOMAIN Tail(ewatch[s]) :
             /\ i + 1 \in DOMAIN ewatch[s]
             /\ Tail(ewatch[s])[i] = ewatch[s][i + 1]
    BY <2>1
  <2>3. \A t \in Services :
          /\ ewatch'[t] = IF t = s THEN Tail(ewatch[s]) ELSE ewatch[t]
          /\ ec'[t] = IF t = s THEN Head(ewatch[s]) ELSE ec[t]
    BY <1>t, <2>1
  <2> QED
    BY <2>1, <2>2, <2>3 DEF EndpointsTracks
<1>7. CASE Environment
  BY <1>1, <1>3, <1>7
  DEF Environment, CreateKanary, EditKanary, DeleteKanary
<1>8. CASE Restart \/ RelistKanaries \/ RelistEndpoints
             \/ (\E s \in Services : DeletionPanics(s))
  BY <1>1, <1>2, <1>8 DEF Restart, RelistKanaries, RelistEndpoints, DeletionPanics,
                          Panic, ProcessStart, api
<1>9. ASSUME NEW w \in Workers, SyncStep(w) \/ Refuse(w) PROVE EndpointsTracks
  BY <1>1, <1>5, <1>9
  DEF SyncStep, updateStatusConfigMap, updateStatusEndpoint,
      updateStatusDeployment, CreateConfigMap, UpdateConfigMap,
      performRollingUpdate, CreateDeployment, CreateService, DeleteService,
      updateStatusService, Refuse, api, informers
<1>10. CASE \/ (\E k \in Kanaries : DeliverKanary(k) \/ Resync(k) \/ CollectGarbage(k))
            \/ EndDeletion
            \/ (\E w \in Workers, k \in Kanaries : StartSync(w, k))
            \/ UNCHANGED vars
  BY <1>1, <1>10 DEF DeliverKanary, Resync, CollectGarbage, EndDeletion, StartSync,
                     api, informers, vars
<1> QED
  BY <1>4, <1>6, <1>7, <1>8, <1>9, <1>10 DEF Next, DeletionStep

\* Hence a copy that has the stored version stays the stored object.
LEMMA EndpointsCopiesStep ==
    ASSUME TypeOK, TypeOK', EndpointsCopies, EndpointsTracks
    PROVE  EndpointsCopies'
<1> SUFFICES ASSUME NEW s \in Services
             PROVE  /\ EndpointsCopyOf(ec'[s], ep'[s])
                    /\ \A i \in DOMAIN ewatch'[s] :
                          EndpointsCopyOf(ewatch'[s][i], ep'[s])
  BY DEF EndpointsCopies
<1>1. /\ ep[s].rv \in Nat /\ ep'[s].rv \in Nat /\ ec[s].rv \in Nat
      /\ \A i \in DOMAIN ewatch[s] : ewatch[s][i].rv \in Nat
  <2>1. /\ ep[s] \in EndpointsObjects /\ ec[s] \in EndpointsObjects
        /\ ewatch[s] \in Seq(EndpointsObjects)
    BY TypeParts DEF EndpointsTyped, CachesTyped
  <2>2. ep'[s] \in EndpointsObjects
    BY TypePartsNext DEF EndpointsTyped
  <2>3. \A i \in DOMAIN ewatch[s] : ewatch[s][i] \in EndpointsObjects
    BY <2>1
  <2> QED
    BY <2>1, <2>2, <2>3 DEF EndpointsObjects
<1>2. ASSUME NEW e, e.rv \in Nat, EndpointsCopyOf(e, ep[s])
      PROVE  EndpointsCopyOf(e, ep'[s])
  <2>1. ep'[s] = ep[s] \/ ep'[s].rv = ep[s].rv + 1
    BY DEF EndpointsTracks
  <2> QED
    BY <1>1, <1>2, <2>1 DEF EndpointsCopyOf
<1>3. EndpointsCopyOf(ep'[s], ep'[s])
  BY <1>1 DEF EndpointsCopyOf
<1>4. /\ EndpointsCopyOf(ec[s], ep'[s])
      /\ \A i \in DOMAIN ewatch[s] : EndpointsCopyOf(ewatch[s][i], ep'[s])
  BY <1>1, <1>2 DEF EndpointsCopies
<1>5. EndpointsCopyOf(ec'[s], ep'[s])
  BY <1>3, <1>4 DEF EndpointsTracks
<1>6. \A i \in DOMAIN ewatch'[s] : EndpointsCopyOf(ewatch'[s][i], ep'[s])
  BY <1>3, <1>4 DEF EndpointsTracks
<1> QED
  BY <1>5, <1>6

\* Spec => []EndpointsCopies.
LEMMA EndpointsCopiesInvariant == Spec => []EndpointsCopies
<1>1. Init => EndpointsCopies
  <2> SUFFICES ASSUME Init PROVE EndpointsCopies
    OBVIOUS
  <2>1. ep \in [Services -> EndpointsObjects]
    BY InitType, TypeParts DEF EndpointsTyped
  <2>2. ec = ep /\ ewatch = [s \in Services |-> <<>>]
    BY DEF Init
  <2> QED
    BY <2>1, <2>2 DEF EndpointsCopies, EndpointsCopyOf, EndpointsObjects
<1>2. TypeOK /\ EndpointsCopies /\ [Next]_vars => EndpointsCopies'
  BY TypeStep, EndpointsTracksStep, EndpointsCopiesStep
<1> QED
  BY <1>1, <1>2, TypeCorrect, PTL DEF Spec

-----------------------------------------------------------------------------
(* No name is lost *)

\* However stale the cached annotation that a worker or the handler of
\* deletions starts from, and however the two interleave, a name leaves an
\* annotation only because its own Kanary was deleted (addKanaryRefInEp and
\* deleteKyRefInEp, controller.go:488-542).
THEOREM RefsAreKept == Spec => RefsKept
<1> DEFINE Lost(s) == ToSet(ep[s].refs) \ ToSet(ep'[s].refs)
           Deleting(k) == deleted # <<>> /\ Head(deleted).name = k
<1>1. ASSUME TypeOK, EndpointsCopies, [Next]_vars, NEW s \in Services,
             ep[s].exists, ep'[s].exists
      PROVE  \A k \in Lost(s) : Deleting(k)
  <2>t. /\ ep \in [Services -> EndpointsObjects]
        /\ ec \in [Services -> EndpointsObjects]
    BY <1>1, TypeParts DEF EndpointsTyped, CachesTyped
  <2>1. CASE ep'[s].refs = ep[s].refs
    BY <2>1
  <2>2. ASSUME NEW t \in Services, ChangeEndpoints(t)
        PROVE  ep'[s].refs = ep[s].refs
    <3>1. CASE t # s
      BY <2>2, <2>t, <3>1 DEF ChangeEndpoints, PutEndpoints
    <3>2. CASE t = s
      <4>1. ep[s] \in EndpointsObjects
        BY <2>t
      <4>2. \A l \in SubsetLists :
              NextVersion([ep[s] EXCEPT !.exists = TRUE, !.subsets = l]).refs
                = ep[s].refs
        BY <4>1 DEF NextVersion, EndpointsObjects
      <4>3. ~AbsentEndpoints(ep[s].rv + 1).exists
        BY DEF AbsentEndpoints
      <4>4. ASSUME NEW e, PutEndpoints(s, e) PROVE ep'[s] = e
        BY <2>t, <4>4 DEF PutEndpoints
      <4>5. \/ \E l \in SubsetLists :
                   PutEndpoints(s, NextVersion([ep[s] EXCEPT !.exists = TRUE,
                                                            !.subsets = l]))
            \/ PutEndpoints(s, AbsentEndpoints(ep[s].rv + 1))
        BY <2>2, <3>2 DEF ChangeEndpoints
      <4> QED
        BY <1>1, <4>2, <4>3, <4>4, <4>5
    <3> QED
      BY <3>1, <3>2
  <2>3. ASSUME NEW t \in Services, DeleteKyRefInEp(t)
        PROVE  \A k \in Lost(s) : Deleting(k)
    <3> DEFINE name == Head(deleted).name
    <3>1. /\ deleted # <<>> /\ name \in Kanaries
          /\ CacheIsCurrent(t) /\ Contains(ec[t].refs, name)
          /\ PutEndpoints(t, [ec[t] EXCEPT !.refs = deleteRef(@, name),
                                           !.rv = @ + 1])
      BY <1>1, <2>3, DeleteRefEffect
    <3>2. ec[t] = ep[t] /\ ec[t] \in EndpointsObjects
      BY <1>1, <2>t, <3>1, CacheIsStored
    <3>3. CASE t # s
      BY <2>1, <2>t, <3>1, <3>3 DEF PutEndpoints
    <3>4. CASE t = s
      <4>1. ep'[s].refs = deleteRef(ep[s].refs, name)
        BY <2>t, <3>1, <3>2, <3>4 DEF PutEndpoints, EndpointsObjects
      <4>2. ep[s].refs \in Seq(Kanaries)
        BY <2>t DEF EndpointsObjects
      <4> HIDE DEF name
      <4>3. \A x \in Lost(s) : x = name
        BY <3>1, <3>2, <3>4, <4>1, <4>2, DeleteKeepsRefs
      <4> QED
        BY <3>1, <4>3 DEF name
    <3> QED
      BY <3>3, <3>4
  <2>4. ASSUME NEW w \in Workers, AddKanaryRef(w)
        PROVE  Lost(s) = {}
    <3>1. CASE UNCHANGED <<ep, ewatch>>
      BY <3>1
    <3>2. ASSUME NEW t \in Services, NEW k \in Kanaries, CacheIsCurrent(t),
                 PutEndpoints(t, [ec[t] EXCEPT
                                    !.refs = addKanaryRefInEp(ec[t].refs, k),
                                    !.annotated = TRUE, !.rv = @ + 1])
          PROVE  Lost(s) = {}
      <4>1. ec[t] = ep[t] /\ ec[t] \in EndpointsObjects
        BY <1>1, <2>t, <3>2, CacheIsStored
      <4>2. CASE t # s
        BY <2>t, <3>2, <4>2 DEF PutEndpoints
      <4>3. CASE t = s
        <5>1. ep'[s].refs = addKanaryRefInEp(ep[s].refs, k)
          BY <2>t, <3>2, <4>1, <4>3 DEF PutEndpoints, EndpointsObjects
        <5>2. ep[s].refs \in Seq(Kanaries)
          BY <2>t DEF EndpointsObjects
        <5> QED
          BY <5>1, <5>2, AddKeepsRefs
      <4> QED
        BY <4>2, <4>3
    <3> QED
      BY <1>1, <2>4, <3>1, <3>2, AddRefEffect
  <2>5. ASSUME UNCHANGED ep
        PROVE  \A k \in Lost(s) : Deleting(k)
    BY <2>5
  <2>6. CASE Environment
    BY <2>1, <2>2, <2>5, <2>6
    DEF Environment, CreateKanary, EditKanary, DeleteKanary
  <2>7. CASE Restart \/ RelistKanaries \/ RelistEndpoints
               \/ (\E t \in Services : DeletionPanics(t) \/ DeliverEndpoints(t))
               \/ (\E k \in Kanaries : \/ DeliverKanary(k) \/ Resync(k)
                                        \/ CollectGarbage(k))
               \/ EndDeletion
               \/ (\E w \in Workers, k \in Kanaries : StartSync(w, k))
               \/ UNCHANGED vars
    BY <2>5, <2>7
    DEF Restart, RelistKanaries, RelistEndpoints, DeletionPanics, DeliverEndpoints,
        DeliverKanary, Resync, CollectGarbage, EndDeletion, StartSync, Panic, api,
        vars
  <2>8. ASSUME NEW w \in Workers, SyncStep(w) \/ Refuse(w)
        PROVE  \A k \in Lost(s) : Deleting(k)
    <3>1. AddKanaryRef(w) \/ UNCHANGED ep
      BY <2>8
      DEF SyncStep, updateStatusConfigMap, updateStatusEndpoint,
          updateStatusDeployment, CreateConfigMap, UpdateConfigMap,
          performRollingUpdate, CreateDeployment, CreateService, DeleteService,
          updateStatusService, Refuse, api
    <3> QED
      BY <2>4, <2>5, <3>1
  <2> QED
    BY <1>1, <2>3, <2>6, <2>7, <2>8 DEF Next, DeletionStep
<1>2. TypeOK /\ EndpointsCopies /\ [Next]_vars
        => [\A s \in Services : ep[s].exists /\ ep'[s].exists =>
              \A k \in ToSet(ep[s].refs) \ ToSet(ep'[s].refs) :
                  deleted # <<>> /\ Head(deleted).name = k]_vars
  BY <1>1
<1> QED
  BY <1>2, TypeCorrect, EndpointsCopiesInvariant, PTL DEF Spec, RefsKept
=============================================================================
