----------------------- MODULE KanaryOwnershipProofs -----------------------
(***************************************************************************)
(* What the status of a Kanary names exists and is its own.  A worker      *)
(* decides with a cached copy, perhaps of an earlier Kanary of the same    *)
(* name, and creates or replaces objects before it knows whether its write *)
(* of the status will be accepted; the invariant Backed says why this is   *)
(* harmless.                                                               *)
(***************************************************************************)
EXTENDS KanaryControllerProofs

\* o is a version of the stored Kanary, or an object this very Kanary owns.
SameId(o, stored) == o # None /\ stored # None /\ o.uid = stored.uid

\* A copy never shows a configuration that the stored object does not record.
Known(o, stored) == SameId(o, stored) /\ o.config => stored.config

\* One Kanary: o is stored, c its ConfigMap, d its Deployment, cache what the
\* lister returns, last the latest identity given.  An owned ConfigMap shows
\* that the cache has left every earlier Kanary of the name behind.
ObjectsBacked(o, c, d, cache, last) ==
    /\ c # None => c.uid =< last
    /\ d # None => d.uid =< last
    /\ SameId(c, o) => SameId(cache, o)
    /\ SameId(d, o) => SameId(c, o) /\ d.rolled # None
    /\ o # None => (o.config => SameId(c, o)) /\ (o.proxy => SameId(d, o))

\* The informer never goes back to an earlier Kanary of the name.
EventsInOrder(o, cache, events) ==
    /\ Known(cache, o)
    /\ \A i \in DOMAIN events :
         /\ Known(events[i], o)
         /\ SameId(cache, o) => SameId(events[i], o)
         /\ \A j \in DOMAIN events :
               i < j /\ SameId(events[i], o) => SameId(events[j], o)

\* How far a worker has come with the stored Kanary itself.
Progress(r, o, c, d) ==
    /\ r.pc \in {"rollout", "statusConfigMap", "statusEndpoint"} =>
          SameId(c, o) /\ c.servers = newHAProxyController(r.exp)
    /\ r.pc \in {"statusConfigMap", "statusEndpoint"} /\ SameId(d, o) =>
          d.rolled = c.servers
    /\ r.pc = "statusDeployment" => SameId(d, o)

\* A worker that holds a copy of an earlier Kanary meets no ConfigMap of the
\* present one, so it can neither overwrite it nor restart its pods.
WorkerBacked(r, o, c, d, cache) ==
    /\ Known(r.ky, o)
    /\ SameId(r.ky, o) => SameId(cache, o) /\ Progress(r, o, c, d)
    /\ ~SameId(r.ky, o) => ~SameId(c, o)

KeyBacked(k) ==
    /\ ObjectsBacked(kan[k], cm[k], dep[k], kc[k], LastUid)
    /\ EventsInOrder(kan[k], kc[k], kwatch[k])
    /\ \A w \in Workers : wk[w].key = k =>
          WorkerBacked(wk[w], kan[k], cm[k], dep[k], kc[k])

Backed == \A k \in Kanaries : KeyBacked(k)

-----------------------------------------------------------------------------
(* Values *)

\* An identity that was given.
Given(x, last) == x # None => x.uid =< last

\* The stored Kanary goes, or is a new one with nothing recorded.
Begins(o2, last, last2) ==
    \/ o2 = None
    \/ last < o2.uid /\ o2.uid =< last2 /\ ~o2.config /\ ~o2.proxy

\* It stays, with at most what its ConfigMap c and its Deployment d justify.
Continues(o, o2, c, d) ==
    /\ SameId(o2, o)
    /\ o.config => o2.config
    /\ o2.config => SameId(c, o)
    /\ o2.proxy => SameId(d, o)

MaybeConfigMap == ConfigMapObjects \cup {None}
MaybeDeployment == DeploymentObjects \cup {None}

\* Identities are numbers.
LEMMA UidType ==
    /\ \A o \in Objects : o # None => o.uid \in Nat
    /\ \A c \in MaybeConfigMap : c # None => c.uid \in Nat
    /\ \A d \in MaybeDeployment : d # None => d.uid \in Nat
BY DEF Objects, KanaryObjects, MaybeConfigMap, ConfigMapObjects, MaybeDeployment,
       DeploymentObjects

\* A new identity is nobody's yet.
LEMMA NotYetGiven ==
    ASSUME NEW last \in Int, NEW last2, NEW o2 \in Objects, Begins(o2, last, last2),
           NEW x, x # None => x.uid \in Nat, Given(x, last)
    PROVE  ~SameId(x, o2)
BY UidType DEF Begins, Given, SameId

\* A write keeps the identity.
LEMMA SameForAll ==
    ASSUME NEW o, NEW o2, SameId(o2, o)
    PROVE  \A x : SameId(x, o2) <=> SameId(x, o)
BY DEF SameId

\* The objects and the workers of a Kanary that begins or continues.
LEMMA ChangeBacked ==
    ASSUME NEW o \in Objects, NEW o2 \in Objects,
           NEW c \in MaybeConfigMap, NEW d \in MaybeDeployment,
           NEW cache \in Objects,
           NEW last \in Int, NEW last2 \in Int, last =< last2, Given(cache, last),
           Begins(o2, last, last2) \/ Continues(o, o2, c, d),
           ObjectsBacked(o, c, d, cache, last)
    PROVE  /\ ObjectsBacked(o2, c, d, cache, last2)
           /\ \A r : r.ky \in KanaryObjects /\ Given(r.ky, last)
                     /\ WorkerBacked(r, o, c, d, cache)
                       => WorkerBacked(r, o2, c, d, cache)
<1>t. /\ c # None => c.uid \in Nat
      /\ d # None => d.uid \in Nat
      /\ cache # None => cache.uid \in Nat
      /\ \A ky \in KanaryObjects : ky.uid \in Nat
  BY UidType DEF KanaryObjects
<1>g. Given(c, last) /\ Given(d, last)
  BY DEF ObjectsBacked, Given
<1>u. (c # None => c.uid =< last2) /\ (d # None => d.uid =< last2)
  BY <1>t, <1>g DEF Given
<1>1. CASE Begins(o2, last, last2)
  <2>1. ~SameId(c, o2) /\ ~SameId(d, o2) /\ ~SameId(cache, o2)
    BY <1>t, <1>g, <1>1, NotYetGiven
  <2>2. o2 # None => ~o2.config /\ ~o2.proxy
    BY <1>1 DEF Begins
  <2>3. ObjectsBacked(o2, c, d, cache, last2)
    BY <1>u, <2>1, <2>2 DEF ObjectsBacked
  <2>4. ASSUME NEW r, r.ky \in KanaryObjects, Given(r.ky, last)
        PROVE  WorkerBacked(r, o2, c, d, cache)
    <3>1. ~SameId(r.ky, o2)
      BY <1>t, <1>1, <2>4, NotYetGiven
    <3> QED
      BY <2>1, <3>1 DEF WorkerBacked, Known
  <2> QED
    BY <2>3, <2>4
<1>2. CASE Continues(o, o2, c, d)
  <2>1. \A x : SameId(x, o2) <=> SameId(x, o)
    BY <1>2, SameForAll DEF Continues
  <2>2. ObjectsBacked(o2, c, d, cache, last2)
    BY <1>u, <1>2, <2>1 DEF ObjectsBacked, Continues
  <2>3. ASSUME NEW r, WorkerBacked(r, o, c, d, cache)
        PROVE  WorkerBacked(r, o2, c, d, cache)
    <3>1. Progress(r, o2, c, d) <=> Progress(r, o, c, d)
      BY <2>1 DEF Progress
    <3> QED
      BY <1>2, <2>1, <2>3, <3>1 DEF WorkerBacked, Known, Continues
  <2> QED
    BY <2>2, <2>3
<1> QED
  BY <1>1, <1>2

\* The write becomes the last event of the informer.
LEMMA ChangeEvents ==
    ASSUME NEW o \in Objects, NEW o2 \in Objects, NEW c, NEW d,
           NEW cache \in Objects, NEW events \in Seq(Objects),
           NEW last \in Int, NEW last2 \in Int, last =< last2,
           Given(cache, last), \A i \in DOMAIN events : Given(events[i], last),
           Begins(o2, last, last2) \/ Continues(o, o2, c, d),
           EventsInOrder(o, cache, events)
    PROVE  EventsInOrder(o2, cache, Append(events, o2))
<1> DEFINE more == Append(events, o2)
<1>1. /\ \A i \in DOMAIN more :
            /\ i \in Nat
            /\ \/ i \in DOMAIN events /\ more[i] = events[i]
               \/ i = Len(events) + 1 /\ more[i] = o2
      /\ \A i \in DOMAIN events : i =< Len(events) /\ events[i] \in Objects
      /\ Len(events) \in Nat
  <2>1. Len(events) \in Nat /\ DOMAIN events = 1..Len(events)
    OBVIOUS
  <2>2. DOMAIN more = 1..(Len(events) + 1) /\ more[Len(events) + 1] = o2
    OBVIOUS
  <2>3. \A i \in DOMAIN events : more[i] = events[i] /\ events[i] \in Objects
    OBVIOUS
  <2> HIDE DEF more
  <2>4. \A i \in DOMAIN events : i =< Len(events)
    BY <2>1
  <2> QED
    BY <2>1, <2>2, <2>3, <2>4
<1> HIDE DEF more
<1>2. CASE Begins(o2, last, last2)
  <2>1. ~SameId(cache, o2) /\ \A i \in DOMAIN events : ~SameId(events[i], o2)
    BY <1>1, <1>2, UidType, NotYetGiven
  <2> QED
    BY <1>1, <2>1 DEF EventsInOrder, Known, more
<1>3. CASE Continues(o, o2, c, d)
  <2>1. \A x : SameId(x, o2) <=> SameId(x, o)
    BY <1>3, SameForAll DEF Continues
  <2>2. SameId(o2, o2) /\ (o.config => o2.config)
    BY <1>3, <2>1 DEF Continues
  <2>3. Known(cache, o2) /\ \A i \in DOMAIN more : Known(more[i], o2)
    BY <1>1, <2>1, <2>2 DEF EventsInOrder, Known
  <2>4. ASSUME NEW i \in DOMAIN more, SameId(cache, o2)
        PROVE  SameId(more[i], o2)
    BY <1>1, <2>1, <2>2, <2>4 DEF EventsInOrder
  <2>5. ASSUME NEW i \in DOMAIN more, NEW j \in DOMAIN more, i < j,
               SameId(more[i], o2)
        PROVE  SameId(more[j], o2)
    <3>1. CASE j = Len(events) + 1 /\ more[j] = o2
      BY <2>2, <3>1
    <3>2. CASE j \in DOMAIN events /\ more[j] = events[j]
      <4>1. i \in DOMAIN events /\ more[i] = events[i]
        BY <1>1, <2>5, <3>2
      <4> QED
        BY <2>1, <2>5, <3>2, <4>1 DEF EventsInOrder
    <3> QED
      BY <1>1, <3>1, <3>2
  <2> QED
    BY <2>3, <2>4, <2>5 DEF EventsInOrder, more
<1> QED
  BY <1>2, <1>3

\* The informer delivers its first event.
LEMMA DeliverEvents ==
    ASSUME NEW o \in Objects, NEW c, NEW cache \in Objects,
           NEW events \in Seq(Objects), events # <<>>,
           EventsInOrder(o, cache, events)
    PROVE  /\ EventsInOrder(o, Head(events), Tail(events))
           /\ SameId(cache, o) => SameId(Head(events), o)
<1> DEFINE first == Head(events)
           rest == Tail(events)
<1>1. 1 \in DOMAIN events /\ first = events[1]
  OBVIOUS
<1>2. \A i \in DOMAIN rest :
         /\ i \in Nat /\ i + 1 \in DOMAIN events /\ 1 < i + 1
         /\ rest[i] = events[i + 1]
  OBVIOUS
<1> HIDE DEF first, rest
<1>3. Known(first, o) /\ \A i \in DOMAIN rest : Known(rest[i], o)
  BY <1>1, <1>2 DEF EventsInOrder
<1>4. \A i \in DOMAIN rest : SameId(first, o) => SameId(rest[i], o)
  BY <1>1, <1>2 DEF EventsInOrder
<1>5. ASSUME NEW i \in DOMAIN rest, NEW j \in DOMAIN rest, i < j,
             SameId(rest[i], o)
      PROVE  SameId(rest[j], o)
  <2>1. i + 1 < j + 1
    BY <1>2, <1>5
  <2> QED
    BY <1>2, <1>5, <2>1 DEF EventsInOrder
<1>6. SameId(cache, o) => SameId(first, o)
  BY <1>1 DEF EventsInOrder
<1> QED
  BY <1>3, <1>4, <1>5, <1>6 DEF EventsInOrder, first, rest

\* The cache moves on to a version that is of the stored Kanary if the one
\* before was.
LEMMA CacheBacked ==
    ASSUME NEW o, NEW c, NEW d, NEW cache, NEW cache2, NEW last,
           SameId(cache, o) => SameId(cache2, o),
           ObjectsBacked(o, c, d, cache, last)
    PROVE  /\ ObjectsBacked(o, c, d, cache2, last)
           /\ \A r : WorkerBacked(r, o, c, d, cache)
                       => WorkerBacked(r, o, c, d, cache2)
BY DEF ObjectsBacked, WorkerBacked

-----------------------------------------------------------------------------
(* One key at a time *)

\* The types of all that belongs to one key, and identities given already.
LEMMA KeyTypes ==
    ASSUME TypeOK, Copies, NEW k \in Kanaries
    PROVE  /\ kan[k] \in Objects /\ kc[k] \in Objects
           /\ cm[k] \in MaybeConfigMap /\ dep[k] \in MaybeDeployment
           /\ kwatch[k] \in Seq(Objects)
           /\ LastUid \in Int
           /\ Given(kan[k], LastUid) /\ Given(kc[k], LastUid)
           /\ \A i \in DOMAIN kwatch[k] : Given(kwatch[k][i], LastUid)
           /\ \A w \in Workers : wk[w].key = k =>
                 /\ wk[w] \in Busy /\ wk[w].ky \in KanaryObjects
                 /\ Given(wk[w].ky, LastUid)
<1>1. kan[k] \in Objects /\ kc[k] \in Objects /\ kwatch[k] \in Seq(Objects)
  BY TypeParts DEF KanariesTyped, CachesTyped
<1>2. cm[k] \in MaybeConfigMap /\ dep[k] \in MaybeDeployment
  BY TypeParts DEF OwnedTyped, MaybeConfigMap, MaybeDeployment
<1>3. /\ Given(kan[k], LastUid) /\ Given(kc[k], LastUid)
      /\ \A i \in DOMAIN kwatch[k] : Given(kwatch[k][i], LastUid)
      /\ \A w \in Workers : wk[w].key = k => Given(wk[w].ky, LastUid)
  BY DEF Copies, CopyOf, Given
<1>4. \A w \in Workers : wk[w].key = k => wk[w] \in Busy
  BY TypeParts, ControllerAssumption DEF WorkersTyped, IdleWorker
<1> QED
  BY <1>1, <1>2, <1>3, <1>4, LastUidType DEF Busy

\* A step that concerns one key at most.
Elsewhere(k) ==
    \A j \in Kanaries \ {k} :
        /\ kan'[j] = kan[j] /\ cm'[j] = cm[j] /\ dep'[j] = dep[j]
        /\ kc'[j] = kc[j] /\ kwatch'[j] = kwatch[j]
        /\ \A w \in Workers : wk'[w].key = j => wk'[w] = wk[w]

\* A key whose objects, copies and worker are left alone stays backed.
LEMMA SameKeyBacked ==
    ASSUME TypeOK, Copies, NEW k \in Kanaries, KeyBacked(k),
           kan'[k] = kan[k], cm'[k] = cm[k], dep'[k] = dep[k],
           kc'[k] = kc[k], kwatch'[k] = kwatch[k],
           \A w \in Workers : wk'[w].key = k => wk'[w] = wk[w],
           LastUid' \in Int, LastUid =< LastUid'
    PROVE  KeyBacked(k)'
<1>1. ObjectsBacked(kan[k], cm[k], dep[k], kc[k], LastUid')
  BY KeyTypes, UidType DEF KeyBacked, ObjectsBacked
<1>2. ASSUME NEW w \in Workers, wk'[w].key = k
      PROVE  WorkerBacked(wk'[w], kan[k], cm[k], dep[k], kc[k])
  <2>1. wk'[w] = wk[w] /\ wk[w].key = k
    BY <1>2
  <2> QED
    BY <2>1 DEF KeyBacked
<1> QED
  BY <1>1, <1>2 DEF KeyBacked

\* A step that disturbs one key need only be looked at there.
LEMMA OneKeyBacked ==
    ASSUME TypeOK, Copies, Backed, NEW k \in Kanaries, Elsewhere(k), KeyBacked(k)',
           LastUid' \in Int, LastUid =< LastUid'
    PROVE  Backed'
<1>1. ASSUME NEW j \in Kanaries \ {k} PROVE KeyBacked(j)'
  BY SameKeyBacked DEF Backed, Elsewhere
<1> QED
  BY <1>1 DEF Backed

\* Steps that touch nothing of this.
LEMMA FrameBacked ==
    ASSUME TypeOK, Copies, Backed, UNCHANGED <<kan, cm, dep, kc, kwatch, wk>>,
           LastUid' \in Int, LastUid =< LastUid'
    PROVE  Backed'
BY SameKeyBacked DEF Backed

-----------------------------------------------------------------------------
(* Users, informers and the garbage collector *)

\* A write of one Kanary that leaves the workers.
LEMMA PutBacked ==
    ASSUME TypeOK, Copies, Backed, NEW k \in Kanaries, NEW o2 \in Objects,
           PutKanary(k, o2), UNCHANGED <<cm, dep, kc, wk>>,
           LastUid' \in Int, LastUid =< LastUid',
           Begins(o2, LastUid, LastUid') \/ Continues(kan[k], o2, cm[k], dep[k])
    PROVE  Backed'
<1>1. /\ kan \in [Kanaries -> Objects] /\ kwatch \in [Kanaries -> Seq(Objects)]
  BY TypeParts DEF KanariesTyped
<1>2. \A j \in Kanaries : /\ kan'[j] = IF j = k THEN o2 ELSE kan[j]
                          /\ kwatch'[j] = IF j = k THEN Append(kwatch[k], o2)
                                         ELSE kwatch[j]
  BY <1>1 DEF PutKanary
<1>3. Elsewhere(k)
  BY <1>2 DEF Elsewhere
<1>4. ObjectsBacked(o2, cm[k], dep[k], kc[k], LastUid')
  BY KeyTypes, ChangeBacked DEF Backed, KeyBacked
<1>5. EventsInOrder(o2, kc[k], Append(kwatch[k], o2))
  BY KeyTypes, ChangeEvents DEF Backed, KeyBacked
<1>6. ASSUME NEW w \in Workers, wk[w].key = k
      PROVE  WorkerBacked(wk[w], o2, cm[k], dep[k], kc[k])
  <2>1. WorkerBacked(wk[w], kan[k], cm[k], dep[k], kc[k])
    BY <1>6 DEF Backed, KeyBacked
  <2>2. wk[w].ky \in KanaryObjects /\ Given(wk[w].ky, LastUid)
    BY <1>6, KeyTypes
  <2> QED
    BY <2>1, <2>2, KeyTypes, ChangeBacked DEF Backed, KeyBacked
<1>7. KeyBacked(k)'
  <2>1. kan'[k] = o2 /\ kwatch'[k] = Append(kwatch[k], o2)
    BY <1>2
  <2> QED
    BY <1>4, <1>5, <1>6, <2>1 DEF KeyBacked
<1> QED
  BY <1>3, <1>7, OneKeyBacked

\* A user may create, edit or delete: a new Kanary owns nothing yet.
LEMMA UserBacked ==
    ASSUME TypeOK, Copies, Backed, NEW k \in Kanaries,
           CreateKanary(k) \/ EditKanary(k) \/ DeleteKanary(k),
           LastUid' \in Int, LastUid =< LastUid'
    PROVE  Backed'
<1>k. kan[k] \in Objects
  BY KeyTypes
<1>1. CASE CreateKanary(k)
  <2>1. PICK spec \in Specs :
          PutKanary(k, NewKanary(Limits.create - budget.create + 1, spec))
    BY <1>1 DEF CreateKanary
  <2>2. LastUid' = LastUid + 1
    BY <1>1, SpendLast DEF CreateKanary
  <2>3. NewKanary(LastUid + 1, spec) \in Objects
    <3>1. LastUid + 1 \in Nat
      BY ControllerAssumption, TypeParts DEF LastUid, BudgetTyped, Budget
    <3>2. <<>> \in Statuses
      BY DEF Statuses
    <3> HIDE DEF LastUid
    <3> QED
      BY <3>1, <3>2 DEF NewKanary, Objects, KanaryObjects
  <2>4. Begins(NewKanary(LastUid + 1, spec), LastUid, LastUid')
    <3>1. LastUid \in Int
      BY LastUidType
    <3> QED
      BY <2>2, <3>1 DEF Begins, NewKanary
  <2>5. UNCHANGED <<cm, dep, kc, wk>> /\ PutKanary(k, NewKanary(LastUid + 1, spec))
    BY <1>1, <2>1 DEF CreateKanary, LastUid
  <2> QED
    BY <2>3, <2>4, <2>5, PutBacked
<1>2. CASE EditKanary(k)
  <2>1. PICK spec \in Specs :
          PutKanary(k, NextVersion([kan[k] EXCEPT !.spec = spec]))
    BY <1>2 DEF EditKanary
  <2> DEFINE o2 == NextVersion([kan[k] EXCEPT !.spec = spec])
  <2>2. kan[k] \in KanaryObjects /\ kan[k] # None
    BY <1>k, <1>2 DEF EditKanary, Objects
  <2>3. o2 \in KanaryObjects /\ o2 # None
    BY <2>2, NewKanaryType, NoneAssumption
  <2>4. o2.uid = kan[k].uid /\ o2.config = kan[k].config /\ o2.proxy = kan[k].proxy
    BY <2>2 DEF NextVersion, KanaryObjects
  <2>5. UNCHANGED <<cm, dep, kc, wk>> /\ PutKanary(k, o2)
    BY <1>2, <2>1 DEF EditKanary
  <2> HIDE DEF o2
  <2>6. Continues(kan[k], o2, cm[k], dep[k])
    BY <2>2, <2>3, <2>4 DEF Continues, SameId, Backed, KeyBacked, ObjectsBacked
  <2> QED
    BY <2>3, <2>5, <2>6, PutBacked DEF Objects
<1>3. CASE DeleteKanary(k)
  <2>1. UNCHANGED <<cm, dep, kc, wk>> /\ PutKanary(k, None)
    BY <1>3 DEF DeleteKanary
  <2> QED
    BY <2>1, PutBacked DEF Begins, Objects
<1> QED
  BY <1>1, <1>2, <1>3

\* The caches of a process that starts, and of an informer that lists again.
LEMMA ListBacked ==
    ASSUME TypeOK, Copies, Backed, UNCHANGED <<kan, cm, dep>>,
           kc' = kan, kwatch' = [k \in Kanaries |-> <<>>],
           \A w \in Workers : wk'[w] \in {wk[w], IdleWorker},
           LastUid' \in Int, LastUid =< LastUid'
    PROVE  Backed'
<1> SUFFICES ASSUME NEW k \in Kanaries PROVE KeyBacked(k)'
  BY DEF Backed
<1>1. SameId(kc[k], kan[k]) => SameId(kan[k], kan[k])
  BY DEF SameId
<1>2. ObjectsBacked(kan[k], cm[k], dep[k], kc[k], LastUid')
  BY KeyTypes, UidType DEF Backed, KeyBacked, ObjectsBacked
<1>3. ObjectsBacked(kan[k], cm[k], dep[k], kan[k], LastUid')
  BY <1>1, <1>2, CacheBacked
<1>4. EventsInOrder(kan[k], kan[k], <<>>)
  BY DEF EventsInOrder, Known
<1>5. ASSUME NEW w \in Workers, wk'[w].key = k
      PROVE  WorkerBacked(wk'[w], kan[k], cm[k], dep[k], kan[k])
  <2>1. IdleWorker.key # k
    BY ControllerAssumption DEF IdleWorker
  <2>2. wk'[w] = wk[w] /\ wk[w].key = k
    BY <1>5, <2>1
  <2>3. WorkerBacked(wk[w], kan[k], cm[k], dep[k], kc[k])
    BY <2>2 DEF Backed, KeyBacked
  <2>4. WorkerBacked(wk[w], kan[k], cm[k], dep[k], kan[k])
    BY <1>1, <1>2, <2>3, CacheBacked
  <2> QED
    BY <2>2, <2>4
<1> QED
  BY <1>3, <1>4, <1>5 DEF KeyBacked

\* An event makes the cache no older.
LEMMA DeliverBacked ==
    ASSUME TypeOK, Copies, Backed, NEW k \in Kanaries, DeliverKanary(k),
           LastUid' \in Int, LastUid =< LastUid'
    PROVE  Backed'
<1>1. /\ kwatch \in [Kanaries -> Seq(Objects)] /\ kc \in [Kanaries -> Objects]
      /\ kwatch[k] # <<>> /\ UNCHANGED <<kan, cm, dep, wk>>
      /\ kwatch' = [kwatch EXCEPT ![k] = Tail(@)]
      /\ kc' = [kc EXCEPT ![k] = Head(kwatch[k])]
  BY TypeParts DEF KanariesTyped, CachesTyped, DeliverKanary, api
<1>2. \A j \in Kanaries : /\ kwatch'[j] = IF j = k THEN Tail(kwatch[k]) ELSE kwatch[j]
                          /\ kc'[j] = IF j = k THEN Head(kwatch[k]) ELSE kc[j]
  BY <1>1
<1>3. Elsewhere(k)
  BY <1>1, <1>2 DEF Elsewhere
<1>4. /\ EventsInOrder(kan[k], Head(kwatch[k]), Tail(kwatch[k]))
      /\ SameId(kc[k], kan[k]) => SameId(Head(kwatch[k]), kan[k])
  BY <1>1, KeyTypes, DeliverEvents DEF Backed, KeyBacked
<1>5. ObjectsBacked(kan[k], cm[k], dep[k], kc[k], LastUid')
  BY KeyTypes, UidType DEF Backed, KeyBacked, ObjectsBacked
<1>6. /\ ObjectsBacked(kan[k], cm[k], dep[k], Head(kwatch[k]), LastUid')
      /\ \A w \in Workers : wk[w].key = k =>
            WorkerBacked(wk[w], kan[k], cm[k], dep[k], Head(kwatch[k]))
  BY <1>4, <1>5, CacheBacked DEF Backed, KeyBacked
<1>7. KeyBacked(k)'
  <2>1. kwatch'[k] = Tail(kwatch[k]) /\ kc'[k] = Head(kwatch[k])
    BY <1>2
  <2> QED
    BY <1>1, <1>4, <1>6, <2>1 DEF KeyBacked
<1> QED
  BY <1>3, <1>7, OneKeyBacked

\* The garbage collector takes only what the stored Kanary does not own.
LEMMA GarbageBacked ==
    ASSUME TypeOK, Copies, Backed, NEW k \in Kanaries, CollectGarbage(k),
           LastUid' = LastUid
    PROVE  Backed'
<1>1. UNCHANGED <<kan, kc, kwatch, wk>> /\ LastUid \in Int
  BY LastUidType DEF CollectGarbage, informers
<1>2. cm \in [Kanaries -> MaybeConfigMap] /\ dep \in [Kanaries -> MaybeDeployment]
  BY TypeParts DEF OwnedTyped, MaybeConfigMap, MaybeDeployment
<1>3. \A x : ~SameId(None, x)
  BY DEF SameId
<1>4. CASE ~SameId(cm[k], kan[k]) /\ cm' = [cm EXCEPT ![k] = None] /\ UNCHANGED dep
  <2>1. \A j \in Kanaries : cm'[j] = IF j = k THEN None ELSE cm[j]
    BY <1>2, <1>4
  <2>2. Elsewhere(k)
    BY <1>1, <1>4, <2>1 DEF Elsewhere
  <2>3. ObjectsBacked(kan[k], None, dep[k], kc[k], LastUid)
    BY <1>3, <1>4 DEF Backed, KeyBacked, ObjectsBacked
  <2>4. \A w \in Workers : wk[w].key = k =>
          WorkerBacked(wk[w], kan[k], None, dep[k], kc[k])
    BY <1>3, <1>4 DEF Backed, KeyBacked, WorkerBacked, Progress
  <2>5. KeyBacked(k)'
    <3>1. cm'[k] = None
      BY <2>1
    <3> QED
      BY <1>1, <1>4, <2>3, <2>4, <3>1 DEF Backed, KeyBacked
  <2> QED
    BY <1>1, <2>2, <2>5, OneKeyBacked
<1>5. CASE ~SameId(dep[k], kan[k]) /\ dep' = [dep EXCEPT ![k] = None] /\ UNCHANGED cm
  <2>1. \A j \in Kanaries : dep'[j] = IF j = k THEN None ELSE dep[j]
    BY <1>2, <1>5
  <2>2. Elsewhere(k)
    BY <1>1, <1>5, <2>1 DEF Elsewhere
  <2>3. ObjectsBacked(kan[k], cm[k], None, kc[k], LastUid)
    BY <1>3, <1>5 DEF Backed, KeyBacked, ObjectsBacked
  <2>4. \A w \in Workers : wk[w].key = k =>
          WorkerBacked(wk[w], kan[k], cm[k], None, kc[k])
    BY <1>3, <1>5 DEF Backed, KeyBacked, WorkerBacked, Progress
  <2>5. KeyBacked(k)'
    <3>1. dep'[k] = None
      BY <2>1
    <3> QED
      BY <1>1, <1>5, <2>3, <2>4, <3>1 DEF Backed, KeyBacked
  <2> QED
    BY <1>1, <2>2, <2>5, OneKeyBacked
<1>6. CASE UNCHANGED <<cm, dep>>
  BY <1>1, <1>6, FrameBacked
<1> QED
  BY <1>4, <1>5, <1>6 DEF CollectGarbage, Owned, SameId

-----------------------------------------------------------------------------
(* syncKanary *)

\* Nothing of another key changes but perhaps a worker that becomes idle.
ObjectsElsewhere(k) ==
    \A j \in Kanaries \ {k} :
        /\ kan'[j] = kan[j] /\ cm'[j] = cm[j] /\ dep'[j] = dep[j]
        /\ kc'[j] = kc[j] /\ kwatch'[j] = kwatch[j]

\* A step of the only worker that has the key, or takes it.
LEMMA TurnBacked ==
    ASSUME TypeOK, Copies, Backed, LastUid' = LastUid,
           NEW w \in Workers, NEW k \in Kanaries,
           \A v \in Workers \ {w} : wk[v].key # k,
           NEW n, wk' = [wk EXCEPT ![w] = n], n = IdleWorker \/ n.key = k,
           ObjectsElsewhere(k),
           ObjectsBacked(kan[k], cm[k], dep[k], kc[k], LastUid)',
           EventsInOrder(kan[k], kc[k], kwatch[k])',
           n.key = k => WorkerBacked(n, kan'[k], cm'[k], dep'[k], kc'[k])
    PROVE  Backed'
<1>1. \A v \in Workers : wk'[v] = IF v = w THEN n ELSE wk[v]
  BY TypeParts DEF WorkersTyped
<1>2. IdleWorker.key \notin Kanaries
  BY ControllerAssumption DEF IdleWorker
<1>3. Elsewhere(k)
  BY <1>1, <1>2 DEF Elsewhere, ObjectsElsewhere
<1>4. KeyBacked(k)'
  <2>1. ASSUME NEW v \in Workers, wk'[v].key = k
        PROVE  WorkerBacked(wk'[v], kan'[k], cm'[k], dep'[k], kc'[k])
    <3>1. v = w /\ wk'[v] = n
      BY <1>1, <2>1
    <3> QED
      BY <2>1, <3>1
  <2> QED
    BY <2>1 DEF KeyBacked
<1> QED
  BY <1>3, <1>4, OneKeyBacked, LastUidType

\* A worker that has the key has it alone.
LEMMA Alone ==
    ASSUME TypeOK, OneWorkerPerKey, NEW w \in Workers, wk[w].pc \in Calls
    PROVE  \A v \in Workers \ {w} : wk[v].key # wk[w].key
BY BusyWorker, ControllerAssumption, IdleWorkerOK
DEF OneWorkerPerKey, Calls, IdleWorker

\* What comes after a step that is skipped.
LaterCalls == {"ref", "deployment", "service"}

\* Skipping steps leads past the status of the list.
LEMMA SkipTo ==
    ASSUME NEW r \in Busy, NEW n, n \in {ToService(r), ToDeployment(r), ToRefs(r)}
    PROVE  \/ n = IdleWorker
           \/ /\ n.key = r.key /\ n.ky = r.ky /\ n.exp = r.exp
              /\ n.pc \in LaterCalls
<1>1. \A p \in Calls : /\ At(r, p).key = r.key /\ At(r, p).ky = r.ky
                       /\ At(r, p).exp = r.exp /\ At(r, p).pc = p
  BY DEF At, Busy
<1> DEFINE Good(x) == \/ x = IdleWorker
                      \/ /\ x.key = r.key /\ x.ky = r.ky /\ x.exp = r.exp
                         /\ x.pc \in LaterCalls
<1>2. \A p \in LaterCalls : Good(At(r, p))
  BY <1>1 DEF LaterCalls, Calls
<1> HIDE DEF Good
<1>3. Good(IdleWorker)
  BY DEF Good
<1>4. Good(ToService(r))
  BY <1>2, <1>3 DEF ToService, LaterCalls
<1>5. Good(ToDeployment(r))
  BY <1>2, <1>4 DEF ToDeployment, LaterCalls
<1>6. Good(ToRefs(r))
  BY <1>2, <1>5 DEF ToRefs, LaterCalls
<1> QED
  BY <1>4, <1>5, <1>6 DEF Good

\* How a turn begins.
LEMMA StartTurn ==
    ASSUME TypeOK, NEW w \in Workers, NEW k \in Kanaries, StartSync(w, k)
    PROVE  \/ wk' = [wk EXCEPT ![w] = IdleWorker]
           \/ \E r \in Busy :
                 /\ r.pc = "configMap" /\ r.key = k /\ r.ky = kc[k]
                 /\ r.exp = buildExpectedEndpointStatus(kc[k].spec.routes, ec)
                 /\ \/ wk' = [wk EXCEPT ![w] = r]
                    \/ /\ deepEqualEndpointStatusList(r.exp, r.ky.eps)
                       /\ wk' = [wk EXCEPT ![w] = ToDeployment(r)]
<1> DEFINE built == buildExpectedEndpointStatus(kc[k].spec.routes, ec)
           r == [pc |-> "configMap", key |-> k, ky |-> kc[k], exp |-> built, i |-> 1]
<1>1. kc[k] = None \/ r \in Busy
  <2>1. kc[k] # None => kc[k] \in KanaryObjects /\ kc[k].spec \in Specs
    BY TypeParts DEF CachesTyped, Objects, KanaryObjects
  <2>2. ec \in [Services -> EndpointsObjects]
    BY TypeParts DEF CachesTyped
  <2>3. kc[k] # None => built \in Statuses
    BY <2>1, <2>2, BuildType
  <2> HIDE DEF built
  <2> QED
    BY <2>1, <2>3 DEF Busy, Calls
<1>2. \/ wk' = [wk EXCEPT ![w] = IdleWorker]
      \/ /\ kc[k] # None
         /\ \/ wk' = [wk EXCEPT ![w] = r]
            \/ /\ deepEqualEndpointStatusList(built, kc[k].eps)
               /\ wk' = [wk EXCEPT ![w] = ToDeployment(r)]
  BY DEF StartSync
<1>3. r.pc = "configMap" /\ r.key = k /\ r.ky = kc[k] /\ r.exp = built
  OBVIOUS
<1> HIDE DEF r
<1> QED
  BY <1>1, <1>2, <1>3

\* The copy a turn begins with may be of an earlier Kanary of the name, but
\* then no ConfigMap of the present one exists yet.
LEMMA StartBacked ==
    ASSUME TypeOK, Copies, Backed, NEW w \in Workers, NEW k \in Kanaries,
           StartSync(w, k)
    PROVE  Backed'
<1>1. /\ UNCHANGED <<kan, cm, dep, kc, kwatch, budget>> /\ wk[w] = IdleWorker
      /\ \A v \in Workers : wk[v].key # k
  BY DEF StartSync, Available, api, informers
<1>2. PICK n : /\ wk' = [wk EXCEPT ![w] = n]
               /\ \/ n = IdleWorker
                  \/ /\ n.key = k /\ n.ky = kc[k]
                     /\ n.pc \in LaterCalls \cup {"configMap"}
  <2>1. CASE wk' = [wk EXCEPT ![w] = IdleWorker]
    BY <2>1
  <2>2. ASSUME NEW r \in Busy, r.pc = "configMap", r.key = k, r.ky = kc[k],
               \/ wk' = [wk EXCEPT ![w] = r]
               \/ wk' = [wk EXCEPT ![w] = ToDeployment(r)]
        PROVE  \E n : /\ wk' = [wk EXCEPT ![w] = n]
                      /\ \/ n = IdleWorker
                         \/ /\ n.key = k /\ n.ky = kc[k]
                            /\ n.pc \in LaterCalls \cup {"configMap"}
    BY <2>2, SkipTo
  <2> QED
    BY <2>1, <2>2, StartTurn
<1>3. n.key = k => WorkerBacked(n, kan[k], cm[k], dep[k], kc[k])
  <2> SUFFICES ASSUME n.key = k PROVE WorkerBacked(n, kan[k], cm[k], dep[k], kc[k])
    OBVIOUS
  <2>1. n.ky = kc[k] /\ n.pc \in LaterCalls \cup {"configMap"}
    BY <1>2, ControllerAssumption DEF IdleWorker
  <2>2. Progress(n, kan[k], cm[k], dep[k])
    BY <2>1 DEF Progress, LaterCalls
  <2> QED
    BY <2>1, <2>2 DEF WorkerBacked, Backed, KeyBacked, ObjectsBacked, EventsInOrder
<1>4. /\ ObjectsBacked(kan[k], cm[k], dep[k], kc[k], LastUid)'
      /\ EventsInOrder(kan[k], kc[k], kwatch[k])'
  BY <1>1 DEF Backed, KeyBacked, LastUid
<1>5. ObjectsElsewhere(k) /\ LastUid' = LastUid
  BY <1>1 DEF ObjectsElsewhere, LastUid
<1> QED
  BY <1>1, <1>2, <1>3, <1>4, <1>5, TurnBacked

\* The worker goes on to a call that relies on nothing it has done before.
LEMMA GoOnBacked ==
    ASSUME TypeOK, Copies, OneWorkerPerKey, Backed,
           NEW w \in Workers, wk[w].pc \in Calls,
           UNCHANGED <<kan, cm, dep, kc, kwatch>>, LastUid' = LastUid,
           NEW n, wk' = [wk EXCEPT ![w] = n],
           \/ n = IdleWorker
           \/ /\ n.key = wk[w].key /\ n.ky = wk[w].ky
              /\ n.pc \in LaterCalls \cup {"recreateService", "statusService"}
    PROVE  Backed'
<1>1. PICK k \in Kanaries : k = wk[w].key
  BY BusyWorker
<1>2. /\ ObjectsBacked(kan[k], cm[k], dep[k], kc[k], LastUid)'
      /\ EventsInOrder(kan[k], kc[k], kwatch[k])'
      /\ ObjectsElsewhere(k)
  BY DEF Backed, KeyBacked, ObjectsElsewhere
<1>3. n.key = k => WorkerBacked(n, kan'[k], cm'[k], dep'[k], kc'[k])
  <2> SUFFICES ASSUME n.key = k PROVE WorkerBacked(n, kan[k], cm[k], dep[k], kc[k])
    OBVIOUS
  <2>1. /\ n.ky = wk[w].ky
        /\ n.pc \in LaterCalls \cup {"recreateService", "statusService"}
    BY ControllerAssumption DEF IdleWorker
  <2>2. Progress(n, kan[k], cm[k], dep[k])
    BY <2>1 DEF Progress, LaterCalls
  <2>3. WorkerBacked(wk[w], kan[k], cm[k], dep[k], kc[k])
    BY <1>1 DEF Backed, KeyBacked
  <2> QED
    BY <2>1, <2>2, <2>3 DEF WorkerBacked
<1>4. \A v \in Workers \ {w} : wk[v].key # k
  BY <1>1, Alone
<1> QED
  BY <1>1, <1>2, <1>3, <1>4, TurnBacked

\* Values: the worker r has written the ConfigMap c2 and goes on as n.
LEMMA ConfigMapWritten ==
    ASSUME NEW o, NEW c, NEW c2, NEW d, NEW cache, NEW last, NEW r, NEW n,
           ObjectsBacked(o, c, d, cache, last), WorkerBacked(r, o, c, d, cache),
           r.ky # None, Given(r.ky, last), c2 # None, c2.uid = r.ky.uid,
           c2.servers = newHAProxyController(r.exp),
           n.ky = r.ky, n.exp = r.exp,
           n.pc = "rollout" \/ (n.pc = "statusConfigMap" /\ c = None)
    PROVE  /\ ObjectsBacked(o, c2, d, cache, last)
           /\ WorkerBacked(n, o, c2, d, cache)
<1>1. SameId(c2, o) <=> SameId(r.ky, o)
  BY DEF SameId
<1>2. SameId(c, o) => SameId(r.ky, o)
  BY DEF WorkerBacked
<1>3. ObjectsBacked(o, c2, d, cache, last)
  BY <1>1, <1>2 DEF ObjectsBacked, WorkerBacked, Given
<1>4. n.pc = "statusConfigMap" => ~SameId(d, o)
  BY DEF ObjectsBacked, SameId
<1>5. SameId(r.ky, o) => Progress(n, o, c2, d)
  BY <1>1, <1>4 DEF Progress
<1> QED
  BY <1>1, <1>3, <1>5 DEF WorkerBacked

\* Values: the Deployment d2 has been restarted with what c holds.
LEMMA DeploymentRolled ==
    ASSUME NEW o, NEW c, NEW d, NEW d2, NEW cache, NEW last, NEW r, NEW n,
           ObjectsBacked(o, c, d, cache, last), WorkerBacked(r, o, c, d, cache),
           r.pc = "rollout", n.pc = "statusConfigMap", n.ky = r.ky, n.exp = r.exp,
           d # None, d2 # None, d2.uid = d.uid,
           c # None => d2.rolled = c.servers /\ c.servers # None
    PROVE  /\ ObjectsBacked(o, c, d2, cache, last)
           /\ WorkerBacked(n, o, c, d2, cache)
<1>1. SameId(d2, o) <=> SameId(d, o)
  BY DEF SameId
<1>2. SameId(c, o) => d2.rolled = c.servers /\ c.servers # None
  BY DEF SameId
<1>3. ObjectsBacked(o, c, d2, cache, last)
  BY <1>1, <1>2 DEF ObjectsBacked
<1>4. SameId(r.ky, o) => Progress(n, o, c, d2)
  BY <1>2 DEF WorkerBacked, Progress
<1> QED
  BY <1>3, <1>4 DEF WorkerBacked

\* Values: the Deployment d2 has been created.
LEMMA DeploymentCreated ==
    ASSUME NEW o, NEW c, NEW d2, NEW cache, NEW last, NEW r, NEW n,
           ObjectsBacked(o, c, None, cache, last), WorkerBacked(r, o, c, None, cache),
           r.ky # None, r.ky.config, Given(r.ky, last),
           n.pc = "statusDeployment", n.ky = r.ky,
           d2 # None, d2.uid = r.ky.uid,
           c # None => d2.rolled = c.servers /\ c.servers # None
    PROVE  /\ ObjectsBacked(o, c, d2, cache, last)
           /\ WorkerBacked(n, o, c, d2, cache)
<1>1. SameId(d2, o) <=> SameId(r.ky, o)
  BY DEF SameId
<1>2. SameId(r.ky, o) => SameId(c, o)
  BY DEF WorkerBacked, Known, ObjectsBacked, SameId
<1>3. SameId(c, o) => d2.rolled = c.servers /\ c.servers # None
  BY DEF SameId
<1>4. o # None => ~o.proxy
  BY DEF ObjectsBacked, SameId
<1>5. ObjectsBacked(o, c, d2, cache, last)
  BY <1>1, <1>2, <1>3, <1>4 DEF ObjectsBacked, Given
<1>6. SameId(r.ky, o) => Progress(n, o, c, d2)
  BY <1>1 DEF Progress
<1> QED
  BY <1>5, <1>6 DEF WorkerBacked

\* What a worker that is busy knows.
LEMMA BusyTypes ==
    ASSUME TypeOK, Copies, Backed, NEW w \in Workers, wk[w].pc \in Calls,
           NEW k \in Kanaries, k = wk[w].key
    PROVE  /\ wk[w] \in Busy /\ wk[w].ky \in KanaryObjects /\ wk[w].ky # None
           /\ Given(wk[w].ky, LastUid)
           /\ ObjectsBacked(kan[k], cm[k], dep[k], kc[k], LastUid)
           /\ EventsInOrder(kan[k], kc[k], kwatch[k])
           /\ WorkerBacked(wk[w], kan[k], cm[k], dep[k], kc[k])
           /\ \A p \in Calls : /\ At(wk[w], p).key = k /\ At(wk[w], p).pc = p
                               /\ At(wk[w], p).ky = wk[w].ky
                               /\ At(wk[w], p).exp = wk[w].exp
<1>1. wk[w] \in Busy /\ wk[w].ky \in KanaryObjects /\ wk[w].ky # None
      /\ Given(wk[w].ky, LastUid)
  BY KeyTypes, NoneAssumption
<1>2. /\ ObjectsBacked(kan[k], cm[k], dep[k], kc[k], LastUid)
      /\ EventsInOrder(kan[k], kc[k], kwatch[k])
      /\ WorkerBacked(wk[w], kan[k], cm[k], dep[k], kc[k])
  BY DEF Backed, KeyBacked
<1>3. \A p \in Calls : /\ At(wk[w], p).key = k /\ At(wk[w], p).pc = p
                       /\ At(wk[w], p).ky = wk[w].ky
                       /\ At(wk[w], p).exp = wk[w].exp
  BY <1>1 DEF At, Busy
<1> QED
  BY <1>1, <1>2, <1>3

\* Creating the ConfigMap, or replacing its contents.
LEMMA ConfigMapBacked ==
    ASSUME TypeOK, Copies, OneWorkerPerKey, Backed, LastUid' = LastUid,
           NEW w \in Workers, CreateConfigMap(w) \/ UpdateConfigMap(w)
    PROVE  Backed'
<1>1. wk[w].pc \in Calls /\ UNCHANGED <<kan, dep, kc, kwatch>>
  BY DEF CreateConfigMap, UpdateConfigMap, informers, Calls
<1>2. PICK k \in Kanaries : k = wk[w].key
  BY <1>1, BusyWorker
<1>3. CASE Return(w) /\ UNCHANGED cm
  BY <1>1, <1>3, GoOnBacked DEF Return
<1>4. ASSUME NEW m, m.key = k, m.ky = wk[w].ky, m.exp = wk[w].exp,
             m.pc = "rollout" \/ (m.pc = "statusConfigMap" /\ cm[k] = None),
             cm' = [cm EXCEPT ![k] = newConfigMap(wk[w])],
             NEW n \in {m, IdleWorker}, wk' = [wk EXCEPT ![w] = n]
      PROVE  Backed'
  <2> DEFINE c2 == newConfigMap(wk[w])
  <2>1. c2 # None /\ c2.uid = wk[w].ky.uid
        /\ c2.servers = newHAProxyController(wk[w].exp)
    <3>1. c2 \in ConfigMapObjects
      BY <1>1, <1>2, BusyTypes, OwnedObjectsType
    <3> QED
      BY <3>1, NoneAssumption DEF newConfigMap
  <2> HIDE DEF c2
  <2>2. /\ ObjectsBacked(kan[k], c2, dep[k], kc[k], LastUid)
        /\ WorkerBacked(m, kan[k], c2, dep[k], kc[k])
    <3>1. /\ ObjectsBacked(kan[k], cm[k], dep[k], kc[k], LastUid)
          /\ WorkerBacked(wk[w], kan[k], cm[k], dep[k], kc[k])
          /\ wk[w].ky # None /\ Given(wk[w].ky, LastUid)
      BY <1>1, <1>2, BusyTypes
    <3> QED
      BY <1>4, <2>1, <3>1, ConfigMapWritten
  <2>3. \A j \in Kanaries : cm'[j] = IF j = k THEN c2 ELSE cm[j]
    BY <1>4, TypeParts DEF OwnedTyped, c2
  <2>4. ObjectsElsewhere(k)
    BY <1>1, <2>3 DEF ObjectsElsewhere
  <2>5. /\ ObjectsBacked(kan[k], cm[k], dep[k], kc[k], LastUid)'
        /\ EventsInOrder(kan[k], kc[k], kwatch[k])'
        /\ WorkerBacked(m, kan'[k], cm'[k], dep'[k], kc'[k])
    <3>1. cm'[k] = c2
      BY <2>3
    <3> QED
      BY <1>1, <1>2, <2>2, <3>1, BusyTypes
  <2>6. n = IdleWorker \/ n.key = k
    BY <1>4
  <2>7. n.key = k => n = m
    BY <1>4, ControllerAssumption DEF IdleWorker
  <2> QED
    BY <1>1, <1>2, <1>4, <2>4, <2>5, <2>6, <2>7, Alone, TurnBacked
<1>5. \/ Return(w) /\ UNCHANGED cm
      \/ /\ cm' = [cm EXCEPT ![k] = newConfigMap(wk[w])]
         /\ \/ Answer(w, At(wk[w], "rollout"))
            \/ Answer(w, At(wk[w], "statusConfigMap")) /\ cm[k] = None
  BY <1>2 DEF CreateConfigMap, UpdateConfigMap
<1>6. ASSUME NEW p \in {"rollout", "statusConfigMap"}, Answer(w, At(wk[w], p)),
             p = "statusConfigMap" => cm[k] = None,
             cm' = [cm EXCEPT ![k] = newConfigMap(wk[w])]
      PROVE  Backed'
  <2>1. p \in Calls
    BY DEF Calls
  <2>2. PICK m : m = At(wk[w], p)
    OBVIOUS
  <2>3. /\ m.key = k /\ m.ky = wk[w].ky /\ m.exp = wk[w].exp /\ m.pc = p
    BY <1>1, <1>2, <2>1, <2>2, BusyTypes
  <2>4. \E n \in {m, IdleWorker} : wk' = [wk EXCEPT ![w] = n]
    BY <1>6, <2>2 DEF Answer
  <2> QED
    BY <1>4, <1>6, <2>3, <2>4
<1> QED
  BY <1>3, <1>5, <1>6

\* The rolling update, and creating the Deployment.
LEMMA DeploymentBacked ==
    ASSUME TypeOK, Copies, OneWorkerPerKey, Backed, LastUid' = LastUid,
           NEW w \in Workers, performRollingUpdate(w) \/ CreateDeployment(w)
    PROVE  Backed'
<1>1. wk[w].pc \in Calls /\ UNCHANGED <<kan, cm, kc, kwatch>>
  BY DEF performRollingUpdate, CreateDeployment, informers, Calls
<1>2. PICK k \in Kanaries : k = wk[w].key
  BY <1>1, BusyWorker
<1>3. CASE Return(w) /\ UNCHANGED dep
  BY <1>1, <1>3, GoOnBacked DEF Return
<1>4. /\ Mounted(k) \in Configs \cup {None}
      /\ cm[k] # None => Mounted(k) = cm[k].servers /\ cm[k].servers # None
  <2>1. cm[k] # None => cm[k].servers \in Configs
    BY TypeParts DEF OwnedTyped, ConfigMapObjects
  <2> QED
    BY <2>1, NoneAssumption DEF Mounted
<1>5. ASSUME NEW d2, NEW m, m.key = k,
             dep' = [dep EXCEPT ![k] = d2],
             ObjectsBacked(kan[k], cm[k], d2, kc[k], LastUid),
             WorkerBacked(m, kan[k], cm[k], d2, kc[k]),
             NEW n \in {m, IdleWorker}, wk' = [wk EXCEPT ![w] = n]
      PROVE  Backed'
  <2>1. \A j \in Kanaries : dep'[j] = IF j = k THEN d2 ELSE dep[j]
    BY <1>5, TypeParts DEF OwnedTyped
  <2>2. ObjectsElsewhere(k)
    BY <1>1, <2>1 DEF ObjectsElsewhere
  <2>3. /\ ObjectsBacked(kan[k], cm[k], dep[k], kc[k], LastUid)'
        /\ EventsInOrder(kan[k], kc[k], kwatch[k])'
        /\ WorkerBacked(m, kan'[k], cm'[k], dep'[k], kc'[k])
    <3>1. dep'[k] = d2
      BY <2>1
    <3> QED
      BY <1>1, <1>2, <1>5, <3>1, BusyTypes
  <2>4. n = IdleWorker \/ n.key = k
    BY <1>5
  <2>5. n.key = k => n = m
    BY <1>5, ControllerAssumption DEF IdleWorker
  <2> QED
    BY <1>1, <1>2, <1>5, <2>2, <2>3, <2>4, <2>5, Alone, TurnBacked
<1>6. /\ ObjectsBacked(kan[k], cm[k], dep[k], kc[k], LastUid)
      /\ WorkerBacked(wk[w], kan[k], cm[k], dep[k], kc[k])
      /\ wk[w].ky # None /\ Given(wk[w].ky, LastUid)
  BY <1>1, <1>2, BusyTypes
<1>7. CASE performRollingUpdate(w) /\ ~(Return(w) /\ UNCHANGED dep)
  <2>1. PICK d2 : d2 = [dep[k] EXCEPT !.rolled = Mounted(k)]
    OBVIOUS
  <2>2. PICK m : m = At(wk[w], "statusConfigMap")
    OBVIOUS
  <2>3. /\ wk[w].pc = "rollout" /\ dep[k] # None /\ dep' = [dep EXCEPT ![k] = d2]
        /\ \E n \in {m, IdleWorker} : wk' = [wk EXCEPT ![w] = n]
    BY <1>2, <1>7, <2>1, <2>2 DEF performRollingUpdate, Answer
  <2>4. /\ m.key = k /\ m.ky = wk[w].ky /\ m.exp = wk[w].exp
        /\ m.pc = "statusConfigMap"
    BY <1>1, <1>2, <2>2, BusyTypes DEF Calls
  <2>5. d2 # None /\ d2.uid = dep[k].uid /\ d2.rolled = Mounted(k)
    <3>1. dep[k] \in DeploymentObjects
      BY <2>3, TypeParts DEF OwnedTyped
    <3>2. d2 \in DeploymentObjects /\ d2.uid = dep[k].uid /\ d2.rolled = Mounted(k)
      BY <1>4, <2>1, <3>1 DEF DeploymentObjects
    <3> QED
      BY <3>2, NoneAssumption
  <2>6. cm[k] # None => d2.rolled = cm[k].servers /\ cm[k].servers # None
    BY <1>4, <2>5
  <2>7. /\ ObjectsBacked(kan[k], cm[k], d2, kc[k], LastUid)
        /\ WorkerBacked(m, kan[k], cm[k], d2, kc[k])
    BY <1>6, <2>3, <2>4, <2>5, <2>6, DeploymentRolled
  <2> QED
    BY <1>5, <2>3, <2>4, <2>7
<1>8. CASE CreateDeployment(w) /\ ~(Return(w) /\ UNCHANGED dep)
  <2>1. PICK d2 : d2 = newDeployementHA(wk[w])
    OBVIOUS
  <2>2. PICK m : m = At(wk[w], "statusDeployment")
    OBVIOUS
  <2>3. /\ dep[k] = None /\ wk[w].ky.config /\ dep' = [dep EXCEPT ![k] = d2]
        /\ \E n \in {m, IdleWorker} : wk' = [wk EXCEPT ![w] = n]
    BY <1>2, <1>8, <2>1, <2>2 DEF CreateDeployment, Answer
  <2>4. /\ m.key = k /\ m.ky = wk[w].ky /\ m.pc = "statusDeployment"
    BY <1>1, <1>2, <2>2, BusyTypes DEF Calls
  <2>5. d2 # None /\ d2.uid = wk[w].ky.uid /\ d2.rolled = Mounted(k)
    <3>1. d2 \in DeploymentObjects
      BY <1>1, <1>2, <2>1, BusyTypes, OwnedObjectsType
    <3> QED
      BY <1>2, <2>1, <3>1, NoneAssumption DEF newDeployementHA
  <2>6. cm[k] # None => d2.rolled = cm[k].servers /\ cm[k].servers # None
    BY <1>4, <2>5
  <2>7. /\ ObjectsBacked(kan[k], cm[k], d2, kc[k], LastUid)
        /\ WorkerBacked(m, kan[k], cm[k], d2, kc[k])
    BY <1>6, <2>3, <2>4, <2>5, <2>6, DeploymentCreated
  <2> QED
    BY <1>5, <2>3, <2>4, <2>7
<1> QED
  BY <1>3, <1>7, <1>8

\* A write of the status by the worker that has the key: it is accepted only
\* from a copy that is the stored object, and records only what is there.
LEMMA WriteBacked ==
    ASSUME TypeOK, Copies, OneWorkerPerKey, Backed, LastUid' = LastUid,
           NEW w \in Workers, wk[w].pc \in Calls,
           NEW k \in Kanaries, k = wk[w].key, IsCurrent(k, wk[w].ky),
           NEW o2 \in KanaryObjects, o2.uid = wk[w].ky.uid,
           wk[w].ky.config => o2.config,
           o2.config => SameId(cm[k], kan[k]),
           o2.proxy => SameId(dep[k], kan[k]),
           \/ UNCHANGED <<kan, kwatch>> /\ o2 = wk[w].ky
           \/ PutKanary(k, o2),
           UNCHANGED <<cm, dep, kc>>,
           NEW m, m.key = k, m.ky = o2, Progress(m, kan[k], cm[k], dep[k]),
           NEW n \in {m, IdleWorker}, wk' = [wk EXCEPT ![w] = n]
    PROVE  Backed'
<1>1. kan[k] = wk[w].ky /\ kan[k] # None /\ wk[w].ky # None
  <2>1. wk[w].ky # None
    BY BusyTypes
  <2>2. CopyOf(wk[w].ky, kan[k], LastUid)
    BY DEF Copies
  <2> QED
    BY <2>1, <2>2 DEF CopyOf, IsCurrent
<1>2. Continues(kan[k], o2, cm[k], dep[k])
  BY <1>1, NoneAssumption DEF Continues, SameId
<1>3. \A x : SameId(x, o2) <=> SameId(x, kan[k])
  BY <1>2, SameForAll DEF Continues
<1>t. /\ kan[k] \in Objects /\ o2 \in Objects /\ kc[k] \in Objects
      /\ cm[k] \in MaybeConfigMap /\ dep[k] \in MaybeDeployment
      /\ kwatch[k] \in Seq(Objects) /\ LastUid \in Int /\ LastUid =< LastUid
      /\ Given(kc[k], LastUid)
      /\ \A i \in DOMAIN kwatch[k] : Given(kwatch[k][i], LastUid)
  BY KeyTypes DEF Objects
<1>b. /\ ObjectsBacked(kan[k], cm[k], dep[k], kc[k], LastUid)
      /\ EventsInOrder(kan[k], kc[k], kwatch[k])
      /\ WorkerBacked(wk[w], kan[k], cm[k], dep[k], kc[k])
  BY BusyTypes
<1>4. /\ ObjectsBacked(o2, cm[k], dep[k], kc[k], LastUid)
      /\ EventsInOrder(o2, kc[k], Append(kwatch[k], o2))
  BY <1>2, <1>t, <1>b, ChangeBacked, ChangeEvents
<1>5. WorkerBacked(m, o2, cm[k], dep[k], kc[k])
  <2>1. SameId(kc[k], kan[k])
    BY <1>1, <1>b DEF WorkerBacked, SameId
  <2>2. Progress(m, o2, cm[k], dep[k])
    BY <1>3 DEF Progress
  <2>3. SameId(m.ky, o2) /\ SameId(kc[k], o2)
    BY <1>1, <1>3, <2>1, NoneAssumption DEF SameId
  <2> QED
    BY <2>2, <2>3 DEF WorkerBacked, Known
<1>6. /\ \A j \in Kanaries \ {k} : kan'[j] = kan[j] /\ kwatch'[j] = kwatch[j]
      /\ kan'[k] = o2 /\ kwatch'[k] \in {kwatch[k], Append(kwatch[k], o2)}
      /\ kwatch'[k] = kwatch[k] => o2 = wk[w].ky
  <2>1. CASE UNCHANGED <<kan, kwatch>> /\ o2 = wk[w].ky
    BY <1>1, <2>1
  <2>2. CASE PutKanary(k, o2)
    <3>1. kan \in [Kanaries -> Objects] /\ kwatch \in [Kanaries -> Seq(Objects)]
      BY TypeParts DEF KanariesTyped
    <3>2. Append(kwatch[k], o2) # kwatch[k]
      <4>1. Len(Append(kwatch[k], o2)) = Len(kwatch[k]) + 1 /\ Len(kwatch[k]) \in Nat
        BY <1>t
      <4> QED
        BY <4>1
    <3> QED
      BY <2>2, <3>1, <3>2 DEF PutKanary
  <2> QED
    BY <2>1, <2>2
<1>7. ObjectsElsewhere(k)
  BY <1>6 DEF ObjectsElsewhere
<1>8. /\ ObjectsBacked(kan[k], cm[k], dep[k], kc[k], LastUid)'
      /\ WorkerBacked(m, kan'[k], cm'[k], dep'[k], kc'[k])
  BY <1>4, <1>5, <1>6
<1>9. EventsInOrder(kan[k], kc[k], kwatch[k])'
  <2>1. kwatch'[k] = kwatch[k] => EventsInOrder(o2, kc[k], kwatch[k])
    BY <1>1, <1>6, <1>b
  <2> QED
    BY <1>4, <1>6, <2>1
<1>10. n = IdleWorker \/ n.key = k
  OBVIOUS
<1>11. n.key = k => n = m
  BY ControllerAssumption DEF IdleWorker
<1>12. n.key = k => WorkerBacked(n, kan'[k], cm'[k], dep'[k], kc'[k])
  BY <1>8, <1>11
<1>13. \A v \in Workers \ {w} : wk[v].key # k
  BY Alone
<1> QED
  BY <1>7, <1>8, <1>9, <1>10, <1>12, <1>13, TurnBacked

-----------------------------------------------------------------------------
(* The writes of the status *)

\* Worker r has recorded one part: the Kanary is now o2, and r would go on as
\* n, with the field of its program counter set and no other.
Recording(r, o2, n) ==
    /\ n.key = r.key /\ n.ky = o2 /\ n.exp = r.exp
    /\ o2.uid = r.ky.uid /\ o2.spec = r.ky.spec
    /\ \/ /\ r.pc = "statusConfigMap" /\ n.pc = "statusEndpoint"
          /\ o2.config
          /\ o2.eps = r.ky.eps /\ o2.proxy = r.ky.proxy /\ o2.svc = r.ky.svc
       \/ /\ r.pc = "statusEndpoint" /\ n.pc \in LaterCalls
          /\ n.pc = "service" => o2.proxy
          /\ o2.eps = r.exp
          /\ o2.config = r.ky.config /\ o2.proxy = r.ky.proxy /\ o2.svc = r.ky.svc
       \/ /\ r.pc = "statusDeployment" /\ n.pc = "service"
          /\ o2.proxy
          /\ o2.eps = r.ky.eps /\ o2.config = r.ky.config /\ o2.svc = r.ky.svc
       \/ /\ r.pc = "statusService" /\ n.pc = "service"
          /\ o2.svc = r.ky.spec.dest
          /\ o2.eps = r.ky.eps /\ o2.config = r.ky.config /\ o2.proxy = r.ky.proxy

StoresAs(w, k, o2) ==
    \/ UNCHANGED <<kan, kwatch>> /\ o2 = wk[w].ky
    \/ PutKanary(k, o2)

GivesUp(w) == UNCHANGED <<kan, kwatch>> /\ wk' = [wk EXCEPT ![w] = IdleWorker]

Records(w, k) ==
    /\ IsCurrent(k, wk[w].ky)
    /\ \E o2 \in KanaryObjects : \E m :
          /\ Recording(wk[w], o2, m)
          /\ StoresAs(w, k, o2)
          /\ \E n \in {m, IdleWorker} : wk' = [wk EXCEPT ![w] = n]

\* UpdateStatus, for whatever step follows.
LEMMA UpdateRecords ==
    ASSUME TypeOK, NEW w \in Workers, wk[w].pc \in Calls,
           NEW new \in KanaryObjects, NEW m, NEW next \in {m, IdleWorker},
           Recording(wk[w], Stored(wk[w], new).ky, m),
           UpdateStatus(w, new, next)
    PROVE  GivesUp(w) \/ Records(w, wk[w].key)
<1> DEFINE o2 == Stored(wk[w], new).ky
<1>1. /\ o2 \in KanaryObjects
      /\ o2 = IF new = wk[w].ky THEN new ELSE NextVersion(new)
  <2>1. wk[w] \in Busy
    BY BusyWorker
  <2>2. NextVersion(new) \in KanaryObjects
    BY NewKanaryType
  <2>3. Stored(wk[w], new).ky = IF new = wk[w].ky THEN new ELSE NextVersion(new)
    BY <2>1, StoredType
  <2> QED
    BY <2>2, <2>3
<1> HIDE DEF o2
<1>2. CASE ~IsCurrent(wk[w].key, wk[w].ky)
  BY <1>2 DEF UpdateStatus, Return, GivesUp
<1>3. CASE IsCurrent(wk[w].key, wk[w].ky)
  <2>1. StoresAs(w, wk[w].key, o2)
    BY <1>1, <1>3 DEF UpdateStatus, StoresAs
  <2>2. \E n \in {m, IdleWorker} : wk' = [wk EXCEPT ![w] = n]
    BY <1>3 DEF UpdateStatus, Answer
  <2>3. Recording(wk[w], o2, m)
    BY DEF o2
  <2> QED
    BY <1>1, <1>3, <2>1, <2>2, <2>3 DEF Records
<1> QED
  BY <1>2, <1>3

\* What the server returns after a write of new.
LEMMA StoredFields ==
    ASSUME NEW r \in Busy, NEW new \in KanaryObjects
    PROVE  /\ Stored(r, new) \in Busy
           /\ Stored(r, new).key = r.key /\ Stored(r, new).exp = r.exp
           /\ Stored(r, new).ky.uid = new.uid
           /\ Stored(r, new).ky.spec = new.spec
           /\ Stored(r, new).ky.config = new.config
           /\ Stored(r, new).ky.proxy = new.proxy
           /\ Stored(r, new).ky.svc = new.svc
           /\ Stored(r, new).ky.eps = new.eps
<1>1. /\ NextVersion(new).uid = new.uid /\ NextVersion(new).spec = new.spec
      /\ NextVersion(new).config = new.config /\ NextVersion(new).proxy = new.proxy
      /\ NextVersion(new).svc = new.svc /\ NextVersion(new).eps = new.eps
  BY DEF NextVersion, KanaryObjects
<1>2. Stored(r, new).exp = r.exp
  BY DEF Stored, Busy
<1>3. Stored(r, new) \in Busy /\ Stored(r, new).key = r.key
      /\ Stored(r, new).ky = IF new = r.ky THEN new ELSE NextVersion(new)
  BY StoredType
<1> QED
  BY <1>1, <1>2, <1>3

\* Every write of the status is one of these.
LEMMA RecordStep ==
    ASSUME TypeOK, NEW w \in Workers,
           \/ updateStatusConfigMap(w) \/ updateStatusEndpoint(w)
           \/ updateStatusDeployment(w) \/ updateStatusService(w)
    PROVE  GivesUp(w) \/ Records(w, wk[w].key)
<1>1. /\ wk[w].pc \in Calls /\ wk[w] \in Busy
      /\ wk[w].ky \in KanaryObjects /\ wk[w].exp \in Statuses
  <2>1. wk[w].pc \in Calls
    BY DEF updateStatusConfigMap, updateStatusEndpoint, updateStatusDeployment,
           updateStatusService, Calls
  <2> QED
    BY <2>1, BusyWorker
<1>2. CASE updateStatusConfigMap(w)
  <2>1. PICK new : new = [wk[w].ky EXCEPT !.config = TRUE]
    OBVIOUS
  <2>2. /\ new \in KanaryObjects /\ new.uid = wk[w].ky.uid /\ new.config
        /\ new.spec = wk[w].ky.spec /\ new.eps = wk[w].ky.eps
        /\ new.proxy = wk[w].ky.proxy /\ new.svc = wk[w].ky.svc
    BY <1>1, <2>1 DEF KanaryObjects
  <2>3. PICK r : r = Stored(wk[w], new)
    OBVIOUS
  <2>4. PICK m : m = At(r, "statusEndpoint")
    OBVIOUS
  <2>5. wk[w].pc = "statusConfigMap" /\ UpdateStatus(w, new, m)
    BY <1>2, <2>1, <2>3, <2>4 DEF updateStatusConfigMap
  <2>6. Recording(wk[w], r.ky, m)
    <3>1. r \in Busy
      BY <1>1, <2>2, <2>3, StoredFields
    <3>2. m.key = r.key /\ m.ky = r.ky /\ m.exp = r.exp /\ m.pc = "statusEndpoint"
      BY <2>4, <3>1 DEF At, Busy
    <3>3. /\ r.key = wk[w].key /\ r.exp = wk[w].exp
          /\ r.ky.uid = wk[w].ky.uid /\ r.ky.spec = wk[w].ky.spec /\ r.ky.config
          /\ r.ky.eps = wk[w].ky.eps /\ r.ky.proxy = wk[w].ky.proxy
          /\ r.ky.svc = wk[w].ky.svc
      BY <1>1, <2>2, <2>3, StoredFields
    <3> QED
      BY <2>5, <3>2, <3>3 DEF Recording
  <2> QED
    BY <1>1, <2>2, <2>3, <2>5, <2>6, UpdateRecords
<1>3. CASE updateStatusEndpoint(w)
  <2>1. PICK new : new = [wk[w].ky EXCEPT !.eps = wk[w].exp]
    OBVIOUS
  <2>2. /\ new \in KanaryObjects /\ new.uid = wk[w].ky.uid
        /\ new.spec = wk[w].ky.spec /\ new.eps = wk[w].exp
        /\ new.config = wk[w].ky.config
        /\ new.proxy = wk[w].ky.proxy /\ new.svc = wk[w].ky.svc
    BY <1>1, <2>1 DEF KanaryObjects
  <2>3. PICK r : r = Stored(wk[w], new)
    OBVIOUS
  <2>4. /\ r \in Busy /\ r.key = wk[w].key /\ r.exp = wk[w].exp
        /\ r.ky.uid = wk[w].ky.uid /\ r.ky.spec = wk[w].ky.spec
        /\ r.ky.eps = wk[w].exp /\ r.ky.config = wk[w].ky.config
        /\ r.ky.proxy = wk[w].ky.proxy /\ r.ky.svc = wk[w].ky.svc
    BY <1>1, <2>2, <2>3, StoredFields
  <2>5. PICK m : /\ ToRefs(r) \in {m, IdleWorker}
                 /\ m.key = r.key /\ m.ky = r.ky /\ m.exp = r.exp
                 /\ m.pc \in LaterCalls
                 /\ m.pc = "service" => r.ky.proxy
    <3>1. \A p \in LaterCalls : /\ At(r, p).key = r.key /\ At(r, p).ky = r.ky
                                /\ At(r, p).exp = r.exp /\ At(r, p).pc = p
      BY <2>4 DEF At, Busy, LaterCalls, Calls
    <3>2. \/ ToRefs(r) = At(r, "ref")
          \/ ToRefs(r) = At(r, "deployment")
          \/ r.ky.proxy /\ ToRefs(r) = At(r, "service")
          \/ ToRefs(r) = IdleWorker
      BY DEF ToRefs, ToDeployment, ToService, HAProxyCreationNeeded
    <3>3. At(r, "ref").pc # "service" /\ At(r, "deployment").pc # "service"
      BY <3>1 DEF LaterCalls
    <3> QED
      BY <3>1, <3>2, <3>3 DEF LaterCalls
  <2>6. wk[w].pc = "statusEndpoint" /\ UpdateStatus(w, new, ToRefs(r))
    BY <1>3, <2>1, <2>3 DEF updateStatusEndpoint
  <2>7. Recording(wk[w], r.ky, m)
    BY <2>4, <2>5, <2>6 DEF Recording
  <2> QED
    BY <1>1, <2>2, <2>3, <2>5, <2>6, <2>7, UpdateRecords
<1>4. CASE updateStatusDeployment(w)
  <2>1. PICK new : new = [wk[w].ky EXCEPT !.proxy = TRUE]
    OBVIOUS
  <2>2. /\ new \in KanaryObjects /\ new.uid = wk[w].ky.uid /\ new.proxy
        /\ new.spec = wk[w].ky.spec /\ new.eps = wk[w].ky.eps
        /\ new.config = wk[w].ky.config /\ new.svc = wk[w].ky.svc
    BY <1>1, <2>1 DEF KanaryObjects
  <2>3. PICK r : r = Stored(wk[w], new)
    OBVIOUS
  <2>4. /\ r \in Busy /\ r.key = wk[w].key /\ r.exp = wk[w].exp
        /\ r.ky.uid = wk[w].ky.uid /\ r.ky.spec = wk[w].ky.spec
        /\ r.ky.eps = wk[w].ky.eps /\ r.ky.config = wk[w].ky.config
        /\ r.ky.proxy /\ r.ky.svc = wk[w].ky.svc
    BY <1>1, <2>2, <2>3, StoredFields
  <2>5. PICK m : m = At(r, "service")
    OBVIOUS
  <2>6. m.key = r.key /\ m.ky = r.ky /\ m.exp = r.exp /\ m.pc = "service"
    BY <2>4, <2>5 DEF At, Busy
  <2>7. wk[w].pc = "statusDeployment" /\ UpdateStatus(w, new, ToService(r))
    BY <1>4, <2>1, <2>3 DEF updateStatusDeployment
  <2>8. Recording(wk[w], r.ky, m)
    BY <2>4, <2>6, <2>7 DEF Recording
  <2>9. ToService(r) \in {m, IdleWorker}
    BY <2>5 DEF ToService
  <2> QED
    BY <1>1, <2>2, <2>3, <2>7, <2>8, <2>9, UpdateRecords
<1>5. CASE updateStatusService(w)
  <2>1. PICK o2 : o2 = NextVersion([wk[w].ky EXCEPT !.svc = wk[w].ky.spec.dest])
    OBVIOUS
  <2>2. /\ o2 \in KanaryObjects /\ o2.uid = wk[w].ky.uid
        /\ o2.spec = wk[w].ky.spec /\ o2.eps = wk[w].ky.eps
        /\ o2.config = wk[w].ky.config /\ o2.proxy = wk[w].ky.proxy
        /\ o2.svc = wk[w].ky.spec.dest
    <3>1. wk[w].ky.spec.dest \in Names
      BY <1>1 DEF KanaryObjects, Names
    <3>2. PICK new : new = [wk[w].ky EXCEPT !.svc = wk[w].ky.spec.dest]
      OBVIOUS
    <3>3. /\ new \in KanaryObjects /\ new.uid = wk[w].ky.uid
          /\ new.spec = wk[w].ky.spec /\ new.eps = wk[w].ky.eps
          /\ new.config = wk[w].ky.config /\ new.proxy = wk[w].ky.proxy
          /\ new.svc = wk[w].ky.spec.dest
      BY <1>1, <3>1, <3>2 DEF KanaryObjects
    <3>4. o2 = NextVersion(new) /\ o2 \in KanaryObjects
      BY <2>1, <3>2, <3>3, NewKanaryType
    <3> QED
      BY <3>3, <3>4 DEF NextVersion, KanaryObjects
  <2>3. PICK m : m = [pc |-> "service", key |-> wk[w].key, ky |-> o2,
                      exp |-> wk[w].exp, i |-> 1]
    OBVIOUS
  <2>4. wk[w].pc = "statusService"
    BY <1>5 DEF updateStatusService
  <2>5. Recording(wk[w], o2, m)
    BY <2>2, <2>3, <2>4 DEF Recording
  <2>6. wk' = [wk EXCEPT ![w] = IdleWorker]
    BY <1>5 DEF updateStatusService, Return, handleErr
  <2>7. \/ UNCHANGED <<kan, kwatch>>
        \/ IsCurrent(wk[w].key, wk[w].ky) /\ PutKanary(wk[w].key, o2)
    BY <1>5, <2>1 DEF updateStatusService
  <2> QED
    BY <2>2, <2>5, <2>6, <2>7 DEF GivesUp, Records, StoresAs
<1> QED
  BY <1>2, <1>3, <1>4, <1>5

\* Each records only what the worker has just seen in place.
LEMMA RecordBacked ==
    ASSUME TypeOK, Copies, OneWorkerPerKey, Backed, LastUid' = LastUid,
           NEW w \in Workers,
           \/ updateStatusConfigMap(w) \/ updateStatusEndpoint(w)
           \/ updateStatusDeployment(w) \/ updateStatusService(w)
    PROVE  Backed'
<1>1. wk[w].pc \in Calls /\ UNCHANGED <<cm, dep, kc>>
  BY DEF updateStatusConfigMap, updateStatusEndpoint, updateStatusDeployment,
         updateStatusService, Calls
<1>2. PICK k \in Kanaries : k = wk[w].key
  BY <1>1, BusyWorker
<1>3. CASE GivesUp(w)
  BY <1>1, <1>3, GoOnBacked DEF GivesUp
<1>4. CASE Records(w, k)
  <2>1. PICK o2, m :
           /\ o2 \in KanaryObjects
           /\ Recording(wk[w], o2, m)
           /\ StoresAs(w, k, o2)
           /\ \E n \in {m, IdleWorker} : wk' = [wk EXCEPT ![w] = n]
    BY <1>4 DEF Records
  <2>2. IsCurrent(k, wk[w].ky)
    BY <1>4 DEF Records
  <2>3. PICK n \in {m, IdleWorker} : wk' = [wk EXCEPT ![w] = n]
    BY <2>1
  <2>4. /\ SameId(wk[w].ky, kan[k]) /\ wk[w].ky = kan[k]
        /\ ObjectsBacked(kan[k], cm[k], dep[k], kc[k], LastUid)
        /\ Progress(wk[w], kan[k], cm[k], dep[k])
    <3>1. /\ ObjectsBacked(kan[k], cm[k], dep[k], kc[k], LastUid)
          /\ WorkerBacked(wk[w], kan[k], cm[k], dep[k], kc[k])
          /\ wk[w].ky # None
      BY <1>1, <1>2, BusyTypes
    <3>2. SameId(wk[w].ky, kan[k])
      BY <2>2, <3>1 DEF IsCurrent, SameId
    <3>3. CopyOf(wk[w].ky, kan[k], LastUid)
      BY <1>2 DEF Copies
    <3>4. wk[w].ky = kan[k]
      BY <2>2, <3>1, <3>3 DEF CopyOf, IsCurrent
    <3> QED
      BY <3>1, <3>2, <3>4 DEF WorkerBacked
  <2>5. /\ wk[w].ky.config => SameId(cm[k], kan[k])
        /\ wk[w].ky.proxy => SameId(dep[k], kan[k])
    BY <2>4 DEF ObjectsBacked, SameId
  <2>6. /\ o2.uid = wk[w].ky.uid /\ m.key = k /\ m.ky = o2
        /\ wk[w].ky.config => o2.config
        /\ o2.config => wk[w].ky.config \/ wk[w].pc = "statusConfigMap"
        /\ o2.proxy => wk[w].ky.proxy \/ wk[w].pc = "statusDeployment"
    BY <1>2, <2>1 DEF Recording
  <2>7. /\ o2.config => SameId(cm[k], kan[k])
        /\ o2.proxy => SameId(dep[k], kan[k])
    BY <2>4, <2>5, <2>6 DEF Progress
  <2>8. Progress(m, kan[k], cm[k], dep[k])
    <3>1. CASE m.pc \in LaterCalls
      BY <3>1 DEF Progress, LaterCalls
    <3>2. CASE wk[w].pc = "statusConfigMap" /\ m.pc = "statusEndpoint"
               /\ m.exp = wk[w].exp
      BY <2>4, <3>2 DEF Progress
    <3> QED
      BY <2>1, <3>1, <3>2 DEF Recording, LaterCalls
  <2>9. \/ UNCHANGED <<kan, kwatch>> /\ o2 = wk[w].ky
        \/ PutKanary(k, o2)
    BY <2>1 DEF StoresAs
  <2>10. o2 \in KanaryObjects
    BY <2>1
  <2> QED
    BY <1>1, <1>2, <2>2, <2>3, <2>6, <2>7, <2>8, <2>9, <2>10, WriteBacked
<1> QED
  BY <1>2, <1>3, <1>4, RecordStep

\* The other calls touch neither the Kanary nor what it owns but its Service.
LEMMA OtherCallBacked ==
    ASSUME TypeOK, Copies, OneWorkerPerKey, Backed, LastUid' = LastUid,
           NEW w \in Workers,
           AddKanaryRef(w) \/ CreateService(w) \/ DeleteService(w) \/ Refuse(w)
    PROVE  Backed'
<1>1. /\ wk[w].pc \in Calls /\ wk[w] \in Busy
      /\ UNCHANGED <<kan, cm, dep, kc, kwatch>>
  <2>1. wk[w].pc \in Calls /\ UNCHANGED <<kan, cm, dep, kc, kwatch>>
    BY ControllerAssumption
    DEF AddKanaryRef, CreateService, DeleteService, Refuse, api, informers, Calls
  <2> QED
    BY <2>1, BusyWorker
<1>2. CASE wk' = [wk EXCEPT ![w] = IdleWorker]
  BY <1>1, <1>2, GoOnBacked
<1>3. CASE AddKanaryRef(w)
  <2>1. PICK r : r = [wk[w] EXCEPT !.i = @ + 1]
    OBVIOUS
  <2>2. r \in Busy /\ r.key = wk[w].key /\ r.ky = wk[w].ky
    BY <1>1, <2>1 DEF Busy
  <2>3. wk' \in {[wk EXCEPT ![w] = IdleWorker], [wk EXCEPT ![w] = ToRefs(r)]}
    BY <1>3, <2>1 DEF AddKanaryRef, Answer, Return
  <2>4. PICK n : n = ToRefs(r)
    OBVIOUS
  <2>5. n = IdleWorker
        \/ (n.key = r.key /\ n.ky = r.ky /\ n.pc \in LaterCalls)
    BY <2>2, <2>4, SkipTo
  <2>6. CASE wk' = [wk EXCEPT ![w] = n]
    BY <1>1, <2>2, <2>5, <2>6, GoOnBacked
  <2> QED
    BY <1>2, <2>3, <2>4, <2>6
<1>4. CASE CreateService(w) \/ DeleteService(w)
  <2>1. \/ wk' = [wk EXCEPT ![w] = IdleWorker]
        \/ \E p \in {"recreateService", "statusService"} :
              wk' = [wk EXCEPT ![w] = At(wk[w], p)]
    BY <1>4 DEF CreateService, DeleteService, Answer, Return
  <2>2. ASSUME NEW p \in {"recreateService", "statusService"},
               wk' = [wk EXCEPT ![w] = At(wk[w], p)]
        PROVE  Backed'
    <3>1. PICK n : n = At(wk[w], p)
      OBVIOUS
    <3>2. n.key = wk[w].key /\ n.ky = wk[w].ky /\ n.pc = p
      BY <1>1, <3>1 DEF At, Busy
    <3> QED
      BY <1>1, <2>2, <3>1, <3>2, GoOnBacked
  <2> QED
    BY <1>2, <2>1, <2>2
<1>5. CASE Refuse(w)
  BY <1>2, <1>5 DEF Refuse, handleErr
<1> QED
  BY <1>3, <1>4, <1>5

-----------------------------------------------------------------------------
(* Every step *)

\* Every step keeps what is recorded backed.
LEMMA BackedStep ==
    TypeOK /\ Copies /\ OneWorkerPerKey /\ Backed /\ [Next]_vars => Backed'
<1> SUFFICES ASSUME TypeOK, Copies, OneWorkerPerKey, Backed, [Next]_vars
             PROVE  Backed'
  OBVIOUS
<1>l. LastUid' \in Int /\ LastUid =< LastUid'
  <2>1. TypeOK' /\ LastUid =< LastUid'
    BY TypeStep, TracksStep DEF Tracks
  <2> QED
    BY <2>1, ControllerAssumption, TypePartsNext DEF LastUid, BudgetTyped, Budget
<1>1. ASSUME NEW k \in Kanaries,
             CreateKanary(k) \/ EditKanary(k) \/ DeleteKanary(k)
      PROVE  Backed'
  BY <1>1, <1>l, UserBacked
<1>2. ASSUME NEW k \in Kanaries, DeliverKanary(k) PROVE Backed'
  BY <1>2, <1>l, DeliverBacked
<1>3. ASSUME NEW k \in Kanaries, CollectGarbage(k) PROVE Backed'
  BY <1>3, GarbageBacked DEF CollectGarbage, LastUid
<1>4. CASE ProcessStart /\ UNCHANGED api
  <2>1. /\ UNCHANGED <<kan, cm, dep>> /\ kc' = kan
        /\ kwatch' = [k \in Kanaries |-> <<>>]
        /\ wk' = [w \in Workers |-> IdleWorker]
    BY <1>4 DEF ProcessStart, api
  <2>2. \A w \in Workers : wk'[w] \in {wk[w], IdleWorker}
    BY <2>1
  <2> QED
    BY <1>l, <2>1, <2>2, ListBacked
<1>5. CASE RelistKanaries
  <2>1. CASE UNCHANGED <<api, wk>> /\ kc' = kan /\ kwatch' = [k \in Kanaries |-> <<>>]
    <3>1. UNCHANGED <<kan, cm, dep, wk>>
      BY <2>1 DEF api
    <3> QED
      BY <1>l, <2>1, <3>1, ListBacked
  <2> QED
    BY <1>4, <1>5, <2>1 DEF RelistKanaries, Panic
<1>6. CASE UNCHANGED <<kan, cm, dep, kc, kwatch, wk>>
  BY <1>l, <1>6, FrameBacked
<1>7. ASSUME NEW w \in Workers, SyncStep(w) \/ Refuse(w) PROVE Backed'
  <2>1. LastUid' = LastUid
    BY <1>7, StepEffect DEF LastUid
  <2> QED
    BY <1>7, <2>1, ConfigMapBacked, DeploymentBacked, RecordBacked, OtherCallBacked
    DEF SyncStep
<1>8. ASSUME NEW w \in Workers, NEW k \in Kanaries, StartSync(w, k) PROVE Backed'
  BY <1>8, StartBacked
<1>9. ASSUME NEW s \in Services, \/ ChangeEndpoints(s) \/ DeliverEndpoints(s)
                                 \/ DeleteKyRefInEp(s)
      PROVE  Backed'
  BY <1>6, <1>9 DEF ChangeEndpoints, DeliverEndpoints, DeleteKyRefInEp, api
<1>10. ASSUME NEW s \in Services, DeletionPanics(s) PROVE Backed'
  BY <1>4, <1>10 DEF DeletionPanics, Panic
<1>11. ASSUME NEW k \in Kanaries, Resync(k) PROVE Backed'
  BY <1>6, <1>11 DEF Resync, api, informers
<1>12. CASE EndDeletion \/ RelistEndpoints \/ UNCHANGED vars
  BY <1>6, <1>12 DEF EndDeletion, RelistEndpoints, vars, api, informers
<1>13. CASE Restart
  BY <1>4, <1>13 DEF Restart
<1> QED
  BY <1>1, <1>2, <1>3, <1>5, <1>7, <1>8, <1>9, <1>10, <1>11, <1>12, <1>13
  DEF Next, Environment, DeletionStep

\* Backed holds in every reachable state, whatever calls fail, wherever the
\* process ends and however often a name is used again.
THEOREM BackedInvariant == Spec => []Backed
<1>1. Init => Backed
  <2> SUFFICES ASSUME Init, NEW k \in Kanaries PROVE KeyBacked(k)
    BY DEF Backed
  <2>1. /\ kan[k] = None /\ cm[k] = None /\ dep[k] = None /\ kc[k] = None
        /\ kwatch[k] = <<>>
        /\ \A w \in Workers : wk[w].key # k
    BY ControllerAssumption DEF Init, IdleWorker
  <2> QED
    BY <2>1 DEF KeyBacked, ObjectsBacked, EventsInOrder, Known, SameId
<1> QED
  BY <1>1, BackedStep, TypeCorrect, CopiesInvariant, OneWorker, PTL DEF Spec

\* The ConfigMap and the Deployment a status names exist and belong to this
\* very Kanary, never to an earlier one of the same name (createHAProxyConfigMap
\* and createHAProxyDeployment with their owner references, and the status
\* writes after them, controller.go:297-369).
THEOREM StatusIsBacked == Spec => []StatusBacked
<1>1. Backed => StatusBacked
  BY DEF Backed, KeyBacked, ObjectsBacked, StatusBacked, Owned, SameId
<1> QED
  BY <1>1, BackedInvariant, PTL

\* No proxy of a Kanary ever starts without the configuration of that Kanary
\* (controller.go:358-365 after 297-330).
THEOREM DeploymentsHaveConfig == Spec => []DeploymentHasConfig
<1>1. Backed => DeploymentHasConfig
  BY DEF Backed, KeyBacked, ObjectsBacked, DeploymentHasConfig, Owned, SameId
<1> QED
  BY <1>1, BackedInvariant, PTL

-----------------------------------------------------------------------------
(* The list of backends is recorded last *)

\* Only updateStatusEndpoint replaces the list of backends.
LEMMA ListWrite ==
    ASSUME TypeOK, Copies, [Next]_vars, NEW k \in Kanaries, SameKanary(k),
           kan'[k].eps # kan[k].eps
    PROVE  \E w \in Workers :
              /\ wk[w].pc = "statusEndpoint" /\ wk[w].key = k /\ wk[w].ky = kan[k]
              /\ kan'[k].eps = wk[w].exp
<1>t. kan \in [Kanaries -> Objects]
  BY TypeParts DEF KanariesTyped
<1>1. ~UNCHANGED kan
  OBVIOUS
<1>2. ASSUME NEW j \in Kanaries, CreateKanary(j) \/ EditKanary(j) \/ DeleteKanary(j)
      PROVE  FALSE
  <2>1. PICK o : kan' = [kan EXCEPT ![j] = o]
                 /\ \/ o = None \/ kan[j] = None
                    \/ \E spec : o = NextVersion([kan[j] EXCEPT !.spec = spec])
    BY <1>2 DEF CreateKanary, EditKanary, DeleteKanary, PutKanary
  <2>2. j = k
    BY <1>t, <2>1
  <2>3. kan[k] # None /\ kan'[k] # None /\ kan'[k] = o /\ kan[k] \in KanaryObjects
    BY <1>t, <2>1, <2>2 DEF SameKanary, Objects
  <2>4. PICK spec : o = NextVersion([kan[k] EXCEPT !.spec = spec])
    BY <2>1, <2>2, <2>3
  <2>5. o.eps = kan[k].eps
    BY <2>3, <2>4 DEF NextVersion, KanaryObjects
  <2> QED
    BY <2>3, <2>5
<1>3. ASSUME NEW w \in Workers, SyncStep(w) \/ Refuse(w)
      PROVE  /\ wk[w].pc = "statusEndpoint" /\ wk[w].key = k /\ wk[w].ky = kan[k]
             /\ kan'[k].eps = wk[w].exp
  <2>1. \/ updateStatusConfigMap(w) \/ updateStatusEndpoint(w)
        \/ updateStatusDeployment(w) \/ updateStatusService(w)
    BY <1>1, <1>3
    DEF SyncStep, CreateConfigMap, UpdateConfigMap, performRollingUpdate,
        AddKanaryRef, CreateDeployment, CreateService, DeleteService, Refuse, api
  <2>2. PICK j : j = wk[w].key
    OBVIOUS
  <2>3. Records(w, j)
    BY <1>1, <2>1, <2>2, RecordStep DEF GivesUp
  <2>4. PICK o2, m :
           /\ o2 \in KanaryObjects
           /\ Recording(wk[w], o2, m) /\ StoresAs(w, j, o2)
    BY <2>3 DEF Records
  <2>5. kan' = [kan EXCEPT ![j] = o2]
    BY <1>1, <2>4 DEF StoresAs, PutKanary
  <2>6. j = k
    BY <1>t, <2>5
  <2>7. kan'[k] = o2
    BY <1>t, <2>5, <2>6
  <2>8. wk[w].ky = kan[k]
    <3>1. wk[w].ky # None
      <4>1. wk[w].pc \in Calls
        BY <1>3, StepEffect
      <4> QED
        BY <4>1, BusyWorker, NoneAssumption
    <3>2. CopyOf(wk[w].ky, kan[k], LastUid)
      BY <2>2, <2>6 DEF Copies
    <3> QED
      BY <2>3, <2>6, <3>1, <3>2 DEF Records, IsCurrent, CopyOf
  <2>9. wk[w].pc = "statusEndpoint" /\ o2.eps = wk[w].exp
    BY <2>4, <2>7, <2>8 DEF Recording
  <2> QED
    BY <2>2, <2>6, <2>7, <2>8, <2>9
<1> QED
  BY <1>1, <1>2, <1>3
  DEF Next, Environment, ChangeEndpoints, Restart, RelistKanaries,
      RelistEndpoints, Panic, ProcessStart, DeliverKanary, Resync, CollectGarbage,
      DeliverEndpoints, DeletionStep, EndDeletion, DeleteKyRefInEp,
      DeletionPanics, StartSync, vars, api

\* When the list of backends is recorded, which keeps the next reconciliation
\* from writing anything, the ConfigMap holds the servers of that list and the
\* proxies, where there are any, were started again with it
\* (controller.go:297-331).
THEOREM RolloutComesFirst == Spec => RecordedIsRolledOut
<1>1. TypeOK /\ Copies /\ Backed /\ [Next]_vars
        => [\A k \in Kanaries : SameKanary(k) /\ kan'[k].eps # kan[k].eps =>
              /\ cm[k] # None
              /\ cm[k].servers = newHAProxyController(kan'[k].eps)
              /\ kan[k].proxy => dep[k].rolled = cm[k].servers]_vars
  <2> SUFFICES ASSUME TypeOK, Copies, Backed, [Next]_vars, NEW k \in Kanaries,
                      SameKanary(k), kan'[k].eps # kan[k].eps
               PROVE  /\ cm[k] # None
                      /\ cm[k].servers = newHAProxyController(kan'[k].eps)
                      /\ kan[k].proxy => dep[k].rolled = cm[k].servers
    OBVIOUS
  <2>1. PICK w \in Workers :
           /\ wk[w].pc = "statusEndpoint" /\ wk[w].key = k /\ wk[w].ky = kan[k]
           /\ kan'[k].eps = wk[w].exp
    BY ListWrite
  <2>2. /\ SameId(wk[w].ky, kan[k])
        /\ WorkerBacked(wk[w], kan[k], cm[k], dep[k], kc[k])
        /\ ObjectsBacked(kan[k], cm[k], dep[k], kc[k], LastUid)
    BY <2>1 DEF Backed, KeyBacked, SameKanary, SameId
  <2>3. SameId(cm[k], kan[k]) /\ cm[k].servers = newHAProxyController(wk[w].exp)
    BY <2>1, <2>2 DEF WorkerBacked, Progress
  <2>4. kan[k].proxy => dep[k].rolled = cm[k].servers
    BY <2>1, <2>2 DEF WorkerBacked, Progress, ObjectsBacked, SameId
  <2> QED
    BY <2>1, <2>3, <2>4 DEF SameId
<1> QED
  BY <1>1, TypeCorrect, CopiesInvariant, BackedInvariant, PTL
  DEF Spec, RecordedIsRolledOut
=============================================================================
