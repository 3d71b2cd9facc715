---------------------------- MODULE KanaryMemory ----------------------------
(***************************************************************************)
(* Kanaries and Endpoints as the process holds them.  A struct is a value; *)
(* a slice or a map is a reference into memory, so two structs may share   *)
(* its contents.  The objects of an informer's index are shared by every   *)
(* goroutine that reads a lister, hence each function of the controller    *)
(* that changes an object works on a DeepCopy (zz_generated.deepcopy.go).  *)
(*                                                                         *)
(* memory is the sequence of arrays and maps made so far, a reference is   *)
(* an index of it or Nil.  A copy returns the memory after it and what it  *)
(* copied to.                                                              *)
(***************************************************************************)
EXTENDS EndpointStatus

Nil == 0

Contents(memory, ref) == IF ref = Nil THEN <<>> ELSE memory[ref]

Made(memory, contents) ==
    [memory |-> Append(memory, contents), out |-> Len(memory) + 1]

\* make, then copy or a loop over a map; nil stays nil.
Cloned(memory, ref) ==
    IF ref = Nil THEN [memory |-> memory, out |-> Nil]
    ELSE Made(memory, memory[ref])

-----------------------------------------------------------------------------
(* zz_generated.deepcopy.go *)

DeepCopyObjectMetaByValue(memory, meta) == [memory |-> memory, out |-> meta]

\* Of the metadata only the annotations are kept.
DeepCopyObjectMeta(memory, meta) ==
    LET c == Cloned(memory, meta.annotations)
    IN  [memory |-> c.memory, out |-> [meta EXCEPT !.annotations = c.out]]

DeepCopyKanarySpec(memory, spec) ==
    LET c == Cloned(memory, spec.routes)
    IN  [memory |-> c.memory, out |-> [spec EXCEPT !.routes = c.out]]

DeepCopyKanaryEndpointList(memory, entry) ==
    LET c == Cloned(memory, entry.ips)
    IN  [memory |-> c.memory, out |-> [entry EXCEPT !.ips = c.out]]

DeepCopyKanaryStatusByValue(memory, status) ==
    LET c == Cloned(memory, status.eps)
    IN  [memory |-> c.memory, out |-> [status EXCEPT !.eps = c.out]]

\* An array of structs that hold slices is copied element by element.
DeepCopyKanaryStatus(memory, status) ==
    LET CopyNext(acc, entry) ==
            LET c == DeepCopyKanaryEndpointList(acc.memory, entry)
            IN  [memory |-> c.memory, out |-> Append(acc.out, c.out)]
        all == FoldLeft(CopyNext, [memory |-> memory, out |-> <<>>],
                        memory[status.eps])
        c == Made(all.memory, all.out)
    IN  IF status.eps = Nil THEN [memory |-> memory, out |-> status]
        ELSE [memory |-> c.memory, out |-> [status EXCEPT !.eps = c.out]]

DeepCopyKanary(memory, ky) ==
    LET meta   == DeepCopyObjectMeta(memory, ky.meta)
        spec   == DeepCopyKanarySpec(meta.memory, ky.spec)
        status == DeepCopyKanaryStatus(spec.memory, ky.status)
    IN  [memory |-> status.memory,
         out |-> [meta |-> meta.out, spec |-> spec.out, status |-> status.out]]

\* The answer to a list: the reference of an array of Kanaries.
DeepCopyKanaryList(memory, items) ==
    LET CopyNext(acc, ky) ==
            LET c == DeepCopyKanary(acc.memory, ky)
            IN  [memory |-> c.memory, out |-> Append(acc.out, c.out)]
        all == FoldLeft(CopyNext, [memory |-> memory, out |-> <<>>],
                        memory[items])
    IN  IF items = Nil THEN [memory |-> memory, out |-> Nil]
        ELSE Made(all.memory, all.out)

-----------------------------------------------------------------------------
(* controller.go: changes of objects taken from a lister *)

\* updateStatusEndpoint: the list, which syncKanary has built, replaces the
\* copied one.
RecordInCopy(memory, ky, list) ==
    LET c == DeepCopyKanary(memory, ky)
    IN  [memory |-> c.memory, out |-> [c.out EXCEPT !.status.eps = list]]

\* addKanaryRefInEp writes into the copied map.  Of the annotations only
\* "kanaryRef" is kept, so the map is the list of names in it; a nil or empty
\* map is replaced by a new one.
AnnotateCopy(memory, meta, owner) ==
    LET c == DeepCopyObjectMeta(memory, meta)
        old == Contents(c.memory, c.out.annotations)
        refs == addKanaryRefInEp(old, owner)
        new == Made(c.memory, refs)
    IN  IF old = <<>>
        THEN [memory |-> new.memory, out |-> [meta EXCEPT !.annotations = new.out]]
        ELSE [memory |-> [c.memory EXCEPT ![c.out.annotations] = refs],
              out |-> c.out]

-----------------------------------------------------------------------------
(* Decoding, and what a reader sees *)

\* An object decoded from the API server: nothing of it is shared.  An empty
\* list may be absent, which gives nil, or present.
Decoded(memory, routes, status) ==
    LET at == Len(memory)
        entries == [i \in DOMAIN status |->
                      [status[i] EXCEPT !.ips = at + 2 + i]]
        ips == [i \in DOMAIN status |-> status[i].ips]
    IN  [memory |-> memory \o <<routes, entries>> \o ips,
         out |-> [meta |-> [annotations |-> Nil],
                  spec |-> [routes |-> IF routes = <<>> THEN Nil ELSE at + 1],
                  status |-> [eps |-> IF status = <<>> THEN Nil ELSE at + 2]]]

Routes(memory, ky) == Contents(memory, ky.spec.routes)
Status(memory, ky) ==
    LET entries == Contents(memory, ky.status.eps)
    IN  [i \in DOMAIN entries |->
           [entries[i] EXCEPT !.ips = Contents(memory, @)]]

\* The arrays and maps an object reaches.
Reached(memory, ky) ==
    ({ky.meta.annotations, ky.spec.routes, ky.status.eps} \cup
     {e.ips : e \in ToSet(Contents(memory, ky.status.eps))}) \ {Nil}
=============================================================================
