--------------------------- MODULE EndpointStatus ---------------------------
(***************************************************************************)
(* The pure part of the operator (pkg/controller/utils.go,                 *)
(* haproxy_controller.go and the helpers of controller.go): from the       *)
(* routes of a Kanary and the Endpoints objects of its namespace to the    *)
(* status that is recorded and the HAProxy servers that are written, the   *)
(* comparison that decides whether anything has to be rewritten, and the   *)
(* edits of the "kanaryRef" annotation.                                    *)
(*                                                                         *)
(* Data:                                                                   *)
(*   an Endpoints object has "subsets", each with ready addresses and the  *)
(*     ports those addresses listen on;                                    *)
(*   a route has a service, a weight and a port given by name ("str") or   *)
(*     by number ("int"), the other field being the zero value;            *)
(*   an entry of the status is one route resolved: service, weight and     *)
(*     the <<address, port>> pairs;                                        *)
(*   a server of the HAProxy configuration has a weight that is a float32: *)
(*     the fraction num/den, where den is a power of two.  The template    *)
(*     prints the shortest decimal that is read back as this float32.      *)
(***************************************************************************)
EXTENDS Integers, Sequences, SequencesExt

\* The outcome of a port lookup that found nothing.
NoPort == -1

-----------------------------------------------------------------------------
(* Resolving the routes *)

AllPorts(subsets) == FlattenSeq([i \in DOMAIN subsets |-> subsets[i].ports])

AllAddresses(subsets) ==
    FlattenSeq([i \in DOMAIN subsets |-> subsets[i].addresses])

\* The number of the first port, over all subsets, that has the name or the
\* number asked for.  The field of "port" that is not given is "" or 0 and is
\* compared all the same.
verifyEndpointPortExist(subsets, port) ==
    LET matching == SelectSeq(AllPorts(subsets),
                              LAMBDA p : p.name = port.str \/ p.number = port.int)
    IN  IF matching = <<>> THEN NoPort ELSE Head(matching).number

\* eps[s] is the cached Endpoints object of service s; it may not exist.
Resolvable(route, eps) ==
    /\ eps[route.service].exists
    /\ verifyEndpointPortExist(eps[route.service].subsets, route.port) # NoPort

Resolve(route, eps) ==
    LET subsets == eps[route.service].subsets
        addrs   == AllAddresses(subsets)
        port    == verifyEndpointPortExist(subsets, route.port)
    IN  [service |-> route.service,
         weight  |-> route.weight,
         ips     |-> [i \in DOMAIN addrs |-> <<addrs[i], port>>]]

\* The build fails as a whole when one route cannot be resolved.
Buildable(routes, eps) == \A i \in DOMAIN routes : Resolvable(routes[i], eps)

buildExpectedEndpointStatus(routes, eps) ==
    [i \in DOMAIN routes |-> Resolve(routes[i], eps)]

-----------------------------------------------------------------------------
(* Comparing the expected status with the recorded one *)

deepEqualEndpointStatusGrown(a, b) ==
    /\ a.service = b.service
    /\ a.weight = b.weight
    /\ \A i \in DOMAIN b.ips : Contains(a.ips, b.ips[i])

\* Every pair of a is a pair of b; b may have more.
deepEqualEndpointStatus(a, b) ==
    /\ a.service = b.service
    /\ a.weight = b.weight
    /\ \A i \in DOMAIN a.ips : Contains(b.ips, a.ips[i])

hasEndpointStatus(slice, elem) ==
    \E i \in DOMAIN slice : deepEqualEndpointStatus(elem, slice[i])

deepEqualEndpointStatusList(listA, listB) ==
    /\ Len(listA) = Len(listB)
    /\ \A i \in DOMAIN listA : hasEndpointStatus(listB, listA[i])

-----------------------------------------------------------------------------
(* The HAProxy configuration *)

\* Integers below 2^24 are float32s: the conversions of a weight and of a
\* number of pods change nothing below it.  Exact bounds both; no list of
\* Endpoints is that long, and README.md:48 has the weights sum to 100.
Exact == 16777216

Magnitude(x) == IF x < 0 THEN -x ELSE x

\* The integer nearest to a/b, a tie going to the even one.
NearestInt(a, b) ==
    LET below == a \div b
        rest  == a % b
    IN  IF 2 * rest > b \/ (2 * rest = b /\ below % 2 = 1) THEN below + 1 ELSE below

\* 2^s scales a/b to a significand, which has 24 binary digits.
Scales(a, b, s) ==
    Exact * b =< 2 * Magnitude(a) * 2^s /\ Magnitude(a) * 2^s < Exact * b

\* The float32 nearest to a/b, for a and b below Exact.
Float32(a, b) ==
    IF a = 0 THEN [num |-> 0, den |-> 1]
    ELSE LET s == CHOOSE s \in 0..23 + b : Scales(a, b, s)
         IN  [num |-> NearestInt(a * 2^s, b), den |-> 2^s]

ServersOfWhole(entry) ==
    [i \in DOMAIN entry.ips |->
        [name   |-> <<entry.service, i - 1>>,
         weight |-> Float32(entry.weight \div Len(entry.ips), 1),
         ip     |-> entry.ips[i]]]

\* One server line per pair; the weight of a route is divided by the number
\* of its pods, and a route without pods gives no line.  The name of a line
\* is the service and the pod's position, joined by "-" in the code.
ServersOf(entry) ==
    [i \in DOMAIN entry.ips |->
        [name   |-> <<entry.service, i - 1>>,
         weight |-> Float32(entry.weight, Len(entry.ips)),
         ip     |-> entry.ips[i]]]

newHAProxyController(status) ==
    FlattenSeq([i \in DOMAIN status |-> ServersOf(status[i])])

-----------------------------------------------------------------------------
(* The "kanaryRef" annotation of an Endpoints object *)

\* A missing annotation is read as the empty list.
addKanaryRefInEp(refs, owner) ==
    IF Contains(refs, owner) THEN refs ELSE Append(refs, owner)

\* Zero-based as in the code, -1 when the element is not there.
getEltToDeleteIndex(slice, elt) ==
    SelectInSeq(slice, LAMBDA e : e = elt) - 1

\* kyRef[:i] followed by kyRef[i+1:], for an index that exists.
deleteRef(refs, owner) == RemoveAt(refs, getEltToDeleteIndex(refs, owner) + 1)
=============================================================================
