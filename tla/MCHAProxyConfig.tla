-------------------------- MODULE MCHAProxyConfig --------------------------
(***************************************************************************)
(* Values for HAProxyConfig: two backends, three pods, services with a     *)
(* named port, with an unnamed one and with pods on two port numbers.      *)
(***************************************************************************)
EXTENDS HAProxyConfig

MCServices == {"v1", "v2"}

Port(name, number) == [name |-> name, number |-> number]
Subset(addresses, ports) == [addresses |-> addresses, ports |-> ports]

ByName(n) == [str |-> n, int |-> 0]
ByNumber(n) == [str |-> "", int |-> n]
Route(s, w, port) == [service |-> s, weight |-> w, port |-> port]

\* Routes whose weights sum to 100, as the README asks.
MCRouteLists ==
    { <<Route("v1", 80, ByName("http")), Route("v2", 20, ByNumber(9090))>>,
      <<Route("v1", 50, ByName("http")), Route("v2", 50, ByName("http"))>>,
      <<Route("v2", 99, ByNumber(9090)), Route("v1", 1, ByName("http"))>>,
      <<Route("v1", 100, ByName("http"))>>,
      <<Route("v2", 100, ByNumber(9090))>>,
      <<>> }

Named == <<Port("http", 9090), Port("metrics", 9100)>>

\* No pod, no ready pod; one, two and another; two port numbers under one
\* name; one port without a name.
MCSubsetLists ==
    { <<>>,
      <<Subset(<<>>, Named)>>,
      <<Subset(<<"p1">>, Named)>>,
      <<Subset(<<"p1", "p2">>, Named)>>,
      <<Subset(<<"p3">>, Named)>>,
      <<Subset(<<"p1">>, Named), Subset(<<"p2">>, <<Port("http", 8080)>>)>>,
      <<Subset(<<"p1", "p2", "p3">>, <<Port("", 9090)>>)>> }
=============================================================================
