---------------------------- MODULE Provisioning ----------------------------
(***************************************************************************)
(* What the status of each Kanary promises to whoever reads it: a Kanary   *)
(* starts with an empty status, the four parts of it are recorded one at a *)
(* time and in this order, each at most once, and only the deletion of the *)
(* Kanary takes them away.                                                 *)
(*                                                                         *)
(*   config    status.destinationStatus.configName                         *)
(*   list      status.endpointStatuses                                     *)
(*   proxy     status.destinationStatus.proxyName                          *)
(*   service   status.destinationStatus.serviceName                        *)
(*                                                                         *)
(* KanaryController implements it; every decision of syncKanary to create  *)
(* or to update reads these four fields.                                   *)
(***************************************************************************)
EXTENDS Naturals, Sequences

CONSTANTS Kanaries, None

VARIABLE recorded   \* Kanary -> the parts recorded, or None

Order == <<"config", "list", "proxy", "service">>

Prefix(n) == {Order[i] : i \in 1..n}

Init == recorded = [k \in Kanaries |-> None]

Create(k) ==
    /\ recorded[k] = None
    /\ recorded' = [recorded EXCEPT ![k] = {}]

Record(k, n) ==
    /\ recorded[k] = Prefix(n - 1)
    /\ recorded' = [recorded EXCEPT ![k] = Prefix(n)]

Delete(k) ==
    /\ recorded[k] # None
    /\ recorded' = [recorded EXCEPT ![k] = None]

Next ==
    \E k \in Kanaries :
        Create(k) \/ Delete(k) \/ \E n \in DOMAIN Order : Record(k, n)

Spec == Init /\ [][Next]_recorded
=============================================================================
