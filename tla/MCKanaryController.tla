------------------------- MODULE MCKanaryController -------------------------
(***************************************************************************)
(* Instances of KanaryController.  The backend has one ready pod or two; a *)
(* Kanary that is edited moves its destination and changes its weight.     *)
(***************************************************************************)
EXTENDS KanaryController

CONSTANTS a, b, w1, w2

MCSymmetry == Permutations({a, b}) \cup Permutations({w1, w2})

Ports == <<[name |-> "http", number |-> 9090]>>
Subset(addresses) == [addresses |-> addresses, ports |-> Ports]
Route(s, w) ==
    [service |-> s, weight |-> w, port |-> [str |-> "http", int |-> 0]]

MCSubsetListsShared == {<<Subset(<<"p1">>)>>}
MCSubsetLists == MCSubsetListsShared \cup {<<Subset(<<"p1", "p2">>)>>}

MCSpecsShared == {[dest |-> "x", routes |-> <<Route("v1", 100)>>]}
MCSpecs == MCSpecsShared \cup {[dest |-> "y", routes |-> <<Route("v1", 50)>>]}

MCAllCalls == Calls

\* The failures a reconciliation survives: the step that follows was not yet
\* made, or made and recorded.
MCRefusedCalm == {"configMap", "rollout", "ref", "deployment", "service"}
MCUnansweredCalm ==
    {"rollout", "ref", "statusEndpoint", "statusDeployment", "statusService"}

NoSteps == [create |-> 0, edit |-> 0, delete |-> 0, change |-> 0,
            fault |-> 0, restart |-> 0, relist |-> 0]

\* A Kanary deleted and created again; a failed call, a crash, a lost watch.
MCLimitsReborn == [NoSteps EXCEPT !.create = 2, !.delete = 1, !.fault = 1,
                                  !.restart = 1, !.relist = 1]
\* A Kanary edited twice while its pods change, a call fails and a process ends.
MCLimitsEdited == [NoSteps EXCEPT !.create = 1, !.edit = 2, !.change = 1,
                                  !.fault = 1, !.restart = 1]
\* Two Kanaries on one backend, one of which is deleted, at any moment.
MCLimitsShared == [NoSteps EXCEPT !.create = 2, !.delete = 1]
\* Two whole lives of a name without overlap between changes and reconciliations.
MCLimitsCalm == [NoSteps EXCEPT !.create = 2, !.edit = 1, !.delete = 2,
                                !.change = 1, !.fault = 2, !.relist = 1]

\* The shortest histories that lead to each disagreement.
MCLimitsPodChange == [NoSteps EXCEPT !.create = 1, !.change = 1]
MCLimitsMove == [NoSteps EXCEPT !.create = 1, !.edit = 1, !.fault = 1]
MCLimitsRefs == [NoSteps EXCEPT !.create = 2]
MCLimitsRelist == [NoSteps EXCEPT !.create = 1, !.delete = 1, !.relist = 1]
=============================================================================
