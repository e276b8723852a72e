-------------------------- MODULE MCRouteLifecycle --------------------------
(***************************************************************************)
(* Small instances of RouteLifecycle for TLC: what the apps answer.        *)
(***************************************************************************)
EXTENDS RouteLifecycle, TLC

CONSTANTS u1, u2

Fault(kind) == [kind |-> kind, allowed |-> {}, disallowed |-> {}]
Document(allowed, disallowed) ==
    [kind |-> "document", allowed |-> allowed, disallowed |-> disallowed]

Gone == {Fault("unreachable")}
\* One document, and an app that goes away.
OneDocument == {Document({u1}, {})} \cup Gone
\* An app that changes its mind: the rules of its documents clash on u1.
Clashing == {Document({u1}, {}), Document({}, {u1})}
\* The same, and an app that goes away.
ClashingOrGone == Clashing \cup Gone
\* An app whose documents have no entity in common.
Disjoint == {Document({u1}, {}), Document({u2}, {})}
\* An app whose replies nobody has a handler for, or that never replies.
Unhandled == {Fault("not_json"), Fault("hang")}
AllProcs == Tasks \cup Servers

\* The servers are interchangeable.
ServerSymmetry == Permutations(Servers)
=============================================================================
