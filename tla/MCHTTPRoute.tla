---------------------------- MODULE MCHTTPRoute ----------------------------
(***************************************************************************)
(* Instances of the HTTPRoute controller for TLC.                           *)
(***************************************************************************)
EXTENDS HTTPRouteProperties, FiniteSets

CONSTANTS r1, r2, b1, b2, g1, g2, pathA, pathB, f1, ip1, ip2, sel1, sel2

It(rule, backend, path, resp) ==
    [rule |-> rule, backend |-> backend, service |-> TRUE, path |-> path, port |-> 80,
     req |-> None, resp |-> resp]
\* A backendRef of another group or kind in a rule.
Other(rule, backend, path) == [It(rule, backend, path, None) EXCEPT !.service = FALSE]

\* One backend; then a second rule with a backend that is passed over and another
\* backend.
GrowingSpecs == {<<It(0, b1, pathA, None)>>,
                 <<It(0, b1, pathA, None), Other(1, b1, pathB), It(1, b2, pathB, f1)>>}
SingleSpec == {<<It(0, b1, pathA, None)>>}

\* The route moves to another backend.
MovingSpecs == {<<It(1, b1, pathA, None)>>, <<It(0, b2, pathB, f1)>>}

\* One rule with a filter, and two rules with one path; two rules that trade paths.
ClashingSpecs == {<<It(0, b1, pathA, f1)>>, <<It(0, b1, pathA, None), It(1, b1, pathA, None)>>}
SwappingSpecs == {<<It(0, b1, pathA, None), It(1, b1, pathB, None)>>,
                  <<It(0, b1, pathB, None), It(1, b1, pathA, None)>>}

OneParent == [r \in Routes |-> <<g1>>]
\* Two listeners of one Gateway; conditions go by the Gateway's name (:496).
TwoListeners == [r \in Routes |-> <<g1, g1>>]

\* Gateways in the namespace of all routes, and in another one.
WakesAll == [g \in Gateways |-> Routes]
WakesNone == [g \in Gateways |-> {}]

\* Bound of the liveness run: the deletion of a route, and one failed call, lost
\* answer, crash or change of the world, in any order. Only steps of the users,
\* the world and failing calls are cut, which no fairness condition asks for.
FewEvents == moves' + faults' <= 1 + Cardinality({r \in Routes : hr'[r].deleting})

\* Bound of the safety runs with failures: one edit, and the deletion of the route.
EditThenDelete == moves' <= 1 + Cardinality({r \in Routes : hr'[r].deleting})
=============================================================================
