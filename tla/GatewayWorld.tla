---------------------------- MODULE GatewayWorld ----------------------------
(***************************************************************************)
(* What the HTTPRoute controller relies on seeing of Gateways, their        *)
(* verification secrets and the way to a client, in its own caches.  It is  *)
(* the interface between the two halves of the program: HTTPRouteReconciler *)
(* takes its environment's steps from here, and the three controllers of    *)
(* Provisioning are shown to provide nothing else.                          *)
(*                                                                          *)
(* The subscription annotation, once seen, stays as long as the Gateway; a  *)
(* Gateway that is gone does not come back.  Nothing is promised of the     *)
(* secret, which may come before the annotation and go again, or of the     *)
(* client.                                                                  *)
(***************************************************************************)
CONSTANT Gateways    \* Gateway objects

VARIABLES
    gw,         \* "pending" (no subscription annotation), "ready" or "gone"
    secret,     \* whether a Gateway's verification secret exists
    clientOK    \* GatewayClass, config and credentials resolve to a client

worldVars == <<gw, secret, clientOK>>

WorldTypeOK ==
    /\ gw \in [Gateways -> {"pending", "ready", "gone"}]
    /\ secret \in [Gateways -> BOOLEAN]
    /\ clientOK \in BOOLEAN

Init ==
    /\ gw = [g \in Gateways |-> "pending"]
    /\ secret = [g \in Gateways |-> FALSE]
    /\ clientOK \in BOOLEAN

Annotated(g) ==
    /\ gw[g] = "pending"
    /\ gw' = [gw EXCEPT ![g] = "ready"]
    /\ UNCHANGED <<secret, clientOK>>

SecretChanges(g) ==
    /\ gw[g] # "gone"
    /\ secret' = [secret EXCEPT ![g] = ~secret[g]]
    /\ UNCHANGED <<gw, clientOK>>

\* The secret of a Gateway that is gone is of no use to anybody.
Deleted(g) ==
    /\ gw[g] # "gone"
    /\ gw' = [gw EXCEPT ![g] = "gone"]
    /\ secret' = [secret EXCEPT ![g] = FALSE]
    /\ UNCHANGED clientOK

ClientChanges ==
    /\ clientOK' = ~clientOK
    /\ UNCHANGED <<gw, secret>>

\* Most steps of the program are none that anybody here can see.
Next ==
    \/ UNCHANGED worldVars
    \/ \E g \in Gateways : Annotated(g) \/ SecretChanges(g) \/ Deleted(g)
    \/ ClientChanges

Spec == Init /\ [][Next]_worldVars
=============================================================================
