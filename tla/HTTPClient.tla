----------------------------- MODULE HTTPClient -----------------------------
(***************************************************************************)
(* The client of the real API (internal/sakura/client.go and the files with *)
(* its methods): two controllers make calls at a time, a call is a request  *)
(* and an answer, and between the two the network and the server may do     *)
(* what they like.  The server is external: it answers 404 for what is not  *)
(* there and 409 for what it refuses, it may fail before or after doing     *)
(* what it was asked, and it may be silent for good.  net/http repeats no   *)
(* POST, PUT or DELETE that it began to send.                               *)
(*                                                                          *)
(* types.go:13-15 says that all answers nest the resource under its name,   *)
(* {"apigw": {"<resource>": ..}}; docs/sakura-apigw-api-spec.md:68-88 shows *)
(* the subscription without that level.  Which kinds are nested is a        *)
(* constant.                                                                *)
(***************************************************************************)
EXTENDS Naturals

CONSTANTS
    Callers,       \* the workers that make calls, one at a time each
    Things,        \* identifiers the server can give out
    NoThing,       \* the empty identifier
    Kinds,         \* sections of the API a run uses
    NestedKinds,   \* those whose answers nest the resource under its name
    MaxCalls       \* bound: calls a run makes

ASSUME HTTPAssumption == NoThing \notin Things

VARIABLES
    server,        \* [Things -> [kind, state]]
    call,          \* [Callers -> Call]
    stray,         \* requests whose caller has given up, not executed yet
    calls          \* how many were made

httpVars == <<server, call, stray, calls>>

----------------------------------------------------------------------------
(* The methods: which section, which verb, and how the answer is decoded.   *)

Method(kind, verbs, decode) == [kind : {kind}, verb : verbs, decode : decode]

\* Wrapped in a struct of its own: decodeResponse[subscriptionResponse].
Nested(kind, verbs) ==
    Method(kind, verbs \intersect {"create", "get", "list"}, {"nested"})
        \union Method(kind, verbs \intersect {"update", "delete"}, {"closed"})
\* Decoded directly: decodeResponse[User], decodeListResponse[User].
Flat(kind, verbs) ==
    Method(kind, verbs \intersect {"create", "get"}, {"flat"})
        \union Method(kind, verbs \intersect {"list"}, {"array"})
        \union Method(kind, verbs \intersect {"update", "delete"}, {"closed"})

SubscriptionMethods == Nested("subscriptions", {"create", "get", "list", "update", "delete"})
ServiceMethods == Nested("services", {"create", "get", "list", "update", "delete"})
RouteMethods == Nested("routes", {"create", "get", "list", "update", "delete"})
\* A transform is set and read under its route's identifiers.
TransformMethods == Flat("routes", {"get", "update"})
\* An update of a user sets its authentication or its groups.
UserMethods == Flat("users", {"create", "get", "list", "update", "delete"})
\* An update is that of a route's authorization.
GroupMethods == Flat("groups", {"create", "list", "delete"}) \union Flat("routes", {"get", "update"})
OIDCMethods == Flat("oidcs", {"create", "get", "list", "delete"})
DomainMethods == Flat("domains", {"create", "list", "update", "delete"})
CertificateMethods == Flat("certificates", {"create", "list", "update", "delete"})

PlanMethods == Flat("plans", {"list"})

Methods == {m \in PlanMethods \union SubscriptionMethods \union ServiceMethods \union RouteMethods
                 \union TransformMethods \union UserMethods \union GroupMethods
                 \union OIDCMethods \union DomainMethods \union CertificateMethods : m.kind \in Kinds}

----------------------------------------------------------------------------
Request == [method : Methods, thing : Things \union {NoThing}]
Statuses == {200, 404, 409, 429, 500}
Outcomes == {"ok", "notFound", "conflict", "error"}

\* "sent": the server has not executed it; "served": its answer is under way.
\* The last two fields are ghosts: how often the request was executed with its
\* effect, and what it created.
Call == [pc : {"sent", "served", "done"}, req : Request, status : Statuses \union {0},
         whole : BOOLEAN, outcome : Outcomes, result : Things \union {NoThing},
         effects : Nat, made : Things \union {NoThing}]
NoCall == [pc |-> "idle"]
Sent(req) == [pc |-> "sent", req |-> req, status |-> 0, whole |-> TRUE,
              outcome |-> "error", result |-> NoThing, effects |-> 0, made |-> NoThing]
Done(c, outcome) == call[c].pc = "done" /\ call[c].outcome = outcome

Live(x) == x \in Things /\ server[x].state = "live"
Unborn == {x \in Things : server[x].state = "unborn"}

HTTPInit ==
    /\ server = [x \in Things |-> [kind |-> "plans", state |-> "unborn"]]
    /\ call = [c \in Callers |-> NoCall]
    /\ stray = {} /\ calls = 0

----------------------------------------------------------------------------
(* The server *)

\* It does what a request asks for; a creation makes y.
Effect(req, y) ==
    \/ /\ req.method.verb = "create" /\ y \in Unborn
       /\ server' = [server EXCEPT ![y] = [kind |-> req.method.kind, state |-> "live"]]
    \/ /\ req.method.verb = "delete" /\ y = NoThing /\ Live(req.thing)
       /\ server' = [server EXCEPT ![req.thing].state = "deleted"]
    \/ /\ req.method.verb \in {"get", "list", "update"} /\ y = NoThing
       /\ req.thing = NoThing \/ Live(req.thing)
       /\ UNCHANGED server

\* What a refusal may say: 404 of what is gone, or of the service of a new
\* route; 409 of a creation; too many requests, or a failure, of anything.
Refusals(req) ==
    {429, 500}
    \union (IF /\ ~Live(req.thing)
               /\ req.thing = NoThing => req.method.kind = "routes" /\ req.method.verb = "create"
            THEN {404} ELSE {})
    \union (IF req.method.verb = "create" THEN {409} ELSE {})

Answered(k, status) == [k EXCEPT !.pc = "served", !.status = status]
Executed(k, y, status, whole) ==
    [Answered(k, status) EXCEPT !.effects = k.effects + 1, !.made = y, !.whole = whole]

\* The server executes a request and answers; it may fail after the effect, and
\* a good answer may be cut short on its way.
Serve(c) ==
    /\ call[c].pc = "sent"
    /\ \/ \E y \in Things \union {NoThing}, status \in {200, 500}, whole \in BOOLEAN :
             /\ Effect(call[c].req, y)
             /\ call' = [call EXCEPT ![c] = Executed(@, y, status, whole)]
       \/ \E status \in Refusals(call[c].req) :
             /\ call' = [call EXCEPT ![c] = Answered(@, status)]
             /\ UNCHANGED server
    /\ UNCHANGED <<stray, calls>>

\* A request whose caller has given up is executed after all.
ServeStray == \E req \in stray, y \in Things \union {NoThing} :
    /\ Effect(req, y)
    /\ stray' = stray \ {req}
    /\ UNCHANGED <<call, calls>>

----------------------------------------------------------------------------
(* The client *)

\* A request names what exists or existed, except one that creates or lists.
Send(c, m, x) ==
    /\ call[c].pc \in {"idle", "done"} /\ calls < MaxCalls
    /\ IF m.verb \in {"create", "list"} THEN x = NoThing
       ELSE x \in Things \ Unborn /\ server[x].kind = m.kind
    /\ call' = [call EXCEPT ![c] = Sent([method |-> m, thing |-> x])]
    /\ calls' = calls + 1
    /\ UNCHANGED <<server, stray>>

MutantIsNotFound(status) == status >= 400
IsNotFound(status) == status = 404
IsConflict(status) == status = 409

MutantIsError(status) == status >= 500
\* A status of 400 or more is an APIError.
IsError(status) == status >= 400

\* The method decodes answers of the form that the server gives those of its kind.
Fits(m) == m.decode = "nested" <=> m.kind \in NestedKinds

MutantDecoded(m, thing) == [outcome |-> "ok", result |-> NoThing]

\* What a good answer is decoded to.  A body that is not read tells nothing; a
\* struct that does not find its fields stays empty, without an error; a list
\* that meets an object, or an object that meets a list, is an error.
Decoded(m, thing) ==
    CASE m.decode = "closed" -> [outcome |-> "ok", result |-> NoThing]
      [] m.decode # "closed" /\ Fits(m) -> [outcome |-> "ok", result |-> thing]
      [] m.decode # "closed" /\ ~Fits(m) ->
            [outcome |-> IF m.verb = "list" THEN "error" ELSE "ok", result |-> NoThing]

Classified(status) ==
    IF IsNotFound(status) THEN "notFound" ELSE IF IsConflict(status) THEN "conflict" ELSE "error"

\* What a method returns for the answer that its request got; only a method that
\* returns something reads the body.
Returned(k) ==
    LET m == k.req.method
    IN  IF IsError(k.status) THEN [outcome |-> Classified(k.status), result |-> NoThing]
        ELSE IF ~k.whole /\ m.decode # "closed" THEN [outcome |-> "error", result |-> NoThing]
        ELSE Decoded(m, IF m.verb = "create" THEN k.made ELSE k.req.thing)

Concluded(k, answer) ==
    [k EXCEPT !.pc = "done", !.outcome = answer.outcome, !.result = answer.result]

Receive(c) ==
    /\ call[c].pc = "served"
    /\ call' = [call EXCEPT ![c] = Concluded(@, Returned(@))]
    /\ UNCHANGED <<server, stray, calls>>

\* The transport fails, or the 30 s of http.Client's Timeout are over, which cover
\* the whole call, the answer's body included.  A request not yet executed is lost,
\* or on its way still.
GiveUp(c) ==
    /\ call[c].pc \in {"sent", "served"}
    /\ call' = [call EXCEPT ![c] = Concluded(@, [outcome |-> "error", result |-> NoThing])]
    /\ stray' \in {stray} \union (IF call[c].pc = "sent" THEN {stray \union {call[c].req}} ELSE {})
    /\ UNCHANGED <<server, calls>>

HTTPNext ==
    \/ \E c \in Callers :
          \/ \E m \in Methods, x \in Things \union {NoThing} : Send(c, m, x)
          \/ Serve(c) \/ Receive(c) \/ GiveUp(c)
    \/ ServeStray

----------------------------------------------------------------------------
(* Properties *)

HTTPTypeOK ==
    /\ server \in [Things -> [kind : Kinds \union {"plans"}, state : {"unborn", "live", "deleted"}]]
    /\ call \in [Callers -> {NoCall} \union Call]
    /\ stray \subseteq Request /\ calls \in Nat

\* A method says "done" only of a request that was executed once, and 404 or
\* conflict only of one that had no effect.  Every other error leaves it open:
\* the controllers must not conclude from it that nothing happened, or that it
\* did (client.go:150-169).
OutcomeIsHonest == \A c \in Callers :
    /\ Done(c, "ok") => call[c].effects = 1
    /\ Done(c, "notFound") \/ Done(c, "conflict") => call[c].effects = 0

\* Before the HTTPRoute controller replaces a recorded service it asks IsNotFound
\* (httproute_controller.go:209; the config controller asks nothing and takes any
\* error).  What a call to it reported so is gone and stays gone, whatever other
\* callers do and whatever requests of calls that were given up still arrive.
NotFoundIsForGood == \A c \in Callers :
    Done(c, "notFound") => ~Live(call[c].req.thing)

\* A creation that succeeds has made something that no other call made.  It returns
\* its identifier if the answer has the form the method decodes; if not, it returns
\* an empty one and no error, and nobody can name what was made (client.go:171-187).
CreatedIsNamed == \A c \in Callers :
    LET k == call[c] IN
    Done(c, "ok") /\ k.req.method.verb = "create" =>
        /\ k.made # NoThing
        /\ k.result = IF Fits(k.req.method) THEN k.made ELSE NoThing
        /\ \A d \in Callers \ {c} : call[d].pc # "idle" => call[d].made # k.made
=============================================================================
