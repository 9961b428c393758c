------------------------ MODULE SakuraClient_proofs ------------------------
(***************************************************************************)
(* Proofs about the two clients: the maps of the mock agree and implement   *)
(* SakuraCloud, call by call; what the client of the real API reports of a  *)
(* call is true, and a creation it reports has a name of its own.           *)
(***************************************************************************)
EXTENDS SakuraClient, TLAPS

\* Deleting a key deletes that key.
LEMMA DeleteDomain ==
    ASSUME NEW map, NEW id
    PROVE  DOMAIN Delete(map, id) = DOMAIN map \ {id}
BY DEF Delete, Restrict

\* Setting a key of a map, as `m.services[id] = svc` does.
LEMMA Assigned ==
    ASSUME NEW map, NEW x, NEW v
    PROVE  /\ DOMAIN Assign(map, x, v) = DOMAIN map \union {x}
           /\ Assign(map, x, v)[x] = v
           /\ \A y \in DOMAIN map : y # x => Assign(map, x, v)[y] = map[y]
BY DEF Assign

\* NewMockClient makes every map empty.
LEMMA ReadsAgreeInit == NewMockClient => ReadsAgree
BY DEF NewMockClient, ReadsAgree, Empty

\* The reads look at the services and the routes alone.
LEMMA ReadsAgreeSame == ReadsAgree /\ UNCHANGED <<mServices, mRoutes>> => ReadsAgree'
BY DEF ReadsAgree, RoutesListed

\* CreateService adds a service with no routes under it.
LEMMA CreateServiceKeeps ==
    ASSUME NEW s, NEW name, NEW host, ReadsAgree, MCreateService(s, name, host)
    PROVE  ReadsAgree'
<1>1. s \notin DOMAIN mRoutes
  BY DEF ReadsAgree, MCreateService, NewServiceIDs, KnownServices
<1>2. /\ mServices' = Assign(mServices, s, [name |-> name, host |-> host])
      /\ mRoutes' = Assign(mRoutes, s, Empty)
  BY DEF MCreateService
<1>3. DOMAIN Empty = {}
  BY DEF Empty
<1>4. /\ DOMAIN mServices' = DOMAIN mServices \union {s}
      /\ DOMAIN mRoutes' = DOMAIN mRoutes \union {s}
  BY <1>2, Assigned
<1>5. mRoutes'[s] = Empty /\ \A x \in DOMAIN mRoutes : mRoutes'[x] = mRoutes[x]
  BY <1>1, <1>2 DEF Assign
<1> QED
  BY <1>1, <1>3, <1>4, <1>5 DEF ReadsAgree, RoutesListed

\* DeleteService drops the service with its routes.
LEMMA DeleteServiceKeeps ==
    ASSUME NEW s, ReadsAgree, MDeleteService(s)
    PROVE  ReadsAgree'
<1>1. /\ DOMAIN mServices' = DOMAIN mServices \ {s}
      /\ DOMAIN mRoutes' = DOMAIN mRoutes \ {s}
  BY DeleteDomain DEF MDeleteService
<1>2. \A x \in DOMAIN mRoutes' : mRoutes'[x] = mRoutes[x]
  BY <1>1 DEF MDeleteService, Delete, Restrict
<1> QED
  BY <1>1, <1>2 DEF ReadsAgree, RoutesListed

\* CreateRoute refuses a service that is not there and names the route under it.
LEMMA CreateRouteKeeps ==
    ASSUME NEW t, NEW s, NEW name, NEW path, ReadsAgree, MCreateRoute(t, s, name, path)
    PROVE  ReadsAgree'
<1>1. s \in DOMAIN mRoutes
  BY DEF ReadsAgree, MCreateRoute, ServiceFound
<1>2. \A x \in DOMAIN mRoutes : t \notin DOMAIN mRoutes[x]
  BY DEF MCreateRoute, NewRouteIDs, KnownRoutes, LiveRoutes
<1>3. /\ DOMAIN mRoutes' = DOMAIN mRoutes
      /\ DOMAIN mRoutes'[s] = DOMAIN mRoutes[s] \union {t}
      /\ \A x \in DOMAIN mRoutes : x # s => mRoutes'[x] = mRoutes[x]
  <2> DEFINE new == Assign(mRoutes[s], t, [name |-> name, path |-> path])
  <2>1. mRoutes' = Assign(mRoutes, s, new)
    BY <1>1 DEF MCreateRoute
  <2>2. DOMAIN new = DOMAIN mRoutes[s] \union {t}
    BY Assigned
  <2> HIDE DEF new
  <2>3. DOMAIN mRoutes' = DOMAIN mRoutes
    BY <1>1, <2>1 DEF Assign
  <2>4. mRoutes'[s] = new
    BY <1>1, <2>1 DEF Assign
  <2>5. \A x \in DOMAIN mRoutes : x # s => mRoutes'[x] = mRoutes[x]
    BY <1>1, <2>1 DEF Assign
  <2> QED
    BY <2>2, <2>3, <2>4, <2>5
<1>4. DOMAIN mServices' = DOMAIN mServices
  BY DEF MCreateRoute
<1> QED
  BY <1>1, <1>2, <1>3, <1>4 DEF ReadsAgree, RoutesListed

\* UpdateRoute writes an entry that is there.
LEMMA UpdateRouteKeeps ==
    ASSUME NEW s, NEW t, NEW path, ReadsAgree, MUpdateRoute(s, t, path)
    PROVE  ReadsAgree'
<1>1. /\ DOMAIN mRoutes' = DOMAIN mRoutes
      /\ \A x \in DOMAIN mRoutes : DOMAIN mRoutes'[x] = DOMAIN mRoutes[x]
  BY DEF MUpdateRoute
<1>2. DOMAIN mServices' = DOMAIN mServices
  BY DEF MUpdateRoute
<1> QED
  BY <1>1, <1>2 DEF ReadsAgree, RoutesListed

\* DeleteRoute takes the name away with the entry.
LEMMA DeleteRouteKeeps ==
    ASSUME NEW s, NEW t, ReadsAgree, MDeleteRoute(s, t)
    PROVE  ReadsAgree'
<1>1. /\ DOMAIN mRoutes' = DOMAIN mRoutes
      /\ \A x \in DOMAIN mRoutes : DOMAIN mRoutes'[x] \subseteq DOMAIN mRoutes[x]
  <2>1. CASE s \in DOMAIN mRoutes
    <3>1. mRoutes' = [mRoutes EXCEPT ![s] = Delete(mRoutes[s], t)]
      BY <2>1 DEF MDeleteRoute
    <3>2. DOMAIN Delete(mRoutes[s], t) \subseteq DOMAIN mRoutes[s]
      BY DeleteDomain
    <3> QED
      BY <3>1, <3>2
  <2>2. CASE s \notin DOMAIN mRoutes
    BY <2>2 DEF MDeleteRoute
  <2> QED
    BY <2>1, <2>2
<1>2. DOMAIN mServices' = DOMAIN mServices
  BY DEF MDeleteRoute
<1> QED
  BY <1>1, <1>2 DEF ReadsAgree, RoutesListed

\* UpdateService writes an entry that is there.
LEMMA UpdateServiceKeeps ==
    ASSUME NEW s, NEW ip, NEW port, ReadsAgree, MUpdateService(s, ip, port)
    PROVE  ReadsAgree'
<1>1. DOMAIN mServices' = DOMAIN mServices /\ mRoutes' = mRoutes
  BY DEF MUpdateService
<1> QED
  BY <1>1 DEF ReadsAgree, RoutesListed

\* No call of the mock lets the reads disagree.
LEMMA MockStep == ReadsAgree /\ MockNext => ReadsAgree'
<1> SUFFICES ASSUME ReadsAgree, MockNext PROVE ReadsAgree'
  OBVIOUS
<1>1. CASE \E s \in NewServiceIDs, name \in Routes \X Backends, host \in [ip : IPs, port : NodePorts] :
              MCreateService(s, name, host)
  BY <1>1, CreateServiceKeeps
<1>2. CASE ServiceCalls
  BY <1>2, DeleteServiceKeeps, UpdateServiceKeeps DEF ServiceCalls
<1>3. CASE RouteCalls
  BY <1>3, CreateRouteKeeps, UpdateRouteKeeps, DeleteRouteKeeps DEF RouteCalls
<1>4. CASE SettingCalls
  <2>1. UNCHANGED <<mServices, mRoutes>>
    BY <1>4 DEF SettingCalls, MSetRequestTransform, MSetResponseTransform, MSetRouteAuthorization
  <2> QED
    BY <2>1, ReadsAgreeSame
<1>5. CASE Subscriptions \/ Users \/ Groups \/ OIDCs \/ Domains \/ Certificates
  <2>1. UNCHANGED <<mServices, mRoutes>>
    BY <1>5 DEF Subscriptions, Users, Groups, OIDCs, Domains, Certificates,
                CreateEntry, UpdateEntry, DeleteEntry, Put
  <2> QED
    BY <2>1, ReadsAgreeSame
<1> QED
  BY <1>1, <1>2, <1>3, <1>4, <1>5 DEF MockNext

\* In dry run GetService, GetRoute, ListRoutes and the calls that check their
\* service agree about what there is, after any calls with any identifiers: the
\* maps of services and of routes (mock.go:15-16) never drift apart.
THEOREM MapsAgree == Spec => []ReadsAgree
<1>1. SetupClient => ReadsAgree
  BY ReadsAgreeInit DEF SetupClient
<1>2. ReadsAgree /\ [Next]_clientVars => ReadsAgree'
  <2> SUFFICES ASSUME ReadsAgree, [Next]_clientVars PROVE ReadsAgree'
    OBVIOUS
  <2>1. MockNext \/ UNCHANGED mockVars
    BY DEF Next, clientVars
  <2>2. UNCHANGED mockVars => UNCHANGED <<mServices, mRoutes>>
    BY DEF mockVars
  <2> QED
    BY <2>1, <2>2, MockStep, ReadsAgreeSame
<1> QED
  BY <1>1, <1>2, PTL DEF Spec

----------------------------------------------------------------------------
(* The client of the real API *)

\* The four ways to treat an answer.
LEMMA MethodDecodes == \A m \in Methods : m.decode \in {"nested", "flat", "array", "closed"}
<1>1. \A kind, verbs, decode : \A m \in Method(kind, verbs, decode) : m.decode \in decode
  BY DEF Method
<1>2. \A kind, verbs : \A m \in Nested(kind, verbs) \union Flat(kind, verbs) :
          m.decode \in {"nested", "flat", "array", "closed"}
  BY <1>1 DEF Nested, Flat
<1> QED
  BY <1>2 DEF Methods, PlanMethods, SubscriptionMethods, ServiceMethods, RouteMethods,
              TransformMethods, UserMethods, GroupMethods, OIDCMethods, DomainMethods, CertificateMethods

\* What is known of a call at each of its stages; both properties follow.
Told(c) ==
    /\ call[c].pc = "sent" => call[c].effects = 0
    /\ call[c].pc = "served" =>
          /\ call[c].status < 400 => call[c].effects = 1
          /\ call[c].status \in {404, 409} => call[c].effects = 0
          /\ call[c].status = 404 => ~Live(call[c].req.thing)
    /\ Done(c, "ok") => call[c].effects = 1
    /\ Done(c, "notFound") \/ Done(c, "conflict") => call[c].effects = 0
    /\ Done(c, "notFound") => ~Live(call[c].req.thing)
    /\ call[c].pc # "idle" => call[c].req.thing \notin Unborn

HTTPInv == HTTPTypeOK /\ \A c \in Callers : Told(c)

\* Identifiers are given out once: what is gone, or never was there, stays so.
LEMMA EffectTypes ==
    ASSUME HTTPTypeOK, NEW req \in Request, NEW y \in Things \union {NoThing}, Effect(req, y)
    PROVE  /\ server' \in [Things -> [kind : Kinds \union {"plans"}, state : {"unborn", "live", "deleted"}]]
           /\ Unborn' \subseteq Unborn
           /\ \A x : x \notin Unborn /\ ~Live(x) => ~Live(x)'
<1>1. req.method \in Methods /\ req.method.kind \in Kinds
  BY DEF Request, Methods
<1> QED
  BY <1>1, HTTPAssumption DEF HTTPTypeOK, Effect, Unborn, Live

\* A step of one caller, or of none, leaves what is known of the others.
LEMMA ToldKept ==
    ASSUME NEW c \in Callers, Told(c), call'[c] = call[c], Unborn' \subseteq Unborn,
           \A x : x \notin Unborn /\ ~Live(x) => ~Live(x)'
    PROVE  Told(c)'
BY DEF Told, Done

\* Every step below changes one caller's call to another of the right type, of
\* which is told what Told demands.
LEMMA OneCall ==
    ASSUME HTTPInv, NEW c \in Callers, NEW k \in Call,
           call' = [call EXCEPT ![c] = k], stray' \subseteq Request, calls' \in Nat,
           server' \in [Things -> [kind : Kinds \union {"plans"}, state : {"unborn", "live", "deleted"}]],
           Unborn' \subseteq Unborn,
           \A x : x \notin Unborn /\ ~Live(x) => ~Live(x)',
           call'[c] = k => Told(c)'
    PROVE  HTTPInv'
<1>1. HTTPTypeOK'
  BY DEF HTTPInv, HTTPTypeOK
<1>2. call'[c] = k /\ \A d \in Callers \ {c} : call'[d] = call[d]
  BY DEF HTTPInv, HTTPTypeOK
<1>3. ASSUME NEW d \in Callers \ {c} PROVE Told(d)'
  BY <1>2, ToldKept DEF HTTPInv
<1> QED
  BY <1>1, <1>2, <1>3 DEF HTTPInv

\* A call that was made has its fields.
LEMMA CallTyped ==
    ASSUME HTTPInv, NEW c \in Callers, call[c].pc \in {"sent", "served", "done"}
    PROVE  call[c] \in Call
BY DEF HTTPInv, HTTPTypeOK, NoCall

\* A new call claims nothing yet.
LEMMA SendKeeps ==
    ASSUME HTTPInv, NEW c \in Callers, NEW m \in Methods, NEW x \in Things \union {NoThing}, Send(c, m, x)
    PROVE  HTTPInv'
<1> DEFINE k == Sent([method |-> m, thing |-> x])
<1>1. k \in Call /\ k.pc = "sent" /\ k.effects = 0 /\ k.req.thing = x
  BY DEF Sent, Call, Request, Outcomes
<1>2. x \notin Unborn
  BY HTTPAssumption DEF Send, Unborn
<1>3. call' = [call EXCEPT ![c] = k] /\ stray' \subseteq Request /\ calls' \in Nat /\ UNCHANGED server
  BY DEF Send, HTTPInv, HTTPTypeOK
<1> HIDE DEF k
<1>4. Unborn' = Unborn /\ \A z : Live(z)' = Live(z)
  BY <1>3 DEF Unborn, Live
<1>5. call'[c] = k => Told(c)'
  BY <1>1, <1>2, <1>4 DEF Told, Done
<1>6. server' \in [Things -> [kind : Kinds \union {"plans"}, state : {"unborn", "live", "deleted"}]]
  BY <1>3 DEF HTTPInv, HTTPTypeOK
<1> QED
  BY <1>1, <1>3, <1>4, <1>5, <1>6, OneCall

\* The three changes of a call keep its type and what they do not mention.
LEMMA AnsweredCall ==
    ASSUME NEW k \in Call, NEW status \in Statuses
    PROVE  LET n == Answered(k, status) IN
           /\ n \in Call
           /\ n.pc = "served" /\ n.status = status /\ n.effects = k.effects /\ n.req = k.req
<1> DEFINE n == Answered(k, status)
<1>1. n.pc = "served" /\ n.status = status /\ n.effects = k.effects /\ n.req = k.req
  BY DEF Answered, Call
<1>2. n \in Call
  BY DEF Answered, Call
<1> QED
  BY <1>1, <1>2

\* The fields of a call the server has answered.
LEMMA ExecutedCall ==
    ASSUME NEW k \in Call, NEW y \in Things \union {NoThing}, NEW status \in Statuses, NEW whole \in BOOLEAN
    PROVE  LET n == Executed(k, y, status, whole) IN
           /\ n \in Call
           /\ n.pc = "served" /\ n.status = status /\ n.effects = k.effects + 1 /\ n.req = k.req
<1> DEFINE a == Answered(k, status)
           n == Executed(k, y, status, whole)
<1>1. a \in Call /\ a.pc = "served" /\ a.status = status /\ a.req = k.req
  BY AnsweredCall
<1>2. n = [a EXCEPT !.effects = k.effects + 1, !.made = y, !.whole = whole]
  BY DEF Executed
<1>3. k.effects + 1 \in Nat
  BY DEF Call
<1> HIDE DEF a, n
<1>4. n.pc = a.pc /\ n.status = a.status /\ n.effects = k.effects + 1 /\ n.req = a.req
  BY <1>1, <1>2 DEF Call
<1>5. n \in Call
  BY <1>1, <1>2, <1>3 DEF Call
<1> QED
  BY <1>1, <1>4, <1>5 DEF n

\* The fields of a call that has returned.
LEMMA ConcludedCall ==
    ASSUME NEW k \in Call, NEW a \in [outcome : Outcomes, result : Things \union {NoThing}]
    PROVE  LET n == Concluded(k, a) IN
           /\ n \in Call
           /\ n.pc = "done" /\ n.outcome = a.outcome /\ n.effects = k.effects /\ n.req = k.req
BY DEF Concluded, Call

\* The server answers by what it holds when it serves.
LEMMA ServeKeeps ==
    ASSUME HTTPInv, NEW c \in Callers, Serve(c)
    PROVE  HTTPInv'
<1>0. /\ call[c] \in Call /\ call[c].effects = 0 /\ call[c].req \in Request
      /\ call[c].req.thing \notin Unborn /\ call[c].pc = "sent"
  BY CallTyped DEF Serve, HTTPInv, Told, Call
<1>1. stray' \subseteq Request /\ calls' \in Nat
  BY DEF Serve, HTTPInv, HTTPTypeOK
<1>2. ASSUME NEW y \in Things \union {NoThing}, NEW status \in {200, 500}, NEW whole \in BOOLEAN,
             Effect(call[c].req, y),
             call' = [call EXCEPT ![c] = Executed(call[c], y, status, whole)]
      PROVE  HTTPInv'
  <2> DEFINE k == Executed(call[c], y, status, whole)
  <2>1. call' = [call EXCEPT ![c] = k]
    BY <1>2
  <2>2. k \in Call /\ k.pc = "served" /\ k.effects = 1 /\ k.status = status /\ k.req = call[c].req
    BY <1>0, ExecutedCall DEF Statuses
  <2> HIDE DEF k
  <2>3. /\ server' \in [Things -> [kind : Kinds \union {"plans"}, state : {"unborn", "live", "deleted"}]]
        /\ Unborn' \subseteq Unborn
        /\ \A x : x \notin Unborn /\ ~Live(x) => ~Live(x)'
    BY <1>0, <1>2, EffectTypes DEF HTTPInv
  <2>4. call'[c] = k => Told(c)'
    BY <1>0, <2>2, <2>3 DEF Told, Done
  <2> QED
    BY <1>1, <2>1, <2>2, <2>3, <2>4, OneCall
<1>3. ASSUME NEW status \in Refusals(call[c].req), UNCHANGED server,
             call' = [call EXCEPT ![c] = Answered(call[c], status)]
      PROVE  HTTPInv'
  <2> DEFINE k == Answered(call[c], status)
  <2>1. call' = [call EXCEPT ![c] = k]
    BY <1>3
  <2>2. status \in {404, 409, 429, 500}
    BY <1>3 DEF Refusals
  <2>3. k \in Call /\ k.pc = "served" /\ k.effects = 0 /\ k.status = status /\ k.req = call[c].req
    BY <1>0, <2>2, AnsweredCall DEF Statuses
  <2> HIDE DEF k
  <2>4. Unborn' = Unborn /\ \A z : Live(z)' = Live(z)
    BY <1>3 DEF Unborn, Live
  <2>5. status = 404 => ~Live(call[c].req.thing)
    BY <1>3, <1>0, HTTPAssumption DEF Refusals, Live
  <2>6. call'[c] = k => Told(c)'
    BY <1>0, <2>2, <2>3, <2>4, <2>5 DEF Told, Done
  <2>7. server' \in [Things -> [kind : Kinds \union {"plans"}, state : {"unborn", "live", "deleted"}]]
    BY <1>3 DEF HTTPInv, HTTPTypeOK
  <2> QED
    BY <1>1, <2>1, <2>3, <2>4, <2>6, <2>7, OneCall
<1> QED
  BY <1>2, <1>3 DEF Serve

\* A caller is told what the server answered, or an error.
LEMMA ReceiveKeeps ==
    ASSUME HTTPInv, NEW c \in Callers, Receive(c)
    PROVE  HTTPInv'
<1> DEFINE a == Returned(call[c])
           k == Concluded(call[c], a)
<1>1. call[c] \in Call /\ call[c].pc = "served" /\ call[c].req.method \in Methods
  BY CallTyped DEF Receive, Call, Request
<1>2. /\ a \in [outcome : Outcomes, result : Things \union {NoThing}]
      /\ a.outcome = "ok" => call[c].status < 400
      /\ a.outcome = "notFound" => call[c].status = 404
      /\ a.outcome = "conflict" => call[c].status = 409
  <2>1. call[c].req.method.decode \in {"nested", "flat", "array", "closed"}
    BY <1>1, MethodDecodes
  <2>2. call[c].status \in Nat /\ call[c].made \in Things \union {NoThing}
        /\ call[c].req.thing \in Things \union {NoThing}
    BY <1>1 DEF Call, Request, Statuses
  <2> QED
    BY <2>1, <2>2 DEF Returned, Decoded, Fits, Classified, IsError, IsNotFound, IsConflict, Outcomes
<1>3. k \in Call /\ k.pc = "done" /\ k.outcome = a.outcome /\ k.effects = call[c].effects /\ k.req = call[c].req
  BY <1>1, <1>2, ConcludedCall
<1>4. call' = [call EXCEPT ![c] = k] /\ stray' \subseteq Request /\ calls' \in Nat /\ UNCHANGED server
  BY DEF Receive, HTTPInv, HTTPTypeOK
<1> HIDE DEF a, k
<1>5. Unborn' = Unborn /\ \A z : Live(z)' = Live(z)
  BY <1>4 DEF Unborn, Live
<1>6. call'[c] = k => Told(c)'
  BY <1>1, <1>2, <1>3, <1>5 DEF HTTPInv, Told, Done
<1>7. server' \in [Things -> [kind : Kinds \union {"plans"}, state : {"unborn", "live", "deleted"}]]
  BY <1>4 DEF HTTPInv, HTTPTypeOK
<1> QED
  BY <1>3, <1>4, <1>5, <1>6, <1>7, OneCall

\* A caller that gives up is told an error and leaves its request behind.
LEMMA GiveUpKeeps ==
    ASSUME HTTPInv, NEW c \in Callers, GiveUp(c)
    PROVE  HTTPInv'
<1> DEFINE a == [outcome |-> "error", result |-> NoThing]
           k == Concluded(call[c], a)
<1>1. call[c] \in Call /\ call[c].req \in Request /\ call[c].pc \in {"sent", "served"}
  BY CallTyped DEF Call, GiveUp
<1>2. k \in Call /\ k.pc = "done" /\ k.outcome = "error" /\ k.req = call[c].req
  BY <1>1, ConcludedCall DEF Outcomes
<1>3. call' = [call EXCEPT ![c] = k] /\ calls' \in Nat /\ UNCHANGED server
  BY DEF GiveUp, HTTPInv, HTTPTypeOK
<1>4. stray' \subseteq Request
  BY <1>1 DEF GiveUp, HTTPInv, HTTPTypeOK
<1> HIDE DEF a, k
<1>5. Unborn' = Unborn /\ \A z : Live(z)' = Live(z)
  BY <1>3 DEF Unborn, Live
<1>6. call'[c] = k => Told(c)'
  BY <1>1, <1>2, <1>5 DEF HTTPInv, Told, Done
<1>7. server' \in [Things -> [kind : Kinds \union {"plans"}, state : {"unborn", "live", "deleted"}]]
  BY <1>3 DEF HTTPInv, HTTPTypeOK
<1> QED
  BY <1>2, <1>3, <1>4, <1>5, <1>6, <1>7, OneCall

\* A request served after its caller left changes no answer.
LEMMA ServeStrayKeeps == HTTPInv /\ ServeStray => HTTPInv'
<1> SUFFICES ASSUME HTTPInv, NEW req \in stray, NEW y \in Things \union {NoThing},
                    Effect(req, y), stray' = stray \ {req}, UNCHANGED <<call, calls>>
             PROVE  HTTPInv'
  BY DEF ServeStray
<1>1. /\ server' \in [Things -> [kind : Kinds \union {"plans"}, state : {"unborn", "live", "deleted"}]]
      /\ Unborn' \subseteq Unborn
      /\ \A x : x \notin Unborn /\ ~Live(x) => ~Live(x)'
  BY EffectTypes DEF HTTPInv, HTTPTypeOK
<1>2. HTTPTypeOK'
  BY <1>1 DEF HTTPInv, HTTPTypeOK
<1>3. ASSUME NEW c \in Callers PROVE Told(c)'
  BY <1>1, ToldKept DEF HTTPInv
<1> QED
  BY <1>2, <1>3 DEF HTTPInv

\* A step of the mock leaves the HTTP client as it is.
LEMMA HTTPSame == HTTPInv /\ UNCHANGED httpVars => HTTPInv'
BY DEF HTTPInv, HTTPTypeOK, httpVars, Told, Done, Live, Unborn

\* One step per action of the HTTP client.
LEMMA HTTPStep == HTTPInv /\ HTTPNext => HTTPInv'
BY SendKeeps, ServeKeeps, ReceiveKeeps, GiveUpKeeps, ServeStrayKeeps DEF HTTPNext, GiveUp

\* The strengthening that makes the two promises inductive.
LEMMA HTTPInvHolds == Spec => []HTTPInv
<1>1. SetupClient => HTTPInv
  BY DEF SetupClient, HTTPInit, HTTPInv, HTTPTypeOK, NoCall, Told, Done
<1>2. HTTPInv /\ [Next]_clientVars => HTTPInv'
  BY HTTPStep, HTTPSame DEF Next, clientVars
<1> QED
  BY <1>1, <1>2, PTL DEF Spec

\* Of any number of concurrent calls, whatever the server refuses, fails or never
\* answers: "done" is reported of what was executed once, 404 and conflict of what
\* was not executed at all.
THEOREM HonestOutcomes == Spec => []OutcomeIsHonest
<1>1. HTTPInv => OutcomeIsHonest
  BY DEF HTTPInv, Told, OutcomeIsHonest
<1> QED
  BY <1>1, HTTPInvHolds, PTL

\* What was reported not found is gone for good: no later call and no request that
\* its caller has given up brings it back, so that it may be replaced.
THEOREM NotFoundLasts == Spec => []NotFoundIsForGood
<1>1. HTTPInv => NotFoundIsForGood
  BY DEF HTTPInv, Told, NotFoundIsForGood
<1> QED
  BY <1>1, HTTPInvHolds, PTL

----------------------------------------------------------------------------
(* What a creation made and what it returns.                                 *)

\* A creation that was executed made something, and a decoder that fits the answer
\* returns that.
Made(c) ==
    call[c].pc # "idle" =>
        /\ call[c].made # NoThing => call[c].made \notin Unborn
        /\ call[c].pc = "sent" => call[c].made = NoThing
        /\ call[c].req.method.verb = "create" =>
              /\ call[c].pc = "served" /\ call[c].status < 400 => call[c].made # NoThing
              /\ Done(c, "ok") => call[c].made # NoThing
              /\ Done(c, "ok") => call[c].result =
                    IF Fits(call[c].req.method) THEN call[c].made ELSE NoThing

\* No two made the same.
MadeApart ==
    \A c, d \in Callers :
        /\ c # d /\ call[c].pc # "idle" /\ call[d].pc # "idle"
        /\ call[c].made # NoThing
        => call[c].made # call[d].made

MadeInv == MadeApart /\ \A c \in Callers : Made(c)

\* The answer to a creation is always read, into a struct.
LEMMA CreationsDecode ==
    ASSUME NEW m \in Methods, m.verb = "create"
    PROVE  m.decode \in {"nested", "flat"}
BY DEF Methods, PlanMethods, SubscriptionMethods, ServiceMethods, RouteMethods, TransformMethods,
   UserMethods, GroupMethods, OIDCMethods, DomainMethods, CertificateMethods, Nested, Flat, Method

\* A step changes one call, which has made nothing, or what it had made, or what
\* had not been made.
LEMMA OneMade ==
    ASSUME HTTPInv, MadeInv, NEW c \in Callers, NEW k \in Call, call' = [call EXCEPT ![c] = k],
           Unborn' \subseteq Unborn,
           \/ k.made = NoThing
           \/ call[c].pc # "idle" /\ k.made = call[c].made
           \/ k.made \in Unborn,
           call'[c] = k => Made(c)'
    PROVE  MadeInv'
<1>1. call'[c] = k /\ \A d \in Callers \ {c} : call'[d] = call[d]
  BY DEF HTTPInv, HTTPTypeOK
<1>2. ASSUME NEW d \in Callers \ {c} PROVE Made(d)'
  BY <1>1 DEF MadeInv, Made, Done
<1>3. ASSUME NEW d \in Callers \ {c}, call[d].pc # "idle"
      PROVE  /\ k.made # NoThing => k.made # call[d].made
             /\ call[d].made # NoThing => call[d].made # k.made
  <2>1. CASE k.made = NoThing
    BY <2>1
  <2>2. CASE call[c].pc # "idle" /\ k.made = call[c].made
    BY <1>3, <2>2 DEF MadeInv, MadeApart
  <2>3. CASE k.made \in Unborn
    BY <1>3, <2>3, HTTPAssumption DEF MadeInv, Made, Unborn
  <2> QED
    BY <2>1, <2>2, <2>3
<1>4. MadeApart'
  BY <1>1, <1>3 DEF MadeInv, MadeApart
<1> QED
  BY <1>1, <1>2, <1>4 DEF MadeInv

\* A new call has made nothing.
LEMMA SendMade ==
    ASSUME HTTPInv, MadeInv, NEW c \in Callers, NEW m \in Methods,
           NEW x \in Things \union {NoThing}, Send(c, m, x)
    PROVE  MadeInv'
<1> DEFINE k == Sent([method |-> m, thing |-> x])
<1>1. k \in Call /\ k.pc = "sent" /\ k.made = NoThing
  BY DEF Sent, Call, Request, Outcomes
<1>2. call' = [call EXCEPT ![c] = k] /\ UNCHANGED server
  BY DEF Send
<1> HIDE DEF k
<1>3. Unborn' = Unborn
  BY <1>2 DEF Unborn
<1>4. call'[c] = k => Made(c)'
  BY <1>1 DEF Made, Done
<1> QED
  BY <1>1, <1>2, <1>3, <1>4, OneMade

\* The server makes what did not exist.
LEMMA ServeMade ==
    ASSUME HTTPInv, MadeInv, NEW c \in Callers, Serve(c)
    PROVE  MadeInv'
<1>1. /\ call[c] \in Call /\ call[c].req \in Request /\ call[c].pc = "sent"
      /\ call[c].made = NoThing
  BY CallTyped DEF Serve, MadeInv, Made, Call
<1>2. ASSUME NEW y \in Things \union {NoThing}, NEW status \in {200, 500}, NEW whole \in BOOLEAN,
             Effect(call[c].req, y),
             call' = [call EXCEPT ![c] = Executed(call[c], y, status, whole)]
      PROVE  MadeInv'
  <2> DEFINE k == Executed(call[c], y, status, whole)
  <2>1. call' = [call EXCEPT ![c] = k]
    BY <1>2
  <2>2. /\ k \in Call /\ k.pc = "served" /\ k.effects = call[c].effects + 1
        /\ k.status = status /\ k.req = call[c].req
    <3>1. status \in Statuses
      BY DEF Statuses
    <3> QED
      BY <1>1, <3>1, ExecutedCall
  <2>3. k.made = y
    <3> DEFINE a == Answered(call[c], status)
    <3>1. a \in Call
      BY <1>1, AnsweredCall DEF Statuses
    <3>2. k = [a EXCEPT !.effects = call[c].effects + 1, !.made = y, !.whole = whole]
      BY DEF Executed
    <3> HIDE DEF a, k
    <3> QED
      BY <3>1, <3>2 DEF Call
  <2> HIDE DEF k
  <2>4. Unborn' \subseteq Unborn
    BY <1>1, <1>2, EffectTypes DEF HTTPInv
  <2>5. CASE call[c].req.method.verb = "create"
    <3>1. y \in Unborn /\ server' = [server EXCEPT ![y] = [kind |-> call[c].req.method.kind,
                                                           state |-> "live"]]
      BY <1>2, <2>5 DEF Effect
    <3>2. y \in Things /\ y # NoThing /\ y \notin Unborn'
      BY <3>1, HTTPAssumption DEF Unborn, HTTPInv, HTTPTypeOK
    <3>3. call'[c] = k => Made(c)'
      BY <2>2, <2>3, <3>2 DEF Made, Done
    <3> QED
      BY <2>1, <2>2, <2>3, <2>4, <3>1, <3>3, OneMade
  <2>6. CASE call[c].req.method.verb # "create"
    <3>1. y = NoThing
      BY <1>2, <2>6 DEF Effect
    <3>2. call'[c] = k => Made(c)'
      BY <2>2, <2>3, <2>6, <3>1 DEF Made, Done
    <3> QED
      BY <2>1, <2>2, <2>3, <2>4, <3>1, <3>2, OneMade
  <2> QED
    BY <2>5, <2>6
<1>3. ASSUME NEW status \in Refusals(call[c].req), UNCHANGED server,
             call' = [call EXCEPT ![c] = Answered(call[c], status)]
      PROVE  MadeInv'
  <2> DEFINE k == Answered(call[c], status)
  <2>1. call' = [call EXCEPT ![c] = k]
    BY <1>3
  <2>2. status \in {404, 409, 429, 500}
    BY <1>3 DEF Refusals
  <2>3. k \in Call /\ k.pc = "served" /\ k.status = status
    BY <1>1, <2>2, AnsweredCall DEF Statuses
  <2>4. k.made = NoThing
    BY <1>1 DEF Answered, Call
  <2> HIDE DEF k
  <2>5. Unborn' = Unborn
    BY <1>3 DEF Unborn
  <2>6. call'[c] = k => Made(c)'
    BY <2>2, <2>3, <2>4 DEF Made, Done
  <2> QED
    BY <2>1, <2>3, <2>4, <2>5, <2>6, OneMade
<1> QED
  BY <1>2, <1>3 DEF Serve

\* What a concluded call keeps and what it returns.
LEMMA ConcludedMade ==
    ASSUME NEW k \in Call, NEW a \in [outcome : Outcomes, result : Things \union {NoThing}]
    PROVE  Concluded(k, a).made = k.made /\ Concluded(k, a).result = a.result
BY DEF Concluded, Call

\* The answer to a creation names what was made if its form is the decoder's.
LEMMA ReceiveMade ==
    ASSUME HTTPInv, MadeInv, NEW c \in Callers, Receive(c)
    PROVE  MadeInv'
<1> DEFINE a == Returned(call[c])
           k == Concluded(call[c], a)
<1>1. call[c] \in Call /\ call[c].pc = "served" /\ call[c].req.method \in Methods
  BY CallTyped DEF Receive, Call, Request
<1>2. /\ call[c].status \in Nat /\ call[c].made \in Things \union {NoThing}
      /\ call[c].req.thing \in Things \union {NoThing}
  BY <1>1 DEF Call, Request, Statuses
<1>3. call[c].req.method.decode \in {"nested", "flat", "array", "closed"}
  BY <1>1, MethodDecodes
<1>4. /\ a \in [outcome : Outcomes, result : Things \union {NoThing}]
      /\ a.outcome = "ok" => call[c].status < 400
  BY <1>2, <1>3 DEF Returned, Decoded, Fits, Classified, IsError, IsNotFound, IsConflict, Outcomes
<1>5. ASSUME a.outcome = "ok", call[c].req.method.verb = "create"
      PROVE  a.result = IF Fits(call[c].req.method) THEN call[c].made ELSE NoThing
  <2>1. call[c].req.method.decode \in {"nested", "flat"}
    BY <1>1, <1>5, CreationsDecode
  <2> QED
    BY <1>2, <1>5, <2>1 DEF Returned, Decoded, Fits, Classified
<1>6. /\ k \in Call /\ k.pc = "done" /\ k.outcome = a.outcome /\ k.req = call[c].req
      /\ k.made = call[c].made /\ k.result = a.result
  BY <1>1, <1>4, ConcludedCall, ConcludedMade
<1>7. call' = [call EXCEPT ![c] = k] /\ UNCHANGED server
  BY DEF Receive
<1> HIDE DEF a, k
<1>8. Unborn' = Unborn
  BY <1>7 DEF Unborn
<1>9. call'[c] = k => Made(c)'
  BY <1>1, <1>4, <1>5, <1>6, <1>8 DEF MadeInv, Made, Done
<1> QED
  BY <1>1, <1>6, <1>7, <1>8, <1>9, OneMade

\* Nothing is returned by a call that is given up.
LEMMA GiveUpMade ==
    ASSUME HTTPInv, MadeInv, NEW c \in Callers, GiveUp(c)
    PROVE  MadeInv'
<1> DEFINE a == [outcome |-> "error", result |-> NoThing]
           k == Concluded(call[c], a)
<1>1. call[c] \in Call /\ call[c].pc # "idle"
  BY CallTyped DEF GiveUp
<1>2. a \in [outcome : Outcomes, result : Things \union {NoThing}]
  BY DEF Outcomes
<1>3. /\ k \in Call /\ k.pc = "done" /\ k.outcome = "error" /\ k.made = call[c].made
  BY <1>1, <1>2, ConcludedCall, ConcludedMade
<1>4. call' = [call EXCEPT ![c] = k] /\ UNCHANGED server
  BY DEF GiveUp
<1> HIDE DEF a, k
<1>5. Unborn' = Unborn
  BY <1>4 DEF Unborn
<1>6. call'[c] = k => Made(c)'
  BY <1>1, <1>3, <1>5 DEF MadeInv, Made, Done
<1> QED
  BY <1>1, <1>3, <1>4, <1>5, <1>6, OneMade

\* One step per action.
LEMMA MadeStep == HTTPInv /\ MadeInv /\ HTTPNext => MadeInv'
<1>1. ASSUME HTTPInv, MadeInv, ServeStray
      PROVE  MadeInv'
  <2>1. call' = call /\ Unborn' \subseteq Unborn
    BY <1>1, EffectTypes DEF ServeStray, HTTPInv, HTTPTypeOK
  <2> QED
    BY <1>1, <2>1 DEF MadeInv, MadeApart, Made, Done
<1> QED
  BY <1>1, SendMade, ServeMade, ReceiveMade, GiveUpMade DEF HTTPNext, GiveUp

\* A creation that succeeds has made what no other call made, however many calls are
\* under way or given up, and its caller gets the identifier if the answer has the
\* form the method decodes, the empty one if not: whatever kinds the server nests,
\* in subscriptions.go, services.go, routes.go and users.go alike (client.go:133-187).
THEOREM CreationsAreNamed == Spec => []CreatedIsNamed
<1>1. SetupClient => MadeInv
  BY DEF SetupClient, HTTPInit, NoCall, MadeInv, MadeApart, Made
<1>2. HTTPInv /\ MadeInv /\ [Next]_clientVars => MadeInv'
  <2>1. MadeInv /\ UNCHANGED httpVars => MadeInv'
    BY DEF httpVars, MadeInv, MadeApart, Made, Done, Unborn
  <2> QED
    BY <2>1, MadeStep DEF Next, clientVars
<1>3. MadeInv => CreatedIsNamed
  <2> SUFFICES ASSUME MadeInv, NEW c \in Callers, Done(c, "ok"),
                      call[c].req.method.verb = "create"
               PROVE  /\ call[c].made # NoThing
                      /\ call[c].result = IF Fits(call[c].req.method) THEN call[c].made ELSE NoThing
                      /\ \A d \in Callers \ {c} :
                            call[d].pc # "idle" => call[d].made # call[c].made
    BY DEF CreatedIsNamed
  <2>1. call[c].pc # "idle"
    BY DEF Done
  <2> QED
    BY <2>1 DEF MadeInv, MadeApart, Made
<1> QED
  BY <1>1, <1>2, <1>3, HTTPInvHolds, PTL DEF Spec

----------------------------------------------------------------------------
(* The mock implements the cloud.                                            *)

\* What a step leaves alone, service by service and route by route, in the maps
\* and in what is remembered of the past.
KeepsServicesBut(ss) ==
    \A x : x \notin ss =>
        /\ x \in DOMAIN mServices' <=> x \in DOMAIN mServices
        /\ x \in DOMAIN mServices => mServices'[x] = mServices[x]

KeepsRoutesBut(ts) ==
    \A x, t : t \notin ts =>
        /\ RouteFound(x, t)' <=> RouteFound(x, t)
        /\ RouteFound(x, t) => mRoutes'[x][t] = mRoutes[x][t]

KeepsSettingsBut(ts) ==
    \A x, t : t \notin ts =>
        /\ RequestTransformOf(x, t)' = RequestTransformOf(x, t)
        /\ ResponseTransformOf(x, t)' = ResponseTransformOf(x, t)

KeepsPastBut(ss, ts) ==
    /\ \A x : x \notin ss =>
        /\ x \in DOMAIN past'.services <=> x \in DOMAIN past.services
        /\ x \in DOMAIN past.services => past'.services[x] = past.services[x]
    /\ \A t : t \notin ts =>
        /\ t \in DOMAIN past'.routes <=> t \in DOMAIN past.routes
        /\ t \in DOMAIN past.routes => past'.routes[t] = past.routes[t]

MockService == [name : Routes \X Backends, host : [ip : IPs, port : NodePorts]]
MockRoute == [name : Routes \X RuleIdx, path : Paths]

\* The maps have their types; what was deleted is remembered, and not there.
MapsShape ==
    /\ DOMAIN mServices \subseteq ServiceIDs
    /\ mServices \in [DOMAIN mServices -> MockService]
    /\ \A x, t : RouteFound(x, t) => t \in RouteIDs /\ mRoutes[x][t] \in MockRoute

PastShape ==
    /\ past = [services |-> past.services, routes |-> past.routes, entries |-> past.entries]
    /\ DOMAIN past.services \subseteq ServiceIDs /\ DOMAIN past.routes \subseteq RouteIDs
    /\ \A x \in DOMAIN past.services : x \notin DOMAIN mServices /\ past.services[x].state = "deleted"
    /\ \A t \in DOMAIN past.routes : /\ \A x : ~RouteFound(x, t)
                                     /\ past.routes[t].state = "deleted"

\* Settings are kept for identifiers given out, so that a new route has none.
Pairs == (ServiceIDs \union {Foreign}) \X KnownRoutes
SettingsShape ==
    /\ DOMAIN reqTransforms \subseteq Pairs
    /\ DOMAIN resTransforms \subseteq Pairs
    /\ DOMAIN routeAuths \subseteq Pairs

EntriesShape ==
    DOMAIN entries = Sections /\ \A x \in Sections : DOMAIN entries[x] \subseteq EntryIDs

MockInv == ReadsAgree /\ MapsShape /\ PastShape /\ SettingsShape /\ EntriesShape

\* What is listed is found.
LEMMA LiveFound == \A t : t \in LiveRoutes <=> \E x : RouteFound(x, t)
BY DEF LiveRoutes, RouteFound

\* Under one service.
LEMMA FoundOnce ==
    ASSUME ReadsAgree, NEW x, NEW y, NEW t, RouteFound(x, t), RouteFound(y, t)
    PROVE  x = y
BY DEF ReadsAgree, RoutesListed, RouteFound

\* Keys that are left.
LEMMA Deleted ==
    ASSUME NEW map, NEW id
    PROVE  /\ DOMAIN Delete(map, id) = DOMAIN map \ {id}
           /\ \A y \in DOMAIN map : y # id => Delete(map, id)[y] = map[y]
BY DEF Delete, Restrict

\* What Bury remembers.
LEMMA BuryFields ==
    ASSUME PastShape, NEW ss, NEW ts, Bury(ss, ts)
    PROVE  /\ past' = [services |-> past'.services, routes |-> past'.routes, entries |-> past'.entries]
           /\ past'.entries = past.entries
           /\ DOMAIN past'.services = ss \union DOMAIN past.services
           /\ DOMAIN past'.routes = ts \union DOMAIN past.routes
           /\ \A x \in ss : past'.services[x] = [ServiceView(x) EXCEPT !.state = "deleted"]
           /\ \A t \in ts : past'.routes[t] = [RouteView(t) EXCEPT !.state = "deleted"]
           /\ KeepsPastBut(ss, ts)
<1> DEFINE sv == [s \in ss \union DOMAIN past.services |->
                    IF s \in ss THEN [ServiceView(s) EXCEPT !.state = "deleted"] ELSE past.services[s]]
           rt == [t \in ts \union DOMAIN past.routes |->
                    IF t \in ts THEN [RouteView(t) EXCEPT !.state = "deleted"] ELSE past.routes[t]]
<1>1. past' = [past EXCEPT !.services = sv, !.routes = rt]
  BY DEF Bury
<1>2. /\ DOMAIN sv = ss \union DOMAIN past.services
      /\ \A x \in ss : sv[x] = [ServiceView(x) EXCEPT !.state = "deleted"]
      /\ \A x : x \notin ss /\ x \in DOMAIN past.services => sv[x] = past.services[x]
  OBVIOUS
<1>3. /\ DOMAIN rt = ts \union DOMAIN past.routes
      /\ \A x \in ts : rt[x] = [RouteView(x) EXCEPT !.state = "deleted"]
      /\ \A x : x \notin ts /\ x \in DOMAIN past.routes => rt[x] = past.routes[x]
  OBVIOUS
<1> HIDE DEF sv, rt
<1>4. /\ past'.services = sv /\ past'.routes = rt /\ past'.entries = past.entries
      /\ past' = [services |-> sv, routes |-> rt, entries |-> past.entries]
  BY <1>1 DEF PastShape
<1> QED
  BY <1>2, <1>3, <1>4 DEF KeepsPastBut

\* RouteView looks for the service of a route, and finds it.
RouteRecord(s, t) ==
    [state |-> "live", service |-> s, name |-> mRoutes[s][t].name, path |-> mRoutes[s][t].path,
     reqT |-> RequestTransformOf(s, t), respT |-> ResponseTransformOf(s, t)]

LEMMA RouteViewFound ==
    ASSUME ReadsAgree, NEW s, NEW t, RouteFound(s, t)
    PROVE  RouteView(t) = RouteRecord(s, t)
<1> DEFINE c == CHOOSE x \in DOMAIN mRoutes : t \in DOMAIN mRoutes[x]
<1>1. c \in DOMAIN mRoutes /\ t \in DOMAIN mRoutes[c]
  BY DEF RouteFound
<1> HIDE DEF c
<1>2. c = s
  BY <1>1, FoundOnce DEF RouteFound
<1> QED
  BY <1>2 DEF RouteView, RouteRecord, c

\* The same, after a step.
LEMMA RouteViewFoundNext ==
    ASSUME ReadsAgree', NEW s, NEW t, RouteFound(s, t)'
    PROVE  RouteView(t)' = RouteRecord(s, t)'
<1> DEFINE c == CHOOSE x \in DOMAIN mRoutes' : t \in DOMAIN mRoutes'[x]
<1>1. c \in DOMAIN mRoutes' /\ t \in DOMAIN mRoutes'[c]
  BY DEF RouteFound
<1> HIDE DEF c
<1>2. c = s
  BY <1>1 DEF ReadsAgree, RoutesListed, RouteFound
<1> QED
  BY <1>2 DEF RouteView, RouteRecord, c

NewService == [state |-> "unborn", owner |-> <<None, None>>, host |-> [ip |-> None, port |-> 0]]
NewRoute == [state |-> "unborn", service |-> None, name |-> <<None, 0>>, path |-> None,
             reqT |-> [header |-> None, filter |-> None], respT |-> None]

\* What the cloud looks like.
LEMMA CloudAt ==
    ASSUME ReadsAgree
    PROVE  /\ CloudServices = [s \in ServiceIDs |-> CloudServices[s]]
           /\ CloudRoutes = [t \in RouteIDs |-> CloudRoutes[t]]
           /\ \A s \in ServiceIDs :
                /\ s \in DOMAIN mServices => CloudServices[s] = ServiceView(s)
                /\ s \notin DOMAIN mServices /\ s \in DOMAIN past.services
                      => CloudServices[s] = past.services[s]
                /\ s \notin DOMAIN mServices /\ s \notin DOMAIN past.services
                      => CloudServices[s] = NewService
           /\ \A t \in RouteIDs :
                /\ \A s : RouteFound(s, t) => CloudRoutes[t] = RouteRecord(s, t)
                /\ (\A s : ~RouteFound(s, t)) /\ t \in DOMAIN past.routes
                      => CloudRoutes[t] = past.routes[t]
                /\ (\A s : ~RouteFound(s, t)) /\ t \notin DOMAIN past.routes
                      => CloudRoutes[t] = NewRoute
<1>1. ASSUME NEW t \in RouteIDs
      PROVE  /\ t \in LiveRoutes => CloudRoutes[t] = RouteView(t)
             /\ t \notin LiveRoutes /\ t \in DOMAIN past.routes => CloudRoutes[t] = past.routes[t]
             /\ t \notin LiveRoutes /\ t \notin DOMAIN past.routes => CloudRoutes[t] = NewRoute
  BY DEF CloudRoutes, NewRoute
<1>2. ASSUME NEW t \in RouteIDs, NEW s, RouteFound(s, t)
      PROVE  CloudRoutes[t] = RouteRecord(s, t)
  BY <1>1, <1>2, LiveFound, RouteViewFound
<1>3. CloudServices = [s \in ServiceIDs |-> CloudServices[s]]
  BY DEF CloudServices
<1>4. CloudRoutes = [t \in RouteIDs |-> CloudRoutes[t]]
  BY DEF CloudRoutes
<1>5. ASSUME NEW s \in ServiceIDs
      PROVE  /\ s \in DOMAIN mServices => CloudServices[s] = ServiceView(s)
             /\ s \notin DOMAIN mServices /\ s \in DOMAIN past.services
                   => CloudServices[s] = past.services[s]
             /\ s \notin DOMAIN mServices /\ s \notin DOMAIN past.services
                   => CloudServices[s] = NewService
  BY DEF CloudServices, NewService
<1> QED
  BY <1>1, <1>2, <1>3, <1>4, <1>5, LiveFound

\* What it looks like after a step.
LEMMA CloudAtNext ==
    ASSUME ReadsAgree'
    PROVE  /\ CloudServices' = [s \in ServiceIDs |-> CloudServices'[s]]
           /\ CloudRoutes' = [t \in RouteIDs |-> CloudRoutes'[t]]
           /\ \A s \in ServiceIDs :
                /\ s \in DOMAIN mServices' => CloudServices'[s] = ServiceView(s)'
                /\ s \notin DOMAIN mServices' /\ s \in DOMAIN past'.services
                      => CloudServices'[s] = past'.services[s]
                /\ s \notin DOMAIN mServices' /\ s \notin DOMAIN past'.services
                      => CloudServices'[s] = NewService
           /\ \A t \in RouteIDs :
                /\ \A s : RouteFound(s, t)' => CloudRoutes'[t] = RouteRecord(s, t)'
                /\ (\A s : ~RouteFound(s, t)') /\ t \in DOMAIN past'.routes
                      => CloudRoutes'[t] = past'.routes[t]
                /\ (\A s : ~RouteFound(s, t)') /\ t \notin DOMAIN past'.routes
                      => CloudRoutes'[t] = NewRoute
<1>1. ASSUME NEW t \in RouteIDs
      PROVE  /\ t \in LiveRoutes' => CloudRoutes'[t] = RouteView(t)'
             /\ t \notin LiveRoutes' /\ t \in DOMAIN past'.routes => CloudRoutes'[t] = past'.routes[t]
             /\ t \notin LiveRoutes' /\ t \notin DOMAIN past'.routes => CloudRoutes'[t] = NewRoute
  BY DEF CloudRoutes, NewRoute
<1>2. \A t : t \in LiveRoutes' <=> \E x : RouteFound(x, t)'
  BY DEF LiveRoutes, RouteFound
<1>3. ASSUME NEW t \in RouteIDs, NEW s, RouteFound(s, t)'
      PROVE  CloudRoutes'[t] = RouteRecord(s, t)'
  BY <1>1, <1>2, <1>3, RouteViewFoundNext
<1>4. CloudServices' = [s \in ServiceIDs |-> CloudServices'[s]]
  BY DEF CloudServices
<1>5. CloudRoutes' = [t \in RouteIDs |-> CloudRoutes'[t]]
  BY DEF CloudRoutes
<1>6. ASSUME NEW s \in ServiceIDs
      PROVE  /\ s \in DOMAIN mServices' => CloudServices'[s] = ServiceView(s)'
             /\ s \notin DOMAIN mServices' /\ s \in DOMAIN past'.services
                   => CloudServices'[s] = past'.services[s]
             /\ s \notin DOMAIN mServices' /\ s \notin DOMAIN past'.services
                   => CloudServices'[s] = NewService
  BY DEF CloudServices, NewService
<1> QED
  BY <1>1, <1>2, <1>3, <1>4, <1>5, <1>6

\* What is left alone looks the same.
LEMMA ServicesElsewhere ==
    ASSUME ReadsAgree, ReadsAgree', NEW ss, NEW ts, KeepsServicesBut(ss), KeepsPastBut(ss, ts)
    PROVE  \A x \in ServiceIDs \ ss : CloudServices'[x] = CloudServices[x]
<1> SUFFICES ASSUME NEW x \in ServiceIDs \ ss
             PROVE  CloudServices'[x] = CloudServices[x]
  OBVIOUS
<1>1. /\ x \in DOMAIN mServices' <=> x \in DOMAIN mServices
      /\ x \in DOMAIN mServices => mServices'[x] = mServices[x]
  BY DEF KeepsServicesBut
<1>2. /\ x \in DOMAIN past'.services <=> x \in DOMAIN past.services
      /\ x \in DOMAIN past.services => past'.services[x] = past.services[x]
  BY DEF KeepsPastBut
<1>3. x \in DOMAIN mServices => ServiceView(x)' = ServiceView(x)
  BY <1>1 DEF ServiceView
<1> QED
  BY <1>1, <1>2, <1>3, CloudAt, CloudAtNext

\* The routes likewise.
LEMMA RoutesElsewhere ==
    ASSUME ReadsAgree, ReadsAgree', NEW ss, NEW ts,
           KeepsRoutesBut(ts), KeepsSettingsBut(ts), KeepsPastBut(ss, ts)
    PROVE  \A t \in RouteIDs \ ts : CloudRoutes'[t] = CloudRoutes[t]
<1> SUFFICES ASSUME NEW t \in RouteIDs \ ts
             PROVE  CloudRoutes'[t] = CloudRoutes[t]
  OBVIOUS
<1>1. \A x : RouteFound(x, t)' <=> RouteFound(x, t)
  BY DEF KeepsRoutesBut
<1>2. /\ t \in DOMAIN past'.routes <=> t \in DOMAIN past.routes
      /\ t \in DOMAIN past.routes => past'.routes[t] = past.routes[t]
  BY DEF KeepsPastBut
<1>3. ASSUME NEW x, RouteFound(x, t)
      PROVE  RouteRecord(x, t)' = RouteRecord(x, t)
  <2>1. /\ mRoutes'[x][t] = mRoutes[x][t]
        /\ RequestTransformOf(x, t)' = RequestTransformOf(x, t)
        /\ ResponseTransformOf(x, t)' = ResponseTransformOf(x, t)
    BY <1>3 DEF KeepsRoutesBut, KeepsSettingsBut
  <2> QED
    BY <2>1 DEF RouteRecord
<1>4. CASE \E x : RouteFound(x, t)
  <2>1. PICK x : RouteFound(x, t)
    BY <1>4
  <2>2. RouteFound(x, t)'
    BY <1>1, <2>1
  <2> QED
    BY <1>3, <2>1, <2>2, CloudAt, CloudAtNext
<1>5. CASE \A x : ~RouteFound(x, t)
  BY <1>1, <1>2, <1>5, CloudAt, CloudAtNext
<1> QED
  BY <1>4, <1>5

\* A step that leaves the maps alone.
LEMMA MapsStay ==
    ASSUME UNCHANGED <<mServices, mRoutes>>
    PROVE  KeepsServicesBut({}) /\ KeepsRoutesBut({})
BY DEF KeepsServicesBut, KeepsRoutesBut, RouteFound

\* A step that leaves the settings alone.
LEMMA SettingsStay ==
    ASSUME UNCHANGED transformVars
    PROVE  KeepsSettingsBut({})
BY DEF transformVars, KeepsSettingsBut, RequestTransformOf, ResponseTransformOf

\* A step that ends nothing.
LEMMA PastStays ==
    ASSUME past'.services = past.services, past'.routes = past.routes
    PROVE  KeepsPastBut({}, {})
BY DEF KeepsPastBut

\* Sparing more is sparing less.
LEMMA KeepsLess ==
    ASSUME NEW ss, NEW ts
    PROVE  /\ KeepsServicesBut({}) => KeepsServicesBut(ss)
           /\ KeepsRoutesBut({}) => KeepsRoutesBut(ts)
           /\ KeepsSettingsBut({}) => KeepsSettingsBut(ts)
           /\ KeepsPastBut({}, {}) => KeepsPastBut(ss, ts)
BY DEF KeepsServicesBut, KeepsRoutesBut, KeepsSettingsBut, KeepsPastBut

\* An identifier that was given out stays known, and with it the pairs.
LEMMA KnownStay ==
    ASSUME SettingsShape, UNCHANGED transformVars, NEW ss, NEW ts,
           KeepsRoutesBut(ts), KeepsPastBut(ss, ts),
           \A t \in ts : (\E x : RouteFound(x, t)') \/ t \in DOMAIN past'.routes
    PROVE  SettingsShape'
<1>1. \A t : t \in LiveRoutes' <=> \E x : RouteFound(x, t)'
  BY DEF LiveRoutes, RouteFound
<1>2. \A t : t \in KnownRoutes => t \in KnownRoutes'
  BY <1>1, LiveFound DEF KeepsRoutesBut, KeepsPastBut, KnownRoutes
<1>3. Pairs \subseteq (ServiceIDs \union {Foreign}) \X KnownRoutes'
  BY <1>2 DEF Pairs
<1> QED
  BY <1>3 DEF SettingsShape, transformVars, Pairs

\* A step of the cloud that names a service, or a route on one.
LEMMA CloudSteps ==
    /\ UNCHANGED <<CloudServices, CloudRoutes>> => Cloud!CloudNext
    /\ \A s \in ServiceIDs : Cloud!DeleteService(s) => Cloud!CloudNext
    /\ \A s \in ServiceIDs, host \in [ip : IPs \union {None}, port : NodePorts \union {0}] :
         /\ Cloud!UpdateService(s, host) => Cloud!CloudNext
         /\ \A owner \in Routes \X Backends : Cloud!CreateService(s, owner, host) => Cloud!CloudNext
    /\ \A s \in ServiceIDs, t \in RouteIDs :
         /\ Cloud!DeleteRoute(s, t) => Cloud!CloudNext
         /\ \A name \in Routes \X RuleIdx, path \in Paths :
               Cloud!CreateRoute(t, s, name, path) => Cloud!CloudNext
         /\ \A transform \in Cloud!RequestTransform :
               Cloud!SetRequestTransform(s, t, transform) => Cloud!CloudNext
         /\ \A f \in Filters \union {None} : Cloud!SetResponseTransform(s, t, f) => Cloud!CloudNext
    /\ \A t \in RouteIDs, path \in Paths : Cloud!UpdateRoute(t, path) => Cloud!CloudNext
BY DEF Cloud!CloudNext, Cloud!cloudVars

\* CreateService.
LEMMA CreateServiceCloud ==
    ASSUME MockInv, NEW s, NEW name \in Routes \X Backends, NEW host \in [ip : IPs, port : NodePorts],
           MCreateService(s, name, host)
    PROVE  MockInv' /\ Cloud!CloudNext
<1>1. /\ s \in ServiceIDs /\ s \notin DOMAIN mServices /\ s \notin DOMAIN past.services
      /\ UNCHANGED <<transformVars, entries, past>>
  BY DEF MCreateService, NewServiceIDs, KnownServices
<1>2. ReadsAgree /\ ReadsAgree' /\ MapsShape /\ PastShape /\ SettingsShape /\ EntriesShape
  BY CreateServiceKeeps DEF MockInv
<1>3. /\ mServices' = Assign(mServices, s, [name |-> name, host |-> host])
      /\ mRoutes' = Assign(mRoutes, s, Empty)
  BY DEF MCreateService
<1>4. /\ DOMAIN mServices' = DOMAIN mServices \union {s}
      /\ mServices'[s] = [name |-> name, host |-> host]
      /\ \A x \in DOMAIN mServices : mServices'[x] = mServices[x]
  <2> DEFINE v == [name |-> name, host |-> host]
  <2>1. mServices' = Assign(mServices, s, v)
    BY <1>3
  <2> HIDE DEF v
  <2>2. /\ DOMAIN mServices' = DOMAIN mServices \union {s} /\ mServices'[s] = v
        /\ \A x \in DOMAIN mServices : mServices'[x] = mServices[x]
    BY <1>1, <2>1 DEF Assign
  <2> QED
    BY <2>2 DEF v
<1>5. s \notin DOMAIN mRoutes /\ DOMAIN Empty = {}
  BY <1>1, <1>2 DEF ReadsAgree, Empty
<1>6. /\ DOMAIN mRoutes' = DOMAIN mRoutes \union {s}
      /\ mRoutes'[s] = Empty
      /\ \A x \in DOMAIN mRoutes : mRoutes'[x] = mRoutes[x]
  BY <1>3, <1>5 DEF Assign
<1>7. KeepsServicesBut({s})
  BY <1>4 DEF KeepsServicesBut
<1>8. KeepsRoutesBut({})
  BY <1>5, <1>6 DEF KeepsRoutesBut, RouteFound
<1>9. KeepsSettingsBut({}) /\ KeepsPastBut({}, {}) /\ KeepsPastBut({s}, {})
  BY <1>1, SettingsStay, PastStays, KeepsLess
<1>10. MapsShape'
  <2>1. mServices' \in [DOMAIN mServices' -> MockService]
    <3>1. \A x \in DOMAIN mServices' : mServices'[x] \in MockService
      BY <1>2, <1>4 DEF MapsShape, MockService
    <3>2. mServices' = [x \in DOMAIN mServices' |-> mServices'[x]]
      BY <1>3 DEF Assign
    <3> QED
      BY <3>1, <3>2
  <2> QED
    BY <1>1, <1>2, <1>4, <1>8, <2>1 DEF MapsShape, KeepsRoutesBut
<1>11. PastShape'
  BY <1>1, <1>2, <1>4, <1>8 DEF PastShape, KeepsRoutesBut
<1>12. SettingsShape' /\ EntriesShape'
  BY <1>1, <1>2, <1>8, <1>9, KnownStay DEF EntriesShape
<1>13. CloudRoutes' = CloudRoutes
  <2>1. \A t \in RouteIDs : CloudRoutes'[t] = CloudRoutes[t]
    BY <1>2, <1>8, <1>9, RoutesElsewhere
  <2> QED
    BY <1>2, <2>1, CloudAt, CloudAtNext
<1>14. CloudServices' = [CloudServices EXCEPT ![s] = [state |-> "live", owner |-> name, host |-> host]]
  <2>1. \A x \in ServiceIDs \ {s} : CloudServices'[x] = CloudServices[x]
    BY <1>2, <1>7, <1>9, ServicesElsewhere
  <2>2. CloudServices'[s] = [state |-> "live", owner |-> name, host |-> host]
    BY <1>1, <1>2, <1>4, CloudAtNext DEF ServiceView
  <2> QED
    BY <1>1, <1>2, <2>1, <2>2, CloudAt, CloudAtNext
<1>15. CloudServices[s].state = "unborn"
  BY <1>1, <1>2, CloudAt DEF NewService
<1>16. Cloud!CreateService(s, name, host)
  BY <1>1, <1>13, <1>14, <1>15 DEF Cloud!CreateService, Cloud!FreshServices
<1>17. host \in [ip : IPs \union {None}, port : NodePorts \union {0}]
  OBVIOUS
<1>18. Cloud!CloudNext
  BY <1>1, <1>16, <1>17, CloudSteps
<1> QED
  BY <1>2, <1>10, <1>11, <1>12, <1>18 DEF MockInv

\* UpdateService: the new host is the old one where the request says nothing.
LEMMA UpdateServiceCloud ==
    ASSUME MockInv, NEW s, NEW ip \in IPs \union {None}, NEW port \in NodePorts \union {None},
           MUpdateService(s, ip, port)
    PROVE  MockInv' /\ Cloud!CloudNext
<1> DEFINE old == mServices[s]
           h == [ip |-> IF ip = None THEN old.host.ip ELSE ip,
                 port |-> IF port = None THEN old.host.port ELSE port]
           new == [old EXCEPT !.host = h]
<1>1. s \in DOMAIN mServices /\ UNCHANGED <<mRoutes, transformVars, entries, past>>
  BY DEF MUpdateService, ServiceFound
<1>2. ReadsAgree /\ ReadsAgree' /\ MapsShape /\ PastShape /\ SettingsShape /\ EntriesShape
  BY UpdateServiceKeeps DEF MockInv
<1>3. s \in ServiceIDs /\ old \in MockService
  BY <1>1, <1>2 DEF MapsShape
<1>4. h \in [ip : IPs, port : NodePorts]
  BY <1>3 DEF MockService
<1>5. mServices' = [mServices EXCEPT ![s] = new]
  BY DEF MUpdateService
<1> HIDE DEF h
<1>6. new \in MockService /\ new.name = old.name /\ new.host = h
  BY <1>3, <1>4 DEF MockService
<1> HIDE DEF new
<1>7. /\ DOMAIN mServices' = DOMAIN mServices /\ mServices'[s] = new
      /\ \A x \in DOMAIN mServices : x # s => mServices'[x] = mServices[x]
  BY <1>1, <1>5
<1>8. KeepsServicesBut({s})
  BY <1>7 DEF KeepsServicesBut
<1>9. KeepsRoutesBut({}) /\ KeepsSettingsBut({}) /\ KeepsPastBut({}, {}) /\ KeepsPastBut({s}, {})
  <2>1. KeepsRoutesBut({})
    BY <1>1 DEF KeepsRoutesBut, RouteFound
  <2> QED
    BY <1>1, <2>1, SettingsStay, PastStays, KeepsLess
<1>10. MapsShape'
  <2>1. mServices' \in [DOMAIN mServices' -> MockService]
    BY <1>1, <1>2, <1>5, <1>6, <1>7 DEF MapsShape
  <2> QED
    BY <1>1, <1>2, <1>7, <1>9, <2>1 DEF MapsShape, KeepsRoutesBut
<1>11. PastShape'
  BY <1>1, <1>2, <1>7, <1>9 DEF PastShape, KeepsRoutesBut
<1>12. SettingsShape' /\ EntriesShape'
  BY <1>1, <1>2, <1>9, KnownStay DEF EntriesShape
<1>13. CloudRoutes' = CloudRoutes
  <2>1. \A t \in RouteIDs : CloudRoutes'[t] = CloudRoutes[t]
    BY <1>2, <1>9, RoutesElsewhere
  <2> QED
    BY <1>2, <2>1, CloudAt, CloudAtNext
<1>14. CloudServices[s] = [state |-> "live", owner |-> old.name, host |-> old.host]
  BY <1>1, <1>2, <1>3, CloudAt DEF ServiceView
<1>15. CloudServices' = [CloudServices EXCEPT ![s].host = h]
  <2>1. \A x \in ServiceIDs \ {s} : CloudServices'[x] = CloudServices[x]
    BY <1>2, <1>8, <1>9, ServicesElsewhere
  <2>2. CloudServices'[s] = [state |-> "live", owner |-> old.name, host |-> h]
    BY <1>1, <1>2, <1>3, <1>6, <1>7, CloudAtNext DEF ServiceView
  <2>3. CloudServices'[s] = [CloudServices[s] EXCEPT !.host = h]
    BY <1>14, <2>2
  <2> QED
    BY <1>2, <1>3, <2>1, <2>3, CloudAt, CloudAtNext
<1>16. Cloud!UpdateService(s, h)
  BY <1>3, <1>13, <1>14, <1>15 DEF Cloud!UpdateService, Cloud!Exists
<1>17. h \in [ip : IPs \union {None}, port : NodePorts \union {0}]
  BY <1>4
<1>18. Cloud!CloudNext
  BY <1>3, <1>16, <1>17, CloudSteps
<1> QED
  BY <1>2, <1>10, <1>11, <1>12, <1>18 DEF MockInv

\* A deletion of what is not there is none of anything.
LEMMA NoServiceDeleted ==
    ASSUME MockInv, NEW s, MDeleteService(s), s \notin DOMAIN mServices
    PROVE  MockInv' /\ Cloud!CloudNext
<1>1. ReadsAgree /\ ReadsAgree' /\ MapsShape /\ PastShape /\ SettingsShape /\ EntriesShape
  BY DeleteServiceKeeps DEF MockInv
<1>2. s \notin DOMAIN mRoutes /\ RoutesListed(s) = {} /\ {s} \intersect DOMAIN mServices = {}
  BY <1>1 DEF ReadsAgree, RoutesListed
<1>3. /\ UNCHANGED <<transformVars, entries>> /\ Bury({}, {})
      /\ mServices' = Delete(mServices, s) /\ mRoutes' = Delete(mRoutes, s)
  BY <1>2 DEF MDeleteService
<1>4. /\ DOMAIN mServices' = DOMAIN mServices /\ DOMAIN mRoutes' = DOMAIN mRoutes
      /\ \A x \in DOMAIN mServices : mServices'[x] = mServices[x]
      /\ \A x \in DOMAIN mRoutes : mRoutes'[x] = mRoutes[x]
  BY <1>2, <1>3 DEF Delete, Restrict
<1>5. KeepsServicesBut({}) /\ KeepsRoutesBut({}) /\ KeepsSettingsBut({}) /\ KeepsPastBut({}, {})
  <2>1. KeepsServicesBut({}) /\ KeepsRoutesBut({})
    BY <1>4 DEF KeepsServicesBut, KeepsRoutesBut, RouteFound
  <2> QED
    BY <1>1, <1>3, <2>1, SettingsStay, BuryFields
<1>6. MapsShape'
  <2>1. mServices' \in [DOMAIN mServices' -> MockService]
    <3>1. mServices' = [x \in DOMAIN mServices' |-> mServices'[x]]
      BY <1>3 DEF Delete, Restrict
    <3> QED
      BY <1>1, <1>4, <3>1 DEF MapsShape
  <2> QED
    BY <1>1, <1>4, <1>5, <2>1 DEF MapsShape, KeepsRoutesBut
<1>7. PastShape'
  <2>1. /\ past' = [services |-> past'.services, routes |-> past'.routes, entries |-> past'.entries]
        /\ DOMAIN past'.services = DOMAIN past.services /\ DOMAIN past'.routes = DOMAIN past.routes
    BY <1>1, <1>3, BuryFields
  <2> QED
    BY <1>1, <1>4, <1>5, <2>1 DEF PastShape, KeepsRoutesBut, KeepsPastBut
<1>8. SettingsShape' /\ EntriesShape'
  BY <1>1, <1>3, <1>5, KnownStay DEF EntriesShape
<1>9. UNCHANGED <<CloudServices, CloudRoutes>>
  <2>1. \A x \in ServiceIDs : CloudServices'[x] = CloudServices[x]
    BY <1>1, <1>5, ServicesElsewhere
  <2>2. \A t \in RouteIDs : CloudRoutes'[t] = CloudRoutes[t]
    BY <1>1, <1>5, RoutesElsewhere
  <2> QED
    BY <1>1, <2>1, <2>2, CloudAt, CloudAtNext
<1> QED
  BY <1>1, <1>6, <1>7, <1>8, <1>9, CloudSteps DEF MockInv

\* DeleteService of one that is there takes its routes with it.
LEMMA DeleteServiceCloud ==
    ASSUME MockInv, NEW s, MDeleteService(s), s \in DOMAIN mServices
    PROVE  MockInv' /\ Cloud!CloudNext
<1> DEFINE ts == RoutesListed(s)
<1>1. ReadsAgree /\ ReadsAgree' /\ MapsShape /\ PastShape /\ SettingsShape /\ EntriesShape
  BY DeleteServiceKeeps DEF MockInv
<1>2. s \in ServiceIDs /\ s \in DOMAIN mRoutes /\ {s} \intersect DOMAIN mServices = {s}
  BY <1>1 DEF ReadsAgree, MapsShape
<1>3. /\ UNCHANGED <<transformVars, entries>> /\ Bury({s}, ts)
      /\ mServices' = Delete(mServices, s) /\ mRoutes' = Delete(mRoutes, s)
  BY <1>2 DEF MDeleteService
<1>4. /\ DOMAIN mServices' = DOMAIN mServices \ {s} /\ DOMAIN mRoutes' = DOMAIN mRoutes \ {s}
      /\ \A x \in DOMAIN mServices : x # s => mServices'[x] = mServices[x]
      /\ \A x \in DOMAIN mRoutes : x # s => mRoutes'[x] = mRoutes[x]
  BY <1>3 DEF Delete, Restrict
<1>5. /\ \A t : t \in ts <=> RouteFound(s, t)
      /\ \A x, t : RouteFound(x, t) /\ t \in ts => x = s
      /\ \A x, t : RouteFound(x, t)' <=> x # s /\ RouteFound(x, t)
  <2>1. \A t : t \in ts <=> RouteFound(s, t)
    BY <1>2 DEF RoutesListed, RouteFound
  <2>2. \A x, t : RouteFound(x, t) /\ t \in ts => x = s
    BY <1>1, <2>1, FoundOnce
  <2>3. \A x, t : RouteFound(x, t)' <=> x # s /\ RouteFound(x, t)
    BY <1>4 DEF RouteFound
  <2> QED
    BY <2>1, <2>2, <2>3
<1> HIDE DEF ts
<1>6. KeepsServicesBut({s}) /\ KeepsRoutesBut(ts)
  BY <1>4, <1>5 DEF KeepsServicesBut, KeepsRoutesBut, RouteFound
<1>7. KeepsSettingsBut(ts)
  BY <1>3, SettingsStay, KeepsLess
<1>8. /\ past' = [services |-> past'.services, routes |-> past'.routes, entries |-> past'.entries]
      /\ DOMAIN past'.services = {s} \union DOMAIN past.services
      /\ DOMAIN past'.routes = ts \union DOMAIN past.routes
      /\ past'.services[s] = [ServiceView(s) EXCEPT !.state = "deleted"]
      /\ \A t \in ts : past'.routes[t] = [RouteView(t) EXCEPT !.state = "deleted"]
      /\ KeepsPastBut({s}, ts)
  BY <1>1, <1>3, BuryFields
<1>9. /\ past'.services[s] = [CloudServices[s] EXCEPT !.state = "deleted"]
      /\ past'.services[s].state = "deleted"
      /\ CloudServices[s].state = "live"
  <2>1. CloudServices[s] = ServiceView(s)
    BY <1>1, <1>2, CloudAt
  <2> QED
    BY <1>8, <2>1 DEF ServiceView
<1>10. ASSUME NEW t \in ts
       PROVE  /\ t \in RouteIDs
              /\ past'.routes[t] = [CloudRoutes[t] EXCEPT !.state = "deleted"]
              /\ past'.routes[t].state = "deleted"
              /\ CloudRoutes[t].state = "live" /\ CloudRoutes[t].service = s
  <2>1. RouteFound(s, t)
    BY <1>5
  <2>2. t \in RouteIDs
    BY <1>1, <2>1 DEF MapsShape
  <2>3. CloudRoutes[t] = RouteRecord(s, t) /\ RouteView(t) = RouteRecord(s, t)
    BY <1>1, <2>1, <2>2, CloudAt, RouteViewFound
  <2> QED
    BY <1>8, <2>2, <2>3 DEF RouteRecord
<1>11. MapsShape'
  <2>1. mServices' \in [DOMAIN mServices' -> MockService]
    <3>1. mServices' = [x \in DOMAIN mServices' |-> mServices'[x]]
      BY <1>3 DEF Delete, Restrict
    <3> QED
      BY <1>1, <1>4, <3>1 DEF MapsShape
  <2>2. ASSUME NEW x, NEW t, RouteFound(x, t)'
        PROVE  t \in RouteIDs /\ mRoutes'[x][t] \in MockRoute
    <3>1. x # s /\ RouteFound(x, t)
      BY <1>5, <2>2
    <3>2. mRoutes'[x] = mRoutes[x]
      BY <1>4, <3>1 DEF RouteFound
    <3> QED
      BY <1>1, <3>1, <3>2 DEF MapsShape
  <2> QED
    BY <1>1, <1>4, <2>1, <2>2 DEF MapsShape
<1>12. PastShape'
  <2>1. ASSUME NEW x \in DOMAIN past'.services
        PROVE  x \notin DOMAIN mServices' /\ past'.services[x].state = "deleted"
    <3>1. CASE x = s
      BY <1>4, <1>9, <3>1
    <3>2. CASE x # s
      BY <1>1, <1>4, <1>8, <3>2 DEF PastShape, KeepsPastBut
    <3> QED
      BY <3>1, <3>2
  <2>2. ASSUME NEW t \in DOMAIN past'.routes
        PROVE  (\A x : ~RouteFound(x, t)') /\ past'.routes[t].state = "deleted"
    <3>1. CASE t \in ts
      BY <1>5, <1>10, <3>1
    <3>2. CASE t \notin ts
      BY <1>1, <1>5, <1>8, <3>2 DEF PastShape, KeepsPastBut
    <3> QED
      BY <3>1, <3>2
  <2>3. DOMAIN past'.services \subseteq ServiceIDs /\ DOMAIN past'.routes \subseteq RouteIDs
    BY <1>1, <1>2, <1>8, <1>10 DEF PastShape
  <2> QED
    BY <1>8, <2>1, <2>2, <2>3 DEF PastShape
<1>13. SettingsShape' /\ EntriesShape'
  BY <1>1, <1>3, <1>6, <1>8, KnownStay DEF EntriesShape
<1>14. ASSUME NEW x \in ServiceIDs
       PROVE  CloudServices'[x] = IF x \in {s} /\ Cloud!Exists(x)
                                  THEN [CloudServices[x] EXCEPT !.state = "deleted"]
                                  ELSE CloudServices[x]
  <2>1. CASE x = s
    <3>1. CloudServices'[s] = past'.services[s]
      BY <1>1, <1>2, <1>4, <1>8, CloudAtNext
    <3> QED
      BY <1>2, <1>9, <2>1, <3>1 DEF Cloud!Exists
  <2>2. CASE x # s
    BY <1>1, <1>6, <1>8, <2>2, ServicesElsewhere
  <2> QED
    BY <2>1, <2>2
<1>15. ASSUME NEW t \in RouteIDs
       PROVE  CloudRoutes'[t] = IF CloudRoutes[t].state = "live" /\ CloudRoutes[t].service \in {s}
                                THEN [CloudRoutes[t] EXCEPT !.state = "deleted"]
                                ELSE CloudRoutes[t]
  <2>1. CASE t \in ts
    <3>1. CloudRoutes'[t] = past'.routes[t]
      BY <1>1, <1>5, <1>8, <2>1, CloudAtNext
    <3> QED
      BY <1>10, <2>1, <3>1
  <2>2. CASE t \notin ts
    <3>1. CloudRoutes'[t] = CloudRoutes[t]
      BY <1>1, <1>6, <1>7, <1>8, <2>2, RoutesElsewhere
    <3>2. ~(CloudRoutes[t].state = "live" /\ CloudRoutes[t].service = s)
      <4>1. CASE \E x : RouteFound(x, t)
        <5>1. PICK x : RouteFound(x, t)
          BY <4>1
        <5>2. x # s
          BY <1>5, <2>2, <5>1
        <5>3. CloudRoutes[t] = RouteRecord(x, t)
          BY <1>1, <5>1, CloudAt
        <5> QED
          BY <5>2, <5>3 DEF RouteRecord
      <4>2. CASE \A x : ~RouteFound(x, t)
        BY <1>1, <4>2, CloudAt DEF PastShape, NewRoute
      <4> QED
        BY <4>1, <4>2
    <3> QED
      BY <3>1, <3>2
  <2> QED
    BY <2>1, <2>2
<1>16. Cloud!DeleteService(s)
  <2>1. CloudServices' = [x \in ServiceIDs |-> IF x \in {s} /\ Cloud!Exists(x)
                                               THEN [CloudServices[x] EXCEPT !.state = "deleted"]
                                               ELSE CloudServices[x]]
    BY <1>1, <1>14, CloudAtNext
  <2>2. CloudRoutes' = [t \in RouteIDs |->
                          IF CloudRoutes[t].state = "live" /\ CloudRoutes[t].service \in {s}
                          THEN [CloudRoutes[t] EXCEPT !.state = "deleted"] ELSE CloudRoutes[t]]
    BY <1>1, <1>15, CloudAtNext
  <2> QED
    BY <2>1, <2>2 DEF Cloud!DeleteService, Cloud!EndServices
<1>17. Cloud!CloudNext
  BY <1>2, <1>16, CloudSteps
<1> QED
  BY <1>1, <1>11, <1>12, <1>13, <1>17 DEF MockInv

\* A step that touches nothing the cloud shows.
LEMMA CloudUntouched ==
    ASSUME ReadsAgree, ReadsAgree', KeepsServicesBut({}), KeepsRoutesBut({}),
           KeepsSettingsBut({}), KeepsPastBut({}, {})
    PROVE  UNCHANGED <<CloudServices, CloudRoutes>>
<1>1. \A x \in ServiceIDs : CloudServices'[x] = CloudServices[x]
  BY ServicesElsewhere
<1>2. \A t \in RouteIDs : CloudRoutes'[t] = CloudRoutes[t]
  BY RoutesElsewhere
<1> QED
  BY <1>1, <1>2, CloudAt, CloudAtNext

\* A step that touches one route.
LEMMA OneRouteTouched ==
    ASSUME ReadsAgree, ReadsAgree', NEW t \in RouteIDs, KeepsServicesBut({}), KeepsRoutesBut({t}),
           KeepsSettingsBut({t}), KeepsPastBut({}, {t})
    PROVE  CloudServices' = CloudServices /\ CloudRoutes' = [CloudRoutes EXCEPT ![t] = CloudRoutes'[t]]
<1>1. \A x \in ServiceIDs : CloudServices'[x] = CloudServices[x]
  BY ServicesElsewhere
<1>2. \A u \in RouteIDs \ {t} : CloudRoutes'[u] = CloudRoutes[u]
  BY RoutesElsewhere
<1> QED
  BY <1>1, <1>2, CloudAt, CloudAtNext

\* CreateRoute: nothing is set yet for a route that is new.
LEMMA CreateRouteCloud ==
    ASSUME MockInv, NEW t, NEW s, NEW name \in Routes \X RuleIdx, NEW path \in Paths,
           MCreateRoute(t, s, name, path)
    PROVE  MockInv' /\ Cloud!CloudNext
<1> DEFINE v == [name |-> name, path |-> path]
<1>1. /\ s \in DOMAIN mServices /\ t \in RouteIDs /\ t \notin KnownRoutes
      /\ UNCHANGED <<mServices, transformVars, entries, past>>
  BY DEF MCreateRoute, NewRouteIDs, ServiceFound
<1>2. ReadsAgree /\ ReadsAgree' /\ MapsShape /\ PastShape /\ SettingsShape /\ EntriesShape
  BY CreateRouteKeeps DEF MockInv
<1>3. s \in DOMAIN mRoutes /\ s \in ServiceIDs /\ (\A x : ~RouteFound(x, t)) /\ t \notin DOMAIN past.routes
  BY <1>1, <1>2, LiveFound DEF ReadsAgree, MapsShape, KnownRoutes
<1>4. /\ DOMAIN mRoutes' = DOMAIN mRoutes
      /\ \A x \in DOMAIN mRoutes : x # s => mRoutes'[x] = mRoutes[x]
      /\ DOMAIN mRoutes'[s] = DOMAIN mRoutes[s] \union {t}
      /\ mRoutes'[s][t] = v
      /\ \A u \in DOMAIN mRoutes[s] : u # t => mRoutes'[s][u] = mRoutes[s][u]
  <2> HIDE DEF v
  <2> DEFINE new == Assign(mRoutes[s], t, v)
  <2>1. mRoutes' = Assign(mRoutes, s, new)
    BY <1>3 DEF MCreateRoute, v
  <2>2. /\ DOMAIN new = DOMAIN mRoutes[s] \union {t} /\ new[t] = v
        /\ \A u \in DOMAIN mRoutes[s] : u # t => new[u] = mRoutes[s][u]
    BY DEF Assign
  <2> HIDE DEF new
  <2>3. /\ DOMAIN mRoutes' = DOMAIN mRoutes /\ mRoutes'[s] = new
        /\ \A x \in DOMAIN mRoutes : x # s => mRoutes'[x] = mRoutes[x]
    BY <1>3, <2>1 DEF Assign
  <2> QED
    BY <2>2, <2>3
<1>5. /\ \A x, u : RouteFound(x, u)' <=> RouteFound(x, u) \/ (x = s /\ u = t)
      /\ KeepsRoutesBut({t}) /\ KeepsServicesBut({})
  <2>1. \A x, u : RouteFound(x, u)' <=> RouteFound(x, u) \/ (x = s /\ u = t)
    BY <1>3, <1>4 DEF RouteFound
  <2>2. \A x, u : u # t /\ RouteFound(x, u) => mRoutes'[x][u] = mRoutes[x][u]
    BY <1>4 DEF RouteFound
  <2> QED
    BY <1>1, <2>1, <2>2 DEF KeepsRoutesBut, KeepsServicesBut
<1>6. KeepsSettingsBut({t}) /\ KeepsPastBut({}, {t})
  BY <1>1, SettingsStay, PastStays, KeepsLess
<1>7. MapsShape'
  <2>1. ASSUME NEW x, NEW u, RouteFound(x, u)'
        PROVE  u \in RouteIDs /\ mRoutes'[x][u] \in MockRoute
    <3>1. CASE u = t
      BY <1>1, <1>3, <1>4, <1>5, <2>1, <3>1 DEF MockRoute
    <3>2. CASE u # t
      BY <1>2, <1>5, <2>1, <3>2 DEF MapsShape, KeepsRoutesBut
    <3> QED
      BY <3>1, <3>2
  <2> QED
    BY <1>1, <1>2, <2>1 DEF MapsShape
<1>8. PastShape'
  BY <1>1, <1>2, <1>3, <1>5 DEF PastShape
<1>9. SettingsShape' /\ EntriesShape'
  BY <1>1, <1>2, <1>5, <1>6, KnownStay DEF EntriesShape
<1>10. CloudRoutes[t].state = "unborn" /\ CloudServices[s].state = "live"
  BY <1>1, <1>2, <1>3, CloudAt DEF NewRoute, ServiceView
<1>11. RequestTransformOf(s, t)' = [header |-> None, filter |-> None] /\ ResponseTransformOf(s, t)' = None
  <2>1. <<s, t>> \notin DOMAIN reqTransforms' /\ <<s, t>> \notin DOMAIN resTransforms'
    BY <1>1, <1>2 DEF SettingsShape, Pairs, transformVars
  <2> QED
    BY <2>1 DEF RequestTransformOf, ResponseTransformOf
<1>12. CloudRoutes'[t] = [state |-> "live", service |-> s, name |-> name, path |-> path,
                          reqT |-> [header |-> None, filter |-> None], respT |-> None]
  <2>1. CloudRoutes'[t] = RouteRecord(s, t)'
    BY <1>1, <1>2, <1>5, CloudAtNext
  <2> QED
    BY <1>4, <1>11, <2>1 DEF RouteRecord
<1>13. Cloud!CreateRoute(t, s, name, path)
  <2>1. CloudServices' = CloudServices /\ CloudRoutes' = [CloudRoutes EXCEPT ![t] = CloudRoutes'[t]]
    BY <1>1, <1>2, <1>5, <1>6, OneRouteTouched
  <2> QED
    BY <1>1, <1>3, <1>10, <1>12, <2>1
       DEF Cloud!CreateRoute, Cloud!FreshRoutes, Cloud!Exists, Cloud!Conflict, Cloud!NoTransform
<1>14. Cloud!CloudNext
  BY <1>1, <1>3, <1>13, CloudSteps
<1> QED
  BY <1>2, <1>7, <1>8, <1>9, <1>14 DEF MockInv

\* UpdateRoute: without a path in the request nothing changes.
LEMMA UpdateRouteCloud ==
    ASSUME MockInv, NEW s, NEW t, NEW path \in Paths \union {None}, MUpdateRoute(s, t, path)
    PROVE  MockInv' /\ Cloud!CloudNext
<1> DEFINE old == mRoutes[s][t]
           p == IF path = None THEN old.path ELSE path
           new == [old EXCEPT !.path = p]
<1>1. /\ RouteFound(s, t) /\ UNCHANGED <<mServices, transformVars, entries, past>>
      /\ mRoutes' = [mRoutes EXCEPT ![s][t].path = IF path = None THEN @ ELSE path]
  BY DEF MUpdateRoute
<1>2. ReadsAgree /\ ReadsAgree' /\ MapsShape /\ PastShape /\ SettingsShape /\ EntriesShape
  BY UpdateRouteKeeps DEF MockInv
<1>3. /\ s \in DOMAIN mRoutes /\ s \in ServiceIDs /\ t \in DOMAIN mRoutes[s]
      /\ t \in RouteIDs /\ old \in MockRoute
  BY <1>1, <1>2 DEF RouteFound, ReadsAgree, MapsShape
<1>4. p \in Paths
  BY <1>3 DEF MockRoute
<1>5. mRoutes' = [mRoutes EXCEPT ![s] = [mRoutes[s] EXCEPT ![t] = new]]
  BY <1>1
<1> HIDE DEF p
<1>6. new \in MockRoute /\ new.name = old.name /\ new.path = p
  BY <1>3, <1>4 DEF MockRoute
<1> HIDE DEF new
<1>7. /\ DOMAIN mRoutes' = DOMAIN mRoutes
      /\ \A x \in DOMAIN mRoutes : x # s => mRoutes'[x] = mRoutes[x]
      /\ DOMAIN mRoutes'[s] = DOMAIN mRoutes[s]
      /\ mRoutes'[s][t] = new
      /\ \A u \in DOMAIN mRoutes[s] : u # t => mRoutes'[s][u] = mRoutes[s][u]
  BY <1>3, <1>5
<1>8. /\ \A x, u : RouteFound(x, u)' <=> RouteFound(x, u)
      /\ KeepsRoutesBut({t}) /\ KeepsServicesBut({})
  <2>1. \A x, u : RouteFound(x, u)' <=> RouteFound(x, u)
    BY <1>7 DEF RouteFound
  <2>2. \A x, u : u # t /\ RouteFound(x, u) => mRoutes'[x][u] = mRoutes[x][u]
    BY <1>7 DEF RouteFound
  <2> QED
    BY <1>1, <2>1, <2>2 DEF KeepsRoutesBut, KeepsServicesBut
<1>9. KeepsSettingsBut({}) /\ KeepsSettingsBut({t}) /\ KeepsPastBut({}, {t})
  BY <1>1, SettingsStay, PastStays, KeepsLess
<1>10. MapsShape'
  <2>1. ASSUME NEW x, NEW u, RouteFound(x, u)'
        PROVE  u \in RouteIDs /\ mRoutes'[x][u] \in MockRoute
    <3>1. CASE u = t
      <4>1. x = s
        BY <1>1, <1>2, <1>8, <2>1, <3>1, FoundOnce
      <4> QED
        BY <1>3, <1>6, <1>7, <3>1, <4>1
    <3>2. CASE u # t
      BY <1>2, <1>8, <2>1, <3>2 DEF MapsShape, KeepsRoutesBut
    <3> QED
      BY <3>1, <3>2
  <2> QED
    BY <1>1, <1>2, <2>1 DEF MapsShape
<1>11. PastShape'
  BY <1>1, <1>2, <1>8 DEF PastShape
<1>12. SettingsShape' /\ EntriesShape'
  <2>1. \E x : RouteFound(x, t)'
    BY <1>1, <1>8
  <2> QED
    BY <1>1, <1>2, <1>8, <1>9, <2>1, KnownStay DEF EntriesShape
<1>13. CloudRoutes[t] = RouteRecord(s, t) /\ CloudRoutes'[t] = RouteRecord(s, t)'
  BY <1>1, <1>2, <1>3, <1>8, CloudAt, CloudAtNext
<1>14. CloudRoutes'[t] = [CloudRoutes[t] EXCEPT !.path = p] /\ CloudRoutes[t].path = old.path
  <2>1. RequestTransformOf(s, t)' = RequestTransformOf(s, t) /\ ResponseTransformOf(s, t)' = ResponseTransformOf(s, t)
    BY <1>9 DEF KeepsSettingsBut
  <2> QED
    BY <1>6, <1>7, <1>13, <2>1 DEF RouteRecord
<1>15. CloudServices' = CloudServices /\ CloudRoutes' = [CloudRoutes EXCEPT ![t] = CloudRoutes'[t]]
  BY <1>2, <1>3, <1>8, <1>9, OneRouteTouched
<1>16. Cloud!UpdateRoute(t, p)
  <2>1. CloudRoutes[t].state = "live"
    BY <1>13 DEF RouteRecord
  <2> QED
    BY <1>14, <1>15, <2>1 DEF Cloud!UpdateRoute
<1>17. Cloud!CloudNext
  BY <1>3, <1>4, <1>16, CloudSteps
<1> QED
  BY <1>2, <1>10, <1>11, <1>12, <1>17 DEF MockInv

\* DeleteRoute of a route that is not on that service does nothing.
LEMMA NoRouteDeleted ==
    ASSUME MockInv, NEW s, NEW t, MDeleteRoute(s, t), ~RouteFound(s, t)
    PROVE  MockInv' /\ Cloud!CloudNext
<1>1. ReadsAgree /\ ReadsAgree' /\ MapsShape /\ PastShape /\ SettingsShape /\ EntriesShape
  BY DeleteRouteKeeps DEF MockInv
<1>2. UNCHANGED <<mServices, transformVars, entries>> /\ Bury({}, {})
  BY DEF MDeleteRoute
<1>3. /\ DOMAIN mRoutes' = DOMAIN mRoutes
      /\ \A x \in DOMAIN mRoutes : /\ DOMAIN mRoutes'[x] = DOMAIN mRoutes[x]
                                   /\ \A u \in DOMAIN mRoutes[x] : mRoutes'[x][u] = mRoutes[x][u]
  <2>1. CASE s \in DOMAIN mRoutes
    <3> DEFINE new == Delete(mRoutes[s], t)
    <3>1. mRoutes' = [mRoutes EXCEPT ![s] = new]
      BY <2>1 DEF MDeleteRoute
    <3>2. /\ DOMAIN new = DOMAIN mRoutes[s]
          /\ \A u \in DOMAIN mRoutes[s] : new[u] = mRoutes[s][u]
      BY <2>1 DEF RouteFound, Delete, Restrict
    <3> HIDE DEF new
    <3> QED
      BY <2>1, <3>1, <3>2
  <2>2. CASE s \notin DOMAIN mRoutes
    BY <2>2 DEF MDeleteRoute
  <2> QED
    BY <2>1, <2>2
<1>4. KeepsServicesBut({}) /\ KeepsRoutesBut({}) /\ KeepsSettingsBut({}) /\ KeepsPastBut({}, {})
  <2>1. KeepsServicesBut({})
    BY <1>2 DEF KeepsServicesBut
  <2>2. KeepsRoutesBut({})
    BY <1>3 DEF KeepsRoutesBut, RouteFound
  <2> QED
    BY <1>1, <1>2, <2>1, <2>2, SettingsStay, BuryFields
<1>5. MapsShape'
  BY <1>1, <1>2, <1>4 DEF MapsShape, KeepsRoutesBut
<1>6. PastShape'
  <2>1. /\ past' = [services |-> past'.services, routes |-> past'.routes, entries |-> past'.entries]
        /\ DOMAIN past'.services = DOMAIN past.services /\ DOMAIN past'.routes = DOMAIN past.routes
    BY <1>1, <1>2, BuryFields
  <2> QED
    BY <1>1, <1>2, <1>4, <2>1 DEF PastShape, KeepsRoutesBut, KeepsPastBut
<1>7. SettingsShape' /\ EntriesShape'
  BY <1>1, <1>2, <1>4, KnownStay DEF EntriesShape
<1>8. UNCHANGED <<CloudServices, CloudRoutes>>
  BY <1>1, <1>4, CloudUntouched
<1> QED
  BY <1>1, <1>5, <1>6, <1>7, <1>8, CloudSteps DEF MockInv

\* DeleteRoute of one that is.
LEMMA DeleteRouteCloud ==
    ASSUME MockInv, NEW s, NEW t, MDeleteRoute(s, t), RouteFound(s, t)
    PROVE  MockInv' /\ Cloud!CloudNext
<1>1. ReadsAgree /\ ReadsAgree' /\ MapsShape /\ PastShape /\ SettingsShape /\ EntriesShape
  BY DeleteRouteKeeps DEF MockInv
<1>2. UNCHANGED <<mServices, transformVars, entries>> /\ Bury({}, {t})
  BY DEF MDeleteRoute
<1>3. s \in DOMAIN mRoutes /\ s \in ServiceIDs /\ t \in DOMAIN mRoutes[s] /\ t \in RouteIDs
  BY <1>1 DEF RouteFound, ReadsAgree, MapsShape
<1>4. /\ DOMAIN mRoutes' = DOMAIN mRoutes
      /\ \A x \in DOMAIN mRoutes : x # s => mRoutes'[x] = mRoutes[x]
      /\ DOMAIN mRoutes'[s] = DOMAIN mRoutes[s] \ {t}
      /\ \A u \in DOMAIN mRoutes[s] : u # t => mRoutes'[s][u] = mRoutes[s][u]
  <2> DEFINE new == Delete(mRoutes[s], t)
  <2>1. mRoutes' = [mRoutes EXCEPT ![s] = new]
    BY <1>3 DEF MDeleteRoute
  <2>2. /\ DOMAIN new = DOMAIN mRoutes[s] \ {t}
        /\ \A u \in DOMAIN mRoutes[s] : u # t => new[u] = mRoutes[s][u]
    BY DEF Delete, Restrict
  <2> HIDE DEF new
  <2> QED
    BY <1>3, <2>1, <2>2
<1>5. /\ \A x, u : RouteFound(x, u)' <=> RouteFound(x, u) /\ u # t
      /\ KeepsRoutesBut({t}) /\ KeepsServicesBut({})
  <2>1. \A x : RouteFound(x, t) => x = s
    BY <1>1, FoundOnce
  <2>2. \A x, u : RouteFound(x, u)' <=> RouteFound(x, u) /\ u # t
    BY <1>4, <2>1 DEF RouteFound
  <2>3. \A x, u : u # t /\ RouteFound(x, u) => mRoutes'[x][u] = mRoutes[x][u]
    BY <1>4 DEF RouteFound
  <2> QED
    BY <1>2, <2>2, <2>3 DEF KeepsRoutesBut, KeepsServicesBut
<1>6. /\ past' = [services |-> past'.services, routes |-> past'.routes, entries |-> past'.entries]
      /\ DOMAIN past'.services = DOMAIN past.services
      /\ DOMAIN past'.routes = {t} \union DOMAIN past.routes
      /\ past'.routes[t] = [RouteView(t) EXCEPT !.state = "deleted"]
      /\ KeepsPastBut({}, {t})
  BY <1>1, <1>2, BuryFields
<1>7. KeepsSettingsBut({t})
  BY <1>2, SettingsStay, KeepsLess
<1>8. /\ CloudRoutes[t].state = "live" /\ CloudRoutes[t].service = s
      /\ past'.routes[t] = [CloudRoutes[t] EXCEPT !.state = "deleted"]
      /\ past'.routes[t].state = "deleted"
  <2>1. CloudRoutes[t] = RouteRecord(s, t) /\ RouteView(t) = RouteRecord(s, t)
    BY <1>1, <1>3, CloudAt, RouteViewFound
  <2> QED
    BY <1>6, <2>1 DEF RouteRecord
<1>9. MapsShape'
  BY <1>1, <1>2, <1>5 DEF MapsShape, KeepsRoutesBut
<1>10. PastShape'
  <2>1. ASSUME NEW u \in DOMAIN past'.routes
        PROVE  (\A x : ~RouteFound(x, u)') /\ past'.routes[u].state = "deleted"
    <3>1. CASE u = t
      BY <1>5, <1>8, <3>1
    <3>2. CASE u # t
      BY <1>1, <1>5, <1>6, <3>2 DEF PastShape, KeepsPastBut
    <3> QED
      BY <3>1, <3>2
  <2>2. \A x \in DOMAIN past'.services : x \notin DOMAIN mServices' /\ past'.services[x].state = "deleted"
    BY <1>1, <1>2, <1>6 DEF PastShape, KeepsPastBut
  <2>3. DOMAIN past'.services \subseteq ServiceIDs /\ DOMAIN past'.routes \subseteq RouteIDs
    BY <1>1, <1>3, <1>6 DEF PastShape
  <2> QED
    BY <1>6, <2>1, <2>2, <2>3 DEF PastShape
<1>11. SettingsShape' /\ EntriesShape'
  BY <1>1, <1>2, <1>5, <1>6, KnownStay DEF EntriesShape
<1>12. Cloud!DeleteRoute(s, t)
  <2>1. CloudServices' = CloudServices /\ CloudRoutes' = [CloudRoutes EXCEPT ![t] = CloudRoutes'[t]]
    BY <1>1, <1>3, <1>5, <1>6, <1>7, OneRouteTouched
  <2>2. CloudRoutes'[t] = past'.routes[t]
    BY <1>1, <1>3, <1>5, <1>6, CloudAtNext
  <2> QED
    BY <1>3, <1>8, <2>1, <2>2 DEF Cloud!DeleteRoute, Cloud!RoutesOn
<1>13. Cloud!CloudNext
  BY <1>3, <1>12, CloudSteps
<1> QED
  BY <1>1, <1>9, <1>10, <1>11, <1>13 DEF MockInv

\* What the three settings have in common.
LEMMA SettingStep ==
    ASSUME MockInv, NEW s \in KnownServices, NEW t \in KnownRoutes,
           UNCHANGED <<mServices, mRoutes, entries, past>>,
           \A map \in {reqTransforms', resTransforms', routeAuths'} :
               \E old \in {reqTransforms, resTransforms, routeAuths} :
                   DOMAIN map \subseteq DOMAIN old \union {<<s, t>>}
    PROVE  /\ MockInv' /\ ReadsAgree
           /\ KeepsServicesBut({}) /\ KeepsRoutesBut({}) /\ KeepsRoutesBut({t})
           /\ KeepsPastBut({}, {}) /\ KeepsPastBut({}, {t})
<1>1. ReadsAgree /\ ReadsAgree' /\ MapsShape /\ PastShape /\ SettingsShape /\ EntriesShape
  BY ReadsAgreeSame DEF MockInv
<1>2. KeepsServicesBut({}) /\ KeepsRoutesBut({}) /\ KeepsRoutesBut({t})
  BY MapsStay, KeepsLess
<1>3. KeepsPastBut({}, {}) /\ KeepsPastBut({}, {t})
  BY PastStays, KeepsLess
<1>4. MapsShape' /\ PastShape' /\ EntriesShape'
  BY <1>1 DEF MapsShape, PastShape, EntriesShape, RouteFound
<1>5. SettingsShape'
  <2>1. <<s, t>> \in Pairs
    BY <1>1 DEF MapsShape, PastShape, KnownServices, Pairs
  <2>2. Pairs' = Pairs
    BY DEF Pairs, KnownRoutes, LiveRoutes
  <2>3. \A map \in {reqTransforms', resTransforms', routeAuths'} : DOMAIN map \subseteq Pairs
    BY <1>1, <2>1 DEF SettingsShape
  <2> QED
    BY <2>2, <2>3 DEF SettingsShape
<1> QED
  BY <1>1, <1>2, <1>3, <1>4, <1>5 DEF MockInv

\* A setting of a pair that is no route shows nowhere.
LEMMA SettingUnseen ==
    ASSUME ReadsAgree, ReadsAgree', NEW s, NEW t, ~RouteFound(s, t),
           UNCHANGED <<mServices, mRoutes, past>>, KeepsSettingsBut({t}),
           \A x : x # s => /\ RequestTransformOf(x, t)' = RequestTransformOf(x, t)
                           /\ ResponseTransformOf(x, t)' = ResponseTransformOf(x, t)
    PROVE  UNCHANGED <<CloudServices, CloudRoutes>>
<1>1. KeepsServicesBut({}) /\ KeepsRoutesBut({t}) /\ KeepsPastBut({}, {}) /\ KeepsPastBut({}, {t})
  BY MapsStay, PastStays, KeepsLess
<1>2. \A x \in ServiceIDs : CloudServices'[x] = CloudServices[x]
  BY <1>1, ServicesElsewhere
<1>3. \A u \in RouteIDs \ {t} : CloudRoutes'[u] = CloudRoutes[u]
  BY <1>1, RoutesElsewhere
<1>4. \A x : RouteFound(x, t)' <=> RouteFound(x, t)
  BY DEF RouteFound
<1>5. ASSUME t \in RouteIDs PROVE CloudRoutes'[t] = CloudRoutes[t]
  <2>1. CASE \E x : RouteFound(x, t)
    <3>1. PICK x : RouteFound(x, t)
      BY <2>1
    <3>2. x # s /\ RouteFound(x, t)'
      BY <1>4, <3>1
    <3>3. RouteRecord(x, t)' = RouteRecord(x, t)
      BY <3>2 DEF RouteRecord
    <3> QED
      BY <1>5, <3>1, <3>2, <3>3, CloudAt, CloudAtNext
  <2>2. CASE \A x : ~RouteFound(x, t)
    BY <1>4, <1>5, <2>2, CloudAt, CloudAtNext
  <2> QED
    BY <2>1, <2>2
<1>6. \A u \in RouteIDs : CloudRoutes'[u] = CloudRoutes[u]
  BY <1>3, <1>5
<1> QED
  BY <1>2, <1>6, CloudAt, CloudAtNext

\* The request transform of a route is replaced whole.
LEMMA SetRequestTransformCloud ==
    ASSUME MockInv, NEW s \in KnownServices, NEW t \in KnownRoutes,
           NEW transform \in Cloud!RequestTransform, MSetRequestTransform(s, t, transform)
    PROVE  MockInv' /\ Cloud!CloudNext
<1>1. /\ UNCHANGED <<mServices, mRoutes, entries, past>> /\ UNCHANGED <<resTransforms, routeAuths>>
      /\ reqTransforms' = Assign(reqTransforms, <<s, t>>, transform)
  BY DEF MSetRequestTransform
<1>2. /\ DOMAIN reqTransforms' = DOMAIN reqTransforms \union {<<s, t>>}
      /\ reqTransforms'[<<s, t>>] = transform
      /\ \A p \in DOMAIN reqTransforms : p # <<s, t>> => reqTransforms'[p] = reqTransforms[p]
  <2> DEFINE at == <<s, t>>
  <2>1. reqTransforms' = Assign(reqTransforms, at, transform)
    BY <1>1
  <2> HIDE DEF at
  <2>2. /\ DOMAIN reqTransforms' = DOMAIN reqTransforms \union {at} /\ reqTransforms'[at] = transform
        /\ \A p \in DOMAIN reqTransforms : p # at => reqTransforms'[p] = reqTransforms[p]
    BY <2>1 DEF Assign
  <2> QED
    BY <2>2 DEF at
<1>3. /\ MockInv' /\ ReadsAgree /\ ReadsAgree'
      /\ KeepsServicesBut({}) /\ KeepsRoutesBut({}) /\ KeepsRoutesBut({t})
      /\ KeepsPastBut({}, {}) /\ KeepsPastBut({}, {t})
  <2>1. \A map \in {reqTransforms', resTransforms', routeAuths'} :
            \E old \in {reqTransforms, resTransforms, routeAuths} :
                DOMAIN map \subseteq DOMAIN old \union {<<s, t>>}
    BY <1>1, <1>2
  <2> QED
    BY <1>1, <2>1, SettingStep DEF MockInv
<1>4. /\ RequestTransformOf(s, t)' = transform
      /\ \A x, u : <<x, u>> # <<s, t>> => RequestTransformOf(x, u)' = RequestTransformOf(x, u)
      /\ \A x, u : ResponseTransformOf(x, u)' = ResponseTransformOf(x, u)
  BY <1>1, <1>2 DEF RequestTransformOf, ResponseTransformOf
<1>5. KeepsSettingsBut({t})
  BY <1>4 DEF KeepsSettingsBut
<1>6. CASE ~RouteFound(s, t)
  <2>1. UNCHANGED <<CloudServices, CloudRoutes>>
    BY <1>1, <1>3, <1>4, <1>5, <1>6, SettingUnseen
  <2> QED
    BY <1>3, <2>1, CloudSteps
<1>7. CASE RouteFound(s, t)
  <2>1. s \in ServiceIDs /\ t \in RouteIDs
    BY <1>7 DEF MockInv, RouteFound, ReadsAgree, MapsShape
  <2>2. RouteFound(s, t)'
    BY <1>1, <1>7 DEF RouteFound
  <2>3. CloudRoutes[t] = RouteRecord(s, t) /\ CloudRoutes'[t] = RouteRecord(s, t)'
    BY <1>3, <1>7, <2>1, <2>2, CloudAt, CloudAtNext
  <2>4. /\ CloudRoutes'[t] = [CloudRoutes[t] EXCEPT !.reqT = transform]
        /\ CloudRoutes[t].state = "live" /\ CloudRoutes[t].service = s
    BY <1>1, <1>4, <2>3 DEF RouteRecord
  <2>5. CloudServices' = CloudServices /\ CloudRoutes' = [CloudRoutes EXCEPT ![t] = CloudRoutes'[t]]
    BY <1>3, <1>5, <2>1, OneRouteTouched
  <2>6. Cloud!SetRequestTransform(s, t, transform)
    BY <2>1, <2>4, <2>5 DEF Cloud!SetRequestTransform, Cloud!RoutesOn
  <2> QED
    BY <1>3, <2>1, <2>6, CloudSteps
<1> QED
  BY <1>6, <1>7

\* The response transform likewise.
LEMMA SetResponseTransformCloud ==
    ASSUME MockInv, NEW s \in KnownServices, NEW t \in KnownRoutes,
           NEW f \in Filters \union {None}, MSetResponseTransform(s, t, f)
    PROVE  MockInv' /\ Cloud!CloudNext
<1>1. /\ UNCHANGED <<mServices, mRoutes, entries, past>> /\ UNCHANGED <<reqTransforms, routeAuths>>
      /\ resTransforms' = Assign(resTransforms, <<s, t>>, f)
  BY DEF MSetResponseTransform
<1>2. /\ DOMAIN resTransforms' = DOMAIN resTransforms \union {<<s, t>>}
      /\ resTransforms'[<<s, t>>] = f
      /\ \A p \in DOMAIN resTransforms : p # <<s, t>> => resTransforms'[p] = resTransforms[p]
  <2> DEFINE at == <<s, t>>
  <2>1. resTransforms' = Assign(resTransforms, at, f)
    BY <1>1
  <2> HIDE DEF at
  <2>2. /\ DOMAIN resTransforms' = DOMAIN resTransforms \union {at} /\ resTransforms'[at] = f
        /\ \A p \in DOMAIN resTransforms : p # at => resTransforms'[p] = resTransforms[p]
    BY <2>1 DEF Assign
  <2> QED
    BY <2>2 DEF at
<1>3. /\ MockInv' /\ ReadsAgree /\ ReadsAgree'
      /\ KeepsServicesBut({}) /\ KeepsRoutesBut({}) /\ KeepsRoutesBut({t})
      /\ KeepsPastBut({}, {}) /\ KeepsPastBut({}, {t})
  <2>1. \A map \in {reqTransforms', resTransforms', routeAuths'} :
            \E old \in {reqTransforms, resTransforms, routeAuths} :
                DOMAIN map \subseteq DOMAIN old \union {<<s, t>>}
    BY <1>1, <1>2
  <2> QED
    BY <1>1, <2>1, SettingStep DEF MockInv
<1>4. /\ ResponseTransformOf(s, t)' = f
      /\ \A x, u : <<x, u>> # <<s, t>> => ResponseTransformOf(x, u)' = ResponseTransformOf(x, u)
      /\ \A x, u : RequestTransformOf(x, u)' = RequestTransformOf(x, u)
  BY <1>1, <1>2 DEF RequestTransformOf, ResponseTransformOf
<1>5. KeepsSettingsBut({t})
  BY <1>4 DEF KeepsSettingsBut
<1>6. CASE ~RouteFound(s, t)
  <2>1. UNCHANGED <<CloudServices, CloudRoutes>>
    BY <1>1, <1>3, <1>4, <1>5, <1>6, SettingUnseen
  <2> QED
    BY <1>3, <2>1, CloudSteps
<1>7. CASE RouteFound(s, t)
  <2>1. s \in ServiceIDs /\ t \in RouteIDs
    BY <1>7 DEF MockInv, RouteFound, ReadsAgree, MapsShape
  <2>2. RouteFound(s, t)'
    BY <1>1, <1>7 DEF RouteFound
  <2>3. CloudRoutes[t] = RouteRecord(s, t) /\ CloudRoutes'[t] = RouteRecord(s, t)'
    BY <1>3, <1>7, <2>1, <2>2, CloudAt, CloudAtNext
  <2>4. /\ CloudRoutes'[t] = [CloudRoutes[t] EXCEPT !.respT = f]
        /\ CloudRoutes[t].state = "live" /\ CloudRoutes[t].service = s
    BY <1>1, <1>4, <2>3 DEF RouteRecord
  <2>5. CloudServices' = CloudServices /\ CloudRoutes' = [CloudRoutes EXCEPT ![t] = CloudRoutes'[t]]
    BY <1>3, <1>5, <2>1, OneRouteTouched
  <2>6. Cloud!SetResponseTransform(s, t, f)
    BY <2>1, <2>4, <2>5 DEF Cloud!SetResponseTransform, Cloud!RoutesOn
  <2> QED
    BY <1>3, <2>1, <2>6, CloudSteps
<1> QED
  BY <1>6, <1>7

\* Who may use a route is no part of what the cloud shows.
LEMMA SetRouteAuthorizationCloud ==
    ASSUME MockInv, NEW s \in KnownServices, NEW t \in KnownRoutes, NEW name, MSetRouteAuthorization(s, t, name)
    PROVE  MockInv' /\ Cloud!CloudNext
<1>1. /\ UNCHANGED <<mServices, mRoutes, entries, past>> /\ UNCHANGED <<reqTransforms, resTransforms>>
      /\ routeAuths' = Assign(routeAuths, <<s, t>>, name)
  BY DEF MSetRouteAuthorization
<1>2. DOMAIN routeAuths' = DOMAIN routeAuths \union {<<s, t>>}
  BY <1>1, Assigned
<1>3. /\ MockInv' /\ ReadsAgree /\ ReadsAgree'
      /\ KeepsServicesBut({}) /\ KeepsRoutesBut({}) /\ KeepsPastBut({}, {})
  <2>1. \A map \in {reqTransforms', resTransforms', routeAuths'} :
            \E old \in {reqTransforms, resTransforms, routeAuths} :
                DOMAIN map \subseteq DOMAIN old \union {<<s, t>>}
    BY <1>1, <1>2
  <2> QED
    BY <1>1, <2>1, SettingStep DEF MockInv
<1>4. KeepsSettingsBut({})
  BY <1>1 DEF KeepsSettingsBut, RequestTransformOf, ResponseTransformOf
<1> QED
  BY <1>3, <1>4, CloudUntouched, CloudSteps

\* The rest of the mock's maps have nothing to do with the cloud.
LEMMA EntriesCloud ==
    ASSUME MockInv, UNCHANGED <<mServices, mRoutes, transformVars>>, EntriesShape',
           past' = past \/ \E ids : past' = [past EXCEPT !.entries = ids]
    PROVE  MockInv' /\ Cloud!CloudNext
<1>1. ReadsAgree /\ ReadsAgree' /\ MapsShape /\ PastShape /\ SettingsShape
  BY ReadsAgreeSame DEF MockInv
<1>2. /\ past'.services = past.services /\ past'.routes = past.routes
      /\ past' = [services |-> past'.services, routes |-> past'.routes, entries |-> past'.entries]
  BY <1>1 DEF PastShape
<1>3. KeepsServicesBut({}) /\ KeepsRoutesBut({}) /\ KeepsSettingsBut({}) /\ KeepsPastBut({}, {})
  BY <1>2, MapsStay, SettingsStay, PastStays
<1>4. MapsShape' /\ PastShape'
  BY <1>1, <1>2 DEF MapsShape, PastShape, RouteFound
<1>5. SettingsShape'
  BY <1>1, <1>3, KnownStay
<1>6. UNCHANGED <<CloudServices, CloudRoutes>>
  BY <1>1, <1>3, CloudUntouched
<1> QED
  BY <1>1, <1>4, <1>5, <1>6, CloudSteps DEF MockInv

\* Adding, changing and deleting one of them.
LEMMA EntryCalls ==
    ASSUME MockInv, NEW x \in Sections,
           CreateEntry(x) \/ UpdateEntry(x) \/ DeleteEntry(x)
    PROVE  MockInv' /\ Cloud!CloudNext
<1>1. EntriesShape
  BY DEF MockInv
<1>2. ASSUME NEW id \in EntryIDs, NEW name, Put(x, id, name)
      PROVE  MockInv' /\ Cloud!CloudNext
  <2> DEFINE new == Assign(entries[x], id, name)
  <2>1. /\ entries' = [entries EXCEPT ![x] = new]
        /\ UNCHANGED <<mServices, mRoutes, transformVars, past>>
    BY <1>2 DEF Put
  <2>2. DOMAIN new = DOMAIN entries[x] \union {id}
    BY Assigned
  <2> HIDE DEF new
  <2>3. EntriesShape'
    BY <1>1, <2>1, <2>2 DEF EntriesShape
  <2> QED
    BY <2>1, <2>3, EntriesCloud
<1>3. CASE CreateEntry(x) \/ UpdateEntry(x)
  <2>1. \E id \in EntryIDs, name \in Names : Put(x, id, name)
    BY <1>1, <1>3 DEF CreateEntry, UpdateEntry, NewEntryIDs, EntriesShape
  <2> QED
    BY <1>2, <2>1
<1>4. CASE DeleteEntry(x)
  <2>1. PICK id \in DOMAIN entries[x] :
            /\ entries' = [entries EXCEPT ![x] = Delete(entries[x], id)]
            /\ past' = [past EXCEPT !.entries = past.entries \union {id}]
            /\ UNCHANGED <<mServices, mRoutes, transformVars>>
    BY <1>4 DEF DeleteEntry
  <2> DEFINE new == Delete(entries[x], id)
  <2>2. DOMAIN new \subseteq DOMAIN entries[x]
    BY DeleteDomain
  <2>3. entries' = [entries EXCEPT ![x] = new]
    BY <2>1
  <2> HIDE DEF new
  <2>4. EntriesShape'
    BY <1>1, <2>2, <2>3 DEF EntriesShape
  <2> QED
    BY <2>1, <2>4, EntriesCloud
<1> QED
  BY <1>3, <1>4

\* Every call of the mock is a step of the cloud.
LEMMA MockCloudStep == MockInv /\ MockNext => MockInv' /\ Cloud!CloudNext
<1> SUFFICES ASSUME MockInv, MockNext PROVE MockInv' /\ Cloud!CloudNext
  OBVIOUS
<1>1. CASE \E s \in NewServiceIDs, name \in Routes \X Backends, host \in [ip : IPs, port : NodePorts] :
              MCreateService(s, name, host)
  BY <1>1, CreateServiceCloud
<1>2. CASE ServiceCalls
  BY <1>2, NoServiceDeleted, DeleteServiceCloud, UpdateServiceCloud DEF ServiceCalls
<1>3. CASE RouteCalls
  BY <1>3, CreateRouteCloud, NoRouteDeleted, DeleteRouteCloud, UpdateRouteCloud DEF RouteCalls
<1>4. CASE SettingCalls
  BY <1>4, SetRequestTransformCloud, SetResponseTransformCloud, SetRouteAuthorizationCloud DEF SettingCalls
<1>5. CASE Subscriptions \/ Users \/ Groups \/ OIDCs \/ Domains \/ Certificates
  <2>1. \E x \in Sections : CreateEntry(x) \/ UpdateEntry(x) \/ DeleteEntry(x)
    BY <1>5 DEF Subscriptions, Users, Groups, OIDCs, Domains, Certificates, Sections
  <2> QED
    BY <2>1, EntryCalls
<1> QED
  BY <1>1, <1>2, <1>3, <1>4, <1>5 DEF MockNext

\* The mock starts with empty maps, the cloud with nothing in it.
LEMMA MockCloudInit == NewMockClient => MockInv /\ Cloud!CloudInit
<1> SUFFICES ASSUME NewMockClient PROVE MockInv /\ Cloud!CloudInit
  OBVIOUS
<1>1. DOMAIN Empty = {} /\ Empty = [x \in {} |-> x]
  BY DEF Empty
<1>2. /\ mServices = Empty /\ mRoutes = Empty
      /\ reqTransforms = Empty /\ resTransforms = Empty /\ routeAuths = Empty
      /\ past = [services |-> Empty, routes |-> Empty, entries |-> {}]
      /\ entries = [section \in Sections |-> Empty]
  BY DEF NewMockClient
<1>3. past.services = Empty /\ past.routes = Empty /\ past.entries = {}
  BY <1>2
<1>4. ReadsAgree
  BY ReadsAgreeInit
<1>5. \A x, t : ~RouteFound(x, t)
  BY <1>1, <1>2 DEF RouteFound
<1>6. MapsShape
  <2>1. Empty \in [{} -> MockService]
    BY <1>1
  <2> QED
    BY <1>1, <1>2, <1>5, <2>1 DEF MapsShape
<1>7. PastShape
  BY <1>1, <1>2, <1>3 DEF PastShape
<1>8. SettingsShape
  BY <1>1, <1>2 DEF SettingsShape
<1>9. EntriesShape
  BY <1>1, <1>2 DEF EntriesShape
<1>10. Cloud!CloudInit
  <2>1. \A s \in ServiceIDs : CloudServices[s] = NewService
    BY <1>1, <1>2, <1>3, <1>4, CloudAt
  <2>2. \A t \in RouteIDs : CloudRoutes[t] = NewRoute
    BY <1>1, <1>3, <1>4, <1>5, CloudAt
  <2>3. CloudServices = [s \in ServiceIDs |-> NewService]
    BY <1>4, <2>1, CloudAt
  <2>4. CloudRoutes = [t \in RouteIDs |-> NewRoute]
    BY <1>4, <2>2, CloudAt
  <2> QED
    BY <2>3, <2>4
       DEF Cloud!CloudInit, Cloud!NoUpstream, Cloud!NoTransform, NewService, NewRoute
<1> QED
  BY <1>4, <1>6, <1>7, <1>8, <1>9, <1>10 DEF MockInv

\* A step in which the mock makes no call shows nothing new.
LEMMA MockCloudSame == MockInv /\ UNCHANGED mockVars => MockInv' /\ UNCHANGED <<CloudServices, CloudRoutes>>
<1> SUFFICES ASSUME MockInv, UNCHANGED mockVars
             PROVE  MockInv' /\ UNCHANGED <<CloudServices, CloudRoutes>>
  OBVIOUS
<1>1. UNCHANGED <<mServices, mRoutes, reqTransforms, resTransforms, routeAuths, entries, past>>
  BY DEF mockVars
<1>2. ReadsAgree /\ ReadsAgree' /\ MapsShape /\ PastShape /\ SettingsShape /\ EntriesShape
  BY <1>1, ReadsAgreeSame DEF MockInv
<1>3. MapsShape' /\ PastShape' /\ EntriesShape' /\ SettingsShape'
  BY <1>1, <1>2 DEF MapsShape, PastShape, EntriesShape, SettingsShape, RouteFound, Pairs, KnownRoutes, LiveRoutes
<1>4. KeepsServicesBut({}) /\ KeepsRoutesBut({}) /\ KeepsSettingsBut({}) /\ KeepsPastBut({}, {})
  BY <1>1, MapsStay, SettingsStay, PastStays DEF transformVars
<1> QED
  BY <1>2, <1>3, <1>4, CloudUntouched DEF MockInv

\* What a step of either client is to the mock.
LEMMA ClientStep == MockInv /\ [Next]_clientVars => MockInv' /\ [Cloud!CloudNext]_(Cloud!cloudVars)
<1> SUFFICES ASSUME MockInv, [Next]_clientVars
             PROVE  MockInv' /\ [Cloud!CloudNext]_(Cloud!cloudVars)
  OBVIOUS
<1>1. MockNext \/ UNCHANGED mockVars
  BY DEF Next, clientVars
<1> QED
  BY <1>1, MockCloudStep, MockCloudSame DEF Cloud!cloudVars

\* What the maps are like after any calls.
LEMMA MockInvHolds == Spec => []MockInv
<1>1. SetupClient => MockInv
  BY MockCloudInit DEF SetupClient
<1> QED
  BY <1>1, ClientStep, PTL DEF Spec

\* The client of dry run (mock.go) is an implementation of the cloud the
\* controllers' models run against: whatever calls are made, with identifiers of
\* what is there, of what is gone or of an earlier process, every method does to
\* the services, the routes and their transforms what SakuraCloud says it does,
\* and nothing that was deleted comes back or leaves something alive.
THEOREM MockImplementsCloud == Spec => ImplementsCloud
<1>1. SetupClient => Cloud!CloudInit
  BY MockCloudInit DEF SetupClient
<1> QED
  BY <1>1, MockInvHolds, ClientStep, PTL DEF Spec, ImplementsCloud, Cloud!CloudSpec

\* The maps of the mock and the calls of the HTTP client keep their types.
THEOREM ClientTypesCorrect == Spec => []ClientTypeOK
<1>1. MockInv => MockTypeOK
  <2> SUFFICES ASSUME MockInv PROVE MockTypeOK
    OBVIOUS
  <2>1. ReadsAgree /\ MapsShape /\ PastShape /\ SettingsShape /\ EntriesShape
    BY DEF MockInv
  <2>2. mServices \in UNION {[S -> [name : Routes \X Backends, host : [ip : IPs, port : NodePorts]]] :
                              S \in SUBSET ServiceIDs}
    BY <2>1 DEF MapsShape, MockService
  <2>3. DOMAIN mRoutes \subseteq ServiceIDs /\ LiveRoutes \subseteq RouteIDs
    BY <2>1, LiveFound DEF ReadsAgree, MapsShape
  <2>4. /\ DOMAIN mServices \intersect DOMAIN past.services = {}
        /\ LiveRoutes \intersect DOMAIN past.routes = {}
    BY <2>1, LiveFound DEF PastShape
  <2>5. Pairs \subseteq (ServiceIDs \union {Foreign}) \X (RouteIDs \union {Foreign})
    BY <2>1, <2>3 DEF Pairs, KnownRoutes, PastShape
  <2>6. \A map \in {reqTransforms, resTransforms, routeAuths} :
            DOMAIN map \subseteq (ServiceIDs \union {Foreign}) \X (RouteIDs \union {Foreign})
    BY <2>1, <2>5 DEF SettingsShape
  <2> QED
    BY <2>1, <2>2, <2>3, <2>4, <2>6 DEF MockTypeOK, EntriesShape
<1>2. HTTPInv => HTTPTypeOK
  BY DEF HTTPInv
<1> QED
  BY <1>1, <1>2, MockInvHolds, HTTPInvHolds, PTL DEF ClientTypeOK
=============================================================================
