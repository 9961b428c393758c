-------------------------- MODULE NodePortManager --------------------------
(***************************************************************************)
(* The NodePort Services of internal/controller/nodeport.go: one per        *)
(* backend, named after the backend alone, so every HTTPRoute that sends    *)
(* traffic to the backend shares it.  The manager reads Services and Nodes  *)
(* through the informer cache and writes to the API server.                 *)
(***************************************************************************)
EXTENDS SakuraCloud

CONSTANTS
    Ports,       \* ports of backend Services
    Selectors    \* pod selectors

ASSUME NodePortAssumption ==
    /\ Ports \subseteq Nat
    /\ None \notin Selectors \union IPs
    /\ IPs # {}

VARIABLES
    np,          \* NodePort Services in the API server
    npCache,     \* the informer's copy of np
    backendSvc,  \* selector of each backend Service, None if it has none or is absent
    nodeIP       \* address of the first Ready node, None if there is none

nodePortVars == <<np, npCache, backendSvc, nodeIP>>

NodePortService == [exists : BOOLEAN, managed : BOOLEAN, owner : Routes \union {None},
                    port : Ports \union {0}, nodePort : NodePorts \union {0},
                    sel : Selectors \union {None}]

Absent == [exists |-> FALSE, managed |-> FALSE, owner |-> None, port |-> 0,
           nodePort |-> 0, sel |-> None]

NodePortTypeOK ==
    /\ np \in [Backends -> NodePortService]
    /\ npCache \in [Backends -> NodePortService]
    /\ backendSvc \in [Backends -> Selectors \union {None}]
    /\ nodeIP \in IPs \union {None}

NodePortInit ==
    /\ np = [b \in Backends |-> Absent]
    /\ npCache = np
    /\ backendSvc \in [Backends -> Selectors]
    /\ nodeIP = CHOOSE ip \in IPs : TRUE

----------------------------------------------------------------------------
\* EnsureNodePortService finds a Service with the port in the cache. It does not
\* look at the label: another tool's Service will do.
HasNodePort(b, port) == npCache[b].exists /\ npCache[b].port = port

\* The node port the cached Service has for the port; the Go variable stays 0 without one.
CachedNodePort(b, port) == IF HasNodePort(b, port) THEN npCache[b].nodePort ELSE 0

\* Node ports no Service holds.
FreeNodePorts == {n \in NodePorts : \A b \in Backends : np[b].exists => np[b].nodePort # n}

\* The API server takes the Service: nothing has its name and a node port is free.
CanCreateNodePort(b) == ~np[b].exists /\ FreeNodePorts # {}

CreateNodePort(b, owner, port) ==
    /\ CanCreateNodePort(b)
    /\ \E n \in FreeNodePorts :
          np' = [np EXCEPT ![b] = [exists |-> TRUE, managed |-> TRUE, owner |-> owner,
                                   port |-> port, nodePort |-> n, sel |-> backendSvc[b]]]
    /\ UNCHANGED <<npCache, backendSvc, nodeIP>>

\* DeleteNodePortService calls Delete: the cached Service carries the managed-by label.
WantsNodePortDelete(b) == npCache[b].exists /\ npCache[b].managed

\* The API server deletes by name, whatever now has it.
DeleteNodePort(b) ==
    /\ np' = [np EXCEPT ![b] = Absent]
    /\ UNCHANGED <<npCache, backendSvc, nodeIP>>

----------------------------------------------------------------------------
(* Other tools and users                                                     *)

\* A Service without the managed-by label and without an owner takes the name; it
\* has the port with or without a node port, or does not have it.
OutsiderTakes(b) ==
    /\ ~np[b].exists
    /\ \E port \in Ports \union {0}, n \in FreeNodePorts \union {0} :
          /\ port = 0 => n = 0
          /\ np' = [np EXCEPT ![b] = [exists |-> TRUE, managed |-> FALSE, owner |-> None,
                                      port |-> port, nodePort |-> n, sel |-> None]]
    /\ UNCHANGED <<npCache, backendSvc, nodeIP>>

\* Somebody deletes the Service, whoever made it.
OutsiderRemoves(b) == np[b].exists /\ DeleteNodePort(b)
=============================================================================
