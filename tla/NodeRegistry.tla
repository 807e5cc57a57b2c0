---------------------------- MODULE NodeRegistry ----------------------------
(***************************************************************************)
(* The nodes of the control plane: registration, heartbeats and the pages  *)
(* of the list, in apps/control_plane/app.py and repository.py, behind the *)
(* access control of the server that runs.                                 *)
(*                                                                         *)
(* As with tasks, a handler is a sequence of transactions that others may  *)
(* interleave: a heartbeat reads the node's row, computes the row it will  *)
(* be from its own fields and the time of now, and replaces the row later. *)
(* The three numbers a heartbeat may carry are updated alike, each on its  *)
(* own, and one of them stands for all.                                    *)
(***************************************************************************)
EXTENDS AccessControl

CONSTANTS
    Nodes,          \* node ids, numbers in the order of "order by node_id"
    Beating,        \* bound: nodes whose agents send heartbeats
    Threads,        \* threads of the server's pool
    Values,         \* what a node may report
    Reported,       \* statuses of heartbeats: "online", "offline", "disabled"
    NotGiven,       \* the heartbeat does not carry the field
    PageLimit,      \* the limit of a list request, 100 by default
    Filters,        \* bound: the statuses whose nodes a list may be asked for
    Deployments,    \* the environments this server is started with
    Callers,        \* the requests its clients make
    MaxTime         \* bound: ticks of the clock

ASSUME NodesAssumption ==
    /\ Nodes \subseteq Nat /\ IsFiniteSet(Nodes)
    /\ NotGiven \notin Values
    /\ Reported \subseteq {"online", "offline", "disabled"}
    /\ PageLimit \in Nat \ {0} /\ MaxTime \in Nat
    /\ Deployments \subseteq Environments /\ Callers \subseteq Requests

VARIABLES
    nodes,          \* the nodes table
    frame,          \* the request each thread is serving
    trail,          \* the last audit event about each node
    running,        \* the environment the server was started with
    clock,          \* the time
    reader,         \* a client that reads the list page by page; its field
                    \* left is a history: nodes no longer in the list it reads
    contended,      \* history: nodes two requests have been about at once
    unaudited       \* history: nodes a request ended before its audit event

vars == <<nodes, frame, trail, running, clock, reader, contended, unaudited>>

Times == 0 .. MaxTime
Never == -1
Row == [status : {"registered"} \cup Reported, value : Values,
        seen : {Never} \cup Times]
Absent == [status |-> "absent"]
Idle == [at |-> "idle"]
Kinds == {"node.registered", "node.heartbeat"}
Busy == [at : {"save", "audit"}, id : Nodes, row : Row, kind : Kinds,
         given : Values \cup {NotGiven}]
Event == [kind : Kinds, status : {"registered"} \cup Reported]
NoEvent == [kind |-> "none"]
AnyStatus == "any"      \* the list is asked for without a status
Reading == [at : {"idle", "reading", "done"}, asked : Filters \cup {AnyStatus},
            offset : Nat, got : SUBSET Nodes, before : SUBSET Nodes, left : SUBSET Nodes]
NotReading == [at |-> "idle", asked |-> AnyStatus, offset |-> 0, got |-> {},
               before |-> {}, left |-> {}]

TypeOK ==
    /\ nodes \in [Nodes -> Row \cup {Absent}]
    /\ frame \in [Threads -> {Idle} \cup Busy]
    /\ trail \in [Nodes -> Event \cup {NoEvent}]
    /\ running \in Deployments
    /\ clock \in Times
    /\ reader \in Reading
    /\ contended \subseteq Nodes /\ unaudited \subseteq Nodes

Known == {n \in Nodes : nodes[n] # Absent}

Init ==
    /\ nodes = [n \in Nodes |-> Absent]
    /\ frame = [h \in Threads |-> Idle]
    /\ trail = [n \in Nodes |-> NoEvent]
    /\ running \in {env \in Deployments : Startable(env, TRUE)}
    /\ clock = 0
    /\ reader = NotReading
    /\ contended = {} /\ unaudited = {}

-----------------------------------------------------------------------------
\* Whom each server admits to a route, at each time.
Admitted == [env \in Deployments, now \in Times, route \in {AgentRoute, OperatorRoute} |->
                {q \in Callers : Admits(env, now, q, route)}]

\* Somebody calls whom the running server admits to the route.
Called(route) == Admitted[running, clock, route] # {}

\* One step of the request about n that h serves.
Step(h, n, next) ==
    /\ frame' = [frame EXCEPT ![h] = next]
    /\ contended' = IF \E g \in Threads \ {h} : frame[g] # Idle /\ frame[g].id = n
                    THEN contended \cup {n} ELSE contended
    /\ UNCHANGED <<running, clock>>

NewNode(v) == [status |-> "registered", value |-> v, seen |-> Never]

\* POST /nodes/register: the server issues the id, the row is saved at once.
Register(h, n, v) ==
    /\ frame[h] = Idle
    /\ n \notin Known
    /\ Called(AgentRoute)
    /\ nodes' = [nodes EXCEPT ![n] = NewNode(v)]
    /\ Step(h, n, [at |-> "audit", id |-> n, row |-> NewNode(v),
                   kind |-> "node.registered", given |-> v])
    /\ UNCHANGED <<trail, reader, unaudited>>

\* mutant: the fields that are not given are reset
BeatenWhole(row, status, v) ==
    [status |-> status, seen |-> clock,
     value |-> IF v = NotGiven THEN CHOOSE w \in Values : TRUE ELSE v]

\* The row with the update of a heartbeat.
Beaten(row, status, v) ==
    [status |-> status, seen |-> clock,
     value |-> IF v = NotGiven THEN row.value ELSE v]

\* POST /nodes/{id}/heartbeat up to the row it will save; 404 if unknown.
ReadForHeartbeat(h, n, status, v) ==
    /\ frame[h] = Idle
    /\ n \in Known \cap Beating
    /\ Called(AgentRoute)
    /\ Step(h, n, [at |-> "save", id |-> n, row |-> Beaten(nodes[n], status, v),
                   kind |-> "node.heartbeat", given |-> v])
    /\ UNCHANGED <<nodes, trail, reader, unaudited>>

\* The rows a list request is about: all, or those of one status.
Matches(asked, row) == row # Absent /\ asked \in {AnyStatus, row.status}

\* save_node(): insert or replace, whatever the table holds by now.
SaveNode(h) ==
    /\ frame[h].at = "save"
    /\ nodes' = [nodes EXCEPT ![frame[h].id] = frame[h].row]
    /\ Step(h, frame[h].id, [frame[h] EXCEPT !.at = "audit"])
    /\ reader' = [reader EXCEPT !.left = @ \cup
           {n \in {frame[h].id} : /\ reader.at = "reading"
                                 /\ Matches(reader.asked, nodes[n])
                                 /\ ~Matches(reader.asked, frame[h].row)}]
    /\ UNCHANGED <<trail, unaudited>>

\* mutant: a node that is switched off leaves no event
AppendAuditOfChange(h) ==
    /\ frame[h].at = "audit"
    /\ trail' = IF frame[h].row.status = "disabled" THEN trail
                ELSE [trail EXCEPT ![frame[h].id] =
                    [kind |-> frame[h].kind, status |-> frame[h].row.status]]
    /\ Step(h, frame[h].id, Idle)
    /\ unaudited' = unaudited \ {frame[h].id}
    /\ UNCHANGED <<nodes, reader>>

AppendAudit(h) ==
    /\ frame[h].at = "audit"
    /\ trail' = [trail EXCEPT ![frame[h].id] =
                    [kind |-> frame[h].kind, status |-> frame[h].row.status]]
    /\ Step(h, frame[h].id, Idle)
    /\ unaudited' = unaudited \ {frame[h].id}
    /\ UNCHANGED <<nodes, reader>>

\* The nodes that requests of these threads have saved and not audited.
SavedBy(threads) ==
    {n \in Nodes : \E h \in threads : frame[h].at = "audit" /\ frame[h].id = n}

\* save_node() or audit.append() raises: the request ends where it is.
FailRequest(h) ==
    /\ frame[h] # Idle
    /\ Step(h, frame[h].id, Idle)
    /\ unaudited' = unaudited \cup SavedBy({h})
    /\ UNCHANGED <<nodes, trail, reader>>

\* The server is killed, with its requests, and started again - with other
\* tokens, perhaps.
Restart ==
    /\ frame' = [h \in Threads |-> Idle]
    /\ running' \in {env \in Deployments : Startable(env, TRUE)}
    /\ unaudited' = unaudited \cup SavedBy(Threads)
    /\ UNCHANGED <<nodes, trail, clock, reader, contended>>

Tick ==
    /\ clock < MaxTime
    /\ clock' = clock + 1
    /\ UNCHANGED <<nodes, frame, trail, running, reader, contended, unaudited>>

-----------------------------------------------------------------------------
\* The nodes in the list of a request.
Listed(asked) == {n \in Nodes : Matches(asked, nodes[n])}

\* mutant: the page is cut off at the limit, not at offset + limit
PageCutOff(asked, offset) ==
    {n \in Listed(asked) : LET rank == Cardinality({m \in Listed(asked) : m < n})
                           IN  offset <= rank /\ rank < PageLimit}

\* list_nodes(): offset .. offset + limit - 1 of the listed, in order of their ids.
Page(asked, offset) ==
    {n \in Listed(asked) : LET rank == Cardinality({m \in Listed(asked) : m < n})
                           IN  offset <= rank /\ rank < offset + PageLimit}

\* A client asks for page after page of one list, until one is not full.
ReadPage(asked) ==
    /\ reader.at # "done"
    /\ reader.at = "reading" => asked = reader.asked
    /\ Called(OperatorRoute)
    /\ LET page == Page(asked, reader.offset)
       IN  reader' = [reader EXCEPT
               !.at = IF Cardinality(page) < PageLimit THEN "done" ELSE "reading",
               !.asked = asked,
               !.offset = @ + PageLimit,
               !.got = @ \cup page,
               !.before = IF reader.at = "idle" THEN Listed(asked) ELSE @]
    /\ UNCHANGED <<nodes, frame, trail, running, clock, contended, unaudited>>

Next ==
    \/ \E h \in Threads, n \in Nodes :
          \/ \E v \in Values : Register(h, n, v)
          \/ \E s \in Reported, v \in Values \cup {NotGiven} :
                ReadForHeartbeat(h, n, s, v)
    \/ \E h \in Threads : SaveNode(h) \/ AppendAudit(h) \/ FailRequest(h)
    \/ Restart
    \/ Tick
    \/ \E asked \in Filters : ReadPage(asked)

Spec == Init /\ [][Next]_vars

-----------------------------------------------------------------------------
(* Properties.                                                             *)

\* As long as no two requests have been about a node at once, however many
\* serve other nodes: its last heartbeat never goes back, and a value it has
\* reported is only replaced by one that a heartbeat brings.
HeartbeatsAreKept ==
    [][\A n \in Known \ contended' :
          /\ nodes'[n].seen >= nodes[n].seen
          /\ nodes'[n].value # nodes[n].value =>
                \E h \in Threads : frame[h] # Idle /\ frame[h].id = n
                                      /\ frame[h].given = nodes'[n].value]_vars

Quiet(n) == \A h \in Threads : frame[h] # Idle => frame[h].id # n

\* "Every important change of state leaves an audit event" (SECURITY_MODEL):
\* the last event about a node tells its status, unless two requests were about
\* it at once or the last that saved it never got to its event.
AuditReflectsNode ==
    \A n \in Known \ (contended \cup unaudited) :
        Quiet(n) => trail[n] # NoEvent /\ trail[n].status = nodes[n].status

\* Nodes that come into a list while it is being read move others to later
\* pages, never to earlier ones: who was in it before is in some page.  Only
\* from a list of one status a node is missed, and only one that has left the
\* list meanwhile or is behind one that has.
PagesMissNobody ==
    reader.at = "done" => \A n \in reader.before \ reader.got :
        reader.asked # AnyStatus /\ \E m \in reader.left : m <= n

EntitledNow == [now \in Times |-> EntitledAt(now)]
NamedTokensNow == [now \in Times |-> NamedTokensAt(now)]

\* At no time does a server, whatever it was started with, let in who has no
\* role that the handler asks for, or a certificate that is not on the list.
AdmittedIsEntitled == EntitledNow[clock]

\* At no time does a token of its own open other handlers than those of its
\* roles, or fail to open one of those.
NamedTokensAdmit == NamedTokensNow[clock]
=============================================================================
