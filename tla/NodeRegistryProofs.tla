------------------------- MODULE NodeRegistryProofs -------------------------
(***************************************************************************)
(* Theorems about AccessControl, for any tokens, certificates, proxies and *)
(* requests, and about NodeRegistry, for any nodes, threads and servers.   *)
(***************************************************************************)
EXTENDS NodeRegistry, FiniteSetTheorems, WellFoundedInduction, TLAPS

\* Whoever passes has a role that is asked for and a certificate that is
\* allowed: the statement of AdmittedIsEntitled for one request.
LEMMA RolesAreGiven ==
    ASSUME NEW env, NEW now \in Int, NEW q, NEW role \in Identity(env, now, q).roles,
           Enabled(env), q.claim # NoClaim => q.claim.issued \in Int
    PROVE  HasRole(env, now, q, role)
  <1>1. CASE Vouched(env, now, q)
    <2>1. Identity(env, now, q) = Principal("sso", q.claim.roles)
      BY <1>1 DEF Identity
    <2>2. role \in q.claim.roles
      BY <2>1 DEF Principal
    <2>3. /\ now <= q.claim.issued + MaxSkew /\ q.claim.issued <= now + MaxSkew
      BY <1>1, NamesAssumption DEF Vouched
    <2> QED BY <1>1, <2>2, <2>3 DEF Vouched, HasRole
  <1>2. CASE ~Vouched(env, now, q) /\ q.token \in Configured(env)
    <2>1. Identity(env, now, q) = Principal("api-token", TokenRoles(env, q.token))
      BY <1>2 DEF Identity
    <2>2. PICK v \in Named(env, q.token) : role \in Granted[v]
      BY <2>1 DEF Principal, TokenRoles
    <2> QED BY <2>2 DEF Named, HasRole
  <1>3. CASE ~Vouched(env, now, q) /\ q.token \notin Configured(env)
    <2>1. Identity(env, now, q) = Nobody
      BY <1>3 DEF Identity
    <2> QED BY <2>1 DEF Nobody, Principal
  <1> QED BY <1>1, <1>2, <1>3

\* Nobody passes without a role the handler asks for or with a certificate
\* that is not on the list, for any tokens, lists, proxies and requests.
LEMMA OnlyEntitledPass ==
    ASSUME NEW now \in Int PROVE EntitledAt(now)
  <1> SUFFICES ASSUME NEW env \in Environments, NEW q \in Requests, NEW required \in Routes,
                      Enabled(env), Admits(env, now, q, required)
               PROVE  /\ env.allowed # {} => \E p \in env.allowed : Normal(p) = Normal(q.print)
                      /\ \E role \in required : HasRole(env, now, q, role)
    BY DEF EntitledAt
  <1>1. PrintAllowed(env, q) /\ Identity(env, now, q).roles \cap required # {}
    BY DEF Admits
  <1>2. env.allowed # {} => \E p \in env.allowed : Normal(p) = Normal(q.print)
    BY <1>1 DEF PrintAllowed
  <1>3. PICK role \in required : role \in Identity(env, now, q).roles
    BY <1>1
  <1>4. q.claim # NoClaim => q.claim.issued \in Int
    BY RequestsAssumption
  <1>5. HasRole(env, now, q, role)
    BY <1>3, <1>4, RolesAreGiven
  <1> QED BY <1>2, <1>5

\* Where no two variables hold one token, each token opens the handlers of
\* its variable's roles and no others.
LEMMA TokensOpenTheirRoutes ==
    ASSUME NEW now PROVE NamedTokensAt(now)
  <1> SUFFICES ASSUME NEW env \in Environments, NEW q \in Requests, NEW v \in Variables,
                      NEW required \in Routes,
                      Distinct(env), q.token \in Tokens, env.tokens[v] = q.token,
                      q.claim = NoClaim, PrintAllowed(env, q)
               PROVE  Admits(env, now, q, required) <=> Granted[v] \cap required # {}
    BY DEF NamedTokensAt
  <1>1. Named(env, q.token) = {v}
    BY NamesAssumption DEF Named, Distinct
  <1>2. q.token \in Configured(env) /\ Enabled(env)
    BY <1>1 DEF Configured, Enabled
  <1>3. TokenRoles(env, q.token) = Granted[v]
    <2>1. {u \in Named(env, q.token) : \A w \in Named(env, q.token) : w <= u} = {v}
      BY <1>1 DEF Variables
    <2> QED BY <2>1 DEF TokenRoles
  <1>4. ~Vouched(env, now, q)
    BY DEF Vouched
  <1>5. Identity(env, now, q).roles = Granted[v]
    BY <1>2, <1>3, <1>4 DEF Identity, Principal
  <1> QED BY <1>2, <1>5 DEF Admits

-----------------------------------------------------------------------------
(* The registry.                                                           *)

LEMMA RowsAreNotAbsent == \A r \in Row : r # Absent
  BY NodesAssumption DEF Row, Absent

LEMMA BeatenIsRow ==
    ASSUME TypeOK, NEW n \in Known, NEW s \in Reported, NEW v \in Values \cup {NotGiven}
    PROVE  /\ nodes[n] \in Row
           /\ Beaten(nodes[n], s, v) \in Row
           /\ Beaten(nodes[n], s, v).seen = clock
           /\ \/ Beaten(nodes[n], s, v).value = nodes[n].value
              \/ Beaten(nodes[n], s, v).value = v
  BY DEF TypeOK, Known, Row, Beaten

\* What Step makes of the frames, for the actions that serve a request.
LEMMA StepOfOne ==
    ASSUME TypeOK, NEW h \in Threads, NEW n \in Nodes, NEW next \in {Idle} \cup Busy,
           Step(h, n, next)
    PROVE  /\ frame' \in [Threads -> {Idle} \cup Busy]
           /\ frame'[h] = next
           /\ \A g \in Threads \ {h} : frame'[g] = frame[g]
           /\ contended' \subseteq Nodes /\ contended \subseteq contended'
           /\ \A g \in Threads \ {h} : frame[g] # Idle /\ frame[g].id = n => n \in contended'
           /\ UNCHANGED <<running, clock>>
  BY DEF TypeOK, Step

\* The frames the actions make, with what the invariants need of them.
LEMMA FrameOfRegister ==
    ASSUME TypeOK, NEW n \in Nodes, NEW v \in Values
    PROVE  [at |-> "audit", id |-> n, row |-> NewNode(v),
            kind |-> "node.registered", given |-> v] \in Busy /\ NewNode(v) \in Row
  BY DEF NewNode, Row, Busy, Kinds

LEMMA FrameOfHeartbeat ==
    ASSUME TypeOK, NEW n \in Known, NEW s \in Reported, NEW v \in Values \cup {NotGiven}
    PROVE  [at |-> "save", id |-> n, row |-> Beaten(nodes[n], s, v),
            kind |-> "node.heartbeat", given |-> v] \in Busy
  BY BeatenIsRow DEF Busy, Kinds, Known

LEMMA BusyFrames ==
    ASSUME TypeOK, NEW h \in Threads, frame[h] # Idle \/ frame[h].at # "idle"
    PROVE  /\ frame[h] \in Busy /\ frame[h] # Idle
           /\ frame[h].id \in Nodes /\ frame[h].row \in Row /\ frame[h].kind \in Kinds
           /\ frame[h].at \in {"save", "audit"}
           /\ [frame[h] EXCEPT !.at = "audit"] \in Busy
  BY DEF TypeOK, Idle, Busy

\* Every variable stays in its type.
LEMMA TypeStep ==
    ASSUME TypeOK, [Next]_vars
    PROVE  TypeOK'
  <1>1. ASSUME NEW h \in Threads, NEW n \in Nodes, NEW v \in Values, Register(h, n, v)
        PROVE  TypeOK'
    BY <1>1, FrameOfRegister, StepOfOne DEF Register, TypeOK
  <1>2. ASSUME NEW h \in Threads, NEW n \in Nodes, NEW s \in Reported,
               NEW v \in Values \cup {NotGiven}, ReadForHeartbeat(h, n, s, v)
        PROVE  TypeOK'
    <2>1. n \in Known
      BY <1>2 DEF ReadForHeartbeat
    <2> QED BY <1>2, <2>1, FrameOfHeartbeat, StepOfOne DEF ReadForHeartbeat, TypeOK
  <1>3. ASSUME NEW h \in Threads, SaveNode(h)
        PROVE  TypeOK'
    <2>1. frame[h] \in Busy /\ frame[h].id \in Nodes /\ frame[h].row \in Row
          /\ [frame[h] EXCEPT !.at = "audit"] \in Busy
      BY <1>3, BusyFrames DEF SaveNode
    <2>2. reader' \in Reading /\ unaudited' \subseteq Nodes
      BY <1>3, <2>1 DEF SaveNode, TypeOK, Reading
    <2> QED BY <1>3, <2>1, <2>2, StepOfOne DEF SaveNode, TypeOK
  <1>4. ASSUME NEW h \in Threads, AppendAudit(h)
        PROVE  TypeOK'
    <2>1. frame[h].id \in Nodes /\ frame[h].row \in Row /\ frame[h].kind \in Kinds
      BY <1>4, BusyFrames DEF AppendAudit
    <2>2. [kind |-> frame[h].kind, status |-> frame[h].row.status] \in Event
      BY <2>1 DEF Row, Event
    <2> QED BY <1>4, <2>1, <2>2, StepOfOne DEF AppendAudit, TypeOK
  <1>5. CASE Restart
    BY <1>5 DEF Restart, TypeOK, SavedBy
  <1>6. CASE Tick
    BY <1>6, NodesAssumption DEF Tick, TypeOK, Times, Row
  <1>7. ASSUME NEW asked \in Filters, ReadPage(asked)
        PROVE  TypeOK'
    <2>1. Page(asked, reader.offset) \subseteq Nodes /\ Listed(asked) \subseteq Nodes
      BY DEF Page, Listed
    <2>2. reader \in Reading /\ reader.offset + PageLimit \in Nat
      BY NodesAssumption DEF TypeOK, Reading
    <2>3. \A r \in Reading, at \in {"reading", "done"}, offset \in Nat, got \in SUBSET Nodes,
             before \in SUBSET Nodes :
             [r EXCEPT !.at = at, !.asked = asked, !.offset = offset, !.got = got,
                       !.before = before] \in Reading
      BY DEF Reading
    <2>4. reader' \in Reading
      <3> DEFINE at == IF Cardinality(Page(asked, reader.offset)) < PageLimit THEN "done" ELSE "reading"
                 got == reader.got \cup Page(asked, reader.offset)
                 before == IF reader.at = "idle" THEN Listed(asked) ELSE reader.before
      <3>1. reader' = [reader EXCEPT !.at = at, !.asked = asked, !.offset = reader.offset + PageLimit,
                                     !.got = got, !.before = before]
        BY <1>7 DEF ReadPage
      <3>2. at \in {"reading", "done"} /\ got \in SUBSET Nodes /\ before \in SUBSET Nodes
        BY <2>1, <2>2 DEF Reading
      <3> HIDE DEF at, got, before
      <3> QED BY <2>2, <2>3, <3>1, <3>2
    <2> QED BY <1>7, <2>4 DEF ReadPage, TypeOK
  <1>8. CASE UNCHANGED vars
    BY <1>8 DEF vars, TypeOK
  <1>9. ASSUME NEW h \in Threads, FailRequest(h)
        PROVE  TypeOK'
    <2>1. frame[h].id \in Nodes
      BY <1>9, BusyFrames DEF FailRequest
    <2> QED BY <1>9, <2>1, StepOfOne DEF FailRequest, TypeOK, SavedBy
  <1> QED BY <1>1, <1>2, <1>3, <1>4, <1>5, <1>6, <1>7, <1>8, <1>9 DEF Next

THEOREM TypeCorrect == Spec => []TypeOK
  <1>1. Init => TypeOK
    BY NodesAssumption DEF Init, TypeOK, Times, Reading, NotReading
  <1> QED BY <1>1, TypeStep, PTL DEF Spec


-----------------------------------------------------------------------------
(* The requests about one node.                                            *)

Serves(h, n) == frame[h] # Idle /\ frame[h].id = n

\* Requests are about nodes that exist; two about one node contend for it.
Accounted ==
    \A h \in Threads : frame[h] # Idle =>
        /\ frame[h].id \in Known
        /\ \A g \in Threads \ {h} : Serves(g, frame[h].id) => frame[h].id \in contended

\* No row is of a later time than now.
RowsArePast ==
    /\ \A n \in Known : nodes[n].seen <= clock
    /\ \A h \in Threads : frame[h] # Idle => frame[h].row.seen <= clock

\* What a heartbeat is about to save is newer than the row of its node, unless
\* another request has been about it.
Fresh ==
    \A h \in Threads : frame[h].at = "save" /\ frame[h].id \notin contended =>
        /\ frame[h].row.seen >= nodes[frame[h].id].seen
        /\ \/ frame[h].row.value = nodes[frame[h].id].value
           \/ frame[h].row.value = frame[h].given

\* What is about to be audited is what is saved, likewise.
Current ==
    \A h \in Threads : frame[h].at = "audit" /\ frame[h].id \notin contended =>
        nodes[frame[h].id] = frame[h].row

\* The last event is about the row, or the next one will be.
Described ==
    \A n \in Known \ (contended \cup unaudited) :
        \/ \E h \in Threads : frame[h].at = "audit" /\ frame[h].id = n
        \/ trail[n] # NoEvent /\ trail[n].status = nodes[n].status

IInv == TypeOK /\ Accounted /\ RowsArePast /\ Fresh /\ Current /\ Described

LEMMA StepOfRegister ==
    ASSUME IInv, NEW h \in Threads, NEW n \in Nodes, NEW v \in Values, Register(h, n, v)
    PROVE  IInv'
  <1> DEFINE next == [at |-> "audit", id |-> n, row |-> NewNode(v),
                      kind |-> "node.registered", given |-> v]
  <1>1. TypeOK /\ TypeOK'
    BY TypeStep DEF IInv, Next
  <1>2. next \in Busy /\ NewNode(v) \in Row /\ next.at = "audit" /\ next.id = n /\ next.row = NewNode(v)
    BY <1>1, FrameOfRegister
  <1>3. Step(h, n, next) /\ frame[h] = Idle /\ n \notin Known /\ UNCHANGED <<trail, unaudited>>
        /\ nodes' = [nodes EXCEPT ![n] = NewNode(v)]
    BY DEF Register
  <1>4. /\ frame'[h] = next /\ \A g \in Threads \ {h} : frame'[g] = frame[g]
        /\ contended \subseteq contended' /\ UNCHANGED clock
        /\ \A g \in Threads \ {h} : frame[g] # Idle => frame[g].id # n
    BY <1>1, <1>2, <1>3, StepOfOne DEF IInv, Accounted
  <1>5. Known' = Known \cup {n} /\ nodes'[n] = NewNode(v) /\ \A m \in Known : nodes'[m] = nodes[m]
    BY <1>1, <1>2, <1>3, RowsAreNotAbsent DEF Known, TypeOK
  <1>6. frame[h].at = "idle"
    BY <1>3 DEF Idle
  <1>7. Accounted'
    BY <1>2, <1>4, <1>5 DEF IInv, Accounted, Serves
  <1>8. RowsArePast'
    <2>1. NewNode(v).seen <= clock
      BY <1>1, NodesAssumption DEF NewNode, Never, TypeOK, Times
    <2> QED BY <2>1, <1>2, <1>4, <1>5 DEF IInv, RowsArePast
  <1>9. Fresh' /\ Current'
    <2> SUFFICES ASSUME NEW g \in Threads, frame'[g].id \notin contended'
                 PROVE  /\ frame'[g].at = "save" =>
                             /\ frame'[g].row.seen >= nodes'[frame'[g].id].seen
                             /\ \/ frame'[g].row.value = nodes'[frame'[g].id].value
                                \/ frame'[g].row.value = frame'[g].given
                        /\ frame'[g].at = "audit" => nodes'[frame'[g].id] = frame'[g].row
      BY DEF Fresh, Current
    <2>1. CASE g = h
      BY <2>1, <1>2, <1>4, <1>5
    <2>2. CASE g # h /\ frame[g].at # "idle"
      <3>1. frame[g].id \in Known /\ frame'[g] = frame[g]
        BY <2>2, <1>1, <1>4, BusyFrames DEF IInv, Accounted
      <3> QED BY <3>1, <1>4, <1>5 DEF IInv, Fresh, Current
    <2>3. CASE g # h /\ frame[g].at = "idle"
      BY <2>3, <1>4
    <2> QED BY <2>1, <2>2, <2>3
  <1>10. Described'
    BY <1>2, <1>3, <1>4, <1>5, <1>6 DEF IInv, Described
  <1> QED BY <1>1, <1>7, <1>8, <1>9, <1>10 DEF IInv

LEMMA StepOfRead ==
    ASSUME IInv, NEW h \in Threads, NEW n \in Nodes, NEW s \in Reported,
           NEW v \in Values \cup {NotGiven}, ReadForHeartbeat(h, n, s, v)
    PROVE  IInv'
  <1> DEFINE next == [at |-> "save", id |-> n, row |-> Beaten(nodes[n], s, v),
                      kind |-> "node.heartbeat", given |-> v]
  <1>1. TypeOK /\ TypeOK'
    BY TypeStep DEF IInv, Next
  <1>2. Step(h, n, next) /\ frame[h] = Idle /\ n \in Known
        /\ UNCHANGED <<nodes, trail, unaudited>>
    BY DEF ReadForHeartbeat
  <1>3. next \in Busy /\ next.at = "save" /\ next.id = n /\ next # Idle /\ next.given = v
        /\ next.row = Beaten(nodes[n], s, v)
    BY <1>1, <1>2, FrameOfHeartbeat DEF Idle
  <1>4. /\ frame'[h] = next /\ \A g \in Threads \ {h} : frame'[g] = frame[g]
        /\ contended \subseteq contended' /\ UNCHANGED clock /\ Known' = Known
        /\ \A g \in Threads \ {h} : frame[g] # Idle /\ frame[g].id = n => n \in contended'
    BY <1>1, <1>2, <1>3, StepOfOne DEF Known
  <1>5. /\ next.row.seen = clock /\ nodes[n].seen <= clock
        /\ next.row.value = nodes[n].value \/ next.row.value = next.given
        /\ clock \in Int
    BY <1>1, <1>2, <1>3, BeatenIsRow DEF IInv, RowsArePast, TypeOK, Times
  <1>6. frame[h].at = "idle"
    BY <1>2 DEF Idle
  <1>7. Accounted'
    BY <1>2, <1>3, <1>4 DEF IInv, Accounted, Serves
  <1>8. RowsArePast'
    BY <1>2, <1>3, <1>4, <1>5 DEF IInv, RowsArePast
  <1>9. Fresh' /\ Current'
    <2> HIDE DEF next
    <2>1. nodes[n].seen \in Int
      BY <1>1, <1>2, BeatenIsRow, NodesAssumption DEF Row, TypeOK, Known, Never, Times
    <2> QED BY <2>1, <1>2, <1>3, <1>4, <1>5 DEF IInv, Fresh, Current
  <1>10. Described'
    BY <1>2, <1>3, <1>4, <1>6 DEF IInv, Described
  <1> QED BY <1>1, <1>7, <1>8, <1>9, <1>10 DEF IInv

LEMMA StepOfSave ==
    ASSUME IInv, NEW h \in Threads, SaveNode(h)
    PROVE  IInv'
  <1> DEFINE n == frame[h].id
             next == [frame[h] EXCEPT !.at = "audit"]
  <1>1. TypeOK /\ TypeOK'
    BY TypeStep DEF IInv, Next
  <1>2. /\ frame[h].at = "save" /\ frame[h] \in Busy /\ frame[h] # Idle
        /\ n \in Nodes /\ frame[h].row \in Row /\ next \in Busy
    BY <1>1, BusyFrames DEF SaveNode
  <1>3. next.at = "audit" /\ next.id = n /\ next.row = frame[h].row
    BY <1>2 DEF Busy
  <1>4. n \in Known
    BY <1>2 DEF IInv, Accounted
  <1> HIDE DEF next
  <1>5. /\ Step(h, n, next) /\ UNCHANGED <<trail, unaudited>>
        /\ nodes' = [nodes EXCEPT ![n] = frame[h].row]
    BY DEF SaveNode, next
  <1>6. /\ frame'[h] = next /\ \A g \in Threads \ {h} : frame'[g] = frame[g]
        /\ contended \subseteq contended' /\ UNCHANGED clock
        /\ \A g \in Threads \ {h} : frame[g] # Idle /\ frame[g].id = n => n \in contended'
    BY <1>1, <1>2, <1>5, StepOfOne
  <1>7. Known' = Known /\ nodes'[n] = frame[h].row /\ \A m \in Known \ {n} : nodes'[m] = nodes[m]
    BY <1>1, <1>2, <1>4, <1>5, RowsAreNotAbsent DEF Known, TypeOK
  <1>8. Accounted'
    BY <1>2, <1>3, <1>4, <1>6, <1>7 DEF IInv, Accounted, Serves
  <1>9. RowsArePast'
    BY <1>2, <1>3, <1>6, <1>7 DEF IInv, RowsArePast
  <1>10. Fresh' /\ Current'
    <2> SUFFICES ASSUME NEW g \in Threads, frame'[g].id \notin contended'
                 PROVE  /\ frame'[g].at = "save" =>
                             /\ frame'[g].row.seen >= nodes'[frame'[g].id].seen
                             /\ \/ frame'[g].row.value = nodes'[frame'[g].id].value
                                \/ frame'[g].row.value = frame'[g].given
                        /\ frame'[g].at = "audit" => nodes'[frame'[g].id] = frame'[g].row
      BY DEF Fresh, Current
    <2>1. CASE g = h
      BY <2>1, <1>3, <1>6, <1>7
    <2>2. CASE g # h /\ frame[g].at # "idle"
      <3>1. frame[g].id \in Known \ {n} /\ frame'[g] = frame[g]
        BY <2>2, <1>1, <1>6, BusyFrames DEF IInv, Accounted
      <3> QED BY <3>1, <1>6, <1>7 DEF IInv, Fresh, Current
    <2>3. CASE g # h /\ frame[g].at = "idle"
      BY <2>3, <1>6
    <2> QED BY <2>1, <2>2, <2>3
  <1>11. Described'
    <2> SUFFICES ASSUME NEW m \in Known \ (contended' \cup unaudited)
                 PROVE  \/ \E g \in Threads : frame'[g].at = "audit" /\ frame'[g].id = m
                        \/ trail[m] # NoEvent /\ trail[m].status = nodes'[m].status
      BY <1>5, <1>6, <1>7 DEF Described
    <2>1. CASE m = n
      BY <2>1, <1>3, <1>6
    <2>2. CASE m # n
      BY <2>2, <1>2, <1>6, <1>7 DEF IInv, Described
    <2> QED BY <2>1, <2>2
  <1> QED BY <1>1, <1>8, <1>9, <1>10, <1>11 DEF IInv

LEMMA StepOfAudit ==
    ASSUME IInv, NEW h \in Threads, AppendAudit(h)
    PROVE  IInv'
  <1> DEFINE n == frame[h].id
             event == [kind |-> frame[h].kind, status |-> frame[h].row.status]
  <1>1. TypeOK /\ TypeOK'
    BY TypeStep DEF IInv, Next
  <1>2. /\ frame[h].at = "audit" /\ frame[h] # Idle /\ n \in Nodes /\ frame[h].kind \in Kinds
    BY <1>1, BusyFrames DEF AppendAudit
  <1>3. event # NoEvent /\ event.status = frame[h].row.status
    BY <1>2 DEF NoEvent, Kinds
  <1>4. /\ Step(h, n, Idle) /\ UNCHANGED nodes /\ unaudited' = unaudited \ {n}
        /\ trail' = [trail EXCEPT ![n] = event]
    BY DEF AppendAudit
  <1>5. /\ frame'[h] = Idle /\ \A g \in Threads \ {h} : frame'[g] = frame[g]
        /\ contended \subseteq contended' /\ UNCHANGED clock /\ Known' = Known
    BY <1>1, <1>2, <1>4, StepOfOne DEF Known
  <1>6. trail'[n] = event /\ \A m \in Known \ {n} : trail'[m] = trail[m]
    BY <1>1, <1>2, <1>4 DEF TypeOK, Known
  <1>7. Idle.at = "idle"
    BY DEF Idle
  <1>8. Accounted' /\ RowsArePast' /\ Fresh' /\ Current'
    BY <1>4, <1>5, <1>7 DEF IInv, Accounted, Serves, RowsArePast, Fresh, Current
  <1>9. Described'
    <2> SUFFICES ASSUME NEW m \in Known \ (contended' \cup unaudited')
                 PROVE  \/ \E g \in Threads : frame'[g].at = "audit" /\ frame'[g].id = m
                        \/ trail'[m] # NoEvent /\ trail'[m].status = nodes[m].status
      BY <1>4, <1>5 DEF Described
    <2>1. CASE m = n
      BY <2>1, <1>2, <1>3, <1>5, <1>6 DEF IInv, Current
    <2>2. CASE m # n
      BY <2>2, <1>4, <1>5, <1>6 DEF IInv, Described
    <2> QED BY <2>1, <2>2
  <1> QED BY <1>1, <1>8, <1>9 DEF IInv

LEMMA StepOfFail ==
    ASSUME IInv, NEW h \in Threads, FailRequest(h)
    PROVE  IInv'
  <1> DEFINE n == frame[h].id
  <1>1. TypeOK /\ TypeOK'
    BY TypeStep DEF IInv, Next
  <1>2. n \in Nodes
    BY <1>1, BusyFrames DEF FailRequest
  <1>3. /\ Step(h, n, Idle) /\ UNCHANGED <<nodes, trail>>
        /\ unaudited \subseteq unaudited' /\ (frame[h].at = "audit" => n \in unaudited')
    BY <1>2 DEF FailRequest, SavedBy
  <1>4. /\ frame'[h] = Idle /\ \A g \in Threads \ {h} : frame'[g] = frame[g]
        /\ contended \subseteq contended' /\ UNCHANGED clock /\ Known' = Known
    BY <1>1, <1>2, <1>3, StepOfOne DEF Known
  <1>5. Idle.at = "idle"
    BY DEF Idle
  <1>6. Accounted' /\ RowsArePast' /\ Fresh' /\ Current'
    BY <1>3, <1>4, <1>5 DEF IInv, Accounted, Serves, RowsArePast, Fresh, Current
  <1>7. Described'
    BY <1>3, <1>4 DEF IInv, Described
  <1> QED BY <1>1, <1>6, <1>7 DEF IInv

LEMMA Inductive == IInv /\ [Next]_vars => IInv'
  <1> SUFFICES ASSUME IInv, [Next]_vars PROVE IInv'
    OBVIOUS
  <1>1. TypeOK /\ TypeOK'
    BY TypeStep DEF IInv
  <1>2. CASE Restart
    <2>1. /\ \A h \in Threads : frame'[h] = Idle
          /\ UNCHANGED <<nodes, trail, clock, contended>> /\ Known' = Known
          /\ \A m \in Known \ unaudited' : /\ m \notin unaudited
                /\ \A h \in Threads : frame[h].at = "audit" /\ frame[h] # Idle => frame[h].id # m
      BY <1>2 DEF Restart, Known, SavedBy
    <2>2. Idle.at = "idle"
      BY DEF Idle
    <2>3. \A h \in Threads : frame[h].at = "audit" => frame[h] # Idle
      BY <2>2
    <2> QED BY <1>1, <2>1, <2>2, <2>3
        DEF IInv, Accounted, RowsArePast, Fresh, Current, Described, Serves
  <1>3. CASE Tick
    <2>1. /\ clock' = clock + 1 /\ UNCHANGED <<nodes, frame, trail, contended, unaudited>>
          /\ Known' = Known /\ clock \in Int
      BY <1>1, <1>3 DEF Tick, Known, TypeOK, Times
    <2>2. /\ \A n \in Known : nodes[n].seen \in Int
          /\ \A h \in Threads : frame[h] # Idle => frame[h].row.seen \in Int
      <3>1. \A r \in Row : r.seen \in Int
        BY NodesAssumption DEF Row, Never, Times
      <3>2. \A n \in Known : nodes[n] \in Row
        BY <1>1 DEF TypeOK, Known
      <3> QED BY <1>1, <3>1, <3>2, BusyFrames
    <2>3. RowsArePast'
      BY <2>1, <2>2 DEF IInv, RowsArePast
    <2> QED BY <1>1, <2>1, <2>3 DEF IInv, Accounted, Fresh, Current, Described, Serves
  <1>4. ASSUME NEW asked \in Filters, ReadPage(asked)
        PROVE  IInv'
    BY <1>1, <1>4 DEF ReadPage, Known, IInv, Accounted, RowsArePast, Fresh, Current, Described, Serves
  <1>5. CASE UNCHANGED vars
    BY <1>1, <1>5 DEF vars, Known, IInv, Accounted, RowsArePast, Fresh, Current, Described, Serves
  <1> QED BY <1>2, <1>3, <1>4, <1>5, StepOfRegister, StepOfRead, StepOfSave, StepOfAudit,
         StepOfFail DEF Next

LEMMA Invariant == Spec => []IInv
  <1>1. Init => TypeOK
    BY NodesAssumption DEF Init, TypeOK, Times, Reading, NotReading
  <1>2. Init => IInv
    BY <1>1 DEF Init, IInv, Accounted, RowsArePast, Fresh, Current, Described, Serves, Idle, Known
  <1> QED BY <1>2, Inductive, PTL DEF Spec

\* The audit trail ends with what a node is, for any threads and nodes.
THEOREM AuditedAsSaved == Spec => []AuditReflectsNode
  <1>1. IInv => AuditReflectsNode
    <2> SUFFICES ASSUME IInv, NEW n \in Known \ (contended \cup unaudited), Quiet(n)
                 PROVE  trail[n] # NoEvent /\ trail[n].status = nodes[n].status
      BY DEF AuditReflectsNode
    <2>1. \A h \in Threads : ~(frame[h].at = "audit" /\ frame[h].id = n)
      BY DEF Quiet, Idle
    <2> QED BY <2>1 DEF IInv, Described
  <1> QED BY <1>1, Invariant, PTL

\* Heartbeats of a node that come one after the other lose nothing, whatever
\* other requests the server serves meanwhile and however often it restarts.
THEOREM KeepsHeartbeats == Spec => HeartbeatsAreKept
  <1> DEFINE Kept == \A n \in Known \ contended' :
          /\ nodes'[n].seen >= nodes[n].seen
          /\ nodes'[n].value # nodes[n].value =>
                \E h \in Threads : frame[h] # Idle /\ frame[h].id = n
                                      /\ frame[h].given = nodes'[n].value
  <1>1. IInv /\ [Next]_vars => Kept
    <2> SUFFICES ASSUME IInv, [Next]_vars, NEW n \in Known \ contended'
                 PROVE  /\ nodes'[n].seen >= nodes[n].seen
                        /\ nodes'[n].value # nodes[n].value =>
                             \E h \in Threads : frame[h] # Idle /\ frame[h].id = n
                                                   /\ frame[h].given = nodes'[n].value
      OBVIOUS
    <2>1. TypeOK /\ n \in Nodes /\ nodes[n].seen \in Int
      BY NodesAssumption DEF IInv, TypeOK, Known, Row, Never, Times
    <2>2. CASE nodes'[n] = nodes[n]
      BY <2>1, <2>2
    <2>3. CASE \E h \in Threads : SaveNode(h)
      <3>1. PICK h \in Threads : SaveNode(h)
        BY <2>3
      <3>2. /\ frame[h] # Idle /\ frame[h].id \in Nodes /\ frame[h].at = "save"
            /\ Step(h, frame[h].id, [frame[h] EXCEPT !.at = "audit"])
            /\ [frame[h] EXCEPT !.at = "audit"] \in Busy
            /\ nodes' = [nodes EXCEPT ![frame[h].id] = frame[h].row]
        BY <2>1, <3>1, BusyFrames DEF SaveNode
      <3>3. contended \subseteq contended'
        BY <3>2, <2>1, StepOfOne
      <3>4. CASE frame[h].id = n
        BY <3>2, <3>3, <3>4, <2>1 DEF IInv, Fresh, TypeOK
      <3>5. CASE frame[h].id # n
        BY <3>2, <3>5, <2>1, <2>2 DEF TypeOK
      <3> QED BY <3>4, <3>5
    <2>4. ASSUME ~\E h \in Threads : SaveNode(h)
          PROVE  nodes'[n] = nodes[n]
      BY <2>1, <2>4 DEF Next, vars, Register, ReadForHeartbeat, AppendAudit, FailRequest, Restart,
                        Tick, ReadPage, TypeOK
    <2> QED BY <2>2, <2>3, <2>4
  <1> QED BY <1>1, Invariant, PTL DEF Spec, HeartbeatsAreKept

\* At every time of every run, only who is entitled is let in.
THEOREM EntitledAlways == Spec => []AdmittedIsEntitled
  <1>1. TypeOK => AdmittedIsEntitled
    BY OnlyEntitledPass, NodesAssumption DEF TypeOK, Times, AdmittedIsEntitled, EntitledNow
  <1> QED BY <1>1, TypeCorrect, PTL

\* At every time of every run, tokens open the handlers of their roles.
THEOREM TokensAlways == Spec => []NamedTokensAdmit
  <1>1. TypeOK => NamedTokensAdmit
    BY TokensOpenTheirRoutes, NodesAssumption DEF TypeOK, Times, NamedTokensAdmit, NamedTokensNow
  <1> QED BY <1>1, TypeCorrect, PTL


-----------------------------------------------------------------------------
(* The pages of the list.  The place of a node in a set of nodes is the    *)
(* number of those before it; these are facts about any finite set.        *)

Place(K, n) == Cardinality({m \in K : m < n})

LEMMA LeastExists ==
    ASSUME NEW T \in SUBSET Nat, T # {}
    PROVE  \E x \in T : \A y \in T : x <= y
  <1> DEFINE Less == {ss \in Nat \X Nat : ss[1] < ss[2]}
  <1>1. IsWellFoundedOn(Less, Nat)
    BY NatLessThanWellFounded DEF OpToRel
  <1>2. \A x, y \in Nat : <<y, x>> \in Less <=> y < x
    OBVIOUS
  <1> HIDE DEF Less
  <1>3. PICK x \in T : \A y \in T : ~ (<<y, x>> \in Less)
    BY <1>1, WFMin
  <1>4. ASSUME NEW y \in T PROVE x <= y
    <2>1. x \in Nat /\ y \in Nat
      OBVIOUS
    <2>2. ~(y < x)
      BY <1>2, <1>3, <2>1, Zenon
    <2> QED BY <2>1, <2>2
  <1> QED BY <1>4

\* Places are numbers, and grow with the nodes.
LEMMA PlacesGrow ==
    ASSUME NEW K \in SUBSET Nat, IsFiniteSet(K)
    PROVE  /\ \A n \in K : Place(K, n) \in Nat /\ IsFiniteSet({m \in K : m < n})
           /\ \A m, n \in K : m < n => Place(K, m) + 1 <= Place(K, n)
  <1>1. ASSUME NEW n \in K PROVE Place(K, n) \in Nat /\ IsFiniteSet({m \in K : m < n})
    <2>1. IsFiniteSet({m \in K : m < n})
      BY FS_Subset
    <2> QED BY <2>1, FS_CardinalityType DEF Place
  <1>2. ASSUME NEW m \in K, NEW n \in K, m < n PROVE Place(K, m) + 1 <= Place(K, n)
    <2> DEFINE M == {k \in K : k < m}
               N == {k \in K : k < n}
    <2>1. IsFiniteSet(M) /\ IsFiniteSet(N) /\ m \notin M
      BY <1>1
    <2>2. (M \cup {m}) \in SUBSET N
      <3> SUFFICES ASSUME NEW k \in M \cup {m} PROVE k \in K /\ k < n
        OBVIOUS
      <3>1. k \in Nat /\ m \in Nat /\ n \in Nat /\ k \in K /\ k <= m
        OBVIOUS
      <3> QED BY <1>2, <3>1
    <2>3. Cardinality(M \cup {m}) = Cardinality(M) + 1
      BY <2>1, FS_AddElement, Zenon
    <2>4. Cardinality(M \cup {m}) <= Cardinality(N)
      BY <2>1, <2>2, FS_Subset, Zenon
    <2> QED BY <2>3, <2>4 DEF Place
  <1> QED BY <1>1, <1>2

\* No more nodes than that have a place before the j-th.
LEMMA FewBefore ==
    ASSUME NEW K \in SUBSET Nat, IsFiniteSet(K), NEW j \in Nat
    PROVE  /\ IsFiniteSet({m \in K : Place(K, m) < j})
           /\ Cardinality({m \in K : Place(K, m) < j}) <= j
  <1> DEFINE A == {m \in K : Place(K, m) < j}
             T == {j - Place(K, m) : m \in A}
  <1>1. IsFiniteSet(A)
    BY FS_Subset
  <1>2. CASE A = {}
    BY <1>1, <1>2, FS_EmptySet
  <1>3. CASE A # {}
    <2>1. T \in SUBSET Nat /\ T # {}
      <3>1. ASSUME NEW m \in A PROVE j - Place(K, m) \in Nat
        <4>1. Place(K, m) \in Nat /\ Place(K, m) < j
          BY PlacesGrow
        <4> QED BY <4>1
      <3> HIDE DEF A
      <3> QED BY <1>3, <3>1
    <2>2. PICK a \in A : \A m \in A : j - Place(K, a) <= j - Place(K, m)
      <3> HIDE DEF T
      <3>1. PICK x \in T : \A y \in T : x <= y
        BY <2>1, LeastExists, Zenon
      <3> QED BY <3>1 DEF T
    <2>3. \A m \in A : m <= a
      <3> SUFFICES ASSUME NEW m \in A, ~(m <= a) PROVE FALSE
        OBVIOUS
      <3>1. a \in K /\ m \in K /\ a < m
        OBVIOUS
      <3>2. Place(K, a) + 1 <= Place(K, m) /\ Place(K, a) \in Nat /\ Place(K, m) \in Nat
        BY <3>1, PlacesGrow, Zenon
      <3> QED BY <2>2, <3>2
    <2> DEFINE N == {k \in K : k < a}
    <2>4. IsFiniteSet(N) /\ a \notin N /\ Cardinality(N) = Place(K, a)
      BY PlacesGrow DEF Place
    <2>5. IsFiniteSet(N \cup {a}) /\ Cardinality(N \cup {a}) = Place(K, a) + 1
      BY <2>4, FS_AddElement, Zenon
    <2>6. A \in SUBSET (N \cup {a})
      <3> SUFFICES ASSUME NEW m \in A, m # a PROVE m \in K /\ m < a
        OBVIOUS
      <3>1. m \in K /\ m \in Nat /\ a \in Nat /\ m <= a
        BY <2>3
      <3> QED BY <3>1
    <2>7. Cardinality(A) <= Place(K, a) + 1
      BY <2>5, <2>6, FS_Subset, Zenon
    <2>8. Place(K, a) < j /\ Place(K, a) \in Nat
      BY PlacesGrow
    <2>9. Cardinality(A) \in Nat
      BY <1>1, FS_CardinalityType
    <2>10. Cardinality(A) <= j
      <3> HIDE DEF A
      <3> QED BY <2>7, <2>8, <2>9
    <2> QED BY <1>1, <2>10
  <1> QED BY <1>2, <1>3

\* A page is full where nodes remain behind it.
LEMMA FullPage ==
    ASSUME NEW K \in SUBSET Nat, IsFiniteSet(K), NEW j \in Nat, NEW L \in Nat,
           NEW n \in K, Place(K, n) >= j + L
    PROVE  Cardinality({m \in K : j <= Place(K, m) /\ Place(K, m) < j + L}) >= L
  <1> DEFINE P == {m \in K : j <= Place(K, m) /\ Place(K, m) < j + L}
             A == {m \in K : Place(K, m) < j}
             T == {m \in K : Place(K, m) >= j + L}
  <1>1. PICK b \in T : \A m \in T : b <= m
    <2>1. T \in SUBSET Nat /\ T # {}
      OBVIOUS
    <2> HIDE DEF T
    <2> QED BY <2>1, LeastExists, Zenon
  <1> DEFINE B == {m \in K : m < b}
  <1>2. IsFiniteSet(B) /\ Cardinality(B) = Place(K, b) /\ Cardinality(B) \in Nat
    BY PlacesGrow DEF Place
  <1>3. Cardinality(B) >= j + L
    BY <1>2
  <1>4. (B \ A) \in SUBSET P
    <2> SUFFICES ASSUME NEW m \in B, m \notin A PROVE m \in P
      OBVIOUS
    <2>1. m \in K /\ m < b /\ m \in Nat /\ b \in Nat /\ Place(K, m) \in Nat
      BY PlacesGrow
    <2>2. ~(Place(K, m) >= j + L)
      BY <1>1, <2>1
    <2> QED BY <2>1, <2>2
  <1>5. IsFiniteSet(A) /\ Cardinality(A) <= j /\ Cardinality(A) \in Nat
    <2>1. IsFiniteSet(A) /\ Cardinality(A) <= j
      BY FewBefore
    <2> QED BY <2>1, FS_CardinalityType
  <1>6. IsFiniteSet(P)
    BY FS_Subset
  <1> HIDE DEF A, B, P, T
  <1>7. /\ Cardinality(B \cap A) <= Cardinality(A)
        /\ Cardinality(B \cap A) \in Nat
    <2>1. (B \cap A) \in SUBSET A
      OBVIOUS
    <2>2. IsFiniteSet(B \cap A) /\ Cardinality(B \cap A) <= Cardinality(A)
      BY <1>5, <2>1, FS_Subset, Zenon
    <2> QED BY <2>2, FS_CardinalityType, Zenon
  <1>8. Cardinality(B \ A) = Cardinality(B) - Cardinality(B \cap A)
    BY <1>2, FS_Difference, Zenon
  <1>9. Cardinality(B \ A) <= Cardinality(P) /\ Cardinality(P) \in Nat
    BY <1>4, <1>6, FS_Subset, FS_CardinalityType, Zenon
  <1>10. Cardinality(P) >= L
    BY <1>2, <1>3, <1>5, <1>7, <1>8, <1>9
  <1> QED BY <1>10 DEF P

\* The place of n gets no lower as long as those before it stay.
LEMMA PlacesStay ==
    ASSUME NEW K \in SUBSET Nat, NEW J \in SUBSET Nat, IsFiniteSet(K), NEW n,
           \A m \in J : m < n => m \in K
    PROVE  Place(J, n) <= Place(K, n)
  <1>1. IsFiniteSet({m \in K : m < n}) /\ {m \in J : m < n} \in SUBSET {m \in K : m < n}
    BY FS_Subset
  <1> QED BY <1>1, FS_Subset, Zenon DEF Place

-----------------------------------------------------------------------------
(* The reader of the pages.                                                *)

\* Nobody at n or before it has left the list that is being read.
Undisturbed(n) == \A m \in reader.left : ~(m <= n)

\* Who was in the list before is in it still, and has been seen if it would be
\* on an earlier page, unless it or one before it has left the list.
SeenBefore ==
    /\ reader.at = "idle" => reader.offset = 0 /\ reader.left = {}
    /\ reader.asked = AnyStatus => reader.left = {}
    /\ reader.at = "reading" => \A n \in reader.before : Undisturbed(n) =>
           /\ n \in Listed(reader.asked)
           /\ Place(Listed(reader.asked), n) < reader.offset => n \in reader.got

PagesInv == TypeOK /\ SeenBefore /\ PagesMissNobody

LEMMA ListsFinite == \A asked : Listed(asked) \in SUBSET Nat /\ IsFiniteSet(Listed(asked))
  BY NodesAssumption, FS_Subset DEF Listed

LEMMA InitPages == ASSUME Init PROVE PagesInv
  <1>1. TypeOK
    BY NodesAssumption DEF Init, TypeOK, Times, Reading, NotReading
  <1>2. reader = NotReading
    BY DEF Init
  <1> QED BY <1>1, <1>2 DEF PagesInv, SeenBefore, PagesMissNobody, NotReading

\* One page read.
LEMMA ReadPageSeen ==
    ASSUME PagesInv, NEW asked \in Filters, ReadPage(asked)
    PROVE  SeenBefore' /\ PagesMissNobody'
  <1> DEFINE page == Page(asked, reader.offset)
             list == Listed(asked)
             L == PageLimit
  <1>1. /\ reader.at \in {"idle", "reading"} /\ reader.offset \in Nat
        /\ L \in Nat \ {0}
    BY NodesAssumption DEF PagesInv, TypeOK, Reading, ReadPage
  <1>2. /\ reader'.at = IF Cardinality(page) < L THEN "done" ELSE "reading"
        /\ reader'.asked = asked
        /\ reader'.offset = reader.offset + L
        /\ reader'.got = reader.got \cup page
        /\ reader'.before = IF reader.at = "idle" THEN list ELSE reader.before
        /\ reader'.left = reader.left
    BY DEF ReadPage, PagesInv, TypeOK, Reading
  <1>3. UNCHANGED nodes /\ (reader.at = "reading" => asked = reader.asked)
    BY DEF ReadPage
  <1>4. /\ reader.at = "idle" => reader.offset = 0 /\ reader.left = {}
        /\ reader.asked = AnyStatus => reader.left = {}
    BY DEF PagesInv, SeenBefore
  <1>5. page = {n \in list : reader.offset <= Place(list, n) /\ Place(list, n) < reader.offset + L}
    BY DEF Page, Place
  <1>6. list \in SUBSET Nat /\ IsFiniteSet(list) /\ \A n \in list : Place(list, n) \in Nat
    BY ListsFinite, PlacesGrow
  <1>7. Listed(asked)' = list
    BY <1>3 DEF Listed
  <1>8. ASSUME NEW n \in reader'.before, Undisturbed(n)
        PROVE  /\ n \in list
               /\ Place(list, n) < reader.offset + L => n \in reader.got \cup page
    <2>1. n \in list /\ (Place(list, n) < reader.offset => n \in reader.got)
      <3>1. CASE reader.at = "idle"
        BY <1>1, <1>2, <1>4, <1>6, <3>1
      <3>2. CASE reader.at = "reading"
        BY <1>2, <1>3, <1>8, <3>2 DEF PagesInv, SeenBefore
      <3> QED BY <1>1, <3>1, <3>2
    <2>2. CASE Place(list, n) < reader.offset
      BY <2>1, <2>2
    <2>3. CASE ~(Place(list, n) < reader.offset)
      <3> HIDE DEF page, list
      <3>1. reader.offset <= Place(list, n)
        BY <1>1, <1>6, <2>1, <2>3
      <3>2. Place(list, n) < reader.offset + L => n \in page
        BY <1>5, <2>1, <3>1
      <3> QED BY <2>1, <3>2
    <2> QED BY <2>1, <2>2, <2>3
  <1>9. ASSUME Cardinality(page) < L, NEW n \in list
        PROVE  Place(list, n) < reader.offset + L
    <2> HIDE DEF page, list
    <2> SUFFICES ASSUME Place(list, n) >= reader.offset + L PROVE FALSE
      BY <1>1, <1>6
    <2>1. Cardinality(page) >= L
      BY <1>1, <1>5, <1>6, FullPage
    <2>2. Cardinality(page) \in Nat
      <3>1. page \in SUBSET list
        BY <1>5
      <3> QED BY <3>1, <1>6, FS_Subset, FS_CardinalityType, Zenon
    <2> QED BY <1>1, <1>9, <2>1, <2>2
  <1> HIDE DEF page, list, L
  <1>10. \A n : Undisturbed(n)' <=> Undisturbed(n)
    BY <1>2 DEF Undisturbed
  <1>11. SeenBefore'
    <2>1. /\ reader'.at = "idle" => reader'.offset = 0 /\ reader'.left = {}
          /\ reader'.asked = AnyStatus => reader'.left = {}
      BY <1>1, <1>2, <1>3, <1>4
    <2>2. ASSUME NEW n \in reader'.before, Undisturbed(n)'
          PROVE  /\ n \in list
                 /\ Place(list, n) < reader'.offset => n \in reader'.got
      BY <1>2, <1>8, <1>10, <2>2
    <2>3. Place(Listed(reader.asked), 0)' = Place(list, 0) /\ Listed(reader.asked)' = list
      BY <1>2, <1>7, <1>3 DEF Listed, Place
    <2>4. \A n : Place(Listed(reader.asked)', n) = Place(list, n)
      BY <2>3
    <2> QED BY <2>1, <2>2, <2>3, <2>4 DEF SeenBefore, Place
  <1>12. PagesMissNobody'
    <2> SUFFICES ASSUME reader'.at = "done", NEW n \in reader'.before \ reader'.got
                 PROVE  reader'.asked # AnyStatus /\ \E m \in reader'.left : m <= n
      BY DEF PagesMissNobody
    <2>1. Cardinality(page) < L
      BY <1>2
    <2>2. ~Undisturbed(n)
      BY <1>2, <1>8, <1>9, <2>1
    <2>3. PICK m \in reader.left : m <= n
      BY <2>2 DEF Undisturbed
    <2>4. reader.at = "reading" /\ asked = reader.asked /\ asked # AnyStatus
      BY <1>1, <1>3, <1>4, <2>3
    <2> QED BY <1>2, <2>3, <2>4
  <1> QED BY <1>11, <1>12

\* A row saved over another: whoever leaves the list is written down.
LEMMA SaveNodeLeaves ==
    ASSUME TypeOK, NEW h \in Threads, SaveNode(h), reader.at = "reading"
    PROVE  /\ reader' = [reader EXCEPT !.left = reader'.left]
           /\ reader.left \subseteq reader'.left
           /\ reader.asked = AnyStatus => reader'.left = reader.left
           /\ \A n \in Listed(reader.asked) :
                 n \in Listed(reader.asked)' \/ n \in reader'.left
  <1>1. /\ frame[h].id \in Nodes /\ frame[h].row \in Row /\ frame[h].row # Absent
        /\ nodes' = [nodes EXCEPT ![frame[h].id] = frame[h].row]
    BY BusyFrames, RowsAreNotAbsent DEF SaveNode
  <1> DEFINE leaving == {n \in {frame[h].id} : /\ Matches(reader.asked, nodes[n])
                                               /\ ~Matches(reader.asked, frame[h].row)}
  <1>2. reader' = [reader EXCEPT !.left = reader.left \cup leaving]
    BY DEF SaveNode
  <1>3. reader'.left = reader.left \cup leaving /\ reader'.asked = reader.asked
    BY <1>2 DEF TypeOK, Reading
  <1>4. reader.asked = AnyStatus => leaving = {}
    BY <1>1 DEF Matches
  <1>5. ASSUME NEW n \in Listed(reader.asked), n \notin leaving
        PROVE  n \in Listed(reader.asked)'
    <2>1. n \in Nodes /\ Matches(reader.asked, nodes[n])
      BY DEF Listed
    <2>2. Matches(reader.asked, nodes'[n])
      BY <1>1, <1>5, <2>1 DEF TypeOK
    <2> QED BY <1>3, <2>1, <2>2 DEF Listed, Matches
  <1> HIDE DEF leaving
  <1> QED BY <1>2, <1>3, <1>4, <1>5

\* Every other step: nobody leaves a list.
LEMMA ListsGrow ==
    ASSUME TypeOK, [Next]_vars, ~\E h \in Threads : SaveNode(h),
           ~\E asked \in Filters : ReadPage(asked)
    PROVE  UNCHANGED reader /\ \A asked : Listed(asked) \subseteq Listed(asked)'
  <1>1. UNCHANGED reader
    BY DEF Next, vars, Register, ReadForHeartbeat, AppendAudit, FailRequest, Restart, Tick
  <1>2. ASSUME NEW h \in Threads, NEW n \in Nodes, NEW v \in Values, Register(h, n, v), NEW asked
        PROVE  Listed(asked) \subseteq Listed(asked)'
    <2>1. \A m \in Listed(asked) : m \in Nodes /\ m # n
      BY <1>2 DEF Register, Listed, Matches, Known
    <2>2. \A m \in Nodes \ {n} : nodes'[m] = nodes[m]
      BY <1>2 DEF Register, TypeOK
    <2> QED BY <2>1, <2>2 DEF Listed
  <1>3. ASSUME UNCHANGED nodes, NEW asked
        PROVE  Listed(asked) \subseteq Listed(asked)'
    BY <1>3 DEF Listed, Matches
  <1>4. UNCHANGED nodes \/ \E h \in Threads, n \in Nodes, v \in Values : Register(h, n, v)
    BY DEF Next, vars, ReadForHeartbeat, AppendAudit, FailRequest, Restart, Tick
  <1> QED BY <1>1, <1>2, <1>3, <1>4

LEMMA StepPages == ASSUME PagesInv, [Next]_vars PROVE PagesInv'
  <1>1. TypeOK /\ TypeOK' /\ reader \in Reading
    BY TypeStep DEF PagesInv, TypeOK
  <1>2. ASSUME NEW asked \in Filters, ReadPage(asked) PROVE PagesInv'
    BY <1>1, <1>2, ReadPageSeen DEF PagesInv
  <1> DEFINE K == Listed(reader.asked)
             J == Listed(reader.asked)'
  <1>3. ASSUME /\ reader' = [reader EXCEPT !.left = reader'.left]
               /\ reader.left \subseteq reader'.left
               /\ reader.asked = AnyStatus => reader'.left = reader.left
               /\ reader.at # "reading" => reader' = reader
               /\ reader.at = "reading" => \A m \in K : m \in J \/ m \in reader'.left
        PROVE  PagesInv'
    <2>1. /\ reader'.at = reader.at /\ reader'.offset = reader.offset /\ reader'.asked = reader.asked
          /\ reader'.got = reader.got /\ reader'.before = reader.before
      BY <1>1, <1>3 DEF Reading
    <2>2. /\ reader'.at = "idle" => reader'.offset = 0 /\ reader'.left = {}
          /\ reader'.asked = AnyStatus => reader'.left = {}
      BY <1>3, <2>1 DEF PagesInv, SeenBefore
    <2>3. PagesMissNobody'
      <3>1. CASE reader.at = "done"
        BY <1>3, <3>1 DEF PagesInv, PagesMissNobody
      <3>2. CASE reader.at # "done"
        BY <2>1, <3>2 DEF PagesMissNobody
      <3> QED BY <3>1, <3>2
    <2>4. ASSUME reader.at = "reading", NEW n \in reader.before, Undisturbed(n)'
          PROVE  /\ n \in J
                 /\ Place(J, n) < reader.offset => n \in reader.got
      <3>1. Undisturbed(n) /\ \A m \in reader'.left : ~(m <= n)
        BY <1>3, <2>4 DEF Undisturbed
      <3>2. n \in K /\ (Place(K, n) < reader.offset => n \in reader.got)
        BY <2>4, <3>1 DEF PagesInv, SeenBefore
      <3>3. K \in SUBSET Nat /\ IsFiniteSet(K) /\ J \in SUBSET Nat /\ IsFiniteSet(J)
        BY ListsFinite, NodesAssumption, FS_Subset DEF Listed
      <3>4. \A m \in K : m <= n => m \in J
        BY <1>3, <2>4, <3>1
      <3> HIDE DEF K, J
      <3>5. n \in J
        BY <3>2, <3>3, <3>4
      <3>6. \A m \in K : m < n => m \in J
        BY <3>2, <3>3, <3>4
      <3>7. Place(K, n) <= Place(J, n)
        BY <3>3, <3>6, PlacesStay
      <3>8. Place(K, n) \in Nat /\ Place(J, n) \in Nat
        BY <3>2, <3>3, <3>5, PlacesGrow
      <3>9. reader.offset \in Nat
        BY <1>1 DEF Reading
      <3> QED BY <3>2, <3>5, <3>7, <3>8, <3>9
    <2>5. Listed(reader.asked)' = J /\ \A n : Place(Listed(reader.asked)', n) = Place(J, n)
      OBVIOUS
    <2> HIDE DEF J, K
    <2>6. SeenBefore'
      BY <2>1, <2>2, <2>4, <2>5 DEF SeenBefore, Place
    <2> QED BY <1>1, <2>3, <2>6 DEF PagesInv
  <1>4. ASSUME NEW h \in Threads, SaveNode(h) PROVE PagesInv'
    <2>1. CASE reader.at = "reading"
      BY <1>1, <1>3, <1>4, <2>1, SaveNodeLeaves
    <2>2. CASE reader.at # "reading"
      <3>1. reader' = reader
        BY <1>1, <1>4, <2>2 DEF SaveNode, Reading
      <3> QED BY <1>1, <1>3, <2>2, <3>1 DEF Reading
    <2> QED BY <2>1, <2>2
  <1>5. ASSUME ~\E h \in Threads : SaveNode(h), ~\E asked \in Filters : ReadPage(asked)
        PROVE  PagesInv'
    <2>1. reader' = reader /\ \A m \in Listed(reader.asked) : m \in Listed(reader.asked)'
      BY <1>1, <1>5, ListsGrow DEF Listed
    <2>2. reader' = [reader EXCEPT !.left = reader'.left]
      BY <1>1, <2>1 DEF Reading
    <2> QED BY <1>3, <2>1, <2>2
  <1> QED BY <1>2, <1>4, <1>5

\* A client that reads page after page of a list misses none that was in it
\* when it began, unless that one or one before it has left the list of one
\* status meanwhile: for any number of nodes, any filters and any limit.
THEOREM PagesAreComplete == Spec => []PagesMissNobody
  <1>1. PagesInv => PagesMissNobody
    BY DEF PagesInv
  <1> QED BY <1>1, InitPages, StepPages, PTL DEF Spec
=============================================================================
