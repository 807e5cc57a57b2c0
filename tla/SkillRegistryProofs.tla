------------------------- MODULE SkillRegistryProofs -------------------------
(***************************************************************************)
(* Theorems about SkillRegistry, for any skills and threads.               *)
(***************************************************************************)
EXTENDS SkillRegistry, TLAPS

-----------------------------------------------------------------------------
(* Whatever overlaps: the types, and the decisions on record.              *)

OnRecord(ap, s, d) == \E i \in 1 .. Len(ap[s]) : ap[s][i] = d

\* Behind the skill there is an approval, or one that is being recorded.
Vouched(ap, fr, s) ==
    \/ OnRecord(ap, s, "approved")
    \/ \E h \in Threads : /\ fr[h].at \in {"version", "decision"}
                          /\ fr[h].id = s /\ fr[h].to = "approved"

\* What is about to be recorded is a decision; one about to be audited is on
\* record.
DecisionsRecorded ==
    /\ \A h \in Threads : frame[h].at = "decision" => frame[h].to \in Decision
    /\ \A h \in Threads : frame[h].at = "audit" /\ frame[h].to \in Decision
                              => OnRecord(approvals, frame[h].id, frame[h].to)

\* An approved skill has its approval as well as a deployed one, and as one
\* whose deployment is under way.
ApprovalBehind ==
    ~halfDone => \A s \in Skills :
        \/ skills[s] \in {"approved", "deployed"}
        \/ \E h \in Threads : /\ frame[h].at = "skill"
                              /\ frame[h].id = s /\ frame[h].to = "deployed"
        => Vouched(approvals, frame, s)

IInv == TypeOK /\ DecisionsRecorded /\ ApprovalBehind

\* The frame a step leaves with its thread, and those of the others.
LEMMA FrameStep ==
    ASSUME TypeOK, NEW h \in Threads, NEW f \in {Idle} \cup Busy, Step(h, f)
    PROVE  /\ frame' \in [Threads -> {Idle} \cup Busy] /\ overlapped' \in BOOLEAN
           /\ \A g \in Threads : frame'[g] = IF g = h THEN f ELSE frame[g]
  BY DEF Step, TypeOK

\* A busy thread holds a skill and the status it will have.
LEMMA BusyShape ==
    ASSUME TypeOK, NEW h \in Threads, frame[h].at # "idle"
    PROVE  frame[h] \in Busy /\ frame[h] # Idle /\ frame[h].id \in Skills
           /\ frame[h].to \in Status
  BY DEF TypeOK, Busy, Idle

\* A busy thread that goes on to another place keeps its skill and status.
LEMMA MovedShape ==
    ASSUME NEW f \in Busy, NEW a \in {"skill", "version", "decision", "audit"}
    PROVE  /\ [f EXCEPT !.at = a] \in Busy /\ [f EXCEPT !.at = a] # Idle
           /\ [f EXCEPT !.at = a].at = a
           /\ [f EXCEPT !.at = a].id = f.id /\ [f EXCEPT !.at = a].to = f.to
  BY DEF Busy, Idle

\* The frame of a request that has just begun.
LEMMA BegunShape ==
    ASSUME NEW s \in Skills, NEW to \in Status
    PROVE  [at |-> "skill", id |-> s, to |-> to] \in Busy
  BY DEF Busy

\* What is on record stays on record when a decision is added.
LEMMA RecordGrows ==
    ASSUME NEW ap \in [Skills -> Seq(Decision)], NEW t \in Skills, NEW d \in Decision
    PROVE  LET ap2 == [ap EXCEPT ![t] = Append(ap[t], d)]
           IN  /\ ap2 \in [Skills -> Seq(Decision)]
               /\ OnRecord(ap2, t, d)
               /\ \A s \in Skills, c \in Decision : OnRecord(ap, s, c) => OnRecord(ap2, s, c)
  <1> DEFINE ap2 == [ap EXCEPT ![t] = Append(ap[t], d)]
  <1>1. ap[t] \in Seq(Decision) /\ ap2[t] = Append(ap[t], d)
    OBVIOUS
  <1>2. ap2 \in [Skills -> Seq(Decision)]
    BY <1>1
  <1>3. /\ Len(ap2[t]) = Len(ap[t]) + 1 /\ Len(ap[t]) \in Nat
        /\ ap2[t][Len(ap[t]) + 1] = d
        /\ \A i \in 1 .. Len(ap[t]) : ap2[t][i] = ap[t][i]
    BY <1>1
  <1>4. OnRecord(ap2, t, d)
    BY <1>3 DEF OnRecord
  <1>5. ASSUME NEW s \in Skills, NEW c \in Decision, OnRecord(ap, s, c) PROVE OnRecord(ap2, s, c)
    <2>1. CASE s = t
      BY <1>3, <1>5, <2>1 DEF OnRecord
    <2>2. CASE s # t
      <3>1. ap2[s] = ap[s]
        BY <2>2
      <3> QED BY <1>5, <3>1 DEF OnRecord
    <2> QED BY <2>1, <2>2
  <1> QED BY <1>2, <1>4, <1>5

\* The invariant holds of an empty registry.
LEMMA InitIInv == ASSUME Init PROVE IInv
  <1>1. TypeOK
    <2>1. <<>> \in Seq(Decision)
      OBVIOUS
    <2>2. [s \in Skills |-> <<>>] \in [Skills -> Seq(Decision)]
      BY <2>1
    <2> QED BY <2>2 DEF Init, TypeOK
  <1>2. DecisionsRecorded
    BY DEF Init, DecisionsRecorded, Idle
  <1>3. ApprovalBehind
    BY DEF Init, ApprovalBehind, Idle, Absent
  <1> QED BY <1>1, <1>2, <1>3 DEF IInv

\* A request that begins keeps the invariant.
LEMMA BeginIInv ==
    ASSUME IInv, NEW h \in Threads, NEW s \in Skills, NEW to \in Status,
           frame[h] = Idle, Begin(h, s, to), to = "deployed" => skills[s] = "approved",
           issued' \in {issued, issued \cup {s}},
           UNCHANGED <<skills, versions, approvals, trail, halfDone>>
    PROVE  IInv'
  <1> DEFINE f == [at |-> "skill", id |-> s, to |-> to]
  <1>1. f \in Busy /\ f.at = "skill" /\ f.id = s /\ f.to = to
    BY BegunShape
  <1>2. Step(h, f)
    BY DEF Begin
  <1>3. /\ frame' \in [Threads -> {Idle} \cup Busy] /\ overlapped' \in BOOLEAN
        /\ \A g \in Threads : frame'[g] = IF g = h THEN f ELSE frame[g]
    BY <1>1, <1>2, FrameStep DEF IInv
  <1> HIDE DEF f
  <1>4. TypeOK'
    BY <1>3 DEF IInv, TypeOK
  <1>5. DecisionsRecorded'
    BY <1>1, <1>3 DEF IInv, DecisionsRecorded
  <1>6. \A t \in Skills : Vouched(approvals, frame, t) => Vouched(approvals, frame', t)
    BY <1>3 DEF Vouched, Idle
  <1>7. ApprovalBehind'
    BY <1>1, <1>3, <1>6 DEF IInv, ApprovalBehind
  <1> QED BY <1>4, <1>5, <1>7 DEF IInv

\* Every step keeps the invariant.
LEMMA StepIInv == ASSUME IInv, [Next]_vars PROVE IInv'
  <1>1. ASSUME NEW h \in Threads, NEW s \in Skills, Draft(h, s) PROVE IInv'
    BY <1>1, BeginIInv DEF Draft, Status
  <1>2. ASSUME NEW h \in Threads, NEW s \in Skills, RequestReview(h, s) PROVE IInv'
    BY <1>2, BeginIInv DEF RequestReview, Status
  <1>3. ASSUME NEW h \in Threads, NEW s \in Skills, NEW d \in Decision, Decide(h, s, d)
        PROVE  IInv'
    <2>1. d \in Status /\ d # "deployed"
      BY DEF Decision, Status
    <2> QED BY <1>3, <2>1, BeginIInv DEF Decide
  <1>4. ASSUME NEW h \in Threads, NEW s \in Skills, Deploy(h, s) PROVE IInv'
    BY <1>4, BeginIInv DEF Deploy, Status
  <1>5. ASSUME NEW h \in Threads, SetSkill(h) PROVE IInv'
    <2> DEFINE f == [frame[h] EXCEPT !.at = "version"]
    <2>1. frame[h] \in Busy /\ frame[h].id \in Skills /\ frame[h].to \in Status
      BY <1>5, BusyShape DEF SetSkill, IInv
    <2>2. f \in Busy /\ f.at = "version" /\ f.id = frame[h].id /\ f.to = frame[h].to
      BY <2>1, MovedShape
    <2>3. Step(h, f)
      BY <1>5 DEF SetSkill
    <2> HIDE DEF f
    <2>4. /\ frame' \in [Threads -> {Idle} \cup Busy] /\ overlapped' \in BOOLEAN
          /\ \A g \in Threads : frame'[g] = IF g = h THEN f ELSE frame[g]
      BY <2>2, <2>3, FrameStep DEF IInv
    <2>5. /\ skills' = [skills EXCEPT ![frame[h].id] = frame[h].to]
          /\ UNCHANGED <<versions, approvals, trail, issued, halfDone>>
          /\ frame[h].at = "skill"
      BY <1>5 DEF SetSkill
    <2>6. TypeOK'
      BY <2>1, <2>4, <2>5 DEF IInv, TypeOK
    <2>7. DecisionsRecorded'
      BY <2>2, <2>4, <2>5 DEF IInv, DecisionsRecorded
    <2>8. \A t \in Skills : Vouched(approvals, frame, t) => Vouched(approvals, frame', t)
      BY <2>4, <2>5 DEF Vouched
    <2>9. frame[h].to = "approved" => Vouched(approvals, frame', frame[h].id)
      BY <2>2, <2>4 DEF Vouched
    <2>10. ~halfDone /\ frame[h].to = "deployed" => Vouched(approvals, frame, frame[h].id)
      BY <2>1, <2>5 DEF IInv, ApprovalBehind
    <2>11. \A t \in Skills : skills'[t] = IF t = frame[h].id THEN frame[h].to ELSE skills[t]
      BY <2>1, <2>5 DEF IInv, TypeOK
    <2>12. ApprovalBehind'
      <3> SUFFICES ASSUME ~halfDone', NEW s \in Skills,
                          \/ skills'[s] \in {"approved", "deployed"}
                          \/ \E g \in Threads : /\ frame'[g].at = "skill"
                                                /\ frame'[g].id = s /\ frame'[g].to = "deployed"
                   PROVE  Vouched(approvals', frame', s)
        BY DEF ApprovalBehind
      <3>1. ~halfDone /\ approvals' = approvals
        BY <2>5
      <3>2. CASE \E g \in Threads : /\ frame'[g].at = "skill"
                                    /\ frame'[g].id = s /\ frame'[g].to = "deployed"
        <4>1. Vouched(approvals, frame, s)
          BY <2>2, <2>4, <3>1, <3>2 DEF IInv, ApprovalBehind
        <4> QED BY <2>8, <3>1, <4>1
      <3>3. CASE skills'[s] \in {"approved", "deployed"} /\ s = frame[h].id
        BY <2>8, <2>9, <2>10, <2>11, <3>1, <3>3
      <3>4. CASE skills'[s] \in {"approved", "deployed"} /\ s # frame[h].id
        <4>1. Vouched(approvals, frame, s)
          BY <2>11, <3>1, <3>4 DEF IInv, ApprovalBehind
        <4> QED BY <2>8, <3>1, <4>1
      <3> QED BY <3>2, <3>3, <3>4
    <2> QED BY <2>6, <2>7, <2>12 DEF IInv
  <1>6. ASSUME NEW h \in Threads, SetVersion(h) PROVE IInv'
    <2> DEFINE a == IF frame[h].to \in Decision THEN "decision" ELSE "audit"
               f == [frame[h] EXCEPT !.at = a]
    <2>1. frame[h] \in Busy /\ frame[h].id \in Skills /\ frame[h].to \in Status
      BY <1>6, BusyShape DEF SetVersion, IInv
    <2> HIDE DEF a
    <2>2. f \in Busy /\ f.at = a /\ f.id = frame[h].id /\ f.to = frame[h].to
      <3>1. a \in {"skill", "version", "decision", "audit"}
        BY DEF a
      <3> QED BY <2>1, <3>1, MovedShape
    <2>3. Step(h, f)
      BY <1>6 DEF SetVersion, a
    <2> HIDE DEF f
    <2>4. /\ frame' \in [Threads -> {Idle} \cup Busy] /\ overlapped' \in BOOLEAN
          /\ \A g \in Threads : frame'[g] = IF g = h THEN f ELSE frame[g]
      BY <2>2, <2>3, FrameStep DEF IInv
    <2>5. /\ versions' = [versions EXCEPT ![frame[h].id] = frame[h].to]
          /\ UNCHANGED <<skills, approvals, trail, issued, halfDone>>
          /\ frame[h].at = "version"
      BY <1>6 DEF SetVersion
    <2>6. TypeOK'
      BY <2>1, <2>4, <2>5 DEF IInv, TypeOK
    <2>7. DecisionsRecorded'
      BY <2>2, <2>4, <2>5 DEF IInv, DecisionsRecorded, a
    <2>8. \A t \in Skills : Vouched(approvals, frame, t) => Vouched(approvals, frame', t)
      BY <2>2, <2>4, <2>5 DEF Vouched, Decision, a
    <2>9. ApprovalBehind'
      BY <2>2, <2>4, <2>5, <2>8 DEF IInv, ApprovalBehind, a
    <2> QED BY <2>6, <2>7, <2>9 DEF IInv
  <1>7. ASSUME NEW h \in Threads, MissVersion(h) PROVE IInv'
    <2>1. Step(h, Idle) /\ halfDone' /\ UNCHANGED <<skills, versions, approvals, trail, issued>>
      BY <1>7 DEF MissVersion
    <2>2. /\ frame' \in [Threads -> {Idle} \cup Busy] /\ overlapped' \in BOOLEAN
          /\ \A g \in Threads : frame'[g] = IF g = h THEN Idle ELSE frame[g]
      BY <2>1, FrameStep DEF IInv
    <2>3. TypeOK'
      BY <2>1, <2>2, <1>7 DEF IInv, TypeOK, MissVersion
    <2>4. DecisionsRecorded'
      BY <2>1, <2>2 DEF IInv, DecisionsRecorded, Idle
    <2> QED BY <2>1, <2>3, <2>4 DEF IInv, ApprovalBehind
  <1>8. ASSUME NEW h \in Threads, RecordDecision(h) PROVE IInv'
    <2> DEFINE f == [frame[h] EXCEPT !.at = "audit"]
    <2>1. frame[h] \in Busy /\ frame[h].id \in Skills /\ frame[h].to \in Status
      BY <1>8, BusyShape DEF RecordDecision, IInv
    <2>2. f \in Busy /\ f.at = "audit" /\ f.id = frame[h].id /\ f.to = frame[h].to
      BY <2>1, MovedShape
    <2>3. Step(h, f)
      BY <1>8 DEF RecordDecision
    <2> HIDE DEF f
    <2>4. /\ frame' \in [Threads -> {Idle} \cup Busy] /\ overlapped' \in BOOLEAN
          /\ \A g \in Threads : frame'[g] = IF g = h THEN f ELSE frame[g]
      BY <2>2, <2>3, FrameStep DEF IInv
    <2>5. /\ approvals' = [approvals EXCEPT ![frame[h].id] = Append(@, frame[h].to)]
          /\ UNCHANGED <<skills, versions, trail, issued, halfDone>>
          /\ frame[h].at = "decision"
      BY <1>8 DEF RecordDecision
    <2>6. frame[h].to \in Decision
      BY <2>5 DEF IInv, DecisionsRecorded
    <2>7. /\ approvals' \in [Skills -> Seq(Decision)]
          /\ OnRecord(approvals', frame[h].id, frame[h].to)
          /\ \A s \in Skills, c \in Decision : OnRecord(approvals, s, c) => OnRecord(approvals', s, c)
      <3>1. approvals' = [approvals EXCEPT ![frame[h].id] =
                                Append(approvals[frame[h].id], frame[h].to)]
        BY <2>5
      <3>2. approvals \in [Skills -> Seq(Decision)]
        BY DEF IInv, TypeOK
      <3> DEFINE id == frame[h].id
                 to == frame[h].to
                 ap2 == [approvals EXCEPT ![id] = Append(approvals[id], to)]
      <3>3. id \in Skills /\ to \in Decision
        BY <2>1, <2>6
      <3> HIDE DEF id, to
      <3>4. /\ ap2 \in [Skills -> Seq(Decision)] /\ OnRecord(ap2, id, to)
            /\ \A s \in Skills, c \in Decision : OnRecord(approvals, s, c) => OnRecord(ap2, s, c)
        BY <3>2, <3>3, RecordGrows
      <3> QED BY <3>1, <3>4 DEF id, to
    <2>8. TypeOK'
      BY <2>4, <2>5, <2>7 DEF IInv, TypeOK
    <2>9. \A g \in Threads : frame[g].at = "audit" => frame[g].id \in Skills
      BY BusyShape DEF IInv
    <2>10. DecisionsRecorded'
      <3>1. \A g \in Threads : frame'[g].at = "decision" => frame'[g].to \in Decision
        BY <2>2, <2>4 DEF IInv, DecisionsRecorded
      <3>2. \A g \in Threads : frame'[g].at = "audit" /\ frame'[g].to \in Decision
                => OnRecord(approvals', frame'[g].id, frame'[g].to)
        BY <2>2, <2>4, <2>7, <2>9 DEF IInv, DecisionsRecorded
      <3> QED BY <3>1, <3>2 DEF DecisionsRecorded
    <2>11. \A t \in Skills : Vouched(approvals, frame, t) => Vouched(approvals', frame', t)
      <3> SUFFICES ASSUME NEW t \in Skills, Vouched(approvals, frame, t)
                   PROVE  Vouched(approvals', frame', t)
        OBVIOUS
      <3>1. CASE OnRecord(approvals, t, "approved")
        BY <2>7, <3>1 DEF Vouched, Decision
      <3>2. CASE frame[h].id = t /\ frame[h].to = "approved"
        BY <2>7, <3>2 DEF Vouched
      <3>3. CASE \E g \in Threads \ {h} : /\ frame[g].at \in {"version", "decision"}
                                          /\ frame[g].id = t /\ frame[g].to = "approved"
        BY <2>4, <3>3 DEF Vouched
      <3> QED BY <3>1, <3>2, <3>3 DEF Vouched
    <2>12. ApprovalBehind'
      BY <2>2, <2>4, <2>5, <2>11 DEF IInv, ApprovalBehind
    <2> QED BY <2>8, <2>10, <2>12 DEF IInv
  <1>9. ASSUME NEW h \in Threads, AppendAudit(h) \/ FailAudit(h) PROVE IInv'
    <2>1. /\ Step(h, Idle) /\ UNCHANGED <<skills, versions, approvals, issued, halfDone>>
          /\ trail' \in {trail, [trail EXCEPT ![frame[h].id] =
                                    @ \cup ({frame[h].to} \cap Decision)]}
          /\ frame[h].at = "audit"
      BY <1>9 DEF AppendAudit, FailAudit
    <2>2. /\ frame' \in [Threads -> {Idle} \cup Busy] /\ overlapped' \in BOOLEAN
          /\ \A g \in Threads : frame'[g] = IF g = h THEN Idle ELSE frame[g]
      BY <2>1, FrameStep DEF IInv
    <2>3. TypeOK'
      <3>1. trail \in [Skills -> SUBSET Decision]
        BY DEF IInv, TypeOK
      <3>2. trail' \in [Skills -> SUBSET Decision]
        BY <2>1, <3>1
      <3> QED BY <2>1, <2>2, <3>2 DEF IInv, TypeOK
    <2>4. DecisionsRecorded'
      BY <2>1, <2>2 DEF IInv, DecisionsRecorded, Idle
    <2>5. \A t \in Skills : Vouched(approvals, frame, t) => Vouched(approvals, frame', t)
      BY <2>1, <2>2 DEF Vouched
    <2>6. ApprovalBehind'
      BY <2>1, <2>2, <2>5 DEF IInv, ApprovalBehind, Idle
    <2> QED BY <2>3, <2>4, <2>6 DEF IInv
  <1>10. ASSUME Restart PROVE IInv'
    <2>1. TypeOK'
      <3>1. <<>> \in Seq(Decision)
        OBVIOUS
      <3>2. [s \in Skills |-> <<>>] \in [Skills -> Seq(Decision)]
        BY <3>1
      <3> QED BY <1>10, <3>2 DEF Restart, IInv, TypeOK
    <2>2. DecisionsRecorded'
      BY <1>10 DEF Restart, DecisionsRecorded, Idle
    <2>3. ApprovalBehind'
      BY <1>10 DEF Restart, ApprovalBehind, Idle, Absent
    <2> QED BY <2>1, <2>2, <2>3 DEF IInv
  <1>11. CASE UNCHANGED vars
    BY <1>11 DEF vars, IInv, TypeOK, DecisionsRecorded, ApprovalBehind
  <1> QED BY <1>1, <1>2, <1>3, <1>4, <1>5, <1>6, <1>7, <1>8, <1>9, <1>10, <1>11 DEF Next

\* Every reachable state is well typed.
THEOREM TypeCorrect == Spec => []TypeOK
  <1>1. IInv => TypeOK
    BY DEF IInv
  <1> QED BY <1>1, InitIInv, StepIInv, PTL DEF Spec

\* A skill of an earlier process: its id is issued, and the registry has
\* nothing of it and never will.
Lost(s) == s \in issued /\ ~Known(s) /\ Quiet(s)

\* Ids are issued once; the decisions in the audit file are on record, or the
\* skill is lost.
TrailInv ==
    /\ \A h \in Threads : frame[h] # Idle => frame[h].id \in issued
    /\ \A s \in Skills : Known(s) => s \in issued
    /\ \A s \in Skills : trail[s] # {} => s \in issued
    /\ \A s \in Skills : Lost(s) \/ \A d \in trail[s] : OnRecord(approvals, s, d)

\* A step of a request about s leaves the other skills as they were, lost or
\* not: it keeps the invariant if s is recorded afterwards.
LEMMA TrailStep ==
    ASSUME TypeOK, TrailInv, NEW h \in Threads, NEW s \in Skills,
           NEW f \in {Idle} \cup Busy, Step(h, f),
           f # Idle => f.id = s, frame[h] # Idle => frame[h].id = s,
           issued' = issued \cup {s},
           \A t \in Skills \ {s} : /\ skills'[t] = skills[t] /\ trail'[t] = trail[t]
                                   /\ approvals'[t] = approvals[t],
           \A d \in trail'[s] : OnRecord(approvals', s, d)
    PROVE  TrailInv'
  <1>1. \A g \in Threads : frame'[g] = IF g = h THEN f ELSE frame[g]
    BY FrameStep
  <1>2. \A g \in Threads : frame'[g] # Idle => frame'[g].id \in issued'
    BY <1>1 DEF TrailInv
  <1>3. \A t \in Skills : /\ Known(t)' => t \in issued'
                          /\ trail'[t] # {} => t \in issued'
    BY DEF TrailInv, Known
  <1>4. ASSUME NEW t \in Skills PROVE Lost(t)' \/ \A d \in trail'[t] : OnRecord(approvals', t, d)
    <2>1. CASE t = s
      BY <2>1
    <2>2. CASE t # s /\ Lost(t)
      <3>1. Quiet(t)'
        BY <1>1, <2>2 DEF Lost, Quiet
      <3>2. Lost(t)'
        BY <2>2, <3>1 DEF Lost, Known
      <3> QED BY <3>2
    <2>3. CASE t # s /\ ~Lost(t)
      <3>1. \A d \in trail[t] : OnRecord(approvals, t, d)
        BY <2>3 DEF TrailInv
      <3> QED BY <2>3, <3>1 DEF OnRecord
    <2> QED BY <2>1, <2>2, <2>3
  <1> QED BY <1>2, <1>3, <1>4 DEF TrailInv

\* A request that goes on keeps it as long as it touches neither the decisions
\* nor the file.
LEMMA TrailMoves ==
    ASSUME TypeOK, TrailInv, NEW h \in Threads, NEW s \in Skills,
           NEW f \in {Idle} \cup Busy, Step(h, f),
           f # Idle => f.id = s, frame[h] # Idle => frame[h].id = s,
           Known(s) \/ frame[h] # Idle,
           \A t \in Skills \ {s} : skills'[t] = skills[t],
           UNCHANGED <<approvals, trail, issued>>
    PROVE  TrailInv'
  <1>1. ~Lost(s) /\ s \in issued
    BY DEF Lost, Quiet, TrailInv
  <1>2. issued' = issued \cup {s}
    BY <1>1
  <1>3. \A d \in trail'[s] : OnRecord(approvals', s, d)
    BY <1>1 DEF TrailInv
  <1> QED BY <1>2, <1>3, TrailStep

\* Every step keeps it.
LEMMA StepTrail == ASSUME IInv, TrailInv, [Next]_vars PROVE TrailInv'
  <1>1. TypeOK
    BY DEF IInv
  <1>2. ASSUME NEW h \in Threads, NEW s \in Skills, Draft(h, s) PROVE TrailInv'
    <2> DEFINE f == [at |-> "skill", id |-> s, to |-> "draft"]
    <2>1. f \in Busy /\ f.id = s
      BY BegunShape DEF Status
    <2>2. Step(h, f)
      BY <1>2 DEF Draft, Begin
    <2> HIDE DEF f
    <2>3. trail'[s] = {}
      BY <1>2 DEF Draft, TrailInv
    <2>4. /\ issued' = issued \cup {s} /\ frame[h] = Idle
          /\ UNCHANGED <<skills, approvals, trail>>
      BY <1>2 DEF Draft
    <2> QED BY <1>1, <2>1, <2>2, <2>3, <2>4, TrailStep
  <1>3. ASSUME NEW h \in Threads, NEW s \in Skills, NEW to \in Status,
               frame[h] = Idle, Known(s), Begin(h, s, to),
               UNCHANGED <<skills, approvals, trail, issued>>
        PROVE  TrailInv'
    <2> DEFINE f == [at |-> "skill", id |-> s, to |-> to]
    <2>1. f \in Busy /\ f.id = s
      BY BegunShape
    <2>2. Step(h, f)
      BY <1>3 DEF Begin
    <2> HIDE DEF f
    <2> QED BY <1>1, <1>3, <2>1, <2>2, TrailMoves
  <1>4. ASSUME NEW h \in Threads, NEW s \in Skills,
               RequestReview(h, s) \/ Deploy(h, s) \/ \E d \in Decision : Decide(h, s, d)
        PROVE  TrailInv'
    <2>1. PICK to \in Status : Begin(h, s, to)
      BY <1>4 DEF RequestReview, Deploy, Decide, Status, Decision
    <2>2. /\ frame[h] = Idle /\ Known(s)
          /\ UNCHANGED <<skills, approvals, trail, issued>>
      BY <1>4 DEF RequestReview, Deploy, Decide
    <2> QED BY <1>3, <2>1, <2>2
  <1>5. ASSUME NEW h \in Threads, NEW a \in {"version", "decision", "audit"},
               frame[h].at # "idle", Step(h, [frame[h] EXCEPT !.at = a]),
               \A t \in Skills \ {frame[h].id} : skills'[t] = skills[t],
               UNCHANGED <<approvals, trail, issued>>
        PROVE  TrailInv'
    <2> DEFINE f == [frame[h] EXCEPT !.at = a]
               s == frame[h].id
    <2>1. frame[h] \in Busy /\ frame[h] # Idle /\ s \in Skills
      BY <1>1, <1>5, BusyShape
    <2>2. f \in Busy /\ f.id = s
      <3>1. a \in {"skill", "version", "decision", "audit"}
        OBVIOUS
      <3> QED BY <2>1, <3>1, MovedShape
    <2> HIDE DEF f
    <2>3. Step(h, f) /\ \A t \in Skills \ {s} : skills'[t] = skills[t]
      BY <1>5 DEF f
    <2> HIDE DEF s
    <2> QED BY <1>1, <1>5, <2>1, <2>2, <2>3, TrailMoves DEF s
  <1>6. ASSUME NEW h \in Threads, SetSkill(h) PROVE TrailInv'
    <2>1. \A t \in Skills \ {frame[h].id} : skills'[t] = skills[t]
      BY <1>1, <1>6 DEF SetSkill, TypeOK
    <2> QED BY <1>5, <1>6, <2>1 DEF SetSkill
  <1>7. ASSUME NEW h \in Threads, SetVersion(h) PROVE TrailInv'
    BY <1>5, <1>7 DEF SetVersion
  <1>8. ASSUME NEW h \in Threads, MissVersion(h) \/ FailAudit(h) PROVE TrailInv'
    <2>1. /\ frame[h].at # "idle" /\ Step(h, Idle)
          /\ UNCHANGED <<skills, approvals, trail, issued>>
      BY <1>8 DEF MissVersion, FailAudit
    <2>2. frame[h] # Idle /\ frame[h].id \in Skills
      BY <1>1, <2>1, BusyShape
    <2> QED BY <1>1, <2>1, <2>2, TrailMoves
  <1>9. ASSUME NEW h \in Threads, RecordDecision(h) PROVE TrailInv'
    <2> DEFINE f == [frame[h] EXCEPT !.at = "audit"]
               s == frame[h].id
               d == frame[h].to
    <2>1. frame[h] \in Busy /\ frame[h] # Idle /\ s \in Skills /\ frame[h].at = "decision"
      BY <1>1, <1>9, BusyShape DEF RecordDecision
    <2>2. f \in Busy /\ f.id = s
      BY <2>1, MovedShape
    <2> HIDE DEF f
    <2>3. Step(h, f) /\ UNCHANGED <<skills, trail, issued>>
      BY <1>9 DEF RecordDecision, f
    <2>4. d \in Decision
      BY <2>1 DEF IInv, DecisionsRecorded
    <2>5. approvals' = [approvals EXCEPT ![s] = Append(approvals[s], d)]
      BY <1>9 DEF RecordDecision
    <2>6. approvals \in [Skills -> Seq(Decision)] /\ trail \in [Skills -> SUBSET Decision]
      BY <1>1 DEF TypeOK
    <2>7. ~Lost(s) /\ s \in issued
      BY <2>1 DEF Lost, Quiet, TrailInv
    <2> HIDE DEF s, d
    <2>8. /\ \A c \in Decision : OnRecord(approvals, s, c) => OnRecord(approvals', s, c)
          /\ \A t \in Skills \ {s} : approvals'[t] = approvals[t]
      BY <2>1, <2>4, <2>5, <2>6, RecordGrows
    <2>9. \A c \in trail'[s] : OnRecord(approvals', s, c)
      BY <2>1, <2>3, <2>6, <2>7, <2>8 DEF TrailInv
    <2>10. issued' = issued \cup {s} /\ frame[h].id = s
      BY <2>3, <2>7 DEF s
    <2> QED BY <1>1, <2>1, <2>2, <2>3, <2>8, <2>9, <2>10, TrailStep
  <1>10. ASSUME NEW h \in Threads, AppendAudit(h) PROVE TrailInv'
    <2> DEFINE s == frame[h].id
    <2>1. frame[h] # Idle /\ s \in Skills /\ frame[h].at = "audit"
      BY <1>1, <1>10, BusyShape DEF AppendAudit
    <2>2. /\ Step(h, Idle) /\ UNCHANGED <<skills, approvals, issued>>
          /\ trail' = [trail EXCEPT ![s] = trail[s] \cup ({frame[h].to} \cap Decision)]
      BY <1>10 DEF AppendAudit
    <2>3. ~Lost(s) /\ s \in issued
      BY <2>1 DEF Lost, Quiet, TrailInv
    <2>4. frame[h].to \in Decision => OnRecord(approvals, s, frame[h].to)
      BY <2>1 DEF IInv, DecisionsRecorded
    <2> HIDE DEF s
    <2>5. /\ trail'[s] = trail[s] \cup ({frame[h].to} \cap Decision)
          /\ \A t \in Skills \ {s} : trail'[t] = trail[t]
      BY <1>1, <2>1, <2>2 DEF TypeOK
    <2>6. \A d \in trail'[s] : OnRecord(approvals', s, d)
      BY <2>1, <2>2, <2>3, <2>4, <2>5 DEF TrailInv
    <2>7. issued' = issued \cup {s} /\ frame[h].id = s
      BY <2>2, <2>3 DEF s
    <2> QED BY <1>1, <2>1, <2>2, <2>5, <2>6, <2>7, TrailStep
  <1>11. CASE Restart
    <2>1. /\ \A h \in Threads : frame'[h] = Idle
          /\ \A s \in Skills : ~Known(s)' /\ Quiet(s)'
          /\ UNCHANGED <<trail, issued>>
      BY <1>11 DEF Restart, Known, Quiet
    <2>2. \A s \in Skills : trail'[s] # {} => Lost(s)'
      BY <2>1 DEF Lost, TrailInv
    <2> QED BY <2>1, <2>2 DEF TrailInv
  <1>12. CASE UNCHANGED vars
    BY <1>12 DEF vars, TrailInv, Lost, Known, Quiet
  <1> QED BY <1>2, <1>4, <1>6, <1>7, <1>8, <1>9, <1>10, <1>11, <1>12 DEF Next

\* For any number of threads, whichever calls overlap or fail half way, and
\* however often the registry is lost: a decision in the audit file is on
\* record in the registry if the registry knows the skill at all.
THEOREM AuditedIsRecorded == Spec => []AuditedDecisionIsRecorded
  <1>1. Init => TrailInv
    BY DEF Init, TrailInv, Known, Absent, Idle
  <1>2. TrailInv => AuditedDecisionIsRecorded
    BY DEF TrailInv, Lost, AuditedDecisionIsRecorded, OnRecord
  <1> QED BY <1>1, <1>2, InitIInv, StepIInv, StepTrail, PTL DEF Spec

\* For any number of threads, unless a call has failed half way, there is an
\* approval behind each skill that may execute.
THEOREM ApprovedBefore == Spec => []ExecutableWasOnceApproved
  <1>1. IInv => ExecutableWasOnceApproved
    BY DEF IInv, ApprovalBehind, ExecutableWasOnceApproved, Executable, Vouched, OnRecord
  <1> QED BY <1>1, InitIInv, StepIInv, PTL DEF Spec

-----------------------------------------------------------------------------
(* As long as requests have not overlapped.                                *)

Last(ap, s) == IF ap[s] = <<>> THEN "none" ELSE ap[s][Len(ap[s])]

\* What holds of a skill that no request is about.
Settled(s, sk, vs, ap) ==
    /\ sk[s] # Absent => vs[s] # Absent
    /\ sk[s] \in {"approved", "deployed"} => Last(ap, s) = "approved"

\* What holds of the only request there is.
UnderWay(f, sk, vs, ap) ==
    /\ f.at # "skill" => sk[f.id] = f.to
    /\ f.to # "draft" \/ f.at = "audit" => vs[f.id] # Absent
    /\ f.to = "deployed" \/ (f.to = "approved" /\ f.at = "audit") => Last(ap, f.id) = "approved"

SerialInv ==
    ~overlapped =>
        /\ \A g, h \in Threads : g # h => frame[g] = Idle \/ frame[h] = Idle
        /\ \A s \in Skills : Quiet(s) => Settled(s, skills, versions, approvals)
        /\ \A h \in Threads : frame[h] # Idle => UnderWay(frame[h], skills, versions, approvals)

\* A step of a request about s touches no other skill: it keeps the invariant
\* if it holds of s, or of the request, afterwards.
LEMMA SerialStep ==
    ASSUME TypeOK, SerialInv, NEW h \in Threads, NEW s \in Skills,
           NEW f \in {Idle} \cup Busy, Step(h, f), ~overlapped',
           f # Idle => f.id = s, frame[h] # Idle => frame[h].id = s,
           \A t \in Skills \ {s} : /\ skills'[t] = skills[t] /\ versions'[t] = versions[t]
                                   /\ approvals'[t] = approvals[t],
           f # Idle => UnderWay(f, skills', versions', approvals'),
           f = Idle => Settled(s, skills', versions', approvals')
    PROVE  SerialInv'
  <1>1. ~overlapped /\ \A g \in Threads \ {h} : frame[g] = Idle
    BY DEF Step, TypeOK
  <1>2. \A g \in Threads : frame'[g] = IF g = h THEN f ELSE Idle
    BY <1>1, FrameStep
  <1>3. ASSUME NEW t \in Skills, Quiet(t)' PROVE Settled(t, skills', versions', approvals')
    <2>1. CASE t = s
      <3>1. frame'[h] # Idle => frame'[h].id # s
        BY <1>3, <2>1 DEF Quiet
      <3> QED BY <1>2, <2>1, <3>1
    <2>2. CASE t # s
      <3>1. Quiet(t)
        BY <1>1, <2>2 DEF Quiet
      <3>2. Settled(t, skills, versions, approvals)
        BY <1>1, <3>1 DEF SerialInv
      <3> QED BY <2>2, <3>2 DEF Settled, Last
    <2> QED BY <2>1, <2>2
  <1> QED BY <1>2, <1>3 DEF SerialInv

\* A request that begins keeps it.
LEMMA SerialBegin ==
    ASSUME TypeOK, SerialInv, NEW h \in Threads, NEW s \in Skills, NEW to \in Status,
           frame[h] = Idle, Begin(h, s, to), ~overlapped', to # "draft" => Known(s),
           to = "deployed" => skills[s] = "approved",
           UNCHANGED <<skills, versions, approvals>>
    PROVE  SerialInv'
  <1> DEFINE f == [at |-> "skill", id |-> s, to |-> to]
  <1>1. f \in Busy /\ f # Idle /\ f.at = "skill" /\ f.id = s /\ f.to = to
    BY BegunShape DEF Idle
  <1>2. Step(h, f)
    BY DEF Begin
  <1> HIDE DEF f
  <1>3. ~overlapped /\ \A g \in Threads : frame[g] = Idle
    BY <1>2 DEF Step, TypeOK
  <1>4. Settled(s, skills, versions, approvals)
    BY <1>3 DEF SerialInv, Quiet
  <1>5. UnderWay(f, skills', versions', approvals')
    BY <1>1, <1>4 DEF UnderWay, Settled, Known
  <1> QED BY <1>1, <1>2, <1>5, SerialStep

\* Every step keeps it.
LEMMA StepSerial ==
    ASSUME IInv, SerialInv, [Next]_vars PROVE SerialInv'
  <1>1. CASE overlapped'
    BY <1>1 DEF SerialInv
  <1>2. CASE ~overlapped' /\ UNCHANGED vars
    BY <1>2 DEF vars, SerialInv, Quiet
  <1>3. CASE Restart
    BY <1>3 DEF Restart, SerialInv, Quiet, Settled, Absent, Idle
  <1>4. ASSUME ~overlapped', NEW h \in Threads, NEW s \in Skills, Draft(h, s) PROVE SerialInv'
    BY <1>4, SerialBegin DEF Draft, Status, IInv
  <1>5. ASSUME ~overlapped', NEW h \in Threads, NEW s \in Skills, RequestReview(h, s)
        PROVE  SerialInv'
    BY <1>5, SerialBegin DEF RequestReview, Status, IInv
  <1>6. ASSUME ~overlapped', NEW h \in Threads, NEW s \in Skills, NEW d \in Decision, Decide(h, s, d)
        PROVE  SerialInv'
    <2>1. d \in Status /\ d # "deployed"
      BY DEF Decision, Status
    <2> QED BY <1>6, <2>1, SerialBegin DEF Decide, IInv
  <1>7. ASSUME ~overlapped', NEW h \in Threads, NEW s \in Skills, Deploy(h, s) PROVE SerialInv'
    BY <1>7, SerialBegin DEF Deploy, Status, IInv
  <1>8. ASSUME NEW h \in Threads, frame[h].at # "idle", ~overlapped', NEW f \in {Idle} \cup Busy, Step(h, f)
        PROVE  /\ frame[h] \in Busy /\ frame[h] # Idle
               /\ frame[h].id \in Skills /\ frame[h].to \in Status
               /\ UnderWay(frame[h], skills, versions, approvals)
    <2>1. ~overlapped
      BY <1>8 DEF Step, IInv, TypeOK
    <2> QED BY <1>8, <2>1, BusyShape DEF IInv, SerialInv
  <1>9. ASSUME ~overlapped', NEW h \in Threads, SetSkill(h) PROVE SerialInv'
    <2> DEFINE f == [frame[h] EXCEPT !.at = "version"]
    <2>1. frame[h] \in Busy /\ frame[h] # Idle /\ frame[h].id \in Skills /\ frame[h].to \in Status
      BY <1>9, BusyShape DEF SetSkill, IInv
    <2>2. f \in Busy /\ f # Idle /\ f.at = "version" /\ f.id = frame[h].id /\ f.to = frame[h].to
      BY <2>1, MovedShape
    <2>3. Step(h, f)
      BY <1>9 DEF SetSkill
    <2> HIDE DEF f
    <2>4. UnderWay(frame[h], skills, versions, approvals)
      BY <1>8, <1>9, <2>2, <2>3 DEF SetSkill
    <2>5. /\ skills'[frame[h].id] = frame[h].to
          /\ \A t \in Skills \ {frame[h].id} : skills'[t] = skills[t]
          /\ UNCHANGED <<versions, approvals>>
      BY <1>9, <2>1 DEF SetSkill, IInv, TypeOK
    <2>6. UnderWay(f, skills', versions', approvals')
      BY <2>2, <2>4, <2>5 DEF UnderWay
    <2> QED BY <1>9, <2>1, <2>2, <2>3, <2>5, <2>6, SerialStep DEF IInv
  <1>10. ASSUME ~overlapped', NEW h \in Threads, SetVersion(h) PROVE SerialInv'
    <2> DEFINE a == IF frame[h].to \in Decision THEN "decision" ELSE "audit"
               f == [frame[h] EXCEPT !.at = a]
    <2>1. frame[h] \in Busy /\ frame[h] # Idle /\ frame[h].id \in Skills /\ frame[h].to \in Status
      BY <1>10, BusyShape DEF SetVersion, IInv
    <2> HIDE DEF a
    <2>2. f \in Busy /\ f # Idle /\ f.at = a /\ f.id = frame[h].id /\ f.to = frame[h].to
      <3>1. a \in {"skill", "version", "decision", "audit"}
        BY DEF a
      <3> QED BY <2>1, <3>1, MovedShape
    <2>3. Step(h, f)
      BY <1>10 DEF SetVersion, a
    <2> HIDE DEF f
    <2>4. UnderWay(frame[h], skills, versions, approvals)
      BY <1>8, <1>10, <2>2, <2>3 DEF SetVersion
    <2>5. /\ versions'[frame[h].id] = frame[h].to
          /\ \A t \in Skills \ {frame[h].id} : versions'[t] = versions[t]
          /\ UNCHANGED <<skills, approvals>> /\ frame[h].at = "version"
      BY <1>10, <2>1 DEF SetVersion, IInv, TypeOK
    <2>6. frame[h].to # Absent /\ (a = "audit" => frame[h].to # "approved")
      BY <2>1 DEF Status, Absent, Decision, a
    <2>7. UnderWay(f, skills', versions', approvals')
      <3>1. /\ f.at # "skill" /\ skills'[f.id] = f.to /\ versions'[f.id] # Absent
        BY <2>2, <2>4, <2>5, <2>6 DEF UnderWay, a
      <3>2. f.to = "deployed" \/ (f.to = "approved" /\ f.at = "audit")
                => Last(approvals', f.id) = "approved"
        <4>1. frame[h].to = "deployed" => Last(approvals, frame[h].id) = "approved"
          BY <2>4 DEF UnderWay
        <4>2. approvals' = approvals /\ (f.at = "audit" => f.to # "approved")
          BY <2>2, <2>5, <2>6
        <4> QED BY <2>2, <4>1, <4>2
      <3> QED BY <3>1, <3>2 DEF UnderWay
    <2> QED BY <1>10, <2>1, <2>2, <2>3, <2>5, <2>7, SerialStep DEF IInv
  <1>11. ASSUME ~overlapped', NEW h \in Threads, MissVersion(h) PROVE SerialInv'
    <2>1. UnderWay(frame[h], skills, versions, approvals)
      BY <1>8, <1>11 DEF MissVersion
    <2> QED BY <1>11, <2>1 DEF MissVersion, UnderWay
  <1>12. ASSUME ~overlapped', NEW h \in Threads, RecordDecision(h) PROVE SerialInv'
    <2> DEFINE f == [frame[h] EXCEPT !.at = "audit"]
    <2>1. frame[h] \in Busy /\ frame[h] # Idle /\ frame[h].id \in Skills /\ frame[h].to \in Status
      BY <1>12, BusyShape DEF RecordDecision, IInv
    <2>2. f \in Busy /\ f # Idle /\ f.at = "audit" /\ f.id = frame[h].id /\ f.to = frame[h].to
      BY <2>1, MovedShape
    <2>3. Step(h, f)
      BY <1>12 DEF RecordDecision
    <2> HIDE DEF f
    <2>4. UnderWay(frame[h], skills, versions, approvals)
      BY <1>8, <1>12, <2>2, <2>3 DEF RecordDecision
    <2>5. frame[h].to \in Decision /\ frame[h].at = "decision"
      BY <1>12 DEF RecordDecision, IInv, DecisionsRecorded
    <2>6. /\ approvals'[frame[h].id] = Append(approvals[frame[h].id], frame[h].to)
          /\ approvals[frame[h].id] \in Seq(Decision)
          /\ \A t \in Skills \ {frame[h].id} : approvals'[t] = approvals[t]
          /\ UNCHANGED <<skills, versions>>
      BY <1>12, <2>1 DEF RecordDecision, IInv, TypeOK
    <2>7. Last(approvals', frame[h].id) = frame[h].to
      BY <2>5, <2>6 DEF Last
    <2>8. frame[h].to # "deployed" /\ frame[h].to # "draft"
      BY <2>5 DEF Decision
    <2>9. UnderWay(f, skills', versions', approvals')
      BY <2>2, <2>4, <2>5, <2>6, <2>7, <2>8 DEF UnderWay
    <2> QED BY <1>12, <2>1, <2>2, <2>3, <2>6, <2>9, SerialStep DEF IInv
  <1>13. ASSUME ~overlapped', NEW h \in Threads, AppendAudit(h) \/ FailAudit(h)
         PROVE  SerialInv'
    <2>1. /\ Step(h, Idle) /\ UNCHANGED <<skills, versions, approvals>> /\ frame[h].at = "audit"
      BY <1>13 DEF AppendAudit, FailAudit
    <2>2. /\ frame[h].id \in Skills /\ UnderWay(frame[h], skills, versions, approvals)
      BY <1>8, <1>13, <2>1
    <2>3. Settled(frame[h].id, skills', versions', approvals')
      BY <2>1, <2>2 DEF UnderWay, Settled
    <2> QED BY <1>13, <2>1, <2>2, <2>3, SerialStep DEF IInv
  <1> QED BY <1>1, <1>2, <1>3, <1>4, <1>5, <1>6, <1>7, <1>9, <1>10, <1>11, <1>12, <1>13 DEF Next

\* For any number of threads, as long as requests have not overlapped, the
\* last decision about a skill that may execute is an approval.
THEOREM SerialExecution == Spec => []ExecutableIsApproved
  <1>1. Init => SerialInv
    BY DEF Init, SerialInv, Quiet, Settled, Absent, Idle
  <1>2. SerialInv => ExecutableIsApproved
    BY DEF SerialInv, ExecutableIsApproved, Executable, LastDecision, Settled, Last
  <1> QED BY <1>1, <1>2, InitIInv, StepIInv, StepSerial, PTL DEF Spec
=============================================================================
