---------------------------- MODULE SkillRegistry ----------------------------
(***************************************************************************)
(* GovSkillRegistry (packages/govmesh_common/skill_registry.py) behind the *)
(* /skills handlers of the control plane.  A skill is drafted, reviewed,   *)
(* approved or rejected, and deployed; only a deployed one may execute.    *)
(*                                                                         *)
(* The registry is three containers in memory - the skills, their          *)
(* versions, the approvals - that a call changes one after the other, on   *)
(* threads that interleave in between.  A restart empties them; the audit  *)
(* file, to which each handler appends last, survives it.                  *)
(***************************************************************************)
EXTENDS Integers, Sequences, FiniteSets

CONSTANTS
    Skills,         \* skill ids that may be issued
    Threads,        \* threads of the server's pool
    MaxDecisions    \* bound: decisions on record when another is requested

ASSUME SkillAssumption == MaxDecisions \in Nat

VARIABLES
    skills,         \* _skills: the status of each skill
    versions,       \* _versions: the status of its last version
    approvals,      \* _approvals, per skill: the decisions in order
    frame,          \* the request each thread is serving
    trail,          \* the audit file: the decisions about each skill in it
    issued,         \* the ids that have been issued
    overlapped,     \* history: two requests have been in progress at once
    halfDone        \* history: a call has failed after setting a status

vars == <<skills, versions, approvals, frame, trail, issued, overlapped, halfDone>>

Status == {"draft", "review", "approved", "rejected", "deployed"}
Decision == {"approved", "rejected"}
Absent == "absent"
Idle == [at |-> "idle"]

\* A call about to set the status, that of the version, to record the
\* decision, or to append the audit event.
Busy == [at : {"skill", "version", "decision", "audit"}, id : Skills, to : Status]

TypeOK ==
    /\ skills \in [Skills -> Status \cup {Absent}]
    /\ versions \in [Skills -> Status \cup {Absent}]
    /\ approvals \in [Skills -> Seq(Decision)]
    /\ frame \in [Threads -> {Idle} \cup Busy]
    /\ trail \in [Skills -> SUBSET Decision]
    /\ issued \subseteq Skills
    /\ overlapped \in BOOLEAN /\ halfDone \in BOOLEAN

\* A client may name a skill as soon as it is in _skills: GET /skills shows it.
Known(s) == skills[s] # Absent

Quiet(s) == \A h \in Threads : frame[h] # Idle => frame[h].id # s

Init ==
    /\ skills = [s \in Skills |-> Absent]
    /\ versions = [s \in Skills |-> Absent]
    /\ approvals = [s \in Skills |-> <<>>]
    /\ frame = [h \in Threads |-> Idle]
    /\ trail = [s \in Skills |-> {}]
    /\ issued = {}
    /\ overlapped = FALSE /\ halfDone = FALSE

\* One step of the request that h serves.
Step(h, next) ==
    /\ frame' = [frame EXCEPT ![h] = next]
    /\ overlapped' = (overlapped \/ \E g \in Threads \ {h} : frame[g] # Idle)
Begin(h, s, to) == Step(h, [at |-> "skill", id |-> s, to |-> to])

-----------------------------------------------------------------------------
(* The handlers.  Each starts with a read of the skill, 404 if unknown.    *)

\* create_draft: a new id, which no other request can name yet.
Draft(h, s) ==
    /\ frame[h] = Idle
    /\ s \notin issued
    /\ issued' = issued \cup {s}
    /\ Begin(h, s, "draft")
    /\ UNCHANGED <<skills, versions, approvals, trail, halfDone>>

RequestReview(h, s) ==
    /\ frame[h] = Idle /\ Known(s)
    /\ Begin(h, s, "review")
    /\ UNCHANGED <<skills, versions, approvals, trail, issued, halfDone>>

\* approve and reject, from whatever status the skill is in.
Decide(h, s, d) ==
    /\ frame[h] = Idle /\ Known(s)
    /\ Cardinality(UNION {{x} \X DOMAIN approvals[x] : x \in Skills}) < MaxDecisions
    /\ Begin(h, s, d)
    /\ UNCHANGED <<skills, versions, approvals, trail, issued, halfDone>>

\* mutant: only a rejected skill is refused
DeployUnlessRejected(h, s) ==
    /\ frame[h] = Idle /\ Known(s)
    /\ skills[s] # "rejected"
    /\ Begin(h, s, "deployed")
    /\ UNCHANGED <<skills, versions, approvals, trail, issued, halfDone>>

\* deploy checks the status first (403), and then reads the skill again.
Deploy(h, s) ==
    /\ frame[h] = Idle /\ Known(s)
    /\ skills[s] = "approved"
    /\ Begin(h, s, "deployed")
    /\ UNCHANGED <<skills, versions, approvals, trail, issued, halfDone>>

SetSkill(h) ==
    /\ frame[h].at = "skill"
    /\ skills' = [skills EXCEPT ![frame[h].id] = frame[h].to]
    /\ Step(h, [frame[h] EXCEPT !.at = "version"])
    /\ UNCHANGED <<versions, approvals, trail, issued, halfDone>>

SetVersion(h) ==
    /\ frame[h].at = "version"
    /\ frame[h].to = "draft" \/ versions[frame[h].id] # Absent
    /\ versions' = [versions EXCEPT ![frame[h].id] = frame[h].to]
    /\ Step(h, [frame[h] EXCEPT !.at =
            IF frame[h].to \in Decision THEN "decision" ELSE "audit"])
    /\ UNCHANGED <<skills, approvals, trail, issued, halfDone>>

\* _versions has no entry yet, for the draft is still being created: the
\* KeyError is answered with 404, and the status set above stays.
MissVersion(h) ==
    /\ frame[h].at = "version"
    /\ frame[h].to # "draft" /\ versions[frame[h].id] = Absent
    /\ Step(h, Idle)
    /\ halfDone' = TRUE
    /\ UNCHANGED <<skills, versions, approvals, trail, issued>>

\* mutant: only the first decision about a skill is recorded
RecordDecisionOnce(h) ==
    /\ frame[h].at = "decision"
    /\ approvals' = [approvals EXCEPT ![frame[h].id] =
            IF @ = <<>> THEN <<frame[h].to>> ELSE @]
    /\ Step(h, [frame[h] EXCEPT !.at = "audit"])
    /\ UNCHANGED <<skills, versions, trail, issued, halfDone>>

RecordDecision(h) ==
    /\ frame[h].at = "decision"
    /\ approvals' = [approvals EXCEPT ![frame[h].id] = Append(@, frame[h].to)]
    /\ Step(h, [frame[h] EXCEPT !.at = "audit"])
    /\ UNCHANGED <<skills, versions, trail, issued, halfDone>>

AppendAudit(h) ==
    /\ frame[h].at = "audit"
    /\ trail' = [trail EXCEPT ![frame[h].id] = @ \cup ({frame[h].to} \cap Decision)]
    /\ Step(h, Idle)
    /\ UNCHANGED <<skills, versions, approvals, issued, halfDone>>

\* audit.append() raises: the request is answered with an error, and what it
\* has done stays without its event.
FailAudit(h) ==
    /\ frame[h].at = "audit"
    /\ Step(h, Idle)
    /\ UNCHANGED <<skills, versions, approvals, trail, issued, halfDone>>

\* The process starts again with an empty registry, in which nothing has
\* overlapped or failed yet; the ids it will issue are new ones.
Restart ==
    /\ skills' = [s \in Skills |-> Absent]
    /\ versions' = [s \in Skills |-> Absent]
    /\ approvals' = [s \in Skills |-> <<>>]
    /\ frame' = [h \in Threads |-> Idle]
    /\ overlapped' = FALSE /\ halfDone' = FALSE
    /\ UNCHANGED <<trail, issued>>

Next ==
    \/ \E h \in Threads, s \in Skills :
          \/ Draft(h, s)
          \/ RequestReview(h, s)
          \/ \E d \in Decision : Decide(h, s, d)
          \/ Deploy(h, s)
    \/ \E h \in Threads : SetSkill(h) \/ SetVersion(h) \/ MissVersion(h)
                           \/ RecordDecision(h) \/ AppendAudit(h) \/ FailAudit(h)
    \/ Restart

Spec == Init /\ [][Next]_vars

-----------------------------------------------------------------------------
(* Properties.                                                             *)

\* ensure_executable
Executable(s) == skills[s] = "deployed"

LastDecision(s) == IF approvals[s] = <<>> THEN "none" ELSE approvals[s][Len(approvals[s])]

\* An approval or rejection in the audit file is on record in the registry as
\* long as the registry knows the skill, whichever calls overlap or fail half
\* way.  A restart takes both: the file then tells of skills and decisions
\* that nothing else does, and no skill comes back without its decisions.
AuditedDecisionIsRecorded ==
    \A s \in Skills : Known(s) =>
        \A d \in trail[s] :
            \E i \in 1 .. Len(approvals[s]) : approvals[s][i] = d

\* However requests overlap, unless a call has failed half way: behind a skill
\* that may execute there is an approval, on record or being recorded by a
\* request that has already set the status.
ExecutableWasOnceApproved ==
    ~halfDone => \A s \in Skills :
        Executable(s) =>
            \/ \E i \in 1 .. Len(approvals[s]) : approvals[s][i] = "approved"
            \/ \E h \in Threads : /\ frame[h].at \in {"version", "decision"}
                                  /\ frame[h].id = s /\ frame[h].to = "approved"

\* Without overlap: the last decision about a skill that may execute is an
\* approval ("Executing a skill that is not approved is forbidden",
\* DEVELOPMENT_STATUS).
ExecutableIsApproved ==
    ~overlapped => \A s \in Skills :
        Quiet(s) /\ Executable(s) => LastDecision(s) = "approved"
=============================================================================
