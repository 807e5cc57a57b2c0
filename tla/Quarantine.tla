------------------------------ MODULE Quarantine ------------------------------
(***************************************************************************)
(* The quarantine gateway, apps/quarantine_gateway/app.py: imports are     *)
(* uploaded, scanned, sanitized, and approved into a registry or rejected. *)
(*                                                                         *)
(* The records and the registry are two dictionaries in the memory of the  *)
(* process.  A handler reads a record (404 if there is none), works on its *)
(* copy - a scan and a sanitization read and write files meanwhile - and   *)
(* puts the copy back; approve and reject then change the registry.  The   *)
(* pool's threads interleave at each of these steps.  A restart empties    *)
(* both dictionaries: the imports before it are known to nobody.           *)
(***************************************************************************)
EXTENDS Inspection

CONSTANTS
    Imports,      \* import ids that may be issued
    Threads       \* threads of the server's pool

VARIABLES
    records,      \* import id -> ImportRecord
    registry,     \* import id -> ImportRecord, the approved ones
    frame,        \* the request each thread is serving
    trail,        \* the last audit event about each import
    overlapped    \* history: two requests have been in progress at once

vars == <<records, registry, frame, trail, overlapped>>

\* file: what lies at the path; scanned: scan_report is there; found:
\* scan_findings; cleaned: the status of cdr_report, if it is there.
Record == [status : {"uploaded", "scanned", "blocked", "approved", "rejected"},
           file : Files, scanned : BOOLEAN, found : SUBSET Kinds,
           cleaned : {"none", "sanitized", "manual_review_required"}, approved : BOOLEAN]
Absent == [status |-> "absent"]
Requests == {"uploaded", "scanned", "approved", "sanitized", "rejected"}
Idle == [at |-> "idle"]
NoEvent == "none"

\* A request about to put its copy back, to change the registry, or to audit.
Busy == [at : {"put", "register", "audit"}, id : Imports, record : Record, kind : Requests]

TypeOK ==
    /\ records \in [Imports -> Record \cup {Absent}]
    /\ registry \in [Imports -> Record \cup {Absent}]
    /\ frame \in [Threads -> {Idle} \cup Busy]
    /\ trail \in [Imports -> Requests \cup {NoEvent}]
    /\ overlapped \in BOOLEAN

Known(i) == records[i] # Absent
Registered(i) == registry[i] # Absent

Init ==
    /\ records = [i \in Imports |-> Absent]
    /\ registry = [i \in Imports |-> Absent]
    /\ frame = [h \in Threads |-> Idle]
    /\ trail = [i \in Imports |-> NoEvent]
    /\ overlapped = FALSE

-----------------------------------------------------------------------------
(* The copies the handlers put back.                                       *)

Uploaded(f) == [status |-> "uploaded", file |-> f, scanned |-> FALSE,
                found |-> {}, cleaned |-> "none", approved |-> FALSE]

AfterScan(r) ==
    [r EXCEPT !.scanned = TRUE, !.found = Findings(r.file),
              !.status = IF Findings(r.file) # {} THEN "blocked" ELSE "scanned"]

AfterApproval(r) == [r EXCEPT !.status = "approved", !.approved = TRUE]

AfterSanitizing(r) == [r EXCEPT !.cleaned = Sanitized(r.file)]

AfterRejection(r) == [r EXCEPT !.status = "rejected", !.approved = FALSE]

\* mutant: an import is approved whatever was found in it
MayApproveAny(r) == r.status # "uploaded"

\* The two refusals of approve: 409 before a scan, 403 after findings.
MayApprove(r) == r.status # "uploaded" /\ r.found = {}

-----------------------------------------------------------------------------
(* The handlers.                                                           *)

\* One step of the request that h serves.
Step(h, next) ==
    /\ frame' = [frame EXCEPT ![h] = next]
    /\ overlapped' = (overlapped \/ \E g \in Threads \ {h} : frame[g] # Idle)

Request(i, r, kind) == [at |-> "put", id |-> i, record |-> r, kind |-> kind]

\* POST /imports/upload: the file is written, then the new record put.
Upload(h, i, f) ==
    /\ frame[h] = Idle
    /\ ~Known(i) /\ trail[i] = NoEvent
    /\ \A g \in Threads : frame[g] # Idle => frame[g].id # i
    /\ Step(h, Request(i, Uploaded(f), "uploaded"))
    /\ UNCHANGED <<records, registry, trail>>

\* What cannot be inspected is answered with a 500 and left as it was.
Scan(h, i) ==
    /\ frame[h] = Idle /\ Known(i)
    /\ Inspectable(records[i].file)
    /\ Step(h, Request(i, AfterScan(records[i]), "scanned"))
    /\ UNCHANGED <<records, registry, trail>>

Approve(h, i) ==
    /\ frame[h] = Idle /\ Known(i)
    /\ MayApprove(records[i])
    /\ Step(h, Request(i, AfterApproval(records[i]), "approved"))
    /\ UNCHANGED <<records, registry, trail>>

Sanitize(h, i) ==
    /\ frame[h] = Idle /\ Known(i)
    /\ Step(h, Request(i, AfterSanitizing(records[i]), "sanitized"))
    /\ UNCHANGED <<records, registry, trail>>

Reject(h, i) ==
    /\ frame[h] = Idle /\ Known(i)
    /\ Step(h, Request(i, AfterRejection(records[i]), "rejected"))
    /\ UNCHANGED <<records, registry, trail>>

\* records[import_id] = record; approve and reject go on to the registry.
PutRecord(h) ==
    /\ frame[h].at = "put"
    /\ records' = [records EXCEPT ![frame[h].id] = frame[h].record]
    /\ Step(h, [frame[h] EXCEPT !.at =
            IF frame[h].kind \in {"approved", "rejected"} THEN "register" ELSE "audit"])
    /\ UNCHANGED <<registry, trail>>

\* mutant: a rejection leaves the registry as it is
ChangeRegistryKeeping(h) ==
    /\ frame[h].at = "register"
    /\ registry' = IF frame[h].kind = "approved"
                   THEN [registry EXCEPT ![frame[h].id] = frame[h].record]
                   ELSE registry
    /\ Step(h, [frame[h] EXCEPT !.at = "audit"])
    /\ UNCHANGED <<records, trail>>

ChangeRegistry(h) ==
    /\ frame[h].at = "register"
    /\ registry' = [registry EXCEPT ![frame[h].id] =
            IF frame[h].kind = "approved" THEN frame[h].record ELSE Absent]
    /\ Step(h, [frame[h] EXCEPT !.at = "audit"])
    /\ UNCHANGED <<records, trail>>

AppendAudit(h) ==
    /\ frame[h].at = "audit"
    /\ trail' = [trail EXCEPT ![frame[h].id] = frame[h].kind]
    /\ Step(h, Idle)
    /\ UNCHANGED <<records, registry>>

\* audit.append() raises, and so does the request: what it has done remains.
FailAudit(h) ==
    /\ frame[h].at = "audit"
    /\ Step(h, Idle)
    /\ UNCHANGED <<records, registry, trail>>

\* The process starts again, and everything in its memory with it; the ids
\* it will issue are new ones.
Restart ==
    /\ records' = [i \in Imports |-> Absent]
    /\ registry' = [i \in Imports |-> Absent]
    /\ frame' = [h \in Threads |-> Idle]
    /\ trail' = [i \in Imports |-> NoEvent]
    /\ overlapped' = FALSE

Next ==
    \/ \E h \in Threads, i \in Imports :
          \/ \E f \in Files : Upload(h, i, f)
          \/ Scan(h, i) \/ Approve(h, i) \/ Sanitize(h, i) \/ Reject(h, i)
    \/ \E h \in Threads : PutRecord(h) \/ ChangeRegistry(h) \/ AppendAudit(h) \/ FailAudit(h)
    \/ Restart

Spec == Init /\ [][Next]_vars

-----------------------------------------------------------------------------
(* Properties.                                                             *)

Quiet(i) == \A h \in Threads : frame[h] # Idle => frame[h].id # i

\* Without overlap: the approved flag of a record and the membership of the
\* registry, two things written one after the other by approve and reject and
\* kept by scan and sanitize, agree between requests.
ApprovedMeansRegistered ==
    ~overlapped => \A i \in Imports :
        Quiet(i) /\ Known(i) => (records[i].approved <=> Registered(i))

\* However requests overlap: what a scan has found is never in the copy the
\* registry keeps, nor in one on its way there.
RegistryOnlyClean ==
    /\ \A i \in Imports : Registered(i) => registry[i].found = {} /\ registry[i].approved
    /\ \A h \in Threads : frame[h] # Idle /\ frame[h].kind = "approved"
                             => frame[h].record.found = {} /\ frame[h].record.approved

\* Without overlap: once a scan has found something in an import, no approval
\* brings it into the registry.
FindingsBlockApproval ==
    [][~overlapped' => \A i \in Imports :
          Known(i) /\ records[i].found # {} /\ Registered(i)' => Registered(i)]_vars

\* However requests overlap: what was scanned and is registered does no harm,
\* as far as a scan can see.
RegisteredIsHarmless ==
    \A i \in Imports : Registered(i) /\ registry[i].scanned => Harmless(registry[i].file)

\* "Import must be scanned before approval" (the 409 of approve): what is in
\* the registry was scanned.
RegisteredWasScanned ==
    \A i \in Imports : Registered(i) => registry[i].scanned
=============================================================================
