--------------------------- MODULE QuarantineProofs ---------------------------
(***************************************************************************)
(* Theorems about Quarantine, for any imports and threads.                 *)
(***************************************************************************)
EXTENDS Quarantine, TLAPS

-----------------------------------------------------------------------------
(* Requests that overlap or not.                                           *)

\* The copies on their way to the registry are part of RegistryOnlyClean, which
\* makes it inductive.
IInv == TypeOK /\ RegistryOnlyClean

\* What is found in a file is of the kinds there are.
LEMMA FindingsAreKinds == ASSUME NEW f \in Files PROVE Findings(f) \subseteq Kinds
  <1>1. \A e : EntryFindings(e) \subseteq Kinds
    BY SMTT(30) DEF EntryFindings, When, Kinds
  <1>2. ArchiveFindings(f.entries) \subseteq Kinds
    <2>1. UNION {EntryFindings(f.entries[k]) : k \in DOMAIN f.entries} \subseteq Kinds
      BY <1>1
    <2> QED BY <2>1 DEF ArchiveFindings, When, Kinds
  <1>3. \A m \in f.marks : m.rule \in Rules
    BY FilesAssumption DEF Mark
  <1> QED BY <1>2, <1>3 DEF Findings, When, Kinds

\* The copies the handlers compute are records.
LEMMA ComputedRecords ==
    ASSUME NEW r \in Record
    PROVE  /\ AfterScan(r) \in Record /\ AfterScan(r).approved = r.approved
           /\ AfterSanitizing(r) \in Record /\ AfterSanitizing(r).approved = r.approved
           /\ AfterApproval(r) \in Record /\ AfterApproval(r).approved
           /\ AfterApproval(r).found = r.found
           /\ AfterRejection(r) \in Record /\ ~AfterRejection(r).approved
  <1>1. Findings(r.file) \in SUBSET Kinds
    BY FindingsAreKinds DEF Record
  <1>2. Sanitized(r.file) \in {"sanitized", "manual_review_required"}
    BY DEF Sanitized
  <1> QED BY <1>1, <1>2 DEF AfterScan, AfterSanitizing, AfterApproval, AfterRejection, Record

\* A busy thread holds an import and a record.
LEMMA BusyShape ==
    ASSUME TypeOK, NEW h \in Threads, frame[h] # Idle
    PROVE  frame[h] \in Busy /\ frame[h].id \in Imports /\ frame[h].record \in Record
  BY DEF TypeOK, Busy

\* What a new request is about to put.
LEMMA RequestShape ==
    ASSUME NEW i \in Imports, NEW r \in Record, NEW k \in Requests
    PROVE  /\ Request(i, r, k) \in Busy /\ Request(i, r, k) # Idle
           /\ Request(i, r, k).id = i /\ Request(i, r, k).record = r
           /\ Request(i, r, k).kind = k /\ Request(i, r, k).at = "put"
  BY DEF Request, Busy, Idle

\* A step of a thread keeps what is said of the threads' copies if it holds of
\* the copy the step leaves with the thread.
LEMMA FrameStep ==
    ASSUME IInv, NEW h \in Threads, NEW f \in {Idle} \cup Busy, Step(h, f),
           f # Idle /\ f.kind = "approved" => f.record.found = {} /\ f.record.approved
    PROVE  /\ frame' \in [Threads -> {Idle} \cup Busy]
           /\ overlapped' \in BOOLEAN
           /\ \A g \in Threads : frame'[g] # Idle /\ frame'[g].kind = "approved"
                             => frame'[g].record.found = {} /\ frame'[g].record.approved
  <1>1. frame' = [frame EXCEPT ![h] = f] /\ frame \in [Threads -> {Idle} \cup Busy]
    BY DEF Step, IInv, TypeOK
  <1>2. frame' \in [Threads -> {Idle} \cup Busy]
    BY <1>1
  <1>3. overlapped' \in BOOLEAN
    BY DEF Step, IInv, TypeOK
  <1>4. \A g \in Threads : frame'[g] = IF g = h THEN f ELSE frame[g]
    BY <1>1
  <1> QED BY <1>2, <1>3, <1>4 DEF IInv, RegistryOnlyClean

\* The invariant holds of the empty gateway.
LEMMA InitIInv == ASSUME Init PROVE IInv
  <1>1. TypeOK
    BY DEF Init, TypeOK
  <1>2. RegistryOnlyClean
    BY DEF Init, RegistryOnlyClean, Registered
  <1> QED BY <1>1, <1>2 DEF IInv

\* A request that begins keeps the invariant.
LEMMA RequestIInv ==
    ASSUME IInv, NEW h \in Threads, NEW i \in Imports, NEW r \in Record, NEW k \in Requests,
           Step(h, Request(i, r, k)), UNCHANGED <<records, registry, trail>>,
           k = "approved" => r.found = {} /\ r.approved
    PROVE  IInv'
  <1>1. Request(i, r, k) \in Busy
    BY RequestShape
  <1>2. Request(i, r, k).kind = k /\ Request(i, r, k).record = r
    BY RequestShape
  <1>3. /\ frame' \in [Threads -> {Idle} \cup Busy]
        /\ overlapped' \in BOOLEAN
        /\ \A g \in Threads : frame'[g] # Idle /\ frame'[g].kind = "approved"
                             => frame'[g].record.found = {} /\ frame'[g].record.approved
    BY <1>1, <1>2, FrameStep
  <1> QED BY <1>3 DEF IInv, TypeOK, RegistryOnlyClean, Registered

\* Every step keeps the invariant.
LEMMA StepIInv == ASSUME IInv, [Next]_vars PROVE IInv'
  <1>1. ASSUME NEW h \in Threads, NEW i \in Imports, NEW f \in Files, Upload(h, i, f)
        PROVE  IInv'
    <2>1. Uploaded(f) \in Record
      BY DEF Uploaded, Record
    <2> QED BY <1>1, <2>1, RequestIInv DEF Upload, Requests
  <1>2. ASSUME NEW h \in Threads, NEW i \in Imports, Known(i)
        PROVE  records[i] \in Record
    BY <1>2 DEF IInv, TypeOK, Known
  <1>3. ASSUME NEW h \in Threads, NEW i \in Imports, Scan(h, i) PROVE IInv'
    <2>1. AfterScan(records[i]) \in Record
      BY <1>2, <1>3, ComputedRecords DEF Scan
    <2> QED BY <1>3, <2>1, RequestIInv DEF Scan, Requests
  <1>4. ASSUME NEW h \in Threads, NEW i \in Imports, Approve(h, i) PROVE IInv'
    <2>1. records[i] \in Record /\ records[i].found = {}
      BY <1>2, <1>4 DEF Approve, MayApprove
    <2>2. /\ AfterApproval(records[i]) \in Record
          /\ AfterApproval(records[i]).found = {} /\ AfterApproval(records[i]).approved
      BY <2>1, ComputedRecords
    <2> QED BY <1>4, <2>2, RequestIInv DEF Approve, Requests
  <1>5. ASSUME NEW h \in Threads, NEW i \in Imports, Sanitize(h, i) PROVE IInv'
    <2>1. AfterSanitizing(records[i]) \in Record
      BY <1>2, <1>5, ComputedRecords DEF Sanitize
    <2> QED BY <1>5, <2>1, RequestIInv DEF Sanitize, Requests
  <1>6. ASSUME NEW h \in Threads, NEW i \in Imports, Reject(h, i) PROVE IInv'
    <2>1. AfterRejection(records[i]) \in Record
      BY <1>2, <1>6, ComputedRecords DEF Reject
    <2> QED BY <1>6, <2>1, RequestIInv DEF Reject, Requests
  <1>7. ASSUME NEW h \in Threads, PutRecord(h) PROVE IInv'
    <2> DEFINE f == [frame[h] EXCEPT !.at =
            IF frame[h].kind \in {"approved", "rejected"} THEN "register" ELSE "audit"]
    <2>1. frame[h] # Idle
      BY <1>7 DEF PutRecord, Idle
    <2>2. frame[h] \in Busy /\ frame[h].id \in Imports /\ frame[h].record \in Record
      BY <2>1, BusyShape DEF IInv
    <2>3. f \in Busy /\ f.kind = frame[h].kind /\ f.record = frame[h].record
      BY <2>2 DEF Busy
    <2>4. f.kind = "approved" => f.record.found = {} /\ f.record.approved
      BY <2>1, <2>3 DEF IInv, RegistryOnlyClean
    <2>5. Step(h, f)
      BY <1>7 DEF PutRecord
    <2>6. /\ frame' \in [Threads -> {Idle} \cup Busy]
          /\ overlapped' \in BOOLEAN
          /\ \A g \in Threads : frame'[g] # Idle /\ frame'[g].kind = "approved"
                             => frame'[g].record.found = {} /\ frame'[g].record.approved
      BY <2>3, <2>4, <2>5, FrameStep
    <2>7. records' \in [Imports -> Record \cup {Absent}]
      BY <1>7, <2>2 DEF PutRecord, IInv, TypeOK
    <2> QED BY <1>7, <2>6, <2>7 DEF PutRecord, IInv, TypeOK, RegistryOnlyClean, Registered
  <1>8. ASSUME NEW h \in Threads, ChangeRegistry(h) PROVE IInv'
    <2> DEFINE f == [frame[h] EXCEPT !.at = "audit"]
               kept == IF frame[h].kind = "approved" THEN frame[h].record ELSE Absent
    <2>1. frame[h] # Idle
      BY <1>8 DEF ChangeRegistry, Idle
    <2>2. frame[h] \in Busy /\ frame[h].id \in Imports /\ frame[h].record \in Record
      BY <2>1, BusyShape DEF IInv
    <2>3. f \in Busy /\ f.kind = frame[h].kind /\ f.record = frame[h].record
      BY <2>2 DEF Busy
    <2>4. frame[h].kind = "approved" => frame[h].record.found = {} /\ frame[h].record.approved
      BY <2>1 DEF IInv, RegistryOnlyClean
    <2>5. Step(h, f)
      BY <1>8 DEF ChangeRegistry
    <2>6. /\ frame' \in [Threads -> {Idle} \cup Busy]
          /\ overlapped' \in BOOLEAN
          /\ \A g \in Threads : frame'[g] # Idle /\ frame'[g].kind = "approved"
                             => frame'[g].record.found = {} /\ frame'[g].record.approved
      BY <2>3, <2>4, <2>5, FrameStep
    <2>7. registry' = [registry EXCEPT ![frame[h].id] = kept]
      BY <1>8 DEF ChangeRegistry
    <2>8. kept \in Record \cup {Absent} /\ (kept # Absent => kept.found = {} /\ kept.approved)
      BY <2>2, <2>4
    <2>9. /\ registry' \in [Imports -> Record \cup {Absent}]
          /\ \A i \in Imports : registry'[i] = IF i = frame[h].id THEN kept ELSE registry[i]
      BY <2>2, <2>7, <2>8 DEF IInv, TypeOK
    <2> QED BY <1>8, <2>6, <2>8, <2>9 DEF ChangeRegistry, IInv, TypeOK, RegistryOnlyClean, Registered
  <1>9. ASSUME NEW h \in Threads, AppendAudit(h) \/ FailAudit(h) PROVE IInv'
    <2>1. frame[h] # Idle
      BY <1>9 DEF AppendAudit, FailAudit, Idle
    <2>2. frame[h].id \in Imports /\ frame[h].kind \in Requests
      BY <2>1, BusyShape DEF IInv, Busy
    <2>3. trail' \in [Imports -> Requests \cup {NoEvent}]
      BY <1>9, <2>2 DEF AppendAudit, FailAudit, IInv, TypeOK
    <2>4. /\ frame' \in [Threads -> {Idle} \cup Busy]
          /\ overlapped' \in BOOLEAN
          /\ \A g \in Threads : frame'[g] # Idle /\ frame'[g].kind = "approved"
                             => frame'[g].record.found = {} /\ frame'[g].record.approved
      BY <1>9, FrameStep DEF AppendAudit, FailAudit
    <2> QED BY <1>9, <2>3, <2>4 DEF AppendAudit, FailAudit, IInv, TypeOK, RegistryOnlyClean, Registered
  <1>10. CASE Restart
    BY <1>10 DEF Restart, IInv, TypeOK, RegistryOnlyClean, Registered
  <1>11. CASE UNCHANGED vars
    BY <1>11 DEF vars, IInv, TypeOK, RegistryOnlyClean, Registered
  <1> QED BY <1>1, <1>3, <1>4, <1>5, <1>6, <1>7, <1>8, <1>9, <1>10, <1>11 DEF Next

LEMMA SpecIInv == Spec => []IInv
  BY InitIInv, StepIInv, PTL DEF Spec

\* A scan report is of the file that lies at the path of its record.
Honest(r) == r.scanned => Inspectable(r.file) /\ r.found = Findings(r.file)

AllHonest ==
    /\ \A i \in Imports : Known(i) => Honest(records[i])
    /\ \A i \in Imports : Registered(i) => Honest(registry[i])
    /\ \A h \in Threads : frame[h] # Idle => Honest(frame[h].record)

\* The copies the handlers compute keep their reports honest.
LEMMA ComputedHonest ==
    /\ \A f \in Files : Honest(Uploaded(f))
    /\ \A r \in Record : Inspectable(r.file) => Honest(AfterScan(r))
    /\ \A r \in Record : Honest(r) => /\ Honest(AfterApproval(r))
                                      /\ Honest(AfterSanitizing(r))
                                      /\ Honest(AfterRejection(r))
  BY DEF Honest, Uploaded, AfterScan, AfterApproval, AfterSanitizing, AfterRejection, Record

\* What a thread goes on with after a step is honest if what it began is.
LEMMA HonestStep == ASSUME IInv, AllHonest, [Next]_vars PROVE AllHonest'
  <1>1. ASSUME NEW h \in Threads, NEW i \in Imports, NEW r \in Record, NEW k \in Requests,
               Step(h, Request(i, r, k)), UNCHANGED <<records, registry, trail>>, Honest(r)
        PROVE  AllHonest'
    BY <1>1, RequestShape DEF AllHonest, Step, Known, Registered, IInv, TypeOK
  <1>2. ASSUME NEW h \in Threads, frame[h] # Idle, NEW at \in {"register", "audit"},
               Step(h, [frame[h] EXCEPT !.at = at])
        PROVE  \A g \in Threads : frame'[g] # Idle => Honest(frame'[g].record)
    <2> DEFINE f == [frame[h] EXCEPT !.at = at]
    <2>1. f.record = frame[h].record
      BY <1>2, BusyShape DEF IInv, Busy
    <2> HIDE DEF f
    <2>2. \A g \in Threads : frame'[g] = IF g = h THEN f ELSE frame[g]
      BY <1>2 DEF Step, IInv, TypeOK, f
    <2> QED BY <1>2, <2>1, <2>2 DEF AllHonest
  <1>3. \A i \in Imports : Known(i) => records[i] \in Record /\ Honest(records[i])
    BY DEF IInv, TypeOK, Known, AllHonest
  <1>4. ASSUME NEW h \in Threads, NEW i \in Imports, NEW f \in Files, Upload(h, i, f)
        PROVE  AllHonest'
    <2>1. Uploaded(f) \in Record
      BY DEF Uploaded, Record
    <2> QED BY <1>1, <1>4, <2>1, ComputedHonest DEF Upload, Requests
  <1>5. ASSUME NEW h \in Threads, NEW i \in Imports,
               Scan(h, i) \/ Approve(h, i) \/ Sanitize(h, i) \/ Reject(h, i)
        PROVE  AllHonest'
    <2>1. records[i] \in Record /\ Honest(records[i])
      BY <1>3, <1>5 DEF Scan, Approve, Sanitize, Reject
    <2>2. CASE Scan(h, i)
      BY <1>1, <2>1, <2>2, ComputedRecords, ComputedHonest DEF Scan, Requests
    <2>3. CASE Approve(h, i) \/ Sanitize(h, i) \/ Reject(h, i)
      BY <1>1, <2>1, <2>3, ComputedRecords, ComputedHonest DEF Approve, Sanitize, Reject, Requests
    <2> QED BY <1>5, <2>2, <2>3
  <1>6. ASSUME NEW h \in Threads, PutRecord(h) PROVE AllHonest'
    <2>1. frame[h] # Idle /\ frame[h] \in Busy
      BY <1>6, BusyShape DEF PutRecord, Idle, IInv
    <2>2. frame[h].id \in Imports /\ Honest(frame[h].record)
      BY <2>1 DEF Busy, AllHonest
    <2>3. \A g \in Threads : frame'[g] # Idle => Honest(frame'[g].record)
      BY <1>2, <1>6, <2>1 DEF PutRecord
    <2>4. \A i \in Imports : records'[i] = IF i = frame[h].id THEN frame[h].record ELSE records[i]
      BY <1>6, <2>2 DEF PutRecord, IInv, TypeOK
    <2> QED BY <1>6, <2>2, <2>3, <2>4 DEF PutRecord, AllHonest, Known, Registered
  <1>7. ASSUME NEW h \in Threads, ChangeRegistry(h) PROVE AllHonest'
    <2> DEFINE kept == IF frame[h].kind = "approved" THEN frame[h].record ELSE Absent
    <2>1. frame[h] # Idle /\ frame[h] \in Busy
      BY <1>7, BusyShape DEF ChangeRegistry, Idle, IInv
    <2>2. frame[h].id \in Imports /\ Honest(frame[h].record)
      BY <2>1 DEF Busy, AllHonest
    <2>3. \A g \in Threads : frame'[g] # Idle => Honest(frame'[g].record)
      BY <1>2, <1>7, <2>1 DEF ChangeRegistry
    <2>4. \A i \in Imports : registry'[i] = IF i = frame[h].id THEN kept ELSE registry[i]
      BY <1>7, <2>2 DEF ChangeRegistry, IInv, TypeOK
    <2> QED BY <1>7, <2>2, <2>3, <2>4 DEF ChangeRegistry, AllHonest, Known, Registered
  <1>8. ASSUME NEW h \in Threads, AppendAudit(h) \/ FailAudit(h) PROVE AllHonest'
    BY <1>8 DEF AppendAudit, FailAudit, Step, AllHonest, Known, Registered, IInv, TypeOK
  <1>9. CASE Restart
    BY <1>9 DEF Restart, AllHonest, Known, Registered
  <1>10. CASE UNCHANGED vars
    BY <1>10 DEF vars, AllHonest, Known, Registered
  <1> QED BY <1>4, <1>5, <1>6, <1>7, <1>8, <1>9, <1>10 DEF Next

\* Where a scan finds nothing there is nothing to be found.
LEMMA NothingFound == ASSUME NEW f \in Files, Inspectable(f), Findings(f) = {} PROVE Harmless(f)
  <1>1. f.suffix # "risky"
    BY DEF Findings, When
  <1>2. \A m \in f.marks : m.ends > MaxSample
    BY FilesAssumption, LimitsAssumption DEF Findings, Mark
  <1>3. CASE f.zip = "archive"
    <2>1. ArchiveFindings(f.entries) = {}
      BY <1>3 DEF Findings
    <2>2. ~(Len(f.entries) > MaxEntries) /\ ~(TotalSize(f.entries) > MaxBytes)
      BY <2>1 DEF ArchiveFindings, When
    <2>3. ASSUME NEW k \in DOMAIN f.entries
          PROVE  /\ ~f.entries[k].unsafe /\ f.entries[k].suffix \notin {"risky", "archive"}
                 /\ f.entries[k].packed > 0 => f.entries[k].size <= f.entries[k].packed * MaxRatio
      <3>1. EntryFindings(f.entries[k]) = {}
        BY <2>1 DEF ArchiveFindings
      <3>2. f.entries[k] \in Entry
        BY FilesAssumption
      <3> QED BY <3>1, <3>2, LimitsAssumption DEF EntryFindings, When, Entry
    <2>4. SafeToUnpack(f.entries)
      BY <2>2, <2>3 DEF SafeToUnpack
    <2> QED BY <1>1, <1>2, <2>4 DEF Harmless
  <1>4. f.zip \in {"none", "archive"}
    BY FilesAssumption DEF Inspectable
  <1> QED BY <1>1, <1>2, <1>3, <1>4 DEF Harmless

\* Every reachable state of the gateway is well typed.
THEOREM TypeCorrect == Spec => []TypeOK
  <1>1. IInv => TypeOK
    BY DEF IInv
  <1> QED BY <1>1, SpecIInv, PTL

\* What a scan has found never reaches the registry: an approval checks and
\* registers one and the same copy, whatever other requests put meanwhile.
THEOREM RegistryStaysClean == Spec => []RegistryOnlyClean
  <1>1. IInv => RegistryOnlyClean
    BY DEF IInv
  <1> QED BY <1>1, SpecIInv, PTL

-----------------------------------------------------------------------------
(* As long as requests do not overlap.                                     *)

\* Record and registry say the same of an import.
Agrees(i) == IF Known(i) THEN records[i].approved <=> Registered(i) ELSE ~Registered(i)

\* One request at a time, and how far it has come with its import.
Serial ==
    ~overlapped =>
        /\ \A g, h \in Threads : frame[g] # Idle /\ frame[h] # Idle => g = h
        /\ \A i \in Imports : Quiet(i) => Agrees(i)
        /\ \A h \in Threads : frame[h] # Idle =>
              /\ frame[h].at = "put" =>
                    /\ frame[h].kind = "approved" => frame[h].record.approved
                    /\ frame[h].kind = "rejected" => ~frame[h].record.approved
                    /\ frame[h].kind \notin {"approved", "rejected"} =>
                          (frame[h].record.approved <=> Registered(frame[h].id))
              /\ frame[h].at = "register" =>
                    /\ records[frame[h].id] = frame[h].record
                    /\ frame[h].record.approved <=> frame[h].kind = "approved"
              /\ frame[h].at = "audit" => Agrees(frame[h].id)

SerialInv == IInv /\ Serial

LEMMA SerialInit == ASSUME Init PROVE Serial
  BY DEF Init, Serial, Agrees, Known, Registered, Quiet

\* A step without overlap is made by the only thread that is busy.
LEMMA Alone ==
    ASSUME TypeOK, NEW h \in Threads, NEW f, Step(h, f), ~overlapped'
    PROVE  /\ ~overlapped
           /\ frame'[h] = f
           /\ \A g \in Threads \ {h} : frame[g] = Idle /\ frame'[g] = Idle
  <1>1. frame' = [frame EXCEPT ![h] = f] /\ frame \in [Threads -> {Idle} \cup Busy]
    BY DEF Step, TypeOK
  <1>2. ~overlapped /\ \A g \in Threads \ {h} : frame[g] = Idle
    BY DEF Step
  <1> QED BY <1>1, <1>2

\* A request that begins finds record and registry in agreement.
LEMMA RequestSerial ==
    ASSUME SerialInv, NEW h \in Threads, NEW i \in Imports, NEW r \in Record, NEW k \in Requests,
           frame[h] = Idle, Step(h, Request(i, r, k)), UNCHANGED <<records, registry, trail>>,
           k = "approved" => r.approved,
           k = "rejected" => ~r.approved,
           k \notin {"approved", "rejected"} =>
               (r.approved <=> (Known(i) /\ records[i].approved))
    PROVE  Serial'
  <1> SUFFICES ASSUME ~overlapped' PROVE Serial'
    BY DEF Serial
  <1>1. /\ ~overlapped
        /\ frame'[h] = Request(i, r, k)
        /\ \A g \in Threads \ {h} : frame[g] = Idle /\ frame'[g] = Idle
    BY Alone DEF SerialInv, IInv
  <1>2. \A j \in Imports : Quiet(j)
    BY <1>1 DEF Quiet
  <1>3. \A j \in Imports : Agrees(j) /\ (Agrees(j))'
    BY <1>1, <1>2 DEF SerialInv, Serial, Agrees, Known, Registered
  <1>4. /\ Request(i, r, k).id = i /\ Request(i, r, k).record = r
        /\ Request(i, r, k).kind = k /\ Request(i, r, k).at = "put"
    BY RequestShape
  <1>5. k \notin {"approved", "rejected"} => (r.approved <=> Registered(i)')
    BY <1>3 DEF Agrees, Known, Registered
  <1> QED BY <1>1, <1>3, <1>4, <1>5 DEF Serial

LEMMA SerialStep == ASSUME SerialInv, [Next]_vars PROVE Serial'
  <1>1. ASSUME NEW h \in Threads, NEW i \in Imports, NEW f \in Files, Upload(h, i, f)
        PROVE  Serial'
    <2>1. Uploaded(f) \in Record /\ ~Uploaded(f).approved
      BY DEF Uploaded, Record
    <2>2. ~Known(i)
      BY <1>1 DEF Upload
    <2> QED BY <1>1, <2>1, <2>2, RequestSerial DEF Upload, Requests
  <1>2. ASSUME NEW i \in Imports, Known(i) PROVE records[i] \in Record
    BY <1>2 DEF SerialInv, IInv, TypeOK, Known
  <1>3. ASSUME NEW h \in Threads, NEW i \in Imports, Scan(h, i) PROVE Serial'
    <2>1. /\ Known(i) /\ AfterScan(records[i]) \in Record
          /\ AfterScan(records[i]).approved = records[i].approved
      BY <1>2, <1>3, ComputedRecords DEF Scan
    <2> QED BY <1>3, <2>1, RequestSerial DEF Scan, Requests
  <1>4. ASSUME NEW h \in Threads, NEW i \in Imports, Approve(h, i) PROVE Serial'
    <2>1. AfterApproval(records[i]) \in Record /\ AfterApproval(records[i]).approved
      BY <1>2, <1>4, ComputedRecords DEF Approve
    <2> QED BY <1>4, <2>1, RequestSerial DEF Approve, Requests
  <1>5. ASSUME NEW h \in Threads, NEW i \in Imports, Sanitize(h, i) PROVE Serial'
    <2>1. /\ Known(i) /\ AfterSanitizing(records[i]) \in Record
          /\ AfterSanitizing(records[i]).approved = records[i].approved
      BY <1>2, <1>5, ComputedRecords DEF Sanitize
    <2> QED BY <1>5, <2>1, RequestSerial DEF Sanitize, Requests
  <1>6. ASSUME NEW h \in Threads, NEW i \in Imports, Reject(h, i) PROVE Serial'
    <2>1. AfterRejection(records[i]) \in Record /\ ~AfterRejection(records[i]).approved
      BY <1>2, <1>6, ComputedRecords DEF Reject
    <2> QED BY <1>6, <2>1, RequestSerial DEF Reject, Requests
  <1>7. ASSUME NEW h \in Threads, PutRecord(h) PROVE Serial'
    <2> DEFINE k == frame[h].kind
               r == frame[h].record
               f == [frame[h] EXCEPT !.at =
                       IF k \in {"approved", "rejected"} THEN "register" ELSE "audit"]
    <2> SUFFICES ASSUME ~overlapped' PROVE Serial'
      BY DEF Serial
    <2>1. frame[h] # Idle /\ frame[h].at = "put"
      BY <1>7 DEF PutRecord, Idle
    <2>2. frame[h] \in Busy /\ frame[h].id \in Imports /\ r \in Record
      BY <2>1, BusyShape DEF SerialInv, IInv
    <2>3. /\ f.kind = k /\ f.record = r /\ f.id = frame[h].id
          /\ k \in {"approved", "rejected"} => f.at = "register"
          /\ k \notin {"approved", "rejected"} => f.at = "audit"
      BY <2>2 DEF Busy
    <2>4. /\ ~overlapped
          /\ frame'[h] = f
          /\ \A g \in Threads \ {h} : frame[g] = Idle /\ frame'[g] = Idle
      BY <1>7, Alone DEF PutRecord, SerialInv, IInv
    <2>5. /\ \A j \in Imports : records'[j] = IF j = frame[h].id THEN r ELSE records[j]
          /\ registry' = registry
      BY <1>7, <2>2 DEF PutRecord, SerialInv, IInv, TypeOK
    <2>6. /\ k = "approved" => r.approved
          /\ k = "rejected" => ~r.approved
          /\ k \notin {"approved", "rejected"} => (r.approved <=> Registered(frame[h].id))
      BY <2>1, <2>4 DEF SerialInv, Serial
    <2>7. \A j \in Imports \ {frame[h].id} : (Agrees(j))'
      <3>1. \A j \in Imports \ {frame[h].id} : Quiet(j)
        BY <2>4 DEF Quiet
      <3> QED BY <2>4, <2>5, <3>1 DEF SerialInv, Serial, Agrees, Known, Registered
    <2>8. f # Idle
      BY <2>2, <2>3 DEF Idle
    <2>9. ASSUME k \in {"approved", "rejected"} PROVE Serial'
      <3>1. frame'[h].at = "register" /\ records'[frame'[h].id] = frame'[h].record
        BY <2>2, <2>3, <2>4, <2>5, <2>9
      <3>2. \A j \in Imports : Quiet(j)' => j # frame[h].id
        BY <2>3, <2>4, <2>8 DEF Quiet
      <3>3. frame'[h].record.approved <=> frame'[h].kind = "approved"
        BY <2>3, <2>4, <2>6, <2>9
      <3> QED BY <2>4, <2>7, <3>1, <3>2, <3>3 DEF Serial
    <2>10. ASSUME k \notin {"approved", "rejected"} PROVE Serial'
      <3>1. frame'[h].at = "audit" /\ frame'[h].id = frame[h].id
        BY <2>3, <2>4, <2>10
      <3>2. r # Absent
        BY <2>2 DEF Record, Absent
      <3>3. \A j \in Imports : j = frame[h].id => (Agrees(j))'
        BY <2>2, <2>5, <2>6, <2>10, <3>2 DEF Agrees, Known, Registered
      <3>4. \A j \in Imports : (Agrees(j))'
        BY <2>7, <3>3
      <3> QED BY <2>2, <2>4, <3>1, <3>4 DEF Serial
    <2> QED BY <2>9, <2>10
  <1>8. ASSUME NEW h \in Threads, ChangeRegistry(h) PROVE Serial'
    <2> DEFINE f == [frame[h] EXCEPT !.at = "audit"]
               i == frame[h].id
               kept == IF frame[h].kind = "approved" THEN frame[h].record ELSE Absent
    <2> SUFFICES ASSUME ~overlapped' PROVE Serial'
      BY DEF Serial
    <2>1. frame[h] # Idle /\ frame[h].at = "register"
      BY <1>8 DEF ChangeRegistry, Idle
    <2>2. frame[h] \in Busy /\ i \in Imports /\ frame[h].record \in Record
      BY <2>1, BusyShape DEF SerialInv, IInv
    <2>3. f.id = i /\ f.at = "audit"
      BY <2>2 DEF Busy
    <2>4. /\ ~overlapped
          /\ frame'[h] = f
          /\ \A g \in Threads \ {h} : frame[g] = Idle /\ frame'[g] = Idle
      BY <1>8, Alone DEF ChangeRegistry, SerialInv, IInv
    <2>5. /\ \A j \in Imports : registry'[j] = IF j = i THEN kept ELSE registry[j]
          /\ records' = records
      BY <1>8, <2>2 DEF ChangeRegistry, SerialInv, IInv, TypeOK
    <2>6. records[i] = frame[h].record /\ (records[i].approved <=> frame[h].kind = "approved")
      BY <2>1, <2>4 DEF SerialInv, Serial
    <2>7. records[i] # Absent /\ (frame[h].kind = "approved" <=> kept # Absent)
      BY <2>2, <2>6 DEF Record, Absent
    <2>8. \A j \in Imports : j = i => (Agrees(j))'
      BY <2>2, <2>5, <2>6, <2>7 DEF Agrees, Known, Registered
    <2>9. \A j \in Imports \ {i} : (Agrees(j))'
      <3>1. \A j \in Imports \ {i} : Quiet(j)
        BY <2>4 DEF Quiet
      <3> QED BY <2>4, <2>5, <3>1 DEF SerialInv, Serial, Agrees, Known, Registered
    <2> QED BY <2>2, <2>3, <2>4, <2>8, <2>9 DEF Serial
  <1>9. ASSUME NEW h \in Threads, AppendAudit(h) \/ FailAudit(h) PROVE Serial'
    <2> SUFFICES ASSUME ~overlapped' PROVE Serial'
      BY DEF Serial
    <2>1. frame[h] # Idle /\ frame[h].at = "audit"
      BY <1>9 DEF AppendAudit, FailAudit, Idle
    <2>2. /\ ~overlapped
          /\ frame'[h] = Idle
          /\ \A g \in Threads \ {h} : frame[g] = Idle /\ frame'[g] = Idle
      BY <1>9, Alone DEF AppendAudit, FailAudit, SerialInv, IInv
    <2>3. Agrees(frame[h].id)
      BY <2>1, <2>2 DEF SerialInv, Serial
    <2>4. \A j \in Imports : Quiet(j) \/ j = frame[h].id
      BY <2>2 DEF Quiet
    <2>5. \A j \in Imports : Agrees(j)
      BY <2>2, <2>3, <2>4 DEF SerialInv, Serial
    <2>6. \A j \in Imports : (Agrees(j))'
      BY <1>9, <2>5 DEF AppendAudit, FailAudit, Agrees, Known, Registered
    <2> QED BY <2>2, <2>6 DEF Serial
  <1>10. CASE Restart
    BY <1>10 DEF Restart, Serial, Agrees, Known, Registered, Quiet
  <1>11. CASE UNCHANGED vars
    BY <1>11 DEF vars, SerialInv, Serial, Agrees, Known, Registered, Quiet
  <1> QED BY <1>1, <1>3, <1>4, <1>5, <1>6, <1>7, <1>8, <1>9, <1>10, <1>11 DEF Next

LEMMA SpecSerial == Spec => []SerialInv
  <1>1. Init => SerialInv
    BY InitIInv, SerialInit DEF SerialInv
  <1>2. SerialInv /\ [Next]_vars => SerialInv'
    BY StepIInv, SerialStep DEF SerialInv
  <1> QED BY <1>1, <1>2, PTL DEF Spec

\* What is registered after a scan is harmless, however requests overlap and
\* whatever files are uploaded.
THEOREM RegistersHarmless == Spec => []RegisteredIsHarmless
  <1>1. Init => AllHonest
    BY DEF Init, AllHonest, Known, Registered
  <1>2. IInv /\ AllHonest => RegisteredIsHarmless
    <2> SUFFICES ASSUME IInv, AllHonest, NEW i \in Imports, Registered(i), registry[i].scanned
                 PROVE  Harmless(registry[i].file)
      BY DEF RegisteredIsHarmless
    <2>1. registry[i] \in Record /\ registry[i].found = {}
      BY DEF IInv, TypeOK, RegistryOnlyClean, Registered
    <2>2. registry[i].file \in Files /\ Honest(registry[i])
      BY <2>1 DEF Record, AllHonest
    <2> QED BY <2>1, <2>2, NothingFound DEF Honest
  <1> QED BY <1>1, <1>2, HonestStep, SpecIInv, PTL DEF Spec

\* Until requests overlap, the approved flag of a record and the registry agree
\* between requests, whatever is uploaded, scanned, approved and rejected.
THEOREM ApprovedIsRegistered == Spec => []ApprovedMeansRegistered
  <1>1. SerialInv => ApprovedMeansRegistered
    BY DEF SerialInv, Serial, ApprovedMeansRegistered, Agrees
  <1> QED BY <1>1, SpecSerial, PTL

\* Until requests overlap, no step brings an import with findings into the
\* registry.
THEOREM FindingsBar == Spec => FindingsBlockApproval
  <1> DEFINE Barred == ~overlapped' => \A i \in Imports :
                 Known(i) /\ records[i].found # {} /\ Registered(i)' => Registered(i)
  <1>1. ASSUME SerialInv, [Next]_vars PROVE [Barred]_vars
    <2>1. ASSUME NEW h \in Threads, ChangeRegistry(h), ~overlapped',
                 NEW i \in Imports, records[i].found # {}, Registered(i)'
          PROVE  Registered(i)
      <3>1. frame[h] # Idle /\ frame[h].at = "register"
        BY <2>1 DEF ChangeRegistry, Idle
      <3>2. frame[h].id \in Imports
        BY <1>1, <3>1, BusyShape DEF SerialInv, IInv
      <3>3. registry'[i] = registry[i] \/ (i = frame[h].id /\ registry'[i] = Absent)
                \/ (i = frame[h].id /\ frame[h].kind = "approved")
        BY <1>1, <2>1, <3>2 DEF ChangeRegistry, SerialInv, IInv, TypeOK
      <3>4. ~overlapped
        BY <2>1 DEF ChangeRegistry, Step
      <3>5. records[frame[h].id] = frame[h].record
        BY <1>1, <3>1, <3>4 DEF SerialInv, Serial
      <3>6. frame[h].kind = "approved" => frame[h].record.found = {}
        BY <1>1, <3>1 DEF SerialInv, IInv, RegistryOnlyClean
      <3> QED BY <2>1, <3>3, <3>5, <3>6 DEF Registered
    <2>2. CASE Restart
      BY <2>2 DEF Restart, Registered
    <2>3. CASE registry' = registry
      BY <2>3 DEF Registered
    <2>4. Next => Restart \/ registry' = registry \/ \E h \in Threads : ChangeRegistry(h)
      BY DEF Next, Upload, Scan, Approve, Sanitize, Reject, PutRecord, AppendAudit, FailAudit
    <2> QED BY <1>1, <2>1, <2>2, <2>3, <2>4
  <1> QED BY <1>1, SpecSerial, PTL DEF Spec, FindingsBlockApproval
=============================================================================
