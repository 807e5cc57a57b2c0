-------------------------- MODULE AuditChainProofs --------------------------
(***************************************************************************)
(* Theorems about AuditChain and, after them, about the CheckpointStore    *)
(* that its heads are exported to, for any threads, programs, keys and     *)
(* events, each appended any number of times.                              *)
(***************************************************************************)
EXTENDS CheckpointStore, FiniteSetTheorems, TLAPS

-----------------------------------------------------------------------------
(* Appends that overlap or not.                                            *)

\* Every line holds the digest of its own event and link.
Hashed ==
    /\ \A i \in 1 .. Len(log) : log[i].hash = Hash(log[i].id, log[i].prev)
    /\ \A w \in Writers : Writing(w) =>
          pending[w].hash = Hash(pending[w].id, pending[w].prev)

\* Two threads have appended one event at the same place, in the first n lines.
Twins(n) ==
    \E a, b \in 1 .. n : log[a].hash = log[b].hash /\ log[a].by # log[b].by

\* What a thread is about to write links to a line of the file, and to one
\* it has not linked to before, but for twins.
PendingLinks ==
    \A w \in Writers : Writing(w) =>
        /\ pending[w].by = w
        /\ pending[w].prev \in {Genesis} \cup {log[j].hash : j \in 1 .. Len(log)}
        /\ \A i \in 1 .. Len(log) :
              log[i].by = w /\ log[i].prev = pending[w].prev => Twins(Len(log))

IInv == TypeOK /\ Hashed /\ LinksResolve /\ OwnLinesNeverFork /\ PendingLinks

\* A digest tells what it covers.
LEMMA HashFacts ==
    /\ Genesis \in Digest
    /\ \A e \in EventId, d \in Digest : Hash(e, d) \in Digest /\ Hash(e, d) # Genesis
    /\ \A e, f \in EventId : \A c, d \in Digest : Hash(e, c) = Hash(f, d) => e = f /\ c = d
  <1>1. Genesis \in Digest
    BY DEF Genesis, Digest
  <1>2. ASSUME NEW e \in EventId, NEW d \in Seq(EventId)
        PROVE  Append(d, e) \in Seq(EventId) /\ Append(d, e) # <<>>
    <2>1. Append(d, e) \in Seq(EventId) /\ Len(Append(d, e)) = Len(d) + 1 /\ Len(d) \in Nat
      OBVIOUS
    <2>2. Len(<<>>) = 0
      OBVIOUS
    <2> QED BY ONLY <2>1, <2>2
  <1>3. ASSUME NEW e \in EventId, NEW f \in EventId,
               NEW c \in Seq(EventId), NEW d \in Seq(EventId), Append(c, e) = Append(d, f)
        PROVE  e = f /\ c = d
    <2>1. Len(c) = Len(d) /\ Len(c) \in Nat /\ Append(c, e)[Len(c) + 1] = e
          /\ Append(d, f)[Len(d) + 1] = f
      BY <1>3
    <2>2. \A i \in 1 .. Len(c) : c[i] = Append(c, e)[i] /\ d[i] = Append(d, f)[i]
      BY <2>1
    <2>3. \A i \in 1 .. Len(c) : c[i] = d[i]
      BY <1>3, <2>2
    <2> QED BY <1>3, <2>1, <2>3
  <1> QED BY <1>1, <1>2, <1>3 DEF Genesis, Digest, Hash

\* The file after one more line.
LEMMA AppendLine ==
    ASSUME NEW s \in Seq(Line), NEW e \in Line
    PROVE  /\ Append(s, e) \in Seq(Line)
           /\ Len(Append(s, e)) = Len(s) + 1
           /\ Len(s) \in Nat
           /\ \A i \in 1 .. Len(s) : Append(s, e)[i] = s[i] /\ s[i] \in Line
           /\ Append(s, e)[Len(s) + 1] = e
  OBVIOUS

\* The last hash is the genesis hash or that of a line.
LEMMA LastHashIsDigest ==
    ASSUME TypeOK
    PROVE  /\ LastHash \in Digest
           /\ LastHash \in {Genesis} \cup {log[j].hash : j \in 1 .. Len(log)}
  <1>1. CASE log = <<>>
    BY <1>1, HashFacts DEF LastHash
  <1>2. CASE log # <<>>
    <2>1. Len(log) \in 1 .. Len(log) /\ log[Len(log)] \in Line
      BY <1>2 DEF TypeOK
    <2> QED BY <1>2, <2>1 DEF LastHash, Line
  <1> QED BY <1>1, <1>2

\* Two lines of one digest are of one event and have one link.
LEMMA SameHashSameLink ==
    ASSUME TypeOK, Hashed, NEW a \in 1 .. Len(log), NEW b \in 1 .. Len(log),
           log[a].hash = log[b].hash
    PROVE  log[a].prev = log[b].prev
  <1>1. log[a] \in Line /\ log[b] \in Line
    BY DEF TypeOK
  <1>2. /\ log[a].id \in EventId /\ log[a].prev \in Digest
        /\ log[b].id \in EventId /\ log[b].prev \in Digest
    BY <1>1 DEF Line
  <1>3. Hash(log[a].id, log[a].prev) = Hash(log[b].id, log[b].prev)
    BY DEF Hashed
  <1> QED BY ONLY <1>2, <1>3, HashFacts

\* A line that links to the last hash has it from an earlier line: the last
\* hash only comes back where two threads have appended one event at once.
LEMMA LastHashIsFresh ==
    ASSUME IInv, NEW i \in 1 .. Len(log), log[i].prev = LastHash
    PROVE  Twins(Len(log))
  <1> DEFINE n == Len(log)
  <1>1. n \in 1 .. n /\ LastHash = log[n].hash /\ log[n] \in Line
    BY DEF IInv, TypeOK, LastHash
  <1>2. log[n].hash # Genesis
    <2>1. log[n].hash = Hash(log[n].id, log[n].prev)
      BY <1>1 DEF IInv, Hashed
    <2>2. log[n].id \in EventId /\ log[n].prev \in Digest
      BY <1>1 DEF Line
    <2> QED BY ONLY <2>1, <2>2, HashFacts
  <1>3. PICK j \in 1 .. i - 1 : log[i].prev = log[j].hash
    BY <1>1, <1>2 DEF IInv, LinksResolve
  <1>4. j \in 1 .. n /\ n \in j + 1 .. n /\ log[j].hash = log[n].hash
    BY <1>1, <1>3
  <1>5. CASE log[j].by # log[n].by
    BY <1>1, <1>4, <1>5 DEF Twins
  <1>6. CASE log[j].by = log[n].by
    <2>1. log[j].prev = log[n].prev
      BY <1>1, <1>4, SameHashSameLink DEF IInv
    <2>2. PICK a, b \in 1 .. n - 1 : log[a].hash = log[b].hash /\ log[a].by # log[b].by
      BY <1>4, <1>6, <2>1 DEF IInv, OwnLinesNeverFork
    <2>3. a \in 1 .. n /\ b \in 1 .. n
      BY <1>1
    <2> QED BY <2>2, <2>3 DEF Twins
  <1> QED BY <1>5, <1>6

\* The invariant holds of the empty file.
LEMMA InitIInv == ASSUME Init PROVE IInv
  <1>1. log = <<>> /\ log \in Seq(Line) /\ 1 .. Len(log) = {}
    BY DEF Init
  <1>2. \A w \in Writers : ~Writing(w)
    BY DEF Init, Writing
  <1>3. TypeOK
    BY <1>1 DEF Init, TypeOK
  <1>4. Hashed /\ PendingLinks
    BY <1>1, <1>2 DEF Hashed, PendingLinks
  <1>5. LinksResolve /\ OwnLinesNeverFork
    BY <1>1 DEF LinksResolve, OwnLinesNeverFork
  <1> QED BY <1>3, <1>4, <1>5 DEF IInv

\* A new line holds its digest and links to the last one.
LEMMA ReadIInv ==
    ASSUME IInv, NEW w \in Writers, NEW e \in EventId, ReadLastHash(w, e)
    PROVE  IInv'
  <1> DEFINE line == NewLine(w, e)
  <1>1. /\ pending' = [pending EXCEPT ![w] = line]
        /\ UNCHANGED <<log, torn, unended, acked, key>>
        /\ overlapped' \in BOOLEAN
    BY DEF ReadLastHash
  <1>2. /\ line \in Line
        /\ line.by = w /\ line.id = e /\ line.prev = LastHash
        /\ line.hash = Hash(line.id, line.prev)
    BY LastHashIsDigest, HashFacts DEF NewLine, Line, IInv, TypeOK
  <1>3. /\ pending'[w] = line
        /\ \A u \in Writers : u # w => pending'[u] = pending[u]
    BY <1>1 DEF IInv, TypeOK
  <1>4. \A u \in Writers : Writing(u)' /\ u # w => Writing(u)
    BY <1>3 DEF Writing
  <1>5. TypeOK'
    BY <1>1, <1>2 DEF IInv, TypeOK
  <1>6. Hashed'
    BY <1>1, <1>2, <1>3, <1>4 DEF IInv, Hashed
  <1>7. LinksResolve' /\ OwnLinesNeverFork'
    BY <1>1 DEF IInv, LinksResolve, OwnLinesNeverFork
  <1>8. Twins(Len(log)) => Twins(Len(log))'
    BY <1>1 DEF Twins
  <1>9. PendingLinks'
    <2> SUFFICES ASSUME NEW u \in Writers, Writing(u)'
                 PROVE  /\ pending'[u].by = u
                        /\ pending'[u].prev \in {Genesis} \cup {log[j].hash : j \in 1 .. Len(log)}
                        /\ \A i \in 1 .. Len(log) :
                              log[i].by = u /\ log[i].prev = pending'[u].prev => Twins(Len(log))
      BY <1>1, <1>8 DEF PendingLinks
    <2>1. CASE u = w
      BY <1>2, <1>3, <2>1, LastHashIsDigest, LastHashIsFresh DEF IInv
    <2>2. CASE u # w
      BY <1>3, <1>4, <2>2 DEF IInv, PendingLinks
    <2> QED BY <2>1, <2>2
  <1> QED BY <1>5, <1>6, <1>7, <1>9 DEF IInv

\* A thread that leaves append(), and the others.
LEMMA LeaveFacts ==
    ASSUME TypeOK, NEW w \in Writers, Leave(w)
    PROVE  /\ Writing(w) /\ pending[w] \in Line /\ UNCHANGED <<key, overlapped>>
           /\ pending' \in [Writers -> Line \cup {NoLine}]
           /\ \A u \in Writers : Writing(u)' => Writing(u) /\ u # w /\ pending'[u] = pending[u]
  BY DEF Leave, Writing, TypeOK

\* What a thread held of its line now holds of the file.
LEMMA AppendIInv ==
    ASSUME IInv, NEW w \in Writers, Leave(w), log' = Append(log, pending[w]), TypeOK'
    PROVE  IInv'
  <1> DEFINE n == Len(log)
             line == pending[w]
  <1>1. /\ Writing(w) /\ line \in Line
        /\ \A u \in Writers : Writing(u)' => Writing(u) /\ pending'[u] = pending[u]
        /\ \A u \in Writers : Writing(u)' => u # w
    BY LeaveFacts DEF IInv
  <1>2. /\ Len(log') = n + 1 /\ n \in Nat
        /\ \A i \in 1 .. n : log'[i] = log[i] /\ log[i] \in Line
        /\ log'[n + 1] = line
    BY <1>1, AppendLine DEF IInv, TypeOK
  <1>3. Hashed'
    BY <1>1, <1>2 DEF IInv, Hashed
  <1>4. LinksResolve'
    <2> SUFFICES ASSUME NEW i \in 1 .. n + 1
                 PROVE  log'[i].prev \in {Genesis} \cup {log'[j].hash : j \in 1 .. i - 1}
      BY <1>2 DEF LinksResolve
    <2>1. \A j \in 1 .. i - 1 : j \in 1 .. n /\ log'[j] = log[j]
      BY <1>2
    <2>2. CASE i = n + 1
      <3>1. line.prev \in {Genesis} \cup {log[j].hash : j \in 1 .. n}
        BY <1>1 DEF IInv, PendingLinks
      <3> QED BY <1>2, <2>1, <2>2, <3>1
    <2>3. CASE i \in 1 .. n
      <3>1. log[i].prev \in {Genesis} \cup {log[j].hash : j \in 1 .. i - 1}
        BY <2>3 DEF IInv, LinksResolve
      <3> QED BY <1>2, <2>1, <2>3, <3>1
    <2> QED BY <1>2, <2>2, <2>3
  <1>5. ASSUME Twins(n)
        PROVE  \E a, b \in 1 .. n : log'[a].hash = log'[b].hash /\ log'[a].by # log'[b].by
    BY <1>2, <1>5 DEF Twins
  <1>6. OwnLinesNeverFork'
    <2> SUFFICES ASSUME NEW i \in 1 .. Len(log'), NEW j \in i + 1 .. Len(log'),
                        log'[i].prev = log'[j].prev, log'[i].by = log'[j].by
                 PROVE  \E a, b \in 1 .. j - 1 :
                            log'[a].hash = log'[b].hash /\ log'[a].by # log'[b].by
      BY DEF OwnLinesNeverFork
    <2>1. i \in 1 .. n /\ log'[i] = log[i]
      BY <1>2
    <2>2. CASE j = n + 1
      <3>1. Twins(n)
        BY <1>1, <1>2, <2>1, <2>2 DEF IInv, PendingLinks
      <3>2. j - 1 = n
        BY <1>2, <2>2
      <3> QED BY <1>5, <3>1, <3>2
    <2>3. CASE j \in 1 .. n
      <3>1. j \in i + 1 .. n /\ log'[j] = log[j]
        BY <1>2, <2>3
      <3>2. PICK a, b \in 1 .. j - 1 : log[a].hash = log[b].hash /\ log[a].by # log[b].by
        BY <2>1, <3>1 DEF IInv, OwnLinesNeverFork
      <3>3. a \in 1 .. n /\ b \in 1 .. n
        BY <1>2, <2>3
      <3> QED BY <1>2, <3>2, <3>3
    <2> QED BY <1>2, <2>2, <2>3
  <1>7. PendingLinks'
    <2> SUFFICES ASSUME NEW u \in Writers, Writing(u)'
                 PROVE  /\ pending'[u].by = u
                        /\ pending'[u].prev \in {Genesis} \cup {log'[j].hash : j \in 1 .. n + 1}
                        /\ \A i \in 1 .. n + 1 :
                              log'[i].by = u /\ log'[i].prev = pending'[u].prev => Twins(Len(log))'
      BY <1>2 DEF PendingLinks
    <2>1. /\ pending'[u].by = u /\ u # w
          /\ pending'[u].prev \in {Genesis} \cup {log[j].hash : j \in 1 .. n}
          /\ \A i \in 1 .. n : log[i].by = u /\ log[i].prev = pending'[u].prev => Twins(n)
      BY <1>1 DEF IInv, PendingLinks
    <2>2. line.by = w
      BY <1>1 DEF IInv, PendingLinks
    <2>3. Twins(n) => Twins(Len(log))'
      BY <1>2, <1>5 DEF Twins
    <2>4. {log[j].hash : j \in 1 .. n} \subseteq {log'[j].hash : j \in 1 .. n + 1}
      BY <1>2
    <2>5. \A i \in 1 .. n + 1 : log'[i].by = u => i \in 1 .. n /\ log'[i] = log[i]
      BY <1>2, <2>1, <2>2
    <2> QED BY <2>1, <2>3, <2>4, <2>5
  <1> QED BY <1>3, <1>4, <1>6, <1>7 DEF IInv

\* A step that leaves the file alone, and lets no thread begin an append,
\* keeps everything but the types.
LEMMA QuietIInv ==
    ASSUME IInv, TypeOK', UNCHANGED log,
           \A u \in Writers : Writing(u)' => Writing(u) /\ pending'[u] = pending[u]
    PROVE  IInv'
  <1>1. Hashed'
    BY DEF IInv, Hashed
  <1>2. LinksResolve' /\ OwnLinesNeverFork'
    BY DEF IInv, LinksResolve, OwnLinesNeverFork
  <1>3. PendingLinks'
    BY DEF IInv, PendingLinks, Twins
  <1> QED BY <1>1, <1>2, <1>3 DEF IInv

\* The three ways out of append(): a line is added to the file or none is.
LEMMA LeaveIInv ==
    ASSUME IInv, NEW w \in Writers, WriteLine(w) \/ FailWrite(w) \/ TearWrite(w)
    PROVE  IInv' /\ (log' = log \/ log' = Append(log, pending[w]))
  <1>1. Leave(w) /\ (log' = log \/ log' = Append(log, pending[w]))
    BY DEF WriteLine, FailWrite, TearWrite
  <1>2. TypeOK'
    <2>1. log' \in Seq(Line)
      BY <1>1, LeaveFacts, AppendLine DEF IInv, TypeOK
    <2>2. torn' \in BOOLEAN /\ unended' \in BOOLEAN
      BY DEF WriteLine, FailWrite, TearWrite, IInv, TypeOK
    <2>3. acked' \in [EventId -> Nat]
      <3>1. pending[w].id \in EventId
        BY <1>1, LeaveFacts DEF IInv, Line
      <3>2. [acked EXCEPT ![pending[w].id] = @ + 1] \in [EventId -> Nat]
        BY <3>1 DEF IInv, TypeOK
      <3> QED BY <3>2 DEF WriteLine, FailWrite, TearWrite, IInv, TypeOK
    <2> QED BY <1>1, <2>1, <2>2, <2>3, LeaveFacts DEF IInv, TypeOK
  <1>3. CASE log' = log
    BY <1>1, <1>2, <1>3, LeaveFacts, QuietIInv DEF IInv
  <1>4. CASE log' = Append(log, pending[w])
    BY <1>1, <1>2, <1>4, AppendIInv
  <1> QED BY <1>1, <1>3, <1>4

\* Every step keeps the invariant.
LEMMA StepIInv == ASSUME IInv, [Next]_vars PROVE IInv'
  <1>1. ASSUME NEW w \in Writers, NEW e \in EventId, ReadLastHash(w, e) PROVE IInv'
    BY <1>1, ReadIInv
  <1>2. ASSUME NEW w \in Writers, WriteLine(w) \/ FailWrite(w) \/ TearWrite(w) PROVE IInv'
    BY <1>2, LeaveIInv
  <1>3. CASE Restart
    <2>1. TypeOK' /\ \A u \in Writers : ~Writing(u)'
      BY <1>3 DEF Restart, IInv, TypeOK, Writing
    <2> QED BY <1>3, <2>1, QuietIInv DEF Restart
  <1>4. CASE UNCHANGED vars
    <2>1. TypeOK' /\ \A u \in Writers : Writing(u)' = Writing(u)
      BY <1>4 DEF vars, IInv, TypeOK, Writing
    <2> QED BY <1>4, <2>1, QuietIInv DEF vars
  <1> QED BY <1>1, <1>2, <1>3, <1>4 DEF Next

\* The invariant holds of every behaviour.
LEMMA SpecIInv == Spec => []IInv
  BY InitIInv, StepIInv, PTL DEF Spec

\* The file and the threads keep their types.
THEOREM TypeCorrect == Spec => []TypeOK
  <1>1. IInv => TypeOK
    BY DEF IInv
  <1> QED BY <1>1, SpecIInv, PTL

\* Whatever overlaps, fails or restarts, every line of the file links to an
\* earlier line or to the genesis hash.
THEOREM LinksAlwaysResolve == Spec => []LinksResolve
  <1>1. IInv => LinksResolve
    BY DEF IInv
  <1> QED BY <1>1, SpecIInv, PTL

\* However many threads there are, and however often one event is appended:
\* a thread forks its own chain only behind two lines that two threads have
\* written of one event at one place.
THEOREM ForksNeedTwoThreads == Spec => []OwnLinesNeverFork
  <1>1. IInv => OwnLinesNeverFork
    BY DEF IInv
  <1> QED BY <1>1, SpecIInv, PTL

\* One more line of an event, and the lines of the others.
LEMMA LinesAfterAppend ==
    ASSUME IInv, NEW w \in Writers, Writing(w), log' = Append(log, pending[w]),
           NEW e \in EventId
    PROVE  /\ Cardinality(LinesOf(e)) \in Nat
           /\ Cardinality(LinesOf(e)') =
                 IF e = pending[w].id THEN Cardinality(LinesOf(e)) + 1
                                      ELSE Cardinality(LinesOf(e))
  <1> DEFINE n == Len(log)
  <1>1. pending[w] \in Line
    BY DEF IInv, TypeOK, Writing
  <1>2. /\ Len(log') = n + 1 /\ n \in Nat /\ log'[n + 1] = pending[w]
        /\ \A i \in 1 .. n : log'[i] = log[i]
    BY <1>1, AppendLine DEF IInv, TypeOK
  <1>3. IsFiniteSet(LinesOf(e)) /\ n + 1 \notin LinesOf(e)
    <2>1. LinesOf(e) \subseteq 1 .. n
      BY DEF LinesOf
    <2>2. IsFiniteSet(1 .. n)
      BY <1>2, FS_Interval
    <2>3. IsFiniteSet(LinesOf(e))
      BY <2>1, <2>2, FS_Subset
    <2> QED BY <1>2, <2>1, <2>3
  <1>4. LinesOf(e)' = IF e = pending[w].id THEN LinesOf(e) \cup {n + 1} ELSE LinesOf(e)
    <2>1. \A i \in 1 .. n + 1 : i \in 1 .. n \/ i = n + 1
      BY <1>2
    <2>2. 1 .. n \subseteq 1 .. n + 1 /\ n + 1 \in 1 .. n + 1
      BY <1>2
    <2> QED BY <1>2, <2>1, <2>2 DEF LinesOf
  <1>5. Cardinality(LinesOf(e)) \in Nat
    BY <1>3, FS_CardinalityType
  <1>6. Cardinality(LinesOf(e) \cup {n + 1}) = Cardinality(LinesOf(e)) + 1
    BY <1>3, FS_AddElement
  <1> QED BY <1>4, <1>5, <1>6

\* An event that is acknowledged has a line of its own by then, and no step
\* takes a line away.
LEMMA AckedStep == ASSUME IInv, AckedReadable, [Next]_vars PROVE AckedReadable'
  <1>1. ASSUME NEW w \in Writers, Leave(w), log' = Append(log, pending[w]), ~torn,
               acked' \in {acked, [acked EXCEPT ![pending[w].id] = @ + 1]}
        PROVE  AckedReadable'
    <2> SUFFICES ASSUME NEW e \in EventId
                 PROVE  acked'[e] <= Cardinality(LinesOf(e)')
      BY DEF AckedReadable
    <2>1. acked[e] <= Cardinality(LinesOf(e)) /\ acked[e] \in Nat
      BY <1>1 DEF AckedReadable, IInv, TypeOK
    <2>2. acked'[e] = acked[e] \/ (e = pending[w].id /\ acked'[e] = acked[e] + 1)
      BY <1>1 DEF IInv, TypeOK
    <2>3. /\ Cardinality(LinesOf(e)) \in Nat
          /\ Cardinality(LinesOf(e)') =
                IF e = pending[w].id THEN Cardinality(LinesOf(e)) + 1
                                     ELSE Cardinality(LinesOf(e))
      BY <1>1, LinesAfterAppend DEF Leave
    <2> QED BY <2>1, <2>2, <2>3
  <1>2. CASE UNCHANGED <<log, acked>> /\ (torn => torn')
    BY <1>2 DEF AckedReadable, LinesOf
  <1>3. CASE torn'
    BY <1>3 DEF AckedReadable
  <1>4. ASSUME NEW w \in Writers, WriteLine(w) PROVE AckedReadable'
    BY <1>1, <1>3, <1>4 DEF WriteLine
  <1>5. ASSUME NEW w \in Writers, TearWrite(w) PROVE AckedReadable'
    BY <1>1, <1>3, <1>5 DEF TearWrite
  <1>6. ASSUME NEW w \in Writers, FailWrite(w) \/ \E e \in EventId : ReadLastHash(w, e)
        PROVE  AckedReadable'
    BY <1>2, <1>6 DEF FailWrite, ReadLastHash
  <1>7. CASE Restart \/ UNCHANGED vars
    BY <1>2, <1>7 DEF Restart, vars
  <1> QED BY <1>4, <1>5, <1>6, <1>7 DEF Next

\* Whatever overlaps, fails or restarts, and however often one event is
\* appended: it stands in the file at least as often as append() returned,
\* unless the file is damaged.
THEOREM AckedIsReadable == Spec => []AckedReadable
  <1>1. Init => AckedReadable
    <2> SUFFICES ASSUME Init, NEW e \in EventId
                 PROVE  acked[e] <= Cardinality(LinesOf(e))
      BY DEF AckedReadable
    <2>1. LinesOf(e) = {} /\ acked[e] = 0
      BY DEF Init, LinesOf
    <2> QED BY <2>1, FS_EmptySet
  <1> QED BY <1>1, SpecIInv, AckedStep, PTL DEF Spec

-----------------------------------------------------------------------------
(* Appends that have not overlapped.                                       *)

\* At most one thread is about to write, nobody has added a line since it
\* read the last hash, and so far every line links to the one before it.
Serial ==
    ~overlapped =>
        /\ LinksValid
        /\ \A w \in Writers : Writing(w) =>
              /\ pending[w].prev = LastHash
              /\ \A u \in Writers : Writing(u) => u = w

SerialInv == IInv /\ Serial

\* An empty file has no link to be wrong.
LEMMA SerialInit == ASSUME Init PROVE Serial
  BY DEF Init, Serial, LinksValid, Writing

\* A step that leaves the file alone and lets no thread begin an append
\* keeps Serial.
LEMMA SerialQuiet ==
    ASSUME Serial, UNCHANGED <<log, overlapped>>,
           \A u \in Writers : Writing(u)' => Writing(u) /\ pending'[u] = pending[u]
    PROVE  Serial'
  BY DEF Serial, LinksValid, LinkBefore, LastHash

\* Every step keeps Serial: a read that overlaps a write sets the flag.
LEMMA SerialStep == ASSUME SerialInv, [Next]_vars PROVE Serial'
  <1> USE DEF SerialInv
  <1>1. ASSUME NEW w \in Writers, NEW e \in EventId, ReadLastHash(w, e) PROVE Serial'
    <2> SUFFICES ASSUME ~overlapped' PROVE Serial'
      BY DEF Serial
    <2>1. /\ ~overlapped /\ \A v \in Writers : ~Writing(v)
          /\ log' = log /\ pending' = [pending EXCEPT ![w] = NewLine(w, e)]
      BY <1>1 DEF ReadLastHash
    <2>2. LastHash' = LastHash /\ LinksValid'
      BY <2>1 DEF Serial, LinksValid, LinkBefore, LastHash
    <2>3. pending'[w].prev = LastHash /\ \A u \in Writers : Writing(u)' => u = w
      BY <2>1 DEF IInv, TypeOK, NewLine, Writing
    <2> QED BY <2>2, <2>3 DEF Serial
  <1>2. ASSUME NEW w \in Writers, WriteLine(w) \/ FailWrite(w) \/ TearWrite(w) PROVE Serial'
    <2> SUFFICES ASSUME ~overlapped PROVE Serial'
      BY <1>2, LeaveFacts DEF Serial, WriteLine, FailWrite, TearWrite, IInv
    <2>1. Leave(w) /\ Writing(w)
      BY <1>2 DEF WriteLine, FailWrite, TearWrite, Leave
    <2>2. \A u \in Writers : ~Writing(u)'
      BY <2>1, LeaveFacts DEF Serial, IInv
    <2>3. CASE log' = log
      BY <2>1, <2>2, <2>3, LeaveFacts, SerialQuiet DEF IInv
    <2>4. CASE log' = Append(log, pending[w])
      <3> DEFINE n == Len(log)
                 line == pending[w]
      <3>1. line \in Line
        BY <2>1, LeaveFacts DEF IInv
      <3>2. log' = Append(log, line)
        BY <2>4
      <3>3. /\ Len(log') = n + 1 /\ n \in Nat
            /\ \A i \in 1 .. n : log'[i] = log[i]
            /\ log'[n + 1] = line
        BY <3>1, <3>2, AppendLine DEF IInv, TypeOK
      <3>4. line.prev = LastHash /\ line.hash = Hash(line.id, line.prev)
        BY <2>1 DEF Serial, IInv, Hashed
      <3>5. LastHash = IF n + 1 = 1 THEN Genesis ELSE log'[n].hash
        <4>1. n = 0 <=> log = <<>>
          BY DEF IInv, TypeOK
        <4> QED BY <3>3, <4>1 DEF LastHash
      <3>6. \A i \in 1 .. n : LinkBefore(i)' = LinkBefore(i)
        BY <3>3 DEF LinkBefore
      <3>7. \A i \in 1 .. n + 1 : i = n + 1 => LinkBefore(i)' = LastHash
        BY <3>3, <3>5 DEF LinkBefore
      <3>8. \A i \in 1 .. n + 1 : /\ log'[i].prev = LinkBefore(i)'
                                 /\ log'[i].hash = Hash(log'[i].id, log'[i].prev)
        <4>1. \A i \in 1 .. n + 1 : i \in 1 .. n \/ i = n + 1
          BY <3>3
        <4> QED BY <3>3, <3>4, <3>6, <3>7, <4>1 DEF Serial, LinksValid
      <3> QED BY <2>2, <3>3, <3>8 DEF Serial, LinksValid
    <2> QED BY <1>2, <2>3, <2>4, LeaveIInv
  <1>3. CASE Restart
    BY <1>3, SerialQuiet DEF Restart, Writing
  <1>4. CASE UNCHANGED vars
    BY <1>4, SerialQuiet DEF vars, Writing
  <1> QED BY <1>1, <1>2, <1>3, <1>4 DEF Next

\* Both invariants hold of every behaviour.
LEMMA SpecSerial == Spec => []SerialInv
  <1>1. Init => SerialInv
    BY InitIInv, SerialInit DEF SerialInv
  <1>2. SerialInv /\ [Next]_vars => SerialInv'
    BY StepIInv, SerialStep DEF SerialInv
  <1> QED BY <1>1, <1>2, PTL DEF Spec

\* As long as appends do not overlap - a property of the load, not of the
\* code - nothing that fails or restarts makes verify() fail, except a
\* damaged line or another signing key.
THEOREM SerialChainVerifies == Spec => []ChainVerifies
  <1>1. SerialInv => ChainVerifies
    BY DEF SerialInv, Serial, ChainVerifies, Verify, SignaturesValid
  <1> QED BY <1>1, SpecSerial, PTL

\* The file implements the promised log.  Building a line, failing, exporting
\* and restarting are stutters, an overlap is a contention, and writing a
\* line adds it.
THEOREM ChainImplementsLog == Spec => ImplementsLog
  <1>1. Init => Promise!Init
    BY DEF Init, Promise!Init
  <1>2. SerialInv /\ [Next]_vars => [Promise!Add \/ Promise!Contend]_(Promise!vars)
    <2> SUFFICES ASSUME SerialInv, [Next]_vars
                 PROVE  \/ Promise!Add \/ Promise!Contend
                        \/ UNCHANGED <<log, overlapped>>
      BY DEF Promise!vars
    <2>1. ASSUME NEW w \in Writers, NEW e \in EventId, ReadLastHash(w, e)
          PROVE  Promise!Contend \/ UNCHANGED <<log, overlapped>>
      BY <2>1 DEF ReadLastHash, Promise!Contend, SerialInv, IInv, TypeOK
    <2>2. ASSUME NEW w \in Writers, Leave(w), log' = Append(log, pending[w])
          PROVE  Promise!Add
      <3> DEFINE line == pending[w]
      <3>1. log' = Append(log, line) /\ Writing(w) /\ UNCHANGED overlapped
        BY <2>2 DEF Leave
      <3>2. /\ line \in Line /\ line.by = w
            /\ line.hash = Hash(line.id, line.prev)
            /\ line.prev \in {Genesis} \cup {log[j].hash : j \in 1 .. Len(log)}
        BY <2>2, <3>1, LeaveFacts DEF SerialInv, IInv, Hashed, PendingLinks
      <3>3. line.prev \in IF overlapped THEN Promise!EarlierHashes ELSE {Promise!HeadHash}
        BY <3>1, <3>2 DEF SerialInv, Serial, LastHash, Promise!HeadHash, Promise!EarlierHashes
      <3>4. line = Promise!Entry(w, line.id, line.prev, line.sig)
        BY <3>2 DEF Promise!Entry, Line
      <3>5. line.id \in EventId /\ line.sig \in Keys
        BY <3>2 DEF Line
      <3> QED BY <3>1, <3>3, <3>4, <3>5 DEF Promise!Add
    <2>3. ASSUME NEW w \in Writers, WriteLine(w) \/ FailWrite(w) \/ TearWrite(w)
          PROVE  Promise!Add \/ UNCHANGED <<log, overlapped>>
      <3>1. Leave(w) /\ UNCHANGED overlapped /\ (log' = log \/ log' = Append(log, pending[w]))
        BY <2>3 DEF WriteLine, FailWrite, TearWrite, Leave
      <3> QED BY <2>2, <3>1
    <2>4. CASE Restart \/ UNCHANGED vars
      BY <2>4 DEF Restart, vars
    <2> QED BY <2>1, <2>3, <2>4 DEF Next
  <1> QED BY <1>1, <1>2, SpecSerial, PTL DEF Spec, ImplementsLog, Promise!Spec

-----------------------------------------------------------------------------
(* CheckpointStore: the chain goes on as if nobody exported.               *)

LEMMA StoreStepIsChainStep == ASSUME [StoreNext]_<<vars, storeVars>> PROVE [Next]_vars
  <1>1. ASSUME NEW x \in Exporters,
               Export(x) \/ LinkToLast(x) \/ StoreLine(x) \/ TearStore(x) \/ End(x)
        PROVE  UNCHANGED vars
    BY <1>1 DEF Export, LinkToLast, StoreLine, TearStore, End, vars
  <1> QED BY <1>1 DEF StoreNext, Next

\* What is proved of the audit chain holds where its heads are exported too.
THEOREM StoreKeepsChain == StoreSpec => Spec
  <1>1. StoreInit => Init
    BY DEF StoreInit
  <1> QED BY <1>1, StoreStepIsChainStep, PTL DEF StoreSpec, Spec

\* The file of the chain only grows.
LEMMA ChainGrows ==
    ASSUME IInv, [Next]_vars
    PROVE  /\ Len(log) \in Nat /\ Len(log') \in Nat /\ Len(log) <= Len(log')
           /\ \A i \in 1 .. Len(log) : log'[i] = log[i]
  <1>1. log \in Seq(Line) /\ Len(log) \in Nat
    BY DEF IInv, TypeOK
  <1>2. ASSUME NEW w \in Writers, WriteLine(w) \/ FailWrite(w) \/ TearWrite(w)
        PROVE  /\ Len(log') \in {Len(log), Len(log) + 1}
               /\ \A i \in 1 .. Len(log) : log'[i] = log[i]
    <2>1. pending[w] \in Line /\ (log' = log \/ log' = Append(log, pending[w]))
      BY <1>2, LeaveFacts, LeaveIInv DEF WriteLine, FailWrite, TearWrite, IInv
    <2> QED BY <1>1, <2>1, AppendLine
  <1>3. ASSUME NEW w \in Writers, NEW e \in EventId, ReadLastHash(w, e) PROVE log' = log
    BY <1>3 DEF ReadLastHash
  <1>4. CASE Restart \/ UNCHANGED vars
    BY <1>1, <1>4 DEF Restart, vars
  <1> QED BY <1>1, <1>2, <1>3, <1>4 DEF Next

-----------------------------------------------------------------------------
(* Checkpoints and the chain, however exports overlap.                     *)

Links(x) == hand[x].at = "link"
Writes(x) == hand[x].at = "write"

\* Checkpoint c names a prefix of file f.
Names(c, f) ==
    /\ c.count <= Len(f)
    /\ c.hash = IF c.count = 0 THEN Genesis ELSE f[c.count].hash

\* Whatever is stored or under way names a prefix of the chain.
AllOnChain ==
    /\ \A i \in 1 .. Len(store) : Names(store[i].of, log)
    /\ \A x \in Exporters : Links(x) => Names(hand[x].of, log)
    /\ \A x \in Exporters : Writes(x) => Names(hand[x].line.of, log)

\* What a program is about to write has its own digest and links to a line.
HandLinks ==
    \A x \in Exporters : Writes(x) =>
        /\ hand[x].line.by = x
        /\ hand[x].line.hash = Hash(hand[x].line.id, hand[x].line.prev)
        /\ hand[x].line.prev \in {Genesis} \cup {store[j].hash : j \in 1 .. Len(store)}

StoreInv == IInv /\ StoreTypeOK /\ AllOnChain /\ HandLinks

\* The types of what the programs hold.
LEMMA HandTypes ==
    ASSUME StoreTypeOK, NEW x \in Exporters
    PROVE  /\ Links(x) => hand[x].id \in 1 .. MaxExports /\ hand[x].of \in Exported
           /\ Writes(x) => hand[x].line \in Stored
           /\ hand[x] = Idle => ~Links(x) /\ ~Writes(x)
           /\ hand[x] = Idle \/ Links(x) \/ Writes(x)
  BY DEF StoreTypeOK, Idle, Holding, Linked, Links, Writes

LEMMA StoredTypes ==
    ASSUME StoreTypeOK
    PROVE  /\ Len(store) \in Nat
           /\ \A i \in 1 .. Len(store) : store[i] \in Stored /\ store[i].of \in Exported
  <1>1. Len(store) \in Nat /\ \A i \in 1 .. Len(store) : store[i] \in Stored
    BY DEF StoreTypeOK
  <1>2. \A l \in Stored : l.of \in Exported
    BY DEF Stored
  <1> QED BY <1>1, <1>2

\* The store after one more line.
LEMMA AppendStored ==
    ASSUME NEW s \in Seq(Stored), NEW e \in Stored
    PROVE  /\ Append(s, e) \in Seq(Stored)
           /\ Len(Append(s, e)) = Len(s) + 1
           /\ Len(s) \in Nat
           /\ \A i \in 1 .. Len(s) : Append(s, e)[i] = s[i] /\ s[i] \in Stored
           /\ Append(s, e)[Len(s) + 1] = e
  OBVIOUS

\* Digests of the store, as of the chain.
LEMMA StoreHashFacts ==
    /\ Genesis \in StoredDigest
    /\ \A e \in 1 .. MaxExports, d \in StoredDigest : Hash(e, d) \in StoredDigest
  BY DEF Genesis, StoredDigest, Hash

LEMMA StoreHashIsDigest ==
    ASSUME StoreTypeOK
    PROVE  /\ StoreHash \in StoredDigest
           /\ StoreHash \in {Genesis} \cup {store[j].hash : j \in 1 .. Len(store)}
  <1>1. CASE store = <<>>
    BY <1>1, StoreHashFacts DEF StoreHash
  <1>2. CASE store # <<>>
    <2>1. Len(store) \in 1 .. Len(store) /\ store[Len(store)] \in Stored
      BY <1>2 DEF StoreTypeOK
    <2> QED BY <1>2, <2>1 DEF StoreHash, Stored
  <1> QED BY <1>1, <1>2

\* A checkpoint names the same prefix when the chain has grown.
LEMMA PrefixIsStable ==
    ASSUME IInv, [Next]_vars
    PROVE  \A c \in Exported : Names(c, log) => Names(c, log')
  <1> SUFFICES ASSUME NEW c \in Exported, Names(c, log) PROVE Names(c, log')
    OBVIOUS
  <1>1. c.count \in Nat /\ c.count <= Len(log)
    BY DEF Exported, Names
  <1>2. c.count # 0 => c.count \in 1 .. Len(log)
    BY <1>1, ChainGrows
  <1> QED BY <1>1, <1>2, ChainGrows DEF Names

\* The head names the whole chain.
LEMMA HeadNamesChain ==
    ASSUME TypeOK
    PROVE  ChainHead \in Exported /\ Names(ChainHead, log) /\ ChainHead.count = Len(log)
  <1>1. Len(log) \in Nat /\ (Len(log) = 0 <=> log = <<>>)
    BY DEF TypeOK
  <1>2. ChainHead \in Exported
    BY <1>1, LastHashIsDigest DEF ChainHead, Exported, TypeOK
  <1> QED BY <1>1, <1>2 DEF ChainHead, Names, LastHash

LEMMA InitStoreInv == ASSUME StoreInit PROVE StoreInv
  <1>1. IInv
    BY InitIInv DEF StoreInit
  <1>2. store = <<>> /\ Len(store) = 0 /\ \A x \in Exporters : ~Links(x) /\ ~Writes(x)
    BY DEF StoreInit, Idle, Links, Writes
  <1>3. exports \in 0 .. MaxExports
    BY ExportsAssumption DEF StoreInit, ExportsAssumption
  <1>4. StoreTypeOK
    <2>1. <<>> \in Seq(Stored)
      OBVIOUS
    <2>3. store \in Seq(Stored) /\ storeTorn \in BOOLEAN /\ crossed \in BOOLEAN
      BY <2>1 DEF StoreInit
    <2>2. hand \in [Exporters -> {Idle} \cup Holding \cup Linked]
      BY DEF StoreInit
    <2> QED BY <1>1, <1>3, <2>2, <2>3 DEF StoreTypeOK, IInv
  <1>5. AllOnChain /\ HandLinks
    BY <1>2 DEF AllOnChain, HandLinks
  <1> QED BY <1>1, <1>4, <1>5 DEF StoreInv

LEMMA StepStoreTypes == ASSUME StoreInv, [StoreNext]_<<vars, storeVars>> PROVE StoreTypeOK'
  <1>1. TypeOK'
    BY StoreStepIsChainStep, StepIInv DEF StoreInv, IInv
  <1>2. ASSUME NEW x \in Exporters, Export(x) PROVE StoreTypeOK'
    <2>1. [at |-> "link", id |-> exports + 1, of |-> ChainHead] \in Holding
      BY <1>2, HeadNamesChain, ExportsAssumption
         DEF Holding, Export, StoreInv, StoreTypeOK, ExportsAssumption
    <2>2. exports + 1 \in 0 .. MaxExports
      BY <1>2, ExportsAssumption DEF Export, StoreInv, StoreTypeOK, ExportsAssumption
    <2> QED BY <1>1, <1>2, <2>1, <2>2 DEF Export, Turn, StoreInv, StoreTypeOK
  <1>3. ASSUME NEW x \in Exporters, LinkToLast(x) PROVE StoreTypeOK'
    <2> DEFINE line == [by |-> x, id |-> hand[x].id, of |-> hand[x].of,
                        prev |-> StoreHash, hash |-> Hash(hand[x].id, StoreHash)]
    <2>1. hand[x].id \in 1 .. MaxExports /\ hand[x].of \in Exported
      BY <1>3, HandTypes DEF LinkToLast, Links, StoreInv
    <2>2. StoreHash \in StoredDigest /\ Hash(hand[x].id, StoreHash) \in StoredDigest
      BY <2>1, StoreHashIsDigest, StoreHashFacts DEF StoreInv
    <2>3. line \in Stored
      BY <2>1, <2>2 DEF Stored
    <2>4. [at |-> "write", line |-> line] \in Linked
      BY <2>3 DEF Linked
    <2> QED BY <1>1, <1>3, <2>4 DEF LinkToLast, Turn, StoreInv, StoreTypeOK
  <1>4. ASSUME NEW x \in Exporters, StoreLine(x) PROVE StoreTypeOK'
    <2>1. hand[x].line \in Stored
      BY <1>4, HandTypes DEF StoreLine, Writes, StoreInv
    <2>2. store' \in Seq(Stored)
      BY <1>4, <2>1, AppendStored DEF StoreLine, StoreInv, StoreTypeOK
    <2> QED BY <1>1, <1>4, <2>2 DEF StoreLine, Turn, StoreInv, StoreTypeOK
  <1>5. ASSUME NEW x \in Exporters, TearStore(x) \/ End(x) PROVE StoreTypeOK'
    BY <1>1, <1>5 DEF TearStore, End, Turn, StoreInv, StoreTypeOK
  <1>6. CASE UNCHANGED storeVars
    BY <1>1, <1>6 DEF storeVars, StoreInv, StoreTypeOK
  <1> QED BY <1>2, <1>3, <1>4, <1>5, <1>6 DEF StoreNext

\* A step of one program and what the others hold.
LEMMA OthersKeep ==
    ASSUME StoreTypeOK, NEW x \in Exporters, NEW next, Turn(x, next)
    PROVE  hand'[x] = next /\ \A y \in Exporters : y # x => hand'[y] = hand[y]
  BY DEF Turn, StoreTypeOK

\* A checkpoint is the head of the chain when it is exported, and only
\* exporting makes new ones.
LEMMA StepOnChain ==
    ASSUME StoreInv, [StoreNext]_<<vars, storeVars>>
    PROVE  AllOnChain' /\ HandLinks'
  <1> USE DEF StoreInv
  <1>1. /\ \A i \in 1 .. Len(store) : store[i].of \in Exported /\ Names(store[i].of, log')
        /\ \A x \in Exporters : Links(x) => Names(hand[x].of, log')
        /\ \A x \in Exporters : Writes(x) => Names(hand[x].line.of, log')
    <2>1. \A c \in Exported : Names(c, log) => Names(c, log')
      BY PrefixIsStable, StoreStepIsChainStep
    <2>2. \A i \in 1 .. Len(store) : store[i].of \in Exported
      BY StoredTypes
    <2>3. \A x \in Exporters : Links(x) => hand[x].of \in Exported
      BY HandTypes
    <2>4. \A x \in Exporters : Writes(x) => hand[x].line.of \in Exported
      BY HandTypes DEF Stored
    <2> QED BY <2>1, <2>2, <2>3, <2>4 DEF AllOnChain
  <1>2. ASSUME NEW x \in Exporters, Export(x) PROVE AllOnChain' /\ HandLinks'
    <2> DEFINE next == [at |-> "link", id |-> exports + 1, of |-> ChainHead]
    <2>1. /\ hand'[x] = next /\ \A y \in Exporters : y # x => hand'[y] = hand[y]
          /\ store' = store /\ log' = log
      BY <1>2, OthersKeep DEF Export, vars
    <2>2. Names(next.of, log')
      BY <2>1, HeadNamesChain DEF StoreTypeOK
    <2> QED BY <1>1, <2>1, <2>2 DEF AllOnChain, HandLinks, Links, Writes
  <1>3. ASSUME NEW x \in Exporters, LinkToLast(x) PROVE AllOnChain' /\ HandLinks'
    <2> DEFINE line == [by |-> x, id |-> hand[x].id, of |-> hand[x].of,
                        prev |-> StoreHash, hash |-> Hash(hand[x].id, StoreHash)]
               next == [at |-> "write", line |-> line]
    <2>1. /\ hand'[x] = next /\ \A y \in Exporters : y # x => hand'[y] = hand[y]
          /\ store' = store /\ Links(x)
      BY <1>3, OthersKeep DEF LinkToLast, Links
    <2>2. Names(line.of, log')
      BY <1>1, <2>1
    <2>3. AllOnChain'
      BY <1>1, <2>1, <2>2 DEF AllOnChain, Links, Writes
    <2>4. line.prev \in {Genesis} \cup {store'[j].hash : j \in 1 .. Len(store')}
      BY <2>1, StoreHashIsDigest
    <2> QED BY <2>1, <2>3, <2>4 DEF HandLinks, Writes
  <1>4. ASSUME NEW x \in Exporters, StoreLine(x) PROVE AllOnChain' /\ HandLinks'
    <2> DEFINE n == Len(store)
    <2>1. /\ hand'[x] = Idle /\ \A y \in Exporters : y # x => hand'[y] = hand[y]
          /\ Writes(x)
      BY <1>4, OthersKeep DEF StoreLine, Writes
    <2>2. /\ Len(store') \in {n, n + 1} /\ n \in Nat
          /\ \A i \in 1 .. n : store'[i] = store[i]
          /\ Len(store') = n + 1 => store'[n + 1] = hand[x].line
      <3>1. hand[x].line \in Stored /\ store \in Seq(Stored)
        BY <2>1, HandTypes DEF StoreTypeOK
      <3> QED BY <1>4, <3>1, AppendStored DEF StoreLine
    <2>3. \A i \in 1 .. Len(store') : Names(store'[i].of, log')
      BY <1>1, <2>1, <2>2
    <2>4. AllOnChain'
      BY <1>1, <2>1, <2>3 DEF AllOnChain, Links, Writes, Idle
    <2>5. {store[j].hash : j \in 1 .. Len(store)} \subseteq {store'[j].hash : j \in 1 .. Len(store')}
      BY <2>2
    <2>6. HandLinks'
      <3> SUFFICES ASSUME NEW y \in Exporters, y # x, Writes(y), hand'[y] = hand[y]
                   PROVE  /\ hand'[y].line.by = y
                          /\ hand'[y].line.hash = Hash(hand'[y].line.id, hand'[y].line.prev)
                          /\ hand'[y].line.prev \in
                                {Genesis} \cup {store'[j].hash : j \in 1 .. Len(store')}
        BY <2>1 DEF HandLinks, Writes, Idle
      <3> QED BY <2>5 DEF HandLinks
    <2> QED BY <2>4, <2>6
  <1>5. ASSUME NEW x \in Exporters, TearStore(x) \/ End(x) PROVE AllOnChain' /\ HandLinks'
    <2>1. /\ hand'[x] = Idle /\ \A y \in Exporters : y # x => hand'[y] = hand[y]
          /\ store' = store
      BY <1>5, OthersKeep DEF TearStore, End
    <2> QED BY <1>1, <2>1 DEF AllOnChain, HandLinks, Links, Writes, Idle
  <1>6. CASE UNCHANGED storeVars
    BY <1>1, <1>6 DEF storeVars, AllOnChain, HandLinks, Links, Writes
  <1> QED BY <1>2, <1>3, <1>4, <1>5, <1>6 DEF StoreNext

LEMMA StepStoreInv == ASSUME StoreInv, [StoreNext]_<<vars, storeVars>> PROVE StoreInv'
  BY StepStoreTypes, StepOnChain, StoreStepIsChainStep, StepIInv DEF StoreInv

LEMMA SpecStoreInv == StoreSpec => []StoreInv
  BY InitStoreInv, StepStoreInv, PTL DEF StoreSpec

\* The store, the programs and the chain keep their types.
THEOREM StoreTypeCorrect == StoreSpec => []StoreTypeOK
  <1>1. StoreInv => StoreTypeOK
    BY DEF StoreInv
  <1> QED BY <1>1, SpecStoreInv, PTL

\* Whatever overlaps, fails or restarts, a checkpoint goes on naming a prefix
\* of the chain, and verify_checkpoint() accepts it exactly while the chain
\* can be listed, has no more lines and is signed with the same key.
THEOREM CheckpointsStayTrue == StoreSpec => []CheckpointsOnChain
  <1>1. StoreInv => CheckpointsOnChain
    <2> SUFFICES ASSUME StoreInv, NEW c \in Checkpoints
                 PROVE  /\ c.count <= Len(log)
                        /\ c.hash = LinkBefore(c.count + 1)
                        /\ CheckpointVerdict(c) = "valid"
                              <=> ~torn /\ c.count = Len(log) /\ c.sig = key
      BY DEF CheckpointsOnChain
    <2>1. c \in Exported /\ Names(c, log)
      <3>1. ASSUME NEW i \in DOMAIN store, c = store[i].of
            PROVE  c \in Exported /\ Names(c, log)
        <4>1. i \in 1 .. Len(store)
          BY <3>1 DEF StoreInv, StoreTypeOK
        <4> QED BY <3>1, <4>1, StoredTypes DEF AllOnChain, StoreInv
      <3>2. ASSUME NEW x \in Exporters, Links(x), c = hand[x].of
            PROVE  c \in Exported /\ Names(c, log)
        BY <3>2, HandTypes DEF AllOnChain, StoreInv
      <3>3. ASSUME NEW x \in Exporters, Writes(x), c = hand[x].line.of
            PROVE  c \in Exported /\ Names(c, log)
        BY <3>3, HandTypes DEF AllOnChain, StoreInv, Stored
      <3> QED BY <3>1, <3>2, <3>3 DEF Checkpoints, Links, Writes
    <2>2. c.count \in Nat /\ Len(log) \in Nat /\ (Len(log) = 0 <=> log = <<>>)
      BY <2>1 DEF Exported, StoreInv, IInv, TypeOK
    <2>3. c.count <= Len(log) /\ c.hash = LinkBefore(c.count + 1)
      BY <2>1, <2>2 DEF Names, LinkBefore
    <2>4. c.count = Len(log) => c.hash = LastHash
      BY <2>1, <2>2 DEF Names, LastHash
    <2>5. c = ChainHead <=> c.count = Len(log) /\ c.sig = key
      BY <2>1, <2>4 DEF ChainHead, Exported
    <2> QED BY <2>3, <2>5 DEF CheckpointVerdict
  <1> QED BY <1>1, SpecStoreInv, PTL
-----------------------------------------------------------------------------
(* Exports that have not overlapped.                                       *)

StoreLinks ==
    \A i \in 1 .. Len(store) :
        /\ store[i].prev = IF i = 1 THEN Genesis ELSE store[i - 1].hash
        /\ store[i].hash = Hash(store[i].id, store[i].prev)

\* No stored checkpoint is further than c.
NoneBeyond(c) == \A i \in 1 .. Len(store) : store[i].of.count <= c.count

\* At most one program exports; nobody has stored a line since it listed the
\* store, and its checkpoint is as far as any stored one.
OneAtATime ==
    ~crossed =>
        /\ StoreLinks
        /\ store # <<>> => NoneBeyond(Latest)
        /\ \A x, y \in Exporters : hand[x] # Idle /\ hand[y] # Idle => x = y
        /\ \A x \in Exporters : Links(x) => NoneBeyond(hand[x].of)
        /\ \A x \in Exporters : Writes(x) =>
              NoneBeyond(hand[x].line.of) /\ hand[x].line.prev = StoreHash

OneInv == StoreInv /\ OneAtATime

LEMMA InitOne == ASSUME StoreInit PROVE OneAtATime
  <1>1. store = <<>> /\ Len(store) = 0 /\ \A x \in Exporters : hand[x] = Idle
    BY DEF StoreInit
  <1>2. \A x \in Exporters : ~Links(x) /\ ~Writes(x)
    BY <1>1 DEF Links, Writes, Idle
  <1> QED BY <1>1, <1>2 DEF OneAtATime, StoreLinks

\* Every step keeps it: a program that begins during another's export sets
\* the flag.
LEMMA StepOne == ASSUME OneInv, [StoreNext]_<<vars, storeVars>> PROVE OneAtATime'
  <1> USE DEF OneInv, StoreInv
  <1>1. ASSUME NEW x \in Exporters, Export(x), ~crossed' PROVE OneAtATime'
    <2> DEFINE next == [at |-> "link", id |-> exports + 1, of |-> ChainHead]
    <2>1. /\ hand'[x] = next /\ \A y \in Exporters : y # x => hand'[y] = hand[y]
          /\ store' = store /\ ~crossed /\ \A y \in Exporters : y # x => hand[y] = Idle
      BY <1>1, OthersKeep DEF Export, Turn
    <2>2. \A i \in 1 .. Len(store) : store[i].of.count <= next.of.count
      <3>1. \A i \in 1 .. Len(store) : store[i].of.count <= Len(log)
        BY DEF AllOnChain, Names
      <3> QED BY <3>1, HeadNamesChain DEF StoreTypeOK
    <2>3. \A y \in Exporters : y # x => ~Links(y)' /\ ~Writes(y)' /\ hand'[y] = Idle
      BY <2>1, HandTypes DEF Links, Writes
    <2>4. hand'[x].of = next.of /\ ~Writes(x)'
      BY <2>1 DEF Writes
    <2>5. StoreLinks' /\ (store' # <<>> => NoneBeyond(Latest)')
      BY <2>1 DEF OneAtATime, StoreLinks, NoneBeyond, Latest
    <2>6. \A y, z \in Exporters : hand'[y] # Idle /\ hand'[z] # Idle => y = z
      BY <2>3
    <2>7. \A y \in Exporters : Links(y)' => NoneBeyond(hand[y].of)'
      BY <2>1, <2>2, <2>3, <2>4 DEF NoneBeyond
    <2> QED BY <2>3, <2>4, <2>5, <2>6, <2>7 DEF OneAtATime
  <1>2. ASSUME NEW x \in Exporters, LinkToLast(x), ~crossed' PROVE OneAtATime'
    <2> DEFINE line == [by |-> x, id |-> hand[x].id, of |-> hand[x].of,
                        prev |-> StoreHash, hash |-> Hash(hand[x].id, StoreHash)]
    <2>1. /\ hand'[x] = [at |-> "write", line |-> line]
          /\ \A y \in Exporters : y # x => hand'[y] = hand[y]
          /\ store' = store /\ ~crossed /\ Links(x)
          /\ \A y \in Exporters : y # x => hand[y] = Idle
      BY <1>2, OthersKeep DEF LinkToLast, Turn, Links
    <2>2. \A y \in Exporters : y # x => ~Links(y)' /\ ~Writes(y)' /\ hand'[y] = Idle
      BY <2>1, HandTypes DEF Links, Writes
    <2>3. hand'[x].line = line /\ ~Links(x)'
      BY <2>1 DEF Links
    <2>4. StoreLinks' /\ (store' # <<>> => NoneBeyond(Latest)') /\ StoreHash' = StoreHash
      BY <2>1 DEF OneAtATime, StoreLinks, NoneBeyond, Latest, StoreHash
    <2>5. NoneBeyond(line.of)
      BY <2>1 DEF OneAtATime
    <2>6. NoneBeyond(hand[x].line.of)' /\ hand'[x].line.prev = StoreHash'
      BY <2>1, <2>3, <2>4, <2>5 DEF NoneBeyond
    <2>7. \A y, z \in Exporters : hand'[y] # Idle /\ hand'[z] # Idle => y = z
      BY <2>2
    <2> QED BY <2>2, <2>3, <2>4, <2>6, <2>7 DEF OneAtATime
  <1>3. ASSUME NEW x \in Exporters, StoreLine(x) \/ TearStore(x) \/ End(x), ~crossed'
        PROVE  OneAtATime'
    <2>1. /\ hand'[x] = Idle /\ ~crossed /\ hand[x] # Idle
          /\ \A y \in Exporters : y # x => hand[y] = Idle /\ hand'[y] = Idle
      BY <1>3, OthersKeep, HandTypes DEF StoreLine, TearStore, End, Turn, Writes
    <2>2. \A y \in Exporters : hand'[y] = Idle /\ ~Links(y)' /\ ~Writes(y)'
      BY <2>1 DEF Links, Writes, Idle
    <2>3. CASE store' = store
      BY <2>1, <2>2, <2>3 DEF OneAtATime, StoreLinks, NoneBeyond, Latest
    <2>4. CASE StoreLine(x) /\ ~storeTorn
      <3> DEFINE n == Len(store)
                 line == hand[x].line
      <3>1. /\ line \in Stored /\ line.of.count \in Nat
            /\ line.prev = StoreHash /\ NoneBeyond(line.of)
            /\ line.hash = Hash(line.id, line.prev)
        BY <2>1, <2>4, HandTypes DEF StoreLine, Writes, OneAtATime, HandLinks, Stored, Exported
      <3>2. /\ Len(store') = n + 1 /\ n \in Nat /\ store'[n + 1] = line
            /\ \A i \in 1 .. n : store'[i] = store[i]
        BY <2>4, <3>1, AppendStored DEF StoreLine, StoreTypeOK
      <3>3. StoreHash = IF n = 0 THEN Genesis ELSE store'[n].hash
        <4>1. n = 0 <=> store = <<>>
          BY DEF StoreTypeOK
        <4> QED BY <3>2, <4>1 DEF StoreHash
      <3>4. StoreLinks'
        <4> SUFFICES ASSUME NEW i \in 1 .. n + 1
                     PROVE  /\ store'[i].prev = IF i = 1 THEN Genesis ELSE store'[i - 1].hash
                            /\ store'[i].hash = Hash(store'[i].id, store'[i].prev)
          BY <3>2 DEF StoreLinks
        <4>1. CASE i = n + 1
          BY <3>1, <3>2, <3>3, <4>1
        <4>2. CASE i \in 1 .. n
          <5>1. i # 1 => i - 1 \in 1 .. n
            BY <3>2, <4>2
          <5> QED BY <2>1, <3>2, <4>2, <5>1 DEF OneAtATime, StoreLinks
        <4> QED BY <3>2, <4>1, <4>2
      <3>5. \A i \in 1 .. n + 1 : store'[i].of.count <= line.of.count
        BY <3>1, <3>2 DEF NoneBeyond
      <3>6. NoneBeyond(Latest)'
        BY <3>2, <3>5 DEF NoneBeyond, Latest
      <3> QED BY <2>2, <3>4, <3>6 DEF OneAtATime
    <2> QED BY <1>3, <2>3, <2>4 DEF StoreLine, TearStore, End
  <1>4. CASE UNCHANGED storeVars
    BY <1>4 DEF storeVars, OneAtATime, StoreLinks, NoneBeyond, Latest, StoreHash, Links, Writes
  <1>5. CASE crossed'
    BY <1>5 DEF OneAtATime
  <1> QED BY <1>1, <1>2, <1>3, <1>4, <1>5 DEF StoreNext

LEMMA SpecOne == StoreSpec => []OneInv
  <1>1. StoreInit => OneInv
    BY InitStoreInv, InitOne DEF OneInv
  <1>2. OneInv /\ [StoreNext]_<<vars, storeVars>> => OneInv'
    BY StepStoreInv, StepOne DEF OneInv
  <1> QED BY <1>1, <1>2, PTL DEF StoreSpec

\* As long as no two programs export at once, whatever the chain goes through:
\* only a damaged line makes the store's verify() fail, and the last stored
\* checkpoint is the furthest.
THEOREM SerialStoreAdvances == StoreSpec => []StoreAdvances
  <1>1. OneInv => StoreAdvances
    <2> SUFFICES ASSUME OneInv, ~crossed
                 PROVE  /\ storeTorn \/ StoreVerify
                        /\ \A i \in DOMAIN store : store[i].of.count <= Latest.count
      BY DEF StoreAdvances
    <2>1. DOMAIN store = 1 .. Len(store)
      BY DEF OneInv, StoreInv, StoreTypeOK
    <2>2. storeTorn \/ StoreVerify
      BY <2>1 DEF OneInv, OneAtATime, StoreLinks, StoreVerify
    <2>3. ASSUME NEW i \in 1 .. Len(store) PROVE store[i].of.count <= Latest.count
      <3>1. store # <<>>
        OBVIOUS
      <3> QED BY <3>1 DEF OneInv, OneAtATime, NoneBeyond
    <2> QED BY <2>1, <2>2, <2>3
  <1> QED BY <1>1, SpecOne, PTL
-----------------------------------------------------------------------------
(* The store implements the promised log.                                  *)

\* The store as the promise sees it.
Entries == [i \in DOMAIN store |-> [by |-> store[i].by, id |-> store[i].id,
                prev |-> store[i].prev, hash |-> store[i].hash, sig |-> NoKey]]

\* Its entries are the lines, in their order.
LEMMA EntriesAreLines ==
    ASSUME StoreTypeOK
    PROVE  /\ Len(Entries) = Len(store)
           /\ \A i \in 1 .. Len(store) : Entries[i].hash = store[i].hash
           /\ Entries = <<>> <=> store = <<>>
  <1>1. DOMAIN store = 1 .. Len(store) /\ Len(store) \in Nat
    BY DEF StoreTypeOK
  <1>2. Len(Entries) = Len(store)
    BY <1>1 DEF Entries
  <1> QED BY <1>1, <1>2 DEF Entries, StoreTypeOK

\* Listing the store, tearing a line and ending are stutters, a second program
\* is a contention, and writing a line adds it.
THEOREM StoreKeepsPromise == StoreSpec => StoreImplementsLog
  <1>1. StoreInit => StoreLog!Init
    BY DEF StoreInit, StoreLog!Init
  <1>2. OneInv /\ [StoreNext]_<<vars, storeVars>>
            => [StoreLog!Add \/ StoreLog!Contend]_(StoreLog!vars)
    <2> SUFFICES ASSUME OneInv, [StoreNext]_<<vars, storeVars>>
                 PROVE  \/ StoreLog!Add \/ StoreLog!Contend
                        \/ UNCHANGED <<Entries, crossed>>
      BY DEF StoreLog!vars, Entries
    <2> USE DEF OneInv, StoreInv
    <2>1. CASE UNCHANGED store
      <3>1. UNCHANGED Entries
        BY <2>1 DEF Entries
      <3>2. crossed' = crossed \/ crossed' = TRUE
        BY DEF StoreNext, Export, LinkToLast, StoreLine, TearStore, End, Turn, storeVars, StoreTypeOK
      <3> QED BY <3>1, <3>2 DEF StoreLog!Contend, Entries
    <2>2. ASSUME NEW x \in Exporters, StoreLine(x), ~storeTorn PROVE StoreLog!Add
      <3> DEFINE n == Len(store)
                 line == hand[x].line
                 entry == [by |-> line.by, id |-> line.id, prev |-> line.prev,
                           hash |-> line.hash, sig |-> NoKey]
      <3>1. /\ line \in Stored /\ line.by = x
            /\ line.hash = Hash(line.id, line.prev)
            /\ line.prev \in {Genesis} \cup {store[j].hash : j \in 1 .. Len(store)}
        BY <2>2, HandTypes DEF StoreLine, Writes, HandLinks
      <3>2. /\ Len(store') = n + 1 /\ n \in Nat /\ store'[n + 1] = line
            /\ \A i \in 1 .. n : store'[i] = store[i]
            /\ DOMAIN store' = 1 .. n + 1 /\ DOMAIN store = 1 .. n
        BY <2>2, <3>1, AppendStored DEF StoreLine, StoreTypeOK
      <3>3. Entries' = Append(Entries, entry)
        BY <3>2 DEF Entries
      <3>4. UNCHANGED crossed
        BY <2>2, HandTypes DEF StoreLine, Turn, OneAtATime, Writes, StoreTypeOK
      <3>5. line.prev \in IF crossed THEN {Genesis} \cup {Entries[j].hash : j \in 1 .. Len(Entries)}
                          ELSE {IF Entries = <<>> THEN Genesis ELSE Entries[Len(Entries)].hash}
        <4>1. CASE crossed
          BY <3>1, <4>1, EntriesAreLines
        <4>2. CASE ~crossed
          <5>1. line.prev = StoreHash
            BY <2>2, <4>2 DEF StoreLine, Writes, OneAtATime
          <5>2. store # <<>> => Len(store) \in 1 .. Len(store)
            BY DEF StoreTypeOK
          <5> QED BY <4>2, <5>1, <5>2, EntriesAreLines DEF StoreHash
        <4> QED BY <4>1, <4>2
      <3>6. line.by \in Exporters /\ line.id \in 1 .. MaxExports
        BY <3>1 DEF Stored
      <3>7. entry = StoreLog!Entry(line.by, line.id, line.prev, NoKey)
        BY <3>1 DEF StoreLog!Entry
      <3>8. line.prev \in IF crossed THEN StoreLog!EarlierHashes ELSE {StoreLog!HeadHash}
        BY <3>5 DEF StoreLog!EarlierHashes, StoreLog!HeadHash, Entries
      <3>9. Entries' = Append(Entries, StoreLog!Entry(line.by, line.id, line.prev, NoKey))
        BY <3>3, <3>7
      <3> QED BY <3>4, <3>6, <3>8, <3>9 DEF StoreLog!Add, Entries
    <2> QED BY <2>1, <2>2 DEF StoreNext, Export, LinkToLast, StoreLine, TearStore, End, storeVars
  <1> QED BY <1>1, <1>2, SpecOne, PTL DEF StoreSpec, StoreImplementsLog, StoreLog!Spec
=============================================================================
