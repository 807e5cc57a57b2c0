----------------------------- MODULE AuditChain -----------------------------
(***************************************************************************)
(* AuditChain of packages/govmesh_common/audit.py: a JSONL file in which   *)
(* every event carries the digest of the event before it.                  *)
(*                                                                         *)
(* FastAPI runs the synchronous handlers of an app in a pool of threads,   *)
(* and append() takes no lock: it reads the whole file for the last hash   *)
(* and, later, opens it again to write its line.  The two are separate     *)
(* steps here.  A write may fail without a byte written, stop half way     *)
(* through the line or just before its end (a full disk, a power cut), or  *)
(* succeed and never be answered, and the server may be restarted, with    *)
(* another signing key, at any moment.                                     *)
(*                                                                         *)
(* append(event=...) keeps the event it is given, and POST /audit/events   *)
(* passes on the event_id and created_at of its client: nothing stops two  *)
(* requests, of one thread or of two, from appending one and the same      *)
(* event.                                                                  *)
(***************************************************************************)
EXTENDS Integers, Sequences, FiniteSets

CONSTANTS
    Writers,      \* the threads that serve requests
    Keys,         \* values of audit_signing_key, NoKey among them or not
    NoKey,        \* audit_signing_key is None
    EventId,      \* the events: identity, actor and content of each
    MaxLines,     \* bound: no append begins at a file of so many lines
    MayTear       \* whether a write may stop half way

ASSUME ConstantsAssumption ==
    /\ MaxLines \in Nat
    /\ MayTear \in BOOLEAN

\* SHA-256 as the code relies on it: the digest of an event, previous_hash
\* within it, tells which events it covers and in which order, and is not
\* GENESIS_HASH.
Digest == Seq(EventId)
Genesis == <<>>
Hash(e, d) == Append(d, e)

VARIABLES
    log,          \* the lines before the first damaged one, in file order
    torn,         \* a damaged line comes after them
    unended,      \* the last of them has no newline yet
    pending,      \* the line a thread in append() has built and will write
    acked,        \* how often append() returned to its caller, for each event
    key,          \* the signing key of the running server
    overlapped    \* history: an append has begun during another one

vars == <<log, torn, unended, pending, acked, key, overlapped>>

Line == [by : Writers, id : EventId, prev : Digest, hash : Digest, sig : Keys]
NoLine == [by |-> "nobody"]

TypeOK ==
    /\ log \in Seq(Line)
    /\ torn \in BOOLEAN /\ unended \in BOOLEAN
    /\ pending \in [Writers -> Line \cup {NoLine}]
    /\ acked \in [EventId -> Nat]
    /\ key \in Keys
    /\ overlapped \in BOOLEAN

-----------------------------------------------------------------------------
(* The reads: _last_hash, head, verify and verify_checkpoint.              *)

\* mutant: events[-2] in place of events[-1]
LastHashOffByOne ==
    IF Len(log) < 2 THEN Genesis ELSE log[Len(log) - 1].hash

LastHash == IF log = <<>> THEN Genesis ELSE log[Len(log)].hash

\* mutant: events[0] in place of events[-1]
ChainHeadOfFirst ==
    [count |-> Len(log), hash |-> IF log = <<>> THEN Genesis ELSE log[1].hash, sig |-> key]

\* The signature of a head says who signed: the hash is in the head already.
ChainHead == [count |-> Len(log), hash |-> LastHash, sig |-> key]

LinkBefore(i) == IF i = 1 THEN Genesis ELSE log[i - 1].hash

LinksValid == \A i \in 1 .. Len(log) :
                  /\ log[i].prev = LinkBefore(i)
                  /\ log[i].hash = Hash(log[i].id, log[i].prev)

SignaturesValid == key # NoKey => \A i \in 1 .. Len(log) : log[i].sig = key

Verify == ~torn /\ LinksValid /\ SignaturesValid

\* verify_checkpoint() of a checkpoint file: head() lists the chain, and an
\* error of list() is the caller's.
CheckpointVerdict(c) ==
    IF torn THEN "raises" ELSE IF c = ChainHead THEN "valid" ELSE "refused"

LinesOf(e) == {i \in 1 .. Len(log) : log[i].id = e}

-----------------------------------------------------------------------------
Init ==
    /\ log = <<>>
    /\ torn = FALSE /\ unended = FALSE
    /\ pending = [w \in Writers |-> NoLine]
    /\ acked = [e \in EventId |-> 0]
    /\ key \in Keys
    /\ overlapped = FALSE

Writing(w) == pending[w] # NoLine

\* mutant: the digest is computed before previous_hash is set
NewLineHashedEarly(w, e) ==
    [by |-> w, id |-> e, prev |-> LastHash, hash |-> Hash(e, Genesis), sig |-> key]

\* The event as append() will store it: linked to the last hash it has read.
NewLine(w, e) ==
    [by |-> w, id |-> e, prev |-> LastHash, hash |-> Hash(e, LastHash), sig |-> key]

\* append() down to the digest.  _last_hash() lists the file, and list()
\* raises on a damaged line: then the request ends here with an error.
ReadLastHash(w, e) ==
    /\ ~Writing(w)
    /\ Len(log) < MaxLines
    /\ ~torn
    /\ pending' = [pending EXCEPT ![w] = NewLine(w, e)]
    /\ overlapped' = (overlapped \/ \E v \in Writers : Writing(v))
    /\ UNCHANGED <<log, torn, unended, acked, key>>

\* The thread leaves append().
Leave(w) ==
    /\ Writing(w)
    /\ pending' = [pending EXCEPT ![w] = NoLine]
    /\ UNCHANGED <<key, overlapped>>

\* mutant: the file is opened with mode "w" in place of "a"
WriteLineTruncating(w) ==
    /\ Leave(w)
    /\ IF unended \/ torn
       THEN torn' = TRUE /\ UNCHANGED log
       ELSE log' = <<pending[w]>> /\ UNCHANGED torn
    /\ acked' \in {acked, [acked EXCEPT ![pending[w].id] = @ + 1]}
    /\ UNCHANGED unended

\* The line is written, and append() returns to its caller unless the server
\* ends.  A line without newline and the one written after it are one line,
\* which is no JSON; what comes after a damaged line cannot be listed.
WriteLine(w) ==
    /\ Leave(w)
    /\ IF unended \/ torn
       THEN torn' = TRUE /\ UNCHANGED log
       ELSE log' = Append(log, pending[w]) /\ UNCHANGED torn
    /\ acked' \in {acked, [acked EXCEPT ![pending[w].id] = @ + 1]}
    /\ UNCHANGED unended

\* mutant: the error of the write is swallowed and the event returned
FailWriteSilently(w) ==
    /\ Leave(w)
    /\ acked' = [acked EXCEPT ![pending[w].id] = @ + 1]
    /\ UNCHANGED <<log, torn, unended>>

\* The write raises before a byte reaches the file.
FailWrite(w) ==
    /\ Leave(w)
    /\ UNCHANGED <<log, torn, unended, acked>>

\* The write stops half way through the line, or before its newline.
TearWrite(w) ==
    /\ MayTear
    /\ Leave(w)
    /\ \/ torn' = TRUE /\ UNCHANGED <<log, unended>>
       \/ /\ ~torn /\ ~unended
          /\ log' = Append(log, pending[w]) /\ unended' = TRUE
          /\ UNCHANGED torn
    /\ UNCHANGED acked

\* The process ends, its requests with it, and starts again on the same file.
Restart ==
    /\ pending' = [w \in Writers |-> NoLine]
    /\ key' \in Keys
    /\ UNCHANGED <<log, torn, unended, acked, overlapped>>

Next ==
    \/ \E w \in Writers :
          \/ \E e \in EventId : ReadLastHash(w, e)
          \/ WriteLine(w)
          \/ FailWrite(w)
          \/ TearWrite(w)
    \/ Restart

Spec == Init /\ [][Next]_vars

-----------------------------------------------------------------------------
(* Properties.                                                             *)

\* However appends interleave, every line links to a line before it or to
\* the genesis hash: the file is a tree of events, none hangs in the air.
LinksResolve ==
    \A i \in 1 .. Len(log) :
        log[i].prev \in {Genesis} \cup {log[j].hash : j \in 1 .. i - 1}

\* A thread links two of its lines to one predecessor only after two threads
\* have appended the same event there at once, so that the predecessor's
\* digest stands in the file twice: apart from that, append() never forks
\* its own chain.
OwnLinesNeverFork ==
    \A i \in 1 .. Len(log) : \A j \in i + 1 .. Len(log) :
        log[i].prev = log[j].prev /\ log[i].by = log[j].by =>
            \E a, b \in 1 .. j - 1 :
                log[a].hash = log[b].hash /\ log[a].by # log[b].by

\* An event stands in the file at least as often as its append() returned to
\* a caller, on whatever threads, unless the file is damaged.
AckedReadable ==
    ~torn => \A e \in EventId : acked[e] <= Cardinality(LinesOf(e))

\* As long as appends have not overlapped, whatever fails and restarts,
\* verify() only fails for a damaged line or one signed with another key.
ChainVerifies ==
    ~overlapped /\ ~torn /\ ~Verify
        => key # NoKey /\ \E i \in 1 .. Len(log) : log[i].sig # key

\* What "Append-only JSONL audit hash chain" (audit.py) and the flow test,
\* which asserts {"valid": true} after its requests, say of the chain.
AlwaysVerifies == Verify

\* The lines on disk only ever grow at their end, each linked to the one
\* before it - to some earlier one once appends have overlapped: the file
\* implements the promised log.
Promise == INSTANCE AuditLog WITH entries <- log, contended <- overlapped
ImplementsLog == Promise!Spec
=============================================================================
