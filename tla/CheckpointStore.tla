--------------------------- MODULE CheckpointStore ---------------------------
(***************************************************************************)
(* CheckpointStore of packages/govmesh_common/checkpoint_store.py, where   *)
(* the heads of an audit chain are kept: programs export a checkpoint of   *)
(* the chain of AuditChain and append it to a second file of linked lines, *)
(* while the server goes on appending events, fails and restarts.          *)
(*                                                                         *)
(* append() takes no lock either: it lists the store for its last digest   *)
(* and writes its line later.  A program may end, or its write stop half   *)
(* way, in between.                                                        *)
(***************************************************************************)
EXTENDS AuditChain

CONSTANTS
    Exporters,    \* the programs that export checkpoints
    MaxExports    \* bound: checkpoints the model exports

\* A checkpoint carries the time it was created at: no two are alike, and the
\* number of its export stands for what _hash_checkpoint covers.
ASSUME ExportsAssumption == MaxExports \in Nat

VARIABLES
    store,        \* the lines list() of the store can read, in file order
    storeTorn,    \* the store holds a damaged line after them
    hand,         \* what each program is about to do
    exports,      \* checkpoints exported so far
    crossed       \* history: two programs have been exporting at once

storeVars == <<store, storeTorn, hand, exports, crossed>>

Exported == [count : Nat, hash : Digest, sig : Keys]
StoredDigest == Seq(1 .. MaxExports)
Stored == [by : Exporters, id : 1 .. MaxExports, of : Exported,
           prev : StoredDigest, hash : StoredDigest]
Idle == [at |-> "idle"]
Holding == [at : {"link"}, id : 1 .. MaxExports, of : Exported]
Linked == [at : {"write"}, line : Stored]

StoreTypeOK ==
    /\ TypeOK
    /\ store \in Seq(Stored)
    /\ storeTorn \in BOOLEAN
    /\ hand \in [Exporters -> {Idle} \cup Holding \cup Linked]
    /\ exports \in 0 .. MaxExports
    /\ crossed \in BOOLEAN

StoreInit ==
    /\ Init
    /\ store = <<>> /\ storeTorn = FALSE
    /\ hand = [x \in Exporters |-> Idle]
    /\ exports = 0 /\ crossed = FALSE

-----------------------------------------------------------------------------
(* The reads: _last_hash, verify and latest_for_source.                    *)

\* mutant: items[-2] in place of items[-1]
StoreHashOffByOne == IF Len(store) < 2 THEN Genesis ELSE store[Len(store) - 1].hash

StoreHash == IF store = <<>> THEN Genesis ELSE store[Len(store)].hash

StoreVerify ==
    /\ ~storeTorn
    /\ \A i \in DOMAIN store :
          /\ store[i].prev = IF i = 1 THEN Genesis ELSE store[i - 1].hash
          /\ store[i].hash = Hash(store[i].id, store[i].prev)

Latest == store[Len(store)].of

-----------------------------------------------------------------------------
\* What a program does next, and whether another one is under way.
Turn(x, next) ==
    /\ hand' = [hand EXCEPT ![x] = next]
    /\ crossed' = (crossed \/ \E y \in Exporters \ {x} : hand[y] # Idle)

\* export_checkpoint() of the chain, whose result is then to be stored: head()
\* lists the file, and fails on a damaged one.
Export(x) ==
    /\ hand[x] = Idle
    /\ exports < MaxExports
    /\ ~torn
    /\ exports' = exports + 1
    /\ Turn(x, [at |-> "link", id |-> exports + 1, of |-> ChainHead])
    /\ UNCHANGED <<store, storeTorn, vars>>

\* append() down to the digest; it raises where the store is damaged.
LinkToLast(x) ==
    /\ hand[x].at = "link"
    /\ ~storeTorn
    /\ Turn(x, [at |-> "write",
                line |-> [by |-> x, id |-> hand[x].id, of |-> hand[x].of,
                          prev |-> StoreHash, hash |-> Hash(hand[x].id, StoreHash)]])
    /\ UNCHANGED <<store, storeTorn, exports, vars>>

\* mutant: the file is opened with mode "w" in place of "a"
StoreLineTruncating(x) ==
    /\ hand[x].at = "write"
    /\ store' = IF storeTorn THEN store ELSE <<hand[x].line>>
    /\ Turn(x, Idle)
    /\ UNCHANGED <<storeTorn, exports, vars>>

StoreLine(x) ==
    /\ hand[x].at = "write"
    /\ store' = IF storeTorn THEN store ELSE Append(store, hand[x].line)
    /\ Turn(x, Idle)
    /\ UNCHANGED <<storeTorn, exports, vars>>

\* The write stops half way through the line.
TearStore(x) ==
    /\ MayTear
    /\ hand[x].at = "write"
    /\ storeTorn' = TRUE
    /\ Turn(x, Idle)
    /\ UNCHANGED <<store, exports, vars>>

\* The program ends, with an error or without.
End(x) ==
    /\ hand[x] # Idle
    /\ Turn(x, Idle)
    /\ UNCHANGED <<store, storeTorn, exports, vars>>

StoreNext ==
    \/ \E x \in Exporters :
          Export(x) \/ LinkToLast(x) \/ StoreLine(x) \/ TearStore(x) \/ End(x)
    \/ /\ UNCHANGED storeVars
       /\ \/ \E w \in Writers :
                \/ \E e \in EventId : ReadLastHash(w, e)
                \/ WriteLine(w) \/ FailWrite(w) \/ TearWrite(w)
          \/ Restart

StoreSpec == StoreInit /\ [][StoreNext]_<<vars, storeVars>>

-----------------------------------------------------------------------------
(* Properties.                                                             *)

\* The checkpoints that are stored or under way.
Checkpoints ==
    {store[i].of : i \in DOMAIN store}
    \cup {hand[x].of : x \in {y \in Exporters : hand[y].at = "link"}}
    \cup {hand[x].line.of : x \in {y \in Exporters : hand[y].at = "write"}}

\* However appends overlap, fail and restart after it, and however often one
\* event is appended: a checkpoint names a prefix of the file for ever.
\* verify_checkpoint() accepts it exactly while the file can be listed, no
\* line has been added and the key is the one it was exported with.
CheckpointsOnChain ==
    \A c \in Checkpoints :
        /\ c.count <= Len(log)
        /\ c.hash = LinkBefore(c.count + 1)
        /\ CheckpointVerdict(c) = "valid"
              <=> ~torn /\ c.count = Len(log) /\ c.sig = key

\* As long as two programs have not exported at once: the store can be
\* verified unless a line of it is damaged, and the chain it tells of never
\* gets shorter, so that latest_for_source() is the furthest checkpoint.
StoreAdvances ==
    ~crossed =>
        /\ storeTorn \/ StoreVerify
        /\ \A i \in DOMAIN store : store[i].of.count <= Latest.count

\* The store is a log of the same kind as the chain it keeps the heads of.
StoreLog == INSTANCE AuditLog WITH
    Writers <- Exporters, EventId <- 1 .. MaxExports, Keys <- {NoKey},
    entries <- [i \in DOMAIN store |-> [by |-> store[i].by, id |-> store[i].id,
                   prev |-> store[i].prev, hash |-> store[i].hash, sig |-> NoKey]],
    contended <- crossed
StoreImplementsLog == StoreLog!Spec
=============================================================================
