------------------------------ MODULE AuditLog ------------------------------
(***************************************************************************)
(* What packages/govmesh_common/audit.py promises its callers: a log that  *)
(* only grows at its end, each entry linked, when it is added, to the      *)
(* entry before it - or, once two appends have contended for the log, to   *)
(* some earlier one.  Appending is one atomic step here and two steps in   *)
(* AuditChain, which implements this specification.                        *)
(***************************************************************************)
EXTENDS Sequences, Integers

CONSTANTS
    Writers,      \* the threads that append
    EventId,      \* identities of audit events
    Keys,         \* signing keys a deployment may run with
    Genesis,      \* GENESIS_HASH, the link of the first entry
    Hash(_, _)    \* Hash(event, previous digest)

VARIABLES
    entries,      \* the log
    contended     \* whether two appends have overlapped

vars == <<entries, contended>>

HeadHash == IF entries = <<>> THEN Genesis ELSE entries[Len(entries)].hash

EarlierHashes == {Genesis} \cup {entries[i].hash : i \in 1 .. Len(entries)}

Entry(w, e, d, k) ==
    [by |-> w, id |-> e, prev |-> d, hash |-> Hash(e, d), sig |-> k]

Init == entries = <<>> /\ contended = FALSE

Add == \E w \in Writers, e \in EventId, k \in Keys :
          \E d \in IF contended THEN EarlierHashes ELSE {HeadHash} :
              /\ entries' = Append(entries, Entry(w, e, d, k))
              /\ UNCHANGED contended

Contend == contended' = TRUE /\ UNCHANGED entries

Spec == Init /\ [][Add \/ Contend]_vars
=============================================================================
