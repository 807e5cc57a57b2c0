---------------------------- MODULE ModelRegistry ----------------------------
(***************************************************************************)
(* ModelRegistry of packages/govmesh_runtime/model_registry.py: the local  *)
(* models a deployment knows, with the digest and the licence review of    *)
(* each, kept as one JSON list in a file that the programs of a machine    *)
(* share.                                                                  *)
(*                                                                         *)
(* Every change reads the whole list, edits it and writes it back, with no *)
(* lock.  write_text() truncates the file when it opens it and fills it    *)
(* afterwards, so other programs may read it in between - and find no JSON *)
(* at all - or write it too, and a program may end there.                  *)
(***************************************************************************)
EXTENDS Integers

CONSTANTS
    Models,       \* model ids that may be issued
    Callers,      \* the programs that use the registry
    Paths,        \* model files
    Bytes,        \* contents of model files; a digest is named by its content
    Missing,      \* there is no file at the path
    NoDigest      \* "0" * 64, the sha256 of a model without a file

ASSUME ModelAssumption == Missing \notin Bytes /\ NoDigest \notin Bytes

VARIABLES
    disk,         \* the model files
    file,         \* the registry file
    frame,        \* the call each program is in
    issued,       \* model id -> the record register_local_model made
    asked,        \* history: models approve_license has been called for
    answered,     \* history: calls that have returned, <<model, approved>>
    overlapped,   \* history: two calls have been in progress at once
    cutShort      \* history: a program has ended while writing the file

vars == <<disk, file, frame, issued, asked, answered, overlapped, cutShort>>

Absent == [provider |-> "absent"]

Providers == {"llama.cpp", "ollama", "mock"}

\* approved and license_review_status are set together, by one call.
Record == [provider : Providers, path : Paths,
           sha : Bytes \cup {NoDigest}, approved : BOOLEAN]

\* What the file may hold: a list of records, or nothing json.loads() takes.
Listing == [Models -> Record \cup {Absent}]
Text(list) == [state |-> "list", list |-> list]
NoFile == [state |-> "absent"]
Truncated == [state |-> "truncated"]
Garbled == [state |-> "garbled"]
Readable == file.state = "list"

Idle == [at |-> "idle"]
Busy == [at : {"open", "fill"}, list : Listing, about : SUBSET (Models \X BOOLEAN)]

TypeOK ==
    /\ disk \in [Paths -> Bytes \cup {Missing}]
    /\ file \in [state : {"list"}, list : Listing] \cup {NoFile, Truncated, Garbled}
    /\ frame \in [Callers -> {Idle} \cup Busy]
    /\ issued \in Listing
    /\ asked \subseteq Models
    /\ answered \subseteq Models \X BOOLEAN
    /\ overlapped \in BOOLEAN /\ cutShort \in BOOLEAN

Init ==
    /\ disk \in [Paths -> Bytes \cup {Missing}]
    /\ file = NoFile
    /\ frame = [c \in Callers |-> Idle]
    /\ issued = [m \in Models |-> Absent]
    /\ asked = {}
    /\ answered = {}
    /\ overlapped = FALSE /\ cutShort = FALSE

-----------------------------------------------------------------------------
\* One step of the call that c is in.
Step(c, next) ==
    /\ frame' = [frame EXCEPT ![c] = next]
    /\ overlapped' = (overlapped \/ \E d \in Callers \ {c} : frame[d] # Idle)

Writing(list, about) == [at |-> "open", list |-> list, about |-> about]

\* The constructor writes an empty list where there is no file.
Create(c) ==
    /\ frame[c] = Idle
    /\ file = NoFile
    /\ Step(c, Writing([m \in Models |-> Absent], {}))
    /\ UNCHANGED <<disk, file, issued, asked, answered, cutShort>>

NewRecord(provider, p) ==
    [provider |-> provider, path |-> p, approved |-> FALSE,
     sha |-> IF disk[p] = Missing THEN NoDigest ELSE disk[p]]

\* register_local_model, up to the list it will write.  Only a mock model
\* may do without its file.
Register(c, m, provider, p) ==
    /\ frame[c] = Idle
    /\ provider # "mock" => disk[p] # Missing
    /\ Readable
    /\ issued[m] = Absent
    /\ issued' = [issued EXCEPT ![m] = NewRecord(provider, p)]
    /\ Step(c, Writing([file.list EXCEPT ![m] = NewRecord(provider, p)], {<<m, FALSE>>}))
    /\ UNCHANGED <<disk, file, asked, answered, cutShort>>

\* mutant: approving hashes the model file again
ApprovedRehashing(list, m) ==
    [list EXCEPT ![m] = [NewRecord(@.provider, @.path) EXCEPT !.approved = TRUE]]

Approved(list, m) == [list EXCEPT ![m].approved = TRUE]

\* approve_license, up to the list it will write; KeyError if m is not there.
Approve(c, m) ==
    /\ frame[c] = Idle
    /\ Readable
    /\ file.list[m] # Absent
    /\ asked' = asked \cup {m}
    /\ Step(c, Writing(Approved(file.list, m), {<<m, TRUE>>}))
    /\ UNCHANGED <<disk, file, issued, answered, cutShort>>

\* write_text() opens the file, which empties it ...
OpenFile(c) ==
    /\ frame[c].at = "open"
    /\ file' = Truncated
    /\ Step(c, [frame[c] EXCEPT !.at = "fill"])
    /\ UNCHANGED <<disk, issued, asked, answered, cutShort>>

\* mutant: only the record the call is about is written
FillWithOne(c) ==
    /\ frame[c].at = "fill"
    /\ file' = Text([m \in Models |-> IF \E a \in frame[c].about : a[1] = m
                                      THEN frame[c].list[m] ELSE Absent])
    /\ answered' = answered \cup frame[c].about
    /\ Step(c, Idle)
    /\ UNCHANGED <<disk, issued, asked, cutShort>>

\* ... and writes from its start.  What somebody else has written meanwhile is
\* overwritten, but for the rest of a longer text.
FillFile(c) ==
    /\ frame[c].at = "fill"
    /\ \/ file' = Text(frame[c].list)
       \/ file # Truncated /\ file' = Garbled
    /\ answered' = answered \cup frame[c].about
    /\ Step(c, Idle)
    /\ UNCHANGED <<disk, issued, asked, cutShort>>

\* The program ends in the middle of a call.
End(c) ==
    /\ frame[c] # Idle
    /\ Step(c, Idle)
    /\ cutShort' = (cutShort \/ frame[c].at = "fill")
    /\ UNCHANGED <<disk, file, issued, asked, answered>>

\* Somebody replaces, adds or removes a model file.
Replace(p, b) ==
    /\ disk[p] # b
    /\ disk' = [disk EXCEPT ![p] = b]
    /\ UNCHANGED <<file, frame, issued, asked, answered, overlapped, cutShort>>

Calls ==
    \E c \in Callers :
        \/ Create(c)
        \/ \E m \in Models, p \in Paths, v \in Providers : Register(c, m, v, p)
        \/ \E m \in Models : Approve(c, m)
        \/ OpenFile(c)
        \/ FillFile(c)
        \/ End(c)

-----------------------------------------------------------------------------
(* Properties.                                                             *)

\* The listings that are anywhere: in the file, or about to be written.
Listings == {frame[c].list : c \in {d \in Callers : frame[d] # Idle}}
            \cup (IF Readable THEN {file.list} ELSE {})

Records(m) == {list[m] : list \in Listings} \ {Absent}

\* Without overlap, and unless a program has ended while writing: between
\* calls the file holds a list and every call that has returned is in it.
AnsweredIsStored ==
    ~overlapped /\ ~cutShort /\ (\A c \in Callers : frame[c] = Idle) /\ file # NoFile =>
        /\ Readable
        /\ \A a \in answered : file.list[a[1]] # Absent /\ (a[2] => file.list[a[1]].approved)

\* However calls overlap and files change: a record keeps the digest and the
\* provider it was registered with, and is approved only where somebody has
\* asked for it, so an approval is one of those bytes.
RecordIsOfRegistration ==
    \A m \in Models : \A r \in Records(m) :
        /\ [r EXCEPT !.approved = FALSE] = issued[m]
        /\ r.approved => m \in asked
=============================================================================
