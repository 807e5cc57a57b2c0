----------------------------- MODULE Inspection -----------------------------
(***************************************************************************)
(* What the quarantine gateway sees in a file: inspect_file() of           *)
(* packages/govmesh_quarantine/inspection.py and the outcome of            *)
(* sanitize_file() of cdr.py.                                              *)
(*                                                                         *)
(* A file is its suffix, whether zipfile takes it for an archive and can   *)
(* read it, the entries of the archive, and its marks: where, in bytes     *)
(* from the start, something a signature rule looks for has ended.         *)
(***************************************************************************)
EXTENDS Integers, Sequences
LOCAL INSTANCE Functions

CONSTANTS
    Files,        \* files that are uploaded
    Rules,        \* SIGNATURE_RULES
    MaxEntries,   \* MAX_ARCHIVE_ENTRIES
    MaxBytes,     \* MAX_ARCHIVE_UNCOMPRESSED_BYTES
    MaxSample,    \* MAX_TEXT_SCAN_BYTES
    MaxRatio      \* how many times its packed size an entry may have, 100

\* What a suffix is to the code: one of RISKY_EXTENSIONS, ARCHIVE_EXTENSIONS,
\* TEXT_EXTENSIONS, or of none of them.
Suffixes == {"risky", "archive", "text", "other"}
Entry == [unsafe : BOOLEAN, suffix : Suffixes, size : Nat, packed : Nat]
Mark == [rule : Rules, ends : Nat]

ASSUME FilesAssumption ==
    \A f \in Files : /\ f.suffix \in Suffixes /\ f.marks \subseteq Mark
                     /\ f.zip \in {"none", "archive", "broken"} /\ f.entries \in Seq(Entry)

ASSUME LimitsAssumption ==
    MaxEntries \in Nat /\ MaxBytes \in Nat /\ MaxSample \in Nat /\ MaxRatio \in Nat

Kinds == Rules \cup {"risky_extension", "archive_too_many_entries", "archive_path_traversal",
            "risky_archive_entry", "nested_archive", "archive_high_compression_ratio",
            "archive_uncompressed_size_limit"}

When(condition, kind) == IF condition THEN {kind} ELSE {}

\* mutant: the ratio is an integer quotient
EntryFindingsRounded(e) ==
    IF e.unsafe THEN {"archive_path_traversal"}
    ELSE When(e.suffix = "risky", "risky_archive_entry")
         \cup When(e.suffix = "archive", "nested_archive")
         \cup When(e.packed # 0 /\ e.size \div e.packed > MaxRatio, "archive_high_compression_ratio")

\* An entry with an unsafe name is not looked at any further.
EntryFindings(e) ==
    IF e.unsafe THEN {"archive_path_traversal"}
    ELSE When(e.suffix = "risky", "risky_archive_entry")
         \cup When(e.suffix = "archive", "nested_archive")
         \cup When(e.packed # 0 /\ e.size > MaxRatio * e.packed, "archive_high_compression_ratio")

TotalSize(entries) == FoldFunction(+, 0, [k \in DOMAIN entries |-> entries[k].size])

ArchiveFindings(entries) ==
    When(Len(entries) > MaxEntries, "archive_too_many_entries")
    \cup (UNION {EntryFindings(entries[k]) : k \in DOMAIN entries})
    \cup When(TotalSize(entries) > MaxBytes, "archive_uncompressed_size_limit")

\* inspect_file() raises for what only looks like an archive.
Inspectable(f) == f.zip # "broken"

\* The finding_kinds() of a report.
Findings(f) ==
    When(f.suffix = "risky", "risky_extension")
    \cup (IF f.zip = "archive" THEN ArchiveFindings(f.entries) ELSE {})
    \cup {m.rule : m \in {n \in f.marks : n.ends <= MaxSample}}

\* The status of a CDRReport.
Sanitized(f) == IF f.suffix = "text" THEN "sanitized" ELSE "manual_review_required"

\* Taking the archive apart writes to no other place, leaves no program and no
\* archive behind, and fills no disk, be it by one entry or by all.
SafeToUnpack(entries) ==
    /\ \A k \in DOMAIN entries :
          /\ ~entries[k].unsafe /\ entries[k].suffix \notin {"risky", "archive"}
          /\ entries[k].packed > 0 => entries[k].size <= entries[k].packed * MaxRatio
    /\ ~(Len(entries) > MaxEntries) /\ ~(TotalSize(entries) > MaxBytes)

\* What an approval is meant to vouch for; marks that lie beyond the sample, as
\* an upload of up to 10 MB may have them, it cannot.
Harmless(f) ==
    /\ f.suffix # "risky"
    /\ \A m \in f.marks : m.ends > MaxSample
    /\ f.zip # "none" => SafeToUnpack(f.entries)
=============================================================================
