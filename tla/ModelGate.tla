------------------------------ MODULE ModelGate ------------------------------
(***************************************************************************)
(* The llama.cpp provider (packages/govmesh_runtime/providers.py) on top   *)
(* of the registry: a runtime takes an approved record from the registry,  *)
(* builds a provider from it, and for every prompt checks the model file   *)
(* against the digest of the record before it starts the executable on it. *)
(*                                                                         *)
(* The record is read once and the file twice: the registry may change     *)
(* after the first, and the file between the check and the start.  The     *)
(* executable is checked in the same way and is left out.                  *)
(***************************************************************************)
EXTENDS ModelRegistry

CONSTANT Runtimes     \* the programs that generate

VARIABLES
    provider,     \* the provider each runtime has built
    runs          \* history: what has been started

gateVars == <<vars, provider, runs>>

NoProvider == [at |-> "none"]
Provider == [at : {"ready", "checked"}, model : Models, of : Record, swapped : BOOLEAN]
Run == [model : Models, bytes : Bytes, swapped : BOOLEAN]

GateTypeOK ==
    /\ TypeOK
    /\ provider \in [Runtimes -> {NoProvider} \cup Provider]
    /\ runs \subseteq Run

GateInit ==
    /\ Init
    /\ provider = [r \in Runtimes |-> NoProvider]
    /\ runs = {}

Become(r, state) == provider' = [provider EXCEPT ![r] = state]

-----------------------------------------------------------------------------
\* mutant: get() in place of get_approved(), and from_model_record trusts it
LoadAny(r, m) ==
    /\ provider[r] = NoProvider
    /\ Readable
    /\ file.list[m] # Absent
    /\ file.list[m].provider = "llama.cpp"
    /\ Become(r, [at |-> "ready", model |-> m, of |-> file.list[m], swapped |-> FALSE])
    /\ UNCHANGED <<vars, runs>>

\* get_approved and from_model_record: the record has to be approved and for
\* llama.cpp.
Load(r, m) ==
    /\ provider[r] = NoProvider
    /\ Readable
    /\ file.list[m] # Absent
    /\ file.list[m].approved
    /\ file.list[m].provider = "llama.cpp"
    /\ Become(r, [at |-> "ready", model |-> m, of |-> file.list[m], swapped |-> FALSE])
    /\ UNCHANGED <<vars, runs>>

\* mutant: the file only has to be there
CheckExists(r) ==
    /\ provider[r].at = "ready"
    /\ disk[provider[r].of.path] # Missing
    /\ Become(r, [provider[r] EXCEPT !.at = "checked", !.swapped = FALSE])
    /\ UNCHANGED <<vars, runs>>

\* generate(), _verify_integrity: the file is there and has the digest.
Check(r) ==
    /\ provider[r].at = "ready"
    /\ disk[provider[r].of.path] = provider[r].of.sha
    /\ Become(r, [provider[r] EXCEPT !.at = "checked", !.swapped = FALSE])
    /\ UNCHANGED <<vars, runs>>

\* subprocess.run: the executable opens the model file by its path, or fails
\* on a missing one.  The provider can be asked again.
Start(r) ==
    /\ provider[r].at = "checked"
    /\ LET bytes == disk[provider[r].of.path]
       IN  runs' = IF bytes = Missing THEN runs
                   ELSE runs \cup {[model |-> provider[r].model, bytes |-> bytes,
                                    swapped |-> provider[r].swapped]}
    /\ Become(r, [provider[r] EXCEPT !.at = "ready", !.swapped = FALSE])
    /\ UNCHANGED vars

\* The runtime ends, or drops its provider.
Drop(r) ==
    /\ provider[r] # NoProvider
    /\ Become(r, NoProvider)
    /\ UNCHANGED <<vars, runs>>

\* A model file changes under the runtimes.
Swap(p, b) ==
    /\ Replace(p, b)
    /\ provider' = [r \in Runtimes |->
            IF provider[r].at = "checked" /\ provider[r].of.path = p
            THEN [provider[r] EXCEPT !.swapped = TRUE] ELSE provider[r]]
    /\ UNCHANGED runs

GateNext ==
    \/ Calls /\ UNCHANGED <<provider, runs>>
    \/ \E r \in Runtimes :
          \/ \E m \in Models : Load(r, m)
          \/ Check(r) \/ Start(r) \/ Drop(r)
    \/ \E p \in Paths, b \in Bytes \cup {Missing} : Swap(p, b)

GateSpec == GateInit /\ [][GateNext]_gateVars

-----------------------------------------------------------------------------
(* Properties.                                                             *)

\* Whatever overlaps: a model that was started is a llama.cpp model whose
\* approval was asked for, and its bytes are those that were registered,
\* unless the file was replaced between the check and the start.
StartedAsRegistered ==
    \A s \in runs :
        /\ s.model \in asked
        /\ issued[s.model].provider = "llama.cpp"
        /\ ~s.swapped => s.bytes = issued[s.model].sha

\* Without overlap, and unless a program has ended while writing the file: a
\* provider that was built is of a model the registry still has as approved,
\* whenever the registry can be read.
LoadedIsApproved ==
    ~overlapped /\ ~cutShort /\ Readable =>
        \A r \in Runtimes : provider[r] # NoProvider =>
            file.list[provider[r].model] = provider[r].of
=============================================================================
